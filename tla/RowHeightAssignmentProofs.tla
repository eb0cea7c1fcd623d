----------------------- MODULE RowHeightAssignmentProofs -----------------------
(***************************************************************************)
(* The densities hold for every number of rows and every score, and so     *)
(* does what the old solver does about its pairs (OldRowHeights, below).   *)
(***************************************************************************)
EXTENDS RowHeightAssignment, FiniteLemmas, TLAPS

\* There are as many pairs as fit in the rows, and a number of them.
LEMMA NumbersOfPairs ==
  /\ NumPairs \in Nat
  /\ 2 * NumPairs =< NumRows /\ NumRows =< 2 * NumPairs + 1
  /\ \A p \in Pairs : p \in Nat /\ p < NumPairs
  /\ \A p \in Nat : p < NumPairs => p \in Pairs
  /\ \A p \in Pairs : 2 * p \in Rows /\ 2 * p + 1 \in Rows /\ 2 * p < 2 * NumPairs
BY OptionsAssumption DEF NumPairs, Pairs, Rows

\* Two pairs of rows have no row in common.
LEMMA PairsApart ==
  ASSUME NEW p \in Nat, NEW q \in Nat
  PROVE  /\ 2 * p \in RowsOf(q) => q = p
         /\ 2 * p + 1 \in RowsOf(q) => q = p
         /\ \A n \in Nat : \A y : q < n /\ y \in RowsOf(q) => y < 2 * n
BY DEF RowsOf

\* RunLength is the number of pairs of height h from p on, up to its bound.
LEMMA RunLengthCounts ==
  ASSUME NEW p \in Nat, NEW h, NEW d \in Nat \ {0}
  PROVE  /\ RunLength(p, h, d) \in 0 .. 2 * d - 1
         /\ \A j \in 0 .. RunLength(p, h, d) - 1 : IsHeight(p + j, h)
         /\ \/ RunLength(p, h, d) = 2 * d - 1
            \/ ~IsHeight(p + RunLength(p, h, d), h)
<1> DEFINE S == {n \in Nat : n = 2 * d - 1 \/ ~IsHeight(p + n, h)}
<1>1. 2 * d - 1 \in S /\ S \in SUBSET Nat
  OBVIOUS
<1>2. Min(S) \in S /\ \A y \in S : Min(S) =< y
  <2>. HIDE DEF S
  <2>. QED  BY <1>1, LeastOfNats
<1>3. PICK n \in Nat : n = Min(S)
  BY <1>1, <1>2
<1>4. /\ n \in 0 .. 2 * d - 1
      /\ n = 2 * d - 1 \/ ~IsHeight(p + n, h)
  BY <1>1, <1>2, <1>3
<1>5. ASSUME NEW j \in 0 .. n - 1
      PROVE  IsHeight(p + j, h)
  <2>1. j \in Nat /\ j \notin S
    BY <1>2, <1>3
  <2>. QED  BY <2>1
<1>. QED  BY <1>4, <1>5 DEF RunLength

-----------------------------------------------------------------------------
(***************************************************************************)
(* One round of a loop                                                     *)
(***************************************************************************)

\* The rows of a pair have one height, and only a last row has none.
PairsWhole ==
  /\ \A p \in Pairs : row_height[2 * p] = row_height[2 * p + 1]
                      /\ row_height[2 * p] \in {"8T", "12T"}
  /\ \A y \in Rows : y >= 2 * NumPairs => row_height[y] = "none"

\* Giving pairs a height changes these pairs and no others.
LEMMA HeightsAfter ==
  ASSUME NEW S \in SUBSET Pairs, NEW h \in {"8T", "12T"},
         row_height \in [Rows -> {"8T", "12T", "none"}], PairsWhole,
         row_height' = WithHeight(S, h)
  PROVE  /\ row_height' \in [Rows -> {"8T", "12T", "none"}]
         /\ PairsWhole'
         /\ \A p \in Pairs : row_height'[2 * p] = IF p \in S THEN h ELSE row_height[2 * p]
<1>1. \A y \in Rows :
        row_height'[y] = IF \E p \in S : y \in RowsOf(p) THEN h ELSE row_height[y]
  BY DEF WithHeight
<1>2. row_height' \in [Rows -> {"8T", "12T", "none"}]
  BY DEF WithHeight
<1>3. ASSUME NEW p \in Pairs
      PROVE  /\ row_height'[2 * p] = IF p \in S THEN h ELSE row_height[2 * p]
             /\ row_height'[2 * p + 1] = IF p \in S THEN h ELSE row_height[2 * p + 1]
  <2>1. ASSUME NEW q \in S, 2 * p \in RowsOf(q) \/ 2 * p + 1 \in RowsOf(q)
        PROVE  q = p
    <3>1. p \in Nat /\ q \in Nat
      BY NumbersOfPairs
    <3>. QED  BY <2>1, <3>1, PairsApart
  <2>2. 2 * p \in RowsOf(p) /\ 2 * p + 1 \in RowsOf(p)
    BY DEF RowsOf
  <2>. QED  BY <1>1, <2>1, <2>2, NumbersOfPairs
<1>4. ASSUME NEW y \in Rows, y >= 2 * NumPairs
      PROVE  row_height'[y] = "none"
  <2>1. ASSUME NEW q \in S, y \in RowsOf(q)
        PROVE  FALSE
    <3>1. q \in Nat /\ q < NumPairs /\ NumPairs \in Nat
      BY NumbersOfPairs
    <3>2. y < 2 * NumPairs
      BY <2>1, <3>1, PairsApart
    <3>3. y \in Int
      BY DEF Rows
    <3>4. 2 * NumPairs \in Int
      BY <3>1
    <3>. QED  BY <1>4, <3>2, <3>3, <3>4
  <2>. QED  BY <1>1, <1>4, <2>1 DEF PairsWhole
<1>. QED  BY <1>2, <1>3, <1>4 DEF PairsWhole

\* The pair that is changed: the middle of a run of at least d pairs.
LEMMA MiddleOfRun ==
  ASSUME NEW from, NEW d \in Nat \ {0}, i \in Nat, IsLongRun(from, d)
  PROVE  /\ Middle(from, d) \in Pairs
         /\ i =< Middle(from, d) /\ Middle(from, d) =< i + d - 1
         /\ IsHeight(Middle(from, d), from)
         /\ d >= 2 => /\ IsHeight(Middle(from, d) - 1, from)
                      /\ i =< Middle(from, d) - 1
         /\ d >= 3 => IsHeight(Middle(from, d) + 1, from)
<1> DEFINE n == RunLength(i, from, d)
<1>1. /\ n \in 0 .. 2 * d - 1 /\ n >= d
      /\ \A j \in 0 .. n - 1 : IsHeight(i + j, from)
  BY RunLengthCounts DEF IsLongRun
<1>2. PICK k \in Nat : k = n \div 2 /\ 2 * k =< n /\ n =< 2 * k + 1
  BY <1>1
<1>3. Middle(from, d) = i + k
  BY <1>2 DEF Middle
<1> HIDE DEF n
<1>4. k \in 0 .. n - 1 /\ k =< d - 1
  BY <1>1, <1>2
<1>5. IsHeight(i + k, from)
  BY <1>1, <1>4
<1>6. ASSUME d >= 2
      PROVE  IsHeight(i + k - 1, from) /\ k >= 1
  <2>1. k - 1 \in 0 .. n - 1
    BY <1>1, <1>2, <1>6
  <2>2. i + (k - 1) = i + k - 1
    OBVIOUS
  <2>. QED  BY <1>1, <2>1, <2>2
<1>7. ASSUME d >= 3
      PROVE  IsHeight(i + k + 1, from)
  <2>1. k + 1 \in 0 .. n - 1
    BY <1>1, <1>2, <1>7
  <2>2. i + (k + 1) = i + k + 1
    OBVIOUS
  <2>. QED  BY <1>1, <2>1, <2>2
<1>. QED  BY <1>3, <1>4, <1>5, <1>6, <1>7 DEF IsHeight

(***************************************************************************)
(* A round keeps what the earlier rounds have achieved and adds the        *)
(* windows that begin before the new i: each of them either holds the      *)
(* pair that was changed or reaches beyond a run that is too short.        *)
(***************************************************************************)
LEMMA RoundMakesDense ==
  ASSUME NEW from \in {"8T", "12T"}, NEW to \in {"8T", "12T"}, from # to,
         NEW d \in Nat \ {0}, i \in Nat, i < NumPairs,
         row_height \in [Rows -> {"8T", "12T", "none"}], PairsWhole,
         DenseFrom(0 .. i - 1, to, d),
         BreakRun(from, to, d) \/ KeepRun(from, d)
  PROVE  /\ i' \in Nat
         /\ row_height' \in [Rows -> {"8T", "12T", "none"}]
         /\ PairsWhole'
         /\ DenseFrom(0 .. i - 1, to, d)'
<1>1. CASE BreakRun(from, to, d)
  <2>1. PICK m \in Pairs : m = Middle(from, d) /\ i =< m /\ m =< i + d - 1
    BY <1>1, MiddleOfRun DEF BreakRun
  <2>2. i' = m + 1 /\ i' \in Nat /\ m \in Nat
    <3>1. i' = m + 1
      BY <1>1, <2>1 DEF BreakRun
    <3>2. m \in Nat
      BY NumbersOfPairs
    <3>. QED  BY <3>1, <3>2
  <2>3. /\ row_height' \in [Rows -> {"8T", "12T", "none"}]
        /\ PairsWhole'
        /\ \A p \in Pairs : row_height'[2 * p] = IF p = m THEN to ELSE row_height[2 * p]
    <3>1. row_height' = WithHeight({m}, to) /\ {m} \in SUBSET Pairs
      BY <1>1, <2>1 DEF BreakRun
    <3>2. \A p : p \in {m} <=> p = m
      OBVIOUS
    <3>. QED  BY <3>1, <3>2, HeightsAfter
  <2>4. ASSUME NEW w \in 0 .. i' - 1, w + d =< NumPairs
        PROVE  \E p \in w .. w + d - 1 : IsHeight(p, to)'
    <3>1. CASE w < i
      <4>1. PICK p \in w .. w + d - 1 : IsHeight(p, to)
        BY <2>4, <3>1 DEF DenseFrom
      <4>. QED  BY <4>1, <2>3 DEF IsHeight
    <3>2. CASE w >= i
      <4>1. m \in w .. w + d - 1
        BY <2>1, <2>2, <3>2
      <4>. QED  BY <4>1, <2>1, <2>3 DEF IsHeight
    <3>. QED  BY <3>1, <3>2, <2>2
  <2>. QED  BY <2>2, <2>3, <2>4 DEF DenseFrom
<1>2. CASE KeepRun(from, d)
  <2>1. /\ i' = i + 1 /\ row_height' = row_height
        /\ \A p, h : IsHeight(p, h)' <=> IsHeight(p, h)
    BY <1>2 DEF KeepRun, IsHeight
  <2>2. ASSUME NEW w \in 0 .. i' - 1, w + d =< NumPairs
        PROVE  \E p \in w .. w + d - 1 : IsHeight(p, to)'
    <3>1. CASE w < i
      <4>1. PICK p \in w .. w + d - 1 : IsHeight(p, to)
        BY <2>2, <3>1 DEF DenseFrom
      <4>. QED  BY <4>1, <2>1
    <3>2. CASE w = i
      <4>1. PICK n \in 0 .. d - 1 : ~IsHeight(i + n, from)
        <5>1. /\ RunLength(i, from, d) \in 0 .. 2 * d - 1
              /\ \/ RunLength(i, from, d) = 2 * d - 1
                 \/ ~IsHeight(i + RunLength(i, from, d), from)
          BY RunLengthCounts
        <5>2. ~(RunLength(i, from, d) >= d)
          BY <1>2 DEF KeepRun, IsLongRun
        <5>3. RunLength(i, from, d) \in 0 .. d - 1
          BY <5>1, <5>2
        <5>4. ~IsHeight(i + RunLength(i, from, d), from)
          BY <5>1, <5>3
        <5>. QED  BY <5>3, <5>4
      <4>2. i + n \in Pairs /\ i + n \in w .. w + d - 1
        <5>1. i + n \in Nat /\ i + n < NumPairs
          BY <4>1, <2>2, <3>2, NumbersOfPairs
        <5>. QED  BY <4>1, <5>1, <3>2, NumbersOfPairs
      <4>3. row_height[2 * (i + n)] \in {"8T", "12T"}
        BY <4>2 DEF PairsWhole
      <4>4. IsHeight(i + n, to)
        BY <4>1, <4>2, <4>3 DEF IsHeight
      <4>. QED  BY <4>2, <4>4, <2>1
    <3>. QED  BY <3>1, <3>2, <2>1
  <2>3. PairsWhole'
    BY <2>1 DEF PairsWhole
  <2>. QED  BY <2>1, <2>2, <2>3 DEF DenseFrom
<1>. QED  BY <1>1, <1>2

(***************************************************************************)
(* A round that only breaks up runs of three or more leaves the changed    *)
(* pair between two of the old height, so that no window of two or more    *)
(* pairs loses its last one.                                               *)
(***************************************************************************)
LEMMA RoundKeepsDense ==
  ASSUME NEW from \in {"8T", "12T"}, NEW to \in {"8T", "12T"}, from # to,
         NEW d \in Nat, d >= 3, NEW e \in Nat, e >= 2,
         i \in Nat,
         row_height \in [Rows -> {"8T", "12T", "none"}], PairsWhole,
         DenseFrom(Pairs, from, e),
         BreakRun(from, to, d) \/ KeepRun(from, d)
  PROVE  DenseFrom(Pairs, from, e)'
<1>1. CASE BreakRun(from, to, d)
  <2>1. PICK m \in Pairs :
          /\ m = Middle(from, d)
          /\ IsHeight(m - 1, from) /\ IsHeight(m + 1, from)
    BY <1>1, MiddleOfRun DEF BreakRun
  <2>2. \A p \in Pairs : row_height'[2 * p] = IF p = m THEN to ELSE row_height[2 * p]
    <3>1. row_height' = WithHeight({m}, to) /\ {m} \in SUBSET Pairs
      BY <1>1, <2>1 DEF BreakRun
    <3>2. \A p : p \in {m} <=> p = m
      OBVIOUS
    <3>. QED  BY <3>1, <3>2, HeightsAfter
  <2>3. \A p : p # m /\ IsHeight(p, from) => IsHeight(p, from)'
    BY <2>2 DEF IsHeight
  <2>4. IsHeight(m - 1, from)' /\ IsHeight(m + 1, from)'
    BY <2>1, <2>3, NumbersOfPairs
  <2>5. ASSUME NEW w \in Pairs, w + e =< NumPairs
        PROVE  \E p \in w .. w + e - 1 : IsHeight(p, from)'
    <3>1. PICK p \in w .. w + e - 1 : IsHeight(p, from)
      BY <2>5 DEF DenseFrom
    <3>2. CASE p # m
      BY <2>3, <3>1, <3>2
    <3>3. CASE p = m
      <4>1. m - 1 \in w .. w + e - 1 \/ m + 1 \in w .. w + e - 1
        BY <3>1, <3>3, NumbersOfPairs
      <4>. QED  BY <4>1, <2>4
    <3>. QED  BY <3>2, <3>3
  <2>. QED  BY <2>5 DEF DenseFrom
<1>2. CASE KeepRun(from, d)
  BY <1>2 DEF KeepRun, DenseFrom, IsHeight
<1>. QED  BY <1>1, <1>2

\* The windows from the loop's pair on.
Ahead == {w \in Pairs : w >= i}

(***************************************************************************)
(* A round that breaks up runs of two or more leaves the pair before the   *)
(* changed one alone, and what is ahead of it.  So a window one longer     *)
(* than those ahead still has a pair of the old height: the one before the *)
(* changed pair, or one of the window that begins after it.                *)
(***************************************************************************)
LEMMA RoundNearlyDense ==
  ASSUME NEW from \in {"8T", "12T"}, NEW to \in {"8T", "12T"}, from # to,
         NEW d \in Nat, d >= 2, NEW e \in Nat \ {0},
         i \in Nat,
         row_height \in [Rows -> {"8T", "12T", "none"}], PairsWhole,
         DenseFrom(Ahead, from, e), DenseFrom(Pairs, from, e + 1),
         BreakRun(from, to, d) \/ KeepRun(from, d)
  PROVE  DenseFrom(Ahead, from, e)' /\ DenseFrom(Pairs, from, e + 1)'
<1>1. CASE BreakRun(from, to, d)
  <2>1. PICK m \in Pairs :
          /\ m = Middle(from, d)
          /\ IsHeight(m - 1, from) /\ i =< m - 1
    BY <1>1, MiddleOfRun DEF BreakRun
  <2>2. \A p \in Pairs : row_height'[2 * p] = IF p = m THEN to ELSE row_height[2 * p]
    <3>1. row_height' = WithHeight({m}, to) /\ {m} \in SUBSET Pairs
      BY <1>1, <2>1 DEF BreakRun
    <3>2. \A p : p \in {m} <=> p = m
      OBVIOUS
    <3>. QED  BY <3>1, <3>2, HeightsAfter
  <2>3. \A p : p # m /\ IsHeight(p, from) => IsHeight(p, from)'
    BY <2>2 DEF IsHeight
  <2>4. IsHeight(m - 1, from)' /\ i' = m + 1 /\ m \in Nat
    BY <1>1, <2>1, <2>3, NumbersOfPairs DEF BreakRun
  <2>5. ASSUME NEW w \in Pairs, w >= m + 1, w + e =< NumPairs
        PROVE  \E p \in w .. w + e - 1 : IsHeight(p, from)'
    <3>1. w \in Ahead /\ w \in Nat
      BY <2>1, <2>4, <2>5, NumbersOfPairs DEF Ahead
    <3>2. PICK p \in w .. w + e - 1 : IsHeight(p, from)
      BY <2>5, <3>1 DEF DenseFrom
    <3>3. p # m
      BY <2>4, <2>5, <3>1, <3>2
    <3>. QED  BY <2>3, <3>2, <3>3
  <2>6. ASSUME NEW w \in Pairs, w + (e + 1) =< NumPairs
        PROVE  \E p \in w .. w + (e + 1) - 1 : IsHeight(p, from)'
    <3>0. w \in Nat /\ NumPairs \in Nat
      BY NumbersOfPairs
    <3>1. PICK p \in w .. w + (e + 1) - 1 : IsHeight(p, from)
      BY <2>6 DEF DenseFrom
    <3>2. CASE p # m
      BY <2>3, <3>1, <3>2
    <3>3. CASE p = m /\ m # w
      <4>1. m - 1 \in w .. w + (e + 1) - 1
        BY <2>4, <3>0, <3>1, <3>3
      <4>. QED  BY <4>1, <2>4
    <3>4. CASE m = w
      <4>1. w + 1 \in Pairs /\ w + 1 >= m + 1 /\ (w + 1) + e =< NumPairs
        BY <2>6, <3>0, <3>4, NumbersOfPairs
      <4>2. PICK q \in w + 1 .. (w + 1) + e - 1 : IsHeight(q, from)'
        BY <2>5, <4>1
      <4>3. q \in w .. w + (e + 1) - 1
        BY <3>0, <4>2
      <4>. QED  BY <4>2, <4>3
    <3>. QED  BY <3>2, <3>3, <3>4
  <2>7. Ahead' = {w \in Pairs : w >= m + 1}
    BY <2>4 DEF Ahead
  <2>. QED  BY <2>5, <2>6, <2>7 DEF DenseFrom
<1>2. CASE KeepRun(from, d)
  <2>1. /\ \A p : IsHeight(p, from)' <=> IsHeight(p, from)
        /\ \A w \in Pairs : w >= i + 1 => w >= i
        /\ i' = i + 1
    BY <1>2, NumbersOfPairs DEF KeepRun, IsHeight
  <2>2. Ahead' = {w \in Pairs : w >= i + 1}
    BY <2>1 DEF Ahead
  <2>. QED  BY <2>1, <2>2 DEF DenseFrom, Ahead
<1>. QED  BY <1>1, <1>2

\* A longer window has what a shorter one has.
LEMMA WiderWindow ==
  ASSUME NEW S \in SUBSET Pairs, NEW h, NEW e \in Nat, DenseFrom(S, h, e)
  PROVE  DenseFrom(S, h, e + 1)
<1>. SUFFICES ASSUME NEW w \in S, w + (e + 1) =< NumPairs
              PROVE  \E p \in w .. w + (e + 1) - 1 : IsHeight(p, h)
  BY DEF DenseFrom
<1>1. w \in Nat /\ NumPairs \in Nat
  BY NumbersOfPairs
<1>2. PICK p \in w .. w + e - 1 : IsHeight(p, h)
  BY <1>1 DEF DenseFrom
<1>. QED  BY <1>1, <1>2

-----------------------------------------------------------------------------
(***************************************************************************)
(* The inductive invariant: what the rounds before i have achieved, and    *)
(* what the second loop leaves of the work of the first.                   *)
(***************************************************************************)

Dense12 ==
  /\ stage = "spread12" => DenseFrom(0 .. i - 1, "12T", density_12T)
  /\ stage = "spread8" /\ density_8T # 1 => DenseFrom(Ahead, "12T", density_12T)
  /\ stage \in {"spread8", "split", "done"} =>
       /\ KeepsDensity12 => DenseFrom(Pairs, "12T", density_12T)
       /\ density_8T # 1 => DenseFrom(Pairs, "12T", density_12T + 1)

Dense8 ==
  /\ stage = "spread8" =>
       density_8T # -1 /\ DenseFrom(0 .. i - 1, "8T", density_8T)
  /\ stage \in {"split", "done"} /\ density_8T # -1
       => DenseFrom(Pairs, "8T", density_8T)

Lists ==
  stage = "done" =>
    /\ rows_12T = {y \in Rows : row_height[y] = "12T"}
    /\ rows_8T = Rows \ rows_12T

IInv == TypeOK /\ PairsWhole /\ Dense12 /\ Dense8 /\ Lists /\ (stage = "choose" => i = 0)

\* It holds at the start.
LEMMA InitIInv == Init => IInv
<1> SUFFICES ASSUME Init PROVE IInv
  OBVIOUS
<1>1. TypeOK
  BY DEF Init, TypeOK
<1>2. PairsWhole
  <2>1. \A y \in Rows : row_height[y] = IF y < 2 * NumPairs THEN "8T" ELSE "none"
    BY DEF Init
  <2>2. ASSUME NEW p \in Pairs
        PROVE  row_height[2 * p] = "8T" /\ row_height[2 * p + 1] = "8T"
    <3>1. /\ p \in Nat /\ NumPairs \in Nat /\ p < NumPairs
          /\ 2 * p \in Rows /\ 2 * p + 1 \in Rows
      BY NumbersOfPairs
    <3>2. 2 * p < 2 * NumPairs /\ 2 * p + 1 < 2 * NumPairs
      BY <3>1
    <3>. QED  BY <2>1, <3>1, <3>2
  <2>3. ASSUME NEW y \in Rows, y >= 2 * NumPairs
        PROVE  row_height[y] = "none"
    <3>1. y \in Int /\ 2 * NumPairs \in Int
      BY NumbersOfPairs DEF Rows
    <3>. QED  BY <2>1, <2>3, <3>1
  <2>. QED  BY <2>2, <2>3 DEF PairsWhole
<1>3. stage = "choose" /\ i = 0
  BY DEF Init
<1>4. Dense12 /\ Dense8 /\ Lists
  BY <1>3 DEF Dense12, Dense8, Lists
<1>. QED  BY <1>1, <1>2, <1>3, <1>4 DEF IInv

\* A loop that has looked at every pair has looked at every window.
LEMMA AllSeen ==
  ASSUME NEW h, NEW d, i \in Nat, i >= NumPairs, DenseFrom(0 .. i - 1, h, d)
  PROVE  DenseFrom(Pairs, h, d)
<1>1. Pairs \subseteq 0 .. i - 1
  BY NumbersOfPairs
<1>. QED  BY <1>1 DEF DenseFrom

\* No step changes the options.
LEMMA SameDensities ==
  ASSUME TypeOK, [Next]_vars
  PROVE  /\ density_12T' = density_12T /\ density_12T \in Nat \ {0}
         /\ density_8T' = density_8T /\ density_8T \in (Nat \ {0}) \cup {-1}
<1>1. UNCHANGED densities
  BY DEF Next, Choose, Spread12, EndSpread12, Spread8, EndSpread8, Split, Stop, vars, densities
<1>. QED  BY <1>1, OptionsAssumption DEF densities, TypeOK

\* Every step keeps it.
LEMMA NextIInv == IInv /\ [Next]_vars => IInv'
<1> SUFFICES ASSUME IInv, [Next]_vars PROVE IInv'
  OBVIOUS
<1> USE DEF IInv
<1>0. PICK d, e : /\ d = density_12T /\ d = density_12T' /\ d \in Nat \ {0}
                  /\ e = density_8T /\ e = density_8T' /\ e \in (Nat \ {0}) \cup {-1}
                  /\ d \in Densities12 /\ e \in Densities8
  BY SameDensities DEF TypeOK
<1>1. ASSUME NEW S \in SUBSET Pairs, Choose(S)
      PROVE  IInv'
  <2>1. /\ row_height' \in [Rows -> {"8T", "12T", "none"}]
        /\ PairsWhole'
    <3>1. row_height' = WithHeight(S, "12T")
      BY <1>1 DEF Choose
    <3>2. row_height \in [Rows -> {"8T", "12T", "none"}]
      BY DEF TypeOK
    <3>. QED  BY <3>1, <3>2, HeightsAfter
  <2>2. i' = 0 /\ stage' = "spread12"
    BY <1>1 DEF Choose
  <2>3. DenseFrom(0 .. i - 1, "12T", density_12T)'
    BY <2>2 DEF DenseFrom
  <2>. QED  BY <1>0, <1>1, <2>1, <2>2, <2>3 DEF Choose, TypeOK, Dense12, Dense8, Lists
<1>2. CASE Spread12
  <2>1. /\ DenseFrom(0 .. i - 1, "12T", d)
        /\ BreakRun("8T", "12T", d) \/ KeepRun("8T", d)
    BY <1>0, <1>2 DEF Spread12, Dense12
  <2>2. /\ i' \in Nat
        /\ row_height' \in [Rows -> {"8T", "12T", "none"}]
        /\ PairsWhole'
        /\ DenseFrom(0 .. i - 1, "12T", d)'
    BY <1>0, <1>2, <2>1, RoundMakesDense DEF Spread12, TypeOK, Dense12
  <2>3. DenseFrom(0 .. i - 1, "12T", density_12T)'
    BY <1>0, <2>2 DEF DenseFrom
  <2>. QED  BY <1>0, <1>2, <2>2, <2>3 DEF Spread12, TypeOK, Dense12, Dense8, Lists
<1>3. CASE EndSpread12
  <2>1. DenseFrom(Pairs, "12T", d) /\ DenseFrom(Pairs, "12T", d + 1)
    <3>1. DenseFrom(Pairs, "12T", d)
      BY <1>0, <1>3, AllSeen DEF EndSpread12, TypeOK, Dense12
    <3>. QED  BY <1>0, <3>1, WiderWindow
  <2>2. \A p, h : IsHeight(p, h)' <=> IsHeight(p, h)
    BY <1>3 DEF EndSpread12, IsHeight
  <2>3. DenseFrom(Pairs, "12T", density_12T)' /\ DenseFrom(Pairs, "12T", density_12T + 1)'
    BY <1>0, <2>1, <2>2 DEF DenseFrom
  <2>4. DenseFrom(Ahead, "12T", density_12T)'
    BY <2>3 DEF DenseFrom, Ahead
  <2>5. DenseFrom(0 .. i - 1, "8T", density_8T)'
    BY <1>3 DEF EndSpread12, DenseFrom
  <2>6. PairsWhole' /\ TypeOK'
    BY <1>0, <1>3 DEF EndSpread12, PairsWhole, TypeOK
  <2>. QED  BY <1>0, <1>3, <2>3, <2>4, <2>5, <2>6 DEF EndSpread12, Dense12, Dense8, Lists
<1>4. CASE Spread8
  <2>1. /\ e # -1 /\ e \in Nat \ {0} /\ stage = "spread8"
        /\ BreakRun("12T", "8T", e) \/ KeepRun("12T", e)
    BY <1>0, <1>4 DEF Spread8, Dense8
  <2>2. /\ i' \in Nat
        /\ row_height' \in [Rows -> {"8T", "12T", "none"}]
        /\ PairsWhole'
        /\ DenseFrom(0 .. i - 1, "8T", e)'
    BY <1>0, <1>4, <2>1, RoundMakesDense DEF Spread8, TypeOK, Dense8
  <2>3. DenseFrom(0 .. i - 1, "8T", density_8T)'
    BY <1>0, <2>2 DEF DenseFrom
  <2>4. ASSUME KeepsDensity12'
        PROVE  DenseFrom(Pairs, "12T", density_12T)'
    <3>1. KeepsDensity12 /\ e >= 3 /\ d >= 2 /\ d \in Nat /\ e \in Nat
      BY <1>0, <2>1, <2>4 DEF KeepsDensity12
    <3>2. DenseFrom(Pairs, "12T", d)
      BY <1>0, <1>4, <3>1 DEF Spread8, Dense12
    <3>3. DenseFrom(Pairs, "12T", d)'
      BY <2>1, <3>1, <3>2, RoundKeepsDense DEF TypeOK
    <3>. QED  BY <1>0, <3>3 DEF DenseFrom
  <2>5. ASSUME density_8T' # 1
        PROVE  DenseFrom(Ahead, "12T", density_12T)' /\ DenseFrom(Pairs, "12T", density_12T + 1)'
    <3>1. e >= 2 /\ e \in Nat /\ d \in Nat \ {0}
      BY <1>0, <2>1, <2>5
    <3>2. DenseFrom(Ahead, "12T", d) /\ DenseFrom(Pairs, "12T", d + 1)
      BY <1>0, <2>1, <3>1 DEF Dense12
    <3>3. DenseFrom(Ahead, "12T", d)' /\ DenseFrom(Pairs, "12T", d + 1)'
      BY <2>1, <3>1, <3>2, RoundNearlyDense DEF TypeOK
    <3>. QED  BY <1>0, <3>3 DEF DenseFrom
  <2>6. TypeOK' /\ stage' = "spread8"
    BY <1>0, <1>4, <2>2 DEF Spread8, TypeOK
  <2>. QED  BY <1>0, <1>4, <2>1, <2>2, <2>3, <2>4, <2>5, <2>6 DEF Spread8, Dense12, Dense8, Lists
<1>5. CASE EndSpread8
  <2>1. \A p, h : IsHeight(p, h)' <=> IsHeight(p, h)
    BY <1>5 DEF EndSpread8, IsHeight
  <2>2. DenseFrom(Pairs, "8T", density_8T)'
    <3>1. DenseFrom(Pairs, "8T", density_8T)
      BY <1>5, AllSeen DEF EndSpread8, TypeOK, Dense8
    <3>. QED  BY <1>0, <2>1, <3>1 DEF DenseFrom
  <2>3. ASSUME KeepsDensity12'
        PROVE  DenseFrom(Pairs, "12T", density_12T)'
    BY <1>0, <1>5, <2>1, <2>3 DEF EndSpread8, Dense12, DenseFrom, KeepsDensity12
  <2>4. ASSUME density_8T' # 1
        PROVE  DenseFrom(Pairs, "12T", density_12T + 1)'
    BY <1>0, <1>5, <2>1, <2>4 DEF EndSpread8, Dense12, DenseFrom
  <2>5. PairsWhole' /\ TypeOK'
    BY <1>0, <1>5 DEF EndSpread8, PairsWhole, TypeOK
  <2>. QED  BY <1>0, <1>5, <2>2, <2>3, <2>4, <2>5 DEF EndSpread8, Dense12, Dense8, Lists
<1>6. CASE Split
  BY <1>0, <1>6 DEF Split, TypeOK, PairsWhole, Dense12, Dense8, Lists, DenseFrom, IsHeight,
                    KeepsDensity12
<1>7. CASE UNCHANGED vars
  BY <1>7 DEF vars, TypeOK, PairsWhole, Dense12, Dense8, Lists, DenseFrom, IsHeight, Ahead,
              KeepsDensity12
<1>. QED  BY <1>1, <1>2, <1>3, <1>4, <1>5, <1>6, <1>7 DEF Next, Stop

\* It always holds.
LEMMA AlwaysIInv == Spec => []IInv
<1>. QED  BY InitIInv, NextIInv, PTL DEF Spec

-----------------------------------------------------------------------------
\* The variables always have their types, whatever the options.
THEOREM TypeCorrect == Spec => []TypeOK
<1>1. IInv => TypeOK
  BY DEF IInv
<1>. QED  BY AlwaysIInv, <1>1, PTL

(***************************************************************************)
(* For every number of rows and every score: the promise of -density_12T   *)
(* holds without -density_8T, and with it when that is 3 or more and       *)
(* density_12T 2 or more.  For every density_12T and any density_8T but 1, *)
(* no more than density_12T consecutive pairs are all 8T.  The loops look  *)
(* no further than 2 * d - 1 pairs ahead and skip what they have changed.  *)
(***************************************************************************)
THEOREM Density12 == Spec => []Density12Kept
<1>1. IInv => Density12Kept
  BY DEF IInv, Dense12, Density12Kept
<1>. QED  BY AlwaysIInv, <1>1, PTL

\* The promise of -density_8T holds for every number of rows and every score.
THEOREM Density8 == Spec => []Density8Kept
<1>1. IInv => Density8Kept
  BY DEF IInv, Dense8, Density8Kept
<1>. QED  BY AlwaysIInv, <1>1, PTL

\* The rows of a pair end in the same list, whatever the loops have done.
THEOREM PairsStayWhole == Spec => []WholePairs
<1>1. IInv => WholePairs
  <2> SUFFICES ASSUME IInv, stage = "done" PROVE WholePairs
    BY DEF WholePairs
  <2>1. /\ rows_12T = {y \in Rows : row_height[y] = "12T"}
        /\ rows_8T = Rows \ rows_12T
    BY DEF IInv, Lists
  <2>2. ASSUME NEW p \in Pairs
        PROVE  RowsOf(p) \subseteq rows_12T \/ RowsOf(p) \subseteq rows_8T
    <3>1. 2 * p \in Rows /\ 2 * p + 1 \in Rows /\ row_height[2 * p] = row_height[2 * p + 1]
      BY NumbersOfPairs DEF IInv, PairsWhole
    <3>. QED  BY <2>1, <3>1 DEF RowsOf
  <2>3. ASSUME NEW y \in rows_12T
        PROVE  \E p \in Pairs : y \in RowsOf(p)
    <3>1. y \in Rows /\ row_height[y] = "12T"
      BY <2>1
    <3>2. y \in Nat /\ y < 2 * NumPairs
      BY <3>1, NumbersOfPairs DEF IInv, PairsWhole, Rows
    <3>3. PICK p \in Nat : y = 2 * p \/ y = 2 * p + 1
      <4>1. y \div 2 \in Nat /\ (y = 2 * (y \div 2) \/ y = 2 * (y \div 2) + 1)
        BY <3>2
      <4>. QED  BY <4>1
    <3>4. p \in Pairs
      BY <3>2, <3>3, NumbersOfPairs
    <3>. QED  BY <3>3, <3>4 DEF RowsOf
  <2>. QED  BY <2>1, <2>2, <2>3 DEF WholePairs
<1>. QED  BY AlwaysIInv, <1>1, PTL

-----------------------------------------------------------------------------
(***************************************************************************)
(* Neither height runs out.  A run that is broken up has two pairs or      *)
(* more, and the first of them keeps its height.                           *)
(***************************************************************************)
PairOf(h) == \E p \in Pairs : IsHeight(p, h)

BothChosen ==
  chosen_top_K > 0 /\ chosen_top_K < NumPairs /\ density_12T # 1 /\ density_8T # 1

BothInv ==
  IF stage = "choose" THEN \A p \in Pairs : IsHeight(p, "8T")
  ELSE BothChosen => PairOf("8T") /\ PairOf("12T")

\* A round of a loop leaves a pair of the height it breaks up.
LEMMA RoundLeavesBoth ==
  ASSUME TypeOK, PairsWhole, NEW d \in Nat, d >= 2,
         NEW from \in {"8T", "12T"}, NEW to \in {"8T", "12T"}, from # to,
         PairOf(from), PairOf(to), BreakRun(from, to, d) \/ KeepRun(from, d)
  PROVE  PairOf(from)' /\ PairOf(to)'
<1>1. CASE KeepRun(from, d)
  BY <1>1 DEF KeepRun, PairOf, IsHeight
<1>2. CASE BreakRun(from, to, d)
  <2>1. PICK m \in Pairs : /\ row_height' = WithHeight({m}, to)
                           /\ m - 1 \in Pairs /\ row_height[2 * (m - 1)] = from
    <3>1. i \in Nat /\ IsLongRun(from, d) /\ d \in Nat \ {0}
      BY <1>2 DEF BreakRun, TypeOK
    <3>2. Middle(from, d) \in Pairs /\ IsHeight(Middle(from, d) - 1, from)
      BY <3>1, MiddleOfRun
    <3>. QED  BY <1>2, <3>2 DEF BreakRun, IsHeight
  <2>2. {m} \in SUBSET Pairs /\ m # m - 1
    BY DEF Pairs
  <2>3. \A p \in Pairs : row_height'[2 * p] = IF p \in {m} THEN to ELSE row_height[2 * p]
    <3>1. row_height \in [Rows -> {"8T", "12T", "none"}]
      BY DEF TypeOK
    <3>. QED  BY <2>1, <2>2, <3>1, HeightsAfter
  <2>4. row_height'[2 * m] = to /\ row_height'[2 * (m - 1)] = from
    BY <2>1, <2>2, <2>3
  <2>. QED  BY <2>1, <2>4 DEF PairOf, IsHeight
<1>. QED  BY <1>1, <1>2

\* Every step leaves a pair of each height.
LEMMA NextBoth == IInv /\ BothInv /\ [Next]_vars => BothInv'
<1> SUFFICES ASSUME IInv, BothInv, [Next]_vars
             PROVE  BothInv'
  OBVIOUS
<1>0. TypeOK /\ PairsWhole
  BY DEF IInv
<1>5. CASE UNCHANGED vars
  BY <1>5 DEF vars, BothInv, BothChosen, PairOf, IsHeight
<1>6. ASSUME Next, ~UNCHANGED vars
      PROVE  stage' # "choose"
  BY <1>6 DEF Next, Stop, Choose, Spread12, EndSpread12, Spread8, EndSpread8, Split
<1>7. BothChosen' => BothChosen
  BY <1>0, SameDensities DEF BothChosen
<1> SUFFICES ASSUME Next, ~UNCHANGED vars, BothChosen
             PROVE  PairOf("8T")' /\ PairOf("12T")'
  BY <1>5, <1>6, <1>7 DEF BothInv
<1>8. density_12T \in Nat \ {0} /\ density_8T \in (Nat \ {0}) \cup {-1}
  BY <1>0, SameDensities
<1>1. ASSUME NEW S \in SUBSET Pairs, Choose(S)
      PROVE  PairOf("8T")' /\ PairOf("12T")'
  <2>1. Cardinality(S) = chosen_top_K /\ row_height' = WithHeight(S, "12T")
    BY <1>1 DEF Choose, HasTopScores
  <2>2. Cardinality(Pairs) = NumPairs
    <3>1. PICK b \in Int : b = NumPairs - 1
      BY NumbersOfPairs
    <3>2. Cardinality(0 .. b) = IF 0 > b THEN 0 ELSE b - 0 + 1
      BY FS_Interval
    <3>. QED  BY <3>1, <3>2, NumbersOfPairs DEF Pairs
  <2>3. S # {} /\ S # Pairs
    <3>1. Cardinality(S) \in Nat /\ Cardinality(S) # 0 /\ Cardinality(S) # NumPairs
      BY <2>1, NumbersOfPairs, OptionsAssumption DEF BothChosen
    <3>. QED  BY <2>2, <3>1, FS_EmptySet
  <2>4. \A p \in Pairs : row_height'[2 * p] = IF p \in S THEN "12T" ELSE row_height[2 * p]
    BY <1>0, <2>1, HeightsAfter DEF TypeOK
  <2>5. \A p \in Pairs : row_height[2 * p] = "8T"
    BY <1>1 DEF Choose, BothInv, IsHeight
  <2>. QED  BY <2>3, <2>4, <2>5 DEF PairOf, IsHeight
<1>2. CASE Spread12
  <2>1. density_12T \in Nat /\ density_12T >= 2
    BY <1>8 DEF BothChosen
  <2>2. PairOf("8T") /\ PairOf("12T")
    BY <1>2 DEF Spread12, BothInv
  <2>. QED  BY <1>0, <1>2, <2>1, <2>2, RoundLeavesBoth DEF Spread12
<1>3. CASE Spread8
  <2>1. density_8T \in Nat /\ density_8T >= 2
    BY <1>3, <1>8 DEF Spread8, BothChosen, IInv, Dense8
  <2>2. PairOf("8T") /\ PairOf("12T")
    BY <1>3 DEF Spread8, BothInv
  <2>. QED  BY <1>0, <1>3, <2>1, <2>2, RoundLeavesBoth DEF Spread8
<1>4. CASE EndSpread12 \/ EndSpread8 \/ Split
  <2>1. stage # "choose" /\ row_height' = row_height
    BY <1>4 DEF EndSpread12, EndSpread8, Split
  <2>. QED  BY <2>1 DEF BothInv, PairOf, IsHeight
<1>. QED  BY <1>1, <1>2, <1>3, <1>4 DEF Next, Stop

(***************************************************************************)
(* When some pairs but not all are chosen, and no density is 1, the back   *)
(* propagation gets a row of each height, whatever the scores.             *)
(***************************************************************************)
THEOREM BothHeightsLeft == Spec => []BothHeights
<1>1. Init => BothInv
  <2> SUFFICES ASSUME Init, NEW p \in Pairs PROVE IsHeight(p, "8T")
    BY DEF Init, BothInv
  <2>1. 2 * p \in Rows /\ 2 * p < 2 * NumPairs
    BY NumbersOfPairs
  <2>. QED  BY <2>1 DEF Init, IsHeight
<1>2. IInv /\ BothInv => BothHeights
  <2> SUFFICES ASSUME IInv, BothInv, stage = "done", BothChosen
               PROVE  rows_12T # {} /\ rows_8T # {}
    BY DEF BothHeights, BothChosen
  <2>1. PICK p \in Pairs : row_height[2 * p] = "8T"
    BY DEF BothInv, PairOf, IsHeight
  <2>2. PICK q \in Pairs : row_height[2 * q] = "12T"
    BY DEF BothInv, PairOf, IsHeight
  <2>3. 2 * p \in Rows /\ 2 * q \in Rows
    BY NumbersOfPairs
  <2>. QED  BY <2>1, <2>2, <2>3 DEF IInv, Lists
<1>. QED  BY <1>1, <1>2, AlwaysIInv, NextBoth, PTL DEF Spec

-----------------------------------------------------------------------------
(***************************************************************************)
(* The old solver (OldRowHeights) chooses rows, not pairs, and repairs odd *)
(* runs.  Its counter is even exactly when the loop looks at an even row:  *)
(* a change of height after an odd number of rows is a change inside a     *)
(* pair.                                                                   *)
(***************************************************************************)
CONSTANT top_rows   \* the chosen_top_K of the old solver

VARIABLES sum, chosen

Old == INSTANCE OldRowHeights WITH chosen_top_K <- top_rows

\* What OldRowHeights assumes of the options.
OldOptions ==
  /\ NumRows \in Nat
  /\ Scores \subseteq Int
  /\ top_rows \in 0 .. NumRows

IsTouched(y) == Old!Partners(y) \cap chosen # {}

\* The rows the loop has decided: up to i, without the first row of a pair.
IsDecided(y) == y < i \/ (y = i /\ i % 2 = 1)

Paired ==
  stage = "pair" =>
    /\ sum % 2 = i % 2
    /\ \A y \in Old!Rows :
         row_height[y] = "12T" <=> IF IsDecided(y) THEN IsTouched(y) ELSE y \in chosen

OldResult ==
  stage \in {"split", "done"} =>
    \A y \in Old!Rows : row_height[y] = "12T" <=> IsTouched(y)

OldLists ==
  stage = "done" =>
    /\ rows_12T = {y \in Old!Rows : row_height[y] = "12T"}
    /\ rows_8T = Old!Rows \ rows_12T

OldAtStart == stage = "choose" => i = 0 /\ sum = 0 /\ \A y \in Old!Rows : row_height[y] = "8T"

OldInv == Old!TypeOK /\ OldAtStart /\ Paired /\ OldResult /\ OldLists

-----------------------------------------------------------------------------
\* A row is in Nat and has itself and at most one neighbour for a partner.
LEMMA PartnersOfRow ==
  ASSUME OldOptions, NEW y \in Old!Rows
  PROVE  /\ y \in Nat /\ y < NumRows
         /\ y % 2 = 0 => \A z \in Old!Rows : z \in Old!Partners(y) <=> z = y \/ z = y + 1
         /\ y % 2 = 1 => \A z \in Old!Rows : z \in Old!Partners(y) <=> z = y \/ z = y - 1
<1>1. NumRows \in Nat
  BY DEF OldOptions
<1>2. \A z \in Old!Rows : z \in Old!Partners(y) <=> z \div 2 = y \div 2
  BY DEF Old!Partners
<1>. QED  BY <1>1, <1>2 DEF Old!Rows

\* So a row is touched if it was chosen or the other row of its pair was.
LEMMA TouchedPairs ==
  ASSUME OldOptions, NEW y \in Old!Rows, chosen \subseteq Old!Rows
  PROVE  /\ y % 2 = 0 => (IsTouched(y) <=> y \in chosen \/ y + 1 \in chosen)
         /\ y % 2 = 1 => (IsTouched(y) <=> y \in chosen \/ y - 1 \in chosen)
<1>1. Old!Partners(y) \subseteq Old!Rows /\ (IsTouched(y) <=> \E z \in chosen : z \in Old!Partners(y))
  BY DEF Old!Partners, IsTouched
<1>. QED  BY <1>1, PartnersOfRow

\* It holds at the start.
LEMMA InitOldInv == ASSUME OldOptions, Old!Init PROVE OldInv
BY DEF OldOptions, Old!Init, OldInv, Old!TypeOK, OldAtStart, Paired, OldResult, OldLists

\* One round of the loop, given what it does to the heights of two rows.
LEMMA RoundPaired ==
  ASSUME OldOptions, OldInv, Old!Round, Old!TypeOK',
         \A y \in Old!Rows \ {i, i + 1} : row_height'[y] = row_height[y],
         i % 2 = 0 => /\ row_height'[i] = "12T" <=> row_height[i] = "12T" \/ row_height[i + 1] = "12T"
                      /\ row_height'[i + 1] = row_height'[i],
         i % 2 = 1 => row_height'[i] = row_height[i] /\ row_height'[i + 1] = row_height[i + 1],
         sum' % 2 = (i + 1) % 2
  PROVE  OldInv'
<1>1. /\ i \in Old!Rows /\ i + 1 \in Old!Rows /\ i \in Nat /\ NumRows \in Nat
      /\ stage = "pair" /\ i' = i + 1 /\ chosen' = chosen /\ stage' = stage
      /\ chosen \subseteq Old!Rows /\ (i % 2 = 0 \/ i % 2 = 1)
  BY DEF OldOptions, Old!Round, OldInv, Old!TypeOK, Old!Rows
<1>2. \A y \in Old!Rows : IsTouched(y)' <=> IsTouched(y)
  BY <1>1 DEF IsTouched, Old!Partners
<1>3. \A y \in Old!Rows :
        row_height[y] = "12T" <=> IF IsDecided(y) THEN IsTouched(y) ELSE y \in chosen
  BY <1>1 DEF OldInv, Paired
<1>4. ASSUME NEW y \in Old!Rows
      PROVE  row_height'[y] = "12T"
               <=> IF y < i + 1 \/ (y = i + 1 /\ (i + 1) % 2 = 1) THEN IsTouched(y) ELSE y \in chosen
  <2>1. y \in Nat
    BY PartnersOfRow
  <2>2. CASE y # i /\ y # i + 1
    BY <1>1, <1>3, <2>1, <2>2 DEF IsDecided
  <2>3. CASE i % 2 = 0 /\ (y = i \/ y = i + 1)
    <3>1. row_height'[y] = "12T" <=> i \in chosen \/ i + 1 \in chosen
      BY <1>1, <1>3, <2>3 DEF IsDecided
    <3>2. IsTouched(y) <=> i \in chosen \/ i + 1 \in chosen
      <4>1. /\ IsTouched(i) <=> i \in chosen \/ i + 1 \in chosen
            /\ (i + 1) % 2 = 1 /\ (i + 1) - 1 = i
        BY <1>1, <2>3, TouchedPairs
      <4>2. IsTouched(i + 1) <=> i \in chosen \/ i + 1 \in chosen
        BY <1>1, <4>1, TouchedPairs
      <4>. QED  BY <2>3, <4>1, <4>2
    <3>. QED  BY <1>1, <2>1, <2>3, <3>1, <3>2
  <2>4. CASE i % 2 = 1 /\ (y = i \/ y = i + 1)
    BY <1>1, <1>3, <2>1, <2>4 DEF IsDecided
  <2>. QED  BY <1>1, <2>2, <2>3, <2>4
<1>5. Paired'
  BY <1>1, <1>2, <1>4 DEF Paired, IsDecided
<1>. QED  BY <1>1, <1>5 DEF OldInv, OldAtStart, OldResult, OldLists

\* Every step keeps it.
LEMMA NextOldInv == ASSUME OldOptions, OldInv, [Old!Next]_(Old!vars) PROVE OldInv'
<1>0. /\ i \in Nat /\ sum \in Nat /\ NumRows \in Nat /\ Old!TypeOK
      /\ stage = "pair" => sum % 2 = i % 2
  BY DEF OldOptions, OldInv, Old!TypeOK, Old!Rows, Paired
<1>1. ASSUME NEW S \in SUBSET Old!Rows, Old!Choose(S) PROVE OldInv'
  <2>1. Old!TypeOK'
    BY <1>0, <1>1 DEF Old!TypeOK, Old!Choose
  <2>2. \A y \in Old!Rows : row_height'[y] = "12T" <=> y \in chosen'
    BY <1>1 DEF Old!Choose, OldInv, OldAtStart
  <2>3. \A y \in Old!Rows : ~IsDecided(y)'
    BY <1>1, PartnersOfRow DEF Old!Choose, OldInv, OldAtStart, IsDecided
  <2>. QED  BY <1>1, <2>1, <2>2, <2>3 DEF Old!Choose, OldInv, OldAtStart, Paired, OldResult, OldLists
<1>2. CASE Old!SameHeight
  <2>1. Old!TypeOK' /\ i \in Old!Rows /\ i + 1 \in Old!Rows
    BY <1>0, <1>2 DEF Old!SameHeight, Old!Round, Old!TypeOK, Old!Rows
  <2>2. sum' % 2 = (i + 1) % 2
    BY <1>0, <1>2 DEF Old!SameHeight, Old!Round
  <2>. QED  BY <1>2, <2>1, <2>2, RoundPaired DEF Old!SameHeight
<1>3. CASE Old!EvenRun
  <2>1. Old!TypeOK'
    BY <1>0, <1>3 DEF Old!EvenRun, Old!Round, Old!TypeOK, Old!Rows
  <2>2. sum' % 2 = (i + 1) % 2 /\ i % 2 = 1
    BY <1>0, <1>3 DEF Old!EvenRun, Old!Round
  <2>. QED  BY <1>3, <2>1, <2>2, RoundPaired DEF Old!EvenRun
<1>4. CASE Old!OddRunOf8T
  <2>1. Old!TypeOK' /\ i \in Old!Rows /\ i + 1 \in Old!Rows
    BY <1>0, <1>4 DEF Old!OddRunOf8T, Old!Round, Old!TypeOK, Old!Rows
  <2>2. sum' % 2 = (i + 1) % 2 /\ i % 2 = 0
    BY <1>0, <1>4 DEF Old!OddRunOf8T, Old!Round
  <2>3. /\ row_height'[i] = "12T" /\ row_height'[i + 1] = "12T"
        /\ \A y \in Old!Rows \ {i, i + 1} : row_height'[y] = row_height[y]
    BY <1>0, <1>4, <2>1 DEF Old!OddRunOf8T, Old!TypeOK
  <2>. QED  BY <1>0, <1>4, <2>1, <2>2, <2>3, RoundPaired DEF Old!OddRunOf8T
<1>5. CASE Old!OddRunOf12T
  <2>1. Old!TypeOK' /\ i \in Old!Rows /\ i + 1 \in Old!Rows
    BY <1>0, <1>5 DEF Old!OddRunOf12T, Old!Round, Old!TypeOK, Old!Rows
  <2>2. sum' % 2 = (i + 1) % 2 /\ i % 2 = 0
    BY <1>0, <1>5 DEF Old!OddRunOf12T, Old!Round
  <2>3. /\ row_height'[i] = "12T" /\ row_height'[i + 1] = "12T"
        /\ \A y \in Old!Rows \ {i, i + 1} : row_height'[y] = row_height[y]
    BY <1>0, <1>5, <2>1 DEF Old!OddRunOf12T, Old!TypeOK
  <2>. QED  BY <1>0, <1>5, <2>1, <2>2, <2>3, RoundPaired DEF Old!OddRunOf12T
<1>6. CASE Old!EndPairing
  <2>1. Old!TypeOK' /\ chosen \subseteq Old!Rows
    BY <1>6 DEF Old!EndPairing, Old!TypeOK, OldInv
  <2>2. ASSUME NEW y \in Old!Rows
        PROVE  row_height'[y] = "12T" <=> IsTouched(y)'
    <3>1. (y \in Nat /\ y < NumRows /\ y + 1 \notin Old!Rows) \/ y < i
      BY <1>0, <1>6 DEF Old!EndPairing, Old!Rows
    <3>2. IsTouched(y)' <=> IsTouched(y)
      BY <1>6 DEF Old!EndPairing, IsTouched, Old!Partners
    <3>3. ~IsDecided(y) => y = i /\ y % 2 = 0 /\ y + 1 \notin Old!Rows
      BY <1>0, <1>6 DEF Old!EndPairing, Old!Rows, IsDecided
    <3>4. ~IsDecided(y) => (IsTouched(y) <=> y \in chosen)
      BY <2>1, <3>3, TouchedPairs
    <3>. QED  BY <1>6, <3>2, <3>4 DEF Old!EndPairing, OldInv, Paired
  <2>. QED  BY <1>6, <2>1, <2>2 DEF Old!EndPairing, OldInv, OldAtStart, Paired, OldResult, OldLists
<1>7. CASE Old!Split
  <2>1. Old!TypeOK'
    BY <1>7 DEF Old!Split, Old!TypeOK, OldInv
  <2>2. \A y \in Old!Rows : IsTouched(y)' <=> IsTouched(y)
    BY <1>7 DEF Old!Split, IsTouched, Old!Partners
  <2>. QED  BY <1>7, <2>1, <2>2 DEF Old!Split, OldInv, OldAtStart, Paired, OldResult, OldLists
<1>8. CASE UNCHANGED Old!vars
  BY <1>8 DEF Old!vars, OldInv, Old!TypeOK, OldAtStart, Paired, OldResult, OldLists, IsDecided, IsTouched, Old!Partners
<1>. QED  BY <1>1, <1>2, <1>3, <1>4, <1>5, <1>6, <1>7, <1>8 DEF Old!Next, Old!Stop

\* It always holds.
LEMMA AlwaysOldInv == ASSUME OldOptions PROVE Old!Spec => []OldInv
<1>1. Old!Init => OldInv
  BY InitOldInv
<1>2. OldInv /\ [Old!Next]_(Old!vars) => OldInv'
  BY NextOldInv
<1>. QED  BY <1>1, <1>2, PTL DEF Old!Spec

-----------------------------------------------------------------------------
\* The variables always have their types.
THEOREM OldTypeCorrect == ASSUME OldOptions PROVE Old!Spec => []Old!TypeOK
<1>1. OldInv => Old!TypeOK
  BY DEF OldInv
<1>. QED  BY AlwaysOldInv, <1>1, PTL

(***************************************************************************)
(* For every number of rows and every score, the loop gives the height 12T *)
(* to the chosen rows and their partners and to no other row.              *)
(***************************************************************************)
THEOREM PairsOfChosen == ASSUME OldOptions PROVE Old!Spec => []Old!ChosenWithPartners
<1>1. OldInv => Old!ChosenWithPartners
  BY DEF OldInv, OldResult, OldLists, Old!ChosenWithPartners, IsTouched
<1>. QED  BY AlwaysOldInv, <1>1, PTL
================================================================================
