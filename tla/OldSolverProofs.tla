--------------------------- MODULE OldSolverProofs ---------------------------
(***************************************************************************)
(* The selection by area and delay, and the solver that calls it.          *)
(*                                                                         *)
(* ParetoSelection returns exactly the choices that no other choice beats, *)
(* for any number of choices and any areas and delays, and these are the   *)
(* ParetoChoices of OldSolver (SelectionServes).                           *)
(*                                                                         *)
(* OldSolver, for any network, library and timing: without remapping an    *)
(* entry holds the front of all choices of the cells of its own leaves,    *)
(* also where the cache has it from another candidate, and the back        *)
(* propagation picks the smallest choice that is in time.  With remapping  *)
(* and without, it comes to every gate a cell reads that it asks for.      *)
(***************************************************************************)
EXTENDS OldSolver, ParetoSelection, FiniteLemmas, SequenceTheorems, TLAPS

-----------------------------------------------------------------------------
(***************************************************************************)
(* ParetoSelection: the inductive invariant                                *)
(***************************************************************************)

Places == 1 .. Len(elements)

HasIndex(k, c) ==
  \E p \in 1 .. Len(elements[k].indices) : elements[k].indices[p] = c

\* An element holds choices that have its value, at least one.
OwnIndices ==
  \A k \in Places :
    /\ HasIndex(k, elements[k].indices[1])
    /\ \A c \in Indices : HasIndex(k, c) => c < index /\ Value(c) = elements[k].value

CoveredBy(k, c) ==
  /\ dominates(elements[k], Value(c))
  /\ equal(elements[k], Value(c)) => HasIndex(k, c)

\* Nothing is lost: of every choice that was added there is an element that
\* is as good, unless the choice that is being added beats it.
NothingLost ==
  \A c \in Indices : c < index =>
    \/ \E k \in Places : CoveredBy(k, c)
    \/ index \in Indices /\ Beats(index, c)

\* What the loop has passed is neither better nor worse than the new value.
Passed ==
  index \in Indices =>
    \A k \in Places : k < ii =>
      ~dominates(elements[k], Value(index)) /\ ~isdominated(elements[k], Value(index))

SelectionInv == SelectionTypeOK /\ Antichain /\ OwnIndices /\ NothingLost /\ Passed

-----------------------------------------------------------------------------
(***************************************************************************)
(* ParetoSelection: lemmas                                                 *)
(***************************************************************************)

\* What is left of a sequence when one of its elements is taken out.
LEMMA RemoveAtProperties ==
  ASSUME NEW S, NEW s \in Seq(S), NEW n \in 1 .. Len(s)
  PROVE  /\ RemoveAt(s, n) \in Seq(S)
         /\ Len(RemoveAt(s, n)) = Len(s) - 1
         /\ \A k \in 1 .. Len(s) - 1 :
              RemoveAt(s, n)[k] = IF k < n THEN s[k] ELSE s[k + 1]
<1> DEFINE front == SubSeq(s, 1, n - 1)
           rest == SubSeq(s, n + 1, Len(s))
<1>0. n \in Int /\ 1 =< n /\ n =< Len(s) /\ Len(s) \in Nat
  OBVIOUS
<1>1. /\ front \in Seq(S) /\ Len(front) = n - 1
      /\ \A k \in 1 .. n - 1 : front[k] = s[k]
  BY <1>0, SubSeqProperties
<1>2. /\ rest \in Seq(S) /\ Len(rest) = Len(s) - n
      /\ \A k \in 1 .. Len(s) - n : rest[k] = s[n + k]
  <2>1. \A k \in n + 1 .. Len(s) : s[k] \in S
    BY <1>0
  <2>2. /\ rest \in Seq(S)
        /\ Len(rest) = IF n + 1 =< Len(s) THEN Len(s) - (n + 1) + 1 ELSE 0
        /\ \A k \in 1 .. Len(s) - (n + 1) + 1 : rest[k] = s[n + 1 + k - 1]
    BY <1>0, <2>1, SubSeqProperties
  <2> HIDE DEF rest
  <2> QED BY <1>0, <2>2
<1> HIDE DEF front, rest
<1>3. /\ front \o rest \in Seq(S)
      /\ Len(front \o rest) = Len(front) + Len(rest)
      /\ \A k \in 1 .. Len(front) + Len(rest) :
           (front \o rest)[k] =
             IF k =< Len(front) THEN front[k] ELSE rest[k - Len(front)]
  BY <1>1, <1>2, ConcatProperties
<1>4. RemoveAt(s, n) = front \o rest
  BY DEF RemoveAt, front, rest
<1>5. ASSUME NEW k \in 1 .. Len(s) - 1
      PROVE  RemoveAt(s, n)[k] = IF k < n THEN s[k] ELSE s[k + 1]
  <2>0. /\ k \in Int /\ 1 =< k /\ k =< Len(s) - 1
        /\ k \in 1 .. Len(front) + Len(rest)
    BY <1>0, <1>1, <1>2
  <2>4. RemoveAt(s, n)[k] = IF k =< n - 1 THEN front[k] ELSE rest[k - (n - 1)]
    BY <2>0, <1>1, <1>3, <1>4
  <2>1. CASE k < n
    <3>1. k \in 1 .. n - 1
      BY <2>1, <2>0, <1>0
    <3>2. front[k] = s[k] /\ k =< n - 1
      BY <3>1, <1>1
    <3> QED BY <2>1, <2>4, <3>2
  <2>2. CASE k >= n
    <3>1. RemoveAt(s, n)[k] = rest[k - (n - 1)]
      BY <2>2, <2>0, <2>4, <1>0
    <3>2. k - (n - 1) \in 1 .. Len(s) - n /\ n + (k - (n - 1)) = k + 1
      BY <2>2, <2>0, <1>0
    <3>3. rest[k - (n - 1)] = s[n + (k - (n - 1))]
      BY <3>2, <1>2
    <3>4. ~(k < n)
      BY <2>2, <2>0, <1>0
    <3> QED BY <3>1, <3>2, <3>3, <3>4
  <2> QED BY <2>0, <2>1, <2>2, <1>0
<1> QED BY <1>0, <1>1, <1>2, <1>3, <1>4, <1>5

\* The values are pairs of integers.
LEMMA ValueType ==
  ASSUME SelectionTypeOK, NEW k \in Indices
  PROVE  /\ Value(k) \in Int \X Int
         /\ Value(k)[1] = -area_list[k] /\ Value(k)[2] = -delay_list[k]
         /\ area_list[k] \in Int /\ delay_list[k] \in Int
         /\ k \in Int /\ 1 =< k
<1>1. k \in 1 .. Len(area_list) /\ k \in 1 .. Len(delay_list)
  BY DEF SelectionTypeOK, Indices
<1>2. area_list[k] \in Amounts /\ delay_list[k] \in Amounts
  BY <1>1 DEF SelectionTypeOK
<1>3. area_list[k] \in Int /\ delay_list[k] \in Int
  BY <1>2, AmountsAssumption
<1> QED BY <1>1, <1>3 DEF Value

\* So are those of the elements.
LEMMA ElementType ==
  ASSUME SelectionTypeOK, NEW k \in Places
  PROVE  /\ elements[k] \in Elements
         /\ elements[k].value \in Int \X Int
         /\ elements[k].value[1] \in Int /\ elements[k].value[2] \in Int
         /\ elements[k].value = <<elements[k].value[1], elements[k].value[2]>>
         /\ elements[k].indices \in Seq(Nat)
         /\ k \in Int /\ 1 =< k
<1>1. elements[k] \in Elements /\ k \in Int /\ 1 =< k
  BY DEF SelectionTypeOK, Places
<1>2. elements[k].value \in Int \X Int /\ elements[k].indices \in Seq(Nat)
  BY <1>1 DEF Elements
<1> QED BY <1>1, <1>2

\* The arguments do not change.
LEMMA ArgumentsStay ==
  ASSUME UNCHANGED <<area_list, delay_list>>
  PROVE  /\ Indices' = Indices
         /\ \A c : Value(c)' = Value(c)
         /\ \A c, d : Beats(c, d)' <=> Beats(c, d)
BY DEF Indices, Value, Beats

\* Domination of pairs of integers is a partial order.
LEMMA DominatesOrder ==
  ASSUME NEW u \in Int \X Int, NEW v \in Int \X Int, NEW w \in Int \X Int,
         NEW e, NEW f, NEW g, e.value = u, f.value = v, g.value = w
  PROVE  /\ dominates(e, v) <=> u[1] >= v[1] /\ u[2] >= v[2]
         /\ isdominated(e, v) <=> dominates(f, u)
         /\ dominates(e, u)
         /\ dominates(e, v) /\ dominates(f, u) => u = v
         /\ dominates(e, v) /\ dominates(f, w) => dominates(e, w)
BY DEF dominates, isdominated

\* A choice beats another one when its value dominates the other value and
\* is not equal to it.
LEMMA BeatsDominates ==
  ASSUME SelectionTypeOK, NEW j \in Indices, NEW k \in Indices, NEW e, e.value = Value(j)
  PROVE  Beats(j, k) <=> dominates(e, Value(k)) /\ ~equal(e, Value(k))
<1>1. /\ Value(j) = <<-area_list[j], -delay_list[j]>>
      /\ Value(k) = <<-area_list[k], -delay_list[k]>>
  BY DEF Value
<1>2. /\ area_list[j] \in Int /\ delay_list[j] \in Int
      /\ area_list[k] \in Int /\ delay_list[k] \in Int
  BY ValueType
<1> QED BY <1>1, <1>2 DEF Beats, dominates, equal

-----------------------------------------------------------------------------
(***************************************************************************)
(* ParetoSelection: the steps                                              *)
(***************************************************************************)

LEMMA SelectionInitInv == SelectionInit => SelectionInv
<1> SUFFICES ASSUME SelectionInit PROVE SelectionInv
  OBVIOUS
<1>1. PICK n \in 0 .. NumChoices :
        area_list \in [1 .. n -> Amounts] /\ delay_list \in [1 .. n -> Amounts]
  BY DEF SelectionInit
<1>2. /\ n \in Nat
      /\ area_list \in Seq(Amounts) /\ delay_list \in Seq(Amounts)
      /\ Len(area_list) = n /\ Len(delay_list) = n
  BY <1>1, AmountsAssumption
<1>3. index = 1 /\ ii = 1 /\ elements = <<>> /\ Len(elements) = 0
  BY DEF SelectionInit
<1>4. SelectionTypeOK
  BY <1>2, <1>3 DEF SelectionTypeOK
<1> QED BY <1>2, <1>3, <1>4 DEF SelectionInv, Antichain, OwnIndices, NothingLost, Passed, Places, Indices

\* When the loop has looked at an element that is as good as the new value
\* the new choice is covered by it.
LEMMA AddIndexInv == SelectionInv /\ AddIndex => SelectionInv'
<1> SUFFICES ASSUME SelectionInv, AddIndex PROVE SelectionInv'
  OBVIOUS
<1> USE DEF SelectionInv
<1>1. /\ index \in Indices /\ ii \in Places /\ index \in Nat /\ 1 =< index
      /\ dominates(elements[ii], Value(index)) /\ elements[ii].value = Value(index)
      /\ index' = index + 1 /\ ii' = 1
      /\ UNCHANGED <<area_list, delay_list>>
  BY DEF AddIndex, Looking, NextChoice, SelectionTypeOK, Places, Indices, equal
<1>2. /\ Indices' = Indices
      /\ \A c : Value(c)' = Value(c)
      /\ \A c, d : Beats(c, d)' <=> Beats(c, d)
  BY <1>1, ArgumentsStay
<1> DEFINE new == [value |-> Value(index), indices |-> Append(elements[ii].indices, index)]
<1>3. elements' = [elements EXCEPT ![ii] = new] /\ elements \in Seq(Elements)
  BY DEF AddIndex, SelectionTypeOK
<1>16. /\ new.value = elements[ii].value
       /\ new.indices = Append(elements[ii].indices, index)
       /\ new \in Elements
  <2>1. Value(index) \in Int \X Int
    BY <1>1, ValueType
  <2>2. elements[ii].indices \in Seq(Nat)
    BY <1>1, ElementType
  <2>3. Append(elements[ii].indices, index) \in Seq(Nat)
    BY <1>1, <2>2
  <2> QED BY <1>1, <2>1, <2>3 DEF Elements
<1> HIDE DEF new
<1>4. /\ Len(elements') = Len(elements) /\ Places' = Places
      /\ \A k \in Places : k # ii => elements'[k] = elements[k]
      /\ elements'[ii] = new
  BY <1>1, <1>3 DEF Places
<1>5. /\ elements[ii] \in Elements /\ elements[ii].indices \in Seq(Nat)
      /\ elements'[ii] \in Elements
      /\ elements'[ii].value = elements[ii].value
      /\ elements'[ii].indices = Append(elements[ii].indices, index)
  BY <1>1, <1>3, <1>4, <1>16, ElementType
<1>6. elements' \in Seq(Elements)
  BY <1>1, <1>3, <1>16, ExceptSeq DEF Places
<1>7. \A k \in Places : elements'[k].value = elements[k].value
  BY <1>4, <1>5
<1>8. \A k \in Places : \A c : HasIndex(k, c)' <=> (HasIndex(k, c) \/ (k = ii /\ c = index))
  <2> SUFFICES ASSUME NEW k \in Places, NEW c
      PROVE HasIndex(k, c)' <=> (HasIndex(k, c) \/ (k = ii /\ c = index))
    OBVIOUS
  <2>1. CASE k # ii
    BY <2>1, <1>4 DEF HasIndex
  <2>2. CASE k = ii
    BY <2>2, <1>5 DEF HasIndex
  <2> QED BY <2>1, <2>2
<1>9. SelectionTypeOK'
  <2>1. ASSUME NEW k \in Places, NEW p \in 1 .. Len(elements'[k].indices)
        PROVE elements'[k].indices[p] \in Indices
    <3>1. CASE k # ii
      BY <3>1, <1>4 DEF SelectionTypeOK, Places
    <3>2. CASE k = ii
      BY <3>2, <1>1, <1>5 DEF SelectionTypeOK, Places
    <3> QED BY <3>1, <3>2
  <2> QED BY <1>1, <1>2, <1>4, <1>6, <2>1 DEF SelectionTypeOK, Places, Indices
<1>10. Antichain'
  BY <1>4, <1>7 DEF Antichain, Places, dominates
<1>11. OwnIndices'
  <2> SUFFICES ASSUME NEW k \in Places
      PROVE /\ HasIndex(k, elements[k].indices[1])'
            /\ \A c \in Indices : HasIndex(k, c)' => c < index' /\ Value(c) = elements'[k].value
    BY <1>2, <1>4 DEF OwnIndices
  <2>1. elements'[k].indices[1] = elements[k].indices[1]
    <3>1. CASE k # ii
      BY <3>1, <1>4
    <3>2. CASE k = ii
      <4>1. 1 \in 1 .. Len(elements[ii].indices)
        BY <1>1, <1>5 DEF OwnIndices, HasIndex
      <4> QED BY <3>2, <4>1, <1>5
    <3> QED BY <3>1, <3>2
  <2>2. HasIndex(k, elements[k].indices[1])'
    <3>1. HasIndex(k, elements[k].indices[1])
      BY DEF OwnIndices
    <3>2. PICK p \in 1 .. Len(elements[k].indices) :
            elements[k].indices[p] = elements[k].indices[1]
      BY <3>1 DEF HasIndex
    <3>3. CASE k # ii
      BY <3>2, <3>3, <1>4 DEF HasIndex
    <3>4. CASE k = ii
      BY <3>2, <3>4, <2>1, <1>5 DEF HasIndex
    <3> QED BY <3>3, <3>4
  <2>3. ASSUME NEW c \in Indices, HasIndex(k, c)'
        PROVE c < index' /\ Value(c) = elements'[k].value
    <3>0. c \in Nat
      BY DEF Indices, SelectionTypeOK
    <3>1. CASE HasIndex(k, c)
      BY <3>0, <3>1, <1>1, <1>7 DEF OwnIndices
    <3>2. CASE k = ii /\ c = index
      BY <3>2, <1>1, <1>5
    <3> QED BY <2>3, <3>1, <3>2, <1>8
  <2> QED BY <2>2, <2>3
<1>12. \A k \in Places : \A c \in Indices : CoveredBy(k, c) /\ c # index => CoveredBy(k, c)'
  BY <1>2, <1>7, <1>8 DEF CoveredBy, dominates, equal
<1>13. ASSUME NEW k \in Places, NEW c \in Indices, k = ii, c = index
       PROVE  CoveredBy(k, c)'
  <2>1. elements'[k].value = Value(c)' /\ HasIndex(k, c)'
    BY <1>1, <1>2, <1>7, <1>8, <1>13
  <2>2. dominates(elements[k], Value(c))
    BY <1>1, <1>13
  <2> QED BY <1>1, <1>2, <1>7, <1>13, <2>1, <2>2 DEF CoveredBy, dominates
<1>14. NothingLost'
  <2> SUFFICES ASSUME NEW c \in Indices, c < index + 1
      PROVE \E k \in Places : CoveredBy(k, c)'
    BY <1>1, <1>2, <1>4 DEF NothingLost
  <2>0. c \in Nat
    BY DEF Indices, SelectionTypeOK
  <2>1. CASE c = index
    BY <2>1, <1>1, <1>13
  <2>2. CASE c < index /\ \E k \in Places : CoveredBy(k, c)
    BY <2>2, <1>12, <1>1
  <2>3. CASE c < index /\ Beats(index, c)
    <3>1. dominates(elements[ii], Value(c)) /\ ~equal(elements[ii], Value(c))
      BY <2>3, <1>1, BeatsDominates
    <3>2. CoveredBy(ii, c)
      BY <3>1 DEF CoveredBy
    <3> QED BY <2>3, <3>2, <1>12, <1>1
  <2> QED BY <2>0, <2>1, <2>2, <2>3, <1>1 DEF NothingLost
<1>15. Passed'
  BY <1>1, <1>4 DEF Passed, Places
<1> QED BY <1>9, <1>10, <1>11, <1>14, <1>15

\* A rejected choice is covered by the element that is better.
LEMMA RejectInv == SelectionInv /\ Reject => SelectionInv'
<1> SUFFICES ASSUME SelectionInv, Reject PROVE SelectionInv'
  OBVIOUS
<1> USE DEF SelectionInv
<1>1. /\ index \in Indices /\ ii \in Places /\ index \in Nat /\ 1 =< index
      /\ dominates(elements[ii], Value(index)) /\ elements[ii].value # Value(index)
      /\ index' = index + 1 /\ ii' = 1 /\ elements' = elements
      /\ UNCHANGED <<area_list, delay_list>>
  BY DEF Reject, Looking, NextChoice, SelectionTypeOK, Places, Indices, equal
<1>2. /\ Indices' = Indices
      /\ \A c : Value(c)' = Value(c)
      /\ \A c, d : Beats(c, d)' <=> Beats(c, d)
  BY <1>1, ArgumentsStay
<1>3. /\ Places' = Places
      /\ \A k, c : HasIndex(k, c)' <=> HasIndex(k, c)
      /\ \A k, c : CoveredBy(k, c)' <=> CoveredBy(k, c)
  BY <1>1, <1>2 DEF Places, HasIndex, CoveredBy
<1>4. SelectionTypeOK'
  BY <1>1, <1>2 DEF SelectionTypeOK, Indices
<1>5. Antichain'
  BY <1>1 DEF Antichain
<1>6. OwnIndices'
  <2>1. \A c \in Indices : c \in Nat
    BY DEF Indices, SelectionTypeOK
  <2>2. \A k \in Places : HasIndex(k, elements[k].indices[1])'
    BY <1>1, <1>3 DEF OwnIndices, HasIndex
  <2> QED BY <1>1, <1>2, <1>3, <2>1, <2>2 DEF OwnIndices
<1>7. CoveredBy(ii, index) /\ ii \in Places
  BY <1>1 DEF CoveredBy, equal
<1>8. NothingLost'
  <2> SUFFICES ASSUME NEW c \in Indices, c < index + 1
      PROVE \E k \in Places : CoveredBy(k, c)
    BY <1>1, <1>2, <1>3 DEF NothingLost
  <2>0. c \in Nat
    BY DEF Indices, SelectionTypeOK
  <2>1. CASE c = index
    BY <2>1, <1>7
  <2>2. CASE c < index /\ Beats(index, c)
    <3> DEFINE new == [value |-> Value(index)]
    <3>1. new.value = Value(index)
      OBVIOUS
    <3> HIDE DEF new
    <3>2. dominates(new, Value(c)) /\ ~equal(new, Value(c))
      BY <2>2, <1>1, <3>1, BeatsDominates
    <3>3. dominates(elements[ii], Value(c)) /\ ~equal(elements[ii], Value(c))
      <4>1. /\ elements[ii].value[1] \in Int /\ elements[ii].value[2] \in Int
            /\ elements[ii].value = <<elements[ii].value[1], elements[ii].value[2]>>
        BY <1>1, ElementType
      <4>2. /\ Value(index) = <<-area_list[index], -delay_list[index]>>
            /\ Value(c) = <<-area_list[c], -delay_list[c]>>
        BY DEF Value
      <4>3. /\ area_list[index] \in Int /\ delay_list[index] \in Int
            /\ area_list[c] \in Int /\ delay_list[c] \in Int
        BY <1>1, ValueType
      <4> QED BY <1>1, <2>2, <4>1, <4>2, <4>3 DEF Beats, dominates, equal
    <3> QED BY <3>3, <1>1 DEF CoveredBy
  <2> QED BY <2>0, <2>1, <2>2, <1>1 DEF NothingLost
<1>9. Passed'
  BY <1>1, <1>3 DEF Passed, Places
<1> QED BY <1>4, <1>5, <1>6, <1>8, <1>9

\* What an element that is removed covered is beaten by the new choice.
LEMMA EraseInv == SelectionInv /\ Erase => SelectionInv'
<1> SUFFICES ASSUME SelectionInv, Erase PROVE SelectionInv'
  OBVIOUS
<1> USE DEF SelectionInv
<1>1. /\ index \in Indices /\ ii \in Places /\ ii \in Nat /\ index \in Nat
      /\ ~dominates(elements[ii], Value(index)) /\ isdominated(elements[ii], Value(index))
      /\ UNCHANGED <<area_list, delay_list>> /\ index' = index /\ ii' = ii
      /\ elements' = RemoveAt(elements, ii)
      /\ elements \in Seq(Elements) /\ Len(elements) \in Nat
  BY DEF Erase, Looking, SelectionTypeOK, Places, Indices
<1>2. /\ Indices' = Indices
      /\ \A c : Value(c)' = Value(c)
      /\ \A c, d : Beats(c, d)' <=> Beats(c, d)
  BY <1>1, ArgumentsStay
\* Where an element that is left was before.
<1> DEFINE Old(k) == IF k < ii THEN k ELSE k + 1
<1>3. /\ elements' \in Seq(Elements) /\ Len(elements') = Len(elements) - 1
      /\ \A k \in Places' : elements'[k] = elements[Old(k)]
  BY <1>1, RemoveAtProperties DEF Places
<1>4. /\ \A k \in Places' : k \in Nat /\ Old(k) \in Places /\ Old(k) # ii
      /\ \A j, k \in Places' : j # k => Old(j) # Old(k)
      /\ \A k \in Places' : k < ii => Old(k) = k
      /\ \A k \in Places : k # ii => \E j \in Places' : Old(j) = k
  <2>1. Places' = 1 .. Len(elements) - 1 /\ Places = 1 .. Len(elements)
    BY <1>3 DEF Places
  <2>2. ASSUME NEW k \in Places, k # ii PROVE \E j \in Places' : Old(j) = k
    <3>0. k \in Int /\ 1 =< k /\ k =< Len(elements) /\ 1 =< ii /\ ii =< Len(elements)
      BY <1>1, <2>1
    <3>1. CASE k < ii
      <4>1. k \in Places' /\ Old(k) = k
        BY <3>0, <3>1, <2>1, <1>1
      <4> QED BY <4>1
    <3>2. CASE k > ii
      <4>1. k - 1 \in Places' /\ Old(k - 1) = k
        BY <3>0, <3>2, <2>1, <1>1
      <4> QED BY <4>1
    <3> QED BY <2>2, <3>0, <3>1, <3>2, <1>1
  <2> QED BY <1>1, <2>1, <2>2
<1> HIDE DEF Old
<1>5. ASSUME NEW k \in Places', NEW c
      PROVE  HasIndex(k, c)' <=> HasIndex(Old(k), c)
  BY <1>3 DEF HasIndex
<1>6. ASSUME NEW k \in Places', NEW c
      PROVE  CoveredBy(k, c)' <=> CoveredBy(Old(k), c)
  BY <1>2, <1>3, <1>5 DEF CoveredBy, dominates, equal
<1>7. SelectionTypeOK'
  <2>1. ii \in 1 .. Len(elements') + 1
    BY <1>1, <1>3 DEF Places
  <2>2. ASSUME NEW k \in Places', NEW p \in 1 .. Len(elements'[k].indices)
        PROVE elements'[k].indices[p] \in Indices
    BY <1>3, <1>4 DEF SelectionTypeOK, Places
  <2> QED BY <1>1, <1>2, <1>3, <2>1, <2>2 DEF SelectionTypeOK, Places, Indices
<1>8. Antichain'
  <2> SUFFICES ASSUME NEW j \in Places', NEW k \in Places', j # k
      PROVE ~dominates(elements'[j], elements'[k].value)
    BY DEF Antichain, Places, dominates
  <2> QED BY <1>3, <1>4 DEF Antichain, Places
<1>9. OwnIndices'
  <2> SUFFICES ASSUME NEW k \in Places'
      PROVE /\ HasIndex(k, elements[k].indices[1])'
            /\ \A c \in Indices : HasIndex(k, c)' => c < index /\ Value(c) = elements'[k].value
    BY <1>1, <1>2 DEF OwnIndices
  <2>1. Old(k) \in Places /\ elements'[k] = elements[Old(k)]
    BY <1>3, <1>4
  <2>2. HasIndex(k, elements[k].indices[1])'
    BY <2>1 DEF OwnIndices, HasIndex
  <2>3. \A c \in Indices : HasIndex(k, c)' => c < index /\ Value(c) = elements'[k].value
    BY <2>1, <1>5 DEF OwnIndices
  <2> QED BY <2>2, <2>3
<1>10. NothingLost'
  <2> SUFFICES ASSUME NEW c \in Indices, c < index, ~Beats(index, c)
      PROVE \E k \in Places' : CoveredBy(k, c)'
    BY <1>1, <1>2 DEF NothingLost
  <2>1. PICK k \in Places : CoveredBy(k, c)
    BY <1>1 DEF NothingLost
  <2>2. CASE k # ii
    <3>1. PICK j \in Places' : Old(j) = k
      BY <2>2, <1>4
    <3> QED BY <2>1, <3>1, <1>6
  <2>3. CASE k = ii
    <3>1. /\ elements[ii].value[1] \in Int /\ elements[ii].value[2] \in Int
      BY <1>1, ElementType
    <3>2. /\ Value(index)[1] = -area_list[index] /\ Value(index)[2] = -delay_list[index]
          /\ Value(c)[1] = -area_list[c] /\ Value(c)[2] = -delay_list[c]
          /\ area_list[index] \in Int /\ delay_list[index] \in Int
          /\ area_list[c] \in Int /\ delay_list[c] \in Int
      BY <1>1, ValueType
    <3>3. dominates(elements[ii], Value(c))
      BY <2>1, <2>3 DEF CoveredBy
    <3> DEFINE a == elements[ii].value[1]
               d == elements[ii].value[2]
    <3>4. /\ a >= -area_list[c] /\ d >= -delay_list[c]
          /\ a =< -area_list[index] /\ d =< -delay_list[index]
          /\ ~(a >= -area_list[index] /\ d >= -delay_list[index])
      BY <1>1, <3>2, <3>3 DEF dominates, isdominated
    <3>5. Beats(index, c)
      <4> HIDE DEF a, d
      <4>1. a \in Int /\ d \in Int
        BY <3>1 DEF a, d
      <4> QED BY <4>1, <3>2, <3>4 DEF Beats
    <3> QED BY <3>5, <2>1, <1>1
  <2> QED BY <2>2, <2>3
<1>11. Passed'
  <2> SUFFICES ASSUME NEW k \in Places', k < ii
      PROVE ~dominates(elements'[k], Value(index)) /\ ~isdominated(elements'[k], Value(index))
    BY <1>1, <1>2 DEF Passed, dominates, isdominated
  <2>1. Old(k) = k /\ k \in Places /\ elements'[k] = elements[k]
    BY <1>3, <1>4
  <2> QED BY <2>1, <1>1 DEF Passed
<1> QED BY <1>7, <1>8, <1>9, <1>10, <1>11

LEMMA PassInv == SelectionInv /\ Pass => SelectionInv'
<1> SUFFICES ASSUME SelectionInv, Pass PROVE SelectionInv'
  OBVIOUS
<1> USE DEF SelectionInv
<1>1. /\ index \in Indices /\ ii \in Places /\ ii \in Nat
      /\ ~dominates(elements[ii], Value(index)) /\ ~isdominated(elements[ii], Value(index))
      /\ UNCHANGED <<area_list, delay_list>> /\ index' = index /\ ii' = ii + 1
      /\ elements' = elements
  BY DEF Pass, Looking, SelectionTypeOK, Places
<1>2. /\ Indices' = Indices /\ Places' = Places
      /\ \A c : Value(c)' = Value(c)
      /\ \A c, d : Beats(c, d)' <=> Beats(c, d)
  BY <1>1, ArgumentsStay DEF Places
<1>3. \A k, c : HasIndex(k, c)' <=> HasIndex(k, c)
  BY <1>1 DEF HasIndex
<1>4. \A k, c : CoveredBy(k, c)' <=> CoveredBy(k, c)
  BY <1>1, <1>2, <1>3 DEF CoveredBy
<1>5. SelectionTypeOK'
  BY <1>1, <1>2 DEF SelectionTypeOK, Indices, Places
<1>6. Antichain'
  BY <1>1 DEF Antichain
<1>7. OwnIndices'
  <2>1. \A k \in Places : HasIndex(k, elements[k].indices[1])'
    BY <1>1 DEF OwnIndices, HasIndex
  <2> QED BY <1>1, <1>2, <1>3, <2>1 DEF OwnIndices
<1>8. NothingLost'
  BY <1>1, <1>2, <1>4 DEF NothingLost
<1>9. Passed'
  <2> SUFFICES ASSUME NEW k \in Places, k < ii + 1
      PROVE ~dominates(elements[k], Value(index)) /\ ~isdominated(elements[k], Value(index))
    BY <1>1, <1>2 DEF Passed
  <2>1. k < ii \/ k = ii
    BY <1>1 DEF Places, SelectionTypeOK
  <2> QED BY <2>1, <1>1 DEF Passed
<1> QED BY <1>5, <1>6, <1>7, <1>8, <1>9

\* The new element neither dominates nor is dominated: the loop has passed
\* all the others.
LEMMA PushBackInv == SelectionInv /\ PushBack => SelectionInv'
<1> SUFFICES ASSUME SelectionInv, PushBack PROVE SelectionInv'
  OBVIOUS
<1> USE DEF SelectionInv
<1> DEFINE new == [value |-> Value(index), indices |-> <<index>>]
<1>1. /\ index \in Indices /\ index \in Nat /\ 1 =< index
      /\ ii > Len(elements) /\ ii \in Nat
      /\ UNCHANGED <<area_list, delay_list>> /\ index' = index + 1 /\ ii' = 1
      /\ elements' = Append(elements, new)
      /\ elements \in Seq(Elements) /\ Len(elements) \in Nat
  BY DEF PushBack, NextChoice, SelectionTypeOK, Indices
<1>2. /\ new.value = Value(index) /\ new.indices = <<index>> /\ Len(new.indices) = 1
      /\ new.indices[1] = index /\ new \in Elements
  <2>1. Value(index) \in Int \X Int
    BY <1>1, ValueType
  <2>2. <<index>> \in Seq(Nat)
    BY <1>1
  <2> QED BY <2>1, <2>2 DEF Elements
<1> HIDE DEF new
<1>3. /\ Indices' = Indices
      /\ \A c : Value(c)' = Value(c)
      /\ \A c, d : Beats(c, d)' <=> Beats(c, d)
  BY <1>1, ArgumentsStay
<1> DEFINE last == Len(elements) + 1
<1>4. /\ elements' \in Seq(Elements) /\ Len(elements') = last
      /\ \A k \in Places : elements'[k] = elements[k]
      /\ elements'[last] = new
      /\ Places' = Places \cup {last} /\ last \notin Places
      /\ last \in Nat /\ 1 =< last
  BY <1>1, <1>2 DEF Places
<1> HIDE DEF last
<1>5. \A k \in Places : \A c : HasIndex(k, c)' <=> HasIndex(k, c)
  BY <1>4 DEF HasIndex
<1>6. ASSUME NEW k, k = last, NEW c
      PROVE  HasIndex(k, c)' <=> c = index
  BY <1>6, <1>2, <1>4 DEF HasIndex
<1>7. \A k \in Places : \A c : CoveredBy(k, c)' <=> CoveredBy(k, c)
  BY <1>3, <1>4, <1>5 DEF CoveredBy, dominates, equal
<1>8. /\ Value(index)[1] \in Int /\ Value(index)[2] \in Int
      /\ Value(index) = <<Value(index)[1], Value(index)[2]>>
  <2>1. Value(index) \in Int \X Int
    BY <1>1, ValueType
  <2> QED BY <2>1
<1>9. SelectionTypeOK'
  <2>1. ASSUME NEW k \in Places', NEW p \in 1 .. Len(elements'[k].indices)
        PROVE elements'[k].indices[p] \in Indices
    <3>1. CASE k \in Places
      BY <3>1, <1>4 DEF SelectionTypeOK, Places
    <3>2. CASE k = last
      BY <3>2, <1>1, <1>2, <1>4
    <3> QED BY <3>1, <3>2, <1>4
  <2> QED BY <1>1, <1>3, <1>4, <2>1 DEF SelectionTypeOK, Places, Indices
<1>10. \A k \in Places : ~dominates(elements[k], Value(index)) /\ ~dominates(new, elements[k].value)
  <2> SUFFICES ASSUME NEW k \in Places
      PROVE ~dominates(elements[k], Value(index)) /\ ~dominates(new, elements[k].value)
    OBVIOUS
  <2>1. k < ii
    BY <1>1 DEF Places
  <2>2. ~dominates(elements[k], Value(index)) /\ ~isdominated(elements[k], Value(index))
    BY <2>1, <1>1 DEF Passed
  <2>3. elements[k].value[1] \in Int /\ elements[k].value[2] \in Int
    BY ElementType
  <2> QED BY <2>2, <2>3, <1>2, <1>8 DEF dominates, isdominated
<1>11. Antichain'
  <2> SUFFICES ASSUME NEW j \in Places', NEW k \in Places', j # k
      PROVE ~dominates(elements'[j], elements'[k].value)
    BY DEF Antichain, Places, dominates
  <2>1. CASE j \in Places /\ k \in Places
    BY <2>1, <1>4 DEF Antichain, Places
  <2>2. CASE j = last /\ k \in Places
    BY <2>2, <1>4, <1>10
  <2>3. CASE j \in Places /\ k = last
    BY <2>3, <1>2, <1>4, <1>10
  <2> QED BY <2>1, <2>2, <2>3, <1>4
<1>12. OwnIndices'
  <2> SUFFICES ASSUME NEW k \in Places'
      PROVE /\ HasIndex(k, elements[k].indices[1])'
            /\ \A c \in Indices : HasIndex(k, c)' => c < index + 1 /\ Value(c) = elements'[k].value
    BY <1>1, <1>3 DEF OwnIndices
  <2>0. \A c \in Indices : c \in Nat
    BY DEF Indices, SelectionTypeOK
  <2>1. CASE k \in Places
    <3>1. HasIndex(k, elements[k].indices[1])'
      BY <2>1, <1>4 DEF OwnIndices, HasIndex
    <3>2. \A c \in Indices : HasIndex(k, c) => c < index /\ Value(c) = elements[k].value
      BY <2>1 DEF OwnIndices
    <3>3. elements'[k].value = elements[k].value
      BY <2>1, <1>4
    <3>4. ASSUME NEW c \in Indices, HasIndex(k, c)'
          PROVE  c < index + 1 /\ Value(c) = elements'[k].value
      <4>1. HasIndex(k, c)
        BY <3>4, <2>1, <1>5
      <4>2. c < index /\ Value(c) = elements[k].value
        BY <4>1, <3>2
      <4>3. c \in Nat /\ index \in Nat
        BY <2>0, <1>1
      <4>4. c < index + 1
        BY <4>2, <4>3
      <4> QED BY <4>2, <4>4, <3>3
    <3> QED BY <3>1, <3>4
  <2>2. CASE k = last
    <3>1. HasIndex(k, elements[k].indices[1])'
      BY <2>2, <1>2, <1>4 DEF HasIndex
    <3> QED BY <2>2, <3>1, <1>1, <1>2, <1>4, <1>6
  <2> QED BY <2>1, <2>2, <1>4
<1>13. ASSUME NEW k, k = last, NEW c \in Indices, c = index \/ Beats(index, c)
       PROVE  CoveredBy(k, c)'
  <2>1. /\ Value(index) = <<-area_list[index], -delay_list[index]>>
        /\ Value(c) = <<-area_list[c], -delay_list[c]>>
    BY DEF Value
  <2>2. /\ area_list[index] \in Int /\ delay_list[index] \in Int
        /\ area_list[c] \in Int /\ delay_list[c] \in Int
    BY <1>1, ValueType
  <2>3. elements'[k].value = Value(index) /\ Value(c)' = Value(c)
    BY <1>2, <1>3, <1>4, <1>13
  <2>4. dominates(elements'[k], Value(c))
    BY <1>13, <2>1, <2>2, <2>3 DEF dominates, Beats
  <2>5. equal(elements'[k], Value(c)) => c = index
    BY <1>13, <2>1, <2>2, <2>3 DEF equal, Beats
  <2> QED BY <1>6, <1>13, <2>3, <2>4, <2>5 DEF CoveredBy, dominates, equal
<1>14. NothingLost'
  <2> SUFFICES ASSUME NEW c \in Indices, c < index + 1
      PROVE \E k \in Places' : CoveredBy(k, c)'
    BY <1>1, <1>3 DEF NothingLost
  <2>0. c \in Nat
    BY DEF Indices, SelectionTypeOK
  <2>1. CASE c = index \/ Beats(index, c)
    BY <2>1, <1>4, <1>13
  <2>2. CASE \E k \in Places : CoveredBy(k, c)
    BY <2>2, <1>4, <1>7
  <2> QED BY <2>0, <2>1, <2>2, <1>1 DEF NothingLost
<1>15. Passed'
  BY <1>1, <1>4 DEF Passed, Places
<1> QED BY <1>9, <1>11, <1>12, <1>14, <1>15

LEMMA SelectionStepInv == SelectionInv /\ [SelectionNext]_selection_vars => SelectionInv'
<1> SUFFICES ASSUME SelectionInv, [SelectionNext]_selection_vars PROVE SelectionInv'
  OBVIOUS
<1>1. CASE UNCHANGED selection_vars
  <2>1. /\ UNCHANGED <<area_list, delay_list>> /\ index' = index /\ ii' = ii /\ elements' = elements
    BY <1>1 DEF selection_vars
  <2>2. /\ Indices' = Indices /\ Places' = Places
        /\ \A c : Value(c)' = Value(c)
        /\ \A c, d : Beats(c, d)' <=> Beats(c, d)
    BY <2>1, ArgumentsStay DEF Places
  <2>3. \A k, c : HasIndex(k, c)' <=> HasIndex(k, c)
    BY <2>1 DEF HasIndex
  <2>4. \A k, c : CoveredBy(k, c)' <=> CoveredBy(k, c)
    BY <2>1, <2>2, <2>3 DEF CoveredBy
  <2>5. \A k \in Places : HasIndex(k, elements[k].indices[1])' <=> HasIndex(k, elements[k].indices[1])
    BY <2>1 DEF HasIndex
  <2>6. SelectionTypeOK'
    BY <2>1, <2>2 DEF SelectionInv, SelectionTypeOK, Indices
  <2>7. Antichain' /\ OwnIndices' /\ NothingLost' /\ Passed'
    BY <2>1, <2>2, <2>3, <2>4, <2>5 DEF SelectionInv, Antichain, OwnIndices, NothingLost, Passed, Places
  <2> QED BY <2>6, <2>7 DEF SelectionInv
<1> QED BY <1>1, AddIndexInv, RejectInv, EraseInv, PassInv, PushBackInv DEF SelectionNext

-----------------------------------------------------------------------------
(***************************************************************************)
(* ParetoSelection: the results                                            *)
(***************************************************************************)

\* The invariant holds throughout addvalue.
THEOREM SelectionInvariance == SelectionSpec => []SelectionInv
BY SelectionInitInv, SelectionStepInv, PTL DEF SelectionSpec

\* The variables keep their types.
THEOREM SelectionTypes == SelectionSpec => []SelectionTypeOK
<1>1. SelectionInv => SelectionTypeOK
  BY DEF SelectionInv
<1> QED BY <1>1, SelectionInvariance, PTL

\* Also in the middle of addvalue no element is as good as another one.
THEOREM ElementsIncomparable == SelectionSpec => []Antichain
<1>1. SelectionInv => Antichain
  BY DEF SelectionInv
<1> QED BY <1>1, SelectionInvariance, PTL

\* pareto_solution_select_tmp returns the choices that no other choice
\* beats, no more and no fewer, in whatever order the choices come.
THEOREM SelectsTheFront == SelectionSpec => []ParetoOptimal
<1>1. SelectionInv => ParetoOptimal
  <2> SUFFICES ASSUME SelectionInv, index > Len(area_list), NEW c
      PROVE c \in pareto_indices <=> c \in Indices /\ \A j \in Indices : ~Beats(j, c)
    BY DEF ParetoOptimal
  <2> USE DEF SelectionInv
  <2>0. index \notin Indices /\ \A j \in Indices : j < index
    BY DEF Indices, SelectionTypeOK
  <2>1. c \in pareto_indices <=> \E k \in Places : HasIndex(k, c)
    <3>1. \A k \in Places : DOMAIN elements[k].indices = 1 .. Len(elements[k].indices)
      BY ElementType
    <3> QED BY <3>1 DEF pareto_indices, Places, HasIndex, Range
  <2>2. ASSUME NEW k \in Places, HasIndex(k, c)
        PROVE  c \in Indices /\ \A j \in Indices : ~Beats(j, c)
    <3>1. c \in Indices
      BY <2>2 DEF HasIndex, SelectionTypeOK, Places
    <3>2. elements[k].value = Value(c)
      BY <2>2, <3>1 DEF OwnIndices
    <3>3. ASSUME NEW j \in Indices, Beats(j, c) PROVE FALSE
      <4>1. PICK m \in Places : CoveredBy(m, j)
        BY <2>0 DEF NothingLost
      <4>2. elements[m].value[1] \in Int /\ elements[m].value[2] \in Int
        BY ElementType
      <4>3. /\ Value(j)[1] = -area_list[j] /\ Value(j)[2] = -delay_list[j]
            /\ Value(c)[1] = -area_list[c] /\ Value(c)[2] = -delay_list[c]
            /\ area_list[j] \in Int /\ delay_list[j] \in Int
            /\ area_list[c] \in Int /\ delay_list[c] \in Int
        BY <3>1, ValueType
      <4> DEFINE a == elements[m].value[1]
                 d == elements[m].value[2]
      <4>4. a >= -area_list[j] /\ d >= -delay_list[j]
        BY <4>1, <4>3 DEF CoveredBy, dominates
      <4>5. /\ a >= -area_list[c] /\ d >= -delay_list[c]
            /\ a # -area_list[c] \/ d # -delay_list[c]
        <5> HIDE DEF a, d
        <5>1. a \in Int /\ d \in Int
          BY <4>2 DEF a, d
        <5> QED BY <5>1, <3>3, <4>3, <4>4 DEF Beats
      <4>6. dominates(elements[m], elements[k].value) /\ elements[m].value # elements[k].value
        BY <3>2, <4>3, <4>5 DEF dominates
      <4> QED BY <4>6 DEF Antichain, Places
    <3> QED BY <3>1, <3>3
  <2>3. ASSUME c \in Indices, \A j \in Indices : ~Beats(j, c)
        PROVE  \E k \in Places : HasIndex(k, c)
    <3>1. PICK k \in Places : CoveredBy(k, c)
      BY <2>0, <2>3 DEF NothingLost
    <3> DEFINE j == elements[k].indices[1]
    <3>2. HasIndex(k, j)
      BY DEF OwnIndices
    <3>3. j \in Indices
      BY <3>2 DEF HasIndex, SelectionTypeOK, Places
    <3>4. elements[k].value = Value(j)
      BY <3>2, <3>3 DEF OwnIndices
    <3> HIDE DEF j
    <3>5. equal(elements[k], Value(c))
      BY <2>3, <3>1, <3>3, <3>4, BeatsDominates DEF CoveredBy
    <3> QED BY <3>1, <3>5 DEF CoveredBy
  <2> QED BY <2>1, <2>2, <2>3
<1> QED BY <1>1, SelectionInvariance, PTL

\* With the areas and delays of all choices for a cut as its arguments, the
\* selection returns what Solve of OldSolver keeps.
THEOREM SelectionServes ==
  ASSUME NEW cut, NEW c, NEW choice_list,
         \A k \in Indices :
           /\ choice_list[k] \in FaninCells(cut)
           /\ area_list[k] = TotalArea(c, choice_list[k])
           /\ delay_list[k] = MaxDelay(cut, choice_list[k]),
         \A l \in FaninCells(cut) : \E k \in Indices : choice_list[k] = l,
         index > Len(area_list), ParetoOptimal
  PROVE  {choice_list[k] : k \in pareto_indices} = ParetoChoices(cut, c)
<1>1. pareto_indices = {k \in Indices : \A j \in Indices : ~Beats(j, k)}
  BY DEF ParetoOptimal
<1>2. ASSUME NEW j \in Indices, NEW k \in Indices
      PROVE  Beats(j, k) <=>
               /\ TotalArea(c, choice_list[j]) =< TotalArea(c, choice_list[k])
               /\ MaxDelay(cut, choice_list[j]) =< MaxDelay(cut, choice_list[k])
               /\ \/ TotalArea(c, choice_list[j]) < TotalArea(c, choice_list[k])
                  \/ MaxDelay(cut, choice_list[j]) < MaxDelay(cut, choice_list[k])
  BY Zenon DEF Beats
<1>3. ASSUME NEW k \in pareto_indices PROVE choice_list[k] \in ParetoChoices(cut, c)
  BY <1>1, <1>2, <1>3 DEF ParetoChoices
<1>4. ASSUME NEW l \in ParetoChoices(cut, c)
      PROVE  \E k \in pareto_indices : choice_list[k] = l
  <2>1. PICK k \in Indices : choice_list[k] = l
    BY DEF ParetoChoices
  <2>2. \A j \in Indices : ~Beats(j, k)
    BY <1>2, <2>1 DEF ParetoChoices
  <2>. QED  BY <1>1, <2>1, <2>2
<1>. QED  BY <1>3, <1>4

-----------------------------------------------------------------------------
(***************************************************************************)
(* Finite sets and their lists                                             *)
(***************************************************************************)

\* A finite set of integers has a least and a greatest element.
LEMMA ExtremesOfInts ==
  ASSUME NEW S, IsFiniteSet(S), S \subseteq Int, S # {}
  PROVE  /\ Min(S) \in S /\ \A y \in S : Min(S) =< y
         /\ Max(S) \in S /\ \A y \in S : y =< Max(S)
<1> DEFINE Bounded(U) == (\E m \in U : \A y \in U : m =< y) /\ (\E m \in U : \A y \in U : y =< m)
           B == {U \in SUBSET S : U # {} /\ ~Bounded(U)}
<1>1. B = {}
  <2>1. SUFFICES ASSUME B # {} PROVE FALSE
    OBVIOUS
  <2>2. PICK U \in B : U # {} /\ IsFiniteSet(U) /\ \A x \in U : U \ {x} \notin B
    <3>1. B \in SUBSET (SUBSET S) /\ {} \notin B
      OBVIOUS
    <3>. HIDE DEF B
    <3>. QED  BY <2>1, <3>1, SmallestBadSet
  <2>3. PICK x \in U : x \in Int
    BY <2>2
  <2>4. PICK V : V = U \ {x}
    OBVIOUS
  <2>5. V = {} \/ Bounded(V)
    BY <2>2, <2>3, <2>4
  <2>6. CASE V = {}
    <3>1. \A y \in U : y = x
      BY <2>4, <2>6
    <3>. QED  BY <2>2, <2>3, <3>1
  <2>7. CASE Bounded(V)
    <3>1. PICK a \in V : \A y \in V : a =< y
      BY <2>7
    <3>2. PICK b \in V : \A y \in V : y =< b
      BY <2>7
    <3>3. a \in Int /\ b \in Int /\ a \in U /\ b \in U /\ \A y \in U : y \in Int /\ (y = x \/ y \in V)
      BY <2>2, <2>4, <3>1, <3>2
    <3>4. \E m \in U : \A y \in U : m =< y
      <4>1. CASE a =< x
        BY <3>1, <3>3, <4>1, <2>3
      <4>2. CASE x =< a
        BY <3>1, <3>3, <4>2, <2>3
      <4>. QED  BY <2>3, <3>3, <4>1, <4>2
    <3>5. \E m \in U : \A y \in U : y =< m
      <4>1. CASE b =< x
        BY <3>2, <3>3, <4>1, <2>3
      <4>2. CASE x =< b
        BY <3>2, <3>3, <4>2, <2>3
      <4>. QED  BY <2>3, <3>3, <4>1, <4>2
    <3>. QED  BY <2>2, <3>4, <3>5
  <2>. QED  BY <2>5, <2>6, <2>7
<1>2. PICK a \in S : \A y \in S : a =< y
  BY <1>1
<1>3. PICK b \in S : \A y \in S : b >= y
  BY <1>1
<1>. QED  BY <1>2, <1>3 DEF Min, Max

\* There are finitely many sequences of a length over a finite set.
LEMMA FiniteFunctions ==
  ASSUME NEW n \in Nat, NEW U, IsFiniteSet(U)
  PROVE  IsFiniteSet([1 .. n -> U])
<1> DEFINE G == {k \in Nat : IsFiniteSet([1 .. k -> U])}
<1>1. 0 \in G
  <2>1. \A f \in [1 .. 0 -> U] : f = [i \in 1 .. 0 |-> 0]
    OBVIOUS
  <2>2. [1 .. 0 -> U] \subseteq {[i \in 1 .. 0 |-> 0]}
    BY <2>1
  <2>3. IsFiniteSet({[i \in 1 .. 0 |-> 0]})
    BY FS_Singleton
  <2>. QED  BY <2>2, <2>3, FS_Subset
<1>2. ASSUME NEW k \in G PROVE k + 1 \in G
  <2>0. k \in Nat /\ IsFiniteSet([1 .. k -> U])
    OBVIOUS
  <2>1. PICK S, T : S = [1 .. k + 1 -> U] /\ T = [1 .. k -> U] \X U
    OBVIOUS
  <2>2. IsFiniteSet(T)
    BY <2>0, <2>1, FS_Product
  <2>3. PICK h : h = [f \in S |-> <<[i \in 1 .. k |-> f[i]], f[k + 1]>>]
    OBVIOUS
  <2>4. h \in [S -> T]
    <3>1. \A f \in S : h[f] \in T
      BY <2>0, <2>1, <2>3
    <3>. QED  BY <2>3, <3>1
  <2>5. ASSUME NEW f \in S, NEW g \in S, h[f] = h[g] PROVE f = g
    <3>1. /\ [i \in 1 .. k |-> f[i]] = [i \in 1 .. k |-> g[i]]
          /\ f[k + 1] = g[k + 1]
      BY <2>3, <2>5
    <3>2. \A i \in 1 .. k : f[i] = g[i]
      <4> TAKE i \in 1 .. k
      <4>1. [j \in 1 .. k |-> f[j]][i] = f[i] /\ [j \in 1 .. k |-> g[j]][i] = g[i]
        OBVIOUS
      <4>. QED  BY <3>1, <4>1
    <3>3. \A i \in 1 .. k + 1 : i \in 1 .. k \/ i = k + 1
      BY <2>0
    <3>. QED  BY <2>1, <3>1, <3>2, <3>3
  <2>6. h \in Injection(S, T)
    BY <2>4, <2>5 DEF Injection, IsInjective
  <2>7. IsFiniteSet(S)
    BY <2>2, <2>6, FS_Injection
  <2>. QED  BY <2>0, <2>1, <2>7
<1>3. G = Nat
  <2>. HIDE DEF G
  <2>0. G \in SUBSET Nat
    BY DEF G
  <2>. QED  BY <1>1, <1>2, <2>0, InductionOnNat
<1>. QED  BY <1>3

\* SetToSeq lists a finite set.
LEMMA SetToSeqLists ==
  ASSUME NEW S, IsFiniteSet(S)
  PROVE  /\ SetToSeq(S) \in [1 .. Cardinality(S) -> S]
         /\ \A x \in S : \E j \in 1 .. Cardinality(S) : SetToSeq(S)[j] = x
         /\ Cardinality(S) \in Nat /\ Len(SetToSeq(S)) = Cardinality(S)
<1>1. PICK D : D = 1 .. Cardinality(S)
  OBVIOUS
<1>2. Cardinality(S) \in Nat /\ ExistsBijection(D, S)
  BY <1>1, FS_CardinalityType
<1>3. IsFiniteSet(D) /\ Cardinality(D) = Cardinality(S)
  BY <1>1, <1>2, FS_Interval
<1>4. \E f \in [D -> S] : IsInjective(f)
  BY <1>2 DEF ExistsBijection, Bijection, Injection
<1>5. PICK f : f = SetToSeq(S)
  OBVIOUS
<1>6. f \in [D -> S] /\ IsInjective(f)
  BY <1>1, <1>4, <1>5 DEF SetToSeq
<1>7. f \in Injection(D, S)
  BY <1>6 DEF Injection
<1>8. f \in Surjection(D, S)
  BY <1>3, <1>7, FS_Injection
<1>. QED  BY <1>1, <1>2, <1>5, <1>6, <1>8 DEF Surjection

-----------------------------------------------------------------------------
(***************************************************************************)
(* OldSolver: the inductive invariant of dp_solve_rec                      *)
(***************************************************************************)

\* The entries of the nodes of a cut are calculated, and do not change again.
LeavesSolved(cut) ==
  \A k \in 1 .. Len(cut) : \A d \in CandidatesOf(cut[k]) : Calculated(cut[k], d)

\* In area and delay, for candidate c of gate n.
AsGood(n, c, m, l) ==
  /\ TotalArea(c, m) =< TotalArea(c, l)
  /\ DelayNow(n, Mapped[n], m) =< DelayNow(n, Mapped[n], l)

IsFront(n, c, kept) ==
  /\ \A l \in FaninCells(Mapped[n]) : \E j \in 1 .. Len(kept) : AsGood(n, c, kept[j], l)
  /\ \A i, j \in 1 .. Len(kept) : AsGood(n, c, kept[i], kept[j]) => AsGood(n, c, kept[j], kept[i])

KeptType(n, kept) ==
  /\ kept \in Seq(FaninCells(Mapped[n]))
  /\ Len(kept) >= 1
  /\ InputGate(n) => Len(kept) = 1

\* The delay in front, which init_dp_table has measured.
NumMeasured(n) == IF InputGate(n) THEN 1 ELSE 0

SolvedEntry(n, c) ==
  LET kept == dp_table[n][c].pareto_gate_list
      delays == dp_table[n][c].delay_list
  IN /\ LeavesSolved(Mapped[n])
     /\ KeptType(n, kept)
     /\ delays \in Seq(Nat)
     /\ Len(delays) = Len(kept) + NumMeasured(n)
     /\ IsFront(n, c, kept)
     /\ \A j \in 1 .. Len(kept) : delays[j + NumMeasured(n)] = DelayNow(n, Mapped[n], kept[j])

TableInv ==
  /\ DOMAIN dp_table = Gates
  /\ \A n \in Gates : DOMAIN dp_table[n] = Candidates(n) /\ Candidates(n) # {}
  /\ \A n \in Gates : \A c \in Candidates(n) :
       IF dp_table[n][c].is_calculated THEN SolvedEntry(n, c) ELSE dp_table[n][c] = NewEntry(n, c)

\* The critical delay t of choice l is one of its delays.
IsCritical(n, l, t) ==
  LET cut == Mapped[n]
  IN \E k \in 1 .. Len(cut) : \E i \in DOMAIN DelayList(cut[k], l[k]) :
       /\ t = <<cut[k], l[k], i>>
       /\ DelayList(cut[k], l[k])[i] + arrival[n] - ArrivalOf(cut[k]) = DelayNow(n, cut, l)

CachedFor(n, c, e) ==
  /\ LeavesSolved(Mapped[n])
  /\ KeptType(n, e.pareto_gate_list)
  /\ DOMAIN e.critical = 1 .. Len(e.pareto_gate_list)
  /\ \A j \in 1 .. Len(e.pareto_gate_list) :
       IsCritical(n, e.pareto_gate_list[j], e.critical[j])
  /\ IsFront(n, c, e.pareto_gate_list)

CacheInv ==
  /\ DOMAIN dp_cut_cache = Gates
  /\ \A n \in Gates : \A v \in DOMAIN dp_cut_cache[n] : \E c \in Candidates(n) :
       v = cut_value(Mapped[n]) /\ CachedFor(n, c, dp_cut_cache[n][v])

\* All this holds without remapping, when the timer's nets are never
\* rebuilt.
TimeInv ==
  /\ ~remap_flag
  /\ arrival \in Timings
  /\ \A n \in Gates : node_cut_map[n] = Mapped[n]

CallRecords ==
  [node : Gates, cell : Cells, at : Nat, fanin : UNION {[S -> Nat] : S \in SUBSET Nodes}]

CallOK(call) ==
  /\ call \in CallRecords
  /\ call.cell \in Candidates(call.node)
  /\ ~Calculated(call.node, call.cell)
  /\ \A l \in Range(Mapped[call.node]) : call.fanin[l] \in Nat /\ call.fanin[l] < call.at
  /\ call.at = arrival[call.node]
  /\ \A l \in Range(Mapped[call.node]) : call.fanin[l] = ArrivalOf(l)

CallInv ==
  /\ calls \in Seq(CallRecords)
  /\ \A i \in 1 .. Len(calls) : CallOK(calls[i])
  /\ \A i, j \in 1 .. Len(calls) : i < j => calls[j].node < calls[i].node

SolveInv == TableInv /\ CacheInv /\ TimeInv /\ CallInv

-----------------------------------------------------------------------------
\* A cut of a gate is a list of smaller nodes.
LEMMA AnyCutType ==
  ASSUME NEW n \in Gates, NEW cut, cut = Mapped[n] \/ \E c \in Offered[n] : cut = Cut[n][c]
  PROVE  /\ n \in Nat /\ Len(cut) \in Nat /\ Len(cut) >= 1
         /\ \A k \in 1 .. Len(cut) : cut[k] \in Nat /\ cut[k] < n /\ cut[k] \in Range(cut)
         /\ \A l \in Range(cut) : /\ l \in Nat /\ l < n /\ l \in Reads(n)
                                  /\ \E k \in 1 .. Len(cut) : l = cut[k]
<1>1. cut \in Seq(Nodes) /\ cut # <<>>
  BY NetworkAssumption
<1>2. Range(cut) \subseteq Reads(n)
  BY DEF Reads
<1>3. \A l \in Range(cut) : l < n
  BY <1>2, NetworkAssumption
<1>4. n \in Nat /\ \A l \in Nodes : l \in Nat
  BY NetworkAssumption DEF Nodes
<1>5. DOMAIN cut = 1 .. Len(cut) /\ Len(cut) \in Nat /\ Len(cut) >= 1
  BY <1>1
<1>6. \A k \in 1 .. Len(cut) : cut[k] \in Nodes
  BY <1>1
<1>7. \A l : l \in Range(cut) <=> \E k \in 1 .. Len(cut) : l = cut[k]
  BY <1>5 DEF Range
<1>. QED  BY <1>2, <1>3, <1>4, <1>5, <1>6, <1>7

\* So is what the mapper made a gate read.
LEMMA CutType ==
  ASSUME NEW n \in Gates
  PROVE  /\ n \in Nat /\ Len(Mapped[n]) \in Nat /\ Len(Mapped[n]) >= 1
         /\ \A k \in 1 .. Len(Mapped[n]) :
              Mapped[n][k] \in Nat /\ Mapped[n][k] < n /\ Mapped[n][k] \in Range(Mapped[n])
         /\ \A l \in Range(Mapped[n]) :
              l \in Nat /\ l < n /\ l \in Reads(n) /\ \E k \in 1 .. Len(Mapped[n]) : l = Mapped[n][k]
BY AnyCutType

\* The candidates of a gate are cells, finitely many.
LEMMA CandidatesType ==
  ASSUME NEW n \in Gates
  PROVE  /\ Candidates(n) \subseteq Fitting[n] \cup Offered[n]
         /\ Candidates(n) \subseteq Cells /\ IsFiniteSet(Candidates(n))
<1>1. Candidates(n) \subseteq Fitting[n] \cup Offered[n]
  BY DEF Candidates, Suitable
<1>2. Candidates(n) \subseteq Cells /\ IsFiniteSet(Cells)
  BY <1>1, LibraryAssumption
<1>. QED  BY <1>1, <1>2, FS_Subset

\* Areas are integers.
LEMMA AreaType == \A c : AreaOf(c) \in Int
BY LibraryAssumption DEF AreaOf

\* The area of a choice is the area of the cell and the sum of the others.
LEMMA TotalAreaSum ==
  ASSUME NEW n \in Nat, NEW l, DOMAIN l = 1 .. n, NEW c
  PROVE  TotalArea(c, l) = AreaOf(c) + SumFunctionOnSet([i \in 1 .. n |-> AreaOf(l[i])], 1 .. n)
<1> DEFINE D == DOMAIN l
           w == [i \in 1 .. n |-> AreaOf(l[i])]
           b == AreaOf(c)
           op == [a \in (1 .. n) \X Int |-> a[2] + AreaOf(l[a[1]])]
           iter == CHOOSE it : it = [s \in SUBSET D |->
                     IF s = {} THEN b ELSE it[s \ {Max(s)}] + AreaOf(l[Max(s)])]
<1>1. D = 1 .. n /\ op \in [(1 .. n) \X Int -> Int] /\ b \in Int /\ \A i \in D : w[i] \in Int
  BY AreaType
<1>2. PICK it : LeftFold(it, n, Int, b, op)
  <2>. HIDE DEF op, b
  <2>. QED  BY <1>1, LeftFoldExists
<1>0. \A s \in SUBSET D : s # {} => Max(s) \in s
  <2> TAKE s \in SUBSET D
  <2> HAVE s # {}
  <2>1. IsFiniteSet(D) /\ s \subseteq Int
    BY <1>1, FS_Interval
  <2>. QED  BY <2>1, FS_Subset, ExtremesOfInts
<1>3. it = [s \in SUBSET D |->
             IF s = {} THEN b ELSE it[s \ {Max(s)}] + AreaOf(l[Max(s)])]
  <2>1. ASSUME NEW s \in SUBSET D, s # {}
        PROVE  op[<<Max(s), it[s \ {Max(s)}]>>] = it[s \ {Max(s)}] + AreaOf(l[Max(s)])
    <3>2. Max(s) \in D
      BY <2>1, <1>0
    <3>3. it[s \ {Max(s)}] \in Int
      BY <1>1, <1>2 DEF LeftFold
    <3>. QED  BY <1>1, <3>2, <3>3
  <2>2. it = [s \in SUBSET D |->
               IF s = {} THEN b ELSE op[<<Max(s), it[s \ {Max(s)}]>>]]
    <3>. HIDE DEF op, b
    <3>. QED  BY <1>1, <1>2 DEF LeftFold
  <2>. HIDE DEF op, D, b
  <2>. QED  BY <2>1, <2>2
<1>4. iter = [s \in SUBSET D |->
               IF s = {} THEN b ELSE iter[s \ {Max(s)}] + AreaOf(l[Max(s)])]
  <2>. HIDE DEF D, b
  <2>. QED  BY <1>3
<1>5. TotalArea(c, l) = iter[D]
  BY DEF TotalArea, FoldLeft, MapThenFoldSet
<1>6. PICK g : g = iter
  OBVIOUS
<1>7. \A s \in SUBSET D : g[s] = IF s = {} THEN b ELSE g[s \ {Max(s)}] + AreaOf(l[Max(s)])
  <2>1. g = [s \in SUBSET D |-> IF s = {} THEN b ELSE g[s \ {Max(s)}] + AreaOf(l[Max(s)])]
    BY <1>4, <1>6
  <2>. HIDE DEF D, b
  <2>. QED  BY <2>1
<1> DEFINE P(k) == g[1 .. k] = b + SumFunctionOnSet(w, 1 .. k)
           G == {k \in Nat : k =< n => P(k)}
<1>8. 0 \in G
  <2>1. 1 .. 0 = {}
    OBVIOUS
  <2>2. g[{}] = b
    BY <1>7
  <2>3. SumFunctionOnSet(w, {}) = 0
    BY SumEmpty
  <2>4. g[1 .. 0] = b + SumFunctionOnSet(w, 1 .. 0)
    <3>. HIDE DEF b, w
    <3>. QED  BY <1>1, <2>1, <2>2, <2>3
  <2>. QED  BY <2>4
<1>9. ASSUME NEW k \in G PROVE k + 1 \in G
  <2>1. SUFFICES ASSUME k + 1 =< n PROVE P(k + 1)
    OBVIOUS
  <2>2. k \in Nat /\ P(k)
    BY <2>1
  <2>3. PICK T, U : T = 1 .. k + 1 /\ U = 1 .. k
    OBVIOUS
  <2>4. T \in SUBSET D /\ T # {} /\ T = U \cup {k + 1} /\ k + 1 \notin U
    BY <1>1, <2>1, <2>2, <2>3
  <2>5. Max(T) = k + 1 /\ T \ {Max(T)} = U
    BY <2>2, <2>3, GreatestOfInterval
  <2>6. g[T] = g[U] + AreaOf(l[k + 1])
    BY <1>7, <2>4, <2>5
  <2>7. w[k + 1] = AreaOf(l[k + 1]) /\ w[k + 1] \in Int
    BY <1>1, <2>1, <2>2
  <2>8. IsFiniteSet(U) /\ \A i \in U : w[i] \in Int
    <3>1. IsFiniteSet(U)
      <4>1. 1 \in Int /\ k \in Int
        BY <2>2
      <4>2. IsFiniteSet(1 .. k)
        BY <4>1, FS_Interval
      <4>. QED  BY <2>3, <4>2
    <3>. QED  BY <1>1, <2>1, <2>2, <2>3, <3>1
  <2>9. SumFunctionOnSet(w, T) = SumFunctionOnSet(w, U) + w[k + 1] /\ SumFunctionOnSet(w, U) \in Int
    <3>. HIDE DEF w
    <3>. QED  BY <2>4, <2>7, <2>8, SumAdd, SumType
  <2>10. g[U] = b + SumFunctionOnSet(w, U)
    BY <2>2, <2>3
  <2>11. g[T] = b + SumFunctionOnSet(w, T)
    <3>. HIDE DEF w, b
    <3>. QED  BY <1>1, <2>6, <2>7, <2>9, <2>10
  <2>. QED  BY <2>3, <2>11
<1>10. G = Nat
  <2>. HIDE DEF P
  <2>0. G \in SUBSET Nat
    OBVIOUS
  <2>. HIDE DEF G
  <2>. QED  BY <1>8, <1>9, <2>0, InductionOnNat
<1>11. P(n)
  <2>. HIDE DEF P
  <2>. QED  BY <1>10
<1>. QED  BY <1>1, <1>5, <1>6, <1>11

\* So the order of choices by area does not depend on the cell they are for.
LEMMA AreaShift ==
  ASSUME NEW n \in Nat, NEW l, DOMAIN l = 1 .. n, NEW c, NEW d
  PROVE  /\ TotalArea(c, l) \in Int
         /\ TotalArea(d, l) = TotalArea(c, l) + (AreaOf(d) - AreaOf(c))
<1>1. PICK w : w = [i \in 1 .. n |-> AreaOf(l[i])]
  OBVIOUS
<1>2. PICK s : s = SumFunctionOnSet(w, 1 .. n)
  OBVIOUS
<1>3. s \in Int
  <2>1. IsFiniteSet(1 .. n) /\ \A i \in 1 .. n : w[i] \in Int
    BY <1>1, AreaType, FS_Interval
  <2>. QED  BY <1>2, <2>1, SumType
<1>4. TotalArea(c, l) = AreaOf(c) + s /\ TotalArea(d, l) = AreaOf(d) + s
  BY <1>1, <1>2, TotalAreaSum
<1>. QED  BY <1>3, <1>4, AreaType

-----------------------------------------------------------------------------
(***************************************************************************)
(* OldSolver: the choices for a cut and their delays                       *)
(***************************************************************************)

\* What a function takes a finite set to is finite.
LEMMA FiniteImage ==
  ASSUME NEW S, IsFiniteSet(S), NEW f
  PROVE  IsFiniteSet({f[x] : x \in S})
<1>1. PICK T : T = {f[x] : x \in S}
  OBVIOUS
<1>2. PICK g : g = [x \in S |-> f[x]]
  OBVIOUS
<1>3. g \in Surjection(S, T)
  BY <1>1, <1>2 DEF Surjection
<1>. QED  BY <1>1, <1>3, FS_Surjection

\* A node that is read has finitely many candidates, and one at least.
LEMMA CandidatesOfType ==
  ASSUME TableInv, NEW m
  PROVE  IsFiniteSet(CandidatesOf(m)) /\ CandidatesOf(m) # {}
<1>1. CASE m \in Gates
  BY <1>1, CandidatesType DEF TableInv, CandidatesOf
<1>2. CASE m \notin Gates
  BY <1>2, FS_Singleton DEF CandidatesOf
<1>. QED  BY <1>1, <1>2

\* A choice is a list of candidates.
LEMMA FaninElements ==
  ASSUME NEW cut, NEW l \in FaninCells(cut)
  PROVE  DOMAIN l = 1 .. Len(cut) /\ \A k \in 1 .. Len(cut) : l[k] \in CandidatesOf(cut[k])
BY DEF FaninCells

\* A cut has finitely many choices, and one at least.
LEMMA FaninType ==
  ASSUME TableInv, NEW n \in Gates
  PROVE  /\ IsFiniteSet(FaninCells(Mapped[n]))
         /\ FaninCells(Mapped[n]) # {}
<1>1. PICK cut : cut = Mapped[n]
  OBVIOUS
<1>2. /\ Len(cut) \in Nat
      /\ \A k \in 1 .. Len(cut) : cut[k] \in Range(cut)
      /\ \A m \in Range(cut) : \E k \in 1 .. Len(cut) : m = cut[k]
  BY <1>1, CutType
<1>3. PICK R : R = Range(cut)
  OBVIOUS
<1>4. IsFiniteSet(R)
  <2>1. PICK D : D = 1 .. Len(cut)
    OBVIOUS
  <2>2. IsFiniteSet(D)
    BY <1>2, <2>1, FS_Interval
  <2>3. PICK I : I = {cut[k] : k \in D}
    OBVIOUS
  <2>4. IsFiniteSet(I)
    BY <2>2, <2>3, FiniteImage
  <2>5. R = I
    BY <1>2, <1>3, <2>1, <2>3
  <2>. QED  BY <2>4, <2>5
<1>5. PICK A : A = {CandidatesOf(m) : m \in R}
  OBVIOUS
<1>6. IsFiniteSet(A)
  <2>1. PICK f : f = [m \in R |-> CandidatesOf(m)]
    OBVIOUS
  <2>2. PICK B : B = {f[m] : m \in R}
    OBVIOUS
  <2>3. IsFiniteSet(B)
    BY <1>4, <2>2, FiniteImage
  <2>4. A = B
    BY <1>5, <2>1, <2>2
  <2>. QED  BY <2>3, <2>4
<1>7. \A S \in A : IsFiniteSet(S)
  BY <1>5, CandidatesOfType
<1>8. PICK U : U = UNION A
  OBVIOUS
<1>9. IsFiniteSet(U)
  BY <1>6, <1>7, <1>8, FS_UNION
<1>10. IsFiniteSet([1 .. Len(cut) -> U])
  BY <1>2, <1>9, FiniteFunctions
<1>11. PICK F : F = [1 .. Len(cut) -> U]
  OBVIOUS
<1>12. FaninCells(cut) \subseteq F
  BY <1>3, <1>5, <1>8, <1>11 DEF FaninCells
<1>13. FaninCells(cut) # {}
  <2>1. PICK l : l = [k \in 1 .. Len(cut) |-> CHOOSE d \in CandidatesOf(cut[k]) : TRUE]
    OBVIOUS
  <2>2. \A k \in 1 .. Len(cut) : l[k] \in CandidatesOf(cut[k])
    <3> TAKE k \in 1 .. Len(cut)
    <3>1. \E d : d \in CandidatesOf(cut[k])
      BY CandidatesOfType
    <3>. QED  BY <2>1, <3>1
  <2>3. \A k \in 1 .. Len(cut) : l[k] \in U
    BY <1>2, <1>3, <1>5, <1>8, <2>2
  <2>4. l \in [1 .. Len(cut) -> U]
    BY <2>1, <2>3
  <2>. QED  BY <1>3, <1>5, <1>8, <2>2, <2>4 DEF FaninCells
<1>. QED  BY <1>1, <1>10, <1>11, <1>12, <1>13, FS_Subset

\* A gate behind inputs has no choice.
LEMMA InputFanin ==
  ASSUME NEW n \in Gates, InputGate(n),
         NEW l \in FaninCells(Mapped[n]), NEW m \in FaninCells(Mapped[n])
  PROVE  l = m
<1>1. PICK cut : cut = Mapped[n]
  OBVIOUS
<1>2. \A k \in 1 .. Len(cut) : cut[k] \notin Gates
  <2>1. Range(cut) \cap Gates = {}
    BY <1>1 DEF InputGate
  <2>2. \A k \in 1 .. Len(cut) : cut[k] \in Range(cut)
    BY <1>1, CutType
  <2>. QED  BY <2>1, <2>2
<1>3. \A k \in 1 .. Len(cut) : l[k] = cut[k] /\ m[k] = cut[k]
  <2> TAKE k \in 1 .. Len(cut)
  <2>1. l[k] \in CandidatesOf(cut[k]) /\ m[k] \in CandidatesOf(cut[k])
    BY <1>1, FaninElements
  <2>. QED  BY <1>2, <2>1 DEF CandidatesOf
<1>. QED  BY <1>1, <1>3 DEF FaninCells

\* The delays of a solved node are natural numbers, and there is a least one.
LEMMA MinDelayType ==
  ASSUME TableInv, NEW m, NEW d \in CandidatesOf(m), Calculated(m, d)
  PROVE  /\ DelayList(m, d) \in Seq(Nat)
         /\ MinDelay(m, d) \in Nat
         /\ \E i \in DOMAIN DelayList(m, d) : DelayList(m, d)[i] = MinDelay(m, d)
         /\ \A i \in DOMAIN DelayList(m, d) : MinDelay(m, d) =< DelayList(m, d)[i]
<1>1. PICK s : s = DelayList(m, d)
  OBVIOUS
<1>2. s \in Seq(Nat) /\ Len(s) >= 1
  <2>1. CASE m \in Gates
    <3>1. d \in Candidates(m) /\ dp_table[m][d].is_calculated
      BY <2>1 DEF TableInv, CandidatesOf, Calculated
    <3>2. SolvedEntry(m, d)
      BY <2>1, <3>1 DEF TableInv
    <3>3. s = dp_table[m][d].delay_list
      BY <1>1, <2>1 DEF DelayList
    <3>4. /\ s \in Seq(Nat)
          /\ Len(s) = Len(dp_table[m][d].pareto_gate_list) + NumMeasured(m)
          /\ KeptType(m, dp_table[m][d].pareto_gate_list)
      BY <3>2, <3>3 DEF SolvedEntry
    <3>5. Len(dp_table[m][d].pareto_gate_list) \in Nat /\ Len(dp_table[m][d].pareto_gate_list) >= 1
      BY <3>4 DEF KeptType
    <3>6. NumMeasured(m) \in {0, 1}
      BY DEF NumMeasured
    <3>7. Len(s) >= 1
      BY <3>4, <3>5, <3>6
    <3>. QED  BY <3>4, <3>7
  <2>2. CASE m \notin Gates
    <3>1. s = <<0>>
      BY <1>1, <2>2 DEF DelayList
    <3>. QED  BY <3>1
  <2>. QED  BY <2>1, <2>2
<1>3. PICK R : R = Range(s)
  OBVIOUS
<1>4. DOMAIN s = 1 .. Len(s) /\ Len(s) \in Nat
  BY <1>2
<1>5. IsFiniteSet(R)
  <2>1. PICK D : D = 1 .. Len(s)
    OBVIOUS
  <2>2. IsFiniteSet(D)
    BY <1>4, <2>1, FS_Interval
  <2>3. PICK I : I = {s[k] : k \in D}
    OBVIOUS
  <2>4. IsFiniteSet(I)
    BY <2>2, <2>3, FiniteImage
  <2>5. R = I
    BY <1>3, <1>4, <2>1, <2>3 DEF Range
  <2>. QED  BY <2>4, <2>5
<1>6. /\ R \subseteq Nat /\ R # {}
      /\ \A i \in DOMAIN s : s[i] \in R
      /\ \A y \in R : \E i \in DOMAIN s : y = s[i]
  BY <1>2, <1>3, <1>4 DEF Range
<1>7. Min(R) \in R /\ \A y \in R : Min(R) =< y
  <2>1. R \subseteq Int
    BY <1>6
  <2>. QED  BY <1>5, <1>6, <2>1, ExtremesOfInts
<1>8. MinDelay(m, d) = Min(R)
  BY <1>1, <1>3 DEF MinDelay
<1>. QED  BY <1>1, <1>2, <1>6, <1>7, <1>8

\* A maximum over the positions of a list is taken somewhere.
LEMMA GreatestOfPositions ==
  ASSUME NEW num \in Nat, num >= 1, NEW f, \A k \in 1 .. num : f[k] \in Int
  PROVE  \E k \in 1 .. num : /\ Max({f[i] : i \in 1 .. num}) = f[k]
                             /\ \A i \in 1 .. num : f[i] =< f[k]
<1>1. PICK D : D = 1 .. num
  OBVIOUS
<1>2. IsFiniteSet(D)
  BY <1>1, FS_Interval
<1>3. PICK S : S = {f[k] : k \in D}
  OBVIOUS
<1>4. IsFiniteSet(S) /\ S # {} /\ S \subseteq Int
  <2>1. IsFiniteSet(S)
    BY <1>2, <1>3, FiniteImage
  <2>2. 1 \in D
    BY <1>1
  <2>. QED  BY <1>1, <1>3, <2>1, <2>2
<1>5. Max(S) \in S /\ \A y \in S : y =< Max(S)
  BY <1>4, ExtremesOfInts
<1>. QED  BY <1>1, <1>3, <1>5

-----------------------------------------------------------------------------
(***************************************************************************)
(* The delay of a choice                                                   *)
(***************************************************************************)

\* The arrivals, and that they ascend along the gates.
LEMMA ArrivalsAscend ==
  ASSUME TimeInv, NEW n \in Gates
  PROVE  /\ arrival[n] \in Nat
         /\ \A l \in Range(Mapped[n]) : ArrivalOf(l) \in Nat /\ ArrivalOf(l) < arrival[n]
<1>1. \A m \in Gates : arrival[m] \in Arrivals[m] /\ arrival[m] \in Nat \ {0}
  BY TimerAssumption DEF TimeInv, Timings
<1>2. ASSUME NEW l \in Range(Mapped[n])
      PROVE  ArrivalOf(l) \in Nat /\ ArrivalOf(l) < arrival[n]
  <2>1. CASE l \in Gates
    <3>1. l \in Reads(n) \cap Gates
      BY <2>1 DEF Reads
    <3>2. arrival[l] < arrival[n]
      BY <1>1, <2>1, <3>1, TimerAssumption
    <3>. QED  BY <1>1, <2>1, <3>2 DEF ArrivalOf
  <2>2. CASE l \notin Gates
    BY <1>1, <2>2 DEF ArrivalOf
  <2>. QED  BY <2>1, <2>2
<1>. QED  BY <1>1, <1>2

\* The delays of the cells of a choice.
LEMMA LeafDelays ==
  ASSUME TableInv, NEW cut, LeavesSolved(cut), NEW l \in FaninCells(cut), NEW k \in 1 .. Len(cut)
  PROVE  /\ DelayList(cut[k], l[k]) \in Seq(Nat)
         /\ MinDelay(cut[k], l[k]) \in Nat
         /\ \E i \in DOMAIN DelayList(cut[k], l[k]) :
              DelayList(cut[k], l[k])[i] = MinDelay(cut[k], l[k])
         /\ \A i \in DOMAIN DelayList(cut[k], l[k]) :
              MinDelay(cut[k], l[k]) =< DelayList(cut[k], l[k])[i]
<1>1. l[k] \in CandidatesOf(cut[k])
  BY FaninElements
<1>2. Calculated(cut[k], l[k])
  BY <1>1 DEF LeavesSolved
<1>. QED  BY <1>1, <1>2, MinDelayType

\* The delay of a choice is that through one of the nodes.
LEMMA DelayNowType ==
  ASSUME TableInv, TimeInv, NEW n \in Gates,
         LeavesSolved(Mapped[n]), NEW l \in FaninCells(Mapped[n])
  PROVE  DelayNow(n, Mapped[n], l) \in Nat
<1>1. PICK cut : cut = Mapped[n]
  OBVIOUS
<1>2. Len(cut) \in Nat /\ Len(cut) >= 1 /\ \A k \in 1 .. Len(cut) : cut[k] \in Range(cut)
  BY <1>1, CutType
<1>3. PICK f : f = [k \in 1 .. Len(cut) |-> MinDelay(cut[k], l[k]) + arrival[n] - ArrivalOf(cut[k])]
  OBVIOUS
<1>4. ASSUME NEW k \in 1 .. Len(cut) PROVE f[k] \in Nat
  <2>1. MinDelay(cut[k], l[k]) \in Nat
    BY <1>1, LeafDelays
  <2>2. arrival[n] \in Nat /\ ArrivalOf(cut[k]) \in Nat /\ ArrivalOf(cut[k]) < arrival[n]
    BY <1>1, <1>2, ArrivalsAscend
  <2>3. f[k] = MinDelay(cut[k], l[k]) + arrival[n] - ArrivalOf(cut[k])
    BY <1>3
  <2>. QED  BY <2>1, <2>2, <2>3
<1>5. {f[k] : k \in 1 .. Len(cut)}
        = {MinDelay(cut[k], l[k]) + arrival[n] - ArrivalOf(cut[k]) : k \in 1 .. Len(cut)}
  BY <1>3
<1>6. DelayNow(n, cut, l) = Max({f[k] : k \in 1 .. Len(cut)})
  BY <1>5 DEF DelayNow
<1>7. \E k \in 1 .. Len(cut) : Max({f[i] : i \in 1 .. Len(cut)}) = f[k]
  <2>1. PICK num : num = Len(cut)
    OBVIOUS
  <2>2. num \in Nat /\ num >= 1 /\ \A k \in 1 .. num : f[k] \in Int
    BY <1>2, <1>4, <2>1
  <2>3. \E k \in 1 .. num : Max({f[i] : i \in 1 .. num}) = f[k]
    BY <2>2, GreatestOfPositions
  <2>. QED  BY <2>1, <2>3
<1>. QED  BY <1>1, <1>4, <1>6, <1>7

\* The call at work, and its candidate.
LEMMA TopType ==
  ASSUME SolveInv, calls # <<>>
  PROVE  /\ Len(calls) \in Nat /\ Len(calls) >= 1 /\ Len(calls) \in DOMAIN calls
         /\ Top.node \in Gates /\ Top.cell \in Candidates(Top.node)
         /\ TopCut = Mapped[Top.node]
         /\ ~dp_table[Top.node][Top.cell].is_calculated
         /\ dp_table[Top.node][Top.cell] = NewEntry(Top.node, Top.cell)
         /\ \A l \in Range(TopCut) : pin2pin(l) \in Nat \ {0}
         /\ \A l \in Range(TopCut) : pin2pin(l) = arrival[Top.node] - ArrivalOf(l)
<1>1. calls \in Seq(CallRecords) /\ Len(calls) \in Nat /\ Len(calls) >= 1
  BY DEF SolveInv, CallInv
<1>2. Len(calls) \in 1 .. Len(calls) /\ Len(calls) \in DOMAIN calls /\ Top \in CallRecords
  BY <1>1 DEF Top
<1>3. Top.node \in Gates /\ Top.at \in Nat
  BY <1>2 DEF CallRecords
<1>7. TopCut = Mapped[Top.node]
  BY DEF SolveInv, TimeInv, TopCut, CutOf
<1>4. /\ Top.cell \in Candidates(Top.node)
      /\ ~Calculated(Top.node, Top.cell)
      /\ \A l \in Range(TopCut) : Top.fanin[l] \in Nat /\ Top.fanin[l] < Top.at
      /\ Top.at = arrival[Top.node]
      /\ \A l \in Range(TopCut) : Top.fanin[l] = ArrivalOf(l)
  BY <1>2, <1>7 DEF SolveInv, CallInv, CallOK, Top
<1>5. ~dp_table[Top.node][Top.cell].is_calculated
  BY <1>3, <1>4 DEF Calculated
<1>6. dp_table[Top.node][Top.cell] = NewEntry(Top.node, Top.cell)
  BY <1>3, <1>4, <1>5 DEF SolveInv, TableInv
<1>8. \A l \in Range(TopCut) : pin2pin(l) = Top.at - Top.fanin[l]
  BY DEF pin2pin
<1>9. \A l \in Range(TopCut) : pin2pin(l) \in Nat \ {0}
  BY <1>3, <1>4, <1>8
<1>10. \A l \in Range(TopCut) : pin2pin(l) = arrival[Top.node] - ArrivalOf(l)
  BY <1>4, <1>8
<1>. QED  BY <1>1, <1>2, <1>3, <1>4, <1>5, <1>6, <1>7, <1>9, <1>10

\* What is compared is the greatest delay through one of the nodes, which is
\* the delay of the choice.
LEMMA MaxDelayType ==
  ASSUME SolveInv, calls # <<>>, LeavesSolved(TopCut), NEW l \in FaninCells(TopCut)
  PROVE  /\ MaxDelay(TopCut, l) \in Nat
         /\ \E k \in 1 .. Len(TopCut) : DelayThrough(TopCut, l, k) = MaxDelay(TopCut, l)
         /\ \A k \in 1 .. Len(TopCut) : DelayThrough(TopCut, l, k) =< MaxDelay(TopCut, l)
         /\ MaxDelay(TopCut, l) = DelayNow(Top.node, TopCut, l)
<1>1. PICK cut : cut = TopCut
  OBVIOUS
<1>2. PICK n : n = Top.node /\ n \in Gates /\ cut = Mapped[n]
  BY <1>1, TopType
<1>3. Len(cut) \in Nat /\ Len(cut) >= 1 /\ \A k \in 1 .. Len(cut) : cut[k] \in Range(cut)
  BY <1>2, CutType
<1>4. PICK f : f = [k \in 1 .. Len(cut) |-> DelayThrough(cut, l, k)]
  OBVIOUS
<1>5. ASSUME NEW k \in 1 .. Len(cut)
      PROVE  /\ f[k] \in Nat \ {0}
             /\ f[k] = DelayThrough(cut, l, k)
             /\ f[k] = MinDelay(cut[k], l[k]) + arrival[n] - ArrivalOf(cut[k])
  <2>1. MinDelay(cut[k], l[k]) \in Nat
    BY <1>1, LeafDelays DEF SolveInv
  <2>2. pin2pin(cut[k]) \in Nat \ {0} /\ (pin2pin(cut[k]) = arrival[n] - ArrivalOf(cut[k]))
    BY <1>1, <1>2, <1>3, TopType
  <2>3. f[k] = MinDelay(cut[k], l[k]) + pin2pin(cut[k])
    BY <1>4 DEF DelayThrough
  <2>4. arrival[n] \in Nat /\ ArrivalOf(cut[k]) \in Nat
    BY <1>2, <1>3, ArrivalsAscend DEF SolveInv
  <2>. QED  BY <1>4, <2>1, <2>2, <2>3, <2>4
<1>6. PICK S : S = {f[k] : k \in 1 .. Len(cut)}
  OBVIOUS
<1>7. PICK top : /\ top = Max(S)
                 /\ \E k \in 1 .. Len(cut) : top = f[k]
                 /\ \A k \in 1 .. Len(cut) : f[k] =< top
  <2>1. PICK num : num = Len(cut)
    OBVIOUS
  <2>2. num \in Nat /\ num >= 1 /\ \A k \in 1 .. num : f[k] \in Int
    BY <1>3, <1>5, <2>1
  <2>3. \E k \in 1 .. num : /\ Max({f[i] : i \in 1 .. num}) = f[k]
                            /\ \A i \in 1 .. num : f[i] =< f[k]
    BY <2>2, GreatestOfPositions
  <2>. QED  BY <1>6, <2>1, <2>3
<1>8. top \in S /\ top \in Nat \ {0} /\ \A y \in S : y \in Int /\ y =< top
  <2>1. PICK D : D = 1 .. Len(cut)
    OBVIOUS
  <2>2. \A k \in D : f[k] \in Nat \ {0} /\ f[k] =< top
    BY <1>5, <1>7, <2>1
  <2>3. S = {f[k] : k \in D} /\ \E k \in D : top = f[k]
    BY <1>6, <1>7, <2>1
  <2>. QED  BY <2>2, <2>3
<1>9. MaxDelay(cut, l) = Max(S \cup {0})
  <2>1. S = {DelayThrough(cut, l, k) : k \in 1 .. Len(cut)}
    BY <1>5, <1>6
  <2>. QED  BY <2>1 DEF MaxDelay
<1>10. Max(S \cup {0}) = top
  <2>1. PICK T : T = S \cup {0}
    OBVIOUS
  <2>2. top \in T /\ \A y \in T : y \in Int /\ y =< top
    BY <1>8, <2>1
  <2>3. \A x \in T : (\A y \in T : x >= y) => x = top
    BY <2>2
  <2>4. \A y \in T : top >= y
    BY <1>8, <2>2
  <2>. QED  BY <2>1, <2>2, <2>3, <2>4 DEF Max
<1>11. DelayNow(n, cut, l) = top
  <2>1. S = {MinDelay(cut[k], l[k]) + arrival[n] - ArrivalOf(cut[k]) : k \in 1 .. Len(cut)}
    BY <1>5, <1>6
  <2>. QED  BY <1>7, <2>1 DEF DelayNow
<1>12. \E k \in 1 .. Len(cut) : DelayThrough(cut, l, k) = MaxDelay(cut, l)
  <2>1. PICK k \in 1 .. Len(cut) : top = f[k]
    BY <1>7
  <2>. QED  BY <1>5, <1>9, <1>10, <2>1
<1>13. MaxDelay(cut, l) \in Nat
  BY <1>8, <1>9, <1>10
<1>14. MaxDelay(cut, l) = DelayNow(n, cut, l)
  BY <1>9, <1>10, <1>11
<1>15. \A k \in 1 .. Len(cut) : DelayThrough(cut, l, k) =< MaxDelay(cut, l)
  BY <1>5, <1>7, <1>9, <1>10
<1>. QED  BY <1>1, <1>2, <1>12, <1>13, <1>14, <1>15

\* Whatever is compared, what nothing beats is as good as everything.
LEMMA FrontExists ==
  ASSUME NEW S, IsFiniteSet(S), NEW f, NEW g, \A x \in S : f[x] \in Int /\ g[x] \in Int,
         NEW l \in S
  PROVE  \E m \in S : /\ f[m] =< f[l] /\ g[m] =< g[l]
                      /\ ~\E y \in S : /\ f[y] =< f[m] /\ g[y] =< g[m]
                                       /\ f[y] < f[m] \/ g[y] < g[m]
<1>1. PICK B : B = {m \in S : f[m] =< f[l] /\ g[m] =< g[l]}
  OBVIOUS
<1>2. IsFiniteSet(B)
  BY <1>1, FS_Subset
<1>3. l \in B
  BY <1>1
<1>4. PICK h : h = [m \in B |-> f[m] + g[m]]
  OBVIOUS
<1>5. PICK V : V = {h[m] : m \in B}
  OBVIOUS
<1>6. IsFiniteSet(V)
  BY <1>2, <1>5, FiniteImage
<1>7. V \subseteq Int /\ V # {}
  BY <1>1, <1>3, <1>4, <1>5
<1>8. Min(V) \in V /\ \A y \in V : Min(V) =< y
  BY <1>6, <1>7, ExtremesOfInts
<1>9. PICK m \in B : h[m] = Min(V)
  BY <1>5, <1>8
<1>10. ASSUME NEW y \in S, f[y] =< f[m], g[y] =< g[m], f[y] < f[m] \/ g[y] < g[m]
       PROVE  FALSE
  <2>1. /\ f[y] \in Int /\ g[y] \in Int /\ f[m] \in Int /\ g[m] \in Int
        /\ f[l] \in Int /\ g[l] \in Int
        /\ f[m] =< f[l] /\ g[m] =< g[l]
    BY <1>1
  <2>2. y \in B
    BY <1>1, <1>10, <2>1
  <2>3. h[y] = f[y] + g[y] /\ h[m] = f[m] + g[m] /\ h[m] =< h[y]
    BY <1>4, <1>5, <1>8, <1>9, <2>2
  <2>. QED  BY <1>10, <2>1, <2>3
<1>. QED  BY <1>1, <1>10

-----------------------------------------------------------------------------
(***************************************************************************)
(* Solved entries are left alone                                           *)
(***************************************************************************)

\* What every step does to the table; no arrival changes.
TableGrows ==
  /\ remap_flag' = remap_flag
  /\ DOMAIN dp_table' = Gates
  /\ \A n \in Gates : DOMAIN dp_table'[n] = Candidates(n)
  /\ \A n \in Gates : \A c \in Candidates(n) :
       dp_table[n][c].is_calculated => dp_table'[n][c] = dp_table[n][c]
  /\ arrival' = arrival

\* The candidates stay.
LEMMA CandidatesStay ==
  ASSUME TableInv, TableGrows
  PROVE  /\ \A n : Candidates(n)' = Candidates(n)
         /\ \A m : CandidatesOf(m)' = CandidatesOf(m)
<1>1. \A n : Candidates(n)' = Candidates(n)
  BY DEF TableGrows, Candidates
<1>2. \A m \in Gates : DOMAIN dp_table'[m] = DOMAIN dp_table[m]
  BY DEF TableInv, TableGrows
<1>. QED  BY <1>1, <1>2 DEF CandidatesOf

\* So do the choices for a solved cut and the delays of their cells.
LEMMA ChoicesStay ==
  ASSUME TableInv, TableGrows, NEW cut, LeavesSolved(cut)
  PROVE  /\ FaninCells(cut)' = FaninCells(cut)
         /\ LeavesSolved(cut)'
         /\ \A k \in 1 .. Len(cut) : \A d \in CandidatesOf(cut[k]) :
              DelayList(cut[k], d)' = DelayList(cut[k], d)
<1>1. FaninCells(cut)' = FaninCells(cut)
  <2>1. \A m : CandidatesOf(m)' = CandidatesOf(m)
    BY CandidatesStay
  <2>2. UNION {CandidatesOf(m)' : m \in Range(cut)} = UNION {CandidatesOf(m) : m \in Range(cut)}
    BY <2>1
  <2>. QED  BY <2>1, <2>2 DEF FaninCells
<1>2. ASSUME NEW k \in 1 .. Len(cut), NEW d \in CandidatesOf(cut[k])
      PROVE  Calculated(cut[k], d)' /\ DelayList(cut[k], d)' = DelayList(cut[k], d)
  <2>1. CASE cut[k] \in Gates
    <3>1. d \in Candidates(cut[k]) /\ dp_table[cut[k]][d].is_calculated
      BY <2>1 DEF LeavesSolved, Calculated, CandidatesOf, TableInv
    <3>2. dp_table'[cut[k]][d] = dp_table[cut[k]][d]
      BY <2>1, <3>1 DEF TableGrows
    <3>. QED  BY <2>1, <3>1, <3>2 DEF Calculated, DelayList
  <2>2. CASE cut[k] \notin Gates
    BY <2>2 DEF Calculated, DelayList
  <2>. QED  BY <2>1, <2>2
<1>3. LeavesSolved(cut)'
  <2>1. \A k \in 1 .. Len(cut) : CandidatesOf(cut[k])' = CandidatesOf(cut[k])
    BY CandidatesStay
  <2>. QED  BY <1>2, <2>1 DEF LeavesSolved
<1>. QED  BY <1>1, <1>2, <1>3

\* So does the delay of a choice.
LEMMA DelayStays ==
  ASSUME TableInv, TableGrows, NEW n \in Gates, NEW cut, LeavesSolved(cut),
         NEW l \in FaninCells(cut)
  PROVE  DelayNow(n, cut, l)' = DelayNow(n, cut, l)
<1>1. \A k \in 1 .. Len(cut) : MinDelay(cut[k], l[k])' = MinDelay(cut[k], l[k])
  BY ChoicesStay, FaninElements DEF MinDelay
<1>2. arrival' = arrival
  BY DEF TableGrows
<1>3. {MinDelay(cut[k], l[k])' + arrival'[n] - ArrivalOf(cut[k])' : k \in 1 .. Len(cut)}
        = {MinDelay(cut[k], l[k]) + arrival[n] - ArrivalOf(cut[k]) : k \in 1 .. Len(cut)}
  BY <1>1, <1>2 DEF ArrivalOf
<1>. QED  BY <1>3 DEF DelayNow

\* The kept choices are still choices, and still the front.
LEMMA FrontStays ==
  ASSUME TableInv, TableGrows, NEW n \in Gates, NEW c, LeavesSolved(Mapped[n]),
         NEW kept, KeptType(n, kept)
  PROVE  /\ KeptType(n, kept)'
         /\ IsFront(n, c, kept) => IsFront(n, c, kept)'
<1>1. PICK F : F = FaninCells(Mapped[n])
  OBVIOUS
<1>2. F = FaninCells(Mapped[n])'
  BY <1>1, ChoicesStay
<1>3. kept \in Seq(F) /\ Len(kept) \in Nat /\ \A j \in 1 .. Len(kept) : kept[j] \in F
  <2>1. kept \in Seq(F)
    BY <1>1 DEF KeptType
  <2>. QED  BY <2>1
<1>4. KeptType(n, kept)'
  BY <1>2, <1>3 DEF KeptType, InputGate
<1>5. ASSUME IsFront(n, c, kept)
      PROVE  IsFront(n, c, kept)'
  <2>1. ASSUME NEW m \in F, NEW l \in F
        PROVE  AsGood(n, c, m, l)' <=> AsGood(n, c, m, l)
    <3>1. /\ DelayNow(n, Mapped[n], m)' = DelayNow(n, Mapped[n], m)
          /\ DelayNow(n, Mapped[n], l)' = DelayNow(n, Mapped[n], l)
      BY <1>1, <1>5, DelayStays
    <3>2. TotalArea(c, m)' = TotalArea(c, m) /\ TotalArea(c, l)' = TotalArea(c, l)
      OBVIOUS
    <3>. QED  BY <3>1, <3>2 DEF AsGood
  <2>2. /\ \A l \in F : \E j \in 1 .. Len(kept) : AsGood(n, c, kept[j], l)
        /\ \A i, j \in 1 .. Len(kept) : AsGood(n, c, kept[i], kept[j]) => AsGood(n, c, kept[j], kept[i])
    BY <1>1, <1>5 DEF IsFront
  <2>3. /\ \A l \in F : \E j \in 1 .. Len(kept) : AsGood(n, c, kept[j], l)'
        /\ \A i, j \in 1 .. Len(kept) : AsGood(n, c, kept[i], kept[j])' => AsGood(n, c, kept[j], kept[i])'
    BY <1>3, <2>1, <2>2
  <2>. QED  BY <1>2, <2>3 DEF IsFront
<1>. QED  BY <1>4, <1>5

\* A solved entry that is left alone is solved.
LEMMA EntryStays ==
  ASSUME TableInv, TableGrows, NEW n \in Gates, NEW c \in Candidates(n),
         dp_table[n][c].is_calculated
  PROVE  SolvedEntry(n, c)'
<1>1. dp_table'[n][c] = dp_table[n][c] /\ SolvedEntry(n, c)
  BY DEF TableInv, TableGrows
<1>2. PICK kept, delays : kept = dp_table[n][c].pareto_gate_list /\ delays = dp_table[n][c].delay_list
  OBVIOUS
<1>3. /\ LeavesSolved(Mapped[n])
      /\ KeptType(n, kept)
      /\ delays \in Seq(Nat)
      /\ Len(delays) = Len(kept) + NumMeasured(n)
      /\ IsFront(n, c, kept)
      /\ \A j \in 1 .. Len(kept) : delays[j + NumMeasured(n)] = DelayNow(n, Mapped[n], kept[j])
  BY <1>1, <1>2 DEF SolvedEntry
<1>4. LeavesSolved(Mapped[n])'
  BY <1>3, ChoicesStay
<1>5. KeptType(n, kept)' /\ IsFront(n, c, kept)'
  BY <1>3, FrontStays
<1>6. remap_flag' = remap_flag
  BY DEF TableGrows
<1>7. ASSUME NEW j \in 1 .. Len(kept)
      PROVE  delays[j + NumMeasured(n)] = DelayNow(n, Mapped[n], kept[j])'
  <2>1. kept[j] \in FaninCells(Mapped[n])
    <3>1. PICK F : F = FaninCells(Mapped[n])
      OBVIOUS
    <3>2. kept \in Seq(F)
      BY <1>3, <3>1 DEF KeptType
    <3>. QED  BY <3>1, <3>2
  <2>2. DelayNow(n, Mapped[n], kept[j])' = DelayNow(n, Mapped[n], kept[j])
    BY <1>3, <1>7, <2>1, DelayStays
  <2>. QED  BY <1>3, <1>7, <2>2
<1>. QED  BY <1>1, <1>2, <1>3, <1>4, <1>5, <1>6, <1>7 DEF SolvedEntry, NumMeasured, InputGate

\* What is in the cache stays true.
LEMMA CachedStays ==
  ASSUME TableInv, TableGrows, NEW n \in Gates, NEW c, NEW e, CachedFor(n, c, e)
  PROVE  CachedFor(n, c, e)'
<1>1. PICK cut, kept : cut = Mapped[n] /\ kept = e.pareto_gate_list
  OBVIOUS
<1>2. /\ LeavesSolved(cut)
      /\ KeptType(n, kept)
      /\ DOMAIN e.critical = 1 .. Len(kept)
      /\ \A j \in 1 .. Len(kept) : IsCritical(n, kept[j], e.critical[j])
      /\ IsFront(n, c, kept)
  BY <1>1 DEF CachedFor
<1>3. LeavesSolved(cut)'
  BY <1>2, ChoicesStay
<1>4. KeptType(n, kept)' /\ IsFront(n, c, kept)'
  BY <1>1, <1>2, FrontStays
<1>5. remap_flag' = remap_flag /\ arrival' = arrival
  BY DEF TableGrows
<1>6. ASSUME NEW j \in 1 .. Len(kept)
      PROVE  IsCritical(n, kept[j], e.critical[j])'
  <2>1. PICK l, t : l = kept[j] /\ t = e.critical[j]
    OBVIOUS
  <2>2. l \in FaninCells(cut)
    <3>1. PICK F : F = FaninCells(cut)
      OBVIOUS
    <3>2. kept \in Seq(F)
      BY <1>1, <1>2, <3>1 DEF KeptType
    <3>. QED  BY <2>1, <3>1, <3>2
  <2>3. IsCritical(n, l, t)
    BY <1>2, <2>1
  <2>0. PICK k \in 1 .. Len(cut) : \E i \in DOMAIN DelayList(cut[k], l[k]) :
          /\ t = <<cut[k], l[k], i>>
          /\ DelayList(cut[k], l[k])[i] + arrival[n] - ArrivalOf(cut[k]) = DelayNow(n, cut, l)
    BY <1>1, <2>3 DEF IsCritical
  <2>4. PICK i \in DOMAIN DelayList(cut[k], l[k]) :
          /\ t = <<cut[k], l[k], i>>
          /\ DelayList(cut[k], l[k])[i] + arrival[n] - ArrivalOf(cut[k]) = DelayNow(n, cut, l)
    BY <2>0
  <2>5. DelayList(cut[k], l[k])' = DelayList(cut[k], l[k])
    BY <1>2, <2>2, ChoicesStay, FaninElements
  <2>6. DelayNow(n, cut, l)' = DelayNow(n, cut, l) /\ ArrivalOf(cut[k])' = ArrivalOf(cut[k])
    BY <1>2, <1>5, <2>2, DelayStays DEF ArrivalOf
  <2>. QED  BY <1>1, <1>5, <2>1, <2>4, <2>5, <2>6 DEF IsCritical
<1>. QED  BY <1>1, <1>2, <1>3, <1>4, <1>5, <1>6 DEF CachedFor

\* So only the entry that is completed and what is put in the cache are to
\* be looked at.
LEMMA TableStep ==
  ASSUME TableInv, TableGrows,
         \A n \in Gates : \A c \in Candidates(n) :
           \/ dp_table'[n][c] = dp_table[n][c]
           \/ dp_table'[n][c].is_calculated /\ SolvedEntry(n, c)'
  PROVE  TableInv'
<1>1. \A n : Candidates(n)' = Candidates(n)
  BY CandidatesStay
<1>2. ASSUME NEW n \in Gates, NEW c \in Candidates(n)
      PROVE  IF dp_table'[n][c].is_calculated THEN SolvedEntry(n, c)' ELSE dp_table'[n][c] = NewEntry(n, c)
  <2>1. CASE dp_table'[n][c] = dp_table[n][c] /\ dp_table[n][c].is_calculated
    BY <2>1, EntryStays
  <2>2. CASE dp_table'[n][c] = dp_table[n][c] /\ ~dp_table[n][c].is_calculated
    BY <2>2 DEF TableInv
  <2>3. CASE dp_table'[n][c].is_calculated /\ SolvedEntry(n, c)'
    BY <2>3
  <2>. QED  BY <2>1, <2>2, <2>3
<1>3. DOMAIN dp_table' = Gates /\ \A n \in Gates : DOMAIN dp_table'[n] = Candidates(n) /\ Candidates(n) # {}
  BY DEF TableGrows, TableInv
<1>. QED  BY <1>1, <1>2, <1>3 DEF TableInv, NewEntry, InputGate

\* The cache does not get old.
LEMMA CacheStep ==
  ASSUME TableInv, CacheInv, TableGrows, dp_cut_cache' = dp_cut_cache
  PROVE  CacheInv'
<1>1. ASSUME NEW n \in Gates, NEW v \in DOMAIN dp_cut_cache[n]
      PROVE  \E c \in Candidates(n)' : v = cut_value(Mapped[n]) /\ CachedFor(n, c, dp_cut_cache[n][v])'
  <2>1. PICK c \in Candidates(n) : v = cut_value(Mapped[n]) /\ CachedFor(n, c, dp_cut_cache[n][v])
    BY DEF CacheInv
  <2>2. PICK e : e = dp_cut_cache[n][v]
    OBVIOUS
  <2>3. CachedFor(n, c, e)'
    BY <2>1, <2>2, CachedStays
  <2>4. e = dp_cut_cache'[n][v]
    BY <2>2
  <2>. QED  BY <2>1, <2>3, <2>4, CandidatesStay
<1>2. DOMAIN dp_cut_cache = Gates
  BY DEF CacheInv
<1>. QED  BY <1>1, <1>2 DEF CacheInv

-----------------------------------------------------------------------------
(***************************************************************************)
(* OldSolver: the steps of dp_solve_rec                                    *)
(***************************************************************************)

\* The fields of a call.
LEMMA CallType ==
  ASSUME NEW call \in CallRecords
  PROVE  call.node \in Gates /\ call.cell \in Cells /\ call.at \in Nat
BY DEF CallRecords

\* The candidate of a call that waits is not calculated in the meantime.
LEMMA OldCallOK ==
  ASSUME TableInv, TableGrows, NEW call, CallOK(call),
         dp_table'[call.node][call.cell] = dp_table[call.node][call.cell]
  PROVE  CallOK(call)'
<1>1. call.cell \in Candidates(call.node)'
  BY CandidatesStay DEF CallOK
<1>2. ~Calculated(call.node, call.cell)'
  BY DEF CallOK, Calculated
<1>3. remap_flag' = remap_flag /\ arrival' = arrival
  BY DEF TableGrows
<1>4. \A l : ArrivalOf(l)' = ArrivalOf(l)
  BY <1>3 DEF ArrivalOf
<1>. QED  BY <1>1, <1>2, <1>3, <1>4 DEF CallOK, CallRecords

\* What is to be shown of the calls after a step.
LEMMA CallsOK ==
  ASSUME calls' \in Seq(CallRecords),
         \A i \in 1 .. Len(calls') : \A call : call = calls'[i] => CallOK(call)',
         \A i, j \in 1 .. Len(calls') : i < j => calls'[j].node < calls'[i].node
  PROVE  CallInv'
<1>1. ASSUME NEW i \in 1 .. Len(calls') PROVE CallOK(calls[i])'
  <2>1. PICK call : call = calls'[i]
    OBVIOUS
  <2>2. CallOK(call)'
    BY <2>1
  <2>. QED  BY <2>1, <2>2 DEF CallOK, Candidates, Calculated, ArrivalOf
<1>. QED  BY <1>1 DEF CallInv

\* A call of dp_solve_rec leaves the table alone, and so does everything
\* that comes after it.
LEMMA EnterInv ==
  ASSUME SolveInv, NEW n \in Gates, NEW c \in Candidates(n), ~Calculated(n, c), Enter(n, c),
         calls # <<>> => n < Top.node,
         UNCHANGED <<remap_flag, dp_table, dp_cut_cache>>
  PROVE  SolveInv'
<1>1. c \in Cells /\ CutOf(n, c) = Mapped[n]
  BY CandidatesType DEF SolveInv, TimeInv, CutOf
<1>2. arrival' \in Timings /\ arrival' = arrival /\ node_cut_map' = node_cut_map
  BY <1>1 DEF Enter, SolveInv, TimeInv
<1>3. TableGrows
  BY <1>2 DEF TableGrows, SolveInv, TableInv
<1>4. TimeInv'
  BY <1>2 DEF SolveInv, TimeInv, Enter
<1>5. TableInv' /\ CacheInv'
  BY <1>3, TableStep, CacheStep DEF SolveInv
<1>6. PICK cut, t : cut = Mapped[n] /\ t = arrival'
  OBVIOUS
<1>7. PICK r : r = [node |-> n, cell |-> c, at |-> t[n],
                    fanin |-> [l \in Range(cut) |-> IF l \in Gates THEN t[l] ELSE 0]]
  OBVIOUS
<1>8. calls' = Append(calls, r)
  BY <1>1, <1>6, <1>7 DEF Enter
<1>9. /\ t[n] \in Nat
      /\ \A l \in Range(cut) : /\ l \in Nodes
                               /\ (IF l \in Gates THEN t[l] ELSE 0) \in Nat
                               /\ (IF l \in Gates THEN t[l] ELSE 0) < t[n]
  <2>1. t \in Timings
    BY <1>2, <1>6
  <2>2. \A m \in Gates : t[m] \in Nat /\ t[m] \in Arrivals[m] /\ 0 < t[m]
    BY <2>1, TimerAssumption DEF Timings
  <2>3. \A l \in Range(cut) : l \in Nodes
    <3>1. \A l \in Range(cut) : l \in Nat /\ l < n
      BY <1>1, <1>6, CutType
    <3>2. n \in 1 .. NumNodes /\ NumNodes \in Nat
      BY NetworkAssumption
    <3>. QED  BY <3>1, <3>2 DEF Nodes
  <2>4. \A l \in Range(cut) \cap Gates : t[l] < t[n]
    <3>1. \A l \in Range(cut) \cap Gates : l \in Reads(n) \cap Gates
      BY <1>6 DEF Reads
    <3>. QED  BY <2>2, <3>1, TimerAssumption
  <2>. QED  BY <2>2, <2>3, <2>4
<1>10. /\ r.node = n /\ r.cell = c /\ r.at = t[n]
       /\ \A l \in Range(cut) : r.fanin[l] = IF l \in Gates THEN t[l] ELSE 0
  BY <1>7
<1>11. r \in CallRecords
  <2>1. PICK F : F = [l \in Range(cut) |-> IF l \in Gates THEN t[l] ELSE 0]
    OBVIOUS
  <2>2. F \in [Range(cut) -> Nat] /\ Range(cut) \in SUBSET Nodes
    BY <1>9, <2>1
  <2>3. F \in UNION {[S -> Nat] : S \in SUBSET Nodes}
    BY <2>2
  <2>. QED  BY <1>1, <1>7, <1>9, <2>1, <2>3 DEF CallRecords
<1>12. calls \in Seq(CallRecords) /\ Len(calls) \in Nat
  BY DEF SolveInv, CallInv
<1>13. /\ calls' \in Seq(CallRecords) /\ Len(calls') = Len(calls) + 1
       /\ calls'[Len(calls) + 1] = r
       /\ \A i \in 1 .. Len(calls) : calls'[i] = calls[i]
  BY <1>8, <1>11, <1>12
<1>14. CallOK(r)'
  <2>1. c \in Candidates(n)' /\ ~Calculated(n, c)'
    BY <1>3, CandidatesStay DEF SolveInv, Calculated
  <2>2. \A l \in Range(cut) : r.fanin[l] \in Nat /\ r.fanin[l] < r.at /\ r.fanin[l] = ArrivalOf(l)'
    BY <1>6, <1>9, <1>10 DEF ArrivalOf
  <2>3. r.at = arrival'[n]
    BY <1>6, <1>10
  <2>. QED  BY <1>6, <1>10, <1>11, <2>1, <2>2, <2>3 DEF CallOK, CallRecords
<1>17. ASSUME NEW i \in 1 .. Len(calls'), NEW call, call = calls'[i]
       PROVE  CallOK(call)'
  <2>1. CASE i = Len(calls) + 1
    BY <1>13, <1>14, <1>17, <2>1
  <2>2. CASE i \in 1 .. Len(calls)
    <3>1. CallOK(call)
      BY <1>13, <1>17, <2>2 DEF SolveInv, CallInv
    <3>. QED  BY <1>2, <1>3, <3>1, OldCallOK DEF SolveInv
  <2>. QED  BY <1>12, <1>13, <2>1, <2>2
<1>15. ASSUME NEW i \in 1 .. Len(calls'), NEW j \in 1 .. Len(calls'), i < j
       PROVE  calls'[j].node < calls'[i].node
  <2>1. CASE j \in 1 .. Len(calls)
    <3>1. i \in 1 .. Len(calls)
      BY <1>12, <1>15, <2>1
    <3>2. calls[j].node < calls[i].node
      BY <1>15, <2>1, <3>1 DEF SolveInv, CallInv
    <3>. QED  BY <1>13, <2>1, <3>1, <3>2
  <2>2. CASE j = Len(calls) + 1
    <3>1. i \in 1 .. Len(calls) /\ calls # <<>>
      BY <1>12, <1>15, <2>2
    <3>2. i = Len(calls) \/ Top.node < calls[i].node
      BY <1>12, <3>1 DEF SolveInv, CallInv, Top
    <3>3. n < Top.node
      BY <3>1
    <3>4. n \in Nat /\ Top.node \in Nat /\ calls[i].node \in Nat
      <4>1. \A m \in Gates : m \in Nat
        BY NetworkAssumption
      <4>2. calls[i].node \in Gates /\ Top.node \in Gates
        BY <1>12, <3>1, TopType, CallType
      <4>. QED  BY <4>1, <4>2
    <3>5. n < calls[i].node
      BY <3>2, <3>3, <3>4 DEF Top
    <3>. QED  BY <1>10, <1>13, <2>2, <3>1, <3>5
  <2>. QED  BY <1>12, <1>13, <2>1, <2>2
<1>16. CallInv'
  BY <1>13, <1>15, <1>17, CallsOK
<1>. QED  BY <1>4, <1>5, <1>16 DEF SolveInv

\* Concatenation.
LEMMA NatConcat ==
  ASSUME NEW s \in Seq(Nat), NEW t \in Seq(Nat)
  PROVE  /\ s \o t \in Seq(Nat) /\ Len(s \o t) = Len(s) + Len(t)
         /\ \A j \in 1 .. Len(t) : (s \o t)[Len(s) + j] = t[j]
OBVIOUS

\* A call that ends completes its own entry.
LEMMA CompleteInv ==
  ASSUME SolveInv, calls # <<>>, LeavesSolved(TopCut), NEW choices, NEW delays,
         KeptType(Top.node, choices),
         delays \in Seq(Nat), Len(delays) = Len(choices),
         IsFront(Top.node, Top.cell, choices),
         \A j \in 1 .. Len(choices) : delays[j] = DelayNow(Top.node, TopCut, choices[j]),
         Complete(choices, delays), Return, UNCHANGED <<remap_flag, arrival, node_cut_map>>
  PROVE  TableGrows /\ TableInv' /\ TimeInv' /\ CallInv'
<1>1. PICK n, c : n = Top.node /\ c = Top.cell
  OBVIOUS
<1>2. PICK cut : cut = Mapped[n] /\ cut = TopCut
  BY <1>1, TopType
<1>3. /\ n \in Gates /\ c \in Candidates(n)
      /\ ~dp_table[n][c].is_calculated /\ dp_table[n][c] = NewEntry(n, c)
  BY <1>1, TopType
<1>4. PICK e : e = [is_calculated |-> TRUE,
                    delay_list |-> dp_table[n][c].delay_list \o delays,
                    pareto_gate_list |-> choices]
  OBVIOUS
<1>5. DOMAIN dp_table = Gates /\ \A m \in Gates : DOMAIN dp_table[m] = Candidates(m)
  BY DEF SolveInv, TableInv
<1>6. dp_table' = [dp_table EXCEPT ![n][c] = e]
  BY <1>1, <1>4 DEF Complete
<1>7. /\ dp_table'[n][c] = e /\ DOMAIN dp_table' = Gates
      /\ \A m \in Gates : DOMAIN dp_table'[m] = Candidates(m)
      /\ \A m \in Gates : \A d \in Candidates(m) : m # n \/ d # c => dp_table'[m][d] = dp_table[m][d]
  BY <1>3, <1>5, <1>6
<1>8. TableGrows
  BY <1>3, <1>7 DEF TableGrows
<1>9. PICK first : first = dp_table[n][c].delay_list
  OBVIOUS
<1>10. first \in Seq(Nat) /\ Len(first) = NumMeasured(n)
  <2>1. CASE InputGate(n)
    <3>1. first = <<Measured[n][c]>> /\ Measured[n][c] \in Nat
      BY <1>3, <1>9, <2>1, MeasuredAssumption, CandidatesType DEF NewEntry
    <3>. QED  BY <2>1, <3>1 DEF NumMeasured
  <2>2. CASE ~InputGate(n)
    BY <1>3, <1>9, <2>2 DEF NewEntry, NumMeasured
  <2>. QED  BY <2>1, <2>2
<1>11. PICK all : all = first \o delays
  OBVIOUS
<1>12. PICK num : num = NumMeasured(n) /\ num \in Nat
  BY DEF NumMeasured
<1>13. /\ all \in Seq(Nat) /\ Len(all) = Len(choices) + num
       /\ \A j \in 1 .. Len(choices) : all[j + num] = delays[j]
  <2>1. Len(delays) \in Nat /\ Len(first) = num /\ Len(delays) = Len(choices)
    BY <1>10, <1>12
  <2>2. /\ all \in Seq(Nat) /\ Len(all) = Len(first) + Len(delays)
        /\ \A j \in 1 .. Len(delays) : all[Len(first) + j] = delays[j]
    BY <1>10, <1>11, NatConcat
  <2>4. Len(all) = Len(choices) + num
    BY <1>12, <2>1, <2>2
  <2>5. ASSUME NEW j \in 1 .. Len(choices)
        PROVE  all[j + num] = delays[j]
    <3>1. j \in 1 .. Len(delays) /\ j + num = Len(first) + j
      BY <1>12, <2>1
    <3>. QED  BY <2>2, <3>1
  <2>. QED  BY <2>2, <2>4, <2>5
<1>14. e.is_calculated /\ e.delay_list = all /\ e.pareto_gate_list = choices
  BY <1>4, <1>9, <1>11
<1>15. SolvedEntry(n, c)'
  <2>1. LeavesSolved(cut)'
    BY <1>2, <1>8, ChoicesStay DEF SolveInv
  <2>2. KeptType(n, choices)' /\ IsFront(n, c, choices)'
    BY <1>1, <1>2, <1>3, <1>8, FrontStays DEF SolveInv
  <2>3. ASSUME NEW j \in 1 .. Len(choices)
        PROVE  all[j + num] = DelayNow(n, cut, choices[j])'
    <3>1. choices[j] \in FaninCells(cut)
      <4>1. PICK F : F = FaninCells(cut)
        OBVIOUS
      <4>2. choices \in Seq(F)
        BY <1>1, <1>2, <4>1 DEF KeptType
      <4>. QED  BY <4>1, <4>2
    <3>2. DelayNow(n, cut, choices[j])' = DelayNow(n, cut, choices[j])
      BY <1>2, <1>3, <1>8, <2>3, <3>1, DelayStays DEF SolveInv
    <3>3. delays[j] = DelayNow(n, cut, choices[j])
      BY <1>1, <1>2, <2>3
    <3>. QED  BY <1>13, <3>2, <3>3
  <2>4. Len(all) = Len(choices) + NumMeasured(n)'
    BY <1>12, <1>13 DEF NumMeasured, InputGate
  <2>5. num = NumMeasured(n)'
    BY <1>12 DEF NumMeasured, InputGate
  <2>. QED  BY <1>2, <1>7, <1>13, <1>14, <2>1, <2>2, <2>3, <2>4, <2>5 DEF SolvedEntry
<1>16. TableInv'
  <2>1. \A m \in Gates : \A d \in Candidates(m) :
           \/ dp_table'[m][d] = dp_table[m][d]
           \/ dp_table'[m][d].is_calculated /\ SolvedEntry(m, d)'
    BY <1>7, <1>14, <1>15
  <2>. QED  BY <1>8, <2>1, TableStep DEF SolveInv
<1>17. TimeInv'
  BY DEF SolveInv, TimeInv
<1>18. CallInv'
  <2>1. calls \in Seq(CallRecords) /\ Len(calls) \in Nat /\ Len(calls) >= 1
    BY TopType DEF SolveInv, CallInv
  <2>2. PICK k : k = Len(calls) - 1 /\ k \in Nat
    BY <2>1
  <2>3. calls' = SubSeq(calls, 1, k)
    BY <2>2 DEF Return
  <2>4. /\ calls' \in Seq(CallRecords) /\ Len(calls') = k
        /\ \A i \in 1 .. k : calls'[i] = calls[i] /\ i \in 1 .. Len(calls) /\ i < Len(calls)
    BY <2>1, <2>2, <2>3
  <2>5. ASSUME NEW i \in 1 .. Len(calls'), NEW call, call = calls'[i]
        PROVE  CallOK(call)'
    <3>1. call = calls[i] /\ i \in 1 .. Len(calls) /\ i < Len(calls)
      BY <2>4, <2>5
    <3>2. CallOK(call)
      BY <3>1 DEF SolveInv, CallInv
    <3>3. call.cell \in Candidates(call.node) /\ call.node \in Gates
      BY <3>2, CallType DEF CallOK
    <3>4. call.node # n
      <4>1. n < call.node
        BY <1>1, <2>1, <3>1 DEF SolveInv, CallInv, Top
      <4>2. n \in Nat
        BY <1>3, NetworkAssumption
      <4>. QED  BY <4>1, <4>2
    <3>5. dp_table'[call.node][call.cell] = dp_table[call.node][call.cell]
      BY <1>7, <3>3, <3>4
    <3>. QED  BY <1>8, <3>2, <3>5, OldCallOK DEF SolveInv
  <2>6. \A i, j \in 1 .. Len(calls') : i < j => calls'[j].node < calls'[i].node
    BY <2>4 DEF SolveInv, CallInv
  <2>. QED  BY <2>4, <2>5, <2>6, CallsOK
<1>. QED  BY <1>8, <1>16, <1>17, <1>18

\* The leaves of the call at work are solved, by the guard.
LEMMA LeavesByGuard ==
  ASSUME SolveInv, calls # <<>>,
         \A l \in Range(TopCut) : \A c \in CandidatesOf(l) : Calculated(l, c)
  PROVE  LeavesSolved(TopCut)
<1>1. \A k \in 1 .. Len(TopCut) : TopCut[k] \in Range(TopCut)
  BY TopType, CutType
<1>. QED  BY <1>1 DEF LeavesSolved

\* dp_solve_rec keeps the front of all choices.
LEMMA KeepsFront ==
  ASSUME SolveInv, calls # <<>>, LeavesSolved(TopCut), NEW choices,
         choices = SetToSeq(ParetoChoices(TopCut, Top.cell))
  PROVE  /\ KeptType(Top.node, choices)
         /\ DOMAIN choices = 1 .. Len(choices) /\ Len(choices) \in Nat
         /\ IsFront(Top.node, Top.cell, choices)
<1>1. PICK n, c, cut : n = Top.node /\ c = Top.cell /\ cut = TopCut /\ cut = Mapped[n]
  BY TopType
<1>2. n \in Gates
  BY <1>1, TopType
<1>3. PICK F : F = FaninCells(cut)
  OBVIOUS
<1>4. IsFiniteSet(F) /\ F # {}
  BY <1>1, <1>2, <1>3, FaninType DEF SolveInv
<1>5. PICK f, g : f = [l \in F |-> TotalArea(c, l)] /\ g = [l \in F |-> MaxDelay(cut, l)]
  OBVIOUS
<1>6. ASSUME NEW l \in F PROVE f[l] = TotalArea(c, l) /\ g[l] = MaxDelay(cut, l) /\ f[l] \in Int /\ g[l] \in Int
  <2>1. MaxDelay(cut, l) \in Nat
    BY <1>1, <1>3, MaxDelayType
  <2>2. DOMAIN l = 1 .. Len(cut) /\ Len(cut) \in Nat
    BY <1>1, <1>2, <1>3, FaninElements, CutType
  <2>3. TotalArea(c, l) \in Int
    BY <2>2, AreaShift
  <2>. QED  BY <1>5, <2>1, <2>3
<1>7. PICK PC : PC = ParetoChoices(cut, c)
  OBVIOUS
<1>8. PC = {l \in F : ~\E y \in F : /\ f[y] =< f[l] /\ g[y] =< g[l]
                                    /\ f[y] < f[l] \/ g[y] < g[l]}
  <2>1. PC = {l \in F : ~\E m \in F : /\ TotalArea(c, m) =< TotalArea(c, l)
                                      /\ MaxDelay(cut, m) =< MaxDelay(cut, l)
                                      /\ TotalArea(c, m) < TotalArea(c, l) \/ MaxDelay(cut, m) < MaxDelay(cut, l)}
    BY <1>3, <1>7 DEF ParetoChoices
  <2>. QED  BY <1>6, <2>1
<1>9. \A l \in F : \E m \in PC : f[m] =< f[l] /\ g[m] =< g[l]
  <2> TAKE l \in F
  <2>1. \E m \in F : /\ f[m] =< f[l] /\ g[m] =< g[l]
                     /\ ~\E y \in F : /\ f[y] =< f[m] /\ g[y] =< g[m]
                                      /\ f[y] < f[m] \/ g[y] < g[m]
    BY <1>4, <1>6, FrontExists
  <2>. QED  BY <1>8, <2>1
<1>10. PC \subseteq F /\ IsFiniteSet(PC) /\ PC # {}
  <2>1. PC \subseteq F /\ PC # {}
    BY <1>4, <1>8, <1>9
  <2>. QED  BY <1>4, <2>1, FS_Subset
<1>11. PICK num : num = Cardinality(PC)
  OBVIOUS
<1>12. /\ num \in Nat /\ choices \in [1 .. num -> PC] /\ Len(choices) = num
       /\ \A x \in PC : \E j \in 1 .. num : choices[j] = x
  BY <1>1, <1>7, <1>10, <1>11, SetToSeqLists
<1>13. num >= 1 /\ (InputGate(n) => num = 1)
  <2>1. PICK x : x \in PC
    BY <1>10
  <2>2. num # 0
    BY <1>12, <2>1
  <2>3. ASSUME InputGate(n) PROVE num = 1
    <3>1. \A l \in PC : l = x
      BY <1>1, <1>2, <1>3, <1>10, <2>1, <2>3, InputFanin
    <3>2. PC = {x}
      BY <2>1, <3>1
    <3>. QED  BY <1>11, <3>2, FS_Singleton
  <2>. QED  BY <1>12, <2>2, <2>3
<1>14. choices \in Seq(F)
  BY <1>10, <1>12
<1>15. KeptType(n, choices)
  BY <1>1, <1>3, <1>12, <1>13, <1>14 DEF KeptType
<1>16. IsFront(n, c, choices)
  <2>1. ASSUME NEW m \in F, NEW l \in F
        PROVE  AsGood(n, c, m, l) <=> f[m] =< f[l] /\ g[m] =< g[l]
    <3>1. MaxDelay(cut, m) = DelayNow(n, cut, m) /\ MaxDelay(cut, l) = DelayNow(n, cut, l)
      BY <1>1, <1>3, MaxDelayType
    <3>. QED  BY <1>1, <1>6, <3>1 DEF AsGood
  <2>2. \A l \in F : \E j \in 1 .. num : AsGood(n, c, choices[j], l)
    <3> TAKE l \in F
    <3>1. PICK m \in PC : f[m] =< f[l] /\ g[m] =< g[l]
      BY <1>9
    <3>2. PICK j \in 1 .. num : choices[j] = m
      BY <1>12
    <3>3. AsGood(n, c, m, l)
      BY <1>10, <2>1, <3>1
    <3>. QED  BY <3>2, <3>3
  <2>3. ASSUME NEW i \in 1 .. num, NEW j \in 1 .. num, AsGood(n, c, choices[i], choices[j])
        PROVE  AsGood(n, c, choices[j], choices[i])
    <3>1. PICK m, l : m = choices[i] /\ l = choices[j]
      OBVIOUS
    <3>2. m \in PC /\ l \in PC /\ m \in F /\ l \in F
      BY <1>10, <1>12, <3>1
    <3>3. f[m] =< f[l] /\ g[m] =< g[l]
      BY <2>1, <2>3, <3>1, <3>2
    <3>4. ~(f[m] < f[l] \/ g[m] < g[l])
      BY <1>8, <3>2, <3>3
    <3>5. f[m] \in Int /\ g[m] \in Int /\ f[l] \in Int /\ g[l] \in Int
      BY <1>6, <3>2
    <3>6. f[l] =< f[m] /\ g[l] =< g[m]
      BY <3>3, <3>4, <3>5
    <3>. QED  BY <2>1, <3>1, <3>2, <3>6
  <2>. QED  BY <1>1, <1>3, <1>12, <2>2, <2>3 DEF IsFront
<1>. QED  BY <1>1, <1>12, <1>15, <1>16

\* The critical delay that is put in the cache is that of the choice.
LEMMA CriticalOf ==
  ASSUME SolveInv, calls # <<>>, LeavesSolved(TopCut), NEW l \in FaninCells(TopCut)
  PROVE  IsCritical(Top.node, l, Critical(TopCut, l))
<1>1. PICK n, cut : n = Top.node /\ cut = TopCut /\ cut = Mapped[n]
  BY TopType
<1>2. n \in Gates /\ Len(cut) \in Nat /\ Len(cut) >= 1 /\ \A k \in 1 .. Len(cut) : cut[k] \in Range(cut)
  BY <1>1, TopType, CutType
<1>3. PICK max : max = MaxDelay(cut, l)
  OBVIOUS
<1>4. /\ max \in Nat /\ max = DelayNow(n, cut, l)
      /\ \E k \in 1 .. Len(cut) : DelayThrough(cut, l, k) = max
      /\ \A k \in 1 .. Len(cut) : DelayThrough(cut, l, k) =< max
  BY <1>1, <1>3, MaxDelayType
<1>5. PICK place : place = [k \in 1 .. Len(cut) |-> FirstPlace(cut, l, k)]
  OBVIOUS
<1>6. PICK through : through = [k \in 1 .. Len(cut) |->
                        DelayList(cut[k], l[k])[place[k]] + pin2pin(cut[k])]
  OBVIOUS
\* The first delay that is not too long, at every position.
<1>7. ASSUME NEW k \in 1 .. Len(cut)
      PROVE  /\ place[k] \in DOMAIN DelayList(cut[k], l[k])
             /\ through[k] =< max /\ DelayThrough(cut, l, k) =< through[k] /\ through[k] \in Int
             /\ DelayThrough(cut, l, k) \in Int
  <2>1. PICK delays, pin, least :
          delays = DelayList(cut[k], l[k]) /\ pin = pin2pin(cut[k]) /\ least = MinDelay(cut[k], l[k])
    OBVIOUS
  <2>2. pin \in Nat /\ DelayThrough(cut, l, k) = least + pin
    BY <1>1, <1>2, <2>1, TopType DEF DelayThrough
  <2>3. /\ delays \in Seq(Nat) /\ least \in Nat
        /\ \E j \in DOMAIN delays : delays[j] = least
        /\ \A j \in DOMAIN delays : least =< delays[j]
    BY <1>1, <2>1, LeafDelays DEF SolveInv
  <2>4. PICK S : S = {j \in DOMAIN delays : delays[j] + pin =< max}
    OBVIOUS
  <2>5. place[k] = Min(S)
    BY <1>3, <1>5, <2>1, <2>4 DEF FirstPlace
  <2>6. S # {}
    <3>1. PICK j \in DOMAIN delays : delays[j] = least
      BY <2>3
    <3>2. least + pin =< max
      BY <1>4, <2>2
    <3>. QED  BY <2>4, <3>1, <3>2
  <2>7. IsFiniteSet(S) /\ S \subseteq Int
    <3>1. DOMAIN delays = 1 .. Len(delays) /\ Len(delays) \in Nat
      BY <2>3
    <3>2. IsFiniteSet(DOMAIN delays)
      BY <3>1, FS_Interval
    <3>. QED  BY <2>4, <3>1, <3>2, FS_Subset
  <2>8. place[k] \in S
    BY <2>5, <2>6, <2>7, ExtremesOfInts
  <2>9. PICK p : p = place[k]
    OBVIOUS
  <2>10. /\ p \in DOMAIN delays /\ delays[p] + pin =< max
         /\ delays[p] \in Nat /\ least =< delays[p]
    BY <2>3, <2>4, <2>8, <2>9
  <2>11. through[k] = delays[p] + pin
    BY <1>6, <2>1, <2>9
  <2>12. PICK x, t, d : x = delays[p] /\ t = through[k] /\ d = DelayThrough(cut, l, k)
    OBVIOUS
  <2>13. /\ x \in Nat /\ x + pin =< max /\ least =< x
         /\ t = x + pin /\ d = least + pin /\ least \in Nat /\ pin \in Nat
    BY <2>2, <2>3, <2>10, <2>11, <2>12
  <2>14. t =< max /\ d =< t /\ t \in Int /\ d \in Int
    BY <2>13
  <2>15. place[k] \in DOMAIN DelayList(cut[k], l[k])
    BY <2>1, <2>9, <2>10
  <2>. QED  BY <2>12, <2>14, <2>15
<1>8. PICK D : D = {i \in 1 .. Len(cut) : through[i] = max}
  OBVIOUS
<1>9. D # {} /\ IsFiniteSet(D) /\ D \subseteq Int
  <2>1. PICK k \in 1 .. Len(cut) : DelayThrough(cut, l, k) = max
    BY <1>4
  <2>2. through[k] = max
    BY <1>4, <1>7, <2>1
  <2>3. IsFiniteSet(1 .. Len(cut))
    BY <1>2, FS_Interval
  <2>. QED  BY <1>2, <1>8, <2>2, <2>3, FS_Subset
<1>10. PICK k : k = Min(D)
  OBVIOUS
<1>11. k \in 1 .. Len(cut) /\ through[k] = max
  <2>1. k \in D
    BY <1>9, <1>10, ExtremesOfInts
  <2>. QED  BY <1>8, <2>1
<1>12. Critical(cut, l) = <<cut[k], l[k], place[k]>>
  <2>1. D = {i \in 1 .. Len(cut) :
               DelayList(cut[i], l[i])[FirstPlace(cut, l, i)] + pin2pin(cut[i]) = MaxDelay(cut, l)}
    BY <1>3, <1>5, <1>6, <1>8
  <2>2. place[k] = FirstPlace(cut, l, k)
    BY <1>5, <1>11
  <2>. QED  BY <1>10, <2>1, <2>2 DEF Critical
<1>13. PICK q : q = DelayList(cut[k], l[k])[place[k]]
  OBVIOUS
<1>14. q + arrival[n] - ArrivalOf(cut[k]) = DelayNow(n, cut, l)
  <2>1. max = q + pin2pin(cut[k])
    BY <1>6, <1>11, <1>13
  <2>2. pin2pin(cut[k]) = arrival[n] - ArrivalOf(cut[k])
    BY <1>1, <1>2, <1>11, TopType
  <2>3. arrival[n] \in Nat /\ ArrivalOf(cut[k]) \in Nat
    BY <1>1, <1>2, <1>11, ArrivalsAscend DEF SolveInv
  <2>4. q \in Nat
    <3>1. DelayList(cut[k], l[k]) \in Seq(Nat)
      BY <1>1, <1>11, LeafDelays DEF SolveInv
    <3>2. place[k] \in DOMAIN DelayList(cut[k], l[k])
      BY <1>7, <1>11
    <3>. QED  BY <1>13, <3>1, <3>2
  <2>. QED  BY <1>4, <2>1, <2>2, <2>3, <2>4
<1>15. IsCritical(n, l, <<cut[k], l[k], place[k]>>)
  BY <1>1, <1>7, <1>11, <1>13, <1>14 DEF IsCritical
<1>. QED  BY <1>1, <1>12, <1>15

\* Solving an entry.
LEMMA SolveStep == ASSUME SolveInv, Solve PROVE SolveInv'
<1>1. calls # <<>> /\ LeavesSolved(TopCut)
  BY LeavesByGuard DEF Solve
<1>2. PICK choices : choices = SetToSeq(ParetoChoices(TopCut, Top.cell))
  OBVIOUS
<1>3. /\ KeptType(Top.node, choices)
      /\ DOMAIN choices = 1 .. Len(choices) /\ Len(choices) \in Nat
      /\ IsFront(Top.node, Top.cell, choices)
  BY <1>1, <1>2, KeepsFront
<1>4. PICK n, c, cut : n = Top.node /\ c = Top.cell /\ cut = TopCut /\ cut = Mapped[n]
  BY <1>1, TopType
<1>5. n \in Gates /\ c \in Candidates(n)
  BY <1>1, <1>4, TopType
<1>6. \A j \in 1 .. Len(choices) : choices[j] \in FaninCells(cut)
  <2>1. PICK F : F = FaninCells(cut)
    OBVIOUS
  <2>2. choices \in Seq(F)
    BY <1>3, <1>4, <2>1 DEF KeptType
  <2>. QED  BY <2>1, <2>2
<1>7. PICK delays, e :
        /\ delays = [j \in DOMAIN choices |-> MaxDelay(TopCut, choices[j])]
        /\ e = [pareto_gate_list |-> choices,
                critical |-> [j \in DOMAIN choices |-> Critical(TopCut, choices[j])]]
  OBVIOUS
<1>8. /\ delays \in Seq(Nat) /\ Len(delays) = Len(choices)
      /\ \A j \in 1 .. Len(choices) : delays[j] = DelayNow(Top.node, TopCut, choices[j])
  <2>1. \A j \in 1 .. Len(choices) : delays[j] = MaxDelay(TopCut, choices[j])
    BY <1>3, <1>7
  <2>2. \A j \in 1 .. Len(choices) :
          /\ delays[j] \in Nat
          /\ delays[j] = DelayNow(Top.node, TopCut, choices[j])
    BY <1>1, <1>4, <1>6, <2>1, MaxDelayType
  <2>3. PICK num : num = Len(choices) /\ num \in Nat
    BY <1>3
  <2>4. delays \in [1 .. num -> Nat]
    BY <1>3, <1>7, <2>2, <2>3
  <2>. QED  BY <2>2, <2>3, <2>4
<1>9. /\ Complete(choices, delays) /\ Return
      /\ dp_cut_cache' = [dp_cut_cache EXCEPT ![n] =
           [v \in DOMAIN @ \cup {cut_value(cut)} |-> IF v \in DOMAIN @ THEN @[v] ELSE e]]
      /\ UNCHANGED <<remap_flag, arrival, node_cut_map>>
  BY <1>2, <1>4, <1>7 DEF Solve
<1>10. TableGrows /\ TableInv' /\ TimeInv' /\ CallInv'
  BY <1>1, <1>3, <1>8, <1>9, CompleteInv
<1>11. CachedFor(n, c, e)
  <2>1. e.pareto_gate_list = choices /\ DOMAIN e.critical = 1 .. Len(choices)
        /\ \A j \in 1 .. Len(choices) : e.critical[j] = Critical(TopCut, choices[j])
    BY <1>3, <1>7
  <2>2. \A j \in 1 .. Len(choices) : IsCritical(n, choices[j], e.critical[j])
    BY <1>1, <1>4, <1>6, <2>1, CriticalOf
  <2>. QED  BY <1>1, <1>3, <1>4, <2>1, <2>2 DEF CachedFor
<1>12. CachedFor(n, c, e)'
  BY <1>5, <1>10, <1>11, CachedStays DEF SolveInv
<1>13. PICK w : w = cut_value(cut)
  OBVIOUS
<1>14. w \notin DOMAIN dp_cut_cache[n] /\ DOMAIN dp_cut_cache = Gates
  BY <1>4, <1>13 DEF Solve, InCache, SolveInv, CacheInv
<1>15. PICK table : table = [v \in DOMAIN dp_cut_cache[n] \cup {w} |->
                      IF v \in DOMAIN dp_cut_cache[n] THEN dp_cut_cache[n][v] ELSE e]
  OBVIOUS
<1>16. /\ DOMAIN table = DOMAIN dp_cut_cache[n] \cup {w} /\ table[w] = e
       /\ \A v \in DOMAIN dp_cut_cache[n] : table[v] = dp_cut_cache[n][v]
  BY <1>14, <1>15
<1>17. /\ DOMAIN dp_cut_cache' = Gates /\ dp_cut_cache'[n] = table
       /\ \A m \in Gates \ {n} : dp_cut_cache'[m] = dp_cut_cache[m]
  BY <1>5, <1>9, <1>13, <1>14, <1>15
<1>18. ASSUME NEW m \in Gates, NEW v \in DOMAIN dp_cut_cache'[m]
       PROVE  \E d \in Candidates(m)' : v = cut_value(Mapped[m]) /\ CachedFor(m, d, dp_cut_cache[m][v])'
  <2>1. CASE m = n /\ v = w
    <3>1. e = dp_cut_cache'[m][v]
      BY <1>16, <1>17, <2>1
    <3>2. CachedFor(m, c, e)' /\ c \in Candidates(m)' /\ v = cut_value(Mapped[m])
      BY <1>4, <1>5, <1>10, <1>12, <1>13, <2>1, CandidatesStay DEF SolveInv
    <3>. QED  BY <3>1, <3>2
  <2>2. CASE ~(m = n /\ v = w)
    <3>1. v \in DOMAIN dp_cut_cache[m] /\ dp_cut_cache'[m][v] = dp_cut_cache[m][v]
      BY <1>16, <1>17, <2>2
    <3>2. PICK d \in Candidates(m) : v = cut_value(Mapped[m]) /\ CachedFor(m, d, dp_cut_cache[m][v])
      BY <3>1 DEF SolveInv, CacheInv
    <3>3. PICK old : old = dp_cut_cache[m][v]
      OBVIOUS
    <3>4. CachedFor(m, d, old)'
      BY <1>10, <3>2, <3>3, CachedStays DEF SolveInv
    <3>5. old = dp_cut_cache'[m][v] /\ d \in Candidates(m)'
      BY <1>10, <3>1, <3>3, CandidatesStay DEF SolveInv
    <3>. QED  BY <3>2, <3>4, <3>5
  <2>. QED  BY <2>1, <2>2
<1>19. CacheInv'
  BY <1>17, <1>18 DEF CacheInv
<1>. QED  BY <1>10, <1>19 DEF SolveInv

\* Taking the choices over from another candidate.
LEMMA SolveCachedStep == ASSUME SolveInv, SolveCached PROVE SolveInv'
<1>0. calls # <<>>
  BY DEF SolveCached
<1>1. PICK n, c, cut : n = Top.node /\ c = Top.cell /\ cut = TopCut /\ cut = Mapped[n]
  BY <1>0, TopType
<1>2. calls # <<>> /\ n \in Gates /\ c \in Candidates(n)
  BY <1>0, <1>1, TopType
<1>3. PICK v, e : v = cut_value(cut) /\ e = dp_cut_cache[n][v]
  OBVIOUS
<1>4. PICK d \in Candidates(n) : v = cut_value(Mapped[n]) /\ CachedFor(n, d, e)
  BY <1>1, <1>2, <1>3 DEF SolveCached, InCache, SolveInv, CacheInv
<1>6. PICK kept : kept = e.pareto_gate_list
  OBVIOUS
<1>7. /\ LeavesSolved(cut) /\ KeptType(n, kept)
      /\ DOMAIN e.critical = 1 .. Len(kept)
      /\ \A j \in 1 .. Len(kept) : IsCritical(n, kept[j], e.critical[j])
      /\ IsFront(n, d, kept)
  BY <1>1, <1>4, <1>6 DEF CachedFor
<1>8. PICK F : F = FaninCells(cut)
  OBVIOUS
<1>9. kept \in Seq(F) /\ Len(kept) \in Nat /\ \A j \in 1 .. Len(kept) : kept[j] \in F
  <2>1. kept \in Seq(F)
    BY <1>1, <1>7, <1>8 DEF KeptType
  <2>. QED  BY <2>1
<1>10. KeptType(n, kept)
  BY <1>7
<1>11. IsFront(n, c, kept)
  <2>1. ASSUME NEW m \in F, NEW l \in F
        PROVE  AsGood(n, c, m, l) <=> AsGood(n, d, m, l)
    <3>1. Len(cut) \in Nat /\ DOMAIN m = 1 .. Len(cut) /\ DOMAIN l = 1 .. Len(cut)
      BY <1>1, <1>2, <1>8, CutType, FaninElements
    <3>2. /\ TotalArea(d, m) \in Int /\ TotalArea(d, l) \in Int
          /\ TotalArea(c, m) = TotalArea(d, m) + (AreaOf(c) - AreaOf(d))
          /\ TotalArea(c, l) = TotalArea(d, l) + (AreaOf(c) - AreaOf(d))
      BY <3>1, AreaShift
    <3>3. AreaOf(c) \in Int /\ AreaOf(d) \in Int
      BY AreaType
    <3>4. TotalArea(c, m) =< TotalArea(c, l) <=> TotalArea(d, m) =< TotalArea(d, l)
      BY <3>2, <3>3
    <3>. QED  BY <1>1, <3>4 DEF AsGood
  <2>2. /\ \A l \in F : \E j \in 1 .. Len(kept) : AsGood(n, d, kept[j], l)
        /\ \A i, j \in 1 .. Len(kept) : AsGood(n, d, kept[i], kept[j]) => AsGood(n, d, kept[j], kept[i])
    BY <1>1, <1>7, <1>8 DEF IsFront
  <2>3. /\ \A l \in F : \E j \in 1 .. Len(kept) : AsGood(n, c, kept[j], l)
        /\ \A i, j \in 1 .. Len(kept) : AsGood(n, c, kept[i], kept[j]) => AsGood(n, c, kept[j], kept[i])
    BY <1>9, <2>1, <2>2
  <2>. QED  BY <1>1, <1>8, <2>3 DEF IsFront
<1>12. PICK critical : critical = e.critical
  OBVIOUS
<1>13. PICK delays : delays = [j \in DOMAIN critical |->
                      DelayList(critical[j][1], critical[j][2])[critical[j][3]] + pin2pin(critical[j][1])]
  OBVIOUS
<1>14. Complete(kept, delays) /\ Return /\ UNCHANGED <<remap_flag, arrival, node_cut_map, dp_cut_cache>>
  BY <1>1, <1>3, <1>6, <1>12, <1>13 DEF SolveCached
<1>15. ASSUME NEW j \in 1 .. Len(kept)
       PROVE  delays[j] \in Nat /\ (delays[j] = DelayNow(n, cut, kept[j]))
  <2>1. PICK l, t : l = kept[j] /\ t = critical[j] /\ l \in F
    BY <1>9
  <2>2. IsCritical(n, l, t)
    BY <1>7, <1>12, <2>1
  <2>3. PICK k \in 1 .. Len(cut) : \E i \in DOMAIN DelayList(cut[k], l[k]) :
          /\ t = <<cut[k], l[k], i>>
          /\ DelayList(cut[k], l[k])[i] + arrival[n] - ArrivalOf(cut[k]) = DelayNow(n, cut, l)
    BY <1>1, <2>2 DEF IsCritical
  <2>4. PICK i \in DOMAIN DelayList(cut[k], l[k]) :
          /\ t = <<cut[k], l[k], i>>
          /\ DelayList(cut[k], l[k])[i] + arrival[n] - ArrivalOf(cut[k]) = DelayNow(n, cut, l)
    BY <2>3
  <2>5. PICK q : q = DelayList(cut[k], l[k])[i]
    OBVIOUS
  <2>6. q \in Nat
    <3>1. DelayList(cut[k], l[k]) \in Seq(Nat)
      BY <1>7, <1>8, <2>1, LeafDelays DEF SolveInv
    <3>. QED  BY <2>5, <3>1
  <2>7. cut[k] \in Range(cut)
    BY <1>1, <1>2, CutType
  <2>8. pin2pin(cut[k]) \in Nat /\ (pin2pin(cut[k]) = arrival[n] - ArrivalOf(cut[k]))
    BY <1>1, <1>2, <2>7, TopType
  <2>9. t[1] = cut[k] /\ t[2] = l[k] /\ t[3] = i
    BY <2>4
  <2>10. delays[j] = q + pin2pin(cut[k])
    BY <1>7, <1>12, <1>13, <2>1, <2>5, <2>9
  <2>11. arrival[n] \in Nat /\ ArrivalOf(cut[k]) \in Nat
    BY <1>1, <1>2, <2>7, ArrivalsAscend DEF SolveInv
  <2>12. q + arrival[n] - ArrivalOf(cut[k]) = DelayNow(n, cut, l)
    BY <2>4, <2>5
  <2>. QED  BY <2>1, <2>6, <2>8, <2>10, <2>11, <2>12
<1>16. delays \in Seq(Nat) /\ Len(delays) = Len(kept)
  <2>1. PICK num : num = Len(kept) /\ num \in Nat
    BY <1>9
  <2>2. delays \in [1 .. num -> Nat]
    BY <1>7, <1>12, <1>13, <1>15, <2>1
  <2>. QED  BY <2>1, <2>2
<1>17. TableGrows /\ TableInv' /\ TimeInv' /\ CallInv'
  BY <1>1, <1>2, <1>7, <1>10, <1>11, <1>14, <1>15, <1>16, CompleteInv
<1>18. CacheInv'
  BY <1>14, <1>17, CacheStep DEF SolveInv
<1>. QED  BY <1>17, <1>18 DEF SolveInv

\* The back propagation changes nothing of this.
LEMMA SolvedStays ==
  ASSUME SolveInv,
         UNCHANGED <<remap_flag, arrival, node_cut_map, dp_table, dp_cut_cache, calls>>
  PROVE  SolveInv'
<1>1. TableGrows
  BY DEF TableGrows, SolveInv, TableInv
<1>2. TableInv' /\ CacheInv'
  BY <1>1, TableStep, CacheStep DEF SolveInv
<1>3. TimeInv'
  BY DEF SolveInv, TimeInv
<1>4. ASSUME NEW i \in 1 .. Len(calls'), NEW call, call = calls'[i]
      PROVE  CallOK(call)'
  <2>1. CallOK(call)
    BY <1>4 DEF SolveInv, CallInv
  <2>. QED  BY <1>1, <2>1, OldCallOK DEF SolveInv
<1>5. /\ calls' \in Seq(CallRecords)
      /\ \A i, j \in 1 .. Len(calls') : i < j => calls'[j].node < calls'[i].node
  BY DEF SolveInv, CallInv
<1>6. CallInv'
  BY <1>4, <1>5, CallsOK
<1>. QED  BY <1>2, <1>3, <1>6 DEF SolveInv

\* Nothing is calculated at first.
LEMMA SolveInit == Init /\ ~remap_flag => SolveInv
<1> SUFFICES ASSUME Init, ~remap_flag PROVE SolveInv
  OBVIOUS
<1>1. DOMAIN dp_table = Gates /\ \A n \in Gates : dp_table[n] = [c \in Candidates(n) |-> NewEntry(n, c)]
  BY DEF Init
<1>2. \A n \in Gates : \A c \in Candidates(n) :
        dp_table[n][c] = NewEntry(n, c) /\ ~dp_table[n][c].is_calculated
  <2> TAKE n \in Gates
  <2> TAKE c \in Candidates(n)
  <2>1. dp_table[n][c] = NewEntry(n, c)
    BY <1>1
  <2>2. ~NewEntry(n, c).is_calculated
    BY DEF NewEntry
  <2>. QED  BY <2>1, <2>2
<1>3. TableInv
  <2>1. \A n \in Gates : DOMAIN dp_table[n] = Candidates(n) /\ Candidates(n) # {}
    BY <1>1 DEF Init
  <2>. QED  BY <1>1, <1>2, <2>1 DEF TableInv
<1>4. CacheInv
  BY DEF Init, CacheInv, EmptyCache
<1>5. TimeInv
  BY DEF Init, TimeInv
<1>6. CallInv
  BY DEF Init, CallInv
<1>. QED  BY <1>3, <1>4, <1>5, <1>6 DEF SolveInv

\* The invariant of dp_solve_rec.
LEMMA SolveNext == SolveInv /\ [Next]_vars => SolveInv'
<1> SUFFICES ASSUME SolveInv, [Next]_vars PROVE SolveInv'
  OBVIOUS
<1>1. CASE CallOutput
  <2>1. PICK o \in Range(POs) \cap Gates : \E c \in Candidates(o) : ~Calculated(o, c) /\ Enter(o, c)
    BY <1>1 DEF CallOutput
  <2>2. PICK c \in Candidates(o) : ~Calculated(o, c) /\ Enter(o, c)
    BY <2>1
  <2>. QED  BY <1>1, <2>2, EnterInv DEF CallOutput
<1>2. CASE CallLeaf
  <2>1. PICK l \in Range(TopCut) \cap Gates : \E c \in Candidates(l) : ~Calculated(l, c) /\ Enter(l, c)
    BY <1>2 DEF CallLeaf
  <2>2. PICK c \in Candidates(l) : ~Calculated(l, c) /\ Enter(l, c)
    BY <2>1
  <2>3. l < Top.node
    BY <1>2, TopType, CutType DEF CallLeaf
  <2>. QED  BY <1>2, <2>2, <2>3, EnterInv DEF CallLeaf
<1>3. CASE Solve
  BY <1>3, SolveStep
<1>4. CASE SolveCached
  BY <1>4, SolveCachedStep
<1>5. CASE BeginBack \/ SkipOutput \/ VisitOutput \/ VisitLeaf \/ Leave \/ Select \/ UNCHANGED vars
  BY <1>5, SolvedStays DEF BeginBack, SkipOutput, VisitOutput, VisitLeaf, Leave, Select, vars
<1>. QED  BY <1>1, <1>2, <1>3, <1>4, <1>5 DEF Next

\* Without remapping the table is sound throughout.
MappedInv == ~remap_flag => SolveInv

LEMMA AlwaysMappedInv == Spec => []MappedInv
<1>1. Init => MappedInv
  BY SolveInit DEF MappedInv
<1>2. MappedInv /\ [Next]_vars => MappedInv'
  <2> SUFFICES ASSUME MappedInv, [Next]_vars, ~remap_flag' PROVE SolveInv'
    BY DEF MappedInv
  <2>1. remap_flag' = remap_flag
    BY DEF Next, vars, CallOutput, CallLeaf, Solve, SolveCached, BeginBack, SkipOutput,
           VisitOutput, VisitLeaf, Leave, Select
  <2>. QED  BY <2>1, SolveNext DEF MappedInv
<1>. QED  BY <1>1, <1>2, PTL DEF Spec

(***************************************************************************)
(* Without remapping an entry keeps the front of all choices for the nodes *)
(* its gate reads, with the delays the timer would report, whether         *)
(* dp_solve_rec has tried them or taken them from the cache.               *)
(***************************************************************************)
THEOREM KeptFronts == Spec => []KeepsTheFront
<1>1. MappedInv => KeepsTheFront
  <2> SUFFICES ASSUME MappedInv, ~remap_flag, NEW n \in Gates, NEW c \in Entries(n),
                      NEW cut, NEW kept, NEW delays, NEW measured,
                      cut = CutOf(n, c), kept = dp_table[n][c].pareto_gate_list,
                      delays = dp_table[n][c].delay_list, measured = Len(delays) - Len(kept)
               PROVE  /\ measured = NumMeasured(n)
                      /\ Range(kept) \subseteq FaninCells(cut)
                      /\ \A j \in DOMAIN kept : delays[j + measured] = DelayNow(n, cut, kept[j])
                      /\ \A l \in FaninCells(cut) : \E j \in DOMAIN kept :
                           /\ TotalArea(c, kept[j]) =< TotalArea(c, l)
                           /\ delays[j + measured] =< DelayNow(n, cut, l)
    BY DEF KeepsTheFront, NumMeasured
  <2>0. cut = Mapped[n]
    BY DEF CutOf
  <2>1. SolvedEntry(n, c)
    BY DEF MappedInv, SolveInv, TableInv, Entries
  <2>2. /\ KeptType(n, kept) /\ delays \in Seq(Nat)
        /\ Len(delays) = Len(kept) + NumMeasured(n)
        /\ IsFront(n, c, kept)
        /\ \A j \in 1 .. Len(kept) : delays[j + NumMeasured(n)] = DelayNow(n, cut, kept[j])
    BY <2>0, <2>1 DEF SolvedEntry
  <2>3. /\ Len(kept) \in Nat /\ DOMAIN kept = 1 .. Len(kept) /\ NumMeasured(n) \in Nat
        /\ Range(kept) \subseteq FaninCells(cut)
    <3>1. PICK F : F = FaninCells(cut)
      OBVIOUS
    <3>2. kept \in Seq(F)
      BY <2>0, <2>2, <3>1 DEF KeptType
    <3>. QED  BY <3>1, <3>2 DEF NumMeasured, Range
  <2>4. measured = NumMeasured(n)
    <3>1. PICK a, b, d : a = Len(kept) /\ b = Len(delays) /\ d = NumMeasured(n)
      OBVIOUS
    <3>2. b = a + d /\ a \in Nat /\ d \in Nat /\ measured = b - a
      BY <2>2, <2>3, <3>1
    <3>. QED  BY <3>1, <3>2
  <2>5. \A l \in FaninCells(cut) : \E j \in 1 .. Len(kept) :
          /\ TotalArea(c, kept[j]) =< TotalArea(c, l)
          /\ DelayNow(n, cut, kept[j]) =< DelayNow(n, cut, l)
    BY <2>0, <2>2 DEF IsFront, AsGood
  <2>6. \A j \in 1 .. Len(kept) : delays[j + measured] = DelayNow(n, cut, kept[j])
    BY <2>2, <2>4
  <2>7. \A l \in FaninCells(cut) : \E j \in 1 .. Len(kept) :
          /\ TotalArea(c, kept[j]) =< TotalArea(c, l)
          /\ delays[j + measured] =< DelayNow(n, cut, l)
    <3> TAKE l \in FaninCells(cut)
    <3>1. PICK j \in 1 .. Len(kept) : /\ TotalArea(c, kept[j]) =< TotalArea(c, l)
                                     /\ DelayNow(n, cut, kept[j]) =< DelayNow(n, cut, l)
      BY <2>5
    <3>. QED  BY <2>6, <3>1
  <2>8. DOMAIN kept = 1 .. Len(kept)
    BY <2>3
  <2>. QED  BY <2>3, <2>4, <2>6, <2>7, <2>8
<1>. QED  BY <1>1, AlwaysMappedInv, PTL

-----------------------------------------------------------------------------
(***************************************************************************)
(* OldSolver: the inductive invariant of dp_back_propagation               *)
(***************************************************************************)

VisitRecords(places) ==
  [node : Gates, cell : Cells, required : Int, selected : places, next : Nat]

\* A call in progress works for a candidate of a gate; of several choices it
\* has picked one that could be selected.
VisitOK(v) ==
  /\ \E places : v \in VisitRecords(places)
  /\ v.cell \in Candidates(v.node)
  /\ v.next \in 1 .. Len(CutOf(v.node, v.cell)) + 1
  /\ Len(dp_table[v.node][v.cell].pareto_gate_list) # 1 =>
       v.selected \in Selectable(dp_table[v.node][v.cell].delay_list, v.required)

FramesOK(s) == (\E U : s \in Seq(U)) /\ \A i \in 1 .. Len(s) : VisitOK(s[i])

VisitInv ==
  /\ DOMAIN dp_table = Gates
  /\ \A n \in Gates : DOMAIN dp_table[n] = Candidates(n)
  /\ status # "solve" => calls = <<>>
  /\ status = "solve" => visits = <<>>
  /\ FramesOK(visits)

\* The gate at position k has been asked on behalf of candidate c of n, or
\* will be by a call in progress.
Covered(n, c, k) ==
  \/ n \in node_parent_map[CutOf(n, c)[k]]
  \/ \E i \in 1 .. Len(visits) :
       visits[i].node = n /\ visits[i].cell = c /\ visits[i].next =< k

\* The same for all candidates asked for, but those the list began with.
Covers(f) ==
  \A n \in Gates : \A c \in dp_final_solution[n] \ {f[n]} :
    /\ c \in Candidates(n)
    /\ \A k \in 1 .. Len(CutOf(n, c)) : CutOf(n, c)[k] \in Gates => Covered(n, c, k)

CoverInv ==
  /\ DOMAIN node_parent_map = Gates /\ DOMAIN dp_final_solution = Gates
  /\ po \in Nat /\ po >= 1
  /\ status = "solve" => po = 1
  /\ status \in {"back", "done"} =>
       /\ \A j \in 1 .. Len(POs) : j < po /\ POs[j] \in Gates => 0 \in node_parent_map[POs[j]]
       /\ \E f : Covers(f)
  /\ status = "done" => visits = <<>> /\ po > Len(POs)

\* It does not depend on what is in the table: it holds with remapping, too.
BackInv == VisitInv /\ CoverInv

-----------------------------------------------------------------------------
(***************************************************************************)
(* OldSolver: the steps of dp_back_propagation                             *)
(***************************************************************************)

\* The cut of a candidate is a cut of the gate.
LEMMA CutOfType ==
  ASSUME NEW n \in Gates, NEW c \in Candidates(n)
  PROVE  /\ Len(CutOf(n, c)) \in Nat /\ Len(CutOf(n, c)) >= 1
         /\ \A l \in Range(CutOf(n, c)) : \E k \in 1 .. Len(CutOf(n, c)) : l = CutOf(n, c)[k]
<1>1. PICK cut : cut = CutOf(n, c)
  OBVIOUS
<1>2. cut = Mapped[n] \/ \E d \in Offered[n] : cut = Cut[n][d]
  BY <1>1 DEF CutOf, Candidates, Suitable
<1>. QED  BY <1>1, <1>2, AnyCutType

\* The cuts stay, with or without remapping.
LEMMA CutsStay ==
  ASSUME remap_flag' = remap_flag
  PROVE  \A n, c : CutOf(n, c)' = CutOf(n, c) /\ Candidates(n)' = Candidates(n)
BY DEF CutOf, Candidates

\* Frames are not disturbed by what others do.
LEMMA OldVisitOK ==
  ASSUME NEW v, VisitOK(v), UNCHANGED <<remap_flag, dp_table>>
  PROVE  VisitOK(v)'
BY CutsStay DEF VisitOK, VisitRecords, Selectable

\* What is to be shown of the frames after a step.
LEMMA FramesStay ==
  ASSUME NEW s, s = visits', FramesOK(s), UNCHANGED <<remap_flag, dp_table>>
  PROVE  FramesOK(visits)'
<1>1. \A i \in 1 .. Len(s) : VisitOK(s[i])'
  <2> TAKE i \in 1 .. Len(s)
  <2>1. PICK v : v = s[i]
    OBVIOUS
  <2>2. VisitOK(v)'
    BY <2>1, OldVisitOK DEF FramesOK
  <2>. QED  BY <2>1, <2>2
<1>2. \A i \in 1 .. Len(visits') : VisitOK(visits[i])'
  <2> TAKE i \in 1 .. Len(visits')
  <2>1. PICK v : v = s[i]
    OBVIOUS
  <2>2. VisitOK(v)' /\ v = visits'[i]
    BY <1>1, <2>1
  <2>. QED  BY <2>2 DEF VisitOK, VisitRecords, Candidates, CutOf
<1>. QED  BY <1>2 DEF FramesOK

\* One more call, and one call less.
LEMMA FramesAppend ==
  ASSUME NEW s, FramesOK(s), NEW v, VisitOK(v), NEW t, t = Append(s, v)
  PROVE  /\ FramesOK(t) /\ Len(s) \in Nat /\ Len(t) = Len(s) + 1
         /\ t[Len(s) + 1] = v /\ \A i \in 1 .. Len(s) : t[i] = s[i]
<1>1. PICK U : s \in Seq(U)
  BY DEF FramesOK
<1>2. PICK W : W = U \cup {v}
  OBVIOUS
<1>3. s \in Seq(W) /\ v \in W
  BY <1>1, <1>2
<1>4. /\ t \in Seq(W) /\ Len(s) \in Nat /\ Len(t) = Len(s) + 1
      /\ t[Len(s) + 1] = v /\ \A i \in 1 .. Len(s) : t[i] = s[i]
  BY <1>3
<1>5. \A i \in 1 .. Len(t) : i = Len(s) + 1 \/ i \in 1 .. Len(s)
  BY <1>4
<1>. QED  BY <1>4, <1>5 DEF FramesOK

LEMMA FramesFront ==
  ASSUME NEW s, FramesOK(s), s # <<>>
  PROVE  /\ Len(s) \in Nat /\ Len(s) >= 1 /\ VisitOK(s[Len(s)])
         /\ FramesOK(SubSeq(s, 1, Len(s) - 1)) /\ Len(SubSeq(s, 1, Len(s) - 1)) = Len(s) - 1
         /\ \A i \in 1 .. Len(s) - 1 : SubSeq(s, 1, Len(s) - 1)[i] = s[i] /\ i \in 1 .. Len(s)
<1>1. PICK U : s \in Seq(U)
  BY DEF FramesOK
<1>2. Len(s) \in Nat /\ Len(s) >= 1
  BY <1>1
<1>7. PICK k : k = Len(s) - 1
  OBVIOUS
<1>8. k \in Nat
  BY <1>2, <1>7
<1>9. PICK t : t = SubSeq(s, 1, k)
  OBVIOUS
<1>3. k = Len(s) - 1 /\ k \in Nat /\ t = SubSeq(s, 1, k)
  BY <1>7, <1>8, <1>9
<1>4. t \in Seq(U) /\ Len(t) = k /\ \A i \in 1 .. k : t[i] = s[i] /\ i \in 1 .. Len(s)
  BY <1>1, <1>2, <1>3
<1>5. FramesOK(t)
  BY <1>4 DEF FramesOK
<1>6. VisitOK(s[Len(s)])
  BY <1>2 DEF FramesOK
<1>. QED  BY <1>2, <1>3, <1>4, <1>5, <1>6

\* What can be selected is a place of the list.
LEMMA SelectablePlaces ==
  ASSUME NEW delays, NEW required
  PROVE  Selectable(delays, required) \subseteq DOMAIN delays
BY DEF Selectable

\* What Visit does: nothing, when it has been there on behalf of this gate;
\* give up; or begin a call.
LEMMA VisitCases ==
  ASSUME VisitInv, CoverInv, NEW n \in Gates, NEW c, NEW parent, NEW rest,
         Visit(n, parent, c, rest)
  PROVE  \/ /\ visits' = rest /\ parent \in node_parent_map[n]
            /\ UNCHANGED <<status, node_parent_map, dp_final_solution>>
         \/ /\ visits' = rest /\ status' \in {"assert", "undefined"}
            /\ DOMAIN node_parent_map' = Gates /\ DOMAIN dp_final_solution' = Gates
         \/ /\ c \in Candidates(n)
            /\ \E v : /\ VisitOK(v) /\ visits' = Append(rest, v)
                      /\ v.node = n /\ v.cell = c /\ v.next = 1
            /\ node_parent_map' = [node_parent_map EXCEPT ![n] = @ \cup {parent}]
            /\ dp_final_solution' = [dp_final_solution EXCEPT ![n] = @ \cup {c}]
            /\ status' = status
<1>1. CASE FromThere(n, parent)
  BY <1>1 DEF Visit, FromThere
<1>2. CASE ~FromThere(n, parent)
  <2>1. PICK kept, delays : kept = dp_table[n][c].pareto_gate_list /\ delays = dp_table[n][c].delay_list
    OBVIOUS
  <2>2. node_parent_map' = [node_parent_map EXCEPT ![n] = @ \cup {parent}]
    BY <1>2 DEF Visit
  <2>3. DOMAIN node_parent_map' = Gates /\ DOMAIN dp_final_solution = Gates
    BY <2>2 DEF CoverInv
  <2>4. CASE c \notin DOMAIN dp_table[n]
    BY <1>2, <2>3, <2>4 DEF Visit
  <2>5. CASE c \in DOMAIN dp_table[n]
    <3>1. c \in Candidates(n) /\ c \in Cells /\ 1 \in 1 .. Len(CutOf(n, c)) + 1
      <4>1. c \in Candidates(n)
        BY <2>5 DEF VisitInv
      <4>2. Len(CutOf(n, c)) \in Nat
        BY <4>1, CutOfType
      <4>. QED  BY <4>1, <4>2, CandidatesType
    <3>2. dp_final_solution' = [dp_final_solution EXCEPT ![n] = @ \cup {c}]
      BY <1>2, <2>5 DEF Visit
    <3>3. DOMAIN dp_final_solution' = Gates
      BY <2>3, <3>2
    <3>4. CASE Len(kept) = 1
      <4>1. PICK v : v = [node |-> n, cell |-> c, required |-> 0, selected |-> 1, next |-> 1]
        OBVIOUS
      <4>2. visits' = Append(rest, v) /\ status' = status
        BY <1>2, <2>1, <2>5, <3>4, <4>1 DEF Visit
      <4>3. /\ v.node = n /\ v.cell = c /\ v.next = 1
            /\ v \in VisitRecords({1})
        BY <3>1, <4>1 DEF VisitRecords
      <4>4. VisitOK(v)
        BY <2>1, <3>1, <3>4, <4>3 DEF VisitOK
      <4>. QED  BY <2>2, <3>1, <3>2, <4>2, <4>3, <4>4
    <3>5. CASE Len(kept) # 1 /\ delays = <<>>
      <4>1. status' = "undefined" /\ visits' = rest
        BY <1>2, <2>1, <2>5, <3>5 DEF Visit
      <4>. QED  BY <2>3, <3>3, <4>1
    <3>6. CASE Len(kept) # 1 /\ delays # <<>>
      <4>1. PICK required \in RequiredTimes :
              IF Selectable(delays, required) = {}
              THEN status' = "assert" /\ visits' = rest
              ELSE /\ \E s \in Selectable(delays, required) :
                        visits' = Append(rest, [node |-> n, cell |-> c, required |-> required,
                                                selected |-> s, next |-> 1])
                   /\ UNCHANGED status
        BY <1>2, <2>1, <2>5, <3>6 DEF Visit
      <4>2. CASE Selectable(delays, required) = {}
        BY <2>3, <3>3, <4>1, <4>2
      <4>3. CASE Selectable(delays, required) # {}
        <5>1. PICK s \in Selectable(delays, required) :
                visits' = Append(rest, [node |-> n, cell |-> c, required |-> required,
                                        selected |-> s, next |-> 1])
          BY <4>1, <4>3
        <5>2. PICK v : v = [node |-> n, cell |-> c, required |-> required, selected |-> s, next |-> 1]
          OBVIOUS
        <5>4. required \in Int
          BY TimerAssumption
        <5>3. /\ v.node = n /\ v.cell = c /\ v.next = 1 /\ v.selected = s /\ v.required = required
              /\ v \in VisitRecords({s})
          BY <3>1, <5>2, <5>4 DEF VisitRecords
        <5>5. VisitOK(v)
          BY <2>1, <3>1, <5>1, <5>3 DEF VisitOK
        <5>6. visits' = Append(rest, v) /\ status' = status
          BY <4>1, <4>3, <5>1, <5>2
        <5>. QED  BY <2>2, <3>1, <3>2, <5>3, <5>5, <5>6
      <4>. QED  BY <4>2, <4>3
    <3>. QED  BY <3>4, <3>5, <3>6
  <2>. QED  BY <2>4, <2>5
<1>. QED  BY <1>1, <1>2

\* When what a call in progress is to visit is visited or still to be, and
\* what is newly asked for begins a call, everything stays covered.
LEMMA CoverStep ==
  ASSUME NEW f, Covers(f), remap_flag' = remap_flag,
         \A m \in Gates : node_parent_map[m] \subseteq node_parent_map'[m],
         \A i \in 1 .. Len(visits) : \A n, c, k :
           /\ visits[i].node = n /\ visits[i].cell = c /\ visits[i].next =< k
           /\ k \in 1 .. Len(CutOf(n, c)) /\ CutOf(n, c)[k] \in Gates
           => \/ n \in node_parent_map'[CutOf(n, c)[k]]
              \/ \E j \in 1 .. Len(visits') :
                   visits'[j].node = n /\ visits'[j].cell = c /\ visits'[j].next =< k,
         \A n \in Gates : \A c \in dp_final_solution'[n] :
           \/ c \in dp_final_solution[n]
           \/ /\ c \in Candidates(n)
              /\ \E j \in 1 .. Len(visits') :
                   visits'[j].node = n /\ visits'[j].cell = c /\ visits'[j].next = 1
  PROVE  Covers(f)'
<1>1. \A n, c : CutOf(n, c)' = CutOf(n, c) /\ Candidates(n)' = Candidates(n)
  BY CutsStay
<1>2. ASSUME NEW n \in Gates, NEW c \in dp_final_solution'[n] \ {f[n]},
             NEW k \in 1 .. Len(CutOf(n, c)), CutOf(n, c)[k] \in Gates
      PROVE  Covered(n, c, k)'
  <2>0. PICK cut : cut = CutOf(n, c) /\ cut = CutOf(n, c)'
    BY <1>1
  <2>1. CASE c \in dp_final_solution[n]
    <3>1. Covered(n, c, k)
      BY <1>2, <2>1 DEF Covers
    <3>2. CASE n \in node_parent_map[cut[k]]
      <4>1. n \in node_parent_map'[cut[k]]
        BY <1>2, <2>0, <3>2
      <4>. QED  BY <2>0, <4>1 DEF Covered
    <3>3. CASE n \notin node_parent_map[cut[k]]
      <4>1. PICK i \in 1 .. Len(visits) : visits[i].node = n /\ visits[i].cell = c /\ visits[i].next =< k
        BY <2>0, <3>1, <3>3 DEF Covered
      <4>2. \/ n \in node_parent_map'[cut[k]]
            \/ \E j \in 1 .. Len(visits') :
                 visits'[j].node = n /\ visits'[j].cell = c /\ visits'[j].next =< k
        <5>1. PICK m, d, q : m = n /\ d = c /\ q = k
          OBVIOUS
        <5>2. /\ visits[i].node = m /\ visits[i].cell = d /\ visits[i].next =< q
              /\ q \in 1 .. Len(CutOf(m, d)) /\ CutOf(m, d)[q] \in Gates
          BY <1>2, <4>1, <5>1
        <5>3. \/ m \in node_parent_map'[CutOf(m, d)[q]]
              \/ \E j \in 1 .. Len(visits') :
                   visits'[j].node = m /\ visits'[j].cell = d /\ visits'[j].next =< q
          BY <4>1, <5>2
        <5>. QED  BY <2>0, <5>1, <5>3
      <4>. QED  BY <2>0, <4>2 DEF Covered
    <3>. QED  BY <3>2, <3>3
  <2>2. CASE c \notin dp_final_solution[n]
    <3>1. PICK j \in 1 .. Len(visits') : visits'[j].node = n /\ visits'[j].cell = c /\ visits'[j].next = 1
      BY <2>2
    <3>2. visits'[j].next =< k
      <4>1. 1 =< k
        BY <1>2
      <4>. QED  BY <3>1, <4>1
    <3>. QED  BY <3>1, <3>2 DEF Covered
  <2>. QED  BY <2>1, <2>2
<1>3. \A n \in Gates : \A c \in dp_final_solution'[n] \ {f[n]} : c \in Candidates(n)
  BY DEF Covers
<1>. QED  BY <1>1, <1>2, <1>3 DEF Covers

\* The tables do not get other entries when a step leaves them alone.
LEMMA BackFrames ==
  ASSUME VisitInv, status # "solve", status' # "solve",
         NEW s, s = visits', FramesOK(s), UNCHANGED <<remap_flag, dp_table, calls>>
  PROVE  VisitInv'
<1>1. FramesOK(visits)'
  BY FramesStay
<1>2. \A n \in Gates : DOMAIN dp_table'[n] = Candidates(n)'
  BY CutsStay DEF VisitInv
<1>. QED  BY <1>1, <1>2 DEF VisitInv

\* A visit keeps the frames.
LEMMA VisitKeepsFrames ==
  ASSUME VisitInv, CoverInv, status = "back",
         NEW n \in Gates, NEW c, NEW parent, NEW rest, FramesOK(rest),
         Visit(n, parent, c, rest), UNCHANGED <<remap_flag, dp_table, calls>>
  PROVE  VisitInv'
<1>1. status' # "solve"
  BY VisitCases
<1>2. PICK s : s = visits'
  OBVIOUS
<1>3. FramesOK(s)
  <2>1. s = rest \/ \E v : VisitOK(v) /\ s = Append(rest, v)
    BY <1>2, VisitCases
  <2>. QED  BY <2>1, FramesAppend
<1>. QED  BY <1>1, <1>2, <1>3, BackFrames

\* A visit covers what it was made for, and nothing is lost.
LEMMA VisitKeepsCover ==
  ASSUME VisitInv, CoverInv, status = "back",
         NEW n \in Gates, NEW c, NEW parent, NEW rest, FramesOK(rest),
         Visit(n, parent, c, rest), remap_flag' = remap_flag,
         NEW f, Covers(f),
         \A i \in 1 .. Len(visits) : \A m, d, k :
           /\ visits[i].node = m /\ visits[i].cell = d /\ visits[i].next =< k
           /\ k \in 1 .. Len(CutOf(m, d)) /\ CutOf(m, d)[k] \in Gates
           => \/ m = parent /\ CutOf(m, d)[k] = n
              \/ \E j \in 1 .. Len(rest) :
                   rest[j].node = m /\ rest[j].cell = d /\ rest[j].next =< k
  PROVE  /\ DOMAIN node_parent_map' = Gates /\ DOMAIN dp_final_solution' = Gates
         /\ \/ status' \in {"assert", "undefined"}
            \/ /\ status' = "back" /\ Covers(f)' /\ parent \in node_parent_map'[n]
               /\ \A m \in Gates : node_parent_map[m] \subseteq node_parent_map'[m]
<1>1. DOMAIN node_parent_map = Gates /\ DOMAIN dp_final_solution = Gates
  BY DEF CoverInv
<1>2. CASE /\ visits' = rest /\ parent \in node_parent_map[n]
           /\ UNCHANGED <<status, node_parent_map, dp_final_solution>>
  <2>1. ASSUME NEW i \in 1 .. Len(visits), NEW m, NEW d, NEW k,
               visits[i].node = m, visits[i].cell = d, visits[i].next =< k,
               k \in 1 .. Len(CutOf(m, d)), CutOf(m, d)[k] \in Gates
        PROVE  \/ m \in node_parent_map'[CutOf(m, d)[k]]
               \/ \E j \in 1 .. Len(visits') :
                    visits'[j].node = m /\ visits'[j].cell = d /\ visits'[j].next =< k
    <3>1. \/ m = parent /\ CutOf(m, d)[k] = n
          \/ \E j \in 1 .. Len(rest) : rest[j].node = m /\ rest[j].cell = d /\ rest[j].next =< k
      BY <2>1
    <3>. QED  BY <1>2, <3>1
  <2>2. Covers(f)'
    BY <1>2, <2>1, CoverStep
  <2>. QED  BY <1>1, <1>2, <2>2
<1>3. CASE /\ visits' = rest /\ status' \in {"assert", "undefined"}
           /\ DOMAIN node_parent_map' = Gates /\ DOMAIN dp_final_solution' = Gates
  BY <1>3
<1>4. CASE /\ c \in Candidates(n)
           /\ \E v : /\ VisitOK(v) /\ visits' = Append(rest, v)
                     /\ v.node = n /\ v.cell = c /\ v.next = 1
           /\ node_parent_map' = [node_parent_map EXCEPT ![n] = @ \cup {parent}]
           /\ dp_final_solution' = [dp_final_solution EXCEPT ![n] = @ \cup {c}]
           /\ status' = status
  <2>1. PICK v : /\ VisitOK(v) /\ visits' = Append(rest, v)
                 /\ v.node = n /\ v.cell = c /\ v.next = 1
    BY <1>4
  <2>3. PICK s : s = visits'
    OBVIOUS
  <2>4. /\ Len(s) = Len(rest) + 1 /\ Len(rest) \in Nat
        /\ s[Len(rest) + 1] = v /\ \A i \in 1 .. Len(rest) : s[i] = rest[i]
    BY <2>1, <2>3, FramesAppend
  <2>5. Len(rest) + 1 \in 1 .. Len(s) /\ \A i \in 1 .. Len(rest) : i \in 1 .. Len(s)
    BY <2>4
  <2>6. /\ DOMAIN node_parent_map' = Gates /\ DOMAIN dp_final_solution' = Gates
        /\ parent \in node_parent_map'[n]
        /\ \A m \in Gates : node_parent_map[m] \subseteq node_parent_map'[m]
    BY <1>1, <1>4
  <2>7. ASSUME NEW i \in 1 .. Len(visits), NEW m, NEW d, NEW k,
               visits[i].node = m, visits[i].cell = d, visits[i].next =< k,
               k \in 1 .. Len(CutOf(m, d)), CutOf(m, d)[k] \in Gates
        PROVE  \/ m \in node_parent_map'[CutOf(m, d)[k]]
               \/ \E j \in 1 .. Len(s) : s[j].node = m /\ s[j].cell = d /\ s[j].next =< k
    <3>1. CASE m = parent /\ CutOf(m, d)[k] = n
      BY <2>6, <3>1
    <3>2. CASE \E j \in 1 .. Len(rest) : rest[j].node = m /\ rest[j].cell = d /\ rest[j].next =< k
      BY <2>4, <2>5, <3>2
    <3>3. /\ visits[i].node = m /\ visits[i].cell = d /\ visits[i].next =< k
          /\ k \in 1 .. Len(CutOf(m, d)) /\ CutOf(m, d)[k] \in Gates
          => \/ m = parent /\ CutOf(m, d)[k] = n
             \/ \E j \in 1 .. Len(rest) : rest[j].node = m /\ rest[j].cell = d /\ rest[j].next =< k
      OBVIOUS
    <3>. QED  BY <2>7, <3>1, <3>2, <3>3
  <2>8. ASSUME NEW m \in Gates, NEW d \in dp_final_solution'[m]
        PROVE  \/ d \in dp_final_solution[m]
               \/ /\ d \in Candidates(m)
                  /\ \E j \in 1 .. Len(s) : s[j].node = m /\ s[j].cell = d /\ s[j].next = 1
    <3>1. d \in dp_final_solution[m] \/ (m = n /\ d = c)
      BY <1>1, <1>4, <2>8
    <3>. QED  BY <1>4, <2>1, <2>4, <2>5, <3>1
  <2>9. Covers(f)'
    BY <2>3, <2>6, <2>7, <2>8, CoverStep
  <2>. QED  BY <1>4, <2>6, <2>9
<1>. QED  BY <1>2, <1>3, <1>4, VisitCases

\* Nothing is asked for at first.
LEMMA BackInit == Init => BackInv
<1> SUFFICES ASSUME Init PROVE BackInv
  OBVIOUS
<1>1. status = "solve" /\ visits = <<>> /\ po = 1
  BY DEF Init
<1>2. FramesOK(visits)
  <2>1. visits \in Seq({}) /\ Len(visits) = 0
    BY <1>1
  <2>. QED  BY <2>1 DEF FramesOK
<1>3. /\ DOMAIN node_parent_map = Gates /\ DOMAIN dp_final_solution = Gates /\ DOMAIN dp_table = Gates
      /\ \A n \in Gates : DOMAIN dp_table[n] = Candidates(n)
  BY DEF Init
<1>4. VisitInv
  BY <1>1, <1>2, <1>3 DEF VisitInv
<1>. QED  BY <1>1, <1>3, <1>4 DEF BackInv, CoverInv

\* While the table is filled, nothing is asked for; entries change, but
\* their keys do not.
LEMMA BackWhileSolving ==
  ASSUME BackInv, CallOutput \/ CallLeaf \/ Solve \/ SolveCached
  PROVE  BackInv'
<1>1. /\ status = "solve"
      /\ UNCHANGED <<remap_flag, status, po, visits, node_parent_map, dp_final_solution>>
      /\ dp_table' = dp_table \/ \E choices, delays : Complete(choices, delays)
  <2>1. CASE CallOutput \/ CallLeaf
    BY <2>1 DEF BackInv, VisitInv, CallOutput, CallLeaf
  <2>2. CASE Solve
    BY <2>2 DEF BackInv, VisitInv, Solve
  <2>3. CASE SolveCached
    BY <2>3 DEF BackInv, VisitInv, SolveCached
  <2>. QED  BY <2>1, <2>2, <2>3
<1>2. status' = "solve" /\ visits' = <<>> /\ po' = 1
  BY <1>1 DEF BackInv, VisitInv, CoverInv
<1>3. FramesOK(visits)'
  <2>1. visits' \in Seq({}) /\ Len(visits') = 0
    BY <1>2
  <2>. QED  BY <2>1 DEF FramesOK
<1>4. DOMAIN dp_table' = Gates /\ \A n \in Gates : DOMAIN dp_table'[n] = Candidates(n)'
  <2>1. \A n : Candidates(n)' = Candidates(n)
    BY <1>1, CutsStay
  <2>2. DOMAIN dp_table = Gates /\ \A n \in Gates : DOMAIN dp_table[n] = Candidates(n)
    BY DEF BackInv, VisitInv
  <2>3. CASE dp_table' = dp_table
    BY <2>1, <2>2, <2>3
  <2>4. CASE \E choices, delays : Complete(choices, delays)
    <3>1. PICK n, c, e : dp_table' = [dp_table EXCEPT ![n][c] = e]
      BY <2>4 DEF Complete
    <3>. QED  BY <2>1, <2>2, <3>1
  <2>. QED  BY <1>1, <2>3, <2>4
<1>5. DOMAIN node_parent_map' = Gates /\ DOMAIN dp_final_solution' = Gates
  BY <1>1 DEF BackInv, CoverInv
<1>6. VisitInv'
  BY <1>2, <1>3, <1>4 DEF VisitInv
<1>. QED  BY <1>2, <1>5, <1>6 DEF BackInv, CoverInv

\* The next output.
LEMMA VisitOutputStep ==
  ASSUME VisitInv, CoverInv, VisitOutput
  PROVE  VisitInv' /\ CoverInv'
<1>1. /\ status = "back" /\ visits = <<>> /\ po =< Len(POs) /\ POs[po] # 0 /\ po' = po + 1
      /\ UNCHANGED <<remap_flag, dp_table, calls>>
  BY DEF VisitOutput
<1>2. PICK o : o = POs[po]
  OBVIOUS
<1>3. po \in Nat /\ DOMAIN node_parent_map = Gates /\ DOMAIN dp_final_solution = Gates
  BY DEF CoverInv
<1>4. CASE /\ status' = "undefined" /\ UNCHANGED <<visits, node_parent_map, dp_final_solution>>
  <2>1. VisitInv'
    <3>1. PICK s : s = visits'
      OBVIOUS
    <3>2. FramesOK(s)
      BY <1>4, <3>1 DEF VisitInv
    <3>. QED  BY <1>1, <1>4, <3>1, <3>2, BackFrames
  <2>. QED  BY <1>1, <1>3, <1>4, <2>1 DEF CoverInv
<1>5. CASE o \in Gates /\ \E c : Visit(o, 0, c, <<>>)
  <2>1. PICK c : Visit(o, 0, c, <<>>)
    BY <1>5
  <2>2. PICK rest : rest = <<>>
    OBVIOUS
  <2>3. FramesOK(rest) /\ Len(visits) = 0
    BY <1>1, <2>2 DEF VisitInv
  <2>4. PICK f : Covers(f)
    BY <1>1 DEF CoverInv
  <2>5. VisitInv'
    BY <1>1, <1>5, <2>1, <2>2, <2>3, VisitKeepsFrames
  <2>6. /\ DOMAIN node_parent_map' = Gates /\ DOMAIN dp_final_solution' = Gates
        /\ \/ status' \in {"assert", "undefined"}
           \/ /\ status' = "back" /\ Covers(f)' /\ 0 \in node_parent_map'[o]
              /\ \A m \in Gates : node_parent_map[m] \subseteq node_parent_map'[m]
    <3>1. \A i \in 1 .. Len(visits) : FALSE
      BY <2>3
    <3>. QED  BY <1>1, <1>5, <2>1, <2>2, <2>3, <2>4, <3>1, VisitKeepsCover
  <2>7. ASSUME status' = "back"
        PROVE  \A j \in 1 .. Len(POs) : j < po' /\ POs[j] \in Gates => 0 \in node_parent_map'[POs[j]]
    <3> TAKE j \in 1 .. Len(POs)
    <3> HAVE j < po' /\ POs[j] \in Gates
    <3>1. j < po \/ j = po
      BY <1>1, <1>3
    <3>2. j < po => 0 \in node_parent_map[POs[j]]
      BY <1>1 DEF CoverInv
    <3>. QED  BY <1>2, <2>6, <2>7, <3>1, <3>2
  <2>8. po' \in Nat /\ po' >= 1
    BY <1>1, <1>3
  <2>. QED  BY <2>5, <2>6, <2>7, <2>8 DEF CoverInv
<1>. QED  BY <1>2, <1>4, <1>5 DEF VisitOutput

\* The next node a gate reads.
LEMMA VisitLeafStep ==
  ASSUME VisitInv, CoverInv, VisitLeaf
  PROVE  VisitInv' /\ CoverInv'
<1>1. /\ status = "back" /\ visits # <<>> /\ Deepest.next =< Len(DeepestCut)
      /\ UNCHANGED <<remap_flag, dp_table, calls, po>>
  BY DEF VisitLeaf
<1>2. PICK n, c, k, cut, num :
        n = Deepest.node /\ c = Deepest.cell /\ k = Deepest.next /\ cut = DeepestCut /\ num = Len(visits)
  OBVIOUS
<1>3. PICK rest, l, chosen :
        /\ rest = [visits EXCEPT ![Len(visits)].next = k + 1]
        /\ l = cut[k]
        /\ chosen = dp_table[Deepest.node][Deepest.cell].pareto_gate_list[Deepest.selected]
  OBVIOUS
<1>4. /\ num \in Nat /\ num >= 1 /\ VisitOK(Deepest)
      /\ n \in Gates /\ c \in Candidates(n) /\ cut = CutOf(n, c) /\ Len(cut) \in Nat
  <2>1. num \in Nat /\ num >= 1 /\ VisitOK(Deepest)
    BY <1>1, <1>2, FramesFront DEF VisitInv, Deepest
  <2>2. n \in Gates /\ c \in Candidates(n) /\ cut = CutOf(n, c)
    BY <1>2, <2>1 DEF VisitOK, VisitRecords, DeepestCut
  <2>. QED  BY <2>1, <2>2, CutOfType
<1>5. k \in Nat /\ k \in 1 .. Len(cut)
  BY <1>1, <1>2, <1>4 DEF VisitOK
<1>6. PICK v : v = [Deepest EXCEPT !.next = k + 1]
  OBVIOUS
<1>7. rest = [visits EXCEPT ![num] = v]
  BY <1>2, <1>3, <1>6 DEF Deepest
<1>8. /\ v.node = n /\ v.cell = c /\ v.next = k + 1
      /\ v.selected = Deepest.selected /\ v.required = Deepest.required
      /\ \E places : v \in VisitRecords(places)
  <2>1. PICK places : Deepest \in VisitRecords(places)
    BY <1>4 DEF VisitOK
  <2>. QED  BY <1>2, <1>5, <1>6, <2>1 DEF VisitRecords
<1>9. VisitOK(v)
  <2>1. k + 1 \in 1 .. Len(cut) + 1
    BY <1>4, <1>5
  <2>. QED  BY <1>2, <1>4, <1>8, <2>1 DEF VisitOK
<1>10. /\ FramesOK(rest) /\ Len(rest) = num /\ rest[num] = v
       /\ \A i \in 1 .. num : i # num => rest[i] = visits[i]
  <2>1. PICK U : visits \in Seq(U) /\ \A i \in 1 .. num : VisitOK(visits[i])
    BY <1>2 DEF VisitInv, FramesOK
  <2>2. PICK W : W = U \cup {v}
    OBVIOUS
  <2>3. visits \in Seq(W) /\ v \in W
    BY <2>1, <2>2
  <2>4. /\ rest \in Seq(W) /\ Len(rest) = num /\ rest[num] = v
        /\ \A i \in 1 .. num : i # num => rest[i] = visits[i]
    BY <1>2, <1>4, <1>7, <2>3
  <2>. QED  BY <1>9, <2>1, <2>4 DEF FramesOK
<1>11. PICK f : Covers(f)
  BY <1>1 DEF CoverInv
<1>12. ASSUME NEW i \in 1 .. Len(visits), NEW m, NEW e, NEW q,
              visits[i].node = m, visits[i].cell = e, visits[i].next =< q,
              q \in 1 .. Len(CutOf(m, e)), CutOf(m, e)[q] \in Gates
       PROVE  \/ m = n /\ CutOf(m, e)[q] = l
              \/ \E j \in 1 .. Len(rest) : rest[j].node = m /\ rest[j].cell = e /\ rest[j].next =< q
  <2>1. CASE i # num
    BY <1>2, <1>10, <1>12, <2>1
  <2>2. CASE i = num
    <3>1. m = n /\ e = c /\ k =< q /\ q \in 1 .. Len(cut)
      BY <1>2, <1>4, <1>12, <2>2 DEF Deepest
    <3>2. q = k \/ k + 1 =< q
      BY <1>4, <1>5, <3>1
    <3>3. CASE q = k
      BY <1>3, <1>4, <3>1, <3>3
    <3>4. CASE k + 1 =< q
      BY <1>4, <1>8, <1>10, <3>1, <3>4
    <3>. QED  BY <3>2, <3>3, <3>4
  <2>. QED  BY <2>1, <2>2
<1>13. \/ l \in Gates /\ k =< Len(chosen) /\ Visit(l, n, chosen[k], rest)
       \/ /\ status' = "undefined" /\ visits' = rest
          /\ UNCHANGED <<node_parent_map, dp_final_solution>>
       \/ /\ l \notin Gates /\ visits' = rest
          /\ UNCHANGED <<status, node_parent_map, dp_final_solution>>
  <2>1. /\ DeepestCut[Deepest.next] = l
        /\ rest = [visits EXCEPT ![Len(visits)].next = Deepest.next + 1]
    BY <1>2, <1>3
  <2>. QED  BY <1>2, <1>3, <2>1 DEF VisitLeaf
<1>14. /\ po' \in Nat /\ po' >= 1
       /\ \A j \in 1 .. Len(POs) : j < po /\ POs[j] \in Gates => 0 \in node_parent_map[POs[j]]
       /\ DOMAIN node_parent_map = Gates /\ DOMAIN dp_final_solution = Gates
  BY <1>1 DEF CoverInv
<1>15. CASE l \in Gates /\ Visit(l, n, chosen[k], rest)
  <2>1. PICK d : d = chosen[k]
    OBVIOUS
  <2>2. Visit(l, n, d, rest) /\ l \in Gates
    BY <1>15, <2>1
  <2>3. VisitInv'
    BY <1>1, <1>10, <2>2, VisitKeepsFrames
  <2>4. /\ DOMAIN node_parent_map' = Gates /\ DOMAIN dp_final_solution' = Gates
        /\ \/ status' \in {"assert", "undefined"}
           \/ /\ status' = "back" /\ Covers(f)'
              /\ \A m \in Gates : node_parent_map[m] \subseteq node_parent_map'[m]
    <3>1. remap_flag' = remap_flag /\ status = "back" /\ FramesOK(rest)
      BY <1>1, <1>10
    <3>2. \A i \in 1 .. Len(visits) : \A m, e, q :
            /\ visits[i].node = m /\ visits[i].cell = e /\ visits[i].next =< q
            /\ q \in 1 .. Len(CutOf(m, e)) /\ CutOf(m, e)[q] \in Gates
            => \/ m = n /\ CutOf(m, e)[q] = l
               \/ \E j \in 1 .. Len(rest) :
                    rest[j].node = m /\ rest[j].cell = e /\ rest[j].next =< q
      BY <1>12
    <3>. QED  BY <1>11, <2>2, <3>1, <3>2, VisitKeepsCover
  <2>5. ASSUME status' = "back"
        PROVE  \A j \in 1 .. Len(POs) : j < po' /\ POs[j] \in Gates => 0 \in node_parent_map'[POs[j]]
    BY <1>1, <1>14, <2>4, <2>5
  <2>6. status' # "solve" /\ status' # "done" /\ (status' = "back" => Covers(f)')
    BY <2>4
  <2>. QED  BY <1>14, <2>3, <2>4, <2>5, <2>6 DEF CoverInv
<1>16. CASE status' = "undefined" /\ visits' = rest /\ UNCHANGED <<node_parent_map, dp_final_solution>>
  <2>1. VisitInv'
    BY <1>1, <1>10, <1>16, BackFrames
  <2>. QED  BY <1>14, <1>16, <2>1 DEF CoverInv
<1>17. CASE l \notin Gates /\ visits' = rest /\ UNCHANGED <<status, node_parent_map, dp_final_solution>>
  <2>1. VisitInv'
    BY <1>1, <1>10, <1>17, BackFrames
  <2>2. ASSUME NEW i \in 1 .. Len(visits), NEW m, NEW e, NEW q,
               visits[i].node = m, visits[i].cell = e, visits[i].next =< q,
               q \in 1 .. Len(CutOf(m, e)), CutOf(m, e)[q] \in Gates
        PROVE  \E j \in 1 .. Len(visits') :
                 visits'[j].node = m /\ visits'[j].cell = e /\ visits'[j].next =< q
    BY <1>12, <1>17, <2>2
  <2>3. Covers(f)'
    BY <1>1, <1>11, <1>17, <2>2, CoverStep
  <2>. QED  BY <1>1, <1>14, <1>17, <2>1, <2>3 DEF CoverInv
<1>. QED  BY <1>13, <1>15, <1>16, <1>17

\* A call that ends has visited all its gate reads.
LEMMA LeaveStep ==
  ASSUME VisitInv, CoverInv, Leave
  PROVE  VisitInv' /\ CoverInv'
<1>1. /\ status = "back" /\ visits # <<>> /\ Deepest.next > Len(DeepestCut)
      /\ visits' = SubSeq(visits, 1, Len(visits) - 1)
      /\ UNCHANGED <<remap_flag, status, dp_table, calls, po, node_parent_map, dp_final_solution>>
  BY DEF Leave
<1>2. PICK s, k : s = visits' /\ k = Len(visits) - 1
  OBVIOUS
<1>3. /\ Len(visits) \in Nat /\ Len(visits) >= 1 /\ VisitOK(Deepest)
      /\ FramesOK(s) /\ Len(s) = k
      /\ \A i \in 1 .. k : s[i] = visits[i] /\ i \in 1 .. Len(visits)
  BY <1>1, <1>2, FramesFront DEF VisitInv, Deepest
<1>4. VisitInv'
  BY <1>1, <1>2, <1>3, BackFrames
<1>5. PICK f : Covers(f)
  BY <1>1 DEF CoverInv
<1>6. Covers(f)'
  <2>1. ASSUME NEW i \in 1 .. Len(visits), NEW m, NEW e, NEW q,
               visits[i].node = m, visits[i].cell = e, visits[i].next =< q,
               q \in 1 .. Len(CutOf(m, e)), CutOf(m, e)[q] \in Gates
        PROVE  \E j \in 1 .. Len(visits') :
                 visits'[j].node = m /\ visits'[j].cell = e /\ visits'[j].next =< q
    <3>1. CASE i \in 1 .. k
      BY <1>2, <1>3, <2>1, <3>1
    <3>2. CASE i = Len(visits)
      <4>1. DeepestCut = CutOf(m, e) /\ Deepest.next =< q
        BY <2>1, <3>2 DEF DeepestCut, Deepest
      <4>2. /\ q \in 1 .. Len(DeepestCut) /\ Deepest.next \in Nat /\ Len(DeepestCut) \in Nat
        <5>1. Deepest.node \in Gates /\ Deepest.cell \in Candidates(Deepest.node) /\ Deepest.next \in Nat
          BY <1>3 DEF VisitOK, VisitRecords
        <5>2. Len(DeepestCut) \in Nat
          BY <5>1, CutOfType DEF DeepestCut
        <5>. QED  BY <2>1, <4>1, <5>1, <5>2
      <4>3. FALSE
        BY <1>1, <4>1, <4>2
      <4>. QED  BY <4>3
    <3>. QED  BY <1>2, <1>3, <3>1, <3>2
  <2>. QED  BY <1>1, <1>5, <2>1, CoverStep
<1>. QED  BY <1>1, <1>4, <1>6 DEF CoverInv

\* Outputs of constants, the beginning and the end.
LEMMA OtherBackStep ==
  ASSUME VisitInv, CoverInv, BeginBack \/ SkipOutput \/ Select \/ UNCHANGED vars
  PROVE  VisitInv' /\ CoverInv'
<1>0. PICK s : s = visits' /\ FramesOK(visits)
  BY DEF VisitInv
<1>1. CASE BeginBack
  <2>1. /\ status = "solve" /\ calls = <<>> /\ status' = "back"
        /\ UNCHANGED <<remap_flag, dp_table, calls, po, visits, node_parent_map>>
    BY <1>1 DEF BeginBack
  <2>2. PICK f : dp_final_solution' = [n \in Gates |-> {f[n]}]
    BY <1>1 DEF BeginBack
  <2>3. po' = 1 /\ DOMAIN node_parent_map' = Gates
    BY <2>1 DEF CoverInv
  <2>4. FramesOK(visits)'
    BY <1>0, <2>1, FramesStay
  <2>5. \A n \in Gates : DOMAIN dp_table'[n] = Candidates(n)'
    BY <2>1, CutsStay DEF VisitInv
  <2>6. VisitInv'
    BY <2>1, <2>4, <2>5 DEF VisitInv
  <2>7. Covers(f)'
    BY <2>2 DEF Covers
  <2>. QED  BY <2>1, <2>2, <2>3, <2>6, <2>7 DEF CoverInv
<1>2. CASE SkipOutput
  <2>1. /\ status = "back" /\ visits = <<>> /\ POs[po] = 0 /\ po' = po + 1
        /\ UNCHANGED <<remap_flag, status, dp_table, calls, visits, node_parent_map, dp_final_solution>>
    BY <1>2 DEF SkipOutput
  <2>2. VisitInv'
    BY <1>0, <2>1, BackFrames
  <2>3. PICK f : Covers(f)
    BY <2>1 DEF CoverInv
  <2>4. Covers(f)'
    BY <2>1, <2>3, CoverStep
  <2>5. \A j \in 1 .. Len(POs) : j < po' /\ POs[j] \in Gates => 0 \in node_parent_map'[POs[j]]
    <3> TAKE j \in 1 .. Len(POs)
    <3> HAVE j < po' /\ POs[j] \in Gates
    <3>1. j # po
      BY <2>1, NetworkAssumption
    <3>2. j < po
      BY <2>1, <3>1 DEF CoverInv
    <3>. QED  BY <2>1, <3>2 DEF CoverInv
  <2>. QED  BY <2>1, <2>2, <2>4, <2>5 DEF CoverInv
<1>3. CASE Select
  <2>1. /\ status = "back" /\ visits = <<>> /\ po > Len(POs) /\ status' = "done"
        /\ UNCHANGED <<remap_flag, dp_table, calls, po, visits, node_parent_map, dp_final_solution>>
    BY <1>3 DEF Select
  <2>2. VisitInv'
    BY <1>0, <2>1, BackFrames
  <2>3. PICK f : Covers(f)
    BY <2>1 DEF CoverInv
  <2>4. Covers(f)'
    BY <2>1, <2>3, CoverStep
  <2>. QED  BY <2>1, <2>2, <2>4 DEF CoverInv
<1>4. CASE UNCHANGED vars
  <2>1. FramesOK(visits)'
    BY <1>0, <1>4, FramesStay DEF vars
  <2>2. \A n \in Gates : DOMAIN dp_table'[n] = Candidates(n)'
    BY <1>4, CutsStay DEF VisitInv, vars
  <2>3. VisitInv'
    BY <1>4, <2>1, <2>2 DEF VisitInv, vars
  <2>4. ASSUME NEW f, Covers(f) PROVE Covers(f)'
    BY <1>4, <2>4, CoverStep DEF vars
  <2>. QED  BY <1>4, <2>3, <2>4 DEF CoverInv, vars
<1>. QED  BY <1>1, <1>2, <1>3, <1>4

\* The calls of the back propagation are sound throughout.
LEMMA AlwaysBackInv == Spec => []BackInv
<1>1. BackInv /\ [Next]_vars => BackInv'
  <2> SUFFICES ASSUME BackInv, [Next]_vars PROVE BackInv'
    OBVIOUS
  <2>1. CASE CallOutput \/ CallLeaf \/ Solve \/ SolveCached
    BY <2>1, BackWhileSolving
  <2>2. CASE VisitOutput
    BY <2>2, VisitOutputStep DEF BackInv
  <2>3. CASE VisitLeaf
    BY <2>3, VisitLeafStep DEF BackInv
  <2>4. CASE Leave
    BY <2>4, LeaveStep DEF BackInv
  <2>5. CASE BeginBack \/ SkipOutput \/ Select \/ UNCHANGED vars
    BY <2>5, OtherBackStep DEF BackInv
  <2>. QED  BY <2>1, <2>2, <2>3, <2>4, <2>5 DEF Next
<1>. QED  BY <1>1, BackInit, PTL DEF Spec

\* The kept choices of an entry and their delays have the same places when
\* there are several.
LEMMA PlacesAgree ==
  ASSUME SolveInv, NEW n \in Gates, NEW c \in Candidates(n),
         NEW kept, kept = dp_table[n][c].pareto_gate_list, Len(kept) > 1,
         NEW delays, delays = dp_table[n][c].delay_list
  PROVE  /\ SolvedEntry(n, c) /\ NumMeasured(n) = 0
         /\ kept \in Seq(FaninCells(Mapped[n]))
         /\ Len(kept) \in Nat /\ DOMAIN kept = 1 .. Len(kept)
         /\ DOMAIN delays = 1 .. Len(kept) /\ delays \in Seq(Nat)
<1>1. SolvedEntry(n, c)
  <2>1. SUFFICES ASSUME ~dp_table[n][c].is_calculated PROVE FALSE
    BY DEF SolveInv, TableInv
  <2>2. dp_table[n][c] = NewEntry(n, c)
    BY <2>1 DEF SolveInv, TableInv
  <2>3. kept = <<>>
    BY <2>2 DEF NewEntry
  <2>. QED  BY <2>3
<1>2. KeptType(n, kept) /\ delays \in Seq(Nat) /\ Len(delays) = Len(kept) + NumMeasured(n)
  BY <1>1 DEF SolvedEntry
<1>3. PICK F : F = FaninCells(Mapped[n])
  OBVIOUS
<1>4. kept \in Seq(F) /\ (InputGate(n) => Len(kept) = 1)
  BY <1>2, <1>3 DEF KeptType
<1>5. PICK num : num = Len(kept)
  OBVIOUS
<1>6. num \in Nat /\ num > 1 /\ DOMAIN kept = 1 .. num
  BY <1>4, <1>5
<1>7. num # 1
  BY <1>6
<1>8. NumMeasured(n) = 0
  BY <1>4, <1>5, <1>7 DEF NumMeasured
<1>9. Len(delays) = num
  BY <1>2, <1>5, <1>6, <1>8
<1>. QED  BY <1>1, <1>2, <1>3, <1>4, <1>5, <1>6, <1>8, <1>9

(***************************************************************************)
(* Without remapping the back propagation picks the smallest choice that   *)
(* is faster than required, although it looks for the slowest one, and the *)
(* fastest when none is: on a front the slower choice is never the larger. *)
(***************************************************************************)
THEOREM PickedSmallest == Spec => []SmallestInTime
<1>1. MappedInv /\ BackInv => SmallestInTime
  <2> SUFFICES ASSUME MappedInv, BackInv, ~remap_flag, NEW v \in Range(visits),
                      NEW kept, NEW delays, NEW inTime,
                      kept = dp_table[v.node][v.cell].pareto_gate_list,
                      delays = dp_table[v.node][v.cell].delay_list,
                      inTime = {j \in DOMAIN kept : delays[j] < v.required},
                      Len(kept) > 1
               PROVE  IF inTime = {}
                      THEN \A j \in DOMAIN kept : delays[v.selected] =< delays[j]
                      ELSE /\ v.selected \in inTime
                           /\ \A j \in inTime : TotalArea(v.cell, kept[v.selected])
                                                   =< TotalArea(v.cell, kept[j])
    BY DEF SmallestInTime
  <2>1. VisitOK(v) /\ SolveInv
    <3>1. PICK U : visits \in Seq(U) /\ \A i \in 1 .. Len(visits) : VisitOK(visits[i])
      BY DEF BackInv, VisitInv, FramesOK
    <3>. QED  BY <3>1 DEF Range, MappedInv
  <2>2. PICK n, c, s, required : n = v.node /\ c = v.cell /\ s = v.selected /\ required = v.required
    OBVIOUS
  <2>3. n \in Gates /\ c \in Candidates(n) /\ required \in Int
    BY <2>1, <2>2 DEF VisitOK, VisitRecords
  <2>4. /\ Len(kept) \in Nat /\ DOMAIN kept = 1 .. Len(kept) /\ DOMAIN delays = 1 .. Len(kept)
        /\ kept \in Seq(FaninCells(Mapped[n])) /\ NumMeasured(n) = 0
        /\ SolvedEntry(n, c)
    BY <2>1, <2>2, <2>3, PlacesAgree
  <2>0. delays \in Seq(Nat)
    BY <2>1, <2>2, <2>3, PlacesAgree
  <2>9. s \in 1 .. Len(kept) /\ s \in Selectable(delays, required)
    <3>1. PICK num : num = Len(kept)
      OBVIOUS
    <3>2. num \in Nat /\ num > 1
      BY <2>4, <3>1
    <3>3. num # 1
      BY <3>2
    <3>4. s \in Selectable(delays, required)
      BY <2>1, <2>2, <3>1, <3>3 DEF VisitOK
    <3>. QED  BY <2>4, <3>4, SelectablePlaces
  <2>5. \A j \in DOMAIN kept : j \in DOMAIN delays /\ delays[j] \in Nat
    <3>1. PICK num : num = Len(kept)
      OBVIOUS
    <3>2. num \in Nat /\ DOMAIN kept = 1 .. num /\ DOMAIN delays = 1 .. num
      BY <2>4, <3>1
    <3>3. \A j \in DOMAIN delays : delays[j] \in Nat
      BY <2>0
    <3>. QED  BY <3>2, <3>3
  <2>6. inTime = {j \in DOMAIN delays : delays[j] < required}
    BY <2>2, <2>4
  <2>7. CASE \A j \in DOMAIN delays : delays[j] > required
    <3>1. inTime = {}
      <4>1. ASSUME NEW j \in inTime PROVE FALSE
        <5>1. PICK d : d = delays[j]
          OBVIOUS
        <5>2. j \in DOMAIN delays /\ j \in DOMAIN kept /\ d < required
          BY <2>4, <2>6, <4>1, <5>1
        <5>3. d > required /\ d \in Nat
          BY <2>5, <2>7, <5>1, <5>2
        <5>. QED  BY <2>3, <5>2, <5>3
      <4>. QED  BY <4>1
    <3>2. \A j \in DOMAIN delays : delays[s] =< delays[j]
      BY <2>7, <2>9 DEF Selectable
    <3>. QED  BY <2>2, <2>4, <3>1, <3>2
  <2>8. CASE ~\A j \in DOMAIN delays : delays[j] > required
    <3>1. s \in inTime /\ \A j \in inTime : delays[j] =< delays[s]
      BY <2>6, <2>8, <2>9 DEF Selectable
    <3>2. ASSUME NEW j \in inTime
          PROVE  TotalArea(c, kept[s]) =< TotalArea(c, kept[j])
      <4>2. IsFront(n, c, kept) /\ \A i \in 1 .. Len(kept) : delays[i + 0] = DelayNow(n, Mapped[n], kept[i])
        BY <2>2, <2>4 DEF SolvedEntry
      <4>3. j \in 1 .. Len(kept) /\ s \in 1 .. Len(kept)
        BY <2>4, <2>6, <2>9
      <4>4. PICK m, l : m = kept[j] /\ l = kept[s]
        OBVIOUS
      <4>5. DelayNow(n, Mapped[n], m) =< DelayNow(n, Mapped[n], l)
        <5>1. j + 0 = j /\ s + 0 = s
          BY <2>4, <4>3
        <5>. QED  BY <3>1, <4>2, <4>3, <4>4, <5>1
      <4>6. TotalArea(c, m) \in Int /\ TotalArea(c, l) \in Int
        <5>1. PICK F, cut : F = FaninCells(cut) /\ cut = Mapped[n]
          OBVIOUS
        <5>2. kept \in Seq(F)
          BY <2>4, <5>1
        <5>3. m \in F /\ l \in F
          BY <4>3, <4>4, <5>2
        <5>4. DOMAIN m = 1 .. Len(cut) /\ DOMAIN l = 1 .. Len(cut) /\ Len(cut) \in Nat
          BY <2>3, <5>1, <5>3, FaninElements, CutType
        <5>. QED  BY <5>4, AreaShift
      <4>7. CASE TotalArea(c, m) =< TotalArea(c, l)
        <5>1. AsGood(n, c, m, l)
          BY <4>5, <4>7 DEF AsGood
        <5>2. AsGood(n, c, l, m)
          BY <4>2, <4>3, <4>4, <5>1 DEF IsFront
        <5>. QED  BY <4>4, <5>2 DEF AsGood
      <4>8. CASE ~(TotalArea(c, m) =< TotalArea(c, l))
        BY <4>4, <4>6, <4>8
      <4>. QED  BY <4>7, <4>8
    <3>. QED  BY <2>2, <3>1, <3>2
  <2>. QED  BY <2>7, <2>8
<1>. QED  BY <1>1, AlwaysMappedInv, AlwaysBackInv, PTL

(***************************************************************************)
(* When the solver is done, every output has been visited, and all gates   *)
(* read by a cell that was asked for on behalf of its gate; the exception  *)
(* is the cell the list of a gate began with.  This holds with remapping,  *)
(* too.                                                                    *)
(***************************************************************************)
THEOREM VisitsAreComplete == Spec => []VisitsCover
<1>1. BackInv => VisitsCover
  <2> SUFFICES ASSUME BackInv, status = "done" PROVE VisitsCover
    BY DEF VisitsCover
  <2>1. /\ visits = <<>> /\ po > Len(POs) /\ po \in Nat
        /\ \A j \in 1 .. Len(POs) : j < po /\ POs[j] \in Gates => 0 \in node_parent_map[POs[j]]
    BY DEF BackInv, CoverInv
  <2>2. PICK f : Covers(f)
    BY DEF BackInv, CoverInv
  <2>3. \A o \in Range(POs) \cap Gates : 0 \in node_parent_map[o]
    <3> TAKE o \in Range(POs) \cap Gates
    <3>1. POs \in Seq(Nodes)
      BY NetworkAssumption
    <3>2. PICK j \in 1 .. Len(POs) : o = POs[j]
      BY <3>1 DEF Range
    <3>3. j < po
      BY <2>1, <3>1, <3>2
    <3>. QED  BY <2>1, <3>2, <3>3
  <2>4. ASSUME NEW n \in Gates
        PROVE  Cardinality({c \in dp_final_solution[n] :
                 ~\A l \in Range(CutOf(n, c)) \cap Gates : n \in node_parent_map[l]}) =< 1
    <3>1. PICK S : S = {c \in dp_final_solution[n] :
                          ~\A l \in Range(CutOf(n, c)) \cap Gates : n \in node_parent_map[l]}
      OBVIOUS
    <3>2. ASSUME NEW c \in S PROVE c = f[n]
      <4>1. SUFFICES ASSUME c # f[n] PROVE FALSE
        OBVIOUS
      <4>2. /\ c \in Candidates(n)
            /\ \A k \in 1 .. Len(CutOf(n, c)) : CutOf(n, c)[k] \in Gates => Covered(n, c, k)
        BY <2>2, <3>1, <4>1 DEF Covers
      <4>3. \A k \in 1 .. Len(CutOf(n, c)) : Covered(n, c, k) => n \in node_parent_map[CutOf(n, c)[k]]
        <5>1. \A i \in 1 .. Len(visits) : FALSE
          BY <2>1
        <5>. QED  BY <5>1 DEF Covered
      <4>4. \A l \in Range(CutOf(n, c)) : \E k \in 1 .. Len(CutOf(n, c)) : l = CutOf(n, c)[k]
        BY <4>2, CutOfType
      <4>. QED  BY <3>1, <4>2, <4>3, <4>4
    <3>3. S \subseteq {f[n]}
      BY <3>2
    <3>4. PICK T : T = {f[n]}
      OBVIOUS
    <3>5. IsFiniteSet(T) /\ Cardinality(T) = 1
      BY <3>4, FS_Singleton
    <3>6. Cardinality(S) =< Cardinality(T)
      BY <3>3, <3>4, <3>5, FS_Subset
    <3>. QED  BY <3>1, <3>5, <3>6
  <2>. QED  BY <2>3, <2>4 DEF VisitsCover
<1>. QED  BY <1>1, AlwaysBackInv, PTL
=============================================================================
