--------------------------- MODULE ParetoSelection ---------------------------
(***************************************************************************)
(* The selection of the choices worth keeping (src/src/util.cpp,           *)
(* pareto_solution_select_tmp, over the class Pareto of src/src/pareto.h). *)
(* The old solver has an area and a delay for every choice of cells in     *)
(* front of a gate and keeps those no other choice beats.  The values are  *)
(* added one by one to a list of elements; addvalue goes through the list  *)
(* and removes elements while it is still looking for one that is better   *)
(* than the new value.                                                     *)
(*                                                                         *)
(* Sequences start at 1 where the code starts at 0; areas and delays are   *)
(* integers.                                                               *)
(***************************************************************************)
EXTENDS Integers, Sequences, SequencesExt

CONSTANTS
  NumChoices,  \* the choices there are at most
  Amounts      \* the areas and the delays

ASSUME AmountsAssumption ==
  /\ NumChoices \in Nat
  /\ Amounts \subseteq Int

VARIABLES
  area_list, delay_list,  \* the arguments
  index,                  \* the choice that is being added: i of the caller
  elements,               \* the elements of the Pareto object
  ii                      \* addvalue: the element it is looking at

selection_vars == <<area_list, delay_list, index, elements, ii>>

Indices == 1 .. Len(area_list)

\* The object maximises.
Value(k) == <<-area_list[k], -delay_list[k]>>

dominates(e, v) == e.value[1] >= v[1] /\ e.value[2] >= v[2]

isdominated(e, v) == e.value[1] =< v[1] /\ e.value[2] =< v[2]

equal(e, v) == e.value = v

-----------------------------------------------------------------------------

SelectionInit ==
  /\ \E n \in 0 .. NumChoices :
       /\ area_list \in [1 .. n -> Amounts]
       /\ delay_list \in [1 .. n -> Amounts]
  /\ index = 1
  /\ elements = <<>>
  /\ ii = 1

\* The loop of addvalue looks at an element.
Looking == index \in Indices /\ ii =< Len(elements)

NextChoice ==
  /\ index' = index + 1
  /\ ii' = 1
  /\ UNCHANGED <<area_list, delay_list>>

\* Mutant: of equal choices the first is kept.
AddIndexNot ==
  /\ Looking
  /\ dominates(elements[ii], Value(index))
  /\ equal(elements[ii], Value(index))
  /\ UNCHANGED elements
  /\ NextChoice

\* The value is there already: one more index.
AddIndex ==
  /\ Looking
  /\ dominates(elements[ii], Value(index))
  /\ equal(elements[ii], Value(index))
  /\ elements' = [elements EXCEPT ![ii] =
       [value |-> Value(index), indices |-> Append(elements[ii].indices, index)]]
  /\ NextChoice

Reject ==
  /\ Looking
  /\ dominates(elements[ii], Value(index))
  /\ ~equal(elements[ii], Value(index))
  /\ UNCHANGED elements
  /\ NextChoice

\* Mutant: the element that takes the place is passed over.
EraseSkipping ==
  /\ Looking
  /\ ~dominates(elements[ii], Value(index))
  /\ isdominated(elements[ii], Value(index))
  /\ elements' = RemoveAt(elements, ii)
  /\ ii' = ii + 1
  /\ UNCHANGED <<area_list, delay_list, index>>

\* The next element takes the place of the one that is removed.
Erase ==
  /\ Looking
  /\ ~dominates(elements[ii], Value(index))
  /\ isdominated(elements[ii], Value(index))
  /\ elements' = RemoveAt(elements, ii)
  /\ UNCHANGED <<area_list, delay_list, index, ii>>

Pass ==
  /\ Looking
  /\ ~dominates(elements[ii], Value(index))
  /\ ~isdominated(elements[ii], Value(index))
  /\ ii' = ii + 1
  /\ UNCHANGED <<area_list, delay_list, index, elements>>

\* No element was better.
PushBack ==
  /\ index \in Indices
  /\ ii > Len(elements)
  /\ elements' = Append(elements, [value |-> Value(index), indices |-> <<index>>])
  /\ NextChoice

SelectionNext == AddIndex \/ Reject \/ Erase \/ Pass \/ PushBack

SelectionSpec == SelectionInit /\ [][SelectionNext]_selection_vars /\ WF_selection_vars(SelectionNext)

\* get_pareto_optimal_indices, as a set.
pareto_indices == UNION {Range(elements[k].indices) : k \in 1 .. Len(elements)}

-----------------------------------------------------------------------------
(***************************************************************************)
(* Properties                                                              *)
(***************************************************************************)

Elements == [value : Int \X Int, indices : Seq(Nat)]

\* Every variable has its type.
SelectionTypeOK ==
  /\ area_list \in Seq(Amounts)
  /\ delay_list \in Seq(Amounts)
  /\ Len(delay_list) = Len(area_list)
  /\ index \in 1 .. Len(area_list) + 1
  /\ elements \in Seq(Elements)
  /\ ii \in 1 .. Len(elements) + 1
  /\ \A k \in 1 .. Len(elements) :
       \A p \in 1 .. Len(elements[k].indices) : elements[k].indices[p] \in Indices

\* No element is at least as good as another one, in the middle of addvalue
\* neither: what it removes is never needed again.
Antichain ==
  \A j, k \in 1 .. Len(elements) :
    j # k => ~dominates(elements[j], elements[k].value)

\* Choice j beats choice k: nowhere worse, somewhere better.
Beats(j, k) ==
  /\ area_list[j] =< area_list[k]
  /\ delay_list[j] =< delay_list[k]
  /\ area_list[j] < area_list[k] \/ delay_list[j] < delay_list[k]

\* The choices that are kept are those that no other choice beats, all of
\* them, equal ones included.
ParetoOptimal ==
  index > Len(area_list) =>
    pareto_indices = {k \in Indices : \A j \in Indices : ~Beats(j, k)}

=============================================================================
