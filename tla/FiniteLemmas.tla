----------------------------- MODULE FiniteLemmas -----------------------------
(***************************************************************************)
(* Least and greatest elements of sets of natural numbers, sums over       *)
(* finite sets, and folds over sequences.  An argument by induction takes  *)
(* the least counterexample here, since the provers cannot instantiate the *)
(* induction theorems of the library.                                      *)
(***************************************************************************)
EXTENDS Integers, FiniteSetsExt, FiniteSetTheorems, WellFoundedInduction,
        NaturalsInduction, TLAPS

\* A non-empty set of natural numbers has a least element, which Min names.
LEMMA LeastOfNats ==
  ASSUME NEW S \in SUBSET Nat, S # {}
  PROVE  Min(S) \in S /\ \A y \in S : Min(S) =< y
<1> DEFINE R == {ss \in Nat \X Nat : ss[1] < ss[2]}
<1>1. IsWellFoundedOn(R, Nat)
  BY NatLessThanWellFounded DEF OpToRel
<1>2. PICK m \in S : \A y \in S : <<y, m>> \notin R
  <2>. HIDE DEF R
  <2>. QED  BY <1>1, WFMin
<1>3. ASSUME NEW y \in S
      PROVE  m =< y
  <2>1. y < m => <<y, m>> \in R
    OBVIOUS
  <2>. QED  BY <1>2, <2>1
<1>. QED  BY <1>3 DEF Min

\* A non-empty set of natural numbers below a bound has a greatest element.
LEMMA GreatestOfNats ==
  ASSUME NEW S \in SUBSET Nat, S # {}, NEW b \in Nat, \A y \in S : y =< b
  PROVE  \E m \in S : \A y \in S : y =< m
<1> DEFINE T == {k \in Nat : \E y \in S : k = b - y}
<1>1. \A y \in S : b - y \in T
  OBVIOUS
<1>2. T # {}
  BY <1>1
<1>3. PICK y \in S : Min(T) = b - y
  <2>1. Min(T) \in T
    <3>. HIDE DEF T
    <3>. QED  BY <1>2, LeastOfNats DEF T
  <2>. QED  BY <2>1
<1>4. \A k \in T : b - y =< k
  <2>. HIDE DEF T
  <2>. QED  BY <1>2, <1>3, LeastOfNats DEF T
<1>5. \A z \in S : b - y =< b - z
  BY <1>1, <1>4
<1>. QED  BY <1>5

\* What zero has and every successor inherits, all natural numbers have.
LEMMA InductionOnNat ==
  ASSUME NEW G \in SUBSET Nat, 0 \in G, \A n \in G : n + 1 \in G
  PROVE  G = Nat
<1>1. SUFFICES ASSUME Nat \ G # {} PROVE FALSE
  OBVIOUS
<1> DEFINE m == Min(Nat \ G)
<1>2. m \in Nat \ G /\ \A y \in Nat \ G : m =< y
  BY <1>1, LeastOfNats
<1>3. m # 0 /\ m - 1 \in Nat
  BY <1>2
<1>4. m - 1 \in G
  BY <1>2, <1>3
<1>5. (m - 1) + 1 = m
  BY <1>2
<1>. QED  BY <1>2, <1>4, <1>5

\* Induction over the subsets of a finite set: when some of them are bad, and
\* the empty set is not, one is bad that is good again without any element.
LEMMA SmallestBadSet ==
  ASSUME NEW S, IsFiniteSet(S), NEW B \in SUBSET (SUBSET S), B # {}, {} \notin B
  PROVE  \E U \in B : /\ U # {} /\ IsFiniteSet(U)
                      /\ \A x \in U : U \ {x} \notin B
<1> DEFINE N == {Cardinality(U) : U \in B}
<1>1. \A U \in B : IsFiniteSet(U) /\ Cardinality(U) \in Nat
  BY FS_Subset, FS_CardinalityType
<1>2. N \in SUBSET Nat /\ N # {}
  BY <1>1
<1>3. Min(N) \in N /\ \A y \in N : Min(N) =< y
  <2>. HIDE DEF N
  <2>. QED  BY <1>2, LeastOfNats
<1>4. PICK U \in B : \A V \in B : Cardinality(U) =< Cardinality(V)
  BY <1>3
<1>5. ASSUME NEW x \in U
      PROVE  U \ {x} \notin B
  <2>1. Cardinality(U \ {x}) = Cardinality(U) - 1
    BY <1>1, FS_RemoveElement
  <2>. QED  BY <1>1, <1>4, <2>1
<1>. QED  BY <1>1, <1>5

-----------------------------------------------------------------------------
(***************************************************************************)
(* Sums.  SumFunctionOnSet is defined by a recursion over the subsets of   *)
(* the set, which takes away one chosen element after the other.           *)
(***************************************************************************)
Chosen(s) == CHOOSE x \in s : TRUE

\* h follows the recursion on the sets in D.
SumsUp(f, D, h) ==
  h = [s \in D |-> IF s = {} THEN 0 ELSE f[Chosen(s)] + h[s \ {Chosen(s)}]]

SumsUpTo(f, S, h) == SumsUp(f, SUBSET S, h)

\* The element the recursion takes away.
LEMMA ChosenElement ==
  ASSUME NEW S, S # {}, IsFiniteSet(S)
  PROVE  /\ Chosen(S) \in S
         /\ IsFiniteSet(S \ {Chosen(S)})
         /\ Cardinality(S) \in Nat
         /\ Cardinality(S \ {Chosen(S)}) = Cardinality(S) - 1
BY FS_RemoveElement, FS_CardinalityType DEF Chosen

\* There is such a function on all subsets of a finite set.
LEMMA SumsUpExists ==
  ASSUME NEW f, NEW S, IsFiniteSet(S)
  PROVE  \E h : SumsUpTo(f, S, h)
<1> DEFINE D(n) == {s \in SUBSET S : Cardinality(s) =< n}
           G == {n \in Nat : \E h : SumsUp(f, D(n), h)}
<1>1. 0 \in G
  <2> DEFINE h == [s \in D(0) |-> 0]
  <2>1. \A s \in D(0) : s = {}
    BY FS_EmptySet, FS_Subset, FS_CardinalityType
  <2>2. SumsUp(f, D(0), h)
    BY <2>1 DEF SumsUp
  <2>. QED  BY <2>2
<1>2. ASSUME NEW n \in G
      PROVE  n + 1 \in G
  <2>1. PICK g : SumsUp(f, D(n), g)
    OBVIOUS
  <2> DEFINE h == [s \in D(n + 1) |->
                     IF s = {} THEN 0 ELSE f[Chosen(s)] + g[s \ {Chosen(s)}]]
  <2>2. D(n) \subseteq D(n + 1)
    BY FS_Subset, FS_CardinalityType
  <2>3. ASSUME NEW s \in D(n)
        PROVE  h[s] = g[s]
    BY <2>1, <2>2 DEF SumsUp
  <2>4. ASSUME NEW s \in D(n + 1), s # {}
        PROVE  s \ {Chosen(s)} \in D(n)
    BY <2>4, ChosenElement, FS_Subset
  <2>5. SumsUp(f, D(n + 1), h)
    BY <2>3, <2>4 DEF SumsUp
  <2>. QED  BY <2>5
<1>3. G = Nat
  <2>. HIDE DEF G
  <2>1. G \in SUBSET Nat
    BY DEF G
  <2>. QED  BY <1>1, <1>2, <2>1, InductionOnNat
<1>4. Cardinality(S) \in Nat /\ D(Cardinality(S)) = SUBSET S
  BY FS_Subset, FS_CardinalityType
<1>. QED  BY <1>3, <1>4 DEF SumsUpTo

\* What it says about a set does not depend on the set it is defined for.
LEMMA SumsUpUnique ==
  ASSUME NEW f, NEW S, IsFiniteSet(S), NEW T \in SUBSET S,
         NEW g, SumsUpTo(f, S, g), NEW h, SumsUpTo(f, T, h)
  PROVE  g[T] = h[T]
<1> DEFINE B == {U \in SUBSET T : g[U] # h[U]}
<1>1. SUFFICES ASSUME B # {} PROVE FALSE
  OBVIOUS
<1>2. PICK U \in B : U # {} /\ IsFiniteSet(U) /\ \A x \in U : U \ {x} \notin B
  <2>1. B \in SUBSET (SUBSET T) /\ {} \notin B /\ IsFiniteSet(T)
    BY FS_Subset DEF SumsUpTo, SumsUp
  <2>. HIDE DEF B
  <2>. QED  BY <1>1, <2>1, SmallestBadSet
<1>3. Chosen(U) \in U /\ U \ {Chosen(U)} \in SUBSET T
  BY <1>2, ChosenElement
<1>4. U \ {Chosen(U)} \notin B
  BY <1>2, <1>3
<1>. QED  BY <1>2, <1>3, <1>4 DEF SumsUpTo, SumsUp

\* The community module's sum is such a function, on its set.
LEMMA SumIsSumsUp ==
  ASSUME NEW f, NEW S, IsFiniteSet(S)
  PROVE  \E h : SumsUpTo(f, S, h) /\ SumFunctionOnSet(f, S) = h[S]
<1> DEFINE iter == CHOOSE h : SumsUp(f, SUBSET S, h)
<1>1. SumsUpTo(f, S, iter)
  BY SumsUpExists DEF SumsUpTo
<1>2. SumFunctionOnSet(f, S) = iter[S]
  BY DEF SumFunctionOnSet, FoldFunctionOnSet, MapThenFoldSet, SumsUp, Chosen
<1>. QED  BY <1>1, <1>2

\* The sum over the empty set.
LEMMA SumEmpty ==
  ASSUME NEW f
  PROVE  SumFunctionOnSet(f, {}) = 0
<1>1. PICK h : SumsUpTo(f, {}, h) /\ SumFunctionOnSet(f, {}) = h[{}]
  BY SumIsSumsUp, FS_EmptySet
<1>. QED  BY <1>1 DEF SumsUpTo, SumsUp

\* The sum over a set is the chosen value and the sum over the rest.
LEMMA SumStep ==
  ASSUME NEW f, NEW S, IsFiniteSet(S), S # {}
  PROVE  SumFunctionOnSet(f, S) = f[Chosen(S)] + SumFunctionOnSet(f, S \ {Chosen(S)})
<1>0. PICK T : T = S \ {Chosen(S)}
  OBVIOUS
<1>1. PICK g : SumsUpTo(f, S, g) /\ SumFunctionOnSet(f, S) = g[S]
  BY SumIsSumsUp
<1>2. IsFiniteSet(T) /\ T \in SUBSET S
  BY <1>0, ChosenElement
<1>3. PICK h : SumsUpTo(f, T, h) /\ SumFunctionOnSet(f, T) = h[T]
  BY <1>2, SumIsSumsUp
<1>4. g[T] = h[T]
  BY <1>1, <1>2, <1>3, SumsUpUnique
<1>5. g[S] = f[Chosen(S)] + g[T]
  BY <1>0, <1>1 DEF SumsUpTo, SumsUp
<1>. QED  BY <1>0, <1>1, <1>3, <1>4, <1>5

\* A sum of integers is an integer, and of natural numbers a natural number.
LEMMA SumType ==
  ASSUME NEW f, NEW S, IsFiniteSet(S), \A x \in S : f[x] \in Int
  PROVE  /\ SumFunctionOnSet(f, S) \in Int
         /\ (\A x \in S : f[x] >= 0) => SumFunctionOnSet(f, S) >= 0
<1> DEFINE Good(s) == /\ SumFunctionOnSet(f, s) \in Int
                      /\ (\A x \in s : f[x] >= 0) => SumFunctionOnSet(f, s) >= 0
           B == {U \in SUBSET S : ~Good(U)}
<1>1. SUFFICES ASSUME B # {} PROVE FALSE
  OBVIOUS
<1>2. PICK U \in B : U # {} /\ IsFiniteSet(U) /\ \A x \in U : U \ {x} \notin B
  <2>1. B \in SUBSET (SUBSET S) /\ {} \notin B
    BY SumEmpty
  <2>. HIDE DEF B
  <2>. QED  BY <1>1, <2>1, SmallestBadSet
<1>3. Chosen(U) \in U /\ U \ {Chosen(U)} \in SUBSET S
  BY <1>2, ChosenElement
<1>4. U \ {Chosen(U)} \notin B
  BY <1>2, <1>3
<1>5. SumFunctionOnSet(f, U) = f[Chosen(U)] + SumFunctionOnSet(f, U \ {Chosen(U)})
  BY <1>2, SumStep
<1>. QED  BY <1>3, <1>4, <1>5

\* A sum only depends on the values on its set.
LEMMA SumSame ==
  ASSUME NEW f, NEW g, NEW S, IsFiniteSet(S), \A x \in S : f[x] = g[x]
  PROVE  SumFunctionOnSet(f, S) = SumFunctionOnSet(g, S)
<1> DEFINE B == {U \in SUBSET S : SumFunctionOnSet(f, U) # SumFunctionOnSet(g, U)}
<1>1. SUFFICES ASSUME B # {} PROVE FALSE
  OBVIOUS
<1>2. PICK U \in B : U # {} /\ IsFiniteSet(U) /\ \A x \in U : U \ {x} \notin B
  <2>1. B \in SUBSET (SUBSET S) /\ {} \notin B
    BY SumEmpty
  <2>. HIDE DEF B
  <2>. QED  BY <1>1, <2>1, SmallestBadSet
<1>3. Chosen(U) \in U /\ U \ {Chosen(U)} \in SUBSET S
  BY <1>2, ChosenElement
<1>4. U \ {Chosen(U)} \notin B
  BY <1>2, <1>3
<1>5. SumFunctionOnSet(f, U) = f[Chosen(U)] + SumFunctionOnSet(f, U \ {Chosen(U)})
  BY <1>2, SumStep
<1>6. SumFunctionOnSet(g, U) = g[Chosen(U)] + SumFunctionOnSet(g, U \ {Chosen(U)})
  BY <1>2, SumStep
<1>. QED  BY <1>3, <1>4, <1>5, <1>6

\* A new element adds its value, whichever element the recursion takes first.
LEMMA SumAdd ==
  ASSUME NEW f, NEW S, IsFiniteSet(S), \A x \in S : f[x] \in Int,
         NEW e, e \notin S, f[e] \in Int
  PROVE  SumFunctionOnSet(f, S \cup {e}) = SumFunctionOnSet(f, S) + f[e]
<1> DEFINE Sum(s) == SumFunctionOnSet(f, s)
           B == {U \in SUBSET S : \E z \in (S \cup {e}) \ U : Sum(U \cup {z}) # Sum(U) + f[z]}
<1>1. SUFFICES ASSUME B # {} PROVE FALSE
  OBVIOUS
<1>2. PICK U \in B : U # {} /\ IsFiniteSet(U) /\ \A x \in U : U \ {x} \notin B
  <2>1. \A z \in S \cup {e} : Sum({z}) = f[z]
    <3> TAKE z \in S \cup {e}
    <3>1. Chosen({z}) = z /\ {z} \ {z} = {} /\ IsFiniteSet({z})
      BY FS_Singleton DEF Chosen
    <3>2. Sum({z}) = f[z] + Sum({})
      BY <3>1, SumStep
    <3>. QED  BY <3>2, SumEmpty
  <2>2. {} \notin B
    <3>1. \A z \in S \cup {e} : {} \cup {z} = {z} /\ Sum({}) + f[z] = f[z]
      BY SumEmpty
    <3>. QED  BY <2>1, <3>1
  <2>3. B \in SUBSET (SUBSET S)
    OBVIOUS
  <2>. HIDE DEF B
  <2>. QED  BY <1>1, <2>2, <2>3, SmallestBadSet
<1>3. PICK z \in (S \cup {e}) \ U : Sum(U \cup {z}) # Sum(U) + f[z]
  OBVIOUS
<1> DEFINE y == Chosen(U \cup {z})
<1>4. IsFiniteSet(U) /\ IsFiniteSet(U \cup {z}) /\ U \cup {z} # {}
  BY <1>2, FS_AddElement
<1>5. /\ y \in U \cup {z}
      /\ Sum(U \cup {z}) = f[y] + Sum((U \cup {z}) \ {y})
  BY <1>4, ChosenElement, SumStep
<1>6. f[z] \in Int /\ f[y] \in Int /\ Sum(U) \in Int
  BY <1>4, <1>5, SumType
<1>7. y # z /\ y \in U
  <2>1. ASSUME y = z
        PROVE  FALSE
    <3>1. (U \cup {z}) \ {y} = U
      BY <2>1
    <3>2. Sum(U \cup {z}) = f[z] + Sum(U)
      BY <1>5, <2>1, <3>1
    <3>. QED  BY <1>3, <1>6, <3>2
  <2>. QED  BY <1>5, <2>1
<1> DEFINE W == U \ {y}
<1>8. IsFiniteSet(W) /\ W \in SUBSET S /\ Sum(W) \in Int
  <2>1. IsFiniteSet(W) /\ W \in SUBSET S
    BY <1>4, FS_RemoveElement
  <2>. QED  BY <2>1, SumType
<1>9. W \notin B
  BY <1>2, <1>7
<1>10. Sum(W \cup {z}) = Sum(W) + f[z] /\ Sum(W \cup {y}) = Sum(W) + f[y]
  <2>1. z \in (S \cup {e}) \ W /\ y \in (S \cup {e}) \ W
    BY <1>3, <1>7
  <2>2. \A v \in (S \cup {e}) \ W : Sum(W \cup {v}) = Sum(W) + f[v]
    BY <1>8, <1>9
  <2>. QED  BY <2>1, <2>2
<1>11. W \cup {y} = U /\ (U \cup {z}) \ {y} = W \cup {z}
  BY <1>3, <1>7
<1>. HIDE DEF B, W, y
<1>12. Sum(U \cup {z}) = f[y] + (Sum(W) + f[z])
  BY <1>5, <1>10, <1>11
<1>13. Sum(U) = Sum(W) + f[y]
  BY <1>10, <1>11
<1>. QED  BY <1>3, <1>6, <1>8, <1>12, <1>13

\* Taking an element away takes its value away.
LEMMA SumRemove ==
  ASSUME NEW f, NEW S, IsFiniteSet(S), \A x \in S : f[x] \in Int, NEW e \in S
  PROVE  SumFunctionOnSet(f, S \ {e}) = SumFunctionOnSet(f, S) - f[e]
<1>1. IsFiniteSet(S \ {e}) /\ (S \ {e}) \cup {e} = S
  BY FS_RemoveElement
<1>2. SumFunctionOnSet(f, S \ {e}) \in Int
  BY <1>1, SumType
<1>3. SumFunctionOnSet(f, S) = SumFunctionOnSet(f, S \ {e}) + f[e]
  BY <1>1, SumAdd
<1>4. f[e] \in Int
  OBVIOUS
<1>. QED  BY <1>2, <1>3, <1>4

\* The sum over two disjoint sets is the sum of their sums.
LEMMA SumUnion ==
  ASSUME NEW f, NEW S, IsFiniteSet(S), NEW T, IsFiniteSet(T), S \cap T = {},
         \A x \in S \cup T : f[x] \in Int
  PROVE  SumFunctionOnSet(f, S \cup T) = SumFunctionOnSet(f, S) + SumFunctionOnSet(f, T)
<1> DEFINE Sum(s) == SumFunctionOnSet(f, s)
           B == {U \in SUBSET T : Sum(S \cup U) # Sum(S) + Sum(U)}
<1>1. SUFFICES ASSUME B # {} PROVE FALSE
  OBVIOUS
<1>2. PICK U \in B : U # {} /\ IsFiniteSet(U) /\ \A x \in U : U \ {x} \notin B
  <2>1. {} \notin B
    <3>1. Sum(S) \in Int /\ S \cup {} = S
      BY SumType
    <3>. QED  BY <3>1, SumEmpty
  <2>2. B \in SUBSET (SUBSET T)
    OBVIOUS
  <2>. HIDE DEF B
  <2>. QED  BY <1>1, <2>1, <2>2, SmallestBadSet
<1>3. PICK x : x \in U
  BY <1>2
<1>4. PICK W : W = U \ {x}
  OBVIOUS
<1>5. PICK R : R = S \cup W
  OBVIOUS
<1>6. /\ IsFiniteSet(W) /\ W \in SUBSET T /\ x \notin W /\ W \cup {x} = U
      /\ IsFiniteSet(R) /\ x \notin R /\ R \cup {x} = S \cup U
      /\ f[x] \in Int /\ \A y \in R : f[y] \in Int
  <2>1. IsFiniteSet(W)
    BY <1>2, <1>4, FS_Subset
  <2>. QED  BY <1>3, <1>4, <1>5, <2>1, FS_Union
<1>7. Sum(R) = Sum(S) + Sum(W)
  BY <1>2, <1>3, <1>4, <1>5, <1>6
<1>8. Sum(R \cup {x}) = Sum(R) + f[x] /\ Sum(W \cup {x}) = Sum(W) + f[x]
  BY <1>6, SumAdd
<1>9. Sum(S) \in Int /\ Sum(W) \in Int
  BY <1>6, SumType
<1>10. Sum(S \cup U) # Sum(S) + Sum(U)
  OBVIOUS
<1>. HIDE DEF B, Sum
<1>11. Sum(S \cup U) = Sum(R) + f[x] /\ Sum(U) = Sum(W) + f[x]
  BY <1>6, <1>8
<1>. QED  BY <1>6, <1>7, <1>9, <1>10, <1>11

\* A sum of natural numbers grows with its set.
LEMMA SumGrows ==
  ASSUME NEW f, NEW S, IsFiniteSet(S), NEW T \in SUBSET S,
         \A x \in S : f[x] \in Int /\ f[x] >= 0
  PROVE  SumFunctionOnSet(f, T) =< SumFunctionOnSet(f, S)
<1>1. PICK R : R = S \ T
  OBVIOUS
<1>2. IsFiniteSet(T) /\ IsFiniteSet(R) /\ T \cup R = S /\ T \cap R = {}
  BY <1>1, FS_Subset
<1>3. SumFunctionOnSet(f, T \cup R) = SumFunctionOnSet(f, T) + SumFunctionOnSet(f, R)
  BY <1>2, SumUnion
<1>4. /\ SumFunctionOnSet(f, T) \in Int
      /\ SumFunctionOnSet(f, R) \in Int /\ SumFunctionOnSet(f, R) >= 0
  BY <1>1, <1>2, SumType
<1>5. SumFunctionOnSet(f, S) = SumFunctionOnSet(f, T) + SumFunctionOnSet(f, R)
  BY <1>2, <1>3
<1>6. SumFunctionOnSet(f, T) \in Int /\ SumFunctionOnSet(f, R) \in Int
  BY <1>4
<1>. QED  BY <1>4, <1>5, <1>6

\* Sums are linear.
LEMMA SumLinear ==
  ASSUME NEW f, NEW g, NEW h, NEW a \in Int, NEW S, IsFiniteSet(S),
         \A x \in S : f[x] \in Int /\ g[x] \in Int /\ h[x] = f[x] + a * g[x]
  PROVE  SumFunctionOnSet(h, S) = SumFunctionOnSet(f, S) + a * SumFunctionOnSet(g, S)
<1> DEFINE Good(s) == SumFunctionOnSet(h, s) = SumFunctionOnSet(f, s) + a * SumFunctionOnSet(g, s)
           B == {U \in SUBSET S : ~Good(U)}
<1>1. SUFFICES ASSUME B # {} PROVE FALSE
  OBVIOUS
<1>2. PICK U \in B : U # {} /\ IsFiniteSet(U) /\ \A x \in U : U \ {x} \notin B
  <2>1. {} \notin B
    BY SumEmpty
  <2>2. B \in SUBSET (SUBSET S)
    OBVIOUS
  <2>. HIDE DEF B
  <2>. QED  BY <1>1, <2>1, <2>2, SmallestBadSet
<1>3. PICK x : x = Chosen(U) /\ x \in U
  BY <1>2, ChosenElement
<1>4. PICK W : W = U \ {x}
  OBVIOUS
<1>5. IsFiniteSet(W) /\ W \in SUBSET S /\ W \notin B
  BY <1>2, <1>3, <1>4, FS_Subset
<1>6. /\ SumFunctionOnSet(f, U) = f[x] + SumFunctionOnSet(f, W)
      /\ SumFunctionOnSet(g, U) = g[x] + SumFunctionOnSet(g, W)
      /\ SumFunctionOnSet(h, U) = h[x] + SumFunctionOnSet(h, W)
  BY <1>2, <1>3, <1>4, SumStep
<1>7. /\ SumFunctionOnSet(f, W) \in Int /\ SumFunctionOnSet(g, W) \in Int
      /\ f[x] \in Int /\ g[x] \in Int /\ h[x] = f[x] + a * g[x]
  BY <1>3, <1>5, SumType
<1>8. PICK F, H, v, w : /\ F = SumFunctionOnSet(f, W) /\ H = SumFunctionOnSet(g, W)
                       /\ v = f[x] /\ w = g[x]
  OBVIOUS
<1>9. Good(W) /\ ~Good(U)
  BY <1>5
<1>10. a * (w + H) = a * w + a * H /\ a * w \in Int /\ a * H \in Int
  BY <1>7, <1>8
<1>. HIDE DEF B
<1>. QED  BY <1>6, <1>7, <1>8, <1>9, <1>10

-----------------------------------------------------------------------------
(***************************************************************************)
(* Folds.  MapThenFoldSet takes one element after the other as well; the   *)
(* folds over sequences take the least or the greatest index first.        *)
(***************************************************************************)

\* it follows the recursion on the sets in D: op combines the element that
\* pick takes from a set with the value of the rest of it.
Follows(it, D, b, op, pick) ==
  it = [s \in D |-> IF s = {} THEN b ELSE op[<<pick[s], it[s \ {pick[s]}]>>]]

\* There is such a function on all subsets of a finite set.
LEMMA RecursionExists ==
  ASSUME NEW S, IsFiniteSet(S), NEW V, NEW b \in V, NEW op \in [S \X V -> V],
         NEW pick, \A s \in SUBSET S : s # {} => pick[s] \in s
  PROVE  \E it \in [SUBSET S -> V] : Follows(it, SUBSET S, b, op, pick)
<1> DEFINE D(n) == {s \in SUBSET S : Cardinality(s) =< n}
           G == {n \in Nat : \E h \in [D(n) -> V] : Follows(h, D(n), b, op, pick)}
<1>1. 0 \in G
  <2> DEFINE h == [s \in D(0) |-> b]
  <2>1. \A s \in D(0) : s = {}
    BY FS_EmptySet, FS_Subset, FS_CardinalityType
  <2>2. Follows(h, D(0), b, op, pick)
    BY <2>1 DEF Follows
  <2>. QED  BY <2>2
<1>2. ASSUME NEW n \in G
      PROVE  n + 1 \in G
  <2>1. PICK g \in [D(n) -> V] : Follows(g, D(n), b, op, pick)
    OBVIOUS
  <2> DEFINE h == [s \in D(n + 1) |->
                     IF s = {} THEN b ELSE op[<<pick[s], g[s \ {pick[s]}]>>]]
  <2>2. D(n) \subseteq D(n + 1)
    BY FS_Subset, FS_CardinalityType
  <2>3. ASSUME NEW s \in D(n)
        PROVE  h[s] = g[s]
    BY <2>1, <2>2 DEF Follows
  <2>4. ASSUME NEW s \in D(n + 1), s # {}
        PROVE  s \ {pick[s]} \in D(n)
    <3>1. PICK x \in s : x = pick[s]
      BY <2>4
    <3>2. IsFiniteSet(s) /\ Cardinality(s) \in Nat /\ Cardinality(s) =< n + 1
      BY FS_Subset, FS_CardinalityType
    <3>3. Cardinality(s \ {x}) = Cardinality(s) - 1
      BY <3>2, FS_RemoveElement
    <3>. QED  BY <3>1, <3>2, <3>3
  <2>5. Follows(h, D(n + 1), b, op, pick)
    BY <2>3, <2>4 DEF Follows
  <2>6. h \in [D(n + 1) -> V]
    <3>1. \A s \in D(n + 1) : s # {} => pick[s] \in S /\ g[s \ {pick[s]}] \in V
      BY <2>1, <2>4
    <3>. QED  BY <3>1
  <2>7. n + 1 \in Nat
    OBVIOUS
  <2>. HIDE DEF h, D
  <2>. QED  BY <2>5, <2>6, <2>7
<1>3. G = Nat
  <2>. HIDE DEF G
  <2>1. G \in SUBSET Nat
    BY DEF G
  <2>. QED  BY <1>1, <1>2, <2>1, InductionOnNat
<1>4. Cardinality(S) \in Nat /\ D(Cardinality(S)) = SUBSET S
  BY FS_Subset, FS_CardinalityType
<1>5. \E h \in [D(Cardinality(S)) -> V] : Follows(h, D(Cardinality(S)), b, op, pick)
  <2>. HIDE DEF D
  <2>. QED  BY <1>3, <1>4
<1>6. PICK T : T = SUBSET S
  OBVIOUS
<1>7. PICK h \in [T -> V] : Follows(h, T, b, op, pick)
  <2>1. D(Cardinality(S)) = T
    BY <1>4, <1>6
  <2>. HIDE DEF D
  <2>. QED  BY <1>5, <2>1
<1>. QED  BY <1>6, <1>7 DEF Follows

\* it is the recursion of FoldRight over n elements, with values in V.
RightFold(it, n, V, b, op) ==
  /\ it \in [SUBSET (1 .. n) -> V]
  /\ it = [s \in SUBSET (1 .. n) |->
            IF s = {} THEN b ELSE op[<<Min(s), it[s \ {Min(s)}]>>]]

\* it is the recursion of FoldLeft over n elements, with values in V.
LeftFold(it, n, V, b, op) ==
  /\ it \in [SUBSET (1 .. n) -> V]
  /\ it = [s \in SUBSET (1 .. n) |->
            IF s = {} THEN b ELSE op[<<Max(s), it[s \ {Max(s)}]>>]]

\* The recursion of FoldRight over n elements, with op for the operator.
LEMMA RightFoldExists ==
  ASSUME NEW n \in Nat, NEW V, NEW b \in V, NEW op \in [(1 .. n) \X V -> V]
  PROVE  \E it : RightFold(it, n, V, b, op)
<1>1. PICK D : D = 1 .. n
  OBVIOUS
<1> DEFINE pick == [s \in SUBSET D |-> Min(s)]
<1>2. \A s \in SUBSET D : s # {} => pick[s] \in s
  BY <1>1, LeastOfNats
<1>3. IsFiniteSet(D)
  BY <1>1, FS_Interval
<1>4. PICK it \in [SUBSET D -> V] : Follows(it, SUBSET D, b, op, pick)
  <2>. HIDE DEF pick
  <2>. QED  BY <1>1, <1>2, <1>3, RecursionExists
<1>5. it = [s \in SUBSET D |-> IF s = {} THEN b ELSE op[<<Min(s), it[s \ {Min(s)}]>>]]
  <2>1. it = [s \in SUBSET D |-> IF s = {} THEN b ELSE op[<<pick[s], it[s \ {pick[s]}]>>]]
    <3>. HIDE DEF pick
    <3>. QED  BY <1>4 DEF Follows
  <2>. QED  BY <2>1
<1>6. RightFold(it, n, V, b, op)
  <2>. HIDE DEF pick
  <2>. QED  BY <1>1, <1>4, <1>5 DEF RightFold
<1>. QED  BY <1>6

\* The recursion of FoldLeft over n elements, with op for the operator.
LEMMA LeftFoldExists ==
  ASSUME NEW n \in Nat, NEW V, NEW b \in V, NEW op \in [(1 .. n) \X V -> V]
  PROVE  \E it : LeftFold(it, n, V, b, op)
<1>1. PICK D : D = 1 .. n
  OBVIOUS
<1> DEFINE pick == [s \in SUBSET D |-> Max(s)]
<1>2. \A s \in SUBSET D : s # {} => pick[s] \in s
  <2> TAKE s \in SUBSET D
  <2> HAVE s # {}
  <2>1. s \in SUBSET Nat /\ \A y \in s : y =< n
    BY <1>1
  <2>2. PICK m \in s : \A y \in s : y =< m
    BY <2>1, GreatestOfNats
  <2>3. \A y \in s : m >= y
    BY <2>1, <2>2
  <2>. QED  BY <2>3 DEF Max
<1>3. IsFiniteSet(D)
  BY <1>1, FS_Interval
<1>4. PICK it \in [SUBSET D -> V] : Follows(it, SUBSET D, b, op, pick)
  <2>. HIDE DEF pick
  <2>. QED  BY <1>1, <1>2, <1>3, RecursionExists
<1>5. it = [s \in SUBSET D |-> IF s = {} THEN b ELSE op[<<Max(s), it[s \ {Max(s)}]>>]]
  <2>1. it = [s \in SUBSET D |-> IF s = {} THEN b ELSE op[<<pick[s], it[s \ {pick[s]}]>>]]
    <3>. HIDE DEF pick
    <3>. QED  BY <1>4 DEF Follows
  <2>. QED  BY <2>1
<1>6. LeftFold(it, n, V, b, op)
  <2>. HIDE DEF pick
  <2>. QED  BY <1>1, <1>4, <1>5 DEF LeftFold
<1>. QED  BY <1>6

\* The least element of an interval, and what is left without it.
LEMMA LeastOfInterval ==
  ASSUME NEW i \in Nat, NEW n \in Nat, i =< n
  PROVE  Min(i .. n) = i /\ (i .. n) \ {i} = i + 1 .. n
<1>1. Min(i .. n) = i
  BY DEF Min
<1>. QED  BY <1>1

\* The greatest element of an interval, and what is left without it.
LEMMA GreatestOfInterval ==
  ASSUME NEW i \in Nat, NEW n \in Nat, i =< n
  PROVE  Max(i .. n) = n /\ (i .. n) \ {n} = i .. n - 1
<1>1. Max(i .. n) = n
  BY DEF Max
<1>. QED  BY <1>1

\* Induction from the right end of a sequence to its first element.
LEMMA InductionFromRight ==
  ASSUME NEW n \in Nat, NEW G, n + 1 \in G, \A i \in 1 .. n : i + 1 \in G => i \in G
  PROVE  1 \in G
<1> DEFINE D == {k \in Nat : k =< n => n + 1 - k \in G}
<1>1. 0 \in D
  OBVIOUS
<1>2. ASSUME NEW k \in D
      PROVE  k + 1 \in D
  <2>1. SUFFICES ASSUME k + 1 =< n
                 PROVE  n + 1 - (k + 1) \in G
    OBVIOUS
  <2>2. k \in Nat /\ n + 1 - k \in G
    BY <2>1
  <2>3. n - k \in 1 .. n /\ (n - k) + 1 = n + 1 - k /\ n + 1 - (k + 1) = n - k
    BY <2>1, <2>2
  <2>. QED  BY <2>2, <2>3
<1>3. D = Nat
  <2>1. D \in SUBSET Nat
    OBVIOUS
  <2>. HIDE DEF D
  <2>. QED  BY <1>1, <1>2, <2>1, InductionOnNat
<1>4. n \in D
  <2>. HIDE DEF D
  <2>. QED  BY <1>3
<1>. QED  BY <1>4

-----------------------------------------------------------------------------
(***************************************************************************)
(* Sums of scaled and of greater values, and over a union of sets.         *)
(***************************************************************************)
\* A common factor of all values is a factor of their sum.
LEMMA SumScale ==
  ASSUME NEW g, NEW h, NEW a \in Int, NEW S, IsFiniteSet(S),
         \A x \in S : g[x] \in Int /\ h[x] = a * g[x]
  PROVE  SumFunctionOnSet(h, S) = a * SumFunctionOnSet(g, S)
<1>1. PICK b : b = a - 1
  OBVIOUS
<1>2. b \in Int /\ b + 1 = a
  BY <1>1
<1>3. ASSUME NEW x \in S
      PROVE  g[x] \in Int /\ h[x] = g[x] + b * g[x]
  <2>1. PICK y : y = g[x]
    OBVIOUS
  <2>2. y \in Int /\ h[x] = a * y
    BY <2>1
  <2>3. a * y = y + b * y
    BY <1>2, <2>2
  <2>. QED  BY <2>1, <2>2, <2>3
<1>4. SumFunctionOnSet(h, S) = SumFunctionOnSet(g, S) + b * SumFunctionOnSet(g, S)
  BY <1>2, <1>3, SumLinear
<1>5. PICK y : y = SumFunctionOnSet(g, S)
  OBVIOUS
<1>6. y \in Int
  BY <1>5, SumType
<1>7. y + b * y = a * y
  BY <1>2, <1>6
<1>. QED  BY <1>4, <1>5, <1>7

\* Greater values have a greater sum.
LEMMA SumOrder ==
  ASSUME NEW f, NEW g, NEW S, IsFiniteSet(S),
         \A x \in S : f[x] \in Int /\ g[x] \in Int /\ f[x] <= g[x]
  PROVE  SumFunctionOnSet(f, S) <= SumFunctionOnSet(g, S)
<1>1. PICK h : h = [x \in S |-> g[x] + (-1) * f[x]]
  OBVIOUS
<1>2. \A x \in S : h[x] \in Int /\ h[x] >= 0 /\ h[x] = g[x] + (-1) * f[x]
  BY <1>1
<1>3. SumFunctionOnSet(h, S) = SumFunctionOnSet(g, S) + (-1) * SumFunctionOnSet(f, S)
  BY <1>2, SumLinear
<1>4. SumFunctionOnSet(h, S) >= 0
  BY <1>2, SumType
<1>5. SumFunctionOnSet(f, S) \in Int /\ SumFunctionOnSet(g, S) \in Int
  BY SumType
<1>. QED  BY <1>3, <1>4, <1>5

\* U is the union of the n disjoint sets of t, and b has the sum over each.
Blocks(n, f, t, b, U) ==
  /\ n \in Nat
  /\ \A i \in 1 .. n : IsFiniteSet(t[i]) /\ b[i] = SumFunctionOnSet(f, t[i])
  /\ \A i \in 1 .. n : \A x \in t[i] : f[x] \in Int
  /\ \A i, j \in 1 .. n : i # j => t[i] \cap t[j] = {}
  /\ \A x : x \in U <=> \E i \in 1 .. n : x \in t[i]

\* The sum over a union of disjoint sets is that of the sums over each of them.
LEMMA SumOfBlocks ==
  ASSUME NEW n, NEW f, NEW t, NEW b, NEW U, Blocks(n, f, t, b, U)
  PROVE  SumFunctionOnSet(b, 1 .. n) = SumFunctionOnSet(f, U)
<1>0. /\ n \in Nat
      /\ \A i \in 1 .. n : IsFiniteSet(t[i]) /\ b[i] = SumFunctionOnSet(f, t[i])
      /\ \A i \in 1 .. n : \A x \in t[i] : f[x] \in Int
      /\ \A i, j \in 1 .. n : i # j => t[i] \cap t[j] = {}
      /\ \A x : x \in U <=> \E i \in 1 .. n : x \in t[i]
  BY DEF Blocks
<1> DEFINE All(j) == UNION {t[i] : i \in 1 .. j}
           Good(j) == /\ IsFiniteSet(All(j))
                      /\ SumFunctionOnSet(b, 1 .. j) = SumFunctionOnSet(f, All(j))
           G == {j \in Nat : j <= n => Good(j)}
<1>1. 0 \in G
  <2>1. 1 .. 0 = {} /\ All(0) = {}
    OBVIOUS
  <2>. QED  BY <2>1, SumEmpty, FS_EmptySet
<1>2. ASSUME NEW j \in G
      PROVE  j + 1 \in G
  <2>. SUFFICES ASSUME j + 1 <= n PROVE Good(j + 1)
    OBVIOUS
  <2>1. PICK A, B, T, k : A = All(j) /\ B = 1 .. j /\ k = j + 1 /\ T = t[j + 1]
    OBVIOUS
  <2>2. /\ j \in Nat /\ k \in 1 .. n /\ k \notin B /\ IsFiniteSet(A) /\ IsFiniteSet(T)
        /\ SumFunctionOnSet(b, B) = SumFunctionOnSet(f, A) /\ b[k] = SumFunctionOnSet(f, T)
    BY <1>0, <2>1
  <2>3. \A i \in B : i \in 1 .. n /\ i # k
    BY <1>0, <2>1
  <2>4. 1 .. j + 1 = B \cup {k} /\ IsFiniteSet(B)
    <3>1. IsFiniteSet(1 .. j)
      BY <2>2, FS_Interval
    <3>2. \A i : i \in 1 .. j + 1 <=> i \in 1 .. j \/ i = j + 1
      BY <2>2
    <3>. QED  BY <2>1, <3>1, <3>2
  <2>5. All(j + 1) = A \cup T
    <3>1. \A i : i \in 1 .. j + 1 <=> i \in B \/ i = k
      BY <2>1
    <3>. QED  BY <2>1, <3>1
  <2>6. A \cap T = {}
    <3>1. \A i \in B : t[i] \cap t[k] = {}
      BY <1>0, <2>2, <2>3
    <3>. QED  BY <2>1, <3>1
  <2>7. \A x \in A \cup T : f[x] \in Int
    BY <1>0, <2>1, <2>2, <2>3
  <2>8. \A i \in B \cup {k} : b[i] \in Int
    <3>1. \A i \in 1 .. n : b[i] \in Int
      BY <1>0, SumType
    <3>. QED  BY <2>2, <2>3, <3>1
  <2>9. SumFunctionOnSet(b, B \cup {k}) = SumFunctionOnSet(b, B) + b[k]
    BY <2>2, <2>4, <2>8, SumAdd
  <2>10. SumFunctionOnSet(f, A \cup T) = SumFunctionOnSet(f, A) + SumFunctionOnSet(f, T)
    BY <2>2, <2>6, <2>7, SumUnion
  <2>11. IsFiniteSet(A \cup T)
    BY <2>2, FS_Union
  <2>. QED  BY <2>2, <2>4, <2>5, <2>9, <2>10, <2>11
<1>3. G = Nat
  <2>. HIDE DEF Good
  <2>. QED  BY <1>1, <1>2, InductionOnNat
<1>4. n \in G
  BY <1>0, <1>3
<1>5. U = All(n)
  BY <1>0
<1>. QED  BY <1>0, <1>4, <1>5

-----------------------------------------------------------------------------
(***************************************************************************)
(* Products of squares, which follow a recursion like that of sums.        *)
(***************************************************************************)
SquaresOf(v, S) == FoldSet(LAMBDA i, p : p * v[i] * v[i], 1, S)

\* h follows the recursion on the subsets of S.
Multiplies(v, S, h) ==
  h = [s \in SUBSET S |->
        IF s = {} THEN 1 ELSE h[s \ {Chosen(s)}] * v[Chosen(s)] * v[Chosen(s)]]

\* A product of squares is such a function, on its set.
LEMMA SquaresExist ==
  ASSUME NEW v, NEW S, IsFiniteSet(S), \A x \in S : v[x] \in Int
  PROVE  \E h : Multiplies(v, S, h) /\ SquaresOf(v, S) = h[S]
<1> DEFINE op == [a \in S \X Int |-> a[2] * v[a[1]] * v[a[1]]]
           pick == [s \in SUBSET S |-> Chosen(s)]
           iter == CHOOSE h : Multiplies(v, S, h)
<1>1. op \in [S \X Int -> Int]
  OBVIOUS
<1>2. \A s \in SUBSET S : s # {} => pick[s] \in s
  BY DEF Chosen
<1>3. PICK it \in [SUBSET S -> Int] : Follows(it, SUBSET S, 1, op, pick)
  <2>1. PICK b, V : b = 1 /\ V = Int
    OBVIOUS
  <2>2. b \in V /\ op \in [S \X V -> V]
    BY <1>1, <2>1
  <2>. HIDE DEF op, pick
  <2>3. \E it \in [SUBSET S -> V] : Follows(it, SUBSET S, b, op, pick)
    BY <1>2, <2>2, RecursionExists
  <2>. QED  BY <2>1, <2>3
<1>4. Multiplies(v, S, it)
  <2>1. it = [s \in SUBSET S |-> IF s = {} THEN 1 ELSE op[<<pick[s], it[s \ {pick[s]}]>>]]
    <3>. HIDE DEF op, pick
    <3>. QED  BY <1>3 DEF Follows
  <2>2. ASSUME NEW s \in SUBSET S, s # {}
        PROVE  op[<<pick[s], it[s \ {pick[s]}]>>]
                 = it[s \ {Chosen(s)}] * v[Chosen(s)] * v[Chosen(s)]
    <3>1. PICK x, y : x = Chosen(s) /\ y = it[s \ {x}]
      OBVIOUS
    <3>2. pick[s] = x
      BY <3>1
    <3>3. x \in S
      BY <1>2, <2>2, <3>2
    <3>4. y \in Int
      BY <3>1
    <3>5. op[<<x, y>>] = y * v[x] * v[x]
      BY <3>3, <3>4
    <3>. HIDE DEF op, pick
    <3>. QED  BY <3>1, <3>2, <3>5
  <2>. HIDE DEF op, pick
  <2>. QED  BY <2>1, <2>2 DEF Multiplies
<1>5. Multiplies(v, S, iter)
  BY <1>4
<1>6. SquaresOf(v, S) = iter[S]
  BY DEF SquaresOf, FoldSet, MapThenFoldSet, Multiplies, Chosen
<1>. HIDE DEF iter
<1>. QED  BY <1>5, <1>6

\* What it says about a set does not depend on the set it is defined for.
LEMMA SquaresUnique ==
  ASSUME NEW v, NEW S, IsFiniteSet(S), NEW T \in SUBSET S,
         NEW g, Multiplies(v, S, g), NEW h, Multiplies(v, T, h)
  PROVE  g[T] = h[T]
<1> DEFINE B == {U \in SUBSET T : g[U] # h[U]}
<1>1. SUFFICES ASSUME B # {} PROVE FALSE
  OBVIOUS
<1>2. PICK U \in B : U # {} /\ IsFiniteSet(U) /\ \A x \in U : U \ {x} \notin B
  <2>1. B \in SUBSET (SUBSET T) /\ {} \notin B /\ IsFiniteSet(T)
    BY FS_Subset DEF Multiplies
  <2>. HIDE DEF B
  <2>. QED  BY <1>1, <2>1, SmallestBadSet
<1>3. Chosen(U) \in U /\ U \ {Chosen(U)} \in SUBSET T
  BY <1>2, ChosenElement
<1>4. U \ {Chosen(U)} \notin B
  BY <1>2, <1>3
<1>. QED  BY <1>2, <1>3, <1>4 DEF Multiplies

\* The product over the empty set, and one round of the recursion.
LEMMA SquaresStep ==
  ASSUME NEW v, NEW S, IsFiniteSet(S), \A x \in S : v[x] \in Int
  PROVE  /\ SquaresOf(v, {}) = 1
         /\ S # {} => SquaresOf(v, S)
              = SquaresOf(v, S \ {Chosen(S)}) * v[Chosen(S)] * v[Chosen(S)]
<1>1. SquaresOf(v, {}) = 1
  <2>1. PICK h : Multiplies(v, {}, h) /\ SquaresOf(v, {}) = h[{}]
    BY SquaresExist, FS_EmptySet
  <2>. QED  BY <2>1 DEF Multiplies
<1>2. ASSUME S # {}
      PROVE  SquaresOf(v, S) = SquaresOf(v, S \ {Chosen(S)}) * v[Chosen(S)] * v[Chosen(S)]
  <2>0. PICK T : T = S \ {Chosen(S)}
    OBVIOUS
  <2>1. PICK g : Multiplies(v, S, g) /\ SquaresOf(v, S) = g[S]
    BY SquaresExist
  <2>2. IsFiniteSet(T) /\ T \in SUBSET S /\ \A x \in T : v[x] \in Int
    BY <1>2, <2>0, ChosenElement
  <2>3. PICK h : Multiplies(v, T, h) /\ SquaresOf(v, T) = h[T]
    BY <2>2, SquaresExist
  <2>4. g[T] = h[T]
    BY <2>1, <2>2, <2>3, SquaresUnique
  <2>5. g[S] = g[T] * v[Chosen(S)] * v[Chosen(S)]
    BY <1>2, <2>0, <2>1 DEF Multiplies
  <2>. QED  BY <2>0, <2>1, <2>3, <2>4, <2>5
<1>. QED  BY <1>1, <1>2

\* A product of squares is not negative.
LEMMA SquaresType ==
  ASSUME NEW v, NEW S, IsFiniteSet(S), \A x \in S : v[x] \in Int
  PROVE  SquaresOf(v, S) \in Int /\ SquaresOf(v, S) >= 0
<1> DEFINE Good(s) == SquaresOf(v, s) \in Int /\ SquaresOf(v, s) >= 0
           B == {U \in SUBSET S : ~Good(U)}
<1>1. SUFFICES ASSUME B # {} PROVE FALSE
  OBVIOUS
<1>2. PICK U \in B : U # {} /\ IsFiniteSet(U) /\ \A x \in U : U \ {x} \notin B
  <2>0. SquaresOf(v, {}) = 1
    BY SquaresStep
  <2>1. B \in SUBSET (SUBSET S) /\ {} \notin B
    BY <2>0
  <2>. HIDE DEF B
  <2>. QED  BY <1>1, <2>1, SmallestBadSet
<1>3. PICK c, T : c = Chosen(U) /\ T = U \ {c}
  OBVIOUS
<1>4. c \in U /\ T \in SUBSET S /\ v[c] \in Int /\ \A x \in U : v[x] \in Int
  BY <1>2, <1>3, ChosenElement
<1>5. T \notin B
  BY <1>2, <1>3, <1>4
<1>6. SquaresOf(v, U) = SquaresOf(v, T) * v[c] * v[c]
  BY <1>2, <1>3, <1>4, SquaresStep
<1>7. PICK p, x, y : p = SquaresOf(v, T) /\ x = v[c] /\ y = x * x
  OBVIOUS
<1>8. p \in Int /\ p >= 0 /\ x \in Int
  BY <1>4, <1>5, <1>7
<1>9. y \in Int /\ y >= 0
  BY <1>7, <1>8
<1>10. p * x * x = p * y
  BY <1>7, <1>8
<1>11. p * y \in Int /\ p * y >= 0
  BY <1>8, <1>9
<1>12. Good(U)
  BY <1>6, <1>7, <1>10, <1>11
<1>. QED  BY <1>2, <1>12

\* A new element multiplies by its square, whichever the recursion takes first.
LEMMA SquaresAdd ==
  ASSUME NEW v, NEW S, IsFiniteSet(S), \A x \in S : v[x] \in Int,
         NEW e, e \notin S, v[e] \in Int
  PROVE  SquaresOf(v, S \cup {e}) = SquaresOf(v, S) * (v[e] * v[e])
<1> DEFINE Sq(s) == SquaresOf(v, s)
           B == {U \in SUBSET S : \E z \in (S \cup {e}) \ U :
                                    Sq(U \cup {z}) # Sq(U) * (v[z] * v[z])}
<1>1. SUFFICES ASSUME B # {} PROVE FALSE
  OBVIOUS
<1>2. PICK U \in B : U # {} /\ IsFiniteSet(U) /\ \A x \in U : U \ {x} \notin B
  <2>1. ASSUME NEW z \in S \cup {e}
        PROVE  Sq({} \cup {z}) = Sq({}) * (v[z] * v[z])
    <3>1. Chosen({z}) = z /\ {z} \ {z} = {} /\ IsFiniteSet({z}) /\ \A x \in {z} : v[x] \in Int
      BY FS_Singleton DEF Chosen
    <3>2. Sq({z}) = Sq({}) * v[z] * v[z] /\ Sq({}) = 1
      BY <3>1, SquaresStep
    <3>3. PICK y : y = v[z]
      OBVIOUS
    <3>4. y \in Int
      BY <3>3
    <3>5. 1 * y * y = 1 * (y * y)
      BY <3>4
    <3>6. {} \cup {z} = {z}
      OBVIOUS
    <3>. QED  BY <3>2, <3>3, <3>5, <3>6
  <2>2. {} \notin B
    BY <2>1
  <2>3. B \in SUBSET (SUBSET S)
    OBVIOUS
  <2>. HIDE DEF B
  <2>. QED  BY <1>1, <2>2, <2>3, SmallestBadSet
<1>3. PICK z \in (S \cup {e}) \ U : Sq(U \cup {z}) # Sq(U) * (v[z] * v[z])
  OBVIOUS
<1> DEFINE y == Chosen(U \cup {z})
<1>4. /\ IsFiniteSet(U) /\ IsFiniteSet(U \cup {z}) /\ U \cup {z} # {}
      /\ \A x \in U \cup {z} : v[x] \in Int
  BY <1>2, FS_AddElement
<1>5. /\ y \in U \cup {z}
      /\ Sq(U \cup {z}) = Sq((U \cup {z}) \ {y}) * v[y] * v[y]
  BY <1>4, ChosenElement, SquaresStep
<1>6. v[z] \in Int /\ v[y] \in Int /\ Sq(U) \in Int
  BY <1>4, <1>5, SquaresType
<1>7. y # z /\ y \in U
  <2>1. ASSUME y = z
        PROVE  FALSE
    <3>1. (U \cup {z}) \ {y} = U
      BY <2>1
    <3>2. Sq(U \cup {z}) = Sq(U) * v[z] * v[z]
      BY <1>5, <2>1, <3>1
    <3>3. PICK p, x : p = Sq(U) /\ x = v[z]
      OBVIOUS
    <3>4. p \in Int /\ x \in Int
      BY <1>6, <3>3
    <3>5. p * x * x = p * (x * x)
      BY <3>4
    <3>. QED  BY <1>3, <3>2, <3>3, <3>5
  <2>. QED  BY <1>5, <2>1
<1> DEFINE W == U \ {y}
<1>8. IsFiniteSet(W) /\ W \in SUBSET S /\ Sq(W) \in Int
  <2>1. IsFiniteSet(W) /\ W \in SUBSET S
    BY <1>4, FS_RemoveElement
  <2>. QED  BY <2>1, SquaresType
<1>9. W \notin B
  BY <1>2, <1>7
<1>10. Sq(W \cup {z}) = Sq(W) * (v[z] * v[z]) /\ Sq(W \cup {y}) = Sq(W) * (v[y] * v[y])
  <2>1. z \in (S \cup {e}) \ W /\ y \in (S \cup {e}) \ W
    BY <1>3, <1>7
  <2>2. \A x \in (S \cup {e}) \ W : Sq(W \cup {x}) = Sq(W) * (v[x] * v[x])
    BY <1>8, <1>9
  <2>. QED  BY <2>1, <2>2
<1>11. W \cup {y} = U /\ (U \cup {z}) \ {y} = W \cup {z}
  BY <1>3, <1>7
<1>12. PICK p, i, j : p = Sq(W) /\ i = v[z] /\ j = v[y]
  OBVIOUS
<1>13. p \in Int /\ i \in Int /\ j \in Int
  BY <1>6, <1>8, <1>12
<1>. HIDE DEF B, W, y
<1>14. Sq(U \cup {z}) = (p * (i * i)) * j * j
  BY <1>5, <1>10, <1>11, <1>12
<1>15. Sq(U) = p * (j * j)
  BY <1>10, <1>11, <1>12
<1>16. (p * (i * i)) * j * j = (p * (j * j)) * (i * i)
  BY <1>13
<1>. QED  BY <1>3, <1>12, <1>14, <1>15, <1>16
================================================================================
