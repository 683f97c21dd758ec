------------------------- MODULE FiniteSumTheorems -------------------------
(***************************************************************************)
(* What changing one value, or adding or taking out one member, does to a  *)
(* sum over a finite set.  The order in which the fold visits the members  *)
(* is unknown, so this is an induction over the subsets of a finite set;   *)
(* it goes by the smallest counterexample, which is a first-order fact.    *)
(***************************************************************************)
EXTENDS Integers, FiniteSums, FiniteSetTheorems, TLAPS

\* The function that adds up w over every subset of S.
First(T) == CHOOSE x \in T : TRUE
Adds(g, w, S) ==
    g = [T \in SUBSET S |-> IF T = {} THEN 0 ELSE w[First(T)] + g[T \ {First(T)}]]

\* The operator is the value, at the whole set, of the function the fold is
\* defined by.
LEMMA SumIs ==
  ASSUME NEW w, NEW S
  PROVE  Sum(w, S) = (CHOOSE g : Adds(g, w, S))[S]
  BY DEF Sum, MapThenSumSet, MapThenFoldSet, Adds, First

\* The member the fold takes first is a member.
LEMMA FirstIn ==
  ASSUME NEW T, T # {}
  PROVE  First(T) \in T
  BY DEF First

\* Of the subsets of a finite set that are in Bad one has no strict subset there.
LEMMA Smallest ==
  ASSUME NEW S, IsFiniteSet(S), NEW Bad \in SUBSET SUBSET S, Bad # {}
  PROVE  \E T \in Bad : \A U \in SUBSET T : U # T => U \notin Bad
<1>1. FiniteSubsetsOf(S) = SUBSET S
  BY FS_FiniteSubsetsOfFinite
<1>2. IsWellFoundedOn(StrictSubsetOrdering(S), SUBSET S)
  BY <1>1, FS_StrictSubsetOrderingWellFounded
<1>3. PICK T \in Bad : \A U \in Bad : ~(<<U, T>> \in StrictSubsetOrdering(S))
  BY <1>2, WFMin
<1> QED
  BY <1>3 DEF StrictSubsetOrdering

\* Two functions that add up the same values agree where both are defined.
LEMMA AddsOnce ==
  ASSUME NEW w, NEW S, NEW R, IsFiniteSet(S), NEW g, NEW h, Adds(g, w, S), Adds(h, w, R)
  PROVE  \A T \in SUBSET (S \cap R) : g[T] = h[T]
<1> DEFINE Bad == {T \in SUBSET S : T \subseteq R /\ g[T] # h[T]}
<1> SUFFICES ASSUME Bad # {} PROVE FALSE
  OBVIOUS
<1>1. PICK T \in Bad : \A U \in SUBSET T : U # T => U \notin Bad
  <2>1. Bad \in SUBSET SUBSET S
    OBVIOUS
  <2> HIDE DEF Bad
  <2> QED BY <2>1, Smallest
<1>2. T \in SUBSET S /\ T \in SUBSET R /\ g[T] # h[T]
  OBVIOUS
<1>3. CASE T = {}
  BY <1>2, <1>3 DEF Adds
<1>4. CASE T # {}
  <2> DEFINE U == T \ {First(T)}
  <2>1. U \in SUBSET T /\ U # T
    BY <1>4, FirstIn
  <2>2. g[U] = h[U]
    BY <1>1, <1>2, <2>1
  <2>3. g[T] = w[First(T)] + g[U] /\ h[T] = w[First(T)] + h[U]
    BY <1>2, <1>4 DEF Adds
  <2> QED
    BY <1>2, <2>2, <2>3
<1> QED
  BY <1>3, <1>4

\* There is a function that adds up w over the subsets of a finite set.
LEMMA AddsExists ==
  ASSUME NEW w, NEW S, IsFiniteSet(S)
  PROVE  \E g : Adds(g, w, S)
<1> DEFINE Bad == {T \in SUBSET S : ~ \E g : Adds(g, w, T)}
<1> SUFFICES ASSUME Bad # {} PROVE FALSE
  BY DEF Bad
<1>1. PICK T \in Bad : \A U \in SUBSET T : U # T => U \notin Bad
  <2>1. Bad \in SUBSET SUBSET S
    OBVIOUS
  <2> HIDE DEF Bad
  <2> QED BY <2>1, Smallest
<1> DEFINE G(U) == CHOOSE g : Adds(g, w, U)
           g == [V \in SUBSET T |-> IF V = {} THEN 0
                                    ELSE w[First(V)] + G(V \ {First(V)})[V \ {First(V)}]]
<1>2. \A U \in SUBSET T : U # T => Adds(G(U), w, U) /\ IsFiniteSet(U)
  <2> SUFFICES ASSUME NEW U \in SUBSET T, U # T PROVE Adds(G(U), w, U) /\ IsFiniteSet(U)
    OBVIOUS
  <2>1. U \in SUBSET S /\ U \notin Bad
    BY <1>1
  <2>2. PICK k : Adds(k, w, U)
    BY <2>1
  <2>3. Adds(G(U), w, U)
    BY <2>2
  <2> QED
    BY <2>1, <2>3, FS_Subset
<1>3. \A U \in SUBSET T : U # T => g[U] = G(U)[U]
  <2> SUFFICES ASSUME NEW U \in SUBSET T, U # T PROVE g[U] = G(U)[U]
    OBVIOUS
  <2>1. Adds(G(U), w, U)
    BY <1>2
  <2>2. CASE U = {}
    BY <2>1, <2>2 DEF Adds
  <2>3. CASE U # {}
    <3> DEFINE V == U \ {First(U)}
    <3>1. V \in SUBSET U /\ V \in SUBSET T /\ V # T
      OBVIOUS
    <3>2. Adds(G(V), w, V) /\ IsFiniteSet(V)
      BY <1>2, <3>1
    <3>3. G(V)[V] = G(U)[V]
      <4> HIDE DEF G, V
      <4>1. \A W \in SUBSET (V \cap U) : G(V)[W] = G(U)[W]
        BY <2>1, <3>2, AddsOnce
      <4> QED BY <3>1, <4>1
    <3>4. G(U)[U] = w[First(U)] + G(U)[V]
      <4> HIDE DEF G
      <4> QED BY <2>1, <2>3 DEF Adds
    <3>5. g[U] = w[First(U)] + G(V)[V]
      <4> HIDE DEF G
      <4> QED BY <2>3
    <3> HIDE DEF G, V, g
    <3> QED BY <3>3, <3>4, <3>5
  <2> QED BY <2>2, <2>3
<1>4. Adds(g, w, T)
  <2>1. \A V \in SUBSET T : V # {} => /\ V \ {First(V)} \in SUBSET T
                                      /\ V \ {First(V)} # T
    BY FirstIn
  <2>2. \A V \in SUBSET T : V # {} =>
           G(V \ {First(V)})[V \ {First(V)}] = g[V \ {First(V)}]
    BY <1>3, <2>1
  <2>3. g = [V \in SUBSET T |-> IF V = {} THEN 0 ELSE w[First(V)] + g[V \ {First(V)}]]
    <3> HIDE DEF G
    <3> QED BY <2>2
  <2> HIDE DEF g
  <2> QED BY <2>3 DEF Adds
<1> HIDE DEF g
<1> QED BY <1>1, <1>4

\* Nothing adds up to nothing.
LEMMA SumEmpty == ASSUME NEW w PROVE Sum(w, {}) = 0
<1>1. Adds(CHOOSE g : Adds(g, w, {}), w, {})
  BY AddsExists, FS_EmptySet
<1> QED
  BY <1>1, SumIs DEF Adds

\* The fold's own recursion.
LEMMA SumFirst ==
  ASSUME NEW w, NEW S, IsFiniteSet(S), S # {}
  PROVE  Sum(w, S) = w[First(S)] + Sum(w, S \ {First(S)})
<1> DEFINE G(U) == CHOOSE g : Adds(g, w, U)
           V == S \ {First(S)}
<1>1. \A U : IsFiniteSet(U) => Adds(G(U), w, U)
  BY AddsExists
<1>2. IsFiniteSet(V)
  BY FS_RemoveElement
<1>3. Adds(G(S), w, S) /\ Adds(G(V), w, V)
  BY <1>1, <1>2
<1>4. G(S)[V] = G(V)[V]
  <2> HIDE DEF G
  <2>1. \A T \in SUBSET (S \cap V) : G(S)[T] = G(V)[T]
    BY <1>3, AddsOnce
  <2> QED BY <2>1
<1>5. G(S)[S] = w[First(S)] + G(S)[V]
  <2> HIDE DEF G
  <2> QED BY <1>3 DEF Adds
<1>6. Sum(w, S) = G(S)[S] /\ Sum(w, V) = G(V)[V]
  BY SumIs
<1> HIDE DEF G
<1> QED BY <1>4, <1>5, <1>6

\* A sum of integers is an integer.
LEMMA SumType ==
  ASSUME NEW S, IsFiniteSet(S), NEW w \in [S -> Int]
  PROVE  \A T \in SUBSET S : Sum(w, T) \in Int
<1> DEFINE Bad == {T \in SUBSET S : Sum(w, T) \notin Int}
<1> SUFFICES ASSUME Bad # {} PROVE FALSE
  OBVIOUS
<1>1. PICK T \in Bad : \A U \in SUBSET T : U # T => U \notin Bad
  <2>1. Bad \in SUBSET SUBSET S
    OBVIOUS
  <2> HIDE DEF Bad
  <2> QED BY <2>1, Smallest
<1>2. T \in SUBSET S /\ Sum(w, T) \notin Int /\ IsFiniteSet(T)
  BY FS_Subset
<1>3. T # {}
  BY <1>2, SumEmpty
<1>4. First(T) \in T
  BY <1>3, FirstIn
<1>5. Sum(w, T \ {First(T)}) \in Int
  BY <1>1, <1>2, <1>4
<1> QED
  BY <1>2, <1>3, <1>4, <1>5, SumFirst

\* Every member of T can be taken out of its sum.
TakesOut(w, T) == \A x \in T : Sum(w, T) = w[x] + Sum(w, T \ {x})

\* The order does not matter: any member may be taken out first.
LEMMA SumTakesOut ==
  ASSUME NEW S, IsFiniteSet(S), NEW w \in [S -> Int]
  PROVE  \A T \in SUBSET S : TakesOut(w, T)
<1> DEFINE Bad == {T \in SUBSET S : ~TakesOut(w, T)}
<1> SUFFICES ASSUME Bad # {} PROVE FALSE
  OBVIOUS
<1>1. PICK T \in Bad : \A U \in SUBSET T : U # T => U \notin Bad
  <2>1. Bad \in SUBSET SUBSET S
    OBVIOUS
  <2> HIDE DEF Bad
  <2> QED BY <2>1, Smallest
<1>2. PICK x \in T : Sum(w, T) # w[x] + Sum(w, T \ {x})
  BY DEF TakesOut
<1> DEFINE f == First(T)
<1>3. T \in SUBSET S /\ IsFiniteSet(T) /\ f \in T
  BY <1>2, FS_Subset, FirstIn
<1>4. Sum(w, T) = w[f] + Sum(w, T \ {f})
  BY <1>2, <1>3, SumFirst
<1> HIDE DEF f
<1>5. x # f
  BY <1>2, <1>4
<1>6. Sum(w, T \ {f}) = w[x] + Sum(w, (T \ {f}) \ {x})
  BY <1>1, <1>3, <1>5 DEF TakesOut
<1>7. Sum(w, T \ {x}) = w[f] + Sum(w, (T \ {x}) \ {f})
  BY <1>1, <1>2, <1>3, <1>5 DEF TakesOut
<1> DEFINE rest == Sum(w, (T \ {f}) \ {x})
<1>8. (T \ {x}) \ {f} = (T \ {f}) \ {x}
  OBVIOUS
<1>9. w[x] \in Int /\ w[f] \in Int /\ rest \in Int
  BY <1>3, SumType
<1>10. Sum(w, T) = w[f] + (w[x] + rest) /\ Sum(w, T \ {x}) = w[f] + rest
  BY <1>4, <1>6, <1>7, <1>8
<1> HIDE DEF rest
<1> QED
  BY <1>2, <1>9, <1>10

\* Only the values on the set count.
LEMMA SumAgrees ==
  ASSUME NEW S, IsFiniteSet(S), NEW w, NEW v
  PROVE  \A T \in SUBSET S : (\A x \in T : w[x] = v[x]) => Sum(w, T) = Sum(v, T)
<1> DEFINE Bad == {T \in SUBSET S : (\A x \in T : w[x] = v[x]) /\ Sum(w, T) # Sum(v, T)}
<1> SUFFICES ASSUME Bad # {} PROVE FALSE
  OBVIOUS
<1>1. PICK T \in Bad : \A U \in SUBSET T : U # T => U \notin Bad
  <2>1. Bad \in SUBSET SUBSET S
    OBVIOUS
  <2> HIDE DEF Bad
  <2> QED BY <2>1, Smallest
<1>2. T \in SUBSET S /\ IsFiniteSet(T) /\ Sum(w, T) # Sum(v, T) /\ \A x \in T : w[x] = v[x]
  BY FS_Subset
<1>3. T # {}
  BY <1>2, SumEmpty
<1>4. First(T) \in T
  BY <1>3, FirstIn
<1>5. Sum(w, T \ {First(T)}) = Sum(v, T \ {First(T)})
  BY <1>1, <1>2, <1>4
<1> QED
  BY <1>2, <1>3, <1>4, <1>5, SumFirst

\* What changes one value changes the sum by as much.
LEMMA SumChange ==
  ASSUME NEW S, IsFiniteSet(S), NEW w \in [S -> Int], NEW v \in [S -> Int], NEW x \in S,
         \A y \in S \ {x} : v[y] = w[y]
  PROVE  Sum(v, S) = Sum(w, S) + v[x] - w[x]
<1>1. Sum(w, S) = w[x] + Sum(w, S \ {x}) /\ Sum(v, S) = v[x] + Sum(v, S \ {x})
  BY SumTakesOut DEF TakesOut
<1>2. Sum(v, S \ {x}) = Sum(w, S \ {x})
  BY SumAgrees
<1>3. w[x] \in Int /\ v[x] \in Int /\ Sum(w, S \ {x}) \in Int
  BY SumType
<1> QED
  BY <1>1, <1>2, <1>3

\* Nothing but zeros adds up to zero.
LEMMA SumZero ==
  ASSUME NEW S, IsFiniteSet(S)
  PROVE  Sum([x \in S |-> 0], S) = 0
<1> DEFINE w == [x \in S |-> 0]
           Bad == {T \in SUBSET S : Sum(w, T) # 0}
<1> SUFFICES ASSUME Bad # {} PROVE FALSE
  OBVIOUS
<1>1. PICK T \in Bad : \A U \in SUBSET T : U # T => U \notin Bad
  <2>1. Bad \in SUBSET SUBSET S
    OBVIOUS
  <2> HIDE DEF Bad
  <2> QED BY <2>1, Smallest
<1>2. T \in SUBSET S /\ Sum(w, T) # 0 /\ IsFiniteSet(T)
  BY FS_Subset
<1>3. T # {}
  BY <1>2, SumEmpty
<1>4. First(T) \in T
  BY <1>3, FirstIn
<1>5. Sum(w, T \ {First(T)}) = 0
  BY <1>1, <1>2, <1>4
<1>6. w[First(T)] = 0
  BY <1>2, <1>4
<1> HIDE DEF w
<1> QED
  BY <1>2, <1>3, <1>5, <1>6, SumFirst

\* What is added to the set is added to the sum.
LEMMA SumAdd ==
  ASSUME NEW S, IsFiniteSet(S), NEW w \in [S -> Int], NEW T \in SUBSET S, NEW x \in S \ T
  PROVE  Sum(w, T \cup {x}) = Sum(w, T) + w[x]
<1>1. T \cup {x} \in SUBSET S /\ (T \cup {x}) \ {x} = T
  OBVIOUS
<1>2. Sum(w, T \cup {x}) = w[x] + Sum(w, T)
  <2>1. \A y \in T \cup {x} :
           Sum(w, T \cup {x}) = w[y] + Sum(w, (T \cup {x}) \ {y})
    BY <1>1, SumTakesOut DEF TakesOut
  <2> QED
    BY <1>1, <2>1
<1>3. w[x] \in Int /\ Sum(w, T) \in Int
  BY SumType
<1> QED
  BY <1>1, <1>2, <1>3

\* A sum of naturals is a natural number.
LEMMA SumNat ==
  ASSUME NEW S, IsFiniteSet(S), NEW w \in [S -> Nat]
  PROVE  \A T \in SUBSET S : Sum(w, T) \in Nat
<1> DEFINE Bad == {T \in SUBSET S : Sum(w, T) \notin Nat}
<1> SUFFICES ASSUME Bad # {} PROVE FALSE
  OBVIOUS
<1>1. PICK T \in Bad : \A U \in SUBSET T : U # T => U \notin Bad
  <2>1. Bad \in SUBSET SUBSET S
    OBVIOUS
  <2> HIDE DEF Bad
  <2> QED BY <2>1, Smallest
<1>2. T \in SUBSET S /\ Sum(w, T) \notin Nat /\ IsFiniteSet(T)
  BY FS_Subset
<1>3. T # {}
  BY <1>2, SumEmpty
<1>4. First(T) \in T
  BY <1>3, FirstIn
<1>5. Sum(w, T \ {First(T)}) \in Nat
  BY <1>1, <1>2, <1>4
<1> QED
  BY <1>2, <1>3, <1>4, <1>5, SumFirst
=============================================================================
