----------------------------- MODULE DataLemmas ----------------------------
(***************************************************************************)
(* Facts about sums over finite sets (SumFunctionOnSet of Functions), for  *)
(* the models that count bytes, and about sequences, for those that order  *)
(* blocks by age.  Sums are treated by induction: not by the library's     *)
(* induction rules, whose parameter is a predicate, but from the           *)
(* well-foundedness of < on Nat and of strict inclusion on finite sets,    *)
(* applied to the set of the counterexamples.                              *)
(***************************************************************************)
EXTENDS Integers, Sequences, Functions, FiniteSetTheorems, WellFoundedInduction, TLAPS

\* A nonempty set of natural numbers has a least element.
LEMMA LeastNat ==
  ASSUME NEW T, T \subseteq Nat, T # {}
  PROVE  \E n \in T : \A m \in T : n <= m
<1> DEFINE R == {p \in Nat \X Nat : p[1] < p[2]}
<1>1. IsWellFoundedOn(R, Nat)
  BY NatLessThanWellFounded DEF OpToRel
<1> HIDE DEF R
<1>2. PICK n \in T : \A m \in T : ~(<<m, n>> \in R)
  BY <1>1, WFMin
<1>3. ASSUME NEW m \in T PROVE n <= m
  <2>1. ~(m < n)
    BY <1>2, <1>3 DEF R
  <2> QED BY <2>1
<1> QED BY <1>3

\* A set that has 0 and with every n also n + 1 has all natural numbers.
LEMMA NatInSet ==
  ASSUME NEW T, 0 \in T, \A n \in Nat : n \in T => n + 1 \in T
  PROVE  Nat \subseteq T
<1> SUFFICES ASSUME Nat \ T # {} PROVE FALSE
  OBVIOUS
<1>1. PICK n \in Nat \ T : \A m \in Nat \ T : n <= m
  BY LeastNat
<1>2. n # 0 /\ n - 1 \in Nat /\ n - 1 \in T
  BY <1>1
<1> QED BY <1>2

\* A nonempty family of subsets of a finite set has a smallest member.
LEMMA SmallestSet ==
  ASSUME NEW S, IsFiniteSet(S), NEW F, F \subseteq SUBSET S, F # {}
  PROVE  \E T \in F : \A U \in F : U \subseteq T => U = T
<1>1. IsWellFoundedOn(StrictSubsetOrdering(S), SUBSET S)
  BY FS_StrictSubsetOrderingWellFounded, FS_FiniteSubsetsOfFinite
<1>2. PICK T \in F : \A U \in F : ~(<<U, T>> \in StrictSubsetOrdering(S))
  BY <1>1, WFMin
<1> QED BY <1>2 DEF StrictSubsetOrdering

-----------------------------------------------------------------------------
(* The fold behind SumFunctionOnSet.                                       *)

First(s) == CHOOSE x \in s : TRUE

\* What the fold adds up for the subset s, h being what it does for smaller ones.
StepOf(f, h, s) == IF s = {} THEN 0 ELSE f[First(s)] + h[s \ {First(s)}]

IsFold(f, S, h) == h = [s \in SUBSET S |-> StepOf(f, h, s)]

\* The library's sum, unfolded to the function that it chooses.
LEMMA SumIsFold == ASSUME NEW f, NEW S PROVE SumFunctionOnSet(f, S) = (CHOOSE h : IsFold(f, S, h))[S]
BY DEF SumFunctionOnSet, FoldFunctionOnSet, MapThenFoldSet, IsFold, StepOf, First

\* The element that the fold takes first is one of the set's.
LEMMA FirstIn == ASSUME NEW s, s # {} PROVE First(s) \in s /\ s \ {First(s)} # s /\ s \ {First(s)} \subseteq s
<1>1. First(s) \in s
  BY DEF First
<1> QED BY <1>1

\* h is the fold on the members of D, which D closes under taking the first element away.
FoldOn(f, D, h) ==
  \A s \in D : (s # {} => s \ {First(s)} \in D) /\ h[s] = StepOf(f, h, s)

\* Two functions that satisfy the fold's equation agree where both are defined.
LEMMA FoldsAgree ==
  ASSUME NEW f, NEW S, IsFiniteSet(S), NEW D, NEW E, D \subseteq SUBSET S, E \subseteq SUBSET S,
         NEW h, NEW g, FoldOn(f, D, h), FoldOn(f, E, g)
  PROVE  \A s \in D \cap E : h[s] = g[s]
<1> DEFINE Bad == {s \in D \cap E : h[s] # g[s]}
<1> SUFFICES ASSUME Bad # {} PROVE FALSE
  OBVIOUS
<1>1. PICK T \in Bad : \A U \in Bad : U \subseteq T => U = T
  <2>1. Bad \subseteq SUBSET S
    OBVIOUS
  <2> HIDE DEF Bad
  <2> QED BY <2>1, SmallestSet
<1>2. h[T] = StepOf(f, h, T) /\ g[T] = StepOf(f, g, T)
  BY DEF FoldOn
<1>3. CASE T = {}
  BY <1>2, <1>3 DEF StepOf
<1>4. CASE T # {}
  <2> DEFINE U == T \ {First(T)}
  <2>1. U \in D \cap E /\ U # T /\ U \subseteq T
    BY <1>4, FirstIn DEF FoldOn
  <2>2. h[U] = g[U]
    BY <1>1, <2>1
  <2> QED BY <1>2, <1>4, <2>2 DEF StepOf
<1> QED BY <1>3, <1>4

\* Every subset of a finite set is in the domain of such a function.
LEMMA FoldOnEach ==
  ASSUME NEW f, NEW S, IsFiniteSet(S)
  PROVE  \A s \in SUBSET S : \E D \in SUBSET SUBSET S : \E h : FoldOn(f, D, h) /\ s \in D
<1> DEFINE Good(s) == \E D \in SUBSET SUBSET S : \E h : FoldOn(f, D, h) /\ s \in D
           Bad == {s \in SUBSET S : ~Good(s)}
<1> SUFFICES ASSUME Bad # {} PROVE FALSE
  OBVIOUS
<1> HIDE DEF Good
<1>1. PICK T \in Bad : \A U \in Bad : U \subseteq T => U = T
  <2>1. Bad \subseteq SUBSET S
    OBVIOUS
  <2> HIDE DEF Bad
  <2> QED BY <2>1, SmallestSet
<1>2. CASE T = {}
  <2>1. FoldOn(f, {{}}, [s \in {{}} |-> 0])
    BY DEF FoldOn, StepOf
  <2>2. Good(T)
    BY <1>2, <2>1 DEF Good
  <2> QED BY <2>2
<1>3. CASE T # {}
  <2> DEFINE U == T \ {First(T)}
  <2>1. U \in SUBSET S /\ U # T /\ U \subseteq T
    BY <1>3, FirstIn
  <2>2. Good(U)
    BY <1>1, <2>1
  <2>0. PICK D \in SUBSET SUBSET S : \E h : FoldOn(f, D, h) /\ U \in D
    BY <2>2 DEF Good
  <2>3. PICK h : FoldOn(f, D, h) /\ U \in D
    BY <2>0
  <2>4. T \notin D
    BY <2>3 DEF Good
  <2> DEFINE g == [s \in D \cup {T} |-> IF s \in D THEN h[s] ELSE f[First(T)] + h[U]]
  <2>5. ASSUME NEW s \in D PROVE (s # {} => s \ {First(s)} \in D \cup {T}) /\ g[s] = StepOf(f, g, s)
    <3>1. (s # {} => s \ {First(s)} \in D) /\ h[s] = StepOf(f, h, s)
      BY <2>3, <2>5 DEF FoldOn
    <3>2. g[s] = h[s] /\ (s # {} => g[s \ {First(s)}] = h[s \ {First(s)}])
      BY <3>1
    <3> QED BY <3>1, <3>2 DEF StepOf
  <2>6. g[T] = StepOf(f, g, T)
    <3>1. g[T] = f[First(T)] + h[U] /\ g[U] = h[U]
      BY <2>3, <2>4
    <3> QED BY <1>3, <3>1 DEF StepOf
  <2>7. FoldOn(f, D \cup {T}, g)
    <3> HIDE DEF g
    <3> QED BY <2>3, <2>5, <2>6 DEF FoldOn
  <2>8. Good(T)
    <3> HIDE DEF g
    <3> QED BY <2>7 DEF Good
  <2> QED BY <2>8
<1> QED BY <1>2, <1>3

\* So there is one on all subsets, and the choice is of something.
LEMMA FoldExists ==
  ASSUME NEW f, NEW S, IsFiniteSet(S)
  PROVE  \E h : IsFold(f, S, h)
<1> DEFINE Value(s, v) == \E D \in SUBSET SUBSET S : \E h : FoldOn(f, D, h) /\ s \in D /\ v = h[s]
           Chosen(s) == CHOOSE v : Value(s, v)
           g == [s \in SUBSET S |-> Chosen(s)]
<1>1. ASSUME NEW D \in SUBSET SUBSET S, NEW h, FoldOn(f, D, h), NEW s \in D PROVE g[s] = h[s]
  <2>1. Value(s, h[s])
    BY <1>1
  <2>2. ASSUME NEW v, Value(s, v) PROVE v = h[s]
    BY <1>1, <2>2, FoldsAgree
  <2>3. Chosen(s) = h[s]
    <3> HIDE DEF Value
    <3> QED BY <2>1, <2>2
  <2> QED BY <2>3
<1> HIDE DEF Chosen
<1>2. g = [s \in SUBSET S |-> g[s]]
  OBVIOUS
<1> HIDE DEF g, Value
<1>3. ASSUME NEW s \in SUBSET S PROVE g[s] = StepOf(f, g, s)
  <2>0. PICK D \in SUBSET SUBSET S : \E h : FoldOn(f, D, h) /\ s \in D
    BY FoldOnEach
  <2>1. PICK h : FoldOn(f, D, h) /\ s \in D
    BY <2>0
  <2>2. h[s] = StepOf(f, h, s) /\ (s # {} => s \ {First(s)} \in D)
    BY <2>1 DEF FoldOn
  <2>3. g[s] = h[s] /\ (s # {} => g[s \ {First(s)}] = h[s \ {First(s)}])
    BY <1>1, <2>1, <2>2
  <2> QED BY <2>2, <2>3 DEF StepOf
<1> QED BY <1>2, <1>3 DEF IsFold

\* The sum over any subset of S is what a fold on S gives for it.
LEMMA SumOfFold ==
  ASSUME NEW f, NEW S, IsFiniteSet(S), NEW h, IsFold(f, S, h), NEW T \in SUBSET S
  PROVE  SumFunctionOnSet(f, T) = h[T]
<1>1. IsFiniteSet(T)
  BY FS_Subset
<1> DEFINE g == CHOOSE g : IsFold(f, T, g)
<1>2. IsFold(f, T, g)
  BY <1>1, FoldExists
<1>3. SumFunctionOnSet(f, T) = g[T]
  BY SumIsFold
<1> HIDE DEF g
<1>4. FoldOn(f, SUBSET T, g)
  BY <1>2 DEF FoldOn, IsFold
<1>5. FoldOn(f, SUBSET S, h)
  BY DEF FoldOn, IsFold
<1>6. g[T] = h[T]
  BY <1>4, <1>5, FoldsAgree
<1> QED BY <1>3, <1>6
-----------------------------------------------------------------------------
(* Laws of sums.                                                           *)

\* The sum over no elements.
LEMMA SumEmpty == ASSUME NEW f PROVE SumFunctionOnSet(f, {}) = 0
<1>1. PICK h : IsFold(f, {}, h)
  BY FoldExists, FS_EmptySet
<1>2. SumFunctionOnSet(f, {}) = h[{}]
  BY <1>1, SumOfFold, FS_EmptySet
<1> QED BY <1>1, <1>2 DEF IsFold, StepOf

\* A sum is its first element and the sum of the rest.
LEMMA SumFirst ==
  ASSUME NEW f, NEW S, IsFiniteSet(S), S # {}
  PROVE  /\ First(S) \in S
         /\ SumFunctionOnSet(f, S) = f[First(S)] + SumFunctionOnSet(f, S \ {First(S)})
<1>1. PICK h : IsFold(f, S, h)
  BY FoldExists
<1>2. S \in SUBSET S /\ S \ {First(S)} \in SUBSET S
  OBVIOUS
<1>3. SumFunctionOnSet(f, S) = h[S] /\ SumFunctionOnSet(f, S \ {First(S)}) = h[S \ {First(S)}]
  BY <1>1, <1>2, SumOfFold
<1>4. h[S] = f[First(S)] + h[S \ {First(S)}]
  BY <1>1, <1>2 DEF IsFold, StepOf
<1> QED BY <1>3, <1>4, FirstIn

\* A property of finite sets: of the empty one, and of a set if its smaller subsets have it.
LEMMA SetInduction ==
  ASSUME NEW S, IsFiniteSet(S), NEW F, F \subseteq SUBSET S,
         \A T \in SUBSET S : (\A U \in SUBSET T : U # T => U \in F) => T \in F
  PROVE  S \in F
<1> SUFFICES ASSUME (SUBSET S) \ F # {} PROVE FALSE
  OBVIOUS
<1> DEFINE Bad == (SUBSET S) \ F
<1>1. Bad \subseteq SUBSET S /\ Bad # {}
  OBVIOUS
<1> HIDE DEF Bad
<1>2. PICK T \in Bad : \A U \in Bad : U \subseteq T => U = T
  BY <1>1, SmallestSet
<1> USE DEF Bad
<1>3. \A U \in SUBSET T : U # T => U \in F
  BY <1>2
<1> QED BY <1>2, <1>3

\* Natural numbers have a natural sum.
LEMMA SumNat ==
  ASSUME NEW f, NEW S, IsFiniteSet(S), \A x \in S : f[x] \in Nat
  PROVE  SumFunctionOnSet(f, S) \in Nat
<1> DEFINE F == {T \in SUBSET S : SumFunctionOnSet(f, T) \in Nat}
<1>1. ASSUME NEW T \in SUBSET S, \A U \in SUBSET T : U # T => U \in F
      PROVE  T \in F
  <2>1. CASE T = {}
    BY <2>1, SumEmpty
  <2>2. CASE T # {}
    <3>1. IsFiniteSet(T)
      BY FS_Subset
    <3>2. First(T) \in T /\ SumFunctionOnSet(f, T) = f[First(T)] + SumFunctionOnSet(f, T \ {First(T)})
      BY <2>2, <3>1, SumFirst
    <3>3. SumFunctionOnSet(f, T \ {First(T)}) \in Nat
      BY <1>1, <3>2
    <3> QED BY <3>2, <3>3
  <2> QED BY <2>1, <2>2
<1>2. F \subseteq SUBSET S
  OBVIOUS
<1>3. S \in F
  <2> HIDE DEF F
  <2> QED BY <1>1, <1>2, SetInduction
<1> QED BY <1>3

\* One element can be taken out of a sum, whichever it is.
LEMMA SumTake ==
  ASSUME NEW f, NEW S, IsFiniteSet(S), \A x \in S : f[x] \in Nat
  PROVE  \A x \in S : SumFunctionOnSet(f, S) = f[x] + SumFunctionOnSet(f, S \ {x})
<1> DEFINE F == {T \in SUBSET S : \A x \in T : SumFunctionOnSet(f, T) = f[x] + SumFunctionOnSet(f, T \ {x})}
<1>0. \A T \in SUBSET S : IsFiniteSet(T) /\ SumFunctionOnSet(f, T) \in Nat
  BY FS_Subset, SumNat
<1>1. ASSUME NEW T \in SUBSET S, \A U \in SUBSET T : U # T => U \in F
      PROVE  T \in F
  <2> SUFFICES ASSUME NEW x \in T
               PROVE  SumFunctionOnSet(f, T) = f[x] + SumFunctionOnSet(f, T \ {x})
    OBVIOUS
  <2> DEFINE p == First(T)
  <2>1. p \in T /\ SumFunctionOnSet(f, T) = f[p] + SumFunctionOnSet(f, T \ {p})
    BY <1>0, SumFirst
  <2> HIDE DEF p
  <2>2. CASE x = p
    BY <2>1, <2>2
  <2>3. CASE x # p
    <3>1. T \ {p} \in F /\ T \ {x} \in F /\ x \in T \ {p} /\ p \in T \ {x}
      BY <1>1, <2>1, <2>3
    <3>2. (T \ {x}) \ {p} = (T \ {p}) \ {x}
      OBVIOUS
    <3> DEFINE rest == SumFunctionOnSet(f, (T \ {p}) \ {x})
    <3>3. SumFunctionOnSet(f, T \ {p}) = f[x] + rest
      BY <3>1
    <3>4. SumFunctionOnSet(f, T \ {x}) = f[p] + rest
      BY <3>1, <3>2
    <3>5. rest \in Nat /\ f[x] \in Nat /\ f[p] \in Nat
      BY <1>0, <2>1
    <3> HIDE DEF rest
    <3> QED BY <2>1, <3>3, <3>4, <3>5
  <2> QED BY <2>2, <2>3
<1>2. F \subseteq SUBSET S
  OBVIOUS
<1>3. S \in F
  <2> HIDE DEF F
  <2> QED BY <1>1, <1>2, SetInduction
<1> QED BY <1>3

\* An element that is added to the set adds its value to the sum.
LEMMA SumAdd ==
  ASSUME NEW f, NEW S, IsFiniteSet(S), NEW x, x \notin S, \A y \in S \cup {x} : f[y] \in Nat
  PROVE  SumFunctionOnSet(f, S \cup {x}) = f[x] + SumFunctionOnSet(f, S)
<1>1. IsFiniteSet(S \cup {x}) /\ (S \cup {x}) \ {x} = S
  BY FS_AddElement
<1> QED BY <1>1, SumTake

\* A sum depends on the terms only.
LEMMA SumSame ==
  ASSUME NEW f, NEW g, NEW S, IsFiniteSet(S), \A x \in S : f[x] = g[x]
  PROVE  SumFunctionOnSet(f, S) = SumFunctionOnSet(g, S)
<1> DEFINE F == {T \in SUBSET S : SumFunctionOnSet(f, T) = SumFunctionOnSet(g, T)}
<1>1. ASSUME NEW T \in SUBSET S, \A U \in SUBSET T : U # T => U \in F
      PROVE  T \in F
  <2>1. CASE T = {}
    BY <2>1, SumEmpty
  <2>2. CASE T # {}
    <3>1. IsFiniteSet(T)
      BY FS_Subset
    <3>2. /\ First(T) \in T
          /\ SumFunctionOnSet(f, T) = f[First(T)] + SumFunctionOnSet(f, T \ {First(T)})
          /\ SumFunctionOnSet(g, T) = g[First(T)] + SumFunctionOnSet(g, T \ {First(T)})
      BY <2>2, <3>1, SumFirst
    <3>3. T \ {First(T)} \in F
      BY <1>1, <3>2
    <3> QED BY <3>2, <3>3
  <2> QED BY <2>1, <2>2
<1>2. F \subseteq SUBSET S
  OBVIOUS
<1>3. S \in F
  <2> HIDE DEF F
  <2> QED BY <1>1, <1>2, SetInduction
<1> QED BY <1>3

\* The image of a finite set is finite.
LEMMA ImageFinite ==
  ASSUME NEW b, NEW S, IsFiniteSet(S)
  PROVE  IsFiniteSet({b[x] : x \in S})
<1> DEFINE r == [x \in S |-> b[x]]
<1>1. r \in Surjection(S, {b[x] : x \in S})
  BY DEF Surjection
<1> QED BY <1>1, FS_Surjection

\* Terms are counted where they are or where an injection b takes them.
LEMMA SumImage ==
  ASSUME NEW f, NEW g, NEW b, NEW S, IsFiniteSet(S),
         \A x \in S : f[x] = g[b[x]] /\ f[x] \in Nat, \A x, y \in S : b[x] = b[y] => x = y
  PROVE  SumFunctionOnSet(f, S) = SumFunctionOnSet(g, {b[x] : x \in S})
<1> DEFINE Im(T) == {b[x] : x \in T}
           F == {T \in SUBSET S : SumFunctionOnSet(f, T) = SumFunctionOnSet(g, Im(T))}
<1>1. ASSUME NEW T \in SUBSET S, \A U \in SUBSET T : U # T => U \in F
      PROVE  T \in F
  <2>1. CASE T = {}
    <3>1. Im(T) = {}
      BY <2>1
    <3> QED BY <2>1, <3>1, SumEmpty
  <2>2. CASE T # {}
    <3>1. IsFiniteSet(T) /\ IsFiniteSet(Im(T))
      BY FS_Subset, ImageFinite
    <3> DEFINE p == First(T)
    <3>2. /\ p \in T
          /\ SumFunctionOnSet(f, T) = f[p] + SumFunctionOnSet(f, T \ {p})
      BY <2>2, <3>1, SumFirst
    <3> HIDE DEF p
    <3>3. T \ {p} \in F
      BY <1>1, <3>2
    <3>4. Im(T) \ {b[p]} = Im(T \ {p}) /\ b[p] \in Im(T)
      BY <3>2
    <3>5. \A y \in Im(T) : g[y] \in Nat
      OBVIOUS
    <3>6. SumFunctionOnSet(g, Im(T)) = g[b[p]] + SumFunctionOnSet(g, Im(T) \ {b[p]})
      <4> HIDE DEF Im
      <4> QED BY <3>1, <3>4, <3>5, SumTake
    <3>7. g[b[p]] = f[p]
      BY <3>2
    <3> QED BY <3>2, <3>3, <3>4, <3>6, <3>7
  <2> QED BY <2>1, <2>2
<1>2. F \subseteq SUBSET S
  OBVIOUS
<1>3. S \in F
  <2> HIDE DEF F
  <2> QED BY <1>1, <1>2, SetInduction
<1> QED BY <1>3

-----------------------------------------------------------------------------
(* Sequences.                                                              *)

\* An injective sequence has as many elements as its length.
LEMMA CountSeq ==
  ASSUME NEW n \in Nat, NEW f, \A p, q \in 1..n : f[p] = f[q] => p = q,
         NEW S, \A w : w \in S <=> \E p \in 1..n : f[p] = w
  PROVE  Cardinality(S) = n
<1> DEFINE g == [p \in 1..n |-> f[p]]
<1>1. g \in [1..n -> S]
  OBVIOUS
<1>2. g \in Injection(1..n, S)
  BY <1>1 DEF Injection, IsInjective
<1>3. g \in Surjection(1..n, S)
  BY <1>1 DEF Surjection
<1>4. ExistsBijection(1..n, S)
  BY <1>2, <1>3 DEF ExistsBijection, Bijection
<1> QED BY <1>4, FS_CountingElements

\* SubSeq around the p-th element, element by element.
LEMMA TakeOut ==
  ASSUME NEW E, NEW q \in Seq(E), NEW p \in 1..Len(q)
  PROVE  SubSeq(q, 1, p - 1) \o SubSeq(q, p + 1, Len(q))
           = [n \in 1..(Len(q) - 1) |-> IF n < p THEN q[n] ELSE q[n + 1]]
<1> DEFINE Z == Len(q)
           a == SubSeq(q, 1, p - 1)
           b == SubSeq(q, p + 1, Z)
           r == [n \in 1..(Z - 1) |-> IF n < p THEN q[n] ELSE q[n + 1]]
<1>1. Z \in Nat /\ p \in 1..Z /\ \A n \in 1..Z : q[n] \in E
  OBVIOUS
<1>2. a \in Seq(E) /\ Len(a) = p - 1 /\ \A n \in 1..(p - 1) : a[n] = q[n]
  BY <1>1
<1>3. b \in Seq(E) /\ Len(b) = Z - p /\ \A n \in 1..(Z - p) : b[n] = q[p + n]
  BY <1>1
<1>4. r \in [1..(Z - 1) -> E]
  BY <1>1
<1> HIDE DEF a, b, r, Z
<1>5. a \o b \in Seq(E) /\ Len(a \o b) = Z - 1
  <2>1. a \in Seq(E) /\ b \in Seq(E)
    BY <1>2, <1>3
  <2>2. a \o b \in Seq(E) /\ Len(a \o b) = Len(a) + Len(b)
    BY ONLY <2>1
  <2> QED BY <2>2, <1>1, <1>2, <1>3
<1>6. ASSUME NEW n \in 1..(Z - 1) PROVE (a \o b)[n] = r[n]
  <2>1. CASE n < p
    <3>1. (a \o b)[n] = a[n]
      BY <1>1, <1>2, <1>3, <2>1
    <3>2. a[n] = q[n]
      BY <1>1, <1>2, <2>1
    <3> QED BY <2>1, <3>1, <3>2 DEF r
  <2>2. CASE ~(n < p)
    <3>1. n - (p - 1) \in 1..(Z - p) /\ p + (n - (p - 1)) = n + 1
      BY <1>1, <2>2
    <3>2. (a \o b)[n] = b[n - (p - 1)]
      BY <1>1, <1>2, <1>3, <2>2
    <3>3. b[n - (p - 1)] = q[n + 1]
      BY <1>3, <3>1
    <3> QED BY <2>2, <3>2, <3>3 DEF r
  <2> QED BY <2>1, <2>2
<1>7. a \o b = r
  BY <1>1, <1>4, <1>5, <1>6
<1> QED BY <1>7 DEF a, b, r, Z

\* Sequences are equal that have the same elements in the same places.
LEMMA SameSeq ==
  ASSUME NEW E, NEW q \in Seq(E), NEW r \in Seq(E), Len(q) = Len(r),
         \A n \in 1..Len(q) : q[n] = r[n]
  PROVE  q = r
OBVIOUS
=============================================================================
