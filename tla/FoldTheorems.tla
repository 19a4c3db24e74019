----------------------------- MODULE FoldTheorems -----------------------------
(***************************************************************************)
(* Facts about folds of the community modules: sums over finite sets,      *)
(* SumFunctionOnSet, which the books of the allocator and of its sorters   *)
(* are stated with, products, and Among, what of a queue is in a set.      *)
(* Each is a recursive function on the subsets of a set.  That its         *)
(* recursion has a solution, and that the order in which a sum takes the   *)
(* elements does not matter, are proved by induction.  An induction is     *)
(* stated with a set in place of a predicate, as theorem WFMin is.  So is  *)
(* an order, a set of pairs, in which the elements of a finite set can be  *)
(* listed.                                                                 *)
(***************************************************************************)
EXTENDS Queues, FiniteSetTheorems, WellFoundedInduction, TLAPS

-----------------------------------------------------------------------------
(* Induction.                                                              *)

\* Every set of numbers that is not empty has a least one.
LEMMA LeastNumber ==
  ASSUME NEW T \in SUBSET Nat, T # {}
  PROVE  \E n \in T : \A m \in T : ~(m < n)
<1> DEFINE Less == {p \in Nat \X Nat : p[1] < p[2]}
<1>1. IsWellFoundedOn(Less, Nat)
  BY NatLessThanWellFounded DEF OpToRel
<1>2. PICK n \in T : \A m \in T : <<m, n>> \notin Less
  <2> HIDE DEF Less
  <2> QED BY <1>1, WFMin
<1>3. ASSUME NEW m \in T PROVE ~(m < n)
  BY <1>2
<1> HIDE DEF Less
<1> QED BY <1>3

\* A set of numbers with 0, and with n + 1 for each of its n, has all numbers.
LEMMA NumberInduction ==
  ASSUME NEW T, 0 \in T, \A n \in Nat : n \in T => n + 1 \in T
  PROVE  Nat \subseteq T
<1> SUFFICES ASSUME Nat \ T # {} PROVE FALSE
  OBVIOUS
<1>1. PICK n \in Nat \ T : \A m \in Nat \ T : ~(m < n)
  BY LeastNumber
<1>2. n # 0 /\ n - 1 \in Nat /\ n - 1 < n /\ n = (n - 1) + 1
  OBVIOUS
<1> QED BY <1>1, <1>2

\* A finite set without one of its elements.
LEMMA OneElementLess ==
  ASSUME NEW s, IsFiniteSet(s), NEW x \in s, NEW n \in Nat, Cardinality(s) = n + 1
  PROVE  IsFiniteSet(s \ {x}) /\ Cardinality(s \ {x}) = n
<1>1. Cardinality(s \ {x}) = Cardinality(s) - 1
  BY FS_RemoveElement
<1>2. (n + 1) - 1 = n
  OBVIOUS
<1> QED BY <1>1, <1>2, FS_RemoveElement

\* What holds of the empty set, and of a set with one element more, holds of a finite set.
LEMMA FiniteSetInduction ==
  ASSUME NEW S, IsFiniteSet(S), NEW T,
         {} \in T, \A A \in SUBSET S, x \in S : A \in T /\ x \notin A => A \cup {x} \in T
  PROVE  S \in T
<1> DEFINE Sizes == {n \in Nat : \A A \in SUBSET S : Cardinality(A) = n => A \in T}
<1>1. 0 \in Sizes
  BY FS_EmptySet, FS_Subset
<1>2. ASSUME NEW n \in Nat, n \in Sizes PROVE n + 1 \in Sizes
  <2> SUFFICES ASSUME NEW A \in SUBSET S, Cardinality(A) = n + 1 PROVE A \in T
    OBVIOUS
  <2>1. IsFiniteSet(A)
    BY FS_Subset
  <2>2. PICK x \in A : TRUE
    BY <2>1, FS_EmptySet
  <2>3. Cardinality(A \ {x}) = n
    BY <2>1, <2>2, OneElementLess
  <2>4. A = (A \ {x}) \cup {x} /\ x \notin A \ {x} /\ A \ {x} \in SUBSET S
    BY <2>2
  <2> QED BY <1>2, <2>3, <2>4
<1>3. Nat \subseteq Sizes
  <2> HIDE DEF Sizes
  <2> QED BY <1>1, <1>2, NumberInduction
<1> QED BY <1>3, FS_CardinalityType

\* Two functions of the subsets of S agree on S if they agree on the empty set, and on any
\* other subset when they do on one with an element less: whichever element a recursion takes.
LEMMA AgreeByRemoving ==
  ASSUME NEW S, IsFiniteSet(S), NEW it, NEW jt, it[{}] = jt[{}],
         \A s \in SUBSET S : s # {} =>
           \E x \in s : it[s \ {x}] = jt[s \ {x}] => it[s] = jt[s]
  PROVE  it[S] = jt[S]
<1> DEFINE Sizes == {n \in Nat : \A s \in SUBSET S : Cardinality(s) = n => it[s] = jt[s]}
<1>0. \A s \in SUBSET S : IsFiniteSet(s) /\ Cardinality(s) \in Nat
  BY FS_Subset, FS_CardinalityType
<1>1. 0 \in Sizes
  BY <1>0, FS_EmptySet
<1>2. ASSUME NEW n \in Nat, n \in Sizes PROVE n + 1 \in Sizes
  <2> SUFFICES ASSUME NEW s \in SUBSET S, Cardinality(s) = n + 1 PROVE it[s] = jt[s]
    OBVIOUS
  <2>1. s # {}
    <3>1. Cardinality({}) = 0 /\ n + 1 # 0
      BY FS_EmptySet
    <3> QED BY <3>1
  <2>2. PICK x \in s : it[s \ {x}] = jt[s \ {x}] => it[s] = jt[s]
    BY <2>1
  <2>3. Cardinality(s \ {x}) = n /\ s \ {x} \in SUBSET S
    BY <1>0, OneElementLess
  <2> QED BY <1>2, <2>2, <2>3
<1>3. Nat \subseteq Sizes
  <2> HIDE DEF Sizes
  <2> QED BY <1>1, <1>2, NumberInduction
<1> QED BY <1>0, <1>3

-----------------------------------------------------------------------------
(* The recursion.                                                          *)

\* `it` gives the sum of g over each subset of S, as SumFunctionOnSet works it out.
AddsUp(it, g, S) ==
  it = [s \in SUBSET S |->
          IF s = {} THEN 0 ELSE LET x == CHOOSE y \in s : TRUE IN g[x] + it[s \ {x}]]

\* The library's sum, with its definitions expanded.
LEMMA SumIsRecursive ==
  ASSUME NEW S, NEW g
  PROVE  SumFunctionOnSet(g, S) = (CHOOSE it : AddsUp(it, g, S))[S]
BY DEF SumFunctionOnSet, FoldFunctionOnSet, MapThenFoldSet, AddsUp

\* One that adds up the sets of at most n elements gives one for n + 1 elements.
LEMMA SumsExist ==
  ASSUME NEW S, IsFiniteSet(S), NEW g
  PROVE  \E it : AddsUp(it, g, S)
<1> DEFINE Upto(n) == {s \in SUBSET S : Cardinality(s) <= n}
           Next1(it, s) == IF s = {} THEN 0
                           ELSE LET x == CHOOSE y \in s : TRUE IN g[x] + it[s \ {x}]
           Good(it, n) == it = [s \in Upto(n) |-> Next1(it, s)]
           Sizes == {n \in Nat : \E it : Good(it, n)}
<1>0. \A s \in SUBSET S : IsFiniteSet(s) /\ Cardinality(s) \in Nat
  BY FS_Subset, FS_CardinalityType
<1>1. 0 \in Sizes
  <2>1. \A s \in Upto(0) : s = {}
    BY <1>0, FS_EmptySet
  <2>2. Good([s \in Upto(0) |-> 0], 0)
    BY <2>1
  <2> QED BY <2>2
<1>2. ASSUME NEW n \in Nat, n \in Sizes PROVE n + 1 \in Sizes
  <2>1. PICK it : Good(it, n)
    BY <1>2
  <2> DEFINE more == [s \in Upto(n + 1) |-> Next1(it, s)]
  <2>2. ASSUME NEW s \in Upto(n) PROVE s \in Upto(n + 1) /\ more[s] = it[s]
    BY <1>0, <2>1
  <2>3. ASSUME NEW s \in Upto(n + 1), s # {}
        PROVE  s \ {CHOOSE y \in s : TRUE} \in Upto(n)
    <3>1. PICK x \in s : x = CHOOSE y \in s : TRUE
      BY <2>3
    <3>2. Cardinality(s \ {x}) = Cardinality(s) - 1
      BY <1>0, FS_RemoveElement
    <3>3. Cardinality(s \ {x}) <= n
      BY <1>0, <3>2
    <3> QED BY <3>1, <3>3
  <2>4. \A s \in Upto(n + 1) : Next1(it, s) = Next1(more, s)
    <3> HIDE DEF Upto, more
    <3> QED BY <2>2, <2>3
  <2>5. Good(more, n + 1)
    <3>1. [s \in Upto(n + 1) |-> Next1(it, s)] = [s \in Upto(n + 1) |-> Next1(more, s)]
      <4> HIDE DEF Upto, Next1, more
      <4> QED BY <2>4
    <3>2. more = [s \in Upto(n + 1) |-> Next1(more, s)]
      <4>1. more = [s \in Upto(n + 1) |-> Next1(it, s)]
        OBVIOUS
      <4> QED BY <3>1, <4>1
    <3> QED BY <3>2
  <2>6. \E jt : Good(jt, n + 1)
    <3> HIDE DEF Good, more
    <3> QED BY <2>5
  <2> HIDE DEF Good
  <2> QED BY <2>6
<1>3. Cardinality(S) \in Sizes
  <2> HIDE DEF Sizes
  <2> QED BY <1>1, <1>2, NumberInduction, FS_CardinalityType
<1>4. Upto(Cardinality(S)) = SUBSET S
  BY FS_Subset, FS_CardinalityType
<1> QED BY <1>3, <1>4 DEF AddsUp

\* The sum over R does not depend on the set whose subsets are added up on the way.
LEMMA SumsAgree ==
  ASSUME NEW S, IsFiniteSet(S), NEW R \in SUBSET S, NEW g, NEW it, NEW jt,
         AddsUp(it, g, S), AddsUp(jt, g, R)
  PROVE  it[R] = jt[R]
<1>1. it[{}] = 0 /\ jt[{}] = 0
  BY DEF AddsUp
<1>2. ASSUME NEW s \in SUBSET R, s # {}
      PROVE  \E x \in s : it[s \ {x}] = jt[s \ {x}] => it[s] = jt[s]
  <2> DEFINE x == CHOOSE y \in s : TRUE
  <2>1. x \in s
    BY <1>2
  <2>2. it[s] = g[x] + it[s \ {x}] /\ jt[s] = g[x] + jt[s \ {x}]
    BY <1>2 DEF AddsUp
  <2> QED BY <2>1, <2>2
<1>3. \A s \in SUBSET R : s # {} =>
        \E x \in s : it[s \ {x}] = jt[s \ {x}] => it[s] = jt[s]
  BY <1>2
<1>4. IsFiniteSet(R) /\ it[{}] = jt[{}]
  BY <1>1, FS_Subset
<1> QED BY ONLY <1>3, <1>4, AgreeByRemoving

\* The sum over no element.
LEMMA SumOfNone ==
  ASSUME NEW g
  PROVE  SumFunctionOnSet(g, {}) = 0
<1>1. \E it : AddsUp(it, g, {})
  BY SumsExist, FS_EmptySet
<1>2. AddsUp(CHOOSE it : AddsUp(it, g, {}), g, {})
  BY <1>1
<1> QED BY <1>2, SumIsRecursive DEF AddsUp

\* The element that is taken first is the one that is chosen.
LEMMA SumTakesOne ==
  ASSUME NEW S, IsFiniteSet(S), S # {}, NEW g
  PROVE  \E x \in S : SumFunctionOnSet(g, S) = g[x] + SumFunctionOnSet(g, S \ {x})
<1> DEFINE x == CHOOSE y \in S : TRUE
<1> DEFINE it == CHOOSE i : AddsUp(i, g, S)
           jt == CHOOSE j : AddsUp(j, g, S \ {x})
<1>1. AddsUp(it, g, S)
  BY SumsExist
<1>2. IsFiniteSet(S \ {x}) /\ S \ {x} \in SUBSET S
  BY FS_Subset
<1>3. AddsUp(jt, g, S \ {x})
  BY <1>2, SumsExist
<1>4. SumFunctionOnSet(g, S) = it[S] /\ SumFunctionOnSet(g, S \ {x}) = jt[S \ {x}]
  BY SumIsRecursive
<1> HIDE DEF it, jt
<1>5. it[S \ {x}] = jt[S \ {x}]
  BY <1>1, <1>2, <1>3, SumsAgree
<1>6. it[S] = g[x] + it[S \ {x}]
  BY <1>1 DEF AddsUp
<1>7. x \in S
  OBVIOUS
<1> HIDE DEF x
<1> QED BY <1>4, <1>5, <1>6, <1>7

-----------------------------------------------------------------------------
(* Sums of integers.                                                       *)

\* A sum of integers is an integer.
LEMMA SumType ==
  ASSUME NEW S, IsFiniteSet(S), NEW g, \A x \in S : g[x] \in Int
  PROVE  SumFunctionOnSet(g, S) \in Int
<1> DEFINE Sizes == {n \in Nat : \A s \in SUBSET S :
                       Cardinality(s) = n => SumFunctionOnSet(g, s) \in Int}
<1>0. \A s \in SUBSET S : IsFiniteSet(s) /\ Cardinality(s) \in Nat
  BY FS_Subset, FS_CardinalityType
<1>1. 0 \in Sizes
  BY <1>0, FS_EmptySet, SumOfNone
<1>2. ASSUME NEW n \in Nat, n \in Sizes PROVE n + 1 \in Sizes
  <2> SUFFICES ASSUME NEW s \in SUBSET S, Cardinality(s) = n + 1
               PROVE  SumFunctionOnSet(g, s) \in Int
    OBVIOUS
  <2>1. s # {}
    BY FS_EmptySet
  <2>2. PICK x \in s : SumFunctionOnSet(g, s) = g[x] + SumFunctionOnSet(g, s \ {x})
    BY <1>0, <2>1, SumTakesOne
  <2>3. Cardinality(s \ {x}) = n /\ s \ {x} \in SUBSET S
    BY <1>0, OneElementLess
  <2> QED BY <1>2, <2>2, <2>3
<1>3. Cardinality(S) \in Sizes
  <2> HIDE DEF Sizes
  <2> QED BY <1>0, <1>1, <1>2, NumberInduction
<1> QED BY <1>3

\* Whichever element is taken first.
LEMMA SumTakesAny ==
  ASSUME NEW S, IsFiniteSet(S), NEW g, \A x \in S : g[x] \in Int, NEW z \in S
  PROVE  SumFunctionOnSet(g, S) = g[z] + SumFunctionOnSet(g, S \ {z})
<1> DEFINE Sum(s) == SumFunctionOnSet(g, s)
           Sizes == {n \in Nat : \A s \in SUBSET S : Cardinality(s) = n =>
                       \A x \in s : Sum(s) = g[x] + Sum(s \ {x})}
<1>0. \A s \in SUBSET S : IsFiniteSet(s) /\ Cardinality(s) \in Nat
  BY FS_Subset, FS_CardinalityType
<1>1. 0 \in Sizes
  BY <1>0, FS_EmptySet
<1>2. ASSUME NEW n \in Nat, n \in Sizes PROVE n + 1 \in Sizes
  <2> SUFFICES ASSUME NEW s \in SUBSET S, Cardinality(s) = n + 1, NEW x \in s
               PROVE  Sum(s) = g[x] + Sum(s \ {x})
    OBVIOUS
  <2>1. PICK c \in s : Sum(s) = g[c] + Sum(s \ {c})
    BY <1>0, SumTakesOne
  <2>4. CASE x = c
    <3> HIDE DEF Sizes, Sum
    <3> QED BY <2>1, <2>4
  <2>5. CASE x # c
    <3>1. /\ Cardinality(s \ {c}) = n /\ s \ {c} \in SUBSET S /\ x \in s \ {c}
          /\ Cardinality(s \ {x}) = n /\ s \ {x} \in SUBSET S /\ c \in s \ {x}
      BY <1>0, <2>5, OneElementLess
    <3>4. (s \ {c}) \ {x} = (s \ {x}) \ {c}
      OBVIOUS
    <3>2. Sum(s \ {c}) = g[x] + Sum((s \ {x}) \ {c})
      BY <1>2, <3>1, <3>4
    <3>3. Sum(s \ {x}) = g[c] + Sum((s \ {x}) \ {c})
      BY <1>2, <3>1
    <3>5. Sum((s \ {x}) \ {c}) \in Int /\ g[x] \in Int /\ g[c] \in Int
      <4>1. IsFiniteSet((s \ {x}) \ {c}) /\ \A y \in (s \ {x}) \ {c} : g[y] \in Int
        BY <1>0, FS_Subset
      <4> QED BY <4>1, SumType
    <3> HIDE DEF Sum, Sizes
    <3> QED BY <2>1, <3>2, <3>3, <3>5
  <2> QED BY <2>4, <2>5
<1>3. Cardinality(S) \in Sizes
  <2> HIDE DEF Sizes
  <2> QED BY <1>0, <1>1, <1>2, NumberInduction
<1> QED BY <1>3

\* One with one element more.
LEMMA SumOfOneMore ==
  ASSUME NEW S, IsFiniteSet(S), NEW g, \A x \in S : g[x] \in Int,
         NEW A \in SUBSET S, NEW x \in S, x \notin A
  PROVE  /\ SumFunctionOnSet(g, A) \in Int
         /\ SumFunctionOnSet(g, A \cup {x}) = g[x] + SumFunctionOnSet(g, A)
<1>1. IsFiniteSet(A) /\ IsFiniteSet(A \cup {x})
  BY FS_Subset, FS_AddElement
<1>2. (A \cup {x}) \ {x} = A
  OBVIOUS
<1>3. SumFunctionOnSet(g, A \cup {x}) = g[x] + SumFunctionOnSet(g, (A \cup {x}) \ {x})
  BY <1>1, SumTakesAny
<1> QED BY <1>1, <1>2, <1>3, SumType

\* A sum of sums.
LEMMA SumsAdd ==
  ASSUME NEW S, IsFiniteSet(S), NEW g, NEW h, NEW d,
         \A x \in S : g[x] \in Int /\ d[x] \in Int /\ h[x] = g[x] + d[x]
  PROVE  SumFunctionOnSet(h, S) = SumFunctionOnSet(g, S) + SumFunctionOnSet(d, S)
<1> DEFINE T == {A \in SUBSET S :
                   SumFunctionOnSet(h, A) = SumFunctionOnSet(g, A) + SumFunctionOnSet(d, A)}
<1>1. {} \in T
  BY SumOfNone
<1>2. ASSUME NEW A \in SUBSET S, NEW x \in S, A \in T, x \notin A
      PROVE  A \cup {x} \in T
  <2>1. /\ SumFunctionOnSet(g, A) \in Int
        /\ SumFunctionOnSet(g, A \cup {x}) = g[x] + SumFunctionOnSet(g, A)
    BY <1>2, SumOfOneMore
  <2>2. /\ SumFunctionOnSet(d, A) \in Int
        /\ SumFunctionOnSet(d, A \cup {x}) = d[x] + SumFunctionOnSet(d, A)
    BY <1>2, SumOfOneMore
  <2>3. SumFunctionOnSet(h, A \cup {x}) = h[x] + SumFunctionOnSet(h, A)
    <3>1. \A y \in S : h[y] \in Int
      OBVIOUS
    <3> QED BY <1>2, <3>1, SumOfOneMore
  <2>4. A \cup {x} \in SUBSET S
    OBVIOUS
  <2>5. SumFunctionOnSet(h, A) = SumFunctionOnSet(g, A) + SumFunctionOnSet(d, A)
    BY <1>2
  <2>6. h[x] = g[x] + d[x] /\ g[x] \in Int /\ d[x] \in Int
    OBVIOUS
  <2>7. SumFunctionOnSet(h, A \cup {x})
          = SumFunctionOnSet(g, A \cup {x}) + SumFunctionOnSet(d, A \cup {x})
    BY <2>1, <2>2, <2>3, <2>5, <2>6
  <2> QED BY <2>4, <2>7
<1>3. S \in T
  <2> HIDE DEF T
  <2> QED BY <1>1, <1>2, FiniteSetInduction
<1> QED BY <1>3

\* A sum of zeros is zero.
LEMMA SumOfZeros ==
  ASSUME NEW S, IsFiniteSet(S), NEW g, \A x \in S : g[x] = 0
  PROVE  SumFunctionOnSet(g, S) = 0
<1>1. \A x \in S : g[x] \in Int /\ g[x] = g[x] + g[x]
  OBVIOUS
<1>2. SumFunctionOnSet(g, S) = SumFunctionOnSet(g, S) + SumFunctionOnSet(g, S)
  BY <1>1, SumsAdd
<1> QED BY <1>1, <1>2, SumType

\* Only what a function is on the set counts.
LEMMA SumsEqual ==
  ASSUME NEW S, IsFiniteSet(S), NEW g, NEW h, \A x \in S : g[x] \in Int /\ h[x] = g[x]
  PROVE  SumFunctionOnSet(h, S) = SumFunctionOnSet(g, S)
<1>0. PICK d : \A x \in S : d[x] = 0
  <2> WITNESS [x \in S |-> 0]
  <2> QED OBVIOUS
<1>1. \A x \in S : g[x] \in Int /\ d[x] \in Int /\ h[x] = g[x] + d[x]
  BY <1>0
<1>2. SumFunctionOnSet(d, S) = 0
  BY <1>0, SumOfZeros
<1>3. SumFunctionOnSet(h, S) = SumFunctionOnSet(g, S) + SumFunctionOnSet(d, S)
  <2>1. IsFiniteSet(S)
    OBVIOUS
  <2> QED BY ONLY <1>1, <2>1, SumsAdd
<1>4. SumFunctionOnSet(g, S) \in Int
  BY SumType
<1> QED BY <1>2, <1>3, <1>4

\* A sum moves by what one summand moves by.
LEMMA SumChangesAt ==
  ASSUME NEW S, IsFiniteSet(S), NEW g, NEW h, NEW z \in S, h[z] \in Int,
         \A x \in S : g[x] \in Int, \A x \in S \ {z} : h[x] = g[x]
  PROVE  SumFunctionOnSet(h, S) = SumFunctionOnSet(g, S) - g[z] + h[z]
<1>1. IsFiniteSet(S \ {z})
  BY FS_RemoveElement
<1>2. SumFunctionOnSet(g, S) = g[z] + SumFunctionOnSet(g, S \ {z})
  BY SumTakesAny
<1>3. SumFunctionOnSet(h, S) = h[z] + SumFunctionOnSet(h, S \ {z})
  <2>1. \A x \in S : h[x] \in Int
    OBVIOUS
  <2> QED BY <2>1, SumTakesAny
<1>4. SumFunctionOnSet(h, S \ {z}) = SumFunctionOnSet(g, S \ {z})
  BY <1>1, SumsEqual
<1>5. SumFunctionOnSet(g, S \ {z}) \in Int /\ g[z] \in Int
  BY <1>1, SumType
<1> QED BY <1>2, <1>3, <1>4, <1>5

\* A sum of natural numbers is one, and no less than any summand.
LEMMA SumOfNats ==
  ASSUME NEW S, IsFiniteSet(S), NEW g, \A x \in S : g[x] \in Nat
  PROVE  /\ SumFunctionOnSet(g, S) \in Nat
         /\ \A x \in S : g[x] <= SumFunctionOnSet(g, S)
<1> DEFINE T == {A \in SUBSET S : SumFunctionOnSet(g, A) \in Nat}
<1>0. \A x \in S : g[x] \in Int
  OBVIOUS
<1>1. {} \in T
  BY SumOfNone
<1>2. ASSUME NEW A \in SUBSET S, NEW x \in S, A \in T, x \notin A
      PROVE  A \cup {x} \in T
  BY <1>0, <1>2, SumOfOneMore
<1>3. \A A \in SUBSET S : A \in T
  <2> TAKE A \in SUBSET S
  <2>1. IsFiniteSet(A)
    BY FS_Subset
  <2>2. \A B \in SUBSET A, x \in A : B \in T /\ x \notin B => B \cup {x} \in T
    BY <1>2
  <2> HIDE DEF T
  <2> QED BY <1>1, <2>1, <2>2, FiniteSetInduction
<1>4. ASSUME NEW x \in S PROVE g[x] <= SumFunctionOnSet(g, S)
  <2>1. SumFunctionOnSet(g, S) = g[x] + SumFunctionOnSet(g, S \ {x})
    BY <1>0, SumTakesAny
  <2>2. SumFunctionOnSet(g, S \ {x}) \in Nat
    BY <1>3
  <2> QED BY <2>1, <2>2
<1> QED BY <1>3, <1>4

-----------------------------------------------------------------------------
(* The same of a function and its domain.                                  *)

\* SumOfNats of a function.
LEMMA SumFunctionType ==
  ASSUME NEW S, IsFiniteSet(S), NEW g \in [S -> Nat]
  PROVE  SumFunction(g) \in Nat /\ \A x \in S : g[x] <= SumFunction(g)
<1>1. SumFunction(g) = SumFunctionOnSet(g, S)
  BY DEF SumFunction
<1> QED BY <1>1, SumOfNats

\* SumOfZeros of a function.
LEMMA SumFunctionOfZeros ==
  ASSUME NEW S, IsFiniteSet(S), NEW g \in [S -> Nat], \A x \in S : g[x] = 0
  PROVE  SumFunction(g) = 0
<1>1. SumFunction(g) = SumFunctionOnSet(g, S)
  BY DEF SumFunction
<1> QED BY <1>1, SumOfZeros

\* SumChangesAt of a function.
LEMMA SumFunctionChangesAt ==
  ASSUME NEW S, IsFiniteSet(S), NEW g \in [S -> Nat], NEW h \in [S -> Nat],
         NEW z \in S, \A x \in S \ {z} : h[x] = g[x]
  PROVE  SumFunction(h) = SumFunction(g) - g[z] + h[z]
<1>1. SumFunction(g) = SumFunctionOnSet(g, S) /\ SumFunction(h) = SumFunctionOnSet(h, S)
  BY DEF SumFunction
<1>2. h[z] \in Int /\ \A x \in S : g[x] \in Int
  OBVIOUS
<1>3. SumFunctionOnSet(h, S) = SumFunctionOnSet(g, S) - g[z] + h[z]
  BY <1>2, SumChangesAt
<1> QED BY <1>1, <1>3

\* In a table that is zero outside one row, the sum is that row's.
LEMMA SumOfRow ==
  ASSUME NEW F, NEW R, IsFiniteSet(F), IsFiniteSet(R), NEW f \in F, NEW t \in [R -> Nat],
         NEW g \in [F \X R -> Nat],
         \A r \in R : g[<<f, r>>] = t[r], \A k \in F \X R : k[1] # f => g[k] = 0
  PROVE  SumFunction(g) = SumFunction(t)
<1> DEFINE Table(A) == [k \in F \X R |-> IF k[1] = f /\ k[2] \in A THEN t[k[2]] ELSE 0]
           Row(A) == [r \in R |-> IF r \in A THEN t[r] ELSE 0]
           T == {A \in SUBSET R : SumFunction(Table(A)) = SumFunction(Row(A))}
<1>1. IsFiniteSet(F \X R)
  BY FS_Product
<1>2. \A A \in SUBSET R : Table(A) \in [F \X R -> Nat] /\ Row(A) \in [R -> Nat]
  OBVIOUS
<1>3. {} \in T
  <2>1. SumFunction(Table({})) = 0
    BY <1>1, <1>2, SumFunctionOfZeros
  <2>2. SumFunction(Row({})) = 0
    BY <1>2, SumFunctionOfZeros
  <2> QED BY <2>1, <2>2
<1>4. ASSUME NEW A \in SUBSET R, NEW x \in R, A \in T, x \notin A
      PROVE  A \cup {x} \in T
  <2>1. PICK a \in [F \X R -> Nat] : a = Table(A)
    BY <1>2
  <2>2. PICK b \in [F \X R -> Nat] : b = Table(A \cup {x})
    BY <1>2
  <2>3. PICK c \in [R -> Nat] : c = Row(A)
    BY <1>2
  <2>4. PICK d \in [R -> Nat] : d = Row(A \cup {x})
    BY <1>2
  <2>5. /\ a[<<f, x>>] = 0 /\ b[<<f, x>>] = t[x] /\ c[x] = 0 /\ d[x] = t[x]
        /\ \A k \in (F \X R) \ {<<f, x>>} : b[k] = a[k]
        /\ \A r \in R \ {x} : d[r] = c[r]
    BY <1>4, <2>1, <2>2, <2>3, <2>4
  <2>6. SumFunction(b) = SumFunction(a) - a[<<f, x>>] + b[<<f, x>>]
    <3>1. PICK z \in F \X R : z = <<f, x>>
      OBVIOUS
    <3>2. \A k \in (F \X R) \ {z} : b[k] = a[k]
      BY <2>5, <3>1
    <3>3. SumFunction(b) = SumFunction(a) - a[z] + b[z]
      BY ONLY <1>1, <3>2, SumFunctionChangesAt, a \in [F \X R -> Nat],
              b \in [F \X R -> Nat], z \in F \X R
    <3> QED BY <3>1, <3>3
  <2>7. SumFunction(d) = SumFunction(c) - c[x] + d[x]
    BY ONLY <2>5, SumFunctionChangesAt, c \in [R -> Nat], d \in [R -> Nat], x \in R,
            IsFiniteSet(R)
  <2>8. SumFunction(a) = SumFunction(c)
    BY <1>4, <2>1, <2>3
  <2>9. SumFunction(b) = SumFunction(d)
    BY <2>5, <2>6, <2>7, <2>8
  <2> QED BY <2>2, <2>4, <2>9
<1>5. R \in T
  <2> HIDE DEF T
  <2> QED BY <1>3, <1>4, FiniteSetInduction
<1>6. Row(R) = t
  OBVIOUS
<1>7. Table(R) = g
  OBVIOUS
<1> QED BY <1>5, <1>6, <1>7

\* Sums of functions with the same domain add up.
LEMMA SumFunctionAdds ==
  ASSUME NEW S, IsFiniteSet(S), NEW g \in [S -> Nat], NEW d \in [S -> Nat],
         NEW h \in [S -> Nat], \A x \in S : h[x] = g[x] + d[x]
  PROVE  SumFunction(h) = SumFunction(g) + SumFunction(d)
<1>1. \A x \in S : g[x] \in Int /\ d[x] \in Int /\ h[x] = g[x] + d[x]
  OBVIOUS
<1>2. SumFunctionOnSet(h, S) = SumFunctionOnSet(g, S) + SumFunctionOnSet(d, S)
  BY <1>1, SumsAdd
<1> QED BY <1>2 DEF SumFunction

\* Smaller numbers have no greater sum.
LEMMA SumFunctionAtMost ==
  ASSUME NEW S, IsFiniteSet(S), NEW g \in [S -> Nat], NEW h \in [S -> Nat],
         \A x \in S : g[x] <= h[x]
  PROVE  SumFunction(g) <= SumFunction(h)
<1>1. PICK d \in [S -> Nat] : \A x \in S : h[x] = g[x] + d[x]
  <2> DEFINE d == [x \in S |-> h[x] - g[x]]
  <2>1. d \in [S -> Nat] /\ \A x \in S : h[x] = g[x] + d[x]
    OBVIOUS
  <2> HIDE DEF d
  <2> QED BY <2>1
<1>2. SumFunction(h) = SumFunction(g) + SumFunction(d)
  BY <1>1, SumFunctionAdds
<1>3. SumFunction(g) \in Nat /\ SumFunction(d) \in Nat
  BY SumFunctionType
<1> QED BY <1>2, <1>3

\* A function with one argument more.
LEMMA SumFunctionGains ==
  ASSUME NEW S, IsFiniteSet(S), NEW z, z \notin S, NEW g \in [S -> Nat],
         NEW h \in [S \cup {z} -> Nat], \A x \in S : h[x] = g[x]
  PROVE  SumFunction(h) = SumFunction(g) + h[z]
<1>1. IsFiniteSet(S \cup {z}) /\ (S \cup {z}) \ {z} = S
  BY FS_AddElement
<1>2. (\A x \in S \cup {z} : h[x] \in Int) /\ (\A x \in S : g[x] \in Int) /\ h[z] \in Int
  OBVIOUS
<1>3. SumFunctionOnSet(h, S \cup {z}) = h[z] + SumFunctionOnSet(h, S)
  BY <1>1, <1>2, SumTakesAny
<1>4. SumFunctionOnSet(h, S) = SumFunctionOnSet(g, S) /\ SumFunctionOnSet(g, S) \in Int
  BY <1>2, SumsEqual, SumType
<1>5. SumFunction(h) = SumFunctionOnSet(h, S \cup {z}) /\ SumFunction(g) = SumFunctionOnSet(g, S)
  BY DEF SumFunction
<1> QED BY <1>2, <1>3, <1>4, <1>5

\* The sum over a set is that over a part of it and that over the rest.
LEMMA SumSplits ==
  ASSUME NEW S, IsFiniteSet(S), NEW g, \A x \in S : g[x] \in Int, NEW A \in SUBSET S
  PROVE  SumFunctionOnSet(g, S) = SumFunctionOnSet(g, A) + SumFunctionOnSet(g, S \ A)
<1> DEFINE T == {B \in SUBSET A :
                   SumFunctionOnSet(g, S) = SumFunctionOnSet(g, B) + SumFunctionOnSet(g, S \ B)}
<1>1. {} \in T
  <2>1. S \ {} = S /\ SumFunctionOnSet(g, S) \in Int
    BY SumType
  <2> QED BY <2>1, SumOfNone
<1>2. ASSUME NEW B \in SUBSET A, NEW x \in A, B \in T, x \notin B
      PROVE  B \cup {x} \in T
  <2>1. /\ IsFiniteSet(S \ B) /\ x \in S \ B /\ g[x] \in Int
        /\ (S \ B) \ {x} = S \ (B \cup {x})
    BY <1>2, FS_Subset
  <2>2. SumFunctionOnSet(g, S \ B) = g[x] + SumFunctionOnSet(g, S \ (B \cup {x}))
    BY <2>1, SumTakesAny
  <2>3. /\ SumFunctionOnSet(g, B) \in Int
        /\ SumFunctionOnSet(g, B \cup {x}) = g[x] + SumFunctionOnSet(g, B)
    BY <1>2, SumOfOneMore
  <2>4. IsFiniteSet(S \ (B \cup {x})) /\ \A y \in S \ (B \cup {x}) : g[y] \in Int
    BY FS_Subset
  <2>5. SumFunctionOnSet(g, S \ (B \cup {x})) \in Int
    BY <2>4, SumType
  <2> QED BY <1>2, <2>1, <2>2, <2>3, <2>5
<1>3. A \in T
  <2>1. IsFiniteSet(A)
    BY FS_Subset
  <2> HIDE DEF T
  <2> QED BY <1>1, <1>2, <2>1, FiniteSetInduction
<1> QED BY <1>3

\* u is the table t of numbers, a column for a row.
Transposed(t, u, A, B) ==
  /\ \A a \in A : t[a] \in [B -> Nat]
  /\ \A b \in B : u[b] \in [A -> Nat] /\ \A a \in A : u[b][a] = t[a][b]

\* Each row of the table t has its sum.
RowSums(sums, t, A) == sums \in [A -> Nat] /\ \A a \in A : sums[a] = SumFunction(t[a])

\* A table is summed up by rows or by columns.
LEMMA SumsSwap ==
  ASSUME NEW A, NEW B, IsFiniteSet(A), IsFiniteSet(B),
         NEW t, NEW u, Transposed(t, u, A, B),
         NEW rows, RowSums(rows, t, A), NEW columns, RowSums(columns, u, B)
  PROVE  SumFunction(rows) = SumFunction(columns)
<1> DEFINE Columns(X) == [b \in B |-> SumFunctionOnSet(u[b], X)]
           T == {X \in SUBSET A : SumFunctionOnSet(rows, X) = SumFunction(Columns(X))}
<1>0. /\ \A a \in A : t[a] \in [B -> Nat] /\ rows[a] \in Nat /\ rows[a] = SumFunction(t[a])
      /\ \A b \in B, a \in A : u[b][a] \in Int /\ u[b][a] \in Nat
                               /\ u[b][a] = t[a][b]
      /\ \A b \in B : columns[b] = SumFunction(u[b])
      /\ columns \in [B -> Nat]
  BY DEF Transposed, RowSums
<1>1. ASSUME NEW X \in SUBSET A PROVE Columns(X) \in [B -> Nat]
  <2>1. IsFiniteSet(X)
    BY FS_Subset
  <2>2. \A b \in B : SumFunctionOnSet(u[b], X) \in Nat
    BY <1>0, <2>1, SumOfNats
  <2> QED BY <2>2
<1>2. {} \in T
  <2>1. \A b \in B : Columns({})[b] = 0
    BY SumOfNone
  <2>2. SumFunction(Columns({})) = 0
    <3> HIDE DEF Columns
    <3> QED BY <1>1, <2>1, SumFunctionOfZeros
  <2> QED BY <2>2, SumOfNone
<1>3. ASSUME NEW X \in SUBSET A, NEW x \in A, X \in T, x \notin X
      PROVE  X \cup {x} \in T
  <2>0. x \notin X /\ SumFunctionOnSet(rows, X) = SumFunction(Columns(X))
    BY <1>3
  <2>1. PICK g \in [B -> Nat], h \in [B -> Nat], d \in [B -> Nat] :
          g = Columns(X) /\ h = Columns(X \cup {x}) /\ d = t[x]
    <3>1. X \cup {x} \in SUBSET A
      OBVIOUS
    <3> HIDE DEF Columns
    <3> QED BY <1>0, <1>1, <3>1
  <2>2. \A b \in B : h[b] = g[b] + d[b]
    <3> SUFFICES ASSUME NEW b \in B PROVE h[b] = g[b] + d[b]
      OBVIOUS
    <3>1. \A a \in A : u[b][a] \in Int
      BY <1>0
    <3>2. /\ SumFunctionOnSet(u[b], X) \in Int
          /\ SumFunctionOnSet(u[b], X \cup {x}) = u[b][x] + SumFunctionOnSet(u[b], X)
      BY ONLY IsFiniteSet(A), X \in SUBSET A, x \in A, <2>0, <3>1, SumOfOneMore
    <3>3. u[b][x] = d[b] /\ u[b][x] \in Int
      BY <1>0, <2>1
    <3>4. g[b] = SumFunctionOnSet(u[b], X) /\ h[b] = SumFunctionOnSet(u[b], X \cup {x})
      BY <2>1
    <3> QED BY <3>2, <3>3, <3>4
  <2>3. SumFunction(h) = SumFunction(g) + SumFunction(d)
    BY <2>2, SumFunctionAdds
  <2>4. \A a \in A : rows[a] \in Int
    BY <1>0
  <2>5. /\ SumFunctionOnSet(rows, X) \in Int
        /\ SumFunctionOnSet(rows, X \cup {x}) = rows[x] + SumFunctionOnSet(rows, X)
    <3>1. x \notin X
      BY <2>0
    <3> QED BY ONLY <3>1, <2>4, IsFiniteSet(A), X \in SUBSET A, x \in A, SumOfOneMore
  <2>6. rows[x] = SumFunction(d) /\ rows[x] \in Int
    BY <1>0, <2>1
  <2>7. SumFunctionOnSet(rows, X) = SumFunction(g)
    BY <2>0, <2>1
  <2>8. SumFunctionOnSet(rows, X \cup {x}) = SumFunction(h)
    BY <2>3, <2>5, <2>6, <2>7
  <2> QED BY <2>1, <2>8
<1>4. A \in T
  <2> HIDE DEF T
  <2> QED BY <1>2, <1>3, FiniteSetInduction
<1>5. SumFunctionOnSet(rows, A) = SumFunction(rows)
  BY DEF SumFunction, RowSums
<1>6. Columns(A) = columns
  <2>1. \A b \in B : Columns(A)[b] = columns[b]
    BY <1>0 DEF SumFunction, Transposed
  <2> HIDE DEF Columns
  <2> QED BY <1>0, <1>1, <2>1
<1> QED BY <1>4, <1>5, <1>6
-----------------------------------------------------------------------------
(* What of a queue is in a set.                                            *)

Greatest(s) == CHOOSE i \in s : \A j \in s : i >= j

\* A set of numbers that has a bound has a greatest.
LEMMA GreatestNumber ==
  ASSUME NEW n \in Nat, NEW s \in SUBSET (1..n), s # {}
  PROVE  Greatest(s) \in s /\ \A j \in s : Greatest(s) >= j
<1> DEFINE T == {n - i : i \in s}
<1>1. T \in SUBSET Nat /\ T # {}
  <2>1. \A i \in s : n - i \in Nat
    OBVIOUS
  <2>2. PICK i \in s : TRUE
    OBVIOUS
  <2> QED BY <2>1, <2>2
<1>2. PICK m \in T : \A k \in T : ~(k < m)
  BY <1>1, LeastNumber
<1>3. PICK i \in s : m = n - i
  BY <1>2
<1>4. \A j \in s : i >= j
  <2> SUFFICES ASSUME NEW j \in s PROVE i >= j
    OBVIOUS
  <2>1. ~(n - j < n - i)
    BY <1>2, <1>3
  <2> QED BY <2>1
<1> QED BY <1>3, <1>4 DEF Greatest

\* `it` gives what of q is in W at each set of q's positions, as Among works it out.
Selects(it, q, W) ==
  it = [s \in SUBSET DOMAIN q |->
          IF s = {} THEN <<>>
          ELSE LET x == Greatest(s)
               IN  IF q[x] \in W THEN Append(it[s \ {x}], q[x]) ELSE it[s \ {x}]]

\* Among as the recursion it is.
LEMMA AmongIsRecursive ==
  ASSUME NEW q, NEW W
  PROVE  Among(q, W) = (CHOOSE it : Selects(it, q, W))[DOMAIN q]
BY DEF Among, FoldLeft, MapThenFoldSet, Selects, Max, Greatest

\* One that selects at sets of at most n positions gives one for n + 1 positions.
LEMMA SelectionExists ==
  ASSUME NEW S, NEW q \in Seq(S), NEW W
  PROVE  \E it : Selects(it, q, W)
<1> DEFINE D == 1..Len(q)
           Upto(n) == {s \in SUBSET D : Cardinality(s) <= n}
           Select1(it, s) == IF s = {} THEN <<>>
                             ELSE LET x == Greatest(s)
                                  IN  IF q[x] \in W THEN Append(it[s \ {x}], q[x])
                                      ELSE it[s \ {x}]
           Good(it, n) == it = [s \in Upto(n) |-> Select1(it, s)]
           Sizes == {n \in Nat : \E it : Good(it, n)}
<1>0. IsFiniteSet(D) /\ \A s \in SUBSET D : IsFiniteSet(s) /\ Cardinality(s) \in Nat
  <2>1. IsFiniteSet(D)
    BY FS_Interval, 1 \in Int, Len(q) \in Int
  <2> HIDE DEF D
  <2> QED BY <2>1, FS_Subset, FS_CardinalityType
<1>5. \A s \in SUBSET D : s # {} => Greatest(s) \in s
  BY GreatestNumber, Len(q) \in Nat
<1>6. DOMAIN q = D
  OBVIOUS
<1> HIDE DEF D
<1>1. 0 \in Sizes
  <2>1. \A s \in Upto(0) : s = {}
    BY <1>0, FS_EmptySet
  <2>2. Good([s \in Upto(0) |-> <<>>], 0)
    BY <2>1
  <2> QED BY <2>2
<1>2. ASSUME NEW n \in Nat, n \in Sizes PROVE n + 1 \in Sizes
  <2>1. PICK it : Good(it, n)
    BY <1>2
  <2> DEFINE more == [s \in Upto(n + 1) |-> Select1(it, s)]
  <2>2. ASSUME NEW s \in Upto(n) PROVE s \in Upto(n + 1) /\ more[s] = it[s]
    <3>1. s \in Upto(n + 1)
      BY <1>0
    <3> HIDE DEF Upto, Select1
    <3> QED BY <2>1, <3>1
  <2>3. ASSUME NEW s \in Upto(n + 1), s # {}
        PROVE  s \ {Greatest(s)} \in Upto(n)
    <3>1. Greatest(s) \in s
      BY <1>5, <2>3
    <3>2. Cardinality(s \ {Greatest(s)}) = Cardinality(s) - 1
      BY <1>0, <3>1, FS_RemoveElement
    <3>3. Cardinality(s \ {Greatest(s)}) <= n
      BY <1>0, <3>2
    <3> QED BY <3>3
  <2>4. \A s \in Upto(n + 1) : Select1(it, s) = Select1(more, s)
    <3> HIDE DEF Upto, more
    <3> QED BY <2>2, <2>3
  <2>5. Good(more, n + 1)
    <3>1. [s \in Upto(n + 1) |-> Select1(it, s)] = [s \in Upto(n + 1) |-> Select1(more, s)]
      <4> HIDE DEF Upto, Select1, more
      <4> QED BY <2>4
    <3>2. more = [s \in Upto(n + 1) |-> Select1(more, s)]
      <4>1. more = [s \in Upto(n + 1) |-> Select1(it, s)]
        OBVIOUS
      <4> QED BY <3>1, <4>1
    <3> QED BY <3>2
  <2>6. \E jt : Good(jt, n + 1)
    <3> HIDE DEF Good, more
    <3> QED BY <2>5
  <2> HIDE DEF Good
  <2> QED BY <2>6
<1>3. Cardinality(D) \in Sizes
  <2> HIDE DEF Sizes
  <2> QED BY <1>0, <1>1, <1>2, NumberInduction
<1>4. Upto(Cardinality(D)) = SUBSET D
  BY <1>0, FS_Subset, FS_CardinalityType
<1> QED BY <1>3, <1>4, <1>6 DEF Selects

\* h says where in q, in the same order, the elements of p are that are those in W.
Picks(p, q, n, W, h) ==
  /\ h \in [1..Len(p) -> 1..n]
  /\ \A i \in 1..Len(p) : p[i] = q[h[i]] /\ q[h[i]] \in W
  /\ \A i, j \in 1..Len(p) : i < j => h[i] < h[j]
  /\ \A k \in 1..n : q[k] \in W => \E i \in 1..Len(p) : h[i] = k

\* What is selected is what is in W, each at its place and in order.
LEMMA AmongPicks ==
  ASSUME NEW S, NEW q \in Seq(S), NEW W
  PROVE  Among(q, W) \in Seq(S) /\ \E h : Picks(Among(q, W), q, Len(q), W, h)
<1> DEFINE it == CHOOSE f : Selects(f, q, W)
           Good(n) == it[1..n] \in Seq(S) /\ \E h : Picks(it[1..n], q, n, W, h)
           Sizes == {n \in Nat : n <= Len(q) => Good(n)}
<1>1. Selects(it, q, W)
  BY SelectionExists
<1> HIDE DEF it
<1>2. 0 \in Sizes
  <2>1. it[1..0] = <<>>
    BY <1>1 DEF Selects
  <2>2. Picks(<<>>, q, 0, W, <<>>)
    BY DEF Picks
  <2>3. Good(0)
    BY <2>1, <2>2
  <2> HIDE DEF Good
  <2> QED BY <2>3
<1>3. ASSUME NEW n \in Nat, n \in Sizes PROVE n + 1 \in Sizes
  <2> SUFFICES ASSUME n + 1 <= Len(q) PROVE Good(n + 1)
    OBVIOUS
  <2>1. it[1..n] \in Seq(S) /\ \E h : Picks(it[1..n], q, n, W, h)
    BY <1>3
  <2> DEFINE p == it[1..n]
  <2>2. PICK h : Picks(p, q, n, W, h)
    BY <2>1
  <2>3. Greatest(1..(n + 1)) = n + 1
    <3>1. /\ Greatest(1..(n + 1)) \in 1..(n + 1)
          /\ \A j \in 1..(n + 1) : Greatest(1..(n + 1)) >= j
      BY GreatestNumber, n + 1 \in Nat, 1..(n + 1) \in SUBSET (1..(n + 1)), 1..(n + 1) # {}
    <3> QED BY <3>1
  <2>4. (1..(n + 1)) \ {n + 1} = 1..n /\ 1..(n + 1) \in SUBSET DOMAIN q /\ 1..(n + 1) # {}
    OBVIOUS
  <2>5. it[1..(n + 1)] = IF q[n + 1] \in W THEN Append(p, q[n + 1]) ELSE p
    BY <1>1, <2>3, <2>4 DEF Selects
  <2>6. CASE q[n + 1] \notin W
    <3>1. Picks(p, q, n + 1, W, h)
      BY <2>1, <2>2, <2>6 DEF Picks
    <3> QED BY <2>1, <2>5, <2>6, <3>1
  <2>7. CASE q[n + 1] \in W
    <3> DEFINE g == [i \in 1..(Len(p) + 1) |-> IF i = Len(p) + 1 THEN n + 1 ELSE h[i]]
               r == Append(p, q[n + 1])
    <3>1. /\ r \in Seq(S) /\ Len(r) = Len(p) + 1 /\ Len(p) \in Nat
          /\ r[Len(p) + 1] = q[n + 1]
          /\ \A i \in 1..Len(p) : r[i] = p[i]
      BY <2>1
    <3>2. Picks(r, q, n + 1, W, g)
      <4> HIDE DEF p, r
      <4>1. g \in [1..Len(r) -> 1..(n + 1)]
        BY <2>2, <3>1 DEF Picks
      <4>2. ASSUME NEW i \in 1..Len(r) PROVE r[i] = q[g[i]] /\ q[g[i]] \in W
        BY <2>2, <2>7, <3>1 DEF Picks
      <4>3. ASSUME NEW i \in 1..Len(r), NEW j \in 1..Len(r), i < j PROVE g[i] < g[j]
        <5>1. CASE j = Len(p) + 1
          BY <2>2, <3>1, <4>3, <5>1 DEF Picks
        <5>2. CASE j \in 1..Len(p)
          <6>1. i \in 1..Len(p) /\ g[i] = h[i] /\ g[j] = h[j]
            BY <3>1, <4>3, <5>2
          <6> QED BY <2>2, <4>3, <5>2, <6>1 DEF Picks
        <5> QED BY <3>1, <5>1, <5>2
      <4>4. ASSUME NEW k \in 1..(n + 1), q[k] \in W PROVE \E i \in 1..Len(r) : g[i] = k
        <5>1. CASE k = n + 1
          BY <3>1, <5>1
        <5>2. CASE k \in 1..n
          <6>1. PICK i \in 1..Len(p) : h[i] = k
            BY <2>2, <4>4, <5>2 DEF Picks
          <6> QED BY <3>1, <6>1
        <5> QED BY <5>1, <5>2
      <4> HIDE DEF g
      <4> QED BY <4>1, <4>2, <4>3, <4>4 DEF Picks
    <3> HIDE DEF g
    <3> QED BY <2>5, <2>7, <3>1, <3>2
  <2> QED BY <2>6, <2>7
<1>4. Len(q) \in Sizes
  <2> HIDE DEF Sizes
  <2> QED BY <1>2, <1>3, NumberInduction
<1>5. Among(q, W) = it[1..Len(q)]
  BY AmongIsRecursive DEF it
<1> QED BY <1>4, <1>5

-----------------------------------------------------------------------------
(* Sequences in the order of a relation, a set of pairs.                   *)

\* On S, no element is before itself, and what is before something is before what follows it.
StrictOn(R, S) ==
  /\ \A x \in S : <<x, x>> \notin R
  /\ \A x, y, z \in S : <<x, y>> \in R /\ <<y, z>> \in R => <<x, z>> \in R

\* And of two elements one is before the other.
TotalOn(R, S) == StrictOn(R, S) /\ \A x, y \in S : x = y \/ <<x, y>> \in R \/ <<y, x>> \in R

\* A sequence in this order.
Ascends(l, R) == \A i, j \in DOMAIN l : i < j => <<l[i], l[j]>> \in R

\* A finite set has an element that is before no other.
LEMMA LastElement ==
  ASSUME NEW S, IsFiniteSet(S), S # {}, NEW R, StrictOn(R, S)
  PROVE  \E m \in S : \A y \in S : <<m, y>> \notin R
<1> DEFINE T == {A \in SUBSET S : A # {} => \E m \in A : \A y \in A : <<m, y>> \notin R}
<1>1. {} \in T
  OBVIOUS
<1>2. ASSUME NEW A \in SUBSET S, NEW x \in S, A \in T, x \notin A
      PROVE  A \cup {x} \in T
  <2> SUFFICES \E m \in A \cup {x} : \A y \in A \cup {x} : <<m, y>> \notin R
    OBVIOUS
  <2>1. <<x, x>> \notin R
    BY DEF StrictOn
  <2>2. CASE A = {}
    BY <2>1, <2>2
  <2>3. CASE A # {}
    <3>1. PICK m \in A : \A y \in A : <<m, y>> \notin R
      BY <1>2, <2>3
    <3>2. CASE <<m, x>> \notin R
      BY <3>1, <3>2
    <3>3. CASE <<m, x>> \in R
      <4>1. \A y \in A : <<x, y>> \notin R
        BY <3>1, <3>3 DEF StrictOn
      <4> QED BY <2>1, <4>1
    <3> QED BY <3>2, <3>3
  <2> QED BY <2>2, <2>3
<1>3. S \in T
  <2> HIDE DEF T
  <2> QED BY <1>1, <1>2, FiniteSetInduction
<1> QED BY <1>3

\* A listing of a finite set has each of its elements once.
LEMMA ListingIs ==
  ASSUME NEW S, IsFiniteSet(S), NEW l \in SetToSeqs(S)
  PROVE  /\ l \in Seq(S) /\ Len(l) = Cardinality(S) /\ ToSet(l) = S
         /\ \A i, j \in DOMAIN l : i # j => l[i] # l[j]
<1> DEFINE n == Cardinality(S)
<1>1. n \in Nat
  BY FS_CardinalityType
<1>2. l \in [1..n -> S] /\ \A i, j \in 1..n : i # j => l[i] # l[j]
  BY DEF SetToSeqs
<1>3. IsFiniteSet(1..n) /\ Cardinality(1..n) = n
  <2> HIDE DEF n
  <2>1. 1 \in Int /\ n \in Int /\ (1 > n => n = 0) /\ n - 1 + 1 = n
    BY <1>1
  <2> QED BY <2>1, FS_Interval
<1> HIDE DEF n
<1>4. l \in Injection(1..n, S)
  BY <1>2 DEF Injection, IsInjective
<1>5. l \in Surjection(1..n, S)
  BY <1>3, <1>4, FS_Injection DEF n
<1>6. \A x \in S : \E i \in 1..n : l[i] = x
  BY <1>5 DEF Surjection
<1>7. l \in Seq(S) /\ Len(l) = n /\ DOMAIN l = 1..n
  BY <1>1, <1>2
<1> QED BY <1>2, <1>6, <1>7 DEF ToSet, n

\* The other way round.
LEMMA ListingOf ==
  ASSUME NEW S, IsFiniteSet(S), NEW l \in Seq(S), \A x \in S : \E i \in DOMAIN l : l[i] = x,
         \A i, j \in DOMAIN l : i # j => l[i] # l[j]
  PROVE  l \in SetToSeqs(S)
<1> DEFINE n == Len(l)
<1>1. n \in Nat /\ DOMAIN l = 1..n /\ l \in [1..n -> S]
  OBVIOUS
<1>2. IsFiniteSet(1..n) /\ Cardinality(1..n) = n
  <2> HIDE DEF n
  <2>1. 1 \in Int /\ n \in Int /\ (1 > n => n = 0) /\ n - 1 + 1 = n
    BY <1>1
  <2> QED BY <2>1, FS_Interval
<1> HIDE DEF n
<1>3. l \in Injection(1..n, S) /\ l \in Surjection(1..n, S)
  BY <1>1 DEF Injection, IsInjective, Surjection
<1>4. Cardinality(S) = n
  BY <1>2, <1>3, FS_Injection
<1> QED BY <1>1, <1>4 DEF SetToSeqs

\* Elements of which one is always before the other can be listed in order.
LEMMA OrderedListing ==
  ASSUME NEW S, IsFiniteSet(S), NEW R, TotalOn(R, S)
  PROVE  \E l \in SetToSeqs(S) : Ascends(l, R)
<1> DEFINE Sizes == {n \in Nat : \A A \in SUBSET S : Cardinality(A) = n =>
                       \E l \in SetToSeqs(A) : Ascends(l, R)}
<1>0. \A A \in SUBSET S : IsFiniteSet(A) /\ Cardinality(A) \in Nat
  BY FS_Subset, FS_CardinalityType
<1>1. 0 \in Sizes
  <2> SUFFICES ASSUME NEW A \in SUBSET S, Cardinality(A) = 0
               PROVE  \E l \in SetToSeqs(A) : Ascends(l, R)
    OBVIOUS
  <2>1. << >> \in Seq(A) /\ DOMAIN << >> = {} /\ A = {}
    BY <1>0, FS_EmptySet
  <2>2. << >> \in SetToSeqs(A)
    BY <1>0, <2>1, ListingOf
  <2> QED BY <2>1, <2>2 DEF Ascends
<1>2. ASSUME NEW n \in Nat, n \in Sizes PROVE n + 1 \in Sizes
  <2> SUFFICES ASSUME NEW A \in SUBSET S, Cardinality(A) = n + 1
               PROVE  \E l \in SetToSeqs(A) : Ascends(l, R)
    OBVIOUS
  <2>1. A # {}
    BY FS_EmptySet
  <2>2. PICK m \in A : \A y \in A : <<m, y>> \notin R
    <3>1. StrictOn(R, A)
      BY DEF TotalOn, StrictOn
    <3> QED BY <1>0, <2>1, <3>1, LastElement
  <2> DEFINE B == A \ {m}
  <2>3. IsFiniteSet(B) /\ Cardinality(B) = n /\ B \in SUBSET S
    BY <1>0, OneElementLess
  <2>4. PICK l \in SetToSeqs(B) : Ascends(l, R)
    BY <1>2, <2>3
  <2>5. /\ l \in Seq(B) /\ Len(l) = n /\ ToSet(l) = B
        /\ \A i, j \in DOMAIN l : i # j => l[i] # l[j]
    BY <2>3, ListingIs
  <2> DEFINE k == Append(l, m)
  <2>6. /\ k \in Seq(A) /\ Len(k) = n + 1 /\ k[n + 1] = m
        /\ \A i \in 1..n : k[i] = l[i] /\ l[i] \in B
    BY <2>5
  <2>7. \A x \in B : \E i \in 1..n : l[i] = x
    BY <2>5 DEF ToSet
  <2>16. DOMAIN l = 1..n
    BY <2>5
  <2>9. \A i, j \in 1..n : (i # j => l[i] # l[j]) /\ (i < j => <<l[i], l[j]>> \in R)
    <3> HIDE DEF k, B
    <3> QED BY <2>4, <2>5, <2>16 DEF Ascends
  <2>10. \A x \in B : <<x, m>> \in R
    BY <2>2 DEF TotalOn
  <2> HIDE DEF k
  <2>8. DOMAIN k = 1..(n + 1)
    BY <2>6
  <2>11. \A x \in A : \E i \in DOMAIN k : k[i] = x
    <3> SUFFICES ASSUME NEW x \in A PROVE \E i \in 1..(n + 1) : k[i] = x
      BY <2>8
    <3>1. CASE x = m
      BY <2>6, <3>1
    <3>2. CASE x # m
      <4>1. PICK i \in 1..n : l[i] = x
        BY <2>7, <3>2
      <4> QED BY <2>6, <4>1
    <3> QED BY <3>1, <3>2
  <2>12. \A i \in DOMAIN k : i # n + 1 => i \in 1..n
    BY <2>8
  <2>13. \A i, j \in DOMAIN k : i # j => k[i] # k[j]
    BY <2>6, <2>9, <2>12
  <2>14. Ascends(k, R)
    <3> SUFFICES ASSUME NEW i \in DOMAIN k, NEW j \in DOMAIN k, i < j
                 PROVE  <<k[i], k[j]>> \in R
      BY DEF Ascends
    <3>1. i \in 1..n /\ (j = n + 1 \/ j \in 1..n)
      BY <2>8
    <3> QED BY <2>6, <2>9, <2>10, <3>1
  <2>15. k \in SetToSeqs(A)
    BY <1>0, <2>6, <2>11, <2>13, ListingOf
  <2> QED BY <2>14, <2>15
<1>3. Cardinality(S) \in Sizes
  <2> HIDE DEF Sizes
  <2> QED BY <1>0, <1>1, <1>2, NumberInduction
<1> QED BY <1>3
-----------------------------------------------------------------------------
(* Products, in the same way.                                              *)

\* The product of what a function is on a set.
ProductOnSet(g, S) == FoldFunctionOnSet(LAMBDA x, y : x * y, 1, g, S)

\* `it` gives the product of g over each subset of S, as the library's fold works it out.
Multiplies(it, g, S) ==
  it = [s \in SUBSET S |->
          IF s = {} THEN 1 ELSE LET x == CHOOSE y \in s : TRUE IN g[x] * it[s \ {x}]]

\* The library's fold, with its definitions expanded.
LEMMA ProductIsRecursive ==
  ASSUME NEW S, NEW g
  PROVE  ProductOnSet(g, S) = (CHOOSE it : Multiplies(it, g, S))[S]
BY DEF ProductOnSet, FoldFunctionOnSet, MapThenFoldSet, Multiplies

\* One that multiplies the sets of at most n elements gives one for n + 1 elements.
LEMMA ProductsExist ==
  ASSUME NEW S, IsFiniteSet(S), NEW g
  PROVE  \E it : Multiplies(it, g, S)
<1> DEFINE Upto(n) == {s \in SUBSET S : Cardinality(s) <= n}
           Next1(it, s) == IF s = {} THEN 1
                           ELSE LET x == CHOOSE y \in s : TRUE IN g[x] * it[s \ {x}]
           Good(it, n) == it = [s \in Upto(n) |-> Next1(it, s)]
           Sizes == {n \in Nat : \E it : Good(it, n)}
<1>0. \A s \in SUBSET S : IsFiniteSet(s) /\ Cardinality(s) \in Nat
  BY FS_Subset, FS_CardinalityType
<1>1. 0 \in Sizes
  <2>1. \A s \in Upto(0) : s = {}
    BY <1>0, FS_EmptySet
  <2>2. Good([s \in Upto(0) |-> 1], 0)
    BY <2>1
  <2> QED BY <2>2
<1>2. ASSUME NEW n \in Nat, n \in Sizes PROVE n + 1 \in Sizes
  <2>1. PICK it : Good(it, n)
    BY <1>2
  <2> DEFINE more == [s \in Upto(n + 1) |-> Next1(it, s)]
  <2>2. ASSUME NEW s \in Upto(n) PROVE s \in Upto(n + 1) /\ more[s] = it[s]
    BY <1>0, <2>1
  <2>3. ASSUME NEW s \in Upto(n + 1), s # {}
        PROVE  s \ {CHOOSE y \in s : TRUE} \in Upto(n)
    <3>1. PICK x \in s : x = CHOOSE y \in s : TRUE
      BY <2>3
    <3>2. Cardinality(s \ {x}) = Cardinality(s) - 1
      BY <1>0, FS_RemoveElement
    <3>3. Cardinality(s \ {x}) <= n
      BY <1>0, <3>2
    <3> QED BY <3>1, <3>3
  <2>4. \A s \in Upto(n + 1) : Next1(it, s) = Next1(more, s)
    <3> HIDE DEF Upto, more
    <3> QED BY <2>2, <2>3
  <2>5. Good(more, n + 1)
    <3>1. [s \in Upto(n + 1) |-> Next1(it, s)] = [s \in Upto(n + 1) |-> Next1(more, s)]
      <4> HIDE DEF Upto, Next1, more
      <4> QED BY <2>4
    <3>2. more = [s \in Upto(n + 1) |-> Next1(more, s)]
      <4>1. more = [s \in Upto(n + 1) |-> Next1(it, s)]
        OBVIOUS
      <4> QED BY <3>1, <4>1
    <3> QED BY <3>2
  <2>6. \E jt : Good(jt, n + 1)
    <3> HIDE DEF Good, more
    <3> QED BY <2>5
  <2> HIDE DEF Good
  <2> QED BY <2>6
<1>3. Cardinality(S) \in Sizes
  <2> HIDE DEF Sizes
  <2> QED BY <1>1, <1>2, NumberInduction, FS_CardinalityType
<1>4. Upto(Cardinality(S)) = SUBSET S
  BY FS_Subset, FS_CardinalityType
<1> QED BY <1>3, <1>4 DEF Multiplies

\* The product over R does not depend on the set whose subsets are multiplied on the way.
LEMMA ProductsAgree ==
  ASSUME NEW S, IsFiniteSet(S), NEW R \in SUBSET S, NEW g, NEW it, NEW jt,
         Multiplies(it, g, S), Multiplies(jt, g, R)
  PROVE  it[R] = jt[R]
<1>1. it[{}] = 1 /\ jt[{}] = 1
  BY DEF Multiplies
<1>2. ASSUME NEW s \in SUBSET R, s # {}
      PROVE  \E x \in s : it[s \ {x}] = jt[s \ {x}] => it[s] = jt[s]
  <2> DEFINE x == CHOOSE y \in s : TRUE
  <2>1. x \in s
    BY <1>2
  <2>2. it[s] = g[x] * it[s \ {x}] /\ jt[s] = g[x] * jt[s \ {x}]
    BY <1>2 DEF Multiplies
  <2> QED BY <2>1, <2>2
<1>3. \A s \in SUBSET R : s # {} =>
        \E x \in s : it[s \ {x}] = jt[s \ {x}] => it[s] = jt[s]
  BY <1>2
<1>4. IsFiniteSet(R) /\ it[{}] = jt[{}]
  BY <1>1, FS_Subset
<1> QED BY ONLY <1>3, <1>4, AgreeByRemoving

\* The product over no element.
LEMMA ProductOfNone ==
  ASSUME NEW g
  PROVE  ProductOnSet(g, {}) = 1
<1>1. \E it : Multiplies(it, g, {})
  BY ProductsExist, FS_EmptySet
<1>2. Multiplies(CHOOSE it : Multiplies(it, g, {}), g, {})
  BY <1>1
<1> QED BY <1>2, ProductIsRecursive DEF Multiplies

\* The element that is taken first is the one that is chosen.
LEMMA ProductTakesOne ==
  ASSUME NEW S, IsFiniteSet(S), S # {}, NEW g
  PROVE  \E x \in S : ProductOnSet(g, S) = g[x] * ProductOnSet(g, S \ {x})
<1> DEFINE x == CHOOSE y \in S : TRUE
<1> DEFINE it == CHOOSE i : Multiplies(i, g, S)
           jt == CHOOSE j : Multiplies(j, g, S \ {x})
<1>1. Multiplies(it, g, S)
  BY ProductsExist
<1>2. IsFiniteSet(S \ {x}) /\ S \ {x} \in SUBSET S
  BY FS_Subset
<1>3. Multiplies(jt, g, S \ {x})
  BY <1>2, ProductsExist
<1>4. ProductOnSet(g, S) = it[S] /\ ProductOnSet(g, S \ {x}) = jt[S \ {x}]
  BY ProductIsRecursive
<1> HIDE DEF it, jt
<1>5. it[S \ {x}] = jt[S \ {x}]
  BY <1>1, <1>2, <1>3, ProductsAgree
<1>6. it[S] = g[x] * it[S \ {x}]
  BY <1>1 DEF Multiplies
<1>7. x \in S
  OBVIOUS
<1> HIDE DEF x
<1> QED BY <1>4, <1>5, <1>6, <1>7

\* Products of positive numbers.
LEMMA Times ==
  ASSUME NEW a \in Nat \ {0}, NEW b \in Nat \ {0}
  PROVE  a * b \in Nat \ {0}
OBVIOUS

\* A product of positive numbers is positive.
LEMMA ProductType ==
  ASSUME NEW S, IsFiniteSet(S), NEW g, \A x \in S : g[x] \in Nat \ {0}
  PROVE  ProductOnSet(g, S) \in Nat \ {0}
<1> DEFINE Sizes == {n \in Nat : \A s \in SUBSET S :
                       Cardinality(s) = n => ProductOnSet(g, s) \in Nat \ {0}}
<1>0. \A s \in SUBSET S : IsFiniteSet(s) /\ Cardinality(s) \in Nat
  BY FS_Subset, FS_CardinalityType
<1>1. 0 \in Sizes
  BY <1>0, FS_EmptySet, ProductOfNone
<1>2. ASSUME NEW n \in Nat, n \in Sizes PROVE n + 1 \in Sizes
  <2> SUFFICES ASSUME NEW s \in SUBSET S, Cardinality(s) = n + 1
               PROVE  ProductOnSet(g, s) \in Nat \ {0}
    OBVIOUS
  <2>1. s # {}
    BY FS_EmptySet
  <2>2. PICK x \in s : ProductOnSet(g, s) = g[x] * ProductOnSet(g, s \ {x})
    BY <1>0, <2>1, ProductTakesOne
  <2>3. Cardinality(s \ {x}) = n /\ s \ {x} \in SUBSET S
    BY <1>0, OneElementLess
  <2>4. ProductOnSet(g, s \ {x}) \in Nat \ {0} /\ g[x] \in Nat \ {0}
    BY <1>2, <2>3
  <2> QED BY <2>2, <2>4, Times
<1>3. Cardinality(S) \in Sizes
  <2> HIDE DEF Sizes
  <2> QED BY <1>0, <1>1, <1>2, NumberInduction
<1> QED BY <1>3

\* The factors of a product change places.
LEMMA TimesCommutes ==
  ASSUME NEW a \in Nat, NEW b \in Nat, NEW c \in Nat
  PROVE  a * (b * c) = b * (a * c) /\ a * b = b * a /\ (a * b) * c = a * (b * c)
OBVIOUS

\* Whichever factor is taken first.
LEMMA ProductTakesAny ==
  ASSUME NEW S, IsFiniteSet(S), NEW g, \A x \in S : g[x] \in Nat \ {0}, NEW z \in S
  PROVE  /\ ProductOnSet(g, S) = g[z] * ProductOnSet(g, S \ {z})
         /\ ProductOnSet(g, S \ {z}) \in Nat \ {0}
<1> DEFINE Pr(s) == ProductOnSet(g, s)
           Sizes == {n \in Nat : \A s \in SUBSET S : Cardinality(s) = n =>
                       \A x \in s : Pr(s) = g[x] * Pr(s \ {x})}
<1>0. \A s \in SUBSET S : IsFiniteSet(s) /\ Cardinality(s) \in Nat
  BY FS_Subset, FS_CardinalityType
<1>1. 0 \in Sizes
  BY <1>0, FS_EmptySet
<1>2. ASSUME NEW n \in Nat, n \in Sizes PROVE n + 1 \in Sizes
  <2> SUFFICES ASSUME NEW s \in SUBSET S, Cardinality(s) = n + 1, NEW x \in s
               PROVE  Pr(s) = g[x] * Pr(s \ {x})
    OBVIOUS
  <2>1. PICK c \in s : Pr(s) = g[c] * Pr(s \ {c})
    BY <1>0, ProductTakesOne
  <2>4. CASE x = c
    <3> HIDE DEF Sizes, Pr
    <3> QED BY <2>1, <2>4
  <2>5. CASE x # c
    <3>1. /\ Cardinality(s \ {c}) = n /\ s \ {c} \in SUBSET S /\ x \in s \ {c}
          /\ Cardinality(s \ {x}) = n /\ s \ {x} \in SUBSET S /\ c \in s \ {x}
      BY <1>0, <2>5, OneElementLess
    <3>4. (s \ {c}) \ {x} = (s \ {x}) \ {c}
      OBVIOUS
    <3>2. Pr(s \ {c}) = g[x] * Pr((s \ {x}) \ {c})
      BY <1>2, <3>1, <3>4
    <3>3. Pr(s \ {x}) = g[c] * Pr((s \ {x}) \ {c})
      BY <1>2, <3>1
    <3>5. Pr((s \ {x}) \ {c}) \in Nat /\ g[x] \in Nat /\ g[c] \in Nat
      <4>1. IsFiniteSet((s \ {x}) \ {c}) /\ \A y \in (s \ {x}) \ {c} : g[y] \in Nat \ {0}
        BY <1>0, FS_Subset
      <4> QED BY <4>1, ProductType
    <3> HIDE DEF Pr, Sizes
    <3> QED BY <2>1, <3>2, <3>3, <3>5, TimesCommutes
  <2> QED BY <2>4, <2>5
<1>3. Cardinality(S) \in Sizes
  <2> HIDE DEF Sizes
  <2> QED BY <1>0, <1>1, <1>2, NumberInduction
<1>4. ProductOnSet(g, S \ {z}) \in Nat \ {0}
  BY <1>0, ProductType
<1> QED BY <1>3, <1>4

-----------------------------------------------------------------------------
(* More about sums.                                                        *)

\* A sum of multiples.
LEMMA SumScales ==
  ASSUME NEW S, IsFiniteSet(S), NEW g, NEW h, NEW k \in Int,
         \A x \in S : g[x] \in Int /\ h[x] = g[x] * k
  PROVE  SumFunctionOnSet(h, S) = SumFunctionOnSet(g, S) * k
<1> DEFINE T == {A \in SUBSET S : SumFunctionOnSet(h, A) = SumFunctionOnSet(g, A) * k}
<1>1. {} \in T
  BY SumOfNone
<1>2. ASSUME NEW A \in SUBSET S, NEW x \in S, A \in T, x \notin A
      PROVE  A \cup {x} \in T
  <2>1. /\ SumFunctionOnSet(g, A) \in Int
        /\ SumFunctionOnSet(g, A \cup {x}) = g[x] + SumFunctionOnSet(g, A)
    BY <1>2, SumOfOneMore
  <2>2. SumFunctionOnSet(h, A \cup {x}) = h[x] + SumFunctionOnSet(h, A)
    <3>1. \A y \in S : h[y] \in Int
      OBVIOUS
    <3> QED BY <1>2, <3>1, SumOfOneMore
  <2>3. SumFunctionOnSet(h, A) = SumFunctionOnSet(g, A) * k /\ g[x] \in Int /\ h[x] = g[x] * k
    BY <1>2
  <2>4. \A a, b \in Int : (a + b) * k = a * k + b * k
    OBVIOUS
  <2>5. SumFunctionOnSet(h, A \cup {x}) = SumFunctionOnSet(g, A \cup {x}) * k
    BY <2>1, <2>2, <2>3, <2>4
  <2> QED BY <2>5
<1>3. S \in T
  <2> HIDE DEF T
  <2> QED BY <1>1, <1>2, FiniteSetInduction
<1> QED BY <1>3

\* The sums of g over parts of S, the parts being told apart by h.
AreParts(parts, g, S, h, B) ==
  /\ \A x \in S : h[x] \in B
  /\ \A b \in B : parts[b] = SumFunctionOnSet(g, {x \in S : h[x] = b})

\* A sum taken part by part.
LEMMA SumOfParts ==
  ASSUME NEW S, IsFiniteSet(S), NEW B, IsFiniteSet(B), NEW g, \A x \in S : g[x] \in Int,
         NEW h, NEW parts, AreParts(parts, g, S, h, B)
  PROVE  SumFunctionOnSet(g, S) = SumFunctionOnSet(parts, B)
<1> SUFFICES ASSUME \A x \in S : h[x] \in B,
                    \A b \in B : parts[b] = SumFunctionOnSet(g, {x \in S : h[x] = b})
             PROVE  SumFunctionOnSet(g, S) = SumFunctionOnSet(parts, B)
  BY DEF AreParts
<1> DEFINE Fibre(A, b) == {x \in A : h[x] = b}
           Parts(A) == [b \in B |-> SumFunctionOnSet(g, Fibre(A, b))]
           T == {A \in SUBSET S : SumFunctionOnSet(g, A) = SumFunctionOnSet(Parts(A), B)}
<1>0. \A A \in SUBSET S, b \in B : SumFunctionOnSet(g, Fibre(A, b)) \in Int
  <2>1. \A A \in SUBSET S, b \in B : IsFiniteSet(Fibre(A, b))
    BY FS_Subset
  <2> QED BY <2>1, SumType
<1>1. {} \in T
  <2>1. \A b \in B : Fibre({}, b) = {}
    OBVIOUS
  <2>2. \A b \in B : Parts({})[b] = 0
    BY <2>1, SumOfNone
  <2> HIDE DEF Parts
  <2>3. SumFunctionOnSet(Parts({}), B) = 0
    BY <2>2, SumOfZeros
  <2> QED BY <2>3, SumOfNone
<1>2. ASSUME NEW A \in SUBSET S, NEW x \in S, A \in T, x \notin A
      PROVE  A \cup {x} \in T
  <2>1. /\ SumFunctionOnSet(g, A) \in Int
        /\ SumFunctionOnSet(g, A \cup {x}) = g[x] + SumFunctionOnSet(g, A)
    BY <1>2, SumOfOneMore
  <2>2. \A b \in B \ {h[x]} : Fibre(A \cup {x}, b) = Fibre(A, b)
    OBVIOUS
  <2>3. Fibre(A \cup {x}, h[x]) = Fibre(A, h[x]) \cup {x}
    OBVIOUS
  <2>4. SumFunctionOnSet(g, Fibre(A, h[x]) \cup {x}) = g[x] + SumFunctionOnSet(g, Fibre(A, h[x]))
    <3>1. Fibre(A, h[x]) \in SUBSET S /\ x \notin Fibre(A, h[x])
      BY <1>2
    <3> HIDE DEF Fibre
    <3> QED BY <3>1, SumOfOneMore
  <2>5. A \cup {x} \in SUBSET S /\ h[x] \in B
    OBVIOUS
  <2> HIDE DEF Fibre
  <2>6. /\ \A b \in B \ {h[x]} : Parts(A \cup {x})[b] = Parts(A)[b]
        /\ Parts(A \cup {x})[h[x]] = g[x] + Parts(A)[h[x]]
        /\ \A b \in B : Parts(A)[b] \in Int /\ Parts(A \cup {x})[b] \in Int
    BY <1>0, <2>2, <2>3, <2>4, <2>5
  <2> HIDE DEF Parts
  <2>7. SumFunctionOnSet(Parts(A \cup {x}), B)
          = SumFunctionOnSet(Parts(A), B) - Parts(A)[h[x]] + Parts(A \cup {x})[h[x]]
    <3> DEFINE new == Parts(A \cup {x})
               old == Parts(A)
               z == h[x]
    <3>1. /\ z \in B /\ new[z] \in Int /\ \A b \in B : old[b] \in Int
          /\ \A b \in B \ {z} : new[b] = old[b]
      BY <2>5, <2>6
    <3>2. SumFunctionOnSet(new, B) = SumFunctionOnSet(old, B) - old[z] + new[z]
      <4> HIDE DEF new, old, z
      <4> QED BY <3>1, SumChangesAt
    <3> QED BY <3>2
  <2>8. SumFunctionOnSet(g, A) = SumFunctionOnSet(Parts(A), B)
    BY <1>2
  <2>9. g[x] \in Int /\ Parts(A)[h[x]] \in Int
    BY <2>5, <2>6
  <2>10. SumFunctionOnSet(g, A \cup {x}) = SumFunctionOnSet(Parts(A \cup {x}), B)
    BY <2>1, <2>6, <2>7, <2>8, <2>9
  <2> QED BY <2>5, <2>10
<1>3. S \in T
  <2> HIDE DEF T
  <2> QED BY <1>1, <1>2, FiniteSetInduction
<1>4. \A b \in B : Parts(S)[b] = parts[b] /\ parts[b] \in Int
  BY <1>0
<1>5. SumFunctionOnSet(Parts(S), B) = SumFunctionOnSet(parts, B)
  <2> HIDE DEF Parts
  <2> QED BY <1>4, SumsEqual
<1> QED BY <1>3, <1>5

\* A product taken in two parts.
LEMMA ProductSplits ==
  ASSUME NEW S, IsFiniteSet(S), NEW g, \A x \in S : g[x] \in Nat \ {0}, NEW A \in SUBSET S
  PROVE  /\ ProductOnSet(g, S) = ProductOnSet(g, A) * ProductOnSet(g, S \ A)
         /\ ProductOnSet(g, S \ A) \in Nat \ {0}
<1> DEFINE Pr(s) == ProductOnSet(g, s)
           T == {B \in SUBSET A : Pr(S) = Pr(B) * Pr(S \ B)}
<1>0. \A B \in SUBSET S : IsFiniteSet(B) /\ Pr(B) \in Nat \ {0}
  BY FS_Subset, ProductType
<1>1. {} \in T
  <2>1. Pr({}) = 1 /\ Pr(S) \in Nat /\ S \ {} = S
    BY <1>0, ProductOfNone
  <2> HIDE DEF Pr
  <2>2. Pr(S) = 1 * Pr(S)
    BY <2>1
  <2> QED BY <2>1, <2>2
<1>2. ASSUME NEW B \in SUBSET A, NEW x \in A, B \in T, x \notin B
      PROVE  B \cup {x} \in T
  <2> DEFINE C == B \cup {x}
             a == Pr(B)
             b == Pr(S \ C)
             y == g[x]
  <2>1. Pr(C) = y * a
    <3>1. IsFiniteSet(C) /\ (\A z \in C : g[z] \in Nat \ {0}) /\ x \in C
      BY <1>0
    <3>2. C \ {x} = B
      BY <1>2
    <3> QED BY <3>1, <3>2, ProductTakesAny
  <2>2. Pr(S \ B) = y * b
    <3>1. /\ IsFiniteSet(S \ B) /\ (\A z \in S \ B : g[z] \in Nat \ {0}) /\ x \in S \ B
      BY <1>0, <1>2
    <3>2. (S \ B) \ {x} = S \ C
      OBVIOUS
    <3> QED BY <3>1, <3>2, ProductTakesAny
  <2>3. Pr(S) = a * (y * b)
    BY <1>2, <2>2
  <2>4. a \in Nat /\ b \in Nat /\ y \in Nat
    BY <1>0
  <2> HIDE DEF a, b, y
  <2>5. a * (y * b) = (y * a) * b
    BY <2>4, TimesCommutes
  <2>6. Pr(S) = Pr(C) * b
    BY <2>1, <2>3, <2>5
  <2> QED BY <2>6 DEF b
<1>3. IsFiniteSet(A)
  BY <1>0
<1>4. A \in T
  <2> HIDE DEF T
  <2> QED BY ONLY <1>1, <1>2, <1>3, FiniteSetInduction
<1> QED BY <1>0, <1>4

\* Factors are cancelled.
LEMMA Cancels ==
  ASSUME NEW a \in Nat \ {0}, NEW b \in Nat, NEW c \in Nat, a * b = a * c
  PROVE  b = c
<1>1. ASSUME NEW x \in Nat, NEW y \in Nat, x < y PROVE a * x < a * y
  <2> DEFINE d == y - x
  <2>1. d \in Nat /\ d >= 1 /\ y = x + d
    BY <1>1
  <2> HIDE DEF d
  <2>2. a * y = a * x + a * d /\ a * x \in Nat /\ a * d \in Nat
    BY <2>1
  <2>3. a * d >= 1
    BY <2>1, Times
  <2> QED BY <2>2, <2>3
<1>2. ~(b < c) /\ ~(c < b)
  <2>1. a * b \in Nat /\ a * c \in Nat
    OBVIOUS
  <2> QED BY <1>1, <2>1
<1> QED BY <1>2

\* The quotient of a multiple.
LEMMA Divides ==
  ASSUME NEW a \in Nat \ {0}, NEW m \in Nat
  PROVE  (a * m) \div a = m
<1>1. PICK k \in Nat : k = a * m
  OBVIOUS
<1>2. k \div a = m
  BY <1>1
<1> QED BY <1>1, <1>2
=============================================================================
