---------------------------- MODULE SumTheorems ----------------------------
(***************************************************************************)
(* Sums and other folds over finite sets.  The models take totals with      *)
(* SumFunctionOnSet (amounts earned and withdrawn, requests in a window,    *)
(* kilograms lost along the way), and what a ledger credits with FoldLeft   *)
(* and FoldFunction.  All are folds of Functions, whose recursion picks one *)
(* element first; that such a function exists, and that which element it    *)
(* picks does not matter to a sum, is shown by induction on the number of   *)
(* elements.  Induction is over a set of numbers, not over a predicate: a   *)
(* set of numbers that is not empty has a least one.                        *)
(***************************************************************************)
EXTENDS Integers, Functions, FiniteSetTheorems, WellFoundedInduction, TLAPS

\* A set of numbers has a least one.
LEMMA LeastNat ==
    ASSUME NEW T, T \subseteq Nat, T # {}
    PROVE  \E n \in T : \A m \in T : n <= m
<1>1. PICK x \in T : \A y \in T : ~ (<<y, x>> \in OpToRel(<, Nat))
  BY NatLessThanWellFounded, WFMin
<1>2. \A y \in T : ~ (y < x)
  BY <1>1 DEF OpToRel
<1> QED BY <1>2

\* Induction over the numbers, as a fact about a set of them.
LEMMA SetInduction ==
    ASSUME NEW S, 0 \in S, \A n \in Nat : n \in S => n + 1 \in S
    PROVE  Nat \subseteq S
<1> SUFFICES ASSUME Nat \ S # {} PROVE FALSE OBVIOUS
<1>1. PICK n \in Nat \ S : \A m \in Nat \ S : n <= m BY LeastNat
<1>2. n # 0 OBVIOUS
<1>3. n - 1 \in Nat /\ ~ (n <= n - 1) BY <1>2
<1>4. n - 1 \in S BY <1>1, <1>3
<1>5. (n - 1) + 1 \in S BY <1>3, <1>4
<1> QED BY <1>5

\* The element a fold takes first.
First(s) == CHOOSE x \in s : TRUE

\* g sums f over the subsets of S.
Sums(g, f, S) ==
    g = [s \in SUBSET S |-> IF s = {} THEN 0 ELSE f[First(s)] + g[s \ {First(s)}]]

\* What SumFunctionOnSet is by definition.
LEMMA SumDef ==
    ASSUME NEW f, NEW S
    PROVE  SumFunctionOnSet(f, S) = (CHOOSE g : Sums(g, f, S))[S]
BY DEF SumFunctionOnSet, FoldFunctionOnSet, MapThenFoldSet, Sums, First

\* There is one as long as the set is not empty.
LEMMA FirstIn == \A s : s # {} => First(s) \in s
BY DEF First

\* A set with an element less has one fewer.
LEMMA Smaller ==
    ASSUME NEW S, IsFiniteSet(S), NEW s \in SUBSET S
    PROVE  /\ IsFiniteSet(s) /\ Cardinality(s) \in Nat
           /\ s # {} => Cardinality(s) >= 1
           /\ \A x \in s : /\ s \ {x} \in SUBSET S /\ Cardinality(s \ {x}) = Cardinality(s) - 1
                           /\ Cardinality(s) - 1 \in Nat
<1>1. IsFiniteSet(s) BY FS_Subset
<1>2. Cardinality(s) \in Nat BY <1>1, FS_CardinalityType
<1>3. s # {} => Cardinality(s) # 0 BY <1>1, FS_EmptySet
<1>4. \A x \in s : Cardinality(s \ {x}) = Cardinality(s) - 1 BY <1>1, FS_RemoveElement
<1> QED BY <1>1, <1>2, <1>3, <1>4

\* What holds of {} and of every set with one element more.
LEMMA FiniteInduction ==
    ASSUME NEW S, IsFiniteSet(S), NEW P, {} \in P,
           \A s \in SUBSET S : \A x \in S \ s : s \in P => s \cup {x} \in P
    PROVE  \A s \in SUBSET S : s \in P
<1> DEFINE N == {n \in Nat : \A s \in SUBSET S : Cardinality(s) = n => s \in P}
<1>1. 0 \in N
  <2>1. \A s \in SUBSET S : Cardinality(s) = 0 => s = {} BY Smaller
  <2> QED BY <2>1
<1>2. ASSUME NEW n \in Nat, n \in N PROVE n + 1 \in N
  <2>1. ASSUME NEW s \in SUBSET S, Cardinality(s) = n + 1 PROVE s \in P
    <3>1. PICK x : x \in s
      <4>1. Cardinality({}) = 0 /\ 0 # n + 1 BY FS_EmptySet
      <4> QED BY <2>1, <4>1
    <3>2. s \ {x} \in SUBSET S /\ Cardinality(s \ {x}) = n BY <2>1, <3>1, Smaller
    <3>3. s \ {x} \in P BY <1>2, <3>2
    <3>4. x \in S \ (s \ {x}) /\ (s \ {x}) \cup {x} = s BY <3>1
    <3> QED BY <3>2, <3>3, <3>4
  <2> QED BY <2>1
<1>3. Nat \subseteq N
  <2> HIDE DEF N
  <2> QED BY <1>1, <1>2, SetInduction
<1>4. \A s \in SUBSET S : Cardinality(s) \in Nat BY Smaller
<1> QED BY <1>3, <1>4

\* There is such a function, built up set by larger set.
LEMMA SumsExist ==
    ASSUME NEW S, IsFiniteSet(S), NEW f, \A x \in S : f[x] \in Int
    PROVE  \E g \in [SUBSET S -> Int] : Sums(g, f, S)
<1> DEFINE
    Right(g, s) == g[s] = IF s = {} THEN 0 ELSE f[First(s)] + g[s \ {First(s)}]
    UpTo(n) == \E g \in [SUBSET S -> Int] : \A s \in SUBSET S : Cardinality(s) <= n => Right(g, s)
    N == {n \in Nat : UpTo(n)}
<1>1. 0 \in N
  <2>1. PICK g : g = [s \in SUBSET S |-> 0] OBVIOUS
  <2>2. g \in [SUBSET S -> Int] BY <2>1
  <2>3. \A s \in SUBSET S : Cardinality(s) <= 0 => s = {} BY Smaller
  <2>4. \A s \in SUBSET S : Cardinality(s) <= 0 => Right(g, s) BY <2>1, <2>3
  <2> QED BY <2>2, <2>4
<1>2. ASSUME NEW n \in Nat, n \in N PROVE n + 1 \in N
  <2>1. PICK g \in [SUBSET S -> Int] : \A s \in SUBSET S : Cardinality(s) <= n => Right(g, s) BY <1>2
  <2>2. PICK h : h = [s \in SUBSET S |-> IF Cardinality(s) = n + 1 THEN f[First(s)] + g[s \ {First(s)}] ELSE g[s]]
    OBVIOUS
  <2>3. ASSUME NEW s \in SUBSET S, s # {}
        PROVE  /\ First(s) \in S /\ First(s) \in s /\ s \ {First(s)} \in SUBSET S
               /\ f[First(s)] + g[s \ {First(s)}] \in Int
    BY <2>3, FirstIn
  <2>4. \A s \in SUBSET S : Cardinality(s) = n + 1 => s # {}
    <3>1. Cardinality({}) = 0 /\ 0 # n + 1 BY FS_EmptySet
    <3> QED BY <3>1
  <2>5. h \in [SUBSET S -> Int] BY <2>2, <2>3, <2>4
  <2>6. ASSUME NEW s \in SUBSET S, Cardinality(s) <= n + 1 PROVE Right(h, s)
    <3>1. CASE s = {} 
      <4>1. Cardinality(s) = 0 BY <3>1, FS_EmptySet
      <4>2. h[s] = g[s] BY <2>2, <4>1
      <4>3. g[s] = 0 BY <2>1, <3>1, <4>1
      <4> QED BY <3>1, <4>2, <4>3
    <3>2. CASE s # {}
      <4> DEFINE t == s \ {First(s)}
      <4>1. t \in SUBSET S /\ Cardinality(t) = Cardinality(s) - 1 /\ Cardinality(s) \in Nat
        BY <3>2, FirstIn, Smaller
      <4>2. h[t] = g[t] 
        <5>1. Cardinality(t) # n + 1 BY <2>6, <4>1
        <5> QED BY <2>2, <4>1, <5>1
      <4>3. CASE Cardinality(s) = n + 1 
        <5>1. h[s] = f[First(s)] + g[t] BY <2>2, <4>3
        <5> QED BY <3>2, <4>2, <5>1
      <4>4. CASE Cardinality(s) # n + 1
        <5>1. Cardinality(s) <= n BY <2>6, <4>1, <4>4
        <5>2. h[s] = g[s] BY <2>2, <4>4
        <5>3. Right(g, s) BY <2>1, <5>1
        <5> QED BY <3>2, <4>2, <5>2, <5>3
      <4> QED BY <4>3, <4>4
    <3> QED BY <3>1, <3>2
  <2>7. UpTo(n + 1) BY <2>5, <2>6
  <2> HIDE DEF UpTo
  <2> QED BY <2>7
<1>3. Nat \subseteq N 
  <2> HIDE DEF N
  <2> QED BY <1>1, <1>2, SetInduction
<1>4. Cardinality(S) \in Nat BY FS_CardinalityType
<1>5. PICK g \in [SUBSET S -> Int] : \A s \in SUBSET S : Cardinality(s) <= Cardinality(S) => Right(g, s)
  BY <1>3, <1>4
<1>6. \A s \in SUBSET S : Cardinality(s) <= Cardinality(S) BY FS_Subset
<1>7. \A s \in SUBSET S : Right(g, s) BY <1>5, <1>6
<1>8. g = [s \in SUBSET S |-> IF s = {} THEN 0 ELSE f[First(s)] + g[s \ {First(s)}]] BY <1>7
<1> QED BY <1>8 DEF Sums

\* There is no other.
LEMMA SumsAgree ==
    ASSUME NEW S, IsFiniteSet(S), NEW T \in SUBSET S, NEW f, NEW g, NEW h, Sums(g, f, S), Sums(h, f, T)
    PROVE  \A s \in SUBSET T : g[s] = h[s]
<1> DEFINE N == {n \in Nat : \A s \in SUBSET T : Cardinality(s) = n => g[s] = h[s]}
<1>1. \A s \in SUBSET T : s \in SUBSET S /\ (Cardinality(s) = 0 => s = {}) BY Smaller
<1>2. g[{}] = 0 /\ h[{}] = 0 BY DEF Sums
<1>3. 0 \in N BY <1>1, <1>2
<1>4. ASSUME NEW n \in Nat, n \in N PROVE n + 1 \in N
  <2>1. ASSUME NEW s \in SUBSET T, Cardinality(s) = n + 1 PROVE g[s] = h[s]
    <3> DEFINE t == s \ {First(s)}
    <3>1. s # {} BY <2>1, FS_EmptySet
    <3>2. Cardinality(t) = n /\ t \in SUBSET T BY <1>1, <2>1, <3>1, FirstIn, Smaller
    <3>3. g[t] = h[t] BY <1>4, <3>2
    <3>4. g[s] = f[First(s)] + g[t] BY <1>1, <3>1 DEF Sums
    <3>5. h[s] = f[First(s)] + h[t] BY <3>1 DEF Sums
    <3> QED BY <3>3, <3>4, <3>5
  <2> QED BY <2>1
<1>5. Nat \subseteq N 
  <2> HIDE DEF N
  <2> QED BY <1>3, <1>4, SetInduction
<1>6. \A s \in SUBSET T : Cardinality(s) \in Nat BY <1>1, Smaller
<1> QED BY <1>5, <1>6

\* Whichever element is taken first.
InAnyOrder(g, f, S) == \A s \in SUBSET S : \A x \in s : g[s] = f[x] + g[s \ {x}]

\* Any element may be taken first, not only the one it picks.
LEMMA SumsInAnyOrder ==
    ASSUME NEW S, IsFiniteSet(S), NEW f, \A x \in S : f[x] \in Int,
           NEW g \in [SUBSET S -> Int], Sums(g, f, S)
    PROVE  InAnyOrder(g, f, S)
<1> DEFINE N == {n \in Nat : \A s \in SUBSET S : Cardinality(s) = n => \A x \in s : g[s] = f[x] + g[s \ {x}]}
<1>1. 0 \in N BY Smaller
<1>2. ASSUME NEW n \in Nat, n \in N PROVE n + 1 \in N
  <2>1. ASSUME NEW s \in SUBSET S, Cardinality(s) = n + 1, NEW x \in s PROVE g[s] = f[x] + g[s \ {x}]
    <3> DEFINE c == First(s)
    <3>1. c \in s BY FirstIn
    <3>2. g[s] = f[c] + g[s \ {c}] BY DEF Sums
    <3>3. CASE x = c BY <3>2, <3>3
    <3>4. CASE x # c
      <4> DEFINE t == s \ {c}
                 u == s \ {x}
                 v == (s \ {c}) \ {x}
      <4>1. t \in SUBSET S /\ Cardinality(t) = n /\ x \in t BY <2>1, <3>1, <3>4, Smaller
      <4>2. u \in SUBSET S /\ Cardinality(u) = n /\ c \in u BY <2>1, <3>1, <3>4, Smaller
      <4>3. v = u \ {c} /\ v \in SUBSET S OBVIOUS
      <4>4. g[t] = f[x] + g[v] BY <1>2, <4>1
      <4>5. g[u] = f[c] + g[v]
        <5>1. \A w \in SUBSET S : Cardinality(w) = n => \A y \in w : g[w] = f[y] + g[w \ {y}] BY <1>2
        <5>2. g[u] = f[c] + g[u \ {c}] BY <4>2, <5>1
        <5> QED BY <4>3, <5>2
      <4>6. f[x] \in Int /\ f[c] \in Int /\ g[v] \in Int BY <3>1, <4>3
      <4> HIDE DEF c, t, u, v
      <4>7. f[c] + (f[x] + g[v]) = f[x] + (f[c] + g[v]) BY <4>6
      <4> QED BY <3>2, <4>4, <4>5, <4>7 DEF t, u
    <3> QED BY <3>3, <3>4
  <2> QED BY <2>1
<1>3. Nat \subseteq N 
  <2> HIDE DEF N
  <2> QED BY <1>1, <1>2, SetInduction
<1>4. \A s \in SUBSET S : Cardinality(s) \in Nat BY Smaller
<1> QED BY <1>3, <1>4 DEF InAnyOrder

-----------------------------------------------------------------------------
\* The sums over the subsets of a finite set, all at once.
LEMMA SumOfSubsets ==
    ASSUME NEW S, IsFiniteSet(S), NEW f, \A x \in S : f[x] \in Int
    PROVE  /\ \A s \in SUBSET S : SumFunctionOnSet(f, s) \in Int
           /\ SumFunctionOnSet(f, {}) = 0
           /\ \A s \in SUBSET S : \A x \in s :
                 SumFunctionOnSet(f, s) = f[x] + SumFunctionOnSet(f, s \ {x})
<1>1. PICK g \in [SUBSET S -> Int] : Sums(g, f, S) BY SumsExist
<1>2. ASSUME NEW s \in SUBSET S PROVE SumFunctionOnSet(f, s) = g[s]
  <2>1. IsFiniteSet(s) /\ \A x \in s : f[x] \in Int BY Smaller
  <2>2. \E h : Sums(h, f, s) BY <2>1, SumsExist
  <2>3. Sums(CHOOSE h : Sums(h, f, s), f, s) BY <2>2
  <2>4. g[s] = (CHOOSE h : Sums(h, f, s))[s] BY <1>1, <2>3, SumsAgree
  <2> QED BY <2>4, SumDef
<1>3. InAnyOrder(g, f, S) BY <1>1, SumsInAnyOrder
<1>4. g[{}] = 0 BY <1>1 DEF Sums
<1> QED BY <1>1, <1>2, <1>3, <1>4 DEF InAnyOrder

\* Of nothing it is zero.
LEMMA SumOfNothing == \A f : SumFunctionOnSet(f, {}) = 0
BY SumOfSubsets, FS_EmptySet

\* One element more adds its number.
LEMMA SumAdds ==
    ASSUME NEW S, IsFiniteSet(S), NEW f, \A x \in S : f[x] \in Int, NEW s \in SUBSET S, NEW x \in S \ s
    PROVE  SumFunctionOnSet(f, s \cup {x}) = f[x] + SumFunctionOnSet(f, s)
<1>1. s \cup {x} \in SUBSET S /\ (s \cup {x}) \ {x} = s OBVIOUS
<1>2. SumFunctionOnSet(f, s \cup {x}) = f[x] + SumFunctionOnSet(f, (s \cup {x}) \ {x})
  BY <1>1, SumOfSubsets
<1> QED BY <1>1, <1>2

\* One element less.
LEMMA SumRemoves ==
    ASSUME NEW S, IsFiniteSet(S), NEW f, \A x \in S : f[x] \in Int, NEW x \in S
    PROVE  SumFunctionOnSet(f, S) = f[x] + SumFunctionOnSet(f, S \ {x})
BY SumOfSubsets, S \in SUBSET S

\* A sum of numbers is a number.
LEMMA SumType ==
    ASSUME NEW S, IsFiniteSet(S), NEW f, \A x \in S : f[x] \in Int
    PROVE  SumFunctionOnSet(f, S) \in Int
BY SumOfSubsets, S \in SUBSET S

\* Functions that agree have one sum.
LEMMA SumOfEqual ==
    ASSUME NEW S, IsFiniteSet(S), NEW f, NEW g, \A x \in S : f[x] \in Int /\ g[x] = f[x]
    PROVE  SumFunctionOnSet(g, S) = SumFunctionOnSet(f, S)
<1> DEFINE P == {s \in SUBSET S : SumFunctionOnSet(g, s) = SumFunctionOnSet(f, s)}
<1>1. {} \in P BY SumOfNothing
<1>2. ASSUME NEW s \in SUBSET S, NEW x \in S \ s, s \in P PROVE s \cup {x} \in P
  <2>1. SumFunctionOnSet(f, s \cup {x}) = f[x] + SumFunctionOnSet(f, s) BY SumAdds
  <2>2. SumFunctionOnSet(g, s \cup {x}) = g[x] + SumFunctionOnSet(g, s) BY SumAdds
  <2> QED BY <1>2, <2>1, <2>2
<1>3. S \in P
  <2> HIDE DEF P
  <2> QED BY <1>1, <1>2, FiniteInduction
<1> QED BY <1>3

\* A sum of numbers no smaller than others is no smaller.
LEMMA SumGrows ==
    ASSUME NEW S, IsFiniteSet(S), NEW f, NEW g, \A x \in S : f[x] \in Int /\ g[x] \in Int /\ f[x] <= g[x]
    PROVE  SumFunctionOnSet(f, S) <= SumFunctionOnSet(g, S)
<1> DEFINE P == {s \in SUBSET S : SumFunctionOnSet(f, s) <= SumFunctionOnSet(g, s)}
<1>1. {} \in P BY SumOfNothing
<1>2. ASSUME NEW s \in SUBSET S, NEW x \in S \ s, s \in P PROVE s \cup {x} \in P
  <2>1. SumFunctionOnSet(f, s \cup {x}) = f[x] + SumFunctionOnSet(f, s) BY SumAdds
  <2>2. SumFunctionOnSet(g, s \cup {x}) = g[x] + SumFunctionOnSet(g, s) BY SumAdds
  <2>3. SumFunctionOnSet(f, s) \in Int /\ SumFunctionOnSet(g, s) \in Int BY SumOfSubsets
  <2>4. f[x] \in Int /\ g[x] \in Int /\ f[x] <= g[x] OBVIOUS
  <2>5. SumFunctionOnSet(f, s) <= SumFunctionOnSet(g, s) BY <1>2
  <2>6. f[x] + SumFunctionOnSet(f, s) <= g[x] + SumFunctionOnSet(g, s) BY <2>3, <2>4, <2>5
  <2> QED BY <2>1, <2>2, <2>6
<1>3. S \in P
  <2> HIDE DEF P
  <2> QED BY <1>1, <1>2, FiniteInduction
<1> QED BY <1>3

\* A set in two parts.
LEMMA SumOfParts ==
    ASSUME NEW S, IsFiniteSet(S), NEW f, \A x \in S : f[x] \in Int, NEW T \in SUBSET S
    PROVE  SumFunctionOnSet(f, S) = SumFunctionOnSet(f, T) + SumFunctionOnSet(f, S \ T)
<1> DEFINE Sum(s) == SumFunctionOnSet(f, s)
<1>1. PICK R : R = S \ T OBVIOUS
<1>2. PICK P : P = {s \in SUBSET R : Sum(T \cup s) = Sum(T) + Sum(s)} OBVIOUS
<1>3. {} \in P
  <2>1. T \cup {} = T OBVIOUS
  <2>2. Sum(T) \in Int BY SumOfSubsets
  <2>3. Sum(T) = Sum(T) + 0 BY <2>2
  <2> QED BY <1>2, <2>1, <2>3, SumOfNothing
<1>4. ASSUME NEW s \in SUBSET R, NEW x \in R \ s, s \in P PROVE s \cup {x} \in P
  <2>1. PICK u : u = T \cup s OBVIOUS
  <2>2. u \in SUBSET S /\ x \in S \ u /\ s \in SUBSET S /\ x \in S \ s BY <1>1, <2>1
  <2>3. Sum(u \cup {x}) = f[x] + Sum(u) /\ Sum(s \cup {x}) = f[x] + Sum(s) BY <2>2, SumAdds
  <2>4. Sum(s) \in Int /\ Sum(T) \in Int /\ f[x] \in Int BY <2>2, SumOfSubsets
  <2>5. Sum(u) = Sum(T) + Sum(s) BY <1>2, <1>4, <2>1
  <2>6. f[x] + (Sum(T) + Sum(s)) = Sum(T) + (f[x] + Sum(s)) BY <2>4
  <2>7. Sum(u \cup {x}) = Sum(T) + Sum(s \cup {x}) BY <2>3, <2>5, <2>6
  <2>8. T \cup (s \cup {x}) = u \cup {x} BY <2>1
  <2> QED BY <1>2, <2>7, <2>8
<1>5. R \in P
  <2>1. IsFiniteSet(R) BY <1>1, FS_Subset
  <2>2. \A s \in SUBSET R : \A x \in R \ s : s \in P => s \cup {x} \in P BY <1>4
  <2>3. \A s \in SUBSET R : s \in P BY <1>3, <2>1, <2>2, FiniteInduction
  <2> QED BY <2>3
<1>6. T \cup R = S BY <1>1
<1> QED BY <1>1, <1>2, <1>5, <1>6

\* A sum of natural numbers is one, and no less than that over a part.
LEMMA SumOfNaturals ==
    ASSUME NEW S, IsFiniteSet(S), NEW f, \A x \in S : f[x] \in Nat
    PROVE  /\ SumFunctionOnSet(f, S) \in Nat
           /\ \A T \in SUBSET S : SumFunctionOnSet(f, T) \in Nat /\ SumFunctionOnSet(f, T) <= SumFunctionOnSet(f, S)
<1> DEFINE P == {s \in SUBSET S : SumFunctionOnSet(f, s) \in Nat}
<1>1. {} \in P BY SumOfNothing
<1>2. ASSUME NEW s \in SUBSET S, NEW x \in S \ s, s \in P PROVE s \cup {x} \in P
  <2>1. SumFunctionOnSet(f, s \cup {x}) = f[x] + SumFunctionOnSet(f, s) BY SumAdds
  <2>2. f[x] \in Nat /\ SumFunctionOnSet(f, s) \in Nat BY <1>2
  <2>3. f[x] + SumFunctionOnSet(f, s) \in Nat BY <2>2
  <2> QED BY <2>1, <2>3
<1>3. \A T \in SUBSET S : T \in P
  <2> HIDE DEF P
  <2> QED BY <1>1, <1>2, FiniteInduction
<1>4. ASSUME NEW T \in SUBSET S PROVE SumFunctionOnSet(f, T) <= SumFunctionOnSet(f, S)
  <2>1. SumFunctionOnSet(f, S) = SumFunctionOnSet(f, T) + SumFunctionOnSet(f, S \ T) BY SumOfParts
  <2>2. SumFunctionOnSet(f, T) \in Nat /\ SumFunctionOnSet(f, S \ T) \in Nat BY <1>3
  <2> QED BY <2>1, <2>2
<1> QED BY <1>3, <1>4

\* One number changes.
LEMMA SumChanges ==
    ASSUME NEW S, IsFiniteSet(S), NEW f, NEW g, NEW x \in S,
           \A y \in S : f[y] \in Int /\ g[y] \in Int,
           \A y \in S \ {x} : g[y] = f[y]
    PROVE  SumFunctionOnSet(g, S) = SumFunctionOnSet(f, S) + (g[x] - f[x])
<1>1. SumFunctionOnSet(f, S) = f[x] + SumFunctionOnSet(f, S \ {x}) BY SumRemoves
<1>2. SumFunctionOnSet(g, S) = g[x] + SumFunctionOnSet(g, S \ {x}) BY SumRemoves
<1>3. IsFiniteSet(S \ {x}) BY FS_RemoveElement
<1>4. SumFunctionOnSet(g, S \ {x}) = SumFunctionOnSet(f, S \ {x}) BY <1>3, SumOfEqual
<1>5. SumFunctionOnSet(f, S \ {x}) \in Int BY SumOfSubsets
<1>6. f[x] \in Int /\ g[x] \in Int OBVIOUS
<1> QED BY <1>1, <1>2, <1>4, <1>5, <1>6

\* Nothing but zeros.
LEMMA SumOfZeros ==
    ASSUME NEW S, IsFiniteSet(S), NEW f, \A x \in S : f[x] = 0
    PROVE  SumFunctionOnSet(f, S) = 0
<1> DEFINE P == {s \in SUBSET S : SumFunctionOnSet(f, s) = 0}
<1>1. {} \in P BY SumOfNothing
<1>2. ASSUME NEW s \in SUBSET S, NEW x \in S \ s, s \in P PROVE s \cup {x} \in P
  <2>1. SumFunctionOnSet(f, s \cup {x}) = f[x] + SumFunctionOnSet(f, s) BY SumAdds
  <2> QED BY <1>2, <2>1
<1>3. S \in P
  <2> HIDE DEF P
  <2> QED BY <1>1, <1>2, FiniteInduction
<1> QED BY <1>3

\* A sum over a larger set of what is the same on a smaller one and zero beyond it.
LEMMA SumExtends ==
    ASSUME NEW S, IsFiniteSet(S), NEW T \in SUBSET S, NEW f, NEW g,
           \A x \in T : f[x] \in Int /\ g[x] = f[x],
           \A x \in S \ T : g[x] = 0
    PROVE  SumFunctionOnSet(g, S) = SumFunctionOnSet(f, T)
<1>1. IsFiniteSet(T) /\ IsFiniteSet(S \ T) BY FS_Subset
<1>2. \A x \in S : g[x] \in Int OBVIOUS
<1>3. SumFunctionOnSet(g, S) = SumFunctionOnSet(g, T) + SumFunctionOnSet(g, S \ T) BY <1>2, SumOfParts
<1>4. SumFunctionOnSet(g, T) = SumFunctionOnSet(f, T) BY <1>1, SumOfEqual
<1>5. SumFunctionOnSet(g, S \ T) = 0 BY <1>1, SumOfZeros
<1>6. SumFunctionOnSet(f, T) \in Int BY <1>1, SumType
<1> QED BY <1>3, <1>4, <1>5, <1>6

\* Two sums over one set.
LEMMA SumOfSums ==
    ASSUME NEW S, IsFiniteSet(S), NEW f, NEW g, NEW h,
           \A x \in S : f[x] \in Int /\ g[x] \in Int /\ h[x] = f[x] + g[x]
    PROVE  SumFunctionOnSet(h, S) = SumFunctionOnSet(f, S) + SumFunctionOnSet(g, S)
<1> DEFINE P == {s \in SUBSET S : SumFunctionOnSet(h, s) = SumFunctionOnSet(f, s) + SumFunctionOnSet(g, s)}
<1>1. {} \in P BY SumOfNothing
<1>2. ASSUME NEW s \in SUBSET S, NEW x \in S \ s, s \in P PROVE s \cup {x} \in P
  <2>1. SumFunctionOnSet(f, s \cup {x}) = f[x] + SumFunctionOnSet(f, s) BY SumAdds
  <2>2. SumFunctionOnSet(g, s \cup {x}) = g[x] + SumFunctionOnSet(g, s) BY SumAdds
  <2>3. SumFunctionOnSet(h, s \cup {x}) = h[x] + SumFunctionOnSet(h, s) BY SumAdds
  <2>4. SumFunctionOnSet(f, s) \in Int /\ SumFunctionOnSet(g, s) \in Int BY SumOfSubsets
  <2>5. f[x] \in Int /\ g[x] \in Int /\ h[x] = f[x] + g[x] OBVIOUS
  <2>6. SumFunctionOnSet(h, s) = SumFunctionOnSet(f, s) + SumFunctionOnSet(g, s) BY <1>2
  <2>7. h[x] + SumFunctionOnSet(h, s) = (f[x] + SumFunctionOnSet(f, s)) + (g[x] + SumFunctionOnSet(g, s))
    BY <2>4, <2>5, <2>6
  <2> QED BY <2>1, <2>2, <2>3, <2>7
<1>3. S \in P
  <2> HIDE DEF P
  <2> QED BY <1>1, <1>2, FiniteInduction
<1> QED BY <1>3

-----------------------------------------------------------------------------
\* The same with the sum behind a name, which the provers match where f[x] is known to be a number.
AddsOne(f, s, x) == SumFunctionOnSet(f, s \cup {x}) = f[x] + SumFunctionOnSet(f, s)

\* One element more.
LEMMA SumAddsOne ==
    ASSUME NEW S, IsFiniteSet(S), NEW f, \A x \in S : f[x] \in Int, NEW s \in SUBSET S, NEW x \in S \ s
    PROVE  AddsOne(f, s, x)
BY SumAdds DEF AddsOne

\* Only the number at t differs.
OnlyAt(f, g, T, t) == SumFunctionOnSet(g, T) = SumFunctionOnSet(f, T) + (g[t] - f[t])

\* One number changed.
LEMMA SumOnlyAt ==
    ASSUME NEW T, IsFiniteSet(T), NEW f, NEW g, NEW t \in T, \A s \in T : f[s] \in Int /\ g[s] \in Int,
           \A s \in T \ {t} : g[s] = f[s]
    PROVE  OnlyAt(f, g, T, t)
BY SumChanges DEF OnlyAt

-----------------------------------------------------------------------------
(* Other folds                                                             *)

\* A fold that picks which element to take, and takes a step from what the rest came to.
Folds(g, base, step, pick, S) ==
    \A s \in SUBSET S : g[s] = IF s = {} THEN base ELSE step[s][g[s \ {pick[s]}]]

\* Its steps stay among the values.
Steps(step, S, V) == \A s \in SUBSET S : \A v \in V : step[s][v] \in V

\* What it picks from a set is in it.
Picks(pick, S) == \A s \in SUBSET S : s # {} => pick[s] \in s

\* There is such a fold.
LEMMA FoldsExist ==
    ASSUME NEW S, IsFiniteSet(S), NEW V, NEW base \in V, NEW step, Steps(step, S, V), NEW pick, Picks(pick, S)
    PROVE  \E g \in [SUBSET S -> V] : Folds(g, base, step, pick, S)
<1> USE DEF Steps, Picks
<1> DEFINE
    Right(g, s) == g[s] = IF s = {} THEN base ELSE step[s][g[s \ {pick[s]}]]
    UpTo(n) == \E g \in [SUBSET S -> V] : \A s \in SUBSET S : Cardinality(s) <= n => Right(g, s)
    N == {n \in Nat : UpTo(n)}
<1>1. 0 \in N
  <2>1. PICK g : g = [s \in SUBSET S |-> base] OBVIOUS
  <2>2. g \in [SUBSET S -> V] BY <2>1
  <2>3. \A s \in SUBSET S : Cardinality(s) <= 0 => s = {} BY Smaller
  <2>4. \A s \in SUBSET S : Cardinality(s) <= 0 => Right(g, s) BY <2>1, <2>3
  <2> QED BY <2>2, <2>4
<1>2. ASSUME NEW n \in Nat, n \in N PROVE n + 1 \in N
  <2>1. PICK g \in [SUBSET S -> V] : \A s \in SUBSET S : Cardinality(s) <= n => Right(g, s) BY <1>2
  <2>2. PICK h : h = [s \in SUBSET S |-> IF Cardinality(s) = n + 1 THEN step[s][g[s \ {pick[s]}]] ELSE g[s]]
    OBVIOUS
  <2>3. ASSUME NEW s \in SUBSET S PROVE s \ {pick[s]} \in SUBSET S /\ step[s][g[s \ {pick[s]}]] \in V
    <3>2. s \ {pick[s]} \in SUBSET S OBVIOUS
    <3>3. g[s \ {pick[s]}] \in V BY <3>2
    <3> QED BY <3>2, <3>3
  <2>4. h \in [SUBSET S -> V] BY <2>2, <2>3
  <2>5. ASSUME NEW s \in SUBSET S, Cardinality(s) <= n + 1 PROVE Right(h, s)
    <3>1. CASE s = {}
      <4>1. Cardinality(s) = 0 BY <3>1, FS_EmptySet
      <4>2. h[s] = g[s] BY <2>2, <4>1
      <4>3. g[s] = base BY <2>1, <3>1, <4>1
      <4> QED BY <3>1, <4>2, <4>3
    <3>2. CASE s # {}
      <4>1. PICK t : t = s \ {pick[s]} OBVIOUS
      <4>2. t \in SUBSET S /\ Cardinality(t) = Cardinality(s) - 1 /\ Cardinality(s) \in Nat
        BY <3>2, <4>1, Smaller
      <4>3. h[t] = g[t]
        <5>1. Cardinality(t) # n + 1 BY <2>5, <4>2
        <5> QED BY <2>2, <4>2, <5>1
      <4>4. CASE Cardinality(s) = n + 1
        <5>1. h[s] = step[s][g[t]] BY <2>2, <4>1, <4>4
        <5> QED BY <3>2, <4>1, <4>3, <5>1
      <4>5. CASE Cardinality(s) # n + 1
        <5>1. Cardinality(s) <= n BY <2>5, <4>2, <4>5
        <5>2. h[s] = g[s] BY <2>2, <4>5
        <5>3. Right(g, s) BY <2>1, <5>1
        <5> QED BY <3>2, <4>1, <4>3, <5>2, <5>3
      <4> QED BY <4>4, <4>5
    <3> QED BY <3>1, <3>2
  <2>6. UpTo(n + 1)
    <3>1. \A s \in SUBSET S : Cardinality(s) <= n + 1 => Right(h, s) BY <2>5
    <3> HIDE DEF Right
    <3> QED BY <2>4, <3>1
  <2>7. n + 1 \in Nat OBVIOUS
  <2> HIDE DEF UpTo
  <2> QED BY <2>6, <2>7
<1>3. Nat \subseteq N
  <2> HIDE DEF N
  <2> QED BY <1>1, <1>2, SetInduction
<1>4. PICK n \in Nat : n = Cardinality(S) BY FS_CardinalityType
<1>5. UpTo(n) BY <1>3
<1>6. \A s \in SUBSET S : Cardinality(s) <= n BY <1>4, FS_Subset
<1> QED BY <1>5, <1>6 DEF Folds

\* What holds of {} and of a set once it holds of it without any one of its elements.
LEMMA FiniteDescent ==
    ASSUME NEW S, IsFiniteSet(S), NEW P, {} \in P,
           \A s \in SUBSET S : s # {} /\ (\A x \in s : s \ {x} \in P) => s \in P
    PROVE  \A s \in SUBSET S : s \in P
<1> DEFINE N == {n \in Nat : \A s \in SUBSET S : Cardinality(s) = n => s \in P}
<1>1. 0 \in N
  <2>1. \A s \in SUBSET S : Cardinality(s) = 0 => s = {} BY Smaller
  <2> QED BY <2>1
<1>2. ASSUME NEW n \in Nat, n \in N PROVE n + 1 \in N
  <2>1. ASSUME NEW s \in SUBSET S, Cardinality(s) = n + 1 PROVE s \in P
    <3>1. s # {}
      <4>1. Cardinality({}) = 0 /\ 0 # n + 1 BY FS_EmptySet
      <4> QED BY <2>1, <4>1
    <3>2. \A x \in s : s \ {x} \in SUBSET S /\ Cardinality(s \ {x}) = n BY <2>1, Smaller
    <3>3. \A x \in s : s \ {x} \in P BY <1>2, <3>2
    <3> QED BY <3>1, <3>3
  <2> QED BY <2>1
<1>3. Nat \subseteq N
  <2> HIDE DEF N
  <2> QED BY <1>1, <1>2, SetInduction
<1>4. \A s \in SUBSET S : Cardinality(s) \in Nat BY Smaller
<1> QED BY <1>3, <1>4

=============================================================================
