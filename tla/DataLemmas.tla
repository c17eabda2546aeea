----------------------------- MODULE DataLemmas -----------------------------
(***************************************************************************)
(* Facts about data that the proofs of several components need: the least  *)
(* number of a set, which stands for induction, what Subsequence keeps of  *)
(* a sequence, sums over finite sets, and lists of elements of any type.   *)
(***************************************************************************)
EXTENDS Subsequence, FiniteSetsExt, FiniteSetTheorems, WellFoundedInduction, TLAPS

\* Every non-empty set of natural numbers has a least element.  (An induction
\* on n is a proof that the least counterexample does not exist.)
LEMMA LeastNumber ==
  ASSUME NEW S \in SUBSET Nat, S # {}
  PROVE  \E n \in S : \A m \in S : n <= m
<1> DEFINE R == OpToRel(<, Nat)
<1>1. IsWellFoundedOn(R, Nat)
  BY NatLessThanWellFounded
<1>2. \A x, y \in Nat : x < y => <<x, y>> \in R
  BY DEF R, OpToRel
<1> HIDE DEF R
<1>3. PICK x \in S : \A y \in S : ~(<<y, x>> \in R)
  BY <1>1, WFMin
<1>4. \A y \in S : x <= y
  <2> TAKE y \in S
  <2>1. x \in Nat /\ y \in Nat
    OBVIOUS
  <2>2. ~(y < x)
    BY <2>1, <1>2, <1>3
  <2> QED BY <2>1, <2>2
<1> QED BY <1>4

\* A function on 1..n is a sequence of length n.
LEMMA FunctionIsSeq ==
  ASSUME NEW S, NEW n \in Nat, NEW f \in [1..n -> S]
  PROVE  f \in Seq(S) /\ Len(f) = n
OBVIOUS

\* The recursive function inside Subsequence.
IsKept(g, s, I, N) ==
    g = [n \in 0..N |-> IF n = 0 THEN << >>
                        ELSE IF n \in I THEN Append(g[n - 1], s[n]) ELSE g[n - 1]]

\* It exists, for a sequence of any length.
LEMMA KeptExists ==
  ASSUME NEW s, NEW I, NEW N \in Nat
  PROVE  \E g : IsKept(g, s, I, N)
<1> DEFINE Bad == {n \in Nat : ~\E g : IsKept(g, s, I, n)}
<1>1. SUFFICES ASSUME Bad # {} PROVE FALSE
  OBVIOUS
<1>2. PICK n \in Bad : \A m \in Bad : n <= m
  <2>1. Bad \in SUBSET Nat OBVIOUS
  <2> HIDE DEF Bad
  <2> QED BY <1>1, <2>1, LeastNumber
<1>3. n # 0
  <2>1. IsKept([m \in 0..0 |-> << >>], s, I, 0)
    BY DEF IsKept
  <2> QED BY <2>1
<1>4. n - 1 \in Nat /\ n - 1 \notin Bad
  BY <1>2, <1>3
<1>5. PICK g : IsKept(g, s, I, n - 1)
  BY <1>4
<1> DEFINE h == [m \in 0..n |->
                    IF m = n THEN (IF n \in I THEN Append(g[n - 1], s[n]) ELSE g[n - 1])
                    ELSE g[m]]
<1>6. IsKept(h, s, I, n)
  <2>1. \A m \in 0..n - 1 : h[m] = g[m]
    BY <1>3, <1>4
  <2>2. \A m \in 0..n - 1 :
           g[m] = IF m = 0 THEN << >>
                  ELSE IF m \in I THEN Append(g[m - 1], s[m]) ELSE g[m - 1]
    BY <1>5 DEF IsKept
  <2>3. \A m \in 0..n :
           h[m] = IF m = 0 THEN << >>
                  ELSE IF m \in I THEN Append(h[m - 1], s[m]) ELSE h[m - 1]
    BY <2>1, <2>2, <1>3, <1>4
  <2> QED BY <2>3 DEF IsKept
<1> QED BY <1>6

\* Subsequence is that function, at the length of the sequence.
LEMMA SubsequenceIsKept ==
  ASSUME NEW S, NEW s \in Seq(S), NEW I
  PROVE  \E g : IsKept(g, s, I, Len(s)) /\ Subsequence(s, I) = g[Len(s)]
<1> DEFINE k == CHOOSE g : IsKept(g, s, I, Len(s))
<1>1. IsKept(k, s, I, Len(s))
  BY KeptExists
<1>2. Subsequence(s, I) = k[Len(s)]
  BY DEF Subsequence, IsKept
<1> QED BY <1>1, <1>2

\* r holds, in order, the elements of s at the positions in I up to n.
ChosenFrom(r, s, I, n) ==
  \E f \in [1..Len(r) -> I \cap (1..n)] :
     /\ \A i, j \in 1..Len(r) : i < j => f[i] < f[j]
     /\ \A m \in I \cap (1..n) : \E i \in 1..Len(r) : f[i] = m
     /\ \A i \in 1..Len(r) : r[i] = s[f[i]]

LEMMA SubsequenceFacts ==
  ASSUME NEW S, NEW s \in Seq(S), NEW I
  PROVE  Subsequence(s, I) \in Seq(S) /\ ChosenFrom(Subsequence(s, I), s, I, Len(s))
<1>1. PICK g : IsKept(g, s, I, Len(s)) /\ Subsequence(s, I) = g[Len(s)]
  BY SubsequenceIsKept
<1>2. \A n \in 0..Len(s) : g[n] = IF n = 0 THEN <<>>
            ELSE IF n \in I THEN Append(g[n-1], s[n]) ELSE g[n-1]
  BY <1>1 DEF IsKept
<1> DEFINE Good(n) == g[n] \in Seq(S) /\ ChosenFrom(g[n], s, I, n)
           Bad == {n \in 0..Len(s) : ~Good(n)}
<1>l. Len(s) \in Nat
  OBVIOUS
<1>3. ASSUME Bad # {} PROVE FALSE
  <2>1. PICK n \in Bad : \A m \in Bad : n <= m
    <3>1. Bad \in SUBSET Nat OBVIOUS
    <3> HIDE DEF Bad
    <3> QED BY <1>3, <3>1, LeastNumber
  <2>2. n # 0
    <3>1. g[0] = <<>>
      BY <1>2
    <3>2. Good(0)
      <4> DEFINE f == [i \in 1..0 |-> 0]
      <4>1. f \in [1..Len(g[0]) -> I \cap (1..0)]
        BY <3>1
      <4>2. 1..Len(g[0]) = {} /\ I \cap (1..0) = {}
        BY <3>1
      <4>3. ChosenFrom(g[0], s, I, 0)
        BY <4>1, <4>2 DEF ChosenFrom
      <4> QED BY <3>1, <4>3
    <3> QED BY <3>2
  <2>3. n-1 \in 0..Len(s) /\ n - 1 \notin Bad /\ n \in 1..Len(s)
    BY <2>1, <2>2
  <2>4. g[n-1] \in Seq(S) /\ ChosenFrom(g[n-1], s, I, n-1)
    BY <2>3
  <2>5. CASE n \in I
    <3>1. g[n] = Append(g[n-1], s[n])
      <4> HIDE DEF Bad, Good
      <4>1. n \in 0..Len(s) /\ n # 0
        BY <2>3, <1>l
      <4>2. g[n] = IF n = 0 THEN <<>>
            ELSE IF n \in I THEN Append(g[n-1], s[n]) ELSE g[n-1]
        BY <4>1, <1>2, Zenon
      <4> QED BY <2>5, <4>1, <4>2, Zenon
    <3> DEFINE L == Len(g[n-1])
    <3>2. L \in Nat /\ g[n] \in Seq(S) /\ Len(g[n]) = L+1 /\ g[n][L+1] = s[n] /\ \A i \in 1..L : g[n][i] = g[n-1][i]
      BY <3>1, <2>4, <2>3
    <3>3. PICK f \in [1..L -> I \cap (1..(n-1))] :
             /\ \A i, j \in 1..L : i < j => f[i] < f[j]
             /\ \A m \in I \cap (1..(n-1)) : \E i \in 1..L : f[i] = m
             /\ \A i \in 1..L : g[n-1][i] = s[f[i]]
      BY <2>4 DEF ChosenFrom
    <3> DEFINE h == [i \in 1..(L+1) |-> IF i = L+1 THEN n ELSE f[i]]
    <3> HIDE DEF L
    <3>4. h \in [1..(L+1) -> I \cap (1..n)]
      BY <3>2, <3>3, <2>5, <2>3
    <3>5. \A i, j \in 1..(L+1) : i < j => h[i] < h[j]
      BY <3>2, <3>3, <2>3
    <3>6. \A m \in I \cap (1..n) : \E i \in 1..(L+1) : h[i] = m
      <4> TAKE m \in I \cap (1..n)
      <4>1. CASE m = n
        BY <4>1, <3>2
      <4>2. CASE m # n
        <5>1. m \in I \cap (1..(n-1))
          BY <4>2, <2>3
        <5>2. PICK i \in 1..L : f[i] = m
          BY <5>1, <3>3
        <5>3. i \in 1..(L+1) /\ h[i] = m
          BY <5>2, <3>2
        <5> QED BY <5>3
      <4> QED BY <4>1, <4>2
    <3>7. \A i \in 1..(L+1) : g[n][i] = s[h[i]]
      BY <3>2, <3>3
    <3> HIDE DEF h
    <3>8. ChosenFrom(g[n], s, I, n)
      <4> HIDE DEF Bad, Good
      <4>1. Len(g[n]) = L+1
        BY <3>2
      <4> QED BY <4>1, <3>4, <3>5, <3>6, <3>7 DEF ChosenFrom
    <3> QED BY <3>8, <3>2, <2>1
  <2>6. CASE n \notin I
    <3>1. g[n] = g[n-1]
      BY <2>6, <1>2, <2>3
    <3>2. I \cap (1..n) = I \cap (1..(n-1))
      BY <2>6, <2>3
    <3>3. Good(n)
      BY <3>1, <3>2, <2>4 DEF ChosenFrom
    <3> QED BY <3>3, <2>1
  <2> QED BY <2>5, <2>6
<1>4. Good(Len(s))
  BY <1>3
<1> QED BY <1>4, <1>1

(***************************************************************************)
(* Sums.                                                                   *)
(***************************************************************************)
\* The sum of g over a set.
SumOver(g, S) == MapThenSumSet(LAMBDA x : g[x], S)

\* The recursive function inside MapThenSumSet.
Some(s) == CHOOSE x \in s : TRUE
IsSum(h, g, S) ==
    h = [s \in SUBSET S |-> IF s = {} THEN 0 ELSE g[Some(s)] + h[s \ {Some(s)}]]

\* A set of finite sets that is not empty has a smallest member.
LEMMA SmallestSet ==
  ASSUME NEW F, F # {}, \A s \in F : IsFiniteSet(s)
  PROVE  \E s \in F : \A t \in F : Cardinality(s) <= Cardinality(t)
<1> DEFINE Sizes == {Cardinality(s) : s \in F}
<1>1. Sizes \in SUBSET Nat /\ Sizes # {}
  BY FS_CardinalityType
<1> HIDE DEF Sizes
<1>2. PICK n \in Sizes : \A m \in Sizes : n <= m
  BY <1>1, LeastNumber
<1> QED BY <1>2 DEF Sizes

\* One element less is a smaller set.
LEMMA OneLess ==
  ASSUME NEW s, IsFiniteSet(s), s # {}
  PROVE  /\ Some(s) \in s
         /\ IsFiniteSet(s \ {Some(s)})
         /\ ~(Cardinality(s) <= Cardinality(s \ {Some(s)}))
<1>1. Some(s) \in s
  BY DEF Some
<1>2. Cardinality(s) \in Nat
  BY FS_CardinalityType
<1> QED BY <1>1, <1>2, FS_RemoveElement

\* The sum over a set depends on what is summed over that set only.
LEMMA SumAgrees ==
  ASSUME NEW g, NEW S, NEW h, IsSum(h, g, S),
         NEW e, NEW T, NEW k, IsSum(k, e, T),
         NEW U, IsFiniteSet(U), U \subseteq S, U \subseteq T, \A x \in U : g[x] = e[x]
  PROVE  h[U] = k[U]
<1> DEFINE Bad == {s \in SUBSET U : h[s] # k[s]}
<1>1. SUFFICES ASSUME Bad # {} PROVE FALSE
  OBVIOUS
<1>2. \A s \in SUBSET U : IsFiniteSet(s)
  BY FS_Subset
<1>3. PICK s \in Bad : \A t \in Bad : Cardinality(s) <= Cardinality(t)
  <2>1. \A t \in Bad : IsFiniteSet(t)
    BY <1>2
  <2> HIDE DEF Bad
  <2> QED BY <1>1, <2>1, SmallestSet
<1>4. /\ h[s] = IF s = {} THEN 0 ELSE g[Some(s)] + h[s \ {Some(s)}]
      /\ k[s] = IF s = {} THEN 0 ELSE e[Some(s)] + k[s \ {Some(s)}]
  <2>1. s \in SUBSET S /\ s \in SUBSET T
    OBVIOUS
  <2>2. \A x \in SUBSET S : h[x] = IF x = {} THEN 0 ELSE g[Some(x)] + h[x \ {Some(x)}]
    BY Zenon DEF IsSum
  <2>3. \A x \in SUBSET T : k[x] = IF x = {} THEN 0 ELSE e[Some(x)] + k[x \ {Some(x)}]
    BY Zenon DEF IsSum
  <2> QED BY <2>1, <2>2, <2>3
<1>5. s # {}
  BY <1>4
<1>6. /\ Some(s) \in s
      /\ ~(Cardinality(s) <= Cardinality(s \ {Some(s)}))
  BY <1>2, <1>5, OneLess
<1>7. s \ {Some(s)} \in SUBSET U /\ s \ {Some(s)} \notin Bad
  BY <1>3, <1>6
<1> QED BY <1>4, <1>5, <1>6, <1>7

\* The function exists, over every finite set.
LEMMA SumExists ==
  ASSUME NEW g, NEW S, IsFiniteSet(S)
  PROVE  \E h : IsSum(h, g, S)
<1> DEFINE Bad == {s \in SUBSET S : ~\E h : IsSum(h, g, s)}
<1>1. SUFFICES ASSUME Bad # {} PROVE FALSE
  OBVIOUS
<1>2. \A s \in SUBSET S : IsFiniteSet(s)
  BY FS_Subset
<1>3. PICK s \in Bad : \A t \in Bad : Cardinality(s) <= Cardinality(t)
  <2>1. \A t \in Bad : IsFiniteSet(t)
    BY <1>2
  <2> HIDE DEF Bad
  <2> QED BY <1>1, <2>1, SmallestSet
<1> DEFINE Fn(t) == CHOOSE h : IsSum(h, g, t)
           Val(t) == Fn(t)[t]
           new == [t \in SUBSET s |-> IF t = {} THEN 0 ELSE g[Some(t)] + Val(t \ {Some(t)})]
\* A smaller set has its function.
<1>4. ASSUME NEW t \in SUBSET s, t # s PROVE IsSum(Fn(t), g, t)
  <2>1. Cardinality(t) < Cardinality(s)
    <3>1. IsFiniteSet(s) /\ Cardinality(s) \in Nat /\ IsFiniteSet(t) /\ Cardinality(t) \in Nat
      BY <1>2, FS_CardinalityType
    <3> QED BY <3>1, <1>4, FS_Subset
  <2>2. t \notin Bad
    <3>1. Cardinality(s) \in Nat /\ Cardinality(t) \in Nat
      BY <1>2, FS_CardinalityType
    <3> HIDE DEF Bad
    <3> QED BY <2>1, <1>3, <3>1
  <2>3. \E h : IsSum(h, g, t)
    BY <2>2
  <2> QED BY <2>3
<1>5. ASSUME NEW t \in SUBSET s, t # {} PROVE new[t \ {Some(t)}] = Val(t \ {Some(t)})
  <2> DEFINE u == t \ {Some(t)}
  <2>1. Some(t) \in t /\ u \in SUBSET s /\ u # s
    BY <1>5, <1>2, OneLess
  <2>2. IsSum(Fn(u), g, u)
    BY <2>1, <1>4
  <2>3. Fn(u)[u] = IF u = {} THEN 0 ELSE g[Some(u)] + Fn(u)[u \ {Some(u)}]
    <3> HIDE DEF u, Fn
    <3>1. u \in SUBSET u
      OBVIOUS
    <3>2. \A x \in SUBSET u : Fn(u)[x] = IF x = {} THEN 0 ELSE g[Some(x)] + Fn(u)[x \ {Some(x)}]
      BY <2>2, Zenon DEF IsSum
    <3> QED BY <3>1, <3>2
  <2>new. new[u] = IF u = {} THEN 0 ELSE g[Some(u)] + Val(u \ {Some(u)})
    <3> HIDE DEF u, Val
    <3> QED BY <2>1
  <2>val. Val(u) = Fn(u)[u]
    OBVIOUS
  <2>4. CASE u = {}
    <3>1. new[u] = Val(u)
      <4> HIDE DEF u, Fn, Val, new
      <4> QED BY <2>new, <2>val, <2>3, <2>4
    <3> QED BY <3>1
  <2>5. CASE u # {}
    <3> DEFINE v == u \ {Some(u)}
    <3>1. IsFiniteSet(u) /\ IsFiniteSet(v) /\ v \in SUBSET s /\ v # s /\ v \subseteq u
      BY <2>1, <2>5, <1>2, OneLess
    <3>2. IsSum(Fn(v), g, v)
      BY <3>1, <1>4
    <3>3. Fn(u)[v] = Fn(v)[v]
      <4> HIDE DEF u, v, Fn
      <4> QED BY <3>1, <3>2, <2>2, SumAgrees
    <3>4. Val(v) = Fn(v)[v]
      OBVIOUS
    <3>5. new[u] = Val(u)
      <4> HIDE DEF u, Fn, Val, new
      <4> QED BY <2>new, <2>val, <2>3, <2>5, <3>3, <3>4
    <3> QED BY <3>5
  <2> QED BY <2>4, <2>5
<1>6. IsSum(new, g, s)
  <2>1. \A t \in SUBSET s :
           (IF t = {} THEN 0 ELSE g[Some(t)] + Val(t \ {Some(t)}))
             = (IF t = {} THEN 0 ELSE g[Some(t)] + new[t \ {Some(t)}])
    <3> HIDE DEF Val, new
    <3> QED BY <1>5
  <2>2. new = [t \in SUBSET s |-> IF t = {} THEN 0 ELSE g[Some(t)] + new[t \ {Some(t)}]]
    <3> HIDE DEF Val
    <3> QED BY <2>1
  <2> HIDE DEF new
  <2> QED BY <2>2 DEF IsSum
<1> QED BY <1>6

\* MapThenSumSet is that function, at the set.
LEMMA SumIs ==
  ASSUME NEW g, NEW S, IsFiniteSet(S)
  PROVE  \E h : IsSum(h, g, S) /\ SumOver(g, S) = h[S]
<1> DEFINE k == CHOOSE h : IsSum(h, g, S)
<1>1. IsSum(k, g, S)
  BY SumExists
<1>2. SumOver(g, S) = k[S]
  BY DEF SumOver, MapThenSumSet, MapThenFoldSet, IsSum, Some
<1> QED BY <1>1, <1>2

LEMMA SumEmpty == ASSUME NEW g PROVE SumOver(g, {}) = 0
<1>1. IsFiniteSet({})
  BY FS_EmptySet
<1>2. PICK h : IsSum(h, g, {}) /\ SumOver(g, {}) = h[{}]
  BY <1>1, SumIs
<1>3. \A x \in SUBSET {} : h[x] = IF x = {} THEN 0 ELSE g[Some(x)] + h[x \ {Some(x)}]
  BY <1>2, Zenon DEF IsSum
<1> QED BY <1>2, <1>3

LEMMA SumCongruent ==
  ASSUME NEW g, NEW e, NEW S, IsFiniteSet(S), \A x \in S : g[x] = e[x]
  PROVE  SumOver(g, S) = SumOver(e, S)
<1>1. PICK h : IsSum(h, g, S) /\ SumOver(g, S) = h[S]
  BY SumIs
<1>2. PICK k : IsSum(k, e, S) /\ SumOver(e, S) = k[S]
  BY SumIs
<1>3. h[S] = k[S]
  BY <1>1, <1>2, SumAgrees
<1> QED BY <1>1, <1>2, <1>3

\* The definition, one element less.
LEMMA SumFirst ==
  ASSUME NEW g, NEW S, IsFiniteSet(S), S # {}
  PROVE  SumOver(g, S) = g[Some(S)] + SumOver(g, S \ {Some(S)})
<1> DEFINE T == S \ {Some(S)}
<1>1. PICK h : IsSum(h, g, S) /\ SumOver(g, S) = h[S]
  BY SumIs
<1>2. IsFiniteSet(T) /\ T \subseteq S
  BY OneLess
<1>3. PICK k : IsSum(k, g, T) /\ SumOver(g, T) = k[T]
  <2> HIDE DEF T
  <2> QED BY <1>2, SumIs
<1>4. h[T] = k[T]
  <2> HIDE DEF T
  <2> QED BY <1>1, <1>2, <1>3, SumAgrees
<1>5. \A x \in SUBSET S : h[x] = IF x = {} THEN 0 ELSE g[Some(x)] + h[x \ {Some(x)}]
  BY <1>1, Zenon DEF IsSum
<1> QED BY <1>1, <1>3, <1>4, <1>5

LEMMA SumInt ==
  ASSUME NEW g, NEW S, IsFiniteSet(S), \A x \in S : g[x] \in Int
  PROVE  SumOver(g, S) \in Int
<1> DEFINE Bad == {s \in SUBSET S : SumOver(g, s) \notin Int}
<1>1. SUFFICES ASSUME Bad # {} PROVE FALSE
  OBVIOUS
<1>2. \A s \in SUBSET S : IsFiniteSet(s)
  BY FS_Subset
<1>3. PICK s \in Bad : \A t \in Bad : Cardinality(s) <= Cardinality(t)
  <2>1. \A t \in Bad : IsFiniteSet(t)
    BY <1>2
  <2> HIDE DEF Bad
  <2> QED BY <1>1, <2>1, SmallestSet
<1>4. s # {}
  BY SumEmpty
<1>5. SumOver(g, s) = g[Some(s)] + SumOver(g, s \ {Some(s)})
  BY <1>2, <1>4, SumFirst
<1>6. s \ {Some(s)} \notin Bad /\ Some(s) \in s
  BY <1>2, <1>3, <1>4, OneLess
<1> QED BY <1>5, <1>6

\* The order of summing does not matter.
LEMMA SumStep ==
  ASSUME NEW g, NEW S, IsFiniteSet(S), \A x \in S : g[x] \in Int, NEW y \in S
  PROVE  SumOver(g, S) = g[y] + SumOver(g, S \ {y})
<1> DEFINE Wrong(s) == \E x \in s : SumOver(g, s) # g[x] + SumOver(g, s \ {x})
           Bad == {s \in SUBSET S : Wrong(s)}
<1>1. SUFFICES ASSUME Bad # {} PROVE FALSE
  OBVIOUS
<1>2. \A s \in SUBSET S : IsFiniteSet(s)
  BY FS_Subset
<1>3. PICK s \in Bad : \A t \in Bad : Cardinality(s) <= Cardinality(t)
  <2>1. \A t \in Bad : IsFiniteSet(t)
    BY <1>2
  <2> HIDE DEF Bad
  <2> QED BY <1>1, <2>1, SmallestSet
<1>4. PICK x \in s : SumOver(g, s) # g[x] + SumOver(g, s \ {x})
  OBVIOUS
<1> DEFINE c == Some(s)
<1>5. SumOver(g, s) = g[c] + SumOver(g, s \ {c})
  BY <1>2, SumFirst
<1>6. c \in s /\ x # c
  BY <1>2, <1>4, <1>5, OneLess
<1>7. IsFiniteSet(s) /\ s \ {c} \in SUBSET S /\ s \ {x} \in SUBSET S /\ s \ {c, x} \in SUBSET S
  BY <1>2
<1>8. ~(Cardinality(s) <= Cardinality(s \ {c})) /\ ~(Cardinality(s) <= Cardinality(s \ {x}))
  <2> HIDE DEF c
  <2>1. Cardinality(s) \in Nat
    BY <1>7, FS_CardinalityType
  <2>2. Cardinality(s \ {c}) = Cardinality(s) - 1
    BY <1>6, <1>7, FS_RemoveElement
  <2>3. Cardinality(s \ {x}) = Cardinality(s) - 1
    BY <1>6, <1>7, FS_RemoveElement
  <2> QED BY <2>1, <2>2, <2>3
<1>9. s \ {c} \notin Bad /\ s \ {x} \notin Bad
  <2> HIDE DEF Bad, c
  <2> QED BY <1>3, <1>8
<1> HIDE DEF c
<1>10. SumOver(g, s \ {c}) = g[x] + SumOver(g, s \ {c, x})
  <2>1. x \in s \ {c} /\ (s \ {c}) \ {x} = s \ {c, x}
    BY <1>6
  <2> QED BY <2>1, <1>7, <1>9
<1>11. SumOver(g, s \ {x}) = g[c] + SumOver(g, s \ {c, x})
  <2>1. c \in s \ {x} /\ (s \ {x}) \ {c} = s \ {c, x}
    BY <1>6
  <2> QED BY <2>1, <1>7, <1>9
<1>12. SumOver(g, s \ {c, x}) \in Int /\ g[x] \in Int /\ g[c] \in Int
  <2>1. IsFiniteSet(s \ {c, x}) /\ \A z \in s \ {c, x} : g[z] \in Int
    BY <1>2, <1>7
  <2> QED BY <2>1, <1>6, SumInt
<1> QED BY <1>4, <1>5, <1>10, <1>11, <1>12

LEMMA SumNat ==
  ASSUME NEW g, NEW S, IsFiniteSet(S), \A x \in S : g[x] \in Nat
  PROVE  SumOver(g, S) \in Nat
<1> DEFINE Bad == {s \in SUBSET S : SumOver(g, s) \notin Nat}
<1>1. SUFFICES ASSUME Bad # {} PROVE FALSE
  OBVIOUS
<1>2. \A s \in SUBSET S : IsFiniteSet(s)
  BY FS_Subset
<1>3. PICK s \in Bad : \A t \in Bad : Cardinality(s) <= Cardinality(t)
  <2>1. \A t \in Bad : IsFiniteSet(t)
    BY <1>2
  <2> HIDE DEF Bad
  <2> QED BY <1>1, <2>1, SmallestSet
<1>4. s # {}
  BY SumEmpty
<1>5. SumOver(g, s) = g[Some(s)] + SumOver(g, s \ {Some(s)})
  BY <1>2, <1>4, SumFirst
<1>6. s \ {Some(s)} \notin Bad /\ Some(s) \in s
  BY <1>2, <1>3, <1>4, OneLess
<1> QED BY <1>5, <1>6

\* Two functions that differ at one element differ by that in their sums.
LEMMA SumChange ==
  ASSUME NEW g, NEW e, NEW S, IsFiniteSet(S), NEW y \in S,
         \A x \in S : g[x] \in Int /\ e[x] \in Int,
         \A x \in S \ {y} : g[x] = e[x]
  PROVE  SumOver(e, S) = SumOver(g, S) + e[y] - g[y]
<1> DEFINE T == S \ {y}
<1>1. IsFiniteSet(T) /\ \A x \in T : g[x] \in Int /\ e[x] \in Int
  BY FS_Subset
<1>2. SumOver(g, S) = g[y] + SumOver(g, T) /\ SumOver(e, S) = e[y] + SumOver(e, T)
  BY SumStep
<1>3. SumOver(g, T) = SumOver(e, T)
  <2> HIDE DEF T
  <2>1. \A x \in T : g[x] = e[x]
    BY DEF T
  <2> QED BY <1>1, <2>1, SumCongruent
<1>4. SumOver(g, T) \in Int
  <2> HIDE DEF T
  <2> QED BY <1>1, SumInt
<1> QED BY <1>2, <1>3, <1>4

\* Summing over a subset is summing zeros elsewhere.
LEMMA SumWhere ==
  ASSUME NEW g, NEW S, IsFiniteSet(S), \A x \in S : g[x] \in Int, NEW T \in SUBSET S
  PROVE  SumOver(g, T) = SumOver([x \in S |-> IF x \in T THEN g[x] ELSE 0], S)
<1> DEFINE e == [x \in S |-> IF x \in T THEN g[x] ELSE 0]
           Bad == {s \in SUBSET S : SumOver(g, s \cap T) # SumOver(e, s)}
<1>1. SUFFICES ASSUME Bad # {} PROVE FALSE
  <2>1. S \notin Bad /\ S \cap T = T
    OBVIOUS
  <2> QED BY <2>1
<1>2. \A s \in SUBSET S : IsFiniteSet(s)
  BY FS_Subset
<1>3. PICK s \in Bad : \A t \in Bad : Cardinality(s) <= Cardinality(t)
  <2>1. \A t \in Bad : IsFiniteSet(t)
    BY <1>2
  <2> HIDE DEF Bad
  <2> QED BY <1>1, <2>1, SmallestSet
<1>4. s # {}
  <2>1. {} \cap T = {}
    OBVIOUS
  <2> HIDE DEF e
  <2>2. SumOver(g, {} \cap T) = SumOver(e, {})
    BY <2>1, SumEmpty
  <2> QED BY <2>2
<1> DEFINE c == Some(s)
<1>5. c \in s /\ s \ {c} \notin Bad /\ s \ {c} \in SUBSET S
  BY <1>2, <1>3, <1>4, OneLess
<1>6. SumOver(g, (s \ {c}) \cap T) = SumOver(e, s \ {c})
  BY <1>5
<1>7. SumOver(e, s) = e[c] + SumOver(e, s \ {c})
  <2>1. \A x \in s : e[x] \in Int
    OBVIOUS
  <2> HIDE DEF e, c
  <2> QED BY <1>2, <1>5, <2>1, SumStep
<1>8. SumOver(e, s \ {c}) \in Int
  <2>1. \A x \in s \ {c} : e[x] \in Int
    OBVIOUS
  <2> HIDE DEF e, c
  <2> QED BY <1>2, <1>5, <2>1, SumInt
<1>9. SumOver(g, s \cap T) = SumOver(e, s)
  <2>1. CASE c \in T
    <3>1. SumOver(g, s \cap T) = g[c] + SumOver(g, (s \cap T) \ {c})
      <4>1. IsFiniteSet(s \cap T) /\ (\A x \in s \cap T : g[x] \in Int) /\ c \in s \cap T
        BY <1>2, <1>5, <2>1
      <4> HIDE DEF c
      <4> QED BY <4>1, SumStep
    <3>2. (s \cap T) \ {c} = (s \ {c}) \cap T /\ e[c] = g[c]
      BY <1>5, <2>1
    <3> HIDE DEF e, c
    <3> QED BY <3>1, <3>2, <1>6, <1>7
  <2>2. CASE c \notin T
    <3>1. s \cap T = (s \ {c}) \cap T /\ e[c] = 0
      BY <1>5, <2>2
    <3> HIDE DEF e, c
    <3>2. SumOver(g, s \cap T) = SumOver(e, s \ {c})
      BY <3>1, <1>6, Zenon
    <3>3. SumOver(e, s) = SumOver(e, s \ {c})
      BY <3>1, <1>7, <1>8
    <3> QED BY <3>2, <3>3, Zenon
  <2> QED BY <2>1, <2>2
<1> QED BY <1>9

LEMMA SumPlus ==
  ASSUME NEW f, NEW g, NEW e, NEW S, IsFiniteSet(S),
         \A x \in S : f[x] \in Int /\ g[x] \in Int /\ e[x] = f[x] + g[x]
  PROVE  SumOver(e, S) = SumOver(f, S) + SumOver(g, S)
<1> DEFINE Bad == {s \in SUBSET S : SumOver(e, s) # SumOver(f, s) + SumOver(g, s)}
<1>1. SUFFICES ASSUME Bad # {} PROVE FALSE
  OBVIOUS
<1>2. \A s \in SUBSET S : IsFiniteSet(s)
  BY FS_Subset
<1>3. PICK s \in Bad : \A t \in Bad : Cardinality(s) <= Cardinality(t)
  <2>1. \A t \in Bad : IsFiniteSet(t)
    BY <1>2
  <2> HIDE DEF Bad
  <2> QED BY <1>1, <2>1, SmallestSet
<1>4. s # {}
  <2>1. SumOver(e, {}) = 0 /\ SumOver(f, {}) = 0 /\ SumOver(g, {}) = 0
    BY SumEmpty
  <2>2. SumOver(e, s) # SumOver(f, s) + SumOver(g, s)
    OBVIOUS
  <2>3. ASSUME s = {} PROVE FALSE
    <3>1. SumOver(e, s) = 0 /\ SumOver(f, s) = 0 /\ SumOver(g, s) = 0
      BY <2>1, <2>3, Zenon
    <3> HIDE DEF Bad
    <3> QED BY <2>2, <3>1
  <2> QED BY <2>3
<1>5. /\ SumOver(e, s) = e[Some(s)] + SumOver(e, s \ {Some(s)})
      /\ SumOver(f, s) = f[Some(s)] + SumOver(f, s \ {Some(s)})
      /\ SumOver(g, s) = g[Some(s)] + SumOver(g, s \ {Some(s)})
  BY <1>2, <1>4, SumFirst
<1>6. s \ {Some(s)} \notin Bad /\ Some(s) \in s /\ s \ {Some(s)} \in SUBSET S
  BY <1>2, <1>3, <1>4, OneLess
<1>7. SumOver(f, s \ {Some(s)}) \in Int /\ SumOver(g, s \ {Some(s)}) \in Int
  <2>1. IsFiniteSet(s \ {Some(s)}) /\ \A x \in s \ {Some(s)} : f[x] \in Int /\ g[x] \in Int
    BY <1>2, <1>6
  <2> QED BY <2>1, SumInt
<1> QED BY <1>5, <1>6, <1>7

\* One more element.
LEMMA SumMore ==
  ASSUME NEW g, NEW e, NEW S, IsFiniteSet(S), NEW y, y \notin S,
         \A x \in S \cup {y} : e[x] \in Int, \A x \in S : g[x] = e[x]
  PROVE  SumOver(e, S \cup {y}) = SumOver(g, S) + e[y]
<1>1. IsFiniteSet(S \cup {y}) /\ (S \cup {y}) \ {y} = S
  BY FS_AddElement
<1>2. SumOver(e, S \cup {y}) = e[y] + SumOver(e, (S \cup {y}) \ {y})
  BY <1>1, SumStep
<1>3. SumOver(e, S) = SumOver(g, S)
  BY SumCongruent
<1>4. SumOver(e, S) \in Int /\ e[y] \in Int
  BY SumInt
<1>5. SumOver(e, S \cup {y}) = e[y] + SumOver(e, S)
  BY <1>1, <1>2, Zenon
<1> QED BY <1>3, <1>4, <1>5

-----------------------------------------------------------------------------
\* A sequence of anything: its length, and what Append, Tail and a new head make of it.
IsList(s) == \E S : s \in Seq(S)

LEMMA ListIs ==
  ASSUME NEW s, IsList(s)
  PROVE  Len(s) \in Nat /\ DOMAIN s = 1 .. Len(s) /\ (s = <<>> <=> Len(s) = 0)
BY DEF IsList

LEMMA AppendIs ==
  ASSUME NEW s, IsList(s), NEW e
  PROVE  /\ IsList(Append(s, e)) /\ Len(Append(s, e)) = Len(s) + 1
         /\ \A i \in 1 .. Len(s) : Append(s, e)[i] = s[i]
         /\ Append(s, e)[Len(s) + 1] = e
<1>1. PICK S : s \in Seq(S)
  BY DEF IsList
<1>2. s \in Seq(S \cup {e})
  <2>1. Len(s) \in Nat /\ s \in [1 .. Len(s) -> S \cup {e}]
    BY <1>1
  <2> QED BY <2>1, FunctionIsSeq
<1>3. Append(s, e) \in Seq(S \cup {e})
  BY <1>2
<1> QED BY <1>2, <1>3 DEF IsList

LEMMA TailIs ==
  ASSUME NEW s, IsList(s), s # <<>>
  PROVE  /\ IsList(Tail(s)) /\ Len(Tail(s)) = Len(s) - 1 /\ Len(s) \in Nat /\ Len(s) >= 1
         /\ Head(s) = s[1] /\ \A i \in 1 .. Len(s) - 1 : Tail(s)[i] = s[i + 1]
<1>1. PICK S : s \in Seq(S)
  BY DEF IsList
<1>2. Tail(s) \in Seq(S)
  BY <1>1
<1> QED BY <1>1, <1>2 DEF IsList

LEMMA NewHeadIs ==
  ASSUME NEW s, IsList(s), s # <<>>, NEW e
  PROVE  /\ IsList(<<e>> \o Tail(s)) /\ Len(<<e>> \o Tail(s)) = Len(s)
         /\ (<<e>> \o Tail(s))[1] = e /\ \A i \in 2 .. Len(s) : (<<e>> \o Tail(s))[i] = s[i]
<1>1. PICK S : s \in Seq(S)
  BY DEF IsList
<1>2. Tail(s) \in Seq(S \cup {e}) /\ <<e>> \in Seq(S \cup {e})
  <2>1. Len(s) \in Nat /\ s \in [1 .. Len(s) -> S \cup {e}]
    BY <1>1
  <2>2. s \in Seq(S \cup {e})
    BY <2>1, FunctionIsSeq
  <2> QED BY <2>2
<1>3. Len(s) >= 1 /\ Len(Tail(s)) = Len(s) - 1 /\ \A i \in 2 .. Len(s) : Tail(s)[i - 1] = s[i]
  BY <1>1
<1>4. <<e>> \o Tail(s) \in Seq(S \cup {e})
  BY <1>2
<1>5. Len(<<e>> \o Tail(s)) = Len(s) /\ (<<e>> \o Tail(s))[1] = e
  BY <1>2, <1>3
<1>6. ASSUME NEW i \in 2 .. Len(s) PROVE (<<e>> \o Tail(s))[i] = s[i]
  <2>1. (<<e>> \o Tail(s))[i] = Tail(s)[i - 1]
    BY <1>2, <1>3
  <2> QED BY <2>1, <1>3
<1> QED BY <1>4, <1>5, <1>6 DEF IsList

LEMMA NewTailIs ==
  ASSUME NEW p, IsList(p), NEW t
  PROVE  <<t>> \o p # <<>> /\ Tail(<<t>> \o p) = p
<1>1. PICK S : p \in Seq(S)
  BY DEF IsList
<1>2. p \in Seq(S \cup {t})
  <2>1. Len(p) \in Nat /\ p \in [1 .. Len(p) -> S]
    BY <1>1
  <2>2. p \in [1 .. Len(p) -> S \cup {t}]
    BY <2>1
  <2> QED BY <2>1, <2>2, FunctionIsSeq
<1>3. <<t>> \in Seq(S \cup {t})
  OBVIOUS
<1>4. <<t>> \o p \in Seq(S \cup {t}) /\ Len(<<t>> \o p) = Len(p) + 1 /\ Len(p) \in Nat
  BY <1>2, <1>3
<1>5. \A i \in 1 .. Len(p) : (<<t>> \o p)[i + 1] = p[i]
  BY <1>2, <1>3
<1> DEFINE q == <<t>> \o p
<1> HIDE DEF q
<1>6. q # <<>> /\ Tail(q) = p
  <2>1. q \in Seq(S \cup {t}) /\ Len(q) = Len(p) + 1 /\ \A i \in 1 .. Len(p) : q[i + 1] = p[i]
    BY <1>4, <1>5 DEF q
  <2>2. q # <<>>
    BY <1>4, <2>1
  <2>3. /\ Tail(q) \in Seq(S \cup {t}) /\ Len(Tail(q)) = Len(p)
        /\ \A i \in 1 .. Len(p) : Tail(q)[i] = p[i]
    BY <1>4, <2>1, <2>2
  <2> QED BY <1>2, <2>2, <2>3
<1> QED BY <1>6 DEF q

=============================================================================
