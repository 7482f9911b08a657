---------------------------- MODULE InductionLemmas ----------------------------
(***************************************************************************)
(* Induction and recursion over the naturals without operator parameters:  *)
(* for a set in place of a predicate, and for a function that steps by     *)
(* another, which is what a recursive definition of the models chooses.    *)
(* And sums of naturals, the fold of the community modules: what its       *)
(* recursion chooses, that the order does not matter, and steps.           *)
(***************************************************************************)
EXTENDS Integers, Functions, FiniteSetTheorems, WellFoundedInduction, TLAPS

(* The naturals are well founded under < (WFMin), put for sets.            *)
LEMMA Least ==
  ASSUME NEW T, T \subseteq Nat, T # {}
  PROVE  \E x \in T : \A y \in T : x <= y
  <1>1. \E R : /\ \E x \in T : \A y \in T : ~ (<<y, x>> \in R)
               /\ \A x, y \in Nat : x < y => <<x, y>> \in R
    <2>1. IsWellFoundedOn(OpToRel(<, Nat), Nat)
      BY NatLessThanWellFounded
    <2>2. \A x, y \in Nat : x < y => <<x, y>> \in OpToRel(<, Nat)
      BY DEF OpToRel
    <2>3. \E x \in T : \A y \in T : ~ (<<y, x>> \in OpToRel(<, Nat))
      BY <2>1, WFMin
    <2>4. QED
      BY ONLY <2>2, <2>3, Zenon
  <1>2. \E x \in T : \A y \in T : ~ (y < x)
    BY <1>1, Zenon
  <1>3. QED
    BY <1>2

(* Induction, with a set for the predicate.                                *)
LEMMA SetInduction ==
  ASSUME NEW S, 0 \in S, \A n \in Nat : n \in S => n + 1 \in S
  PROVE  \A n \in Nat : n \in S
  <1> SUFFICES ASSUME Nat \ S # {} PROVE FALSE
    OBVIOUS
  <1>1. PICK x \in Nat \ S : \A y \in Nat \ S : x <= y
    BY Least
  <1>2. x # 0 /\ x - 1 \in Nat
    BY <1>1
  <1>3. x - 1 \in S
    BY <1>1, <1>2
  <1>4. QED
    BY <1>1, <1>2, <1>3

(* There is a function that steps from b by G: what recursive definitions  *)
(* over the naturals choose exists.                                        *)
StepsBy(f, T, b, G) == f \in [Nat -> T] /\ f[0] = b /\ \A n \in Nat : f[n + 1] = G[n][f[n]]

LEMMA Recursion ==
  ASSUME NEW T, NEW b, NEW G, b \in T, G \in [Nat -> [T -> T]]
  PROVE  \E f : StepsBy(f, T, b, G)
  <1> DEFINE Good(n, f) == /\ f \in [Nat -> T] /\ f[0] = b
                           /\ \A k \in Nat : k < n => f[k + 1] = G[k][f[k]]
             S == {n \in Nat : \E f : Good(n, f)}
             U == {n \in Nat : \A f, g : Good(n, f) /\ Good(n, g) => f[n] = g[n]}
  <1>1. 0 \in S
    <2> DEFINE f == [k \in Nat |-> b]
    <2>1. Good(0, f)
      OBVIOUS
    <2>2. QED
      BY <2>1, Zenon
  <1>2. ASSUME NEW n \in Nat, n \in S PROVE n + 1 \in S
    <2>1. PICK f : Good(n, f)
      BY <1>2
    <2> DEFINE g == [k \in Nat |-> IF k = n + 1 THEN G[n][f[n]] ELSE f[k]]
    <2>2. g \in [Nat -> T] /\ g[0] = b
      BY <2>1
    <2>3. ASSUME NEW k \in Nat, k < n + 1 PROVE g[k + 1] = G[k][g[k]]
      <3>1. k # n + 1 /\ g[k] = f[k]
        BY <2>3
      <3>2. CASE k = n
        BY <3>1, <3>2
      <3>3. CASE k < n
        BY <2>1, <3>1, <3>3
      <3>4. QED
        BY <2>3, <3>2, <3>3
    <2> HIDE DEF g
    <2>4. Good(n + 1, g)
      BY <2>2, <2>3
    <2>5. n + 1 \in Nat
      OBVIOUS
    <2> HIDE DEF Good
    <2>6. QED
      BY <2>4, <2>5
  <1>3. \A n \in Nat : n \in S
    <2> HIDE DEF S
    <2>1. QED
      BY <1>1, <1>2, SetInduction
  <1>4. 0 \in U
    OBVIOUS
  <1>5. ASSUME NEW n \in Nat, n \in U PROVE n + 1 \in U
    <2> SUFFICES ASSUME NEW f, NEW g, Good(n + 1, f), Good(n + 1, g)
                 PROVE  f[n + 1] = g[n + 1]
      OBVIOUS
    <2>1. Good(n, f) /\ Good(n, g)
      OBVIOUS
    <2>2. f[n] = g[n]
      BY <1>5, <2>1
    <2>3. f[n + 1] = G[n][f[n]] /\ g[n + 1] = G[n][g[n]]
      OBVIOUS
    <2>4. QED
      BY <2>2, <2>3
  <1>6. \A n \in Nat : n \in U
    <2> HIDE DEF U
    <2>1. QED
      BY <1>4, <1>5, SetInduction
  <1> DEFINE c == [n \in Nat |-> CHOOSE f : Good(n, f)]
             h == [n \in Nat |-> c[n][n]]
  <1>7. ASSUME NEW n \in Nat PROVE Good(n, c[n])
    <2> HIDE DEF Good
    <2>1. \E f : Good(n, f)
      BY <1>3
    <2>2. QED
      BY <2>1
  <1> HIDE DEF c
  <1>8. ASSUME NEW n \in Nat PROVE h[n + 1] = G[n][h[n]]
    <2>1. Good(n + 1, c[n + 1]) /\ Good(n, c[n])
      BY <1>7
    <2>2. Good(n, c[n + 1])
      BY <2>1
    <2>3. c[n + 1][n] = c[n][n]
      <3>1. \A f, g : Good(n, f) /\ Good(n, g) => f[n] = g[n]
        BY <1>6
      <3> HIDE DEF Good
      <3>2. QED
        BY <2>1, <2>2, <3>1
    <2>4. c[n + 1][n + 1] = G[n][c[n + 1][n]]
      BY <2>1
    <2>5. QED
      BY <2>3, <2>4
  <1>9. h[0] = b /\ h \in [Nat -> T]
    BY <1>7
  <1> HIDE DEF h
  <1>10. QED
    BY <1>8, <1>9 DEF StepsBy

-----------------------------------------------------------------------------
(* What SumFunctionOnSet chooses: a function that takes one member of a    *)
(* set after the other.                                                    *)
Member(s) == CHOOSE x \in s : TRUE

SumsOver(g, f, S) ==
  g = [s \in SUBSET S |-> IF s = {} THEN 0 ELSE f[Member(s)] + g[s \ {Member(s)}]]

LEMMA SumIs ==
  ASSUME NEW S, NEW f
  PROVE  SumFunctionOnSet(f, S) = (CHOOSE g : SumsOver(g, f, S))[S]
  BY DEF SumFunctionOnSet, FoldFunctionOnSet, MapThenFoldSet, SumsOver, Member

LEMMA OneLess ==
  ASSUME NEW s, IsFiniteSet(s), NEW x \in s, NEW n \in Nat, Cardinality(s) = n + 1
  PROVE  IsFiniteSet(s \ {x}) /\ Cardinality(s \ {x}) = n
  <1>1. IsFiniteSet(s \ {x}) /\ Cardinality(s \ {x}) = (n + 1) - 1
    BY FS_RemoveElement
  <1>2. QED
    BY <1>1

LEMMA SumsExist ==
  ASSUME NEW S, IsFiniteSet(S), NEW f \in [S -> Nat]
  PROVE  \E g : SumsOver(g, f, S)
  <1> DEFINE T == [SUBSET S -> Nat]
             b == [s \in SUBSET S |-> 0]
             step(v) == [s \in SUBSET S |-> IF s = {} THEN 0 ELSE f[Member(s)] + v[s \ {Member(s)}]]
             G == [n \in Nat |-> [v \in T |-> step(v)]]
  <1>1. \A s \in SUBSET S : s # {} => Member(s) \in s /\ Member(s) \in S /\ s \ {Member(s)} \in SUBSET S
    BY DEF Member
  <1>2. \A v \in T : step(v) \in T
    BY <1>1
  <1>3. b \in T
    OBVIOUS
  <1>4. G \in [Nat -> [T -> T]]
    <2> HIDE DEF T, step
    <2>1. QED
      BY <1>2
  <1>5. \A n \in Nat : \A v \in T : G[n][v] = step(v)
    OBVIOUS
  <1>6. b[{}] = 0
    OBVIOUS
  <1> HIDE DEF G, T, b
  <1>7. PICK h : StepsBy(h, T, b, G)
    BY <1>3, <1>4, Recursion, Zenon
  <1>8. h \in [Nat -> T] /\ h[0] = b /\ \A n \in Nat : h[n + 1] = step(h[n])
    <2> HIDE DEF step
    <2>1. QED
      BY <1>5, <1>7 DEF StepsBy
  <1> DEFINE g == [s \in SUBSET S |-> h[Cardinality(s)][s]]
  <1>9. ASSUME NEW s \in SUBSET S
        PROVE  g[s] = IF s = {} THEN 0 ELSE f[Member(s)] + g[s \ {Member(s)}]
    <2>1. IsFiniteSet(s) /\ Cardinality(s) \in Nat
      BY FS_Subset, FS_CardinalityType
    <2>2. CASE s = {}
      <3>1. Cardinality(s) = 0
        BY <2>2, FS_EmptySet
      <3>2. QED
        BY <1>6, <1>8, <2>2, <3>1
    <2>3. CASE s # {}
      <3>1. Cardinality(s) # 0
        BY <2>1, <2>3, FS_EmptySet
      <3>2. PICK n \in Nat : Cardinality(s) = n + 1
        <4>1. Cardinality(s) - 1 \in Nat /\ Cardinality(s) = (Cardinality(s) - 1) + 1
          BY <2>1, <3>1
        <4>2. QED
          BY <4>1
      <3>3. Member(s) \in s /\ s \ {Member(s)} \in SUBSET S
        BY <1>1, <2>3
      <3>4. Cardinality(s \ {Member(s)}) = n
        BY <2>1, <3>2, <3>3, OneLess
      <3>5. h[n + 1][s] = f[Member(s)] + h[n][s \ {Member(s)}]
        BY <1>8, <2>3
      <3>6. QED
        BY <2>3, <3>2, <3>3, <3>4, <3>5
    <2>4. QED
      BY <2>2, <2>3
  <1>10. SumsOver(g, f, S)
    BY <1>9 DEF SumsOver
  <1>11. QED
    BY <1>10

(* The order does not matter.                                              *)
LEMMA SumsAnyOrder ==
  ASSUME NEW S, IsFiniteSet(S), NEW f \in [S -> Nat], NEW g, SumsOver(g, f, S)
  PROVE  /\ g[{}] = 0
         /\ \A s \in SUBSET S : g[s] \in Nat /\ \A y \in s : g[s] = f[y] + g[s \ {y}]
  <1> DEFINE Any(s) == g[s] \in Nat /\ \A y \in s : g[s \ {y}] \in Nat /\ g[s] = f[y] + g[s \ {y}]
             N == {n \in Nat : \A s \in SUBSET S : Cardinality(s) = n => Any(s)}
  <1>1. \A s \in SUBSET S : g[s] = IF s = {} THEN 0 ELSE f[Member(s)] + g[s \ {Member(s)}]
    BY DEF SumsOver
  <1>2. g[{}] = 0
    BY <1>1
  <1>3. \A s \in SUBSET S : IsFiniteSet(s) /\ Cardinality(s) \in Nat
    BY FS_Subset, FS_CardinalityType
  <1>4. 0 \in N
    <2>1. ASSUME NEW s \in SUBSET S, Cardinality(s) = 0 PROVE Any(s)
      <3>1. s = {}
        BY <1>3, <2>1, FS_EmptySet
      <3>2. QED
        BY <1>2, <3>1
    <2>2. QED
      BY <2>1
  <1>5. ASSUME NEW n \in Nat, n \in N PROVE n + 1 \in N
    <2>1. SUFFICES ASSUME NEW s \in SUBSET S, Cardinality(s) = n + 1 PROVE Any(s)
      OBVIOUS
    <2>2. \A x \in s : s \ {x} \in SUBSET S /\ Any(s \ {x})
      <3>1. SUFFICES ASSUME NEW x \in s PROVE s \ {x} \in SUBSET S /\ Any(s \ {x})
        OBVIOUS
      <3>2. Cardinality(s \ {x}) = n
        BY <1>3, <2>1, OneLess
      <3> HIDE DEF Any
      <3>3. QED
        BY <1>5, <3>2
    <2>3. s # {}
      BY <2>1, FS_EmptySet
    <2> DEFINE c == Member(s)
    <2>4. c \in s
      BY <2>3 DEF Member
    <2>5. g[s] = f[c] + g[s \ {c}]
      BY <1>1, <2>3
    <2> HIDE DEF c
    <2>6. ASSUME NEW y \in s PROVE g[s] \in Nat /\ g[s \ {y}] \in Nat /\ g[s] = f[y] + g[s \ {y}]
      <3>0. f[c] \in Nat /\ f[y] \in Nat /\ g[s \ {c}] \in Nat /\ g[s \ {y}] \in Nat
        BY <2>2, <2>4
      <3>1. CASE y = c
        BY <2>5, <3>0, <3>1
      <3>2. CASE y # c
        <4>1. y \in s \ {c} /\ c \in s \ {y} /\ (s \ {c}) \ {y} = (s \ {y}) \ {c}
          BY <2>4, <3>2
        <4>2. g[s \ {c}] = f[y] + g[(s \ {c}) \ {y}]
          BY <2>2, <2>4, <4>1
        <4>3. g[s \ {y}] = f[c] + g[(s \ {c}) \ {y}]
          BY <2>2, <4>1
        <4>4. PICK w : w = g[(s \ {c}) \ {y}]
          OBVIOUS
        <4>5. w \in Nat
          BY <2>2, <2>4, <4>1, <4>4
        <4>6. QED
          BY <2>5, <3>0, <4>2, <4>3, <4>4, <4>5
      <3>3. QED
        BY <3>1, <3>2
    <2>7. QED
      BY <2>3, <2>6
  <1> HIDE DEF N
  <1>6. \A n \in Nat : n \in N
    BY <1>4, <1>5, SetInduction
  <1>7. QED
    BY <1>2, <1>3, <1>6 DEF N

(* Fewer members, the same sums.                                           *)
LEMMA SumsOfFewer ==
  ASSUME NEW S, IsFiniteSet(S), NEW f \in [S -> Nat], NEW g, SumsOver(g, f, S),
         NEW R \in SUBSET S, NEW e \in [R -> Nat], \A x \in R : e[x] = f[x],
         NEW d, SumsOver(d, e, R)
  PROVE  \A s \in SUBSET R : d[s] = g[s]
  <1> DEFINE N == {n \in Nat : \A s \in SUBSET R : Cardinality(s) = n => d[s] = g[s]}
  <1>1. /\ \A s \in SUBSET R : d[s] = IF s = {} THEN 0 ELSE e[Member(s)] + d[s \ {Member(s)}]
        /\ \A s \in SUBSET R : g[s] = IF s = {} THEN 0 ELSE f[Member(s)] + g[s \ {Member(s)}]
    BY DEF SumsOver
  <1>2. \A s \in SUBSET R : IsFiniteSet(s) /\ Cardinality(s) \in Nat
    BY FS_Subset, FS_CardinalityType
  <1>3. 0 \in N
    <2>1. ASSUME NEW s \in SUBSET R, Cardinality(s) = 0 PROVE d[s] = g[s]
      <3>1. s = {}
        BY <1>2, <2>1, FS_EmptySet
      <3>2. QED
        BY <1>1, <3>1
    <2>2. QED
      BY <2>1
  <1>4. ASSUME NEW n \in Nat, n \in N PROVE n + 1 \in N
    <2>1. SUFFICES ASSUME NEW s \in SUBSET R, Cardinality(s) = n + 1 PROVE d[s] = g[s]
      OBVIOUS
    <2>2. s # {}
      BY <2>1, FS_EmptySet
    <2>3. Member(s) \in s
      BY <2>2 DEF Member
    <2>4. Cardinality(s \ {Member(s)}) = n
      BY <1>2, <2>1, <2>3, OneLess
    <2>5. d[s \ {Member(s)}] = g[s \ {Member(s)}]
      <3>1. s \ {Member(s)} \in SUBSET R
        OBVIOUS
      <3>2. QED
        BY <1>4, <2>4, <3>1
    <2>6. e[Member(s)] = f[Member(s)]
      BY <2>3
    <2>7. QED
      BY <1>1, <2>2, <2>5, <2>6
  <1> HIDE DEF N
  <1>5. \A n \in Nat : n \in N
    BY <1>3, <1>4, SetInduction
  <1>6. QED
    BY <1>2, <1>5 DEF N

(* A sum is a number; without members it is 0; and one member apart it is  *)
(* that member's and the rest's.                                           *)
LEMMA SumType ==
  ASSUME NEW S, IsFiniteSet(S), NEW f \in [S -> Nat]
  PROVE  SumFunction(f) \in Nat /\ (S = {} => SumFunction(f) = 0)
  <1>1. PICK g : SumsOver(g, f, S) /\ SumFunction(f) = g[S]
    <2>1. \E h : SumsOver(h, f, S)
      BY SumsExist
    <2>2. SumsOver((CHOOSE h : SumsOver(h, f, S)), f, S)
      BY <2>1, Zenon
    <2>3. SumFunction(f) = (CHOOSE h : SumsOver(h, f, S))[S]
      <3>1. DOMAIN f = S
        OBVIOUS
      <3>2. QED
        BY <3>1, SumIs DEF SumFunction
    <2>4. QED
      BY <2>2, <2>3, Zenon
  <1>2. g[{}] = 0 /\ \A s \in SUBSET S : g[s] \in Nat
    BY <1>1, SumsAnyOrder
  <1>3. QED
    BY <1>1, <1>2

OneApart(f, y, e) == SumFunction(f) = f[y] + SumFunction(e)

LEMMA SumApart ==
  ASSUME NEW S, IsFiniteSet(S), NEW f \in [S -> Nat], NEW y \in S,
         NEW R, R = S \ {y}, NEW e \in [R -> Nat], \A x \in R : e[x] = f[x]
  PROVE  OneApart(f, y, e)
  <1>1. PICK g : SumsOver(g, f, S) /\ SumFunction(f) = g[S]
    <2>1. \E h : SumsOver(h, f, S)
      BY SumsExist
    <2>2. SumsOver((CHOOSE h : SumsOver(h, f, S)), f, S)
      BY <2>1, Zenon
    <2>3. SumFunction(f) = (CHOOSE h : SumsOver(h, f, S))[S]
      <3>1. DOMAIN f = S
        OBVIOUS
      <3>2. QED
        BY <3>1, SumIs DEF SumFunction
    <2>4. QED
      BY <2>2, <2>3, Zenon
  <1>2. PICK d : SumsOver(d, e, R) /\ SumFunction(e) = d[R]
    <2>1. \E h : SumsOver(h, e, R)
      <3>1. IsFiniteSet(R)
        BY FS_Subset
      <3>2. QED
        BY <3>1, SumsExist
    <2>2. SumsOver((CHOOSE h : SumsOver(h, e, R)), e, R)
      BY <2>1, Zenon
    <2>3. SumFunction(e) = (CHOOSE h : SumsOver(h, e, R))[R]
      <3>1. DOMAIN e = R
        OBVIOUS
      <3>2. QED
        BY <3>1, SumIs DEF SumFunction
    <2>4. QED
      BY <2>2, <2>3, Zenon
  <1>3. g[S] = f[y] + g[S \ {y}]
    BY <1>1, SumsAnyOrder
  <1>4. d[R] = g[R]
    BY <1>1, <1>2, SumsOfFewer
  <1>5. QED
    BY <1>1, <1>2, <1>3, <1>4 DEF OneApart

-----------------------------------------------------------------------------
(* The sum of the first n.                                                 *)
Upto(h, n) == SumFunction([i \in 1..n |-> h[i]])

LEMMA UptoSteps ==
  ASSUME NEW h \in [Nat -> Nat]
  PROVE  /\ Upto(h, 0) = 0
         /\ \A n \in Nat : Upto(h, n) \in Nat /\ Upto(h, n + 1) = Upto(h, n) + h[n + 1]
  <1> DEFINE f(n) == [i \in 1..n |-> h[i]]
  <1>1. \A n \in Nat : IsFiniteSet(1..n) /\ f(n) \in [1..n -> Nat]
    BY FS_Interval
  <1>2. Upto(h, 0) = 0
    <2>1. 1..0 = {} /\ 0 \in Nat
      OBVIOUS
    <2>2. SumFunction(f(0)) = 0
      <3> HIDE DEF f
      <3>1. QED
        BY <1>1, <2>1, SumType
    <2>3. QED
      BY <2>2 DEF Upto
  <1>3. ASSUME NEW n \in Nat PROVE Upto(h, n) \in Nat
    <2>1. SumFunction(f(n)) \in Nat
      <3> HIDE DEF f
      <3>1. QED
        BY <1>1, SumType
    <2>2. QED
      BY <2>1 DEF Upto
  <1>4. ASSUME NEW n \in Nat PROVE Upto(h, n + 1) = Upto(h, n) + h[n + 1]
    <2>1. n + 1 \in 1..(n + 1) /\ (1..(n + 1)) \ {n + 1} = 1..n /\ n + 1 \in Nat
      OBVIOUS
    <2>2. f(n + 1)[n + 1] = h[n + 1] /\ [x \in 1..n |-> f(n + 1)[x]] = f(n)
      BY <2>1
    <2>3. SumFunction(f(n + 1)) = h[n + 1] + SumFunction(f(n))
      <3> HIDE DEF f
      <3>1. IsFiniteSet(1..(n + 1)) /\ f(n + 1) \in [1..(n + 1) -> Nat]
        BY <1>1, <2>1
      <3>2. 1..n = (1..(n + 1)) \ {n + 1} /\ f(n) \in [1..n -> Nat] /\ \A x \in 1..n : f(n)[x] = f(n + 1)[x]
        BY <1>1, <2>1, <2>2
      <3>3. SumFunction(f(n + 1)) = f(n + 1)[n + 1] + SumFunction(f(n))
        <4>1. PICK S, R, F, E, y : /\ S = 1..(n + 1) /\ R = 1..n /\ y = n + 1
                                   /\ F = f(n + 1) /\ E = f(n)
          OBVIOUS
        <4>2. /\ IsFiniteSet(S) /\ F \in [S -> Nat] /\ y \in S /\ R = S \ {y}
              /\ E \in [R -> Nat] /\ \A x \in R : E[x] = F[x]
          BY <2>1, <3>1, <3>2, <4>1
        <4>3. OneApart(F, y, E)
          BY <4>2, SumApart, Zenon
        <4>4. QED
          BY <4>1, <4>3 DEF OneApart
      <3>4. QED
        BY <2>2, <3>3
    <2>4. Upto(h, n + 1) = h[n + 1] + Upto(h, n)
      BY <2>3 DEF Upto
    <2>5. h[n + 1] \in Nat /\ Upto(h, n) \in Nat
      BY <1>3, <2>1
    <2>6. QED
      BY <2>4, <2>5
  <1>5. QED
    BY <1>2, <1>3, <1>4

LEMMA UptoAtMost ==
  ASSUME NEW h \in [Nat -> Nat], NEW k \in [Nat -> Nat], NEW l \in [Nat -> Nat], NEW n \in Nat,
         \A i \in 1..n : h[i] + k[i] <= l[i]
  PROVE  Upto(h, n) + Upto(k, n) <= Upto(l, n)
  <1> DEFINE S == {m \in Nat : m <= n => Upto(h, m) + Upto(k, m) <= Upto(l, m)}
  <1>1. 0 \in S
    <2>1. Upto(h, 0) = 0 /\ Upto(k, 0) = 0 /\ Upto(l, 0) = 0
      BY UptoSteps
    <2>2. QED
      BY <2>1
  <1>2. ASSUME NEW m \in Nat, m \in S PROVE m + 1 \in S
    <2>1. SUFFICES ASSUME m + 1 <= n
                   PROVE  Upto(h, m + 1) + Upto(k, m + 1) <= Upto(l, m + 1)
      OBVIOUS
    <2>2. m + 1 \in 1..n /\ m <= n
      BY <2>1
    <2>3. PICK a \in Nat, b \in Nat, c \in Nat : a = Upto(h, m) /\ b = Upto(k, m) /\ c = Upto(l, m)
      BY UptoSteps
    <2>4. PICK x \in Nat, y \in Nat, z \in Nat : x = h[m + 1] /\ y = k[m + 1] /\ z = l[m + 1]
      <3>1. m + 1 \in Nat
        OBVIOUS
      <3>2. h[m + 1] \in Nat /\ k[m + 1] \in Nat /\ l[m + 1] \in Nat
        BY <3>1
      <3>3. QED
        BY <3>2, Zenon
    <2>5. a + b <= c /\ x + y <= z
      BY <1>2, <2>2, <2>3, <2>4
    <2>6. Upto(h, m + 1) = a + x /\ Upto(k, m + 1) = b + y /\ Upto(l, m + 1) = c + z
      BY <2>3, <2>4, UptoSteps
    <2>7. QED
      BY <2>5, <2>6
  <1> HIDE DEF S
  <1>3. \A m \in Nat : m \in S
    BY <1>1, <1>2, SetInduction
  <1>4. QED
    BY <1>3 DEF S

(* Over some of the first n: nothing for the others.                       *)
Padded(f, T) == [i \in Nat |-> IF i \in T THEN f[i] ELSE 0]

LEMMA UptoOf ==
  ASSUME NEW n \in Nat, NEW T \in SUBSET (1..n), NEW f \in [T -> Nat]
  PROVE  Padded(f, T) \in [Nat -> Nat] /\ SumFunction(f) = Upto(Padded(f, T), n)
  <1> DEFINE S == {m \in Nat : \A R \in SUBSET (1..m) : \A e \in [R -> Nat] :
                                 SumFunction(e) = Upto(Padded(e, R), m)}
  <1>1. \A R \in SUBSET Nat : \A e \in [R -> Nat] : Padded(e, R) \in [Nat -> Nat]
    BY DEF Padded
  <1>2. 0 \in S
    <2>1. ASSUME NEW R \in SUBSET (1..0), NEW e \in [R -> Nat]
          PROVE  SumFunction(e) = Upto(Padded(e, R), 0)
      <3>1. R = {} /\ IsFiniteSet(R)
        <4>1. R = {}
          OBVIOUS
        <4>2. QED
          BY <4>1, FS_EmptySet
      <3>2. SumFunction(e) = 0
        BY <3>1, SumType
      <3>3. Padded(e, R) \in [Nat -> Nat]
        BY <1>1, <3>1
      <3>4. QED
        BY <3>2, <3>3, UptoSteps
    <2>2. QED
      BY <2>1
  <1>3. ASSUME NEW m \in Nat, m \in S PROVE m + 1 \in S
    <2>1. SUFFICES ASSUME NEW R \in SUBSET (1..(m + 1)), NEW e \in [R -> Nat]
                   PROVE  SumFunction(e) = Upto(Padded(e, R), m + 1)
      OBVIOUS
    <2> DEFINE h == Padded(e, R)
    <2>2. h \in [Nat -> Nat]
      BY <1>1
    <2>3. Upto(h, m + 1) = Upto(h, m) + h[m + 1] /\ Upto(h, m) \in Nat
      BY <2>2, UptoSteps
    <2>4. CASE m + 1 \notin R
      <3>1. R \in SUBSET (1..m) /\ h[m + 1] = 0
        BY <2>4 DEF Padded
      <3>2. SumFunction(e) = Upto(h, m)
        BY <1>3, <3>1
      <3> HIDE DEF h
      <3>3. QED
        BY <2>3, <3>1, <3>2 DEF h
    <2>5. CASE m + 1 \in R
      <3> DEFINE Q == R \ {m + 1}
                 d == [x \in Q |-> e[x]]
                 k == Padded(d, Q)
      <3>1. Q \in SUBSET (1..m) /\ d \in [Q -> Nat]
        OBVIOUS
      <3>2. \A i \in 1..m : k[i] = h[i]
        BY DEF Padded
      <3>3. h[m + 1] = e[m + 1] /\ e[m + 1] \in Nat
        BY <2>5 DEF Padded
      <3>4. IsFiniteSet(R)
        <4>1. IsFiniteSet(1..(m + 1))
          BY FS_Interval
        <4>2. QED
          BY <4>1, FS_Subset
      <3>5. SumFunction(e) = e[m + 1] + SumFunction(d)
        <4>1. Q = R \ {m + 1} /\ d \in [Q -> Nat] /\ \A x \in Q : d[x] = e[x]
          OBVIOUS
        <4> HIDE DEF Q, d
        <4>2. OneApart(e, m + 1, d)
          BY <2>5, <3>4, <4>1, SumApart, Zenon
        <4>3. QED
          BY <4>2 DEF OneApart
      <3> HIDE DEF h, d, Q, k
      <3>6. SumFunction(d) = Upto(k, m)
        BY <1>3, <3>1 DEF k
      <3>7. Upto(k, m) = Upto(h, m)
        <4>1. [i \in 1..m |-> k[i]] = [i \in 1..m |-> h[i]]
          BY <3>2
        <4>2. QED
          BY <4>1 DEF Upto
      <3>8. QED
        BY <2>3, <3>3, <3>5, <3>6, <3>7 DEF h
    <2>6. QED
      BY <2>4, <2>5
  <1> HIDE DEF S
  <1>4. \A m \in Nat : m \in S
    BY <1>2, <1>3, SetInduction
  <1>5. QED
    BY <1>1, <1>4 DEF S

(* Only the first n matter.                                                *)
LEMMA UptoSame ==
  ASSUME NEW n \in Nat, NEW h, NEW k, \A i \in 1..n : h[i] = k[i]
  PROVE  Upto(h, n) = Upto(k, n)
  <1>1. [i \in 1..n |-> h[i]] = [i \in 1..n |-> k[i]]
    OBVIOUS
  <1>2. QED
    BY <1>1 DEF Upto

(* The sum from m to n.                                                    *)
Over(h, m, n) == SumFunction([d \in m..n |-> h[d]])

LEMMA OverSteps ==
  ASSUME NEW h \in [Nat -> Nat], NEW m \in Nat, NEW n \in Nat, m <= n
  PROVE  /\ Over(h, m, n) \in Nat
         /\ Over(h, m, m) = h[m]
         /\ Over(h, m, n + 1) = h[n + 1] + Over(h, m, n)
  <1>1. ASSUME NEW k \in Nat PROVE Over(h, m, k) \in Nat /\ (k + 1 = m => Over(h, m, k) = 0)
    <2> DEFINE S == m..k
               f == [d \in S |-> h[d]]
    <2>1. IsFiniteSet(S) /\ f \in [S -> Nat] /\ (k + 1 = m => S = {})
      BY FS_Interval
    <2>2. Over(h, m, k) = SumFunction(f)
      BY DEF Over
    <2> HIDE DEF S, f
    <2>3. QED
      BY <2>1, <2>2, SumType
  <1>2. ASSUME NEW k \in Int, NEW z, z = k + 1, z \in Nat, m <= z
        PROVE  Over(h, m, z) = h[z] + Over(h, m, k)
    <2> DEFINE S == m..z
               R == m..k
               f == [d \in S |-> h[d]]
               e == [d \in R |-> h[d]]
    <2>1. /\ IsFiniteSet(S) /\ f \in [S -> Nat] /\ z \in S /\ R = S \ {z}
          /\ e \in [R -> Nat] /\ \A x \in R : e[x] = f[x]
          /\ f[z] = h[z]
      <3>1. IsFiniteSet(S) /\ z \in S /\ R = S \ {z}
        <4>1. IsFiniteSet(S)
          BY <1>2, FS_Interval
        <4>2. z \in S
          BY <1>2
        <4>3. R = S \ {z}
          BY <1>2
        <4>4. QED
          BY <4>1, <4>2, <4>3
      <3>2. \A x \in S : h[x] \in Nat
        OBVIOUS
      <3>3. R \subseteq S
        BY <3>1
      <3> HIDE DEF S, R
      <3>4. QED
        BY <3>1, <3>2, <3>3
    <2>2. Over(h, m, z) = SumFunction(f) /\ Over(h, m, k) = SumFunction(e)
      BY DEF Over
    <2> HIDE DEF S, R, f, e
    <2>3. OneApart(f, z, e)
      BY <2>1, SumApart, Zenon
    <2>4. QED
      BY <2>1, <2>2, <2>3 DEF OneApart
  <1>3. Over(h, m, m) = h[m]
    <2>1. PICK k \in Int : m = k + 1
      <3>1. m - 1 \in Int /\ m = (m - 1) + 1
        OBVIOUS
      <3>2. QED
        BY <3>1
    <2>2. Over(h, m, m) = h[m] + Over(h, m, k)
      BY <1>2, <2>1
    <2>3. Over(h, m, k) = 0
      <3> DEFINE S == m..k
                 f == [d \in S |-> h[d]]
      <3>1. IsFiniteSet(S) /\ f \in [S -> Nat] /\ S = {}
        BY <2>1, FS_Interval
      <3>2. Over(h, m, k) = SumFunction(f)
        BY DEF Over
      <3> HIDE DEF S, f
      <3>3. QED
        BY <3>1, <3>2, SumType
    <2>4. h[m] \in Nat
      OBVIOUS
    <2>5. QED
      BY <2>2, <2>3, <2>4
  <1>4. Over(h, m, n + 1) = h[n + 1] + Over(h, m, n)
    <2>1. PICK z : z = n + 1
      OBVIOUS
    <2>2. z \in Nat /\ m <= z /\ n \in Int
      BY <2>1
    <2>3. Over(h, m, z) = h[z] + Over(h, m, n)
      BY <1>2, <2>1, <2>2
    <2>4. QED
      BY <2>1, <2>3
  <1>5. QED
    BY <1>1, <1>3, <1>4
=============================================================================
