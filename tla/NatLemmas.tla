------------------------------ MODULE NatLemmas ------------------------------
(* Facts about the naturals, the library's Min and its sum of a function that *)
(* the proofs of more than one component use.                                 *)
EXTENDS Integers, Functions, FiniteSetsExt, FiniteSetTheorems, WellFoundedInduction, TLAPS

(* The least element *)

LessThan == {ss \in Nat \X Nat : ss[1] < ss[2]}

(* Every non-empty set of naturals has a least element, and Min is it. *)
LEMMA MinIsLeast ==
  ASSUME NEW S \in SUBSET Nat, S # {}
  PROVE  Min(S) \in S /\ \A y \in S : Min(S) <= y
<1>1. LessThan = OpToRel(<, Nat)
  BY Zenon DEF LessThan, OpToRel
<1>2. \E x \in S : \A y \in S : ~(<<y, x>> \in LessThan)
  <2>1. IsWellFoundedOn(LessThan, Nat)
    BY <1>1, NatLessThanWellFounded, Zenon
  <2>2. QED
    BY <2>1, WFMin, Zenon
<1>3. \A x, y \in Nat : ~(<<y, x>> \in LessThan) => x <= y
  BY DEF LessThan
<1>4. \E x \in S : \A y \in S : x <= y
  BY <1>2, <1>3
<1>5. QED
  BY <1>4 DEF Min

(* A set of naturals that holds 0 and with each member the next one is Nat: the form
   of induction that the provers can apply. *)
LEMMA NatSetInduction ==
  ASSUME NEW T \in SUBSET Nat, 0 \in T, \A n \in T : n + 1 \in T
  PROVE  T = Nat
<1> SUFFICES ASSUME T # Nat PROVE FALSE
  OBVIOUS
<1> DEFINE U == Nat \ T
<1>1. U \in SUBSET Nat /\ U # {}
  OBVIOUS
<1>2. Min(U) \in U /\ \A y \in U : Min(U) <= y
  BY <1>1, MinIsLeast
<1>3. Min(U) \in Nat /\ Min(U) # 0
  BY <1>2
<1>4. Min(U) - 1 \in Nat /\ Min(U) - 1 \notin U
  BY <1>2, <1>3
<1>5. QED
  BY <1>2, <1>3, <1>4

-----------------------------------------------------------------------------
(* Sums of functions (SumFunction) *)

(* The element of a set that a fold takes next. *)
Next1(s) == CHOOSE x \in s : TRUE

(* The function of the subsets that a fold over S defines. *)
IsPartialSum(h, f, S) ==
  h = [s \in SUBSET S |-> IF s = {} THEN 0 ELSE f[Next1(s)] + h[s \ {Next1(s)}]]

PartialSum(f, S) == CHOOSE h : IsPartialSum(h, f, S)

LEMMA SumIsPartial == \A f : SumFunction(f) = PartialSum(f, DOMAIN f)[DOMAIN f]
BY Zenon DEF SumFunction, SumFunctionOnSet, FoldFunctionOnSet, MapThenFoldSet, PartialSum, IsPartialSum, Next1

LEMMA Next1In == \A s : s # {} => Next1(s) \in s
BY DEF Next1

(* What is left of a subset when one element is taken. *)
LEMMA TakeOne ==
  ASSUME NEW S, IsFiniteSet(S), NEW s \in SUBSET S
  PROVE  /\ IsFiniteSet(s) /\ Cardinality(s) \in Nat
         /\ Cardinality(s) = 0 <=> s = {}
         /\ \A x \in s : s \ {x} \in SUBSET S /\ Cardinality(s \ {x}) = Cardinality(s) - 1
<1>1. IsFiniteSet(s)
  BY FS_Subset
<1>2. QED
  BY <1>1, FS_CardinalityType, FS_EmptySet, FS_RemoveElement

(* The recursion is well-founded, so that there is such a function. *)
LEMMA PartialSumExists ==
  ASSUME NEW S, IsFiniteSet(S), NEW f
  PROVE  IsPartialSum(PartialSum(f, S), f, S)
<1> DEFINE Small(n) == {s \in SUBSET S : Cardinality(s) <= n}
           Body(h, s) == IF s = {} THEN 0 ELSE f[Next1(s)] + h[s \ {Next1(s)}]
           T == {n \in Nat : \E h : h = [s \in Small(n) |-> Body(h, s)]}
<1>1. 0 \in T
  <2> DEFINE h == [s \in Small(0) |-> 0]
  <2>1. \A s \in Small(0) : s = {}
    BY TakeOne
  <2>2. h = [s \in Small(0) |-> Body(h, s)]
    BY <2>1
  <2> HIDE DEF h
  <2>3. QED
    BY <2>2
<1>2. ASSUME NEW n \in T PROVE n + 1 \in T
  <2>1. PICK h : h = [s \in Small(n) |-> Body(h, s)]
    OBVIOUS
  <2> DEFINE g == [s \in Small(n + 1) |-> Body(h, s)]
  <2>2. ASSUME NEW s \in Small(n + 1), s # {} PROVE g[s \ {Next1(s)}] = h[s \ {Next1(s)}]
    <3> DEFINE r == s \ {Next1(s)}
    <3>1. s \in SUBSET S /\ Next1(s) \in s /\ Cardinality(s) <= n + 1 /\ n \in Nat
      BY <2>2, Next1In
    <3>2. r \in SUBSET S /\ Cardinality(s) \in Nat /\ Cardinality(r) = Cardinality(s) - 1
      BY <3>1, TakeOne
    <3> HIDE DEF r
    <3>3. r \in Small(n) /\ r \in Small(n + 1)
      BY <3>1, <3>2
    <3>4. g[r] = Body(h, r)
      BY <3>3
    <3>5. h[r] = Body(h, r)
      BY <2>1, <3>3
    <3>6. QED
      BY <3>4, <3>5 DEF r
  <2>3. ASSUME NEW s \in Small(n + 1) PROVE Body(g, s) = Body(h, s)
    <3> HIDE DEF g, Small
    <3>1. QED
      BY <2>2, <2>3
  <2>4. g = [s \in Small(n + 1) |-> Body(g, s)]
    <3> HIDE DEF Body, Small
    <3>1. QED
      BY <2>3
  <2> HIDE DEF g, Body, Small
  <2>5. QED
    BY <2>4
<1>3. Cardinality(S) \in T
  <2> HIDE DEF T
  <2>1. T = Nat
    <3>1. T \in SUBSET Nat
      BY DEF T
    <3>2. QED
      BY <1>1, <1>2, <3>1, NatSetInduction
  <2>2. QED
    BY <2>1, FS_CardinalityType
<1>4. Small(Cardinality(S)) = SUBSET S
  BY FS_Subset
<1>5. PICK h : h = [s \in SUBSET S |-> Body(h, s)]
  BY <1>3, <1>4
<1>6. IsPartialSum(h, f, S)
  BY <1>5 DEF IsPartialSum
<1>7. QED
  BY <1>6 DEF PartialSum

(* What such a function returns: a natural, whichever element is taken first. *)
SumsAt(h, f, s) == h[s] \in Nat /\ \A x \in s : h[s] = f[x] + h[s \ {x}]

LEMMA PartialSumStep ==
  ASSUME NEW S, IsFiniteSet(S), NEW f, \A x \in S : f[x] \in Nat,
         NEW h, IsPartialSum(h, f, S), NEW n \in Nat,
         \A t \in SUBSET S : Cardinality(t) <= n => SumsAt(h, f, t),
         NEW s \in SUBSET S, Cardinality(s) = n + 1
  PROVE  SumsAt(h, f, s)
<1>1. s # {}
  BY TakeOne
<1>2. PICK y : y \in s /\ h[s] = f[y] + h[s \ {y}]
  <2>1. h[s] = f[Next1(s)] + h[s \ {Next1(s)}]
    BY <1>1 DEF IsPartialSum
  <2>2. QED
    BY <1>1, <2>1, Next1In
<1>3. ASSUME NEW x \in s
      PROVE  s \ {x} \in SUBSET S /\ Cardinality(s \ {x}) = n /\ f[x] \in Nat /\ SumsAt(h, f, s \ {x})
  <2>1. s \ {x} \in SUBSET S /\ Cardinality(s \ {x}) = n
    BY TakeOne
  <2>2. QED
    BY <2>1
<1>4. h[s] \in Nat
  BY <1>2, <1>3 DEF SumsAt
<1>5. ASSUME NEW x \in s, x # y PROVE h[s] = f[x] + h[s \ {x}]
  <2> DEFINE r == (s \ {y}) \ {x}
  <2>1. r = (s \ {x}) \ {y} /\ x \in s \ {y} /\ y \in s \ {x}
    BY <1>2, <1>5
  <2>2. Cardinality(r) = n - 1
    <3> DEFINE t == s \ {y}
    <3>1. t \in SUBSET S /\ Cardinality(t) = n /\ x \in t
      BY <1>2, <1>3, <2>1
    <3> HIDE DEF t
    <3>2. Cardinality(t \ {x}) = n - 1
      BY <3>1, TakeOne
    <3>3. QED
      BY <3>2 DEF t
  <2>3. h[r] \in Nat
    <3>1. r \in SUBSET S
      OBVIOUS
    <3>2. SumsAt(h, f, r)
      <4> HIDE DEF r
      <4>1. QED
        BY <2>2, <3>1
    <3>3. QED
      BY <3>2 DEF SumsAt
  <2>4. h[s \ {y}] = f[x] + h[r]
    <3>1. SumsAt(h, f, s \ {y})
      BY <1>2, <1>3
    <3>2. QED
      BY <2>1, <3>1 DEF SumsAt
  <2>5. h[s \ {x}] = f[y] + h[r]
    <3>1. SumsAt(h, f, s \ {x})
      BY <1>3
    <3>2. h[s \ {x}] = f[y] + h[(s \ {x}) \ {y}]
      BY <2>1, <3>1 DEF SumsAt
    <3>3. QED
      BY <2>1, <3>2
  <2>6. f[x] \in Nat /\ f[y] \in Nat
    BY <1>2
  <2> HIDE DEF r
  <2>7. QED
    BY <1>2, <2>3, <2>4, <2>5, <2>6
<1>6. QED
  BY <1>2, <1>4, <1>5 DEF SumsAt

LEMMA PartialSumTakes ==
  ASSUME NEW S, IsFiniteSet(S), NEW f, \A x \in S : f[x] \in Nat
  PROVE  LET h == PartialSum(f, S)
         IN  h[{}] = 0 /\ \A s \in SUBSET S : SumsAt(h, f, s)
<1> DEFINE h == PartialSum(f, S)
           T == {n \in Nat : \A s \in SUBSET S : Cardinality(s) <= n => SumsAt(h, f, s)}
<1>1. IsPartialSum(h, f, S)
  BY PartialSumExists
<1> HIDE DEF h
<1>2. h[{}] = 0
  BY <1>1 DEF IsPartialSum
<1>3. 0 \in T
  <2>1. \A s \in SUBSET S : Cardinality(s) <= 0 => s = {}
    BY TakeOne
  <2>2. SumsAt(h, f, {})
    BY <1>2 DEF SumsAt
  <2>3. QED
    BY <2>1, <2>2
<1>4. ASSUME NEW n \in T PROVE n + 1 \in T
  <2>1. n \in Nat /\ n + 1 \in Nat /\ \A t \in SUBSET S : Cardinality(t) <= n => SumsAt(h, f, t)
    OBVIOUS
  <2>2. ASSUME NEW s \in SUBSET S, Cardinality(s) <= n + 1 PROVE SumsAt(h, f, s)
    <3>1. CASE Cardinality(s) = n + 1
      BY <1>1, <2>1, <3>1, PartialSumStep
    <3>2. CASE Cardinality(s) # n + 1
      <4>1. Cardinality(s) <= n
        BY <2>1, <2>2, <3>2, TakeOne
      <4>2. QED
        BY <2>1, <4>1
    <3>3. QED
      BY <3>1, <3>2
  <2>3. QED
    BY <2>1, <2>2
<1>5. QED
  <2>1. T = Nat
    <3>1. T \in SUBSET Nat
      OBVIOUS
    <3> HIDE DEF T
    <3>2. QED
      BY <1>3, <1>4, <3>1, NatSetInduction
  <2>2. ASSUME NEW s \in SUBSET S PROVE SumsAt(h, f, s)
    <3>1. Cardinality(s) \in T
      <4> HIDE DEF T
      <4>1. QED
        BY <2>1, TakeOne
    <3>2. \A t \in SUBSET S : Cardinality(t) <= Cardinality(s) => SumsAt(h, f, t)
      BY <3>1
    <3>3. QED
      BY <3>2, TakeOne
  <2>3. QED
    BY <1>2, <2>2 DEF h

(* Two functions that agree on a set have the same sum over it. *)
LEMMA PartialSumSame ==
  ASSUME NEW S, IsFiniteSet(S), NEW f, NEW g, NEW hf, NEW hg,
         hf[{}] = 0, hg[{}] = 0,
         \A s \in SUBSET S : SumsAt(hf, f, s), \A s \in SUBSET S : SumsAt(hg, g, s),
         NEW R \in SUBSET S, \A x \in R : f[x] = g[x]
  PROVE  hf[R] = hg[R]
<1> DEFINE T == {n \in Nat : \A s \in SUBSET R : Cardinality(s) = n => hf[s] = hg[s]}
<1>0. IsFiniteSet(R)
  BY FS_Subset
<1>1. 0 \in T
  <2>1. \A s \in SUBSET R : Cardinality(s) = 0 => s = {}
    BY <1>0, TakeOne
  <2>2. QED
    BY <2>1
<1>2. ASSUME NEW n \in T PROVE n + 1 \in T
  <2>1. n \in Nat /\ n + 1 \in Nat /\ \A s \in SUBSET R : Cardinality(s) = n => hf[s] = hg[s]
    OBVIOUS
  <2>2. ASSUME NEW s \in SUBSET R, Cardinality(s) = n + 1 PROVE hf[s] = hg[s]
    <3>1. PICK x : x \in s
      BY <1>0, <2>1, <2>2, TakeOne
    <3>2. s \ {x} \in SUBSET R /\ Cardinality(s \ {x}) = n
      BY <1>0, <2>1, <2>2, <3>1, TakeOne
    <3>3. hf[s \ {x}] = hg[s \ {x}]
      BY <2>1, <3>2
    <3>4. hf[s] = f[x] + hf[s \ {x}] /\ hg[s] = g[x] + hg[s \ {x}] /\ f[x] = g[x]
      BY <3>1 DEF SumsAt
    <3>5. QED
      BY <3>3, <3>4
  <2>3. QED
    BY <2>1, <2>2
<1>3. QED
  <2>1. T = Nat
    <3>1. T \in SUBSET Nat
      OBVIOUS
    <3> HIDE DEF T
    <3>2. QED
      BY <1>1, <1>2, <3>1, NatSetInduction
  <2>2. Cardinality(R) \in T
    <3> HIDE DEF T
    <3>1. QED
      BY <1>0, <2>1, FS_CardinalityType
  <2>3. QED
    BY <2>2

(* A sum of naturals is a natural, no less than any of them. *)
LEMMA SumType ==
  ASSUME NEW S, IsFiniteSet(S), NEW f \in [S -> Nat]
  PROVE  SumFunction(f) \in Nat /\ \A x \in S : f[x] <= SumFunction(f)
<1> DEFINE h == PartialSum(f, S)
<1>1. SumFunction(f) = h[S]
  <2>1. DOMAIN f = S
    OBVIOUS
  <2>2. QED
    BY <2>1, SumIsPartial
<1>2. \A s \in SUBSET S : SumsAt(h, f, s)
  BY PartialSumTakes
<1> HIDE DEF h
<1>3. h[S] \in Nat
  BY <1>2 DEF SumsAt
<1>4. ASSUME NEW x \in S PROVE f[x] <= h[S]
  <2>1. h[S] = f[x] + h[S \ {x}]
    BY <1>2 DEF SumsAt
  <2>2. S \ {x} \in SUBSET S
    OBVIOUS
  <2>3. h[S \ {x}] \in Nat
    BY <1>2, <2>2 DEF SumsAt
  <2>4. f[x] \in Nat
    OBVIOUS
  <2>5. QED
    BY <2>1, <2>3, <2>4
<1>5. QED
  BY <1>1, <1>3, <1>4

(* What one changed value does to the sum. *)
EqualBut(f, g, S, x) == \A y \in S \ {x} : f[y] = g[y]

LEMMA SumUpdate ==
  ASSUME NEW S, IsFiniteSet(S), NEW f \in [S -> Nat], NEW g \in [S -> Nat], NEW x \in S,
         EqualBut(f, g, S, x)
  PROVE  SumFunction(g) + f[x] = SumFunction(f) + g[x]
<1> DEFINE hf == PartialSum(f, S)
           hg == PartialSum(g, S)
<1>1. SumFunction(f) = hf[S] /\ SumFunction(g) = hg[S]
  <2>1. DOMAIN f = S /\ DOMAIN g = S
    OBVIOUS
  <2>2. QED
    BY <2>1, SumIsPartial
<1>2. hf[{}] = 0 /\ \A s \in SUBSET S : SumsAt(hf, f, s)
  BY PartialSumTakes
<1>3. hg[{}] = 0 /\ \A s \in SUBSET S : SumsAt(hg, g, s)
  BY PartialSumTakes
<1> HIDE DEF hf, hg
<1>4. S \ {x} \in SUBSET S /\ \A y \in S \ {x} : f[y] = g[y]
  BY DEF EqualBut
<1>5. hf[S \ {x}] = hg[S \ {x}]
  BY <1>2, <1>3, <1>4, PartialSumSame
<1>6. hf[S] = f[x] + hf[S \ {x}] /\ hg[S] = g[x] + hg[S \ {x}]
  BY <1>2, <1>3 DEF SumsAt
<1>7. hf[S \ {x}] \in Nat /\ f[x] \in Nat /\ g[x] \in Nat
  BY <1>2, <1>4 DEF SumsAt
<1>8. QED
  BY <1>1, <1>5, <1>6, <1>7

(* The sum of zeros. *)
LEMMA SumZero ==
  ASSUME NEW S, IsFiniteSet(S), NEW f \in [S -> Nat], \A x \in S : f[x] = 0
  PROVE  SumFunction(f) = 0
<1> DEFINE h == PartialSum(f, S)
           T == {n \in Nat : \A s \in SUBSET S : Cardinality(s) = n => h[s] = 0}
<1>1. SumFunction(f) = h[S]
  <2>1. DOMAIN f = S
    OBVIOUS
  <2>2. QED
    BY <2>1, SumIsPartial
<1>2. h[{}] = 0 /\ \A s \in SUBSET S : SumsAt(h, f, s)
  BY PartialSumTakes
<1> HIDE DEF h
<1>3. 0 \in T
  <2>1. \A s \in SUBSET S : Cardinality(s) = 0 => s = {}
    BY TakeOne
  <2>2. QED
    BY <1>2, <2>1
<1>4. ASSUME NEW n \in T PROVE n + 1 \in T
  <2>1. n \in Nat /\ n + 1 \in Nat /\ \A s \in SUBSET S : Cardinality(s) = n => h[s] = 0
    OBVIOUS
  <2>2. ASSUME NEW s \in SUBSET S, Cardinality(s) = n + 1 PROVE h[s] = 0
    <3>1. PICK x : x \in s
      BY <2>1, <2>2, TakeOne
    <3>2. s \ {x} \in SUBSET S /\ Cardinality(s \ {x}) = n
      BY <2>1, <2>2, <3>1, TakeOne
    <3>3. h[s \ {x}] = 0
      BY <2>1, <3>2
    <3>4. h[s] = f[x] + h[s \ {x}] /\ f[x] = 0
      BY <1>2, <3>1 DEF SumsAt
    <3>5. QED
      BY <3>3, <3>4
  <2>3. QED
    BY <2>1, <2>2
<1>5. QED
  <2>1. T = Nat
    <3>1. T \in SUBSET Nat
      OBVIOUS
    <3> HIDE DEF T
    <3>2. QED
      BY <1>3, <1>4, <3>1, NatSetInduction
  <2>2. Cardinality(S) \in T
    <3> HIDE DEF T
    <3>1. QED
      BY <2>1, FS_CardinalityType
  <2>3. QED
    BY <1>1, <2>2
=============================================================================
