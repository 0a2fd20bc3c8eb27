---------------------------- MODULE TotalsProofs ----------------------------
(***************************************************************************)
(* Lemmas about sums over finite sets: a term more or less, term by term,  *)
(* and by rows or by columns of a table.                                   *)
(*                                                                         *)
(* They are proved by induction, and the induction by the theorem that the *)
(* subsets of a finite set are well founded: a minimal counterexample is a *)
(* subset whose proper subsets are none.                                   *)
(***************************************************************************)
EXTENDS Totals, FiniteSetTheorems, WellFoundedInduction, TLAPS

-----------------------------------------------------------------------------
(* Induction.                                                              *)

(* A set of subsets of a finite set that holds every subset whose proper   *)
(* subsets it holds is all of them. (The property by induction is the      *)
(* membership in a set, so that no operator is passed to a theorem.)       *)
LEMMA StrongFiniteInduction ==
  ASSUME NEW S, IsFiniteSet(S), NEW G \in SUBSET (SUBSET S),
         \A T \in SUBSET S : (\A U \in SUBSET T : U # T => U \in G) => T \in G
  PROVE  G = SUBSET S
<1> DEFINE Bad == (SUBSET S) \ G
<1>1. SUFFICES ASSUME Bad # {} PROVE FALSE
  OBVIOUS
<1>2. FiniteSubsetsOf(S) = SUBSET S
  BY FS_FiniteSubsetsOfFinite
<1>3. IsWellFoundedOn(StrictSubsetOrdering(S), SUBSET S)
  BY <1>2, FS_StrictSubsetOrderingWellFounded
<1>4. Bad \subseteq SUBSET S
  OBVIOUS
<1>5. PICK T \in Bad : \A U \in Bad : <<U, T>> \notin StrictSubsetOrdering(S)
  <2> HIDE DEF Bad
  <2> QED BY <1>1, <1>3, <1>4, WFMin
<1>6. ASSUME NEW U \in SUBSET T, U # T PROVE U \in G
  <2>1. <<U, T>> \in StrictSubsetOrdering(S)
    BY <1>4, <1>5, <1>6 DEF StrictSubsetOrdering
  <2> QED BY <2>1, <1>5, <1>6
<1> QED BY <1>5, <1>6

(* What holds of the empty set and goes on to hold when an element is      *)
(* added holds of a finite set.                                            *)
LEMMA FiniteInduction ==
  ASSUME NEW S, IsFiniteSet(S), NEW G \in SUBSET (SUBSET S), {} \in G,
         \A T \in SUBSET S : \A x \in S \ T : T \in G => T \cup {x} \in G
  PROVE  S \in G
<1>1. ASSUME NEW T \in SUBSET S, \A U \in SUBSET T : U # T => U \in G PROVE T \in G
  <2>1. CASE T = {}
    BY <2>1
  <2>2. CASE T # {}
    <3>1. PICK x \in T : TRUE
      BY <2>2
    <3>2. T \ {x} \in G
      BY <3>1, <1>1
    <3>3. T = (T \ {x}) \cup {x}
      BY <3>1
    <3> QED BY <3>1, <3>2, <3>3
  <2> QED BY <2>1, <2>2
<1>2. G = SUBSET S
  BY <1>1, StrongFiniteInduction
<1> QED BY <1>2

(* A finite set of integers has a least element.                           *)
LEMMA FiniteMin ==
  ASSUME NEW S \in SUBSET Int, IsFiniteSet(S), S # {}
  PROVE  \E m \in S : \A n \in S : m <= n
<1> DEFINE G == {T \in SUBSET S : T # {} => \E m \in T : \A n \in T : m <= n}
<1>1. ASSUME NEW T \in SUBSET S, NEW x \in S \ T, T \in G PROVE T \cup {x} \in G
  <2>1. CASE T = {}
    BY <2>1
  <2>2. CASE T # {}
    <3>1. PICK m \in T : \A n \in T : m <= n
      BY <2>2, <1>1
    <3>2. CASE x <= m
      <4>1. \A n \in T \cup {x} : x <= n
        BY <3>1, <3>2
      <4> QED BY <4>1
    <3>3. CASE m <= x
      <4>1. \A n \in T \cup {x} : m <= n
        BY <3>1, <3>3
      <4> QED BY <4>1
    <3> QED BY <3>2, <3>3
  <2> QED BY <2>1, <2>2
<1>2. S \in G
  <2>1. {} \in G
    OBVIOUS
  <2>2. G \in SUBSET (SUBSET S)
    OBVIOUS
  <2> HIDE DEF G
  <2> QED BY <1>1, <2>1, <2>2, FiniteInduction
<1> QED BY <1>2

(* Induction over the natural numbers, again with a set.                   *)
LEMMA NaturalInduction ==
  ASSUME NEW G \in SUBSET Nat, 0 \in G, \A n \in G : n + 1 \in G
  PROVE  G = Nat
<1>1. SUFFICES ASSUME NEW b \in Nat, b \notin G PROVE FALSE
  OBVIOUS
<1> DEFINE Bad == {n \in 0..b : n \notin G}
<1>2. IsFiniteSet(Bad)
  <2>1. IsFiniteSet(0..b)
    BY FS_Interval
  <2>2. Bad \in SUBSET (0..b)
    OBVIOUS
  <2> QED BY <2>1, <2>2, FS_Subset
<1>3. PICK m \in Bad : \A n \in Bad : m <= n
  <2>1. Bad \in SUBSET Int /\ Bad # {}
    BY <1>1
  <2> HIDE DEF Bad
  <2> QED BY <1>2, <2>1, FiniteMin
<1>4. m - 1 \in G
  BY <1>3
<1> QED BY <1>3, <1>4

(* The recursion *)

(* The recursion by which MapThenFoldSet adds up: it is a sum for every    *)
(* subset of S, an arbitrary element at a time.                            *)
Rec(f, it, S) ==
  it = [s \in SUBSET S |->
          IF s = {} THEN 0 ELSE f[CHOOSE x \in s : TRUE] + it[s \ {CHOOSE x \in s : TRUE}]]

(* Two such recursions, over different sets, agree on what they have in    *)
(* common.                                                                 *)
LEMMA RecUnique ==
  ASSUME NEW f, NEW S, IsFiniteSet(S), NEW T, NEW U, S \subseteq T, S \subseteq U,
         NEW it, NEW jt, Rec(f, it, T), Rec(f, jt, U)
  PROVE  it[S] = jt[S]
<1> DEFINE G == {R \in SUBSET S : it[R] = jt[R]}
<1>1. ASSUME NEW R \in SUBSET S, \A V \in SUBSET R : V # R => V \in G PROVE R \in G
  <2>1. CASE R = {}
    <3>1. it[R] = 0 /\ jt[R] = 0
      BY <2>1 DEF Rec
    <3> QED BY <3>1
  <2>2. CASE R # {}
    <3> DEFINE x == CHOOSE x \in R : TRUE
    <3>1. x \in R
      BY <2>2
    <3>2. it[R \ {x}] = jt[R \ {x}]
      <4>1. R \ {x} \in SUBSET R /\ R \ {x} # R
        BY <3>1
      <4> QED BY <4>1, <1>1
    <3>3. it[R] = f[x] + it[R \ {x}]
      <4>1. R \in SUBSET T
        BY <1>1
      <4> QED BY <4>1, <2>2 DEF Rec
    <3>4. jt[R] = f[x] + jt[R \ {x}]
      <4>1. R \in SUBSET U
        BY <1>1
      <4> QED BY <4>1, <2>2 DEF Rec
    <3> QED BY <3>2, <3>3, <3>4
  <2> QED BY <2>1, <2>2
<1>2. G = SUBSET S
  <2>1. G \in SUBSET (SUBSET S)
    OBVIOUS
  <2> HIDE DEF G
  <2> QED BY <1>1, <2>1, StrongFiniteInduction
<1> QED BY <1>2

(* The sums of the terms of f over the subsets of S.                       *)
PartialSums(f, S) == CHOOSE it : Rec(f, it, S)

(* There is such a recursion over every finite set.                        *)
LEMMA RecExists ==
  ASSUME NEW f, NEW S, IsFiniteSet(S)
  PROVE  \E it : Rec(f, it, S)
<1> DEFINE G == {T \in SUBSET S : \E it : Rec(f, it, T)}
<1>1. ASSUME NEW T \in SUBSET S, \A U \in SUBSET T : U # T => U \in G PROVE T \in G
  <2> DEFINE it(U) == PartialSums(f, U)
             Rest(s) == s \ {CHOOSE x \in s : TRUE}
             sum == [s \in SUBSET T |-> IF s = {} THEN 0 ELSE f[CHOOSE x \in s : TRUE] + it(Rest(s))[Rest(s)]]
  <2>1. ASSUME NEW U \in SUBSET T, U # T PROVE Rec(f, it(U), U)
    BY <1>1, <2>1 DEF PartialSums
  <2>2. ASSUME NEW s \in SUBSET T, s # {} PROVE Rest(s) \in SUBSET T /\ Rest(s) # T /\ IsFiniteSet(Rest(s))
    <3>1. (CHOOSE x \in s : TRUE) \in s
      BY <2>2
    <3> QED BY <3>1, FS_Subset
  <2>3. ASSUME NEW U \in SUBSET T, U # T PROVE sum[U] = it(U)[U]
    <3>1. CASE U = {}
      <4>1. Rec(f, it(U), U)
        BY <2>1, <2>3
      <4>2. it(U)[U] = 0
        BY <4>1, <3>1 DEF Rec
      <4> QED BY <4>2, <3>1
    <3>2. CASE U # {}
      <4> DEFINE V == Rest(U)
      <4>1. V \in SUBSET T /\ V # T /\ IsFiniteSet(V) /\ V \subseteq U
        BY <2>2, <3>2
      <4>2. sum[U] = f[CHOOSE x \in U : TRUE] + it(V)[V]
        BY <3>2
      <4>3. Rec(f, it(U), U) /\ Rec(f, it(V), V)
        BY <2>1, <2>3, <4>1
      <4>4. it(U)[U] = f[CHOOSE x \in U : TRUE] + it(U)[V]
        BY <4>3, <3>2 DEF Rec
      <4>5. it(U)[V] = it(V)[V]
        <5> HIDE DEF V
        <5> QED BY <4>1, <4>3, RecUnique
      <4> QED BY <4>2, <4>4, <4>5
    <3> QED BY <3>1, <3>2
  <2>4. Rec(f, sum, T)
    <3>1. ASSUME NEW s \in SUBSET T PROVE sum[s] = IF s = {} THEN 0 ELSE f[CHOOSE x \in s : TRUE] + sum[Rest(s)]
      <4>1. CASE s = {}
        BY <4>1
      <4>2. CASE s # {}
        <5>1. Rest(s) \in SUBSET T /\ Rest(s) # T
          BY <2>2, <4>2
        <5>2. sum[Rest(s)] = it(Rest(s))[Rest(s)]
          BY <5>1, <2>3
        <5> QED BY <5>2, <4>2
      <4> QED BY <4>1, <4>2
    <3>2. sum = [s \in SUBSET T |-> sum[s]]
      OBVIOUS
    <3> HIDE DEF sum
    <3> QED BY <3>1, <3>2 DEF Rec
  <2> QED BY <2>4
<1>2. G = SUBSET S
  <2>1. G \in SUBSET (SUBSET S)
    OBVIOUS
  <2> HIDE DEF G
  <2> QED BY <1>1, <2>1, StrongFiniteInduction
<1> QED BY <1>2

(* The sum of the terms of f over S, whatever else f is defined on.        *)
TotalOver(f, S) == PartialSums(f, S)[S]

(* The total the modules take is the sum over the whole domain.            *)
LEMMA TotalIsRec == ASSUME NEW f PROVE Total(f) = TotalOver(f, DOMAIN f)
BY DEF Total, TotalOver, PartialSums, Rec, MapThenSumSet, MapThenFoldSet

(* The recursion takes its chosen element off.                             *)
LEMMA TotalStepOfChosen ==
  ASSUME NEW f, NEW S, IsFiniteSet(S)
  PROVE TotalOver(f, S) = IF S = {} THEN 0 ELSE f[CHOOSE x \in S : TRUE] + TotalOver(f, S \ {CHOOSE x \in S : TRUE})
<1> DEFINE V == S \ {CHOOSE x \in S : TRUE}
<1>1. IsFiniteSet(V) /\ V \subseteq S
  BY FS_Subset
<1>2. Rec(f, PartialSums(f, S), S) /\ Rec(f, PartialSums(f, V), V)
  BY <1>1, RecExists DEF PartialSums
<1>3. PartialSums(f, S)[S] = IF S = {} THEN 0 ELSE f[CHOOSE x \in S : TRUE] + PartialSums(f, S)[V]
  BY <1>2 DEF Rec
<1>4. PartialSums(f, S)[V] = PartialSums(f, V)[V]
  <2> HIDE DEF V
  <2> QED BY <1>1, <1>2, RecUnique
<1> QED BY <1>3, <1>4 DEF TotalOver

(* It does not matter which element is taken off.                          *)
LEMMA TotalOverStep ==
  ASSUME NEW f, NEW S, IsFiniteSet(S), \A x \in S : f[x] \in Int
  PROVE  /\ TotalOver(f, S) \in Int
         /\ TotalOver(f, {}) = 0
         /\ \A x \in S : TotalOver(f, S) = f[x] + TotalOver(f, S \ {x})
<1>0. TotalOver(f, {}) = 0
  BY FS_EmptySet, TotalStepOfChosen
<1> DEFINE G == {T \in SUBSET S : /\ TotalOver(f, T) \in Int
                                 /\ \A x \in T : TotalOver(f, T) = f[x] + TotalOver(f, T \ {x})}
<1>1. ASSUME NEW T \in SUBSET S, \A U \in SUBSET T : U # T => U \in G PROVE T \in G
  <2>1. CASE T = {}
    BY <2>1, <1>0
  <2>2. CASE T # {}
    <3> DEFINE c == CHOOSE x \in T : TRUE
    <3>1. c \in T
      BY <2>2
    <3>2. TotalOver(f, T) = f[c] + TotalOver(f, T \ {c})
      BY <2>2, TotalStepOfChosen, FS_Subset
    <3> HIDE DEF c
    <3>3. T \ {c} \in G
      BY <3>1, <1>1
    <3>4. TotalOver(f, T) \in Int
      BY <3>1, <3>2, <3>3
    <3>5. ASSUME NEW x \in T, x # c PROVE TotalOver(f, T) = f[x] + TotalOver(f, T \ {x})
      <4>1. T \ {x} \in G
        BY <1>1
      <4>2. (T \ {c}) \ {x} = (T \ {x}) \ {c}
        OBVIOUS
      <4>3. TotalOver(f, T \ {c}) = f[x] + TotalOver(f, (T \ {c}) \ {x})
        BY <3>3, <3>5
      <4>4. TotalOver(f, T \ {x}) = f[c] + TotalOver(f, (T \ {c}) \ {x})
        BY <4>1, <4>2, <3>1, <3>5
      <4>5. (T \ {c}) \ {x} \in G
        BY <1>1, <3>1
      <4>6. f[x] \in Int /\ f[c] \in Int /\ TotalOver(f, (T \ {c}) \ {x}) \in Int
        BY <4>5, <3>1
      <4> HIDE DEF G
      <4> QED BY <4>3, <4>4, <4>6, <3>2
    <3> QED BY <3>2, <3>4, <3>5
  <2> QED BY <2>1, <2>2
<1>2. G = SUBSET S
  <2>1. G \in SUBSET (SUBSET S)
    OBVIOUS
  <2> HIDE DEF G
  <2> QED BY <1>1, <2>1, StrongFiniteInduction
<1>3. S \in G
  BY <1>2
<1> QED BY <1>0, <1>3

(* One more term adds to the sum.                                          *)
LEMMA TotalOverAdd ==
  ASSUME NEW f, NEW S, IsFiniteSet(S), NEW x, x \notin S, f[x] \in Int, \A y \in S : f[y] \in Int
  PROVE  TotalOver(f, S \cup {x}) = f[x] + TotalOver(f, S)
<1>1. IsFiniteSet(S \cup {x}) /\ (S \cup {x}) \ {x} = S
  BY FS_AddElement
<1> QED BY <1>1, TotalOverStep

(* The sum depends on the terms alone.                                     *)
LEMMA SameTerms ==
  ASSUME NEW f, NEW g, NEW S, IsFiniteSet(S), \A x \in S : f[x] \in Int /\ f[x] = g[x]
  PROVE  TotalOver(f, S) = TotalOver(g, S)
<1> DEFINE G == {T \in SUBSET S : TotalOver(f, T) = TotalOver(g, T)}
<1>1. {} \in G
  BY FS_EmptySet, TotalOverStep
<1>2. ASSUME NEW T \in SUBSET S, NEW x \in S \ T, T \in G PROVE T \cup {x} \in G
  <2>1. IsFiniteSet(T) /\ f[x] = g[x] /\ f[x] \in Int /\ \A y \in T : f[y] \in Int /\ g[y] \in Int
    BY FS_Subset
  <2>2. TotalOver(f, T \cup {x}) = f[x] + TotalOver(f, T)
    BY <2>1, TotalOverAdd
  <2>3. TotalOver(g, T \cup {x}) = g[x] + TotalOver(g, T)
    BY <2>1, TotalOverAdd
  <2> QED BY <1>2, <2>1, <2>2, <2>3
<1>3. G \in SUBSET (SUBSET S)
  OBVIOUS
<1>4. S \in G
  <2> HIDE DEF G
  <2> QED BY <1>1, <1>2, <1>3, FiniteInduction
<1> QED BY <1>4

(* A sum of natural numbers is one, and no term is larger than it.         *)
LEMMA TotalNat ==
  ASSUME NEW f, NEW S, IsFiniteSet(S), \A x \in S : f[x] \in Nat
  PROVE  TotalOver(f, S) \in Nat /\ \A x \in S : f[x] <= TotalOver(f, S)
<1> DEFINE G == {T \in SUBSET S : TotalOver(f, T) \in Nat /\ \A x \in T : f[x] <= TotalOver(f, T)}
<1>1. {} \in G
  BY FS_EmptySet, TotalOverStep
<1>2. ASSUME NEW T \in SUBSET S, NEW x \in S \ T, T \in G PROVE T \cup {x} \in G
  <2>1. IsFiniteSet(T) /\ f[x] \in Nat /\ \A y \in T : f[y] \in Nat
    BY FS_Subset
  <2>2. TotalOver(f, T \cup {x}) = f[x] + TotalOver(f, T)
    BY <2>1, TotalOverAdd
  <2> QED BY <1>2, <2>1, <2>2
<1>3. G \in SUBSET (SUBSET S)
  OBVIOUS
<1>4. S \in G
  <2> HIDE DEF G
  <2> QED BY <1>1, <1>2, <1>3, FiniteInduction
<1> QED BY <1>4

(* Terms that are zero do not count.                                       *)
LEMMA TotalOfZeros ==
  ASSUME NEW f, NEW S, IsFiniteSet(S), NEW T \in SUBSET S, \A x \in S : f[x] \in Int,
         \A x \in S \ T : f[x] = 0
  PROVE  TotalOver(f, S) = TotalOver(f, T)
<1> DEFINE G == {U \in SUBSET (S \ T) : TotalOver(f, T \cup U) = TotalOver(f, T)}
<1>1. {} \in G
  <2>1. T \cup {} = T
    OBVIOUS
  <2> QED BY <2>1
<1>2. ASSUME NEW U \in SUBSET (S \ T), NEW x \in (S \ T) \ U, U \in G PROVE U \cup {x} \in G
  <2>1. IsFiniteSet(T \cup U) /\ f[x] = 0 /\ x \notin T \cup U /\ T \cup (U \cup {x}) = (T \cup U) \cup {x}
    <3>1. T \cup U \in SUBSET S
      OBVIOUS
    <3> QED BY <3>1, FS_Subset
  <2>2. TotalOver(f, (T \cup U) \cup {x}) = f[x] + TotalOver(f, T \cup U)
    <3>1. \A y \in T \cup U : f[y] \in Int
      OBVIOUS
    <3> QED BY <2>1, <3>1, TotalOverAdd
  <2>3. TotalOver(f, T) \in Int
    BY FS_Subset, TotalOverStep
  <2>4. TotalOver(f, T \cup U) = TotalOver(f, T)
    BY <1>2
  <2>5. TotalOver(f, T \cup (U \cup {x})) = TotalOver(f, T)
    <3>1. TotalOver(f, (T \cup U) \cup {x}) = 0 + TotalOver(f, T)
      <4>1. f[x] = 0
        BY <2>1
      <4> QED BY <4>1, <2>2, <2>4, Zenon
    <3>2. TotalOver(f, T \cup (U \cup {x})) = TotalOver(f, (T \cup U) \cup {x})
      <4>1. T \cup (U \cup {x}) = (T \cup U) \cup {x}
        OBVIOUS
      <4> QED BY <4>1, Zenon
    <3>3. 0 + TotalOver(f, T) = TotalOver(f, T)
      BY <2>3
    <3> QED BY <3>1, <3>2, <3>3, Zenon
  <2>6. U \cup {x} \in SUBSET (S \ T)
    BY <1>2
  <2> QED BY <2>5, <2>6
<1>3. G \in SUBSET (SUBSET (S \ T)) /\ IsFiniteSet(S \ T) /\ T \cup (S \ T) = S
  BY FS_Difference
<1>4. S \ T \in G
  <2> HIDE DEF G
  <2> QED BY <1>1, <1>2, <1>3, FiniteInduction
<1> QED BY <1>3, <1>4

(* Equal terms add up to their product.                                    *)
LEMMA TotalOfConstant ==
  ASSUME NEW f, NEW S, IsFiniteSet(S), NEW c \in Int, \A x \in S : f[x] = c
  PROVE  TotalOver(f, S) = c * Cardinality(S)
<1> DEFINE G == {T \in SUBSET S : TotalOver(f, T) = c * Cardinality(T)}
<1>1. {} \in G
  BY FS_EmptySet, TotalOverStep
<1>2. ASSUME NEW T \in SUBSET S, NEW x \in S \ T, T \in G PROVE T \cup {x} \in G
  <2>1. IsFiniteSet(T) /\ f[x] = c /\ \A y \in T : f[y] \in Int
    BY FS_Subset
  <2>2. TotalOver(f, T \cup {x}) = c + TotalOver(f, T)
    BY <2>1, TotalOverAdd
  <2>3. Cardinality(T) \in Nat /\ Cardinality(T \cup {x}) = Cardinality(T) + 1
    BY <2>1, FS_CardinalityType, FS_AddElement
  <2>4. c * (Cardinality(T) + 1) = c + c * Cardinality(T)
    BY <2>3
  <2> QED BY <1>2, <2>2, <2>3, <2>4
<1>3. G \in SUBSET (SUBSET S)
  OBVIOUS
<1>4. S \in G
  <2> HIDE DEF G
  <2> QED BY <1>1, <1>2, <1>3, FiniteInduction
<1> QED BY <1>4

(* Two sums over a set are added term by term.                             *)
LEMMA TotalOfSums ==
  ASSUME NEW f, NEW g, NEW h, NEW S, IsFiniteSet(S),
         \A x \in S : f[x] \in Int /\ g[x] \in Int /\ h[x] = f[x] + g[x]
  PROVE  TotalOver(h, S) = TotalOver(f, S) + TotalOver(g, S)
<1> DEFINE G == {T \in SUBSET S : TotalOver(h, T) = TotalOver(f, T) + TotalOver(g, T)}
<1>1. {} \in G
  BY FS_EmptySet, TotalOverStep
<1>2. ASSUME NEW T \in SUBSET S, NEW x \in S \ T, T \in G PROVE T \cup {x} \in G
  <2>1. IsFiniteSet(T) /\ f[x] \in Int /\ g[x] \in Int /\ h[x] = f[x] + g[x]
        /\ \A y \in T : f[y] \in Int /\ g[y] \in Int /\ h[y] \in Int
    BY FS_Subset
  <2>2. TotalOver(f, T \cup {x}) = f[x] + TotalOver(f, T)
    BY <2>1, TotalOverAdd
  <2>3. TotalOver(g, T \cup {x}) = g[x] + TotalOver(g, T)
    BY <2>1, TotalOverAdd
  <2>4. TotalOver(h, T \cup {x}) = h[x] + TotalOver(h, T)
    BY <2>1, TotalOverAdd
  <2>5. TotalOver(f, T) \in Int /\ TotalOver(g, T) \in Int
    BY <2>1, TotalOverStep
  <2>6. TotalOver(h, T) = TotalOver(f, T) + TotalOver(g, T)
    BY <1>2
  <2>7. TotalOver(h, T \cup {x}) = TotalOver(f, T \cup {x}) + TotalOver(g, T \cup {x})
    BY <2>1, <2>2, <2>3, <2>4, <2>5, <2>6
  <2> QED BY <2>7
<1>3. G \in SUBSET (SUBSET S)
  OBVIOUS
<1>4. S \in G
  <2> HIDE DEF G
  <2> QED BY <1>1, <1>2, <1>3, FiniteInduction
<1> QED BY <1>4

(* F[x][y] *)

(* f holds the sums of the rows of F, which has a row for each element of  *)
(* S and a column for each of T.                                           *)
RowTotals(f, F, S, T) == \A x \in S : f[x] = TotalOver(F[x], T)

(* H holds the entries of F by column.                                     *)
Transposed(F, H, S, T) == \A x \in S : \A y \in T : F[x][y] \in Int /\ H[y][x] = F[x][y]

(* A table has one total, whether its rows or its columns are added first. *)
LEMMA TotalsExchange ==
  ASSUME NEW F, NEW H, NEW S, IsFiniteSet(S), NEW T, IsFiniteSet(T), Transposed(F, H, S, T),
         NEW f, RowTotals(f, F, S, T), NEW h, RowTotals(h, H, T, S)
  PROVE  TotalOver(f, S) = TotalOver(h, T)
<1> USE DEF RowTotals, Transposed
<1> DEFINE rows == [x \in S |-> TotalOver(F[x], T)]
           column(y) == [x \in S |-> F[x][y]]
           columns(U) == [y \in T |-> TotalOver(column(y), U)]
           G == {U \in SUBSET S : TotalOver(rows, U) = TotalOver(columns(U), T)}
<1>0. ASSUME NEW U \in SUBSET S PROVE IsFiniteSet(U) /\ TotalOver(rows, U) \in Int
                                    /\ \A y \in T : columns(U)[y] = TotalOver(column(y), U) /\ columns(U)[y] \in Int
  <2>1. IsFiniteSet(U)
    BY FS_Subset
  <2>2. \A x \in S : rows[x] \in Int
    BY TotalOverStep
  <2>3. TotalOver(rows, U) \in Int
    <3> HIDE DEF rows
    <3> QED BY <2>1, <2>2, TotalOverStep
  <2>4. ASSUME NEW y \in T PROVE TotalOver(column(y), U) \in Int
    <3>1. \A x \in U : column(y)[x] \in Int
      OBVIOUS
    <3> HIDE DEF column
    <3> QED BY <2>1, <3>1, TotalOverStep
  <2> HIDE DEF column, rows
  <2> QED BY <2>1, <2>3, <2>4
<1>1. {} \in G
  <2>1. TotalOver(rows, {}) = 0 /\ \A y \in T : TotalOver(column(y), {}) = 0
    BY FS_EmptySet, TotalOverStep
  <2>2. \A y \in T : columns({})[y] = 0
    BY <2>1
  <2>3. TotalOver(columns({}), T) = 0 * Cardinality(T)
    <3> HIDE DEF columns
    <3> QED BY <2>2, TotalOfConstant
  <2>4. 0 * Cardinality(T) = 0
    BY FS_CardinalityType
  <2> QED BY <2>1, <2>3, <2>4
<1>2. ASSUME NEW U \in SUBSET S, NEW x \in S \ U, U \in G PROVE U \cup {x} \in G
  <2>1. TotalOver(rows, U \cup {x}) = TotalOver(F[x], T) + TotalOver(rows, U)
    <3>1. \A y \in S : rows[y] = TotalOver(F[y], T) /\ rows[y] \in Int
      BY TotalOverStep
    <3>2. IsFiniteSet(U)
      BY <1>0
    <3> HIDE DEF rows
    <3> QED BY <3>1, <3>2, TotalOverAdd
  <2>2. \A y \in T : columns(U \cup {x})[y] = F[x][y] + columns(U)[y]
    <3>1. SUFFICES ASSUME NEW y \in T PROVE TotalOver(column(y), U \cup {x}) = F[x][y] + TotalOver(column(y), U)
      OBVIOUS
    <3>2. column(y)[x] = F[x][y] /\ \A z \in S : column(y)[z] \in Int
      OBVIOUS
    <3>3. IsFiniteSet(U)
      BY <1>0
    <3> HIDE DEF column
    <3> QED BY <3>2, <3>3, TotalOverAdd
  <2>3. TotalOver(columns(U \cup {x}), T) = TotalOver(F[x], T) + TotalOver(columns(U), T)
    <3> DEFINE a == F[x]
               g == columns(U)
               k == columns(U \cup {x})
    <3>1. \A y \in T : a[y] \in Int /\ g[y] \in Int /\ k[y] = a[y] + g[y]
      BY <1>0, <2>2
    <3>2. TotalOver(k, T) = TotalOver(a, T) + TotalOver(g, T)
      <4> HIDE DEF a, g, k
      <4> QED BY <3>1, TotalOfSums
    <3> QED BY <3>2
  <2>4. TotalOver(rows, U) = TotalOver(columns(U), T)
    BY <1>2
  <2>5. TotalOver(rows, U \cup {x}) = TotalOver(columns(U \cup {x}), T)
    BY <2>1, <2>3, <2>4
  <2> HIDE DEF rows, columns
  <2> QED BY <2>5
<1>3. G \in SUBSET (SUBSET S)
  OBVIOUS
<1>4. S \in G
  <2> HIDE DEF G
  <2> QED BY <1>1, <1>2, <1>3, FiniteInduction
<1>5. TotalOver(rows, S) = TotalOver(columns(S), T)
  BY <1>4
<1>6. \A x \in S : rows[x] \in Int /\ rows[x] = f[x]
  BY TotalOverStep
<1>7. ASSUME NEW y \in T PROVE columns(S)[y] \in Int /\ columns(S)[y] = h[y]
  <2>1. \A x \in S : column(y)[x] \in Int /\ column(y)[x] = H[y][x]
    OBVIOUS
  <2>2. columns(S)[y] = TotalOver(column(y), S)
    OBVIOUS
  <2> HIDE DEF column, columns
  <2>3. TotalOver(column(y), S) \in Int /\ TotalOver(column(y), S) = TotalOver(H[y], S)
    BY <2>1, TotalOverStep, SameTerms
  <2> QED BY <2>2, <2>3
<1> DEFINE k == columns(S)
<1>8. \A y \in T : k[y] \in Int /\ k[y] = h[y]
  BY <1>7
<1> HIDE DEF rows, k
<1>9. TotalOver(rows, S) = TotalOver(f, S) /\ TotalOver(k, T) = TotalOver(h, T)
  BY <1>6, <1>8, SameTerms
<1> QED BY <1>5, <1>9 DEF k

(* The sum does not depend on how the terms are named.                     *)
LEMMA TotalReindexed ==
  ASSUME NEW f, NEW S, NEW T, IsFiniteSet(T), NEW b \in Bijection(T, S),
         \A x \in S : f[x] \in Int
  PROVE  IsFiniteSet(S) /\ TotalOver(f, S) = TotalOver([t \in T |-> f[b[t]]], T)
<1> DEFINE g == [t \in T |-> f[b[t]]]
           Img(U) == {b[t] : t \in U}
           G == {U \in SUBSET T : IsFiniteSet(Img(U)) /\ TotalOver(f, Img(U)) = TotalOver(g, U)}
<1>0. /\ b \in [T -> S] /\ \A t, u \in T : b[t] = b[u] => t = u
      /\ S = Img(T)
  BY DEF Bijection, Injection, Surjection, IsInjective
<1>1. {} \in G
  <2>1. Img({}) = {}
    OBVIOUS
  <2>2. TotalOver(f, {}) = 0 /\ TotalOver(g, {}) = 0
    BY FS_EmptySet, TotalOverStep
  <2> QED BY <2>1, <2>2, FS_EmptySet
<1>2. ASSUME NEW U \in SUBSET T, NEW x \in T \ U, U \in G PROVE U \cup {x} \in G
  <2>1. Img(U \cup {x}) = Img(U) \cup {b[x]} /\ b[x] \notin Img(U) /\ \A y \in Img(U) : y \in S
    BY <1>0
  <2>2. IsFiniteSet(Img(U) \cup {b[x]})
    BY <1>2, FS_AddElement
  <2>3. TotalOver(f, Img(U) \cup {b[x]}) = f[b[x]] + TotalOver(f, Img(U))
    <3>1. IsFiniteSet(Img(U)) /\ f[b[x]] \in Int /\ \A y \in Img(U) : f[y] \in Int
      BY <1>0, <1>2, <2>1
    <3> HIDE DEF Img
    <3> QED BY <2>1, <3>1, TotalOverAdd
  <2>4. TotalOver(g, U \cup {x}) = g[x] + TotalOver(g, U)
    <3>1. IsFiniteSet(U) /\ g[x] \in Int /\ \A y \in U : g[y] \in Int
      BY <1>0, FS_Subset
    <3> HIDE DEF g
    <3> QED BY <3>1, TotalOverAdd
  <2>5. TotalOver(f, Img(U)) = TotalOver(g, U)
    BY <1>2
  <2>6. g[x] = f[b[x]]
    OBVIOUS
  <2> HIDE DEF g, Img
  <2> QED BY <2>1, <2>2, <2>3, <2>4, <2>5, <2>6
<1>3. G \in SUBSET (SUBSET T)
  OBVIOUS
<1>4. T \in G
  <2> HIDE DEF G
  <2> QED BY <1>1, <1>2, <1>3, FiniteInduction
<1>5. S = Img(T)
  BY <1>0
<1> QED BY <1>4, <1>5
=============================================================================
