------------------------- MODULE HandBountiesProofs -------------------------
(***************************************************************************)
(* The settlement of a hand, for every number of players, all stacks and   *)
(* commitments, every way the room may split a pot and every history that  *)
(* leaves out or misreads something.                                       *)
(*                                                                         *)
(* The room makes its pots chip by chip and the core by levels of          *)
(* commitment: they are the same (PotsAreRoomPots).  What the room paid    *)
(* out of a pot is among the options the settlement considers              *)
(* (TruthIsOption) and adds up to the payouts it observes (TruthIsExact),  *)
(* so if a single allocation is found it is that of the room (SettleIs).   *)
(* The rest follows from that allocation, and from counting the chips once *)
(* by player and once by pot (ChipsBalance).                               *)
(***************************************************************************)
EXTENDS HandBounties, TotalsProofs, FiniteSetTheorems, TLAPS

-----------------------------------------------------------------------------
(* Numbers in order.                                                       *)

(* How many of S are at most x.                                            *)
Rank(x, S) == Cardinality({y \in S : y <= x})

(* Different elements have different ranks, in their order.                *)
LEMMA RankIsInjective ==
  ASSUME NEW S \in SUBSET Int, IsFiniteSet(S), NEW x \in S, NEW z \in S, x < z
  PROVE  Rank(x, S) < Rank(z, S)
<1> DEFINE X == {y \in S : y <= x}
           Z == {y \in S : y <= z}
<1>1. IsFiniteSet(X) /\ IsFiniteSet(Z)
  BY FS_Subset
<1>2. X \in SUBSET Z /\ z \in Z /\ z \notin X
  <2>1. \A y \in S : y \in Int /\ (y <= x => y <= z)
    OBVIOUS
  <2>2. z <= z /\ ~(z <= x)
    OBVIOUS
  <2> QED BY <2>1, <2>2
<1>3. Cardinality(X) \in Nat /\ Cardinality(Z) \in Nat
  BY <1>1, FS_CardinalityType
<1>4. Cardinality(X) <= Cardinality(Z) /\ Cardinality(X) # Cardinality(Z)
  <2> HIDE DEF X, Z
  <2> QED BY <1>1, <1>2, FS_Subset
<1> QED BY <1>3, <1>4 DEF Rank

(* Ranks are counted from one to the size of the set.                      *)
LEMMA RankType ==
  ASSUME NEW S \in SUBSET Int, IsFiniteSet(S), NEW x \in S
  PROVE  Rank(x, S) \in 1..Cardinality(S)
<1> DEFINE X == {y \in S : y <= x}
<1>1. IsFiniteSet(X) /\ Cardinality(X) <= Cardinality(S)
  BY FS_Subset
<1>2. Cardinality(X) \in Nat /\ Cardinality(S) \in Nat
  BY <1>1, FS_CardinalityType
<1>3. Cardinality(X) # 0
  <2>1. x \in X
    OBVIOUS
  <2> HIDE DEF X
  <2> QED BY <1>1, <2>1, FS_EmptySet
<1> QED BY <1>1, <1>2, <1>3 DEF Rank

(* The i-th smallest element is the one of rank i: sorting and removing    *)
(* duplicates, as the code does with the levels, numbers the elements from *)
(* 1 on.                                                                   *)
LEMMA SmallestIs ==
  ASSUME NEW S \in SUBSET Int, IsFiniteSet(S)
  PROVE  /\ \A i \in 1..Cardinality(S) : Smallest(i, S) \in S /\ Rank(Smallest(i, S), S) = i
         /\ \A x \in S : Smallest(Rank(x, S), S) = x
<1> DEFINE n == Cardinality(S)
           r == [x \in S |-> Rank(x, S)]
<1>1. n \in Nat /\ IsFiniteSet(1..n) /\ Cardinality(1..n) = n
  BY FS_CardinalityType, FS_Interval
<1>2. r \in [S -> 1..n]
  BY RankType
<1>3. \A x, z \in S : r[x] = r[z] => x = z
  <2> SUFFICES ASSUME NEW x \in S, NEW z \in S, x # z PROVE r[x] # r[z]
    OBVIOUS
  <2>1. x < z \/ z < x
    OBVIOUS
  <2>2. r[x] < r[z] \/ r[z] < r[x]
    BY <2>1, RankIsInjective
  <2>3. r[x] \in Int /\ r[z] \in Int
    BY <1>2
  <2> QED BY <2>2, <2>3
<1>4. r \in Surjection(S, 1..n)
  <2>1. r \in Injection(S, 1..n)
    BY <1>2, <1>3 DEF Injection, IsInjective
  <2> HIDE DEF r
  <2> QED BY <2>1, <1>1, FS_Injection
<1>5. ASSUME NEW i \in 1..n PROVE Smallest(i, S) \in S /\ Rank(Smallest(i, S), S) = i
  <2>1. \E x \in S : r[x] = i
    BY <1>4 DEF Surjection
  <2>2. \E x \in S : Cardinality({y \in S : y <= x}) = i
    BY <2>1 DEF Rank
  <2> QED BY <2>2 DEF Smallest, Rank
<1>6. ASSUME NEW x \in S PROVE Smallest(Rank(x, S), S) = x
  <2>1. Rank(x, S) \in 1..n
    BY RankType
  <2>2. r[Smallest(Rank(x, S), S)] = r[x] /\ Smallest(Rank(x, S), S) \in S
    BY <2>1, <1>5
  <2> QED BY <2>2, <1>3
<1> QED BY <1>5, <1>6

(* And it numbers them in ascending order.                                 *)
LEMMA SmallestGrows ==
  ASSUME NEW S \in SUBSET Int, IsFiniteSet(S), NEW i \in 1..Cardinality(S), NEW j \in 1..Cardinality(S)
  PROVE  i < j <=> Smallest(i, S) < Smallest(j, S)
<1> DEFINE x == Smallest(i, S)
           z == Smallest(j, S)
<1>1. x \in S /\ z \in S /\ Rank(x, S) = i /\ Rank(z, S) = j
  BY SmallestIs
<1>2. x \in Int /\ z \in Int /\ i \in Int /\ j \in Int
  <2>1. Cardinality(S) \in Nat
    BY FS_CardinalityType
  <2> HIDE DEF x, z
  <2> QED BY <1>1, <2>1
<1>3. (x < z => i < j) /\ (z < x => j < i)
  <2> HIDE DEF x, z
  <2> QED BY <1>1, RankIsInjective
<1>4. x = z => i = j
  BY <1>1
<1> HIDE DEF x, z
<1>5. i < j <=> x < z
  BY <1>2, <1>3, <1>4
<1> QED BY <1>5 DEF x, z

(* An upper bound that is a member is the maximum.                         *)
LEMMA MaxIs ==
  ASSUME NEW S \in SUBSET Int, NEW m \in S, \A x \in S : x <= m
  PROVE  Max(S) = m
<1>1. \E x \in S : \A y \in S : x >= y
  OBVIOUS
<1>2. Max(S) \in S /\ \A y \in S : Max(S) >= y
  BY <1>1 DEF Max
<1>3. Max(S) \in Int /\ m \in Int
  BY <1>2
<1>4. Max(S) <= m /\ m <= Max(S)
  BY <1>2, <1>3
<1> QED BY <1>3, <1>4

(* A finite set of integers has a maximum.                                 *)
LEMMA FiniteMax ==
  ASSUME NEW S \in SUBSET Int, IsFiniteSet(S), S # {}
  PROVE  Max(S) \in S /\ \A x \in S : x <= Max(S)
<1> DEFINE n == Cardinality(S)
           m == Smallest(n, S)
<1>1. n \in Nat /\ n # 0
  BY FS_CardinalityType, FS_EmptySet
<1>2. m \in S /\ Rank(m, S) = n
  BY <1>1, SmallestIs
<1>3. ASSUME NEW x \in S, m < x PROVE FALSE
  <2>1. n < Rank(x, S) /\ Rank(x, S) \in 1..n
    <3> HIDE DEF m
    <3> QED BY <1>2, <1>3, RankIsInjective, RankType
  <2> QED BY <2>1, <1>1
<1>4. \A x \in S : x <= m
  <2> HIDE DEF m
  <2> QED BY <1>2, <1>3
<1> HIDE DEF m
<1> QED BY <1>2, <1>4, MaxIs

(* And a minimum.                                                          *)
LEMMA MinIs ==
  ASSUME NEW S \in SUBSET Int, IsFiniteSet(S), S # {}
  PROVE  Min(S) \in S /\ \A x \in S : Min(S) <= x
BY FiniteMin DEF Min

-----------------------------------------------------------------------------
(* The pots the tracker constructs.                                        *)

(* The pots of a hand, one for each level of commitment.                   *)
PotCount(h) == Cardinality(Levels(h))

(* The commitment that makes a player a contributor of pot i.              *)
Level(h, i) == IF i = 0 THEN 0 ELSE Smallest(i, Levels(h))

(* What each contributor puts into the pots.                               *)
Eaches(h) == [i \in 1..PotCount(h) |-> Pots(h)[i].each]

(* The levels are the commitments other than zero, finitely many.          *)
LEMMA LevelsAre ==
  ASSUME NEW h, h.committed \in [Players -> Nat]
  PROVE  /\ Levels(h) \in SUBSET Int /\ IsFiniteSet(Levels(h))
         /\ \A l \in Levels(h) : l \in Nat /\ l > 0 /\ \E p \in Players : h.committed[p] = l
         /\ \A p \in Players : h.committed[p] > 0 => h.committed[p] \in Levels(h)
<1> DEFINE c == h.committed
           R == {c[p] : p \in Players}
<1>1. IsFiniteSet(R)
  <2>1. c \in Surjection(Players, R)
    <3>1. c \in [Players -> R]
      OBVIOUS
    <3> QED BY <3>1 DEF Surjection
  <2> HIDE DEF c, R
  <2> QED BY <2>1, BountyAssumption, FS_Surjection
<1>2. Levels(h) = R \ {0}
  BY DEF Levels
<1>3. IsFiniteSet(Levels(h))
  <2> HIDE DEF R
  <2> QED BY <1>1, <1>2, FS_Difference
<1>4. \A l \in R : l \in Nat /\ \E p \in Players : h.committed[p] = l
  OBVIOUS
<1>5. \A p \in Players : h.committed[p] \in R
  OBVIOUS
<1> HIDE DEF R
<1> QED BY <1>2, <1>3, <1>4, <1>5

(* The levels ascend from the empty level 0, and every commitment is one.  *)
LEMMA LevelIs ==
  ASSUME NEW h, h.committed \in [Players -> Nat]
  PROVE  /\ PotCount(h) \in Nat
         /\ \A i \in 0..PotCount(h) : Level(h, i) \in Nat
         /\ \A i \in 1..PotCount(h) : Level(h, i) \in Levels(h) /\ Level(h, i - 1) < Level(h, i)
         /\ \A i, j \in 1..PotCount(h) : i < j <=> Level(h, i) < Level(h, j)
         /\ \A l \in Levels(h) : \E i \in 1..PotCount(h) : Level(h, i) = l
<1> DEFINE L == Levels(h)
           n == Cardinality(L)
<1>1. L \in SUBSET Int /\ IsFiniteSet(L) /\ \A l \in L : l \in Nat /\ l > 0
  BY LevelsAre
<1> HIDE DEF L
<1>2. n \in Nat
  BY <1>1, FS_CardinalityType
<1>3. \A i \in 1..n : Smallest(i, L) \in L
  BY <1>1, SmallestIs
<1>4. \A i, j \in 1..n : i < j <=> Smallest(i, L) < Smallest(j, L)
  BY <1>1, SmallestGrows
<1>5. \A l \in L : Rank(l, L) \in 1..n /\ Smallest(Rank(l, L), L) = l
  BY <1>1, SmallestIs, RankType
<1>6. \A i \in 1..n : Level(h, i) = Smallest(i, L)
  BY <1>2 DEF Level, L
<1>7. Level(h, 0) = 0
  BY DEF Level
<1>8. ASSUME NEW i \in 1..n PROVE Level(h, i) \in L /\ Level(h, i - 1) < Level(h, i)
  <2>1. CASE i = 1
    BY <2>1, <1>1, <1>3, <1>6, <1>7
  <2>2. CASE i # 1
    <3>1. i - 1 \in 1..n /\ i - 1 < i
      BY <2>2, <1>2
    <3> QED BY <3>1, <1>3, <1>4, <1>6
  <2> QED BY <2>1, <2>2
<1>9. ASSUME NEW i \in 0..n PROVE Level(h, i) \in Nat
  <2>1. CASE i = 0
    BY <2>1, <1>7
  <2>2. CASE i # 0
    <3>1. i \in 1..n
      BY <2>2, <1>2
    <3> QED BY <3>1, <1>1, <1>8
  <2> QED BY <2>1, <2>2
<1>10. PotCount(h) = n
  BY DEF PotCount, L
<1> HIDE DEF n
<1>11. \A l \in L : \E i \in 1..n : Level(h, i) = l
  BY <1>5, <1>6
<1> QED BY <1>2, <1>4, <1>6, <1>8, <1>9, <1>10, <1>11 DEF L

(* The level below, which construct_pots subtracts, is that of the pot before. *)
LEMMA PreviousLevel ==
  ASSUME NEW h, h.committed \in [Players -> Nat], NEW i \in 1..PotCount(h)
  PROVE  Max({0} \cup {l \in Levels(h) : l < Level(h, i)}) = Level(h, i - 1)
<1> DEFINE S == {0} \cup {l \in Levels(h) : l < Level(h, i)}
           m == Level(h, i - 1)
<1>1. S \in SUBSET Int
  BY LevelsAre
<1>2. PotCount(h) \in Nat /\ m \in Nat
  BY LevelIs
<1>3. m \in S
  <2>1. CASE i = 1
    BY <2>1 DEF Level
  <2>2. CASE i # 1
    <3>1. i - 1 \in 1..PotCount(h)
      BY <2>2, <1>2
    <3> QED BY <3>1, LevelIs
  <2> QED BY <2>1, <2>2
<1>4. ASSUME NEW x \in S PROVE x <= m
  <2>1. CASE x = 0
    BY <2>1, <1>2
  <2>2. CASE x \in Levels(h) /\ x < Level(h, i)
    <3>1. PICK j \in 1..PotCount(h) : Level(h, j) = x
      BY <2>2, LevelIs
    <3>2. j < i
      BY <2>2, <3>1, LevelIs
    <3>3. CASE j = i - 1
      BY <3>1, <3>3, <1>2
    <3>4. CASE j < i - 1
      <4>1. i - 1 \in 1..PotCount(h)
        BY <3>4, <1>2
      <4>2. Level(h, j) < m
        BY <4>1, <3>4, LevelIs
      <4>3. Level(h, j) \in Int
        BY <3>1, <2>2, LevelsAre
      <4> QED BY <3>1, <4>2, <4>3, <1>2
    <3> QED BY <3>2, <3>3, <3>4, <1>2
  <2> QED BY <2>1, <2>2
<1> HIDE DEF S, m
<1>5. Max(S) = m
  BY <1>1, <1>3, <1>4, MaxIs
<1> QED BY <1>5 DEF S, m

(* A pot holds the same amount from everybody who reached its level, and   *)
(* all of them but the folded may win it.                                  *)
LEMMA PotIs ==
  ASSUME NEW h, h.committed \in [Players -> Nat]
  PROVE  /\ DOMAIN Pots(h) = 1..PotCount(h)
         /\ \A i \in 1..PotCount(h) :
              LET pot == Pots(h)[i]
              IN /\ pot.contributors = {p \in Players : h.committed[p] >= Level(h, i)}
                 /\ pot.each = Level(h, i) - Level(h, i - 1)
                 /\ pot.each \in Nat
                 /\ pot.amount = pot.each * Cardinality(pot.contributors)
                 /\ pot.eligible = pot.contributors \ h.folded
<1>1. DOMAIN Pots(h) = 1..PotCount(h)
  BY DEF Pots, PotCount
<1>2. ASSUME NEW i \in 1..PotCount(h) PROVE
         LET pot == Pots(h)[i]
         IN /\ pot.contributors = {p \in Players : h.committed[p] >= Level(h, i)}
            /\ pot.each = Level(h, i) - Level(h, i - 1)
            /\ pot.each \in Nat
            /\ pot.amount = pot.each * Cardinality(pot.contributors)
            /\ pot.eligible = pot.contributors \ h.folded
  <2>1. i # 0 /\ i \in 0..PotCount(h) /\ i - 1 \in 0..PotCount(h)
    BY LevelIs
  <2>2. Pots(h)[i] = PotUpTo(h, Level(h, i))
    BY <2>1 DEF Pots, PotCount, Level
  <2>3. Level(h, i) - Level(h, i - 1) \in Nat
    BY <2>1, LevelIs
  <2>4. Max({0} \cup {l \in Levels(h) : l < Level(h, i)}) = Level(h, i - 1)
    BY PreviousLevel
  <2> QED BY <2>2, <2>3, <2>4 DEF PotUpTo
<1> QED BY <1>1, <1>2

(* A player who reached pot i has put the level of pot i into the pots up  *)
(* to it.                                                                  *)
LEMMA EachesAddUp ==
  ASSUME NEW h, h.committed \in [Players -> Nat], NEW i \in 0..PotCount(h)
  PROVE  TotalOver(Eaches(h), 1..i) = Level(h, i)
<1> DEFINE n == PotCount(h)
           e == Eaches(h)
           G == {k \in Nat : k <= n => TotalOver(e, 1..k) = Level(h, k)}
<1>1. n \in Nat
  BY LevelIs
<1>2. \A j \in 1..n : e[j] = Level(h, j) - Level(h, j - 1) /\ e[j] \in Int
  BY PotIs DEF Eaches
<1> HIDE DEF e, n
<1>3. 0 \in G
  <2>1. 1..0 = {}
    OBVIOUS
  <2>2. TotalOver(e, {}) = 0
    BY FS_EmptySet, TotalOverStep
  <2> QED BY <2>1, <2>2 DEF Level
<1>4. ASSUME NEW k \in G PROVE k + 1 \in G
  <2> SUFFICES ASSUME k + 1 <= n PROVE TotalOver(e, 1..(k + 1)) = Level(h, k + 1)
    OBVIOUS
  <2>0. k \in Nat
    OBVIOUS
  <2>1. 1..(k + 1) = (1..k) \cup {k + 1} /\ k + 1 \notin 1..k /\ IsFiniteSet(1..k)
    <3>1. IsFiniteSet(1..k)
      BY <2>0, FS_Interval
    <3>2. 1..(k + 1) = (1..k) \cup {k + 1}
      BY <2>0
    <3> QED BY <2>0, <3>1, <3>2
  <2>2. k + 1 \in 1..n /\ (k + 1) - 1 = k /\ \A y \in 1..k : y \in 1..n
    BY <1>1
  <2>3. TotalOver(e, (1..k) \cup {k + 1}) = e[k + 1] + TotalOver(e, 1..k)
    BY <2>1, <2>2, <1>2, TotalOverAdd
  <2>4. TotalOver(e, 1..k) = Level(h, k)
    BY <1>1
  <2>5. Level(h, k) \in Nat /\ Level(h, k + 1) \in Nat
    BY <1>1, LevelIs DEF n
  <2>6. e[k + 1] = Level(h, k + 1) - Level(h, k)
    BY <2>2, <1>2
  <2>7. e[k + 1] + TotalOver(e, 1..k) = Level(h, k + 1)
    BY <2>4, <2>5, <2>6
  <2>8. TotalOver(e, 1..(k + 1)) = TotalOver(e, (1..k) \cup {k + 1})
    BY <2>1, Zenon
  <2> QED BY <2>3, <2>7, <2>8, Zenon
<1>5. G = Nat
  <2>1. G \in SUBSET Nat
    OBVIOUS
  <2> HIDE DEF G
  <2> QED BY <1>3, <1>4, <2>1, NaturalInduction
<1>6. i \in Nat /\ i <= n
  BY <1>1 DEF n
<1> QED BY <1>5, <1>6 DEF e

-----------------------------------------------------------------------------
(* The pots the room pays are the pots the tracker constructs.             *)

(* Somebody committed the most.                                            *)
LEMMA MostCommitted ==
  ASSUME NEW t, t.committed \in [Players -> Nat], Players # {}
  PROVE  LET most == Max({t.committed[p] : p \in Players})
         IN /\ most \in Nat /\ \A p \in Players : t.committed[p] <= most
            /\ \E p \in Players : t.committed[p] = most
<1> DEFINE c == t.committed
           R == {c[p] : p \in Players}
<1>1. IsFiniteSet(R)
  <2>1. c \in Surjection(Players, R)
    <3>1. c \in [Players -> R]
      OBVIOUS
    <3> QED BY <3>1 DEF Surjection
  <2> HIDE DEF c, R
  <2> QED BY <2>1, BountyAssumption, FS_Surjection
<1>2. R \in SUBSET Int /\ R # {} /\ \A x \in R : x \in Nat
  OBVIOUS
<1>3. Max(R) \in R /\ \A x \in R : x <= Max(R)
  <2> HIDE DEF R
  <2> QED BY <1>1, <1>2, FiniteMax
<1>4. \A p \in Players : t.committed[p] \in R
  OBVIOUS
<1>5. Max(R) \in Nat /\ \A p \in Players : t.committed[p] <= Max(R)
  <2> HIDE DEF R
  <2> QED BY <1>2, <1>3, <1>4
<1>6. \A x \in R : \E p \in Players : t.committed[p] = x
  OBVIOUS
<1> QED BY <1>3, <1>5, <1>6

(* The k-th chip of a player lies in the pot whose level it does not       *)
(* exceed.                                                                 *)
LEMMA PotOfChip ==
  ASSUME NEW t, t.committed \in [Players -> Nat], NEW i \in 1..PotCount(t), NEW k \in Nat \ {0}
  PROVE  AtLeast(t, k) = AtLeast(t, Level(t, i)) <=> Level(t, i - 1) < k /\ k <= Level(t, i)
<1> DEFINE l == Level(t, i)
           b == Level(t, i - 1)
<1>1. l \in Nat /\ b \in Nat /\ b < l /\ l \in Levels(t) /\ PotCount(t) \in Nat
  <2>1. PotCount(t) \in Nat
    BY LevelIs
  <2>2. i \in 0..PotCount(t) /\ i - 1 \in 0..PotCount(t)
    BY <2>1
  <2> QED BY <2>1, <2>2, LevelIs
<1>2. PICK p \in Players : t.committed[p] = l
  BY <1>1, LevelsAre
<1>3. ASSUME AtLeast(t, k) = AtLeast(t, l) PROVE k <= l
  <2>1. p \in AtLeast(t, l)
    BY <1>1, <1>2 DEF AtLeast
  <2>2. p \in AtLeast(t, k)
    BY <2>1, <1>3
  <2> QED BY <2>2, <1>2 DEF AtLeast
<1>4. ASSUME AtLeast(t, k) = AtLeast(t, l), k <= b PROVE FALSE
  <2>1. CASE i = 1
    <3>1. b = 0
      BY <2>1 DEF Level
    <3> QED BY <3>1, <1>4
  <2>2. CASE i # 1
    <3>1. i - 1 \in 1..PotCount(t)
      BY <2>2, <1>1
    <3>2. PICK q \in Players : t.committed[q] = b
      BY <3>1, LevelIs, LevelsAre
    <3>3. q \in AtLeast(t, k)
      BY <3>2, <1>1, <1>4 DEF AtLeast
    <3>4. q \in AtLeast(t, l)
      BY <3>3, <1>4
    <3> QED BY <3>2, <3>4, <1>1 DEF AtLeast
  <2> QED BY <2>1, <2>2
<1>5. ASSUME b < k, k <= l PROVE AtLeast(t, k) = AtLeast(t, l)
  <2>1. \A q \in AtLeast(t, l) : q \in AtLeast(t, k)
    BY <1>1, <1>5 DEF AtLeast
  <2>2. ASSUME NEW q \in AtLeast(t, k) PROVE q \in AtLeast(t, l)
    <3>1. q \in Players /\ t.committed[q] >= k /\ t.committed[q] \in Nat
      BY DEF AtLeast
    <3>2. t.committed[q] \in Levels(t)
      BY <3>1, <1>1, <1>5, LevelsAre
    <3>3. PICK j \in 1..PotCount(t) : Level(t, j) = t.committed[q]
      BY <3>2, LevelIs
    <3>4. ~(j < i)
      <4>1. SUFFICES ASSUME j < i PROVE FALSE
        OBVIOUS
      <4>2. i - 1 \in 1..PotCount(t) /\ ~(i - 1 < j)
        BY <4>1, <1>1
      <4>3. ~(b < Level(t, j))
        BY <4>2, LevelIs
      <4> QED BY <4>3, <3>1, <3>3, <1>1, <1>5
    <3>5. ~(Level(t, j) < l)
      BY <3>4, LevelIs
    <3> QED BY <3>1, <3>3, <3>5, <1>1 DEF AtLeast
  <2> QED BY <2>1, <2>2
<1> HIDE DEF l, b
<1>6. AtLeast(t, k) = AtLeast(t, l) <=> b < k /\ k <= l
  BY <1>1, <1>3, <1>4, <1>5
<1> QED BY <1>6 DEF l, b

(* The pots the core constructs from the commitments are the pots the room *)
(* makes chip by chip: one for each set of players who matched a chip,     *)
(* with the same amount.                                                   *)
LEMMA PotsAreRoomPots ==
  ASSUME NEW t, t.committed \in [Players -> Nat], Players # {}
  PROVE  /\ [i \in 1..PotCount(t) |-> Pots(t)[i].contributors] \in Bijection(1..PotCount(t), RoomPots(t))
         /\ \A i \in 1..PotCount(t) :
              /\ Pots(t)[i].contributors = AtLeast(t, Level(t, i))
              /\ Pots(t)[i].contributors \in RoomPots(t)
              /\ Pots(t)[i].amount = RoomAmount(t, Pots(t)[i].contributors)
<1> DEFINE n == PotCount(t)
           c == [i \in 1..n |-> Pots(t)[i].contributors]
<1>0. n \in Nat
  BY LevelIs
<1>1. PICK most \in Nat : /\ most = Max({t.committed[p] : p \in Players})
                          /\ \A p \in Players : t.committed[p] <= most
                          /\ \E p \in Players : t.committed[p] = most
  BY MostCommitted
<1>2. Chips(t) = 1..most
  BY <1>1 DEF Chips
<1>3. ASSUME NEW i \in 1..n PROVE c[i] = AtLeast(t, Level(t, i))
  BY PotIs DEF AtLeast
<1>4. ASSUME NEW i \in 1..n PROVE Level(t, i) \in 1..most /\ Level(t, i - 1) \in Nat
  <2>1. Level(t, i) \in Levels(t) /\ i - 1 \in 0..n
    BY <1>0, LevelIs
  <2>2. Level(t, i) \in Nat /\ Level(t, i) > 0 /\ \E p \in Players : t.committed[p] = Level(t, i)
    BY <2>1, LevelsAre
  <2> QED BY <2>1, <2>2, <1>1, LevelIs
<1>5. ASSUME NEW i \in 1..n PROVE c[i] \in RoomPots(t)
  BY <1>2, <1>3, <1>4 DEF RoomPots
<1>6. ASSUME NEW i \in 1..n PROVE Pots(t)[i].amount = RoomAmount(t, c[i])
  <2> DEFINE K == {k \in Chips(t) : AtLeast(t, k) = c[i]}
             b == Level(t, i - 1)
             l == Level(t, i)
  <2>1. b \in Nat /\ l \in Nat /\ b < l /\ l <= most
    BY <1>4, LevelIs
  <2>2. \A k \in 1..most : AtLeast(t, k) = c[i] <=> b < k /\ k <= l
    <3> SUFFICES ASSUME NEW k \in 1..most PROVE AtLeast(t, k) = c[i] <=> b < k /\ k <= l
      OBVIOUS
    <3>1. k \in Nat \ {0}
      OBVIOUS
    <3> QED BY <3>1, <1>3, PotOfChip
  <2> HIDE DEF b, l, c
  <2>3. K = (b + 1)..l
    BY <1>2, <2>1, <2>2
  <2>4. Cardinality(K) = l - b
    <3>1. b + 1 \in Int /\ l \in Int /\ ~(b + 1 > l) /\ l - (b + 1) + 1 = l - b
      BY <2>1
    <3>2. Cardinality((b + 1)..l) = l - (b + 1) + 1
      BY <3>1, FS_Interval
    <3> QED BY <2>3, <3>1, <3>2
  <2>5. Pots(t)[i].amount = (l - b) * Cardinality(c[i])
    BY PotIs DEF c, l, b
  <2>6. Cardinality(c[i]) \in Nat
    <3>1. c[i] \in SUBSET Players
      BY <1>3 DEF AtLeast
    <3> QED BY <3>1, BountyAssumption, FS_Subset, FS_CardinalityType
  <2>7. (l - b) * Cardinality(c[i]) = Cardinality(c[i]) * (l - b)
    BY <2>1, <2>6
  <2> QED BY <2>4, <2>5, <2>7 DEF RoomAmount
<1>7. \A i, j \in 1..n : c[i] = c[j] => i = j
  <2> SUFFICES ASSUME NEW i \in 1..n, NEW j \in 1..n, i < j PROVE c[i] # c[j]
    <3>1. \A i, j \in 1..n : i = j \/ i < j \/ j < i
      BY <1>0
    <3> HIDE DEF c
    <3> QED BY <3>1
  <2>1. Level(t, i) < Level(t, j)
    BY LevelIs
  <2>2. PICK p \in Players : t.committed[p] = Level(t, i)
    BY LevelIs, LevelsAre
  <2>3. Level(t, i) \in Int /\ Level(t, j) \in Int
    BY <1>4
  <2>4. p \in AtLeast(t, Level(t, i)) /\ p \notin AtLeast(t, Level(t, j))
    BY <2>1, <2>2, <2>3 DEF AtLeast
  <2> QED BY <2>4, <1>3
<1>8. ASSUME NEW r \in RoomPots(t) PROVE \E i \in 1..n : c[i] = r
  <2>1. PICK k \in 1..most : r = AtLeast(t, k)
    BY <1>2 DEF RoomPots
  <2> DEFINE L == {l \in Levels(t) : k <= l}
  <2>2. IsFiniteSet(L) /\ L \in SUBSET Int
    BY LevelsAre, FS_Subset
  <2>3. L # {}
    <3>1. PICK p \in Players : t.committed[p] = most
      BY <1>1
    <3>2. t.committed[p] > 0
      BY <3>1, <2>1
    <3> QED BY <3>1, <3>2, LevelsAre
  <2>4. PICK l \in L : \A x \in L : l <= x
    <3> HIDE DEF L
    <3> QED BY <2>2, <2>3, FiniteMin
  <2>5. PICK i \in 1..n : Level(t, i) = l
    BY <2>4, LevelIs
  <2>6. ~(k <= Level(t, i - 1))
    <3>1. CASE i = 1
      BY <3>1, <2>1 DEF Level
    <3>2. CASE i # 1
      <4>1. i - 1 \in 1..n
        BY <3>2, <1>0
      <4>2. Level(t, i - 1) \in Levels(t) /\ Level(t, i - 1) < Level(t, i)
        BY <4>1, LevelIs
      <4>3. Level(t, i - 1) \in Int /\ l \in Int
        BY <4>2, <2>4, LevelsAre
      <4> QED BY <4>2, <4>3, <2>4, <2>5
    <3> QED BY <3>1, <3>2
  <2>7. Level(t, i - 1) < k /\ k <= Level(t, i)
    BY <1>4, <2>1, <2>4, <2>5, <2>6
  <2>8. k \in Nat \ {0}
    BY <2>1
  <2>9. AtLeast(t, k) = AtLeast(t, Level(t, i))
    BY <2>7, <2>8, PotOfChip
  <2> QED BY <2>1, <2>9, <1>3
<1>9. c \in Bijection(1..n, RoomPots(t))
  <2>1. c \in [1..n -> RoomPots(t)]
    BY <1>5
  <2> HIDE DEF c
  <2> QED BY <2>1, <1>7, <1>8 DEF Bijection, Injection, Surjection, IsInjective
<1> QED BY <1>3, <1>5, <1>6, <1>9

-----------------------------------------------------------------------------
(* What the room pays.                                                     *)

(* A hand the room could have dealt and paid: nobody commits more than he  *)
(* has, somebody does commit, nobody is left with more in the middle than  *)
(* all who can still win, and every pot is paid out by the rules.          *)
Legal(t) ==
  /\ t.start \in [Players -> Nat] /\ t.committed \in [Players -> Nat]
  /\ t.strength \in [Players -> Nat] /\ t.hero \in Players
  /\ \A p \in Players : t.committed[p] <= t.start[p]
  /\ \E p \in Players : t.committed[p] > 0
  /\ \A p \in Players : t.committed[p] > 0 =>
       \E q \in Players \ (t.folded \cup t.away) : t.committed[q] >= t.committed[p]
  /\ t.paid \in Payments(t)

(* Of finitely many, somebody has the best hand.                           *)
LEMMA SomebodyIsBest ==
  ASSUME NEW S, IsFiniteSet(S), S # {}, NEW f, \A x \in S : f[x] \in Int
  PROVE  \E m \in S : \A x \in S : f[x] <= f[m]
<1> DEFINE G == {T \in SUBSET S : T # {} => \E m \in T : \A x \in T : f[x] <= f[m]}
<1>1. ASSUME NEW T \in SUBSET S, NEW x \in S \ T, T \in G PROVE T \cup {x} \in G
  <2>1. CASE T = {}
    <3>1. f[x] <= f[x]
      OBVIOUS
    <3> QED BY <2>1, <3>1
  <2>2. CASE T # {}
    <3>1. PICK m \in T : \A y \in T : f[y] <= f[m]
      BY <2>2, <1>1
    <3>2. CASE f[x] <= f[m]
      <4>1. \A y \in T \cup {x} : f[y] <= f[m]
        BY <3>1, <3>2
      <4> QED BY <4>1
    <3>3. CASE f[m] <= f[x]
      <4>1. \A y \in T \cup {x} : f[y] <= f[x]
        BY <3>1, <3>3
      <4> QED BY <4>1
    <3> QED BY <3>2, <3>3
  <2> QED BY <2>1, <2>2
<1>2. S \in G
  <2>1. {} \in G
    OBVIOUS
  <2>2. G \in SUBSET (SUBSET S)
    OBVIOUS
  <2> HIDE DEF G
  <2> QED BY <1>1, <2>1, <2>2, FiniteInduction
<1> QED BY <1>2

(* Every pot of the room has winners, among its contributors, and at least *)
(* a chip for each.                                                        *)
LEMMA WinnersAre ==
  ASSUME NEW t, Legal(t), NEW c \in RoomPots(t)
  PROVE  /\ Winners(t, c) \subseteq c \cap InHand(t) /\ c \subseteq Players
         /\ Winners(t, c) # {} /\ IsFiniteSet(c) /\ IsFiniteSet(Winners(t, c))
         /\ Cardinality(Winners(t, c)) \in Nat \ {0}
         /\ RoomAmount(t, c) \in Nat /\ RoomAmount(t, c) >= Cardinality(Winners(t, c))
<1> DEFINE W == Winners(t, c)
           S == c \cap InHand(t)
<1>1. PICK most \in Nat : /\ most = Max({t.committed[p] : p \in Players})
                          /\ \E p \in Players : t.committed[p] = most
  BY MostCommitted DEF Legal
<1>2. Chips(t) = 1..most
  BY <1>1 DEF Chips
<1>3. PICK k \in 1..most : c = AtLeast(t, k)
  BY <1>2 DEF RoomPots
<1>4. c \subseteq Players /\ IsFiniteSet(c) /\ IsFiniteSet(S)
  <2>1. c \subseteq Players
    BY <1>3 DEF AtLeast
  <2> QED BY <2>1, BountyAssumption, FS_Subset
<1>5. S # {}
  <2>1. PICK p \in Players : t.committed[p] = most
    BY <1>1
  <2>2. PICK q \in Players \ (t.folded \cup t.away) : t.committed[q] >= t.committed[p]
    BY <2>1, <1>3 DEF Legal
  <2>3. t.committed[q] >= k /\ t.committed[q] > 0
    BY <2>1, <2>2 DEF Legal
  <2> QED BY <2>2, <2>3, <1>3 DEF AtLeast, InHand
<1>6. PICK m \in S : \A q \in S : t.strength[q] <= t.strength[m]
  <2>1. \A q \in S : t.strength[q] \in Int
    BY <1>4 DEF Legal
  <2> HIDE DEF S
  <2> QED BY <2>1, <1>4, <1>5, SomebodyIsBest
<1>7. W \subseteq S /\ m \in W
  BY <1>6 DEF Winners
<1>8. IsFiniteSet(W) /\ Cardinality(W) \in Nat /\ Cardinality(W) # 0
  <2>1. IsFiniteSet(W)
    BY <1>4, <1>7, FS_Subset
  <2> HIDE DEF W
  <2> QED BY <2>1, <1>7, FS_CardinalityType, FS_EmptySet
<1>9. RoomAmount(t, c) \in Nat /\ RoomAmount(t, c) >= Cardinality(W)
  <2> DEFINE K == {j \in Chips(t) : AtLeast(t, j) = c}
  <2>1. IsFiniteSet(K) /\ k \in K
    <3>1. IsFiniteSet(1..most) /\ K \subseteq 1..most
      BY <1>2, FS_Interval
    <3> QED BY <3>1, <1>2, <1>3, FS_Subset
  <2>2. Cardinality(K) \in Nat /\ Cardinality(K) # 0
    <3> HIDE DEF K
    <3> QED BY <2>1, FS_CardinalityType, FS_EmptySet
  <2>3. Cardinality(c) \in Nat /\ Cardinality(W) <= Cardinality(c)
    BY <1>4, <1>7, FS_CardinalityType, FS_Subset
  <2>4. RoomAmount(t, c) = Cardinality(c) * Cardinality(K)
    BY DEF RoomAmount
  <2> HIDE DEF K, W
  <2>5. \A a, b \in Nat : b # 0 => a * b \in Nat /\ a * b >= a
    OBVIOUS
  <2> QED BY <2>2, <2>3, <2>4, <2>5, <1>8
<1> QED BY <1>4, <1>7, <1>8, <1>9

(* Split evenly, with the odd chips to some of the winners, a pot is paid  *)
(* out entirely.                                                           *)
LEMMA EvenSplit ==
  ASSUME NEW W, IsFiniteSet(W), W # {}, NEW a \in Nat, a >= Cardinality(W),
         NEW lucky \in kSubset(a % Cardinality(W), W)
  PROVE  LET share == [p \in W |-> (a \div Cardinality(W)) + IF p \in lucky THEN 1 ELSE 0]
         IN TotalOver(share, W) = a /\ \A p \in W : share[p] \in Nat /\ share[p] > 0
<1> DEFINE n == Cardinality(W)
           even == [p \in W |-> a \div n]
           odd == [p \in W |-> IF p \in lucky THEN 1 ELSE 0]
           share == [p \in W |-> (a \div n) + IF p \in lucky THEN 1 ELSE 0]
<1>1. n \in Nat /\ n # 0
  BY FS_CardinalityType, FS_EmptySet
<1>2. lucky \in SUBSET W /\ Cardinality(lucky) = a % n /\ IsFiniteSet(lucky)
  BY FS_Subset DEF kSubset
<1>3. a \div n \in Nat /\ a \div n > 0 /\ a % n \in Nat /\ a = (a \div n) * n + (a % n)
  <2> HIDE DEF n
  <2>1. \A x \in Nat, y \in Nat \ {0} : x \div y \in Nat /\ x % y \in Nat /\ x % y < y /\ x = y * (x \div y) + (x % y)
    OBVIOUS
  <2>2. a \div n \in Nat /\ a % n \in Nat /\ a % n < n /\ a = n * (a \div n) + (a % n)
    BY <1>1, <2>1
  <2>3. a \div n > 0
    <3>1. CASE a \div n = 0
      <4>1. a = n * 0 + (a % n)
        BY <2>2, <3>1
      <4>2. n * 0 = 0
        BY <1>1
      <4> QED BY <4>1, <4>2, <2>2, <1>1 DEF n
    <3> QED BY <3>1, <2>2
  <2>4. n * (a \div n) = (a \div n) * n
    BY <1>1, <2>2
  <2> QED BY <2>2, <2>3, <2>4
<1>4. TotalOver(even, W) = (a \div n) * n
  <2>1. \A p \in W : even[p] = a \div n
    OBVIOUS
  <2> HIDE DEF even
  <2> QED BY <2>1, <1>3, TotalOfConstant DEF n
<1>5. TotalOver(odd, W) = a % n
  <2>1. \A p \in W : odd[p] \in Int /\ (p \in lucky => odd[p] = 1) /\ (p \notin lucky => odd[p] = 0)
    OBVIOUS
  <2> HIDE DEF odd
  <2>2. TotalOver(odd, W) = TotalOver(odd, lucky)
    BY <2>1, <1>2, TotalOfZeros
  <2>3. TotalOver(odd, lucky) = 1 * Cardinality(lucky)
    BY <2>1, <1>2, TotalOfConstant
  <2> QED BY <2>2, <2>3, <1>2, <1>3
<1>6. TotalOver(share, W) = TotalOver(even, W) + TotalOver(odd, W)
  <2>1. \A p \in W : even[p] \in Int /\ odd[p] \in Int /\ share[p] = even[p] + odd[p]
    BY <1>3
  <2> HIDE DEF even, odd, share
  <2> QED BY <2>1, TotalOfSums
<1>7. TotalOver(share, W) = a
  <2> HIDE DEF even, odd, share, n
  <2> QED BY <1>3, <1>4, <1>5, <1>6
<1>8. \A p \in W : share[p] \in Nat /\ share[p] > 0
  BY <1>3
<1> QED BY <1>7, <1>8

(* What the room paid out of a pot is one of its splits: something to each *)
(* winner, all of it to the winners.                                       *)
LEMMA SharesAre ==
  ASSUME NEW t, Legal(t), NEW c \in RoomPots(t)
  PROVE  /\ t.paid[c] \in RoomShares(t, c)
         /\ t.paid[c] = [p \in Winners(t, c) |-> t.paid[c][p]] /\ DOMAIN t.paid[c] = Winners(t, c)
         /\ \A p \in Winners(t, c) : t.paid[c][p] \in Nat /\ t.paid[c][p] > 0
         /\ TotalOver(t.paid[c], Winners(t, c)) = RoomAmount(t, c)
<1> DEFINE W == Winners(t, c)
           a == RoomAmount(t, c)
<1>1. t.paid[c] \in RoomShares(t, c)
  BY DEF Legal, Payments
<1>2. PICK lucky \in kSubset(a % Cardinality(W), W) :
        t.paid[c] = [p \in W |-> (a \div Cardinality(W)) + IF p \in lucky THEN 1 ELSE 0]
  BY <1>1 DEF RoomShares
<1>3. IsFiniteSet(W) /\ W # {} /\ a \in Nat /\ a >= Cardinality(W)
  BY WinnersAre
<1> HIDE DEF W, a
<1>4. TotalOver(t.paid[c], W) = a /\ \A p \in W : t.paid[c][p] \in Nat /\ t.paid[c][p] > 0
  BY <1>2, <1>3, EvenSplit
<1>5. t.paid[c] = [p \in W |-> t.paid[c][p]] /\ DOMAIN t.paid[c] = W
  BY <1>2
<1> QED BY <1>1, <1>4, <1>5 DEF W, a

(* The room makes finitely many pots.                                      *)
LEMMA RoomPotsFinite ==
  ASSUME NEW t, Legal(t)
  PROVE  IsFiniteSet(RoomPots(t))
<1> DEFINE c == [i \in 1..PotCount(t) |-> Pots(t)[i].contributors]
<1>1. c \in Bijection(1..PotCount(t), RoomPots(t)) /\ IsFiniteSet(1..PotCount(t))
  <2>1. t.committed \in [Players -> Nat] /\ Players # {}
    BY DEF Legal
  <2>2. PotCount(t) \in Nat
    BY <2>1, LevelIs
  <2>3. IsFiniteSet(1..PotCount(t))
    BY <2>2, FS_Interval
  <2> QED BY <2>1, <2>3, PotsAreRoomPots
<1> HIDE DEF c
<1>2. ExistsBijection(1..PotCount(t), RoomPots(t))
  BY <1>1 DEF ExistsBijection
<1> QED BY <1>1, <1>2, FS_Bijection

(* What a player got, pot by pot.                                          *)
PaidFrom(t, p) == [c \in RoomPots(t) |-> PaidTo(t.paid[c], p)]

(* What a player received is the sum of what he got from each pot.         *)
LEMMA ReceivedIs ==
  ASSUME NEW t, Legal(t)
  PROVE  /\ Received(t) \in [Players -> Nat]
         /\ \A p \in Players : /\ Received(t)[p] = TotalOver(PaidFrom(t, p), RoomPots(t))
                               /\ \A c \in RoomPots(t) : PaidFrom(t, p)[c] \in Nat /\ PaidFrom(t, p)[c] <= Received(t)[p]
         /\ \A c \in RoomPots(t) : \A p \in Winners(t, c) : Received(t)[p] > 0
<1>1. ASSUME NEW p \in Players
      PROVE  /\ Received(t)[p] = TotalOver(PaidFrom(t, p), RoomPots(t))
             /\ Received(t)[p] \in Nat
             /\ \A c \in RoomPots(t) : PaidFrom(t, p)[c] \in Nat /\ PaidFrom(t, p)[c] <= Received(t)[p]
  <2>1. Received(t)[p] = Total(PaidFrom(t, p))
    BY DEF Received, PaidFrom
  <2>2. DOMAIN PaidFrom(t, p) = RoomPots(t)
    BY DEF PaidFrom
  <2>3. Received(t)[p] = TotalOver(PaidFrom(t, p), RoomPots(t))
    BY <2>1, <2>2, TotalIsRec
  <2>4. \A c \in RoomPots(t) : PaidFrom(t, p)[c] \in Nat
    BY SharesAre DEF PaidFrom, PaidTo
  <2> QED BY <2>3, <2>4, RoomPotsFinite, TotalNat
<1>2. ASSUME NEW c \in RoomPots(t), NEW p \in Winners(t, c) PROVE Received(t)[p] > 0
  <2>1. p \in Players
    BY WinnersAre
  <2>2. PaidFrom(t, p)[c] > 0
    BY SharesAre DEF PaidFrom, PaidTo
  <2> QED BY <2>1, <2>2, <1>1
<1>3. Received(t) = [p \in Players |-> Received(t)[p]]
  BY DEF Received
<1> QED BY <1>1, <1>2, <1>3

-----------------------------------------------------------------------------
(* What the history says of it.                                            *)

(* A hand as the parser may have read it: a history of table t, with the   *)
(* cards of some players and one of the reports of the amounts.            *)
History(h, t) ==
  /\ Legal(t)
  /\ \E shown \in SUBSET InHand(t), report \in Reports : h = HistoryOf(t, shown, report)

(* What such a history says is true, but for the hero's amount if it was   *)
(* misread; and then the collect lines contradict it.                      *)
LEMMA HistoryTells ==
  ASSUME NEW t, NEW h, History(h, t)
  PROVE  /\ h.start = t.start /\ h.committed = t.committed /\ h.folded = t.folded
         /\ DOMAIN h.rank \subseteq InHand(t) /\ \A p \in DOMAIN h.rank : h.rank[p] = t.strength[p]
         /\ \A p \in h.lost : p \in Players /\ Received(t)[p] = 0
         /\ h.collected \in {NoAmounts, Received(t)}
         /\ h.won \in {NoAmounts, Received(t), Misread(Received(t), t.hero)}
         /\ h.collected = Received(t) \/ h.won \in {NoAmounts, Received(t)}
         /\ h.won = Misread(Received(t), t.hero) => h.collected = Received(t)
         /\ h.invalid \in BOOLEAN
<1>1. PICK shown \in SUBSET InHand(t), report \in Reports : h = HistoryOf(t, shown, report)
  BY DEF History
<1>2. report.told \in BOOLEAN /\ report.broken \in BOOLEAN
  BY ReportAssumption
<1>3. h.start = t.start /\ h.committed = t.committed /\ h.folded = t.folded /\ h.invalid = report.broken
  BY <1>1 DEF HistoryOf
<1>4. DOMAIN h.rank \subseteq InHand(t) /\ \A p \in DOMAIN h.rank : h.rank[p] = t.strength[p]
  BY <1>1 DEF HistoryOf
<1>5. \A p \in h.lost : p \in Players /\ Received(t)[p] = 0
  <2>1. h.lost \in {Losers(t), {}}
    BY <1>1 DEF HistoryOf
  <2> QED BY <2>1 DEF Losers
<1>6. /\ h.collected = (IF report.amounts \in {"summary", "none"} THEN NoAmounts ELSE Received(t))
      /\ h.won = (IF report.amounts = "misread" THEN Misread(Received(t), t.hero)
                  ELSE IF report.amounts \in {"collects", "none"} THEN NoAmounts ELSE Received(t))
  BY <1>1 DEF HistoryOf
<1>7. Misread(Received(t), t.hero) # Received(t) /\ Misread(Received(t), t.hero) # NoAmounts
  <2>1. Received(t) \in [Players -> Nat] /\ t.hero \in Players
    BY ReceivedIs DEF History, Legal
  <2>2. Misread(Received(t), t.hero)[t.hero] = Received(t)[t.hero] + 1 /\ NoAmounts[t.hero] = 0
    BY <2>1 DEF Misread, NoAmounts
  <2>3. Received(t)[t.hero] \in Nat
    BY <2>1
  <2> QED BY <2>2, <2>3
<1>8. /\ h.collected \in {NoAmounts, Received(t)}
      /\ h.won \in {NoAmounts, Received(t), Misread(Received(t), t.hero)}
      /\ h.collected = Received(t) \/ h.won \in {NoAmounts, Received(t)}
      /\ h.won = Misread(Received(t), t.hero) => h.collected = Received(t)
  BY <1>6, <1>7
<1> QED BY <1>2, <1>3, <1>4, <1>5, <1>8

(* The payouts observed_payouts keeps are those that are not zero.         *)
LEMMA PositiveIs ==
  ASSUME NEW f, f \in [Players -> Nat]
  PROVE  /\ DOMAIN Positive(f) = {p \in Players : f[p] > 0}
         /\ \A p \in Players : PaidTo(Positive(f), p) = f[p]
         /\ \A p \in DOMAIN Positive(f) : Positive(f)[p] = f[p]
         /\ (\E p \in Players : f[p] > 0) => Positive(f) # Nothing
BY DEF Positive, PaidTo, Nothing

(* Without amounts nothing is observed.                                    *)
LEMMA PositiveOfNone == Positive(NoAmounts) = Nothing
<1>1. {q \in DOMAIN NoAmounts : NoAmounts[q] > 0} = {}
  BY DEF NoAmounts
<1> QED BY <1>1 DEF Positive, Nothing

(* There is a pot, and somebody got something.                             *)
LEMMA SomebodyWins ==
  ASSUME NEW t, Legal(t)
  PROVE  /\ PotCount(t) \in Nat \ {0}
         /\ RoomPots(t) # {}
         /\ \E p \in Players : Received(t)[p] > 0
<1>1. t.committed \in [Players -> Nat] /\ Players # {} /\ \E p \in Players : t.committed[p] > 0
  BY DEF Legal
<1>2. PotCount(t) \in Nat /\ \E l \in Levels(t) : TRUE
  BY <1>1, LevelIs, LevelsAre
<1>3. PICK i \in 1..PotCount(t) : TRUE
  BY <1>1, <1>2, LevelIs
<1>4. Pots(t)[i].contributors \in RoomPots(t)
  BY <1>1, PotsAreRoomPots
<1>5. PICK p \in Winners(t, Pots(t)[i].contributors) : TRUE
  BY <1>4, WinnersAre
<1>6. p \in Players /\ Received(t)[p] > 0
  BY <1>4, <1>5, WinnersAre, ReceivedIs
<1> QED BY <1>2, <1>3, <1>4, <1>6

(* The payouts observed in a history are what the players received, unless *)
(* amounts are missing or contradict each other.                           *)
LEMMA ObservedIs ==
  ASSUME NEW t, NEW h, History(h, t)
  PROVE  /\ Positive(Received(t)) # Nothing
         /\ ObservedPayouts(h).kind \in {"missing", "ready", "conflict"}
         /\ ObservedPayouts(h).kind = "ready" => /\ ObservedPayouts(h).totals = Positive(Received(t))
                                                 /\ ObservedPayouts(h).best = Positive(Received(t))
         /\ h.collected # NoAmounts \/ h.won # NoAmounts => ObservedPayouts(h).best = Positive(Received(t))
         /\ h.won = h.collected /\ h.won # NoAmounts => ObservedPayouts(h).kind = "ready"
<1> DEFINE R == Received(t)
           P == Positive(R)
           M == Misread(R, t.hero)
<1>1. R \in [Players -> Nat] /\ t.hero \in Players /\ \E p \in Players : R[p] > 0
  BY ReceivedIs, SomebodyWins DEF History, Legal
<1>2. P # Nothing
  BY <1>1, PositiveIs
<1>3. Positive(M) # P /\ Positive(M) # Nothing
  <2> HIDE DEF R
  <2>1. M \in [Players -> Nat] /\ M[t.hero] = R[t.hero] + 1
    BY <1>1 DEF Misread
  <2>2. M[t.hero] > 0 /\ M[t.hero] # R[t.hero]
    BY <1>1, <2>1
  <2>3. PaidTo(Positive(M), t.hero) = M[t.hero] /\ PaidTo(P, t.hero) = R[t.hero]
    BY <1>1, <2>1, PositiveIs
  <2> HIDE DEF M, P
  <2>4. Positive(M) # P
    BY <2>2, <2>3
  <2> QED BY <2>1, <2>2, <2>4, <1>1, PositiveIs
<1>4. R # NoAmounts
  BY <1>1 DEF NoAmounts
<1>5. Positive(h.collected) \in {Nothing, P} /\ Positive(h.won) \in {Nothing, P, Positive(M)}
      /\ (Positive(h.collected) = Nothing => Positive(h.won) \in {Nothing, P})
  BY HistoryTells, PositiveOfNone, <1>2, <1>4
<1>6. (h.collected # NoAmounts => Positive(h.collected) = P)
      /\ (h.collected = NoAmounts /\ h.won # NoAmounts => Positive(h.won) = P)
  BY HistoryTells, <1>4
<1> HIDE DEF R, P, M
<1> DEFINE o == ObservedPayouts(h)
<1>7. o.kind \in {"missing", "ready", "conflict"}
  BY DEF ObservedPayouts
<1>8. CASE Positive(h.collected) = Nothing /\ Positive(h.won) = Nothing
  <2>1. o = [kind |-> "missing", totals |-> Nothing, best |-> Nothing]
    BY <1>8 DEF ObservedPayouts
  <2>2. h.collected = NoAmounts /\ h.won = NoAmounts
    BY <1>8, <1>6, <1>2
  <2> QED BY <1>2, <1>7, <2>1, <2>2 DEF R, P
<1>9. CASE Positive(h.collected) = Nothing /\ Positive(h.won) # Nothing
  <2>1. o = [kind |-> "ready", totals |-> Positive(h.won), best |-> Positive(h.won)]
    BY <1>9 DEF ObservedPayouts
  <2>2. Positive(h.won) = P
    BY <1>9, <1>5
  <2> QED BY <1>2, <1>7, <2>1, <2>2 DEF R, P
<1>10. CASE Positive(h.collected) # Nothing /\ Positive(h.won) \in {Nothing, Positive(h.collected)}
  <2>1. o = [kind |-> "ready", totals |-> Positive(h.collected), best |-> Positive(h.collected)]
    BY <1>10 DEF ObservedPayouts
  <2>2. Positive(h.collected) = P
    BY <1>10, <1>5
  <2> QED BY <1>2, <1>7, <2>1, <2>2 DEF R, P
<1>11. CASE Positive(h.collected) # Nothing /\ Positive(h.won) \notin {Nothing, Positive(h.collected)}
  <2>1. o = [kind |-> "conflict", totals |-> Nothing, best |-> Positive(h.collected)]
    BY <1>11 DEF ObservedPayouts
  <2>2. Positive(h.collected) = P
    BY <1>11, <1>5
  <2>3. h.won # h.collected
    BY <1>11
  <2> QED BY <1>2, <1>7, <2>1, <2>2, <2>3 DEF R, P
<1> QED BY <1>8, <1>9, <1>10, <1>11

-----------------------------------------------------------------------------
(* The settlement finds what the room paid.                                *)

(* A history has the commitments and the folds of its table.               *)
SamePots(h, t) == h.committed = t.committed /\ h.folded = t.folded

(* Hence it has the same pots.                                             *)
LEMMA PotsOfHistory ==
  ASSUME NEW t, NEW h, SamePots(h, t)
  PROVE  Pots(h) = Pots(t) /\ PotCount(h) = PotCount(t) /\ \A i : Level(h, i) = Level(t, i)
<1>1. Levels(h) = Levels(t)
  BY DEF Levels, SamePots
<1>2. \A l : PotUpTo(h, l) = PotUpTo(t, l)
  BY <1>1 DEF PotUpTo, SamePots
<1> QED BY <1>1, <1>2 DEF Pots, PotCount, Level

(* What the room paid out of pot i.                                        *)
Paid(t, i) == t.paid[Pots(t)[i].contributors]

(* The winners of a pot are among those the settlement lets contend for    *)
(* it.                                                                     *)
LEMMA ContendersAre ==
  ASSUME NEW t, NEW h, History(h, t), NEW i \in 1..PotCount(t)
  PROVE  LET pot == Pots(t)[i]
             W == Winners(t, pot.contributors)
         IN /\ pot.contributors \in RoomPots(t) /\ pot.amount = RoomAmount(t, pot.contributors)
            /\ Contenders(h, pot) = pot.eligible \ h.lost
            /\ pot.eligible = pot.contributors \ t.folded
            /\ W \subseteq Contenders(h, pot) /\ W # {}
            /\ Contenders(h, pot) \subseteq pot.contributors /\ IsFiniteSet(Contenders(h, pot))
<1> DEFINE pot == Pots(t)[i]
           c == pot.contributors
           W == Winners(t, c)
<1>1. Legal(t) /\ t.committed \in [Players -> Nat] /\ Players # {}
  BY DEF History, Legal
<1>2. c \in RoomPots(t) /\ pot.amount = RoomAmount(t, c) /\ pot.eligible = c \ t.folded
  BY <1>1, PotsAreRoomPots, PotIs
<1>3. W \subseteq c \cap InHand(t) /\ W # {} /\ IsFiniteSet(c)
  BY <1>1, <1>2, WinnersAre
<1>4. W \subseteq pot.eligible
  BY <1>2, <1>3 DEF InHand
<1>5. \A p \in W : p \notin h.lost
  <2> SUFFICES ASSUME NEW p \in W, p \in h.lost PROVE FALSE
    OBVIOUS
  <2>1. Received(t)[p] = 0
    BY HistoryTells
  <2>2. Received(t)[p] > 0
    BY <1>1, <1>2, ReceivedIs
  <2> QED BY <2>1, <2>2
<1>6. ~(pot.eligible \subseteq h.lost)
  BY <1>3, <1>4, <1>5
<1>7. Contenders(h, pot) = pot.eligible \ h.lost
  BY <1>6 DEF Contenders
<1>8. Contenders(h, pot) \subseteq c /\ W \subseteq Contenders(h, pot)
  BY <1>2, <1>4, <1>5, <1>7
<1>9. IsFiniteSet(Contenders(h, pot))
  <2> HIDE DEF pot
  <2> QED BY <1>3, <1>8, FS_Subset
<1> QED BY <1>2, <1>3, <1>7, <1>8, <1>9

(* When the cards of all contenders are known, what the room paid is one   *)
(* of the splits the settlement considers for the pot.                     *)
LEMMA ShowdownTells ==
  ASSUME NEW t, NEW h, History(h, t), NEW i \in 1..PotCount(t),
         Contenders(h, Pots(t)[i]) \subseteq DOMAIN h.rank
  PROVE  Paid(t, i) \in ShowdownOptions(h, Pots(t)[i], Contenders(h, Pots(t)[i]))
<1> DEFINE pot == Pots(t)[i]
           c == pot.contributors
           C == Contenders(h, pot)
           W == Winners(t, c)
           ranks == {h.rank[p] : p \in C}
           best == Max(ranks)
           winners == {p \in C : h.rank[p] = best}
<1>1. /\ c \in RoomPots(t) /\ pot.amount = RoomAmount(t, c)
      /\ W \subseteq C /\ W # {} /\ C \subseteq c
  BY ContendersAre
<1>2. Legal(t) /\ C \subseteq InHand(t) /\ \A p \in C : h.rank[p] = t.strength[p]
  BY HistoryTells DEF History
<1>3. \A p \in C : p \in Players /\ h.rank[p] \in Nat
  BY <1>2 DEF InHand, Legal
<1>4. C \subseteq c \cap InHand(t) /\ W = {p \in c \cap InHand(t) : \A q \in c \cap InHand(t) : t.strength[q] <= t.strength[p]}
  BY <1>1, <1>2 DEF Winners
<1>5. PICK w \in W : TRUE
  BY <1>1
<1> HIDE DEF c, C, W
<1>6. \A p \in C : h.rank[p] <= h.rank[w]
  BY <1>1, <1>2, <1>4, <1>5
<1>7. best = h.rank[w]
  <2>1. ranks \in SUBSET Int /\ h.rank[w] \in ranks /\ \A x \in ranks : x <= h.rank[w]
    BY <1>1, <1>3, <1>5, <1>6
  <2> HIDE DEF ranks
  <2> QED BY <2>1, MaxIs
<1>8. winners = W
  <2>1. ASSUME NEW p \in W PROVE p \in winners
    <3>1. h.rank[p] <= h.rank[w] /\ h.rank[w] <= h.rank[p] /\ p \in C
      BY <1>1, <1>2, <1>4, <1>5, <2>1
    <3>2. h.rank[p] \in Nat /\ h.rank[w] \in Nat
      BY <1>1, <1>3, <1>5, <2>1
    <3> QED BY <3>1, <3>2, <1>7
  <2>2. ASSUME NEW p \in winners PROVE p \in W
    <3>1. p \in C /\ h.rank[p] = h.rank[w]
      BY <1>7, <2>2
    <3>2. t.strength[p] = t.strength[w]
      BY <3>1, <1>1, <1>2, <1>5
    <3> QED BY <3>1, <3>2, <1>4, <1>5
  <2> QED BY <2>1, <2>2
<1>9. Paid(t, i) \in RoomShares(t, c)
  BY <1>1, <1>2, SharesAre DEF Paid, c
<1>10. RoomShares(t, c) = ShowdownOptions(h, pot, C)
  <2> DEFINE a == pot.amount
  <2>1. RoomShares(t, c) = {[p \in W |-> (RoomAmount(t, c) \div Cardinality(W)) + IF p \in lucky THEN 1 ELSE 0] :
                              lucky \in kSubset(RoomAmount(t, c) % Cardinality(W), W)}
    BY DEF RoomShares, W
  <2>2. ShowdownOptions(h, pot, C) = {[p \in winners |-> (a \div Cardinality(winners)) + IF p \in lucky THEN 1 ELSE 0] :
                                        lucky \in kSubset(a % Cardinality(winners), winners)}
    BY DEF ShowdownOptions
  <2>3. RoomAmount(t, c) = a
    BY <1>1
  <2> HIDE DEF winners, a, pot
  <2> QED BY <1>8, <2>1, <2>2, <2>3
<1> QED BY <1>9, <1>10 DEF C

(* A lone winner gets the whole pot.                                       *)
LEMMA LoneWinner ==
  ASSUME NEW t, Legal(t), NEW c \in RoomPots(t), NEW w, Winners(t, c) = {w}
  PROVE  t.paid[c] = [p \in {w} |-> RoomAmount(t, c)]
<1> DEFINE a == RoomAmount(t, c)
<1>1. a \in Nat
  BY WinnersAre
<1>2. Cardinality({w}) = 1
  BY FS_Singleton
<1>3. TotalOver(t.paid[c], {w}) = a /\ t.paid[c] = [p \in {w} |-> t.paid[c][p]] /\ t.paid[c][w] \in Nat
  BY SharesAre
<1>4. TotalOver(t.paid[c], {w}) = t.paid[c][w]
  <2>1. {w} \ {w} = {} /\ IsFiniteSet({w})
    BY FS_Singleton
  <2>2. \A x \in {w} : t.paid[c][x] \in Int
    BY <1>3
  <2>3. TotalOver(t.paid[c], {w}) = t.paid[c][w] + TotalOver(t.paid[c], {w} \ {w}) /\ TotalOver(t.paid[c], {}) = 0
    BY <2>1, <2>2, TotalOverStep
  <2> QED BY <2>1, <2>3, <1>3
<1>5. t.paid[c][w] = a
  BY <1>3, <1>4
<1> QED BY <1>3, <1>5

(* With a single pot the amounts received are its split.                   *)
LEMMA OnePotIsAll ==
  ASSUME NEW t, Legal(t), NEW c, RoomPots(t) = {c}
  PROVE  Positive(Received(t)) = t.paid[c]
<1>1. Received(t) \in [Players -> Nat]
  BY ReceivedIs
<1>2. ASSUME NEW p \in Players PROVE Received(t)[p] = PaidTo(t.paid[c], p)
  <2> DEFINE f == PaidFrom(t, p)
  <2>1. Received(t)[p] = TotalOver(f, {c}) /\ f[c] \in Nat
    BY ReceivedIs
  <2>2. {c} \ {c} = {} /\ IsFiniteSet({c})
    BY FS_Singleton
  <2>3. \A x \in {c} : f[x] \in Int
    BY <2>1
  <2> HIDE DEF f
  <2>4. TotalOver(f, {c}) = f[c] + TotalOver(f, {c} \ {c}) /\ TotalOver(f, {}) = 0
    BY <2>2, <2>3, TotalOverStep
  <2>5. f[c] = PaidTo(t.paid[c], p)
    BY DEF f, PaidFrom
  <2> QED BY <2>1, <2>2, <2>4, <2>5
<1>3. /\ t.paid[c] = [p \in Winners(t, c) |-> t.paid[c][p]] /\ DOMAIN t.paid[c] = Winners(t, c)
      /\ \A p \in Winners(t, c) : t.paid[c][p] > 0 /\ p \in Players
  BY SharesAre, WinnersAre
<1>4. {p \in Players : Received(t)[p] > 0} = Winners(t, c)
  BY <1>2, <1>3 DEF PaidTo
<1>5. \A p \in Winners(t, c) : Received(t)[p] = t.paid[c][p]
  BY <1>2, <1>3 DEF PaidTo
<1>6. Positive(Received(t)) = [p \in Winners(t, c) |-> Received(t)[p]]
  BY <1>1, <1>4 DEF Positive
<1> QED BY <1>3, <1>5, <1>6

(* The options settle_pots has for each pot of a hand (build_pot_options). *)
Options(h) ==
  [i \in DOMAIN Pots(h) |-> PotOptions(h, Pots(h)[i], Len(Pots(h)), ObservedPayouts(h).totals)]

(* The allocation the room made.                                           *)
Truth(t) == [i \in DOMAIN Pots(t) |-> Paid(t, i)]

(* There is a pot for each level.                                          *)
LEMMA PotsLength ==
  ASSUME NEW h, h.committed \in [Players -> Nat]
  PROVE  Len(Pots(h)) = PotCount(h)
<1> DEFINE n == PotCount(h)
           ps == Pots(h)
           S == {ps[i] : i \in 1..n}
<1>1. n \in Nat
  BY LevelIs
<1>2. ps \in [1..n -> S]
  BY DEF Pots, PotCount
<1> HIDE DEF n, ps, S
<1>3. ps \in Seq(S) /\ DOMAIN ps = 1..n
  BY <1>1, <1>2
<1>4. Len(ps) = n
  BY <1>1, <1>3
<1> QED BY <1>4 DEF n, ps

(* What the room paid out of a pot is among the options of the pot, if it  *)
(* has any: no option is excluded by hidden cards, by losers that are      *)
(* named or by the amounts.                                                *)
LEMMA TruthIsOption ==
  ASSUME NEW t, NEW h, History(h, t), ObservedPayouts(h).kind = "ready",
         NEW i \in 1..PotCount(t), Options(h)[i] # {}
  PROVE  Paid(t, i) \in Options(h)[i]
<1> DEFINE pot == Pots(t)[i]
           c == pot.contributors
           C == Contenders(h, pot)
           W == Winners(t, c)
           P == Positive(Received(t))
           collects == [p \in C \cap DOMAIN P |-> P[p]]
<1>1. /\ c \in RoomPots(t) /\ pot.amount = RoomAmount(t, c)
      /\ W \subseteq C /\ W # {} /\ IsFiniteSet(C)
  BY ContendersAre
<1>2. Legal(t) /\ h.committed = t.committed /\ h.folded = t.folded /\ t.committed \in [Players -> Nat]
  BY HistoryTells DEF History, Legal
<1>3. Pots(h) = Pots(t) /\ DOMAIN Pots(t) = 1..PotCount(t) /\ Len(Pots(t)) = PotCount(t)
  BY <1>2, PotsOfHistory, PotIs, PotsLength DEF SamePots
<1>4. ObservedPayouts(h).totals = P
  BY ObservedIs
<1>5. Options(h)[i] = PotOptions(h, pot, PotCount(t), P)
  BY <1>3, <1>4 DEF Options
<1>6. \A p \in W : p \in DOMAIN P
  <2>1. \A p \in W : p \in Players /\ Received(t)[p] > 0
    BY <1>1, <1>2, ReceivedIs, WinnersAre
  <2>2. Received(t) \in [Players -> Nat]
    BY <1>2, ReceivedIs
  <2> HIDE DEF W
  <2> QED BY <2>1, <2>2, PositiveIs
<1>7. ASSUME NEW w, W = {w} PROVE Paid(t, i) = [p \in {w} |-> pot.amount]
  BY <1>1, <1>2, <1>7, LoneWinner DEF Paid
<1>8. Paid(t, i) = t.paid[c]
  BY DEF Paid
<1> HIDE DEF c, W, P
<1>9. CASE C \subseteq DOMAIN h.rank
  <2>1. PotOptions(h, pot, PotCount(t), P) = ShowdownOptions(h, pot, C)
    <3>1. C # {}
      BY <1>1
    <3> QED BY <3>1, <1>9 DEF PotOptions
  <2> QED BY <2>1, <1>5, <1>9, ShowdownTells
<1>10. CASE ~(C \subseteq DOMAIN h.rank) /\ Cardinality(C) = 1
  <2>1. PICK w : C = {w}
    BY <1>1, <1>10, FS_Singleton
  <2>2. W = {w}
    BY <1>1, <2>1
  <2>3. PotOptions(h, pot, PotCount(t), P) = {[p \in C |-> pot.amount]}
    BY <1>10 DEF PotOptions
  <2> HIDE DEF C, pot
  <2>4. Paid(t, i) = [p \in C |-> pot.amount]
    BY <1>7, <2>1, <2>2
  <2> QED BY <2>3, <2>4, <1>5
<1>11. CASE ~(C \subseteq DOMAIN h.rank) /\ Cardinality(C) # 1 /\ PotCount(t) = 1 /\ collects # Nothing /\ Total(collects) = pot.amount
  <2>1. PotOptions(h, pot, PotCount(t), P) = {collects}
    BY <1>11 DEF PotOptions
  <2>2. RoomPots(t) = {c}
    <3> DEFINE b == [j \in 1..PotCount(t) |-> Pots(t)[j].contributors]
    <3>1. b \in Bijection(1..PotCount(t), RoomPots(t)) /\ b[i] = c
      BY <1>2, PotsAreRoomPots DEF Legal, c
    <3>2. \A j \in 1..PotCount(t) : j = i
      BY <1>11
    <3> HIDE DEF b
    <3>3. \A r \in RoomPots(t) : \E j \in 1..PotCount(t) : b[j] = r
      BY <3>1 DEF Bijection, Surjection
    <3> QED BY <3>1, <3>2, <3>3, <1>1
  <2>3. P = t.paid[c]
    BY <1>2, <2>2, OnePotIsAll DEF P
  <2>4. DOMAIN P = W /\ P = [p \in W |-> P[p]]
    BY <1>1, <1>2, <2>3, SharesAre DEF W
  <2>5. C \cap DOMAIN P = W
    BY <1>1, <2>4
  <2> HIDE DEF C, pot
  <2>6. collects = P
    BY <2>4, <2>5
  <2> QED BY <2>1, <2>3, <2>6, <1>5, <1>8
<1>12. CASE /\ ~(C \subseteq DOMAIN h.rank) /\ Cardinality(C) # 1
            /\ ~(PotCount(t) = 1 /\ collects # Nothing /\ Total(collects) = pot.amount)
  <2>1. Cardinality(DOMAIN P) = 1 /\ DOMAIN P \subseteq C
    BY <1>5, <1>12 DEF PotOptions
  <2>2. PotOptions(h, pot, PotCount(t), P) = {[p \in DOMAIN P |-> pot.amount]}
    BY <1>12, <2>1 DEF PotOptions
  <2> HIDE DEF C, pot
  <2>3. IsFiniteSet(DOMAIN P)
    BY <1>1, <2>1, FS_Subset
  <2>4. PICK w : DOMAIN P = {w}
    BY <2>1, <2>3, FS_Singleton
  <2>5. W = {w}
    BY <1>1, <1>6, <2>4
  <2>6. Paid(t, i) = [p \in DOMAIN P |-> pot.amount]
    BY <1>7, <2>4, <2>5
  <2> QED BY <2>2, <2>6, <1>5
<1> QED BY <1>9, <1>10, <1>11, <1>12

(* What a player got, by the pots of the core.                             *)
PotShares(t, p) == [i \in 1..PotCount(t) |-> PaidTo(Paid(t, i), p)]

(* It adds up to what he received.                                         *)
LEMMA ReceivedByPot ==
  ASSUME NEW t, Legal(t), NEW p \in Players
  PROVE  /\ TotalOver(PotShares(t, p), 1..PotCount(t)) = Received(t)[p]
         /\ \A i \in 1..PotCount(t) : PotShares(t, p)[i] \in Nat
<1> DEFINE n == PotCount(t)
           b == [i \in 1..n |-> Pots(t)[i].contributors]
           f == PaidFrom(t, p)
           R == RoomPots(t)
<1>1. n \in Nat /\ b \in Bijection(1..n, R)
  BY LevelIs, PotsAreRoomPots DEF Legal
<1>2. Received(t)[p] = TotalOver(f, R) /\ \A c \in R : f[c] \in Nat
  BY ReceivedIs
<1>3. \A i \in 1..n : b[i] \in R
  BY <1>1 DEF Bijection, Surjection
<1>4. \A i \in 1..n : f[b[i]] = PaidTo(Paid(t, i), p)
  BY <1>3 DEF PaidFrom, Paid
<1>5. [i \in 1..n |-> f[b[i]]] = PotShares(t, p)
  BY <1>4 DEF PotShares
<1>6. \A i \in 1..n : PotShares(t, p)[i] = f[b[i]]
  BY <1>5
<1> HIDE DEF f, b, R, n
<1>7. IsFiniteSet(1..n) /\ \A c \in R : f[c] \in Int
  BY <1>1, <1>2, FS_Interval
<1>8. TotalOver(f, R) = TotalOver([i \in 1..n |-> f[b[i]]], 1..n)
  BY <1>1, <1>7, TotalReindexed
<1>9. TotalOver(PotShares(t, p), 1..n) = Received(t)[p]
  BY <1>2, <1>5, <1>8, Zenon
<1>10. \A i \in 1..n : PotShares(t, p)[i] \in Nat
  BY <1>2, <1>3, <1>6
<1> QED BY <1>9, <1>10 DEF n

(* The allocation of the room is one whose sums are the observed payouts.  *)
LEMMA TruthIsExact ==
  ASSUME NEW t, NEW h, History(h, t), ObservedPayouts(h).kind = "ready",
         \A i \in DOMAIN Options(h) : Options(h)[i] # {}
  PROVE  Truth(t) \in ExactAllocations(Options(h), ObservedPayouts(h).totals)
<1> DEFINE o == Options(h)
           P == ObservedPayouts(h).totals
           n == PotCount(t)
           T == Truth(t)
<1>1. Legal(t) /\ h.committed = t.committed /\ h.folded = t.folded /\ t.committed \in [Players -> Nat] /\ Players # {}
  BY HistoryTells DEF History, Legal
<1>2. Pots(h) = Pots(t) /\ DOMAIN Pots(t) = 1..n
  BY <1>1, PotsOfHistory, PotIs DEF SamePots
<1>3. DOMAIN o = 1..n /\ DOMAIN T = 1..n /\ T = [i \in 1..n |-> T[i]] /\ \A i \in 1..n : T[i] = Paid(t, i)
  BY <1>2 DEF Options, Truth
<1>4. ASSUME NEW i \in 1..n PROVE T[i] \in o[i]
  <2>1. Options(h)[i] # {}
    BY <1>3
  <2>2. Paid(t, i) \in Options(h)[i]
    BY <2>1, TruthIsOption
  <2> QED BY <2>2, <1>3
<1>5. T \in [DOMAIN o -> UNION Range(o)]
  <2> HIDE DEF o, T
  <2> QED BY <1>3, <1>4 DEF Range
<1>6. ASSUME NEW i \in DOMAIN o, NEW p \in DOMAIN T[i] PROVE T[i][p] > 0
  <2>1. Pots(t)[i].contributors \in RoomPots(t) /\ T[i] = t.paid[Pots(t)[i].contributors]
    BY <1>1, <1>3, PotsAreRoomPots DEF Paid
  <2>2. \A c \in RoomPots(t) : \A q \in DOMAIN t.paid[c] : t.paid[c][q] > 0
    BY <1>1, SharesAre
  <2> HIDE DEF T
  <2> QED BY <2>1, <2>2
<1>7. ASSUME NEW p \in Players
      PROVE  PaidTo(P, p) = Total([i \in DOMAIN o |-> PaidTo(T[i], p)])
  <2>1. P = Positive(Received(t)) /\ Received(t) \in [Players -> Nat]
    BY <1>1, ObservedIs, ReceivedIs
  <2>2. PaidTo(P, p) = Received(t)[p]
    BY <2>1, PositiveIs
  <2>3. [i \in DOMAIN o |-> PaidTo(T[i], p)] = PotShares(t, p)
    BY <1>3 DEF PotShares
  <2>4. DOMAIN PotShares(t, p) = 1..n
    BY DEF PotShares
  <2>5. Total(PotShares(t, p)) = TotalOver(PotShares(t, p), 1..n)
    BY <2>4, TotalIsRec
  <2>6. TotalOver(PotShares(t, p), 1..n) = Received(t)[p]
    BY <1>1, ReceivedByPot
  <2> HIDE DEF o, T, P
  <2> QED BY <2>2, <2>3, <2>5, <2>6, Zenon
<1> HIDE DEF o, T, P
<1>8. T \in ExactAllocations(o, P)
  BY <1>3, <1>4, <1>5, <1>6, <1>7 DEF ExactAllocations
<1> QED BY <1>8 DEF o, T, P-----------------------------------------------------------------------------
(* The properties of a settled hand, for one hand and its history.         *)

(* So when the settlement finds a single allocation it is the one of the   *)
(* room; it fails only for what a history may leave out, or on several     *)
(* allocations.                                                            *)
LEMMA SettleIs ==
  ASSUME NEW t, NEW h, History(h, t)
  PROVE  /\ Settle(h).pots = Pots(t) /\ DOMAIN Pots(t) = 1..PotCount(t)
         /\ Settle(h).certainty = "exact" =>
              Settle(h).selected = Truth(t) /\ ObservedPayouts(h).kind = "ready"
         /\ Settle(h).certainty # "exact" => Settle(h).selected = <<>>
         /\ Settle(h).certainty \in {"exact", "uncertain", "inconsistent"}
         /\ (ObservedPayouts(h).kind = "ready" /\ \A i \in 1..PotCount(t) : Options(h)[i] # {}) =>
              Settle(h).certainty = "exact" \/ Settle(h).issue = "multiple_allocations"
<1> DEFINE pots == Pots(h)
           observed == ObservedPayouts(h)
           options == Options(h)
           exact == ExactAllocations(options, observed.totals)
           S == Settle(h)
<1>1. Legal(t) /\ h.committed = t.committed /\ h.folded = t.folded /\ t.committed \in [Players -> Nat] /\ Players # {}
  BY HistoryTells DEF History, Legal
<1>2. Pots(h) = Pots(t) /\ DOMAIN Pots(t) = 1..PotCount(t)
  BY <1>1, PotsOfHistory, PotIs DEF SamePots
<1>3. pots # <<>>
  <2>1. 1 \in DOMAIN pots
    BY <1>1, <1>2, SomebodyWins
  <2>2. DOMAIN <<>> = {}
    OBVIOUS
  <2> HIDE DEF pots
  <2> QED BY <2>1, <2>2
<1>4. S = IF \E i \in DOMAIN pots : options[i] = {} THEN Verdict(pots, "uncertain", "none", <<>>)
          ELSE IF observed.kind = "conflict" THEN Verdict(pots, "inconsistent", "collect_conflict", <<>>)
          ELSE IF observed.kind = "missing"
            THEN IF \E i \in DOMAIN pots : Several(options[i])
                   THEN Verdict(pots, "uncertain", "multiple_allocations", <<>>)
                   ELSE Verdict(pots, "inconsistent", "missing_collections", <<>>)
          ELSE IF exact = {} THEN Verdict(pots, "inconsistent", "collect_conflict", <<>>)
          ELSE IF Several(exact) THEN Verdict(pots, "uncertain", "multiple_allocations", <<>>)
          ELSE Verdict(pots, "exact", "none", CHOOSE choice \in exact : TRUE)
  BY <1>3 DEF Settle, Options
<1>5. DOMAIN options = DOMAIN pots
  BY DEF Options
<1>6. observed.kind \in {"missing", "ready", "conflict"}
  BY ObservedIs
<1>7. ASSUME observed.kind = "ready", \A i \in DOMAIN pots : options[i] # {} PROVE Truth(t) \in exact
  <2>1. \A i \in DOMAIN Options(h) : Options(h)[i] # {}
    BY <1>5, <1>7
  <2> QED BY <1>7, <2>1, TruthIsExact
<1> HIDE DEF options, observed, exact, S, pots
<1>8. S.pots = pots
  BY <1>4 DEF Verdict
<1>9. S.certainty \in {"exact", "uncertain", "inconsistent"}
  BY <1>4 DEF Verdict
<1>10. S.certainty # "exact" => S.selected = <<>>
  BY <1>4 DEF Verdict
<1>11. ASSUME S.certainty = "exact" PROVE S.selected = Truth(t) /\ observed.kind = "ready"
  <2>1. \A i \in DOMAIN pots : options[i] # {}
    BY <1>4, <1>11 DEF Verdict
  <2>2. observed.kind = "ready"
    BY <1>4, <1>6, <1>11, <2>1 DEF Verdict
  <2>3. ~Several(exact) /\ S.selected = CHOOSE choice \in exact : TRUE
    BY <1>4, <1>11, <2>1, <2>2 DEF Verdict
  <2>4. Truth(t) \in exact
    BY <1>7, <2>1, <2>2
  <2> QED BY <2>2, <2>3, <2>4 DEF Several
<1>12. ASSUME observed.kind = "ready", \A i \in DOMAIN pots : options[i] # {}
       PROVE  S.certainty = "exact" \/ S.issue = "multiple_allocations"
  <2>1. exact # {}
    BY <1>7, <1>12
  <2> QED BY <1>4, <1>12, <2>1 DEF Verdict
<1>13. pots = Pots(t)
  BY <1>2 DEF pots
<1>14. \A i \in 1..PotCount(t) : i \in DOMAIN pots
  BY <1>2, <1>13
<1>15. \A i \in DOMAIN pots : i \in 1..PotCount(t)
  BY <1>2, <1>13
<1>16. (observed.kind = "ready" /\ \A i \in 1..PotCount(t) : options[i] # {}) =>
         S.certainty = "exact" \/ S.issue = "multiple_allocations"
  BY <1>12, <1>15
<1> QED BY <1>2, <1>8, <1>9, <1>10, <1>11, <1>13, <1>16 DEF S, observed, options

(* A settlement called exact is what the room did, pot by pot.             *)
LEMMA ExactSettlement ==
  ASSUME NEW t, NEW h, History(h, t), Settle(h).certainty = "exact", NEW i \in DOMAIN Settle(h).pots
  PROVE  LET pot == Settle(h).pots[i]
         IN /\ pot.amount = RoomAmount(t, pot.contributors)
            /\ Settle(h).selected[i] = t.paid[pot.contributors]
<1>1. /\ Settle(h).pots = Pots(t) /\ i \in 1..PotCount(t) /\ DOMAIN Pots(t) = 1..PotCount(t)
      /\ Settle(h).selected = Truth(t)
  BY SettleIs
<1>2. Truth(t)[i] = t.paid[Pots(t)[i].contributors]
  BY <1>1 DEF Truth, Paid
<1>3. Pots(t)[i].amount = RoomAmount(t, Pots(t)[i].contributors)
  BY <1>1, ContendersAre
<1> QED BY <1>1, <1>2, <1>3

(* A history that shows every card and amount.                             *)
Known(h, t) ==
  /\ h.won = h.collected /\ h.won # NoAmounts
  /\ Cardinality(InHand(t)) > 1 => DOMAIN h.rank = InHand(t)
  /\ t.away \cap {p \in Players : t.committed[p] > 0} \subseteq h.lost

(* The settlement of such a hand is exact, or several allocations explain  *)
(* it.                                                                     *)
LEMMA KnownSettlement ==
  ASSUME NEW t, NEW h, History(h, t), Known(h, t)
  PROVE  Settle(h).certainty = "exact" \/ Settle(h).issue = "multiple_allocations"
<1>1. Legal(t) /\ h.committed = t.committed /\ h.folded = t.folded /\ t.committed \in [Players -> Nat]
  BY HistoryTells DEF History, Legal
<1>2. Pots(h) = Pots(t) /\ DOMAIN Pots(t) = 1..PotCount(t)
  BY <1>1, PotsOfHistory, PotIs DEF SamePots
<1>3. ObservedPayouts(h).kind = "ready"
  BY ObservedIs DEF Known
<1>4. ASSUME NEW i \in 1..PotCount(t) PROVE Options(h)[i] # {}
  <2> DEFINE pot == Pots(t)[i]
             C == Contenders(h, pot)
  <2>1. C = (pot.contributors \ t.folded) \ h.lost /\ IsFiniteSet(C) /\ C # {}
    BY ContendersAre
  <2>2. C \subseteq InHand(t)
    <3> SUFFICES ASSUME NEW p \in C PROVE p \in InHand(t)
      OBVIOUS
    <3>1. p \in Players /\ t.committed[p] >= Level(t, i) /\ p \notin t.folded /\ p \notin h.lost
      BY <1>1, <2>1, PotIs
    <3>2. Level(t, i) > 0 /\ Level(t, i) \in Nat
      BY <1>1, LevelIs, LevelsAre
    <3>3. t.committed[p] > 0
      BY <1>1, <3>1, <3>2
    <3>4. p \notin t.away
      BY <3>1, <3>3 DEF Known
    <3> QED BY <3>1, <3>3, <3>4 DEF InHand
  <2>3. Options(h)[i] = PotOptions(h, pot, Len(Pots(h)), ObservedPayouts(h).totals)
    BY <1>2 DEF Options
  <2>4. CASE C \subseteq DOMAIN h.rank
    <3>1. Paid(t, i) \in ShowdownOptions(h, pot, C)
      BY <2>4, ShowdownTells
    <3>2. Options(h)[i] = ShowdownOptions(h, pot, C)
      BY <2>1, <2>3, <2>4 DEF PotOptions
    <3> QED BY <3>1, <3>2
  <2>5. CASE ~(C \subseteq DOMAIN h.rank)
    <3> HIDE DEF C
    <3>1. ~(Cardinality(InHand(t)) > 1)
      BY <2>2, <2>5 DEF Known
    <3>2. IsFiniteSet(InHand(t))
      <4>1. InHand(t) \subseteq Players
        BY DEF InHand
      <4> QED BY <4>1, BountyAssumption, FS_Subset
    <3>3. Cardinality(C) <= Cardinality(InHand(t)) /\ Cardinality(InHand(t)) \in Nat /\ Cardinality(C) \in Nat
      BY <2>1, <2>2, <3>2, FS_Subset, FS_CardinalityType
    <3>4. Cardinality(C) # 0
      BY <2>1, FS_EmptySet
    <3>5. Cardinality(C) = 1
      BY <3>1, <3>3, <3>4
    <3>6. PotOptions(h, pot, Len(Pots(h)), ObservedPayouts(h).totals) = {[p \in C |-> pot.amount]}
      BY <2>5, <3>5 DEF PotOptions, C
    <3> QED BY <2>3, <3>6
  <2> QED BY <2>4, <2>5
<1> QED BY <1>3, <1>4, SettleIs

(* What a player put into the pots he is in, up to pot i.                  *)
StackRun(s, p, i) == [j \in {k \in PotsOf(s, p) : k <= i} |-> s.pots[j].each]

(* A player whose stack is spent by pot i committed all he had, and i is   *)
(* the last pot he is in.                                                  *)
LEMMA StackIsSpent ==
  ASSUME NEW t, Legal(t), NEW h, h.start = t.start, NEW s, s.pots = Pots(t), NEW p \in Players,
         NEW i \in PotsOf(s, p), StackAfterPot(h, s, p, i) <= 0
  PROVE  /\ i \in 1..PotCount(t)
         /\ t.committed[p] = Level(t, i) /\ t.start[p] = Level(t, i)
<1> DEFINE n == PotCount(t)
           f == StackRun(s, p, i)
           D == {k \in PotsOf(s, p) : k <= i}
<1>1. /\ t.committed \in [Players -> Nat] /\ t.start \in [Players -> Nat]
      /\ t.committed[p] <= t.start[p] /\ n \in Nat
  BY LevelIs DEF Legal
<1>2. PotsOf(s, p) = {j \in 1..n : t.committed[p] >= Level(t, j)}
  BY <1>1, PotIs DEF PotsOf
<1>3. i \in 1..n /\ i \in 0..n /\ t.committed[p] >= Level(t, i) /\ Level(t, i) \in Nat
  BY <1>1, <1>2, LevelIs
<1>4. D = 1..i
  <2>1. ASSUME NEW k \in 1..i PROVE k \in D
    <3>1. k \in 1..n /\ k <= i
      BY <1>1, <1>3
    <3>2. ~(i < k)
      BY <3>1, <1>3
    <3>3. ~(Level(t, i) < Level(t, k)) /\ Level(t, k) \in Int
      BY <1>1, <1>3, <3>1, <3>2, LevelIs, LevelsAre
    <3> QED BY <1>1, <1>2, <1>3, <3>1, <3>3
  <2>2. ASSUME NEW k \in D PROVE k \in 1..i
    BY <1>1, <1>2, <1>3, <2>2
  <2> QED BY <2>1, <2>2
<1>5. DOMAIN f = 1..i
  BY <1>4 DEF StackRun
<1>6. Total(f) = TotalOver(f, 1..i)
  BY <1>5, TotalIsRec
<1>7. TotalOver(f, 1..i) = TotalOver(Eaches(t), 1..i)
  <2>1. \A j \in 1..i : f[j] = Eaches(t)[j] /\ f[j] \in Int
    <3> SUFFICES ASSUME NEW j \in 1..i PROVE f[j] = Eaches(t)[j] /\ f[j] \in Int
      OBVIOUS
    <3>1. j \in 1..n /\ j \in D
      BY <1>1, <1>3, <1>4
    <3>2. f[j] = Pots(t)[j].each /\ Eaches(t)[j] = Pots(t)[j].each
      BY <3>1 DEF StackRun, Eaches
    <3>3. Pots(t)[j].each \in Nat
      BY <1>1, <3>1, PotIs
    <3> QED BY <3>2, <3>3
  <2>2. IsFiniteSet(1..i)
    BY <1>3, FS_Interval
  <2> HIDE DEF f
  <2> QED BY <2>1, <2>2, SameTerms
<1>8. TotalOver(Eaches(t), 1..i) = Level(t, i)
  BY <1>1, <1>3, EachesAddUp
<1>9. StackAfterPot(h, s, p, i) = t.start[p] - Total(f)
  BY DEF StackAfterPot, StackRun
<1> HIDE DEF f
<1> QED BY <1>1, <1>3, <1>6, <1>7, <1>8, <1>9

(* The last pot a player reached is, of those the room made, the smallest  *)
(* one he is in.                                                           *)
LEMMA LastPotIs ==
  ASSUME NEW t, Legal(t), NEW p \in Players, NEW i \in 1..PotCount(t), t.committed[p] = Level(t, i)
  PROVE  LastPotOf(t, p) = Pots(t)[i].contributors
<1> DEFINE c == Pots(t)[i].contributors
<1>1. t.committed \in [Players -> Nat] /\ Players # {}
  BY DEF Legal
<1>2. c \in RoomPots(t) /\ c = AtLeast(t, Level(t, i)) /\ Level(t, i) \in Nat
  BY <1>1, PotsAreRoomPots, LevelIs, LevelsAre
<1> HIDE DEF c
<1>3. p \in c
  BY <1>2 DEF AtLeast
<1>4. ASSUME NEW d \in RoomPots(t), p \in d PROVE c \subseteq d
  <2>1. PICK most \in Nat : most = Max({t.committed[q] : q \in Players})
    BY <1>1, MostCommitted
  <2>2. PICK k \in 1..most : d = AtLeast(t, k)
    BY <2>1 DEF RoomPots, Chips
  <2>3. t.committed[p] >= k
    BY <1>4, <2>2 DEF AtLeast
  <2> SUFFICES ASSUME NEW q \in c PROVE q \in d
    OBVIOUS
  <2>4. q \in Players /\ t.committed[q] >= Level(t, i)
    BY <1>2 DEF AtLeast
  <2> QED BY <1>1, <1>2, <2>2, <2>3, <2>4 DEF AtLeast
<1> DEFINE IsLast(e) == p \in e /\ \A d \in RoomPots(t) : p \in d => e \subseteq d
<1>5. IsLast(c)
  BY <1>3, <1>4
<1>6. LastPotOf(t, p) = CHOOSE e \in RoomPots(t) : IsLast(e)
  BY DEF LastPotOf
<1>7. LastPotOf(t, p) \in RoomPots(t) /\ IsLast(LastPotOf(t, p))
  <2> HIDE DEF IsLast
  <2> QED BY <1>2, <1>5, <1>6
<1>8. c \subseteq LastPotOf(t, p) /\ LastPotOf(t, p) \subseteq c
  BY <1>2, <1>3, <1>4, <1>7
<1> QED BY <1>8 DEF c

(* What normalize_hand makes of a hand, part by part: the settlement, the  *)
(* final stacks and the eliminations.                                      *)
LEMMA NormalizeIs ==
  ASSUME NEW t, NEW h, History(h, t)
  PROVE  LET o == Normalize(h)
             s == o.settlement
         IN /\ s.pots = Pots(t)
            /\ s.certainty \in {"exact", "uncertain", "inconsistent"}
            /\ s.certainty = "exact" => s = Settle(h)
            /\ ~h.invalid => s = Settle(h)
            /\ s.selected # <<>> => s = Settle(h) /\ s.certainty = "exact"
            /\ \A p \in DOMAIN o.busts : p \in Players /\ o.busts[p] = Elimination(h, s, p)
            /\ ObservedPayouts(h).best # Nothing =>
                 /\ o.stacks = FinalStacks(h, ObservedPayouts(h).best)
                 /\ DOMAIN o.busts = {p \in Players : h.start[p] > 0 /\ o.stacks[p] = 0}
                 /\ o.chipsKept = (Total(h.start) = Total(o.stacks))
                 /\ o.potKept = (Total(h.committed) = Total(ObservedPayouts(h).best))
<1> DEFINE S == Settle(h)
           o == Normalize(h)
           s == IF h.invalid THEN Invalidated(S) ELSE S
           b == ObservedPayouts(h).best
<1>1. /\ S.pots = Pots(t) /\ S.certainty \in {"exact", "uncertain", "inconsistent"}
      /\ S.certainty # "exact" => S.selected = <<>>
  BY SettleIs
<1>2. o.settlement = s
  BY DEF Normalize
<1>3. S = Verdict(S.pots, S.certainty, S.issue, S.selected)
  BY DEF Settle, Verdict
<1> HIDE DEF S
<1>4. Invalidated(S).pots = S.pots /\ Invalidated(S).certainty = "inconsistent" /\ Invalidated(S).selected = <<>>
  BY <1>3 DEF Invalidated, Verdict
<1>5. h.invalid \in BOOLEAN
  BY HistoryTells
<1>6. /\ s.pots = Pots(t)
      /\ s.certainty \in {"exact", "uncertain", "inconsistent"}
      /\ s.certainty = "exact" => s = S
      /\ ~h.invalid => s = S
      /\ s.selected # <<>> => s = S /\ s.certainty = "exact"
  BY <1>1, <1>4, <1>5
<1>7. \A p \in DOMAIN o.busts : p \in Players /\ o.busts[p] = Elimination(h, o.settlement, p)
  BY DEF Normalize
<1>8. b # Nothing =>
         /\ o.stacks = FinalStacks(h, b)
         /\ DOMAIN o.busts = {p \in Players : h.start[p] > 0 /\ o.stacks[p] = 0}
         /\ o.chipsKept = (Total(h.start) = Total(o.stacks))
         /\ o.potKept = (Total(h.committed) = Total(b))
  BY DEF Normalize
<1> QED BY <1>2, <1>6, <1>7, <1>8 DEF S

(* When amounts are reported, the final stacks are those at the table and  *)
(* the eliminated are those who lost all.                                  *)
LEMMA StacksAre ==
  ASSUME NEW t, NEW h, History(h, t), ObservedPayouts(h).best # Nothing
  PROVE  LET o == Normalize(h)
         IN /\ ObservedPayouts(h).best = Positive(Received(t))
            /\ o.stacks = [p \in Players |-> t.start[p] - t.committed[p] + Received(t)[p]]
            /\ DOMAIN o.busts = Busted(t)
<1>1. ObservedPayouts(h).best = Positive(Received(t))
  <2>1. CASE h.collected # NoAmounts \/ h.won # NoAmounts
    BY <2>1, ObservedIs
  <2>2. CASE h.collected = NoAmounts /\ h.won = NoAmounts
    <3>1. Positive(h.collected) = Nothing /\ Positive(h.won) = Nothing
      BY <2>2, PositiveOfNone
    <3>2. ObservedPayouts(h).best = Nothing
      BY <3>1 DEF ObservedPayouts
    <3> QED BY <3>2
  <2> QED BY <2>1, <2>2
<1>2. h.start = t.start /\ h.committed = t.committed /\ Received(t) \in [Players -> Nat]
  BY HistoryTells, ReceivedIs DEF History
<1>3. \A p \in Players : PaidTo(Positive(Received(t)), p) = Received(t)[p]
  BY <1>2, PositiveIs
<1>4. /\ Normalize(h).stacks = FinalStacks(h, Positive(Received(t)))
      /\ DOMAIN Normalize(h).busts = {p \in Players : h.start[p] > 0 /\ Normalize(h).stacks[p] = 0}
  BY <1>1, NormalizeIs
<1>5. Normalize(h).stacks = [p \in Players |-> t.start[p] - t.committed[p] + Received(t)[p]]
  BY <1>2, <1>3, <1>4 DEF FinalStacks
<1>6. DOMAIN Normalize(h).busts = Busted(t)
  BY <1>2, <1>4, <1>5 DEF Busted
<1> QED BY <1>1, <1>5, <1>6

(* Whoever is credited with an elimination won the last pot the eliminated *)
(* player was in.                                                          *)
LEMMA FairElimination ==
  ASSUME NEW t, NEW h, History(h, t), NEW p \in DOMAIN Normalize(h).busts
  PROVE  LET e == Normalize(h).busts[p]
         IN IF e.certainty = "exact"
              THEN /\ e.shares = t.paid[LastPotOf(t, p)]
                   /\ Total(e.shares) = e.of
                   /\ \A w \in DOMAIN e.shares : t.start[w] >= t.start[p] /\ w \notin DOMAIN Normalize(h).busts
              ELSE e.shares = Nothing
<1> DEFINE o == Normalize(h)
           s == o.settlement
           e == o.busts[p]
           B == BustingPots(h, s, p)
           i == IF B = {} THEN 0 ELSE Min(B)
<1>1. Legal(t) /\ h.start = t.start /\ h.committed = t.committed /\ t.committed \in [Players -> Nat] /\ Players # {}
  BY HistoryTells DEF History, Legal
<1>2. p \in Players /\ e = Elimination(h, s, p) /\ s.pots = Pots(t) /\ DOMAIN Pots(t) = 1..PotCount(t)
  BY <1>1, NormalizeIs, PotIs
<1>3. e = IF i # 0 /\ s.selected # <<>>
            THEN [pot |-> i, shares |-> s.selected[i], of |-> s.pots[i].amount, certainty |-> "exact"]
            ELSE [pot |-> i, shares |-> Nothing, of |-> 0, certainty |-> FallbackCertainty(s.certainty)]
  BY <1>2 DEF Elimination
<1>4. FallbackCertainty(s.certainty) # "exact"
  BY DEF FallbackCertainty
<1> HIDE DEF e, i
<1>5. CASE e.certainty # "exact"
  <2>1. e.shares = Nothing
    BY <1>3, <1>5
  <2> QED BY <1>5, <2>1 DEF e
<1>6. CASE e.certainty = "exact"
  <2>1. i # 0 /\ s.selected # <<>> /\ e.shares = s.selected[i] /\ e.of = s.pots[i].amount
    BY <1>3, <1>4, <1>6
  <2>2. s = Settle(h) /\ s.certainty = "exact"
    BY <2>1, NormalizeIs
  <2>3. s.selected = Truth(t) /\ ObservedPayouts(h).kind = "ready"
    BY <2>2, SettleIs
  <2> HIDE DEF s
  <2>4. B \in SUBSET PotsOf(s, p) /\ PotsOf(s, p) \in SUBSET (1..PotCount(t))
    BY <1>2 DEF BustingPots, PotsOf
  <2>5. i \in B
    <3>1. B # {}
      BY <2>1 DEF i
    <3> HIDE DEF B
    <3>2. B \in SUBSET (1..PotCount(t)) /\ IsFiniteSet(1..PotCount(t)) /\ B \in SUBSET Int
      <4>1. PotCount(t) \in Nat
        BY <1>1, LevelIs
      <4>2. IsFiniteSet(1..PotCount(t))
        BY <4>1, FS_Interval
      <4> QED BY <2>4, <4>1, <4>2
    <3>3. IsFiniteSet(B)
      BY <3>2, FS_Subset
    <3>4. Min(B) \in B
      BY <3>1, <3>2, <3>3, MinIs
    <3> QED BY <3>1, <3>4 DEF i
  <2>6. i \in PotsOf(s, p) /\ StackAfterPot(h, s, p, i) <= 0 /\ i \in 1..PotCount(t)
    BY <2>4, <2>5 DEF BustingPots
  <2>7. t.committed[p] = Level(t, i) /\ t.start[p] = Level(t, i)
    BY <1>1, <1>2, <2>6, StackIsSpent
  <2> DEFINE c == Pots(t)[i].contributors
  <2>8. LastPotOf(t, p) = c
    BY <1>1, <1>2, <2>6, <2>7, LastPotIs
  <2>9. c \in RoomPots(t) /\ c = AtLeast(t, Level(t, i)) /\ Pots(t)[i].amount = RoomAmount(t, c)
    BY <1>1, <2>6, PotsAreRoomPots
  <2>10. e.shares = t.paid[c]
    BY <1>2, <2>1, <2>3, <2>6 DEF Truth, Paid
  <2>11. e.of = RoomAmount(t, c)
    BY <1>2, <2>1, <2>9
  <2> HIDE DEF c
  <2>12. Total(e.shares) = e.of
    <3>1. DOMAIN t.paid[c] = Winners(t, c) /\ TotalOver(t.paid[c], Winners(t, c)) = RoomAmount(t, c)
      BY <1>1, <2>9, SharesAre
    <3>2. Total(t.paid[c]) = TotalOver(t.paid[c], DOMAIN t.paid[c])
      BY TotalIsRec
    <3> QED BY <2>10, <2>11, <3>1, <3>2
  <2>13. ASSUME NEW w \in DOMAIN e.shares
         PROVE  t.start[w] >= t.start[p] /\ w \notin DOMAIN o.busts
    <3>1. w \in Winners(t, c) /\ w \in c /\ w \in Players
      <4>1. DOMAIN t.paid[c] = Winners(t, c)
        BY <1>1, <2>9, SharesAre
      <4>2. Winners(t, c) \subseteq c /\ c \subseteq Players
        BY <1>1, <2>9, WinnersAre
      <4> QED BY <2>10, <2>13, <4>1, <4>2
    <3>2. t.committed[w] >= t.start[p] /\ t.committed[w] <= t.start[w] /\ t.committed[w] \in Nat /\ t.start[w] \in Nat /\ t.start[p] \in Nat
      BY <1>1, <1>2, <2>7, <2>9, <3>1 DEF AtLeast, Legal
    <3>3. Received(t)[w] > 0 /\ Received(t)[w] \in Nat
      BY <1>1, <2>9, <3>1, ReceivedIs
    <3>4. t.start[w] - t.committed[w] + Received(t)[w] # 0
      BY <3>2, <3>3
    <3>5. ObservedPayouts(h).best # Nothing
      BY <2>3, ObservedIs
    <3>6. DOMAIN o.busts = Busted(t)
      BY <3>5, StacksAre
    <3> QED BY <3>2, <3>4, <3>6 DEF Busted
  <2> QED BY <1>6, <2>8, <2>10, <2>12, <2>13 DEF e
<1> QED BY <1>5, <1>6
(* Chips counted by player and by pot. *)

(* What a player put into each pot.                                        *)
CommittedTo(t, p) == [i \in 1..PotCount(t) |-> IF p \in Pots(t)[i].contributors THEN Pots(t)[i].each ELSE 0]

(* It adds up to what he committed.                                        *)
LEMMA CommittedByPot ==
  ASSUME NEW t, Legal(t), NEW p \in Players
  PROVE  /\ TotalOver(CommittedTo(t, p), 1..PotCount(t)) = t.committed[p]
         /\ \A i \in 1..PotCount(t) : CommittedTo(t, p)[i] \in Nat
<1> DEFINE n == PotCount(t)
           f == CommittedTo(t, p)
           e == Eaches(t)
<1>1. t.committed \in [Players -> Nat] /\ n \in Nat
  BY LevelIs DEF Legal
<1>2. \A i \in 1..n : e[i] \in Nat /\ f[i] = IF t.committed[p] >= Level(t, i) THEN e[i] ELSE 0
  BY <1>1, PotIs DEF Eaches, CommittedTo
<1>3. PICK j \in 0..n : Level(t, j) = t.committed[p]
  <2>1. CASE t.committed[p] = 0
    BY <1>1, <2>1 DEF Level
  <2>2. CASE t.committed[p] # 0
    <3>1. t.committed[p] \in Levels(t)
      BY <1>1, <2>2, LevelsAre
    <3>2. \E i \in 1..n : Level(t, i) = t.committed[p]
      BY <1>1, <3>1, LevelIs
    <3>3. \A i \in 1..n : i \in 0..n
      BY <1>1
    <3> QED BY <3>2, <3>3
  <2> QED BY <2>1, <2>2
<1>4. ASSUME NEW i \in 1..n PROVE t.committed[p] >= Level(t, i) <=> i <= j
  <2>1. Level(t, i) \in Nat /\ Level(t, i) > 0
    BY <1>1, LevelIs, LevelsAre
  <2>2. CASE j = 0
    <3>1. t.committed[p] = 0
      BY <1>3, <2>2 DEF Level
    <3> QED BY <2>1, <2>2, <3>1
  <2>3. CASE j # 0
    <3>1. j \in 1..n
      BY <1>1, <2>3
    <3>2. j < i <=> Level(t, j) < Level(t, i)
      BY <1>1, <3>1, LevelIs
    <3> QED BY <1>1, <1>3, <2>1, <3>1, <3>2
  <2> QED BY <2>2, <2>3
<1> HIDE DEF f, e, n
<1>5. 1..j \in SUBSET (1..n) /\ IsFiniteSet(1..n) /\ IsFiniteSet(1..j)
  BY <1>1, <1>3, FS_Interval
<1>6. TotalOver(f, 1..n) = TotalOver(f, 1..j)
  <2>1. \A i \in 1..n : f[i] \in Int
    BY <1>2
  <2>2. ASSUME NEW i \in (1..n) \ (1..j) PROVE f[i] = 0
    <3>1. i \in 1..n /\ ~(i <= j)
      BY <1>1, <1>3
    <3>2. ~(t.committed[p] >= Level(t, i))
      BY <3>1, <1>4
    <3> QED BY <3>1, <3>2, <1>2
  <2> QED BY <1>5, <2>1, <2>2, TotalOfZeros
<1>7. TotalOver(f, 1..j) = TotalOver(e, 1..j)
  <2>1. ASSUME NEW i \in 1..j PROVE f[i] \in Int /\ f[i] = e[i]
    <3>1. i \in 1..n /\ i <= j
      BY <1>1, <1>3
    <3> QED BY <3>1, <1>2, <1>4
  <2> QED BY <1>5, <2>1, SameTerms
<1>8. TotalOver(e, 1..j) = t.committed[p]
  BY <1>1, <1>3, EachesAddUp DEF e, n
<1>9. \A i \in 1..n : f[i] \in Nat
  BY <1>2
<1> QED BY <1>6, <1>7, <1>8, <1>9 DEF f, n

(* What the players put into a pot, and what they got out of it, are its   *)
(* amount.                                                                 *)
LEMMA PotBalance ==
  ASSUME NEW t, Legal(t), NEW i \in 1..PotCount(t)
  PROVE  /\ TotalOver([p \in Players |-> CommittedTo(t, p)[i]], Players) = Pots(t)[i].amount
         /\ TotalOver([p \in Players |-> PotShares(t, p)[i]], Players) = Pots(t)[i].amount
<1> DEFINE pot == Pots(t)[i]
           c == pot.contributors
           W == Winners(t, c)
           f == [p \in Players |-> CommittedTo(t, p)[i]]
           g == [p \in Players |-> PotShares(t, p)[i]]
<1>1. t.committed \in [Players -> Nat] /\ Players # {} /\ IsFiniteSet(Players)
  BY BountyAssumption DEF Legal
<1>2. /\ c \in RoomPots(t) /\ pot.amount = RoomAmount(t, c) /\ pot.each \in Nat
      /\ pot.amount = pot.each * Cardinality(c)
  BY <1>1, PotsAreRoomPots, PotIs
<1>3. c \in SUBSET Players /\ W \in SUBSET Players /\ IsFiniteSet(c) /\ IsFiniteSet(W)
  BY <1>2, WinnersAre
<1>4. \A p \in Players : f[p] = IF p \in c THEN pot.each ELSE 0
  BY DEF CommittedTo
<1>5. \A p \in Players : g[p] = IF p \in W THEN t.paid[c][p] ELSE 0
  <2>1. DOMAIN t.paid[c] = W
    BY <1>2, SharesAre
  <2> QED BY <2>1 DEF PotShares, Paid, PaidTo
<1>6. (\A p \in W : t.paid[c][p] \in Nat) /\ TotalOver(t.paid[c], W) = pot.amount
  BY <1>2, SharesAre
<1> HIDE DEF c, W, f, g
<1>7. TotalOver(f, Players) = pot.amount
  <2>1. TotalOver(f, Players) = TotalOver(f, c)
    <3>1. (\A p \in Players : f[p] \in Int) /\ \A p \in Players \ c : f[p] = 0
      BY <1>2, <1>4
    <3> QED BY <1>1, <1>3, <3>1, TotalOfZeros
  <2>2. TotalOver(f, c) = pot.each * Cardinality(c)
    <3>1. (\A p \in c : f[p] = pot.each) /\ pot.each \in Int
      BY <1>2, <1>3, <1>4
    <3> QED BY <1>3, <3>1, TotalOfConstant
  <2> QED BY <1>2, <2>1, <2>2
<1>8. TotalOver(g, Players) = pot.amount
  <2>1. TotalOver(g, Players) = TotalOver(g, W)
    <3>1. (\A p \in Players : g[p] \in Int) /\ \A p \in Players \ W : g[p] = 0
      BY <1>5, <1>6
    <3> QED BY <1>1, <1>3, <3>1, TotalOfZeros
  <2>2. TotalOver(g, W) = TotalOver(t.paid[c], W)
    <3>1. \A p \in W : g[p] \in Int /\ g[p] = t.paid[c][p]
      BY <1>3, <1>5, <1>6
    <3> QED BY <1>3, <3>1, SameTerms
  <2> QED BY <1>6, <2>1, <2>2
<1> QED BY <1>7, <1>8 DEF f, g

(* What the players committed is what they received: the two are sums of   *)
(* the same table, by player and by pot.                                   *)
LEMMA ChipsBalance ==
  ASSUME NEW t, Legal(t)
  PROVE  TotalOver(t.committed, Players) = TotalOver(Received(t), Players)
<1> DEFINE n == PotCount(t)
           N == 1..n
           a == [i \in N |-> Pots(t)[i].amount]
           F == [p \in Players |-> CommittedTo(t, p)]
           G == [p \in Players |-> PotShares(t, p)]
           Fs == [i \in N |-> [p \in Players |-> CommittedTo(t, p)[i]]]
           Gs == [i \in N |-> [p \in Players |-> PotShares(t, p)[i]]]
<1>1. IsFiniteSet(Players) /\ IsFiniteSet(N)
  <2>1. n \in Nat
    BY LevelIs DEF Legal
  <2> QED BY <2>1, BountyAssumption, FS_Interval
<1>2. \A p \in Players : /\ t.committed[p] = TotalOver(F[p], N)
                          /\ Received(t)[p] = TotalOver(G[p], N)
  BY CommittedByPot, ReceivedByPot
<1>3. \A i \in N : a[i] = TotalOver(Fs[i], Players) /\ a[i] = TotalOver(Gs[i], Players)
  BY PotBalance
<1>4. \A p \in Players : \A i \in N : /\ F[p][i] \in Int /\ Fs[i][p] = F[p][i]
                                      /\ G[p][i] \in Int /\ Gs[i][p] = G[p][i]
  BY CommittedByPot, ReceivedByPot
<1> HIDE DEF n, N, a, F, G, Fs, Gs
<1>5. RowTotals(t.committed, F, Players, N) /\ RowTotals(a, Fs, N, Players) /\ Transposed(F, Fs, Players, N)
  BY <1>2, <1>3, <1>4 DEF RowTotals, Transposed
<1>6. RowTotals(Received(t), G, Players, N) /\ RowTotals(a, Gs, N, Players) /\ Transposed(G, Gs, Players, N)
  BY <1>2, <1>3, <1>4 DEF RowTotals, Transposed
<1>7. TotalOver(t.committed, Players) = TotalOver(a, N)
  BY <1>1, <1>5, TotalsExchange
<1>8. TotalOver(Received(t), Players) = TotalOver(a, N)
  BY <1>1, <1>6, TotalsExchange
<1> QED BY <1>7, <1>8

(* Where what went in equals what came out, the stock is the same.         *)
LEMMA SameDeparts == \A x, u, r, c \in Int : u + r = x + c /\ c = r => x = u
OBVIOUS

(* Those eliminated are those who lost everything, and no chip appears or  *)
(* is lost.                                                                *)
LEMMA RealBusts ==
  ASSUME NEW t, NEW h, History(h, t), h.collected # NoAmounts \/ h.won # NoAmounts
  PROVE  /\ DOMAIN Normalize(h).busts = Busted(t)
         /\ Normalize(h).chipsKept /\ Normalize(h).potKept
<1> DEFINE o == Normalize(h)
           R == Received(t)
           P == Positive(R)
           S == o.stacks
<1>1. ObservedPayouts(h).best # Nothing
  BY ObservedIs
<1>2. Legal(t) /\ h.start = t.start /\ h.committed = t.committed
  BY HistoryTells DEF History
<1>3. R \in [Players -> Nat] /\ t.start \in [Players -> Nat] /\ t.committed \in [Players -> Nat] /\ IsFiniteSet(Players)
  BY <1>2, ReceivedIs, BountyAssumption DEF Legal
<1>4. /\ S = [p \in Players |-> t.start[p] - t.committed[p] + R[p]]
      /\ DOMAIN o.busts = Busted(t)
  BY <1>1, StacksAre
<1>5. /\ o.chipsKept = (Total(t.start) = Total(S))
      /\ o.potKept = (Total(t.committed) = Total(P))
  <2>1. ObservedPayouts(h).best = P
    BY <1>1, StacksAre
  <2>2. /\ o.chipsKept = (Total(h.start) = Total(S))
        /\ o.potKept = (Total(h.committed) = Total(ObservedPayouts(h).best))
    BY <1>1, NormalizeIs
  <2> HIDE DEF o, S, P
  <2> QED BY <1>2, <2>1, <2>2
<1>6. TotalOver(t.committed, Players) = TotalOver(R, Players)
  BY <1>2, ChipsBalance
<1> HIDE DEF o, R, S
<1>7. Total(t.committed) = TotalOver(t.committed, Players) /\ Total(t.start) = TotalOver(t.start, Players)
      /\ Total(S) = TotalOver(S, Players)
  <2>1. DOMAIN t.committed = Players /\ DOMAIN t.start = Players /\ DOMAIN S = Players
    BY <1>3, <1>4
  <2> QED BY <2>1, TotalIsRec
<1>8. Total(P) = TotalOver(R, Players)
  <2> DEFINE D == {p \in Players : R[p] > 0}
  <2>1. DOMAIN P = D /\ \A p \in D : P[p] = R[p]
    BY <1>3, PositiveIs
  <2>2. Total(P) = TotalOver(P, D)
    BY <2>1, TotalIsRec
  <2>3. D \in SUBSET Players /\ \A p \in Players \ D : R[p] = 0
    BY <1>3
  <2>4. \A p \in D : P[p] \in Int /\ P[p] = R[p]
    BY <2>1, <2>3, <1>3
  <2>5. \A p \in Players : R[p] \in Int
    BY <1>3
  <2> HIDE DEF D, P
  <2>6. IsFiniteSet(D)
    BY <1>3, <2>3, FS_Subset
  <2>7. TotalOver(P, D) = TotalOver(R, D)
    BY <2>4, <2>6, SameTerms
  <2>8. TotalOver(R, Players) = TotalOver(R, D)
    BY <1>3, <2>3, <2>5, TotalOfZeros
  <2> QED BY <2>2, <2>7, <2>8
<1>9. TotalOver(S, Players) = TotalOver(t.start, Players)
  <2> DEFINE g == [p \in Players |-> t.start[p] + R[p]]
  <2>1. \A p \in Players : t.start[p] \in Int /\ R[p] \in Int /\ t.committed[p] \in Int /\ S[p] \in Int
    BY <1>3, <1>4
  <2>2. \A p \in Players : g[p] = t.start[p] + R[p] /\ g[p] = S[p] + t.committed[p]
    BY <1>3, <1>4
  <2> HIDE DEF g
  <2>3. TotalOver(g, Players) = TotalOver(t.start, Players) + TotalOver(R, Players)
    BY <1>3, <2>1, <2>2, TotalOfSums
  <2>4. TotalOver(g, Players) = TotalOver(S, Players) + TotalOver(t.committed, Players)
    BY <1>3, <2>1, <2>2, TotalOfSums
  <2>5. /\ TotalOver(S, Players) \in Int /\ TotalOver(t.start, Players) \in Int
        /\ TotalOver(R, Players) \in Int /\ TotalOver(t.committed, Players) \in Int
    BY <1>3, <2>1, TotalOverStep
  <2>6. \A x, u, r, c \in Int : u + r = x + c /\ c = r => x = u
    BY SameDeparts
  <2>7. TotalOver(t.start, Players) + TotalOver(R, Players) = TotalOver(S, Players) + TotalOver(t.committed, Players)
    BY <2>3, <2>4, Zenon
  <2> QED BY <1>6, <2>5, <2>6, <2>7, Zenon
<1>10. o.chipsKept /\ o.potKept
  BY <1>5, <1>6, <1>7, <1>8, <1>9
<1> QED BY <1>4, <1>10 DEF o

-----------------------------------------------------------------------------
(* The specification.                                                      *)

(* The inductive invariant: the deal is legal and paid out by the rules,   *)
(* the hand is a history of it, and the outcome is what the core made of   *)
(* that history.  Everything above is about such hands.                    *)
AsDealt ==
  /\ Legal(table)
  /\ hand # None => History(hand, table)
  /\ outcome # None => hand # None /\ outcome = Normalize(hand)

(* The room's splits depend on commitments, folds and cards alone.         *)
LEMMA SamePayments ==
  ASSUME NEW t, NEW d, t.committed = d.committed, t.folded = d.folded, t.away = d.away,
         t.strength = d.strength
  PROVE  Payments(t) = Payments(d)
<1>1. (\A k : AtLeast(t, k) = AtLeast(d, k)) /\ Chips(t) = Chips(d) /\ InHand(t) = InHand(d)
  BY DEF AtLeast, Chips, InHand
<1>2. RoomPots(t) = RoomPots(d) /\ (\A c : RoomAmount(t, c) = RoomAmount(d, c))
  BY <1>1 DEF RoomPots, RoomAmount
<1>3. \A c : Winners(t, c) = Winners(d, c)
  BY <1>1 DEF Winners
<1>4. \A c : RoomShares(t, c) = RoomShares(d, c)
  BY <1>2, <1>3 DEF RoomShares
<1> QED BY <1>2, <1>4 DEF Payments

(* The deal is legal and paid out by the rules.                            *)
LEMMA AsDealtInit == Init => AsDealt
<1> SUFFICES ASSUME Init PROVE AsDealt
  OBVIOUS
<1>1. PICK deal \in Deals : \E paid \in Payments(deal) : table = [deal EXCEPT !.paid = paid]
  BY DEF Init
<1>2. PICK paid \in Payments(deal) : table = [deal EXCEPT !.paid = paid]
  BY <1>1
<1>3. /\ deal \in [start : [Players -> Nat], committed : [Players -> Nat],
                  folded : SUBSET Players, away : SUBSET Players,
                  strength : [Players -> Nat], hero : Players, paid : {None}]
      /\ \A p \in Players : deal.committed[p] <= deal.start[p]
      /\ \E p \in Players : deal.committed[p] > 0
      /\ \A p \in Players : deal.committed[p] > 0 =>
           \E q \in Players \ (deal.folded \cup deal.away) : deal.committed[q] >= deal.committed[p]
  BY DealAssumption
<1>4. /\ table.start = deal.start /\ table.committed = deal.committed /\ table.folded = deal.folded
      /\ table.away = deal.away /\ table.strength = deal.strength /\ table.hero = deal.hero
      /\ table.paid = paid
  BY <1>2, <1>3
<1>5. table.paid \in Payments(table)
  BY <1>2, <1>4, SamePayments
<1>6. /\ deal.start \in [Players -> Nat] /\ deal.committed \in [Players -> Nat]
      /\ deal.strength \in [Players -> Nat] /\ deal.hero \in Players
  BY <1>3
<1>7. Legal(table)
  BY <1>3, <1>4, <1>5, <1>6 DEF Legal
<1> QED BY <1>7 DEF AsDealt, Init

(* A history is written of it, the core reads that history, and neither    *)
(* changes it.                                                             *)
LEMMA AsDealtNext == AsDealt /\ [Next]_vars => AsDealt'
<1> SUFFICES ASSUME AsDealt, [Next]_vars PROVE AsDealt'
  OBVIOUS
<1>1. CASE WriteHistory
  <2>1. table' = table /\ outcome' = outcome /\ hand = None
    BY <1>1 DEF WriteHistory
  <2>2. \E shown \in SUBSET InHand(table), report \in Reports : hand' = HistoryOf(table, shown, report)
    BY <1>1 DEF WriteHistory
  <2>3. History(hand', table)
    BY <2>2 DEF History, AsDealt
  <2> QED BY <2>1, <2>3 DEF AsDealt
<1>2. CASE NormalizeHand
  BY <1>2 DEF NormalizeHand, AsDealt
<1>3. CASE DrawBounties
  <2>1. table' = table /\ hand' = hand /\ outcome' = outcome
    BY <1>3 DEF DrawBounties
  <2> QED BY <2>1 DEF AsDealt
<1>4. CASE DecodeBounties
  <2>1. table' = table /\ hand' = hand /\ outcome' = outcome
    BY <1>4 DEF DecodeBounties
  <2> QED BY <2>1 DEF AsDealt
<1>5. CASE UNCHANGED vars
  BY <1>5 DEF AsDealt, vars
<1> QED BY <1>1, <1>2, <1>3, <1>4, <1>5 DEF Next

(* Whatever the deal, the report and the cards shown, the hand in the core *)
(* is a history of the table and the outcome is what normalize_hand makes  *)
(* of it.                                                                  *)
THEOREM AsDealtHolds == Spec => []AsDealt
BY AsDealtInit, AsDealtNext, PTL DEF Spec

(* No settlement the core calls exact differs from what the room paid: for *)
(* every number of players, stacks, side pots, splits, odd chips and ways  *)
(* to report them.                                                         *)
THEOREM ExactIsTruthHolds == Spec => []ExactIsTruth
<1>1. AsDealt => ExactIsTruth
  <2> SUFFICES ASSUME AsDealt, outcome # None, outcome.settlement.certainty = "exact",
                      NEW i \in DOMAIN outcome.settlement.pots
               PROVE  LET pot == outcome.settlement.pots[i]
                      IN /\ pot.amount = RoomAmount(table, pot.contributors)
                         /\ outcome.settlement.selected[i] = table.paid[pot.contributors]
    BY DEF ExactIsTruth
  <2>1. History(hand, table) /\ outcome = Normalize(hand)
    BY DEF AsDealt
  <2>2. outcome.settlement = Settle(hand)
    BY <2>1, NormalizeIs
  <2> QED BY <2>1, <2>2, ExactSettlement
<1> QED BY <1>1, AsDealtHolds, PTL

(* A hand whose cards and amounts are all known is settled, whatever its   *)
(* pots, unless odd chips could have come from different pots.             *)
THEOREM KnownHandSettlesHolds == Spec => []KnownHandSettles
<1>1. AsDealt => KnownHandSettles
  <2> SUFFICES ASSUME AsDealt, outcome # None, ~hand.invalid, Known(hand, table)
               PROVE  outcome.settlement.certainty = "exact" \/ outcome.settlement.issue = "multiple_allocations"
    BY DEF KnownHandSettles, Known
  <2>1. History(hand, table) /\ outcome = Normalize(hand)
    BY DEF AsDealt
  <2>2. outcome.settlement = Settle(hand)
    BY <2>1, NormalizeIs
  <2> QED BY <2>1, <2>2, KnownSettlement
<1> QED BY <1>1, AsDealtHolds, PTL

(* A knockout that is certain is credited to those who won the last pot of *)
(* the eliminated player, by their exact shares; they covered him and      *)
(* survived.                                                               *)
THEOREM KnockoutIsFairHolds == Spec => []KnockoutIsFair
<1>1. AsDealt => KnockoutIsFair
  <2> SUFFICES ASSUME AsDealt, outcome # None PROVE KnockoutIsFair
    BY DEF KnockoutIsFair
  <2>1. History(hand, table) /\ outcome = Normalize(hand)
    BY DEF AsDealt
  <2> QED BY <2>1, FairElimination DEF KnockoutIsFair
<1> QED BY <1>1, AsDealtHolds, PTL

(* A history with the amounts tells exactly who was eliminated, and the    *)
(* chips of the final stacks are those that were dealt.                    *)
THEOREM BustsAreRealHolds == Spec => []BustsAreReal
<1>1. AsDealt => BustsAreReal
  <2> SUFFICES ASSUME AsDealt, outcome # None, hand.collected # NoAmounts \/ hand.won # NoAmounts
               PROVE  DOMAIN outcome.busts = Busted(table) /\ outcome.chipsKept /\ outcome.potKept
    BY DEF BustsAreReal
  <2>1. History(hand, table) /\ outcome = Normalize(hand)
    BY DEF AsDealt
  <2> QED BY <2>1, RealBusts
<1> QED BY <1>1, AsDealtHolds, PTL
-----------------------------------------------------------------------------
(* The cents of a share.                                                   *)

LEMMA DivIs ==
  ASSUME NEW x \in Nat, NEW y \in Nat \ {0}
  PROVE  /\ x \div y \in Nat /\ x % y \in 0..(y - 1)
         /\ x = y * (x \div y) + (x % y)
OBVIOUS

LEMMA Larger ==
  ASSUME NEW y \in Nat, NEW a \in Int, NEW b \in Int, a <= b
  PROVE  y * a <= y * b
<1>1. y * (b - a) >= 0
  <2> DEFINE d == b - a
  <2>1. d \in Nat
    OBVIOUS
  <2>2. y * d >= 0
    <3> HIDE DEF d
    <3> QED BY <2>1, SMT
  <2> QED BY <2>2
<1>2. y * (b - a) = y * b - y * a
  BY SMT
<1>3. y * a \in Int /\ y * b \in Int
  BY SMT
<1> QED BY <1>1, <1>2, <1>3

LEMMA Divided ==
  ASSUME NEW y \in Nat \ {0}, NEW a \in Int, NEW b \in Int, y * a < y * b
  PROVE  a < b
<1>1. y * a \in Int /\ y * b \in Int
  BY SMT
<1> QED BY <1>1, Larger

(* A quotient is what fits below.                                          *)
LEMMA QuotientIs ==
  ASSUME NEW x \in Nat, NEW y \in Nat \ {0}, NEW q \in Int, y * q <= x, x < y * (q + 1)
  PROVE  x \div y = q /\ x = y * q + (x % y) /\ x % y \in Nat
<1> DEFINE k == x \div y
           r == x % y
<1>1. k \in Nat /\ r \in Nat /\ r < y /\ x = y * k + r
  BY DivIs
<1> HIDE DEF k, r
<1>2. y * k \in Int /\ y * q \in Int /\ y * (k + 1) = y * k + y /\ y * (q + 1) = y * q + y
  BY <1>1, SMT
<1>3. y * k < y * (q + 1) /\ y * q < y * (k + 1)
  BY <1>1, <1>2
<1>4. k < q + 1 /\ q < k + 1
  BY <1>1, <1>3, Divided
<1>5. k = q
  BY <1>1, <1>4
<1> QED BY <1>1, <1>5 DEF k, r

(* What rounding to a millionth can move.                                  *)
LEMMA RoundedShare ==
  ASSUME NEW S \in Nat \ {0}, NEW c \in Nat \ {0}, NEW s \in Nat \ {0}, NEW o \in Nat \ {0},
         NEW a \in Nat, NEW b \in Nat \ {0}, s * b = o * a, c * b < 2 * S,
         NEW m \in Nat, 2 * o * m <= 2 * s * S + o, 2 * s * S + o < 2 * o * (m + 1)
  PROVE  b * (c * m) < (a * c + 1) * S /\ (a * c - 1) * S < b * (c * m)
<1>1. o * (2 * b * m) <= o * (2 * a * S + b)
  <2>1. b * (2 * o * m) <= b * (2 * s * S + o)
    <3>1. 2 * o * m \in Int /\ 2 * s * S + o \in Int
      BY SMT
    <3> QED BY <3>1, Larger
  <2>2. b * (2 * o * m) = o * (2 * b * m)
    BY SMT
  <2>3. b * (2 * s * S + o) = 2 * (s * b) * S + b * o /\ o * (2 * a * S + b) = 2 * (o * a) * S + b * o
    BY SMT
  <2> QED BY <2>1, <2>2, <2>3
<1>2. o * (2 * a * S + b) < o * (2 * b * (m + 1))
  <2>1. 2 * s * S + o + 1 <= 2 * o * (m + 1) /\ 2 * s * S + o + 1 \in Int /\ 2 * o * (m + 1) \in Int
    BY SMT
  <2>2. b * (2 * s * S + o + 1) <= b * (2 * o * (m + 1))
    BY <2>1, Larger
  <2>3. b * (2 * o * (m + 1)) = o * (2 * b * (m + 1))
    BY SMT
  <2>4. b * (2 * s * S + o + 1) = 2 * (s * b) * S + b * o + b /\ o * (2 * a * S + b) = 2 * (o * a) * S + b * o
    BY SMT
  <2>5. 2 * (s * b) * S = 2 * (o * a) * S /\ 2 * (o * a) * S + b * o \in Int /\ o * (2 * b * (m + 1)) \in Int
    BY SMT
  <2> QED BY <2>2, <2>3, <2>4, <2>5
<1>3. 2 * b * m <= 2 * a * S + b
  <2>1. 2 * b * m \in Int /\ 2 * a * S + b \in Int /\ o * (2 * b * m) \in Int /\ o * (2 * a * S + b) \in Int
    BY SMT
  <2>2. ~(2 * a * S + b + 1 <= 2 * b * m)
    <3> SUFFICES ASSUME 2 * a * S + b + 1 <= 2 * b * m PROVE FALSE
      OBVIOUS
    <3>1. o * (2 * a * S + b + 1) <= o * (2 * b * m)
      BY <2>1, Larger
    <3>2. o * (2 * a * S + b + 1) = o * (2 * a * S + b) + o
      BY SMT
    <3> QED BY <1>1, <2>1, <3>1, <3>2
  <2> QED BY <2>1, <2>2
<1>4. 2 * a * S + b < 2 * b * (m + 1)
  <2>1. 2 * a * S + b \in Int /\ 2 * b * (m + 1) \in Int
    BY SMT
  <2> QED BY <1>2, <2>1, Divided
<1> DEFINE X == a * c * S
           M == b * (c * m)
           d == c * b
<1>5. X \in Int /\ M \in Int /\ d \in Int /\ d < 2 * S
  BY SMT
<1>6. 2 * M <= 2 * X + d
  <2>1. c * (2 * b * m) <= c * (2 * a * S + b)
    <3>1. 2 * b * m \in Int /\ 2 * a * S + b \in Int
      BY SMT
    <3> QED BY <1>3, <3>1, Larger
  <2>2. c * (2 * b * m) = 2 * M /\ c * (2 * a * S + b) = 2 * X + d
    BY SMT
  <2> QED BY <2>1, <2>2
<1>7. 2 * X < 2 * M + d
  <2>1. c * (2 * a * S + b + 1) <= c * (2 * b * (m + 1))
    <3>1. 2 * b * (m + 1) \in Int /\ 2 * a * S + b + 1 \in Int /\ 2 * a * S + b + 1 <= 2 * b * (m + 1)
      BY <1>4, SMT
    <3> QED BY <3>1, Larger
  <2>2. c * (2 * b * (m + 1)) = 2 * M + 2 * d /\ c * (2 * a * S + b + 1) = 2 * X + d + c
    BY SMT
  <2>3. 2 * X + d + c <= 2 * M + 2 * d
    BY <2>1, <2>2
  <2> HIDE DEF X, M, d
  <2> QED BY <2>3, <1>5
<1>8. (a * c + 1) * S = X + S /\ (a * c - 1) * S = X - S
  BY SMT
<1>9. M < X + S /\ X - S < M
  <2> HIDE DEF X, M, d
  <2> QED BY <1>5, <1>6, <1>7
<1> QED BY <1>8, <1>9

(* A share that tells its cents: the cents rounded down, and the next when *)
(* it does not come out even, are candidates of the share as it is stored  *)
(* (split_bounty.rs: project_split_bounty_share).                          *)
THEOREM ShareKeepsItsCent ==
  ASSUME NEW cents \in Nat \ {0}, NEW share \in Nat \ {0}, NEW of \in Nat \ {0},
         KeepsItsCent(cents, share, of)
  PROVE  LET even == (share * cents) \div of
         IN /\ even \in CandidateCents(cents, Micros(share, of))
            /\ (share * cents) % of # 0 =>
                 even + 1 \in CandidateCents(cents, Micros(share, of))
<1> DEFINE S == ShareScale
           m == Micros(share, of)
           f == (cents * m) \div S
           rest == (cents * m) % S
<1>1. S \in Nat \ {0}
  BY SMT DEF ShareScale
<1>2. PICK b \in 1..of : (share * b) % of = 0 /\ cents * b < 2 * S
  BY DEF KeepsItsCent
<1> DEFINE a == (share * b) \div of
<1>3. b \in Nat \ {0} /\ share * b \in Nat /\ share * b > 0
  BY SMT
<1>4. a \in Nat /\ share * b = of * a /\ a > 0
  <2> DEFINE x == share * b
  <2>1. x \in Nat /\ x > 0 /\ x % of = 0
    BY <1>2, <1>3
  <2> HIDE DEF x
  <2>2. x \div of \in Nat /\ x = of * (x \div of) + (x % of)
    BY <2>1, DivIs, Zenon
  <2> DEFINE k == x \div of
  <2>3. k \in Nat /\ x = of * k
    <3> HIDE DEF k
    <3>1. k \in Nat /\ x = of * k + 0
      BY <2>1, <2>2 DEF k
    <3> QED BY <3>1, SMT
  <2>4. k > 0
    <3> HIDE DEF k
    <3> QED BY <2>1, <2>3, SMT
  <2> QED BY <2>3, <2>4 DEF x
<1>5. m \in Nat /\ 2 * of * m <= 2 * share * S + of /\ 2 * share * S + of < 2 * of * (m + 1)
  <2> DEFINE x == 2 * share * S + of
             y == 2 * of
  <2>1. x \in Nat /\ y \in Nat \ {0}
    BY <1>1, SMT
  <2>2. m = x \div y
    BY SMT DEF Micros
  <2> HIDE DEF x, y, m
  <2>3. x \div y \in Nat /\ x % y \in 0..(y - 1) /\ x = y * (x \div y) + (x % y)
    BY <2>1, DivIs
  <2>4. m \in Nat /\ y * m <= x /\ x < y * m + y
    BY <2>1, <2>2, <2>3, SMT
  <2>5. y * m + y = y * (m + 1)
    BY <2>1, <2>4, SMT
  <2> QED BY <2>4, <2>5 DEF x, y
<1> HIDE DEF S, m, a
<1> DEFINE N == a * cents
           q == N \div b
           r == N % b
<1>6. b * (cents * m) < (N + 1) * S /\ (N - 1) * S < b * (cents * m)
  BY <1>1, <1>2, <1>3, <1>4, <1>5, RoundedShare
<1>7. q \in Nat /\ r \in Nat /\ r < b /\ N = b * q + r /\ N \in Nat /\ N > 0
  <2>1. N \in Nat /\ N > 0
    BY <1>4, SMT
  <2> HIDE DEF N
  <2>2. N \div b \in Nat /\ N % b \in 0..(b - 1) /\ N = b * (N \div b) + (N % b)
    BY <1>3, <2>1, DivIs, Zenon
  <2>3. q \in Nat /\ r \in 0..(b - 1) /\ N = b * q + r
    BY <2>2
  <2> HIDE DEF q, r
  <2> QED BY <1>3, <2>1, <2>3
<1>8. (share * cents) \div of = q /\ ((share * cents) % of # 0 => r # 0)
  <2> DEFINE x == share * cents
  <2>1. x \in Nat /\ b * x = of * N
    <3>1. b * x = (share * b) * cents /\ of * N = (of * a) * cents
      BY <1>4, SMT
    <3> QED BY <1>4, <3>1, SMT
  <2> HIDE DEF x, N, q, r
  <2>2. b * (of * q) <= b * x /\ b * x < b * (of * (q + 1))
    <3>1. b * q <= N /\ N < b * (q + 1) /\ b * q \in Int /\ b * (q + 1) \in Int
      BY <1>3, <1>7, SMT
    <3>2. of * (b * q) <= of * N
      BY <1>7, <3>1, Larger
    <3>3. of * (N + 1) <= of * (b * (q + 1))
      <4>1. N + 1 <= b * (q + 1) /\ N + 1 \in Int
        BY <1>7, <3>1
      <4> QED BY <3>1, <4>1, Larger
    <3>4. of * (b * q) = b * (of * q) /\ of * (b * (q + 1)) = b * (of * (q + 1)) /\ of * (N + 1) = of * N + of
      BY <1>3, <1>7, SMT
    <3> QED BY <1>3, <1>7, <2>1, <3>2, <3>3, <3>4, SMT
  <2>3. of * q <= x /\ x < of * (q + 1)
    <3>1. of * q \in Int /\ of * (q + 1) \in Int
      BY <1>7, SMT
    <3>2. x < of * (q + 1)
      BY <1>3, <2>1, <2>2, <3>1, Divided
    <3>3. b * (of * q) < b * (x + 1)
      <4>1. b * (x + 1) = b * x + b /\ b * x \in Int /\ b * (of * q) \in Int
        BY <1>3, <1>7, <2>1, SMT
      <4> QED BY <1>3, <2>2, <4>1
    <3>4. of * q < x + 1
      BY <1>3, <2>1, <3>1, <3>3, Divided
    <3> QED BY <2>1, <3>1, <3>2, <3>4
  <2>4. x \div of = q /\ x = of * q + (x % of) /\ x % of \in Nat
    <3>1. of \in Nat \ {0} /\ q \in Int
      BY <1>7
    <3> QED BY <2>1, <2>3, <3>1, QuotientIs, Zenon
  <2>5. ASSUME r = 0 PROVE x % of = 0
    <3>1. b * x = b * (of * q)
      BY <1>3, <1>7, <2>1, <2>5, SMT
    <3>2. of * q \in Int
      BY <1>7, SMT
    <3>3. x % of = x - of * q
      BY <2>1, <2>4, <3>2
    <3>4. ~(x < of * q) /\ ~(of * q < x)
      <4>1. ASSUME of * q < x PROVE FALSE
        <5>1. b * (of * q + 1) <= b * x
          BY <1>3, <2>1, <3>2, <4>1, Larger
        <5>2. b * (of * q + 1) = b * (of * q) + b /\ b * (of * q) \in Int
          BY <1>3, <1>7, SMT
        <5> QED BY <1>3, <3>1, <5>1, <5>2
      <4> QED BY <2>1, <2>3, <3>2, <4>1
    <3> QED BY <2>1, <3>2, <3>3, <3>4
  <2> QED BY <2>4, <2>5 DEF x
<1> DEFINE V == cents * m
<1>9. V \in Nat
  BY <1>5, SMT
<1> HIDE DEF N, q, r
<1>10. V < S * (q + 1) /\ S * (q - 1) < V /\ (r # 0 => S * q < V)
  <2>1. b * V < b * (S * (q + 1))
    <3>1. (N + 1) * S = S * (N + 1) /\ b * (S * (q + 1)) = S * (b * q + b) /\ b * q \in Int
      BY <1>1, <1>3, <1>7, SMT
    <3>2. S * (N + 1) <= S * (b * q + b)
      BY <1>1, <1>3, <1>7, <3>1, Larger
    <3>3. b * V \in Int /\ S * (N + 1) \in Int /\ b * (S * (q + 1)) \in Int
      BY <1>1, <1>3, <1>7, <1>9, SMT
    <3> QED BY <1>6, <3>1, <3>2, <3>3
  <2>2. ASSUME NEW k \in Int, b * k <= N - 1 PROVE b * (S * k) < b * V
    <3>1. b * (S * k) = S * (b * k) /\ (N - 1) * S = S * (N - 1) /\ b * k \in Int
      BY <1>1, <1>3, <1>7, SMT
    <3>2. S * (b * k) <= S * (N - 1)
      BY <1>1, <1>7, <2>2, <3>1, Larger
    <3>3. b * V \in Int /\ S * (N - 1) \in Int /\ b * (S * k) \in Int
      BY <1>1, <1>3, <1>7, <1>9, SMT
    <3> QED BY <1>6, <3>1, <3>2, <3>3
  <2>3. b * (q - 1) <= N - 1 /\ (r # 0 => b * q <= N - 1)
    <3>1. b * (q - 1) = b * q - b /\ b * q \in Int
      BY <1>3, <1>7, SMT
    <3> QED BY <1>3, <1>7, <3>1
  <2>4. b * (S * (q - 1)) < b * V /\ (r # 0 => b * (S * q) < b * V)
    BY <1>7, <2>2, <2>3
  <2>5. S * (q + 1) \in Int /\ S * (q - 1) \in Int /\ S * q \in Int
    BY <1>1, <1>7, SMT
  <2> HIDE DEF V
  <2> QED BY <1>3, <1>9, <2>1, <2>4, <2>5, Divided
<1>11. m > 0
  <2>1. V > 0
    <3>1. CASE q >= 1
      <4>1. S * (q - 1) >= 0
        BY <1>1, <1>7, <3>1, SMT
      <4>2. S * (q - 1) \in Int
        BY <1>1, <1>7, SMT
      <4> HIDE DEF V
      <4> QED BY <1>9, <1>10, <4>1, <4>2
    <3>2. CASE q = 0
      <4>1. r # 0
        BY <1>3, <1>7, <3>2, SMT
      <4>2. S * q = 0
        BY <1>1, <3>2, SMT
      <4> HIDE DEF V
      <4> QED BY <1>9, <1>10, <4>1, <4>2
    <3> QED BY <1>7, <3>1, <3>2
  <2> QED BY <1>5, <2>1, SMT
<1>12. CandidateCents(cents, m) = IF rest = 0 THEN {f} ELSE {f, f + 1}
  BY <1>5, <1>11 DEF CandidateCents, S
<1>13. CASE S * q <= V
  <2>1. f = q /\ V = S * q + rest /\ rest \in Nat
    <3> HIDE DEF V
    <3>1. V \div S = q /\ V = S * q + (V % S) /\ V % S \in Nat
      <4>1. q \in Int
        BY <1>7
      <4> QED BY <1>1, <1>9, <1>10, <1>13, <4>1, QuotientIs, Zenon
    <3> QED BY <3>1 DEF V
  <2>2. r # 0 => rest # 0
    <3>1. S * q \in Int
      BY <1>1, <1>7, SMT
    <3> HIDE DEF V, rest, f
    <3> QED BY <1>9, <1>10, <2>1, <3>1
  <2> HIDE DEF f, rest
  <2> QED BY <1>8, <1>12, <2>1, <2>2 DEF m
<1>14. CASE V < S * q
  <2>1. f = q - 1 /\ V = S * (q - 1) + rest /\ rest \in Nat
    <3> HIDE DEF V
    <3>1. S * (q - 1) \in Int /\ S * q \in Int /\ (q - 1) + 1 = q /\ q - 1 \in Int
      BY <1>1, <1>7, SMT
    <3>2. V \div S = q - 1 /\ V = S * (q - 1) + (V % S) /\ V % S \in Nat
      <4>1. V < S * ((q - 1) + 1) /\ S * (q - 1) <= V
        BY <1>9, <1>10, <1>14, <3>1
      <4> QED BY <1>1, <1>9, <3>1, <4>1, QuotientIs, Zenon
    <3> QED BY <3>2 DEF V
  <2>2. rest # 0 /\ r = 0
    <3>1. S * (q - 1) \in Int /\ S * q \in Int
      BY <1>1, <1>7, SMT
    <3> HIDE DEF V, rest, f
    <3> QED BY <1>9, <1>10, <1>14, <2>1, <3>1
  <2>3. q \in {f, f + 1}
    <3> HIDE DEF f
    <3> QED BY <1>7, <2>1
  <2> HIDE DEF f, rest
  <2> QED BY <1>8, <1>12, <2>2, <2>3 DEF m
<1>15. S * q \in Int
  BY <1>1, <1>7, SMT
<1> HIDE DEF V
<1> QED BY <1>9, <1>13, <1>14, <1>15

(* Beyond that bound the cents paid may be no candidate: a third of thirty *)
(* thousand dollars is ten thousand, and the decoder knows one cent less.  *)
THEOREM ShareLosesItsCent ==
  /\ (1 * 3000000) \div 3 = 1000000 /\ (1 * 3000000) % 3 = 0
  /\ CandidateCents(3000000, Micros(1, 3)) = {999999}
  /\ ~KeepsItsCent(3000000, 1, 3)
<1>1. Micros(1, 3) = 333333
  BY SMT DEF Micros, ShareScale
<1>2. (3000000 * 333333) \div 1000000 = 999999 /\ (3000000 * 333333) % 1000000 = 0
  BY SMT
<1>3. CandidateCents(3000000, 333333) = {999999}
  BY <1>2, SMT DEF CandidateCents, ShareScale
<1>4. ~KeepsItsCent(3000000, 1, 3)
  BY SMT DEF KeepsItsCent, ShareScale
<1>5. (1 * 3000000) \div 3 = 1000000 /\ (1 * 3000000) % 3 = 0
  BY SMT
<1> QED BY <1>1, <1>3, <1>4, <1>5, SMT
=============================================================================
