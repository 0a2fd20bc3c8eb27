--------------------------- MODULE HandLineProofs ---------------------------
(***************************************************************************)
(* Rows of seats that go clockwise, what one line of a hand does to the    *)
(* three replays, stage by stage of the code, and the theorems about       *)
(* arbitrary histories (HandHistory) that follow.  HandTableProofs builds  *)
(* on the same lemmas for legal hands.                                     *)
(***************************************************************************)
EXTENDS HandHistory, TotalsProofs, TLAPS

-----------------------------------------------------------------------------
(* Seats in a row.                                                         *)

(* The seats that are passed from one seat clockwise to another, and rows  *)
(* that go clockwise, once around at most.                                 *)
Steps(from, s) == (s - from - 1) % MaxSeats
Clockwise(row, from) ==
  /\ row \in Seq(Seats)
  /\ \A i, j \in 1..Len(row) : i < j => Steps(from, row[i]) < Steps(from, row[j])

(* The remainder, without division.                                        *)
LEMMA StepsAre ==
  ASSUME NEW from \in 0..MaxSeats, NEW s \in Seats
  PROVE  /\ Steps(from, s) = IF s > from THEN s - from - 1 ELSE s - from - 1 + MaxSeats
         /\ Steps(from, s) \in 0..(MaxSeats - 1)
<1>1. MaxSeats \in Nat /\ MaxSeats > 0 /\ from \in Int /\ s \in Int
  BY TableAssumption DEF Seats
<1>2. 0 <= from /\ from <= MaxSeats /\ 1 <= s /\ s <= MaxSeats
  BY <1>1 DEF Seats
<1>3. ASSUME NEW n \in Int, 0 <= n, n < MaxSeats PROVE n % MaxSeats = n
  BY <1>1, <1>3
<1>4. ASSUME NEW n \in Int, 0 - MaxSeats <= n, n < 0 PROVE n % MaxSeats = n + MaxSeats
  BY <1>1, <1>4
<1> DEFINE n == s - from - 1
<1>5. n \in Int /\ Steps(from, s) = n % MaxSeats
  BY <1>1 DEF Steps
<1>6. CASE s > from
  <2>1. 0 <= n /\ n < MaxSeats
    BY <1>1, <1>2, <1>6
  <2>2. n % MaxSeats = n
    BY <1>3, <1>5, <2>1
  <2> QED BY <1>1, <1>5, <1>6, <2>1, <2>2
<1>7. CASE ~(s > from)
  <2>1. 0 - MaxSeats <= n /\ n < 0
    BY <1>1, <1>2, <1>7
  <2>2. n % MaxSeats = n + MaxSeats
    BY <1>4, <1>5, <2>1
  <2> QED BY <1>1, <1>5, <1>7, <2>1, <2>2
<1> QED BY <1>6, <1>7

(* Two seats are not as far, and the steps add up around the table.        *)
LEMMA StepsDiffer ==
  ASSUME NEW from \in 0..MaxSeats, NEW s \in Seats, NEW t \in Seats
  PROVE  /\ Steps(from, s) = Steps(from, t) => s = t
         /\ Steps(s, t) = IF Steps(from, s) < Steps(from, t)
                            THEN Steps(from, t) - Steps(from, s) - 1
                            ELSE Steps(from, t) - Steps(from, s) - 1 + MaxSeats
<1>1. MaxSeats \in Nat /\ from \in Nat /\ s \in Nat /\ t \in Nat /\ s \in 0..MaxSeats
  BY TableAssumption DEF Seats
<1>2. /\ Steps(from, s) = IF s > from THEN s - from - 1 ELSE s - from - 1 + MaxSeats
      /\ Steps(from, t) = IF t > from THEN t - from - 1 ELSE t - from - 1 + MaxSeats
      /\ Steps(s, t) = IF t > s THEN t - s - 1 ELSE t - s - 1 + MaxSeats
  BY <1>1, StepsAre
<1>3. 0 <= from /\ from <= MaxSeats /\ 1 <= s /\ s <= MaxSeats /\ 1 <= t /\ t <= MaxSeats
  BY <1>1 DEF Seats
<1> QED BY <1>1, <1>2, <1>3

(* A row that goes clockwise names nobody twice.                           *)
LEMMA RowCounts ==
  ASSUME NEW from \in 0..MaxSeats, NEW row, Clockwise(row, from)
  PROVE  /\ \A i, j \in 1..Len(row) : row[i] = row[j] => i = j
         /\ Range(row) = {row[i] : i \in 1..Len(row)} /\ Range(row) \subseteq Seats
         /\ Len(row) \in Nat /\ Cardinality(Range(row)) = Len(row)
<1>1. /\ row \in Seq(Seats) /\ Len(row) \in Nat /\ DOMAIN row = 1..Len(row)
      /\ \A i \in 1..Len(row) : row[i] \in Seats
  BY DEF Clockwise
<1>2. ASSUME NEW i \in 1..Len(row), NEW j \in 1..Len(row), i < j PROVE row[i] # row[j]
  <2>1. Steps(from, row[i]) < Steps(from, row[j])
    BY <1>2 DEF Clockwise
  <2>2. Steps(from, row[i]) \in Int /\ Steps(from, row[j]) \in Int
    BY <1>1, StepsAre
  <2> QED BY <2>1, <2>2
<1>3. \A i, j \in 1..Len(row) : row[i] = row[j] => i = j
  <2> SUFFICES ASSUME NEW i \in 1..Len(row), NEW j \in 1..Len(row), row[i] = row[j] PROVE i = j
    OBVIOUS
  <2>1. ~(i < j) /\ ~(j < i)
    BY <1>2
  <2> QED BY <1>1, <2>1
<1>4. Range(row) = {row[i] : i \in 1..Len(row)} /\ Range(row) \subseteq Seats
  BY <1>1 DEF Range
<1>5. row \in Bijection(1..Len(row), Range(row))
  <2>1. row \in [1..Len(row) -> Range(row)]
    BY <1>1, <1>4
  <2> QED BY <1>3, <1>4, <2>1 DEF Bijection, Injection, Surjection, IsInjective
<1>6. IsFiniteSet(1..Len(row)) /\ Cardinality(1..Len(row)) = Len(row)
  <2>1. Len(row) \in Int /\ 1 \in Int /\ (1 > Len(row) => Len(row) = 0)
    BY <1>1
  <2>2. Cardinality(1..Len(row)) = IF 1 > Len(row) THEN 0 ELSE Len(row) - 1 + 1
    BY <2>1, FS_Interval
  <2>3. IsFiniteSet(1..Len(row))
    BY <2>1, FS_Interval
  <2> QED BY <1>1, <2>1, <2>2, <2>3
<1>7. Cardinality(Range(row)) = Len(row)
  BY <1>5, <1>6, FS_Bijection DEF ExistsBijection
<1> QED BY <1>1, <1>3, <1>4, <1>7

(* What is left of a row after its first seat goes clockwise from there.   *)
LEMMA RowOnward ==
  ASSUME NEW from \in 0..MaxSeats, NEW row, Clockwise(row, from), row # <<>>
  PROVE  /\ Head(row) \in Range(row) /\ Clockwise(Tail(row), Head(row))
         /\ Range(Tail(row)) = Range(row) \ {Head(row)}
<1>1. /\ row \in Seq(Seats) /\ Len(row) \in Nat /\ Len(row) >= 1
      /\ \A i \in 1..Len(row) : row[i] \in Seats
      /\ \A i, j \in 1..Len(row) : i < j => Steps(from, row[i]) < Steps(from, row[j])
  BY DEF Clockwise
<1>2. /\ Head(row) = row[1] /\ 1 \in 1..Len(row) /\ Tail(row) \in Seq(Seats)
      /\ Len(Tail(row)) = Len(row) - 1
      /\ \A i \in 1..Len(Tail(row)) : Tail(row)[i] = row[i + 1] /\ i + 1 \in 1..Len(row)
  BY <1>1
<1>3. ASSUME NEW i \in 1..Len(Tail(row)), NEW j \in 1..Len(Tail(row)), i < j
      PROVE  Steps(Head(row), Tail(row)[i]) < Steps(Head(row), Tail(row)[j])
  <2>1. /\ Tail(row)[i] = row[i + 1] /\ Tail(row)[j] = row[j + 1]
        /\ i + 1 \in 1..Len(row) /\ j + 1 \in 1..Len(row) /\ i + 1 < j + 1 /\ 1 < i + 1 /\ 1 < j + 1
    BY <1>2, <1>3
  <2>2. /\ row[1] \in Seats /\ row[i + 1] \in Seats /\ row[j + 1] \in Seats
        /\ Steps(from, row[1]) < Steps(from, row[i + 1])
        /\ Steps(from, row[1]) < Steps(from, row[j + 1])
        /\ Steps(from, row[i + 1]) < Steps(from, row[j + 1])
    BY <1>1, <1>2, <2>1
  <2>3. /\ Steps(row[1], row[i + 1]) = Steps(from, row[i + 1]) - Steps(from, row[1]) - 1
        /\ Steps(row[1], row[j + 1]) = Steps(from, row[j + 1]) - Steps(from, row[1]) - 1
    BY <2>2, StepsDiffer
  <2>4. Steps(from, row[1]) \in Int /\ Steps(from, row[i + 1]) \in Int /\ Steps(from, row[j + 1]) \in Int
    BY <2>2, StepsAre
  <2> QED BY <1>2, <2>1, <2>2, <2>3, <2>4
<1>4. Clockwise(Tail(row), Head(row))
  BY <1>2, <1>3 DEF Clockwise
<1>5. /\ \A i, j \in 1..Len(row) : row[i] = row[j] => i = j
      /\ Range(row) = {row[i] : i \in 1..Len(row)}
  BY RowCounts
<1>6. Range(Tail(row)) = {Tail(row)[i] : i \in 1..Len(Tail(row))}
  <2>1. DOMAIN Tail(row) = 1..Len(Tail(row))
    BY <1>2
  <2> QED BY <2>1 DEF Range
<1>7. ASSUME NEW s \in Range(row) \ {Head(row)} PROVE s \in Range(Tail(row))
  <2>1. PICK i \in 1..Len(row) : s = row[i]
    BY <1>5
  <2>2. i # 1 /\ i - 1 \in 1..Len(Tail(row)) /\ (i - 1) + 1 = i
    BY <1>1, <1>2, <2>1
  <2>3. Tail(row)[i - 1] = s
    BY <1>2, <2>1, <2>2
  <2> QED BY <1>6, <2>2, <2>3
<1>8. ASSUME NEW s \in Range(Tail(row)) PROVE s \in Range(row) \ {Head(row)}
  <2>1. PICK i \in 1..Len(Tail(row)) : s = Tail(row)[i]
    BY <1>6
  <2>2. s = row[i + 1] /\ i + 1 \in 1..Len(row) /\ i + 1 # 1
    BY <1>2, <2>1
  <2> QED BY <1>2, <1>5, <2>2
<1>9. Head(row) \in Range(row)
  BY <1>2, <1>5
<1> QED BY <1>4, <1>7, <1>8, <1>9

(* A row that is turned so that its k-th seat is the last goes clockwise   *)
(* from that seat.                                                         *)
LEMMA RowTurned ==
  ASSUME NEW from \in 0..MaxSeats, NEW row, Clockwise(row, from), NEW k \in 1..Len(row)
  PROVE  /\ Clockwise(RotateLeft(row, k), row[k])
         /\ Range(RotateLeft(row, k)) = Range(row) /\ Len(RotateLeft(row, k)) = Len(row)
         /\ RotateLeft(row, k)[1] = IF k = Len(row) THEN row[1] ELSE row[k + 1]
<1> DEFINE n == Len(row)
           turned == RotateLeft(row, k)
           place(i) == IF i <= n - k THEN i + k ELSE i + k - n
<1>1. /\ row \in Seq(Seats) /\ n \in Nat /\ k \in Nat /\ 1 <= k /\ k <= n
      /\ \A i \in 1..n : row[i] \in Seats
      /\ \A i, j \in 1..n : i < j => Steps(from, row[i]) < Steps(from, row[j])
  BY DEF Clockwise
<1>2. turned = [i \in 1..n |-> row[((i - 1 + k) % n) + 1]]
  BY DEF RotateLeft
<1> HIDE DEF n, turned
<1>3. ASSUME NEW i \in 1..n PROVE place(i) \in 1..n /\ turned[i] = row[place(i)]
  <2>1. i \in Int /\ 1 <= i /\ i <= n /\ n > 0
    BY <1>1
  <2>2. CASE i <= n - k
    <3>1. 0 <= i - 1 + k /\ i - 1 + k < n /\ i - 1 + k \in Int
      BY <1>1, <2>1, <2>2
    <3>2. (i - 1 + k) % n = i - 1 + k
      BY <1>1, <2>1, <3>1
    <3>3. place(i) = i + k /\ (i - 1 + k) + 1 = i + k /\ i + k \in 1..n
      BY <1>1, <2>1, <2>2
    <3> QED BY <1>2, <3>2, <3>3
  <2>3. CASE ~(i <= n - k)
    <3>1. 0 <= i - 1 + k - n /\ i - 1 + k - n < n /\ i - 1 + k \in Int
      BY <1>1, <2>1, <2>3
    <3>2. (i - 1 + k) % n = i - 1 + k - n
      BY <1>1, <2>1, <3>1
    <3>3. place(i) = i + k - n /\ (i - 1 + k - n) + 1 = i + k - n /\ i + k - n \in 1..n
      BY <1>1, <2>1, <2>3
    <3> QED BY <1>2, <3>2, <3>3
  <2> QED BY <2>2, <2>3
<1>4. /\ turned \in Seq(Seats) /\ Len(turned) = n /\ DOMAIN turned = 1..n
  <2>1. turned \in [1..n -> Seats]
    BY <1>1, <1>2, <1>3
  <2>2. turned \in Seq(Seats) /\ DOMAIN turned = 1..n
    BY <1>1, <2>1
  <2> QED BY <1>1, <2>2
<1>5. ASSUME NEW i \in 1..n, NEW j \in 1..n, i < j
      PROVE  Steps(row[k], turned[i]) < Steps(row[k], turned[j])
  <2>1. /\ place(i) \in 1..n /\ place(j) \in 1..n /\ k \in 1..n
        /\ turned[i] = row[place(i)] /\ turned[j] = row[place(j)]
    BY <1>1, <1>3
  <2>2. /\ row[k] \in Seats /\ turned[i] \in Seats /\ turned[j] \in Seats
    BY <1>1, <2>1
  <2>3. /\ Steps(row[k], turned[i]) = IF Steps(from, row[k]) < Steps(from, turned[i])
              THEN Steps(from, turned[i]) - Steps(from, row[k]) - 1
              ELSE Steps(from, turned[i]) - Steps(from, row[k]) - 1 + MaxSeats
        /\ Steps(row[k], turned[j]) = IF Steps(from, row[k]) < Steps(from, turned[j])
              THEN Steps(from, turned[j]) - Steps(from, row[k]) - 1
              ELSE Steps(from, turned[j]) - Steps(from, row[k]) - 1 + MaxSeats
    BY <2>2, StepsDiffer
  <2>4. /\ Steps(from, row[k]) \in 0..(MaxSeats - 1) /\ Steps(from, turned[i]) \in 0..(MaxSeats - 1)
        /\ Steps(from, turned[j]) \in 0..(MaxSeats - 1) /\ MaxSeats \in Nat
    BY <2>2, StepsAre, TableAssumption
  <2>5. place(i) < place(j) => Steps(from, turned[i]) < Steps(from, turned[j])
    BY <1>1, <2>1
  <2>6. /\ place(i) > k => Steps(from, row[k]) < Steps(from, turned[i])
        /\ place(j) > k => Steps(from, row[k]) < Steps(from, turned[j])
    BY <1>1, <2>1
  <2>7. /\ place(j) <= k => ~(Steps(from, row[k]) < Steps(from, turned[j]))
        /\ place(i) <= k => ~(Steps(from, row[k]) < Steps(from, turned[i]))
    <3>1. /\ place(j) < k => Steps(from, turned[j]) < Steps(from, row[k])
          /\ place(i) < k => Steps(from, turned[i]) < Steps(from, row[k])
      BY <1>1, <2>1
    <3>2. /\ place(j) = k => turned[j] = row[k]
          /\ place(i) = k => turned[i] = row[k]
      BY <2>1
    <3>3. place(i) \in Int /\ place(j) \in Int /\ k \in Int
      BY <1>1, <2>1
    <3> HIDE DEF place
    <3> QED BY <2>4, <3>1, <3>2, <3>3
  <2>8. CASE j <= n - k
    <3>1. place(i) < place(j) /\ place(i) > k /\ place(j) > k
      BY <1>1, <1>5, <2>8
    <3> QED BY <2>3, <2>4, <2>5, <2>6, <3>1
  <2>9. CASE ~(j <= n - k) /\ i <= n - k
    <3>1. place(i) > k /\ place(j) <= k
      BY <1>1, <1>5, <2>9
    <3> QED BY <2>3, <2>4, <2>6, <2>7, <3>1
  <2>10. CASE ~(i <= n - k)
    <3>1. place(i) < place(j) /\ place(i) <= k /\ place(j) <= k
      BY <1>1, <1>5, <2>10
    <3> QED BY <2>3, <2>4, <2>5, <2>7, <3>1
  <2> QED BY <1>1, <1>5, <2>8, <2>9, <2>10
<1>6. Clockwise(turned, row[k])
  BY <1>4, <1>5 DEF Clockwise
<1>7. Range(turned) = Range(row)
  <2>1. Range(turned) = {turned[i] : i \in 1..n} /\ Range(row) = {row[i] : i \in 1..n}
    BY <1>4, RowCounts DEF Range, n
  <2>2. ASSUME NEW i \in 1..n PROVE \E j \in 1..n : i = place(j)
    <3>1. CASE i > k
      <4>1. i - k \in 1..n /\ place(i - k) = i
        BY <1>1, <3>1
      <4> QED BY <4>1
    <3>2. CASE ~(i > k)
      <4>1. i + n - k \in 1..n /\ place(i + n - k) = i
        BY <1>1, <3>2
      <4> QED BY <4>1
    <3> QED BY <3>1, <3>2
  <2>3. ASSUME NEW i \in 1..n PROVE row[i] \in {turned[j] : j \in 1..n}
    <3>1. PICK j \in 1..n : i = place(j)
      BY <2>2
    <3>2. turned[j] = row[i]
      BY <1>3, <3>1
    <3> QED BY <3>2
  <2>4. ASSUME NEW i \in 1..n PROVE turned[i] \in {row[j] : j \in 1..n}
    <3>1. place(i) \in 1..n /\ turned[i] = row[place(i)]
      BY <1>3
    <3> HIDE DEF place
    <3> QED BY <3>1
  <2> QED BY <2>1, <2>3, <2>4
<1>8. turned[1] = IF k = n THEN row[1] ELSE row[k + 1]
  <2>1. 1 \in 1..n /\ place(1) = IF k = n THEN 1 ELSE k + 1
    BY <1>1
  <2> QED BY <1>3, <2>1
<1> QED BY <1>4, <1>6, <1>7, <1>8 DEF turned, n

(* What is kept of the first seats of a row.                               *)
KeptOf(k, row, seats, n) ==
  k = [i \in 0..n |-> IF i = 0 THEN <<>>
                      ELSE IF row[i] \in seats THEN Append(k[i - 1], row[i]) ELSE k[i - 1]]

(* There is such a function for rows of any length.                        *)
LEMMA KeptExists ==
  ASSUME NEW row, NEW seats, NEW n \in Nat
  PROVE  \E k : KeptOf(k, row, seats, n)
<1> DEFINE G == {m \in Nat : \E k : KeptOf(k, row, seats, m)}
<1>1. 0 \in G
  <2> DEFINE k == [i \in 0..0 |-> <<>>]
  <2>1. KeptOf(k, row, seats, 0)
    BY DEF KeptOf
  <2> QED BY <2>1
<1>2. ASSUME NEW m \in G PROVE m + 1 \in G
  <2>1. PICK k : KeptOf(k, row, seats, m)
    OBVIOUS
  <2> DEFINE now == IF row[m + 1] \in seats THEN Append(k[m], row[m + 1]) ELSE k[m]
             next == [i \in 0..(m + 1) |-> IF i = m + 1 THEN now ELSE k[i]]
  <2>2. m \in Nat /\ m + 1 \in Nat
    OBVIOUS
  <2>3. ASSUME NEW i \in 0..(m + 1)
        PROVE  next[i] = IF i = 0 THEN <<>>
                         ELSE IF row[i] \in seats THEN Append(next[i - 1], row[i]) ELSE next[i - 1]
    <3>1. CASE i = m + 1
      <4>1. i # 0 /\ i - 1 = m /\ m \in 0..(m + 1) /\ m # m + 1 /\ next[i] = now
        BY <2>2, <3>1
      <4>2. next[i - 1] = k[m]
        BY <4>1
      <4> QED BY <3>1, <4>1, <4>2
    <3>2. CASE i # m + 1
      <4>1. i \in 0..m /\ next[i] = k[i]
        BY <2>2, <3>2
      <4>2. k[i] = IF i = 0 THEN <<>>
                   ELSE IF row[i] \in seats THEN Append(k[i - 1], row[i]) ELSE k[i - 1]
        BY <2>1, <4>1 DEF KeptOf
      <4>3. i # 0 => i - 1 \in 0..(m + 1) /\ i - 1 # m + 1
        BY <2>2, <4>1
      <4>4. i # 0 => next[i - 1] = k[i - 1]
        BY <4>3
      <4> QED BY <4>1, <4>2, <4>4
    <3> QED BY <3>1, <3>2
  <2>4. KeptOf(next, row, seats, m + 1)
    <3>1. DOMAIN next = 0..(m + 1)
      OBVIOUS
    <3> HIDE DEF now
    <3> QED BY <2>3, <3>1 DEF KeptOf
  <2> HIDE DEF next
  <2> QED BY <2>2, <2>4
<1>3. G = Nat
  <2> HIDE DEF G
  <2>1. G \subseteq Nat
    BY DEF G
  <2> QED BY <1>1, <1>2, <2>1, NaturalInduction
<1> QED BY <1>3

(* Only keeps the seats of the set, and their order.                       *)
LEMMA OnlyKeeps ==
  ASSUME NEW row \in Seq(Seats), NEW seats
  PROVE  /\ Only(row, seats) \in Seq(Seats)
         /\ Range(Only(row, seats)) = Range(row) \cap seats
         /\ \A from \in 0..MaxSeats : Clockwise(row, from) => Clockwise(Only(row, seats), from)
<1> DEFINE n == Len(row)
<1>1. n \in Nat /\ DOMAIN row = 1..n /\ \A i \in 1..n : row[i] \in Seats
  OBVIOUS
<1>2. PICK k : KeptOf(k, row, seats, n) /\ Only(row, seats) = k[n]
  <2> DEFINE kept == CHOOSE k : KeptOf(k, row, seats, n)
  <2>1. Only(row, seats) = kept[n]
    BY DEF Only, KeptOf
  <2>2. \E k : KeptOf(k, row, seats, n)
    BY <1>1, KeptExists
  <2>3. KeptOf(kept, row, seats, n)
    BY <2>2
  <2> QED BY <2>1, <2>3
<1>3. /\ k[0] = <<>>
      /\ \A i \in 1..n : i - 1 \in 0..n
                         /\ k[i] = IF row[i] \in seats THEN Append(k[i - 1], row[i]) ELSE k[i - 1]
  <2>1. 0 \in 0..n /\ \A i \in 1..n : i \in 0..n /\ i # 0 /\ i - 1 \in 0..n
    BY <1>1
  <2> QED BY <1>2, <2>1 DEF KeptOf
<1> DEFINE Ordered(from, m) ==
             \A a, b \in 1..Len(k[m]) : a < b => Steps(from, k[m][a]) < Steps(from, k[m][b])
           Part(m) ==
             /\ k[m] \in Seq(Seats)
             /\ \A s : (\E a \in 1..Len(k[m]) : k[m][a] = s)
                        <=> s \in seats /\ \E i \in 1..m : row[i] = s
             /\ \A from \in 0..MaxSeats : Clockwise(row, from) => Ordered(from, m)
           G == {m \in Nat : m <= n => Part(m)}
<1>4. 0 \in G
  <2>1. k[0] \in Seq(Seats) /\ Len(k[0]) = 0
    BY <1>3
  <2> QED BY <2>1
<1>5. ASSUME NEW m \in G PROVE m + 1 \in G
  <2> SUFFICES ASSUME m + 1 <= n PROVE Part(m + 1)
    OBVIOUS
  <2>1. m \in Nat /\ m + 1 \in 1..n /\ (m + 1) - 1 = m /\ m <= n
    BY <1>1
  <2>2. Part(m)
    BY <2>1
  <2>3. row[m + 1] \in Seats
    BY <1>1, <2>1
  <2>4. ASSUME NEW s PROVE (\E i \in 1..(m + 1) : row[i] = s) <=> (s = row[m + 1] \/ \E i \in 1..m : row[i] = s)
    BY <2>1
  <2>5. CASE row[m + 1] \notin seats
    <3>1. k[m + 1] = k[m]
      BY <1>3, <2>1, <2>5
    <3>2. \A s : s \in seats => ((\E i \in 1..(m + 1) : row[i] = s) <=> \E i \in 1..m : row[i] = s)
      BY <2>4, <2>5
    <3> QED BY <2>2, <3>1, <3>2
  <2>6. CASE row[m + 1] \in seats
    <3> DEFINE old == k[m]
               new == k[m + 1]
    <3>1. new = Append(old, row[m + 1]) /\ old \in Seq(Seats)
      BY <1>3, <2>1, <2>2, <2>6
    <3>2. /\ new \in Seq(Seats) /\ Len(new) = Len(old) + 1 /\ Len(old) \in Nat
          /\ new[Len(old) + 1] = row[m + 1] /\ \A a \in 1..Len(old) : new[a] = old[a]
      BY <2>3, <3>1
    <3> HIDE DEF old, new
    <3>3. \A s : (\E a \in 1..Len(new) : new[a] = s)
                  <=> (s = row[m + 1] \/ \E a \in 1..Len(old) : old[a] = s)
      <4>1. 1..Len(new) = 1..Len(old) \cup {Len(old) + 1}
        BY <3>2
      <4> QED BY <3>2, <4>1
    <3>4. \A s : (\E a \in 1..Len(old) : old[a] = s) <=> s \in seats /\ \E i \in 1..m : row[i] = s
      BY <2>2 DEF old
    <3>5. ASSUME NEW from \in 0..MaxSeats, Clockwise(row, from),
                 NEW a \in 1..Len(new), NEW b \in 1..Len(new), a < b
          PROVE  Steps(from, new[a]) < Steps(from, new[b])
      <4>1. a \in 1..Len(old) /\ new[a] = old[a]
        <5>1. a \in 1..Len(old)
          BY <3>2, <3>5
        <5> QED BY <3>2, <5>1
      <4>2. CASE b = Len(old) + 1
        <5>1. PICK i \in 1..m : row[i] = old[a]
          BY <3>4, <4>1
        <5>2. i \in 1..n /\ m + 1 \in 1..n /\ i < m + 1
          BY <1>1, <2>1
        <5>3. Steps(from, row[i]) < Steps(from, row[m + 1])
          BY <3>5, <5>2 DEF Clockwise
        <5> QED BY <3>2, <4>1, <4>2, <5>1, <5>3
      <4>3. CASE b # Len(old) + 1
        <5>1. b \in 1..Len(old)
          BY <3>2, <4>3
        <5>2. \A x, y \in 1..Len(old) : x < y => Steps(from, old[x]) < Steps(from, old[y])
          BY <2>2, <3>5 DEF old
        <5>3. Steps(from, old[a]) < Steps(from, old[b])
          BY <3>5, <4>1, <5>1, <5>2
        <5> QED BY <3>2, <4>1, <5>1, <5>3
      <4> QED BY <4>2, <4>3
    <3>6. \A s : (\E a \in 1..Len(new) : new[a] = s) <=> s \in seats /\ \E i \in 1..(m + 1) : row[i] = s
      BY <2>4, <2>6, <3>3, <3>4
    <3> QED BY <3>2, <3>5, <3>6 DEF new
  <2> QED BY <2>5, <2>6
<1>6. Part(n)
  <2>1. G = Nat
    <3> HIDE DEF G
    <3>1. G \subseteq Nat
      BY DEF G
    <3> QED BY <1>4, <1>5, <3>1, NaturalInduction
  <2>2. n \in G
    BY <1>1, <2>1
  <2> HIDE DEF Part
  <2> QED BY <1>1, <2>2
<1>7. Range(row) = {row[i] : i \in 1..n}
  BY <1>1 DEF Range
<1>8. Range(k[n]) = {k[n][a] : a \in 1..Len(k[n])}
  <2>1. DOMAIN k[n] = 1..Len(k[n])
    BY <1>6
  <2> QED BY <2>1 DEF Range
<1>9. Range(k[n]) = Range(row) \cap seats
  <2>1. \A s : s \in Range(k[n]) <=> \E a \in 1..Len(k[n]) : k[n][a] = s
    BY <1>8
  <2>2. \A s : s \in Range(row) <=> \E i \in 1..n : row[i] = s
    BY <1>7
  <2>3. \A s : (\E a \in 1..Len(k[n]) : k[n][a] = s) <=> s \in seats /\ \E i \in 1..n : row[i] = s
    BY <1>6
  <2> QED BY <2>1, <2>2, <2>3
<1>10. \A from \in 0..MaxSeats : Clockwise(row, from) => Clockwise(k[n], from)
  BY <1>6 DEF Clockwise
<1> QED BY <1>2, <1>6, <1>9, <1>10

(* Those after a seat of a row.                                            *)
LEMMA FollowingGoes ==
  ASSUME NEW from \in 0..MaxSeats, NEW row, Clockwise(row, from), NEW s \in Range(row)
  PROVE  Clockwise(Following(row, s), s) /\ Range(Following(row, s)) = Range(row) \ {s}
<1>1. /\ row \in Seq(Seats) /\ Len(row) \in Nat /\ Range(row) = {row[i] : i \in 1..Len(row)}
      /\ \A i, j \in 1..Len(row) : row[i] = row[j] => i = j
      /\ \A i \in 1..Len(row) : row[i] \in Seats
  BY RowCounts DEF Clockwise
<1>2. PICK at \in 1..Len(row) : row[at] = s
  BY <1>1
<1> DEFINE I == {i \in 1..Len(row) : row[i] = s}
<1>3. I = {at}
  BY <1>1, <1>2
<1>4. Min(I) = at
  <2>1. at \in I /\ \A i \in I : i = at
    BY <1>3
  <2>2. at <= at
    BY <1>1
  <2> HIDE DEF I
  <2> QED BY <2>1, <2>2 DEF Min
<1>5. SelectInSeq(row, LAMBDA t : t = s) = at
  <2>1. I # {}
    BY <1>3
  <2> QED BY <1>4, <2>1 DEF SelectInSeq
<1>6. at # 0 /\ at \in Nat /\ at - 1 \in 0..Len(row)
  BY <1>1
<1> DEFINE turned == RotateLeft(row, at - 1)
<1>7. Following(row, s) = Tail(turned)
  BY <1>5, <1>6 DEF Following
<1>8. \E k \in 0..MaxSeats : Clockwise(turned, k) /\ Range(turned) = Range(row)
                             /\ turned # <<>> /\ Head(turned) = s
  <2>1. CASE at = 1
    <3>1. turned = row
      <4>1. turned = [i \in 1..Len(row) |-> row[((i - 1 + 0) % Len(row)) + 1]]
        BY <2>1 DEF RotateLeft
      <4>2. ASSUME NEW i \in 1..Len(row) PROVE ((i - 1 + 0) % Len(row)) + 1 = i
        <5>1. i - 1 \in Int /\ 0 <= i - 1 /\ i - 1 < Len(row) /\ Len(row) > 0
          BY <1>1
        <5>2. (i - 1) % Len(row) = i - 1
          BY <1>1, <5>1
        <5> QED BY <5>1, <5>2
      <4>3. row = [i \in 1..Len(row) |-> row[i]]
        BY <1>1
      <4> HIDE DEF turned
      <4> QED BY <4>1, <4>2, <4>3
    <3>2. row # <<>> /\ Head(row) = row[1]
      BY <1>1, <1>2
    <3> QED BY <1>2, <2>1, <3>1, <3>2
  <2>2. CASE at # 1
    <3>1. at - 1 \in 1..Len(row) /\ at - 1 # Len(row) /\ (at - 1) + 1 = at
      BY <1>1, <2>2
    <3>2. /\ Clockwise(turned, row[at - 1]) /\ Range(turned) = Range(row)
          /\ Len(turned) = Len(row) /\ turned[1] = row[at]
      BY <3>1, RowTurned
    <3>3. row[at - 1] \in 0..MaxSeats
      BY <1>1, <3>1 DEF Seats
    <3>4. turned # <<>> /\ Head(turned) = turned[1]
      BY <1>1, <3>2 DEF Clockwise
    <3> QED BY <1>2, <3>2, <3>3, <3>4
  <2> QED BY <2>1, <2>2
<1> HIDE DEF turned
<1>9. Clockwise(Tail(turned), s) /\ Range(Tail(turned)) = Range(turned) \ {s}
  BY <1>8, RowOnward
<1> QED BY <1>7, <1>8, <1>9

(* The active seats in their order: clockwise from the button.             *)
LEMMA ActiveGoes ==
  ASSUME NEW active, active \subseteq Seats
  PROVE  /\ Button - 1 \in 0..MaxSeats /\ Clockwise(ActiveOrder(active), Button - 1)
         /\ Range(ActiveOrder(active)) = active
<1> DEFINE circle == [i \in 1..MaxSeats |-> ((Button + i - 2) % MaxSeats) + 1]
           at(i) == IF Button + i - 1 <= MaxSeats THEN Button + i - 1 ELSE Button + i - 1 - MaxSeats
<1>1. /\ MaxSeats \in Nat /\ MaxSeats >= 2 /\ Button \in Nat /\ 1 <= Button /\ Button <= MaxSeats
      /\ Button - 1 \in 0..MaxSeats /\ Seats = 1..MaxSeats
  BY TableAssumption DEF Seats
<1>2. ASSUME NEW i \in 1..MaxSeats PROVE circle[i] = at(i) /\ at(i) \in Seats
  <2>1. i \in Int /\ 1 <= i /\ i <= MaxSeats
    BY <1>1
  <2>2. CASE Button + i - 1 <= MaxSeats
    <3>1. 0 <= Button + i - 2 /\ Button + i - 2 < MaxSeats /\ Button + i - 2 \in Int
      BY <1>1, <2>1, <2>2
    <3>2. (Button + i - 2) % MaxSeats = Button + i - 2
      BY <1>1, <3>1
    <3> QED BY <1>1, <2>1, <2>2, <3>2
  <2>3. CASE ~(Button + i - 1 <= MaxSeats)
    <3>1. 0 <= Button + i - 2 - MaxSeats /\ Button + i - 2 - MaxSeats < MaxSeats /\ Button + i - 2 \in Int
      BY <1>1, <2>1, <2>3
    <3>2. (Button + i - 2) % MaxSeats = Button + i - 2 - MaxSeats
      BY <1>1, <3>1
    <3> QED BY <1>1, <2>1, <2>3, <3>2
  <2> QED BY <2>2, <2>3
<1> HIDE DEF circle
<1>3. circle \in Seq(Seats) /\ Len(circle) = MaxSeats /\ DOMAIN circle = 1..MaxSeats
  <2>1. DOMAIN circle = 1..MaxSeats /\ circle \in [1..MaxSeats -> Seats]
    BY <1>2 DEF circle
  <2>2. circle \in Seq(Seats)
    BY <1>1, <2>1
  <2> QED BY <1>1, <2>1, <2>2
<1>4. ASSUME NEW i \in 1..MaxSeats PROVE Steps(Button - 1, circle[i]) = i - 1
  <2>1. circle[i] \in Seats /\ circle[i] = at(i)
    BY <1>2
  <2>2. Steps(Button - 1, circle[i]) = IF circle[i] > Button - 1 THEN circle[i] - (Button - 1) - 1
                                       ELSE circle[i] - (Button - 1) - 1 + MaxSeats
    BY <1>1, <2>1, StepsAre
  <2> QED BY <1>1, <2>1, <2>2
<1>5. Clockwise(circle, Button - 1)
  BY <1>1, <1>3, <1>4 DEF Clockwise
<1>6. Range(circle) = Seats
  <2>1. Range(circle) = {circle[i] : i \in 1..MaxSeats}
    BY <1>3 DEF Range
  <2>2. ASSUME NEW s \in Seats PROVE \E i \in 1..MaxSeats : circle[i] = s
    <3>1. s \in Int /\ 1 <= s /\ s <= MaxSeats
      BY <1>1
    <3>2. CASE s >= Button
      <4>1. s - Button + 1 \in 1..MaxSeats /\ at(s - Button + 1) = s
        BY <1>1, <3>1, <3>2
      <4> QED BY <1>2, <4>1
    <3>3. CASE ~(s >= Button)
      <4>1. s - Button + 1 + MaxSeats \in 1..MaxSeats /\ at(s - Button + 1 + MaxSeats) = s
        BY <1>1, <3>1, <3>3
      <4> QED BY <1>2, <4>1
    <3> QED BY <3>2, <3>3
  <2>3. \A i \in 1..MaxSeats : circle[i] \in Seats
    BY <1>2
  <2> QED BY <2>1, <2>2, <2>3
<1>7. ActiveOrder(active) = Only(circle, active)
  BY DEF ActiveOrder, circle
<1>8. /\ Range(Only(circle, active)) = Range(circle) \cap active
      /\ Clockwise(Only(circle, active), Button - 1)
  BY <1>1, <1>3, <1>5, OnlyKeeps
<1>9. Seats \cap active = active
  OBVIOUS
<1> QED BY <1>1, <1>6, <1>7, <1>8, <1>9

-----------------------------------------------------------------------------
(* One line.                                                               *)

EngineFields ==
  {"street", "stack", "contrib", "status", "order", "toCall", "lastRaise", "eligible",
   "ready", "reopened", "issues"}
ReplayFields ==
  {"street", "stack", "contrib", "committed", "byStreet", "status", "pending", "snapshot",
   "invalid"}

(* What of the two states the money depends on.                            *)
EngineShape(e) ==
  /\ e = [f \in EngineFields |-> e[f]]
  /\ e.street \in Streets
  /\ e.stack \in [Seats -> Int] /\ e.contrib \in [Seats -> Int]
  /\ e.status \in [Seats -> Statuses]

ReplayShape(r) ==
  /\ r = [f \in ReplayFields |-> r[f]]
  /\ r.street \in Streets
  /\ r.stack \in [Seats -> Int] /\ r.contrib \in [Seats -> Int]
  /\ r.committed \in [Seats -> Int]
  /\ r.byStreet \in [Seats -> [BettingStreets -> Int]]
  /\ r.status \in [Seats -> Statuses]
  /\ r.invalid \in BOOLEAN

Reported(e) == e.issues \cap FailSafeIssues # {}

(* What the normalizer keeps: no chip is lost or made.                     *)
Kept(r, stacks) ==
  \A s \in Seats :
    /\ 0 <= r.stack[s] /\ r.stack[s] + r.committed[s] = stacks[s]
    /\ 0 <= r.contrib[s] /\ r.contrib[s] <= r.committed[s]
    /\ r.committed[s] =
         r.byStreet[s]["preflop"] + r.byStreet[s]["flop"]
         + r.byStreet[s]["turn"] + r.byStreet[s]["river"]

-----------------------------------------------------------------------------
(* Lines.                                                                  *)

(* The chips a line asks for are never negative.                           *)
LEMMA DeltaNat ==
  ASSUME NEW line \in Lines, NEW c \in Int
  PROVE  Delta(line, c) \in Nat
BY DEF Delta, Lines, AtLeast0

(* The all-in mark leaves a line a line of its street.                     *)
LEMMA MarkedLine ==
  ASSUME NEW line \in Lines, NEW a
  PROVE  /\ Annotated(a, line) \in Lines
         /\ Annotated(a, line).street = line.street
BY DEF Annotated, Lines

-----------------------------------------------------------------------------
(* The stages of the engine.                                               *)

(* A new street keeps the stacks and starts the contributions anew.        *)
LEMMA EngineStreetStage ==
  ASSUME NEW e, EngineShape(e), NEW street \in Streets
  PROVE  LET f == AdvanceStreet(e, street)
         IN /\ EngineShape(f)
            /\ f.street = street /\ f.stack = e.stack /\ f.status = e.status
            /\ f.contrib = IF street = e.street \/ street = "showdown" THEN e.contrib ELSE NoChips
            /\ Reported(f) <=> Reported(e)
<1> DEFINE f == AdvanceStreet(e, street)
<1>1. CASE street = e.street
  BY <1>1 DEF AdvanceStreet
<1>2. CASE street # e.street
  <2>1. /\ f = [x \in EngineFields |-> f[x]]
        /\ f.street = street /\ f.stack = e.stack /\ f.status = e.status
    BY <1>2 DEF AdvanceStreet, EngineShape, EngineFields
  <2>2. f.contrib = IF street \in BettingStreets THEN NoChips ELSE e.contrib
    BY <1>2 DEF AdvanceStreet, EngineShape, EngineFields
  <2>3. \/ f.issues = e.issues
        \/ f.issues = e.issues \cup {"premature_street_close"}
    BY <1>2 DEF AdvanceStreet, EngineShape, EngineFields
  <2>4. Reported(f) <=> Reported(e)
    BY <2>3 DEF Reported, FailSafeIssues, MoneyIssues
  <2>5. NoChips \in [Seats -> Int]
    BY DEF NoChips
  <2> QED BY <1>2, <2>1, <2>2, <2>4, <2>5 DEF EngineShape, Streets, BettingStreets
<1> QED BY <1>1, <1>2

(* Finding out who acts moves no chips.                                    *)
LEMMA EngineActorsStage ==
  ASSUME NEW e, EngineShape(e)
  PROVE  LET f == WithActors(e)
         IN /\ EngineShape(f)
            /\ f.street = e.street /\ f.stack = e.stack /\ f.status = e.status
            /\ f.contrib = e.contrib /\ f.issues = e.issues
BY DEF WithActors, EngineShape, EngineFields

(* Reporting an issue moves no chips.                                      *)
LEMMA EngineFlagStage ==
  ASSUME NEW e, EngineShape(e), NEW kinds
  PROVE  LET f == Flagged(e, kinds)
         IN /\ EngineShape(f)
            /\ f.street = e.street /\ f.stack = e.stack /\ f.status = e.status
            /\ f.contrib = e.contrib /\ f.issues = e.issues \cup kinds
BY DEF Flagged, EngineShape, EngineFields

(* The round moves the turn and the price, never the money.                *)
LEMMA RoundStage ==
  ASSUME NEW e, EngineShape(e), NEW line, NEW aggression \in {"none", "short", "full"}, NEW level
  PROVE  LET f == AdvanceRound(e, line, aggression, level)
         IN /\ EngineShape(f)
            /\ f.street = e.street /\ f.stack = e.stack /\ f.status = e.status
            /\ f.contrib = e.contrib /\ f.issues = e.issues
<1> DEFINE s == line.seat
           acted == [e EXCEPT !.eligible = Only(@, Seats \ {s}), !.reopened[s] = FALSE]
           short == [acted EXCEPT !.toCall = level, !.eligible = Answering(e, s, level)]
           full == [acted EXCEPT !.toCall = level, !.lastRaise = level - e.toCall,
                             !.eligible = Answering(e, s, level),
                             !.reopened = [t \in Seats |-> e.status[t] = "live" /\ t # s]]
           Same(f) == /\ f = [x \in EngineFields |-> f[x]]
                      /\ f.street = e.street /\ f.stack = e.stack /\ f.status = e.status
                      /\ f.contrib = e.contrib /\ f.issues = e.issues
<1>1. Same(acted)
  BY DEF EngineShape, EngineFields
<1>2. Same(short)
  <2> HIDE DEF acted
  <2> QED BY <1>1 DEF EngineFields
<1>3. Same(full)
  <2> HIDE DEF acted
  <2> QED BY <1>1 DEF EngineFields
<1>4. ASSUME NEW p, Same(p) PROVE Same([p EXCEPT !.eligible = <<>>])
  BY <1>4 DEF EngineFields
<1>5. \E p \in {acted, short, full} :
        \/ AdvanceRound(e, line, aggression, level) = p
        \/ AdvanceRound(e, line, aggression, level) = [p EXCEPT !.eligible = <<>>]
  BY DEF AdvanceRound
<1>6. Same(AdvanceRound(e, line, aggression, level))
  <2> HIDE DEF acted, short, full, Same
  <2> QED BY <1>1, <1>2, <1>3, <1>4, <1>5
<1> QED BY <1>6 DEF EngineShape

(* What a line reports about money before any is moved.                    *)
LEMMA SurfaceVerdict ==
  ASSUME NEW e, NEW line \in Lines
  PROVE  /\ line.type # "return_uncalled" => SurfaceIssues(e, line) \cap FailSafeIssues = {}
         /\ line.type = "return_uncalled" =>
              /\ SurfaceIssues(e, line) \subseteq FailSafeIssues
              /\ SurfaceIssues(e, line) = {} <=>
                   /\ Overage(e.contrib, line.seat) # 0
                   /\ line.chips <= Overage(e.contrib, line.seat)
BY DEF SurfaceIssues, FailSafeIssues, MoneyIssues, Lines, ActionTypes, Posts, Voluntary

(* The issues about turn and size of a bet are not about money.            *)
LEMMA BettingVerdict ==
  ASSUME NEW e, NEW line \in Lines
  PROVE  (OrderIssues(e, line) \cup BetIssues(e, line)) \cap FailSafeIssues = {}
<1>1. OrderIssues(e, line) \cap FailSafeIssues = {}
  BY DEF OrderIssues, FailSafeIssues, MoneyIssues
<1>2. RaiseIssues(e, line) \cap FailSafeIssues = {}
  BY DEF RaiseIssues, FailSafeIssues, MoneyIssues
<1>3. BetIssues(e, line) \cap FailSafeIssues = {}
  BY <1>2 DEF BetIssues, FailSafeIssues, MoneyIssues
<1> QED BY <1>1, <1>3

(* The chips a line moves in the engine.                                   *)
Pays(line, stack, contrib) ==
  /\ line.type # "return_uncalled"
  /\ Delta(line, contrib[line.seat]) <= stack[line.seat]

EngineMoved(e, stack, contrib) == [e EXCEPT !.stack = stack, !.contrib = contrib]

(* Moving chips changes stacks and contributions only.                     *)
LEMMA EngineMoves ==
  ASSUME NEW e, EngineShape(e), NEW stack \in [Seats -> Int], NEW contrib \in [Seats -> Int]
  PROVE  /\ EngineShape(EngineMoved(e, stack, contrib))
         /\ EngineMoved(e, stack, contrib).street = e.street
         /\ EngineMoved(e, stack, contrib).status = e.status
         /\ EngineMoved(e, stack, contrib).stack = stack
         /\ EngineMoved(e, stack, contrib).contrib = contrib
         /\ EngineMoved(e, stack, contrib).issues = e.issues
BY DEF EngineMoved, EngineShape, EngineFields

(* The money of a line: chips go from the stack of its seat to its         *)
(* contribution, or an issue is reported.                                  *)
LEMMA EngineMoneyStage ==
  ASSUME NEW e, EngineShape(e), NEW line \in Lines
  PROVE  LET f == EngineMoney(e, line)
             s == line.seat
             d == Delta(line, e.contrib[s])
             refund == line.type = "return_uncalled" /\ RefundAllowed(e, line)
         IN /\ EngineShape(f)
            /\ f.street = e.street /\ f.status = e.status
            /\ f.stack = IF refund THEN [e.stack EXCEPT ![s] = @ + line.chips]
                         ELSE IF Pays(line, e.stack, e.contrib) THEN [e.stack EXCEPT ![s] = @ - d]
                         ELSE e.stack
            /\ f.contrib = IF refund THEN [e.contrib EXCEPT ![s] = @ - line.chips]
                           ELSE IF Pays(line, e.stack, e.contrib) /\ CountsInRound(line.type)
                             THEN [e.contrib EXCEPT ![s] = @ + d]
                           ELSE e.contrib
            /\ Reported(f) <=>
                 \/ Reported(e)
                 \/ line.type = "return_uncalled" /\ ~(line.chips <= e.contrib[s])
                 \/ line.type # "return_uncalled" /\ ~Pays(line, e.stack, e.contrib)
<1> DEFINE s == line.seat
           d == Delta(line, e.contrib[s])
           f == EngineMoney(e, line)
           refunded == [e EXCEPT !.stack[s] = @ + line.chips, !.contrib[s] = @ - line.chips]
           paid == [e EXCEPT !.stack[s] = @ - d,
                             !.contrib[s] = IF CountsInRound(line.type) THEN @ + d ELSE @]
           late == {k \in {"refund_exceeds_betting_round_contrib"} : line.chips > e.contrib[s]}
<1>1. /\ s \in Seats /\ line.chips \in Nat /\ d \in Nat
      /\ e.contrib[s] \in Int /\ e.stack[s] \in Int
  BY DeltaNat DEF EngineShape, Lines
<1>2. /\ EngineShape(refunded) /\ refunded.street = e.street /\ refunded.status = e.status
      /\ refunded.stack = [e.stack EXCEPT ![s] = @ + line.chips]
      /\ refunded.contrib = [e.contrib EXCEPT ![s] = @ - line.chips]
      /\ refunded.issues = e.issues
  <2> DEFINE stack == [e.stack EXCEPT ![s] = @ + line.chips]
             round == [e.contrib EXCEPT ![s] = @ - line.chips]
  <2>1. stack \in [Seats -> Int] /\ round \in [Seats -> Int]
    BY <1>1 DEF EngineShape
  <2>2. refunded = EngineMoved(e, stack, round)
    BY DEF EngineMoved, EngineShape, EngineFields
  <2> HIDE DEF refunded, stack, round
  <2>3. /\ EngineShape(refunded) /\ refunded.street = e.street /\ refunded.status = e.status
        /\ refunded.stack = stack /\ refunded.contrib = round /\ refunded.issues = e.issues
    BY <2>1, <2>2, EngineMoves
  <2> QED BY <2>3 DEF stack, round
<1>3. /\ EngineShape(paid) /\ paid.street = e.street /\ paid.status = e.status
      /\ paid.stack = [e.stack EXCEPT ![s] = @ - d]
      /\ paid.contrib = IF CountsInRound(line.type) THEN [e.contrib EXCEPT ![s] = @ + d]
                                                    ELSE e.contrib
      /\ paid.issues = e.issues
  <2> DEFINE stack == [e.stack EXCEPT ![s] = @ - d]
             round == IF CountsInRound(line.type) THEN [e.contrib EXCEPT ![s] = @ + d]
                                                  ELSE e.contrib
  <2>1. stack \in [Seats -> Int] /\ round \in [Seats -> Int]
    BY <1>1 DEF EngineShape
  <2>2. paid = EngineMoved(e, stack, round)
    <3>1. CASE CountsInRound(line.type)
      BY <3>1 DEF EngineMoved, EngineShape, EngineFields
    <3>2. CASE ~CountsInRound(line.type)
      BY <3>2 DEF EngineMoved, EngineShape, EngineFields
    <3> QED BY <3>1, <3>2
  <2> HIDE DEF paid, stack, round
  <2>3. /\ EngineShape(paid) /\ paid.street = e.street /\ paid.status = e.status
        /\ paid.stack = stack /\ paid.contrib = round /\ paid.issues = e.issues
    BY <2>1, <2>2, EngineMoves
  <2> QED BY <2>3 DEF stack, round
<1> HIDE DEF s, d, refunded, paid
<1>4. CASE line.type = "return_uncalled"
  <2> DEFINE base == IF RefundAllowed(e, line) THEN refunded ELSE e
  <2>1. f = Flagged(base, late)
    BY <1>4 DEF EngineMoney, s, refunded
  <2>2. EngineShape(base) /\ base.issues = e.issues
    BY <1>2
  <2>3. f.issues = e.issues \cup late /\ EngineShape(f) /\ f.street = base.street
        /\ f.stack = base.stack /\ f.status = base.status /\ f.contrib = base.contrib
    BY <2>1, <2>2, EngineFlagStage
  <2>4. Reported(f) <=> Reported(e) \/ ~(line.chips <= e.contrib[s])
    BY <2>3, <1>1 DEF Reported, FailSafeIssues, MoneyIssues
  <2> QED BY <1>2, <1>4, <2>3, <2>4 DEF s, Pays
<1>5. CASE line.type # "return_uncalled" /\ ~Pays(line, e.stack, e.contrib)
  <2>1. f = Flagged(e, {"action_amount_exceeds_stack"})
    BY <1>1, <1>5 DEF EngineMoney, Pays, s, d
  <2>2. EngineShape(f) /\ f.street = e.street /\ f.stack = e.stack /\ f.status = e.status
        /\ f.contrib = e.contrib /\ f.issues = e.issues \cup {"action_amount_exceeds_stack"}
    BY <2>1, EngineFlagStage
  <2>3. Reported(f)
    BY <2>2 DEF Reported, FailSafeIssues, MoneyIssues
  <2> QED BY <1>5, <2>2, <2>3
<1>6. CASE line.type # "return_uncalled" /\ Pays(line, e.stack, e.contrib)
  <2>1. f = paid
    BY <1>1, <1>6 DEF EngineMoney, Pays, paid, s, d
  <2> QED BY <1>3, <1>6, <2>1 DEF Reported, s, d
<1> QED BY <1>4, <1>5, <1>6

(* Folds and all-ins move no chips.                                        *)
LEMMA EngineStatusStage ==
  ASSUME NEW e, EngineShape(e), NEW line \in Lines
  PROVE  LET f == EngineStatus(e, line)
         IN /\ EngineShape(f)
            /\ f.street = e.street /\ f.stack = e.stack /\ f.contrib = e.contrib
            /\ f.issues = e.issues
            /\ f.status = [e.status EXCEPT ![line.seat] =
                             StatusAfter(e.status[line.seat], line, e.stack)]
<1> DEFINE s == line.seat
           was == e.status[s]
           now == StatusAfter(was, line, e.stack)
<1>1. s \in Seats /\ was \in Statuses
  BY DEF EngineShape, Lines
<1>2. now \in Statuses
  BY <1>1 DEF StatusAfter, Statuses
<1>3. EngineStatus(e, line) = [e EXCEPT !.status = [e.status EXCEPT ![s] = now]]
  BY DEF EngineStatus, StatusAfter, EngineShape, EngineFields
<1> HIDE DEF s, now, was
<1> QED BY <1>1, <1>2, <1>3 DEF EngineShape, EngineFields, s, now, was

-----------------------------------------------------------------------------
(* What both replays make of a line.                                       *)

RoundOf(state, street) ==
  IF street = state.street \/ street = "showdown" THEN state.contrib ELSE NoChips

Refunds(line, contrib) ==
  /\ line.type = "return_uncalled"
  /\ Overage(contrib, line.seat) # 0 /\ line.chips <= Overage(contrib, line.seat)
  /\ line.chips <= contrib[line.seat]

Refused(line, stack, contrib) == ~Refunds(line, contrib) /\ ~Pays(line, stack, contrib)

StackAfter(line, stack, contrib) ==
  IF Refunds(line, contrib) THEN [stack EXCEPT ![line.seat] = @ + line.chips]
  ELSE IF Pays(line, stack, contrib)
    THEN [stack EXCEPT ![line.seat] = @ - Delta(line, contrib[line.seat])]
  ELSE stack

ContribAfter(line, stack, contrib) ==
  IF Refunds(line, contrib) THEN [contrib EXCEPT ![line.seat] = @ - line.chips]
  ELSE IF Pays(line, stack, contrib) /\ CountsInRound(line.type)
    THEN [contrib EXCEPT ![line.seat] = @ + Delta(line, contrib[line.seat])]
  ELSE contrib

(* apply_event of the engine as a whole.                                   *)
LEMMA EngineLine ==
  ASSUME NEW e, EngineShape(e), NEW line \in Lines
  PROVE  LET f == EngineAfter(e, line)
             c == RoundOf(e, line.street)
         IN /\ EngineShape(f) /\ f.street = line.street
            /\ f.stack = StackAfter(line, e.stack, c)
            /\ f.contrib = ContribAfter(line, e.stack, c)
            /\ f.status = [e.status EXCEPT ![line.seat] =
                             StatusAfter(e.status[line.seat], line, f.stack)]
            /\ Reported(f) <=> Reported(e) \/ Refused(line, e.stack, c)
<1> DEFINE s == line.seat
           c == RoundOf(e, line.street)
           street == AdvanceStreet(e, line.street)
           before == IF line.type \in Voluntary THEN WithActors(street) ELSE street
           betting == IF line.type \in Voluntary
                        THEN OrderIssues(before, line) \cup BetIssues(before, line) ELSE {}
           found == SurfaceIssues(before, line) \cup betting
           flagged == Flagged(before, found)
           paid == EngineMoney(flagged, line)
           after == EngineStatus(paid, line)
           f == EngineAfter(e, line)
<1>1. line.street \in Streets
  BY DEF Lines
<1>2. /\ EngineShape(before) /\ before.street = line.street /\ before.stack = e.stack
      /\ before.status = e.status /\ before.contrib = c /\ (Reported(before) <=> Reported(e))
  <2>1. /\ EngineShape(street) /\ street.street = line.street /\ street.stack = e.stack
        /\ street.status = e.status /\ street.contrib = c /\ (Reported(street) <=> Reported(e))
    BY <1>1, EngineStreetStage DEF RoundOf
  <2> HIDE DEF street, c
  <2> QED BY <2>1, EngineActorsStage DEF Reported
<1> HIDE DEF before, c
<1>3. betting \cap FailSafeIssues = {}
  BY BettingVerdict
<1> HIDE DEF betting
<1>4. /\ EngineShape(flagged) /\ flagged.street = line.street /\ flagged.stack = e.stack
      /\ flagged.status = e.status /\ flagged.contrib = c
      /\ flagged.issues = before.issues \cup found
  BY <1>2, EngineFlagStage
<1>5. Reported(flagged) <=>
        \/ Reported(e)
        \/ /\ line.type = "return_uncalled"
           /\ ~(Overage(c, s) # 0 /\ line.chips <= Overage(c, s))
  BY <1>2, <1>3, <1>4, SurfaceVerdict DEF Reported
<1> HIDE DEF found, flagged
<1>6. line.type = "return_uncalled" =>
        (RefundAllowed(flagged, line) <=> Refunds(line, c))
  BY <1>4, SurfaceVerdict DEF RefundAllowed, Refunds
<1>7. /\ EngineShape(paid) /\ paid.street = line.street /\ paid.status = e.status
      /\ paid.stack = StackAfter(line, e.stack, c)
      /\ paid.contrib = ContribAfter(line, e.stack, c)
      /\ Reported(paid) <=> \/ Reported(flagged)
                            \/ line.type = "return_uncalled" /\ ~(line.chips <= c[s])
                            \/ line.type # "return_uncalled" /\ ~Pays(line, e.stack, c)
  BY <1>4, <1>6, EngineMoneyStage, ZenonT(40) DEF StackAfter, ContribAfter, Refunds, s
<1>8. Reported(paid) <=> Reported(e) \/ Refused(line, e.stack, c)
  BY <1>5, <1>7 DEF Refused, Refunds, Pays, s
<1> HIDE DEF paid
<1>9. /\ EngineShape(after) /\ after.street = line.street
      /\ after.stack = paid.stack /\ after.contrib = paid.contrib
      /\ after.issues = paid.issues
      /\ after.status = [e.status EXCEPT ![s] = StatusAfter(e.status[s], line, paid.stack)]
  BY <1>7, EngineStatusStage DEF s
<1> HIDE DEF after
<1>10. /\ EngineShape(f) /\ f.street = after.street /\ f.stack = after.stack
       /\ f.contrib = after.contrib /\ f.issues = after.issues /\ f.status = after.status
  <2>1. CASE line.type \in Voluntary
    <3>1. f = AdvanceRound(after, line, Aggression(before, line), Level(before, line))
      BY <2>1 DEF EngineAfter, after, paid, flagged, found, betting, before
    <3>2. Aggression(before, line) \in {"none", "short", "full"}
      BY DEF Aggression
    <3> QED BY <3>1, <3>2, <1>9, RoundStage
  <2>2. CASE line.type \notin Voluntary /\ line.type \in Posts \ {"post_ante"}
                                        /\ line.street = "preflop"
    <3>1. f = [after EXCEPT !.toCall = Max({@, after.contrib[line.seat]})]
      BY <2>2 DEF EngineAfter, after, paid, flagged, found, betting, before
    <3> QED BY <3>1, <1>9 DEF EngineShape, EngineFields
  <2>3. CASE line.type \notin Voluntary /\ ~(line.type \in Posts \ {"post_ante"}
                                          /\ line.street = "preflop")
    <3>1. f = after
      BY <2>3 DEF EngineAfter, after, paid, flagged, found, betting, before
    <3> QED BY <3>1, <1>9
  <2> QED BY <2>1, <2>2, <2>3
<1> QED BY <1>7, <1>8, <1>9, <1>10 DEF Reported, c, s

-----------------------------------------------------------------------------
(* The stages of the normalizer's replay.                                  *)

ReplayMoved(r, stack, contrib, committed, byStreet) ==
  [r EXCEPT !.stack = stack, !.contrib = contrib, !.committed = committed, !.byStreet = byStreet]

(* Moving chips changes the four money maps of the normalizer only.        *)
LEMMA ReplayMoves ==
  ASSUME NEW r, ReplayShape(r),
         NEW stack \in [Seats -> Int], NEW contrib \in [Seats -> Int],
         NEW committed \in [Seats -> Int], NEW byStreet \in [Seats -> [BettingStreets -> Int]]
  PROVE  /\ ReplayShape(ReplayMoved(r, stack, contrib, committed, byStreet))
         /\ ReplayMoved(r, stack, contrib, committed, byStreet).street = r.street
         /\ ReplayMoved(r, stack, contrib, committed, byStreet).status = r.status
         /\ ReplayMoved(r, stack, contrib, committed, byStreet).invalid = r.invalid
         /\ ReplayMoved(r, stack, contrib, committed, byStreet).stack = stack
         /\ ReplayMoved(r, stack, contrib, committed, byStreet).contrib = contrib
         /\ ReplayMoved(r, stack, contrib, committed, byStreet).committed = committed
         /\ ReplayMoved(r, stack, contrib, committed, byStreet).byStreet = byStreet
BY DEF ReplayMoved, ReplayShape, ReplayFields

(* The chips of one seat change by n; so do those it put in on a street.   *)
Add(chips, s, n) == [chips EXCEPT ![s] = @ + n]
AddOn(byStreet, s, key, n) == [byStreet EXCEPT ![s] = Add(@, key, n)]

(* Adding no chips changes nothing.                                        *)
LEMMA AddNothing ==
  ASSUME NEW S, NEW chips \in [S -> Int], NEW s \in S
  PROVE  Add(chips, s, 0) = chips
BY DEF Add

(* A street keeps the books of the normalizer and starts the contributions *)
(* of its round.                                                           *)
LEMMA ReplayStreetStage ==
  ASSUME NEW r, ReplayShape(r), NEW stacks, Kept(r, stacks), NEW street \in Streets
  PROVE  LET f == ReplayStreet(r, street)
         IN /\ ReplayShape(f) /\ Kept(f, stacks)
            /\ f.street = street /\ f.stack = r.stack /\ f.status = r.status
            /\ f.contrib = RoundOf(r, street) /\ f.invalid = r.invalid
<1> DEFINE f == ReplayStreet(r, street)
<1>1. /\ f = [x \in ReplayFields |-> f[x]]
      /\ f.street = street /\ f.stack = r.stack /\ f.status = r.status
      /\ f.committed = r.committed /\ f.byStreet = r.byStreet /\ f.invalid = r.invalid
  BY DEF ReplayStreet, ReplayShape, ReplayFields
<1>2. f.contrib = RoundOf(r, street)
  BY DEF ReplayStreet, RoundOf, ReplayShape, ReplayFields
<1> HIDE DEF f
<1>3. NoChips \in [Seats -> Int] /\ \A s \in Seats : NoChips[s] = 0
  BY DEF NoChips
<1>4. ReplayShape(f)
  BY <1>1, <1>2, <1>3 DEF ReplayShape, RoundOf
<1>5. Kept(f, stacks)
  <2> SUFFICES ASSUME NEW s \in Seats
               PROVE  /\ 0 <= f.stack[s] /\ f.stack[s] + f.committed[s] = stacks[s]
                      /\ 0 <= f.contrib[s] /\ f.contrib[s] <= f.committed[s]
                      /\ f.committed[s] =
                           f.byStreet[s]["preflop"] + f.byStreet[s]["flop"]
                           + f.byStreet[s]["turn"] + f.byStreet[s]["river"]
    BY DEF Kept
  <2>1. r.contrib[s] \in Int /\ r.committed[s] \in Int
    BY DEF ReplayShape
  <2>2. /\ 0 <= r.stack[s] /\ r.stack[s] + r.committed[s] = stacks[s]
        /\ 0 <= r.contrib[s] /\ r.contrib[s] <= r.committed[s]
        /\ r.committed[s] =
             r.byStreet[s]["preflop"] + r.byStreet[s]["flop"]
             + r.byStreet[s]["turn"] + r.byStreet[s]["river"]
    BY DEF Kept
  <2>3. f.contrib[s] = r.contrib[s] \/ f.contrib[s] = 0
    BY <1>2, <1>3 DEF RoundOf
  <2> QED BY <1>1, <2>1, <2>2, <2>3
<1> QED BY <1>1, <1>2, <1>4, <1>5 DEF f

(* The streets of a seat add up to what it committed.                      *)
SumOf(share) == share["preflop"] + share["flop"] + share["turn"] + share["river"]

(* Chips put in on a street add up with those of the other streets.        *)
LEMMA StreetShare ==
  ASSUME NEW r, ReplayShape(r), NEW stacks, Kept(r, stacks), NEW s \in Seats, NEW n \in Int
  PROVE  /\ AddOn(r.byStreet, s, StreetKey(r.street), n) \in [Seats -> [BettingStreets -> Int]]
         /\ SumOf(AddOn(r.byStreet, s, StreetKey(r.street), n)[s]) = r.committed[s] + n
         /\ \A t \in Seats \ {s} :
              AddOn(r.byStreet, s, StreetKey(r.street), n)[t] = r.byStreet[t]
<1> DEFINE key == StreetKey(r.street)
           mine == Add(r.byStreet[s], key, n)
           byStreet == AddOn(r.byStreet, s, key, n)
<1>1. key \in BettingStreets
  BY DEF StreetKey, ReplayShape, Streets, BettingStreets
<1>2. r.byStreet[s] \in [BettingStreets -> Int]
  BY DEF ReplayShape
<1> HIDE DEF key
<1>3. /\ mine \in [BettingStreets -> Int] /\ mine[key] = r.byStreet[s][key] + n
      /\ \A t \in BettingStreets \ {key} : mine[t] = r.byStreet[s][t]
  BY <1>1, <1>2 DEF Add
<1> HIDE DEF mine
<1>4. /\ byStreet \in [Seats -> [BettingStreets -> Int]] /\ byStreet[s] = mine
      /\ \A t \in Seats \ {s} : byStreet[t] = r.byStreet[t]
  <2>1. byStreet = [r.byStreet EXCEPT ![s] = mine]
    BY DEF AddOn, mine
  <2> HIDE DEF byStreet
  <2> QED BY <1>3, <2>1 DEF ReplayShape
<1>5. r.committed[s] = r.byStreet[s]["preflop"] + r.byStreet[s]["flop"]
                       + r.byStreet[s]["turn"] + r.byStreet[s]["river"]
  BY DEF Kept
<1>6. SumOf(mine) = r.committed[s] + n
  <2>1. key = "preflop" \/ key = "flop" \/ key = "turn" \/ key = "river"
    BY <1>1 DEF BettingStreets
  <2>2. /\ r.byStreet[s]["preflop"] \in Int /\ r.byStreet[s]["flop"] \in Int
        /\ r.byStreet[s]["turn"] \in Int /\ r.byStreet[s]["river"] \in Int
    BY <1>2 DEF BettingStreets
  <2> QED BY <1>3, <1>5, <2>1, <2>2 DEF BettingStreets, SumOf
<1> QED BY <1>4, <1>6 DEF key

(* The seat of a line moves n chips, m of them in the round; the others    *)
(* keep what they have.                                                    *)
LEMMA KeptByMove ==
  ASSUME NEW r, ReplayShape(r), NEW stacks \in [Seats -> Nat], Kept(r, stacks),
         NEW s \in Seats, NEW n \in Int, NEW m \in Int,
         n <= r.stack[s], 0 <= r.contrib[s] + m, m <= n,
         NEW f, f.stack = Add(r.stack, s, -n),
         f.contrib = Add(r.contrib, s, m), f.committed = Add(r.committed, s, n),
         f.byStreet = AddOn(r.byStreet, s, StreetKey(r.street), n)
  PROVE  Kept(f, stacks)
<1> SUFFICES ASSUME NEW t \in Seats
             PROVE  /\ 0 <= f.stack[t] /\ f.stack[t] + f.committed[t] = stacks[t]
                    /\ 0 <= f.contrib[t] /\ f.contrib[t] <= f.committed[t]
                    /\ f.committed[t] =
                         f.byStreet[t]["preflop"] + f.byStreet[t]["flop"]
                         + f.byStreet[t]["turn"] + f.byStreet[t]["river"]
  BY DEF Kept
<1>0. /\ r.stack \in [Seats -> Int] /\ r.contrib \in [Seats -> Int]
      /\ r.committed \in [Seats -> Int] /\ -n \in Int
  BY DEF ReplayShape
<1>1. /\ 0 <= r.stack[t] /\ r.stack[t] + r.committed[t] = stacks[t]
      /\ 0 <= r.contrib[t] /\ r.contrib[t] <= r.committed[t]
      /\ r.committed[t] =
           r.byStreet[t]["preflop"] + r.byStreet[t]["flop"]
           + r.byStreet[t]["turn"] + r.byStreet[t]["river"]
  BY DEF Kept
<1>2. /\ r.stack[t] \in Int /\ r.contrib[t] \in Int /\ r.committed[t] \in Int
      /\ stacks[t] \in Int
  BY DEF ReplayShape
<1>3. CASE t = s
  <2>1. /\ f.stack[s] = r.stack[s] - n /\ f.contrib[s] = r.contrib[s] + m
        /\ f.committed[s] = r.committed[s] + n
    BY <1>0 DEF Add
  <2>2. SumOf(f.byStreet[s]) = r.committed[s] + n
    BY StreetShare
  <2> QED BY <1>1, <1>2, <1>3, <2>1, <2>2 DEF SumOf
<1>4. CASE t # s
  <2>1. /\ f.stack[t] = r.stack[t] /\ f.contrib[t] = r.contrib[t]
        /\ f.committed[t] = r.committed[t]
    BY <1>0, <1>4 DEF Add
  <2>2. f.byStreet[t] = r.byStreet[t]
    BY <1>4, StreetShare
  <2> QED BY <1>1, <2>1, <2>2
<1> QED BY <1>3, <1>4

(* Chips beyond the stack are owed or there are none.                      *)
LEMMA OverageSign ==
  ASSUME NEW c, NEW s
  PROVE  Overage(c, s) # 0 <=> Overage(c, s) > 0
BY DEF Overage, AtLeast0

(* The money of a line in the normalizer: chips move, or the line is       *)
(* invalid.                                                                *)
LEMMA ReplayMoneyStage ==
  ASSUME NEW r, ReplayShape(r), NEW stacks \in [Seats -> Nat], Kept(r, stacks), NEW line \in Lines
  PROVE  LET f == ReplayMoney(r, line)
         IN /\ ReplayShape(f) /\ Kept(f, stacks)
            /\ f.street = r.street /\ f.status = r.status
            /\ f.stack = StackAfter(line, r.stack, r.contrib)
            /\ f.contrib = ContribAfter(line, r.stack, r.contrib)
            /\ f.invalid <=> r.invalid \/ Refused(line, r.stack, r.contrib)
<1> DEFINE s == line.seat
           d == Delta(line, r.contrib[s])
           key == StreetKey(r.street)
           f == ReplayMoney(r, line)
<1>1. /\ s \in Seats /\ line.chips \in Nat
      /\ r.contrib[s] \in Int /\ r.stack[s] \in Int /\ r.committed[s] \in Int
  BY DEF ReplayShape, Lines
<1>2. d \in Nat
  BY <1>1, DeltaNat
<1>3. r.contrib[s] <= r.committed[s] /\ 0 <= r.contrib[s] /\ 0 <= r.stack[s]
  BY <1>1 DEF Kept
<1>4. key \in BettingStreets /\ r.byStreet[s] \in [BettingStreets -> Int]
  BY <1>1 DEF StreetKey, ReplayShape, Streets, BettingStreets
<1>5. line.type = "return_uncalled" => (RefundFits(r, line) <=> Refunds(line, r.contrib))
  BY <1>1, <1>3, OverageSign DEF RefundFits, Refunds, s
<1> DEFINE Moved(n, m) ==
             ReplayMoved(r, Add(r.stack, s, -n), Add(r.contrib, s, m), Add(r.committed, s, n),
                         AddOn(r.byStreet, s, key, n))
<1>m. ASSUME NEW n \in Int, NEW m \in Int, n <= r.stack[s], 0 <= r.contrib[s] + m, m <= n,
             f = Moved(n, m)
      PROVE  /\ ReplayShape(f) /\ Kept(f, stacks)
             /\ f.street = r.street /\ f.status = r.status /\ f.invalid = r.invalid
             /\ f.stack = Add(r.stack, s, -n) /\ f.contrib = Add(r.contrib, s, m)
  <2>1. /\ Add(r.stack, s, -n) \in [Seats -> Int] /\ Add(r.contrib, s, m) \in [Seats -> Int]
        /\ Add(r.committed, s, n) \in [Seats -> Int]
    BY <1>1, <1>m DEF ReplayShape, Add
  <2>2. AddOn(r.byStreet, s, key, n) \in [Seats -> [BettingStreets -> Int]]
    BY <1>1, <1>m, StreetShare
  <2> HIDE DEF f, s, key
  <2>3. /\ ReplayShape(f) /\ f.street = r.street /\ f.status = r.status
        /\ f.stack = Add(r.stack, s, -n) /\ f.contrib = Add(r.contrib, s, m)
        /\ f.committed = Add(r.committed, s, n)
        /\ f.byStreet = AddOn(r.byStreet, s, key, n) /\ f.invalid = r.invalid
    BY <1>m, <2>1, <2>2, ReplayMoves, SMTT(30)
  <2>4. Kept(f, stacks)
    BY <1>1, <1>m, <2>3, KeptByMove DEF key
  <2> QED BY <2>3, <2>4
<1>6. CASE Refunds(line, r.contrib)
  <2> DEFINE n == -line.chips
  <2>1. f = Refund(r, s, line.chips)
    BY <1>5, <1>6 DEF ReplayMoney, Refunds, s
  <2>2. /\ n \in Int /\ n <= r.stack[s] /\ 0 <= r.contrib[s] + n /\ -n = line.chips
    BY <1>1, <1>3, <1>6 DEF Refunds
  <2>3. /\ Add(r.contrib, s, n) = [r.contrib EXCEPT ![s] = @ - line.chips]
        /\ Add(r.committed, s, n) = [r.committed EXCEPT ![s] = @ - line.chips]
        /\ Add(r.byStreet[s], key, n) = [r.byStreet[s] EXCEPT ![key] = @ - line.chips]
    <3>1. /\ r.contrib[s] + n = r.contrib[s] - line.chips
          /\ r.committed[s] + n = r.committed[s] - line.chips
      BY <1>1
    <3>2. r.byStreet[s][key] + n = r.byStreet[s][key] - line.chips
      BY <1>1, <1>4
    <3> HIDE DEF n
    <3> QED BY <3>1, <3>2 DEF Add
  <2>4. Add(r.stack, s, -n) = [r.stack EXCEPT ![s] = @ + line.chips]
    BY <2>2 DEF Add
  <2>5. f = Moved(n, n)
    BY <2>1, <2>3, <2>4 DEF Refund, ReplayMoved, AddOn, ReplayShape, ReplayFields
  <2> HIDE DEF f, n, Moved
  <2>6. /\ ReplayShape(f) /\ Kept(f, stacks)
        /\ f.street = r.street /\ f.status = r.status /\ f.invalid = r.invalid
        /\ f.stack = Add(r.stack, s, -n) /\ f.contrib = Add(r.contrib, s, n)
    BY <1>m, <2>2, <2>5
  <2> QED BY <1>6, <2>3, <2>4, <2>6 DEF StackAfter, ContribAfter, Refused, f
<1>7. CASE Pays(line, r.stack, r.contrib)
  <2> DEFINE m == IF CountsInRound(line.type) THEN d ELSE 0
  <2>1. f = Debit(r, s, d, CountsInRound(line.type))
    BY <1>1, <1>2, <1>7 DEF ReplayMoney, Pays
  <2>2. /\ m \in Int /\ 0 <= r.contrib[s] + m /\ m <= d /\ d \in Int /\ d <= r.stack[s]
    BY <1>1, <1>2, <1>3, <1>7 DEF Pays
  <2> HIDE DEF d, s
  <2>3. /\ Add(r.stack, s, -d) = [r.stack EXCEPT ![s] = @ - d]
        /\ Add(r.contrib, s, m) = IF CountsInRound(line.type) THEN [r.contrib EXCEPT ![s] = @ + d]
                                                              ELSE r.contrib
    <3>1. Add(r.stack, s, -d) = [r.stack EXCEPT ![s] = @ - d]
      <4>1. r.stack[s] + (-d) = r.stack[s] - d
        BY <1>1, <2>2
      <4> QED BY <4>1 DEF Add
    <3>2. Add(r.contrib, s, 0) = r.contrib
      BY <1>1, AddNothing, SMTT(30) DEF ReplayShape
    <3> QED BY <3>1, <3>2 DEF Add
  <2>4. Add(r.contrib, s, m) = [r.contrib EXCEPT ![s] = IF CountsInRound(line.type)
                                                            THEN @ + d ELSE @]
    <3>1. r.contrib[s] + m = IF CountsInRound(line.type) THEN r.contrib[s] + d ELSE r.contrib[s]
      BY <1>1
    <3> HIDE DEF m
    <3> QED BY <3>1 DEF Add
  <2>5. f = Moved(d, m)
    <3> HIDE DEF f, m
    <3> QED BY <2>1, <2>3, <2>4 DEF Debit, ReplayMoved, Add, AddOn, ReplayShape, ReplayFields
  <2> HIDE DEF f, m, Moved
  <2>6. /\ ReplayShape(f) /\ Kept(f, stacks)
        /\ f.street = r.street /\ f.status = r.status /\ f.invalid = r.invalid
        /\ f.stack = Add(r.stack, s, -d) /\ f.contrib = Add(r.contrib, s, m)
    BY <1>m, <2>2, <2>5
  <2>7. ~Refunds(line, r.contrib)
    BY <1>7 DEF Refunds, Pays
  <2> QED BY <1>7, <2>3, <2>6, <2>7 DEF StackAfter, ContribAfter, Refused, f, d, s
<1>8. CASE Refused(line, r.stack, r.contrib)
  <2>1. f = [r EXCEPT !.invalid = TRUE]
    BY <1>1, <1>2, <1>5, <1>8 DEF ReplayMoney, Refused, Refunds, Pays, s, d
  <2>2. /\ ReplayShape(f) /\ f.street = r.street /\ f.status = r.status
        /\ f.stack = r.stack /\ f.contrib = r.contrib
        /\ f.committed = r.committed /\ f.byStreet = r.byStreet /\ f.invalid = TRUE
    BY <2>1 DEF ReplayShape, ReplayFields
  <2> HIDE DEF f
  <2>3. Kept(f, stacks)
    BY <2>2 DEF Kept
  <2> QED BY <1>8, <2>2, <2>3 DEF StackAfter, ContribAfter, Refused, f
<1> QED BY <1>6, <1>7, <1>8 DEF Refused

(* Folds and all-ins keep the books of the normalizer.                     *)
LEMMA ReplayStatusStage ==
  ASSUME NEW r, ReplayShape(r), NEW line \in Lines
  PROVE  /\ ReplayShape(ReplayStatus(r, line))
         /\ ReplayStatus(r, line).street = r.street /\ ReplayStatus(r, line).stack = r.stack
         /\ ReplayStatus(r, line).contrib = r.contrib
         /\ ReplayStatus(r, line).committed = r.committed
         /\ ReplayStatus(r, line).byStreet = r.byStreet
         /\ ReplayStatus(r, line).invalid = r.invalid
         /\ ReplayStatus(r, line).status =
              [r.status EXCEPT ![line.seat] = StatusAfter(r.status[line.seat], line, r.stack)]
<1> DEFINE s == line.seat
           was == r.status[s]
           now == StatusAfter(was, line, r.stack)
<1>1. s \in Seats /\ was \in Statuses
  BY DEF ReplayShape, Lines
<1>2. now \in Statuses
  BY <1>1 DEF StatusAfter, Statuses
<1> DEFINE status == [r.status EXCEPT ![s] = now]
           f == ReplayStatus(r, line)
<1>5. f = [r EXCEPT !.status = status]
  BY DEF ReplayStatus, s
<1>6. status \in [Seats -> Statuses]
  BY <1>1, <1>2 DEF ReplayShape
<1> HIDE DEF status, f
<1>7. /\ f = [x \in ReplayFields |-> f[x]] /\ f.street = r.street /\ f.stack = r.stack
      /\ f.contrib = r.contrib /\ f.committed = r.committed /\ f.byStreet = r.byStreet
      /\ f.invalid = r.invalid /\ f.status = status
  BY <1>5 DEF ReplayShape, ReplayFields
<1>8. ReplayShape(f)
  BY <1>6, <1>7 DEF ReplayShape
<1> QED BY <1>7, <1>8 DEF status, f

(* The pending actors and the snapshot never touch the money.              *)
LEMMA ReplayLateStages ==
  ASSUME NEW r, ReplayShape(r), NEW line
  PROVE  LET f == WithSnapshot(ReplayPending(r, line), line)
         IN /\ ReplayShape(f) /\ f.street = r.street /\ f.stack = r.stack
            /\ f.contrib = r.contrib /\ f.committed = r.committed /\ f.byStreet = r.byStreet
            /\ f.status = r.status /\ f.invalid = r.invalid
<1> DEFINE p == ReplayPending(r, line)
           f == WithSnapshot(p, line)
           Same(q) == /\ q = [x \in ReplayFields |-> q[x]]
                      /\ q.street = r.street /\ q.stack = r.stack
                      /\ q.contrib = r.contrib /\ q.committed = r.committed
                      /\ q.byStreet = r.byStreet /\ q.status = r.status /\ q.invalid = r.invalid
<1>1. Same(p)
  BY DEF ReplayPending, ReplayShape, ReplayFields
<1> HIDE DEF p
<1>2. \/ f = p
      \/ \E taken : f = [p EXCEPT !.snapshot = taken]
  BY DEF WithSnapshot
<1>3. Same(f)
  <2> HIDE DEF f
  <2> QED BY <1>1, <1>2 DEF ReplayFields
<1> QED BY <1>3 DEF ReplayShape, p

(* apply_event of the normalizer as a whole.                               *)
LEMMA ReplayLine ==
  ASSUME NEW r, ReplayShape(r), NEW stacks \in [Seats -> Nat], Kept(r, stacks), NEW line \in Lines
  PROVE  LET f == ReplayAfter(r, line)
             c == RoundOf(r, line.street)
         IN /\ ReplayShape(f) /\ Kept(f, stacks) /\ f.street = line.street
            /\ f.stack = StackAfter(line, r.stack, c)
            /\ f.contrib = ContribAfter(line, r.stack, c)
            /\ f.status = [r.status EXCEPT ![line.seat] =
                             StatusAfter(r.status[line.seat], line, f.stack)]
            /\ f.invalid <=> r.invalid \/ Refused(line, r.stack, c)
<1> DEFINE street == ReplayStreet(r, line.street)
           paid == ReplayMoney(street, line)
           after == ReplayStatus(paid, line)
           f == ReplayAfter(r, line)
           c == RoundOf(r, line.street)
<1>1. line.street \in Streets
  BY DEF Lines
<1>2. /\ ReplayShape(street) /\ Kept(street, stacks) /\ street.street = line.street
      /\ street.stack = r.stack /\ street.status = r.status /\ street.contrib = c
      /\ street.invalid = r.invalid
  BY <1>1, ReplayStreetStage
<1> HIDE DEF street, c
<1>3. /\ ReplayShape(paid) /\ Kept(paid, stacks) /\ paid.street = line.street
      /\ paid.status = r.status /\ paid.stack = StackAfter(line, r.stack, c)
      /\ paid.contrib = ContribAfter(line, r.stack, c)
      /\ paid.invalid <=> r.invalid \/ Refused(line, r.stack, c)
  BY <1>2, ReplayMoneyStage
<1> HIDE DEF paid
<1>4. /\ ReplayShape(after) /\ after.street = line.street /\ after.stack = paid.stack
      /\ after.contrib = paid.contrib /\ after.committed = paid.committed
      /\ after.byStreet = paid.byStreet /\ after.invalid = paid.invalid
      /\ after.status = [r.status EXCEPT ![line.seat] =
                           StatusAfter(r.status[line.seat], line, paid.stack)]
  BY <1>3, ReplayStatusStage
<1> HIDE DEF after
<1>5. f = WithSnapshot(ReplayPending(after, line), line)
  BY DEF ReplayAfter, after, paid, street
<1>6. /\ ReplayShape(f) /\ f.street = after.street /\ f.stack = after.stack
      /\ f.contrib = after.contrib /\ f.committed = after.committed
      /\ f.byStreet = after.byStreet /\ f.status = after.status /\ f.invalid = after.invalid
  BY <1>4, <1>5, ReplayLateStages
<1> HIDE DEF f
<1>7. Kept(f, stacks)
  BY <1>3, <1>4, <1>6 DEF Kept
<1> QED BY <1>3, <1>4, <1>6, <1>7 DEF f, c

(* Whom the normalizer awaits when a line of a street comes.               *)
AwaitedOn(r, street) == IF street \in {r.street, "showdown"} THEN r.pending ELSE LiveIn(r)

(* The pending actors and the snapshot after a line.                       *)
LEMMA ReplayAwaits ==
  ASSUME NEW r, ReplayShape(r), NEW stacks \in [Seats -> Nat], Kept(r, stacks), NEW line \in Lines
  PROVE  LET f == ReplayAfter(r, line)
             was == AwaitedOn(r, line.street)
         IN /\ f.pending =
                 CASE line.type \in {"bet", "raise_to"} -> LiveIn(f) \ {line.seat}
                   [] line.type \in {"check", "call", "fold"} -> (was \cap LiveIn(f)) \ {line.seat}
                   [] line.type = "return_uncalled" -> {}
                   [] OTHER -> was \cap LiveIn(f)
            /\ f.snapshot =
                 IF f.invalid \/ r.snapshot.taken \/ ~TerminalAllIn(f) THEN r.snapshot
                 ELSE [taken |-> TRUE, street |-> f.street,
                       committed |-> f.committed, status |-> f.status]
<1> DEFINE street == ReplayStreet(r, line.street)
           paid == ReplayMoney(street, line)
           after == ReplayStatus(paid, line)
           next == ReplayPending(after, line)
           f == ReplayAfter(r, line)
           Same(q, p) == q = [x \in ReplayFields |-> q[x]] /\ q.pending = p /\ q.snapshot = r.snapshot
<1>1. Same(street, AwaitedOn(r, line.street))
  BY DEF ReplayStreet, ReplayShape, ReplayFields, AwaitedOn
<1>2. Same(paid, AwaitedOn(r, line.street))
  <2> HIDE DEF street
  <2> QED BY <1>1, ZenonT(40) DEF ReplayMoney, Refund, Debit, ReplayFields
<1>3. Same(after, AwaitedOn(r, line.street))
  <2> HIDE DEF paid
  <2> QED BY <1>2 DEF ReplayStatus, ReplayFields
<1> HIDE DEF after
<1>4. /\ next = [x \in ReplayFields |-> next[x]] /\ next.snapshot = r.snapshot
      /\ next.status = after.status
  BY <1>3 DEF ReplayPending, ReplayFields
<1>5. next.pending =
        CASE line.type \in {"bet", "raise_to"} -> LiveIn(after) \ {line.seat}
          [] line.type \in {"check", "call", "fold"} ->
               (AwaitedOn(r, line.street) \cap LiveIn(after)) \ {line.seat}
          [] line.type = "return_uncalled" -> {}
          [] OTHER -> AwaitedOn(r, line.street) \cap LiveIn(after)
  BY <1>3 DEF ReplayPending, ReplayFields
<1>6. LiveIn(next) = LiveIn(after)
  BY <1>4 DEF LiveIn
<1>7. f = WithSnapshot(next, line)
  BY DEF ReplayAfter, after, paid, street
<1> HIDE DEF next, f
<1>8. /\ f.pending = next.pending /\ f.status = next.status /\ f.street = next.street
      /\ f.invalid = next.invalid /\ f.committed = next.committed
  BY <1>4, <1>7 DEF WithSnapshot, ReplayFields
<1>9. LiveIn(f) = LiveIn(after) /\ (TerminalAllIn(f) <=> TerminalAllIn(next))
  BY <1>6, <1>8 DEF LiveIn, TerminalAllIn
<1>10. f.snapshot = IF next.invalid \/ r.snapshot.taken \/ ~TerminalAllIn(next) THEN r.snapshot
                    ELSE [taken |-> TRUE, street |-> next.street,
                          committed |-> next.committed, status |-> next.status]
  BY <1>4, <1>7 DEF WithSnapshot, ReplayFields
<1> QED BY <1>5, <1>8, <1>9, <1>10 DEF f

-----------------------------------------------------------------------------
(* The annotation of the parser.                                           *)

AnnotationShape(a) ==
  /\ DOMAIN a = {"street", "stack", "contrib"}
  /\ a.street \in Streets
  /\ a.stack \in [Seats -> Int] /\ a.contrib \in [Seats -> Int]

(* The mark says whether the line takes the last chip of its seat.         *)
LEMMA Marked ==
  ASSUME NEW a, NEW line \in Lines, NEW stack, NEW contrib
  PROVE  LET marked == Annotated(a, line)
         IN /\ marked \in Lines /\ marked.street = line.street /\ marked.seat = line.seat
            /\ marked.type = line.type /\ marked.chips = line.chips
            /\ marked.allIn <=> line.allIn \/ (line.type # "return_uncalled"
                                               /\ AnnotationAfter(a, line).stack[line.seat] = 0)
            /\ StackAfter(marked, stack, contrib) = StackAfter(line, stack, contrib)
            /\ ContribAfter(marked, stack, contrib) = ContribAfter(line, stack, contrib)
            /\ Refused(marked, stack, contrib) <=> Refused(line, stack, contrib)
<1> DEFINE marked == Annotated(a, line)
<1>1. /\ marked \in Lines /\ marked.street = line.street /\ marked.seat = line.seat
      /\ marked.type = line.type /\ marked.chips = line.chips
      /\ marked.allIn <=> line.allIn \/ (line.type # "return_uncalled"
                                         /\ AnnotationAfter(a, line).stack[line.seat] = 0)
  BY DEF Annotated, Lines
<1> HIDE DEF marked
<1>2. \A c : Delta(marked, c) = Delta(line, c)
  BY <1>1 DEF Delta
<1>3. /\ Refunds(marked, contrib) <=> Refunds(line, contrib)
      /\ Pays(marked, stack, contrib) <=> Pays(line, stack, contrib)
  BY <1>1, <1>2 DEF Refunds, Pays
<1> QED BY <1>1, <1>2, <1>3 DEF StackAfter, ContribAfter, Refused, marked

(* What the annotation makes of a line that the other replays accept.      *)
LEMMA AnnotationLine ==
  ASSUME NEW a, AnnotationShape(a), NEW line \in Lines,
         a.street \in BettingStreets \/ line.street = "showdown",
         ~Refused(line, a.stack, RoundOf(a, line.street))
  PROVE  LET f == AnnotationAfter(a, line)
             c == RoundOf(a, line.street)
         IN /\ AnnotationShape(f) /\ f.street = line.street
            /\ f.stack = StackAfter(line, a.stack, c)
            /\ f.contrib = ContribAfter(line, a.stack, c)
<1> DEFINE s == line.seat
           c == RoundOf(a, line.street)
           street == AnnotationStreet(a, line.street)
           f == AnnotationMoney(street, line)
           d == Delta(line, c[s])
<1>1. /\ s \in Seats /\ line.chips \in Nat /\ line.street \in Streets /\ line.type \in ActionTypes
      /\ NoChips \in [Seats -> Int]
  BY DEF Lines, NoChips
<1>2. /\ DOMAIN street = {"street", "stack", "contrib"} /\ street.street = line.street
      /\ street.stack = a.stack /\ street.contrib = c
  BY <1>1 DEF AnnotationStreet, AnnotationShape, RoundOf, Streets, BettingStreets
<1>3. c \in [Seats -> Int] /\ c[s] \in Int /\ a.stack \in [Seats -> Int] /\ a.stack[s] \in Int
  BY <1>1 DEF RoundOf, AnnotationShape
<1> HIDE DEF street, c
<1>4. d \in Nat
  BY <1>3, DeltaNat
<1> HIDE DEF s, d
<1>5. CASE line.type = "return_uncalled"
  <2>1. Refunds(line, c)
    BY <1>5 DEF Refused, Pays, c
  <2>2. f = [street EXCEPT !.stack[s] = @ + line.chips, !.contrib[s] = @ - line.chips]
    BY <1>2, <1>5, <2>1 DEF AnnotationMoney, Refunds, s
  <2>3. /\ DOMAIN f = {"street", "stack", "contrib"} /\ f.street = line.street
        /\ f.stack = [a.stack EXCEPT ![s] = @ + line.chips]
        /\ f.contrib = [c EXCEPT ![s] = @ - line.chips]
    BY <1>2, <2>2
  <2> HIDE DEF f
  <2>4. f.stack = StackAfter(line, a.stack, c) /\ f.contrib = ContribAfter(line, a.stack, c)
    BY <2>1, <2>3 DEF StackAfter, ContribAfter, s
  <2>5. AnnotationShape(f)
    BY <1>1, <1>3, <2>3 DEF AnnotationShape
  <2> QED BY <2>3, <2>4, <2>5 DEF AnnotationAfter, f, c, street
<1>6. CASE line.type # "return_uncalled"
  <2>1. Pays(line, a.stack, c) /\ ~Refunds(line, c)
    BY <1>6 DEF Refused, Refunds, c
  <2>2. d <= a.stack[s] /\ ~(d > a.stack[s])
    BY <1>3, <1>4, <2>1 DEF Pays, d, s
  <2>3. f = [street EXCEPT !.stack[s] = @ - d,
                           !.contrib[s] = IF CountsInRound(line.type) THEN @ + d ELSE @]
    BY <1>2, <1>6, <2>2 DEF AnnotationMoney, s, d
  <2>4. /\ DOMAIN f = {"street", "stack", "contrib"} /\ f.street = line.street
        /\ f.stack = [a.stack EXCEPT ![s] = @ - d]
        /\ f.contrib = IF CountsInRound(line.type) THEN [c EXCEPT ![s] = @ + d] ELSE c
    <3> DEFINE round == IF CountsInRound(line.type) THEN [c EXCEPT ![s] = @ + d] ELSE c
    <3>1. f = [street EXCEPT !.stack = [a.stack EXCEPT ![s] = @ - d], !.contrib = round]
      <4>1. c = [t \in Seats |-> c[t]]
        BY <1>3
      <4>2. [c EXCEPT ![s] = IF CountsInRound(line.type) THEN @ + d ELSE @] = round
        BY <1>3, <4>1
      <4> QED BY <1>2, <2>3, <4>2
    <3> HIDE DEF round, f
    <3>2. DOMAIN f = {"street", "stack", "contrib"} /\ f.street = line.street
      BY <1>2, <3>1
    <3>3. f.stack = [a.stack EXCEPT ![s] = @ - d] /\ f.contrib = round
      BY <1>2, <3>1
    <3> QED BY <3>2, <3>3 DEF round
  <2> HIDE DEF f
  <2>5. f.stack = StackAfter(line, a.stack, c) /\ f.contrib = ContribAfter(line, a.stack, c)
    BY <2>1, <2>4 DEF StackAfter, ContribAfter, s, d
  <2>6. AnnotationShape(f)
    BY <1>1, <1>3, <1>4, <2>4 DEF AnnotationShape
  <2> QED BY <2>4, <2>5, <2>6 DEF AnnotationAfter, f, c, street
<1> QED BY <1>5, <1>6

-----------------------------------------------------------------------------
(* Arbitrary histories: whatever the lines of a hand, the replay of the    *)
(* normalizer keeps the money and the legality engine keeps the same       *)
(* books.  TLC reads three lines of two players; here the table, the       *)
(* stacks and the history are arbitrary.                                   *)

(* The three properties together, with the shapes of the two states.       *)
HistoryInv ==
  /\ dealt \in [Seats -> Nat]
  /\ EngineShape(legality) /\ ReplayShape(ledger)
  /\ MoneyKept /\ SameMoney /\ SameVerdict

(* Both replays begin with the same stacks and nothing in the pot.         *)
LEMMA HistoryBegins == HistoryInit => HistoryInv
<1> SUFFICES ASSUME HistoryInit PROVE HistoryInv
  OBVIOUS
<1>1. dealt \in [Seats -> Nat]
  BY HistoryAssumption DEF HistoryInit
<1>2. dealt \in [Seats -> Int] /\ NoChips \in [Seats -> Int] /\ "preflop" \in Streets
  BY <1>1 DEF NoChips, Streets, BettingStreets
<1>3. InitialStatus(dealt) \in [Seats -> Statuses]
  BY DEF InitialStatus, Statuses
<1>4. /\ EngineShape(legality) /\ legality.street = "preflop" /\ legality.stack = dealt
      /\ legality.contrib = NoChips /\ legality.status = InitialStatus(dealt) /\ legality.issues = {}
  BY <1>2, <1>3 DEF HistoryInit, EngineInit, EngineShape, EngineFields
<1>5. /\ ReplayShape(ledger) /\ ledger.street = "preflop" /\ ledger.stack = dealt
      /\ ledger.contrib = NoChips /\ ledger.committed = NoChips
      /\ ledger.byStreet = [s \in Seats |-> [t \in BettingStreets |-> 0]]
      /\ ledger.status = InitialStatus(dealt) /\ ledger.invalid = FALSE
  <2>1. ledger = ReplayInit(dealt)
    BY DEF HistoryInit
  <2>2. /\ ledger = [x \in ReplayFields |-> ledger[x]]
        /\ ledger.street = "preflop" /\ ledger.stack = dealt
        /\ ledger.contrib = NoChips /\ ledger.committed = NoChips
        /\ ledger.byStreet = [s \in Seats |-> [t \in BettingStreets |-> 0]]
        /\ ledger.status = InitialStatus(dealt) /\ ledger.invalid = FALSE
    BY <2>1 DEF ReplayInit, ReplayFields
  <2>3. [s \in Seats |-> [t \in BettingStreets |-> 0]] \in [Seats -> [BettingStreets -> Int]]
    OBVIOUS
  <2> QED BY <1>2, <1>3, <2>2, <2>3 DEF ReplayShape
<1>6. MoneyKept
  BY <1>1, <1>5 DEF MoneyKept, NoChips, BettingStreets
<1> QED BY <1>1, <1>4, <1>5, <1>6 DEF HistoryInv, SameMoney, SameVerdict

(* A line leads both replays to the same books and the same verdict.       *)
LEMMA HistoryGoesOn == HistoryInv /\ [HistoryNext]_historyVars => HistoryInv'
<1> SUFFICES ASSUME HistoryInv, [HistoryNext]_historyVars PROVE HistoryInv'
  OBVIOUS
<1>1. CASE ReadLine
  <2>1. PICK read1 \in HistoryLines :
          LET marked == Annotated(marking, read1)
          IN legality' = EngineAfter(legality, marked) /\ ledger' = ReplayAfter(ledger, marked)
    BY <1>1 DEF ReadLine
  <2> DEFINE line == Annotated(marking, read1)
             c == RoundOf(legality, line.street)
  <2>2. line \in Lines /\ dealt' = dealt /\ dealt \in [Seats -> Nat]
    BY <1>1, MarkedLine, HistoryAssumption DEF ReadLine, HistoryInv
  <2>3. legality' = EngineAfter(legality, line) /\ ledger' = ReplayAfter(ledger, line)
    BY <2>1
  <2> HIDE DEF line
  <2>4. Kept(ledger, dealt) /\ EngineShape(legality) /\ ReplayShape(ledger)
    BY DEF HistoryInv, MoneyKept, Kept
  <2>5. RoundOf(ledger, line.street) = c
    BY DEF RoundOf, HistoryInv, SameMoney
  <2>6. /\ EngineShape(legality') /\ legality'.street = line.street
        /\ legality'.stack = StackAfter(line, legality.stack, c)
        /\ legality'.contrib = ContribAfter(line, legality.stack, c)
        /\ legality'.status = [legality.status EXCEPT ![line.seat] =
                               StatusAfter(legality.status[line.seat], line, legality'.stack)]
        /\ Reported(legality') <=> Reported(legality) \/ Refused(line, legality.stack, c)
    BY <2>2, <2>3, <2>4, EngineLine
  <2>7. /\ ReplayShape(ledger') /\ Kept(ledger', dealt) /\ ledger'.street = line.street
        /\ ledger'.stack = StackAfter(line, ledger.stack, c)
        /\ ledger'.contrib = ContribAfter(line, ledger.stack, c)
        /\ ledger'.status = [ledger.status EXCEPT ![line.seat] =
                               StatusAfter(ledger.status[line.seat], line, ledger'.stack)]
        /\ ledger'.invalid <=> ledger.invalid \/ Refused(line, ledger.stack, c)
    BY <2>2, <2>3, <2>4, <2>5, ReplayLine
  <2>8. SameMoney'
    BY <2>6, <2>7 DEF HistoryInv, SameMoney
  <2>9. SameVerdict'
    BY <2>6, <2>7 DEF HistoryInv, SameMoney, SameVerdict, Reported
  <2>10. MoneyKept'
    BY <2>2, <2>7 DEF MoneyKept, Kept
  <2> QED BY <2>2, <2>6, <2>7, <2>8, <2>9, <2>10 DEF HistoryInv, EngineShape, ReplayShape
<1>2. CASE UNCHANGED historyVars
  BY <1>2 DEF HistoryInv, historyVars, EngineShape, ReplayShape, MoneyKept, SameMoney, SameVerdict
<1> QED BY <1>1, <1>2 DEF HistoryNext

(* No history, legal or not, makes the normalizer gain, lose or overdraw   *)
(* chips.                                                                  *)
THEOREM MoneyIsKept == HistorySpec => []MoneyKept
<1>1. HistoryInv => MoneyKept
  BY DEF HistoryInv
<1> QED BY <1>1, HistoryBegins, HistoryGoesOn, PTL DEF HistorySpec

(* The two replays of a hand never drift apart: after any history the      *)
(* legality engine holds the stacks, the round and the statuses that the   *)
(* normalizer holds.                                                       *)
THEOREM ReplaysNeverDrift == HistorySpec => []SameMoney
<1>1. HistoryInv => SameMoney
  BY DEF HistoryInv
<1> QED BY <1>1, HistoryBegins, HistoryGoesOn, PTL DEF HistorySpec

(* The normalizer stops trusting a hand exactly when the engine reports an *)
(* issue of money: no hand is settled on books that one of them refused.   *)
THEOREM OneVerdict == HistorySpec => []SameVerdict
<1>1. HistoryInv => SameVerdict
  BY DEF HistoryInv
<1> QED BY <1>1, HistoryBegins, HistoryGoesOn, PTL DEF HistorySpec
=============================================================================
