----------------------------- MODULE TimeProofs -----------------------------
(***************************************************************************)
(* Theorems about TimeParse, for any years, any grain of the day and any   *)
(* order of writing, waiting and reading.                                  *)
(***************************************************************************)
EXTENDS TimeParse, OrderedProofs

-----------------------------------------------------------------------------
(* The calendar. *)

(* A quotient moves on by one where the division leaves nothing.            *)
LEMMA QuotientMoves ==
    ASSUME NEW n \in Int, NEW k \in {4, 100, 400}
    PROVE  (n + 1) \div k = n \div k + IF (n + 1) % k = 0 THEN 1 ELSE 0
<1>1. CASE k = 4
  BY <1>1
<1>2. CASE k = 100
  BY <1>2
<1>3. CASE k = 400
  BY <1>3
<1> QED
  BY <1>1, <1>2, <1>3

(* A year has 365 days, or 366. *)
LEMMA YearLength ==
    ASSUME NEW y \in Int
    PROVE  /\ DaysBefore(y) \in Int
           /\ DaysBefore(y + 1) = DaysBefore(y) + IF Leap(y) THEN 366 ELSE 365
<1>0. FirstYear \in Int
  BY TimeParseAssumption
<1>1. /\ y \div 4 = (y - 1) \div 4 + IF y % 4 = 0 THEN 1 ELSE 0
      /\ y \div 100 = (y - 1) \div 100 + IF y % 100 = 0 THEN 1 ELSE 0
      /\ y \div 400 = (y - 1) \div 400 + IF y % 400 = 0 THEN 1 ELSE 0
  <2>1. y - 1 \in Int /\ (y - 1) + 1 = y
    OBVIOUS
  <2> QED
    BY <2>1, QuotientMoves
<1>2. (y % 400 = 0 => y % 100 = 0) /\ (y % 100 = 0 => y % 4 = 0)
  OBVIOUS
<1>3. \A z \in Int : LeapDays(z) \in Int
  BY DEF LeapDays
<1>4. LeapDays(y + 1) = LeapDays(y) + IF Leap(y) THEN 1 ELSE 0
  <2>1. (y + 1) - 1 = y
    OBVIOUS
  <2> QED
    BY <1>1, <1>2, <2>1 DEF LeapDays, Leap
<1> QED
  BY <1>0, <1>3, <1>4 DEF DaysBefore

(* Years do not overlap. *)
LEMMA YearsApart ==
    ASSUME NEW y \in Int, NEW z \in Int, y < z
    PROVE  DaysBefore(y + 1) + 365 * (z - y - 1) <= DaysBefore(z)
<1>0. FirstYear \in Int
  BY TimeParseAssumption
<1>1. LeapDays(y + 1) <= LeapDays(z)
  <2> DEFINE a == y \div 4
             b == (z - 1) \div 4
  <2>1. a \in Int /\ b \in Int /\ a <= b
    OBVIOUS
  <2>2. /\ y \div 100 = a \div 25 /\ (z - 1) \div 100 = b \div 25
        /\ y \div 400 <= (z - 1) \div 400
    OBVIOUS
  <2> HIDE DEF a, b
  <2>3. b \div 25 - a \div 25 <= b - a
    BY <2>1
  <2>4. /\ LeapDays(y + 1) = a - a \div 25 + y \div 400
        /\ LeapDays(z) = b - b \div 25 + (z - 1) \div 400
    <3>1. (y + 1) - 1 = y
      OBVIOUS
    <3> QED
      BY <2>2, <3>1 DEF LeapDays, a, b
  <2> QED
    BY <2>1, <2>2, <2>3, <2>4
<1>2. LeapDays(y + 1) \in Int /\ LeapDays(z) \in Int /\ LeapDays(FirstYear) \in Int
  BY <1>0 DEF LeapDays
<1> QED
  BY <1>0, <1>1, <1>2 DEF DaysBefore

(* The instants of the model's years. *)
Instants == 0 .. DaysBefore(LastYear + 1) * Slots - 1

(* An instant is a slot of a day. *)
LEMMA DayOfInstant ==
    ASSUME NEW t \in Instants
    PROVE  /\ t \in Nat /\ t \div Slots \in Nat /\ t % Slots \in 0 .. Slots - 1
           /\ t = (t \div Slots) * Slots + (t % Slots)
           /\ t \div Slots < DaysBefore(LastYear + 1)
<1> DEFINE D == DaysBefore(LastYear + 1)
           q == t \div Slots
<1>1. Slots \in Nat /\ Slots > 0 /\ D \in Int
  BY TimeParseAssumption, YearLength
<1>2. t \in Nat /\ t <= D * Slots - 1
  BY <1>1 DEF Instants
<1> HIDE DEF D
<1>3. /\ q \in Nat /\ t % Slots \in 0 .. Slots - 1
      /\ t = q * Slots + (t % Slots)
  BY <1>1, <1>2
<1> HIDE DEF q
<1>4. ASSUME q >= D PROVE FALSE
  <2>1. (q - D) * Slots >= 0 /\ (q - D) * Slots = q * Slots - D * Slots
    BY <1>1, <1>3, <1>4
  <2>2. q * Slots \in Int /\ D * Slots \in Int
    BY <1>1, <1>3
  <2> QED
    BY <1>1, <1>2, <1>3, <2>1, <2>2
<1> QED
  BY <1>1, <1>2, <1>3, <1>4 DEF q, D

(* Every instant is in one year, and YearOf gives it. *)
LEMMA YearIs ==
    ASSUME NEW t \in Instants
    PROVE  /\ YearOf(t) \in FirstYear .. LastYear
           /\ DaysBefore(YearOf(t)) <= t \div Slots
           /\ t \div Slots < DaysBefore(YearOf(t) + 1)
<1> DEFINE d == t \div Slots
           S == {y \in FirstYear .. LastYear : d < DaysBefore(y + 1)}
<1>1. /\ FirstYear \in Int /\ LastYear \in Int /\ FirstYear < LastYear
      /\ d \in Nat /\ d < DaysBefore(LastYear + 1)
  BY TimeParseAssumption, DayOfInstant
<1>2. \A y \in Int : DaysBefore(y) \in Int
  BY YearLength
<1>3. DaysBefore(FirstYear) = 0
  BY <1>1 DEF DaysBefore, LeapDays
<1> HIDE DEF d
<1>4. PICK y \in S : \A z \in S : y <= z
  <2>1. S \subseteq Int /\ LastYear \in S
    BY <1>1
  <2>2. IsFiniteSet(S)
    <3>1. IsFiniteSet(FirstYear .. LastYear) /\ S \subseteq FirstYear .. LastYear
      BY <1>1, FS_Interval
    <3> HIDE DEF S
    <3> QED
      BY <3>1, FS_Subset
  <2> HIDE DEF S
  <2>3. /\ Cardinality(S) \in Nat
        /\ Ascending(S) \in [1 .. Cardinality(S) -> S]
        /\ \A k \in S : Rank(S, k) \in 1 .. Cardinality(S) /\ Ascending(S)[Rank(S, k)] = k
        /\ \A m, n \in 1 .. Cardinality(S) : m < n => Ascending(S)[m] < Ascending(S)[n]
    BY <2>1, <2>2, AscendingEnumerates
  <2>4. 1 \in 1 .. Cardinality(S)
    BY <2>1, <2>3
  <2>5. ASSUME NEW z \in S PROVE Ascending(S)[1] <= z
    <3>1. Rank(S, z) = 1 \/ 1 < Rank(S, z)
      BY <2>3
    <3>2. Ascending(S)[1] = z \/ Ascending(S)[1] < z
      BY <2>3, <2>4, <3>1
    <3>3. Ascending(S)[1] \in Int /\ z \in Int
      BY <2>1, <2>3, <2>4
    <3> QED
      BY <3>2, <3>3
  <2> QED
    BY <2>3, <2>4, <2>5
<1>5. DaysBefore(y) <= d
  <2>1. CASE y = FirstYear
    BY <1>1, <1>3, <2>1
  <2>2. CASE y # FirstYear
    <3>1. y - 1 \in FirstYear .. LastYear /\ ~(y <= y - 1) /\ (y - 1) + 1 = y
      BY <1>1, <2>2
    <3>2. ~(d < DaysBefore(y))
      BY <1>4, <3>1
    <3> QED
      BY <1>1, <1>2, <3>2
  <2> QED
    BY <2>1, <2>2
<1> QED
  BY <1>4, <1>5 DEF YearOf, d

-----------------------------------------------------------------------------
(* Stamps. *)

(* The months follow each other, and fill the year. *)
LEMMA Months ==
    ASSUME NEW y \in Int
    PROVE  /\ \A m \in 1 .. 12 : MonthStart(y, m) \in Nat
           /\ \A m \in 1 .. 11 : MonthStart(y, m + 1) = MonthStart(y, m) + Lengths(y)[m]
           /\ MonthStart(y, 1) = 0
           /\ MonthStart(y, 12) + Lengths(y)[12] = IF Leap(y) THEN 366 ELSE 365
<1>1. \A m \in 1 .. 12 : m \in {1, 2, 3, 4, 5, 6, 7, 8, 9, 10, 11, 12}
  OBVIOUS
<1>2. CASE Leap(y)
  BY <1>1, <1>2 DEF MonthStart, Lengths
<1>3. CASE ~Leap(y)
  BY <1>1, <1>3 DEF MonthStart, Lengths
<1> QED
  BY <1>2, <1>3

(* No month is longer than 31 days or shorter than 28.                     *)
LEMMA MonthLength ==
    ASSUME NEW y \in Int, NEW m \in 1 .. 12
    PROVE  Lengths(y)[m] \in 28 .. 31 /\ Lengths(y)[m] \in Nat
<1>1. m \in {1, 2, 3, 4, 5, 6, 7, 8, 9, 10, 11, 12}
  OBVIOUS
<1> QED
  BY <1>1 DEF Lengths

(* Two years differ in February, and in where the months after it start.    *)
LEMMA YearsDiffer ==
    ASSUME NEW y \in Int, NEW z \in Int, NEW m \in 1 .. 12
    PROVE  /\ m # 2 => Lengths(y)[m] = Lengths(z)[m]
           /\ m = 2 => Lengths(y)[m] \in {28, 29}
           /\ MonthStart(z, m) - MonthStart(y, m)
                = (IF m > 2 /\ Leap(z) THEN 1 ELSE 0) - (IF m > 2 /\ Leap(y) THEN 1 ELSE 0)
<1>1. m \in {1, 2, 3, 4, 5, 6, 7, 8, 9, 10, 11, 12}
  OBVIOUS
<1> QED
  BY <1>1 DEF MonthStart, Lengths

(* A stamp: a month, a day of it in some year, a slot of the day. *)
Stamps == [month : 1 .. 12, day : 1 .. 31, slot : 0 .. Slots - 1]

(* StampOf gives the one stamp that its year completes to the instant.      *)
LEMMA StampIs ==
    ASSUME NEW t \in Instants
    PROVE  /\ StampOf(t) \in Stamps
           /\ Valid(YearOf(t), StampOf(t))
           /\ Instant(YearOf(t), StampOf(t)) = t
<1> DEFINE y   == YearOf(t)
           day == t \div Slots - DaysBefore(y)
           In(k) == MonthStart(y, k) <= day /\ day < MonthStart(y, k) + Lengths(y)[k]
           m   == CHOOSE k \in 1 .. 12 : In(k)
<1>1. y \in Int /\ DaysBefore(y) \in Int
  BY YearIs, YearLength, TimeParseAssumption
<1>2. day \in Nat /\ day < IF Leap(y) THEN 366 ELSE 365
  BY <1>1, YearIs, YearLength, DayOfInstant
<1>3. StampOf(t) = [month |-> m, day |-> day - MonthStart(y, m) + 1, slot |-> t % Slots]
  BY DEF StampOf
<1> HIDE DEF day
<1>4. \E k \in 1 .. 12 : In(k)
  <2> DEFINE S(k) == MonthStart(y, k)
             L(k) == Lengths(y)[k]
  <2>0. y \in Int
    BY <1>1
  <2>1. /\ S(1) = 0 /\ S(12) + L(12) = IF Leap(y) THEN 366 ELSE 365
        /\ \A k \in 1 .. 12 : S(k) \in Nat /\ L(k) \in 28 .. 31
    <3>1. S(1) = 0
      BY <2>0, Months
    <3>2. S(12) + L(12) = IF Leap(y) THEN 366 ELSE 365
      BY <2>0, Months
    <3>3. \A k \in 1 .. 12 : S(k) \in Nat
      BY <2>0, Months
    <3>4. \A k \in 1 .. 12 : L(k) \in 28 .. 31
      BY <2>0, MonthLength
    <3> QED
      BY <3>1, <3>2, <3>3, <3>4
  <2>2. \A k \in 1 .. 11 : S(k + 1) = S(k) + L(k)
    BY <1>1, Months
  <2>3. /\ S(2) = S(1) + L(1) /\ S(3) = S(2) + L(2) /\ S(4) = S(3) + L(3)
        /\ S(5) = S(4) + L(4) /\ S(6) = S(5) + L(5) /\ S(7) = S(6) + L(6)
        /\ S(8) = S(7) + L(7) /\ S(9) = S(8) + L(8) /\ S(10) = S(9) + L(9)
        /\ S(11) = S(10) + L(10) /\ S(12) = S(11) + L(11)
    <3>1. 1 + 1 = 2 /\ 2 + 1 = 3 /\ 3 + 1 = 4 /\ 4 + 1 = 5 /\ 5 + 1 = 6 /\ 6 + 1 = 7
          /\ 7 + 1 = 8 /\ 8 + 1 = 9 /\ 9 + 1 = 10 /\ 10 + 1 = 11 /\ 11 + 1 = 12
      OBVIOUS
    <3> HIDE DEF S, L
    <3> QED
      BY <2>2, <3>1
  <2> SUFFICES ASSUME \A k \in 1 .. 12 : ~(S(k) <= day /\ day < S(k) + L(k))
               PROVE  FALSE
    OBVIOUS
  <2> HIDE DEF S, L
  <2> QED
    BY <1>2, <2>1, <2>3
<1>5. m \in 1 .. 12 /\ In(m)
  BY <1>4
<1> HIDE DEF m, y
<1>6. MonthStart(y, m) \in Nat /\ Lengths(y)[m] \in 28 .. 31
  <2>1. m \in 1 .. 12 /\ y \in Int
    BY <1>1, <1>5
  <2>2. MonthStart(y, m) \in Nat
    BY <2>1, Months
  <2>3. Lengths(y)[m] \in 28 .. 31
    BY <2>1, MonthLength
  <2> QED
    BY <2>2, <2>3
<1>7. day - MonthStart(y, m) + 1 \in 1 .. 31 /\ day - MonthStart(y, m) + 1 <= Lengths(y)[m]
  BY <1>2, <1>5, <1>6
<1>8. StampOf(t) \in Stamps /\ Valid(y, StampOf(t))
  BY <1>3, <1>5, <1>7, DayOfInstant DEF Stamps, Valid
<1>9. Instant(y, StampOf(t)) = t
  <2>1. DaysBefore(y) + MonthStart(y, m) + (day - MonthStart(y, m) + 1) - 1 = t \div Slots
    BY <1>1, <1>2, <1>6, DayOfInstant DEF day
  <2>2. Instant(y, StampOf(t)) = (t \div Slots) * Slots + (t % Slots)
    BY <1>3, <2>1 DEF Instant
  <2> QED
    BY <2>2, DayOfInstant
<1> QED
  BY <1>8, <1>9 DEF y

(* When a year begins. *)
Begins(y) == DaysBefore(y) * Slots

(* Years in slots. *)
LEMMA YearsInSlots ==
    ASSUME NEW y \in Int
    PROVE  /\ Begins(y) \in Int
           /\ Begins(y + 1) - Begins(y) \in {365 * Slots, 366 * Slots}
           /\ \A z \in Int : y < z => Begins(y + 1) + (z - y - 1) * 365 * Slots <= Begins(z)
           /\ y >= FirstYear => Begins(y) >= 0
<1>0. Slots \in Nat /\ Slots > 0 /\ FirstYear \in Int
  BY TimeParseAssumption
<1>1. \A z \in Int : DaysBefore(z) \in Int
  BY YearLength
<1>2. Begins(y + 1) - Begins(y) \in {365 * Slots, 366 * Slots}
  <2>1. DaysBefore(y + 1) = DaysBefore(y) + 365 \/ DaysBefore(y + 1) = DaysBefore(y) + 366
    BY YearLength
  <2> DEFINE d == DaysBefore(y)
  <2>2. d \in Int
    BY <1>1
  <2> HIDE DEF d
  <2>3. (d + 365) * Slots = d * Slots + 365 * Slots /\ (d + 366) * Slots = d * Slots + 366 * Slots
    BY <1>0, <2>2
  <2>4. Begins(y + 1) = d * Slots + 365 * Slots \/ Begins(y + 1) = d * Slots + 366 * Slots
    BY <2>1, <2>3 DEF Begins, d
  <2>5. Begins(y) = d * Slots /\ d * Slots \in Int
    BY <1>0, <2>2 DEF Begins, d
  <2> QED
    BY <1>0, <2>4, <2>5
<1>3. ASSUME NEW z \in Int, y < z
      PROVE  Begins(y + 1) + (z - y - 1) * 365 * Slots <= Begins(z)
  <2> DEFINE a == DaysBefore(y + 1) + 365 * (z - y - 1)
             b == DaysBefore(z)
  <2>1. a \in Int /\ b \in Int /\ b - a \in Nat
    BY <1>1, <1>3, YearsApart
  <2>2. a * Slots = Begins(y + 1) + (z - y - 1) * 365 * Slots
    BY <1>0, <1>1 DEF Begins
  <2> HIDE DEF a, b
  <2>3. (b - a) * Slots >= 0 /\ (b - a) * Slots = b * Slots - a * Slots
    BY <1>0, <2>1
  <2>4. b * Slots \in Int /\ a * Slots \in Int
    BY <1>0, <2>1
  <2> QED
    BY <2>2, <2>3, <2>4 DEF Begins, b
<1>4. ASSUME y >= FirstYear PROVE Begins(y) >= 0
  <2>1. DaysBefore(FirstYear) = 0
    BY <1>0 DEF DaysBefore, LeapDays
  <2>2. DaysBefore(y) \in Nat
    <3>1. CASE y = FirstYear
      BY <2>1, <3>1
    <3>2. CASE y # FirstYear
      <4>1. DaysBefore(FirstYear + 1) >= 365
        BY <1>0, <2>1, YearLength
      <4>2. DaysBefore(FirstYear + 1) + 365 * (y - FirstYear - 1) <= DaysBefore(y)
        BY <1>0, <1>4, <3>2, YearsApart
      <4> QED
        BY <1>0, <1>1, <1>4, <3>2, <4>1, <4>2
    <3> QED
      BY <3>1, <3>2
  <2> QED
    BY <1>0, <2>2 DEF Begins
<1> QED
  BY <1>0, <1>1, <1>2, <1>3, <1>4 DEF Begins

(* A stamp that a year can complete is in that year. *)
LEMMA InstantInYear ==
    ASSUME NEW y \in Int, NEW s \in Stamps, Valid(y, s)
    PROVE  /\ Instant(y, s) \in Int
           /\ Begins(y) <= Instant(y, s) /\ Instant(y, s) < Begins(y + 1)
<1> DEFINE m == s.month
           len == IF Leap(y) THEN 366 ELSE 365
           d == MonthStart(y, m) + s.day - 1
           b == DaysBefore(y)
<1>1. /\ m \in 1 .. 12 /\ s.day \in 1 .. 31 /\ s.slot \in 0 .. Slots - 1
      /\ s.day <= Lengths(y)[m]
  BY DEF Stamps, Valid
<1>2. MonthStart(y, m) \in Nat /\ Lengths(y)[m] \in Nat
  <2> HIDE DEF m
  <2>1. MonthStart(y, m) \in Nat
    BY <1>1, Months
  <2>2. Lengths(y)[m] \in Nat
    BY <1>1, MonthLength
  <2> QED
    BY <2>1, <2>2
<1>3. MonthStart(y, m) + Lengths(y)[m] <= len
  <2>1. m \in {1, 2, 3, 4, 5, 6, 7, 8, 9, 10, 11, 12}
    BY <1>1
  <2> HIDE DEF m
  <2>2. CASE Leap(y)
    BY <2>1, <2>2 DEF MonthStart, Lengths
  <2>3. CASE ~Leap(y)
    BY <2>1, <2>3 DEF MonthStart, Lengths
  <2> QED
    BY <2>2, <2>3
<1>4. d \in Nat /\ len - 1 - d \in Nat
  BY <1>1, <1>2, <1>3
<1>5. Slots \in Nat /\ Slots > 0 /\ b \in Int /\ DaysBefore(y + 1) = b + len
  BY TimeParseAssumption, YearLength
<1>6. Instant(y, s) = (b + d) * Slots + s.slot
  <2>1. DaysBefore(y) + MonthStart(y, s.month) + s.day - 1 = b + d
    BY <1>1, <1>2, <1>5
  <2> QED
    BY <2>1 DEF Instant
<1>7. len \in Int
  OBVIOUS
<1> HIDE DEF b, d, len
<1>8. /\ (b + d) * Slots = b * Slots + d * Slots
      /\ (b + len) * Slots = b * Slots + d * Slots + (len - 1 - d) * Slots + Slots
      /\ d * Slots \in Nat /\ (len - 1 - d) * Slots \in Nat /\ b * Slots \in Int
  BY <1>4, <1>5, <1>7
<1>9. Begins(y) = b * Slots /\ Begins(y + 1) = (b + len) * Slots
  BY <1>5 DEF Begins, b
<1> QED
  BY <1>1, <1>5, <1>6, <1>8, <1>9

(* The same stamp a year earlier is a year earlier. *)
LEMMA YearBack ==
    ASSUME NEW y \in Int, NEW s \in Stamps
    PROVE  /\ Instant(y, s) \in Int /\ Instant(y - 1, s) \in Int
           /\ Instant(y, s) - Instant(y - 1, s) \in {365 * Slots, 366 * Slots}
<1> DEFINE m == s.month
           a == DaysBefore(y - 1) + MonthStart(y - 1, m) + s.day - 1
           b == DaysBefore(y) + MonthStart(y, m) + s.day - 1
<1>1. m \in 1 .. 12 /\ s.day \in 1 .. 31 /\ s.slot \in 0 .. Slots - 1
  BY DEF Stamps
<1>2. Slots \in Nat /\ Slots > 0
  BY TimeParseAssumption
<1>3. MonthStart(y, m) \in Nat /\ MonthStart(y - 1, m) \in Nat
  <2> HIDE DEF m
  <2>1. \A x \in Int : MonthStart(x, m) \in Nat
    BY <1>1, Months
  <2> QED
    BY <2>1
<1>4. /\ DaysBefore(y - 1) \in Int /\ DaysBefore(y) \in Int
      /\ DaysBefore(y) = DaysBefore(y - 1) + IF Leap(y - 1) THEN 366 ELSE 365
  <2>1. y - 1 \in Int /\ (y - 1) + 1 = y
    OBVIOUS
  <2> QED
    BY <2>1, YearLength
<1>5. MonthStart(y, m) - MonthStart(y - 1, m)
        = (IF m > 2 /\ Leap(y) THEN 1 ELSE 0) - (IF m > 2 /\ Leap(y - 1) THEN 1 ELSE 0)
  <2> HIDE DEF m
  <2>1. y - 1 \in Int
    OBVIOUS
  <2> QED
    BY <1>1, <2>1, YearsDiffer
<1>6. a \in Int /\ b \in Int /\ (b = a + 365 \/ b = a + 366)
  BY <1>1, <1>3, <1>4, <1>5
<1>7. Instant(y, s) = b * Slots + s.slot /\ Instant(y - 1, s) = a * Slots + s.slot
  BY DEF Instant
<1> HIDE DEF a, b
<1>8. /\ a * Slots \in Int
      /\ (a + 365) * Slots = a * Slots + 365 * Slots
      /\ (a + 366) * Slots = a * Slots + 366 * Slots
  BY <1>2, <1>6
<1> QED
  BY <1>1, <1>2, <1>6, <1>7, <1>8

(* An instant in the slots of its year. *)
LEMMA InstantsOfYears ==
    ASSUME NEW t \in Instants
    PROVE  /\ YearOf(t) \in Int /\ YearOf(t) >= FirstYear
           /\ Begins(YearOf(t)) <= t /\ t < Begins(YearOf(t) + 1)
<1>1. YearOf(t) \in FirstYear .. LastYear /\ FirstYear \in Int /\ LastYear \in Int
  BY YearIs, TimeParseAssumption
<1>2. /\ StampOf(t) \in Stamps /\ Valid(YearOf(t), StampOf(t))
      /\ Instant(YearOf(t), StampOf(t)) = t
  BY StampIs
<1> QED
  BY <1>1, <1>2, InstantInYear

-----------------------------------------------------------------------------
(* parse_timestamp. *)

(* The current year, if its time is not beyond the tolerance, or the year   *)
(* before.                                                                  *)
LEMMA ParseChooses ==
    ASSUME NEW t \in Instants, NEW s \in Stamps
    PROVE  LET y == YearOf(t)
           IN \/ ~Valid(y, s) /\ Parse(s, t) = Error
              \/ /\ Valid(y, s) /\ Instant(y, s) <= t + Slots
                 /\ Parse(s, t) = Instant(y, s)
              \/ /\ Valid(y, s) /\ Instant(y, s) > t + Slots
                 /\ Parse(s, t) = InYear(y - 1, s)
<1> DEFINE y == YearOf(t)
<1>1. t \in Nat /\ Slots \in Nat /\ y \in Int
  BY DayOfInstant, InstantsOfYears, TimeParseAssumption
<1>2. CASE ~Valid(y, s)
  <2>1. InYear(y, s) = Error /\ ~(Error - t > Slots)
    BY <1>1, <1>2 DEF InYear, Error
  <2> QED
    BY <1>2, <2>1 DEF Parse
<1>3. CASE Valid(y, s)
  <2>1. InYear(y, s) = Instant(y, s) /\ Instant(y, s) \in Int
    BY <1>1, <1>3, InstantInYear DEF InYear
  <2> HIDE DEF y
  <2>2. Instant(y, s) - t > Slots <=> Instant(y, s) > t + Slots
    BY <1>1, <2>1
  <2>3. Parse(s, t) = IF Instant(y, s) - t > Slots THEN InYear(y - 1, s) ELSE Instant(y, s)
    BY <2>1 DEF Parse, y
  <2> QED
    BY <1>1, <1>3, <2>1, <2>2, <2>3 DEF y
<1> QED
  BY <1>2, <1>3

(* A time beyond the tolerance is of a line of an earlier year. *)
LEMMA BackIsEarlier ==
    ASSUME NEW w \in Instants, NEW t \in Instants, w <= t + Slots,
           Valid(YearOf(t), StampOf(w)), Instant(YearOf(t), StampOf(w)) > t + Slots
    PROVE  YearOf(w) < YearOf(t)
<1> DEFINE y == YearOf(t)
           z == YearOf(w)
           s == StampOf(w)
<1>1. /\ y \in Int /\ z \in Int /\ w \in Int /\ t \in Int /\ Slots \in Int /\ Slots > 0
      /\ Begins(y) <= t /\ t < Begins(y + 1) /\ Begins(z) <= w /\ w < Begins(z + 1)
  BY InstantsOfYears, DayOfInstant, TimeParseAssumption
<1>2. s \in Stamps /\ Instant(z, s) = w
  BY StampIs
<1> HIDE DEF y, z, s
<1>3. z # y
  BY <1>1, <1>2 DEF y, z, s
<1>4. ASSUME z = y + 1 PROVE FALSE
  <2>1. z - 1 = y
    BY <1>1, <1>4
  <2>2. Instant(z, s) - Instant(y, s) \in {365 * Slots, 366 * Slots} /\ Instant(y, s) \in Int
    BY <1>1, <1>2, <2>1, YearBack
  <2> QED
    BY <1>1, <1>2, <2>2 DEF y, s
<1>5. ASSUME z > y + 1 PROVE FALSE
  <2>1. /\ Begins(y + 1) \in Int /\ Begins(y + 2) \in Int /\ Begins(z) \in Int
        /\ Begins(y + 2) >= Begins(y + 1) + 365 * Slots
    <3>1. (y + 1) + 1 = y + 2
      BY <1>1
    <3> QED
      BY <1>1, <3>1, YearsInSlots
  <2>2. Begins(y + 2) <= Begins(z)
    <3>1. CASE z = y + 2
      BY <2>1, <3>1
    <3>2. CASE z # y + 2
      <4>1. y + 2 < z /\ y + 2 \in Int
        BY <1>1, <1>5, <3>2
      <4>2. /\ Begins((y + 2) + 1) + (z - (y + 2) - 1) * 365 * Slots <= Begins(z)
            /\ Begins((y + 2) + 1) \in Int
            /\ Begins((y + 2) + 1) - Begins(y + 2) \in {365 * Slots, 366 * Slots}
        BY <1>1, <4>1, YearsInSlots
      <4>3. (z - (y + 2) - 1) * 365 * Slots >= 0
        <5>1. z - (y + 2) - 1 \in Nat
          BY <1>1, <4>1
        <5> QED
          BY <1>1, <5>1
      <4>4. (z - (y + 2) - 1) * 365 * Slots \in Int
        BY <1>1
      <4> QED
        BY <1>1, <2>1, <4>2, <4>3, <4>4
    <3> QED
      BY <3>1, <3>2
  <2> QED
    BY <1>1, <2>1, <2>2
<1> QED
  BY <1>1, <1>3, <1>4, <1>5 DEF y, z

(* Whenever it is called, it is called with what the reader can have: a     *)
(* line no more than a day younger than the reference.                      *)
THEOREM TimeInvariant == Spec => []TimeInv
<1> USE TimeParseAssumption
<1>0. Moments \subseteq Instants /\ \A t \in Moments : t \in Nat /\ t # Never
  BY DayOfInstant DEF Instants, Never
<1>1. Init => TimeInv
  BY DEF Init, TimeInv
<1>2. TimeInv /\ [Next]_vars => TimeInv'
  <2> SUFFICES ASSUME TimeInv, [Next]_vars PROVE TimeInv'
    OBVIOUS
  <2>1. CASE Wait
    <3>1. PICK t \in Moments : t > clock /\ clock' = t
      BY <2>1 DEF Wait
    <3>2. /\ line' = line /\ ref' = ref /\ parsed' = {}
      BY <2>1 DEF Wait
    <3>3. /\ line # Never => line \in Moments /\ line <= clock'
          /\ ref # Never => ref \in Moments /\ ref <= clock'
      <4>1. clock \in Nat /\ clock' \in Nat /\ clock <= clock'
        BY <1>0, <3>1 DEF TimeInv
      <4>2. /\ line # Never => line \in Moments /\ line <= clock /\ line \in Nat
            /\ ref # Never => ref \in Moments /\ ref <= clock /\ ref \in Nat
        BY <1>0 DEF TimeInv
      <4> QED
        BY <4>1, <4>2
    <3> QED
      BY <3>1, <3>2, <3>3 DEF TimeInv
  <2>2. CASE Write
    <3>1. /\ line' = clock /\ clock' = clock /\ ref' = ref /\ parsed' = {}
          /\ ref = Never \/ clock - ref <= Slots
      BY <2>2 DEF Write
    <3>2. clock \in Moments /\ clock \in Nat
      BY <1>0 DEF TimeInv
    <3>3. ref # Never => clock <= ref + Slots
      <4>1. ref # Never => ref \in Nat
        BY <1>0 DEF TimeInv
      <4> QED
        BY <3>1, <3>2, <4>1
    <3> QED
      BY <3>1, <3>2, <3>3 DEF TimeInv
  <2>3. CASE Begin
    <3>1. ref' = clock /\ clock' = clock /\ line' = line /\ parsed' = {}
      BY <2>3 DEF Begin
    <3>2. clock \in Moments /\ clock \in Nat
      BY <1>0 DEF TimeInv
    <3>3. line # Never => line <= clock + Slots
      <4>1. line # Never => line \in Nat /\ line <= clock
        BY <1>0 DEF TimeInv
      <4> QED
        BY <3>2, <4>1
    <3> QED
      BY <3>1, <3>2, <3>3 DEF TimeInv
  <2>4. CASE Read
    <3>1. /\ ref # Never /\ ref' = Never /\ line' = Never /\ clock' = clock
          /\ \A p \in parsed' : /\ line # Never
                                /\ p = [line |-> line, ref |-> ref,
                                        ts |-> Parse(StampOf(line), ref)]
      BY <2>4 DEF Read
    <3>2. \A p \in parsed' : /\ p.line \in Moments /\ p.ref \in Moments
                             /\ p.line <= p.ref + Slots
                             /\ p.ts = Parse(StampOf(p.line), p.ref)
      BY <3>1 DEF TimeInv
    <3> QED
      BY <3>1, <3>2 DEF TimeInv
  <2>5. CASE UNCHANGED vars
    BY <2>5 DEF vars, TimeInv
  <2> QED
    BY <2>1, <2>2, <2>3, <2>4, <2>5 DEF Next
<1> QED
  BY <1>1, <1>2, PTL DEF Spec

(* What the properties are about. *)
LEMMA ParsedIs ==
    ASSUME TimeInv, NEW p \in parsed
    PROVE  /\ p.line \in Instants /\ p.ref \in Instants /\ p.line <= p.ref + Slots
           /\ StampOf(p.line) \in Stamps /\ p.ts = Parse(StampOf(p.line), p.ref)
<1>1. p.line \in Instants /\ p.ref \in Instants
  BY TimeParseAssumption DEF TimeInv, Instants
<1> QED
  BY <1>1, StampIs DEF TimeInv

(* parse_timestamp gives a line of the last 364 days, and one that is       *)
(* written while the cycle runs but for new year's, the time it was written *)
(* at, for any years and any grain of the day.                              *)
THEOREM YearTheorem == Spec => []YearIsRight
<1>1. TimeInv => YearIsRight
  <2> SUFFICES ASSUME TimeInv, NEW p \in parsed,
                      p.ref - p.line \in -Slots .. 364 * Slots - 1,
                      p.line > p.ref => YearOf(p.line) = YearOf(p.ref)
               PROVE  p.ts \in {p.line, Error}
    BY DEF YearIsRight
  <2> DEFINE w == p.line
             t == p.ref
             s == StampOf(w)
             y == YearOf(t)
             z == YearOf(w)
  <2>1. w \in Instants /\ t \in Instants /\ w <= t + Slots /\ s \in Stamps /\ p.ts = Parse(s, t)
    BY ParsedIs
  <2>2. /\ w \in Nat /\ t \in Nat /\ Slots \in Nat /\ Slots > 0 /\ y \in Int /\ z \in Int
        /\ Begins(y) <= t /\ t < Begins(y + 1) /\ Begins(z) <= w /\ w < Begins(z + 1)
    BY <2>1, InstantsOfYears, DayOfInstant, TimeParseAssumption
  <2>3. Valid(z, s) /\ Instant(z, s) = w
    BY <2>1, StampIs
  <2>4. t - w < 364 * Slots
    BY <2>2
  <2>5. p.ts = Error \/ p.ts = Instant(y, s)
           \/ (Valid(y, s) /\ Instant(y, s) > t + Slots /\ p.ts = InYear(y - 1, s))
    BY <2>1, ParseChooses
  <2>6. ASSUME y < z PROVE FALSE
    <3>1. Begins(y + 1) + (z - y - 1) * 365 * Slots <= Begins(z)
      BY <2>2, <2>6, YearsInSlots
    <3>2. (z - y - 1) * 365 * Slots >= 0 /\ (z - y - 1) * 365 * Slots \in Int
      <4>1. z - y - 1 \in Nat
        BY <2>2, <2>6
      <4> QED
        BY <2>2, <4>1
    <3>3. Begins(y + 1) \in Int /\ Begins(z) \in Int
      BY <2>2, YearsInSlots
    <3>4. w > t
      BY <2>2, <3>1, <3>2, <3>3
    <3> QED
      BY <2>2, <2>6, <3>4
  <2>7. CASE y = z
    <3>1. ~(Instant(y, s) > t + Slots)
      BY <2>1, <2>2, <2>3, <2>7
    <3> QED
      BY <2>3, <2>5, <2>7, <3>1
  <2>8. CASE z < y
    <3>1. z = y - 1
      <4> SUFFICES ASSUME z + 1 < y PROVE FALSE
        BY <2>2, <2>8
      <4>1. Begins((z + 1) + 1) + (y - (z + 1) - 1) * 365 * Slots <= Begins(y)
        BY <2>2, YearsInSlots
      <4>2. (y - (z + 1) - 1) * 365 * Slots >= 0 /\ (y - (z + 1) - 1) * 365 * Slots \in Int
        <5>1. y - (z + 1) - 1 \in Nat
          BY <2>2
        <5> QED
          BY <2>2, <5>1
      <4>3. /\ Begins((z + 1) + 1) - Begins(z + 1) \in {365 * Slots, 366 * Slots}
            /\ Begins(z + 1) \in Int /\ Begins((z + 1) + 1) \in Int /\ Begins(y) \in Int
        <5>1. z + 1 \in Int /\ (z + 1) + 1 \in Int
          BY <2>2
        <5>2. \A x \in Int : Begins(x) \in Int
          BY YearsInSlots
        <5> QED
          BY <2>2, <5>1, <5>2, YearsInSlots
      <4> QED
        BY <2>2, <2>4, <4>1, <4>2, <4>3
    <3>2. /\ Instant(y, s) - Instant(y - 1, s) \in {365 * Slots, 366 * Slots}
          /\ Instant(y, s) \in Int
      BY <2>1, <2>2, YearBack
    <3>3. Instant(y - 1, s) = w /\ Valid(y - 1, s)
      BY <2>3, <3>1
    <3>4. Instant(y, s) > t + Slots
      BY <2>2, <2>4, <3>2, <3>3
    <3>5. p.ts = Error \/ p.ts = InYear(y - 1, s)
      BY <2>1, <2>2, <3>2, <3>4, ParseChooses
    <3> QED
      BY <3>3, <3>5 DEF InYear
  <2> QED
    BY <2>2, <2>6, <2>7, <2>8
<1> QED
  BY <1>1, TimeInvariant, PTL

(* A year that a stamp of another year does not fit is no leap year, and    *)
(* the stamp a leap day's.                                                  *)
LEMMA OnlyLeapDays ==
    ASSUME NEW y \in Int, NEW z \in Int, NEW s \in Stamps, Valid(z, s), ~Valid(y, s)
    PROVE  s.month = 2 /\ s.day = 29 /\ y # z
<1>1. s.month \in 1 .. 12 /\ s.day \in 1 .. 31
  BY DEF Stamps
<1>2. s.day <= Lengths(z)[s.month] /\ ~(s.day <= Lengths(y)[s.month])
  BY DEF Valid
<1>3. s.month = 2
  BY <1>1, <1>2, YearsDiffer
<1>4. Lengths(y)[s.month] \in {28, 29} /\ Lengths(z)[s.month] \in {28, 29}
  BY <1>1, <1>3, YearsDiffer
<1> QED
  BY <1>1, <1>2, <1>3, <1>4

(* No line is dropped but a leap day's, and that only when it is read in    *)
(* another year than its own.                                               *)
THEOREM LeapDayTheorem == Spec => []OnlyLeapDaysAreDropped
<1>1. TimeInv => OnlyLeapDaysAreDropped
  <2> SUFFICES ASSUME TimeInv, NEW p \in parsed, p.ts = Error
               PROVE  /\ StampOf(p.line).month = 2 /\ StampOf(p.line).day = 29
                      /\ YearOf(p.line) # YearOf(p.ref)
    BY DEF OnlyLeapDaysAreDropped
  <2> DEFINE w == p.line
             t == p.ref
             s == StampOf(w)
             y == YearOf(t)
             z == YearOf(w)
  <2>1. w \in Instants /\ t \in Instants /\ w <= t + Slots /\ s \in Stamps /\ p.ts = Parse(s, t)
    BY ParsedIs
  <2>2. y \in Int /\ y >= FirstYear /\ z \in Int /\ z >= FirstYear /\ FirstYear \in Int
    BY <2>1, InstantsOfYears, TimeParseAssumption
  <2>3. Valid(z, s)
    BY <2>1, StampIs
  <2>4. \A x \in Int : x >= FirstYear /\ Valid(x, s) => Instant(x, s) # Error
    <3> SUFFICES ASSUME NEW x \in Int, x >= FirstYear, Valid(x, s)
                 PROVE  Instant(x, s) # Error
      OBVIOUS
    <3>1. Begins(x) >= 0 /\ Begins(x) \in Int
      BY YearsInSlots
    <3>2. Begins(x) <= Instant(x, s) /\ Instant(x, s) \in Int
      BY <2>1, InstantInYear
    <3> QED
      BY <3>1, <3>2 DEF Error
  <2>5. \/ ~Valid(y, s)
        \/ Valid(y, s) /\ p.ts = Instant(y, s)
        \/ Valid(y, s) /\ Instant(y, s) > t + Slots /\ p.ts = InYear(y - 1, s)
    BY <2>1, ParseChooses
  <2>6. CASE ~Valid(y, s)
    BY <2>1, <2>2, <2>3, <2>6, OnlyLeapDays
  <2>7. CASE Valid(y, s) /\ Instant(y, s) > t + Slots /\ p.ts = InYear(y - 1, s)
    <3>1. z < y
      BY <2>1, <2>7, BackIsEarlier
    <3>2. y - 1 \in Int /\ y - 1 >= FirstYear
      BY <2>2, <3>1
    <3>3. ~Valid(y - 1, s)
      BY <2>4, <2>7, <3>2 DEF InYear
    <3> QED
      BY <2>1, <2>2, <2>3, <3>1, <3>2, <3>3, OnlyLeapDays
  <2> QED
    BY <2>2, <2>4, <2>5, <2>6, <2>7
<1> QED
  BY <1>1, TimeInvariant, PTL

(* However old the line, its time is at most a day in the future and a year *)
(* in the past.                                                             *)
THEOREM NearTheorem == Spec => []StampIsNear
<1>1. TimeInv => StampIsNear
  <2> SUFFICES ASSUME TimeInv, NEW p \in parsed, p.ts # Error
               PROVE  p.ts <= p.ref + Slots /\ p.ref - p.ts <= 366 * Slots
    BY DEF StampIsNear
  <2> DEFINE w == p.line
             t == p.ref
             s == StampOf(w)
             y == YearOf(t)
  <2>1. w \in Instants /\ t \in Instants /\ w <= t + Slots /\ s \in Stamps /\ p.ts = Parse(s, t)
    BY ParsedIs
  <2>2. /\ t \in Nat /\ Slots \in Nat /\ Slots > 0 /\ y \in Int
        /\ Begins(y) <= t /\ t < Begins(y + 1)
    BY <2>1, InstantsOfYears, DayOfInstant, TimeParseAssumption
  <2>3. Begins(y) \in Int /\ Begins(y + 1) - Begins(y) \in {365 * Slots, 366 * Slots}
        /\ Begins(y + 1) \in Int
    BY <2>2, YearsInSlots
  <2>4. \/ Valid(y, s) /\ Instant(y, s) <= t + Slots /\ p.ts = Instant(y, s)
        \/ Valid(y, s) /\ Instant(y, s) > t + Slots /\ p.ts = InYear(y - 1, s)
    BY <2>1, ParseChooses
  <2>5. Valid(y, s) => /\ Instant(y, s) \in Int
                       /\ Begins(y) <= Instant(y, s) /\ Instant(y, s) < Begins(y + 1)
    BY <2>1, <2>2, InstantInYear
  <2>6. CASE Valid(y, s) /\ Instant(y, s) <= t + Slots /\ p.ts = Instant(y, s)
    BY <2>2, <2>3, <2>5, <2>6
  <2>7. CASE Valid(y, s) /\ Instant(y, s) > t + Slots /\ p.ts = InYear(y - 1, s)
    <3>1. Valid(y - 1, s) /\ p.ts = Instant(y - 1, s)
      BY <2>7 DEF InYear
    <3>2. /\ Instant(y, s) - Instant(y - 1, s) \in {365 * Slots, 366 * Slots}
          /\ Instant(y - 1, s) \in Int
      BY <2>1, <2>2, YearBack
    <3> QED
      BY <2>2, <2>3, <2>5, <2>7, <3>1, <3>2
  <2> QED
    BY <2>4, <2>6, <2>7
<1> QED
  BY <1>1, TimeInvariant, PTL

=============================================================================
