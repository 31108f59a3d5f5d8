------------------------ MODULE PaymentReportsProofs ------------------------
(***************************************************************************)
(* What the rules of payments and reports do for every amount and period,  *)
(* and what a user reads for any number of payments and any page size: a   *)
(* page is cut from the whole history, turning the pages misses no more    *)
(* than came in while the last one was read, and the figures of a report   *)
(* differ by news alone.                                                   *)
(*                                                                         *)
(* Payments only come in or are settled (Grows, ReportGrows), so that what *)
(* a reader has read is what is there now, less the news.                  *)
(***************************************************************************)
EXTENDS PaymentReports, FiniteSetTheorems, WellFoundedInduction, TLAPS

-----------------------------------------------------------------------------
(* The tariff and the periods.                                             *)

\* The bands cover every amount the calculator accepts, and two bands never
\* cover the same one: find never comes back empty, and the order of the array
\* does not matter (MOMO_TO_MOMO_FEE_BANDS, transaction-tariffs.ts:29-36).
THEOREM OneBand ==
    \A amount \in Amount : \E band \in Bands :
        /\ Covers(band, amount)
        /\ \A other \in Bands : Covers(other, amount) => other = band
<1>1. ASSUME NEW amount \in Amount PROVE \E band \in Bands : Covers(band, amount)
  <2>1. amount \in Int /\ 1 <= amount /\ amount <= 10000000
    BY SMT DEF Amount, MinAmount, MaxAmount
  <2>2. ASSUME NEW min \in Int, NEW max \in Int, NEW fee \in Int,
               Band(min, max, fee) \in Bands, min <= amount, amount <= max
        PROVE  \E band \in Bands : Covers(band, amount)
    <3>1. Covers(Band(min, max, fee), amount) BY <2>2, SMT DEF Covers, Band
    <3>2. QED BY <2>2, <3>1
  <2>3. CASE 1 <= amount /\ amount <= 1000
    <3>1. Band(1, 1000, 20) \in Bands BY SMT DEF Bands
    <3>2. QED BY <2>2, <2>3, <3>1, SMT
  <2>4. CASE 1001 <= amount /\ amount <= 10000
    <3>1. Band(1001, 10000, 100) \in Bands BY SMT DEF Bands
    <3>2. QED BY <2>2, <2>4, <3>1, SMT
  <2>5. CASE 10001 <= amount /\ amount <= 150000
    <3>1. Band(10001, 150000, 250) \in Bands BY SMT DEF Bands
    <3>2. QED BY <2>2, <2>5, <3>1, SMT
  <2>6. CASE 150001 <= amount /\ amount <= 2000000
    <3>1. Band(150001, 2000000, 1500) \in Bands BY SMT DEF Bands
    <3>2. QED BY <2>2, <2>6, <3>1, SMT
  <2>7. CASE 2000001 <= amount /\ amount <= 5000000
    <3>1. Band(2000001, 5000000, 3000) \in Bands BY SMT DEF Bands
    <3>2. QED BY <2>2, <2>7, <3>1, SMT
  <2>8. CASE 5000001 <= amount /\ amount <= 10000000
    <3>1. Band(5000001, 10000000, 5000) \in Bands BY SMT DEF Bands
    <3>2. QED BY <2>2, <2>8, <3>1, SMT
  <2>9. QED BY <2>1, <2>3, <2>4, <2>5, <2>6, <2>7, <2>8, SMT
<1>2. ASSUME NEW amount \in Amount, NEW band \in Bands, NEW other \in Bands,
             Covers(band, amount), Covers(other, amount)
      PROVE  other = band
  <2>1. amount \in Int BY SMT DEF Amount, MinAmount, MaxAmount
  <2>2. QED BY <1>2, <2>1, SMT DEF Bands, Band, Covers
<1>3. QED BY <1>1, <1>2

\* A larger transfer never costs less, whatever its type
\* (resolveTariff, transaction-fee-calculator.service.ts:55-91).
THEOREM FeeGrows ==
    \A amount \in Amount, larger \in Amount, type \in TransferType :
        amount <= larger => Fee(amount, type) <= Fee(larger, type)
<1> SUFFICES ASSUME NEW amount \in Amount, NEW larger \in Amount, NEW type \in TransferType,
                    amount <= larger
             PROVE  Fee(amount, type) <= Fee(larger, type)
  OBVIOUS
<1>1. CASE type = "MOMO_TO_MOMO"
  <2>1. /\ BandOf(amount) \in Bands /\ Covers(BandOf(amount), amount)
        /\ BandOf(larger) \in Bands /\ Covers(BandOf(larger), larger)
    BY OneBand DEF BandOf
  <2>2. ASSUME NEW low \in Bands, NEW high \in Bands, Covers(low, amount), Covers(high, larger)
        PROVE  low.fee <= high.fee
    <3>1. amount \in Int /\ larger \in Int BY SMT DEF Amount, MinAmount, MaxAmount
    <3>2. low.min <= high.max
      <4>1. low.min \in Int /\ high.max \in Int BY SMT DEF Bands, Band
      <4>2. QED BY <2>2, <3>1, <4>1, SMT DEF Covers
    <3>3. QED BY <3>2, SMT DEF Bands, Band
  <2>3. Fee(amount, type) = BandOf(amount).fee /\ Fee(larger, type) = BandOf(larger).fee
    BY <1>1 DEF Fee
  <2>4. QED BY <2>1, <2>2, <2>3
<1>2. CASE type = "MOMO_TO_EKASH" BY <1>2, SMT DEF Fee
<1>3. CASE type = "MOMO_PAY" BY <1>3, SMT DEF Fee
<1>4. QED BY <1>1, <1>2, <1>3 DEF TransferType

\* The period a report is compared with is as long as its own, ends where it
\* begins, and shares no moment with it: every moment from the start of the
\* one to the end of the other is in exactly one of them
\* (getAnalytics, transaction-analytics.service.ts:35-39).
THEOREM PreviousMeets ==
    \A from \in Int, to \in Int :
        from <= to =>
            LET period == [from |-> from, to |-> to] IN
            /\ Previous(period).to - Previous(period).from = to - from
            /\ \A moment \in Int :
                /\ ~(In(moment, period) /\ In(moment, Previous(period)))
                /\ Previous(period).from <= moment /\ moment <= to
                     => In(moment, period) \/ In(moment, Previous(period))
  BY SMT DEF Previous, In

-----------------------------------------------------------------------------
(* Percentages.                                                            *)

LEMMA Division ==
    ASSUME NEW a \in Int, NEW b \in Nat \ {0}
    PROVE  a \div b \in Int /\ b * (a \div b) <= a /\ a < b * (a \div b) + b
<1>1. a \div b \in Int BY SMT
<1>2. a = b * (a \div b) + (a % b) BY SMT
<1>3. a % b \in 0..(b - 1) BY SMT
<1>4. QED BY <1>1, <1>2, <1>3, SMT

LEMMA Cancelled ==
    ASSUME NEW b \in Nat \ {0}, NEW p \in Int, NEW q \in Int, b * p < b * q
    PROVE  p < q
  BY SMT

\* A percentage is off by half a hundredth at most.
LEMMA RoundedIsNear ==
    ASSUME NEW part \in Int, NEW whole \in Nat \ {0}
    PROVE  /\ Rounded(part, whole) \in Int
           /\ 2 * whole * Rounded(part, whole) <= 20000 * part + whole
           /\ 20000 * part < 2 * whole * Rounded(part, whole) + whole
<1> DEFINE a == 20000 * part + whole
           b == 2 * whole
<1>1. a \in Int /\ b \in Nat \ {0} BY SMT
<1>2. Rounded(part, whole) = a \div b BY DEF Rounded
<1> HIDE DEF a, b
<1>3. /\ a \div b \in Int
      /\ b * (a \div b) <= a
      /\ a < b * (a \div b) + b
  BY <1>1, Division
<1>4. /\ Rounded(part, whole) \in Int
      /\ b * Rounded(part, whole) <= a
      /\ a < b * Rounded(part, whole) + b
  BY <1>2, <1>3
<1>5. QED BY <1>4, SMT DEF a, b

\* The shares of a breakdown are percentages of the whole, and two groups that
\* make it up have shares that make up a hundred, or a hundredth more
\* (sharePercentage, transaction-analytics.service.ts:327-333).
THEOREM SharesMakeUpTheWhole ==
    ASSUME NEW amount \in Nat, NEW rest \in Nat, NEW total \in Nat, total = amount + rest
    PROVE  /\ 0 <= Share(amount, total) /\ Share(amount, total) <= 10000
           /\ total # 0 => Share(amount, total) + Share(rest, total) \in {10000, 10001}
<1>1. CASE total = 0
  <2>1. Share(amount, total) = 0 BY <1>1 DEF Share
  <2>2. QED BY <1>1, <2>1, SMT
<1>2. CASE total # 0
  <2> DEFINE p == Rounded(amount, total)
             q == Rounded(rest, total)
  <2>1. total \in Nat \ {0} BY <1>2, SMT
  <2>2. Share(amount, total) = p /\ Share(rest, total) = q BY <1>2 DEF Share
  <2>3. /\ p \in Int /\ 2 * total * p <= 20000 * amount + total
        /\ 20000 * amount < 2 * total * p + total
    BY <2>1, RoundedIsNear
  <2>4. /\ q \in Int /\ 2 * total * q <= 20000 * rest + total
        /\ 20000 * rest < 2 * total * q + total
    BY <2>1, RoundedIsNear
  <2>5. amount <= total /\ amount + rest = total BY SMT
  <2> HIDE DEF p, q
  <2>6. -1 < p
    <3>1. (2 * total) * (-1) < (2 * total) * p BY <2>1, <2>3, SMT
    <3>2. 2 * total \in Nat \ {0} BY <2>1, SMT
    <3>3. QED BY <3>1, <3>2, <2>3, Cancelled
  <2>7. p < 10001
    <3>1. (2 * total) * p < (2 * total) * 10001 BY <2>1, <2>3, <2>5, SMT
    <3>2. 2 * total \in Nat \ {0} BY <2>1, SMT
    <3>3. QED BY <3>1, <3>2, <2>3, Cancelled
  <2>8. p + q < 10002
    <3>1. (2 * total) * (p + q) < (2 * total) * 10002 BY <2>1, <2>3, <2>4, <2>5, SMT
    <3>2. 2 * total \in Nat \ {0} /\ p + q \in Int BY <2>1, <2>3, <2>4, SMT
    <3>3. QED BY <3>1, <3>2, Cancelled
  <2>9. 9999 < p + q
    <3>1. (2 * total) * 9999 < (2 * total) * (p + q) BY <2>1, <2>3, <2>4, <2>5, SMT
    <3>2. 2 * total \in Nat \ {0} /\ p + q \in Int BY <2>1, <2>3, <2>4, SMT
    <3>3. QED BY <3>1, <3>2, Cancelled
  <2>10. p + q \in {10000, 10001} /\ 0 <= p /\ p <= 10000
    BY <2>3, <2>4, <2>6, <2>7, <2>8, <2>9, SMT
  <2>11. QED BY <2>2, <2>10
<1>3. QED BY <1>1, <1>2

\* A change is stated of everything there was something of before, tells which
\* way it went, and never says that more than all of it went
\* (changePercentage, transaction-analytics.service.ts:335-341).
THEOREM ChangeTellsTheWay ==
    \A current \in Nat, previous \in Nat :
        /\ previous # 0 => Stated(current, previous)
        /\ Change(current, previous) >= -10000
        /\ current >= previous => Change(current, previous) >= 0
        /\ Stated(current, previous) /\ Change(current, previous) > 0 => current > previous
<1> SUFFICES ASSUME NEW current \in Nat, NEW previous \in Nat
             PROVE  /\ previous # 0 => Stated(current, previous)
                    /\ Change(current, previous) >= -10000
                    /\ current >= previous => Change(current, previous) >= 0
                    /\ Stated(current, previous) /\ Change(current, previous) > 0
                          => current > previous
  OBVIOUS
<1>1. previous # 0 => Stated(current, previous) BY DEF Stated
<1>2. CASE previous = 0
  <2>1. Change(current, previous) = 0 BY <1>2 DEF Change
  <2>2. QED BY <1>1, <2>1, SMT
<1>3. CASE previous # 0
  <2> DEFINE p == Rounded(current - previous, previous)
  <2>1. previous \in Nat \ {0} /\ current - previous \in Int BY <1>3, SMT
  <2>2. Change(current, previous) = p BY <1>3 DEF Change
  <2>3. /\ p \in Int /\ 2 * previous * p <= 20000 * (current - previous) + previous
        /\ 20000 * (current - previous) < 2 * previous * p + previous
    BY <2>1, RoundedIsNear
  <2> HIDE DEF p
  <2>4. 2 * previous \in Nat \ {0} BY <2>1, SMT
  <2>5. -10001 < p
    <3>1. (2 * previous) * (-10001) < (2 * previous) * p BY <2>1, <2>3, SMT
    <3>2. QED BY <3>1, <2>3, <2>4, Cancelled
  <2>6. ASSUME current >= previous PROVE -1 < p
    <3>1. (2 * previous) * (-1) < (2 * previous) * p BY <2>1, <2>3, <2>6, SMT
    <3>2. QED BY <3>1, <2>3, <2>4, Cancelled
  <2>7. ASSUME current <= previous PROVE p < 1
    <3>1. (2 * previous) * p < (2 * previous) * 1 BY <2>1, <2>3, <2>7, SMT
    <3>2. QED BY <3>1, <2>3, <2>4, Cancelled
  <2>8. QED BY <1>1, <2>2, <2>3, <2>5, <2>6, <2>7, SMT
<1>4. QED BY <1>2, <1>3

\* Groups of different names have one order, whatever order the database
\* returned them in
\* (getAnalytics, transaction-analytics.service.ts:104-162).
THEOREM GroupsHaveOneOrder ==
    LET Group == [amount: Nat, payments: Nat, name: Nat] IN
    \A a \in Group, b \in Group, c \in Group :
        /\ ~(Ahead(a, b) /\ Ahead(b, a))
        /\ a.name # b.name => Ahead(a, b) \/ Ahead(b, a)
        /\ Ahead(a, b) /\ Ahead(b, c) => Ahead(a, c)
  BY SMT DEF Ahead

-----------------------------------------------------------------------------
(* Counting what comes before.                                             *)

\* A set of natural numbers has a least one, which is how the lemmas below
\* argue by induction.
LEMMA LeastNatural ==
    ASSUME NEW S \in SUBSET Nat, S # {}
    PROVE  \E n \in S : \A m \in S : n <= m
<1>1. PICK n \in S : \A m \in S : <<m, n>> \notin OpToRel(<, Nat)
  BY WFMin, NatLessThanWellFounded, Zenon
<1>2. \A m \in S : ~(m < n)
  BY <1>1, Zenon DEF OpToRel
<1>3. QED BY <1>2, SMT

\* How many members of a set come before x.
Below(order, x, A) == {y \in A : <<y, x>> \in order}
Rank(order, x, A) == Cardinality(Below(order, x, A))

Strict(order, A) ==
    /\ \A x \in A : <<x, x>> \notin order
    /\ \A x, y, z \in A : <<x, y>> \in order /\ <<y, z>> \in order => <<x, z>> \in order

LEMMA RankInSet ==
    ASSUME NEW order, NEW x, NEW A, IsFiniteSet(A)
    PROVE  /\ IsFiniteSet(Below(order, x, A))
           /\ Rank(order, x, A) \in Nat /\ Rank(order, x, A) <= Cardinality(A)
<1>1. Below(order, x, A) \in SUBSET A
  BY DEF Below
<1>2. QED BY <1>1, FS_Subset, FS_CardinalityType DEF Rank

LEMMA RankGrows ==
    ASSUME NEW order, NEW x, NEW y, NEW A, NEW C, IsFiniteSet(C),
           Below(order, x, A) \subseteq Below(order, y, C)
    PROVE  /\ Rank(order, x, A) \in Nat /\ Rank(order, x, A) <= Rank(order, y, C)
           /\ Rank(order, x, A) = Rank(order, y, C)
                 => Below(order, x, A) = Below(order, y, C)
<1>1. IsFiniteSet(Below(order, y, C))
  BY RankInSet
<1>2. QED BY <1>1, FS_Subset, FS_CardinalityType DEF Rank

LEMMA RankFollowsOrder ==
    ASSUME NEW order, NEW A, IsFiniteSet(A), Strict(order, A),
           NEW x \in A, NEW y \in A, <<x, y>> \in order
    PROVE  Rank(order, x, A) < Rank(order, y, A)
<1>1. Below(order, x, A) \subseteq Below(order, y, A)
  BY DEF Below, Strict
<1>2. x \in Below(order, y, A) /\ x \notin Below(order, x, A)
  BY DEF Below, Strict
<1>3. Rank(order, x, A) \in Nat /\ Rank(order, y, A) \in Nat
  BY RankInSet
<1>4. QED BY <1>1, <1>2, <1>3, RankGrows

\* Of any members of a set that is ordered, one comes before all others.
LEMMA Foremost ==
    ASSUME NEW order, NEW A, IsFiniteSet(A), Strict(order, A), NEW D \in SUBSET A, D # {}
    PROVE  \E x \in D : \A y \in A : <<y, x>> \in order => y \notin D
<1> DEFINE ranks == {Rank(order, x, A) : x \in D}
<1>1. ranks \in SUBSET Nat /\ ranks # {}
  BY RankInSet
<1>2. PICK n \in ranks : \A m \in ranks : n <= m
  BY <1>1, LeastNatural, Zenon
<1>3. PICK x \in D : n = Rank(order, x, A)
  OBVIOUS
<1>4. ASSUME NEW y \in D, <<y, x>> \in order PROVE FALSE
  <2>1. Rank(order, y, A) < Rank(order, x, A)
    BY <1>4, RankFollowsOrder
  <2>2. Rank(order, x, A) <= Rank(order, y, A)
    BY <1>2, <1>3
  <2>3. Rank(order, x, A) \in Nat /\ Rank(order, y, A) \in Nat
    BY RankInSet
  <2>4. QED BY <2>1, <2>2, <2>3
<1>5. QED BY <1>4

\* At most the rest of a set has a rank beyond n.
LEMMA BeyondIsTheRest ==
    ASSUME NEW order, NEW A, IsFiniteSet(A), Strict(order, A), NEW n \in Nat,
           NEW D \in SUBSET A, D # {}, \A x \in D : n <= Rank(order, x, A)
    PROVE  Cardinality(D) + n <= Cardinality(A)
<1>1. PICK x \in D : \A y \in A : <<y, x>> \in order => y \notin D
  BY Foremost
<1> DEFINE below == Below(order, x, A)
<1>2. IsFiniteSet(below) /\ Cardinality(below) \in Nat /\ n <= Cardinality(below)
  BY RankInSet DEF Rank
<1>3. below \cap D = {} /\ below \cup D \in SUBSET A
  BY <1>1 DEF Below
<1>4. IsFiniteSet(D) /\ Cardinality(D) \in Nat /\ Cardinality(A) \in Nat
  BY FS_Subset, FS_CardinalityType
<1> HIDE DEF below
<1>5. Cardinality(below \cup D) = Cardinality(below) + Cardinality(D)
  <2>1. Cardinality(below \cup D) = Cardinality(below) + Cardinality(D) - Cardinality(below \cap D)
    BY <1>2, <1>4, FS_Union, Zenon
  <2>2. Cardinality(below \cap D) = 0
    BY <1>3, FS_EmptySet
  <2>3. QED BY <1>2, <1>4, <2>1, <2>2
<1>6. Cardinality(below \cup D) <= Cardinality(A)
  BY <1>3, FS_Subset
<1>7. QED BY <1>2, <1>4, <1>5, <1>6

Front(order, A, n) == {x \in A : Rank(order, x, A) < n}

\* The front of a union is in the fronts of its parts, in the same places, and
\* nothing else of them comes so early.
LEMMA FrontOfUnion ==
    ASSUME NEW order, NEW S, NEW T, IsFiniteSet(S), IsFiniteSet(T),
           Strict(order, S \cup T), NEW n \in Nat
    PROVE  LET all == S \cup T
               fronts == Front(order, S, n) \cup Front(order, T, n) IN
           /\ \A x \in all : Rank(order, x, all) < n =>
                 x \in fronts /\ Rank(order, x, fronts) = Rank(order, x, all)
           /\ \A x \in fronts : Rank(order, x, fronts) < n => Rank(order, x, all) < n
<1> DEFINE all == S \cup T
           fronts == Front(order, S, n) \cup Front(order, T, n)
<1>1. IsFiniteSet(all)
  BY FS_Union
<1>2. fronts \in SUBSET all /\ IsFiniteSet(fronts)
  <2>1. fronts \in SUBSET all
    BY DEF Front
  <2>2. QED BY <1>1, <2>1, FS_Subset
<1>3. /\ \A x \in S : Rank(order, x, S) < n => x \in fronts
      /\ \A x \in T : Rank(order, x, T) < n => x \in fronts
  BY DEF Front
<1>4. \A x \in all : Rank(order, x, all) \in Nat /\ Rank(order, x, fronts) \in Nat
                     /\ Rank(order, x, S) \in Nat /\ Rank(order, x, T) \in Nat
  BY <1>1, <1>2, RankInSet
<1> HIDE DEF fronts
<1>6. ASSUME NEW x \in all, Rank(order, x, all) < n PROVE x \in fronts
  <2>1. /\ Below(order, x, S) \subseteq Below(order, x, all)
        /\ Below(order, x, T) \subseteq Below(order, x, all)
    BY DEF Below
  <2>2. Rank(order, x, S) <= Rank(order, x, all) /\ Rank(order, x, T) <= Rank(order, x, all)
    BY <1>1, <2>1, RankGrows
  <2>3. QED BY <1>3, <1>4, <1>6, <2>2
<1>7. ASSUME NEW x \in all, Rank(order, x, all) < n
      PROVE  Rank(order, x, fronts) = Rank(order, x, all)
  <2>1. ASSUME NEW y \in all, <<y, x>> \in order PROVE y \in fronts
    <3>1. Rank(order, y, all) < Rank(order, x, all)
      BY <1>1, <2>1, RankFollowsOrder
    <3>2. QED BY <1>4, <1>6, <1>7, <3>1
  <2>2. Below(order, x, fronts) = Below(order, x, all)
    BY <1>2, <2>1 DEF Below
  <2>3. QED BY <2>2 DEF Rank
<1>8. ASSUME NEW x \in fronts, n <= Rank(order, x, all) PROVE n <= Rank(order, x, fronts)
  <2> DEFINE D == Below(order, x, all) \ fronts
  <2>0. Strict(order, all)
    OBVIOUS
  <2>1. CASE D = {}
    <3>1. Below(order, x, fronts) = Below(order, x, all)
      BY <1>2, <2>1 DEF Below
    <3>2. QED BY <1>8, <3>1 DEF Rank
  <2>2. CASE D # {}
    <3>1. D \in SUBSET all
      BY DEF Below
    <3> HIDE DEF D, all
    <3>2. PICK y \in D : \A z \in all : <<z, y>> \in order => z \notin D
      BY <1>1, <2>0, <2>2, <3>1, Foremost
    <3> USE DEF D, all
    <3>3. y \in all /\ <<y, x>> \in order /\ y \notin fronts
      BY <3>2 DEF Below
    <3>4. \A z \in all : <<z, y>> \in order => z \in fronts /\ <<z, x>> \in order
      <4>1. \A z \in all : <<z, y>> \in order => <<z, x>> \in order
        BY <1>2, <3>3 DEF Strict
      <4>2. QED BY <3>2, <4>1 DEF Below
    <3>5. ASSUME NEW A \in {S, T}, y \in A, n <= Rank(order, y, A)
          PROVE  n <= Rank(order, x, fronts)
      <4>1. Below(order, y, A) \subseteq Below(order, x, fronts)
        BY <3>4, <3>5 DEF Below
      <4>2. Rank(order, y, A) <= Rank(order, x, fronts)
        BY <1>2, <4>1, RankGrows
      <4>3. QED BY <1>2, <1>4, <3>3, <3>5, <4>2
    <3>6. \/ y \in S /\ n <= Rank(order, y, S)
          \/ y \in T /\ n <= Rank(order, y, T)
      BY <1>3, <1>4, <3>3
    <3>7. QED BY <3>5, <3>6
  <2>3. QED BY <2>1, <2>2
<1>9. \A x \in fronts : Rank(order, x, fronts) < n => Rank(order, x, all) < n
  <2>1. ASSUME NEW x \in fronts, Rank(order, x, fronts) < n, ~(Rank(order, x, all) < n)
        PROVE  FALSE
    <3>1. x \in all /\ Rank(order, x, all) \in Nat /\ Rank(order, x, fronts) \in Nat
      BY <1>2, <1>4
    <3>2. n <= Rank(order, x, all)
      BY <2>1, <3>1
    <3>3. QED BY <1>8, <2>1, <3>1, <3>2
  <2>2. QED BY <2>1
<1>10. QED BY <1>6, <1>7, <1>9 DEF fronts

-----------------------------------------------------------------------------
(* The invariant.                                                          *)

Items == SentItems \cup ReceivedItems

\* The order of the history.
Order == {pair \in Items \X Items : Before(pair[1], pair[2])}

\* A settled payment was settled by one kind of evidence.
EvidenceKept ==
    \A s \in Sent : sent[s].status = "COMPLETED" =>
        sent[s].evidence \in {"PROVIDER_SMS", "MOBILE_APP"}

\* The rows a page was read from are in the tables.
RowsAreThere ==
    reader.op = "page" =>
        /\ reader.sent # None => reader.sent \subseteq SentItems
        /\ reader.received # None => reader.received \subseteq ReceivedItems

\* What was read of a table holds what was there when the page was turned, and
\* no more than is there now.
ReadSince(rows, total, news, rowsNow) ==
    /\ rows # None => rowsNow \ news \subseteq rows /\ rows \subseteq rowsNow
    /\ total # None => Cardinality(rowsNow \ news) <= total

\* All that was known and lay before the page has been shown.
Turned(tx, order, old) ==
    /\ tx.known \subseteq old
    /\ \A item \in tx.known :
          Rank(order, item, old) < (tx.page - 1) * Limit => item \in tx.shown

\* The filters that payments do not leave.
Open == {filter \in Filter : filter.status # "PENDING" /\ ~filter.classified}

PageHolds(filter) ==
    /\ ReadSince(reader.sent, reader.sentTotal, reader.news, SentMatching(filter))
    /\ ReadSince(reader.received, reader.receivedTotal, reader.news, ReceivedMatching(filter))
    /\ Turned(reader, Order, (SentMatching(filter) \cup ReceivedMatching(filter)) \ reader.news)

PageFits ==
    \A filter \in Open : reader.op = "page" /\ reader.filter = filter => PageHolds(filter)

\* What a query of a report counted is still there, and all there is but the news.
PartFits(counted, news, rowsNow) ==
    counted # None => counted \subseteq rowsNow /\ rowsNow \ news \subseteq counted

ReportFits ==
    \A period \in Period :
        reader.op = "report" /\ reader.period = period =>
            \A part \in Part :
                PartFits(reader.parts[part], reader.news, Counted(part, period))

IInv ==
    /\ TypeOK /\ EvidenceKept /\ RowsAreThere
    /\ PageFits /\ ReportFits /\ PagingMissesOnlyForNews

-----------------------------------------------------------------------------
(* Types.                                                                  *)

LEMMA ReaderKinds ==
    ASSUME TypeOK
    PROVE  /\ reader.op \in {"page", "lastPage"} => reader \in PageReader
           /\ reader.op = "report" => reader \in ReportReader
<1>1. Idle.op = "idle"
  BY DEF Idle
<1>2. \A tx \in PageReader : tx.op \in {"page", "lastPage"}
  BY DEF PageReader
<1>3. \A tx \in ReportReader : tx.op = "report"
  BY DEF ReportReader
<1>4. reader = Idle \/ reader \in PageReader \/ reader \in ReportReader
  BY DEF TypeOK
<1>5. QED BY <1>1, <1>2, <1>3, <1>4

LEMMA ItemsOfTables ==
    /\ IsFiniteSet(Item)
    /\ SentItems \subseteq Item /\ ReceivedItems \subseteq Item
    /\ SentItems \cap ReceivedItems = {}
    /\ \A filter : SentMatching(filter) \subseteq SentItems
    /\ \A filter : ReceivedMatching(filter) \subseteq ReceivedItems
    /\ \A part, period : Counted(part, period) \subseteq SentItems \cup ReceivedItems
<1>1. IsFiniteSet(Item)
  <2>1. IsFiniteSet({"SENT"}) /\ IsFiniteSet({"RECEIVED"})
    BY FS_Singleton
  <2>2. IsFiniteSet({"SENT"} \X Sent) /\ IsFiniteSet({"RECEIVED"} \X Received)
    BY <2>1, KeysAssumption, FS_Product
  <2>3. QED BY <2>2, FS_Union, Zenon DEF Item
<1>2. /\ SentItems \subseteq Item /\ ReceivedItems \subseteq Item
      /\ SentItems \cap ReceivedItems = {}
  BY DEF SentItems, ReceivedItems, Item
<1>3. \A filter : SentMatching(filter) \subseteq SentItems
  BY DEF SentMatching, Matching
<1>4. \A filter : ReceivedMatching(filter) \subseteq ReceivedItems
  BY DEF ReceivedMatching, Matching
<1>5. ASSUME NEW part, NEW period PROVE Counted(part, period) \subseteq SentItems \cup ReceivedItems
  <2>1. \A span : Completed(span) \subseteq SentItems
    BY DEF Completed
  <2>2. \A evidence, span : ConfirmedBy(evidence, span) \subseteq SentItems
    BY DEF ConfirmedBy
  <2>3. ReceivedIn(period) \subseteq ReceivedItems
    BY DEF ReceivedIn
  <2>4. QED BY <2>1, <2>2, <2>3, Zenon DEF Counted
<1>6. QED BY <1>1, <1>2, <1>3, <1>4, <1>5

LEMMA NewsTyped ==
    ASSUME TypeOK, NEW item \in Item, NEW statuses
    PROVE  News(item, statuses) \in {Idle} \cup PageReader \cup ReportReader
<1>1. CASE reader.op = "page"
  <2>1. reader \in PageReader
    BY <1>1, ReaderKinds
  <2>2. reader.news \cup {item} \in SUBSET Item
    BY <2>1 DEF PageReader
  <2>3. [reader EXCEPT !.news = @ \cup {item}] \in PageReader
    BY <2>1, <2>2, Zenon DEF PageReader
  <2>4. QED BY <2>1, <2>3 DEF News
<1>2. CASE reader.op = "report"
  <2>1. reader \in ReportReader
    BY <1>2, ReaderKinds
  <2>2. reader.news \cup {item} \in SUBSET Item
    BY <2>1 DEF ReportReader
  <2>3. [reader EXCEPT !.news = @ \cup {item}] \in ReportReader
    BY <2>1, <2>2, Zenon DEF ReportReader
  <2>4. QED BY <2>1, <2>3 DEF News
<1>3. CASE reader.op \notin {"page", "report"}
  <2>1. News(item, statuses) = reader
    BY <1>3 DEF News
  <2>2. QED BY <2>1, Zenon DEF TypeOK
<1>4. QED BY <1>1, <1>2, <1>3

LEMMA ReadingTyped ==
    ASSUME NEW of \in {"history", "list"}, NEW filter \in Filter, NEW page \in Nat \ {0},
           NEW known \in SUBSET Item, NEW shown \in SUBSET Item
    PROVE  Reading(of, filter, page, known, shown) \in PageReader
<1> DEFINE rows(table) == IF Asks(filter, table) THEN None ELSE {}
           count(table) == IF Asks(filter, table) THEN None ELSE 0
<1>1. /\ rows("SENT") \in (SUBSET Item) \cup {None}
      /\ rows("RECEIVED") \in (SUBSET Item) \cup {None}
  OBVIOUS
<1>2. count("SENT") \in Nat \cup {None} /\ count("RECEIVED") \in Nat \cup {None}
  OBVIOUS
<1>3. Reading(of, filter, page, known, shown) =
          [op |-> "page", of |-> of, filter |-> filter, page |-> page,
           sent |-> rows("SENT"), received |-> rows("RECEIVED"),
           sentTotal |-> count("SENT"), receivedTotal |-> count("RECEIVED"),
           known |-> known, shown |-> shown, news |-> {}]
  BY Zenon DEF Reading
<1> HIDE DEF rows, count
<1>4. QED BY <1>1, <1>2, <1>3 DEF PageReader

LEMMA TypeInit == Init => TypeOK
<1> SUFFICES ASSUME Init PROVE TypeOK
  OBVIOUS
<1>1. NoPayment \in SentRow
  <2>1. 0 \in 0..MaxTime
    BY NumbersAssumption
  <2>2. QED BY <2>1 DEF NoPayment, SentRow
<1>2. \A s \in Sent : sent[s].status = "ABSENT" /\ sent[s].completedAt = None
  BY DEF Init, NoPayment
<1>3. now \in 0..MaxTime
  BY NumbersAssumption DEF Init
<1>4. QED BY <1>1, <1>2, <1>3 DEF Init, TypeOK

LEMMA SentTyped ==
    ASSUME TypeOK, NEW s \in Sent, NEW row \in SentRow,
           (row.status = "COMPLETED") <=> (row.completedAt # None),
           sent' = [sent EXCEPT ![s] = row]
    PROVE  /\ sent' \in [Sent -> SentRow]
           /\ \A r \in Sent : (sent'[r].status = "COMPLETED") = (sent'[r].completedAt # None)
<1>1. sent' \in [Sent -> SentRow]
  BY DEF TypeOK
<1>2. ASSUME NEW r \in Sent
      PROVE  (sent'[r].status = "COMPLETED") = (sent'[r].completedAt # None)
  <2>1. CASE r = s
    <3>1. sent'[r] = row
      BY <2>1 DEF TypeOK
    <3>2. QED BY <3>1
  <2>2. CASE r # s
    <3>1. sent'[r] = sent[r]
      BY <2>2 DEF TypeOK
    <3>2. QED BY <3>1 DEF TypeOK
  <2>3. QED BY <2>1, <2>2
<1>3. QED BY <1>1, <1>2

\* What a step writes of a payment that is sent.
Created(row) == [row EXCEPT !.status = "PENDING", !.createdAt = now]
Settled(row, at, evidence) ==
    [row EXCEPT !.status = "COMPLETED", !.completedAt = at, !.evidence = evidence]
Failed(row) == [row EXCEPT !.status = "FAILED"]

LEMMA RowsWritten ==
    ASSUME TypeOK, NEW s \in Sent, NEW at \in Moment,
           NEW evidence \in {"PROVIDER_SMS", "MOBILE_APP"}
    PROVE  LET row == sent[s] IN
           /\ row \in SentRow
           /\ row = NoPayment =>
                 /\ Created(row) \in SentRow
                 /\ Created(row).status = "PENDING" /\ Created(row).completedAt = None
           /\ /\ Settled(row, at, evidence) \in SentRow
              /\ Settled(row, at, evidence).status = "COMPLETED"
              /\ Settled(row, at, evidence).createdAt = row.createdAt
              /\ Settled(row, at, evidence).completedAt = at
              /\ Settled(row, at, evidence).evidence = evidence
              /\ at # None
           /\ row.status = "PENDING" =>
                 /\ Failed(row) \in SentRow
                 /\ Failed(row).status = "FAILED" /\ Failed(row).completedAt = None
                 /\ Failed(row).createdAt = row.createdAt
<1> DEFINE row == sent[s]
<1>1. row \in SentRow
  BY DEF TypeOK
<1>2. now \in 0..MaxTime /\ None \notin Int
  BY NoneAssumption DEF TypeOK
<1>3. Moment \subseteq Int
  BY NumbersAssumption, SMT DEF Moment
<1>4. row.status = "PENDING" => row.completedAt = None
  BY DEF TypeOK
<1> HIDE DEF row
<1>5. Created(row) \in SentRow
  BY <1>1, <1>2, Zenon DEF SentRow, Created
<1>6. row = NoPayment => Created(row).status = "PENDING" /\ Created(row).completedAt = None
  BY <1>1 DEF SentRow, Created, NoPayment
<1>7. Settled(row, at, evidence) \in SentRow
  BY <1>1, Zenon DEF SentRow, Settled
<1>8. /\ Settled(row, at, evidence).status = "COMPLETED"
      /\ Settled(row, at, evidence).createdAt = row.createdAt
      /\ Settled(row, at, evidence).completedAt = at
      /\ Settled(row, at, evidence).evidence = evidence
  BY <1>1 DEF SentRow, Settled
<1>9. Failed(row) \in SentRow
  BY <1>1, Zenon DEF SentRow, Failed
<1>10. row.status = "PENDING" =>
          /\ Failed(row).status = "FAILED" /\ Failed(row).completedAt = None
          /\ Failed(row).createdAt = row.createdAt
  BY <1>1, <1>4 DEF SentRow, Failed
<1>11. QED BY <1>1, <1>2, <1>3, <1>5, <1>6, <1>7, <1>8, <1>9, <1>10 DEF row

LEMMA SentActions ==
    ASSUME TypeOK, NEW s \in Sent
    PROVE  /\ Create(s) => /\ sent[s] = NoPayment
                           /\ sent' = [sent EXCEPT ![s] = Created(sent[s])]
           /\ \A at \in Moment, evidence \in {"PROVIDER_SMS", "MOBILE_APP"} :
                 Settle(s, at, evidence) =>
                    /\ sent[s].status = "PENDING"
                    /\ sent' = [sent EXCEPT ![s] = Settled(sent[s], at, evidence)]
           /\ Fail(s) => /\ sent[s].status = "PENDING"
                         /\ sent' = [sent EXCEPT ![s] = Failed(sent[s])]
<1>1. sent \in [Sent -> SentRow]
  BY DEF TypeOK
<1>2. ASSUME Create(s)
      PROVE  sent[s] = NoPayment /\ sent' = [sent EXCEPT ![s] = Created(sent[s])]
  BY <1>1, <1>2 DEF Create, Created
<1>3. ASSUME NEW at \in Moment, NEW evidence \in {"PROVIDER_SMS", "MOBILE_APP"},
             Settle(s, at, evidence)
      PROVE  /\ sent[s].status = "PENDING"
             /\ sent' = [sent EXCEPT ![s] = Settled(sent[s], at, evidence)]
  BY <1>1, <1>3 DEF Settle, Settled
<1>4. ASSUME Fail(s)
      PROVE  sent[s].status = "PENDING" /\ sent' = [sent EXCEPT ![s] = Failed(sent[s])]
  BY <1>1, <1>4 DEF Fail, Failed
<1>5. QED BY <1>2, <1>3, <1>4

LEMMA TypeTables ==
    ASSUME TypeOK, NEW s \in Sent
    PROVE  /\ Create(s) => TypeOK'
           /\ \A at \in Moment, evidence \in {"PROVIDER_SMS", "MOBILE_APP"} :
                 Settle(s, at, evidence) => TypeOK'
           /\ Fail(s) => TypeOK'
<1>1. <<"SENT", s>> \in Item
  BY DEF Item
<1>2. /\ received \in [Received -> Moment \cup {None}] /\ now \in 0..MaxTime
      /\ reader \in {Idle} \cup PageReader \cup ReportReader
  BY DEF TypeOK
<1>3. ASSUME Create(s) PROVE TypeOK'
  <2> DEFINE row == Created(sent[s])
  <2>1. sent[s] = NoPayment /\ sent' = [sent EXCEPT ![s] = row]
    BY <1>3, SentActions
  <2>2. Moment # {}
    BY NumbersAssumption, SMT DEF Moment
  <2>3. row \in SentRow /\ row.status = "PENDING" /\ row.completedAt = None
    BY <2>1, <2>2, RowsWritten
  <2> HIDE DEF row
  <2>4. /\ sent' \in [Sent -> SentRow]
        /\ \A r \in Sent : (sent'[r].status = "COMPLETED") = (sent'[r].completedAt # None)
    <3>1. (row.status = "COMPLETED") <=> (row.completedAt # None)
      BY <2>3
    <3>2. QED BY <2>1, <2>3, <3>1, SentTyped
  <2>5. reader' = News(<<"SENT", s>>, {None, "PENDING"}) /\ received' = received /\ now' = now
    BY <1>3 DEF Create
  <2>6. reader' \in {Idle} \cup PageReader \cup ReportReader
    BY <1>1, <2>5, NewsTyped
  <2>7. QED BY <1>2, <2>4, <2>5, <2>6, Zenon DEF TypeOK
<1>4. ASSUME NEW at \in Moment, NEW evidence \in {"PROVIDER_SMS", "MOBILE_APP"},
             Settle(s, at, evidence)
      PROVE  TypeOK'
  <2> DEFINE row == Settled(sent[s], at, evidence)
  <2>1. sent' = [sent EXCEPT ![s] = row]
    BY <1>4, SentActions
  <2>3. row \in SentRow /\ row.status = "COMPLETED" /\ row.completedAt # None
    BY RowsWritten
  <2> HIDE DEF row
  <2>4. /\ sent' \in [Sent -> SentRow]
        /\ \A r \in Sent : (sent'[r].status = "COMPLETED") = (sent'[r].completedAt # None)
    <3>1. (row.status = "COMPLETED") <=> (row.completedAt # None)
      BY <2>3
    <3>2. QED BY <2>1, <2>3, <3>1, SentTyped
  <2>5. reader' = News(<<"SENT", s>>, {"COMPLETED"}) /\ received' = received /\ now' = now
    BY <1>4 DEF Settle
  <2>6. reader' \in {Idle} \cup PageReader \cup ReportReader
    BY <1>1, <2>5, NewsTyped
  <2>7. QED BY <1>2, <2>4, <2>5, <2>6, Zenon DEF TypeOK
<1>5. ASSUME Fail(s) PROVE TypeOK'
  <2> DEFINE row == Failed(sent[s])
  <2>1. sent[s].status = "PENDING" /\ sent' = [sent EXCEPT ![s] = row]
    BY <1>5, SentActions
  <2>2. Moment # {}
    BY NumbersAssumption, SMT DEF Moment
  <2>3. row \in SentRow /\ row.status = "FAILED" /\ row.completedAt = None
    BY <2>1, <2>2, RowsWritten
  <2> HIDE DEF row
  <2>4. /\ sent' \in [Sent -> SentRow]
        /\ \A r \in Sent : (sent'[r].status = "COMPLETED") = (sent'[r].completedAt # None)
    <3>1. (row.status = "COMPLETED") <=> (row.completedAt # None)
      BY <2>3
    <3>2. QED BY <2>1, <2>3, <3>1, SentTyped
  <2>5. UNCHANGED <<received, reader, now>>
    BY <1>5 DEF Fail
  <2>6. QED BY <1>2, <2>4, <2>5, Zenon DEF TypeOK
<1>6. QED BY <1>3, <1>4, <1>5

\* A step that only turns the reader.
LEMMA TypeReader ==
    ASSUME TypeOK, UNCHANGED <<sent, received, now>>,
           reader' \in {Idle} \cup PageReader \cup ReportReader
    PROVE  TypeOK'
  BY DEF TypeOK

\* A query finds payments that are there, and all that match a filter that is
\* not of classification.
LEMMA FoundIsThere ==
    ASSUME NEW filter
    PROVE  /\ \A items \in ReceivedFound(filter) : items \subseteq ReceivedMatching(filter)
           /\ ~filter.classified =>
                 \A items \in ReceivedFound(filter) : items = ReceivedMatching(filter)
  BY DEF ReceivedFound

LEMMA TypeTurn ==
    ASSUME TypeOK, NEW of \in {"history", "list"}, NEW filter \in Filter, Turn(of, filter)
    PROVE  TypeOK'
<1>0. PICK items \in ReceivedFound(filter) :
         reader' = Reading(of, filter, 1, SentMatching(filter) \cup items, {})
  BY Zenon DEF Turn
<1> DEFINE known == SentMatching(filter) \cup items
<1>1. known \in SUBSET Item
  BY ItemsOfTables, FoundIsThere
<1>2. reader' = Reading(of, filter, 1, known, {}) /\ UNCHANGED <<sent, received, now>>
  BY <1>0, Zenon DEF Turn
<1> HIDE DEF known
<1>3. 1 \in Nat \ {0} /\ {} \in SUBSET Item
  OBVIOUS
<1>4. reader' \in PageReader
  BY <1>1, <1>2, <1>3, ReadingTyped
<1>5. QED BY <1>2, <1>4, TypeReader

LEMMA Counts ==
    ASSUME NEW filter
    PROVE  /\ IsFiniteSet(SentMatching(filter)) /\ IsFiniteSet(ReceivedMatching(filter))
           /\ Cardinality(SentMatching(filter)) \in Nat
           /\ Cardinality(ReceivedMatching(filter)) \in Nat
<1>1. SentMatching(filter) \in SUBSET Item /\ ReceivedMatching(filter) \in SUBSET Item
  BY ItemsOfTables
<1>2. IsFiniteSet(SentMatching(filter)) /\ IsFiniteSet(ReceivedMatching(filter))
  BY <1>1, ItemsOfTables, FS_Subset
<1>3. QED BY <1>2, FS_CardinalityType

LEMMA TypeQueries ==
    ASSUME TypeOK, ListSent \/ ListReceived \/ CountSent \/ CountReceived
    PROVE  TypeOK' /\ reader' \in PageReader
<1> DEFINE sentRows == SentMatching(reader.filter)
<1>1. reader \in PageReader
  <2>1. reader.op = "page"
    BY DEF ListSent, ListReceived, CountSent, CountReceived, PageQuery
  <2>2. QED BY <2>1, ReaderKinds
<1>0. PICK receivedRows :
         /\ receivedRows \subseteq ReceivedMatching(reader.filter)
         /\ \/ reader' = [reader EXCEPT !.sent = sentRows]
            \/ reader' = [reader EXCEPT !.received = receivedRows]
            \/ reader' = [reader EXCEPT !.sentTotal = Cardinality(sentRows)]
            \/ reader' = [reader EXCEPT !.receivedTotal = Cardinality(receivedRows)]
  <2>1. ReceivedMatching(reader.filter) \subseteq ReceivedMatching(reader.filter)
    OBVIOUS
  <2>2. \A items \in ReceivedFound(reader.filter) : items \subseteq ReceivedMatching(reader.filter)
    BY FoundIsThere
  <2>3. CASE ListSent
    BY <2>1, <2>3, Zenon DEF ListSent, PageQuery
  <2>4. CASE ListReceived
    BY <2>2, <2>4, Zenon DEF ListReceived, PageQuery
  <2>5. CASE CountSent
    BY <2>1, <2>5, Zenon DEF CountSent, PageQuery
  <2>6. CASE CountReceived
    BY <2>2, <2>6, Zenon DEF CountReceived, PageQuery
  <2>7. QED BY <2>3, <2>4, <2>5, <2>6
<1>2. /\ sentRows \in SUBSET Item /\ receivedRows \in SUBSET Item
      /\ Cardinality(sentRows) \in Nat /\ Cardinality(receivedRows) \in Nat
  <2>1. sentRows \in SUBSET Item /\ receivedRows \in SUBSET Item
    BY <1>0, ItemsOfTables
  <2>2. IsFiniteSet(sentRows) /\ IsFiniteSet(receivedRows)
    BY <2>1, ItemsOfTables, FS_Subset
  <2>3. QED BY <2>1, <2>2, FS_CardinalityType
<1>3. \/ reader' = [reader EXCEPT !.sent = sentRows]
      \/ reader' = [reader EXCEPT !.received = receivedRows]
      \/ reader' = [reader EXCEPT !.sentTotal = Cardinality(sentRows)]
      \/ reader' = [reader EXCEPT !.receivedTotal = Cardinality(receivedRows)]
  BY <1>0
<1> HIDE DEF sentRows
<1>4. reader' \in PageReader
  <2>1. [reader EXCEPT !.sent = sentRows] \in PageReader
    BY <1>1, <1>2, Zenon DEF PageReader
  <2>2. [reader EXCEPT !.received = receivedRows] \in PageReader
    BY <1>1, <1>2, Zenon DEF PageReader
  <2>3. [reader EXCEPT !.sentTotal = Cardinality(sentRows)] \in PageReader
    BY <1>1, <1>2, Zenon DEF PageReader
  <2>4. [reader EXCEPT !.receivedTotal = Cardinality(receivedRows)] \in PageReader
    BY <1>1, <1>2, Zenon DEF PageReader
  <2>5. QED BY <1>3, <2>1, <2>2, <2>3, <2>4, Zenon
<1>5. UNCHANGED <<sent, received, now>>
  BY DEF ListSent, ListReceived, CountSent, CountReceived, PageQuery
<1>6. QED BY <1>4, <1>5, TypeReader

LEMMA PageInRows ==
    ASSUME NEW tx PROVE PageOf(tx) \subseteq tx.sent \cup tx.received
<1>1. \A items, page : Cut(items, page) \subseteq items
  BY DEF Cut
<1>2. \A items, count : First(items, count) \subseteq items
  BY DEF First
<1>3. QED BY <1>1, <1>2 DEF PageOf, ListPage

\* What an answer shows, and what it leaves the reader with.
LEMMA Answers ==
    ASSUME TypeOK, Answer
    PROVE  LET shown == reader.shown \cup PageOf(reader)
               more == HasNextPage(reader.page, reader.sentTotal + reader.receivedTotal) IN
           /\ reader \in PageReader /\ reader.op = "page"
           /\ reader.sent \in SUBSET Item /\ reader.received \in SUBSET Item
           /\ reader.sentTotal \in Nat /\ reader.receivedTotal \in Nat
           /\ shown \in SUBSET Item
           /\ more => reader' = Reading(reader.of, reader.filter, reader.page + 1,
                                        reader.known, shown)
           /\ ~more => reader' = [reader EXCEPT !.op = "lastPage", !.shown = shown]
           /\ reader'.op \in {"page", "lastPage"}
           /\ UNCHANGED <<sent, received, now>>
<1> DEFINE shown == reader.shown \cup PageOf(reader)
           more == HasNextPage(reader.page, reader.sentTotal + reader.receivedTotal)
<1>1. /\ reader.op = "page" /\ reader.sent # None /\ reader.received # None
      /\ reader.sentTotal # None /\ reader.receivedTotal # None
  BY DEF Answer, Listed
<1>2. reader \in PageReader
  BY <1>1, ReaderKinds
<1>3. /\ reader.sent \in SUBSET Item /\ reader.received \in SUBSET Item
      /\ reader.sentTotal \in Nat /\ reader.receivedTotal \in Nat
      /\ reader.shown \in SUBSET Item
  BY <1>1, <1>2 DEF PageReader
<1>4. shown \in SUBSET Item
  BY <1>3, PageInRows
<1>5. /\ reader' = IF more THEN Reading(reader.of, reader.filter, reader.page + 1,
                                        reader.known, shown)
                   ELSE [reader EXCEPT !.op = "lastPage", !.shown = shown]
      /\ UNCHANGED <<sent, received, now>>
  BY Zenon DEF Answer
<1>6. reader'.op \in {"page", "lastPage"}
  <2>1. Reading(reader.of, reader.filter, reader.page + 1, reader.known, shown).op = "page"
    BY DEF Reading
  <2>2. [reader EXCEPT !.op = "lastPage", !.shown = shown].op = "lastPage"
    BY <1>2 DEF PageReader
  <2>3. QED BY <1>5, <2>1, <2>2
<1> HIDE DEF shown, more
<1>7. QED BY <1>1, <1>2, <1>3, <1>4, <1>5, <1>6 DEF shown, more

LEMMA TypeAnswer ==
    ASSUME TypeOK, Answer PROVE TypeOK'
<1> DEFINE shown == reader.shown \cup PageOf(reader)
           more == HasNextPage(reader.page, reader.sentTotal + reader.receivedTotal)
<1>1. /\ reader \in PageReader /\ shown \in SUBSET Item
      /\ more => reader' = Reading(reader.of, reader.filter, reader.page + 1,
                                   reader.known, shown)
      /\ ~more => reader' = [reader EXCEPT !.op = "lastPage", !.shown = shown]
      /\ UNCHANGED <<sent, received, now>>
  BY Answers
<1> HIDE DEF shown, more
<1>2. /\ reader.of \in {"history", "list"} /\ reader.filter \in Filter
      /\ reader.page \in Nat \ {0} /\ reader.known \in SUBSET Item
  BY <1>1 DEF PageReader
<1>3. Reading(reader.of, reader.filter, reader.page + 1, reader.known, shown) \in PageReader
  <2>1. reader.page + 1 \in Nat \ {0}
    BY <1>2
  <2>2. QED BY <1>1, <1>2, <2>1, ReadingTyped
<1>4. [reader EXCEPT !.op = "lastPage", !.shown = shown] \in PageReader
  BY <1>1, Zenon DEF PageReader
<1>5. reader' \in PageReader
  BY <1>1, <1>3, <1>4
<1>6. QED BY <1>1, <1>5, TypeReader

LEMMA TypeReport ==
    ASSUME TypeOK, NEW part \in Part, Query(part)
    PROVE  /\ reader \in ReportReader /\ reader' \in ReportReader
           /\ TypeOK'
<1> DEFINE counted == Counted(part, reader.period)
<1>1. reader \in ReportReader
  BY ReaderKinds DEF Query
<1>2. counted \in SUBSET Item
  BY ItemsOfTables
<1>3. reader' = [reader EXCEPT !.parts[part] = counted] /\ UNCHANGED <<sent, received, now>>
  BY DEF Query
<1> HIDE DEF counted
<1>4. reader.parts \in [Part -> (SUBSET Item) \cup {None}]
  BY <1>1 DEF ReportReader
<1>5. [reader.parts EXCEPT ![part] = counted] \in [Part -> (SUBSET Item) \cup {None}]
  BY <1>2, <1>4
<1>6. reader' = [reader EXCEPT !.parts = [reader.parts EXCEPT ![part] = counted]]
  BY <1>1, <1>3, Zenon DEF ReportReader
<1>7. reader' \in ReportReader
  BY <1>1, <1>5, <1>6, Zenon DEF ReportReader
<1>8. QED BY <1>1, <1>3, <1>7, TypeReader

LEMMA TypeReceive ==
    ASSUME TypeOK, NEW q \in Received, NEW at \in Moment, Receive(q, at)
    PROVE  TypeOK'
<1>1. /\ received' = [received EXCEPT ![q] = at] /\ sent' = sent /\ now' = now
      /\ reader' = News(<<"RECEIVED", q>>, {None, "COMPLETED"})
  BY DEF Receive
<1>2. received' \in [Received -> Moment \cup {None}]
  BY <1>1 DEF TypeOK
<1>3. <<"RECEIVED", q>> \in Item
  BY DEF Item
<1>4. reader' \in {Idle} \cup PageReader \cup ReportReader
  BY <1>1, <1>3, NewsTyped
<1>5. QED BY <1>1, <1>2, <1>4 DEF TypeOK

LEMMA TypeBegin ==
    ASSUME TypeOK, NEW period \in Period, ReportBegin(period)
    PROVE  reader' \in ReportReader /\ TypeOK'
<1>1. [part \in Part |-> None] \in [Part -> (SUBSET Item) \cup {None}]
  OBVIOUS
<1>2. reader' \in ReportReader
  BY <1>1 DEF ReportBegin, ReportReader
<1>3. QED BY <1>2, TypeReader DEF ReportBegin

LEMMA ListFilters ==
    /\ HistoryFilter \subseteq Filter
    /\ SentListFilter \subseteq Filter /\ ReceivedListFilter \subseteq Filter
  BY DEF HistoryFilter, SentListFilter, ReceivedListFilter

LEMMA TypeNext == TypeOK /\ [Next]_vars => TypeOK'
<1> SUFFICES ASSUME TypeOK, [Next]_vars PROVE TypeOK'
  OBVIOUS
<1>1. CASE Tick
  BY <1>1, NumbersAssumption DEF Tick, TypeOK
<1>2. ASSUME NEW s \in Sent, Create(s) \/ Fail(s) PROVE TypeOK'
  BY <1>2, TypeTables
<1>3. ASSUME NEW s \in Sent, NEW at \in Moment, NEW evidence \in {"PROVIDER_SMS", "MOBILE_APP"},
             Settle(s, at, evidence)
      PROVE  TypeOK'
  BY <1>3, TypeTables
<1>4. ASSUME NEW q \in Received, NEW at \in Moment, Receive(q, at) PROVE TypeOK'
  BY <1>4, TypeReceive
<1>5. ASSUME NEW filter \in HistoryFilter, HistoryBegin(filter) PROVE TypeOK'
  BY <1>5, TypeTurn, ListFilters DEF HistoryBegin
<1>6. CASE SentListBegin \/ ReceivedListBegin
  BY <1>6, TypeTurn, ListFilters DEF SentListBegin, ReceivedListBegin
<1>7. CASE ListSent \/ ListReceived \/ CountSent \/ CountReceived
  BY <1>7, TypeQueries
<1>8. CASE Answer
  BY <1>8, TypeAnswer
<1>9. ASSUME NEW period \in Period, ReportBegin(period) PROVE TypeOK'
  BY <1>9, TypeBegin
<1>10. ASSUME NEW part \in Part, Query(part) PROVE TypeOK'
  BY <1>10, TypeReport
<1>11. CASE Finish
  BY <1>11, TypeReader DEF Finish
<1>12. CASE UNCHANGED vars
  BY <1>12 DEF vars, TypeOK
<1>13. QED BY <1>1, <1>2, <1>3, <1>4, <1>5, <1>6, <1>7, <1>8, <1>9, <1>10, <1>11, <1>12 DEF Next

-----------------------------------------------------------------------------
(* The tables only grow, as a reader sees them.                            *)

SettledItems == {item \in SentItems : sent[item[2]].status = "COMPLETED"}

\* What a filter that payments do not leave asks of the two tables.
Matches(filter) ==
    /\ filter.status \in {"COMPLETED", None} /\ filter.direction \in {"SENT", "RECEIVED", None}
    /\ SentMatching(filter) = IF filter.direction = "RECEIVED" THEN {}
                              ELSE IF filter.status = None THEN SentItems ELSE SettledItems
    /\ ReceivedMatching(filter) = IF filter.direction = "SENT" THEN {} ELSE ReceivedItems

LEMMA MatchingIs == \A filter \in Open : Matches(filter)
<1> SUFFICES ASSUME NEW filter \in Open PROVE Matches(filter)
  OBVIOUS
<1>1. /\ filter.status \in {"COMPLETED", None}
      /\ filter.direction \in {"SENT", "RECEIVED", None}
      /\ None \notin {"SENT", "RECEIVED", "PENDING", "COMPLETED"}
  BY NoneAssumption DEF Open, Filter
<1>2. Asks(filter, "SENT") <=> filter.direction # "RECEIVED"
  BY <1>1 DEF Asks
<1>3. Asks(filter, "RECEIVED") <=> filter.direction # "SENT"
  BY <1>1 DEF Asks, Open
<1>4. Matching(filter, SentItems) = IF filter.status = None THEN SentItems ELSE SettledItems
  <2>1. \A item \in SentItems : StatusOf(item) = sent[item[2]].status
    BY DEF SentItems, StatusOf
  <2>2. QED BY <1>1, <2>1 DEF Matching, SettledItems
<1>5. Matching(filter, ReceivedItems) = ReceivedItems
  <2>1. \A item \in ReceivedItems : StatusOf(item) = "COMPLETED"
    BY DEF ReceivedItems, StatusOf
  <2>2. QED BY <1>1, <2>1 DEF Matching
<1>6. QED BY <1>1, <1>2, <1>3, <1>4, <1>5 DEF SentMatching, ReceivedMatching, Matches

LEMMA MatchingStays == (\A filter \in Open : Matches(filter))'
  BY MatchingIs, PTL

LEMMA ItemsStay == (SentItems \subseteq Item /\ ReceivedItems \subseteq Item)'
<1>1. SentItems \subseteq Item /\ ReceivedItems \subseteq Item
  BY ItemsOfTables
<1>2. QED BY <1>1, PTL

SameOrder == \A a, b \in Items : Before(a, b)' <=> Before(a, b)

LEMMA OrderFromTimes ==
    ASSUME \A item \in Items : ActivityAt(item)' = ActivityAt(item)
    PROVE  SameOrder
<1>1. ASSUME NEW a \in Items, NEW b \in Items PROVE Before(a, b)' <=> Before(a, b)
  <2>1. ActivityAt(a)' = ActivityAt(a) /\ ActivityAt(b)' = ActivityAt(b)
    OBVIOUS
  <2>2. QED BY <2>1 DEF Before
<1>2. QED BY <1>1 DEF SameOrder

\* A payment is made or settled.
LEMMA SentWritten ==
    ASSUME TypeOK, NEW s \in Sent, NEW row \in SentRow,
           sent' = [sent EXCEPT ![s] = row], received' = received,
           \/ sent[s].status = "ABSENT" /\ row.status = "PENDING"
           \/ /\ sent[s].status = "PENDING" /\ row.status \in {"FAILED", "COMPLETED"}
              /\ row.createdAt = sent[s].createdAt
    PROVE  LET item == <<"SENT", s>> IN
           /\ SentItems' = SentItems \cup {item} /\ ReceivedItems' = ReceivedItems
           /\ SettledItems' = IF row.status = "COMPLETED" THEN SettledItems \cup {item}
                              ELSE SettledItems
           /\ item \notin SettledItems \cup ReceivedItems
           /\ item \in SentItems <=> sent[s].status # "ABSENT"
           /\ SameOrder
<1> DEFINE item == <<"SENT", s>>
<1>1. \A r \in Sent : sent'[r] = IF r = s THEN row ELSE sent[r]
  BY DEF TypeOK
<1>2. SentItems' = SentItems \cup {item}
  BY <1>1 DEF SentItems
<1>3. ReceivedItems' = ReceivedItems
  BY DEF ReceivedItems
<1>4. SettledItems = {<<"SENT", r>> : r \in {t \in Sent : sent[t].status = "COMPLETED"}}
  BY DEF SettledItems, SentItems
<1>5. SettledItems' = {<<"SENT", r>> : r \in {t \in Sent : sent'[t].status = "COMPLETED"}}
  BY DEF SettledItems, SentItems
<1>6. SettledItems' = IF row.status = "COMPLETED" THEN SettledItems \cup {item} ELSE SettledItems
  BY <1>1, <1>4, <1>5
<1>7. item \notin SettledItems \cup ReceivedItems
  BY <1>4 DEF ReceivedItems
<1>8. item \in SentItems <=> sent[s].status # "ABSENT"
  BY DEF SentItems
<1>9. ASSUME NEW a \in Items PROVE ActivityAt(a)' = ActivityAt(a)
  <2>1. CASE a \in SentItems
    <3>1. PICK r \in Sent : a = <<"SENT", r>> /\ sent[r].status # "ABSENT"
      BY <2>1 DEF SentItems
    <3>2. sent'[r].createdAt = sent[r].createdAt
      BY <1>1, <3>1
    <3>3. QED BY <3>1, <3>2 DEF ActivityAt
  <2>2. CASE a \in ReceivedItems
    <3>1. a[1] = "RECEIVED"
      BY <2>2 DEF ReceivedItems
    <3>2. QED BY <3>1 DEF ActivityAt
  <2>3. QED BY <2>1, <2>2 DEF Items
<1>10. SameOrder
  BY <1>9, OrderFromTimes
<1>11. QED BY <1>2, <1>3, <1>6, <1>7, <1>8, <1>10

\* A payment is received.
LEMMA ReceivedWritten ==
    ASSUME TypeOK, NEW q \in Received, NEW at \in Moment, received[q] = None,
           received' = [received EXCEPT ![q] = at], sent' = sent
    PROVE  LET item == <<"RECEIVED", q>> IN
           /\ SentItems' = SentItems /\ SettledItems' = SettledItems
           /\ ReceivedItems' = ReceivedItems \cup {item}
           /\ item \notin SentItems \cup ReceivedItems
           /\ SameOrder
<1> DEFINE item == <<"RECEIVED", q>>
<1>1. \A r \in Received : received'[r] = IF r = q THEN at ELSE received[r]
  BY DEF TypeOK
<1>2. at # None
  <2>1. Moment \subseteq Int
    BY NumbersAssumption, SMT DEF Moment
  <2>2. QED BY <2>1, NoneAssumption
<1>3. ReceivedItems' = ReceivedItems \cup {item}
  BY <1>1, <1>2 DEF ReceivedItems
<1>4. SentItems' = SentItems /\ SettledItems' = SettledItems
  BY DEF SentItems, SettledItems
<1>5. item \notin SentItems \cup ReceivedItems
  BY DEF SentItems, ReceivedItems
<1>6. ASSUME NEW a \in Items PROVE ActivityAt(a)' = ActivityAt(a)
  <2>1. CASE a \in SentItems
    <3>1. a[1] = "SENT"
      BY <2>1 DEF SentItems
    <3>2. QED BY <3>1 DEF ActivityAt
  <2>2. CASE a \in ReceivedItems
    <3>1. PICK r \in Received : a = <<"RECEIVED", r>> /\ received[r] # None
      BY <2>2 DEF ReceivedItems
    <3>2. received'[r] = received[r]
      BY <1>1, <3>1
    <3>3. QED BY <3>1, <3>2 DEF ActivityAt
  <2>3. QED BY <2>1, <2>2 DEF Items
<1>7. SameOrder
  BY <1>6, OrderFromTimes
<1>8. QED BY <1>3, <1>4, <1>5, <1>7

\* Rows read later hold those read before, and what they hold besides is news.
Grows(rows, news, rowsNow, newsNow) == rows \subseteq rowsNow /\ rowsNow \ newsNow = rows \ news

PageKept(filter) ==
    \E news \in SUBSET Item :
        /\ reader' = [reader EXCEPT !.news = news]
        /\ Grows(SentMatching(filter), reader.news, SentMatching(filter)', news)
        /\ Grows(ReceivedMatching(filter), reader.news, ReceivedMatching(filter)', news)

ReportKept(period) ==
    \E news \in SUBSET Item :
        /\ reader' = [reader EXCEPT !.news = news]
        /\ \A part \in Part : Grows(Counted(part, period), reader.news,
                                    Counted(part, period)', news)

LEMMA NewsIs ==
    ASSUME TypeOK, NEW item \in Item, NEW statuses, reader.op \in {"page", "report"}
    PROVE  LET enters == IF reader.op = "report" THEN "COMPLETED" \in statuses
                         ELSE /\ reader.filter.direction \in {None, item[1]}
                              /\ reader.filter.status \in statuses
               news == reader.news \cup (IF enters THEN {item} ELSE {}) IN
           news \in SUBSET Item /\ News(item, statuses) = [reader EXCEPT !.news = news]
<1> DEFINE enters == IF reader.op = "report" THEN "COMPLETED" \in statuses
                     ELSE /\ reader.filter.direction \in {None, item[1]}
                          /\ reader.filter.status \in statuses
           news == reader.news \cup (IF enters THEN {item} ELSE {})
<1>1. reader \in PageReader \/ reader \in ReportReader
  BY ReaderKinds
<1>2. reader.news \in SUBSET Item /\ reader = [reader EXCEPT !.news = reader.news]
  BY <1>1 DEF PageReader, ReportReader
<1>3. News(item, statuses) = IF enters THEN [reader EXCEPT !.news = reader.news \cup {item}]
                             ELSE reader
  BY Zenon DEF News
<1>4. news = IF enters THEN reader.news \cup {item} ELSE reader.news
  OBVIOUS
<1> HIDE DEF enters, news
<1>5. news \in SUBSET Item
  BY <1>2, <1>4
<1>6. News(item, statuses) = [reader EXCEPT !.news = news]
  BY <1>2, <1>3, <1>4
<1>7. QED BY <1>5, <1>6 DEF enters, news

LEMMA PageEnters ==
    ASSUME TypeOK, NEW filter \in Open, reader.op = "page", reader.filter = filter,
           NEW item \in Item, NEW statuses, reader' = News(item, statuses),
           NEW enters \in BOOLEAN,
           enters <=> filter.direction \in {None, item[1]} /\ filter.status \in statuses,
           enters => item \notin SentMatching(filter) \cup ReceivedMatching(filter),
           SentMatching(filter)' =
              SentMatching(filter) \cup (IF enters /\ item[1] = "SENT" THEN {item} ELSE {}),
           ReceivedMatching(filter)' =
              ReceivedMatching(filter) \cup (IF enters /\ item[1] = "RECEIVED" THEN {item} ELSE {})
    PROVE  PageKept(filter)
<1> DEFINE news == reader.news \cup (IF enters THEN {item} ELSE {})
<1>1. news \in SUBSET Item /\ reader' = [reader EXCEPT !.news = news]
  BY NewsIs
<1>2. Grows(SentMatching(filter), reader.news, SentMatching(filter)', news)
  BY DEF Grows
<1>3. Grows(ReceivedMatching(filter), reader.news, ReceivedMatching(filter)', news)
  BY DEF Grows
<1> HIDE DEF news
<1>4. QED BY <1>1, <1>2, <1>3 DEF PageKept

LEMMA PageUnmoved ==
    ASSUME TypeOK, NEW filter \in Open, reader.op = "page", reader.filter = filter,
           reader' = reader, SentMatching(filter)' = SentMatching(filter),
           ReceivedMatching(filter)' = ReceivedMatching(filter)
    PROVE  PageKept(filter)
<1>1. reader \in PageReader
  BY ReaderKinds
<1>2. reader.news \in SUBSET Item /\ reader' = [reader EXCEPT !.news = reader.news]
  BY <1>1 DEF PageReader
<1>3. QED BY <1>2 DEF PageKept, Grows

LEMMA CreateWrites ==
    ASSUME TypeOK, NEW s \in Sent, Create(s)
    PROVE  LET item == <<"SENT", s>> IN
           /\ SentItems' = SentItems \cup {item} /\ SettledItems' = SettledItems
           /\ ReceivedItems' = ReceivedItems
           /\ item \notin SentItems /\ item \notin SettledItems \cup ReceivedItems
           /\ SameOrder
           /\ reader' = News(item, {None, "PENDING"})
<1> DEFINE row == Created(sent[s])
<1>1. sent[s] = NoPayment /\ sent' = [sent EXCEPT ![s] = row]
  BY SentActions
<1>2. sent[s].status = "ABSENT"
  BY <1>1 DEF NoPayment
<1>3. Moment # {}
  BY NumbersAssumption, SMT DEF Moment
<1>4. row \in SentRow /\ row.status = "PENDING"
  BY <1>1, <1>3, RowsWritten
<1>5. received' = received /\ reader' = News(<<"SENT", s>>, {None, "PENDING"})
  BY DEF Create
<1> HIDE DEF row
<1>6. QED BY <1>1, <1>2, <1>4, <1>5, SentWritten

LEMMA SettleWrites ==
    ASSUME TypeOK, NEW s \in Sent, NEW at \in Moment,
           NEW evidence \in {"PROVIDER_SMS", "MOBILE_APP"}, Settle(s, at, evidence)
    PROVE  LET item == <<"SENT", s>> IN
           /\ SentItems' = SentItems /\ SettledItems' = SettledItems \cup {item}
           /\ ReceivedItems' = ReceivedItems
           /\ item \in SentItems /\ item \notin SettledItems \cup ReceivedItems
           /\ SameOrder
           /\ reader' = News(item, {"COMPLETED"})
<1> DEFINE row == Settled(sent[s], at, evidence)
<1>1. sent[s].status = "PENDING" /\ sent' = [sent EXCEPT ![s] = row]
  BY SentActions
<1>2. row \in SentRow /\ row.status = "COMPLETED" /\ row.createdAt = sent[s].createdAt
  BY RowsWritten
<1>3. received' = received /\ reader' = News(<<"SENT", s>>, {"COMPLETED"})
  BY DEF Settle
<1> HIDE DEF row
<1>4. LET item == <<"SENT", s>> IN
      /\ SentItems' = SentItems \cup {item} /\ ReceivedItems' = ReceivedItems
      /\ SettledItems' = SettledItems \cup {item}
      /\ item \notin SettledItems \cup ReceivedItems /\ item \in SentItems
      /\ SameOrder
  <2>1. \/ sent[s].status = "ABSENT" /\ row.status = "PENDING"
        \/ /\ sent[s].status = "PENDING" /\ row.status \in {"FAILED", "COMPLETED"}
           /\ row.createdAt = sent[s].createdAt
    BY <1>1, <1>2
  <2>2. QED BY <1>1, <1>2, <1>3, <2>1, SentWritten
<1>5. SentItems \cup {<<"SENT", s>>} = SentItems
  BY <1>4
<1>6. QED BY <1>3, <1>4, <1>5

LEMMA FailWrites ==
    ASSUME TypeOK, NEW s \in Sent, Fail(s)
    PROVE  /\ SentItems' = SentItems /\ SettledItems' = SettledItems
           /\ ReceivedItems' = ReceivedItems
           /\ SameOrder
           /\ reader' = reader
<1> DEFINE row == Failed(sent[s])
<1>1. sent[s].status = "PENDING" /\ sent' = [sent EXCEPT ![s] = row]
  BY SentActions
<1>2. Moment # {}
  BY NumbersAssumption, SMT DEF Moment
<1>3. row \in SentRow /\ row.status = "FAILED" /\ row.createdAt = sent[s].createdAt
  BY <1>1, <1>2, RowsWritten
<1>4. received' = received /\ reader' = reader
  BY DEF Fail
<1> HIDE DEF row
<1>5. LET item == <<"SENT", s>> IN
      /\ SentItems' = SentItems \cup {item} /\ ReceivedItems' = ReceivedItems
      /\ SettledItems' = SettledItems /\ item \in SentItems
      /\ SameOrder
  <2>1. \/ sent[s].status = "ABSENT" /\ row.status = "PENDING"
        \/ /\ sent[s].status = "PENDING" /\ row.status \in {"FAILED", "COMPLETED"}
           /\ row.createdAt = sent[s].createdAt
    BY <1>1, <1>3
  <2>2. QED BY <1>1, <1>3, <1>4, <2>1, SentWritten
<1>6. SentItems \cup {<<"SENT", s>>} = SentItems
  BY <1>5
<1>7. QED BY <1>4, <1>5, <1>6

LEMMA ReceiveWrites ==
    ASSUME TypeOK, NEW q \in Received, NEW at \in Moment, Receive(q, at)
    PROVE  LET item == <<"RECEIVED", q>> IN
           /\ SentItems' = SentItems /\ SettledItems' = SettledItems
           /\ ReceivedItems' = ReceivedItems \cup {item}
           /\ item \notin SentItems \cup ReceivedItems
           /\ SameOrder
           /\ reader' = News(item, {None, "COMPLETED"})
  BY ReceivedWritten DEF Receive

LEMMA NothingWritten ==
    ASSUME UNCHANGED <<sent, received>>
    PROVE  /\ SentItems' = SentItems /\ SettledItems' = SettledItems
           /\ ReceivedItems' = ReceivedItems
           /\ SameOrder
<1>1. \A item \in Items : ActivityAt(item)' = ActivityAt(item)
  BY DEF ActivityAt
<1>2. SameOrder
  BY <1>1, OrderFromTimes
<1>3. QED BY <1>2 DEF SentItems, SettledItems, ReceivedItems

\* What payments do to the tables while others read.
Write ==
    \/ \E s \in Sent :
        \/ Create(s) \/ Fail(s)
        \/ \E at \in Moment, evidence \in {"PROVIDER_SMS", "MOBILE_APP"} : Settle(s, at, evidence)
    \/ \E q \in Received, at \in Moment : Receive(q, at)
    \/ UNCHANGED <<sent, received, reader>>

LEMMA TablesGrow ==
    ASSUME TypeOK, Write
    PROVE  /\ SentItems \subseteq SentItems' /\ ReceivedItems \subseteq ReceivedItems'
           /\ SameOrder
<1>1. ASSUME NEW s \in Sent, Create(s)
      PROVE  SentItems \subseteq SentItems' /\ ReceivedItems \subseteq ReceivedItems' /\ SameOrder
  BY <1>1, CreateWrites
<1>2. ASSUME NEW s \in Sent, Fail(s)
      PROVE  SentItems \subseteq SentItems' /\ ReceivedItems \subseteq ReceivedItems' /\ SameOrder
  BY <1>2, FailWrites
<1>3. ASSUME NEW s \in Sent, NEW at \in Moment, NEW evidence \in {"PROVIDER_SMS", "MOBILE_APP"},
             Settle(s, at, evidence)
      PROVE  SentItems \subseteq SentItems' /\ ReceivedItems \subseteq ReceivedItems' /\ SameOrder
  BY <1>3, SettleWrites
<1>4. ASSUME NEW q \in Received, NEW at \in Moment, Receive(q, at)
      PROVE  SentItems \subseteq SentItems' /\ ReceivedItems \subseteq ReceivedItems' /\ SameOrder
  BY <1>4, ReceiveWrites
<1>5. ASSUME UNCHANGED <<sent, received>>
      PROVE  SentItems \subseteq SentItems' /\ ReceivedItems \subseteq ReceivedItems' /\ SameOrder
  BY <1>5, NothingWritten
<1>6. QED BY <1>1, <1>2, <1>3, <1>4, <1>5 DEF Write

LEMMA PageIsKept ==
    ASSUME TypeOK, Write, NEW filter \in Open, reader.op = "page", reader.filter = filter
    PROVE  PageKept(filter)
<1>1. /\ filter.status \in {"COMPLETED", None} /\ filter.direction \in {"SENT", "RECEIVED", None}
      /\ SentMatching(filter) = IF filter.direction = "RECEIVED" THEN {}
                                ELSE IF filter.status = None THEN SentItems ELSE SettledItems
      /\ ReceivedMatching(filter) = IF filter.direction = "SENT" THEN {} ELSE ReceivedItems
  BY MatchingIs DEF Matches
<1>2. /\ SentMatching(filter)' = IF filter.direction = "RECEIVED" THEN {}
                                 ELSE IF filter.status = None THEN SentItems' ELSE SettledItems'
      /\ ReceivedMatching(filter)' = IF filter.direction = "SENT" THEN {} ELSE ReceivedItems'
  BY MatchingStays DEF Matches
<1>3. None \notin {"SENT", "RECEIVED", "PENDING", "COMPLETED"}
  BY NoneAssumption
<1>4. ASSUME NEW s \in Sent, Create(s) PROVE PageKept(filter)
  <2> DEFINE item == <<"SENT", s>>
             enters == filter.direction \in {None, "SENT"} /\ filter.status = None
  <2>1. /\ SentItems' = SentItems \cup {item} /\ SettledItems' = SettledItems
        /\ ReceivedItems' = ReceivedItems
        /\ item \notin SentItems /\ item \notin SettledItems \cup ReceivedItems
        /\ reader' = News(item, {None, "PENDING"})
    BY <1>4, CreateWrites
  <2>2. item \in Item /\ item[1] = "SENT"
    BY DEF Item
  <2> HIDE DEF item
  <2>3. enters <=> filter.direction \in {None, item[1]} /\ filter.status \in {None, "PENDING"}
    BY <1>1, <1>3, <2>2
  <2>4. enters => item \notin SentMatching(filter) \cup ReceivedMatching(filter)
    BY <1>1, <2>1
  <2>5. SentMatching(filter)' =
           SentMatching(filter) \cup (IF enters /\ item[1] = "SENT" THEN {item} ELSE {})
    BY <1>1, <1>2, <1>3, <2>1, <2>2
  <2>6. ReceivedMatching(filter)' =
           ReceivedMatching(filter) \cup (IF enters /\ item[1] = "RECEIVED" THEN {item} ELSE {})
    BY <1>1, <1>2, <2>1, <2>2
  <2>7. enters \in BOOLEAN
    OBVIOUS
  <2> HIDE DEF enters
  <2>8. QED BY <2>1, <2>2, <2>3, <2>4, <2>5, <2>6, <2>7, PageEnters
<1>5. ASSUME NEW s \in Sent, NEW at \in Moment, NEW evidence \in {"PROVIDER_SMS", "MOBILE_APP"},
             Settle(s, at, evidence)
      PROVE  PageKept(filter)
  <2> DEFINE item == <<"SENT", s>>
             enters == filter.direction \in {None, "SENT"} /\ filter.status = "COMPLETED"
  <2>1. /\ SentItems' = SentItems /\ SettledItems' = SettledItems \cup {item}
        /\ ReceivedItems' = ReceivedItems
        /\ item \in SentItems /\ item \notin SettledItems \cup ReceivedItems
        /\ reader' = News(item, {"COMPLETED"})
    BY <1>5, SettleWrites
  <2>2. item \in Item /\ item[1] = "SENT"
    BY DEF Item
  <2> HIDE DEF item
  <2>3. enters <=> filter.direction \in {None, item[1]} /\ filter.status \in {"COMPLETED"}
    BY <2>2
  <2>4. enters => item \notin SentMatching(filter) \cup ReceivedMatching(filter)
    BY <1>1, <1>3, <2>1
  <2>5. SentMatching(filter)' =
           SentMatching(filter) \cup (IF enters /\ item[1] = "SENT" THEN {item} ELSE {})
    BY <1>1, <1>2, <1>3, <2>1, <2>2
  <2>6. ReceivedMatching(filter)' =
           ReceivedMatching(filter) \cup (IF enters /\ item[1] = "RECEIVED" THEN {item} ELSE {})
    BY <1>1, <1>2, <2>1, <2>2
  <2>7. enters \in BOOLEAN
    OBVIOUS
  <2> HIDE DEF enters
  <2>8. QED BY <2>1, <2>2, <2>3, <2>4, <2>5, <2>6, <2>7, PageEnters
<1>6. ASSUME NEW q \in Received, NEW at \in Moment, Receive(q, at) PROVE PageKept(filter)
  <2> DEFINE item == <<"RECEIVED", q>>
             enters == filter.direction \in {None, "RECEIVED"}
  <2>1. /\ SentItems' = SentItems /\ SettledItems' = SettledItems
        /\ ReceivedItems' = ReceivedItems \cup {item}
        /\ item \notin SentItems \cup ReceivedItems
        /\ reader' = News(item, {None, "COMPLETED"})
    BY <1>6, ReceiveWrites
  <2>2. item \in Item /\ item[1] = "RECEIVED"
    BY DEF Item
  <2>3. item \notin SettledItems
    BY <2>1 DEF SettledItems
  <2> HIDE DEF item
  <2>4. enters <=> filter.direction \in {None, item[1]} /\ filter.status \in {None, "COMPLETED"}
    BY <1>1, <2>2
  <2>5. enters => item \notin SentMatching(filter) \cup ReceivedMatching(filter)
    BY <1>1, <2>1, <2>3
  <2>6. SentMatching(filter)' =
           SentMatching(filter) \cup (IF enters /\ item[1] = "SENT" THEN {item} ELSE {})
    BY <1>1, <1>2, <2>1, <2>2
  <2>7. ReceivedMatching(filter)' =
           ReceivedMatching(filter) \cup (IF enters /\ item[1] = "RECEIVED" THEN {item} ELSE {})
    BY <1>1, <1>2, <1>3, <2>1, <2>2
  <2>8. enters \in BOOLEAN
    OBVIOUS
  <2> HIDE DEF enters
  <2>9. QED BY <2>1, <2>2, <2>4, <2>5, <2>6, <2>7, <2>8, PageEnters
<1>7. ASSUME NEW s \in Sent, Fail(s) PROVE PageKept(filter)
  <2>1. /\ SentItems' = SentItems /\ SettledItems' = SettledItems
        /\ ReceivedItems' = ReceivedItems /\ reader' = reader
    BY <1>7, FailWrites
  <2>2. SentMatching(filter)' = SentMatching(filter)
        /\ ReceivedMatching(filter)' = ReceivedMatching(filter)
    BY <1>1, <1>2, <2>1
  <2>3. QED BY <2>1, <2>2, PageUnmoved
<1>8. ASSUME UNCHANGED <<sent, received, reader>> PROVE PageKept(filter)
  <2>1. /\ SentItems' = SentItems /\ SettledItems' = SettledItems
        /\ ReceivedItems' = ReceivedItems /\ reader' = reader
    BY <1>8, NothingWritten
  <2>2. SentMatching(filter)' = SentMatching(filter)
        /\ ReceivedMatching(filter)' = ReceivedMatching(filter)
    BY <1>1, <1>2, <2>1
  <2>3. QED BY <2>1, <2>2, PageUnmoved
<1>9. QED BY <1>4, <1>5, <1>6, <1>7, <1>8 DEF Write

-----------------------------------------------------------------------------
(* The order of the history, and the cut of a page.                        *)

LEMMA OrderIsStrict ==
    ASSUME TypeOK
    PROVE  /\ IsFiniteSet(Items)
           /\ \A A \in SUBSET Items : IsFiniteSet(A) /\ Strict(Order, A)
<1>1. IsFiniteSet(Items)
  BY ItemsOfTables, FS_Subset DEF Items
<1>2. \A item \in Items : ActivityAt(item) \in Int /\ item[2] \in Nat
                          /\ item[1] \in {"SENT", "RECEIVED"}
  <2>1. ASSUME NEW s \in Sent
        PROVE  s \in Nat /\ sent[s].createdAt \in Int
    BY KeysAssumption, NumbersAssumption DEF TypeOK, SentRow
  <2>2. Moment \subseteq Int
    BY NumbersAssumption, SMT DEF Moment
  <2>3. ASSUME NEW q \in Received, received[q] # None
        PROVE  q \in Nat /\ received[q] \in Int
    BY <2>2, <2>3, KeysAssumption DEF TypeOK
  <2>4. \A item \in SentItems : ActivityAt(item) \in Int /\ item[2] \in Nat /\ item[1] = "SENT"
    BY <2>1 DEF SentItems, ActivityAt
  <2>5. \A item \in ReceivedItems :
           ActivityAt(item) \in Int /\ item[2] \in Nat /\ item[1] = "RECEIVED"
    BY <2>3 DEF ReceivedItems, ActivityAt
  <2>6. QED BY <2>4, <2>5 DEF Items
<1>3. \A x \in Items : ~Before(x, x)
  BY <1>2 DEF Before
<1>4. \A x, y, z \in Items : Before(x, y) /\ Before(y, z) => Before(x, z)
  <2>1. ASSUME NEW x \in Items, NEW y \in Items, NEW z \in Items, Before(x, y), Before(y, z)
        PROVE  Before(x, z)
    BY <1>2, <2>1, SMT DEF Before
  <2>2. QED BY <2>1
<1>5. \A x, y : <<x, y>> \in Order <=> x \in Items /\ y \in Items /\ Before(x, y)
  BY DEF Order
<1>6. ASSUME NEW A \in SUBSET Items PROVE Strict(Order, A)
  BY <1>3, <1>4, <1>5 DEF Strict
<1>7. QED BY <1>1, <1>6, FS_Subset

LEMMA PositionIsRank ==
    ASSUME NEW A \in SUBSET Items, NEW x \in Items
    PROVE  Position(x, A) = Rank(Order, x, A)
<1>1. {other \in A : Before(other, x)} = Below(Order, x, A)
  BY DEF Below, Order
<1>2. QED BY <1>1 DEF Position, Rank

LEMMA RanksStay ==
    ASSUME Items \subseteq Items', SameOrder, NEW A \in SUBSET Items, NEW x \in Items
    PROVE  Rank(Order', x, A) = Rank(Order, x, A)
<1>1. Order' = {pair \in Items' \X Items' : Before(pair[1], pair[2])'}
  BY DEF Order
<1>2. ASSUME NEW y \in Items PROVE <<y, x>> \in Order' <=> <<y, x>> \in Order
  BY <1>1 DEF Order, SameOrder
<1>3. Below(Order', x, A) = Below(Order, x, A)
  BY <1>2 DEF Below
<1>4. QED BY <1>3 DEF Rank

\* What a page shows, in ranks.
LEMMA CutByRank ==
    ASSUME NEW A \in SUBSET Items, NEW page
    PROVE  /\ Cut(A, page) = {x \in A : /\ (page - 1) * Limit <= Rank(Order, x, A)
                                        /\ Rank(Order, x, A) < page * Limit}
           /\ First(A, page) = Front(Order, A, page)
<1>1. \A x \in A : Position(x, A) = Rank(Order, x, A)
  BY PositionIsRank
<1>2. QED BY <1>1 DEF Cut, First, Front

LEMMA PageIsCut ==
    ASSUME TypeOK, RowsAreThere PROVE PageIsCutOfWhole
<1> SUFFICES ASSUME Listed PROVE PageOf(reader) = Cut(reader.sent \cup reader.received, reader.page)
  BY DEF PageIsCutOfWhole
<1> DEFINE S == reader.sent
           T == reader.received
           n == reader.page * Limit
           fronts == Front(Order, S, n) \cup Front(Order, T, n)
<1>1. reader \in PageReader /\ reader.op = "page"
  BY ReaderKinds DEF Listed
<1>2. S \in SUBSET Items /\ T \in SUBSET Items
  BY <1>1 DEF Listed, RowsAreThere, Items
<1>3. CASE reader.of = "list"
  BY <1>3 DEF PageOf, ListPage
<1>4. CASE reader.of # "list"
  <2>1. reader.page \in Nat
    BY <1>1 DEF PageReader
  <2>2. n \in Nat
    BY <2>1, NumbersAssumption, SMT
  <2>3. First(S, Take(reader.page)) = Front(Order, S, n)
        /\ First(T, Take(reader.page)) = Front(Order, T, n)
    BY <1>2, CutByRank DEF Take
  <2>4. PageOf(reader) = Cut(fronts, reader.page)
    BY <1>4, <2>3 DEF PageOf
  <2>5. S \cup T \in SUBSET Items /\ fronts \in SUBSET Items
    BY <1>2 DEF Front
  <2> HIDE DEF S, T, n
  <2>6. /\ IsFiniteSet(S) /\ IsFiniteSet(T) /\ Strict(Order, S \cup T)
    BY <1>2, <2>5, OrderIsStrict
  <2>7. /\ \A x \in S \cup T : Rank(Order, x, S \cup T) < n =>
              x \in fronts /\ Rank(Order, x, fronts) = Rank(Order, x, S \cup T)
        /\ \A x \in fronts : Rank(Order, x, fronts) < n => Rank(Order, x, S \cup T) < n
    BY <2>2, <2>6, FrontOfUnion
  <2>8. fronts \subseteq S \cup T
    BY DEF Front
  <2> HIDE DEF fronts
  <2>9. Cut(fronts, reader.page) =
           {x \in fronts : /\ (reader.page - 1) * Limit <= Rank(Order, x, fronts)
                           /\ Rank(Order, x, fronts) < n}
    BY <2>5, CutByRank DEF n
  <2>10. Cut(S \cup T, reader.page) =
           {x \in S \cup T : /\ (reader.page - 1) * Limit <= Rank(Order, x, S \cup T)
                             /\ Rank(Order, x, S \cup T) < n}
    BY <2>5, CutByRank DEF n
  <2>11. Cut(fronts, reader.page) = Cut(S \cup T, reader.page)
    BY <2>7, <2>8, <2>9, <2>10
  <2>12. QED BY <2>4, <2>11 DEF S, T
<1>5. QED BY <1>3, <1>4

-----------------------------------------------------------------------------
(* Turning the pages.                                                      *)

\* Payments leave the reader as it is, but for the news.
LEMMA WriteReader ==
    ASSUME TypeOK, Write
    PROVE  \/ reader' = reader
           \/ /\ reader.op \in {"page", "report"}
              /\ \E news : reader' = [reader EXCEPT !.news = news]
<1>1. \A item, statuses : \/ News(item, statuses) = reader
                          \/ /\ reader.op \in {"page", "report"}
                             /\ \E news : News(item, statuses) = [reader EXCEPT !.news = news]
  BY DEF News
<1>2. reader' = reader \/ \E item, statuses : reader' = News(item, statuses)
  BY Zenon DEF Write, Create, Settle, Fail, Receive
<1>3. QED BY <1>1, <1>2

\* A reader that has the fields of pages after a step had them before.
LEMMA WritePage ==
    ASSUME TypeOK, Write
    PROVE  /\ reader'.op = "page" => reader.op = "page" /\ reader'.filter = reader.filter
           /\ reader'.op = "lastPage" => reader' = reader
           /\ reader'.op = "report" => reader.op = "report" /\ reader'.period = reader.period
<1>1. CASE reader' = reader
  BY <1>1
<1>2. CASE reader.op = "page" /\ \E news : reader' = [reader EXCEPT !.news = news]
  <2>1. reader \in PageReader
    BY <1>2, ReaderKinds
  <2>2. reader'.op = "page" /\ reader'.filter = reader.filter
    BY <1>2, <2>1 DEF PageReader
  <2>3. QED BY <1>2, <2>2
<1>3. CASE reader.op = "report" /\ \E news : reader' = [reader EXCEPT !.news = news]
  <2>1. reader \in ReportReader
    BY <1>3, ReaderKinds
  <2>2. reader'.op = "report" /\ reader'.period = reader.period
    BY <1>3, <2>1 DEF ReportReader
  <2>3. QED BY <1>3, <2>2
<1>4. QED BY <1>1, <1>2, <1>3, WriteReader

LEMMA ReadSinceStays ==
    ASSUME NEW rows, NEW total, NEW news, NEW rowsNow, NEW newsLater, NEW rowsLater,
           ReadSince(rows, total, news, rowsNow), Grows(rowsNow, news, rowsLater, newsLater)
    PROVE  ReadSince(rows, total, newsLater, rowsLater)
<1>1. rowsNow \subseteq rowsLater /\ rowsLater \ newsLater = rowsNow \ news
  BY DEF Grows
<1>2. QED BY <1>1 DEF ReadSince

LEMMA ItemsGrow ==
    ASSUME TypeOK, Write
    PROVE  Items \subseteq Items' /\ SameOrder
<1>1. SentItems \subseteq SentItems' /\ ReceivedItems \subseteq ReceivedItems' /\ SameOrder
  BY TablesGrow
<1>2. QED BY <1>1 DEF Items

LEMMA MatchingInItems ==
    ASSUME NEW filter
    PROVE  SentMatching(filter) \cup ReceivedMatching(filter) \in SUBSET Items
  BY ItemsOfTables DEF Items

LEMMA WriteKeepsPages ==
    ASSUME TypeOK, RowsAreThere, PageFits, PagingMissesOnlyForNews, Write
    PROVE  RowsAreThere' /\ PageFits' /\ PagingMissesOnlyForNews'
<1>1. RowsAreThere'
  <2> SUFFICES ASSUME reader'.op = "page"
               PROVE  /\ reader'.sent # None => reader'.sent \subseteq SentItems'
                      /\ reader'.received # None => reader'.received \subseteq ReceivedItems'
    BY DEF RowsAreThere
  <2>1. reader.op = "page"
    BY WritePage
  <2>2. reader \in PageReader
    BY <2>1, ReaderKinds
  <2>3. reader'.sent = reader.sent /\ reader'.received = reader.received
    BY <2>2, WriteReader DEF PageReader
  <2>4. QED BY <2>1, <2>3, TablesGrow DEF RowsAreThere
<1>2. ASSUME NEW filter \in Open, reader'.op = "page", reader'.filter = filter
      PROVE  PageHolds(filter)'
  <2>1. reader.op = "page" /\ reader.filter = filter
    BY <1>2, WritePage
  <2>2. reader \in PageReader
    BY <2>1, ReaderKinds
  <2>3. PICK news \in SUBSET Item :
          /\ reader' = [reader EXCEPT !.news = news]
          /\ Grows(SentMatching(filter), reader.news, SentMatching(filter)', news)
          /\ Grows(ReceivedMatching(filter), reader.news, ReceivedMatching(filter)', news)
    BY <2>1, PageIsKept DEF PageKept
  <2>4. /\ reader'.sent = reader.sent /\ reader'.received = reader.received
        /\ reader'.sentTotal = reader.sentTotal /\ reader'.receivedTotal = reader.receivedTotal
        /\ reader'.known = reader.known /\ reader'.shown = reader.shown
        /\ reader'.page = reader.page /\ reader'.news = news
    BY <2>2, <2>3 DEF PageReader
  <2>5. PageHolds(filter)
    BY <2>1 DEF PageFits
  <2>6. /\ ReadSince(reader.sent, reader.sentTotal, reader.news, SentMatching(filter))
        /\ ReadSince(reader.received, reader.receivedTotal, reader.news,
                     ReceivedMatching(filter))
    BY <2>5 DEF PageHolds
  <2>7. ReadSince(reader.sent, reader.sentTotal, news, SentMatching(filter)')
    BY <2>3, <2>6, ReadSinceStays
  <2>8. ReadSince(reader.received, reader.receivedTotal, news, ReceivedMatching(filter)')
    BY <2>3, <2>6, ReadSinceStays
  <2> DEFINE old == (SentMatching(filter) \cup ReceivedMatching(filter)) \ reader.news
  <2>9. old \in SUBSET Items
    BY MatchingInItems
  <2>10. (SentMatching(filter)' \cup ReceivedMatching(filter)') \ news = old
    BY <2>3 DEF Grows
  <2>11. reader.known \subseteq old
         /\ \A item \in reader.known :
               Rank(Order, item, old) < (reader.page - 1) * Limit => item \in reader.shown
    BY <2>5 DEF PageHolds, Turned
  <2> HIDE DEF old
  <2>12. \A item \in reader.known : Rank(Order', item, old) = Rank(Order, item, old)
    BY <2>9, <2>11, ItemsGrow, RanksStay
  <2>13. Turned(reader', Order', old)
    BY <2>4, <2>11, <2>12 DEF Turned
  <2>14. QED BY <2>4, <2>7, <2>8, <2>10, <2>13 DEF PageHolds
<1>3. PagingMissesOnlyForNews'
  <2>1. reader'.op = "lastPage" => reader' = reader
    BY WritePage
  <2>2. QED BY <2>1 DEF PagingMissesOnlyForNews
<1>4. QED BY <1>1, <1>2, <1>3 DEF PageFits

\* A step that only turns the reader leaves what it reads as it is.
LEMMA NothingMoves ==
    ASSUME UNCHANGED <<sent, received>>
    PROVE  /\ SentItems' = SentItems /\ ReceivedItems' = ReceivedItems /\ Order' = Order
           /\ \A filter : SentMatching(filter)' = SentMatching(filter)
                          /\ ReceivedMatching(filter)' = ReceivedMatching(filter)
           /\ \A part, period : Counted(part, period)' = Counted(part, period)
<1>1. SentItems' = SentItems /\ ReceivedItems' = ReceivedItems
  BY DEF SentItems, ReceivedItems
<1>2. Items' = Items
  BY <1>1 DEF Items
<1>3. ASSUME NEW item PROVE ActivityAt(item)' = ActivityAt(item) /\ StatusOf(item)' = StatusOf(item)
  BY DEF ActivityAt, StatusOf
<1>4. \A a, b : Before(a, b)' <=> Before(a, b)
  BY <1>3 DEF Before
<1>5. Order' = {pair \in Items' \X Items' : Before(pair[1], pair[2])'}
  BY DEF Order
<1>6. Order' = Order
  BY <1>2, <1>4, <1>5 DEF Order
<1>7. ASSUME NEW filter
      PROVE  SentMatching(filter)' = SentMatching(filter)
             /\ ReceivedMatching(filter)' = ReceivedMatching(filter)
  <2>1. \A items : {item \in items : filter.status # None => StatusOf(item)' = filter.status}
                   = Matching(filter, items)
    BY <1>3 DEF Matching
  <2>2. QED BY <1>1, <2>1 DEF SentMatching, ReceivedMatching, Matching
<1>8. ASSUME NEW part, NEW period PROVE Counted(part, period)' = Counted(part, period)
  <2>1. \A span : Completed(span)' = Completed(span)
    BY <1>1, <1>3 DEF Completed
  <2>2. \A evidence, span : ConfirmedBy(evidence, span)' = ConfirmedBy(evidence, span)
    BY <1>1, <1>3 DEF ConfirmedBy
  <2>3. ReceivedIn(period)' = ReceivedIn(period)
    BY <1>1 DEF ReceivedIn
  <2>4. QED BY <2>1, <2>2, <2>3 DEF Counted
<1>9. QED BY <1>1, <1>6, <1>7, <1>8

\* A query reads what is there.
LEMMA ReadNow ==
    ASSUME NEW rows, NEW total, NEW news, NEW rowsNow, IsFiniteSet(rowsNow),
           ReadSince(rows, total, news, rowsNow)
    PROVE  /\ ReadSince(rowsNow, total, news, rowsNow)
           /\ ReadSince(rows, Cardinality(rowsNow), news, rowsNow)
<1>1. Cardinality(rowsNow \ news) <= Cardinality(rowsNow)
  BY FS_Subset
<1>2. QED BY <1>1 DEF ReadSince

LEMMA QueriesKeepPages ==
    ASSUME TypeOK, RowsAreThere, PageFits, ListSent \/ ListReceived \/ CountSent \/ CountReceived
    PROVE  RowsAreThere' /\ PageFits' /\ PagingMissesOnlyForNews'
<1> DEFINE S == SentMatching(reader.filter)
<1>1. reader.op = "page" /\ UNCHANGED <<sent, received>>
  BY DEF ListSent, ListReceived, CountSent, CountReceived, PageQuery
<1>2. reader \in PageReader
  BY <1>1, ReaderKinds
<1>3. PICK R :
         /\ R \subseteq ReceivedMatching(reader.filter)
         /\ ~reader.filter.classified => R = ReceivedMatching(reader.filter)
         /\ \/ reader' = [reader EXCEPT !.sent = S]
            \/ reader' = [reader EXCEPT !.received = R]
            \/ reader' = [reader EXCEPT !.sentTotal = Cardinality(S)]
            \/ reader' = [reader EXCEPT !.receivedTotal = Cardinality(R)]
  <2>1. /\ ReceivedMatching(reader.filter) \subseteq ReceivedMatching(reader.filter)
        /\ ReceivedMatching(reader.filter) = ReceivedMatching(reader.filter)
    OBVIOUS
  <2>2. \A items \in ReceivedFound(reader.filter) :
           /\ items \subseteq ReceivedMatching(reader.filter)
           /\ ~reader.filter.classified => items = ReceivedMatching(reader.filter)
    BY FoundIsThere
  <2>3. CASE ListSent
    BY <2>1, <2>3, Zenon DEF ListSent, PageQuery
  <2>4. CASE ListReceived
    BY <2>2, <2>4, Zenon DEF ListReceived, PageQuery
  <2>5. CASE CountSent
    BY <2>1, <2>5, Zenon DEF CountSent, PageQuery
  <2>6. CASE CountReceived
    BY <2>2, <2>6, Zenon DEF CountReceived, PageQuery
  <2>7. QED BY <2>3, <2>4, <2>5, <2>6
<1>4. /\ S \subseteq SentItems /\ R \subseteq ReceivedItems
      /\ IsFiniteSet(S) /\ IsFiniteSet(ReceivedMatching(reader.filter))
  BY <1>3, ItemsOfTables, Counts
<1> HIDE DEF S
<1>5. /\ reader'.op = "page" /\ reader'.filter = reader.filter /\ reader'.page = reader.page
      /\ reader'.known = reader.known /\ reader'.shown = reader.shown
      /\ reader'.news = reader.news
  BY <1>1, <1>2, <1>3 DEF PageReader
<1>6. \/ /\ reader'.sent = S /\ reader'.received = reader.received
         /\ reader'.sentTotal = reader.sentTotal /\ reader'.receivedTotal = reader.receivedTotal
      \/ /\ reader'.sent = reader.sent /\ reader'.received = R
         /\ reader'.sentTotal = reader.sentTotal /\ reader'.receivedTotal = reader.receivedTotal
      \/ /\ reader'.sent = reader.sent /\ reader'.received = reader.received
         /\ reader'.sentTotal = Cardinality(S) /\ reader'.receivedTotal = reader.receivedTotal
      \/ /\ reader'.sent = reader.sent /\ reader'.received = reader.received
         /\ reader'.sentTotal = reader.sentTotal /\ reader'.receivedTotal = Cardinality(R)
  BY <1>2, <1>3 DEF PageReader
<1>7. RowsAreThere'
  <2>1. SentItems' = SentItems /\ ReceivedItems' = ReceivedItems
    BY <1>1, NothingMoves
  <2>2. QED BY <1>1, <1>4, <1>6, <2>1 DEF RowsAreThere
<1>8. ASSUME NEW filter \in Open, reader'.filter = filter PROVE PageHolds(filter)'
  <2>1. /\ filter = reader.filter
        /\ SentMatching(filter)' = S /\ ReceivedMatching(filter)' = R /\ Order' = Order
        /\ R = ReceivedMatching(reader.filter)
    BY <1>1, <1>3, <1>5, <1>8, NothingMoves DEF S, Open
  <2>2. PageHolds(filter)
    BY <1>1, <2>1 DEF PageFits
  <2>3. /\ ReadSince(reader.sent, reader.sentTotal, reader.news, S)
        /\ ReadSince(reader.received, reader.receivedTotal, reader.news, R)
        /\ Turned(reader, Order, (S \cup R) \ reader.news)
    BY <2>1, <2>2 DEF PageHolds, S
  <2>4. /\ ReadSince(reader'.sent, reader'.sentTotal, reader.news, S)
        /\ ReadSince(reader'.received, reader'.receivedTotal, reader.news, R)
    <3>1. /\ ReadSince(S, reader.sentTotal, reader.news, S)
          /\ ReadSince(reader.sent, Cardinality(S), reader.news, S)
      BY <1>4, <2>3, ReadNow
    <3>2. /\ ReadSince(R, reader.receivedTotal, reader.news, R)
          /\ ReadSince(reader.received, Cardinality(R), reader.news, R)
      BY <1>4, <2>1, <2>3, ReadNow
    <3>3. QED BY <1>6, <2>3, <3>1, <3>2
  <2>5. Turned(reader', Order, (S \cup R) \ reader.news)
    BY <1>5, <2>3 DEF Turned
  <2>6. QED BY <1>5, <2>1, <2>4, <2>5 DEF PageHolds
<1>9. PageFits'
  BY <1>8 DEF PageFits
<1>10. QED BY <1>5, <1>7, <1>9 DEF PagingMissesOnlyForNews

\* A page that is about to be read: what is not asked is nothing.
LEMMA ReadingFits ==
    ASSUME NEW of, NEW filter \in Open, NEW page, NEW known, NEW shown
    PROVE  LET tx == Reading(of, filter, page, known, shown) IN
           /\ tx.op = "page" /\ tx.filter = filter /\ tx.page = page
           /\ tx.known = known /\ tx.shown = shown /\ tx.news = {}
           /\ ReadSince(tx.sent, tx.sentTotal, {}, SentMatching(filter))
           /\ ReadSince(tx.received, tx.receivedTotal, {}, ReceivedMatching(filter))
<1> DEFINE tx == Reading(of, filter, page, known, shown)
<1>1. /\ tx.op = "page" /\ tx.filter = filter /\ tx.page = page
      /\ tx.known = known /\ tx.shown = shown /\ tx.news = {}
      /\ tx.sent = IF Asks(filter, "SENT") THEN None ELSE {}
      /\ tx.received = IF Asks(filter, "RECEIVED") THEN None ELSE {}
      /\ tx.sentTotal = IF Asks(filter, "SENT") THEN None ELSE 0
      /\ tx.receivedTotal = IF Asks(filter, "RECEIVED") THEN None ELSE 0
  BY DEF Reading
<1>2. {} \ {} = {} /\ Cardinality({}) = 0
  BY FS_EmptySet
<1> HIDE DEF tx
<1>3. ReadSince(tx.sent, tx.sentTotal, {}, SentMatching(filter))
  BY <1>1, <1>2 DEF ReadSince, SentMatching
<1>4. ReadSince(tx.received, tx.receivedTotal, {}, ReceivedMatching(filter))
  BY <1>1, <1>2 DEF ReadSince, ReceivedMatching
<1>5. QED BY <1>1, <1>3, <1>4 DEF tx

LEMMA ReadingIsThere ==
    ASSUME NEW of, NEW filter, NEW page, NEW known, NEW shown,
           reader' = Reading(of, filter, page, known, shown)
    PROVE  RowsAreThere' /\ PagingMissesOnlyForNews'
<1>1. /\ reader'.op = "page"
      /\ reader'.sent \in {None, {}} /\ reader'.received \in {None, {}}
  BY DEF Reading
<1>2. QED BY <1>1 DEF RowsAreThere, PagingMissesOnlyForNews

LEMMA TurnKeepsPages ==
    ASSUME TypeOK, NEW of, NEW filter \in Filter, Turn(of, filter)
    PROVE  RowsAreThere' /\ PageFits' /\ PagingMissesOnlyForNews'
<1>0. PICK items \in ReceivedFound(filter) :
         reader' = Reading(of, filter, 1, SentMatching(filter) \cup items, {})
  BY Zenon DEF Turn
<1> DEFINE known == SentMatching(filter) \cup items
           tx == Reading(of, filter, 1, known, {})
<1>1. reader' = tx /\ UNCHANGED <<sent, received>>
  BY <1>0, Zenon DEF Turn
<1>2. known \in SUBSET Items
  BY FoundIsThere, MatchingInItems
<1> HIDE DEF known
<1>3. tx.filter = filter
  BY DEF Reading
<1>4. ASSUME NEW f \in Open, reader'.filter = f PROVE PageHolds(f)'
  <2>1. f = filter
    BY <1>1, <1>3, <1>4
  <2>2. /\ tx.page = 1 /\ tx.known = known /\ tx.shown = {} /\ tx.news = {}
        /\ ReadSince(tx.sent, tx.sentTotal, {}, SentMatching(filter))
        /\ ReadSince(tx.received, tx.receivedTotal, {}, ReceivedMatching(filter))
    BY <2>1, <1>4, ReadingFits
  <2> HIDE DEF tx
  <2>3. Turned(tx, Order, known)
    <3>1. \A item \in known : Rank(Order, item, known) \in Nat
      BY <1>2, OrderIsStrict, RankInSet
    <3>2. (1 - 1) * Limit = 0
      BY NumbersAssumption, SMT
    <3>3. QED BY <2>2, <3>1, <3>2 DEF Turned
  <2>4. /\ SentMatching(filter)' = SentMatching(filter)
        /\ ReceivedMatching(filter)' = ReceivedMatching(filter) /\ Order' = Order
    BY <1>1, NothingMoves
  <2>5. (SentMatching(filter) \cup ReceivedMatching(filter)) \ {} = known
    BY <1>4, <2>1, FoundIsThere DEF known, Open
  <2>6. QED BY <1>1, <2>1, <2>2, <2>3, <2>4, <2>5 DEF PageHolds
<1>5. PageFits'
  BY <1>4 DEF PageFits
<1>6. QED BY <1>1, <1>5, ReadingIsThere

\* What an answer leaves unshown lies beyond the page, among the rows read.
LEMMA PageShows ==
    ASSUME TypeOK, RowsAreThere, PageFits, Answer, reader.filter \in Open
    PROVE  LET rows == reader.sent \cup reader.received
               matched == SentMatching(reader.filter) \cup ReceivedMatching(reader.filter)
               n == reader.page * Limit IN
           /\ n \in Nat
           /\ matched \in SUBSET Items
           /\ rows \subseteq matched /\ matched \ reader.news \subseteq rows
           /\ reader.known \subseteq matched \ reader.news
           /\ Cardinality(matched \ reader.news) <= reader.sentTotal + reader.receivedTotal
           /\ \A item \in reader.known :
                 Rank(Order, item, rows) < n => item \in reader.shown \cup PageOf(reader)
<1> DEFINE S == SentMatching(reader.filter)
           R == ReceivedMatching(reader.filter)
           rows == reader.sent \cup reader.received
           matched == S \cup R
           old == matched \ reader.news
           n == reader.page * Limit
<1>1. /\ reader \in PageReader /\ reader.op = "page"
      /\ reader.sent \in SUBSET Item /\ reader.received \in SUBSET Item
      /\ reader.sentTotal \in Nat /\ reader.receivedTotal \in Nat
  BY Answers
<1>2. /\ reader.sent # None /\ reader.received # None
      /\ reader.sentTotal # None /\ reader.receivedTotal # None
  BY DEF Answer, Listed
<1>3. PageHolds(reader.filter)
  BY <1>1 DEF PageFits
<1>4. /\ S \ reader.news \subseteq reader.sent /\ reader.sent \subseteq S
      /\ R \ reader.news \subseteq reader.received /\ reader.received \subseteq R
      /\ Cardinality(S \ reader.news) <= reader.sentTotal
      /\ Cardinality(R \ reader.news) <= reader.receivedTotal
  BY <1>2, <1>3 DEF PageHolds, ReadSince
<1>5. /\ reader.known \subseteq old
      /\ \A item \in reader.known :
            Rank(Order, item, old) < (reader.page - 1) * Limit => item \in reader.shown
  BY <1>3 DEF PageHolds, Turned
<1>6. matched \in SUBSET Items
  BY MatchingInItems
<1>7. rows \subseteq matched /\ old \subseteq rows
  BY <1>4
<1>8. Cardinality(old) <= reader.sentTotal + reader.receivedTotal
  <2>1. IsFiniteSet(S \ reader.news) /\ IsFiniteSet(R \ reader.news)
    BY Counts, FS_Difference
  <2>2. old = (S \ reader.news) \cup (R \ reader.news)
    OBVIOUS
  <2> DEFINE a == S \ reader.news
             b == R \ reader.news
  <2> HIDE DEF old, S, R, a, b
  <2>3. IsFiniteSet(a) /\ IsFiniteSet(b) /\ old = a \cup b
    BY <2>1, <2>2 DEF a, b
  <2>4. Cardinality(a \cup b) = Cardinality(a) + Cardinality(b) - Cardinality(a \cap b)
    BY <2>3, FS_Union, Zenon
  <2>5. IsFiniteSet(a \cap b)
    BY <2>3, FS_Intersection
  <2>6. Cardinality(a) \in Nat /\ Cardinality(b) \in Nat /\ Cardinality(a \cap b) \in Nat
    BY <2>3, <2>5, FS_CardinalityType
  <2>7. Cardinality(a) <= reader.sentTotal /\ Cardinality(b) <= reader.receivedTotal
    BY <1>4 DEF a, b
  <2>8. QED BY <1>1, <2>3, <2>4, <2>6, <2>7
<1>9. n \in Nat /\ (reader.page - 1) * Limit \in Nat
  <2>1. reader.page \in Nat \ {0}
    BY <1>1 DEF PageReader
  <2>2. QED BY <2>1, NumbersAssumption, SMT
<1>10. PageOf(reader) = Cut(rows, reader.page)
  BY PageIsCut DEF PageIsCutOfWhole, Answer
<1> HIDE DEF S, R, rows, matched, old, n
<1>11. rows \in SUBSET Items
  BY <1>6, <1>7
<1>12. ASSUME NEW item \in reader.known, Rank(Order, item, rows) < n
       PROVE  item \in reader.shown \cup PageOf(reader)
  <2>1. IsFiniteSet(rows)
    BY <1>11, OrderIsStrict
  <2>2. Below(Order, item, old) \subseteq Below(Order, item, rows)
    BY <1>7 DEF Below
  <2>3. /\ Rank(Order, item, old) \in Nat /\ Rank(Order, item, rows) \in Nat
        /\ Rank(Order, item, old) <= Rank(Order, item, rows)
    BY <2>1, <2>2, RankGrows, RankInSet
  <2>4. CASE Rank(Order, item, rows) < (reader.page - 1) * Limit
    BY <1>5, <1>9, <2>3, <2>4
  <2>5. CASE (reader.page - 1) * Limit <= Rank(Order, item, rows)
    <3>1. item \in rows
      BY <1>5, <1>7
    <3>2. item \in Cut(rows, reader.page)
      BY <1>11, <1>12, <2>5, <3>1, CutByRank DEF n
    <3>3. QED BY <1>10, <3>2
  <2>6. QED BY <1>9, <2>3, <2>4, <2>5
<1>13. QED BY <1>5, <1>6, <1>7, <1>8, <1>9, <1>12 DEF S, R, rows, matched, old, n

\* The last page: whatever of the known payments it leaves unshown lies beyond
\* the rows that were counted, and there is no more beyond them than news.
LEMMA LastPageMissesNews ==
    ASSUME TypeOK, RowsAreThere, PageFits, Answer, reader.filter \in Open,
           ~HasNextPage(reader.page, reader.sentTotal + reader.receivedTotal)
    PROVE  Cardinality(reader.known \ (reader.shown \cup PageOf(reader)))
              <= Cardinality(reader.news)
<1> DEFINE rows == reader.sent \cup reader.received
           matched == SentMatching(reader.filter) \cup ReceivedMatching(reader.filter)
           n == reader.page * Limit
           old == matched \ reader.news
           total == reader.sentTotal + reader.receivedTotal
           missed == reader.known \ (reader.shown \cup PageOf(reader))
<1>1. /\ n \in Nat /\ matched \in SUBSET Items
      /\ rows \subseteq matched /\ old \subseteq rows
      /\ reader.known \subseteq old
      /\ Cardinality(old) <= total
      /\ \A item \in reader.known :
            Rank(Order, item, rows) < n => item \in reader.shown \cup PageOf(reader)
  BY PageShows
<1>2. total \in Nat /\ IsFiniteSet(reader.news)
  <2>1. reader \in PageReader /\ reader.sentTotal \in Nat /\ reader.receivedTotal \in Nat
    BY Answers
  <2>2. reader.news \in SUBSET Item
    BY <2>1 DEF PageReader
  <2>3. QED BY <2>1, <2>2, ItemsOfTables, FS_Subset
<1>3. ~(n < total)
  BY DEF HasNextPage
<1> HIDE DEF rows, matched, n, total
<1>4. rows \in SUBSET Items /\ IsFiniteSet(rows) /\ IsFiniteSet(matched)
  BY <1>1, OrderIsStrict
<1>5. Cardinality(rows) <= Cardinality(old) + Cardinality(reader.news)
  <2> DEFINE fresh == rows \cap reader.news
  <2>1. rows \subseteq old \cup fresh
    BY <1>1
  <2>2. IsFiniteSet(old) /\ IsFiniteSet(fresh)
    BY <1>2, <1>4, FS_Difference, FS_Intersection
  <2>3. fresh \in SUBSET reader.news
    OBVIOUS
  <2> HIDE DEF old, fresh
  <2>4. /\ IsFiniteSet(old \cup fresh)
        /\ Cardinality(old \cup fresh) = Cardinality(old) + Cardinality(fresh)
                                            - Cardinality(old \cap fresh)
    BY <2>2, FS_Union, Zenon
  <2>5. IsFiniteSet(old \cap fresh)
    BY <2>2, FS_Intersection
  <2>6. /\ Cardinality(old) \in Nat /\ Cardinality(fresh) \in Nat
        /\ Cardinality(old \cap fresh) \in Nat /\ Cardinality(reader.news) \in Nat
        /\ Cardinality(rows) \in Nat
    BY <1>2, <1>4, <2>2, <2>5, FS_CardinalityType
  <2>7. Cardinality(rows) <= Cardinality(old \cup fresh)
    BY <2>1, <2>4, FS_Subset
  <2>8. Cardinality(fresh) <= Cardinality(reader.news)
    BY <1>2, <2>3, FS_Subset
  <2>9. QED BY <2>4, <2>6, <2>7, <2>8
<1>6. missed \in SUBSET rows
  BY <1>1
<1>7. \A item \in missed : n <= Rank(Order, item, rows)
  <2>1. ASSUME NEW item \in missed PROVE n <= Rank(Order, item, rows)
    <3>1. ~(Rank(Order, item, rows) < n)
      BY <1>1
    <3>2. Rank(Order, item, rows) \in Nat
      BY <1>4, RankInSet
    <3>3. QED BY <1>1, <3>1, <3>2
  <2>2. QED BY <2>1
<1>8. /\ Cardinality(missed) \in Nat /\ Cardinality(rows) \in Nat
      /\ Cardinality(reader.news) \in Nat /\ Cardinality(old) \in Nat
  BY <1>1, <1>2, <1>4, <1>6, FS_Subset, FS_Difference, FS_CardinalityType
<1>9. CASE missed = {}
  BY <1>8, <1>9, FS_EmptySet
<1>10. CASE missed # {}
  <2> HIDE DEF missed, old
  <2>1. Strict(Order, rows)
    BY <1>4, OrderIsStrict
  <2>2. Cardinality(missed) + n <= Cardinality(rows)
    BY <1>1, <1>4, <1>6, <1>7, <1>10, <2>1, BeyondIsTheRest
  <2>3. QED BY <1>1, <1>2, <1>3, <1>5, <1>8, <2>2 DEF missed
<1>11. QED BY <1>9, <1>10

LEMMA AnswerKeepsPages ==
    ASSUME TypeOK, RowsAreThere, PageFits, Answer
    PROVE  RowsAreThere' /\ PageFits' /\ PagingMissesOnlyForNews'
<1> DEFINE shown == reader.shown \cup PageOf(reader)
           more == HasNextPage(reader.page, reader.sentTotal + reader.receivedTotal)
           tx == Reading(reader.of, reader.filter, reader.page + 1, reader.known, shown)
<1>1. /\ reader \in PageReader /\ reader.op = "page"
      /\ more => reader' = tx
      /\ ~more => reader' = [reader EXCEPT !.op = "lastPage", !.shown = shown]
      /\ UNCHANGED <<sent, received, now>>
  BY Answers
<1> HIDE DEF shown, more
<1>2. CASE more
  <2>1. RowsAreThere' /\ PagingMissesOnlyForNews'
    BY <1>1, <1>2, ReadingIsThere
  <2>2. tx.filter = reader.filter
    BY DEF Reading
  <2>3. ASSUME NEW filter \in Open, reader'.filter = filter PROVE PageHolds(filter)'
    <3> DEFINE matched == SentMatching(filter) \cup ReceivedMatching(filter)
               rows == reader.sent \cup reader.received
    <3>1. filter = reader.filter
      BY <1>1, <1>2, <2>2, <2>3
    <3>2. /\ tx.page = reader.page + 1 /\ tx.known = reader.known /\ tx.shown = shown
          /\ tx.news = {}
          /\ ReadSince(tx.sent, tx.sentTotal, {}, SentMatching(filter))
          /\ ReadSince(tx.received, tx.receivedTotal, {}, ReceivedMatching(filter))
      BY <2>3, <3>1, ReadingFits
    <3> HIDE DEF tx
    <3>3. /\ matched \in SUBSET Items /\ rows \subseteq matched
          /\ reader.known \subseteq matched
          /\ reader.page * Limit \in Nat
          /\ \A item \in reader.known :
                Rank(Order, item, rows) < reader.page * Limit => item \in shown
      <4>1. reader.filter \in Open
        BY <2>3, <3>1
      <4>2. QED BY <3>1, <4>1, PageShows DEF shown
    <3>4. (tx.page - 1) * Limit = reader.page * Limit
      <4>1. reader.page \in Nat
        BY <1>1 DEF PageReader
      <4>2. (reader.page + 1) - 1 = reader.page
        BY <4>1
      <4>3. QED BY <3>2, <4>2
    <3> HIDE DEF matched, rows
    <3>5. ASSUME NEW item \in reader.known, Rank(Order, item, matched) < reader.page * Limit
          PROVE  item \in shown
      <4>1. IsFiniteSet(matched)
        BY <3>3, OrderIsStrict
      <4>2. Below(Order, item, rows) \subseteq Below(Order, item, matched)
        BY <3>3 DEF Below
      <4>3. Rank(Order, item, matched) \in Nat /\ Rank(Order, item, rows) \in Nat
            /\ Rank(Order, item, rows) <= Rank(Order, item, matched)
        BY <4>1, <4>2, RankGrows, RankInSet
      <4>4. QED BY <3>3, <3>5, <4>3
    <3>6. Turned(tx, Order, matched)
      BY <3>2, <3>3, <3>4, <3>5 DEF Turned
    <3>7. /\ SentMatching(filter)' = SentMatching(filter)
          /\ ReceivedMatching(filter)' = ReceivedMatching(filter) /\ Order' = Order
      BY <1>1, NothingMoves
    <3>8. (SentMatching(filter) \cup ReceivedMatching(filter)) \ {} = matched
      BY DEF matched
    <3>9. QED BY <1>1, <1>2, <3>2, <3>6, <3>7, <3>8 DEF PageHolds
  <2>4. QED BY <2>1, <2>3 DEF PageFits
<1>3. CASE ~more
  <2>1. /\ reader'.op = "lastPage" /\ reader'.filter = reader.filter
        /\ reader'.known = reader.known /\ reader'.shown = shown /\ reader'.news = reader.news
    BY <1>1, <1>3 DEF PageReader
  <2>2. reader.filter \in Filter
    BY <1>1 DEF PageReader
  <2>3. ASSUME reader.filter.status # "PENDING", ~reader.filter.classified
        PROVE  Cardinality(reader.known \ shown) <= Cardinality(reader.news)
    <3>1. reader.filter \in Open
      BY <2>2, <2>3 DEF Open
    <3>2. QED BY <1>3, <3>1, LastPageMissesNews DEF shown, more
  <2>4. QED BY <2>1, <2>3 DEF RowsAreThere, PageFits, PagingMissesOnlyForNews
<1>4. QED BY <1>2, <1>3

-----------------------------------------------------------------------------
(* The figures of a report.                                                *)

Countable == SettledItems \cup ReceivedItems

\* What a figure tells payments by stays as it is once they are countable.
Untouched(item) ==
    \/ item \in SettledItems /\ item \in SettledItems' /\ sent'[item[2]] = sent[item[2]]
    \/ item \in ReceivedItems /\ item \in ReceivedItems' /\ received'[item[2]] = received[item[2]]

LEMMA CountedIsSettled == \A part, period : Counted(part, period) \subseteq Countable
<1>1. \A item \in SentItems : StatusOf(item) = "COMPLETED" => item \in SettledItems
  BY DEF SentItems, SettledItems, StatusOf
<1>2. \A span : Completed(span) \subseteq SettledItems
  BY <1>1 DEF Completed
<1>3. \A evidence, span : ConfirmedBy(evidence, span) \subseteq SettledItems
  BY <1>1 DEF ConfirmedBy
<1>4. \A span : ReceivedIn(span) \subseteq ReceivedItems
  BY DEF ReceivedIn
<1>5. QED BY <1>2, <1>3, <1>4 DEF Counted, Countable

LEMMA CountedStaysSettled == (\A part, period : Counted(part, period) \subseteq Countable)'
  BY CountedIsSettled, PTL

LEMMA CountedSame ==
    ASSUME NEW part, NEW period, NEW item, Untouched(item)
    PROVE  item \in Counted(part, period)' <=> item \in Counted(part, period)
<1>1. CASE /\ item \in SettledItems /\ item \in SettledItems'
           /\ sent'[item[2]] = sent[item[2]]
  <2>1. /\ item[1] = "SENT" /\ item \in SentItems /\ item \in SentItems'
        /\ StatusOf(item) = "COMPLETED" /\ StatusOf(item)' = "COMPLETED"
    BY <1>1 DEF SettledItems, SentItems, StatusOf
  <2>2. \A span : item \in Completed(span)' <=> item \in Completed(span)
    BY <1>1, <2>1 DEF Completed
  <2>3. \A evidence, span : item \in ConfirmedBy(evidence, span)'
                              <=> item \in ConfirmedBy(evidence, span)
    BY <1>1, <2>1 DEF ConfirmedBy
  <2>4. item \notin ReceivedIn(period) /\ item \notin ReceivedIn(period)'
    BY <2>1 DEF ReceivedIn, ReceivedItems
  <2>5. QED BY <2>2, <2>3, <2>4 DEF Counted
<1>2. CASE /\ item \in ReceivedItems /\ item \in ReceivedItems'
           /\ received'[item[2]] = received[item[2]]
  <2>1. /\ item \notin SentItems /\ item \notin SentItems'
    BY <1>2 DEF SentItems, ReceivedItems
  <2>2. \A span : item \notin Completed(span) /\ item \notin Completed(span)'
    BY <2>1 DEF Completed
  <2>3. \A evidence, span : item \notin ConfirmedBy(evidence, span)
                            /\ item \notin ConfirmedBy(evidence, span)'
    BY <2>1 DEF ConfirmedBy
  <2>4. item \in ReceivedIn(period)' <=> item \in ReceivedIn(period)
    BY <1>2 DEF ReceivedIn
  <2>5. QED BY <2>2, <2>3, <2>4 DEF Counted
<1>3. QED BY <1>1, <1>2 DEF Untouched

LEMMA ReportEnters ==
    ASSUME TypeOK, NEW period, reader.op = "report",
           NEW item \in Item, NEW statuses, reader' = News(item, statuses),
           Countable' \subseteq
              Countable \cup (IF "COMPLETED" \in statuses THEN {item} ELSE {}),
           item \notin Countable, \A other \in Countable : Untouched(other)
    PROVE  ReportKept(period)
<1> DEFINE news == reader.news \cup (IF "COMPLETED" \in statuses THEN {item} ELSE {})
<1>1. news \in SUBSET Item /\ reader' = [reader EXCEPT !.news = news]
  BY NewsIs
<1>2. ASSUME NEW part \in Part
      PROVE  Grows(Counted(part, period), reader.news, Counted(part, period)', news)
  <2>1. Counted(part, period) \subseteq Countable
        /\ Counted(part, period)' \subseteq Countable'
    BY CountedIsSettled, CountedStaysSettled
  <2>2. \A other \in Countable :
           other \in Counted(part, period)' <=> other \in Counted(part, period)
    BY CountedSame
  <2> DEFINE before == Counted(part, period)
  <2> HIDE DEF before
  <2>3. Grows(before, reader.news, Counted(part, period)', news)
    BY <2>1, <2>2 DEF Grows, before
  <2>4. QED BY <2>3 DEF before
<1> HIDE DEF news
<1>3. QED BY <1>1, <1>2 DEF ReportKept

LEMMA ReportUnmoved ==
    ASSUME TypeOK, NEW period, reader.op = "report", reader' = reader,
           Countable' \subseteq Countable, \A other \in Countable : Untouched(other)
    PROVE  ReportKept(period)
<1>1. reader \in ReportReader
  BY ReaderKinds
<1>2. reader.news \in SUBSET Item /\ reader' = [reader EXCEPT !.news = reader.news]
  BY <1>1 DEF ReportReader
<1>3. ASSUME NEW part \in Part PROVE Counted(part, period)' = Counted(part, period)
  <2>1. Counted(part, period) \subseteq Countable
        /\ Counted(part, period)' \subseteq Countable'
    BY CountedIsSettled, CountedStaysSettled
  <2>2. \A other \in Countable :
           other \in Counted(part, period)' <=> other \in Counted(part, period)
    BY CountedSame
  <2>3. QED BY <2>1, <2>2
<1>4. QED BY <1>2, <1>3 DEF ReportKept, Grows

\* A payment that is written leaves all countable ones untouched.
LEMMA SentUntouched ==
    ASSUME TypeOK, NEW s \in Sent, NEW row, sent' = [sent EXCEPT ![s] = row],
           received' = received, <<"SENT", s>> \notin SettledItems,
           SettledItems \subseteq SettledItems', ReceivedItems' = ReceivedItems
    PROVE  \A other \in Countable : Untouched(other)
<1>1. ASSUME NEW other \in SettledItems PROVE Untouched(other)
  <2>1. PICK r \in Sent : other = <<"SENT", r>>
    BY DEF SettledItems, SentItems
  <2>2. r # s
    BY <2>1
  <2>3. sent'[r] = sent[r]
    BY <2>2 DEF TypeOK
  <2>4. QED BY <2>1, <2>3 DEF Untouched
<1>2. ASSUME NEW other \in ReceivedItems PROVE Untouched(other)
  BY DEF Untouched
<1>3. QED BY <1>1, <1>2 DEF Countable

LEMMA ReportIsKept ==
    ASSUME TypeOK, Write, NEW period, reader.op = "report"
    PROVE  ReportKept(period)
<1>1. ASSUME NEW s \in Sent, Create(s) PROVE ReportKept(period)
  <2> DEFINE item == <<"SENT", s>>
  <2>1. /\ SettledItems' = SettledItems /\ ReceivedItems' = ReceivedItems
        /\ item \notin SettledItems \cup ReceivedItems
        /\ reader' = News(item, {None, "PENDING"})
    BY <1>1, CreateWrites
  <2>2. sent' = [sent EXCEPT ![s] = Created(sent[s])] /\ received' = received
    BY <1>1, SentActions DEF Create
  <2>3. \A other \in Countable : Untouched(other)
    BY <2>1, <2>2, SentUntouched
  <2>4. item \in Item
    BY DEF Item
  <2> HIDE DEF item
  <2>5. Countable' \subseteq
           Countable \cup (IF "COMPLETED" \in {None, "PENDING"} THEN {item} ELSE {})
        /\ item \notin Countable
    BY <2>1 DEF Countable
  <2>6. QED BY <2>1, <2>3, <2>4, <2>5, ReportEnters
<1>2. ASSUME NEW s \in Sent, NEW at \in Moment, NEW evidence \in {"PROVIDER_SMS", "MOBILE_APP"},
             Settle(s, at, evidence)
      PROVE  ReportKept(period)
  <2> DEFINE item == <<"SENT", s>>
  <2>1. /\ SettledItems' = SettledItems \cup {item} /\ ReceivedItems' = ReceivedItems
        /\ item \notin SettledItems \cup ReceivedItems
        /\ reader' = News(item, {"COMPLETED"})
    BY <1>2, SettleWrites
  <2>2. sent' = [sent EXCEPT ![s] = Settled(sent[s], at, evidence)] /\ received' = received
    <3>1. sent' = [sent EXCEPT ![s] = Settled(sent[s], at, evidence)]
      BY <1>2, SentActions
    <3>2. received' = received
      BY <1>2 DEF Settle
    <3>3. QED BY <3>1, <3>2
  <2>3. \A other \in Countable : Untouched(other)
    BY <2>1, <2>2, SentUntouched
  <2>4. item \in Item
    BY DEF Item
  <2> HIDE DEF item
  <2>5. Countable' \subseteq
           Countable \cup (IF "COMPLETED" \in {"COMPLETED"} THEN {item} ELSE {})
        /\ item \notin Countable
    BY <2>1 DEF Countable
  <2>6. QED BY <2>1, <2>3, <2>4, <2>5, ReportEnters
<1>3. ASSUME NEW s \in Sent, Fail(s) PROVE ReportKept(period)
  <2>1. /\ SettledItems' = SettledItems /\ ReceivedItems' = ReceivedItems
        /\ reader' = reader
    BY <1>3, FailWrites
  <2>2. /\ sent' = [sent EXCEPT ![s] = Failed(sent[s])] /\ received' = received
        /\ sent[s].status = "PENDING"
    BY <1>3, SentActions DEF Fail
  <2>3. <<"SENT", s>> \notin SettledItems
    BY <2>2 DEF SettledItems
  <2>4. \A other \in Countable : Untouched(other)
    BY <2>1, <2>2, <2>3, SentUntouched
  <2>5. Countable' \subseteq Countable
    BY <2>1 DEF Countable
  <2>6. QED BY <2>1, <2>4, <2>5, ReportUnmoved
<1>4. ASSUME NEW q \in Received, NEW at \in Moment, Receive(q, at) PROVE ReportKept(period)
  <2> DEFINE item == <<"RECEIVED", q>>
  <2>1. /\ SettledItems' = SettledItems /\ ReceivedItems' = ReceivedItems \cup {item}
        /\ item \notin SentItems \cup ReceivedItems
        /\ reader' = News(item, {None, "COMPLETED"})
    BY <1>4, ReceiveWrites
  <2>2. /\ sent' = sent /\ received' = [received EXCEPT ![q] = at]
    BY <1>4 DEF Receive
  <2>3. ASSUME NEW other \in ReceivedItems PROVE Untouched(other)
    <3>1. PICK r \in Received : other = <<"RECEIVED", r>>
      BY DEF ReceivedItems
    <3>2. r # q
      BY <2>1, <3>1
    <3>3. received'[r] = received[r]
      BY <2>2, <3>2 DEF TypeOK
    <3>4. QED BY <2>1, <3>1, <3>3 DEF Untouched
  <2>4. ASSUME NEW other \in SettledItems PROVE Untouched(other)
    BY <2>1, <2>2 DEF Untouched
  <2>5. \A other \in Countable : Untouched(other)
    BY <2>3, <2>4 DEF Countable
  <2>6. item \in Item
    BY DEF Item
  <2>7. SettledItems \subseteq SentItems
    BY DEF SettledItems
  <2> HIDE DEF item
  <2>8. Countable' \subseteq
           Countable \cup (IF "COMPLETED" \in {None, "COMPLETED"} THEN {item} ELSE {})
        /\ item \notin Countable
    BY <2>1, <2>7 DEF Countable
  <2>9. QED BY <2>1, <2>5, <2>6, <2>8, ReportEnters
<1>5. ASSUME UNCHANGED <<sent, received, reader>> PROVE ReportKept(period)
  <2>1. SettledItems' = SettledItems /\ ReceivedItems' = ReceivedItems
    BY <1>5, NothingWritten
  <2>2. \A other \in Countable : Untouched(other)
    BY <1>5, <2>1 DEF Untouched, Countable
  <2>3. Countable' \subseteq Countable
    BY <2>1 DEF Countable
  <2>4. QED BY <1>5, <2>2, <2>3, ReportUnmoved
<1>6. QED BY <1>1, <1>2, <1>3, <1>4, <1>5 DEF Write

LEMMA WriteKeepsReports ==
    ASSUME TypeOK, EvidenceKept, ReportFits, Write
    PROVE  EvidenceKept' /\ ReportFits'
<1>1. EvidenceKept'
  <2> SUFFICES ASSUME NEW r \in Sent, sent'[r].status = "COMPLETED"
               PROVE  sent'[r].evidence \in {"PROVIDER_SMS", "MOBILE_APP"}
    BY DEF EvidenceKept
  <2>1. CASE sent'[r] = sent[r]
    BY <2>1 DEF EvidenceKept
  <2>2. ASSUME NEW s \in Sent, NEW row, row.status # "COMPLETED",
               sent' = [sent EXCEPT ![s] = row]
        PROVE  sent'[r] = sent[r]
    BY <2>2 DEF TypeOK
  <2>3. ASSUME NEW s \in Sent, Create(s) PROVE sent'[r] = sent[r]
    <3>1. sent[s] = NoPayment /\ sent' = [sent EXCEPT ![s] = Created(sent[s])]
      BY <2>3, SentActions
    <3>2. Created(sent[s]).status = "PENDING"
      BY <3>1 DEF Created, NoPayment
    <3>3. QED BY <2>2, <3>1, <3>2
  <2>4. ASSUME NEW s \in Sent, Fail(s) PROVE sent'[r] = sent[r]
    <3>1. sent' = [sent EXCEPT ![s] = Failed(sent[s])]
      BY <2>4, SentActions
    <3>2. Failed(sent[s]).status = "FAILED"
      BY DEF Failed, TypeOK, SentRow
    <3>3. QED BY <2>2, <3>1, <3>2
  <2>5. ASSUME NEW s \in Sent, NEW at \in Moment,
               NEW evidence \in {"PROVIDER_SMS", "MOBILE_APP"}, Settle(s, at, evidence)
        PROVE  sent'[r].evidence \in {"PROVIDER_SMS", "MOBILE_APP"}
    <3>1. sent' = [sent EXCEPT ![s] = Settled(sent[s], at, evidence)]
      BY <2>5, SentActions
    <3>2. Settled(sent[s], at, evidence).evidence = evidence
      BY RowsWritten
    <3>3. CASE r = s
      BY <3>1, <3>2, <3>3 DEF TypeOK
    <3>4. CASE r # s
      BY <2>1, <3>1, <3>4 DEF TypeOK
    <3>5. QED BY <3>3, <3>4
  <2>6. ASSUME NEW q \in Received, NEW at \in Moment, Receive(q, at) PROVE sent'[r] = sent[r]
    BY <2>6 DEF Receive
  <2>7. QED BY <2>1, <2>3, <2>4, <2>5, <2>6 DEF Write
<1>2. ASSUME NEW period \in Period, reader'.op = "report", reader'.period = period,
             NEW part \in Part
      PROVE  PartFits(reader'.parts[part], reader'.news, Counted(part, period)')
  <2>1. reader.op = "report" /\ reader.period = period
    BY <1>2, WritePage
  <2>2. reader \in ReportReader
    BY <2>1, ReaderKinds
  <2>3. PICK news \in SUBSET Item :
          /\ reader' = [reader EXCEPT !.news = news]
          /\ \A other \in Part : Grows(Counted(other, period), reader.news,
                                       Counted(other, period)', news)
    BY <2>1, ReportIsKept DEF ReportKept
  <2>4. reader'.parts = reader.parts /\ reader'.news = news
    BY <2>2, <2>3 DEF ReportReader
  <2>5. PartFits(reader.parts[part], reader.news, Counted(part, period))
    BY <2>1 DEF ReportFits
  <2>6. Grows(Counted(part, period), reader.news, Counted(part, period)', news)
    BY <2>3
  <2>7. PartFits(reader.parts[part], news, Counted(part, period)')
    BY <2>5, <2>6 DEF PartFits, Grows
  <2>8. QED BY <2>4, <2>7
<1>3. QED BY <1>1, <1>2 DEF ReportFits

LEMMA ReportsKept ==
    ASSUME TypeOK, EvidenceKept, ReportFits, UNCHANGED <<sent, received>>,
           \/ reader'.op # "report"
           \/ \E period \in Period : ReportBegin(period)
           \/ \E part \in Part : Query(part)
    PROVE  EvidenceKept' /\ ReportFits'
<1>1. EvidenceKept'
  BY DEF EvidenceKept
<1>2. CASE reader'.op # "report"
  BY <1>1, <1>2 DEF ReportFits
<1>3. ASSUME NEW period \in Period, ReportBegin(period) PROVE ReportFits'
  <2>1. \A part \in Part : reader'.parts[part] = None
    BY <1>3 DEF ReportBegin
  <2>2. QED BY <2>1 DEF ReportFits, PartFits
<1>4. ASSUME NEW part \in Part, Query(part) PROVE ReportFits'
  <2>1. reader \in ReportReader /\ reader.op = "report"
    BY <1>4, TypeReport DEF ReportReader
  <2>2. reader' = [reader EXCEPT !.parts[part] = Counted(part, reader.period)]
    BY <1>4 DEF Query
  <2>3. /\ reader'.period = reader.period /\ reader'.news = reader.news
        /\ \A other \in Part : reader'.parts[other] =
              IF other = part THEN Counted(part, reader.period) ELSE reader.parts[other]
    BY <2>1, <2>2 DEF ReportReader
  <2>4. ASSUME NEW period \in Period, reader'.period = period, NEW other \in Part
        PROVE  PartFits(reader'.parts[other], reader'.news, Counted(other, period)')
    <3>1. period = reader.period /\ Counted(other, period)' = Counted(other, period)
      BY <2>3, <2>4, NothingMoves
    <3>2. PartFits(reader.parts[other], reader.news, Counted(other, period))
      BY <2>1, <3>1 DEF ReportFits
    <3>3. PartFits(Counted(other, period), reader.news, Counted(other, period))
      BY DEF PartFits
    <3>4. QED BY <2>3, <3>1, <3>2, <3>3
  <2>5. QED BY <2>4 DEF ReportFits
<1>5. QED BY <1>1, <1>2, <1>3, <1>4

LEMMA FiguresFit ==
    ASSUME TypeOK, ReportFits, Answered
    PROVE  /\ reader \in ReportReader /\ reader.period \in Period
           /\ \A part \in Part :
                 /\ reader.parts[part] \subseteq Counted(part, reader.period)
                 /\ Counted(part, reader.period) \ reader.news \subseteq reader.parts[part]
<1>1. reader \in ReportReader /\ reader.op = "report"
  BY ReaderKinds DEF Answered
<1>2. reader.period \in Period
  BY <1>1 DEF ReportReader
<1>3. QED BY <1>1, <1>2 DEF ReportFits, PartFits, Answered

LEMMA FiguresAddUp ==
    ASSUME TypeOK, ReportFits PROVE ReportAddsUp
<1> SUFFICES ASSUME Answered, NEW pair \in SameRows, NEW part \in pair, NEW other \in pair
             PROVE  reader.parts[part] \ reader.parts[other] \subseteq reader.news
  BY DEF ReportAddsUp
<1>1. part \in Part /\ other \in Part
  BY DEF SameRows, Part
<1>2. Counted(part, reader.period) = Counted(other, reader.period)
  BY DEF SameRows, Counted
<1>3. QED BY <1>1, <1>2, FiguresFit

LEMMA ConfirmedAddUp ==
    ASSUME TypeOK, EvidenceKept, ReportFits PROVE ConfirmationsAddUp
<1> SUFFICES ASSUME Answered
             PROVE  LET confirmed == reader.parts["sms"] \cup reader.parts["manual"] IN
                    /\ reader.parts["sms"] \cap reader.parts["manual"] = {}
                    /\ confirmed \ reader.parts["totals"] \subseteq reader.news
                    /\ Unclassified <= Cardinality(reader.news)
  BY DEF ConfirmationsAddUp
<1> DEFINE sms == reader.parts["sms"]
           manual == reader.parts["manual"]
           totals == reader.parts["totals"]
           news == reader.news
           done == Completed(reader.period)
           bySms == ConfirmedBy("PROVIDER_SMS", reader.period)
           byHand == ConfirmedBy("MOBILE_APP", reader.period)
<1>1. /\ Counted("totals", reader.period) = done
      /\ Counted("sms", reader.period) = bySms
      /\ Counted("manual", reader.period) = byHand
  BY DEF Counted
<1>2. {"sms", "manual", "totals"} \subseteq Part
  BY DEF Part
<1>3. /\ sms \subseteq bySms /\ bySms \ news \subseteq sms
      /\ manual \subseteq byHand /\ byHand \ news \subseteq manual
      /\ totals \subseteq done /\ done \ news \subseteq totals
  BY <1>1, <1>2, FiguresFit
<1>4. bySms \cap byHand = {} /\ bySms \subseteq done /\ byHand \subseteq done
  BY DEF ConfirmedBy, Completed
<1>5. done \subseteq bySms \cup byHand
  <2>1. ASSUME NEW item \in done PROVE item \in bySms \cup byHand
    <3>1. PICK s \in Sent : item = <<"SENT", s>>
      BY DEF Completed, SentItems
    <3>2. sent[s].status = "COMPLETED"
      BY <3>1 DEF Completed, StatusOf
    <3>3. sent[s].evidence \in {"PROVIDER_SMS", "MOBILE_APP"}
      BY <3>2 DEF EvidenceKept
    <3>4. QED BY <3>1, <3>3 DEF Completed, ConfirmedBy
  <2>2. QED BY <2>1
<1>6. /\ IsFiniteSet(sms) /\ IsFiniteSet(manual) /\ IsFiniteSet(totals) /\ IsFiniteSet(news)
  <2>1. bySms \in SUBSET Item /\ byHand \in SUBSET Item /\ done \in SUBSET Item
    BY ItemsOfTables DEF ConfirmedBy, Completed
  <2>2. news \in SUBSET Item
    BY FiguresFit DEF ReportReader
  <2>3. sms \in SUBSET Item /\ manual \in SUBSET Item /\ totals \in SUBSET Item
    BY <1>3, <2>1
  <2>4. QED BY <2>2, <2>3, ItemsOfTables, FS_Subset
<1>7. Unclassified = IF Cardinality(totals) - Cardinality(sms) - Cardinality(manual) > 0
                     THEN Cardinality(totals) - Cardinality(sms) - Cardinality(manual) ELSE 0
  BY DEF Unclassified
<1> HIDE DEF sms, manual, totals, news, done, bySms, byHand
<1>8. sms \cap manual = {} /\ (sms \cup manual) \ totals \subseteq news
  BY <1>3, <1>4
<1>9. Unclassified <= Cardinality(news)
  <2> DEFINE confirmed == sms \cup manual
  <2>1. totals \subseteq confirmed \cup news
    BY <1>3, <1>5
  <2>2. IsFiniteSet(confirmed)
        /\ Cardinality(confirmed) = Cardinality(sms) + Cardinality(manual)
                                       - Cardinality(sms \cap manual)
    BY <1>6, FS_Union, Zenon
  <2>3. Cardinality(sms \cap manual) = 0
    BY <1>8, FS_EmptySet
  <2> HIDE DEF confirmed
  <2>4. IsFiniteSet(confirmed \cup news)
        /\ Cardinality(confirmed \cup news) = Cardinality(confirmed) + Cardinality(news)
                                                 - Cardinality(confirmed \cap news)
    BY <1>6, <2>2, FS_Union, Zenon
  <2>5. IsFiniteSet(confirmed \cap news)
    BY <1>6, FS_Intersection
  <2>6. /\ Cardinality(sms) \in Nat /\ Cardinality(manual) \in Nat
        /\ Cardinality(totals) \in Nat /\ Cardinality(news) \in Nat
        /\ Cardinality(confirmed) \in Nat /\ Cardinality(confirmed \cap news) \in Nat
    BY <1>6, <2>2, <2>5, FS_CardinalityType
  <2>7. Cardinality(totals) <= Cardinality(confirmed \cup news)
    BY <2>1, <2>4, FS_Subset
  <2>8. QED BY <1>7, <2>2, <2>3, <2>4, <2>6, <2>7
<1>10. QED BY <1>8, <1>9 DEF sms, manual, totals, news

LEMMA PeriodsDoMeet ==
    ASSUME TypeOK, ReportFits PROVE PeriodsMeet
<1> SUFFICES ASSUME Answered
             PROVE  LET both == [from |-> Previous(reader.period).from, to |-> reader.period.to] IN
                    /\ reader.parts["previous"] \cap reader.parts["totals"] = {}
                    /\ Completed(both) \ (reader.parts["previous"] \cup reader.parts["totals"])
                          \subseteq reader.news
  BY DEF PeriodsMeet
<1> DEFINE from == reader.period.from
           to == reader.period.to
           period == [from |-> from, to |-> to]
           both == [from |-> Previous(period).from, to |-> to]
<1>1. reader.period = period /\ from \in Int /\ to \in Int /\ from <= to
  BY FiguresFit, NumbersAssumption
<1>2. \A moment \in Int :
        /\ ~(In(moment, period) /\ In(moment, Previous(period)))
        /\ Previous(period).from <= moment /\ moment <= to
             => In(moment, period) \/ In(moment, Previous(period))
  BY <1>1, PreviousMeets
<1>3. /\ both.from = Previous(period).from /\ both.to = to
  OBVIOUS
<1> HIDE DEF from, to, period, both
<1>4. \A moment \in Int :
        /\ ~(In(moment, period) /\ In(moment, Previous(period)))
        /\ In(moment, both) => In(moment, period) \/ In(moment, Previous(period))
  BY <1>2, <1>3 DEF In
<1>5. \A item \in SentItems : StatusOf(item) = "COMPLETED" => sent[item[2]].completedAt \in Int
  <2>1. ASSUME NEW s \in Sent, sent[s].status = "COMPLETED" PROVE sent[s].completedAt \in Int
    <3>1. Moment \subseteq Int
      BY NumbersAssumption, SMT DEF Moment
    <3>2. QED BY <2>1, <3>1 DEF TypeOK, SentRow
  <2>2. QED BY <2>1 DEF SentItems, StatusOf
<1>6. /\ Completed(period) \cap Completed(Previous(period)) = {}
      /\ Completed(both) \subseteq Completed(period) \cup Completed(Previous(period))
  BY <1>4, <1>5 DEF Completed
<1>7. /\ Counted("totals", period) = Completed(period)
      /\ Counted("previous", period) = Completed(Previous(period))
      /\ {"totals", "previous"} \subseteq Part
  BY DEF Counted, Part
<1>8. /\ reader.parts["totals"] \subseteq Completed(period)
      /\ reader.parts["previous"] \subseteq Completed(Previous(period))
      /\ Completed(period) \ reader.news \subseteq reader.parts["totals"]
      /\ Completed(Previous(period)) \ reader.news \subseteq reader.parts["previous"]
  BY <1>1, <1>7, FiguresFit
<1>9. both = [from |-> Previous(reader.period).from, to |-> reader.period.to]
  BY <1>1 DEF both, to
<1>10. QED BY <1>6, <1>8, <1>9

-----------------------------------------------------------------------------
(* The theorems.                                                           *)

LEMMA IInvInit == Init => IInv
<1> SUFFICES ASSUME Init PROVE IInv
  OBVIOUS
<1>1. TypeOK
  BY TypeInit
<1>2. EvidenceKept
  BY DEF Init, EvidenceKept, NoPayment
<1>3. reader.op = "idle"
  BY DEF Init, Idle
<1>4. QED BY <1>1, <1>2, <1>3
          DEF IInv, RowsAreThere, PageFits, ReportFits, PagingMissesOnlyForNews

\* A reader with no page and no report open fits.
LEMMA NoReaderFits ==
    ASSUME reader'.op \notin {"page", "lastPage"}
    PROVE  RowsAreThere' /\ PageFits' /\ PagingMissesOnlyForNews'
  BY DEF RowsAreThere, PageFits, PagingMissesOnlyForNews

LEMMA IInvNext == IInv /\ [Next]_vars => IInv'
<1> SUFFICES ASSUME IInv, [Next]_vars PROVE IInv'
  OBVIOUS
<1>1. TypeOK /\ EvidenceKept /\ RowsAreThere /\ PageFits /\ ReportFits /\ PagingMissesOnlyForNews
  BY DEF IInv
<1>2. TypeOK'
  BY <1>1, TypeNext
<1>3. ASSUME Write PROVE IInv'
  <2>1. RowsAreThere' /\ PageFits' /\ PagingMissesOnlyForNews'
    BY <1>1, <1>3, WriteKeepsPages
  <2>2. EvidenceKept' /\ ReportFits'
    BY <1>1, <1>3, WriteKeepsReports
  <2>3. QED BY <1>2, <2>1, <2>2 DEF IInv
<1>4. ASSUME UNCHANGED <<sent, received>>,
             RowsAreThere' /\ PageFits' /\ PagingMissesOnlyForNews',
             \/ reader'.op # "report"
             \/ \E period \in Period : ReportBegin(period)
             \/ \E part \in Part : Query(part)
      PROVE  IInv'
  BY <1>1, <1>2, <1>4, ReportsKept DEF IInv
<1>5. ASSUME NEW of, NEW filter \in Filter, Turn(of, filter) PROVE IInv'
  <2>1. UNCHANGED <<sent, received>> /\ reader'.op # "report"
    BY <1>5 DEF Turn, Reading
  <2>2. RowsAreThere' /\ PageFits' /\ PagingMissesOnlyForNews'
    BY <1>1, <1>5, TurnKeepsPages
  <2>3. QED BY <1>4, <2>1, <2>2
<1>6. ASSUME ListSent \/ ListReceived \/ CountSent \/ CountReceived PROVE IInv'
  <2>1. UNCHANGED <<sent, received>>
    BY <1>6 DEF ListSent, ListReceived, CountSent, CountReceived, PageQuery
  <2>2. reader'.op # "report"
    BY <1>1, <1>6, TypeQueries DEF PageReader
  <2>3. RowsAreThere' /\ PageFits' /\ PagingMissesOnlyForNews'
    BY <1>1, <1>6, QueriesKeepPages
  <2>4. QED BY <1>4, <2>1, <2>2, <2>3
<1>7. ASSUME Answer PROVE IInv'
  <2>1. UNCHANGED <<sent, received>>
    BY <1>7 DEF Answer
  <2>2. reader'.op # "report"
    BY <1>1, <1>7, Answers
  <2>3. RowsAreThere' /\ PageFits' /\ PagingMissesOnlyForNews'
    BY <1>1, <1>7, AnswerKeepsPages
  <2>4. QED BY <1>4, <2>1, <2>2, <2>3
<1>8. ASSUME NEW period \in Period, ReportBegin(period) PROVE IInv'
  <2>1. UNCHANGED <<sent, received>> /\ reader'.op = "report"
    BY <1>8 DEF ReportBegin
  <2>2. QED BY <1>4, <1>8, <2>1, NoReaderFits
<1>9. ASSUME NEW part \in Part, Query(part) PROVE IInv'
  <2>1. UNCHANGED <<sent, received>>
    BY <1>9 DEF Query
  <2>2. reader'.op = "report"
    BY <1>1, <1>9, TypeReport DEF ReportReader
  <2>3. QED BY <1>4, <1>9, <2>1, <2>2, NoReaderFits
<1>10. ASSUME Finish PROVE IInv'
  <2>1. UNCHANGED <<sent, received>> /\ reader'.op = "idle"
    BY <1>10 DEF Finish, Idle
  <2>2. QED BY <1>4, <2>1, NoReaderFits
<1>11. CASE Tick \/ UNCHANGED vars
  <2>1. Write
    BY <1>11 DEF Tick, vars, Write
  <2>2. QED BY <1>3, <2>1
<1>12. ASSUME NEW s \in Sent,
              \/ Create(s) \/ Fail(s)
              \/ \E at \in Moment, evidence \in {"PROVIDER_SMS", "MOBILE_APP"} :
                    Settle(s, at, evidence)
       PROVE  IInv'
  BY <1>3, <1>12 DEF Write
<1>13. ASSUME NEW q \in Received, NEW at \in Moment, Receive(q, at) PROVE IInv'
  BY <1>3, <1>13 DEF Write
<1>14. CASE (\E filter \in HistoryFilter : HistoryBegin(filter)) \/ SentListBegin \/ ReceivedListBegin
  BY <1>5, <1>14, ListFilters DEF HistoryBegin, SentListBegin, ReceivedListBegin
<1>15. QED BY <1>6, <1>7, <1>8, <1>9, <1>10, <1>11, <1>12, <1>13, <1>14 DEF Next

LEMMA Invariance == Spec => []IInv
<1>1. Init => IInv
  BY IInvInit
<1>2. IInv /\ [Next]_vars => IInv'
  BY IInvNext
<1>3. QED BY <1>1, <1>2, PTL DEF Spec

\* Both tables and the reader keep their types, and a payment has a settlement
\* time exactly when it is settled, for any number of payments.
THEOREM TypeCorrect == Spec => []TypeOK
<1>1. IInv => TypeOK
  BY DEF IInv
<1>2. QED BY <1>1, Invariance, PTL

\* A page of the history is what the whole history would show there, for every
\* page size, although each table is cut before the two are combined
\* (TransactionHistoryService.list, transaction-history.service.ts:41-75).
THEOREM PageIsCutAlways == Spec => []PageIsCutOfWhole
<1>1. IInv => PageIsCutOfWhole
  BY PageIsCut DEF IInv
<1>2. QED BY <1>1, Invariance, PTL

\* Who turns all the pages misses no more of the payments that were there when
\* paging began than came in while the last page was read, for every page size,
\* however many payments there are and under every filter but PENDING and a
\* classification (transaction-history.service.ts:77-92).
THEOREM PagingMissesOnlyNews == Spec => []PagingMissesOnlyForNews
<1>1. IInv => PagingMissesOnlyForNews
  BY DEF IInv
<1>2. QED BY <1>1, Invariance, PTL

\* Two figures of a report that count the same payments differ by news only
\* (getAnalytics, transaction-analytics.service.ts:41-90).
THEOREM ReportAlwaysAddsUp == Spec => []ReportAddsUp
<1>1. IInv => ReportAddsUp
  BY FiguresAddUp DEF IInv
<1>2. QED BY <1>1, Invariance, PTL

\* The confirmations of a report are of different payments and make up its
\* settled payments, and what it calls unclassified is no more than its news
\* (getAnalytics, transaction-analytics.service.ts:227-238).
THEOREM ConfirmationsAlwaysAddUp == Spec => []ConfirmationsAddUp
<1>1. IInv => ConfirmationsAddUp
  BY ConfirmedAddUp DEF IInv
<1>2. QED BY <1>1, Invariance, PTL

\* A report and the one it is compared with count no payment twice and leave
\* out none that was settled in either period, but for news
\* (getAnalytics, transaction-analytics.service.ts:35-39).
THEOREM PeriodsAlwaysMeet == Spec => []PeriodsMeet
<1>1. IInv => PeriodsMeet
  BY PeriodsDoMeet DEF IInv
<1>2. QED BY <1>1, Invariance, PTL

=============================================================================
