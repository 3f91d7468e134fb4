-------------------------- MODULE SubscriptionProofs --------------------------
(***************************************************************************)
(* Theorems about the filters and the interval, for integers of every      *)
(* width, all values and all filters.                                      *)
(***************************************************************************)
EXTENDS Subscription, TLAPS

LEMMA Widths == U64_MAX \in Nat /\ I64_MAX \in Nat /\ U64_MAX = 2 * I64_MAX + 1
BY I64Assumption DEF U64_MAX

LEMMA NumberType ==
  ASSUME NEW x, IsNumber(x)
  PROVE  x.n \in Int /\ AsHalves(x) \in Int
BY Widths DEF IsNumber, AsHalves

(* Whatever representation a comparison picks, it compares the numbers. *)
LEMMA LeIsOrder ==
  ASSUME NEW x, NEW y, IsNumber(x), IsNumber(y)
  PROVE  Le(x, y) <=> AsHalves(x) <= AsHalves(y)
BY NumberType DEF Le, AsHalves, IsU64, IsI64

LEMMA Quotient ==
  ASSUME NEW m \in Nat \ {0}, NEW q \in Int, NEW r \in 0..(m - 1), NEW k \in Int,
         m * q + r \in (m * k)..(m * k + (m - 1))
  PROVE  q = k
<1>1. CASE q >= k + 1
  <2>1. m * q >= m * (k + 1)
    BY <1>1
  <2>. QED
    BY <2>1
<1>2. CASE q <= k - 1
  <2>1. m * q <= m * (k - 1)
    BY <1>2
  <2>. QED
    BY <2>1
<1>. QED
  BY <1>1, <1>2

LEMMA Division ==
  ASSUME NEW m \in Nat \ {0}, NEW n \in Int
  PROVE  /\ n \div m \in Int
         /\ n % m \in 0..(m - 1)
         /\ n = m * (n \div m) + (n % m)
<1>1. n \div m \in Int
  OBVIOUS
<1>2. n % m \in 0..(m - 1)
  OBVIOUS
<1>3. n = m * (n \div m) + (n % m)
  OBVIOUS
<1>. QED
  BY <1>1, <1>2, <1>3

(* The remainder of a number that is at most once too large or too small. *)
LEMMA Remainder ==
  ASSUME NEW m \in Nat \ {0}, NEW n \in (-m)..(2 * m - 1)
  PROVE  n % m = IF n < 0 THEN n + m ELSE IF n >= m THEN n - m ELSE n
<1>. DEFINE k == IF n < 0 THEN -1 ELSE IF n >= m THEN 1 ELSE 0
<1>1. k \in Int /\ n \in (m * k)..(m * k + (m - 1))
  OBVIOUS
<1>2. PICK q \in Int, r \in 0..(m - 1) : n = m * q + r /\ n % m = r
  <2>1. \A i \in Int : /\ i \div m \in Int /\ i % m \in 0..(m - 1)
                       /\ i = m * (i \div m) + (i % m)
    BY Division, Zenon
  <2>2. n \in Int
    OBVIOUS
  <2>. QED
    BY <2>1, <2>2, Zenon
<1>3. q = k
  <2>. HIDE DEF k
  <2>. QED
    BY <1>1, <1>2, Quotient
<1>4. n % m = n - m * k
  BY <1>2, <1>3
<1>. QED
  BY <1>4

LEMMA WrapsUnsigned ==
  ASSUME NEW n \in (-U64_MAX)..U64_MAX
  PROVE  WrapU64(n) = IF n < 0 THEN n + U64_MAX + 1 ELSE n
<1>. DEFINE m == U64_MAX + 1
<1>1. m \in Nat \ {0} /\ n \in (-m)..(2 * m - 1)
  BY Widths
<1>2. n % m = IF n < 0 THEN n + m ELSE IF n >= m THEN n - m ELSE n
  <2>. HIDE DEF m
  <2>. QED
    BY <1>1, Remainder
<1>. QED
  BY <1>2, Widths DEF WrapU64

(* Signed integers wrap at both ends. *)
LEMMA WrapsSigned ==
  ASSUME NEW n \in (-U64_MAX)..U64_MAX
  PROVE  WrapI64(n) = IF n > I64_MAX THEN n - (U64_MAX + 1)
                      ELSE IF n < -(I64_MAX + 1) THEN n + (U64_MAX + 1)
                      ELSE n
<1>. DEFINE m == U64_MAX + 1
            k == n + I64_MAX + 1
<1>1. m \in Nat \ {0} /\ k \in (-m)..(2 * m - 1)
  BY Widths
<1>2. k % m = IF k < 0 THEN k + m ELSE IF k >= m THEN k - m ELSE k
  <2>. HIDE DEF m, k
  <2>. QED
    BY <1>1, Remainder
<1>. QED
  BY <1>2, Widths DEF WrapI64

(***************************************************************************)
(* How the absolute difference compares with the distance: what the next   *)
(* three lemmas say of it, by the representation that is subtracted.       *)
(***************************************************************************)
Rates(d, x, y) ==
  /\ IsNumber(d)
  /\ MeasuredExactly(x, y) => AsHalves(d) = Distance(x, y)
  /\ Overrated(x, y) => AsHalves(d) >= Distance(x, y)
  /\ ~Overrated(x, y) => AsHalves(d) <= Distance(x, y)

LEMMA UnsignedRates ==
  ASSUME NEW x, NEW y, IsNumber(x), IsNumber(y), IsU64(x), IsU64(y)
  PROVE  Rates(Abs(Minus(x, y)), x, y)
<1>. DEFINE d == IF x.n - y.n < 0 THEN x.n - y.n + U64_MAX + 1 ELSE x.n - y.n
<1>1. x.n \in 0..U64_MAX /\ y.n \in 0..U64_MAX
  BY DEF IsNumber, IsU64
<1>2. Abs(Minus(x, y)) = PosInt(d)
  BY <1>1, Widths, WrapsUnsigned DEF Minus, Abs, IsU64, PosInt
<1>3. d \in 0..U64_MAX
  BY <1>1, Widths
<1>4. AsHalves(PosInt(d)) = 2 * d /\ IsNumber(PosInt(d))
  BY <1>3 DEF AsHalves, IsNumber, PosInt
<1>5. Distance(x, y) = 2 * (IF x.n < y.n THEN y.n - x.n ELSE x.n - y.n)
  BY <1>1, Widths DEF Distance, Magnitude, AsHalves, IsU64
<1>. HIDE DEF Rates
<1>. QED
  BY <1>1, <1>2, <1>3, <1>4, <1>5, Widths
  DEF Rates, MeasuredExactly, Overrated

LEMMA SignedRates ==
  ASSUME NEW x, NEW y, IsNumber(x), IsNumber(y), IsI64(x), IsI64(y),
         ~(IsU64(x) /\ IsU64(y))
  PROVE  Rates(Abs(Minus(x, y)), x, y)
<1>. DEFINE c == x.n - y.n
            d == WrapI64(c)
            a == Abs(FromI64(d))
<1>1. /\ x.n \in (-(I64_MAX + 1))..I64_MAX /\ y.n \in (-(I64_MAX + 1))..I64_MAX
      /\ x.kind # "Float" /\ y.kind # "Float"
  BY Widths DEF IsNumber, IsI64
<1>2. c \in (-U64_MAX)..U64_MAX
  BY <1>1, Widths
<1>3. d = IF c > I64_MAX THEN c - (U64_MAX + 1)
          ELSE IF c < -(I64_MAX + 1) THEN c + (U64_MAX + 1) ELSE c
  BY <1>2, WrapsSigned
<1>4. d \in (-(I64_MAX + 1))..I64_MAX
  BY <1>2, <1>3, Widths
<1>5. Minus(x, y) = FromI64(d)
  BY DEF Minus
<1>. HIDE DEF d
<1>6. a = IF d = -(I64_MAX + 1) THEN NegInt(d) ELSE PosInt(Magnitude(d))
  <2>1. CASE d < 0
    <3>1. FromI64(d) = NegInt(d) /\ Magnitude(d) = -d /\ -d \in 1..(I64_MAX + 1)
      BY <1>4, <2>1, Widths DEF FromI64, Magnitude
    <3>2. a = FromI64(WrapI64(-d))
      BY <3>1 DEF Abs, NegInt, IsU64, IsI64
    <3>3. WrapI64(-d) = IF d = -(I64_MAX + 1) THEN d ELSE -d
      <4>1. -d \in (-U64_MAX)..U64_MAX
        BY <3>1, Widths
      <4>. QED
        BY <1>4, <3>1, <4>1, WrapsSigned, Widths
    <3>. QED
      BY <2>1, <3>1, <3>2, <3>3 DEF FromI64
  <2>2. CASE ~(d < 0)
    BY <1>4, <2>2, Widths DEF FromI64, Magnitude, Abs, IsU64, PosInt
  <2>. QED
    BY <2>1, <2>2
<1>7. /\ IsNumber(a)
      /\ AsHalves(a) = 2 * (IF d = -(I64_MAX + 1) THEN d ELSE Magnitude(d))
  BY <1>4, <1>6, Widths DEF IsNumber, AsHalves, NegInt, PosInt, Magnitude
<1>. HIDE DEF a
<1>8. Distance(x, y) = 2 * Magnitude(c)
  BY <1>1, <1>2 DEF Distance, AsHalves, Magnitude
<1>9. /\ ~Overrated(x, y)
      /\ MeasuredExactly(x, y) <=> Magnitude(c) <= I64_MAX
  BY DEF Overrated, MeasuredExactly
<1>10. /\ Magnitude(c) <= I64_MAX => AsHalves(a) = Distance(x, y)
       /\ AsHalves(a) <= Distance(x, y)
  BY <1>2, <1>3, <1>4, <1>7, <1>8, Widths DEF Magnitude
<1>. QED
  BY <1>5, <1>7, <1>9, <1>10 DEF Rates, a

LEMMA FloatRates ==
  ASSUME NEW x, NEW y, IsNumber(x), IsNumber(y),
         ~(IsU64(x) /\ IsU64(y)), ~(IsI64(x) /\ IsI64(y))
  PROVE  Rates(Abs(Minus(x, y)), x, y)
<1>. DEFINE p == AsHalves(x)
            r == AsHalves(y)
            d == Magnitude(p) - Magnitude(r)
<1>1. p \in Int /\ r \in Int
  BY NumberType
<1>2. Abs(Minus(x, y)) = Float(Magnitude(d))
  BY DEF Minus, Abs, Float, IsU64, IsI64
<1>3. d \in Int /\ Magnitude(d) \in Int
  BY <1>1 DEF Magnitude
<1>4. IsNumber(Float(Magnitude(d))) /\ AsHalves(Float(Magnitude(d))) = Magnitude(d)
  BY <1>3 DEF IsNumber, AsHalves, Float
<1>5. /\ ~Overrated(x, y)
      /\ MeasuredExactly(x, y) <=> (p >= 0 /\ r >= 0) \/ (p <= 0 /\ r <= 0)
  BY DEF Overrated, MeasuredExactly
<1>6. Distance(x, y) = Magnitude(p - r)
  BY DEF Distance
<1>. HIDE DEF p, r
<1>7. /\ (p >= 0 /\ r >= 0) \/ (p <= 0 /\ r <= 0) => Magnitude(d) = Magnitude(p - r)
      /\ Magnitude(d) <= Magnitude(p - r)
  BY <1>1 DEF Magnitude
<1>. QED
  BY <1>2, <1>4, <1>5, <1>6, <1>7 DEF Rates

LEMMA DifferenceRates ==
  ASSUME NEW x, NEW y, IsNumber(x), IsNumber(y)
  PROVE  Rates(Abs(Minus(x, y)), x, y)
BY UnsignedRates, SignedRates, FloatRates

(***************************************************************************)
(* Type correctness.                                                       *)
(***************************************************************************)
LEMMA PeriodType ==
  ASSUME filters \in Filters, HasInterval
  PROVE  /\ filters.interval \in Nat \ {0}
         /\ filters.interval * Second \in Nat
BY FiltersAssumption, TimeAssumption DEF HasInterval

LEMMA SendType ==
  ASSUME TypeOK, NEW val \in Value, SendClientNotification(val)
  PROVE  /\ last_signal_value_client' \in Value \cup {None}
         /\ elapsed' \in (-MaxElapsed)..MaxElapsed
         /\ notified'.outcome \in {"notification", "filtered", "error"}
         /\ notified'.val \in Value \cup {None}
<1>. DEFINE outcome ==
       Outcome(val, last_signal_value_client, filters, IntervalOver)
<1>1. outcome \in {"notification", "filtered", "error"}
  BY DEF Outcome
<1>2. notified' = [outcome |-> outcome, val |-> val]
  BY DEF SendClientNotification
<1>3. \/ last_signal_value_client' = val /\ elapsed' = 0
      \/ UNCHANGED <<last_signal_value_client, elapsed>>
  BY DEF SendClientNotification
<1>. HIDE DEF outcome
<1>. QED
  BY <1>1, <1>2, <1>3, TimeAssumption DEF TypeOK

LEMMA NextType == TypeOK /\ [Next]_vars => TypeOK'
<1>. SUFFICES ASSUME TypeOK, [Next]_vars PROVE TypeOK'
  OBVIOUS
<1>. DEFINE SameDue == UNCHANGED <<filters, due, set_clock>>
<1>1. CASE UNCHANGED vars
  BY <1>1 DEF TypeOK, vars, HasInterval
<1>2. ASSUME NEW v \in Value, Notify(v) PROVE TypeOK'
  <2>1. CASE HasInterval
    BY <1>2, <2>1 DEF Notify, TypeOK, Nothing, HasInterval
  <2>2. CASE ~HasInterval
    <3>1. SendClientNotification(v)
      BY <1>2, <2>2 DEF Notify
    <3>. QED
      BY <1>2, <2>2, <3>1, SendType DEF Notify, TypeOK, HasInterval
  <2>. QED
    BY <2>1, <2>2
<1>3. CASE Tick
  <2>1. HasInterval /\ filters' = filters /\ HasInterval'
    BY <1>3 DEF Tick, HasInterval
  <2>2. due' \in (-MaxLate)..(filters.interval * Second)
    BY <1>3, <2>1, PeriodType, TimeAssumption DEF Tick, TypeOK
  <2>3. CASE latest_signal_value # None
    <3>1. SendClientNotification(latest_signal_value)
      BY <1>3, <2>3 DEF Tick
    <3>. QED
      BY <1>3, <2>1, <2>2, <2>3, <3>1, SendType DEF Tick, TypeOK
  <2>4. CASE latest_signal_value = None
    BY <1>3, <2>1, <2>2, <2>4 DEF Tick, TypeOK, Nothing
  <2>. QED
    BY <2>3, <2>4
<1>4. CASE Elapse
  <2>1. HasInterval /\ filters' = filters /\ HasInterval'
    BY <1>4 DEF Elapse, HasInterval
  <2>2. due' \in (-MaxLate)..(filters.interval * Second)
    BY <1>4, <2>1, PeriodType, TimeAssumption DEF Elapse, TypeOK
  <2>3. elapsed' \in (-MaxElapsed)..MaxElapsed
    BY <1>4, TimeAssumption DEF Elapse, TypeOK
  <2>. QED
    BY <1>4, <2>1, <2>2, <2>3 DEF Elapse, TypeOK, Nothing
<1>5. CASE SetClock
  BY <1>5, TimeAssumption DEF SetClock, TypeOK, Nothing, HasInterval
<1>. QED
  BY <1>1, <1>2, <1>3, <1>4, <1>5 DEF Next

LEMMA InitType == Init => TypeOK
<1>. SUFFICES ASSUME Init PROVE TypeOK
  OBVIOUS
<1>1. IF HasInterval THEN due \in (-MaxLate)..(filters.interval * Second)
                     ELSE due = None
  BY PeriodType, TimeAssumption DEF Init
<1>. QED
  BY <1>1, TimeAssumption DEF Init, TypeOK, Nothing

(***************************************************************************)
(* The state of a subscription is what it is declared to be; the timer is  *)
(* armed exactly while there is an interval.                               *)
(***************************************************************************)
THEOREM TypeCorrect == Spec => []TypeOK
BY InitType, NextType, PTL DEF Spec

(***************************************************************************)
(* What `matches` decides, against the reference.                          *)
(***************************************************************************)
LEMMA RangeDecides ==
  ASSUME filters \in Filters, filters # None, filters.range # None,
         NEW v \in Value, IsNumber(v)
  PROVE  IsInRange(v, filters) <=> WithinRange(v)
BY LeIsOrder, FiltersAssumption, NumberType DEF IsInRange, WithinRange

LEMMA MinChangeDecides ==
  ASSUME filters \in Filters, filters # None, filters.min_change # None,
         NEW v \in Value, NEW last \in Value, IsNumber(v), IsNumber(last)
  PROVE  /\ IsMinChange(v, last, filters) => FarEnough(last, v) \/ Overrated(last, v)
         /\ FarEnough(last, v) /\ (MeasuredExactly(last, v) \/ Overrated(last, v))
              => IsMinChange(v, last, filters)
<1>. DEFINE d == Abs(Minus(last, v))
            m == filters.min_change
<1>1. IsNumber(m) /\ last # None
  BY FiltersAssumption, ValueAssumption
<1>2. Rates(d, last, v)
  BY DifferenceRates
<1>3. IsMinChange(v, last, filters) <=> AsHalves(m) <= AsHalves(d)
  BY <1>1, <1>2, LeIsOrder DEF IsMinChange, Rates
<1>4. /\ AsHalves(d) \in Int /\ AsHalves(m) \in Int
      /\ AsHalves(last) \in Int /\ AsHalves(v) \in Int
  BY <1>1, <1>2, NumberType DEF Rates
<1>5. Distance(last, v) \in Int
  BY <1>4 DEF Distance, Magnitude
<1>. HIDE DEF d, m
<1>6. FarEnough(last, v) <=> Distance(last, v) >= AsHalves(m)
  BY DEF FarEnough, m
<1>. QED
  BY <1>2, <1>3, <1>4, <1>5, <1>6 DEF Rates

LEMMA NotifyDecides ==
  ASSUME TypeOK, NEW v \in Value
  PROVE  Decides(v)
<1>. DEFINE last == last_signal_value_client
            ranged == filters # None /\ filters.range # None
            measured == filters # None /\ filters.min_change # None /\ last # None
            sent == notified'.outcome = "notification"
            exact == MeasuredExactly(last, v) \/ Overrated(last, v)
<1>. SUFFICES ASSUME Notify(v), ~HasInterval, ~IsNotANumber(v, last, filters)
              PROVE  /\ sent => /\ v # last
                                /\ ranged => WithinRange(v)
                                /\ measured => FarEnough(last, v) \/ Overrated(last, v)
                     /\ /\ v # last
                        /\ ranged => WithinRange(v)
                        /\ measured => FarEnough(last, v) /\ exact
                        => sent
  BY DEF Decides
<1>1. sent <=> Matches(v, last, filters, IntervalOver)
  BY DEF Notify, SendClientNotification, Outcome
<1>2. IntervalOver
  BY DEF IntervalOver, Over, IsIntervalOver, HasInterval
<1>3. filters \in Filters /\ last \in Value \cup {None}
  BY DEF TypeOK
<1>4. CASE filters = None
  BY <1>1, <1>4 DEF Matches
<1>5. CASE filters # None
  <2>1. IsInRange(v, filters) <=> (ranged => WithinRange(v))
    <3>1. CASE filters.range = None
      BY <3>1 DEF IsInRange
    <3>2. CASE filters.range # None
      <4>1. IsNumber(v)
        BY <1>5, <3>2, ValueAssumption DEF IsNotANumber
      <4>. QED
        BY <1>3, <1>5, <3>2, <4>1, RangeDecides
    <3>. QED
      BY <3>1, <3>2
  <2>2. CASE ~measured
    <3>1. IsMinChange(v, last, filters)
      BY <1>5, <2>2 DEF IsMinChange
    <3>. QED
      BY <1>1, <1>2, <1>5, <2>1, <2>2, <3>1 DEF Matches
  <2>3. CASE measured
    <3>1. IsNumber(v) /\ IsNumber(last) /\ last \in Value
      BY <1>3, <2>3, ValueAssumption DEF IsNotANumber
    <3>2. /\ IsMinChange(v, last, filters) => FarEnough(last, v) \/ Overrated(last, v)
          /\ FarEnough(last, v) /\ exact => IsMinChange(v, last, filters)
      BY <1>3, <2>3, <3>1, MinChangeDecides
    <3>. QED
      BY <1>1, <1>2, <1>5, <2>1, <2>3, <3>2 DEF Matches
  <2>. QED
    BY <2>2, <2>3
<1>. QED
  BY <1>4, <1>5

(***************************************************************************)
(* For integers of every width, all values and all filters: what is sent   *)
(* is new, within the range and far enough from the last value sent or an  *)
(* overrated increase of it, and whatever is so, and is not underrated, is *)
(* sent.                                                                   *)
(***************************************************************************)
THEOREM FiltersAreDecisive == Spec => FiltersDecide
<1>1. TypeOK /\ [Next]_vars => [\A v \in Value : Decides(v)]_vars
  BY NotifyDecides
<1>. QED
  BY <1>1, TypeCorrect, PTL DEF Spec, FiltersDecide

-------------------------------------------------------------------------------
(* Unless the clock has been set, it has not gone back since the last value. *)
ClockInv == set_clock \in Nat /\ elapsed \in Int /\ (set_clock = 0 => elapsed >= 0)

LEMMA ClockGoesOn == Spec => []ClockInv
<1>1. Init => ClockInv
  BY DEF Init, ClockInv
<1>2. ClockInv /\ [Next]_vars => ClockInv'
  <2>. SUFFICES ASSUME ClockInv, [Next]_vars PROVE ClockInv'
    OBVIOUS
  <2>. USE DEF ClockInv
  <2>1. ASSUME NEW v, SendClientNotification(v), UNCHANGED set_clock
        PROVE  ClockInv'
    BY <2>1 DEF SendClientNotification
  <2>2. ASSUME NEW v \in Value, Notify(v) PROVE ClockInv'
    BY <2>1, <2>2 DEF Notify
  <2>3. CASE Tick
    BY <2>1, <2>3 DEF Tick
  <2>4. CASE Elapse
    BY <2>4 DEF Elapse
  <2>5. CASE SetClock
    BY <2>5, TimeAssumption DEF SetClock
  <2>6. CASE UNCHANGED vars
    BY <2>6 DEF vars
  <2>. QED
    BY <2>2, <2>3, <2>4, <2>5, <2>6 DEF Next
<1>. QED
  BY <1>1, <1>2, PTL DEF Spec

(***************************************************************************)
(* For every interval, timer and clock: an interval subscription never     *)
(* sends two values closer than its interval, unless the clock was set.    *)
(* Only the timer sends, and the filter it asks measures what elapsed.     *)
(***************************************************************************)
THEOREM NotificationsAreSpaced == Spec => Spaced
<1>. DEFINE Sends == /\ notified'.outcome = "notification"
                     /\ last_signal_value_client # None
                     /\ HasInterval
            Step == Sends => elapsed >= filters.interval \/ set_clock > 0
<1>1. ASSUME ClockInv, [Next]_vars PROVE [Step]_vars
  <2>. SUFFICES ASSUME Next, Sends PROVE elapsed >= filters.interval \/ set_clock > 0
    BY <1>1
  <2>1. notified' # Nothing
    BY DEF Nothing
  <2>2. ~ \E v \in Value : Notify(v)
    BY <2>1 DEF Notify
  <2>3. Tick /\ SendClientNotification(latest_signal_value)
    BY <2>1, <2>2 DEF Next, Tick, Elapse, SetClock
  <2>4. IntervalOver
    BY <2>3 DEF SendClientNotification, Outcome, Matches, HasInterval
  <2>5. Over(elapsed)
    BY <2>4 DEF IntervalOver, HasInterval
  <2>. QED
    BY <1>1, <2>5, TimeAssumption DEF Over, IsIntervalOver, HasInterval, ClockInv
<1>2. ClockInv /\ [Next]_vars => [Step]_vars
  BY <1>1
<1>. QED
  BY <1>2, ClockGoesOn, PTL DEF Spec, Spaced
===============================================================================
