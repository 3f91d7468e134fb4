--------------------------------- MODULE Filter ---------------------------------
(***************************************************************************)
(* The subscription filters of filter.rs: whether a new value of a signal  *)
(* is sent to a client, given the last value that was.                     *)
(*                                                                         *)
(* A JSON value is [kind, n].  Numbers have the three representations of   *)
(* serde_json: "PosInt" (a u64), "NegInt" (a negative i64) and "Float" (an *)
(* f64, n counting halves); any other value has kind "Other", n telling    *)
(* such values apart.  The width of the integers is that of I64_MAX, and   *)
(* floats do not round: an instance keeps its values in the range where    *)
(* f64 is exact.  Overflow wraps, as it does in a release build.           *)
(***************************************************************************)
EXTENDS Integers

CONSTANTS
  I64_MAX,  \* largest i64
  None      \* the absent Option

ASSUME I64Assumption == I64_MAX \in Nat

U64_MAX == 2 * I64_MAX + 1

PosInt(n) == [kind |-> "PosInt", n |-> n]
NegInt(n) == [kind |-> "NegInt", n |-> n]
Float(halves) == [kind |-> "Float", n |-> halves]
Other(n) == [kind |-> "Other", n |-> n]

IsNumber(x) ==
  \/ x.kind = "PosInt" /\ x.n \in 0..U64_MAX
  \/ x.kind = "NegInt" /\ x.n \in (-(I64_MAX + 1))..(-1)
  \/ x.kind = "Float" /\ x.n \in Int

-------------------------------------------------------------------------------
(***************************************************************************)
(* serde_json::Number                                                      *)
(***************************************************************************)
IsU64(x) == x.kind = "PosInt"
IsI64(x) == x.kind = "NegInt" \/ (x.kind = "PosInt" /\ x.n <= I64_MAX)
AsHalves(x) == IF x.kind = "Float" THEN x.n ELSE 2 * x.n
FromI64(n) == IF n < 0 THEN NegInt(n) ELSE PosInt(n)

WrapU64(n) == n % (U64_MAX + 1)
WrapI64(n) == ((n + I64_MAX + 1) % (U64_MAX + 1)) - (I64_MAX + 1)

Magnitude(n) == IF n < 0 THEN -n ELSE n

(***************************************************************************)
(* SerdeNumber: abs, partial_cmp and sub.  Two integers that fit no common *)
(* width are compared and subtracted as floats.                            *)
(***************************************************************************)
Abs(x) ==
  IF IsU64(x) THEN x
  ELSE IF IsI64(x) THEN FromI64(WrapI64(Magnitude(x.n)))
  ELSE Float(Magnitude(x.n))

Le(x, y) ==
  IF (IsU64(x) /\ IsU64(y)) \/ (IsI64(x) /\ IsI64(y))
    THEN x.n <= y.n
    ELSE AsHalves(x) <= AsHalves(y)

Minus(x, y) ==
  IF IsU64(x) /\ IsU64(y) THEN PosInt(WrapU64(x.n - y.n))
  ELSE IF IsI64(x) /\ IsI64(y) THEN FromI64(WrapI64(x.n - y.n))
  ELSE Float(Magnitude(AsHalves(x)) - Magnitude(AsHalves(y)))

-------------------------------------------------------------------------------
(***************************************************************************)
(* A Filters has an interval (a number of time units), a range (below and  *)
(* above) and a min_change, each possibly None.  `last` is the last value  *)
(* the client was sent, None before the first.                             *)
(***************************************************************************)
IsInRange(val, filters) ==
  \/ filters.range = None
  \/ /\ filters.range.below # None => Le(val, filters.range.below)
     /\ filters.range.above # None => Le(filters.range.above, val)

(* A faulty variant: the operands of the subtraction are swapped. *)
IsMinChangeSwapped(val, last, filters) ==
  \/ filters.min_change = None
  \/ last = None
  \/ Le(filters.min_change, Abs(Minus(val, last)))

IsMinChange(val, last, filters) ==
  \/ filters.min_change = None
  \/ last = None
  \/ Le(filters.min_change, Abs(Minus(last, val)))

(* A faulty variant: the timer alone is relied on. *)
IsIntervalAlwaysOver(elapsed, filters) == TRUE

(* `interval`: elapsed is None when the clock has gone backwards since. *)
IsIntervalOver(elapsed, filters) ==
  \/ filters.interval = None
  \/ elapsed = None
  \/ filters.interval <= elapsed

(* `matches` returns Err: a value that has to be a number is not one. *)
IsNotANumber(val, last, filters) ==
  /\ filters # None
  /\ \/ filters.range # None /\ val.kind = "Other"
     \/ /\ filters.min_change # None
        /\ last # None
        /\ val.kind = "Other" \/ last.kind = "Other"

(* `matches` returns Ok(true), over telling whether the interval is over. *)
Matches(val, last, filters, over) ==
  /\ val # last
  /\ filters # None =>
       /\ over
       /\ IsInRange(val, filters)
       /\ IsMinChange(val, last, filters)

(***************************************************************************)
(* What Subscription::send_client_notification does with a value.          *)
(***************************************************************************)
Outcome(val, last, filters, over) ==
  IF IsNotANumber(val, last, filters) THEN "error"
  ELSE IF Matches(val, last, filters, over) THEN "notification"
  ELSE "filtered"
===============================================================================
