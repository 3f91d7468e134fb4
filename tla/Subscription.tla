------------------------------ MODULE Subscription ------------------------------
(***************************************************************************)
(* One Subscription actor with its timer and its clock (signal_manager.rs) *)
(* and the filters it applies (Filter).                                    *)
(*                                                                         *)
(* Time passes in units of the filter's interval (a millisecond); the      *)
(* timer of an interval counts Second of them per unit.  The timer runs on *)
(* a monotonic clock and keeps its phase when it fires late; the filter    *)
(* reads SystemTime, which may be set.  A subscription without an interval *)
(* has no use for either.                                                  *)
(***************************************************************************)
EXTENDS Filter

CONSTANTS
  Value,      \* JSON values the signal takes
  Filters,    \* filters a client may ask for, None included
  Second,     \* interval units per timer unit (1000)
  MaxElapsed, \* bound: SystemTime is followed this far from the last value
  MaxLate,    \* bound: how late the timer may fire
  MaxSetClock \* bound: times SystemTime is set

ASSUME TimeAssumption ==
  /\ None \notin Int
  /\ Second \in Nat \ {0}
  /\ MaxElapsed \in Nat /\ MaxLate \in Nat /\ MaxSetClock \in Nat

ASSUME ValueAssumption ==
  /\ None \notin Value
  /\ \A v \in Value : IsNumber(v) \/ v.kind = "Other"

ASSUME FiltersAssumption ==
  \A f \in Filters \ {None} :
    /\ f.interval = None \/ f.interval \in Nat \ {0}
    /\ f.range # None =>
         /\ f.range.below # None => IsNumber(f.range.below)
         /\ f.range.above # None => IsNumber(f.range.above)
    /\ f.min_change # None => IsNumber(f.min_change)

VARIABLES
  filters,
  latest_signal_value,
  last_signal_value_client,  \* the value; its age is elapsed
  elapsed,   \* SystemTime since then, negative when it was set back
  due,       \* time until the timer fires, None without interval
  set_clock, \* times SystemTime has been set
  notified   \* what the last step sent to the client: [outcome, val]

vars == <<filters, latest_signal_value, last_signal_value_client, elapsed,
          due, set_clock, notified>>

HasInterval == filters # None /\ filters.interval # None

Nothing == [outcome |-> "filtered", val |-> None]

TypeOK ==
  /\ filters \in Filters
  /\ latest_signal_value \in Value \cup {None}
  /\ last_signal_value_client \in Value \cup {None}
  /\ elapsed \in (-MaxElapsed)..MaxElapsed
  /\ IF HasInterval THEN due \in (-MaxLate)..(filters.interval * Second)
                    ELSE due = None
  /\ set_clock \in 0..MaxSetClock
  /\ notified.outcome \in {"notification", "filtered", "error"}
  /\ notified.val \in Value \cup {None}

(* A faulty variant: the timer is not started. *)
InitWithoutTimer ==
  /\ filters \in Filters
  /\ latest_signal_value = None
  /\ last_signal_value_client = None
  /\ elapsed = 0
  /\ due = None
  /\ set_clock = 0
  /\ notified = Nothing

(* Subscribe creates the actor, `started` its timer. *)
Init ==
  /\ filters \in Filters
  /\ latest_signal_value = None
  /\ last_signal_value_client = None
  /\ elapsed = 0
  /\ due = IF HasInterval THEN filters.interval * Second ELSE None
  /\ set_clock = 0
  /\ notified = Nothing

(* duration_since is an error when the clock has been set back. *)
Over(e) == IsIntervalOver(IF e < 0 THEN None ELSE e, filters)

(* A faulty variant: the first value waits for an interval since no value. *)
IntervalOverButFirst ==
  filters = None \/ (last_signal_value_client # None /\ Over(elapsed))

IntervalOver ==
  filters = None \/ last_signal_value_client = None \/ Over(elapsed)

SendClientNotification(val) ==
  LET outcome ==
        Outcome(val, last_signal_value_client, filters, IntervalOver) IN
  /\ notified' = [outcome |-> outcome, val |-> val]
  /\ IF outcome = "notification"
       THEN last_signal_value_client' = val /\ elapsed' = 0
       ELSE UNCHANGED <<last_signal_value_client, elapsed>>

(* Handler<NotifySubscriber> *)
Notify(v) ==
  /\ latest_signal_value' = v
  /\ IF HasInterval
       THEN /\ notified' = Nothing
            /\ UNCHANGED <<last_signal_value_client, elapsed>>
       ELSE SendClientNotification(v)
  /\ UNCHANGED <<filters, due, set_clock>>

(* The closure of run_interval; the next deadline counts from the last. *)
Tick ==
  /\ HasInterval
  /\ due <= 0
  /\ due' = due + filters.interval * Second
  /\ IF latest_signal_value # None
       THEN SendClientNotification(latest_signal_value)
       ELSE /\ notified' = Nothing
            /\ UNCHANGED <<last_signal_value_client, elapsed>>
  /\ UNCHANGED <<filters, latest_signal_value, set_clock>>

Elapse ==
  /\ HasInterval
  /\ due > -MaxLate
  /\ due' = due - 1
  /\ elapsed' = IF elapsed < MaxElapsed THEN elapsed + 1 ELSE elapsed
  /\ notified' = Nothing
  /\ UNCHANGED <<filters, latest_signal_value, last_signal_value_client,
                 set_clock>>

SetClock ==
  /\ HasInterval
  /\ set_clock < MaxSetClock
  /\ set_clock' = set_clock + 1
  /\ elapsed' \in (-MaxElapsed)..MaxElapsed
  /\ notified' = Nothing
  /\ UNCHANGED <<filters, latest_signal_value, last_signal_value_client, due>>

Next ==
  \/ \E v \in Value : Notify(v)
  \/ Tick
  \/ Elapse
  \/ SetClock

Spec == Init /\ [][Next]_vars

(* Time passes and timers fire. *)
FairSpec == Spec /\ WF_vars(Tick) /\ WF_vars(Elapse)

-------------------------------------------------------------------------------
(***************************************************************************)
(* The reference the filters are checked against: numbers compared and     *)
(* subtracted as numbers, whatever their representation.                   *)
(***************************************************************************)
Distance(x, y) == Magnitude(AsHalves(x) - AsHalves(y))

(***************************************************************************)
(* The changes that min_change measures exactly: a decrease of unsigned    *)
(* integers, a change between signed integers that fits an i64, and one    *)
(* between other numbers that have the same sign.                          *)
(***************************************************************************)
MeasuredExactly(last, val) ==
  IF IsU64(last) /\ IsU64(val) THEN val.n <= last.n
  ELSE IF IsI64(last) /\ IsI64(val) THEN Magnitude(last.n - val.n) <= I64_MAX
  ELSE \/ AsHalves(last) >= 0 /\ AsHalves(val) >= 0
       \/ AsHalves(last) <= 0 /\ AsHalves(val) <= 0

(* An unsigned increase counts for more than it is, up to half the width. *)
Overrated(last, val) ==
  IsU64(last) /\ IsU64(val) /\ val.n - last.n \in 1..(I64_MAX + 1)

WithinRange(val) ==
  /\ filters.range.below # None => AsHalves(val) <= AsHalves(filters.range.below)
  /\ filters.range.above # None => AsHalves(val) >= AsHalves(filters.range.above)

FarEnough(last, val) == Distance(last, val) >= AsHalves(filters.min_change)

(***************************************************************************)
(* What a subscription without interval does with a value.  It is sent     *)
(* only if it differs from the last value sent, is within the range and is *)
(* far enough from the last, unless it is an overrated increase; and such  *)
(* a value is sent, unless the change is one that is underrated.  The      *)
(* comparisons and the subtraction pick one of three representations for   *)
(* each pair of numbers, and wrap.                                         *)
(***************************************************************************)
Decides(v) ==
  LET last == last_signal_value_client
      ranged == filters # None /\ filters.range # None
      measured == filters # None /\ filters.min_change # None /\ last # None
      sent == notified'.outcome = "notification" IN
  /\ Notify(v)
  /\ ~HasInterval
  /\ ~IsNotANumber(v, last, filters)
  => /\ sent => /\ v # last
                /\ ranged => WithinRange(v)
                /\ measured => FarEnough(last, v) \/ Overrated(last, v)
     /\ /\ v # last
        /\ ranged => WithinRange(v)
        /\ measured => /\ FarEnough(last, v)
                       /\ MeasuredExactly(last, v) \/ Overrated(last, v)
        => sent

FiltersDecide == [][\A v \in Value : Decides(v)]_vars

(***************************************************************************)
(* filter.rs:494 "Changed by at least x compared to last value."           *)
(***************************************************************************)
ChangedByAtLeast ==
  [][/\ notified'.outcome = "notification"
     /\ last_signal_value_client # None
     /\ filters # None /\ filters.min_change # None
     => FarEnough(last_signal_value_client, notified'.val)]_vars

(***************************************************************************)
(* An interval subscription never sends two values closer than its         *)
(* interval, even when late timers fire one right after the other, unless  *)
(* the clock has been set.                                                 *)
(***************************************************************************)
Spaced ==
  [][/\ notified'.outcome = "notification"
     /\ last_signal_value_client # None
     /\ HasInterval
     => elapsed >= filters.interval \/ set_clock > 0]_vars

(***************************************************************************)
(* The value a signal settles on reaches an interval subscriber, however   *)
(* late its timer fires and however often the clock is set: the timer and  *)
(* the filter measure the interval on different clocks and in different    *)
(* units, and one must not starve the other.  Either new values keep       *)
(* arriving, or what the client was last sent is the latest.               *)
(***************************************************************************)
EventuallyCurrent ==
  \/ ~(HasInterval /\ filters.range = None /\ filters.min_change = None)
  \/ []<><<latest_signal_value' # latest_signal_value>>_vars
  \/ []<>(last_signal_value_client = latest_signal_value)
===============================================================================
