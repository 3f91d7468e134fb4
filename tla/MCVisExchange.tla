----------------------------- MODULE MCVisExchange -----------------------------
(* VisExchange on small instances. *)
EXTENDS VisExchange

CONSTANTS speed, u1, u2

MCReqId == {IntId(n) : n \in {0, 5, U64_MAX}} \cup {UuidId(u1)}
MCSubId == {UuidId(u2)}
MCValue == {PosInt(1), Float(3), Other(0)}

Bounds == {[below |-> b, above |-> a] : b \in {None, PosInt(4)}, a \in {None, NegInt(-1)}}

MCFilters ==
  {None} \cup
    {[interval |-> i, range |-> rg, min_change |-> m] :
       i \in {None, 0, U64_MAX}, rg \in {None} \cup Bounds,
       m \in {None, Float(1)}}

(* Ids as clients spell them: in range and out of it, with leading zeros    *)
(* or a sign, UUIDs in upper case or without hyphens, and no ids at all.    *)
SpeltIds ==
  {IntString(form, n) : form \in {"decimal", "zeros", "plus"}, n \in {0, 5, U64_MAX}}
    \cup {IntString("decimal", -1), IntString("decimal", U64_MAX + 1)}
    \cup {UuidString(form, u1) : form \in {"hyphenated", "simple", "upper"}}
    \cup {PosInt(5), Null, PathString(speed)}

SpeltFilters ==
  {Null, Object([interval |-> PosInt(0)]), Object([interval |-> Float(2)]),
   Object([interval |-> NegInt(-1)]), Object([minChange |-> Other(0)]),
   Object([minChange |-> NegInt(-1)]), Object([range |-> Null]),
   Object([range |-> Object([above |-> Other(0)])]),
   Object([range |-> Object([below |-> Float(3), above |-> Null])]), Other(0)}

Spelt(tags, members) == {With([action |-> t], m) : t \in tags, m \in members}

MCHandWritten ==
  Spelt({"get", "Get", "GET", "getMetadata"},
        {[path |-> PathString(speed), requestId |-> i] : i \in SpeltIds})
    \cup Spelt({"Subscribe", "subscribe"},
        {[path |-> PathString(speed), requestId |-> i] : i \in SpeltIds}
          \cup {[path |-> PathString(speed), requestId |-> IntString("decimal", 5),
                 filters |-> f] : f \in SpeltFilters})
    \cup Spelt({"unsubscribe"},
        {[subscriptionId |-> s, requestId |-> IntString("decimal", 5)] :
           s \in SpeltIds \cup {UuidString("upper", u2)}})
    \cup Spelt({"set", "authorize", "unsubscribeAll"},
        {[requestId |-> IntString("zeros", 5)],
         [path |-> PathString(speed), value |-> Null, tokens |-> Null,
          requestId |-> IntString("zeros", 5)],
         [path |-> PathString(speed), value |-> PosInt(1)],
         [path |-> PosInt(1), value |-> PosInt(1),
          requestId |-> UuidString("simple", u1)]})
===============================================================================
