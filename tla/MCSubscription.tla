----------------------------- MODULE MCSubscription -----------------------------
(* Subscription with 3-bit integers. *)
EXTENDS Subscription

(* Every integer of the width, some floats around zero, and a string. *)
MCValue ==
  {PosInt(n) : n \in 0..U64_MAX} \cup {NegInt(n) : n \in (-(I64_MAX + 1))..(-1)}
    \cup {Float(-3), Float(0), Float(5)} \cup {Other(0)}

Between(above, below) ==
  [interval |-> None, range |-> [below |-> below, above |-> above],
   min_change |-> None]
MinChange(m) == [interval |-> None, range |-> None, min_change |-> m]
Every(period) == [interval |-> period, range |-> None, min_change |-> None]

MCFilters ==
  {None}
    \cup {MinChange(m) : m \in {PosInt(2), PosInt(5), NegInt(-1), Float(3)}}
    \cup {Between(None, PosInt(2)), Between(NegInt(-2), Float(5)),
          Between(PosInt(5), None)}
    \cup {[Between(PosInt(1), PosInt(6)) EXCEPT !.min_change = PosInt(2)]}
    \cup {Every(1), Every(2), [Every(1) EXCEPT !.min_change = PosInt(1)]}

Unsigned == {PosInt(n) : n \in 0..U64_MAX}
UnsignedFilters == {MinChange(PosInt(2))}
===============================================================================
