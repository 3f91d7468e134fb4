------------------------------ MODULE MCVisServer ------------------------------
(* VisServer on small instances. *)
EXTENDS VisServer, TLC

CONSTANTS speed, SPEED

(* "Speed" and "SPEED" are the same ActionPath. *)
MCLower == [p \in Path |-> IF p = SPEED THEN speed ELSE p]

MCReqId == 1..MaxRequests

(* Two readings of the signal; any change is enough for a filter to pass   *)
(* the second after the first.                                             *)
MCValue == {PosInt(1), PosInt(3)}

OneValue == {PosInt(1)}

Every(period) == [interval |-> period, range |-> None, min_change |-> None]
MCFilters == {None, Every(1)}

(* Subscriptions and how they end. *)
SubscribeTexts ==
  {SubscribeAction(speed, f) : f \in Filters}
    \cup {UnsubscribeAction(id) : id \in SubId}
    \cup {UnsubscribeAllAction}

(* Requests of every kind, and all a session answers by itself. *)
RequestTexts ==
  {GetAction(speed), SetAction(speed, PosInt(1)), SubscribeAction(speed, None),
   UnsubscribeAllAction, AuthorizeAction, GetMetadataAction, Malformed}
    \cup {UnsubscribeAction(id) : id \in SubId}

(* The history of what the last handler sent is read by no action. *)
View == <<maps, actors>>

Symmetry == Permutations(Client) \cup Permutations(SubId)
===============================================================================
