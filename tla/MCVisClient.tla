------------------------------ MODULE MCVisClient ------------------------------
(* VisClient on small instances. *)
EXTENDS VisClient, TLC

MCLower == [p \in Path |-> p]

MCReqId == 1..MaxRequests

Counts == {PosInt(n) : n \in 0..(MaxSources - 1)}

(* An application that asks for a type that cannot hold the second value. *)
NotOne == Counts \ {PosInt(1)}

Unfiltered == {None}

MCTexts == {o.text : o \in Calls}

AllCalls ==
  {GetCall(INTERVAL), SubscribeCall(INTERVAL, None), SubscribeRawCall(INTERVAL, None),
   UnsubscribeAllCall}

GetSubscribeAndEnd ==
  {GetCall(INTERVAL), SubscribeCall(INTERVAL, None), UnsubscribeAllCall}

GetCalls == {GetCall(INTERVAL)}

(* What only records what happened is left out. *)
ClientView == <<maps, actors, library>>

Symmetry == Permutations(Client) \cup Permutations(SubId)
===============================================================================
