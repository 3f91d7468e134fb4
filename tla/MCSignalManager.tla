---------------------------- MODULE MCSignalManager ----------------------------
(* SignalManager on a small instance. *)
EXTENDS SignalManager, TLC

CONSTANTS speed, SPEED, rpm

(* "Speed" and "SPEED" are the same ActionPath. *)
MCLower == [p \in Path |-> IF p = SPEED THEN speed ELSE p]

(* Model values not named in MCLower are interchangeable. *)
Symmetry == Permutations(Client) \cup Permutations(SubId)
              \cup Permutations(ReqId) \cup Permutations(Value)
===============================================================================
