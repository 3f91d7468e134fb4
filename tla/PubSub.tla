-------------------------------- MODULE PubSub --------------------------------
(***************************************************************************)
(* What a SignalManager promises, without its maps: a set of subscriptions *)
(* that are active, the latest value of every signal, and the              *)
(* notifications the current step hands out.  An update reaches exactly    *)
(* the subscriptions active on its signal, a subscription ends once, alone *)
(* or with all of its owner's, and an id is never used twice.  Who asked   *)
(* for a Close is not said here: SignalManager states it of its requests.  *)
(***************************************************************************)
CONSTANTS
  Client, Key, Value, SubId,
  None

VARIABLES
  active,    \* the subscriptions updates are handed to
  latest,    \* latest value per signal, None before the first update
  used,      \* ids ever given to a subscription
  notified   \* what the last step handed to subscriptions

vars == <<active, latest, used, notified>>

Sub == [id : SubId, client : Client, key : Key]

Init ==
  /\ active = {}
  /\ latest = [k \in Key |-> None]
  /\ used = {}
  /\ notified = {}

Publish(k, v) ==
  /\ latest' = [latest EXCEPT ![k] = v]
  /\ notified' = {[id |-> s.id, value |-> v] : s \in {t \in active : t.key = k}}
  /\ UNCHANGED <<active, used>>

Open(c, k, id) ==
  /\ id \notin used
  /\ used' = used \cup {id}
  /\ active' = active \cup {[id |-> id, client |-> c, key |-> k]}
  /\ notified' = {}
  /\ UNCHANGED latest

Close(s) ==
  /\ s \in active
  /\ active' = active \ {s}
  /\ notified' = {}
  /\ UNCHANGED <<latest, used>>

CloseAll(c) ==
  /\ active' = {s \in active : s.client # c}
  /\ notified' = {}
  /\ UNCHANGED <<latest, used>>

(* A request that concerns no subscription. *)
Other ==
  /\ notified' = {}
  /\ UNCHANGED <<active, latest, used>>

Next ==
  \/ \E k \in Key, v \in Value : Publish(k, v)
  \/ \E c \in Client, k \in Key, id \in SubId : Open(c, k, id)
  \/ \E s \in active : Close(s)
  \/ \E c \in Client : CloseAll(c)
  \/ Other

Spec == Init /\ [][Next]_vars
===============================================================================
