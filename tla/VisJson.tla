-------------------------------- MODULE VisJson --------------------------------
(***************************************************************************)
(* How the client library reads what the server has written: the derived   *)
(* deserializers of ActionSuccessResponse (api_type.rs) and of             *)
(* ActionErrorResponse (api_error.rs).                                     *)
(*                                                                         *)
(* Both enums are internally tagged by "action".  A text is read as the    *)
(* variant its tag names when it has the members of that variant; other    *)
(* members are ignored, and so is the timestamp.  The two enums share      *)
(* tags, and only the members tell a success from an error.                *)
(***************************************************************************)
EXTENDS VisApi

(* A response is told from the None of a text that cannot be read. *)
ASSUME OptionAssumption == None \notin Response

SuccessMembers ==
  [get            |-> {"request_id", "value"},
   set            |-> {"request_id"},
   unsubscribe    |-> {"request_id", "subscription_id"},
   unsubscribeAll |-> {"request_id"},
   subscription   |-> {"subscription_id", "value"},
   subscribe      |-> {"request_id", "subscription_id"}]

ErrorMembers ==
  [authorize                |-> {"request_id", "error"},
   getMetadata              |-> {"request_id", "error"},
   get                      |-> {"request_id", "error"},
   set                      |-> {"request_id", "error"},
   subscribe                |-> {"request_id", "error"},
   subscription             |-> {"request_id", "error"},
   subscriptionNotification |-> {"subscription_id", "error"},
   unsubscribe              |-> {"request_id", "subscription_id", "error"},
   unsubscribeAll           |-> {"request_id", "error"}]

Reads(text, members) ==
  /\ "action" \in DOMAIN text
  /\ text.action \in DOMAIN members
  /\ members[text.action] \subseteq DOMAIN text

Read(text, members) ==
  IF Reads(text, members)
    THEN [m \in {"action"} \cup members[text.action] |-> text[m]]
    ELSE None

(* A faulty variant: the value of a get may be missing. *)
ReadSuccessDefaulted(text) ==
  Read(text, [SuccessMembers EXCEPT !.get = {"request_id"}])

(* serde_json::from_str::<ActionSuccessResponse>, None when it fails *)
ReadSuccess(text) == Read(text, SuccessMembers)

(* serde_json::from_value::<ActionErrorResponse>, None when it fails *)
ReadError(text) == Read(text, ErrorMembers)
===============================================================================
