-------------------------------- MODULE VisApi --------------------------------
(***************************************************************************)
(* The messages of the Vehicle Information Service: the JSON responses a   *)
(* client reads from its websocket (api_type.rs, api_error.rs) and the     *)
(* messages the actors of one worker exchange.                             *)
(*                                                                         *)
(* A response is a record whose fields are the members of the JSON object; *)
(* a success and an error share the "action" tag and differ only in their  *)
(* members.  Timestamps and the wording of errors are left out.            *)
(***************************************************************************)
EXTENDS Naturals

CONSTANTS
  Path,     \* signal paths as a client or a source may spell them
  Value,    \* JSON values of signals
  Filters,  \* values of the "filters" member of a subscribe request
  ReqId,    \* request ids chosen by the clients
  SubId,    \* the UUIDs Uuid::new_v4 may return
  None      \* the absent Option

(***************************************************************************)
(* api_error.rs: an error carries the HTTP status and the VIS reason.      *)
(***************************************************************************)
KnownError(number, reason) == [number |-> number, reason |-> reason]

NOT_FOUND_INVALID_PATH            == KnownError(404, "invalid_path")
NOT_FOUND_INVALID_SUBSCRIPTION_ID == KnownError(404, "invalid_subscriptionId")
SERVICE_UNAVAILABLE               == KnownError(503, "service_unavailable")
BAD_REQUEST_FILTER_INVALID        == KnownError(400, "filter_invalid")
NOT_IMPLEMENTED                   == KnownError(501, "Not Implemented")
BAD_REQUEST                       == KnownError(400, "Bad Request")

ActionError ==
  {NOT_FOUND_INVALID_PATH, NOT_FOUND_INVALID_SUBSCRIPTION_ID,
   SERVICE_UNAVAILABLE, BAD_REQUEST_FILTER_INVALID, NOT_IMPLEMENTED,
   BAD_REQUEST}

(***************************************************************************)
(* ActionSuccessResponse                                                   *)
(***************************************************************************)
GetSuccess(r, v) == [action |-> "get", request_id |-> r, value |-> v]
SetSuccess(r) == [action |-> "set", request_id |-> r]
SubscribeSuccess(r, id) ==
  [action |-> "subscribe", request_id |-> r, subscription_id |-> id]
UnsubscribeSuccess(r, id) ==
  [action |-> "unsubscribe", request_id |-> r, subscription_id |-> id]
UnsubscribeAllSuccess(r) == [action |-> "unsubscribeAll", request_id |-> r]
Subscription(id, v) ==
  [action |-> "subscription", subscription_id |-> id, value |-> v]

ActionSuccessResponse ==
  {GetSuccess(r, v) : r \in ReqId, v \in Value}
    \cup {SetSuccess(r) : r \in ReqId}
    \cup {SubscribeSuccess(r, id) : r \in ReqId, id \in SubId}
    \cup {UnsubscribeSuccess(r, id) : r \in ReqId, id \in SubId}
    \cup {UnsubscribeAllSuccess(r) : r \in ReqId}
    \cup {Subscription(id, v) : id \in SubId, v \in Value}

(***************************************************************************)
(* ActionErrorResponse                                                     *)
(***************************************************************************)
RequestError(action, r, e) ==
  [action |-> action, request_id |-> r, error |-> e]
GetError(r, e)         == RequestError("get", r, e)
SetError(r, e)         == RequestError("set", r, e)
AuthorizeError(r, e)   == RequestError("authorize", r, e)
GetMetadataError(r, e) == RequestError("getMetadata", r, e)
UnsubscribeError(r, id, e) ==
  [action |-> "unsubscribe", request_id |-> r, subscription_id |-> id,
   error |-> e]
SubscriptionNotificationError(id, e) ==
  [action |-> "subscriptionNotification", subscription_id |-> id, error |-> e]

ActionErrorResponse ==
  {RequestError(a, r, e) : a \in {"get", "set", "authorize", "getMetadata"},
                           r \in ReqId, e \in ActionError}
    \cup {UnsubscribeError(r, id, e) :
            r \in ReqId, id \in SubId, e \in ActionError}
    \cup {SubscriptionNotificationError(id, e) :
            id \in SubId, e \in ActionError}

Response == ActionSuccessResponse \cup ActionErrorResponse

(***************************************************************************)
(* Messages between actors: SignalManager to Subscription and to the       *)
(* recipient of a set.                                                     *)
(***************************************************************************)
NotifySubscriber(v) == [msg |-> "NotifySubscriber", signal_value |-> v]
StopSubscription    == [msg |-> "StopSubscription"]
SubscriptionMessage ==
  {NotifySubscriber(v) : v \in Value} \cup {StopSubscription}

SetRequest(r, p, v) ==
  [msg |-> "Set", request_id |-> r, path |-> p, value |-> v]
SetMessage == {SetRequest(r, p, v) : r \in ReqId, p \in Path, v \in Value}
===============================================================================
