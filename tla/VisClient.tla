------------------------------- MODULE VisClient -------------------------------
(***************************************************************************)
(* The client library (vehicle-information-service-client) against a       *)
(* worker of the server: applications connect, call one operation of their *)
(* VISClient, and read what its future or stream yields.                   *)
(*                                                                         *)
(* Every operation consumes the VISClient, so that a connection carries    *)
(* one request, and that connection is the client c of VisServer.  What    *)
(* the session writes (wire) reaches the library in order; how much of it  *)
(* is read before a broken connection is noticed is arbitrary.             *)
(*                                                                         *)
(* The source of signals is the counter of the example server: the updates *)
(* of INTERVAL are 0, 1, 2, ..., so that gaps and reorderings show in the  *)
(* values.                                                                 *)
(***************************************************************************)
EXTENDS VisServer, VisJson

CONSTANTS
  INTERVAL,  \* "Private.Example.Interval", the path of the counter
  Calls,     \* operations the applications may call
  Readable   \* the values that deserialize to the type T they ask for

GetCall(p)            == [call |-> "get", text |-> GetAction(p)]
SubscribeCall(p, f)   == [call |-> "subscribe", text |-> SubscribeAction(p, f)]
SubscribeRawCall(p, f) ==
  [call |-> "subscribe_raw", text |-> SubscribeAction(p, f)]
UnsubscribeAllCall == [call |-> "unsubscribe_all", text |-> UnsubscribeAllAction]

ASSUME IntervalAssumption == INTERVAL \in Path

ASSUME CallsAssumption ==
  /\ Calls \subseteq
       {GetCall(p) : p \in Path}
         \cup {SubscribeCall(p, f) : p \in Path, f \in Filters}
         \cup {SubscribeRawCall(p, f) : p \in Path, f \in Filters}
         \cup {UnsubscribeAllCall}
  /\ {o.text : o \in Calls} \subseteq Texts
  /\ None \notin Calls

ASSUME ValuesAssumption ==
  /\ Value = {PosInt(n) : n \in 0..(MaxSources - 1)}
  /\ Readable \subseteq Value

VARIABLES
  called,           \* the operation a client has called, or None
  position,         \* how many texts the library has read from the websocket
  subscription_id,  \* the Option<SubscriptionID> shared with the stream
  items,            \* what the future or stream has yielded
  finished,         \* the future has returned, the stream ended or was dropped
  observed_before   \* history: the newest value anybody had when c called

library == <<called, position, subscription_id, items, finished, observed_before>>
clientVars == <<serverVars, library>>

(***************************************************************************)
(* Items: Result<T, VISClientError>, and the panic of get.                 *)
(***************************************************************************)
OkValue(v)        == [result |-> "Ok", value |-> v]
OkSubscribed(id, v) == [result |-> "Ok", subscription_id |-> id, value |-> v]
OkResponse(x)     == [result |-> "Ok", response |-> x]
OkUnit            == [result |-> "Ok"]
VisError(x)       == [result |-> "VisError", error |-> x]
SerdeError        == [result |-> "SerdeError"]
WebSocketError    == [result |-> "WebSocketError"]
Panic             == [result |-> "panic"]

Item ==
  {OkValue(v) : v \in Value}
    \cup {OkSubscribed(id, v) : id \in SubId, v \in Value}
    \cup {OkResponse(x) : x \in ActionSuccessResponse}
    \cup {VisError(x) : x \in ActionErrorResponse}
    \cup {OkUnit, SerdeError, WebSocketError, Panic}

ClientTypeOK ==
  /\ ServerTypeOK
  /\ called \in [Client -> Calls \cup {None}]
  /\ position \in [Client -> Nat]
  /\ \A c \in Client : position[c] <= Len(wire[c])
  /\ subscription_id \in [Client -> SubId \cup {None}]
  /\ items \in [Client -> Seq(Item)]
  /\ finished \in [Client -> BOOLEAN]
  /\ observed_before \in [Client -> Value \cup {None}]

ClientInit ==
  /\ ServerInit
  /\ called = [c \in Client |-> None]
  /\ position = [c \in Client |-> 0]
  /\ subscription_id = [c \in Client |-> None]
  /\ items = [c \in Client |-> <<>>]
  /\ finished = [c \in Client |-> FALSE]
  /\ observed_before = [c \in Client |-> None]

(* The values in what a client has been given. *)
ValuesSeen(c) ==
  {items[c][i].value : i \in {j \in DOMAIN items[c] : Has(items[c][j], "value")}}
    \cup {items[c][i].response.value :
            i \in {j \in DOMAIN items[c] :
                     /\ Has(items[c][j], "response")
                     /\ Has(items[c][j].response, "value")}}

NewestSeen ==
  LET seen == UNION {ValuesSeen(c) : c \in Client} IN
  IF seen = {} THEN None ELSE CHOOSE v \in seen : \A w \in seen : w.n <= v.n

-------------------------------------------------------------------------------
(***************************************************************************)
(* VISClient::connect succeeds once the server has started a session.      *)
(* An operation consumes the client, splits it and awaits the send.        *)
(***************************************************************************)
Call(c, o) ==
  /\ session[c] # "absent"
  /\ called[c] = None
  /\ called' = [called EXCEPT ![c] = o]
  /\ observed_before' = [observed_before EXCEPT ![c] = NewestSeen]
  /\ UNCHANGED <<serverVars, position, subscription_id, items, finished>>

(* The request id is a fresh UUID; the server model's number stands for it. *)
Own(c, r) == r \in DOMAIN requests /\ requests[r].client = c

(* The text reaches the session. *)
Arrive(c) ==
  /\ called[c] # None
  /\ \A r \in DOMAIN requests : ~Own(c, r)
  /\ ReceiveText(c, called[c].text)
  /\ UNCHANGED library

Typed(v, item) == IF v \in Readable THEN <<item>> ELSE <<SerdeError>>

(* Faulty variants: an error text is not awaited; it is taken for a text   *)
(* that cannot be read.                                                    *)
GetItemsSuccessOnly(c, text) ==
  LET success == ReadSuccess(text) IN
  IF success # None /\ success.action = "get" /\ Own(c, success.request_id)
    THEN Typed(success.value, OkValue(success.value)) ELSE <<>>

GetItemsUntypedError(c, text) ==
  LET success == ReadSuccess(text) IN
  IF success = None THEN <<SerdeError>> ELSE GetItemsSuccessOnly(c, text)

(* What get makes of a text: an error ends it, whoever the error is for. *)
GetItems(c, text) ==
  LET success == ReadSuccess(text)
      error == ReadError(text) IN
  IF success # None
    THEN IF success.action = "get" /\ Own(c, success.request_id)
           THEN Typed(success.value, OkValue(success.value))
           ELSE <<>>
    ELSE IF error # None THEN <<VisError(error)>> ELSE <<SerdeError>>

(* A faulty variant: the answer is taken out of the stream. *)
SubscribeRawItemsUnanswered(text) ==
  LET success == ReadSuccess(text) IN
  IF success = None THEN <<SerdeError>>
  ELSE IF success.action = "subscribe" THEN <<>> ELSE <<OkResponse(success)>>

SubscribeRawItems(text) ==
  LET success == ReadSuccess(text) IN
  IF success # None THEN <<OkResponse(success)>> ELSE <<SerdeError>>

SubscribeItems(c, text) ==
  LET success == ReadSuccess(text) IN
  IF success = None THEN <<SerdeError>>
  ELSE IF /\ success.action = "subscription"
          /\ success.subscription_id = subscription_id[c]
         THEN Typed(success.value,
                    OkSubscribed(success.subscription_id, success.value))
         ELSE <<>>

(* A faulty variant: the id in the answer is not stored. *)
NeverStored(c, text) == subscription_id

(* The id is stored when the answer to the own request is read. *)
StoredId(c, text) ==
  LET success == ReadSuccess(text) IN
  IF success # None /\ success.action = "subscribe" /\ Own(c, success.request_id)
    THEN [subscription_id EXCEPT ![c] = success.subscription_id]
    ELSE subscription_id

(* Errors are logged only. *)
UnsubscribeAllItems(c, text) ==
  LET success == ReadSuccess(text) IN
  IF success # None /\ success.action = "unsubscribeAll"
       /\ Own(c, success.request_id)
    THEN <<OkUnit>> ELSE <<>>

Yields(c, text) ==
  CASE called[c].call = "get"             -> GetItems(c, text)
    [] called[c].call = "subscribe_raw"   -> SubscribeRawItems(text)
    [] called[c].call = "subscribe"       -> SubscribeItems(c, text)
    [] called[c].call = "unsubscribe_all" -> UnsubscribeAllItems(c, text)

(***************************************************************************)
(* The library reads the next text.  The future of get completes with its  *)
(* first item and drops the rest of the stream.                            *)
(***************************************************************************)
Poll(c) ==
  /\ called[c] # None
  /\ ~finished[c]
  /\ position[c] < Len(wire[c])
  /\ LET text == wire[c][position[c] + 1]
         yielded == Yields(c, text) IN
       /\ items' = [items EXCEPT ![c] = @ \o yielded]
       /\ finished' =
            [finished EXCEPT ![c] = called[c].call = "get" /\ yielded # <<>>]
       /\ subscription_id' =
            IF called[c].call = "subscribe" THEN StoredId(c, text)
                                            ELSE subscription_id
  /\ position' = [position EXCEPT ![c] = @ + 1]
  /\ UNCHANGED <<serverVars, called, observed_before>>

(***************************************************************************)
(* The connection is gone and the library has read all it will get of it:  *)
(* it fails, or the stream just ends and get unwraps None.                 *)
(***************************************************************************)
StreamEnds(c) ==
  /\ called[c] # None
  /\ ~finished[c]
  /\ session[c] = "stopped"
  /\ finished' = [finished EXCEPT ![c] = TRUE]
  /\ \/ items' = [items EXCEPT ![c] = Append(@, WebSocketError)]
     \/ items' = IF called[c].call = "get"
                   THEN [items EXCEPT ![c] = Append(@, Panic)] ELSE items
  /\ UNCHANGED <<serverVars, called, position, subscription_id, observed_before>>

(* The application drops the future or the stream. *)
Abandon(c) ==
  /\ called[c] # None
  /\ ~finished[c]
  /\ finished' = [finished EXCEPT ![c] = TRUE]
  /\ UNCHANGED <<serverVars, called, position, subscription_id, items,
                 observed_before>>

(* With its stream dropped the websocket closes, and the session notices. *)
HangUp(c) == finished[c] /\ Disconnect(c) /\ UNCHANGED library

(* IntervalSignalSource: the next count, every second. *)
IntervalTick == SetSignal(INTERVAL, PosInt(sources)) /\ UNCHANGED library

Server ==
  /\ \/ \E c \in Client : Connect(c) \/ Disconnect(c) \/ SessionHandle(c)
     \/ ManagerHandle
     \/ \E id \in SubId : SubscriptionHandle(id) \/ Tick(id)
  /\ UNCHANGED library

ClientNext ==
  \/ Server
  \/ IntervalTick
  \/ \E c \in Client, o \in Calls : Call(c, o)
  \/ \E c \in Client : Arrive(c) \/ Poll(c) \/ StreamEnds(c) \/ Abandon(c)

ClientSpec == ClientInit /\ [][ClientNext]_clientVars

(***************************************************************************)
(* Besides the worker's fairness: a text that was sent arrives while the   *)
(* connection lasts, an application keeps polling what it does not drop,   *)
(* and a connection that was closed is noticed.                            *)
(***************************************************************************)
ClientFairness ==
  /\ WF_clientVars(ManagerHandle /\ UNCHANGED library)
  /\ \A id \in SubId : WF_clientVars(SubscriptionHandle(id) /\ UNCHANGED library)
  /\ \A c \in Client :
       /\ WF_clientVars(SessionHandle(c) /\ UNCHANGED library)
       /\ WF_clientVars(Arrive(c))
       /\ WF_clientVars(Poll(c) \/ StreamEnds(c))
       /\ WF_clientVars(HangUp(c))

FairClientSpec == ClientSpec /\ ClientFairness

-------------------------------------------------------------------------------
Calling(c, call) == called[c] # None /\ called[c].call = call

IsOk(item) == item.result = "Ok"

(***************************************************************************)
(* No update is lost, repeated or overtaken between the counter and the    *)
(* application: the values a stream without filters yields are             *)
(* consecutive counts, one per item, an unreadable value being one too.    *)
(* They pass the manager's mailbox, the subscription's, the session's, the *)
(* websocket and the library's comparison of ids.                          *)
(***************************************************************************)
GaplessStream ==
  \A c \in Client :
    Calling(c, "subscribe") /\ called[c].text.filters = None =>
      \A i, j \in DOMAIN items[c] :
        i <= j /\ IsOk(items[c][i]) /\ IsOk(items[c][j]) =>
          items[c][j].value.n = items[c][i].value.n + (j - i)

(***************************************************************************)
(* Time does not run backwards across connections: a get returns no value  *)
(* older than one any application had before the call, and a stream opened *)
(* after a value was seen yields only newer ones.  The manager caches an   *)
(* update in the step that notifies of it; with several workers neither    *)
(* would hold.                                                             *)
(***************************************************************************)
ObservationsNeverGoBack ==
  \A c \in Client :
    observed_before[c] # None =>
      \A v \in ValuesSeen(c) :
        IF called[c].call = "get" THEN v.n >= observed_before[c].n
                                  ELSE v.n > observed_before[c].n

(***************************************************************************)
(* A get that completes while its connection works has the answer to its   *)
(* own request: the value, or the error the server gave for it, or a       *)
(* SerdeError because the value is not a T.                                *)
(***************************************************************************)
GetHasItsAnswer ==
  \A c \in Client :
    Calling(c, "get") /\ items[c] # <<>> =>
      LET item == items[c][1] IN
      /\ Len(items[c]) = 1
      /\ item.result = "VisError" =>
           item.error.action = "get" /\ Own(c, item.error.request_id)
      /\ item.result = "SerdeError" =>
           /\ ReadSuccess(wire[c][position[c]]) # None
           /\ wire[c][position[c]].value \notin Readable

(***************************************************************************)
(* tests/subscriptions.rs:13-35: the first response of subscribe_raw is    *)
(* the answer to the subscribe request; every other one is a notification  *)
(* of the subscription that answer names.                                  *)
(***************************************************************************)
RawStreamBeginsWithAnswer ==
  \A c \in Client :
    Calling(c, "subscribe_raw") =>
      \A i \in DOMAIN items[c] :
        IsOk(items[c][i]) =>
          LET x == items[c][i].response IN
          /\ IsOk(items[c][1])
          /\ IF i = 1
               THEN x.action = "subscribe" /\ Own(c, x.request_id)
               ELSE /\ x.action = "subscription"
                    /\ x.subscription_id = items[c][1].response.subscription_id

(***************************************************************************)
(* unsubscribe_all of the library ends no subscription of anybody: its     *)
(* connection has none, for the VISClient that subscribed was consumed,    *)
(* and the subscriptions of other connections are not its business.        *)
(***************************************************************************)
UnsubscribeAllEndsNothing ==
  [][\A id \in SubId :
       Listed(id) /\ ~Listed(id)' =>
         session[subscription_id_to_subscription[id].client] = "stopped"]_clientVars

(***************************************************************************)
(* A get returns, whatever becomes of the connection; it may fail.         *)
(***************************************************************************)
GetReturns == \A c \in Client : Calling(c, "get") ~> finished[c]

(***************************************************************************)
(* Every value handed to a subscription without filters comes out of its   *)
(* stream, unless the stream ends.                                         *)
(***************************************************************************)
Notified(id, v) ==
  /\ Running(id)
  /\ subscription[id].filters = None
  /\ \E i \in DOMAIN subscription_mailbox[id] :
       subscription_mailbox[id][i] = NotifySubscriber(v)

OwnerReads(id, v) ==
  /\ Registered(id)
  /\ LET c == subscription_id_to_subscription[id].client IN
       v \in ValuesSeen(c) \/ finished[c] \/ session[c] = "stopped"

StreamCatchesUp ==
  \A id \in SubId, v \in Readable :
    Notified(id, v) ~> OwnerReads(id, v)

(***************************************************************************)
(* A stream that was dropped, or ended, does not leave a subscription      *)
(* behind at the server, not even when the subscribe request was still on  *)
(* its way.                                                                *)
(***************************************************************************)
DroppedStreamsAreCleanedUp ==
  \A c \in Client :
    finished[c] ~>
      [](\A id \in SubId : Running(id) => subscription[id].client_addr # c)

(***************************************************************************)
(* lib.rs:163 `get_response.unwrap()` asserts that the stream of answers   *)
(* does not end before the answer.                                         *)
(***************************************************************************)
AnswerBeforeEnd ==
  \A c \in Client : \A i \in DOMAIN items[c] : items[c][i] # Panic
===============================================================================
