------------------------------- MODULE VisServer -------------------------------
(***************************************************************************)
(* One worker of the server: the ClientSession actors (router.rs), the     *)
(* SignalManager, the Subscription actors (signal_manager.rs), the signal  *)
(* sources of AppState, and the mailboxes between them.                    *)
(*                                                                         *)
(* Every actor has an unbounded FIFO mailbox that do_send appends to; an   *)
(* actor handles one message at a time, and the actors of a worker share   *)
(* one thread that takes them in any order.  A message to a stopped actor  *)
(* is dropped, and so is what its mailbox still holds when it stops.       *)
(*                                                                         *)
(* Requests are numbered in the order they are received: the number is     *)
(* the request id.  Time is left out: when the timer of an interval fires, *)
(* the filter's interval may be over or not.                               *)
(***************************************************************************)
EXTENDS SignalManager, Sequences, FiniteSets

CONSTANTS
  I64_MAX,
  Texts,        \* the actions a client may send, without their request ids
  MaxRequests,  \* bound: texts received from all clients
  MaxSources,   \* bound: calls of set_signal, add_set_recipient, and of streams
  MaxReceived   \* bound: a timer fires only while its client has been sent less

INSTANCE Filter

(***************************************************************************)
(* api_type.rs Action; a text that is none of them is malformed.           *)
(***************************************************************************)
GetAction(p)          == [action |-> "get", path |-> p]
SetAction(p, v)       == [action |-> "set", path |-> p, value |-> v]
SubscribeAction(p, f) == [action |-> "subscribe", path |-> p, filters |-> f]
UnsubscribeAction(id) == [action |-> "unsubscribe", subscription_id |-> id]
UnsubscribeAllAction  == [action |-> "unsubscribeAll"]
AuthorizeAction       == [action |-> "authorize"]
GetMetadataAction     == [action |-> "getMetadata"]
Malformed             == [action |-> "malformed"]

Forwarded ==
  {GetAction(p) : p \in Path}
    \cup {SetAction(p, v) : p \in Path, v \in Value}
    \cup {SubscribeAction(p, f) : p \in Path, f \in Filters}
    \cup {UnsubscribeAction(id) : id \in SubId}
    \cup {UnsubscribeAllAction}

ASSUME TextsAssumption ==
  Texts \subseteq Forwarded \cup {AuthorizeAction, GetMetadataAction, Malformed}

ASSUME BoundsAssumption ==
  /\ MaxRequests \in Nat /\ MaxSources \in Nat /\ MaxReceived \in Nat
  /\ ReqId = 1..MaxRequests

(* The messages of the manager's mailbox. *)
ClientMessage(c, r, a) ==
  [msg |-> "ClientMessage", client_addr |-> c, request_id |-> r, message |-> a]
UpdateMessage(p, v) == [msg |-> "UpdateSignal", path |-> p, value |-> v]
AddSetMessage(p, rcpt) ==
  [msg |-> "AddSetRecipient", path |-> p, recipient |-> rcpt]

ManagerMessage ==
  {ClientMessage(c, r, a) : c \in Client, r \in ReqId, a \in Forwarded}
    \cup {ClientMessage(c, None, UnsubscribeAllAction) : c \in Client}
    \cup {UpdateMessage(p, v) : p \in Path, v \in Value}
    \cup {AddSetMessage(p, rcpt) : p \in Path, rcpt \in Recipient}

VARIABLES
  manager_mailbox,
  session,               \* "absent", "running" or "stopped"
  session_mailbox,
  wire,                  \* what a session has written to its websocket
  subscription,          \* the Subscription actor of an id, None if not running
  subscription_mailbox,
  closed_recipients,     \* recipients whose actors have stopped
  requests,              \* who sent what, in the order received
  sources                \* calls of the signal sources so far

actors == <<manager_mailbox, session, session_mailbox, wire, subscription,
            subscription_mailbox, closed_recipients, requests, sources>>
serverVars == <<vars, actors>>

Actor ==
  [client_addr : Client, filters : Filters,
   latest_signal_value : Value \cup {None},
   last_signal_value_client : Value \cup {None}]

ASSUME ActorAssumption == None \notin Actor

ServerTypeOK ==
  /\ TypeOK
  /\ manager_mailbox \in Seq(ManagerMessage)
  /\ session \in [Client -> {"absent", "running", "stopped"}]
  /\ session_mailbox \in [Client -> Seq(Response)]
  /\ wire \in [Client -> Seq(Response \cup {BAD_REQUEST})]
  /\ subscription \in [SubId -> Actor \cup {None}]
  /\ subscription_mailbox \in [SubId -> Seq(SubscriptionMessage)]
  /\ closed_recipients \subseteq Recipient
  /\ requests \in Seq([client : Client, action : {a.action : a \in Texts}])
  /\ sources \in 0..MaxSources

ServerInit ==
  /\ Init
  /\ manager_mailbox = <<>>
  /\ session = [c \in Client |-> "absent"]
  /\ session_mailbox = [c \in Client |-> <<>>]
  /\ wire = [c \in Client |-> <<>>]
  /\ subscription = [id \in SubId |-> None]
  /\ subscription_mailbox = [id \in SubId |-> <<>>]
  /\ closed_recipients = {}
  /\ requests = <<>>
  /\ sources = 0

Running(id) == subscription[id] # None

-------------------------------------------------------------------------------
(***************************************************************************)
(* ClientSession                                                           *)
(***************************************************************************)
ToManager(m) == manager_mailbox' = Append(manager_mailbox, m)

(* session_mailbox after Addr<ClientSession>::do_send *)
ToSession(c, response) ==
  IF session[c] = "running"
    THEN [session_mailbox EXCEPT ![c] = Append(@, response)]
    ELSE session_mailbox

Write(c, text) == wire' = [wire EXCEPT ![c] = Append(@, text)]

Connect(c) ==
  /\ session[c] = "absent"
  /\ session' = [session EXCEPT ![c] = "running"]
  /\ UNCHANGED <<vars, manager_mailbox, session_mailbox, wire, subscription,
                 subscription_mailbox, closed_recipients, requests, sources>>

(* Ids are random: a client only knows those that have been issued, and    *)
(* there are enough of them.                                               *)
Sendable(a) ==
  /\ a.action = "unsubscribe" => a.subscription_id \in issued
  /\ a.action = "subscribe" =>
       Cardinality({i \in DOMAIN requests : requests[i].action = "subscribe"})
         < Cardinality(SubId)

(* A faulty variant: the session answers a get from the cache by itself. *)
ReceiveTextShortcut(c, a) ==
  LET r == Len(requests) + 1
      cached == signal_cache[Lower[a.path]] IN
  /\ session[c] = "running"
  /\ r <= MaxRequests
  /\ Sendable(a)
  /\ a \in Forwarded
  /\ requests' = Append(requests, [client |-> c, action |-> a.action])
  /\ IF a.action = "get"
       THEN /\ Write(c, IF cached # None
                          THEN GetSuccess(r, cached)
                          ELSE GetError(r, NOT_FOUND_INVALID_PATH))
            /\ UNCHANGED manager_mailbox
       ELSE ToManager(ClientMessage(c, r, a)) /\ UNCHANGED wire
  /\ UNCHANGED <<vars, session, session_mailbox, subscription,
                 subscription_mailbox, closed_recipients, sources>>

(* StreamHandler::handle of a Text: dispatched to the manager, or answered *)
(* by the session itself.                                                  *)
ReceiveText(c, a) ==
  LET r == Len(requests) + 1 IN
  /\ session[c] = "running"
  /\ r <= MaxRequests
  /\ Sendable(a)
  /\ requests' = Append(requests, [client |-> c, action |-> a.action])
  /\ \/ /\ a \in Forwarded
        /\ ToManager(ClientMessage(c, r, a))
        /\ UNCHANGED wire
     \/ /\ a = AuthorizeAction
        /\ Write(c, AuthorizeError(r, NOT_IMPLEMENTED))
        /\ UNCHANGED manager_mailbox
     \/ /\ a = GetMetadataAction
        /\ Write(c, GetMetadataError(r, NOT_IMPLEMENTED))
        /\ UNCHANGED manager_mailbox
     \/ /\ a = Malformed
        /\ Write(c, BAD_REQUEST)
        /\ UNCHANGED manager_mailbox
  /\ UNCHANGED <<vars, session, session_mailbox, subscription,
                 subscription_mailbox, closed_recipients, sources>>

(* Faulty variants: the clean-up overtakes what the client has sent, is    *)
(* forgotten, or carries a request id.                                     *)
StopSession(c) ==
  /\ session[c] = "running"
  /\ session' = [session EXCEPT ![c] = "stopped"]
  /\ session_mailbox' = [session_mailbox EXCEPT ![c] = <<>>]
  /\ UNCHANGED <<vars, wire, subscription, subscription_mailbox,
                 closed_recipients, requests, sources>>

DisconnectOvertaking(c) ==
  /\ StopSession(c)
  /\ manager_mailbox' =
       <<ClientMessage(c, None, UnsubscribeAllAction)>> \o manager_mailbox

DisconnectForgetful(c) == StopSession(c) /\ UNCHANGED manager_mailbox

DisconnectNumbered(c) ==
  StopSession(c) /\ ToManager(ClientMessage(c, 0, UnsubscribeAllAction))

(* A Close message, the end of the stream or a protocol error: the context *)
(* stops and `stopped` cleans up.                                          *)
Disconnect(c) ==
  /\ session[c] = "running"
  /\ session' = [session EXCEPT ![c] = "stopped"]
  /\ session_mailbox' = [session_mailbox EXCEPT ![c] = <<>>]
  /\ ToManager(ClientMessage(c, None, UnsubscribeAllAction))
  /\ UNCHANGED <<vars, wire, subscription, subscription_mailbox,
                 closed_recipients, requests, sources>>

(* Handler<ActionSuccessResponse>, Handler<ActionErrorResponse> *)
SessionHandle(c) ==
  /\ session_mailbox[c] # <<>>
  /\ Write(c, Head(session_mailbox[c]))
  /\ session_mailbox' = [session_mailbox EXCEPT ![c] = Tail(@)]
  /\ UNCHANGED <<vars, manager_mailbox, session, subscription,
                 subscription_mailbox, closed_recipients, requests, sources>>

-------------------------------------------------------------------------------
(***************************************************************************)
(* The signal sources and the recipients of set requests.                  *)
(***************************************************************************)
FromSource(m) ==
  /\ sources < MaxSources
  /\ sources' = sources + 1
  /\ ToManager(m)
  /\ UNCHANGED <<vars, session, session_mailbox, wire, subscription,
                 subscription_mailbox, closed_recipients, requests>>

(* set_signal and spawn_stream_signal_source *)
SetSignal(p, v) == FromSource(UpdateMessage(p, v))

(* add_set_recipient *)
RegisterRecipient(p, rcpt) == FromSource(AddSetMessage(p, rcpt))

StopRecipient(rcpt) ==
  /\ rcpt \notin closed_recipients
  /\ closed_recipients' = closed_recipients \cup {rcpt}
  /\ UNCHANGED <<vars, manager_mailbox, session, session_mailbox, wire,
                 subscription, subscription_mailbox, requests, sources>>

-------------------------------------------------------------------------------
(***************************************************************************)
(* SignalManager: the handler of the message at the head of its mailbox,   *)
(* and the delivery of what the handler sends.                             *)
(***************************************************************************)
Deliver ==
  /\ session_mailbox' =
       [c \in Client |-> IF c \in DOMAIN sent'
                           THEN ToSession(c, sent'[c])[c]
                           ELSE session_mailbox[c]]
  /\ subscription_mailbox' =
       [id \in SubId |-> IF id \in DOMAIN sent' /\ Running(id)
                           THEN Append(subscription_mailbox[id], sent'[id])
                           ELSE subscription_mailbox[id]]

HandleSet(c, p, v, r) ==
  \/ SetWithoutRecipient(c, p, r)
  \/ /\ set_recipients[Lower[p]] \notin closed_recipients
     /\ SetForwarded(c, p, v, r)
  \/ /\ set_recipients[Lower[p]] \in closed_recipients
     /\ SetUndeliverable(c, p, r)

StartSubscription(id, c, f) ==
  subscription' =
    [subscription EXCEPT ![id] =
       [client_addr |-> c, filters |-> f,
        latest_signal_value |-> None, last_signal_value_client |-> None]]

HandleClientMessage(c, r, a) ==
  \/ /\ a.action = "subscribe"
     /\ \E id \in SubId : /\ Subscribe(c, a.path, r, id)
                          /\ StartSubscription(id, c, a.filters)
  \/ /\ \/ a.action = "get" /\ Get(c, a.path, r)
        \/ a.action = "set" /\ HandleSet(c, a.path, a.value, r)
        \/ a.action = "unsubscribe" /\ Unsubscribe(c, r, a.subscription_id)
        \/ a.action = "unsubscribeAll" /\ UnsubscribeAll(c, r)
     /\ UNCHANGED subscription

HandleSourceMessage(m) ==
  /\ \/ m.msg = "UpdateSignal" /\ UpdateSignal(m.path, m.value)
     \/ m.msg = "AddSetRecipient" /\ AddSetRecipient(m.path, m.recipient)
  /\ UNCHANGED subscription

ManagerHandle ==
  /\ manager_mailbox # <<>>
  /\ manager_mailbox' = Tail(manager_mailbox)
  /\ LET m == Head(manager_mailbox) IN
       \/ /\ m.msg = "ClientMessage"
          /\ HandleClientMessage(m.client_addr, m.request_id, m.message)
       \/ HandleSourceMessage(m)
  /\ Deliver
  /\ UNCHANGED <<session, wire, closed_recipients, requests, sources>>

-------------------------------------------------------------------------------
(* A faulty variant: what has been sent is not remembered. *)
SendAndForget(id, s, over) ==
  LET val == s.latest_signal_value
      outcome == Outcome(val, s.last_signal_value_client, s.filters, over) IN
  /\ subscription' = [subscription EXCEPT ![id] = s]
  /\ session_mailbox' = IF outcome = "notification"
                          THEN ToSession(s.client_addr, Subscription(id, val))
                          ELSE session_mailbox

(***************************************************************************)
(* Subscription: send_client_notification(latest_signal_value) in state s. *)
(***************************************************************************)
SendClientNotification(id, s, over) ==
  LET val == s.latest_signal_value
      outcome == Outcome(val, s.last_signal_value_client, s.filters, over) IN
  /\ subscription' =
       [subscription EXCEPT ![id] =
          IF outcome = "notification"
            THEN [s EXCEPT !.last_signal_value_client = val]
            ELSE s]
  /\ session_mailbox' =
       CASE outcome = "notification" ->
              ToSession(s.client_addr, Subscription(id, val))
         [] outcome = "error" ->
              ToSession(s.client_addr,
                SubscriptionNotificationError(id, BAD_REQUEST_FILTER_INVALID))
         [] outcome = "filtered" -> session_mailbox

HasInterval(s) == s.filters # None /\ s.filters.interval # None

(* A faulty variant: a value waiting for the timer is not replaced. *)
NotifyIfNoneWaits(id, v) ==
  LET s == IF HasInterval(subscription[id])
                /\ subscription[id].latest_signal_value # None
             THEN subscription[id]
             ELSE [subscription[id] EXCEPT !.latest_signal_value = v] IN
  /\ subscription_mailbox' = [subscription_mailbox EXCEPT ![id] = Tail(@)]
  /\ IF HasInterval(s)
       THEN /\ subscription' = [subscription EXCEPT ![id] = s]
            /\ UNCHANGED session_mailbox
       ELSE SendClientNotification(id, s, TRUE)

(* A faulty variant: a value is skipped when a newer one is queued. *)
NotifyUnlessOutdated(id, v) ==
  /\ subscription_mailbox' = [subscription_mailbox EXCEPT ![id] = Tail(@)]
  /\ IF Len(subscription_mailbox[id]) > 1
       THEN UNCHANGED <<subscription, session_mailbox>>
       ELSE SendClientNotification(
              id, [subscription[id] EXCEPT !.latest_signal_value = v], TRUE)

(* Handler<NotifySubscriber> *)
Notify(id, v) ==
  LET s == [subscription[id] EXCEPT !.latest_signal_value = v] IN
  /\ subscription_mailbox' = [subscription_mailbox EXCEPT ![id] = Tail(@)]
  /\ IF HasInterval(s)
       THEN /\ subscription' = [subscription EXCEPT ![id] = s]
            /\ UNCHANGED session_mailbox
       ELSE SendClientNotification(id, s, TRUE)

(* Handler<StopSubscription> *)
Stop(id) ==
  /\ subscription' = [subscription EXCEPT ![id] = None]
  /\ subscription_mailbox' = [subscription_mailbox EXCEPT ![id] = <<>>]
  /\ UNCHANGED session_mailbox

SubscriptionHandle(id) ==
  /\ subscription_mailbox[id] # <<>>
  /\ LET m == Head(subscription_mailbox[id]) IN
       \/ m.msg = "NotifySubscriber" /\ Notify(id, m.signal_value)
       \/ m.msg = "StopSubscription" /\ Stop(id)
  /\ UNCHANGED <<vars, manager_mailbox, session, wire, closed_recipients,
                 requests, sources>>

(* The closure given to run_interval, once there is a value to send. *)
Tick(id) ==
  /\ Running(id)
  /\ LET s == subscription[id] IN
       /\ HasInterval(s)
       /\ s.latest_signal_value # None
       /\ Len(wire[s.client_addr]) + Len(session_mailbox[s.client_addr])
            < MaxReceived
       /\ \E over \in BOOLEAN :
            /\ s.last_signal_value_client = None => over
            /\ SendClientNotification(id, s, over)
  /\ UNCHANGED <<vars, manager_mailbox, session, wire, subscription_mailbox,
                 closed_recipients, requests, sources>>

-------------------------------------------------------------------------------
ServerNext ==
  \/ \E c \in Client : Connect(c) \/ Disconnect(c) \/ SessionHandle(c)
  \/ \E c \in Client, a \in Texts : ReceiveText(c, a)
  \/ \E p \in Path, v \in Value : SetSignal(p, v)
  \/ \E p \in Path, rcpt \in Recipient : RegisterRecipient(p, rcpt)
  \/ \E rcpt \in Recipient : StopRecipient(rcpt)
  \/ ManagerHandle
  \/ \E id \in SubId : SubscriptionHandle(id) \/ Tick(id)

ServerSpec == ServerInit /\ [][ServerNext]_serverVars

(* The thread of the worker polls every actor that has a message.  Nothing *)
(* is assumed of clients, sources and timers.                              *)
ServerFairness ==
  /\ WF_serverVars(ManagerHandle)
  /\ \A c \in Client : WF_serverVars(SessionHandle(c))
  /\ \A id \in SubId : WF_serverVars(SubscriptionHandle(id))

FairServerSpec == ServerSpec /\ ServerFairness

-------------------------------------------------------------------------------
(* All a client has been sent, in order. *)
Received(c) == wire[c] \o session_mailbox[c]

Has(x, field) == field \in DOMAIN x

IsNotification(x) ==
  Has(x, "action") /\ x.action \in {"subscription", "subscriptionNotification"}

(***************************************************************************)
(* An update is handed to an id exactly while its actor is going to keep   *)
(* running: the manager's maps never list an actor that has stopped or has *)
(* been told to, and never lose one that has not, whatever the order of    *)
(* subscribes, unsubscribes and disconnects.                               *)
(***************************************************************************)
ListedIffRunning ==
  \A id \in SubId :
    Listed(id)
      <=> /\ Running(id)
          /\ \A i \in DOMAIN subscription_mailbox[id] :
               subscription_mailbox[id][i] # StopSubscription

(***************************************************************************)
(* When a session has stopped, the manager either still has its clean-up   *)
(* message to handle or lists none of its subscriptions: a subscribe that  *)
(* was queued when the client went away does not outlive the clean-up.     *)
(***************************************************************************)
DisconnectCleansUp ==
  \A c \in Client :
    session[c] = "stopped" =>
      \/ \E i \in DOMAIN manager_mailbox :
           manager_mailbox[i] = ClientMessage(c, None, UnsubscribeAllAction)
      \/ \A id \in SubId :
           Listed(id) => subscription_id_to_subscription[id].client # c

(***************************************************************************)
(* A client is notified only of subscriptions it has opened, and only      *)
(* after the answer that tells it the id: the client library looks the id  *)
(* of a notification up and drops those it does not know.                  *)
(***************************************************************************)
AcknowledgedBeforeNotified ==
  \A c \in Client :
    LET received == Received(c) IN
    \A i \in DOMAIN received :
      IsNotification(received[i]) =>
        \E j \in 1..(i - 1) :
          /\ Has(received[j], "action")
          /\ received[j].action = "subscribe"
          /\ received[j].subscription_id = received[i].subscription_id

(***************************************************************************)
(* No update is lost or overtaken between the cache of the manager and a   *)
(* subscription: the newest value on its way to a listed subscription, or  *)
(* the one it holds when none is, is the cached value of its signal.       *)
(***************************************************************************)
SubscriptionsFollowCache ==
  \A id \in {i \in SubId : Listed(i)} :
    LET cached ==
          signal_cache[Lower[subscription_id_to_subscription[id].path]]
        queued == subscription_mailbox[id] IN
    IF queued # <<>>
      THEN queued[Len(queued)] = NotifySubscriber(cached)
      ELSE subscription[id].latest_signal_value \in {None, cached}

(***************************************************************************)
(* What a running subscription believes its client was last sent is what   *)
(* the client was last sent; without filters that is the latest value.     *)
(***************************************************************************)
NotificationsOf(c, id) ==
  {i \in DOMAIN Received(c) :
     /\ Has(Received(c)[i], "action")
     /\ Received(c)[i].action = "subscription"
     /\ Received(c)[i].subscription_id = id}

ClientHasLastValue ==
  \A id \in {i \in SubId : Running(i)} :
    LET s == subscription[id]
        sent_to_client == NotificationsOf(s.client_addr, id) IN
    /\ session[s.client_addr] = "running" =>
         IF s.last_signal_value_client = None
           THEN sent_to_client = {}
           ELSE \E i \in sent_to_client :
                  /\ \A j \in sent_to_client : j <= i
                  /\ Received(s.client_addr)[i].value
                       = s.last_signal_value_client
    /\ s.filters = None => s.last_signal_value_client = s.latest_signal_value

(***************************************************************************)
(* A request is in exactly one place: in the manager's mailbox, or         *)
(* answered, once, to its client and no other.  When the client's session  *)
(* has stopped it may be answered to nobody.                               *)
(***************************************************************************)
AnswersTo(c, r) ==
  {i \in DOMAIN Received(c) :
     Has(Received(c)[i], "request_id") /\ Received(c)[i].request_id = r}

Queued(r) ==
  {i \in DOMAIN manager_mailbox :
     /\ manager_mailbox[i].msg = "ClientMessage"
     /\ manager_mailbox[i].request_id = r}

AnsweredOnce ==
  \A r \in DOMAIN requests :
    LET c == requests[r].client
        places == Cardinality(Queued(r)) + Cardinality(AnswersTo(c, r)) IN
    /\ places <= 1
    /\ session[c] = "running" /\ requests[r].action # "malformed" => places = 1
    /\ \A d \in Client \ {c} : AnswersTo(d, r) = {}

(***************************************************************************)
(* The manager's answers reach a client in the order of its requests.      *)
(***************************************************************************)
AnsweredInOrder ==
  \A c \in Client :
    LET received == Received(c)
        answers == {i \in DOMAIN received :
                      /\ Has(received[i], "request_id")
                      /\ received[i].action
                           \notin {"authorize", "getMetadata"}} IN
    \A i, j \in answers :
      i < j => received[i].request_id < received[j].request_id

(***************************************************************************)
(* Every request is eventually answered on the websocket, unless the       *)
(* client goes away.                                                       *)
(***************************************************************************)
Answered(r) ==
  /\ r \in DOMAIN requests
  /\ LET w == wire[requests[r].client] IN
       \E i \in DOMAIN w : Has(w[i], "request_id") /\ w[i].request_id = r

Gone(r) == r \in DOMAIN requests /\ session[requests[r].client] = "stopped"

EventuallyAnswered ==
  \A r \in ReqId :
    (r \in DOMAIN requests /\ requests[r].action # "malformed")
      ~> (Answered(r) \/ Gone(r))

(***************************************************************************)
(* The subscription actors of a client that has gone away stop, those      *)
(* included that a request still queued is about to start.                 *)
(***************************************************************************)
EventuallyStopped ==
  \A c \in Client, id \in SubId :
    (session[c] = "stopped" /\ Running(id) /\ subscription[id].client_addr = c)
      ~> ~Running(id)
===============================================================================
