---------------------------- MODULE VisServerProofs ----------------------------
(***************************************************************************)
(* Theorems about VisServer, for every set of clients, ids, paths, values, *)
(* filters and recipients, and every bound.                                *)
(***************************************************************************)
EXTENDS VisServer, SignalManagerProofs, SequenceTheorems

(***************************************************************************)
(* What the messages in the manager's mailbox are.                         *)
(***************************************************************************)
LEMMA ForwardedShape ==
  ASSUME NEW a \in Forwarded
  PROVE  /\ a.action \in {"get", "set", "subscribe", "unsubscribe",
                          "unsubscribeAll"}
         /\ a.action = "get" => a.path \in Path
         /\ a.action = "set" => a.path \in Path /\ a.value \in Value
         /\ a.action = "subscribe" => a.path \in Path /\ a.filters \in Filters
         /\ a.action = "unsubscribe" => a.subscription_id \in SubId
BY DEF Forwarded, GetAction, SetAction, SubscribeAction, UnsubscribeAction,
       UnsubscribeAllAction

LEMMA MessageShape ==
  ASSUME NEW m \in ManagerMessage
  PROVE  /\ m.msg \in {"ClientMessage", "UpdateSignal", "AddSetRecipient"}
         /\ m.msg = "ClientMessage" =>
              /\ m.client_addr \in Client
              /\ m.message \in Forwarded
              /\ m.request_id \in ReqId \cup {None}
              /\ m.request_id = None => m.message.action = "unsubscribeAll"
         /\ m.msg = "UpdateSignal" => m.path \in Path /\ m.value \in Value
         /\ m.msg = "AddSetRecipient" =>
              m.path \in Path /\ m.recipient \in Recipient
<1>1. UnsubscribeAllAction \in Forwarded
  BY DEF Forwarded
<1>. QED
  BY <1>1, NoneAssumption
  DEF ManagerMessage, ClientMessage, UpdateMessage, AddSetMessage,
      UnsubscribeAllAction

LEMMA MailboxHead ==
  ASSUME NEW S, NEW q \in Seq(S), q # <<>>
  PROVE  Head(q) \in S /\ Tail(q) \in Seq(S)
OBVIOUS

(***************************************************************************)
(* What the manager does with a message is a step of SignalManager.        *)
(***************************************************************************)
LEMMA ManagerHandleIsNext ==
  ASSUME ServerTypeOK, ManagerHandle
  PROVE  Next
<1>. DEFINE m == Head(manager_mailbox)
<1>1. m \in ManagerMessage
  BY MailboxHead DEF ServerTypeOK, ManagerHandle
<1>2. CASE m.msg = "ClientMessage"
           /\ HandleClientMessage(m.client_addr, m.request_id, m.message)
  <2>. DEFINE c == m.client_addr
              r == m.request_id
              a == m.message
  <2>1. c \in Client /\ a \in Forwarded /\ r \in ReqId \cup {None}
    BY <1>1, <1>2, MessageShape
  <2>2. CASE r = None
    <3>1. a.action = "unsubscribeAll"
      BY <1>1, <1>2, <2>2, MessageShape
    <3>2. UnsubscribeAll(c, None)
      BY <1>2, <2>2, <3>1 DEF HandleClientMessage
    <3>. QED
      BY <2>1, <3>2 DEF Next
  <2>3. CASE r \in ReqId
    <3>1. CASE a.action = "get"
      BY <1>2, <2>1, <2>3, <3>1, ForwardedShape
      DEF HandleClientMessage, Next, Request
    <3>2. CASE a.action = "set"
      BY <1>2, <2>1, <2>3, <3>2, ForwardedShape
      DEF HandleClientMessage, HandleSet, Next, Request
    <3>3. CASE a.action = "subscribe"
      BY <1>2, <2>1, <2>3, <3>3, ForwardedShape
      DEF HandleClientMessage, Next, Request
    <3>4. CASE a.action = "unsubscribe"
      BY <1>2, <2>1, <2>3, <3>4, ForwardedShape
      DEF HandleClientMessage, Next, Request
    <3>5. CASE a.action = "unsubscribeAll"
      BY <1>2, <2>1, <2>3, <3>5 DEF HandleClientMessage, Next, Request
    <3>. QED
      BY <2>1, <3>1, <3>2, <3>3, <3>4, <3>5, ForwardedShape
  <2>. QED
    BY <2>1, <2>2, <2>3
<1>3. CASE HandleSourceMessage(m)
  BY <1>1, <1>3, MessageShape DEF HandleSourceMessage, Next
<1>. QED
  BY <1>2, <1>3 DEF ManagerHandle

(* Every other step leaves the manager alone. *)
LEMMA ServerNextIsNext ==
  ASSUME ServerTypeOK, [ServerNext]_serverVars
  PROVE  [Next]_vars
<1>1. CASE ManagerHandle
  BY <1>1, ManagerHandleIsNext
<1>2. CASE UNCHANGED serverVars
  BY <1>2 DEF serverVars
<1>3. ASSUME NEW c \in Client,
             Connect(c) \/ Disconnect(c) \/ SessionHandle(c)
      PROVE  UNCHANGED vars
  BY <1>3 DEF Connect, Disconnect, SessionHandle
<1>4. ASSUME NEW c \in Client, NEW a \in Texts, ReceiveText(c, a)
      PROVE  UNCHANGED vars
  BY <1>4 DEF ReceiveText
<1>5. ASSUME NEW p \in Path, NEW v \in Value, SetSignal(p, v)
      PROVE  UNCHANGED vars
  BY <1>5 DEF SetSignal, FromSource
<1>6. ASSUME NEW p \in Path, NEW rcpt \in Recipient, RegisterRecipient(p, rcpt)
      PROVE  UNCHANGED vars
  BY <1>6 DEF RegisterRecipient, FromSource
<1>7. ASSUME NEW rcpt \in Recipient, StopRecipient(rcpt)
      PROVE  UNCHANGED vars
  BY <1>7 DEF StopRecipient
<1>8. ASSUME NEW id \in SubId, SubscriptionHandle(id) \/ Tick(id)
      PROVE  UNCHANGED vars
  BY <1>8 DEF SubscriptionHandle, Tick
<1>. QED
  BY <1>1, <1>2, <1>3, <1>4, <1>5, <1>6, <1>7, <1>8 DEF ServerNext

(***************************************************************************)
(* Type correctness.                                                       *)
(***************************************************************************)
LEMMA SessionTexts ==
  ASSUME NEW r \in ReqId
  PROVE  /\ AuthorizeError(r, NOT_IMPLEMENTED) \in Response
         /\ GetMetadataError(r, NOT_IMPLEMENTED) \in Response
<1>1. NOT_IMPLEMENTED \in ActionError
  BY DEF ActionError
<1>2. /\ AuthorizeError(r, NOT_IMPLEMENTED) \in ActionErrorResponse
      /\ GetMetadataError(r, NOT_IMPLEMENTED) \in ActionErrorResponse
  BY <1>1 DEF ActionErrorResponse, AuthorizeError, GetMetadataError
<1>. QED
  BY <1>2 DEF Response

LEMMA NotificationTexts ==
  ASSUME NEW id \in SubId
  PROVE  /\ \A v \in Value : Subscription(id, v) \in Response
         /\ SubscriptionNotificationError(id, BAD_REQUEST_FILTER_INVALID)
              \in Response
<1>1. BAD_REQUEST_FILTER_INVALID \in ActionError
  BY DEF ActionError
<1>2. SubscriptionNotificationError(id, BAD_REQUEST_FILTER_INVALID)
        \in ActionErrorResponse
  BY <1>1 DEF ActionErrorResponse
<1>3. \A v \in Value : Subscription(id, v) \in ActionSuccessResponse
  BY DEF ActionSuccessResponse
<1>. QED
  BY <1>2, <1>3 DEF Response

LEMMA ToSessionType ==
  ASSUME ServerTypeOK, NEW c \in Client, NEW x \in Response
  PROVE  ToSession(c, x) \in [Client -> Seq(Response)]
BY DEF ServerTypeOK, ToSession

LEMMA WriteType ==
  ASSUME ServerTypeOK, NEW c \in Client, NEW x \in Response \cup {BAD_REQUEST},
         Write(c, x)
  PROVE  wire' \in [Client -> Seq(Response \cup {BAD_REQUEST})]
BY DEF ServerTypeOK, Write

LEMMA ToManagerType ==
  ASSUME ServerTypeOK, NEW m \in ManagerMessage, ToManager(m)
  PROVE  manager_mailbox' \in Seq(ManagerMessage)
BY DEF ServerTypeOK, ToManager

(* What send_client_notification makes of the actor and of the session's   *)
(* mailbox.                                                                *)
LEMMA SendType ==
  ASSUME ServerTypeOK, NEW id \in SubId, NEW s \in Actor, NEW over,
         s.latest_signal_value \in Value,
         SendClientNotification(id, s, over)
  PROVE  /\ subscription' \in [SubId -> Actor \cup {None}]
         /\ subscription'[id] \in Actor
         /\ session_mailbox' \in [Client -> Seq(Response)]
<1>. DEFINE val == s.latest_signal_value
            outcome == Outcome(val, s.last_signal_value_client, s.filters, over)
            t == [s EXCEPT !.last_signal_value_client = val]
<1>1. outcome \in {"notification", "error", "filtered"}
  BY DEF Outcome
<1>2. t \in Actor /\ s.client_addr \in Client
  BY DEF Actor
<1>3. subscription' = [subscription EXCEPT ![id] = t]
      \/ subscription' = [subscription EXCEPT ![id] = s]
  BY DEF SendClientNotification
<1>4. \/ session_mailbox' = ToSession(s.client_addr, Subscription(id, val))
      \/ session_mailbox' = ToSession(s.client_addr,
            SubscriptionNotificationError(id, BAD_REQUEST_FILTER_INVALID))
      \/ session_mailbox' = session_mailbox
  BY <1>1 DEF SendClientNotification
<1>5. /\ subscription' \in [SubId -> Actor \cup {None}]
      /\ subscription'[id] \in Actor
  <2>. HIDE DEF t
  <2>. QED
    BY <1>2, <1>3 DEF ServerTypeOK
<1>6. session_mailbox' \in [Client -> Seq(Response)]
  BY <1>2, <1>4, ToSessionType, NotificationTexts DEF ServerTypeOK
<1>. QED
  BY <1>5, <1>6

LEMMA ServerInitType == ServerInit => ServerTypeOK
BY InitType, BoundsAssumption DEF ServerInit, ServerTypeOK

LEMMA SessionType ==
  ASSUME ServerTypeOK, NEW c \in Client,
         Connect(c) \/ Disconnect(c) \/ SessionHandle(c)
  PROVE  ServerTypeOK'
<1>1. TypeOK'
  BY DEF Connect, Disconnect, SessionHandle, ServerTypeOK, TypeOK, vars, maps
<1>2. CASE Connect(c)
  BY <1>1, <1>2 DEF Connect, ServerTypeOK
<1>3. CASE Disconnect(c)
  <2>1. ClientMessage(c, None, UnsubscribeAllAction) \in ManagerMessage
    BY DEF ManagerMessage
  <2>2. manager_mailbox' \in Seq(ManagerMessage)
    BY <1>3, <2>1, ToManagerType DEF Disconnect
  <2>. QED
    BY <1>1, <1>3, <2>2 DEF Disconnect, ServerTypeOK
<1>4. CASE SessionHandle(c)
  <2>1. /\ Head(session_mailbox[c]) \in Response
        /\ Tail(session_mailbox[c]) \in Seq(Response)
    BY <1>4, MailboxHead DEF SessionHandle, ServerTypeOK
  <2>2. wire' \in [Client -> Seq(Response \cup {BAD_REQUEST})]
    BY <1>4, <2>1, WriteType DEF SessionHandle
  <2>. QED
    BY <1>1, <1>4, <2>1, <2>2 DEF SessionHandle, ServerTypeOK
<1>. QED
  BY <1>2, <1>3, <1>4

LEMMA ReceiveTextType ==
  ASSUME ServerTypeOK, NEW c \in Client, NEW a \in Texts, ReceiveText(c, a)
  PROVE  ServerTypeOK'
<1>. DEFINE r == Len(requests) + 1
<1>1. r \in ReqId
  BY BoundsAssumption DEF ReceiveText, ServerTypeOK
<1>2. requests' \in Seq([client : Client, action : {b.action : b \in Texts}])
  BY DEF ReceiveText, ServerTypeOK
<1>3. manager_mailbox' \in Seq(ManagerMessage)
  <2>1. a \in Forwarded => ClientMessage(c, r, a) \in ManagerMessage
    BY <1>1 DEF ManagerMessage
  <2>. HIDE DEF r
  <2>. QED
    BY <2>1, ToManagerType DEF ReceiveText, ServerTypeOK, r
<1>4. wire' \in [Client -> Seq(Response \cup {BAD_REQUEST})]
  BY <1>1, SessionTexts, WriteType DEF ReceiveText, ServerTypeOK
<1>5. TypeOK'
  BY DEF ReceiveText, ServerTypeOK, TypeOK, vars, maps
<1>. QED
  BY <1>2, <1>3, <1>4, <1>5 DEF ReceiveText, ServerTypeOK

LEMMA FromSourceType ==
  ASSUME ServerTypeOK, NEW m \in ManagerMessage, FromSource(m)
  PROVE  ServerTypeOK'
<1>1. TypeOK'
  BY DEF FromSource, ServerTypeOK, TypeOK, vars, maps
<1>2. sources' \in 0..MaxSources
  BY BoundsAssumption DEF FromSource, ServerTypeOK
<1>3. manager_mailbox' \in Seq(ManagerMessage)
  BY ToManagerType DEF FromSource
<1>. QED
  BY <1>1, <1>2, <1>3 DEF FromSource, ServerTypeOK

LEMMA DeliverType ==
  ASSUME ServerTypeOK, TypeOK', Deliver
  PROVE  /\ session_mailbox' \in [Client -> Seq(Response)]
         /\ subscription_mailbox' \in [SubId -> Seq(SubscriptionMessage)]
<1>1. \A c \in Client : c \in DOMAIN sent' => sent'[c] \in Response
  BY DEF TypeOK
<1>2. \A id \in SubId : id \in DOMAIN sent' => sent'[id] \in SubscriptionMessage
  BY DEF TypeOK
<1>3. ASSUME NEW c \in Client
      PROVE  session_mailbox'[c] \in Seq(Response)
  <2>1. session_mailbox[c] \in Seq(Response)
    BY DEF ServerTypeOK
  <2>2. CASE c \in DOMAIN sent'
    <3>1. ToSession(c, sent'[c]) \in [Client -> Seq(Response)]
      BY <1>1, <2>2, ToSessionType
    <3>2. session_mailbox'[c] = ToSession(c, sent'[c])[c]
      BY <2>2 DEF Deliver
    <3>. QED
      BY <3>1, <3>2
  <2>3. CASE c \notin DOMAIN sent'
    BY <2>1, <2>3 DEF Deliver
  <2>. QED
    BY <2>2, <2>3
<1>4. ASSUME NEW id \in SubId
      PROVE  subscription_mailbox'[id] \in Seq(SubscriptionMessage)
  BY <1>2 DEF Deliver, ServerTypeOK
<1>5. /\ session_mailbox' = [c \in Client |-> session_mailbox'[c]]
      /\ subscription_mailbox' = [id \in SubId |-> subscription_mailbox'[id]]
  BY DEF Deliver
<1>. QED
  BY <1>3, <1>4, <1>5

LEMMA ManagerHandleType ==
  ASSUME ServerTypeOK, ManagerHandle
  PROVE  ServerTypeOK'
<1>. DEFINE m == Head(manager_mailbox)
<1>1. TypeOK'
  BY ManagerHandleIsNext, NextType DEF ServerTypeOK
<1>2. m \in ManagerMessage /\ manager_mailbox' \in Seq(ManagerMessage)
  BY MailboxHead DEF ServerTypeOK, ManagerHandle
<1>3. subscription' \in [SubId -> Actor \cup {None}]
  <2>1. CASE m.msg = "ClientMessage"
             /\ HandleClientMessage(m.client_addr, m.request_id, m.message)
    <3>1. ASSUME NEW id \in SubId, m.message.action = "subscribe",
                 StartSubscription(id, m.client_addr, m.message.filters)
          PROVE  subscription' \in [SubId -> Actor \cup {None}]
      <4>1. m.client_addr \in Client /\ m.message.filters \in Filters
        BY <1>2, <2>1, <3>1, MessageShape, ForwardedShape
      <4>. QED
        BY <3>1, <4>1 DEF StartSubscription, Actor, ServerTypeOK
    <3>. QED
      BY <2>1, <3>1 DEF HandleClientMessage, ServerTypeOK
  <2>2. CASE HandleSourceMessage(m)
    BY <2>2 DEF HandleSourceMessage, ServerTypeOK
  <2>. QED
    BY <2>1, <2>2 DEF ManagerHandle
<1>4. /\ session_mailbox' \in [Client -> Seq(Response)]
      /\ subscription_mailbox' \in [SubId -> Seq(SubscriptionMessage)]
  BY <1>1, DeliverType DEF ManagerHandle
<1>. QED
  BY <1>1, <1>2, <1>3, <1>4 DEF ManagerHandle, ServerTypeOK

LEMMA SubscriptionHandleType ==
  ASSUME ServerTypeOK, NEW id \in SubId, SubscriptionHandle(id), Running(id)
  PROVE  ServerTypeOK'
<1>. DEFINE m == Head(subscription_mailbox[id])
<1>1. TypeOK'
  BY DEF SubscriptionHandle, ServerTypeOK, TypeOK, vars, maps
<1>2. /\ m \in SubscriptionMessage
      /\ Tail(subscription_mailbox[id]) \in Seq(SubscriptionMessage)
  BY MailboxHead DEF SubscriptionHandle, ServerTypeOK
<1>3. CASE m.msg = "NotifySubscriber" /\ Notify(id, m.signal_value)
  <2>. DEFINE s == [subscription[id] EXCEPT !.latest_signal_value =
                      m.signal_value]
  <2>1. m.signal_value \in Value
    BY <1>2, <1>3 DEF SubscriptionMessage, NotifySubscriber, StopSubscription
  <2>2. subscription[id] \in Actor
    BY DEF ServerTypeOK, Running
  <2>3. s \in Actor /\ s.latest_signal_value \in Value
    BY <2>1, <2>2 DEF Actor
  <2>4. subscription_mailbox' \in [SubId -> Seq(SubscriptionMessage)]
    BY <1>2, <1>3 DEF Notify, ServerTypeOK
  <2>5. /\ subscription' \in [SubId -> Actor \cup {None}]
        /\ session_mailbox' \in [Client -> Seq(Response)]
    <3>1. CASE HasInterval(s)
      <4>1. subscription' = [subscription EXCEPT ![id] = s]
            /\ UNCHANGED session_mailbox
        BY <1>3, <3>1 DEF Notify
      <4>. HIDE DEF s
      <4>. QED
        BY <2>3, <4>1 DEF ServerTypeOK
    <3>2. CASE ~HasInterval(s)
      <4>1. SendClientNotification(id, s, TRUE)
        BY <1>3, <3>2 DEF Notify
      <4>. HIDE DEF s
      <4>. QED
        BY <2>3, <4>1, SendType
    <3>. QED
      BY <3>1, <3>2
  <2>. QED
    BY <1>1, <2>4, <2>5 DEF SubscriptionHandle, ServerTypeOK
<1>4. CASE Stop(id)
  BY <1>1, <1>4 DEF Stop, SubscriptionHandle, ServerTypeOK
<1>. QED
  BY <1>3, <1>4 DEF SubscriptionHandle

LEMMA TickType ==
  ASSUME ServerTypeOK, NEW id \in SubId, Tick(id)
  PROVE  ServerTypeOK'
<1>1. TypeOK'
  BY DEF Tick, ServerTypeOK, TypeOK, vars, maps
<1>2. subscription[id] \in Actor /\ subscription[id].latest_signal_value \in Value
  BY DEF Tick, Running, ServerTypeOK, Actor
<1>3. PICK over \in BOOLEAN : SendClientNotification(id, subscription[id], over)
  BY DEF Tick
<1>4. /\ subscription' \in [SubId -> Actor \cup {None}]
      /\ session_mailbox' \in [Client -> Seq(Response)]
  BY <1>2, <1>3, SendType
<1>. QED
  BY <1>1, <1>4 DEF Tick, ServerTypeOK

(***************************************************************************)
(* A stopped actor has no messages, and only issued ids have actors.  With *)
(* this and RegistryCoherent, ListedIffRunning is inductive.               *)
(***************************************************************************)
ActorsCoherent ==
  \A id \in SubId :
    /\ ~Running(id) => subscription_mailbox[id] = <<>>
    /\ Running(id) => id \in issued

ServerIInv ==
  /\ ServerTypeOK
  /\ RegistryCoherent
  /\ ActorsCoherent
  /\ ListedIffRunning

LEMMA ServerNextType == ServerIInv /\ [ServerNext]_serverVars => ServerTypeOK'
<1>. SUFFICES ASSUME ServerIInv, [ServerNext]_serverVars PROVE ServerTypeOK'
  OBVIOUS
<1>. ServerTypeOK
  BY DEF ServerIInv
<1>1. CASE UNCHANGED serverVars
  BY <1>1 DEF serverVars, vars, maps, actors, ServerTypeOK, TypeOK
<1>2. ASSUME NEW p \in Path, NEW v \in Value, SetSignal(p, v)
      PROVE  ServerTypeOK'
  <2>1. UpdateMessage(p, v) \in ManagerMessage
    BY DEF ManagerMessage
  <2>. QED
    BY <1>2, <2>1, FromSourceType DEF SetSignal
<1>3. ASSUME NEW p \in Path, NEW rcpt \in Recipient, RegisterRecipient(p, rcpt)
      PROVE  ServerTypeOK'
  <2>1. AddSetMessage(p, rcpt) \in ManagerMessage
    BY DEF ManagerMessage
  <2>. QED
    BY <1>3, <2>1, FromSourceType DEF RegisterRecipient
<1>4. ASSUME NEW rcpt \in Recipient, StopRecipient(rcpt) PROVE ServerTypeOK'
  BY <1>4 DEF StopRecipient, ServerTypeOK, TypeOK, vars, maps
<1>5. ASSUME NEW id \in SubId, SubscriptionHandle(id) PROVE ServerTypeOK'
  <2>1. Running(id)
    BY <1>5 DEF SubscriptionHandle, ServerIInv, ActorsCoherent
  <2>. QED
    BY <1>5, <2>1, SubscriptionHandleType
<1>. QED
  BY <1>1, <1>2, <1>3, <1>4, <1>5, SessionType, ReceiveTextType,
     ManagerHandleType, TickType DEF ServerNext

(***************************************************************************)
(* Inductiveness of ListedIffRunning.  For a manager step it rests on      *)
(* Ends (no id is stopped and kept, none is dropped and left running) and  *)
(* on ids never becoming listed but by Subscribe.                          *)
(***************************************************************************)
NoStopQueued(id) ==
  \A i \in DOMAIN subscription_mailbox[id] :
    subscription_mailbox[id][i] # StopSubscription

LEMMA AppendKeeps ==
  ASSUME NEW S, NEW q \in Seq(S), NEW x \in S, NEW stop
  PROVE  (\A i \in DOMAIN Append(q, x) : Append(q, x)[i] # stop)
           <=> (\A i \in DOMAIN q : q[i] # stop) /\ x # stop
<1>1. /\ DOMAIN Append(q, x) = 1..(Len(q) + 1)
      /\ DOMAIN q = 1..Len(q)
      /\ \A i \in 1..Len(q) : Append(q, x)[i] = q[i]
      /\ Append(q, x)[Len(q) + 1] = x
      /\ Len(q) \in Nat
  OBVIOUS
<1>. QED
  BY <1>1

LEMMA TailKeeps ==
  ASSUME NEW S, NEW q \in Seq(S), q # <<>>, NEW stop
  PROVE  (\A i \in DOMAIN q : q[i] # stop)
           <=> (\A i \in DOMAIN Tail(q) : Tail(q)[i] # stop) /\ Head(q) # stop
<1>1. /\ Len(q) \in Nat /\ Len(q) >= 1
      /\ DOMAIN q = 1..Len(q)
      /\ DOMAIN Tail(q) = 1..(Len(q) - 1)
      /\ \A i \in 1..(Len(q) - 1) : Tail(q)[i] = q[i + 1]
      /\ Head(q) = q[1]
  OBVIOUS
<1>2. ASSUME \A i \in DOMAIN Tail(q) : Tail(q)[i] # stop, Head(q) # stop,
             NEW i \in DOMAIN q
      PROVE  q[i] # stop
  <2>1. CASE i = 1
    BY <1>1, <1>2, <2>1
  <2>2. CASE i # 1
    <3>1. i - 1 \in 1..(Len(q) - 1) /\ (i - 1) + 1 = i
      BY <1>1, <2>2
    <3>2. Tail(q)[i - 1] = q[i]
      BY <1>1, <3>1
    <3>. QED
      BY <1>1, <1>2, <3>1, <3>2
  <2>. QED
    BY <2>1, <2>2
<1>3. ASSUME \A i \in DOMAIN q : q[i] # stop
      PROVE  (\A i \in DOMAIN Tail(q) : Tail(q)[i] # stop) /\ Head(q) # stop
  BY <1>1, <1>3
<1>. QED
  BY <1>2, <1>3

(* No handler but Subscribe lists an id. *)
LEMMA OnlySubscribeLists ==
  ASSUME IInv, Next, NEW id \in SubId, ~Listed(id),
         ~ \E c \in Client, p \in Path, r \in ReqId, i \in SubId :
             Subscribe(c, p, r, i)
  PROVE  ~Listed(id)'
<1>1. CASE UNCHANGED path_to_subscription_id
  BY <1>1 DEF Listed
<1>2. ASSUME NEW ids, path_to_subscription_id' = Unlisted(ids)
      PROVE  ~Listed(id)'
  BY <1>2 DEF Listed, Unlisted
<1>3. ASSUME NEW c \in Client, NEW r \in ReqId, Request(c, r)
      PROVE  ~Listed(id)'
  <2>1. ASSUME NEW p \in Path,
               Get(c, p, r) \/ SetWithoutRecipient(c, p, r)
                           \/ SetUndeliverable(c, p, r)
        PROVE  UNCHANGED path_to_subscription_id
    BY <2>1 DEF Get, SetWithoutRecipient, SetUndeliverable, maps
  <2>2. ASSUME NEW p \in Path, NEW v \in Value, SetForwarded(c, p, v, r)
        PROVE  UNCHANGED path_to_subscription_id
    BY <2>2 DEF SetForwarded, maps
  <2>3. ASSUME NEW i \in SubId, Unsubscribe(c, r, i)
        PROVE  \/ UNCHANGED path_to_subscription_id
               \/ path_to_subscription_id' = Unlisted({i})
    BY <2>3 DEF Unsubscribe, UnsubscribeRefused, UnsubscribeOwned, maps
  <2>4. CASE UnsubscribeAll(c, r)
    BY <1>2, <2>4 DEF UnsubscribeAll
  <2>. QED
    BY <1>1, <1>2, <1>3, <2>1, <2>2, <2>3, <2>4 DEF Request
<1>4. ASSUME NEW c \in Client, UnsubscribeAll(c, None) PROVE ~Listed(id)'
  BY <1>2, <1>4 DEF UnsubscribeAll
<1>5. ASSUME NEW p \in Path, NEW v \in Value, UpdateSignal(p, v)
      PROVE  ~Listed(id)'
  BY <1>1, <1>5 DEF UpdateSignal
<1>6. ASSUME NEW p \in Path, NEW rcpt \in Recipient, AddSetRecipient(p, rcpt)
      PROVE  ~Listed(id)'
  BY <1>1, <1>6 DEF AddSetRecipient
<1>. QED
  BY <1>3, <1>4, <1>5, <1>6 DEF Next

(* What a handler sends to an id goes to its mailbox when it is running. *)
LEMMA DeliverQueues ==
  ASSUME ServerTypeOK, TypeOK', Deliver, NEW id \in SubId, Running(id)
  PROVE  NoStopQueued(id)' <=>
           /\ NoStopQueued(id)
           /\ ~(id \in DOMAIN sent' /\ sent'[id] = StopSubscription)
<1>1. CASE id \notin DOMAIN sent'
  BY <1>1 DEF Deliver, NoStopQueued
<1>2. CASE id \in DOMAIN sent'
  <2>1. sent'[id] \in SubscriptionMessage
    BY <1>2 DEF TypeOK
  <2>2. subscription_mailbox[id] \in Seq(SubscriptionMessage)
    BY DEF ServerTypeOK
  <2>3. subscription_mailbox'[id] = Append(subscription_mailbox[id], sent'[id])
    BY <1>2 DEF Deliver
  <2>. QED
    BY <1>2, <2>1, <2>2, <2>3, AppendKeeps DEF NoStopQueued
<1>. QED
  BY <1>1, <1>2

LEMMA ManagerHandleListed ==
  ASSUME ServerIInv, ManagerHandle
  PROVE  ListedIffRunning' /\ ActorsCoherent'
<1>. DEFINE m == Head(manager_mailbox)
            c == m.client_addr
            a == m.message
<1>. ServerTypeOK /\ IInv
  BY DEF ServerIInv, IInv, ServerTypeOK
<1>1. Next /\ TypeOK' /\ Deliver /\ m \in ManagerMessage
  BY ManagerHandleIsNext, NextType, MailboxHead DEF ManagerHandle, ServerTypeOK
<1>2. CASE \E id \in SubId : /\ m.msg = "ClientMessage"
                             /\ a.action = "subscribe"
                             /\ Subscribe(c, a.path, m.request_id, id)
                             /\ StartSubscription(id, c, a.filters)
  <2>1. PICK new \in SubId : /\ m.msg = "ClientMessage"
                             /\ a.action = "subscribe"
                             /\ Subscribe(c, a.path, m.request_id, new)
                             /\ StartSubscription(new, c, a.filters)
    BY <1>2
  <2>2. c \in Client /\ a \in Forwarded /\ m.request_id \in ReqId
    BY <1>1, <2>1, MessageShape
  <2>3. a.path \in Path
    BY <2>1, <2>2, ForwardedShape
  <2>4. \A id \in SubId : Listed(id)' <=> Listed(id) \/ id = new
    BY <2>1, <2>2, <2>3, SubscribeListed
  <2>5. \A id \in SubId : id \notin DOMAIN sent'
    BY <2>1, <2>2, AddrAssumption DEF Subscribe, Reply
  <2>6. subscription_mailbox' = subscription_mailbox
    BY <1>1, <2>5 DEF Deliver, ServerTypeOK
  <2>7. ~Running(new) /\ subscription_mailbox[new] = <<>>
    BY <2>1 DEF Subscribe, ServerIInv, ActorsCoherent
  <2>8. Running(new)'
    <3>1. [client_addr |-> c, filters |-> a.filters,
           latest_signal_value |-> None, last_signal_value_client |-> None]
            \in Actor
      BY <2>1, <2>2, ForwardedShape DEF Actor
    <3>. QED
      BY <2>1, <3>1, ActorAssumption DEF StartSubscription, Running, ServerTypeOK
  <2>9. \A id \in SubId \ {new} : Running(id)' <=> Running(id)
    BY <2>1 DEF StartSubscription, Running, ServerTypeOK
  <2>10. issued' = issued \cup {new}
    BY <2>1 DEF Subscribe
  <2>. QED
    BY <2>4, <2>6, <2>7, <2>8, <2>9, <2>10
    DEF ServerIInv, ListedIffRunning, ActorsCoherent
<1>3. CASE UNCHANGED <<subscription, issued>>
  <2>. ~ \E d \in Client, p \in Path, r \in ReqId, i \in SubId :
           Subscribe(d, p, r, i)
    BY <1>3 DEF Subscribe
  <2>1. ASSUME NEW id \in SubId
        PROVE  Listed(id)' <=> Running(id)' /\ NoStopQueued(id)'
    <3>1. Running(id)' <=> Running(id)
      BY <1>3 DEF Running
    <3>2. Listed(id) <=> Running(id) /\ NoStopQueued(id)
      BY DEF ServerIInv, ListedIffRunning, NoStopQueued
    <3>3. Ends(id)
      BY <1>1, NextEnds
    <3>4. ~Listed(id) => ~Listed(id)'
      BY <1>1, <1>3, OnlySubscribeLists
    <3>. QED
      BY <1>1, <3>1, <3>2, <3>3, <3>4, DeliverQueues DEF Ends
  <2>2. ASSUME NEW id \in SubId, ~Running(id)'
        PROVE  subscription_mailbox'[id] = <<>>
    BY <1>1, <1>3, <2>2 DEF Running, Deliver, ServerIInv, ActorsCoherent
  <2>3. \A id \in SubId : Running(id)' => id \in issued'
    BY <1>3 DEF Running, ServerIInv, ActorsCoherent
  <2>. QED
    BY <2>1, <2>2, <2>3 DEF ListedIffRunning, ActorsCoherent, NoStopQueued
<1>4. CASE HandleSourceMessage(m)
  BY <1>3, <1>4
  DEF HandleSourceMessage, UpdateSignal, AddSetRecipient
<1>5. CASE m.msg = "ClientMessage" /\ HandleClientMessage(c, m.request_id, a)
  BY <1>2, <1>3, <1>5
  DEF HandleClientMessage, HandleSet, Get, SetWithoutRecipient,
      SetForwarded, SetUndeliverable, Unsubscribe, UnsubscribeRefused,
      UnsubscribeOwned, UnsubscribeAll, maps
<1>. QED
  BY <1>4, <1>5 DEF ManagerHandle

LEMMA SubscriptionHandleListed ==
  ASSUME ServerIInv, NEW i \in SubId, SubscriptionHandle(i)
  PROVE  ListedIffRunning' /\ ActorsCoherent'
<1>. DEFINE m == Head(subscription_mailbox[i])
<1>1. Running(i) /\ subscription_mailbox[i] \in Seq(SubscriptionMessage)
  BY DEF SubscriptionHandle, ServerIInv, ActorsCoherent, ServerTypeOK
<1>2. /\ UNCHANGED issued
      /\ \A id \in SubId : Listed(id)' <=> Listed(id)
  BY DEF SubscriptionHandle, vars, maps, Listed
<1>3. \A id \in SubId \ {i} :
        /\ Running(id)' <=> Running(id)
        /\ subscription_mailbox'[id] = subscription_mailbox[id]
  BY DEF SubscriptionHandle, Notify, Stop, SendClientNotification, Running,
         ServerIInv, ServerTypeOK
<1>4. CASE m.msg = "NotifySubscriber" /\ Notify(i, m.signal_value)
  <2>1. subscription_mailbox'[i] = Tail(subscription_mailbox[i])
    BY <1>4 DEF Notify, ServerIInv, ServerTypeOK
  <2>2. m # StopSubscription
    <3>1. StopSubscription.msg = "StopSubscription"
      BY DEF StopSubscription
    <3>. HIDE DEF m
    <3>. QED
      BY <1>4, <3>1
  <2>3. NoStopQueued(i)' <=> NoStopQueued(i)
    <3>. DEFINE q == subscription_mailbox[i]
    <3>1. q # <<>>
      BY DEF SubscriptionHandle
    <3>2. NoStopQueued(i) <=> \A n \in DOMAIN q : q[n] # StopSubscription
      BY DEF NoStopQueued
    <3>3. NoStopQueued(i)'
            <=> \A n \in DOMAIN Tail(q) : Tail(q)[n] # StopSubscription
      BY <2>1 DEF NoStopQueued
    <3>. HIDE DEF q
    <3>4. q \in Seq(SubscriptionMessage) /\ Head(q) # StopSubscription
      BY <1>1, <2>2 DEF q
    <3>. QED
      BY <3>1, <3>2, <3>3, <3>4, TailKeeps
  <2>4. Running(i)'
    <3>. DEFINE s == [subscription[i] EXCEPT !.latest_signal_value =
                        m.signal_value]
    <3>1. m.signal_value \in Value
      BY <1>1, <1>4, MailboxHead
      DEF SubscriptionHandle, SubscriptionMessage, NotifySubscriber,
          StopSubscription
    <3>2. subscription[i] \in Actor
      BY <1>1 DEF Running, ServerIInv, ServerTypeOK
    <3>3. s \in Actor /\ s.latest_signal_value \in Value
      BY <3>1, <3>2 DEF Actor
    <3>4. \/ subscription' = [subscription EXCEPT ![i] = s]
          \/ SendClientNotification(i, s, TRUE)
      BY <1>4 DEF Notify
    <3>5. subscription'[i] \in Actor
      <4>. HIDE DEF s
      <4>. QED
        BY <3>3, <3>4, SendType DEF ServerIInv, ServerTypeOK
    <3>. QED
      BY <3>5, ActorAssumption DEF Running
  <2>. QED
    BY <1>1, <1>2, <1>3, <2>3, <2>4
    DEF ServerIInv, ListedIffRunning, ActorsCoherent, NoStopQueued
<1>5. CASE m.msg = "StopSubscription" /\ Stop(i)
  <2>1. ~Running(i)' /\ subscription_mailbox'[i] = <<>>
    BY <1>5 DEF Stop, Running, ServerIInv, ServerTypeOK
  <2>2. m = StopSubscription
    BY <1>1, <1>5, MailboxHead
    DEF SubscriptionHandle, SubscriptionMessage, NotifySubscriber,
        StopSubscription
  <2>3. ~NoStopQueued(i)
    BY <1>1, <2>2, TailKeeps DEF NoStopQueued, SubscriptionHandle
  <2>4. ~Listed(i)
    BY <2>3 DEF ServerIInv, ListedIffRunning, NoStopQueued
  <2>. QED
    BY <1>2, <1>3, <2>1, <2>4
    DEF ServerIInv, ListedIffRunning, ActorsCoherent
<1>. QED
  BY <1>4, <1>5 DEF SubscriptionHandle

(* A step that touches neither the manager nor the subscriptions. *)
LEMMA UntouchedListed ==
  ASSUME ServerIInv,
         UNCHANGED <<vars, subscription, subscription_mailbox>>
  PROVE  ListedIffRunning' /\ ActorsCoherent'
BY DEF vars, maps, Listed, Running, ServerIInv, ListedIffRunning,
       ActorsCoherent

LEMMA TickListed ==
  ASSUME ServerIInv, NEW i \in SubId, Tick(i)
  PROVE  ListedIffRunning' /\ ActorsCoherent'
<1>1. subscription[i] \in Actor /\ subscription[i].latest_signal_value \in Value
  BY DEF Tick, Running, ServerIInv, ServerTypeOK, Actor
<1>2. PICK over \in BOOLEAN : SendClientNotification(i, subscription[i], over)
  BY DEF Tick
<1>3. Running(i) /\ Running(i)'
  BY <1>1, <1>2, SendType, ActorAssumption DEF Tick, Running, ServerIInv
<1>4. \A id \in SubId : Running(id)' <=> Running(id)
  BY <1>2, <1>3
  DEF SendClientNotification, Running, ServerIInv, ServerTypeOK
<1>5. /\ UNCHANGED <<subscription_mailbox, issued>>
      /\ \A id \in SubId : Listed(id)' <=> Listed(id)
  BY DEF Tick, vars, maps, Listed
<1>. QED
  BY <1>4, <1>5 DEF ServerIInv, ListedIffRunning, ActorsCoherent

LEMMA ServerNextListed ==
  ServerIInv /\ [ServerNext]_serverVars => ListedIffRunning' /\ ActorsCoherent'
<1>. SUFFICES ASSUME ServerIInv, [ServerNext]_serverVars
              PROVE  ListedIffRunning' /\ ActorsCoherent'
  OBVIOUS
<1>1. CASE UNCHANGED serverVars
  BY <1>1, UntouchedListed DEF serverVars, actors
<1>2. ASSUME NEW c \in Client,
             Connect(c) \/ Disconnect(c) \/ SessionHandle(c)
      PROVE  ListedIffRunning' /\ ActorsCoherent'
  BY <1>2, UntouchedListed DEF Connect, Disconnect, SessionHandle
<1>3. ASSUME NEW c \in Client, NEW a \in Texts, ReceiveText(c, a)
      PROVE  ListedIffRunning' /\ ActorsCoherent'
  BY <1>3, UntouchedListed DEF ReceiveText
<1>4. ASSUME NEW p \in Path, NEW v \in Value, SetSignal(p, v)
      PROVE  ListedIffRunning' /\ ActorsCoherent'
  BY <1>4, UntouchedListed DEF SetSignal, FromSource
<1>5. ASSUME NEW p \in Path, NEW rcpt \in Recipient, RegisterRecipient(p, rcpt)
      PROVE  ListedIffRunning' /\ ActorsCoherent'
  BY <1>5, UntouchedListed DEF RegisterRecipient, FromSource
<1>6. ASSUME NEW rcpt \in Recipient, StopRecipient(rcpt)
      PROVE  ListedIffRunning' /\ ActorsCoherent'
  BY <1>6, UntouchedListed DEF StopRecipient
<1>. QED
  BY <1>1, <1>2, <1>3, <1>4, <1>5, <1>6, ManagerHandleListed,
     SubscriptionHandleListed, TickListed DEF ServerNext

LEMMA ServerInitially == ServerInit => ServerIInv
<1>. SUFFICES ASSUME ServerInit PROVE ServerIInv
  OBVIOUS
<1>1. Init => RegistryCoherent
  BY DEF Init, RegistryCoherent, OwnedAreRegistered, ListedAreRegistered,
         RegisteredAreIssued, Registered
<1>2. ListedIffRunning /\ ActorsCoherent
  BY DEF ServerInit, Init, ListedIffRunning, ActorsCoherent, Listed, Running
<1>. QED
  BY <1>1, <1>2, ServerInitType DEF ServerInit, ServerIInv

LEMMA ServerInductiveStep == ServerIInv /\ [ServerNext]_serverVars => ServerIInv'
<1>. SUFFICES ASSUME ServerIInv, [ServerNext]_serverVars PROVE ServerIInv'
  OBVIOUS
<1>1. RegistryCoherent'
  <2>1. TypeOK /\ RegistryCoherent /\ [Next]_vars
    BY ServerNextIsNext DEF ServerIInv, ServerTypeOK
  <2>. QED
    BY <2>1, NextCoherent DEF IInv
<1>. QED
  BY <1>1, ServerNextType, ServerNextListed DEF ServerIInv

LEMMA ServerInductive == ServerSpec => []ServerIInv
BY ServerInitially, ServerInductiveStep, PTL DEF ServerSpec

(***************************************************************************)
(* The actors of a worker, their mailboxes and what has been written to    *)
(* the websockets stay what VisServer says they are (router.rs,            *)
(* signal_manager.rs): every request the sessions forward and every        *)
(* message the manager sends is one its addressee has a handler for.       *)
(***************************************************************************)
THEOREM ServerTypeCorrect == ServerSpec => []ServerTypeOK
<1>1. ServerIInv => ServerTypeOK
  BY DEF ServerIInv
<1>. QED
  BY <1>1, ServerInductive, PTL

(***************************************************************************)
(* A worker never lists, for the fan-out of updates, an actor that has     *)
(* stopped or been told to, nor forgets one that has not                   *)
(* (signal_manager.rs UpdateSignal, subscribe.rs, unsubscribe.rs,          *)
(* unsubscribe_all.rs).                                                    *)
(***************************************************************************)
THEOREM ListedWhileRunning == ServerSpec => []ListedIffRunning
<1>1. ServerIInv => ListedIffRunning
  BY DEF ServerIInv
<1>. QED
  BY <1>1, ServerInductive, PTL

(***************************************************************************)
(* The composition implements SignalManager: whatever the sessions and the *)
(* sources put in the manager's mailbox, each of its steps is one that     *)
(* SignalManager allows.  So what is proved of SignalManager, PubSubSpec   *)
(* included, holds of a worker.                                            *)
(***************************************************************************)
THEOREM ServerImplementsManager == ServerSpec => Spec
<1>1. ServerInit => Init
  BY DEF ServerInit
<1>2. ServerIInv /\ [ServerNext]_serverVars => [Next]_vars
  BY ServerNextIsNext DEF ServerIInv
<1>. QED
  BY <1>1, <1>2, ServerInductive, PTL DEF ServerSpec, Spec

-------------------------------------------------------------------------------
(***************************************************************************)
(* The order in which the actors hear of each other: a client that has     *)
(* gone away leaves nothing behind, and no update is lost or overtaken     *)
(* between the cache and a subscription.                                   *)
(***************************************************************************)
LEMMA TailElements ==
  ASSUME NEW S, NEW q \in Seq(S), q # <<>>
  PROVE  /\ Len(q) \in Nat \ {0} /\ DOMAIN q = 1..Len(q)
         /\ Tail(q) \in Seq(S) /\ Len(Tail(q)) = Len(q) - 1
         /\ DOMAIN Tail(q) = 1..(Len(q) - 1)
         /\ \A i \in 1..(Len(q) - 1) : Tail(q)[i] = q[i + 1]
         /\ Head(q) = q[1] /\ Head(q) \in S
OBVIOUS

LEMMA TailLast ==
  ASSUME NEW S, NEW q \in Seq(S), q # <<>>
  PROVE  /\ Tail(q) = <<>> => Head(q) = q[Len(q)]
         /\ Tail(q) # <<>> => Tail(q)[Len(Tail(q))] = q[Len(q)]
<1>1. Tail(q) = <<>> <=> Len(q) = 1
  <2>1. Tail(q) \in Seq(S) /\ Len(Tail(q)) = Len(q) - 1 /\ Len(q) \in Nat
    BY TailElements
  <2>2. Tail(q) # <<>> => Len(Tail(q)) # 0
    BY <2>1, EmptySeq
  <2>3. Tail(q) = <<>> => Len(Tail(q)) = 0
    BY EmptySeq
  <2>. QED
    BY <2>1, <2>2, <2>3
<1>2. CASE Len(q) = 1
  BY <1>1, <1>2, TailElements
<1>3. CASE Len(q) # 1
  <2>1. Len(q) - 1 \in 1..(Len(q) - 1) /\ (Len(q) - 1) + 1 = Len(q)
    <3>1. Len(q) \in Nat \ {0}
      BY EmptySeq
    <3>2. \A n \in Nat \ {0} :
            n # 1 => n - 1 \in 1..(n - 1) /\ (n - 1) + 1 = n
      OBVIOUS
    <3>. QED
      BY <1>3, <3>1, <3>2
  <2>2. Tail(q)[Len(q) - 1] = q[(Len(q) - 1) + 1]
    BY <2>1, TailElements
  <2>. QED
    BY <1>1, <1>3, <2>1, <2>2, TailElements
<1>. QED
  BY <1>2, <1>3

LEMMA AppendElements ==
  ASSUME NEW S, NEW q \in Seq(S), NEW x \in S
  PROVE  /\ Len(q) \in Nat /\ DOMAIN q = 1..Len(q)
         /\ Append(q, x) \in Seq(S) /\ Len(Append(q, x)) = Len(q) + 1
         /\ DOMAIN Append(q, x) = 1..(Len(q) + 1)
         /\ \A i \in 1..Len(q) : Append(q, x)[i] = q[i]
         /\ Append(q, x)[Len(q) + 1] = x
OBVIOUS

(***************************************************************************)
(* A listed id was listed before a step of the manager, for the same       *)
(* owner and path, or is the one the message subscribes.                   *)
(***************************************************************************)
Subscribing(m, c) ==
  m.msg = "ClientMessage" /\ m.client_addr = c /\ m.message.action = "subscribe"

StaysListed(id) ==
  /\ Listed(id)
  /\ UNCHANGED subscription_id_to_subscription[id]
  /\ UNCHANGED subscription[id]

NewlyListed(id, m) ==
  /\ m.msg = "ClientMessage" /\ m.message.action = "subscribe"
  /\ subscription_id_to_subscription'[id].client = m.client_addr
  /\ UNCHANGED subscription_mailbox
  /\ subscription_mailbox[id] = <<>>
  /\ subscription'[id].latest_signal_value = None
  /\ subscription'[id].client_addr = m.client_addr

LEMMA ListedBefore ==
  ASSUME ServerIInv, ServerIInv', ManagerHandle, NEW id \in SubId, Listed(id)'
  PROVE  StaysListed(id) \/ NewlyListed(id, Head(manager_mailbox))
<1>. DEFINE m == Head(manager_mailbox)
            c == m.client_addr
            a == m.message
            r == m.request_id
<1>1. m \in ManagerMessage /\ Deliver
  BY MailboxHead DEF ManagerHandle, ServerIInv, ServerTypeOK
<1>2. Registered(id)'
  BY DEF Listed, ServerIInv, RegistryCoherent, ListedAreRegistered
<1>3. ASSUME m.msg = "ClientMessage", a.action = "subscribe", NEW new \in SubId,
             Subscribe(c, a.path, r, new), StartSubscription(new, c, a.filters)
      PROVE  StaysListed(id) \/ NewlyListed(id, m)
  <2>1. c \in Client /\ a \in Forwarded /\ r \in ReqId
    BY <1>1, <1>3, MessageShape
  <2>2. a.path \in Path
    BY <1>3, <2>1, ForwardedShape
  <2>3. Listed(id) \/ id = new
    BY <1>3, <2>1, <2>2, SubscribeListed DEF ServerIInv, IInv, ServerTypeOK
  <2>4. new \notin issued /\ ~Running(new) /\ ~Listed(new)
    BY <1>3 DEF Subscribe, ServerIInv, ActorsCoherent, ListedIffRunning
  <2>5. CASE id # new
    BY <1>3, <2>3, <2>5 DEF StaysListed, Subscribe, StartSubscription,
       ServerIInv, ServerTypeOK, TypeOK
  <2>6. CASE id = new
    <3>1. \A i \in SubId : i \notin DOMAIN sent'
      BY <1>3, <2>1, AddrAssumption DEF Subscribe, Reply
    <3>2. subscription_mailbox' = subscription_mailbox
      BY <1>1, <3>1 DEF Deliver, ServerIInv, ServerTypeOK
    <3>3. subscription_mailbox[new] = <<>>
      BY <2>4 DEF ServerIInv, ActorsCoherent
    <3>4. subscription_id_to_subscription'[id] = [client |-> c, path |-> a.path]
      BY <1>3, <2>6 DEF Subscribe, ServerIInv, ServerTypeOK, TypeOK
    <3>5. subscription'[id] =
            [client_addr |-> c, filters |-> a.filters,
             latest_signal_value |-> None, last_signal_value_client |-> None]
      BY <1>3, <2>6 DEF StartSubscription, ServerIInv, ServerTypeOK
    <3>. QED
      BY <1>3, <2>6, <3>2, <3>3, <3>4, <3>5 DEF NewlyListed
  <2>. QED
    BY <2>5, <2>6
<1>4. ASSUME UNCHANGED <<subscription, subscription_id_to_subscription,
                         path_to_subscription_id>>
      PROVE  StaysListed(id)
  BY <1>4 DEF StaysListed, Listed
<1>5. ASSUME NEW ids, path_to_subscription_id' = Unlisted(ids),
             UNCHANGED subscription,
             UNCHANGED subscription_id_to_subscription[id]
      PROVE  StaysListed(id)
  BY <1>5 DEF StaysListed, Listed, Unlisted
<1>6. ASSUME m.msg = "ClientMessage", HandleClientMessage(c, r, a)
      PROVE  StaysListed(id) \/ NewlyListed(id, m)
  <2>1. CASE a.action = "get" /\ Get(c, a.path, r) /\ UNCHANGED subscription
    BY <1>4, <2>1 DEF Get, maps
  <2>2. CASE a.action = "set" /\ HandleSet(c, a.path, a.value, r)
             /\ UNCHANGED subscription
    BY <1>4, <2>2
    DEF HandleSet, SetWithoutRecipient, SetForwarded, SetUndeliverable, maps
  <2>3. CASE Unsubscribe(c, r, a.subscription_id) /\ UNCHANGED subscription
             /\ a.action = "unsubscribe"
    <3>1. CASE UnsubscribeRefused(c, r, a.subscription_id)
      BY <1>4, <2>3, <3>1 DEF UnsubscribeRefused, maps
    <3>2. CASE UnsubscribeOwned(c, r, a.subscription_id)
      <4>1. CASE subscription_id_to_subscription[a.subscription_id] = None
        BY <1>4, <2>3, <3>2, <4>1 DEF UnsubscribeOwned
      <4>2. CASE subscription_id_to_subscription[a.subscription_id] # None
        <5>1. /\ path_to_subscription_id' = Unlisted({a.subscription_id})
              /\ subscription_id_to_subscription' =
                   [subscription_id_to_subscription EXCEPT
                      ![a.subscription_id] = None]
          BY <3>2, <4>2 DEF UnsubscribeOwned
        <5>2. UNCHANGED subscription_id_to_subscription[id]
          BY <1>2, <5>1 DEF Registered, ServerIInv, ServerTypeOK, TypeOK
        <5>. QED
          BY <1>5, <2>3, <5>1, <5>2
      <4>. QED
        BY <4>1, <4>2
    <3>. QED
      BY <2>3, <3>1, <3>2 DEF Unsubscribe
  <2>4. CASE UnsubscribeAll(c, r) /\ UNCHANGED subscription
    BY <1>5, <2>4 DEF UnsubscribeAll
  <2>. QED
    BY <1>3, <1>6, <2>1, <2>2, <2>3, <2>4 DEF HandleClientMessage
<1>7. ASSUME HandleSourceMessage(m) PROVE StaysListed(id)
  BY <1>4, <1>7 DEF HandleSourceMessage, UpdateSignal, AddSetRecipient
<1>. QED
  BY <1>6, <1>7 DEF ManagerHandle

(***************************************************************************)
(* When a session has stopped, its clean-up is queued behind all its       *)
(* subscribes, or none of those is left and it owns nothing listed.        *)
(***************************************************************************)
CleanUp(c) == ClientMessage(c, None, UnsubscribeAllAction)

CleanUpIsLast(c) ==
  \E i \in DOMAIN manager_mailbox :
    /\ manager_mailbox[i] = CleanUp(c)
    /\ \A j \in DOMAIN manager_mailbox :
         Subscribing(manager_mailbox[j], c) => j < i

OwnsNothing(c) ==
  /\ \A j \in DOMAIN manager_mailbox : ~Subscribing(manager_mailbox[j], c)
  /\ \A id \in SubId :
       Listed(id) => subscription_id_to_subscription[id].client # c

CleanUpInv ==
  \A c \in Client :
    session[c] = "stopped" => CleanUpIsLast(c) \/ OwnsNothing(c)

LEMMA CleanUpShape ==
  ASSUME NEW c \in Client
  PROVE  /\ CleanUp(c) \in ManagerMessage
         /\ \A d \in Client : ~Subscribing(CleanUp(c), d)
         /\ CleanUp(c).msg = "ClientMessage" /\ CleanUp(c).client_addr = c
         /\ CleanUp(c).request_id = None
         /\ CleanUp(c).message.action = "unsubscribeAll"
BY DEF CleanUp, ManagerMessage, ClientMessage, UnsubscribeAllAction, Subscribing

(* A message that does not subscribe is appended. *)
LEMMA AppendCleanUp ==
  ASSUME ServerTypeOK, NEW c \in Client, NEW m \in ManagerMessage,
         ToManager(m), ~Subscribing(m, c),
         UNCHANGED <<path_to_subscription_id, subscription_id_to_subscription>>,
         CleanUpIsLast(c) \/ OwnsNothing(c)
  PROVE  CleanUpIsLast(c)' \/ OwnsNothing(c)'
<1>. DEFINE q == manager_mailbox
<1>1. q \in Seq(ManagerMessage) /\ manager_mailbox' = Append(q, m)
  BY DEF ServerTypeOK, ToManager
<1>2. /\ Len(q) \in Nat /\ DOMAIN q = 1..Len(q)
      /\ DOMAIN manager_mailbox' = 1..(Len(q) + 1)
      /\ \A i \in 1..Len(q) : manager_mailbox'[i] = q[i]
      /\ manager_mailbox'[Len(q) + 1] = m
  BY <1>1, AppendElements
<1>3. CASE CleanUpIsLast(c)
  BY <1>2, <1>3 DEF CleanUpIsLast
<1>4. CASE OwnsNothing(c)
  BY <1>2, <1>4 DEF OwnsNothing, Listed
<1>. QED
  BY <1>3, <1>4

LEMMA DisconnectCleanUp ==
  ASSUME ServerTypeOK, CleanUpInv, NEW c \in Client, Disconnect(c)
  PROVE  CleanUpInv'
<1>. DEFINE q == manager_mailbox
<1>1. /\ q \in Seq(ManagerMessage) /\ manager_mailbox' = Append(q, CleanUp(c))
      /\ CleanUp(c) \in ManagerMessage
  BY CleanUpShape DEF ServerTypeOK, Disconnect, ToManager, CleanUp
<1>2. CleanUpIsLast(c)'
  <2>1. /\ Len(q) \in Nat
        /\ DOMAIN manager_mailbox' = 1..(Len(q) + 1)
        /\ manager_mailbox'[Len(q) + 1] = CleanUp(c)
    BY <1>1, AppendElements
  <2>2. \A j \in 1..(Len(q) + 1) :
          Subscribing(manager_mailbox'[j], c) => j < Len(q) + 1
    BY <2>1, CleanUpShape
  <2>. QED
    BY <2>1, <2>2 DEF CleanUpIsLast, CleanUp, Subscribing
<1>3. ASSUME NEW d \in Client, d # c, session'[d] = "stopped"
      PROVE  CleanUpIsLast(d)' \/ OwnsNothing(d)'
  <2>1. session[d] = "stopped"
    BY <1>3 DEF Disconnect, ServerTypeOK
  <2>2. UNCHANGED <<path_to_subscription_id, subscription_id_to_subscription>>
        /\ ToManager(CleanUp(c))
    BY DEF Disconnect, vars, maps, CleanUp
  <2>. QED
    BY <1>1, <1>3, <2>1, <2>2, CleanUpShape, AppendCleanUp DEF CleanUpInv
<1>. QED
  BY <1>2, <1>3 DEF CleanUpInv

LEMMA ManagerHandleCleanUp ==
  ASSUME ServerIInv, ServerIInv', CleanUpInv, ManagerHandle
  PROVE  CleanUpInv'
<1>. DEFINE q == manager_mailbox
            m == Head(manager_mailbox)
<1>1. /\ q \in Seq(ManagerMessage) /\ q # <<>> /\ m \in ManagerMessage
      /\ manager_mailbox' = Tail(q)
      /\ UNCHANGED session
  BY MailboxHead DEF ManagerHandle, ServerIInv, ServerTypeOK
<1>2. /\ Len(q) \in Nat \ {0} /\ DOMAIN q = 1..Len(q)
      /\ DOMAIN manager_mailbox' = 1..(Len(q) - 1)
      /\ \A i \in 1..(Len(q) - 1) : manager_mailbox'[i] = q[i + 1]
      /\ m = q[1]
  BY <1>1, TailElements
<1>. SUFFICES ASSUME NEW c \in Client, session[c] = "stopped"
              PROVE  CleanUpIsLast(c)' \/ OwnsNothing(c)'
  BY <1>1 DEF CleanUpInv
<1>3. ASSUME NEW i \in DOMAIN q, i # 1, q[i] = CleanUp(c),
             \A j \in DOMAIN q : Subscribing(q[j], c) => j < i
      PROVE  CleanUpIsLast(c)'
  <2>1. i - 1 \in 1..(Len(q) - 1) /\ manager_mailbox'[i - 1] = CleanUp(c)
    BY <1>2, <1>3
  <2>2. \A j \in 1..(Len(q) - 1) : Subscribing(q[j + 1], c) => j < i - 1
    BY <1>2, <1>3
  <2>3. \A j \in 1..(Len(q) - 1) :
          Subscribing(manager_mailbox'[j], c) => j < i - 1
    BY <1>2, <2>2
  <2>. QED
    BY <1>2, <2>1, <2>3 DEF CleanUpIsLast, CleanUp, Subscribing
<1>4. ASSUME \A j \in DOMAIN q : ~Subscribing(q[j], c),
             \A id \in SubId :
               Listed(id)' /\ StaysListed(id) =>
                 subscription_id_to_subscription'[id].client # c
      PROVE  OwnsNothing(c)'
  <2>1. \A j \in 1..(Len(q) - 1) : ~Subscribing(manager_mailbox'[j], c)
    BY <1>2, <1>4
  <2>2. ~Subscribing(m, c)
    BY <1>2, <1>4
  <2>3. ASSUME NEW id \in SubId, Listed(id)'
        PROVE  subscription_id_to_subscription'[id].client # c
    BY <1>4, <2>2, <2>3, ListedBefore DEF NewlyListed, Subscribing
  <2>. QED
    BY <1>2, <2>1, <2>3 DEF OwnsNothing, Subscribing
<1>5. ASSUME q[1] = CleanUp(c), \A j \in DOMAIN q : Subscribing(q[j], c) => j < 1
      PROVE  OwnsNothing(c)'
  <2>1. UnsubscribeAll(c, None)
    <3>1. /\ m.msg = "ClientMessage" /\ m.message.action = "unsubscribeAll"
          /\ m.client_addr = c /\ m.request_id = None
      BY <1>2, <1>5, CleanUpShape
    <3>2. ~HandleSourceMessage(m)
      BY <3>1 DEF HandleSourceMessage
    <3>. QED
      BY <3>1, <3>2 DEF ManagerHandle, HandleClientMessage
  <2>2. ASSUME NEW id \in SubId, Listed(id)'
        PROVE  subscription_id_to_subscription'[id].client # c
    <3>1. PICK k \in Key : /\ id \in path_to_subscription_id[k]
                           /\ id \notin {o \in OwnSubscriptions(c) :
                                Lower[subscription_id_to_subscription[o].path] = k}
      BY <2>1, <2>2 DEF Listed, UnsubscribeAll, Unlisted
    <3>2. /\ Registered(id)
          /\ Lower[subscription_id_to_subscription[id].path] = k
      BY <3>1 DEF ServerIInv, RegistryCoherent, ListedAreRegistered
    <3>3. id \notin addr_to_subscription_ids[c]
      BY <3>1, <3>2 DEF OwnSubscriptions
    <3>4. subscription_id_to_subscription[id].client # c
      BY <3>2, <3>3 DEF ServerIInv, RegistryCoherent, OwnedAreRegistered
    <3>. QED
      BY <2>1, <3>4 DEF UnsubscribeAll
  <2>3. \A j \in DOMAIN q : ~Subscribing(q[j], c)
    BY <1>2, <1>5
  <2>. QED
    BY <1>4, <2>2, <2>3
<1>6. CASE CleanUpIsLast(c)
  BY <1>2, <1>3, <1>5, <1>6 DEF CleanUpIsLast
<1>7. CASE OwnsNothing(c)
  BY <1>4, <1>7 DEF OwnsNothing, StaysListed
<1>. QED
  BY <1>6, <1>7 DEF CleanUpInv

LEMMA ReceiveTextCleanUp ==
  ASSUME ServerTypeOK, CleanUpInv, NEW c \in Client, NEW a \in Texts,
         ReceiveText(c, a)
  PROVE  CleanUpInv'
<1>. DEFINE r == Len(requests) + 1
            x == ClientMessage(c, r, a)
<1>1. session[c] = "running" /\ UNCHANGED session
      /\ UNCHANGED <<path_to_subscription_id, subscription_id_to_subscription>>
  BY DEF ReceiveText, vars, maps
<1>. SUFFICES ASSUME NEW d \in Client, session[d] = "stopped"
              PROVE  CleanUpIsLast(d)' \/ OwnsNothing(d)'
  BY <1>1 DEF CleanUpInv
<1>2. CASE a \in Forwarded /\ ToManager(x)
  <2>1. x.client_addr = c
    BY DEF ClientMessage
  <2>2. ~Subscribing(x, d)
    <3>. HIDE DEF x
    <3>. QED
      BY <1>1, <2>1 DEF Subscribing
  <2>3. x \in ManagerMessage
    <3>1. r \in ReqId
      BY BoundsAssumption DEF ReceiveText, ServerTypeOK
    <3>. QED
      BY <1>2, <3>1 DEF ManagerMessage
  <2>. QED
    BY <1>1, <1>2, <2>2, <2>3, AppendCleanUp DEF CleanUpInv
<1>3. CASE UNCHANGED manager_mailbox
  BY <1>1, <1>3 DEF CleanUpInv, CleanUpIsLast, OwnsNothing, Listed, CleanUp,
     Subscribing
<1>. QED
  BY <1>2, <1>3 DEF ReceiveText

LEMMA FromSourceCleanUp ==
  ASSUME ServerTypeOK, CleanUpInv, NEW m \in ManagerMessage,
         m.msg # "ClientMessage", FromSource(m)
  PROVE  CleanUpInv'
<1>1. /\ UNCHANGED session /\ ToManager(m)
      /\ UNCHANGED <<path_to_subscription_id, subscription_id_to_subscription>>
  BY DEF FromSource, vars, maps
<1>2. \A c \in Client : ~Subscribing(m, c)
  BY DEF Subscribing
<1>. QED
  BY <1>1, <1>2, AppendCleanUp DEF CleanUpInv

LEMMA SourceShape ==
  /\ \A p \in Path, v \in Value :
       UpdateMessage(p, v) \in ManagerMessage
         /\ UpdateMessage(p, v).msg = "UpdateSignal"
  /\ \A p \in Path, rcpt \in Recipient :
       AddSetMessage(p, rcpt) \in ManagerMessage
         /\ AddSetMessage(p, rcpt).msg = "AddSetRecipient"
<1>1. \A p \in Path, v \in Value : UpdateMessage(p, v) \in ManagerMessage
  BY DEF ManagerMessage
<1>2. \A p \in Path, rcpt \in Recipient :
        AddSetMessage(p, rcpt) \in ManagerMessage
  BY DEF ManagerMessage
<1>3. \A p \in Path, v \in Value : UpdateMessage(p, v).msg = "UpdateSignal"
  BY DEF UpdateMessage
<1>4. \A p \in Path, rcpt \in Recipient :
        AddSetMessage(p, rcpt).msg = "AddSetRecipient"
  BY DEF AddSetMessage
<1>. QED
  BY <1>1, <1>2, <1>3, <1>4

LEMMA NextCleanUp ==
  ServerIInv /\ ServerIInv' /\ CleanUpInv /\ [ServerNext]_serverVars => CleanUpInv'
<1>. SUFFICES ASSUME ServerIInv, ServerIInv', CleanUpInv, [ServerNext]_serverVars
              PROVE  CleanUpInv'
  OBVIOUS
<1>. ServerTypeOK
  BY DEF ServerIInv
<1>1. ASSUME UNCHANGED <<maps, manager_mailbox>>,
             \A c \in Client : session'[c] = "stopped" => session[c] = "stopped"
      PROVE  CleanUpInv'
  BY <1>1 DEF CleanUpInv, CleanUpIsLast, OwnsNothing, Listed, CleanUp,
     Subscribing, maps
<1>2. CASE UNCHANGED serverVars
  BY <1>1, <1>2 DEF serverVars, vars, actors
<1>3. ASSUME NEW c \in Client, Connect(c) PROVE CleanUpInv'
  BY <1>1, <1>3 DEF Connect, vars, ServerTypeOK
<1>4. ASSUME NEW c \in Client, SessionHandle(c) PROVE CleanUpInv'
  BY <1>1, <1>4 DEF SessionHandle, vars
<1>5. ASSUME NEW p \in Path, NEW v \in Value, SetSignal(p, v) PROVE CleanUpInv'
  BY <1>5, SourceShape, FromSourceCleanUp DEF SetSignal
<1>6. ASSUME NEW p \in Path, NEW rcpt \in Recipient, RegisterRecipient(p, rcpt)
      PROVE  CleanUpInv'
  BY <1>6, SourceShape, FromSourceCleanUp DEF RegisterRecipient
<1>7. ASSUME NEW rcpt \in Recipient, StopRecipient(rcpt) PROVE CleanUpInv'
  BY <1>1, <1>7 DEF StopRecipient, vars
<1>8. ASSUME NEW id \in SubId, SubscriptionHandle(id) \/ Tick(id)
      PROVE  CleanUpInv'
  BY <1>1, <1>8 DEF SubscriptionHandle, Tick, vars
<1>. QED
  BY <1>2, <1>3, <1>4, <1>5, <1>6, <1>7, <1>8, DisconnectCleanUp,
     ManagerHandleCleanUp, ReceiveTextCleanUp DEF ServerNext

(***************************************************************************)
(* A session that has stopped leaves no listed subscription behind, once   *)
(* the clean-up it sent (router.rs `stopped`) has been handled, and the    *)
(* subscribes it had sent before are handled before that.                  *)
(***************************************************************************)
THEOREM SubscriptionsAreCleanedUp == ServerSpec => []DisconnectCleansUp
<1>1. ServerInit => CleanUpInv
  BY DEF ServerInit, CleanUpInv
<1>2. CleanUpInv => DisconnectCleansUp
  BY DEF CleanUpInv, CleanUpIsLast, OwnsNothing, DisconnectCleansUp, CleanUp
<1>. QED
  BY <1>1, <1>2, NextCleanUp, ServerInductive, PTL DEF ServerSpec

(***************************************************************************)
(* What the manager sends to an id: a stop, or the value it caches for the *)
(* signal in the same step.                                                *)
(***************************************************************************)
Updating(id) ==
  \E p \in Path, v \in Value :
    /\ id \in Subscribers(p)
    /\ sent'[id] = NotifySubscriber(v)
    /\ signal_cache'[Lower[p]] = v

LEMMA SentToId ==
  ASSUME ServerIInv, ManagerHandle, NEW id \in SubId, id \in DOMAIN sent'
  PROVE  sent'[id] = StopSubscription \/ Updating(id)
<1>. DEFINE m == Head(manager_mailbox)
            c == m.client_addr
            a == m.message
            r == m.request_id
<1>1. m \in ManagerMessage
  BY MailboxHead DEF ManagerHandle, ServerIInv, ServerTypeOK
<1>2. ASSUME m.msg = "ClientMessage", HandleClientMessage(c, r, a)
      PROVE  sent'[id] = StopSubscription
  <2>1. c \in Client /\ a \in Forwarded /\ id # c
    BY <1>1, <1>2, MessageShape, AddrAssumption
  <2>2. ASSUME NEW x, sent' = Reply(c, x) PROVE FALSE
    BY <2>1, <2>2 DEF Reply
  <2>3. CASE a.action \in {"subscribe", "get"}
    BY <1>2, <2>2, <2>3 DEF HandleClientMessage, Subscribe, Get
  <2>4. CASE a.action = "set" /\ HandleSet(c, a.path, a.value, r)
    <3>1. CASE SetForwarded(c, a.path, a.value, r)
      <4>1. a.path \in Path
        BY <2>1, <2>4, ForwardedShape
      <4>2. set_recipients[Lower[a.path]] \in Recipient
        BY <3>1, <4>1, LowerKey DEF SetForwarded, ServerIInv, ServerTypeOK, TypeOK
      <4>3. id # set_recipients[Lower[a.path]]
        BY <4>2, AddrAssumption
      <4>4. DOMAIN sent' = {c, set_recipients[Lower[a.path]]}
        BY <3>1 DEF SetForwarded, ReplyAnd
      <4>. QED
        BY <2>1, <4>3, <4>4
    <3>. QED
      BY <2>2, <2>4, <3>1 DEF HandleSet, SetWithoutRecipient, SetUndeliverable
  <2>5. ASSUME Unsubscribe(c, r, a.subscription_id)
        PROVE  sent'[id] = StopSubscription
    <3>1. CASE UnsubscribeRefused(c, r, a.subscription_id)
      BY <2>2, <3>1 DEF UnsubscribeRefused
    <3>2. CASE UnsubscribeOwned(c, r, a.subscription_id)
      BY <2>1, <3>2 DEF UnsubscribeOwned, ReplyAnd, NoMessage
    <3>. QED
      BY <2>5, <3>1, <3>2 DEF Unsubscribe
  <2>6. ASSUME UnsubscribeAll(c, r) PROVE sent'[id] = StopSubscription
    BY <2>1, <2>6 DEF UnsubscribeAll, ReplyAnd
  <2>. QED
    BY <1>2, <2>3, <2>4, <2>5, <2>6 DEF HandleClientMessage
<1>3. ASSUME m.msg = "UpdateSignal", UpdateSignal(m.path, m.value)
      PROVE  Updating(id)
  <2>1. m.path \in Path /\ m.value \in Value
    BY <1>1, <1>3, MessageShape
  <2>2. /\ id \in Subscribers(m.path)
        /\ sent'[id] = NotifySubscriber(m.value)
    BY <1>3 DEF UpdateSignal
  <2>3. signal_cache'[Lower[m.path]] = m.value
    BY <1>3, <2>1, LowerKey DEF UpdateSignal, ServerIInv, ServerTypeOK, TypeOK
  <2>. QED
    BY <2>1, <2>2, <2>3 DEF Updating
<1>4. ASSUME m.msg = "AddSetRecipient", AddSetRecipient(m.path, m.recipient)
      PROVE  FALSE
  BY <1>4 DEF AddSetRecipient, NoMessage
<1>. QED
  BY <1>2, <1>3, <1>4 DEF ManagerHandle, HandleSourceMessage

(* A signal whose cached value changes sends that value to its subscribers. *)
LEMMA CacheChanges ==
  ASSUME ServerIInv, ManagerHandle, NEW k \in Key,
         signal_cache'[k] # signal_cache[k]
  PROVE  \E p \in Path : Lower[p] = k /\ Subscribers(p) = DOMAIN sent'
<1>. DEFINE m == Head(manager_mailbox)
<1>1. m \in ManagerMessage
  BY MailboxHead DEF ManagerHandle, ServerIInv, ServerTypeOK
<1>2. ASSUME NEW c, NEW r, NEW a, HandleClientMessage(c, r, a)
      PROVE  FALSE
  BY <1>2
  DEF HandleClientMessage, HandleSet, Get, SetWithoutRecipient, SetForwarded,
      SetUndeliverable, Subscribe, Unsubscribe, UnsubscribeRefused,
      UnsubscribeOwned, UnsubscribeAll, maps
<1>3. ASSUME m.msg = "AddSetRecipient", AddSetRecipient(m.path, m.recipient)
      PROVE  FALSE
  BY <1>3 DEF AddSetRecipient
<1>4. ASSUME m.msg = "UpdateSignal", UpdateSignal(m.path, m.value)
      PROVE  \E p \in Path : Lower[p] = k /\ Subscribers(p) = DOMAIN sent'
  <2>1. m.path \in Path
    BY <1>1, <1>4, MessageShape
  <2>2. Lower[m.path] = k
    BY <1>4 DEF UpdateSignal, ServerIInv, ServerTypeOK, TypeOK
  <2>. QED
    BY <1>4, <2>1, <2>2 DEF UpdateSignal
<1>. QED
  BY <1>2, <1>3, <1>4 DEF ManagerHandle, HandleSourceMessage

(* The key of a listed id. *)
KeyOf(id) == Lower[subscription_id_to_subscription[id].path]

LEMMA ListedUnderKey ==
  ASSUME ServerIInv, NEW id \in SubId, Listed(id)
  PROVE  /\ Running(id)
         /\ KeyOf(id) \in Key
         /\ \A p \in Path : id \in Subscribers(p) <=> KeyOf(id) = Lower[p]
<1>1. PICK k \in Key : id \in path_to_subscription_id[k]
  BY DEF Listed
<1>2. Registered(id) /\ KeyOf(id) = k
  BY <1>1 DEF ServerIInv, RegistryCoherent, ListedAreRegistered, KeyOf
<1>3. \A p \in Path :
        id \in path_to_subscription_id[Lower[p]] => KeyOf(id) = Lower[p]
  BY LowerKey DEF ServerIInv, RegistryCoherent, ListedAreRegistered, KeyOf
<1>. QED
  BY <1>1, <1>2, <1>3 DEF ServerIInv, ListedIffRunning, Subscribers

Follows(id) ==
  IF subscription_mailbox[id] # <<>>
    THEN subscription_mailbox[id][Len(subscription_mailbox[id])]
           = NotifySubscriber(signal_cache[KeyOf(id)])
    ELSE subscription[id].latest_signal_value \in {None, signal_cache[KeyOf(id)]}

FollowInv == \A id \in SubId : Listed(id) => Follows(id)

LEMMA ManagerHandleFollows ==
  ASSUME ServerIInv, ServerIInv', FollowInv, ManagerHandle
  PROVE  FollowInv'
<1>. SUFFICES ASSUME NEW id \in SubId, Listed(id)' PROVE Follows(id)'
  BY DEF FollowInv
<1>. DEFINE q == subscription_mailbox[id]
            k == KeyOf(id)
<1>. ServerTypeOK /\ TypeOK /\ TypeOK'
  BY DEF ServerIInv, ServerTypeOK
<1>1. CASE NewlyListed(id, Head(manager_mailbox))
  BY <1>1 DEF NewlyListed, Follows
<1>2. CASE StaysListed(id)
  <2>1. /\ Listed(id) /\ Running(id) /\ k \in Key
        /\ \A p \in Path : id \in Subscribers(p) <=> k = Lower[p]
    BY <1>2, ListedUnderKey DEF StaysListed
  <2>2. KeyOf(id)' = k /\ subscription'[id] = subscription[id]
    BY <1>2 DEF StaysListed, KeyOf
  <2>3. CASE id \in DOMAIN sent'
    <3>1. sent'[id] # StopSubscription
      <4>1. Next
        BY ManagerHandleIsNext
      <4>2. Ends(id)
        BY <4>1, NextEnds DEF ServerIInv, IInv
      <4>. QED
        BY <2>3, <4>2 DEF Ends
    <3>2. PICK p \in Path, v \in Value : /\ id \in Subscribers(p)
                                         /\ sent'[id] = NotifySubscriber(v)
                                         /\ signal_cache'[Lower[p]] = v
      BY <2>3, <3>1, SentToId DEF Updating
    <3>3. signal_cache'[k] = v
      BY <2>1, <3>2
    <3>4. subscription_mailbox'[id] = Append(q, NotifySubscriber(v))
      BY <2>1, <2>3, <3>2 DEF ManagerHandle, Deliver
    <3>5. q \in Seq(SubscriptionMessage)
          /\ NotifySubscriber(v) \in SubscriptionMessage
      BY DEF ServerTypeOK, SubscriptionMessage
    <3>6. LET s == subscription_mailbox'[id] IN
            s # <<>> /\ s[Len(s)] = NotifySubscriber(v)
      BY <3>4, <3>5
    <3>. QED
      BY <2>2, <3>3, <3>6 DEF Follows
  <2>4. CASE id \notin DOMAIN sent'
    <3>1. subscription_mailbox'[id] = q
      BY <2>4 DEF ManagerHandle, Deliver
    <3>2. signal_cache'[k] = signal_cache[k]
      BY <2>1, <2>4, CacheChanges
    <3>. QED
      BY <2>1, <2>2, <3>1, <3>2 DEF FollowInv, Follows
  <2>. QED
    BY <2>3, <2>4
<1>. QED
  BY <1>1, <1>2, ListedBefore

LEMMA SubscriptionHandleFollows ==
  ASSUME ServerIInv, ServerIInv', FollowInv, NEW i \in SubId,
         SubscriptionHandle(i)
  PROVE  FollowInv'
<1>. DEFINE q == subscription_mailbox[i]
            m == Head(q)
<1>1. /\ UNCHANGED <<signal_cache, subscription_id_to_subscription>>
      /\ \A id \in SubId : Listed(id)' <=> Listed(id)
      /\ \A id \in SubId : KeyOf(id)' = KeyOf(id)
  BY DEF SubscriptionHandle, vars, maps, Listed, KeyOf
<1>2. \A id \in SubId \ {i} :
        /\ subscription'[id] = subscription[id]
        /\ subscription_mailbox'[id] = subscription_mailbox[id]
  BY DEF SubscriptionHandle, Notify, Stop, SendClientNotification, ServerIInv,
         ServerTypeOK
<1>3. ASSUME Listed(i)' PROVE Follows(i)'
  <2>1. /\ q \in Seq(SubscriptionMessage) /\ q # <<>>
        /\ subscription[i] \in Actor
        /\ Running(i) /\ Running(i)' /\ Follows(i)
    BY <1>1, <1>3 DEF SubscriptionHandle, ServerIInv, ServerTypeOK,
       ListedIffRunning, Running, FollowInv
  <2>2. m.msg = "NotifySubscriber" /\ Notify(i, m.signal_value)
    BY <2>1 DEF SubscriptionHandle, Stop, Running, ServerIInv, ServerTypeOK
  <2>3. m = NotifySubscriber(m.signal_value)
    BY <2>1, <2>2, MailboxHead
    DEF SubscriptionMessage, NotifySubscriber, StopSubscription
  <2>4. subscription_mailbox'[i] = Tail(q)
    BY <2>2 DEF Notify, ServerIInv, ServerTypeOK
  <2>5. subscription'[i].latest_signal_value = m.signal_value
    <3>. DEFINE s == [subscription[i] EXCEPT !.latest_signal_value =
                        m.signal_value]
                val == s.latest_signal_value
                t == [s EXCEPT !.last_signal_value_client = val]
    <3>1. val = m.signal_value /\ t.latest_signal_value = m.signal_value
      BY <2>1 DEF Actor
    <3>2. subscription'[i] = s \/ subscription'[i] = t
      BY <2>2 DEF Notify, SendClientNotification, ServerIInv, ServerTypeOK
    <3>. QED
      BY <3>1, <3>2
  <2>6. NotifySubscriber(signal_cache[KeyOf(i)]) = q[Len(q)]
    BY <2>1 DEF Follows
  <2>7. CASE Tail(q) = <<>>
    <3>1. m = q[Len(q)]
      BY <2>1, <2>7, TailLast
    <3>2. NotifySubscriber(signal_cache[KeyOf(i)])
            = NotifySubscriber(m.signal_value)
      BY <2>3, <2>6, <3>1
    <3>3. signal_cache[KeyOf(i)] = m.signal_value
      BY <3>2 DEF NotifySubscriber
    <3>. QED
      BY <1>1, <2>4, <2>5, <2>7, <3>3 DEF Follows
  <2>8. CASE Tail(q) # <<>>
    <3>1. Tail(q)[Len(Tail(q))] = q[Len(q)]
      BY <2>1, <2>8, TailLast
    <3>. QED
      BY <1>1, <2>4, <2>6, <2>8, <3>1 DEF Follows
  <2>. QED
    BY <2>7, <2>8
<1>. QED
  BY <1>1, <1>2, <1>3 DEF FollowInv, Follows, KeyOf

LEMMA TickFollows ==
  ASSUME ServerIInv, FollowInv, NEW i \in SubId, Tick(i)
  PROVE  FollowInv'
<1>1. /\ UNCHANGED <<vars, subscription_mailbox>>
      /\ \A id \in SubId : Listed(id)' <=> Listed(id)
  BY DEF Tick, vars, maps, Listed
<1>2. subscription[i] \in Actor
  BY DEF Tick, Running, ServerIInv, ServerTypeOK
<1>3. \A id \in SubId :
        subscription'[id].latest_signal_value
          = subscription[id].latest_signal_value
  <2>1. PICK over \in BOOLEAN : SendClientNotification(i, subscription[i], over)
    BY DEF Tick
  <2>. DEFINE t == [subscription[i] EXCEPT !.last_signal_value_client =
                      subscription[i].latest_signal_value]
  <2>2. t.latest_signal_value = subscription[i].latest_signal_value
    BY <1>2 DEF Actor
  <2>3. subscription'[i] = t \/ subscription'[i] = subscription[i]
    BY <2>1 DEF SendClientNotification, ServerIInv, ServerTypeOK
  <2>4. \A id \in SubId \ {i} : subscription'[id] = subscription[id]
    BY <2>1 DEF SendClientNotification, ServerIInv, ServerTypeOK
  <2>. QED
    BY <2>2, <2>3, <2>4
<1>. QED
  BY <1>1, <1>3 DEF FollowInv, Follows, KeyOf, vars, maps

LEMMA NextFollows ==
  ServerIInv /\ ServerIInv' /\ FollowInv /\ [ServerNext]_serverVars => FollowInv'
<1>. SUFFICES ASSUME ServerIInv, ServerIInv', FollowInv, [ServerNext]_serverVars
              PROVE  FollowInv'
  OBVIOUS
<1>1. ASSUME UNCHANGED <<vars, subscription, subscription_mailbox>>
      PROVE  FollowInv'
  BY <1>1 DEF FollowInv, Follows, KeyOf, Listed, vars, maps
<1>2. CASE UNCHANGED serverVars
  BY <1>1, <1>2 DEF serverVars, actors
<1>3. ASSUME NEW c \in Client,
             Connect(c) \/ Disconnect(c) \/ SessionHandle(c)
      PROVE  FollowInv'
  BY <1>1, <1>3 DEF Connect, Disconnect, SessionHandle
<1>4. ASSUME NEW c \in Client, NEW a \in Texts, ReceiveText(c, a)
      PROVE  FollowInv'
  BY <1>1, <1>4 DEF ReceiveText
<1>5. ASSUME NEW m, FromSource(m) PROVE FollowInv'
  BY <1>1, <1>5 DEF FromSource
<1>6. ASSUME NEW rcpt \in Recipient, StopRecipient(rcpt) PROVE FollowInv'
  BY <1>1, <1>6 DEF StopRecipient
<1>. QED
  BY <1>2, <1>3, <1>4, <1>5, <1>6, ManagerHandleFollows,
     SubscriptionHandleFollows, TickFollows
  DEF ServerNext, SetSignal, RegisterRecipient

(***************************************************************************)
(* Between the cache and a subscription no update is lost or overtaken     *)
(* (signal_manager.rs: UpdateSignal sends to the subscribers and caches in *)
(* one handler, and subscriptions take their messages in order).           *)
(***************************************************************************)
THEOREM CacheIsFollowed == ServerSpec => []SubscriptionsFollowCache
<1>1. ServerInit => FollowInv
  BY DEF ServerInit, Init, FollowInv, Listed
<1>2. FollowInv => SubscriptionsFollowCache
  BY DEF FollowInv, Follows, KeyOf, SubscriptionsFollowCache
<1>. QED
  BY <1>1, <1>2, NextFollows, ServerInductive, PTL DEF ServerSpec
===============================================================================
