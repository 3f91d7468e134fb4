---------------------------- MODULE VisClientProofs ----------------------------
(***************************************************************************)
(* Theorems about VisClient, for every set of clients, calls, paths and    *)
(* values.                                                                 *)
(***************************************************************************)
EXTENDS VisClient, VisServerAnswerProofs

(***************************************************************************)
(* A worker with the library as its only client is a worker.               *)
(***************************************************************************)
LEMMA CallTexts ==
  ASSUME NEW o \in Calls
  PROVE  /\ o.text \in Texts /\ o.text \in Forwarded
         /\ o.text.action \in {"get", "subscribe", "unsubscribeAll"}
<1>1. /\ \A p \in Path : GetAction(p) \in Forwarded
      /\ \A p \in Path, f \in Filters : SubscribeAction(p, f) \in Forwarded
      /\ UnsubscribeAllAction \in Forwarded
  BY DEF Forwarded
<1>2. o.text \in Forwarded /\ o.text.action \in {"get", "subscribe", "unsubscribeAll"}
  BY <1>1, CallsAssumption
  DEF GetCall, SubscribeCall, SubscribeRawCall, UnsubscribeAllCall,
      GetAction, SubscribeAction, UnsubscribeAllAction
<1>. QED
  BY <1>2, CallsAssumption

LEMMA ClientNextIsServerNext ==
  ASSUME ServerTypeOK, called \in [Client -> Calls \cup {None}],
         [ClientNext]_clientVars
  PROVE  [ServerNext]_serverVars
<1>1. CASE Server
  BY <1>1 DEF Server, ServerNext
<1>2. CASE IntervalTick
  <2>1. sources \in 0..(MaxSources - 1)
    BY <1>2, BoundsAssumption DEF IntervalTick, SetSignal, FromSource, ServerTypeOK
  <2>2. PosInt(sources) \in Value
    BY <2>1, ValuesAssumption
  <2>. QED
    BY <1>2, <2>2, IntervalAssumption DEF IntervalTick, ServerNext
<1>3. ASSUME NEW c \in Client, NEW o \in Calls, Call(c, o)
      PROVE  UNCHANGED serverVars
  BY <1>3 DEF Call
<1>4. ASSUME NEW c \in Client, Arrive(c) PROVE ServerNext
  <2>1. called[c] \in Calls
    BY <1>4 DEF Arrive
  <2>. QED
    BY <1>4, <2>1, CallTexts DEF Arrive, ServerNext
<1>5. ASSUME NEW c \in Client, Poll(c) \/ StreamEnds(c) \/ Abandon(c)
      PROVE  UNCHANGED serverVars
  BY <1>5 DEF Poll, StreamEnds, Abandon
<1>6. CASE UNCHANGED clientVars
  BY <1>6 DEF clientVars
<1>. QED
  BY <1>1, <1>2, <1>3, <1>4, <1>5, <1>6 DEF ClientNext

(***************************************************************************)
(* What the manager is sent on behalf of a connection is the one operation *)
(* called on it, or the clean-up after it; and whose name is in the        *)
(* registry has called subscribe.                                          *)
(***************************************************************************)
Meant(m) ==
  m.msg = "ClientMessage" =>
    IF m.request_id = None
      THEN session[m.client_addr] = "stopped"
      ELSE /\ called[m.client_addr] \in Calls
           /\ called[m.client_addr].text = m.message

MessagesAreMeant == \A i \in DOMAIN manager_mailbox : Meant(manager_mailbox[i])

HasCalledSubscribe(c) ==
  called[c] \in Calls /\ called[c].text.action = "subscribe"

OwnersHaveSubscribed ==
  \A id \in SubId :
    Registered(id) => HasCalledSubscribe(subscription_id_to_subscription[id].client)

CallInv ==
  /\ called \in [Client -> Calls \cup {None}]
  /\ MessagesAreMeant
  /\ OwnersHaveSubscribed

ClientIInv == ServerIInv /\ CallInv

(* A connection carries one operation, and does not come back. *)
GoesOn ==
  /\ called' \in [Client -> Calls \cup {None}]
  /\ \A c \in Client : called[c] \in Calls => called'[c] = called[c]
  /\ \A c \in Client : session[c] = "stopped" => session'[c] = "stopped"

LEMMA MeantGoesOn ==
  ASSUME GoesOn, NEW m \in ManagerMessage, Meant(m)
  PROVE  Meant(m)'
<1>1. CASE m.msg = "ClientMessage"
  <2>1. m.client_addr \in Client
    BY <1>1, MessageShape
  <2>2. CASE m.request_id = None
    BY <1>1, <2>1, <2>2 DEF Meant, GoesOn
  <2>3. CASE m.request_id # None
    BY <1>1, <2>1, <2>3 DEF Meant, GoesOn
  <2>. QED
    BY <2>2, <2>3
<1>. QED
  BY <1>1 DEF Meant

LEMMA UnqueuedMeant ==
  ASSUME ServerTypeOK, GoesOn, MessagesAreMeant, UNCHANGED manager_mailbox
  PROVE  MessagesAreMeant'
<1>. SUFFICES ASSUME NEW i \in DOMAIN manager_mailbox
              PROVE  Meant(manager_mailbox[i])'
  BY DEF MessagesAreMeant
<1>1. manager_mailbox[i] \in ManagerMessage
  BY ElementOfSeq DEF ServerTypeOK
<1>2. Meant(manager_mailbox[i])
  BY DEF MessagesAreMeant
<1>. DEFINE m == manager_mailbox[i]
<1>3. m' = m
  OBVIOUS
<1>. QED
  BY <1>1, <1>2, <1>3, MeantGoesOn DEF Meant

LEMMA QueuedMeant ==
  ASSUME ServerTypeOK, GoesOn, MessagesAreMeant,
         NEW m \in ManagerMessage, ToManager(m), Meant(m)'
  PROVE  MessagesAreMeant'
<1>. DEFINE q == manager_mailbox
<1>1. /\ q \in Seq(ManagerMessage) /\ q' = Append(q, m)
      /\ Len(q) \in Nat /\ DOMAIN q = 1..Len(q)
      /\ DOMAIN q' = 1..(Len(q) + 1)
      /\ \A i \in 1..Len(q) : q'[i] = q[i]
      /\ q'[Len(q) + 1] = m
  BY AppendElements DEF ServerTypeOK, ToManager
<1>2. ASSUME NEW i \in 1..Len(q) PROVE Meant(q[i]) /\ q[i] \in ManagerMessage
  BY <1>1, <1>2, ElementOfSeq DEF MessagesAreMeant
<1>3. ASSUME NEW i \in 1..(Len(q) + 1) PROVE Meant(q[i])'
  <2>1. CASE i \in 1..Len(q)
    BY <1>1, <1>2, <2>1, MeantGoesOn DEF Meant
  <2>2. CASE i = Len(q) + 1
    BY <1>1, <2>2 DEF Meant
  <2>. QED
    BY <1>1, <2>1, <2>2
<1>. QED
  BY <1>1, <1>3 DEF MessagesAreMeant

LEMMA TakenMeant ==
  ASSUME ServerTypeOK, GoesOn, MessagesAreMeant, manager_mailbox # <<>>,
         manager_mailbox' = Tail(manager_mailbox)
  PROVE  MessagesAreMeant'
<1>. DEFINE q == manager_mailbox
<1>1. /\ q \in Seq(ManagerMessage) /\ Len(q) \in Nat \ {0}
      /\ DOMAIN q = 1..Len(q) /\ DOMAIN q' = 1..(Len(q) - 1)
      /\ \A i \in 1..(Len(q) - 1) : q'[i] = q[i + 1]
  BY TailElements DEF ServerTypeOK
<1>2. ASSUME NEW i \in 1..(Len(q) - 1) PROVE Meant(q[i])'
  <2>1. i + 1 \in 1..Len(q)
    BY <1>1
  <2>2. Meant(q[i + 1]) /\ q[i + 1] \in ManagerMessage
    BY <1>1, <2>1, ElementOfSeq DEF MessagesAreMeant
  <2>3. q'[i] = q[i + 1]
    BY <1>1
  <2>. QED
    BY <2>2, <2>3, MeantGoesOn DEF Meant
<1>. QED
  BY <1>1, <1>2 DEF MessagesAreMeant

LEMMA SameOwners ==
  ASSUME ServerTypeOK, GoesOn, OwnersHaveSubscribed,
         UNCHANGED subscription_id_to_subscription
  PROVE  OwnersHaveSubscribed'
<1>. SUFFICES ASSUME NEW id \in SubId, Registered(id)
              PROVE  HasCalledSubscribe(subscription_id_to_subscription[id].client)'
  BY DEF OwnersHaveSubscribed, Registered
<1>1. subscription_id_to_subscription[id].client \in Client
  BY DEF ServerTypeOK, TypeOK, Registered, Entry
<1>. QED
  BY <1>1 DEF OwnersHaveSubscribed, HasCalledSubscribe, GoesOn

(* The message the manager handles is meant, and so is who it registers. *)
LEMMA HandledIsMeant ==
  ASSUME ServerTypeOK, MessagesAreMeant, ManagerHandle
  PROVE  /\ Head(manager_mailbox) \in ManagerMessage
         /\ Meant(Head(manager_mailbox))
<1>1. /\ manager_mailbox \in Seq(ManagerMessage) /\ manager_mailbox # <<>>
      /\ 1 \in DOMAIN manager_mailbox
      /\ Head(manager_mailbox) = manager_mailbox[1]
      /\ Head(manager_mailbox) \in ManagerMessage
  BY TailElements DEF ServerTypeOK, ManagerHandle
<1>. QED
  BY <1>1 DEF MessagesAreMeant

LEMMA ManagerHandleOwners ==
  ASSUME ServerTypeOK, CallInv, GoesOn, ManagerHandle, NEW id \in SubId,
         Registered(id)'
  PROVE  HasCalledSubscribe(subscription_id_to_subscription[id].client)'
<1>. DEFINE m == Head(manager_mailbox)
            entry == subscription_id_to_subscription[id]
<1>1. m \in ManagerMessage /\ Meant(m)
  BY HandledIsMeant DEF CallInv
<1>2. CASE entry' = entry
  <2>1. Registered(id) /\ entry.client \in Client
    BY <1>2 DEF ServerTypeOK, TypeOK, Registered, Entry
  <2>2. HasCalledSubscribe(entry.client)
    BY <2>1 DEF CallInv, OwnersHaveSubscribed
  <2>. QED
    BY <1>2, <2>1, <2>2 DEF HasCalledSubscribe, GoesOn
<1>3. CASE entry' # entry
  <2>1. /\ m.msg = "ClientMessage"
        /\ HandleClientMessage(m.client_addr, m.request_id, m.message)
    BY <1>3 DEF ManagerHandle, HandleSourceMessage, UpdateSignal, AddSetRecipient
  <2>. DEFINE c == m.client_addr
              a == m.message
  <2>2. c \in Client /\ a \in Forwarded
    BY <1>1, <2>1, MessageShape
  <2>3. CASE a.action = "subscribe"
    <3>1. m.request_id # None
      BY <1>1, <2>1, <2>3, MessageShape
    <3>2. HasCalledSubscribe(c)
      BY <1>1, <2>1, <2>3, <3>1 DEF Meant, HasCalledSubscribe
    <3>3. PICK new \in SubId : Subscribe(c, a.path, m.request_id, new)
      BY <2>1, <2>3 DEF HandleClientMessage
    <3>4. entry'.client = c
      BY <1>3, <3>3 DEF Subscribe, ServerTypeOK, TypeOK
    <3>. QED
      BY <2>2, <3>2, <3>4 DEF HasCalledSubscribe, GoesOn
  <2>4. CASE a.action # "subscribe"
    <3>1. /\ a.action = "unsubscribe"
          /\ Unsubscribe(c, m.request_id, a.subscription_id)
      BY <1>3, <2>1, <2>4
      DEF HandleClientMessage, HandleSet, Get, SetWithoutRecipient, SetForwarded,
          SetUndeliverable, UnsubscribeAll, maps
    <3>2. entry' = None
      BY <1>3, <3>1
      DEF Unsubscribe, UnsubscribeRefused, UnsubscribeOwned, maps,
          ServerTypeOK, TypeOK
    <3>. QED
      BY <3>2 DEF Registered
  <2>. QED
    BY <2>3, <2>4
<1>. QED
  BY <1>2, <1>3

LEMMA ServerKeepsCalls ==
  ASSUME ServerTypeOK, CallInv, Server
  PROVE  CallInv'
<1>. USE DEF CallInv
<1>0. UNCHANGED called
  BY DEF Server, library
<1>1. ASSUME NEW c \in Client, Connect(c) PROVE CallInv'
  <2>1. GoesOn
    BY <1>0, <1>1 DEF Connect, GoesOn, ServerTypeOK
  <2>. QED
    BY <1>0, <1>1, <2>1, UnqueuedMeant, SameOwners DEF Connect, vars, maps
<1>2. ASSUME NEW c \in Client, Disconnect(c) PROVE CallInv'
  <2>. DEFINE m == ClientMessage(c, None, UnsubscribeAllAction)
  <2>1. GoesOn /\ session'[c] = "stopped"
    BY <1>0, <1>2 DEF Disconnect, GoesOn, ServerTypeOK
  <2>2. m \in ManagerMessage
    BY DEF ManagerMessage
  <2>3. Meant(m)'
    BY <2>1 DEF Meant, ClientMessage
  <2>4. MessagesAreMeant'
    BY <1>2, <2>1, <2>2, <2>3, QueuedMeant DEF Disconnect
  <2>. QED
    BY <1>0, <1>2, <2>1, <2>4, SameOwners DEF Disconnect, vars, maps
<1>3. ASSUME UNCHANGED <<vars, manager_mailbox, session>> PROVE CallInv'
  <2>1. GoesOn
    BY <1>0, <1>3 DEF GoesOn
  <2>. QED
    BY <1>0, <1>3, <2>1, UnqueuedMeant, SameOwners DEF vars, maps
<1>4. CASE ManagerHandle
  <2>1. GoesOn
    BY <1>0, <1>4 DEF GoesOn, ManagerHandle
  <2>2. MessagesAreMeant'
    BY <1>4, <2>1, TakenMeant DEF ManagerHandle
  <2>3. OwnersHaveSubscribed'
    BY <1>4, <2>1, ManagerHandleOwners DEF OwnersHaveSubscribed
  <2>. QED
    BY <1>0, <2>2, <2>3
<1>5. ASSUME NEW c \in Client, SessionHandle(c) PROVE CallInv'
  BY <1>3, <1>5 DEF SessionHandle
<1>6. ASSUME NEW id \in SubId, SubscriptionHandle(id) \/ Tick(id) PROVE CallInv'
  BY <1>3, <1>6 DEF SubscriptionHandle, Tick
<1>. QED
  BY <1>1, <1>2, <1>4, <1>5, <1>6 DEF Server

LEMMA ArriveKeepsCalls ==
  ASSUME ServerTypeOK, CallInv, NEW c \in Client, Arrive(c)
  PROVE  CallInv'
<1>. USE DEF CallInv
<1>. DEFINE a == called[c].text
            r == Len(requests) + 1
<1>1. /\ called[c] \in Calls /\ ReceiveText(c, a)
      /\ UNCHANGED <<vars, session, called>>
  BY DEF Arrive, ReceiveText, library
<1>2. GoesOn
  BY <1>1 DEF GoesOn
<1>3. OwnersHaveSubscribed'
  BY <1>1, <1>2, SameOwners DEF vars, maps
<1>4. r \in ReqId /\ r # None
  BY <1>1, LenProperties, NoneAssumption, BoundsAssumption DEF ReceiveText, ServerTypeOK
<1>5. CASE UNCHANGED manager_mailbox
  BY <1>1, <1>2, <1>3, <1>5, UnqueuedMeant
<1>6. CASE ToManager(ClientMessage(c, r, a))
  <2>1. ClientMessage(c, r, a) \in ManagerMessage
    BY <1>1, <1>4, CallTexts DEF ManagerMessage
  <2>2. PICK m \in ManagerMessage : m = ClientMessage(c, r, a)
    BY <2>1
  <2>3. /\ m.msg = "ClientMessage" /\ m.client_addr = c
        /\ m.request_id # None /\ m.message = called'[c].text
    BY <1>1, <1>4, <2>2 DEF ClientMessage
  <2>4. Meant(m)'
    BY <1>1, <2>3 DEF Meant
  <2>. QED
    BY <1>1, <1>2, <1>3, <1>6, <2>2, <2>4, QueuedMeant
<1>. QED
  BY <1>1, <1>5, <1>6 DEF ReceiveText

LEMMA NextCalls == ServerTypeOK /\ CallInv /\ [ClientNext]_clientVars => CallInv'
<1>. SUFFICES ASSUME ServerTypeOK, CallInv, [ClientNext]_clientVars PROVE CallInv'
  OBVIOUS
<1>. USE DEF CallInv
<1>1. ASSUME UNCHANGED serverVars, GoesOn PROVE CallInv'
  BY <1>1, UnqueuedMeant, SameOwners DEF serverVars, vars, maps, actors, GoesOn
<1>2. ASSUME UNCHANGED <<serverVars, called>> PROVE CallInv'
  BY <1>1, <1>2 DEF GoesOn, serverVars, actors
<1>3. CASE IntervalTick
  <2>1. /\ ToManager(UpdateMessage(INTERVAL, PosInt(sources)))
        /\ sources \in 0..(MaxSources - 1)
        /\ UNCHANGED <<vars, session, called>>
    BY <1>3, BoundsAssumption
    DEF IntervalTick, SetSignal, FromSource, library, ServerTypeOK
  <2>2. GoesOn
    BY <2>1 DEF GoesOn
  <2>3. PICK m \in ManagerMessage : m = UpdateMessage(INTERVAL, PosInt(sources))
    <3>1. PosInt(sources) \in Value
      BY <2>1, ValuesAssumption
    <3>. QED
      BY <3>1, IntervalAssumption DEF ManagerMessage
  <2>4. Meant(m)'
    BY <2>3 DEF Meant, UpdateMessage
  <2>. QED
    BY <2>1, <2>2, <2>3, <2>4, QueuedMeant, SameOwners DEF vars, maps, GoesOn
<1>4. ASSUME NEW c \in Client, NEW o \in Calls, Call(c, o) PROVE CallInv'
  <2>1. GoesOn
    BY <1>4, CallsAssumption DEF Call, GoesOn, serverVars, actors
  <2>. QED
    BY <1>1, <1>4, <2>1 DEF Call
<1>5. ASSUME NEW c \in Client, Poll(c) \/ StreamEnds(c) \/ Abandon(c)
      PROVE  CallInv'
  BY <1>2, <1>5 DEF Poll, StreamEnds, Abandon
<1>6. CASE UNCHANGED clientVars
  BY <1>2, <1>6 DEF clientVars, library
<1>. QED
  BY <1>3, <1>4, <1>5, <1>6, ServerKeepsCalls, ArriveKeepsCalls DEF ClientNext

LEMMA ClientInductive == ClientSpec => []ClientIInv
<1>1. ClientInit => ServerInit /\ CallInv
  BY DEF ClientInit, ServerInit, Init, CallInv, MessagesAreMeant,
         OwnersHaveSubscribed, Registered
<1>2. ServerTypeOK /\ CallInv /\ [ClientNext]_clientVars => [ServerNext]_serverVars
  BY ClientNextIsServerNext DEF CallInv
<1>3. ServerIInv => ServerTypeOK
  BY DEF ServerIInv
<1>4. ServerInit => ServerIInv
  BY ServerInitially
<1>5. ServerIInv /\ [ServerNext]_serverVars => ServerIInv'
  BY ServerInductiveStep
<1>6. ClientInit => ClientIInv
  BY <1>1, <1>4 DEF ClientIInv
<1>7. ClientIInv /\ [ClientNext]_clientVars => ClientIInv'
  BY <1>2, <1>3, <1>5, NextCalls DEF ClientIInv
<1>. QED
  BY <1>6, <1>7, PTL DEF ClientSpec

(***************************************************************************)
(* The worker that serves the library is a worker: whatever applications   *)
(* call, drop or lose, nothing reaches the server that VisServer does not  *)
(* allow.  What is proved of VisServer holds here.                         *)
(***************************************************************************)
THEOREM LibraryUsesServer == ClientSpec => ServerSpec
<1>1. ClientInit => ServerInit
  BY DEF ClientInit
<1>2. ClientIInv /\ [ClientNext]_clientVars => [ServerNext]_serverVars
  BY ClientNextIsServerNext DEF ClientIInv, ServerIInv, CallInv
<1>. QED
  BY <1>1, <1>2, ClientInductive, PTL DEF ClientSpec, ServerSpec

(* What a handler takes out of the fan-out belongs to a client that is gone. *)
LEMMA HandleEndsNothing ==
  ASSUME ClientIInv, ManagerHandle, NEW id \in SubId, Listed(id), ~Listed(id)'
  PROVE  session[subscription_id_to_subscription[id].client] = "stopped"
<1>. DEFINE m == Head(manager_mailbox)
            owner == subscription_id_to_subscription[id].client
<1>1. /\ ServerTypeOK /\ IInv /\ CallInv
      /\ m \in ManagerMessage /\ Meant(m)
  BY HandledIsMeant DEF ClientIInv, ServerIInv, CallInv, IInv, ServerTypeOK
<1>2. path_to_subscription_id' # path_to_subscription_id
  BY DEF Listed
<1>3. /\ m.msg = "ClientMessage"
      /\ HandleClientMessage(m.client_addr, m.request_id, m.message)
  BY <1>2 DEF ManagerHandle, HandleSourceMessage, UpdateSignal, AddSetRecipient
<1>. DEFINE c == m.client_addr
            r == m.request_id
            a == m.message
<1>4. c \in Client /\ r \in ReqId \cup {None} /\ a \in Forwarded
  BY <1>1, <1>3, MessageShape
<1>5. Registered(id) /\ HasCalledSubscribe(owner)
  BY <1>1, EntryType DEF CallInv, OwnersHaveSubscribed
<1>6. r # None => a.action \in {"get", "subscribe", "unsubscribeAll"}
  BY <1>1, <1>3, CallTexts DEF Meant
<1>7. a.action # "get"
  BY <1>2, <1>3 DEF HandleClientMessage, Get, maps
<1>8. a.action # "subscribe"
  <2>. SUFFICES ASSUME a.action = "subscribe" PROVE FALSE
    OBVIOUS
  <2>1. PICK new \in SubId : Subscribe(c, a.path, r, new)
    BY <1>3 DEF HandleClientMessage
  <2>2. a.path \in Path /\ r \in ReqId
    BY <1>1, <1>3, <1>4, MessageShape, ForwardedShape
  <2>. QED
    BY <1>1, <1>4, <2>1, <2>2, SubscribeListed
<1>9. a.action = "unsubscribeAll" /\ UnsubscribeAll(c, r)
  BY <1>1, <1>3, <1>6, <1>7, <1>8, MessageShape DEF HandleClientMessage
<1>10. owner = c
  <2>1. OwnSubscriptions(c) \in SUBSET SubId
    BY <1>1, <1>4 DEF OwnSubscriptions, ServerTypeOK, TypeOK
  <2>2. id \in OwnSubscriptions(c)
    BY <1>1, <1>9, <2>1, UnlistedIds DEF UnsubscribeAll
  <2>. QED
    BY <1>1, <1>4, <2>2, OwnIds
<1>11. r = None
  BY <1>1, <1>3, <1>5, <1>9, <1>10 DEF Meant, HasCalledSubscribe
<1>. QED
  BY <1>1, <1>3, <1>10, <1>11 DEF Meant

(***************************************************************************)
(* unsubscribe_all (client lib.rs:279) ends no subscription, on whatever   *)
(* connections it is called: one leaves the fan-out only when its session  *)
(* has stopped.                                                            *)
(***************************************************************************)
THEOREM UnsubscribeAllIsHarmless == ClientSpec => UnsubscribeAllEndsNothing
<1>. DEFINE Harmless ==
       \A id \in SubId :
         Listed(id) /\ ~Listed(id)' =>
           session[subscription_id_to_subscription[id].client] = "stopped"
<1>1. ASSUME ClientIInv, [ClientNext]_clientVars PROVE [Harmless]_clientVars
  <2>1. CASE ManagerHandle
    BY <1>1, <2>1, HandleEndsNothing
  <2>2. CASE UNCHANGED vars
    BY <2>2 DEF vars, maps, Listed
  <2>3. ASSUME NEW c \in Client,
               \/ Connect(c) \/ Disconnect(c) \/ SessionHandle(c) \/ Arrive(c)
               \/ Poll(c) \/ StreamEnds(c) \/ Abandon(c)
        PROVE  UNCHANGED vars
    BY <2>3 DEF Connect, Disconnect, SessionHandle, Arrive, ReceiveText, Poll,
                StreamEnds, Abandon, serverVars
  <2>4. ASSUME NEW id \in SubId, SubscriptionHandle(id) \/ Tick(id)
        PROVE  UNCHANGED vars
    BY <2>4 DEF SubscriptionHandle, Tick
  <2>5. ASSUME IntervalTick PROVE UNCHANGED vars
    BY <2>5 DEF IntervalTick, SetSignal, FromSource
  <2>6. CASE UNCHANGED clientVars
    BY <2>6 DEF clientVars, serverVars
  <2>7. ASSUME NEW c \in Client, NEW o \in Calls, Call(c, o)
        PROVE  UNCHANGED vars
    BY <2>7 DEF Call, serverVars
  <2>8. CASE Server
    BY <2>1, <2>2, <2>3, <2>4, <2>8 DEF Server
  <2>. QED
    BY <1>1, <2>2, <2>3, <2>5, <2>6, <2>7, <2>8 DEF ClientNext
<1>2. ClientIInv /\ [ClientNext]_clientVars => [Harmless]_clientVars
  BY <1>1
<1>. QED
  BY <1>2, ClientInductive, PTL DEF ClientSpec, UnsubscribeAllEndsNothing
===============================================================================
