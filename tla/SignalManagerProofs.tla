-------------------------- MODULE SignalManagerProofs --------------------------
(***************************************************************************)
(* Theorems about SignalManager, for every set of clients, ids, paths,     *)
(* values and recipients.                                                  *)
(***************************************************************************)
EXTENDS SignalManager, TLAPS

LEMMA LowerKey == \A p \in Path : Lower[p] \in Key
BY DEF Key

(* The answers handlers send are responses of the API. *)
LEMMA ResponseType ==
  ASSUME NEW r \in ReqId
  PROVE  /\ \A v \in Value : GetSuccess(r, v) \in Response
         /\ GetError(r, NOT_FOUND_INVALID_PATH) \in Response
         /\ SetSuccess(r) \in Response
         /\ SetError(r, NOT_FOUND_INVALID_PATH) \in Response
         /\ SetError(r, SERVICE_UNAVAILABLE) \in Response
         /\ \A id \in SubId :
              /\ SubscribeSuccess(r, id) \in Response
              /\ UnsubscribeSuccess(r, id) \in Response
              /\ UnsubscribeError(r, id, NOT_FOUND_INVALID_SUBSCRIPTION_ID)
                   \in Response
         /\ UnsubscribeAllSuccess(r) \in Response
<1>1. {NOT_FOUND_INVALID_PATH, SERVICE_UNAVAILABLE,
       NOT_FOUND_INVALID_SUBSCRIPTION_ID} \subseteq ActionError
  BY DEF ActionError
<1>2. /\ \A v \in Value : GetSuccess(r, v) \in ActionSuccessResponse
      /\ SetSuccess(r) \in ActionSuccessResponse
      /\ \A id \in SubId :
           /\ SubscribeSuccess(r, id) \in ActionSuccessResponse
           /\ UnsubscribeSuccess(r, id) \in ActionSuccessResponse
      /\ UnsubscribeAllSuccess(r) \in ActionSuccessResponse
  BY DEF ActionSuccessResponse
<1>3. GetError(r, NOT_FOUND_INVALID_PATH) \in ActionErrorResponse
  BY <1>1 DEF ActionErrorResponse, GetError
<1>4. \A e \in ActionError : SetError(r, e) \in ActionErrorResponse
  BY DEF ActionErrorResponse, SetError
<1>5. \A id \in SubId, e \in ActionError :
        UnsubscribeError(r, id, e) \in ActionErrorResponse
  BY DEF ActionErrorResponse
<1>. QED
  BY <1>1, <1>2, <1>3, <1>4, <1>5 DEF Response

(***************************************************************************)
(* Type correctness, one lemma per handler.                                *)
(***************************************************************************)
LEMMA UnlistedType ==
  ASSUME TypeOK, NEW ids \in SUBSET SubId
  PROVE  Unlisted(ids) \in [Key -> SUBSET SubId]
BY DEF TypeOK, Unlisted

LEMMA InitType == Init => TypeOK
BY DEF Init, TypeOK, NoMessage

LEMMA UpdateSignalType ==
  ASSUME TypeOK, NEW p \in Path, NEW v \in Value, UpdateSignal(p, v)
  PROVE  TypeOK'
<1>1. NotifySubscriber(v) \in SubscriptionMessage
  BY DEF SubscriptionMessage
<1>2. Subscribers(p) \subseteq SubId
  BY LowerKey DEF Subscribers, TypeOK
<1>3. DOMAIN sent' \subseteq SubId /\ \A a \in DOMAIN sent' : sent'[a] = NotifySubscriber(v)
  BY <1>2 DEF UpdateSignal
<1>4. signal_cache' \in [Key -> Value \cup {None}]
  BY LowerKey DEF UpdateSignal, TypeOK
<1>. QED
  BY <1>1, <1>3, <1>4, AddrAssumption DEF UpdateSignal, TypeOK

(* A handler that only answers a client. *)
LEMMA ReplyType ==
  ASSUME TypeOK, NEW c \in Client, NEW x \in Response,
         sent' = Reply(c, x),
         UNCHANGED maps
  PROVE  TypeOK'
<1>1. DOMAIN sent' = {c} /\ sent'[c] = x
  BY DEF Reply
<1>. QED
  BY <1>1, AddrAssumption DEF TypeOK, maps

LEMMA GetType ==
  ASSUME TypeOK, NEW c \in Client, NEW p \in Path, NEW r \in ReqId, Get(c, p, r)
  PROVE  TypeOK'
<1>1. CASE signal_cache[Lower[p]] # None
  <2>1. signal_cache[Lower[p]] \in Value
    BY <1>1, LowerKey DEF TypeOK
  <2>. QED
    BY <1>1, <2>1, ResponseType, ReplyType DEF Get
<1>2. CASE signal_cache[Lower[p]] = None
  BY <1>2, ResponseType, ReplyType DEF Get
<1>. QED
  BY <1>1, <1>2

(* A handler that answers a client and sends one more message to others. *)
LEMMA ReplyAndType ==
  ASSUME TypeOK, NEW c \in Client, NEW x \in Response,
         NEW others, NEW m,
         \/ others \in SUBSET SubId /\ m \in SubscriptionMessage
         \/ others \in SUBSET Recipient /\ m \in SetMessage
  PROVE  LET f == ReplyAnd(c, x, others, m) IN
         /\ DOMAIN f \subseteq Client \cup SubId \cup Recipient
         /\ \A a \in DOMAIN f :
              /\ a \in Client => f[a] \in Response
              /\ a \in SubId => f[a] \in SubscriptionMessage
              /\ a \in Recipient => f[a] \in SetMessage
BY AddrAssumption DEF ReplyAnd

LEMMA SetNotForwardedType ==
  ASSUME TypeOK, NEW c \in Client, NEW p \in Path, NEW r \in ReqId,
         SetWithoutRecipient(c, p, r) \/ SetUndeliverable(c, p, r)
  PROVE  TypeOK'
BY ResponseType, ReplyType DEF SetWithoutRecipient, SetUndeliverable

LEMMA SetForwardedType ==
  ASSUME TypeOK, NEW c \in Client, NEW p \in Path, NEW v \in Value,
         NEW r \in ReqId, SetForwarded(c, p, v, r)
  PROVE  TypeOK'
<1>1. set_recipients[Lower[p]] \in Recipient
  BY LowerKey DEF SetForwarded, TypeOK
<1>2. SetRequest(r, p, v) \in SetMessage
  BY DEF SetMessage
<1>. QED
  BY <1>1, <1>2, ResponseType, ReplyAndType DEF SetForwarded, TypeOK, maps

LEMMA AddSetRecipientType ==
  ASSUME TypeOK, NEW p \in Path, NEW rcpt \in Recipient,
         AddSetRecipient(p, rcpt)
  PROVE  TypeOK'
BY LowerKey DEF AddSetRecipient, TypeOK, NoMessage

LEMMA SubscribeType ==
  ASSUME TypeOK, NEW c \in Client, NEW p \in Path, NEW r \in ReqId,
         NEW id \in SubId, Subscribe(c, p, r, id)
  PROVE  TypeOK'
<1>1. subscription_id_to_subscription' \in [SubId -> Entry \cup {None}]
  BY DEF Subscribe, TypeOK, Entry
<1>2. path_to_subscription_id' \in [Key -> SUBSET SubId]
  BY LowerKey DEF Subscribe, TypeOK
<1>3. /\ addr_to_subscription_ids' \in [Client -> SUBSET SubId]
      /\ issued' \in SUBSET SubId
  BY DEF Subscribe, TypeOK
<1>4. DOMAIN sent' = {c} /\ sent'[c] \in Response
  BY ResponseType DEF Subscribe, Reply
<1>. QED
  BY <1>1, <1>2, <1>3, <1>4, AddrAssumption DEF Subscribe, TypeOK

LEMMA UnsubscribeType ==
  ASSUME TypeOK, NEW c \in Client, NEW r \in ReqId, NEW id \in SubId,
         Unsubscribe(c, r, id)
  PROVE  TypeOK'
<1>1. CASE UnsubscribeRefused(c, r, id)
  BY <1>1, ResponseType, ReplyType DEF UnsubscribeRefused
<1>2. CASE UnsubscribeOwned(c, r, id) /\ subscription_id_to_subscription[id] # None
  <2>1. subscription_id_to_subscription[id].client \in Client
    BY <1>2 DEF TypeOK, Entry
  <2>2. path_to_subscription_id' \in [Key -> SUBSET SubId]
    BY <1>2, UnlistedType DEF UnsubscribeOwned
  <2>3. /\ addr_to_subscription_ids' \in [Client -> SUBSET SubId]
        /\ subscription_id_to_subscription' \in [SubId -> Entry \cup {None}]
    BY <1>2, <2>1 DEF UnsubscribeOwned, TypeOK
  <2>4. StopSubscription \in SubscriptionMessage
    BY DEF SubscriptionMessage
  <2>5. sent' = ReplyAnd(c, UnsubscribeSuccess(r, id), {id}, StopSubscription)
    BY <1>2 DEF UnsubscribeOwned
  <2>. QED
    BY <1>2, <2>2, <2>3, <2>4, <2>5, ResponseType, ReplyAndType
    DEF UnsubscribeOwned, TypeOK
<1>3. CASE UnsubscribeOwned(c, r, id) /\ subscription_id_to_subscription[id] = None
  BY <1>3 DEF UnsubscribeOwned, TypeOK, NoMessage
<1>. QED
  BY <1>1, <1>2, <1>3 DEF Unsubscribe

LEMMA UnsubscribeAllType ==
  ASSUME TypeOK, NEW c \in Client, NEW r \in ReqId \cup {None},
         UnsubscribeAll(c, r)
  PROVE  TypeOK'
<1>1. OwnSubscriptions(c) \in SUBSET SubId
  BY DEF OwnSubscriptions, TypeOK
<1>2. path_to_subscription_id' \in [Key -> SUBSET SubId]
  BY <1>1, UnlistedType DEF UnsubscribeAll
<1>3. StopSubscription \in SubscriptionMessage
  BY DEF SubscriptionMessage
<1>4. CASE r = None
  <2>1. DOMAIN sent' \subseteq SubId
        /\ \A a \in DOMAIN sent' : sent'[a] = StopSubscription
    BY <1>1, <1>4 DEF UnsubscribeAll
  <2>. QED
    BY <1>2, <1>3, <2>1, AddrAssumption DEF UnsubscribeAll, TypeOK
<1>5. CASE r # None
  <2>1. sent' = ReplyAnd(c, UnsubscribeAllSuccess(r), OwnSubscriptions(c),
                         StopSubscription)
    BY <1>5 DEF UnsubscribeAll
  <2>. QED
    BY <1>1, <1>2, <1>3, <1>5, <2>1, ResponseType, ReplyAndType
    DEF UnsubscribeAll, TypeOK
<1>. QED
  BY <1>4, <1>5

(***************************************************************************)
(* The state and the messages of the manager are what they are declared to *)
(* be: each response answers with a known error or a value of the cache.   *)
(***************************************************************************)
LEMMA NextType == TypeOK /\ [Next]_vars => TypeOK'
<1>. SUFFICES ASSUME TypeOK, [Next]_vars PROVE TypeOK'
  OBVIOUS
<1>1. CASE UNCHANGED vars
  BY <1>1 DEF TypeOK, vars, maps
<1>2. ASSUME NEW c \in Client, NEW r \in ReqId, Request(c, r) PROVE TypeOK'
  BY <1>2, GetType, SetNotForwardedType, SetForwardedType, SubscribeType,
     UnsubscribeType, UnsubscribeAllType DEF Request
<1>3. ASSUME NEW c \in Client, UnsubscribeAll(c, None) PROVE TypeOK'
  BY <1>3, UnsubscribeAllType
<1>4. ASSUME NEW p \in Path, NEW v \in Value, UpdateSignal(p, v) PROVE TypeOK'
  BY <1>4, UpdateSignalType
<1>5. ASSUME NEW p \in Path, NEW rcpt \in Recipient, AddSetRecipient(p, rcpt)
      PROVE  TypeOK'
  BY <1>5, AddSetRecipientType
<1>. QED
  BY <1>1, <1>2, <1>3, <1>4, <1>5 DEF Next

THEOREM TypeCorrect == Spec => []TypeOK
BY InitType, NextType, PTL DEF Spec

(***************************************************************************)
(* The maps agree.  RegistryCoherent is inductive together with TypeOK:    *)
(* one lemma per handler that writes to the maps.                          *)
(***************************************************************************)
IInv == TypeOK /\ RegistryCoherent

LEMMA InitCoherent == Init => RegistryCoherent
BY DEF Init, RegistryCoherent, OwnedAreRegistered, ListedAreRegistered,
       RegisteredAreIssued, Registered

(* Handlers that leave the three maps and the issued ids alone. *)
LEMMA SameMapsCoherent ==
  ASSUME RegistryCoherent,
         UNCHANGED <<addr_to_subscription_ids, path_to_subscription_id,
                     subscription_id_to_subscription, issued>>
  PROVE  RegistryCoherent'
BY DEF RegistryCoherent, OwnedAreRegistered, ListedAreRegistered,
       RegisteredAreIssued, Registered

LEMMA SubscribeCoherent ==
  ASSUME IInv, NEW c \in Client, NEW p \in Path, NEW r \in ReqId,
         NEW id \in SubId, Subscribe(c, p, r, id)
  PROVE  RegistryCoherent'
<1>. DEFINE entry == [client |-> c, path |-> p]
<1>1. subscription_id_to_subscription' =
        [subscription_id_to_subscription EXCEPT ![id] = entry]
      /\ entry # None /\ entry.client = c /\ entry.path = p
  BY NoneAssumption DEF Subscribe, Entry
<1>2. ~Registered(id)
  BY DEF IInv, RegistryCoherent, RegisteredAreIssued, Subscribe
<1>3. \A i \in SubId \ {id} :
        subscription_id_to_subscription'[i] = subscription_id_to_subscription[i]
  BY <1>1 DEF IInv, TypeOK
<1>4. subscription_id_to_subscription'[id] = entry
  BY <1>1 DEF IInv, TypeOK
<1>5. OwnedAreRegistered'
  <2>1. \A d \in Client, i \in SubId :
          i \in addr_to_subscription_ids'[d]
            <=> i \in addr_to_subscription_ids[d] \/ (d = c /\ i = id)
    BY DEF IInv, TypeOK, Subscribe
  <2>. QED
    BY <1>1, <1>2, <1>3, <1>4, <2>1
    DEF IInv, RegistryCoherent, OwnedAreRegistered, Registered
<1>6. ListedAreRegistered'
  <2>1. \A k \in Key : \A i \in path_to_subscription_id'[k] :
          i \in path_to_subscription_id[k] \/ (k = Lower[p] /\ i = id)
    BY DEF IInv, TypeOK, Subscribe
  <2>2. \A k \in Key : id \notin path_to_subscription_id[k]
    BY <1>2 DEF IInv, RegistryCoherent, ListedAreRegistered
  <2>3. \A k \in Key : path_to_subscription_id[k] \subseteq SubId
    BY DEF IInv, TypeOK
  <2>. QED
    BY <1>1, <1>3, <1>4, <2>1, <2>2, <2>3
    DEF IInv, RegistryCoherent, ListedAreRegistered, Registered
<1>7. RegisteredAreIssued'
  BY <1>3 DEF IInv, RegistryCoherent, RegisteredAreIssued, Registered, Subscribe
<1>. QED
  BY <1>5, <1>6, <1>7 DEF RegistryCoherent

LEMMA UnsubscribeCoherent ==
  ASSUME IInv, NEW c \in Client, NEW r \in ReqId, NEW id \in SubId,
         Unsubscribe(c, r, id)
  PROVE  RegistryCoherent'
<1>1. CASE UnsubscribeRefused(c, r, id)
  BY <1>1, SameMapsCoherent DEF UnsubscribeRefused, maps, IInv
<1>2. CASE UnsubscribeOwned(c, r, id)
  <2>1. Registered(id) /\ subscription_id_to_subscription[id].client = c
    BY <1>2 DEF UnsubscribeOwned, IInv, RegistryCoherent, OwnedAreRegistered
  <2>2. /\ subscription_id_to_subscription' =
             [subscription_id_to_subscription EXCEPT ![id] = None]
        /\ addr_to_subscription_ids' =
             [addr_to_subscription_ids EXCEPT ![c] = @ \ {id}]
        /\ path_to_subscription_id' = Unlisted({id})
        /\ UNCHANGED issued
    BY <1>2, <2>1 DEF UnsubscribeOwned, Registered
  <2>3. ~Registered(id)' /\ \A i \in SubId \ {id} :
          subscription_id_to_subscription'[i]
            = subscription_id_to_subscription[i]
    BY <2>2 DEF IInv, TypeOK, Registered
  <2>4. OwnedAreRegistered'
    <3>1. \A d \in Client, i \in SubId :
            i \in addr_to_subscription_ids'[d]
              <=> i \in addr_to_subscription_ids[d] /\ ~(d = c /\ i = id)
      BY <2>2 DEF IInv, TypeOK
    <3>. QED
      BY <2>1, <2>3, <3>1
      DEF IInv, RegistryCoherent, OwnedAreRegistered, Registered
  <2>5. ListedAreRegistered'
    <3>1. \A k \in Key : path_to_subscription_id'[k]
                           = path_to_subscription_id[k] \ {id}
      BY <2>1, <2>2
      DEF Unlisted, IInv, RegistryCoherent, ListedAreRegistered, Registered
    <3>2. \A k \in Key : path_to_subscription_id[k] \subseteq SubId
      BY DEF IInv, TypeOK
    <3>. QED
      BY <2>3, <3>1, <3>2
      DEF IInv, RegistryCoherent, ListedAreRegistered, Registered
  <2>6. RegisteredAreIssued'
    BY <2>2, <2>3
    DEF IInv, RegistryCoherent, RegisteredAreIssued, Registered
  <2>. QED
    BY <2>4, <2>5, <2>6 DEF RegistryCoherent
<1>. QED
  BY <1>1, <1>2 DEF Unsubscribe

LEMMA UnsubscribeAllCoherent ==
  ASSUME IInv, NEW c \in Client, NEW r, UnsubscribeAll(c, r)
  PROVE  RegistryCoherent'
<1>1. \A k \in Key : path_to_subscription_id'[k] \subseteq path_to_subscription_id[k]
  BY DEF UnsubscribeAll, Unlisted
<1>2. UNCHANGED <<addr_to_subscription_ids, subscription_id_to_subscription, issued>>
  BY DEF UnsubscribeAll
<1>. QED
  BY <1>1, <1>2
  DEF IInv, RegistryCoherent, OwnedAreRegistered, ListedAreRegistered,
      RegisteredAreIssued, Registered

LEMMA NextCoherent == IInv /\ [Next]_vars => RegistryCoherent'
<1>. SUFFICES ASSUME IInv, [Next]_vars PROVE RegistryCoherent'
  OBVIOUS
<1>1. CASE UNCHANGED vars
  BY <1>1, SameMapsCoherent DEF IInv, vars, maps
<1>2. ASSUME NEW c \in Client, NEW r \in ReqId, Request(c, r)
      PROVE  RegistryCoherent'
  <2>1. ASSUME NEW p \in Path,
               Get(c, p, r) \/ SetWithoutRecipient(c, p, r)
                           \/ SetUndeliverable(c, p, r)
        PROVE  RegistryCoherent'
    BY <2>1, SameMapsCoherent
    DEF Get, SetWithoutRecipient, SetUndeliverable, maps, IInv
  <2>2. ASSUME NEW p \in Path, NEW v \in Value, SetForwarded(c, p, v, r)
        PROVE  RegistryCoherent'
    BY <2>2, SameMapsCoherent DEF SetForwarded, maps, IInv
  <2>. QED
    BY <1>2, <2>1, <2>2, SubscribeCoherent, UnsubscribeCoherent,
       UnsubscribeAllCoherent DEF Request
<1>3. ASSUME NEW c \in Client, UnsubscribeAll(c, None) PROVE RegistryCoherent'
  BY <1>3, UnsubscribeAllCoherent
<1>4. ASSUME NEW p \in Path, NEW v \in Value, UpdateSignal(p, v)
      PROVE  RegistryCoherent'
  BY <1>4, SameMapsCoherent DEF UpdateSignal, IInv
<1>5. ASSUME NEW p \in Path, NEW rcpt \in Recipient, AddSetRecipient(p, rcpt)
      PROVE  RegistryCoherent'
  BY <1>5, SameMapsCoherent DEF AddSetRecipient, IInv
<1>. QED
  BY <1>1, <1>2, <1>3, <1>4, <1>5 DEF Next

LEMMA Inductive == Spec => []IInv
<1>1. Init => IInv
  BY InitType, InitCoherent DEF IInv
<1>2. IInv /\ [Next]_vars => IInv'
  BY NextType, NextCoherent DEF IInv
<1>. QED
  BY <1>1, <1>2, PTL DEF Spec

(***************************************************************************)
(* In every reachable state the three subscription maps agree.             *)
(***************************************************************************)
THEOREM Coherence == Spec => []RegistryCoherent
BY Inductive, PTL DEF IInv

(***************************************************************************)
(* Every handler of a request answers the client that made it: the only    *)
(* branch that sends nothing, in Unsubscribe, needs an owned id without an *)
(* entry, which OwnedAreRegistered excludes.                               *)
(***************************************************************************)
LEMMA RequestAnswered ==
  ASSUME IInv, NEW c \in Client, NEW r \in ReqId, Request(c, r)
  PROVE  c \in DOMAIN sent' /\ sent'[c].request_id = r
<1>. DEFINE Answered == c \in DOMAIN sent' /\ sent'[c].request_id = r
<1>1. ASSUME NEW p \in Path,
             Get(c, p, r) \/ SetWithoutRecipient(c, p, r)
                         \/ SetUndeliverable(c, p, r)
      PROVE  Answered
  BY <1>1 DEF Get, SetWithoutRecipient, SetUndeliverable, Reply, GetSuccess,
              GetError, SetError, RequestError
<1>2. ASSUME NEW p \in Path, NEW v \in Value, SetForwarded(c, p, v, r)
      PROVE  Answered
  BY <1>2 DEF SetForwarded, ReplyAnd, SetSuccess
<1>3. ASSUME NEW p \in Path, NEW id \in SubId, Subscribe(c, p, r, id)
      PROVE  Answered
  BY <1>3 DEF Subscribe, Reply, SubscribeSuccess
<1>4. ASSUME NEW id \in SubId, Unsubscribe(c, r, id)
      PROVE  Answered
  <2>1. CASE UnsubscribeRefused(c, r, id)
    BY <2>1 DEF UnsubscribeRefused, Reply, UnsubscribeError
  <2>2. CASE UnsubscribeOwned(c, r, id)
    <3>1. subscription_id_to_subscription[id] # None
      BY <2>2 DEF UnsubscribeOwned, IInv, RegistryCoherent,
                  OwnedAreRegistered, Registered
    <3>. QED
      BY <2>2, <3>1 DEF UnsubscribeOwned, ReplyAnd, UnsubscribeSuccess
  <2>. QED
    BY <1>4, <2>1, <2>2 DEF Unsubscribe
<1>5. CASE UnsubscribeAll(c, r)
  BY <1>5, NoneAssumption DEF UnsubscribeAll, ReplyAnd, UnsubscribeAllSuccess
<1>. QED
  BY <1>1, <1>2, <1>3, <1>4, <1>5 DEF Request

(***************************************************************************)
(* Every request is answered, under its own id.                            *)
(***************************************************************************)
THEOREM RequestsAreAnswered == Spec => EveryRequestAnswered
<1>1. IInv /\ [Next]_vars =>
        [\A c \in Client, r \in ReqId :
           Request(c, r) => /\ c \in DOMAIN sent'
                            /\ sent'[c].request_id = r]_vars
  BY RequestAnswered
<1>. QED
  BY <1>1, Inductive, PTL DEF Spec, EveryRequestAnswered

(***************************************************************************)
(* What a listed id is: one registered for the key it is listed under.     *)
(***************************************************************************)
LEMMA ListedId ==
  ASSUME IInv, NEW id \in SubId, NEW k \in Key
  PROVE  id \in path_to_subscription_id[k]
           <=> Listed(id) /\ Lower[subscription_id_to_subscription[id].path] = k
BY DEF IInv, RegistryCoherent, ListedAreRegistered, Listed

LEMMA EntryType ==
  ASSUME IInv, NEW id \in SubId, Listed(id)
  PROVE  /\ Registered(id)
         /\ subscription_id_to_subscription[id].client \in Client
         /\ subscription_id_to_subscription[id].path \in Path
         /\ Lower[subscription_id_to_subscription[id].path] \in Key
<1>1. Registered(id)
  BY DEF IInv, RegistryCoherent, ListedAreRegistered, Listed
<1>2. subscription_id_to_subscription[id] \in Entry
  BY <1>1 DEF IInv, TypeOK, Registered
<1>. QED
  BY <1>1, <1>2, LowerKey DEF Entry

(* Dropping ids from the fan-out drops the registered ones and no other. *)
LEMMA UnlistedIds ==
  ASSUME IInv, NEW ids \in SUBSET SubId, NEW id \in SubId,
         path_to_subscription_id' = Unlisted(ids)
  PROVE  Listed(id)' <=> Listed(id) /\ id \notin ids
<1>1. \A k \in Key : id \in path_to_subscription_id'[k]
        <=> id \in path_to_subscription_id[k] /\ id \notin ids
  BY ListedId DEF Unlisted
<1>. QED
  BY <1>1 DEF Listed

LEMMA SubscribeListed ==
  ASSUME IInv, NEW c \in Client, NEW p \in Path, NEW r \in ReqId,
         NEW new \in SubId, Subscribe(c, p, r, new), NEW id \in SubId
  PROVE  Listed(id)' <=> Listed(id) \/ id = new
<1>1. \A k \in Key : id \in path_to_subscription_id'[k]
        <=> id \in path_to_subscription_id[k] \/ (k = Lower[p] /\ id = new)
  BY DEF Subscribe, IInv, TypeOK
<1>. QED
  BY <1>1, LowerKey DEF Listed

(***************************************************************************)
(* The ids UnsubscribeAll acts on are the client's, and only its.          *)
(***************************************************************************)
LEMMA OwnIds ==
  ASSUME IInv, NEW c \in Client, NEW id \in SubId
  PROVE  id \in OwnSubscriptions(c)
           <=> Registered(id) /\ subscription_id_to_subscription[id].client = c
BY DEF OwnSubscriptions, IInv, RegistryCoherent, OwnedAreRegistered

(* A handler that keeps the fan-out and stops no actor. *)
LEMMA KeepsEnds ==
  ASSUME NEW id \in SubId, Listed(id) => Listed(id)',
         id \in DOMAIN sent' => sent'[id] # StopSubscription
  PROVE  Ends(id)
BY DEF Ends

LEMMA ReplyEnds ==
  ASSUME NEW id \in SubId, NEW c \in Client, NEW x, sent' = Reply(c, x),
         Listed(id) => Listed(id)'
  PROVE  Ends(id)
BY KeepsEnds, AddrAssumption DEF Reply

LEMMA UnsubscribeEnds ==
  ASSUME IInv, NEW c \in Client, NEW r \in ReqId, NEW i \in SubId,
         Unsubscribe(c, r, i), NEW id \in SubId
  PROVE  Ends(id)
<1>1. CASE UnsubscribeRefused(c, r, i)
  BY <1>1, ReplyEnds DEF UnsubscribeRefused, maps, Listed
<1>2. CASE UnsubscribeOwned(c, r, i)
  <2>1. Registered(i) /\ subscription_id_to_subscription[i].client = c
    BY <1>2 DEF UnsubscribeOwned, IInv, RegistryCoherent, OwnedAreRegistered
  <2>2. path_to_subscription_id' = Unlisted({i})
    BY <1>2, <2>1 DEF UnsubscribeOwned, Registered
  <2>3. Listed(id)' <=> Listed(id) /\ id # i
    BY <2>2, UnlistedIds
  <2>4. sent' = ReplyAnd(c, UnsubscribeSuccess(r, i), {i}, StopSubscription)
    BY <1>2, <2>1 DEF UnsubscribeOwned, Registered
  <2>5. DOMAIN sent' = {c, i} /\ sent'[i] = StopSubscription
    BY <2>4, AddrAssumption DEF ReplyAnd
  <2>. QED
    BY <2>1, <2>3, <2>5, AddrAssumption DEF Ends
<1>. QED
  BY <1>1, <1>2 DEF Unsubscribe

LEMMA UnsubscribeAllEnds ==
  ASSUME IInv, NEW c \in Client, NEW r \in ReqId \cup {None},
         UnsubscribeAll(c, r), NEW id \in SubId
  PROVE  Ends(id)
<1>1. OwnSubscriptions(c) \in SUBSET SubId
  BY DEF OwnSubscriptions, IInv, TypeOK
<1>2. Listed(id)' <=> Listed(id) /\ id \notin OwnSubscriptions(c)
  BY <1>1, UnlistedIds DEF UnsubscribeAll
<1>3. /\ Client \cap DOMAIN sent' \subseteq {c}
      /\ SubId \cap DOMAIN sent' = OwnSubscriptions(c)
      /\ \A i \in OwnSubscriptions(c) : sent'[i] = StopSubscription
  <2>1. CASE r = None
    BY <1>1, <2>1, AddrAssumption DEF UnsubscribeAll
  <2>2. CASE r # None
    BY <1>1, <2>2, AddrAssumption DEF UnsubscribeAll, ReplyAnd
  <2>. QED
    BY <2>1, <2>2
<1>. QED
  BY <1>2, <1>3, OwnIds DEF Ends

LEMMA NextEnds ==
  ASSUME IInv, Next, NEW id \in SubId
  PROVE  Ends(id)
<1>1. ASSUME NEW c \in Client, NEW r \in ReqId, Request(c, r) PROVE Ends(id)
  <2>1. ASSUME NEW p \in Path,
               Get(c, p, r) \/ SetWithoutRecipient(c, p, r)
                           \/ SetUndeliverable(c, p, r)
        PROVE  Ends(id)
    BY <2>1, ReplyEnds
    DEF Get, SetWithoutRecipient, SetUndeliverable, maps, Listed
  <2>2. ASSUME NEW p \in Path, NEW v \in Value, SetForwarded(c, p, v, r)
        PROVE  Ends(id)
    <3>1. set_recipients[Lower[p]] \in Recipient
      BY <2>2, LowerKey DEF SetForwarded, IInv, TypeOK
    <3>. QED
      BY <2>2, <3>1, KeepsEnds, AddrAssumption
      DEF SetForwarded, ReplyAnd, maps, Listed
  <2>3. ASSUME NEW p \in Path, NEW i \in SubId, Subscribe(c, p, r, i)
        PROVE  Ends(id)
    <3>1. Listed(id) => Listed(id)'
      BY <2>3, SubscribeListed
    <3>. QED
      BY <2>3, <3>1, ReplyEnds DEF Subscribe
  <2>. QED
    BY <1>1, <2>1, <2>2, <2>3, UnsubscribeEnds, UnsubscribeAllEnds DEF Request
<1>2. ASSUME NEW c \in Client, UnsubscribeAll(c, None) PROVE Ends(id)
  BY <1>2, UnsubscribeAllEnds
<1>3. ASSUME NEW p \in Path, NEW v \in Value, UpdateSignal(p, v)
      PROVE  Ends(id)
  BY <1>3, KeepsEnds
  DEF UpdateSignal, Listed, NotifySubscriber, StopSubscription
<1>4. ASSUME NEW p \in Path, NEW rcpt \in Recipient, AddSetRecipient(p, rcpt)
      PROVE  Ends(id)
  BY <1>4, KeepsEnds DEF AddSetRecipient, Listed, NoMessage
<1>. QED
  BY <1>1, <1>2, <1>3, <1>4 DEF Next

(***************************************************************************)
(* A subscription leaves the fan-out exactly when its actor is told to     *)
(* stop, and only its owner is answered in that step.                      *)
(***************************************************************************)
THEOREM SubscriptionsEndWithOwner == Spec => EndsWithOwner
<1>1. IInv /\ [Next]_vars => [\A id \in SubId : Ends(id)]_vars
  BY NextEnds
<1>. QED
  BY <1>1, Inductive, PTL DEF Spec, EndsWithOwner

(***************************************************************************)
(* The refinement: what a handler does to the active subscriptions.        *)
(***************************************************************************)
Active(id) ==
  [id |-> id,
   client |-> subscription_id_to_subscription[id].client,
   key |-> Lower[subscription_id_to_subscription[id].path]]

LEMMA ActiveIs ==
  /\ ActiveSubscriptions = {Active(id) : id \in {i \in SubId : Listed(i)}}
  /\ \A i, j : Active(i) = Active(j) => i = j
BY DEF ActiveSubscriptions, Active

(* Handlers that leave the fan-out and the entries alone. *)
LEMMA SameActive ==
  ASSUME UNCHANGED <<path_to_subscription_id, subscription_id_to_subscription>>
  PROVE  ActiveSubscriptions' = ActiveSubscriptions
BY DEF ActiveSubscriptions, Listed

(* Handlers that hand no value to a subscription. *)
LEMMA NoNotifications ==
  ASSUME \A id \in SubId \cap DOMAIN sent' :
           sent'[id] = StopSubscription
  PROVE  Notifications' = {}
BY DEF Notifications, StopSubscription

LEMMA ReplyNotifiesNone ==
  ASSUME NEW c \in Client, NEW x, sent' = Reply(c, x)
  PROVE  Notifications' = {}
<1>1. SubId \cap DOMAIN sent' = {}
  BY AddrAssumption DEF Reply
<1>. QED
  BY <1>1, NoNotifications

LEMMA UpdateSignalPublishes ==
  ASSUME IInv, NEW p \in Path, NEW v \in Value, UpdateSignal(p, v)
  PROVE  PS!Publish(Lower[p], v)
<1>1. Notifications' = {[id |-> i, value |-> v] : i \in Subscribers(p)}
  <2>1. Subscribers(p) \subseteq SubId
    BY LowerKey DEF Subscribers, IInv, TypeOK
  <2>2. DOMAIN sent' = Subscribers(p)
    BY DEF UpdateSignal
  <2>3. \A i \in Subscribers(p) : sent'[i] = NotifySubscriber(v)
    BY DEF UpdateSignal
  <2>4. {i \in SubId \cap DOMAIN sent' : sent'[i].msg = "NotifySubscriber"}
          = Subscribers(p)
    BY <2>1, <2>2, <2>3 DEF NotifySubscriber
  <2>5. \A i \in Subscribers(p) : sent'[i].signal_value = v
    BY <2>3 DEF NotifySubscriber
  <2>. QED
    BY <2>4, <2>5 DEF Notifications
<1>2. \A i \in SubId :
        i \in Subscribers(p) <=> Listed(i) /\ Active(i).key = Lower[p]
  BY ListedId, EntryType, LowerKey DEF Subscribers, Active
<1>3. Subscribers(p) \subseteq SubId
  BY LowerKey DEF Subscribers, IInv, TypeOK
<1>4. {[id |-> i, value |-> v] : i \in Subscribers(p)}
        = {[id |-> s.id, value |-> v] :
             s \in {t \in ActiveSubscriptions : t.key = Lower[p]}}
  <2>1. \A i \in Subscribers(p) :
          Active(i) \in {t \in ActiveSubscriptions : t.key = Lower[p]}
          /\ Active(i).id = i
    BY <1>2, <1>3, ActiveIs DEF Active
  <2>2. \A s \in {t \in ActiveSubscriptions : t.key = Lower[p]} :
          s.id \in Subscribers(p)
    BY <1>2, ActiveIs DEF Active
  <2>. QED
    BY <2>1, <2>2
<1>5. ActiveSubscriptions' = ActiveSubscriptions
  BY SameActive DEF UpdateSignal
<1>. QED
  BY <1>1, <1>4, <1>5 DEF PS!Publish, UpdateSignal

LEMMA SubscribeOpens ==
  ASSUME IInv, NEW c \in Client, NEW p \in Path, NEW r \in ReqId,
         NEW id \in SubId, Subscribe(c, p, r, id)
  PROVE  PS!Open(c, Lower[p], id)
<1>1. Notifications' = {}
  BY ReplyNotifiesNone DEF Subscribe
<1>2. \A i \in SubId : Listed(i)' <=> Listed(i) \/ i = id
  BY SubscribeListed
<1>3. \A i \in SubId \ {id} : Active(i)' = Active(i)
  BY DEF Subscribe, Active, IInv, TypeOK
<1>4. Active(id)' = [id |-> id, client |-> c, key |-> Lower[p]]
  BY DEF Subscribe, Active, IInv, TypeOK
<1>5. ~Listed(id)
  BY EntryType DEF Subscribe, IInv, RegistryCoherent, RegisteredAreIssued
<1>6. ActiveSubscriptions' = ActiveSubscriptions
        \cup {[id |-> id, client |-> c, key |-> Lower[p]]}
  <2>1. ActiveSubscriptions'
          = {Active(i)' : i \in {j \in SubId : Listed(j)'}}
    BY ActiveIs DEF ActiveSubscriptions, Active
  <2>2. {j \in SubId : Listed(j)'} = {j \in SubId : Listed(j)} \cup {id}
    BY <1>2
  <2>. QED
    BY <1>3, <1>4, <1>5, <2>1, <2>2, ActiveIs
<1>. QED
  BY <1>1, <1>6 DEF PS!Open, Subscribe

LEMMA UnsubscribeCloses ==
  ASSUME IInv, NEW c \in Client, NEW r \in ReqId, NEW id \in SubId,
         Unsubscribe(c, r, id)
  PROVE  PS!Other \/ \E s \in ActiveSubscriptions : PS!Close(s)
<1>1. CASE UnsubscribeRefused(c, r, id)
  BY <1>1, SameActive, ReplyNotifiesNone
  DEF UnsubscribeRefused, maps, PS!Other
<1>2. CASE UnsubscribeOwned(c, r, id)
  <2>1. Registered(id)
    BY <1>2 DEF UnsubscribeOwned, IInv, RegistryCoherent, OwnedAreRegistered
  <2>2. /\ subscription_id_to_subscription' =
             [subscription_id_to_subscription EXCEPT ![id] = None]
        /\ path_to_subscription_id' = Unlisted({id})
        /\ sent' = ReplyAnd(c, UnsubscribeSuccess(r, id), {id},
                            StopSubscription)
        /\ UNCHANGED <<signal_cache, issued>>
    BY <1>2, <2>1 DEF UnsubscribeOwned, Registered
  <2>3. Notifications' = {}
    BY <2>2, NoNotifications, AddrAssumption DEF ReplyAnd
  <2>4. \A i \in SubId : Listed(i)' <=> Listed(i) /\ i # id
    BY <2>2, UnlistedIds
  <2>5. \A i \in SubId \ {id} : Active(i)' = Active(i)
    BY <2>2 DEF Active, IInv, TypeOK
  <2>6. ActiveSubscriptions' = ActiveSubscriptions \ {Active(id)}
    <3>1. ActiveSubscriptions'
            = {Active(i)' : i \in {j \in SubId : Listed(j)'}}
      BY DEF ActiveSubscriptions, Active
    <3>2. {j \in SubId : Listed(j)'} = {j \in SubId : Listed(j)} \ {id}
      BY <2>4
    <3>. QED
      BY <2>5, <3>1, <3>2, ActiveIs
  <2>7. CASE Listed(id)
    <3>1. Active(id) \in ActiveSubscriptions
      BY <2>7, ActiveIs
    <3>2. PS!Close(Active(id))
      BY <2>2, <2>3, <2>6, <3>1 DEF PS!Close
    <3>. QED
      BY <3>1, <3>2
  <2>8. CASE ~Listed(id)
    <3>1. Active(id) \notin ActiveSubscriptions
      BY <2>8, ActiveIs
    <3>2. ActiveSubscriptions' = ActiveSubscriptions
      BY <2>6, <3>1
    <3>. QED
      BY <2>2, <2>3, <3>2 DEF PS!Other
  <2>. QED
    BY <2>7, <2>8
<1>. QED
  BY <1>1, <1>2 DEF Unsubscribe

LEMMA UnsubscribeAllClosesAll ==
  ASSUME IInv, NEW c \in Client, NEW r \in ReqId \cup {None},
         UnsubscribeAll(c, r)
  PROVE  PS!CloseAll(c)
<1>1. OwnSubscriptions(c) \in SUBSET SubId
  BY DEF OwnSubscriptions, IInv, TypeOK
<1>2. Notifications' = {}
  <2>1. \A i \in SubId \cap DOMAIN sent' : sent'[i] = StopSubscription
    BY AddrAssumption DEF UnsubscribeAll, ReplyAnd
  <2>. QED
    BY <2>1, NoNotifications
<1>3. \A i \in SubId :
        Listed(i)' <=> Listed(i) /\ Active(i).client # c
  BY <1>1, UnlistedIds, OwnIds, EntryType DEF UnsubscribeAll, Active
<1>4. \A i \in SubId : Active(i)' = Active(i)
  BY DEF UnsubscribeAll, Active
<1>5. ActiveSubscriptions' = {s \in ActiveSubscriptions : s.client # c}
  <2>1. ActiveSubscriptions'
          = {Active(i)' : i \in {j \in SubId : Listed(j)'}}
    BY DEF ActiveSubscriptions, Active
  <2>. QED
    BY <1>3, <1>4, <2>1, ActiveIs
<1>. QED
  BY <1>2, <1>5 DEF PS!CloseAll, UnsubscribeAll

LEMMA InitRefines == Init => PS!Init
BY DEF Init, PS!Init, ActiveSubscriptions, Listed, Notifications, NoMessage

LEMMA NextRefines ==
  ASSUME IInv, [Next]_vars
  PROVE  [PS!Next]_(PS!vars)
<1>1. CASE UNCHANGED vars
  <2>1. UNCHANGED Notifications
    BY <1>1 DEF vars, Notifications
  <2>. QED
    BY <1>1, <2>1, SameActive DEF vars, maps, PS!vars
<1>2. ASSUME NEW c \in Client, NEW r \in ReqId, Request(c, r) PROVE PS!Next
  <2>1. ASSUME NEW p \in Path,
               Get(c, p, r) \/ SetWithoutRecipient(c, p, r)
                           \/ SetUndeliverable(c, p, r)
        PROVE  PS!Other
    BY <2>1, SameActive, ReplyNotifiesNone
    DEF Get, SetWithoutRecipient, SetUndeliverable, maps, PS!Other
  <2>2. ASSUME NEW p \in Path, NEW v \in Value, SetForwarded(c, p, v, r)
        PROVE  PS!Other
    <3>1. set_recipients[Lower[p]] \in Recipient
      BY <2>2, LowerKey DEF SetForwarded, IInv, TypeOK
    <3>2. Notifications' = {}
      BY <2>2, <3>1, NoNotifications, AddrAssumption DEF SetForwarded, ReplyAnd
    <3>. QED
      BY <2>2, <3>2, SameActive DEF SetForwarded, maps, PS!Other
  <2>3. ASSUME NEW p \in Path, NEW id \in SubId, Subscribe(c, p, r, id)
        PROVE  PS!Next
    BY <2>3, SubscribeOpens, LowerKey DEF PS!Next
  <2>4. ASSUME NEW id \in SubId, Unsubscribe(c, r, id) PROVE PS!Next
    BY <2>4, UnsubscribeCloses DEF PS!Next
  <2>5. CASE UnsubscribeAll(c, r)
    BY <2>5, UnsubscribeAllClosesAll DEF PS!Next
  <2>6. PS!Other => PS!Next
    BY DEF PS!Next
  <2>. QED
    BY <1>2, <2>1, <2>2, <2>3, <2>4, <2>5, <2>6 DEF Request
<1>3. ASSUME NEW c \in Client, UnsubscribeAll(c, None) PROVE PS!Next
  BY <1>3, UnsubscribeAllClosesAll DEF PS!Next
<1>4. ASSUME NEW p \in Path, NEW v \in Value, UpdateSignal(p, v) PROVE PS!Next
  BY <1>4, UpdateSignalPublishes, LowerKey DEF PS!Next
<1>5. ASSUME NEW p \in Path, NEW rcpt \in Recipient, AddSetRecipient(p, rcpt)
      PROVE  PS!Next
  <2>1. Notifications' = {}
    BY <1>5, NoNotifications DEF AddSetRecipient, NoMessage
  <2>2. PS!Other
    BY <1>5, <2>1, SameActive DEF AddSetRecipient, PS!Other
  <2>. QED
    BY <2>2 DEF PS!Next
<1>. QED
  BY <1>1, <1>2, <1>3, <1>4, <1>5 DEF Next

(***************************************************************************)
(* The manager implements PubSub: an update reaches exactly the active     *)
(* subscriptions of its signal, and only their owners end them.            *)
(***************************************************************************)
THEOREM Refinement == Spec => PubSubSpec
<1>1. Init => PS!Init
  BY InitRefines
<1>2. IInv /\ [Next]_vars => [PS!Next]_(PS!vars)
  BY NextRefines
<1>. QED
  BY <1>1, <1>2, Inductive, PTL DEF Spec, PubSubSpec, PS!Spec
===============================================================================
