----------------------------- MODULE SignalManager -----------------------------
(***************************************************************************)
(* The SignalManager actor of one worker: its five maps and one action per *)
(* message it handles (signal_manager.rs, action/*.rs).  A handler runs to *)
(* completion before the next message is taken, so a handler is one step.  *)
(*                                                                         *)
(* Here a message may arrive at any time with any content; VisServer       *)
(* restricts this to what the sessions and the sources put in the          *)
(* manager's mailbox.                                                      *)
(*                                                                         *)
(* A Vec<SubscriptionID> is a set: every id pushed is a fresh UUID and no  *)
(* code looks at the order.  An absent key and an empty Vec are the same   *)
(* to every handler, so the maps of Vecs are total.  The actor of a        *)
(* subscription and its Addr are named by the subscription's id.           *)
(***************************************************************************)
EXTENDS VisApi

CONSTANTS
  Client,     \* the addresses of the ClientSession actors
  Recipient,  \* the addresses of the actors registered for `set`
  Lower       \* ActionPath compares and hashes the lower-cased string

Key == {Lower[p] : p \in Path}

ASSUME LowerAssumption ==
  /\ Lower \in [Path -> Path]
  /\ \A p \in Path : Lower[Lower[p]] = Lower[p]

ASSUME NoneAssumption ==
  /\ None \notin Value
  /\ None \notin ReqId
  /\ None \notin Recipient
  /\ None \notin [client : Client, path : Path]

ASSUME AddrAssumption ==
  /\ Client \cap SubId = {}
  /\ Client \cap Recipient = {}
  /\ SubId \cap Recipient = {}

VARIABLES
  signal_cache,                     \* last value per signal
  addr_to_subscription_ids,         \* ids created by a session
  path_to_subscription_id,          \* ids an update of the signal goes to
  subscription_id_to_subscription,  \* owner and path of an id
  set_recipients,                   \* who receives the set requests of a path
  issued,                           \* UUIDs Uuid::new_v4 has returned so far
  sent                              \* do_sends of the last handler, by addressee

maps == <<signal_cache, addr_to_subscription_ids, path_to_subscription_id,
          subscription_id_to_subscription, set_recipients, issued>>
vars == <<maps, sent>>

Entry == [client : Client, path : Path]

(* Each handler sends at most one message to an address. *)
NoMessage == [a \in {} |-> None]
Reply(c, response) == [a \in {c} |-> response]

(* The same message to every actor of others, and an answer to c. *)
ReplyAnd(c, response, others, message) ==
  [a \in {c} \cup others |-> IF a = c THEN response ELSE message]

TypeOK ==
  /\ signal_cache \in [Key -> Value \cup {None}]
  /\ addr_to_subscription_ids \in [Client -> SUBSET SubId]
  /\ path_to_subscription_id \in [Key -> SUBSET SubId]
  /\ subscription_id_to_subscription \in [SubId -> Entry \cup {None}]
  /\ set_recipients \in [Key -> Recipient \cup {None}]
  /\ issued \in SUBSET SubId
  /\ DOMAIN sent \subseteq Client \cup SubId \cup Recipient
  /\ \A a \in DOMAIN sent :
       /\ a \in Client => sent[a] \in Response
       /\ a \in SubId => sent[a] \in SubscriptionMessage
       /\ a \in Recipient => sent[a] \in SetMessage

(* SignalManager::default() *)
Init ==
  /\ signal_cache = [k \in Key |-> None]
  /\ addr_to_subscription_ids = [c \in Client |-> {}]
  /\ path_to_subscription_id = [k \in Key |-> {}]
  /\ subscription_id_to_subscription = [id \in SubId |-> None]
  /\ set_recipients = [k \in Key |-> None]
  /\ issued = {}
  /\ sent = NoMessage

-------------------------------------------------------------------------------
(***************************************************************************)
(* The lookups the handlers share.                                         *)
(***************************************************************************)
Registered(id) == subscription_id_to_subscription[id] # None

Listed(id) == \E k \in Key : id \in path_to_subscription_id[k]

(* A faulty variant: only those who spelt the path the same way. *)
SubscribersBySpelling(p) ==
  {id \in path_to_subscription_id[Lower[p]] :
     Registered(id) /\ subscription_id_to_subscription[id].path = p}

(* The ids an update of path p is fanned out to; an id without an entry in *)
(* subscription_id_to_subscription is only logged.                         *)
Subscribers(p) == {id \in path_to_subscription_id[Lower[p]] : Registered(id)}

(* The client's ids that UnsubscribeAll acts on. *)
OwnSubscriptions(c) == {id \in addr_to_subscription_ids[c] : Registered(id)}

(* A faulty variant: the list of the path is not cleaned. *)
StillListed(ids) == path_to_subscription_id

(* path_to_subscription_id after `retain` has dropped the registered ids. *)
Unlisted(ids) ==
  [k \in Key |->
    path_to_subscription_id[k]
      \ {id \in ids : Lower[subscription_id_to_subscription[id].path] = k}]

(* A faulty variant: only the first value of a signal is cached. *)
UpdateKeepingFirst(p, v) ==
  /\ sent' = [id \in Subscribers(p) |-> NotifySubscriber(v)]
  /\ signal_cache' = [signal_cache EXCEPT ![Lower[p]] = IF @ = None THEN v ELSE @]
  /\ UNCHANGED <<addr_to_subscription_ids, path_to_subscription_id,
                 subscription_id_to_subscription, set_recipients, issued>>

(***************************************************************************)
(* Handler<UpdateSignal>                                                   *)
(***************************************************************************)
UpdateSignal(p, v) ==
  /\ sent' = [id \in Subscribers(p) |-> NotifySubscriber(v)]
  /\ signal_cache' = [signal_cache EXCEPT ![Lower[p]] = v]
  /\ UNCHANGED <<addr_to_subscription_ids, path_to_subscription_id,
                 subscription_id_to_subscription, set_recipients, issued>>

(* A faulty variant: Get does not check that the signal has a value. *)
GetUnchecked(c, p, r) ==
  /\ sent' = Reply(c, GetSuccess(r, signal_cache[Lower[p]]))
  /\ UNCHANGED maps

(***************************************************************************)
(* Handler<ClientMessage<Get>>                                             *)
(***************************************************************************)
Get(c, p, r) ==
  /\ sent' = Reply(c, IF signal_cache[Lower[p]] # None
                        THEN GetSuccess(r, signal_cache[Lower[p]])
                        ELSE GetError(r, NOT_FOUND_INVALID_PATH))
  /\ UNCHANGED maps

(* A faulty variant: a set nobody is registered for is only logged. *)
SetIgnored(c, p, r) ==
  /\ set_recipients[Lower[p]] = None
  /\ sent' = NoMessage
  /\ UNCHANGED maps

(***************************************************************************)
(* Handler<ClientMessage<Set>>.  Whether the recipient's mailbox is still  *)
(* open decides if do_send succeeds; the recipient's own verdict on the    *)
(* request is never awaited.                                               *)
(***************************************************************************)
SetWithoutRecipient(c, p, r) ==
  /\ set_recipients[Lower[p]] = None
  /\ sent' = Reply(c, SetError(r, NOT_FOUND_INVALID_PATH))
  /\ UNCHANGED maps

SetForwarded(c, p, v, r) ==
  /\ set_recipients[Lower[p]] # None
  /\ sent' = ReplyAnd(c, SetSuccess(r),
                      {set_recipients[Lower[p]]}, SetRequest(r, p, v))
  /\ UNCHANGED maps

SetUndeliverable(c, p, r) ==
  /\ set_recipients[Lower[p]] # None
  /\ sent' = Reply(c, SetError(r, SERVICE_UNAVAILABLE))
  /\ UNCHANGED maps

(***************************************************************************)
(* Handler<AddSetRecipient>                                                *)
(***************************************************************************)
AddSetRecipient(p, rcpt) ==
  /\ set_recipients' = [set_recipients EXCEPT ![Lower[p]] = rcpt]
  /\ sent' = NoMessage
  /\ UNCHANGED <<signal_cache, addr_to_subscription_ids,
                 path_to_subscription_id, subscription_id_to_subscription,
                 issued>>

(* A faulty variant: only a client's first subscription is acknowledged. *)
SubscribeAcknowledgedOnce(c, p, r, id) ==
  /\ id \notin issued
  /\ issued' = issued \cup {id}
  /\ addr_to_subscription_ids' =
       [addr_to_subscription_ids EXCEPT ![c] = @ \cup {id}]
  /\ subscription_id_to_subscription' =
       [subscription_id_to_subscription EXCEPT ![id] =
          [client |-> c, path |-> p]]
  /\ path_to_subscription_id' =
       [path_to_subscription_id EXCEPT ![Lower[p]] = @ \cup {id}]
  /\ sent' = IF addr_to_subscription_ids[c] = {}
               THEN Reply(c, SubscribeSuccess(r, id)) ELSE NoMessage
  /\ UNCHANGED <<signal_cache, set_recipients>>

(***************************************************************************)
(* Handler<ClientMessage<Subscribe>>: id is what Uuid::new_v4 returns.     *)
(***************************************************************************)
Subscribe(c, p, r, id) ==
  /\ id \notin issued
  /\ issued' = issued \cup {id}
  /\ addr_to_subscription_ids' =
       [addr_to_subscription_ids EXCEPT ![c] = @ \cup {id}]
  /\ subscription_id_to_subscription' =
       [subscription_id_to_subscription EXCEPT ![id] =
          [client |-> c, path |-> p]]
  /\ path_to_subscription_id' =
       [path_to_subscription_id EXCEPT ![Lower[p]] = @ \cup {id}]
  /\ sent' = Reply(c, SubscribeSuccess(r, id))
  /\ UNCHANGED <<signal_cache, set_recipients>>

(* Faulty variants: a refusal is only logged; the ownership is not checked. *)
RefusedSilently(c, r, id) ==
  /\ id \notin addr_to_subscription_ids[c]
  /\ sent' = NoMessage
  /\ UNCHANGED maps

UnsubscribeAnyones(c, r, id) ==
  LET entry == subscription_id_to_subscription[id] IN
  /\ entry # None
  /\ subscription_id_to_subscription' =
       [subscription_id_to_subscription EXCEPT ![id] = None]
  /\ addr_to_subscription_ids' =
       [addr_to_subscription_ids EXCEPT ![entry.client] = @ \ {id}]
  /\ path_to_subscription_id' = Unlisted({id})
  /\ sent' = ReplyAnd(c, UnsubscribeSuccess(r, id), {id}, StopSubscription)
  /\ UNCHANGED <<signal_cache, set_recipients, issued>>

(***************************************************************************)
(* Handler<ClientMessage<Unsubscribe>>: refused when the id is not one of  *)
(* the client's; silent when it is but has no entry.                       *)
(***************************************************************************)
UnsubscribeRefused(c, r, id) ==
  /\ id \notin addr_to_subscription_ids[c]
  /\ sent' = Reply(c, UnsubscribeError(r, id,
                                       NOT_FOUND_INVALID_SUBSCRIPTION_ID))
  /\ UNCHANGED maps

UnsubscribeOwned(c, r, id) ==
  LET entry == subscription_id_to_subscription[id] IN
  /\ id \in addr_to_subscription_ids[c]
  /\ IF entry # None
       THEN /\ subscription_id_to_subscription' =
                 [subscription_id_to_subscription EXCEPT ![id] = None]
            /\ addr_to_subscription_ids' =
                 [addr_to_subscription_ids EXCEPT ![entry.client] = @ \ {id}]
            /\ path_to_subscription_id' = Unlisted({id})
            /\ sent' = ReplyAnd(c, UnsubscribeSuccess(r, id),
                                {id}, StopSubscription)
       ELSE /\ sent' = NoMessage
            /\ UNCHANGED <<subscription_id_to_subscription,
                           addr_to_subscription_ids, path_to_subscription_id>>
  /\ UNCHANGED <<signal_cache, set_recipients, issued>>

Unsubscribe(c, r, id) == UnsubscribeRefused(c, r, id) \/ UnsubscribeOwned(c, r, id)

(* Faulty variants: the registered ids are removed but the client's list   *)
(* is kept; the actors are not told to stop; those of all clients are.     *)
UnsubscribeAllHalfway(c, r) ==
  /\ path_to_subscription_id' = Unlisted(OwnSubscriptions(c))
  /\ subscription_id_to_subscription' =
       [id \in SubId |-> IF id \in OwnSubscriptions(c)
                           THEN None ELSE subscription_id_to_subscription[id]]
  /\ sent' = IF r = None THEN NoMessage ELSE Reply(c, UnsubscribeAllSuccess(r))
  /\ UNCHANGED <<signal_cache, addr_to_subscription_ids, set_recipients, issued>>

UnsubscribeAllUnstopped(c, r) ==
  /\ path_to_subscription_id' = Unlisted(OwnSubscriptions(c))
  /\ sent' = IF r = None THEN NoMessage ELSE Reply(c, UnsubscribeAllSuccess(r))
  /\ UNCHANGED <<signal_cache, addr_to_subscription_ids,
                 subscription_id_to_subscription, set_recipients, issued>>

UnsubscribeAllClients(c, r) ==
  LET all == {id \in SubId : Registered(id)} IN
  /\ path_to_subscription_id' = Unlisted(all)
  /\ sent' = IF r = None
               THEN [id \in all |-> StopSubscription]
               ELSE ReplyAnd(c, UnsubscribeAllSuccess(r), all, StopSubscription)
  /\ UNCHANGED <<signal_cache, addr_to_subscription_ids,
                 subscription_id_to_subscription, set_recipients, issued>>

(***************************************************************************)
(* Handler<ClientMessage<UnsubscribeAll>>: r is None when a stopped        *)
(* session cleans up after itself.  addr_to_subscription_ids and           *)
(* subscription_id_to_subscription keep the ids.                           *)
(***************************************************************************)
UnsubscribeAll(c, r) ==
  /\ path_to_subscription_id' = Unlisted(OwnSubscriptions(c))
  /\ sent' = IF r = None
               THEN [id \in OwnSubscriptions(c) |-> StopSubscription]
               ELSE ReplyAnd(c, UnsubscribeAllSuccess(r),
                             OwnSubscriptions(c), StopSubscription)
  /\ UNCHANGED <<signal_cache, addr_to_subscription_ids,
                 subscription_id_to_subscription, set_recipients, issued>>

-------------------------------------------------------------------------------
(* The messages that carry a client's request and expect an answer. *)
Request(c, r) ==
  \/ \E p \in Path : Get(c, p, r) \/ SetWithoutRecipient(c, p, r)
                                  \/ SetUndeliverable(c, p, r)
  \/ \E p \in Path, v \in Value : SetForwarded(c, p, v, r)
  \/ \E p \in Path, id \in SubId : Subscribe(c, p, r, id)
  \/ \E id \in SubId : Unsubscribe(c, r, id)
  \/ UnsubscribeAll(c, r)

Next ==
  \/ \E c \in Client, r \in ReqId : Request(c, r)
  \/ \E c \in Client : UnsubscribeAll(c, None)
  \/ \E p \in Path, v \in Value : UpdateSignal(p, v)
  \/ \E p \in Path, rcpt \in Recipient : AddSetRecipient(p, rcpt)

Spec == Init /\ [][Next]_vars

-------------------------------------------------------------------------------
(***************************************************************************)
(* The three subscription maps agree: a client's list holds exactly the    *)
(* registered ids it owns, a path lists only ids registered for that path, *)
(* and every registered id has been issued.  Handlers update the maps one  *)
(* after the other and read one to index another, so the warning "Missing  *)
(* addr for SubscriptionId" is dead code only because of this.             *)
(***************************************************************************)
OwnedAreRegistered ==
  \A c \in Client, id \in SubId :
    id \in addr_to_subscription_ids[c]
      <=> /\ Registered(id)
          /\ subscription_id_to_subscription[id].client = c

ListedAreRegistered ==
  \A k \in Key : \A id \in path_to_subscription_id[k] :
    /\ Registered(id)
    /\ Lower[subscription_id_to_subscription[id].path] = k

RegisteredAreIssued == \A id \in SubId : Registered(id) => id \in issued

RegistryCoherent ==
  OwnedAreRegistered /\ ListedAreRegistered /\ RegisteredAreIssued

(***************************************************************************)
(* Every request is answered to the client that made it, under its own     *)
(* request id; in particular the branch of Unsubscribe that sends nothing  *)
(* is never taken, whatever ids clients name and in whatever order.        *)
(***************************************************************************)
EveryRequestAnswered ==
  [][\A c \in Client, r \in ReqId :
       Request(c, r) => /\ c \in DOMAIN sent'
                        /\ sent'[c].request_id = r]_vars

(***************************************************************************)
(* A subscription leaves the fan-out exactly when its actor is told to     *)
(* stop, and no client but its owner is answered in that step: nobody ends *)
(* the subscription of another client, and no actor is left running        *)
(* unlisted or stopped while listed.                                       *)
(***************************************************************************)
Ends(id) ==
  /\ Listed(id) /\ ~Listed(id)' =>
       /\ id \in DOMAIN sent'
       /\ sent'[id] = StopSubscription
       /\ Client \cap DOMAIN sent'
            \subseteq {subscription_id_to_subscription[id].client}
  /\ id \in DOMAIN sent' /\ sent'[id] = StopSubscription => ~Listed(id)'

EndsWithOwner == [][\A id \in SubId : Ends(id)]_vars

(***************************************************************************)
(* The manager implements PubSub: the active subscriptions are the ids     *)
(* listed under a path, with the owner and path registered for them.       *)
(***************************************************************************)
ActiveSubscriptions ==
  {[id |-> id,
    client |-> subscription_id_to_subscription[id].client,
    key |-> Lower[subscription_id_to_subscription[id].path]] :
     id \in {i \in SubId : Listed(i)}}

Notifications ==
  {[id |-> id, value |-> sent[id].signal_value] :
     id \in {i \in SubId \cap DOMAIN sent :
               sent[i].msg = "NotifySubscriber"}}

PS == INSTANCE PubSub WITH
  active <- ActiveSubscriptions, latest <- signal_cache,
  used <- issued, notified <- Notifications

PubSubSpec == PS!Spec

(***************************************************************************)
(* unsubscribe_all.rs:4 "Remove all client subscriptions when a client     *)
(* requests an UnsubscribeAll or the client disconnects": afterwards the   *)
(* manager holds no subscription of that client.                           *)
(***************************************************************************)
RemovesAllClientSubscriptions ==
  [][\A c \in Client, r \in ReqId \cup {None} :
       UnsubscribeAll(c, r) =>
         \A id \in SubId :
           subscription_id_to_subscription'[id] # None
             => subscription_id_to_subscription'[id].client # c]_vars
===============================================================================
