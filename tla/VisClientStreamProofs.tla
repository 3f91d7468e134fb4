------------------------- MODULE VisClientStreamProofs -------------------------
(***************************************************************************)
(* Theorems about what the applications of VisClient are given.            *)
(***************************************************************************)
EXTENDS VisClientProofs, WellFoundedInduction

(***************************************************************************)
(* A connection carries one request.  What it receives: the answer to a    *)
(* get or to an unsubscribeAll, or the answer to a subscribe and then      *)
(* notifications of that subscription.  a is the request, own the ids of   *)
(* the requests made, R what is received.                                  *)
(***************************************************************************)
Fits(a, own, R, i) ==
  \/ /\ a.action = "get"
     /\ \E r \in own : \/ R[i] = GetError(r, NOT_FOUND_INVALID_PATH)
                       \/ \E v \in Value : R[i] = GetSuccess(r, v)
  \/ /\ a.action = "unsubscribeAll"
     /\ \E r \in own : R[i] = UnsubscribeAllSuccess(r)
  \/ /\ a.action = "subscribe"
     /\ IF i = 1
          THEN \E r \in own, id \in SubId : R[1] = SubscribeSuccess(r, id)
          ELSE \E v \in Value : R[i] = Subscription(R[1].subscription_id, v)

Shaped(a, own, R) == \A i \in 1..Len(R) : Fits(a, own, R, i)

LEMMA ShapedMore ==
  ASSUME NEW a, NEW own, NEW more, own \subseteq more, NEW R, Shaped(a, own, R)
  PROVE  Shaped(a, more, R)
BY DEF Shaped, Fits

LEMMA ShapedAppend ==
  ASSUME NEW a, NEW own, NEW R \in Seq(Text), Shaped(a, own, R), NEW x \in Text,
         Fits(a, own, Append(R, x), Len(R) + 1)
  PROVE  Shaped(a, own, Append(R, x))
<1>. DEFINE S == Append(R, x)
<1>1. /\ Len(R) \in Nat /\ Len(S) = Len(R) + 1
      /\ \A i \in 1..Len(R) : S[i] = R[i]
  BY AppendElements
<1>2. ASSUME NEW i \in 1..Len(R) PROVE Fits(a, own, S, i)
  <2>1. Fits(a, own, R, i) /\ S[i] = R[i] /\ S[1] = R[1]
    BY <1>1 DEF Shaped
  <2>. HIDE DEF S
  <2>. QED
    BY <2>1 DEF Fits
<1>. QED
  BY <1>1, <1>2 DEF Shaped

LEMMA ShapedPrefix ==
  ASSUME NEW a, NEW own, NEW u \in Seq(Text), NEW q \in Seq(Text),
         Shaped(a, own, u \o q)
  PROVE  Shaped(a, own, u)
<1>. DEFINE R == u \o q
<1>1. /\ Len(u) \in Nat /\ Len(u) <= Len(R) /\ Len(R) \in Nat
      /\ \A i \in 1..Len(u) : R[i] = u[i]
  OBVIOUS
<1>2. ASSUME NEW i \in 1..Len(u) PROVE Fits(a, own, u, i)
  <2>1. Fits(a, own, R, i) /\ R[i] = u[i] /\ R[1] = u[1]
    BY <1>1 DEF Shaped
  <2>. HIDE DEF R
  <2>. QED
    BY <2>1 DEF Fits
<1>. QED
  BY <1>2 DEF Shaped

(* The notifications of a stream without filters carry consecutive counts. *)
Consecutive(R) ==
  \A i, j \in 2..Len(R) : i <= j => R[j].value.n = R[i].value.n + (j - i)

LEMMA ConsecutivePrefix ==
  ASSUME NEW u \in Seq(Text), NEW q \in Seq(Text), Consecutive(u \o q)
  PROVE  Consecutive(u)
<1>1. /\ Len(u) \in Nat /\ Len(u) <= Len(u \o q) /\ Len(u \o q) \in Nat
      /\ \A i \in 1..Len(u) : (u \o q)[i] = u[i]
  OBVIOUS
<1>. DEFINE R == u \o q
<1>. SUFFICES ASSUME NEW i \in 2..Len(u), NEW j \in 2..Len(u), i <= j
              PROVE  u[j].value.n = u[i].value.n + (j - i)
  BY DEF Consecutive
<1>2. /\ i \in 2..Len(R) /\ j \in 2..Len(R)
      /\ R[i] = u[i] /\ R[j] = u[j]
  BY <1>1
<1>. HIDE DEF R
<1>3. R[j].value.n = R[i].value.n + (j - i)
  BY <1>2 DEF Consecutive, R
<1>. QED
  BY <1>2, <1>3

LEMMA ConsecutiveAppend ==
  ASSUME NEW R \in Seq(Text), Consecutive(R), NEW x \in Text, x.value.n \in Nat,
         Len(R) >= 2 => /\ x.value.n = R[Len(R)].value.n + 1
                        /\ \A i \in 2..Len(R) : R[i].value.n \in Nat
  PROVE  Consecutive(Append(R, x))
<1>. DEFINE S == Append(R, x)
<1>1. /\ Len(R) \in Nat /\ Len(S) = Len(R) + 1
      /\ \A i \in 1..Len(R) : S[i] = R[i]
      /\ S[Len(R) + 1] = x
  BY AppendElements
<1>. SUFFICES ASSUME NEW i \in 2..Len(S), NEW j \in 2..Len(S), i <= j
              PROVE  S[j].value.n = S[i].value.n + (j - i)
  BY DEF Consecutive
<1>. HIDE DEF S
<1>2. CASE j \in 2..Len(R)
  <2>1. i \in 2..Len(R) /\ S[i] = R[i] /\ S[j] = R[j]
    BY <1>1, <1>2
  <2>2. R[j].value.n = R[i].value.n + (j - i)
    BY <1>2, <2>1 DEF Consecutive
  <2>. QED
    BY <2>1, <2>2
<1>3. CASE j = Len(R) + 1 /\ i = j
  BY <1>1, <1>3
<1>4. CASE j = Len(R) + 1 /\ i < j
  <2>1. /\ i \in 2..Len(R) /\ Len(R) \in 2..Len(R)
        /\ S[i] = R[i] /\ S[j] = x
    BY <1>1, <1>4
  <2>2. R[Len(R)].value.n = R[i].value.n + (Len(R) - i)
    BY <1>1, <2>1 DEF Consecutive
  <2>. QED
    BY <1>1, <1>4, <2>1, <2>2
<1>. QED
  BY <1>1, <1>2, <1>3, <1>4

(***************************************************************************)
(* The updates on their way to a subscription, q, are consecutive counts   *)
(* that continue the one it holds.                                         *)
(***************************************************************************)
IsNotify(m) == m.msg = "NotifySubscriber"

Chained(latest, q) ==
  \A i \in 1..Len(q) :
    IsNotify(q[i]) =>
      /\ latest # None => q[i].signal_value.n = latest.n + i
      /\ \A j \in 1..i :
           IsNotify(q[j]) /\ q[i].signal_value.n = q[j].signal_value.n + (i - j)

LEMMA ValueShape ==
  ASSUME NEW v \in Value
  PROVE  v.n \in Nat /\ v = PosInt(v.n) /\ v.kind = "PosInt" /\ v # None
BY ValuesAssumption, BoundsAssumption, NoneAssumption DEF PosInt

LEMMA QueuedShape ==
  ASSUME NEW m \in SubscriptionMessage
  PROVE  /\ IsNotify(m) <=> m # StopSubscription
         /\ IsNotify(m) => m.signal_value \in Value /\ m = NotifySubscriber(m.signal_value)
         /\ \A v : IsNotify(NotifySubscriber(v)) /\ NotifySubscriber(v).signal_value = v
BY DEF SubscriptionMessage, NotifySubscriber, StopSubscription, IsNotify

LEMMA ChainedTail ==
  ASSUME NEW latest \in Value \cup {None}, NEW q \in Seq(SubscriptionMessage),
         q # <<>>, IsNotify(Head(q)), Chained(latest, q)
  PROVE  Chained(Head(q).signal_value, Tail(q))
<1>. DEFINE t == Tail(q)
<1>1. /\ Len(q) \in Nat \ {0} /\ Len(t) = Len(q) - 1
      /\ \A i \in 1..(Len(q) - 1) : t[i] = q[i + 1]
      /\ Head(q) = q[1]
  BY TailElements
<1>. HIDE DEF t
<1>. SUFFICES ASSUME NEW i \in 1..Len(t), IsNotify(t[i])
              PROVE  /\ t[i].signal_value.n = q[1].signal_value.n + i
                     /\ \A j \in 1..i :
                          /\ IsNotify(t[j])
                          /\ t[i].signal_value.n = t[j].signal_value.n + (i - j)
  BY <1>1 DEF Chained, t
<1>2. i + 1 \in 1..Len(q) /\ t[i] = q[i + 1]
  BY <1>1
<1>3. \A j \in 1..(i + 1) :
        /\ IsNotify(q[j])
        /\ q[i + 1].signal_value.n = q[j].signal_value.n + ((i + 1) - j)
  BY <1>2 DEF Chained
<1>4. t[i].signal_value.n = q[1].signal_value.n + i
  BY <1>2, <1>3
<1>5. ASSUME NEW j \in 1..i
      PROVE  /\ IsNotify(t[j])
             /\ t[i].signal_value.n = t[j].signal_value.n + (i - j)
  <2>1. t[j] = q[j + 1] /\ j + 1 \in 1..(i + 1) /\ (i + 1) - (j + 1) = i - j
    BY <1>1
  <2>. QED
    BY <1>2, <1>3, <2>1
<1>. QED
  BY <1>4, <1>5

LEMMA ChainedStop ==
  ASSUME NEW latest, NEW q \in Seq(SubscriptionMessage), Chained(latest, q)
  PROVE  Chained(latest, Append(q, StopSubscription))
<1>. DEFINE t == Append(q, StopSubscription)
<1>1. StopSubscription \in SubscriptionMessage /\ ~IsNotify(StopSubscription)
  BY DEF SubscriptionMessage, StopSubscription, IsNotify
<1>2. /\ Len(q) \in Nat /\ Len(t) = Len(q) + 1
      /\ \A i \in 1..Len(q) : t[i] = q[i]
      /\ t[Len(q) + 1] = StopSubscription
  BY <1>1, AppendElements
<1>. HIDE DEF t
<1>. QED
  BY <1>1, <1>2 DEF Chained, t

(* A count continues the chain when it follows its end. *)
LEMMA ChainedAppend ==
  ASSUME NEW latest \in Value \cup {None}, NEW q \in Seq(SubscriptionMessage),
         Chained(latest, q), NEW v \in Value,
         \A i \in 1..Len(q) : q[i] # StopSubscription,
         IF q # <<>> THEN v.n = q[Len(q)].signal_value.n + 1
                     ELSE latest # None => v.n = latest.n + 1
  PROVE  Chained(latest, Append(q, NotifySubscriber(v)))
<1>. DEFINE x == NotifySubscriber(v)
            t == Append(q, x)
<1>1. x \in SubscriptionMessage /\ IsNotify(x) /\ x.signal_value = v
  BY DEF SubscriptionMessage, NotifySubscriber, IsNotify
<1>. HIDE DEF x
<1>2. /\ Len(q) \in Nat /\ Len(t) = Len(q) + 1
      /\ \A i \in 1..Len(q) : t[i] = q[i]
      /\ t[Len(q) + 1] = x
  BY <1>1, AppendElements
<1>3. \A i \in 1..Len(q) : IsNotify(q[i]) /\ q[i].signal_value.n \in Nat
  BY QueuedShape, ElementOfSeq, ValueShape
<1>. HIDE DEF t
<1>4. v.n \in Nat /\ (latest # None => latest.n \in Nat)
  BY ValueShape
<1>5. q # <<>> => Len(q) \in 1..Len(q)
  BY <1>2, EmptySeq
<1>6. q = <<>> => Len(q) = 0
  BY EmptySeq
<1>7. ASSUME NEW i \in 1..(Len(q) + 1)
      PROVE  /\ latest # None => t[i].signal_value.n = latest.n + i
             /\ \A j \in 1..i :
                  /\ IsNotify(t[j])
                  /\ t[i].signal_value.n = t[j].signal_value.n + (i - j)
  <2>1. CASE i \in 1..Len(q)
    <3>1. /\ IsNotify(q[i]) /\ t[i] = q[i]
          /\ \A j \in 1..i : j \in 1..Len(q) /\ t[j] = q[j]
      BY <1>2, <1>3, <2>1
    <3>2. /\ latest # None => q[i].signal_value.n = latest.n + i
          /\ \A j \in 1..i :
               IsNotify(q[j]) /\ q[i].signal_value.n = q[j].signal_value.n + (i - j)
      BY <2>1, <3>1 DEF Chained
    <3>. QED
      BY <3>1, <3>2
  <2>2. CASE i = Len(q) + 1
    <3>1. latest # None => v.n = latest.n + i
      <4>1. q # <<>> /\ latest # None =>
              q[Len(q)].signal_value.n = latest.n + Len(q)
        BY <1>3, <1>5 DEF Chained
      <4>2. CASE q = <<>>
        BY <1>4, <1>6, <2>2, <4>2
      <4>3. CASE q # <<>> /\ latest # None
        <5>1. v.n = (latest.n + Len(q)) + 1
          BY <4>1, <4>3
        <5>. QED
          BY <1>2, <1>4, <2>2, <4>3, <5>1
      <4>. QED
        BY <4>2, <4>3
    <3>2. ASSUME NEW j \in 1..Len(q) PROVE v.n = q[j].signal_value.n + (i - j)
      <4>1. q # <<>> /\ Len(q) \in 1..Len(q) /\ j \in 1..Len(q)
        BY <1>2, <1>6
      <4>2. q[Len(q)].signal_value.n = q[j].signal_value.n + (Len(q) - j)
        BY <1>3, <4>1 DEF Chained
      <4>3. v.n = q[Len(q)].signal_value.n + 1 /\ q[j].signal_value.n \in Nat
        BY <1>3, <4>1
      <4>. QED
        BY <1>2, <2>2, <4>2, <4>3
    <3>3. ASSUME NEW j \in 1..i
          PROVE  IsNotify(t[j]) /\ v.n = t[j].signal_value.n + (i - j)
      <4>1. CASE j = i
        BY <1>1, <1>2, <1>4, <2>2, <4>1
      <4>2. CASE j \in 1..Len(q)
        BY <1>2, <1>3, <3>2, <4>2
      <4>. QED
        BY <1>2, <2>2, <4>1, <4>2
    <3>4. t[i].signal_value = v
      BY <1>1, <1>2, <2>2
    <3>. QED
      BY <3>1, <3>3, <3>4
  <2>. QED
    BY <1>2, <2>1, <2>2
<1>8. \A i \in 1..Len(t) :
        IsNotify(t[i]) =>
          /\ latest # None => t[i].signal_value.n = latest.n + i
          /\ \A j \in 1..i :
               IsNotify(t[j]) /\ t[i].signal_value.n = t[j].signal_value.n + (i - j)
  BY <1>2, <1>7
<1>. QED
  BY <1>8 DEF Chained, t, x

-------------------------------------------------------------------------------
(***************************************************************************)
(* What one step of the manager does to the actors and to what a client    *)
(* receives.                                                               *)
(***************************************************************************)
IsUpdate(m) == m.msg = "UpdateSignal"

Started(m) ==
  [client_addr |-> m.client_addr, filters |-> m.message.filters,
   latest_signal_value |-> None, last_signal_value_client |-> None]

Starts(id) ==
  LET m == Head(manager_mailbox) IN
  /\ Numbered(m) /\ m.message.action = "subscribe"
  /\ ~Running(id)
  /\ subscription'[id] = Started(m)
  /\ sent' = Reply(m.client_addr, SubscribeSuccess(m.request_id, id))
  /\ UNCHANGED subscription_mailbox
  /\ subscription_mailbox[id] = <<>>

LEMMA ManagerStarts ==
  ASSUME ServerIInv, ManagerHandle, NEW id \in SubId, Running(id)'
  PROVE  (Running(id) /\ UNCHANGED subscription[id]) \/ Starts(id)
<1>. DEFINE m == Head(manager_mailbox)
<1>1. ServerTypeOK /\ ActorsCoherent
  BY DEF ServerIInv
<1>2. m \in ManagerMessage
  BY <1>1, TailElements DEF ServerTypeOK, ManagerHandle
<1>. SUFFICES ASSUME subscription'[id] # subscription[id] PROVE Starts(id)
  BY DEF Running
<1>3. /\ m.msg = "ClientMessage"
      /\ HandleClientMessage(m.client_addr, m.request_id, m.message)
  BY DEF ManagerHandle, HandleSourceMessage
<1>4. PICK new \in SubId :
        /\ m.message.action = "subscribe"
        /\ Subscribe(m.client_addr, m.message.path, m.request_id, new)
        /\ StartSubscription(new, m.client_addr, m.message.filters)
  BY <1>3 DEF HandleClientMessage
<1>5. new = id /\ subscription'[id] = Started(m)
  BY <1>1, <1>4 DEF StartSubscription, Started, ServerTypeOK
<1>6. ~Running(id) /\ subscription_mailbox[id] = <<>>
  BY <1>1, <1>4, <1>5 DEF Subscribe, ActorsCoherent
<1>7. Numbered(m)
  BY <1>2, <1>3, <1>4, MessageShape DEF Numbered
<1>8. sent' = Reply(m.client_addr, SubscribeSuccess(m.request_id, id))
  BY <1>4, <1>5 DEF Subscribe
<1>9. UNCHANGED subscription_mailbox
  <2>1. \A i \in SubId : i \notin DOMAIN sent'
    BY <1>2, <1>3, <1>8, AddrAssumption, MessageShape DEF Reply
  <2>2. subscription_mailbox' = [i \in SubId |-> subscription_mailbox[i]]
    BY <2>1 DEF ManagerHandle, Deliver
  <2>. QED
    BY <1>1, <2>2 DEF ServerTypeOK
<1>. QED
  BY <1>4, <1>5, <1>6, <1>7, <1>8, <1>9 DEF Starts

QueuesStop(id) ==
  /\ Running(id)
  /\ subscription_mailbox'[id] = Append(subscription_mailbox[id], StopSubscription)

QueuesUpdate(id) ==
  LET m == Head(manager_mailbox) IN
  /\ Running(id) /\ Listed(id)
  /\ IsUpdate(m) /\ id \in Subscribers(m.path)
  /\ subscription_mailbox'[id]
       = Append(subscription_mailbox[id], NotifySubscriber(m.value))

LEMMA ManagerQueues ==
  ASSUME ServerIInv, ManagerHandle, NEW id \in SubId
  PROVE  UNCHANGED subscription_mailbox[id] \/ QueuesStop(id) \/ QueuesUpdate(id)
<1>. DEFINE m == Head(manager_mailbox)
<1>1. ServerTypeOK
  BY DEF ServerIInv
<1>2. m \in ManagerMessage
  BY <1>1, TailElements DEF ServerTypeOK, ManagerHandle
<1>. SUFFICES ASSUME subscription_mailbox'[id] # subscription_mailbox[id]
              PROVE  QueuesStop(id) \/ QueuesUpdate(id)
  OBVIOUS
<1>3. /\ id \in DOMAIN sent' /\ Running(id)
      /\ subscription_mailbox'[id] = Append(subscription_mailbox[id], sent'[id])
  BY <1>1 DEF ManagerHandle, Deliver, ServerTypeOK
<1>4. CASE sent'[id] = StopSubscription
  BY <1>3, <1>4 DEF QueuesStop
<1>5. CASE sent'[id] # StopSubscription
  <2>1. CASE m.msg = "ClientMessage"
    <3>1. m.client_addr \in Client /\ id # m.client_addr
      BY <1>2, <2>1, MessageShape, AddrAssumption
    <3>2. HandleClientMessage(m.client_addr, m.request_id, m.message)
      BY <2>1 DEF ManagerHandle, HandleSourceMessage
    <3>3. ~ \E p, r : Get(m.client_addr, p, r)
      BY <1>3, <3>1 DEF Get, Reply
    <3>4. ~ \E p, r, i : Subscribe(m.client_addr, p, r, i)
      BY <1>3, <3>1 DEF Subscribe, Reply
    <3>5. ~ \E p, v, r : HandleSet(m.client_addr, p, v, r)
            /\ m.message.action = "set" /\ p = m.message.path
      <4>. SUFFICES ASSUME NEW p, NEW v, NEW r, p \in Path,
                           HandleSet(m.client_addr, p, v, r)
                    PROVE  FALSE
        BY <1>2, <2>1, MessageShape, ForwardedShape
      <4>1. set_recipients[Lower[p]] \in Recipient \cup {None}
        BY <1>1, LowerKey DEF ServerTypeOK, TypeOK
      <4>. QED
        BY <1>3, <3>1, <4>1, AddrAssumption
        DEF HandleSet, SetWithoutRecipient, SetForwarded, SetUndeliverable, Reply,
            ReplyAnd
    <3>6. ~ \E r, i : Unsubscribe(m.client_addr, r, i)
      BY <1>3, <1>5, <3>1
      DEF Unsubscribe, UnsubscribeRefused, UnsubscribeOwned, Reply, ReplyAnd, NoMessage
    <3>7. ~ \E r : UnsubscribeAll(m.client_addr, r)
      BY <1>3, <1>5, <3>1 DEF UnsubscribeAll, ReplyAnd
    <3>. QED
      BY <3>2, <3>3, <3>4, <3>5, <3>6, <3>7 DEF HandleClientMessage
  <2>2. CASE m.msg # "ClientMessage"
    <3>1. HandleSourceMessage(m)
      BY <2>2 DEF ManagerHandle
    <3>2. IsUpdate(m) /\ UpdateSignal(m.path, m.value)
      BY <1>3, <3>1 DEF HandleSourceMessage, AddSetRecipient, NoMessage, IsUpdate
    <3>3. id \in Subscribers(m.path) /\ sent'[id] = NotifySubscriber(m.value)
      BY <1>3, <3>2 DEF UpdateSignal
    <3>4. m.path \in Path /\ Lower[m.path] \in Key
      BY <1>2, <3>2, MessageShape, LowerKey DEF IsUpdate
    <3>. QED
      BY <1>3, <3>2, <3>3, <3>4 DEF QueuesUpdate, Subscribers, Listed
  <2>. QED
    BY <2>1, <2>2
<1>. QED
  BY <1>4, <1>5

(* The answer x to the message m, read off its request. *)
Answers(x, m) ==
  LET a == m.message
      r == m.request_id IN
  \/ /\ a.action = "get"
     /\ x = IF signal_cache[Lower[a.path]] # None
              THEN GetSuccess(r, signal_cache[Lower[a.path]])
              ELSE GetError(r, NOT_FOUND_INVALID_PATH)
  \/ /\ a.action = "unsubscribeAll"
     /\ x = UnsubscribeAllSuccess(r)
  \/ /\ a.action = "subscribe"
     /\ \E id \in SubId : sent' = Reply(m.client_addr, x) /\ x = SubscribeSuccess(r, id)

IsAnswered(c) ==
  LET m == Head(manager_mailbox) IN
  /\ Numbered(m) /\ m.client_addr = c
  /\ called[c] \in Calls /\ called[c].text = m.message
  /\ session[c] = "running"
  /\ \E x \in Response : Receives(c, x) /\ Answers(x, m)

LEMMA ManagerIsRead ==
  ASSUME ServerIInv, CallInv, ManagerHandle, NEW c \in Client
  PROVE  UNCHANGED Received(c) \/ IsAnswered(c)
<1>. DEFINE m == Head(manager_mailbox)
            a == m.message
            r == m.request_id
<1>1. ServerTypeOK
  BY DEF ServerIInv
<1>2. m \in ManagerMessage /\ Meant(m)
  BY <1>1, HandledIsMeant DEF CallInv
<1>. SUFFICES ASSUME ~UNCHANGED Received(c) PROVE IsAnswered(c)
  OBVIOUS
<1>3. /\ c \in DOMAIN sent' /\ session[c] = "running"
      /\ sent'[c] \in Response /\ Receives(c, sent'[c])
  BY <1>1, ManagerReceives
<1>4. m.msg = "ClientMessage" /\ m.client_addr = c /\ r # None
  BY <1>3, ManagerAnswers DEF Requesting
<1>5. called[c] \in Calls /\ called[c].text = a
  BY <1>2, <1>4 DEF Meant
<1>6. a.action \in {"get", "subscribe", "unsubscribeAll"}
  BY <1>5, CallTexts
<1>7. HandleClientMessage(c, r, a)
  BY <1>4 DEF ManagerHandle, HandleSourceMessage
<1>8. Answers(sent'[c], m)
  <2>1. CASE a.action = "get"
    BY <1>7, <2>1 DEF HandleClientMessage, Get, Reply, Answers
  <2>2. CASE a.action = "subscribe"
    <3>1. PICK id \in SubId : Subscribe(c, a.path, r, id)
      BY <1>7, <2>2 DEF HandleClientMessage
    <3>2. sent' = Reply(c, SubscribeSuccess(r, id)) /\ sent'[c] = SubscribeSuccess(r, id)
      BY <3>1 DEF Subscribe, Reply
    <3>. QED
      BY <1>4, <2>2, <3>2 DEF Answers
  <2>3. CASE a.action = "unsubscribeAll"
    BY <1>4, <1>7, <2>3 DEF HandleClientMessage, UnsubscribeAll, ReplyAnd, Answers
  <2>. QED
    BY <1>6, <2>1, <2>2, <2>3
<1>. QED
  BY <1>3, <1>4, <1>5, <1>8 DEF IsAnswered, Numbered

-------------------------------------------------------------------------------
(***************************************************************************)
(* What one step of a subscription does: it stops, or it takes or keeps a  *)
(* value and may send it.                                                  *)
(***************************************************************************)
SentBy(id, v) ==
  LET c == subscription[id].client_addr IN
  \A d \in Client :
    IF d = c /\ session[d] = "running"
      THEN Receives(d, Subscription(id, v)) ELSE UNCHANGED Received(d)

Holding(id, v) ==
  /\ subscription'[id] \in Actor
  /\ subscription'[id].client_addr = subscription[id].client_addr
  /\ subscription'[id].filters = subscription[id].filters
  /\ subscription'[id].latest_signal_value = v

NothingSent == \A d \in Client : UNCHANGED Received(d)

LEMMA ActorSends ==
  ASSUME ServerTypeOK, NEW id \in SubId, NEW s \in Actor, NEW over, Running(id),
         s.client_addr = subscription[id].client_addr,
         s.filters = subscription[id].filters,
         s.latest_signal_value \in Value,
         SendClientNotification(id, s, over), UNCHANGED wire
  PROVE  /\ NothingSent \/ SentBy(id, s.latest_signal_value)
         /\ Holding(id, s.latest_signal_value)
         /\ s.filters = None
              /\ s.latest_signal_value # s.last_signal_value_client =>
              SentBy(id, s.latest_signal_value)
<1>. DEFINE val == s.latest_signal_value
            last == s.last_signal_value_client
            outcome == Outcome(val, last, s.filters, over)
            x == Subscription(id, val)
            c == s.client_addr
<1>1. s.client_addr \in Client /\ last \in Value \cup {None}
  BY DEF Actor
<1>2. x \in Response
  BY NotificationTexts
<1>3. val.kind # "Other" /\ (last # None => last.kind # "Other")
  BY <1>1, ValueShape
<1>4. outcome \in {"notification", "filtered"}
  BY <1>3 DEF Outcome, IsNotANumber
<1>5. outcome = "notification" => session_mailbox' = ToSession(c, x)
  BY DEF SendClientNotification
<1>6. outcome = "filtered" => UNCHANGED session_mailbox
  BY DEF SendClientNotification
<1>7. outcome = "notification" => SentBy(id, val)
  <2>. SUFFICES ASSUME outcome = "notification", NEW d \in Client
                PROVE  IF d = c /\ session[d] = "running"
                         THEN Receives(d, x) ELSE UNCHANGED Received(d)
    BY DEF SentBy
  <2>1. session_mailbox'[d] = ToSession(c, x)[d]
    BY <1>5
  <2>. QED
    BY <1>1, <1>2, <2>1, SessionReceives
<1>8. outcome = "filtered" => NothingSent
  BY <1>6 DEF NothingSent, Received
<1>9. s.filters = None /\ val # last => outcome = "notification"
  BY <1>3 DEF Outcome, IsNotANumber, Matches
<1>10. Holding(id, val)
  <2>1. /\ subscription'[id] \in Actor
        /\ subscription'[id] = s
             \/ subscription'[id] = [s EXCEPT !.last_signal_value_client = val]
    BY SendType DEF SendClientNotification, ServerTypeOK
  <2>. QED
    BY <2>1 DEF Holding, Actor
<1>. HIDE DEF outcome, x
<1>. QED
  BY <1>4, <1>7, <1>8, <1>9, <1>10

Stopped(id) ==
  subscription'[id] = None /\ subscription_mailbox'[id] = <<>> /\ NothingSent

TakesUpdate(id, v) ==
  LET q == subscription_mailbox[id] IN
  /\ q # <<>> /\ IsNotify(Head(q)) /\ Head(q).signal_value = v
  /\ subscription_mailbox'[id] = Tail(q)
  /\ Holding(id, v)
  /\ NothingSent \/ SentBy(id, v)
  /\ subscription[id].filters = None
       /\ v # subscription[id].last_signal_value_client => SentBy(id, v)

KeepsValue(id, v) ==
  /\ UNCHANGED subscription_mailbox[id]
  /\ subscription[id].filters # None
  /\ subscription[id].latest_signal_value = v
  /\ Holding(id, v)
  /\ NothingSent \/ SentBy(id, v)

LEMMA SubscriptionSteps ==
  ASSUME ServerIInv, NEW id \in SubId, SubscriptionHandle(id) \/ Tick(id)
  PROVE  /\ UNCHANGED <<vars, manager_mailbox, session, requests, sources>>
         /\ Running(id) /\ subscription[id] \in Actor
         /\ \A i \in SubId \ {id} :
              UNCHANGED <<subscription[i], subscription_mailbox[i]>>
         /\ \/ Stopped(id)
            \/ \E v \in Value : TakesUpdate(id, v) \/ KeepsValue(id, v)
<1>. DEFINE q == subscription_mailbox[id]
            m == Head(q)
            s == subscription[id]
<1>1. ServerTypeOK /\ ActorsCoherent
  BY DEF ServerIInv
<1>2. /\ UNCHANGED <<vars, manager_mailbox, session, requests, sources>>
      /\ UNCHANGED wire
  BY DEF SubscriptionHandle, Tick
<1>3. Running(id) /\ s \in Actor
  <2>1. Running(id)
    BY <1>1 DEF SubscriptionHandle, Tick, ActorsCoherent
  <2>. QED
    BY <1>1, <2>1 DEF Running, ServerTypeOK
<1>4. ASSUME NEW i \in SubId \ {id}
      PROVE  UNCHANGED <<subscription[i], subscription_mailbox[i]>>
  BY <1>1, <1>4
  DEF SubscriptionHandle, Tick, Notify, Stop, SendClientNotification, ServerTypeOK
<1>5. CASE SubscriptionHandle(id)
  <2>1. q # <<>> /\ q \in Seq(SubscriptionMessage) /\ m \in SubscriptionMessage
    BY <1>1, <1>5, TailElements DEF SubscriptionHandle, ServerTypeOK
  <2>2. CASE m.msg = "StopSubscription"
    <3>1. Stop(id)
      BY <1>5, <2>2 DEF SubscriptionHandle
    <3>2. NothingSent
      BY <1>2, <3>1 DEF Stop, NothingSent, Received
    <3>3. Stopped(id)
      BY <1>1, <3>1, <3>2 DEF Stop, Stopped, ServerTypeOK
    <3>. QED
      BY <1>2, <1>3, <1>4, <3>3
  <2>3. CASE m.msg # "StopSubscription"
    <3>. DEFINE v == m.signal_value
                new == [s EXCEPT !.latest_signal_value = v]
    <3>1. IsNotify(m) /\ v \in Value
      BY <2>1, <2>3, QueuedShape DEF StopSubscription
    <3>2. Notify(id, v)
      BY <1>5, <2>3 DEF SubscriptionHandle
    <3>3. /\ new \in Actor /\ new.client_addr = s.client_addr
          /\ new.filters = s.filters /\ new.latest_signal_value = v
          /\ new.last_signal_value_client = s.last_signal_value_client
      BY <1>3, <3>1 DEF Actor
    <3>4. subscription_mailbox'[id] = Tail(q)
      BY <1>1, <3>2 DEF Notify, ServerTypeOK
    <3>5. CASE HasInterval(new)
      <4>1. subscription'[id] = new /\ UNCHANGED session_mailbox
        BY <1>1, <3>2, <3>5 DEF Notify, ServerTypeOK
      <4>2. NothingSent
        BY <1>2, <4>1 DEF NothingSent, Received
      <4>3. s.filters # None
        BY <3>3, <3>5 DEF HasInterval
      <4>4. Holding(id, v)
        BY <3>3, <4>1 DEF Holding
      <4>5. TakesUpdate(id, v)
        BY <2>1, <3>1, <3>4, <4>2, <4>3, <4>4 DEF TakesUpdate
      <4>. QED
        BY <1>2, <1>3, <1>4, <3>1, <4>5
    <3>6. CASE ~HasInterval(new)
      <4>1. SendClientNotification(id, new, TRUE)
        BY <3>2, <3>6 DEF Notify
      <4>. HIDE DEF new
      <4>2. /\ NothingSent \/ SentBy(id, v)
            /\ Holding(id, v)
            /\ s.filters = None /\ v # s.last_signal_value_client => SentBy(id, v)
        BY <1>1, <1>2, <1>3, <3>1, <3>3, <4>1, ActorSends
      <4>3. TakesUpdate(id, v)
        BY <2>1, <3>1, <3>4, <4>2 DEF TakesUpdate
      <4>. QED
        BY <1>2, <1>3, <1>4, <3>1, <4>3
    <3>. QED
      BY <3>5, <3>6
  <2>. QED
    BY <2>2, <2>3
<1>6. CASE Tick(id)
  <2>. DEFINE v == s.latest_signal_value
  <2>1. PICK over \in BOOLEAN : SendClientNotification(id, s, over)
    BY <1>6 DEF Tick
  <2>2. /\ s.filters # None /\ v # None
        /\ UNCHANGED subscription_mailbox
    BY <1>6 DEF Tick, HasInterval
  <2>3. v \in Value
    BY <1>3, <2>2 DEF Actor
  <2>4. (NothingSent \/ SentBy(id, v)) /\ Holding(id, v)
    BY <1>1, <1>2, <1>3, <2>1, <2>3, ActorSends
  <2>5. KeepsValue(id, v)
    BY <2>2, <2>4 DEF KeepsValue
  <2>. QED
    BY <1>2, <1>3, <1>4, <2>3, <2>5
<1>. QED
  BY <1>5, <1>6

-------------------------------------------------------------------------------
(***************************************************************************)
(* What no step of anybody takes back, and what most steps leave alone.    *)
(***************************************************************************)
OwnRequests(c) == {r \in DOMAIN requests : requests[r].client = c}

Onward ==
  /\ GoesOn
  /\ \A c \in Client :
       called[c] \in Calls => observed_before'[c] = observed_before[c]
  /\ \A c \in Client : OwnRequests(c) \subseteq OwnRequests(c)'
  /\ \A c \in Client :
       session[c] # "absent" /\ session'[c] = "running" => session[c] = "running"

Still == UNCHANGED <<signal_cache, subscription, subscription_mailbox>> /\ NothingSent

LEMMA OwnRequestsAppend ==
  ASSUME ServerTypeOK, NEW c \in Client, NEW a \in Texts,
         requests' = Append(requests, [client |-> c, action |-> a.action])
  PROVE  /\ OwnRequests(c)' = OwnRequests(c) \cup {Len(requests) + 1}
         /\ \A d \in Client \ {c} : OwnRequests(d)' = OwnRequests(d)
<1>. DEFINE S == [client : Client, action : {b.action : b \in Texts}]
            x == [client |-> c, action |-> a.action]
<1>1. requests \in Seq(S) /\ x \in S
  BY DEF ServerTypeOK
<1>2. /\ Len(requests) \in Nat /\ DOMAIN requests = 1..Len(requests)
      /\ DOMAIN requests' = 1..(Len(requests) + 1)
      /\ \A i \in 1..Len(requests) : requests'[i] = requests[i]
      /\ requests'[Len(requests) + 1] = x
  BY <1>1, AppendElements
<1>. HIDE DEF S
<1>. QED
  BY <1>2 DEF OwnRequests

LEMMA ArriveShape ==
  ASSUME ServerTypeOK, CallInv, NEW c \in Client, Arrive(c)
  PROVE  /\ called[c] \in Calls /\ OwnRequests(c) = {}
         /\ session[c] = "running"
         /\ Len(requests) + 1 \in ReqId
         /\ requests' = Append(requests, [client |-> c, action |-> called[c].text.action])
         /\ ToManager(ClientMessage(c, Len(requests) + 1, called[c].text))
         /\ UNCHANGED <<vars, session, session_mailbox, wire, subscription,
                        subscription_mailbox, sources, library>>
<1>. DEFINE a == called[c].text
<1>1. called[c] \in Calls /\ ReceiveText(c, a)
  BY DEF Arrive, CallInv
<1>2. OwnRequests(c) = {}
  BY DEF Arrive, Own, OwnRequests
<1>3. Len(requests) + 1 \in ReqId
  BY <1>1, LenProperties, BoundsAssumption DEF ReceiveText, ServerTypeOK
<1>4. a.action \in {"get", "subscribe", "unsubscribeAll"}
  BY <1>1, CallTexts
<1>5. a # AuthorizeAction /\ a # GetMetadataAction /\ a # Malformed
  BY <1>4 DEF AuthorizeAction, GetMetadataAction, Malformed
<1>. QED
  BY <1>1, <1>2, <1>3, <1>5 DEF ReceiveText, Arrive

LEMMA ClientSteps ==
  ASSUME ServerIInv, CallInv, [ClientNext]_clientVars
  PROVE  \/ Still
         \/ ManagerHandle /\ UNCHANGED library
         \/ \E c \in Client : Disconnect(c) /\ UNCHANGED library
         \/ \E id \in SubId :
              (SubscriptionHandle(id) \/ Tick(id)) /\ UNCHANGED library
<1>1. ServerTypeOK
  BY DEF ServerIInv
<1>2. UNCHANGED <<vars, subscription, subscription_mailbox, wire, session_mailbox>>
        => Still
  BY DEF Still, NothingSent, Received, vars, maps
<1>3. ASSUME NEW c \in Client, Connect(c) PROVE Still
  BY <1>2, <1>3 DEF Connect
<1>4. ASSUME NEW c \in Client, SessionHandle(c) PROVE Still
  <2>1. NothingSent
    BY <1>1, <1>4, SessionHandleReceives DEF NothingSent
  <2>. QED
    BY <1>4, <2>1 DEF Still, SessionHandle, vars, maps
<1>5. ASSUME IntervalTick PROVE Still
  BY <1>2, <1>5 DEF IntervalTick, SetSignal, FromSource
<1>6. ASSUME NEW c \in Client, Arrive(c) PROVE Still
  BY <1>1, <1>2, <1>6, ArriveShape
<1>7. UNCHANGED serverVars => Still
  BY <1>2 DEF serverVars, actors
<1>8. ASSUME NEW c \in Client, NEW o \in Calls, Call(c, o) PROVE Still
  BY <1>7, <1>8 DEF Call
<1>9. ASSUME NEW c \in Client, Poll(c) \/ StreamEnds(c) \/ Abandon(c) PROVE Still
  BY <1>7, <1>9 DEF Poll, StreamEnds, Abandon
<1>10. UNCHANGED clientVars => Still
  BY <1>7 DEF clientVars
<1>. QED
  BY <1>3, <1>4, <1>5, <1>6, <1>8, <1>9, <1>10 DEF ClientNext, Server

LEMMA ClientOnward ==
  ASSUME ServerIInv, CallInv, [ClientNext]_clientVars,
         observed_before \in [Client -> Value \cup {None}]
  PROVE  Onward
<1>1. ServerTypeOK
  BY DEF ServerIInv
<1>. USE DEF CallInv
<1>2. ASSUME UNCHANGED <<session, requests, called, observed_before>> PROVE Onward
  BY <1>2 DEF Onward, GoesOn, OwnRequests
<1>3. ASSUME NEW c \in Client, Connect(c) \/ Disconnect(c),
             UNCHANGED library
      PROVE  Onward
  BY <1>1, <1>3 DEF Onward, GoesOn, OwnRequests, Connect, Disconnect, library, ServerTypeOK
<1>4. ASSUME NEW c \in Client, Arrive(c) PROVE Onward
  <2>1. /\ \A d \in Client : OwnRequests(d) \subseteq OwnRequests(d)'
        /\ UNCHANGED <<session, called, observed_before>>
    BY <1>1, <1>4, ArriveShape, CallTexts, OwnRequestsAppend DEF library
  <2>. QED
    BY <2>1 DEF Onward, GoesOn
<1>5. ASSUME NEW c \in Client, NEW o \in Calls, Call(c, o) PROVE Onward
  BY <1>5, CallsAssumption DEF Onward, GoesOn, OwnRequests, Call, serverVars, actors
<1>6. ASSUME NEW c \in Client, Poll(c) \/ StreamEnds(c) \/ Abandon(c) PROVE Onward
  BY <1>2, <1>6 DEF Poll, StreamEnds, Abandon, serverVars, actors
<1>7. IntervalTick => Onward
  BY <1>2 DEF IntervalTick, SetSignal, FromSource, library
<1>8. ManagerHandle /\ UNCHANGED library => Onward
  BY <1>2 DEF ManagerHandle, library
<1>9. ASSUME NEW c \in Client, SessionHandle(c), UNCHANGED library PROVE Onward
  BY <1>2, <1>9 DEF SessionHandle, library
<1>10. ASSUME NEW id \in SubId, SubscriptionHandle(id) \/ Tick(id), UNCHANGED library
       PROVE  Onward
  BY <1>2, <1>10 DEF SubscriptionHandle, Tick, library
<1>11. UNCHANGED clientVars => Onward
  BY <1>2 DEF clientVars, serverVars, actors, library
<1>. QED
  BY <1>3, <1>4, <1>5, <1>6, <1>7, <1>8, <1>9, <1>10, <1>11 DEF ClientNext, Server

-------------------------------------------------------------------------------
(***************************************************************************)
(* One request to a connection: while it is not made, or waits for the     *)
(* manager, its client has received nothing and owns no actor.             *)
(***************************************************************************)
Blank(c) ==
  /\ Received(c) = <<>>
  /\ \A id \in SubId : Running(id) => subscription[id].client_addr # c

Waiting(c) ==
  \E m \in Elements(manager_mailbox) : Numbered(m) /\ m.client_addr = c

OneRequest ==
  \A c \in Client :
    /\ OwnRequests(c) # {} => called[c] \in Calls
    /\ \A r, s \in OwnRequests(c) : r = s
    /\ Waiting(c) \/ OwnRequests(c) = {} => Blank(c)

LEMMA ElementsGrow ==
  ASSUME NEW S, NEW q \in Seq(S), NEW x \in S
  PROVE  /\ Elements(Append(q, x)) = Elements(q) \cup {x}
         /\ q # <<>> => Elements(q) = Elements(Tail(q)) \cup {Head(q)}
<1>1. Elements(Append(q, x)) = Elements(q) \cup {x}
  BY AppendElements DEF Elements
<1>2. ASSUME q # <<>> PROVE Elements(q) = Elements(Tail(q)) \cup {Head(q)}
  <2>1. /\ Len(q) \in Nat \ {0} /\ Len(Tail(q)) = Len(q) - 1
        /\ \A i \in 1..(Len(q) - 1) : Tail(q)[i] = q[i + 1]
        /\ Head(q) = q[1]
    BY <1>2, TailElements
  <2>2. Elements(Tail(q)) \cup {Head(q)} \subseteq Elements(q)
    BY <2>1 DEF Elements
  <2>3. ASSUME NEW i \in 1..Len(q) PROVE q[i] \in Elements(Tail(q)) \cup {Head(q)}
    <3>1. CASE i = 1
      BY <2>1, <3>1
    <3>2. CASE i # 1
      <4>1. i - 1 \in 1..(Len(q) - 1) /\ Tail(q)[i - 1] = q[i]
        BY <2>1, <3>2
      <4>. QED
        BY <2>1, <4>1 DEF Elements
    <3>. QED
      BY <3>1, <3>2
  <2>. QED
    BY <2>2, <2>3 DEF Elements
<1>. QED
  BY <1>1, <1>2

(* How the mailbox of the manager may change. *)
LEMMA ManagerMailboxSteps ==
  ASSUME ServerIInv, CallInv, [ClientNext]_clientVars
  PROVE  \/ UNCHANGED <<manager_mailbox, sources, signal_cache>>
         \/ ManagerHandle /\ UNCHANGED sources
         \/ \E m \in ManagerMessage :
              /\ m.msg = "ClientMessage" /\ ToManager(m)
              /\ UNCHANGED <<sources, signal_cache>>
              /\ Numbered(m) => Arrive(m.client_addr)
         \/ IntervalTick /\ UNCHANGED signal_cache
<1>1. ServerTypeOK
  BY DEF ServerIInv
<1>2. ASSUME NEW c \in Client, Disconnect(c)
      PROVE  \E m \in ManagerMessage :
               /\ m.msg = "ClientMessage" /\ ToManager(m)
               /\ UNCHANGED <<sources, signal_cache>>
               /\ Numbered(m) => Arrive(m.client_addr)
  <2>1. /\ CleanUp(c) \in ManagerMessage /\ ~Numbered(CleanUp(c))
        /\ CleanUp(c).msg = "ClientMessage"
    BY CleanUpShape DEF Numbered
  <2>2. ToManager(CleanUp(c)) /\ UNCHANGED <<sources, signal_cache>>
    BY <1>2 DEF Disconnect, CleanUp, vars, maps
  <2>. QED
    BY <2>1, <2>2
<1>3. ASSUME NEW c \in Client, Arrive(c)
      PROVE  \E m \in ManagerMessage :
               /\ m.msg = "ClientMessage" /\ ToManager(m)
               /\ UNCHANGED <<sources, signal_cache>>
               /\ Numbered(m) => Arrive(m.client_addr)
  <2>. DEFINE m == ClientMessage(c, Len(requests) + 1, called[c].text)
  <2>1. ToManager(m) /\ UNCHANGED <<sources, signal_cache>>
    BY <1>1, <1>3, ArriveShape DEF vars, maps
  <2>2. m \in ManagerMessage
    <3>1. Len(requests) + 1 \in ReqId /\ called[c].text \in Forwarded
      BY <1>1, <1>3, ArriveShape, CallTexts
    <3>. QED
      BY <3>1 DEF ManagerMessage
  <2>3. m.msg = "ClientMessage" /\ m.client_addr = c
    BY DEF ClientMessage
  <2>. QED
    BY <1>3, <2>1, <2>2, <2>3
<1>4. UNCHANGED serverVars => UNCHANGED <<manager_mailbox, sources, signal_cache>>
  BY DEF serverVars, actors, vars, maps
<1>5. ASSUME NEW c \in Client, \/ Connect(c) \/ SessionHandle(c) \/ Poll(c)
                               \/ StreamEnds(c) \/ Abandon(c)
      PROVE  UNCHANGED <<manager_mailbox, sources, signal_cache>>
  BY <1>4, <1>5 DEF Connect, SessionHandle, Poll, StreamEnds, Abandon, vars, maps
<1>6. ASSUME NEW id \in SubId, SubscriptionHandle(id) \/ Tick(id)
      PROVE  UNCHANGED <<manager_mailbox, sources, signal_cache>>
  BY <1>6 DEF SubscriptionHandle, Tick, vars, maps
<1>7. ASSUME NEW c \in Client, NEW o \in Calls, Call(c, o)
      PROVE  UNCHANGED <<manager_mailbox, sources, signal_cache>>
  BY <1>4, <1>7 DEF Call
<1>8. UNCHANGED clientVars => UNCHANGED <<manager_mailbox, sources, signal_cache>>
  BY <1>4 DEF clientVars
<1>9. IntervalTick => UNCHANGED signal_cache
  BY DEF IntervalTick, SetSignal, FromSource, vars, maps
<1>10. ManagerHandle => UNCHANGED sources
  BY DEF ManagerHandle
<1>. QED
  BY <1>2, <1>3, <1>5, <1>6, <1>7, <1>8, <1>9, <1>10 DEF ClientNext, Server

LEMMA WaitingBefore ==
  ASSUME ServerIInv, CallInv, [ClientNext]_clientVars, NEW c \in Client, Waiting(c)'
  PROVE  Waiting(c) \/ OwnRequests(c) = {}
<1>1. ServerTypeOK /\ manager_mailbox \in Seq(ManagerMessage)
  BY DEF ServerIInv, ServerTypeOK
<1>2. CASE UNCHANGED manager_mailbox
  BY <1>2 DEF Waiting
<1>3. CASE ManagerHandle
  <2>1. Elements(manager_mailbox)' \subseteq Elements(manager_mailbox)
    <3>1. PICK m : m \in ManagerMessage
      BY <1>1, <1>3, TailElements DEF ManagerHandle
    <3>. QED
      BY <1>1, <1>3, <3>1, ElementsGrow DEF ManagerHandle
  <2>. QED
    BY <2>1 DEF Waiting
<1>4. ASSUME NEW m \in ManagerMessage, ToManager(m),
             Numbered(m) => Arrive(m.client_addr)
      PROVE  Waiting(c) \/ OwnRequests(c) = {}
  <2>1. Elements(manager_mailbox)' = Elements(manager_mailbox) \cup {m}
    BY <1>1, <1>4, ElementsGrow DEF ToManager
  <2>2. CASE Numbered(m) /\ m.client_addr = c
    BY <1>1, <1>4, <2>2, ArriveShape
  <2>3. CASE ~(Numbered(m) /\ m.client_addr = c)
    BY <2>1, <2>3 DEF Waiting
  <2>. QED
    BY <2>2, <2>3
<1>5. CASE IntervalTick
  <2>1. PICK m : m = UpdateMessage(INTERVAL, PosInt(sources))
    OBVIOUS
  <2>2. ToManager(m) /\ ~Numbered(m)
    BY <1>5, <2>1 DEF IntervalTick, SetSignal, FromSource, UpdateMessage, Numbered
  <2>3. m \in ManagerMessage
    <3>1. sources \in 0..(MaxSources - 1)
      BY <1>1, <1>5, BoundsAssumption
      DEF IntervalTick, SetSignal, FromSource, ServerTypeOK
    <3>2. PosInt(sources) \in Value
      BY <3>1, ValuesAssumption
    <3>. QED
      BY <2>1, <3>2, IntervalAssumption DEF ManagerMessage
  <2>. QED
    BY <1>4, <2>2, <2>3
<1>. QED
  BY <1>2, <1>3, <1>4, <1>5, ManagerMailboxSteps

LEMMA ManagerKeepsBlank ==
  ASSUME ServerIInv, CallInv, RequestInv, OneRequest, ManagerHandle,
         NEW c \in Client, Blank(c),
         Waiting(c)' \/ OwnRequests(c) = {}
  PROVE  Blank(c)'
<1>. DEFINE m == Head(manager_mailbox)
            q == manager_mailbox
<1>1. /\ ServerTypeOK
      /\ q \in Seq(ManagerMessage) /\ q # <<>> /\ m \in ManagerMessage
      /\ Elements(q) = Elements(Tail(q)) \cup {m}
  <2>1. q \in Seq(ManagerMessage) /\ q # <<>>
    BY DEF ServerIInv, ServerTypeOK, ManagerHandle
  <2>2. m \in ManagerMessage
    BY <2>1, TailElements
  <2>. QED
    BY <2>1, <2>2, ElementsGrow DEF ServerIInv
<1>2. QueueInv
  BY DEF RequestInv
<1>3. ASSUME NEW k \in Elements(q), Numbered(k), k.client_addr = c
      PROVE  k.request_id \in OwnRequests(c)
  BY <1>2, <1>3 DEF QueueInv, Known, OwnRequests
<1>4. ~(Numbered(m) /\ m.client_addr = c)
  <2>. SUFFICES ASSUME Numbered(m), m.client_addr = c PROVE FALSE
    OBVIOUS
  <2>1. m.request_id \in OwnRequests(c)
    BY <1>1, <1>3
  <2>2. PICK k \in Elements(Tail(q)) : Numbered(k) /\ k.client_addr = c
    BY <2>1 DEF Waiting, ManagerHandle
  <2>3. k.request_id \in OwnRequests(c) /\ k.request_id = m.request_id
    BY <1>1, <1>3, <2>1, <2>2 DEF OneRequest
  <2>4. m.request_id < k.request_id
    BY <1>1, <1>2, <2>2, QueueTail DEF QueueInv
  <2>5. m.request_id \in Nat
    BY <2>1, LenProperties DEF OwnRequests, ServerIInv, ServerTypeOK
  <2>. QED
    BY <2>3, <2>4, <2>5
<1>5. UNCHANGED Received(c)
  BY <1>4, ManagerIsRead DEF IsAnswered
<1>6. ASSUME NEW id \in SubId, Running(id)'
      PROVE  subscription'[id].client_addr # c
  <2>1. CASE Running(id) /\ UNCHANGED subscription[id]
    BY <2>1 DEF Blank
  <2>2. CASE Starts(id)
    BY <1>4, <2>2 DEF Starts, Started
  <2>. QED
    BY <1>6, <2>1, <2>2, ManagerStarts
<1>. QED
  BY <1>5, <1>6 DEF Blank, Received

LEMMA StepKeepsBlank ==
  ASSUME ServerIInv, CallInv, RequestInv, OneRequest, [ClientNext]_clientVars,
         NEW c \in Client, Blank(c), Waiting(c)' \/ OwnRequests(c) = {}
  PROVE  Blank(c)'
<1>1. ServerTypeOK
  BY DEF ServerIInv
<1>2. CASE Still
  BY <1>2 DEF Still, NothingSent, Blank, Received, Running
<1>3. ASSUME NEW d \in Client, Disconnect(d) PROVE Blank(c)'
  <2>1. /\ wire[c] \in Seq(Text) /\ session_mailbox[c] \in Seq(Text)
        /\ wire[c] \o session_mailbox[c] = <<>>
    BY <1>1, ReceivedType DEF Blank, Received
  <2>2. wire[c] = <<>> /\ session_mailbox[c] = <<>>
    BY <2>1, ConcatProperties, LenProperties, EmptySeq
  <2>3. wire'[c] = <<>> /\ session_mailbox'[c] = <<>>
    BY <1>1, <1>3, <2>2 DEF Disconnect, ServerTypeOK
  <2>4. Received(c)' = <<>>
    BY <2>1, <2>2, <2>3 DEF Received
  <2>. QED
    BY <1>3, <2>4 DEF Blank, Disconnect, Running
<1>4. ASSUME NEW id \in SubId, SubscriptionHandle(id) \/ Tick(id) PROVE Blank(c)'
  <2>. DEFINE owner == subscription[id].client_addr
  <2>1. owner # c
    BY <1>4, SubscriptionSteps DEF Blank
  <2>2. UNCHANGED Received(c)
    BY <1>4, <2>1, SubscriptionSteps
    DEF Stopped, TakesUpdate, KeepsValue, NothingSent, SentBy
  <2>3. ASSUME NEW i \in SubId, Running(i)'
        PROVE  Running(i) /\ subscription'[i].client_addr = subscription[i].client_addr
    BY <1>4, <2>3, SubscriptionSteps
    DEF Stopped, TakesUpdate, KeepsValue, Holding, Running
  <2>. QED
    BY <2>2, <2>3 DEF Blank, Received
<1>. QED
  BY <1>2, <1>3, <1>4, ClientSteps, ManagerKeepsBlank

LEMMA NextOneRequest ==
  ASSUME ServerIInv, CallInv, RequestInv, OneRequest, [ClientNext]_clientVars,
         Onward
  PROVE  OneRequest'
<1>1. ServerTypeOK
  BY DEF ServerIInv
<1>. SUFFICES ASSUME NEW c \in Client
              PROVE  /\ OwnRequests(c)' # {} => called'[c] \in Calls
                     /\ \A r, s \in OwnRequests(c)' : r = s
                     /\ Waiting(c)' \/ OwnRequests(c)' = {} => Blank(c)'
  BY DEF OneRequest
<1>2. /\ OwnRequests(c)' # {} => called'[c] \in Calls
      /\ \A r, s \in OwnRequests(c)' : r = s
  <2>1. CASE OwnRequests(c)' = OwnRequests(c)
    BY <2>1 DEF OneRequest, Onward, GoesOn
  <2>2. ASSUME NEW d \in Client, Arrive(d)
        PROVE  /\ OwnRequests(c)' # {} => called'[c] \in Calls
               /\ \A r, s \in OwnRequests(c)' : r = s
    <3>1. /\ OwnRequests(d) = {} /\ called[d] \in Calls /\ UNCHANGED called
          /\ OwnRequests(d)' = OwnRequests(d) \cup {Len(requests) + 1}
          /\ \A e \in Client \ {d} : OwnRequests(e)' = OwnRequests(e)
      BY <1>1, <2>2, ArriveShape, CallTexts, OwnRequestsAppend DEF library
    <3>. QED
      BY <2>1, <3>1
  <2>3. UNCHANGED requests => OwnRequests(c)' = OwnRequests(c)
    BY DEF OwnRequests
  <2>4. UNCHANGED requests \/ \E d \in Client : Arrive(d)
    BY DEF ClientNext, Server, Connect, Disconnect, SessionHandle, ManagerHandle,
           SubscriptionHandle, Tick, IntervalTick, SetSignal, FromSource, Call, Poll,
           StreamEnds, Abandon, clientVars, serverVars, actors
  <2>. QED
    BY <2>1, <2>2, <2>3, <2>4
<1>3. ASSUME Waiting(c)' \/ OwnRequests(c)' = {} PROVE Blank(c)'
  <2>1. OwnRequests(c) = {} \/ (Waiting(c) /\ Waiting(c)')
    BY <1>3, WaitingBefore DEF Onward
  <2>2. Blank(c)
    BY <2>1 DEF OneRequest
  <2>. QED
    BY <2>1, <2>2, StepKeepsBlank
<1>. QED
  BY <1>2, <1>3

-------------------------------------------------------------------------------
(***************************************************************************)
(* What is received fits the request; an actor is the one its client was   *)
(* told of, and has the filters asked for.                                 *)
(***************************************************************************)
ShapeInv == \A c \in Client : Shaped(called[c].text, OwnRequests(c), Received(c))

Owned(id) ==
  LET s == subscription[id]
      c == s.client_addr IN
  /\ HasCalledSubscribe(c)
  /\ s.filters = called[c].text.filters
  /\ session[c] = "running" =>
       Received(c) # <<>> /\ Received(c)[1].subscription_id = id

ActorInv == \A id \in SubId : Running(id) => Owned(id)

LEMMA AnsweredIsBlank ==
  ASSUME ServerIInv, OneRequest, ManagerHandle, NEW c \in Client,
         LET m == Head(manager_mailbox) IN Numbered(m) /\ m.client_addr = c
  PROVE  Blank(c)
<1>1. Head(manager_mailbox) \in Elements(manager_mailbox)
  BY TailElements DEF ServerIInv, ServerTypeOK, ManagerHandle, Elements
<1>. QED
  BY <1>1 DEF OneRequest, Waiting

LEMMA CallStays ==
  ASSUME Onward, OneRequest, NEW c \in Client, ~Blank(c)
  PROVE  called[c] \in Calls /\ called'[c] = called[c]
BY DEF OneRequest, Onward, GoesOn

LEMMA AppendToEmpty ==
  ASSUME NEW S, NEW x \in S
  PROVE  /\ Append(<<>>, x) \in Seq(S) /\ Len(Append(<<>>, x)) = 1
         /\ Append(<<>>, x)[1] = x
<1>1. <<>> \in Seq(S) /\ Len(<<>>) = 0
  OBVIOUS
<1>. QED
  BY <1>1, AppendElements

LEMMA AnswerFits ==
  ASSUME ServerIInv, CallInv, RequestInv, OneRequest, ManagerHandle, NEW c \in Client,
         IsAnswered(c), Onward
  PROVE  Shaped(called'[c].text, OwnRequests(c)', Received(c)')
<1>. DEFINE m == Head(manager_mailbox)
            a == m.message
            r == m.request_id
<1>1. /\ Numbered(m) /\ m.client_addr = c
      /\ called[c] \in Calls /\ called[c].text = a /\ called'[c] = called[c]
  BY DEF IsAnswered, Onward, GoesOn
<1>2. PICK x \in Response : Receives(c, x) /\ Answers(x, m)
  BY DEF IsAnswered
<1>3. Received(c) = <<>>
  BY <1>1, AnsweredIsBlank DEF Blank
<1>4. m \in ManagerMessage /\ m \in Elements(manager_mailbox)
  BY TailElements DEF ServerIInv, ServerTypeOK, ManagerHandle, Elements
<1>5. r \in OwnRequests(c)'
  BY <1>1, <1>4 DEF RequestInv, QueueInv, Known, OwnRequests, Onward
<1>. DEFINE R == Received(c)'
<1>6. Len(R) = 1 /\ R[1] = x
  BY <1>2, <1>3, AppendToEmpty DEF Receives
<1>. HIDE DEF R
<1>7. Fits(a, OwnRequests(c)', R, 1)
  <2>1. CASE a.action = "get"
    <3>1. a.path \in Path /\ signal_cache[Lower[a.path]] \in Value \cup {None}
      BY <1>1, <1>4, <2>1, MessageShape, ForwardedShape, LowerKey
      DEF Numbered, ServerIInv, ServerTypeOK, TypeOK
    <3>2. x = GetError(r, NOT_FOUND_INVALID_PATH)
            \/ \E v \in Value : x = GetSuccess(r, v)
      BY <1>2, <2>1, <3>1 DEF Answers
    <3>. QED
      BY <1>5, <1>6, <2>1, <3>2 DEF Fits
  <2>2. CASE a.action = "unsubscribeAll"
    BY <1>2, <1>5, <1>6, <2>2 DEF Answers, Fits
  <2>3. CASE a.action = "subscribe"
    BY <1>2, <1>5, <1>6, <2>3 DEF Answers, Fits
  <2>. QED
    BY <1>2, <2>1, <2>2, <2>3 DEF Answers
<1>. QED
  BY <1>1, <1>6, <1>7 DEF Shaped, R

LEMMA DisconnectReceives ==
  ASSUME ServerTypeOK, NEW c \in Client, Disconnect(c), NEW d \in Client
  PROVE  IF d = c THEN Received(d)' = wire[d] ELSE UNCHANGED Received(d)
<1>1. wire[d] \in Seq(Text)
  BY ReceivedType
<1>2. CASE d = c
  <2>1. wire'[d] = wire[d] /\ session_mailbox'[d] = <<>>
    BY <1>2 DEF Disconnect, ServerTypeOK
  <2>. QED
    BY <1>1, <1>2, <2>1, ConcatEmptySeq DEF Received
<1>3. CASE d # c
  BY <1>3 DEF Disconnect, Received, ServerTypeOK
<1>. QED
  BY <1>2, <1>3

LEMMA NextShape ==
  ASSUME ServerIInv, CallInv, RequestInv, OneRequest, ShapeInv, ActorInv,
         [ClientNext]_clientVars, Onward
  PROVE  ShapeInv'
<1>1. ServerTypeOK
  BY DEF ServerIInv
<1>. SUFFICES ASSUME NEW c \in Client
              PROVE  Shaped(called'[c].text, OwnRequests(c)', Received(c)')
  BY DEF ShapeInv
<1>. DEFINE a == called[c].text
            own == OwnRequests(c)'
            R == Received(c)
<1>2. Shaped(a, own, R)
  BY ShapedMore DEF ShapeInv, Onward
<1>3. R \in Seq(Text) /\ (R = <<>> \/ called'[c] = called[c])
  BY <1>1, ReceivedType, CallStays DEF Blank
<1>4. CASE UNCHANGED R
  <2>1. CASE R = <<>>
    <3>1. Len(R') = 0
      BY <1>4, <2>1
    <3>. QED
      BY <3>1 DEF Shaped
  <2>2. CASE called'[c] = called[c]
    BY <1>2, <1>4, <2>2
  <2>. QED
    BY <1>3, <2>1, <2>2
<1>5. Still => UNCHANGED R
  BY DEF Still, NothingSent
<1>6. ASSUME NEW d \in Client, Disconnect(d), UNCHANGED library
      PROVE  Shaped(called'[c].text, own, R')
  <2>1. CASE d = c
    <3>1. /\ R' = wire[c] /\ R = wire[c] \o session_mailbox[c]
          /\ wire[c] \in Seq(Text) /\ session_mailbox[c] \in Seq(Text)
      BY <1>1, <1>6, <2>1, DisconnectReceives, ReceivedType DEF Received
    <3>2. Shaped(a, own, wire[c])
      BY <1>2, <3>1, ShapedPrefix
    <3>. QED
      BY <1>6, <3>1, <3>2 DEF library
  <2>2. CASE d # c
    BY <1>1, <1>4, <1>6, <2>2, DisconnectReceives
  <2>. QED
    BY <2>1, <2>2
<1>7. CASE ManagerHandle
  BY <1>4, <1>7, ManagerIsRead, AnswerFits
<1>8. ASSUME NEW id \in SubId, SubscriptionHandle(id) \/ Tick(id), ~UNCHANGED R,
             UNCHANGED library
      PROVE  Shaped(called'[c].text, own, R')
  <2>1. /\ Running(id) /\ subscription[id].client_addr = c /\ session[c] = "running"
        /\ \E v \in Value : Receives(c, Subscription(id, v))
    BY <1>8, SubscriptionSteps
    DEF Stopped, TakesUpdate, KeepsValue, NothingSent, SentBy
  <2>2. PICK v \in Value : Receives(c, Subscription(id, v))
    BY <2>1
  <2>3. /\ a.action = "subscribe" /\ R # <<>> /\ R[1].subscription_id = id
    BY <2>1 DEF ActorInv, Owned, HasCalledSubscribe
  <2>. DEFINE x == Subscription(id, v)
              S == Append(R, x)
  <2>4. x \in Text
    BY NotificationTexts DEF Text
  <2>5. Len(R) \in Nat /\ Len(R) > 0 /\ S[1] = R[1] /\ S[Len(R) + 1] = x
    <3>1. /\ Len(R) \in Nat /\ S[Len(R) + 1] = x /\ \A i \in 1..Len(R) : S[i] = R[i]
      BY <1>3, <2>4, AppendElements
    <3>2. Len(R) # 0
      BY <1>3, <2>3, EmptySeq
    <3>. QED
      BY <3>1, <3>2
  <2>6. Fits(a, own, S, Len(R) + 1)
    <3>. HIDE DEF S
    <3>. QED
      BY <2>3, <2>5 DEF Fits
  <2>7. Shaped(a, own, S)
    BY <1>2, <1>3, <2>4, <2>6, ShapedAppend
  <2>8. R' = S /\ called'[c] = called[c]
    BY <1>8, <2>2 DEF Receives, library
  <2>. QED
    BY <2>7, <2>8
<1>. QED
  BY <1>4, <1>5, <1>6, <1>7, <1>8, ClientSteps

LEMMA StaysOwned ==
  ASSUME ServerIInv, AckInv, ActorInv, Onward, NEW id \in SubId, Running(id),
         NEW c \in Client, subscription[id].client_addr = c,
         subscription'[id].client_addr = c,
         subscription'[id].filters = subscription[id].filters,
         session'[c] = "running" /\ Received(c) # <<>> =>
           Received(c)' # <<>> /\ Received(c)'[1] = Received(c)[1]
  PROVE  Owned(id)'
<1>1. session[c] # "absent"
  BY DEF AckInv, Acknowledged
<1>2. session'[c] = "running" => session[c] = "running"
  BY <1>1 DEF Onward
<1>3. /\ HasCalledSubscribe(c)
      /\ subscription[id].filters = called[c].text.filters
      /\ session[c] = "running" =>
           Received(c) # <<>> /\ Received(c)[1].subscription_id = id
  BY DEF ActorInv, Owned
<1>4. called'[c] = called[c] /\ called'[c] \in Calls
  BY <1>3 DEF HasCalledSubscribe, Onward, GoesOn
<1>5. session'[c] = "running" =>
        Received(c)' # <<>> /\ Received(c)'[1].subscription_id = id
  BY <1>2, <1>3
<1>. QED
  BY <1>3, <1>4, <1>5 DEF Owned, HasCalledSubscribe, Received

LEMMA StartsOwned ==
  ASSUME ServerIInv, CallInv, OneRequest, ManagerHandle, UNCHANGED library,
         NEW id \in SubId, Starts(id)
  PROVE  Owned(id)'
<1>. DEFINE m == Head(manager_mailbox)
<1>1. /\ ServerTypeOK /\ m \in ManagerMessage /\ Meant(m)
  BY HandledIsMeant DEF ServerIInv, CallInv
<1>2. Numbered(m) /\ m.message.action = "subscribe"
  BY DEF Starts
<1>3. PICK c \in Client : c = m.client_addr
  BY <1>1, <1>2, MessageShape DEF Numbered
<1>4. PICK r : r = m.request_id
  OBVIOUS
<1>. DEFINE x == SubscribeSuccess(r, id)
<1>5. /\ subscription'[id].client_addr = c
      /\ subscription'[id].filters = m.message.filters
      /\ sent' = Reply(c, x)
  BY <1>3, <1>4 DEF Starts, Started
<1>6. /\ called[c] \in Calls /\ called[c].text = m.message /\ called'[c] = called[c]
  BY <1>1, <1>2, <1>3 DEF Meant, Numbered, library
<1>7. Received(c) = <<>>
  BY <1>2, <1>3, AnsweredIsBlank DEF Blank
<1>8. c \in DOMAIN sent' /\ sent'[c] = x
  BY <1>5 DEF Reply
<1>9. session[c] = "running" => x \in Response /\ Receives(c, x)
  BY <1>1, <1>8, ManagerReceives
<1>10. ASSUME session'[c] = "running"
       PROVE  Received(c)' # <<>> /\ Received(c)'[1].subscription_id = id
  <2>. DEFINE R == Received(c)'
  <2>1. session[c] = "running"
    BY <1>10 DEF ManagerHandle
  <2>2. Len(R) = 1 /\ R[1] = x
    BY <1>7, <1>9, <2>1, AppendToEmpty DEF Receives
  <2>. HIDE DEF R
  <2>3. R # <<>>
    BY <2>2
  <2>4. R[1].subscription_id = id
    BY <2>2 DEF SubscribeSuccess
  <2>. QED
    BY <2>3, <2>4 DEF R
<1>. QED
  BY <1>2, <1>5, <1>6, <1>10 DEF Owned, HasCalledSubscribe, Received

LEMMA NextOwned ==
  ASSUME ServerIInv, CallInv, AckInv, OneRequest, ActorInv,
         [ClientNext]_clientVars, Onward
  PROVE  ActorInv'
<1>1. ServerTypeOK
  BY DEF ServerIInv
<1>. SUFFICES ASSUME NEW id \in SubId, Running(id)' PROVE Owned(id)'
  BY DEF ActorInv
<1>2. ASSUME Running(id)
      PROVE  \E c \in Client : subscription[id].client_addr = c /\ ~Blank(c)
  BY <1>1, <1>2 DEF Blank, ServerTypeOK, Running, Actor
<1>3. CASE Still
  <2>1. Running(id) /\ UNCHANGED subscription
    BY <1>3 DEF Still, Running
  <2>2. PICK c \in Client : subscription[id].client_addr = c
    BY <1>2, <2>1
  <2>3. UNCHANGED Received(c)
    BY <1>3 DEF Still, NothingSent
  <2>. QED
    BY <2>1, <2>2, <2>3, StaysOwned
<1>4. ASSUME NEW d \in Client, Disconnect(d) PROVE Owned(id)'
  <2>1. UNCHANGED subscription /\ session'[d] = "stopped"
    BY <1>1, <1>4 DEF Disconnect, ServerTypeOK
  <2>2. Running(id)
    BY <2>1 DEF Running
  <2>3. PICK c \in Client : subscription[id].client_addr = c
    BY <1>2, <2>2
  <2>4. session'[c] = "running" => UNCHANGED Received(c)
    BY <1>1, <1>4, <2>1, DisconnectReceives
  <2>. QED
    BY <2>1, <2>2, <2>3, <2>4, StaysOwned
<1>5. CASE ManagerHandle /\ UNCHANGED library
  <2>1. CASE Running(id) /\ UNCHANGED subscription[id]
    <3>1. PICK c \in Client : subscription[id].client_addr = c /\ ~Blank(c)
      BY <1>2, <2>1
    <3>2. UNCHANGED Received(c)
      BY <1>5, <3>1, ManagerIsRead, AnsweredIsBlank DEF IsAnswered
    <3>. QED
      BY <2>1, <3>1, <3>2, StaysOwned
  <2>. QED
    BY <1>5, <2>1, ManagerStarts, StartsOwned
<1>6. ASSUME NEW i \in SubId, SubscriptionHandle(i) \/ Tick(i) PROVE Owned(id)'
  <2>1. /\ Running(id)
        /\ subscription'[id].client_addr = subscription[id].client_addr
        /\ subscription'[id].filters = subscription[id].filters
    BY <1>6, SubscriptionSteps
    DEF Stopped, TakesUpdate, KeepsValue, Holding, Running
  <2>2. PICK c \in Client : subscription[id].client_addr = c
    BY <1>2, <2>1
  <2>3. \/ UNCHANGED Received(c)
        \/ \E v \in Value : Receives(c, Subscription(i, v))
    BY <1>6, SubscriptionSteps
    DEF Stopped, TakesUpdate, KeepsValue, NothingSent, SentBy
  <2>4. ASSUME NEW v \in Value, Receives(c, Subscription(i, v)), Received(c) # <<>>
        PROVE  Received(c)' # <<>> /\ Received(c)'[1] = Received(c)[1]
    <3>. DEFINE R == Received(c)
                x == Subscription(i, v)
    <3>1. R \in Seq(Text) /\ x \in Text
      BY <1>1, ReceivedType, NotificationTexts DEF Text
    <3>2. /\ Len(R) \in Nat \ {0} /\ Len(Append(R, x)) = Len(R) + 1
          /\ Append(R, x)[1] = R[1]
      BY <2>4, <3>1, AppendElements, EmptySeq
    <3>3. Append(R, x) # <<>>
      BY <3>2
    <3>. QED
      BY <2>4, <3>2, <3>3 DEF Receives
  <2>. QED
    BY <2>1, <2>2, <2>3, <2>4, StaysOwned
<1>. QED
  BY <1>3, <1>4, <1>5, <1>6, ClientSteps

-------------------------------------------------------------------------------
(***************************************************************************)
(* The counter: the updates in the manager's mailbox are the counts from   *)
(* the one that follows the cached value to the last one sent, in order.   *)
(***************************************************************************)
Cached == signal_cache[Lower[INTERVAL]]

NextCount == IF Cached = None THEN 0 ELSE Cached.n + 1

Counted(q, next, last) ==
  /\ \A i \in 1..Len(q) :
       IsUpdate(q[i]) => q[i].path = INTERVAL /\ q[i].value.n \in next..(last - 1)
  /\ \A i, j \in 1..Len(q) :
       i < j /\ IsUpdate(q[i]) /\ IsUpdate(q[j]) => q[i].value.n < q[j].value.n
  /\ \A n \in next..(last - 1) :
       \E i \in 1..Len(q) : IsUpdate(q[i]) /\ q[i].value.n = n

CountInv ==
  /\ NextCount \in 0..sources
  /\ \A k \in Key \ {Lower[INTERVAL]} : signal_cache[k] = None
  /\ Counted(manager_mailbox, NextCount, sources)

LEMMA CountedOther ==
  ASSUME NEW q \in Seq(ManagerMessage), NEW m \in ManagerMessage, ~IsUpdate(m),
         NEW next \in Nat, NEW last \in Nat, Counted(q, next, last)
  PROVE  Counted(Append(q, m), next, last)
<1>. DEFINE t == Append(q, m)
<1>1. /\ Len(q) \in Nat /\ Len(t) = Len(q) + 1
      /\ \A i \in 1..Len(q) : t[i] = q[i]
      /\ t[Len(q) + 1] = m
  BY AppendElements
<1>. HIDE DEF t
<1>2. \A i \in 1..Len(t) : IsUpdate(t[i]) => i \in 1..Len(q) /\ t[i] = q[i]
  BY <1>1
<1>3. 1..Len(q) \subseteq 1..Len(t)
  BY <1>1
<1>4. ASSUME NEW i \in 1..Len(t), IsUpdate(t[i])
      PROVE  t[i].path = INTERVAL /\ t[i].value.n \in next..(last - 1)
  BY <1>2, <1>4 DEF Counted
<1>5. ASSUME NEW i \in 1..Len(t), NEW j \in 1..Len(t), i < j,
             IsUpdate(t[i]), IsUpdate(t[j])
      PROVE  t[i].value.n < t[j].value.n
  BY <1>2, <1>5 DEF Counted
<1>6. ASSUME NEW n \in next..(last - 1)
      PROVE  \E i \in 1..Len(t) : IsUpdate(t[i]) /\ t[i].value.n = n
  <2>1. PICK i \in 1..Len(q) : IsUpdate(q[i]) /\ q[i].value.n = n
    BY DEF Counted
  <2>. QED
    BY <1>1, <1>3, <2>1
<1>. QED
  BY <1>4, <1>5, <1>6 DEF Counted, t

LEMMA CountedTick ==
  ASSUME NEW q \in Seq(ManagerMessage), NEW m \in ManagerMessage, IsUpdate(m),
         NEW next \in Nat, NEW last \in Nat, next <= last, Counted(q, next, last),
         m.path = INTERVAL, m.value.n = last
  PROVE  Counted(Append(q, m), next, last + 1)
<1>. DEFINE t == Append(q, m)
<1>1. /\ Len(q) \in Nat /\ Len(t) = Len(q) + 1
      /\ \A i \in 1..Len(q) : t[i] = q[i]
      /\ t[Len(q) + 1] = m
  BY AppendElements
<1>. HIDE DEF t
<1>2. \A i \in 1..Len(t) : i \in 1..Len(q) \/ i = Len(q) + 1
  BY <1>1
<1>3. ASSUME NEW i \in 1..Len(q), IsUpdate(q[i])
      PROVE  q[i].path = INTERVAL /\ q[i].value.n \in next..(last - 1)
  BY <1>3 DEF Counted
<1>4. ASSUME NEW i \in 1..Len(t), IsUpdate(t[i])
      PROVE  t[i].path = INTERVAL /\ t[i].value.n \in next..((last + 1) - 1)
  BY <1>1, <1>2, <1>3, <1>4
<1>5. ASSUME NEW i \in 1..Len(t), NEW j \in 1..Len(t), i < j,
             IsUpdate(t[i]), IsUpdate(t[j])
      PROVE  t[i].value.n < t[j].value.n
  <2>1. i \in 1..Len(q)
    BY <1>1, <1>5
  <2>2. CASE j \in 1..Len(q)
    BY <1>1, <1>5, <2>1, <2>2 DEF Counted
  <2>3. CASE j = Len(q) + 1
    BY <1>1, <1>3, <1>5, <2>1, <2>3
  <2>. QED
    BY <1>2, <2>2, <2>3
<1>6. ASSUME NEW n \in next..((last + 1) - 1)
      PROVE  \E i \in 1..Len(t) : IsUpdate(t[i]) /\ t[i].value.n = n
  <2>1. CASE n = last
    BY <1>1, <2>1
  <2>2. CASE n # last
    <3>1. n \in next..(last - 1)
      BY <2>2
    <3>2. PICK i \in 1..Len(q) : IsUpdate(q[i]) /\ q[i].value.n = n
      BY <3>1 DEF Counted
    <3>. QED
      BY <1>1, <3>2
  <2>. QED
    BY <2>1, <2>2
<1>. QED
  BY <1>4, <1>5, <1>6 DEF Counted, t

LEMMA CountedTail ==
  ASSUME NEW q \in Seq(ManagerMessage), q # <<>>, ~IsUpdate(Head(q)),
         NEW next \in Nat, NEW last \in Nat, Counted(q, next, last)
  PROVE  Counted(Tail(q), next, last)
<1>. DEFINE t == Tail(q)
<1>1. /\ Len(q) \in Nat \ {0} /\ Len(t) = Len(q) - 1
      /\ \A i \in 1..(Len(q) - 1) : t[i] = q[i + 1]
      /\ Head(q) = q[1]
  BY TailElements
<1>. HIDE DEF t
<1>2. \A i \in 1..Len(t) : i + 1 \in 1..Len(q) /\ t[i] = q[i + 1]
  BY <1>1
<1>3. ASSUME NEW n \in next..(last - 1)
      PROVE  \E i \in 1..Len(t) : IsUpdate(t[i]) /\ t[i].value.n = n
  <2>1. PICK i \in 1..Len(q) : IsUpdate(q[i]) /\ q[i].value.n = n
    BY DEF Counted
  <2>2. i - 1 \in 1..Len(t) /\ t[i - 1] = q[i]
    BY <1>1, <2>1
  <2>. QED
    BY <2>1, <2>2
<1>4. ASSUME NEW i \in 1..Len(t), NEW j \in 1..Len(t), i < j,
             IsUpdate(t[i]), IsUpdate(t[j])
      PROVE  t[i].value.n < t[j].value.n
  <2>1. i + 1 < j + 1 /\ i + 1 \in 1..Len(q) /\ j + 1 \in 1..Len(q)
    BY <1>1, <1>4
  <2>. QED
    BY <1>2, <1>4, <2>1 DEF Counted
<1>5. ASSUME NEW i \in 1..Len(t), IsUpdate(t[i])
      PROVE  t[i].path = INTERVAL /\ t[i].value.n \in next..(last - 1)
  BY <1>2, <1>5 DEF Counted
<1>. QED
  BY <1>3, <1>4, <1>5 DEF Counted, t

LEMMA CountedUpdate ==
  ASSUME NEW q \in Seq(ManagerMessage), q # <<>>, IsUpdate(Head(q)),
         NEW next \in Nat, NEW last \in Nat, Counted(q, next, last)
  PROVE  /\ Head(q).path = INTERVAL /\ Head(q).value.n = next /\ next < last
         /\ Counted(Tail(q), next + 1, last)
<1>. DEFINE t == Tail(q)
<1>1. /\ Len(q) \in Nat \ {0} /\ Len(t) = Len(q) - 1
      /\ \A i \in 1..(Len(q) - 1) : t[i] = q[i + 1]
      /\ Head(q) = q[1]
  BY TailElements
<1>. HIDE DEF t
<1>2. \A i \in 1..Len(t) : i + 1 \in 1..Len(q) /\ t[i] = q[i + 1]
  BY <1>1
<1>3. /\ 1 \in 1..Len(q) /\ IsUpdate(q[1])
      /\ q[1].path = INTERVAL /\ q[1].value.n \in next..(last - 1)
  BY <1>1 DEF Counted
<1>4. ASSUME NEW i \in 1..Len(q), i # 1, IsUpdate(q[i])
      PROVE  q[1].value.n < q[i].value.n
  BY <1>3, <1>4 DEF Counted
<1>5. q[1].value.n = next
  <2>1. next \in next..(last - 1)
    BY <1>3
  <2>2. PICK i \in 1..Len(q) : IsUpdate(q[i]) /\ q[i].value.n = next
    BY <2>1 DEF Counted
  <2>. QED
    BY <1>3, <1>4, <2>2
<1>6. ASSUME NEW i \in 1..Len(t), IsUpdate(t[i])
      PROVE  t[i].path = INTERVAL /\ t[i].value.n \in (next + 1)..(last - 1)
  <2>1. i + 1 \in 1..Len(q) /\ i + 1 # 1 /\ t[i] = q[i + 1]
    BY <1>2
  <2>2. t[i].path = INTERVAL /\ t[i].value.n \in next..(last - 1)
    BY <1>6, <2>1 DEF Counted
  <2>3. next < t[i].value.n
    BY <1>4, <1>5, <1>6, <2>1
  <2>. QED
    BY <2>2, <2>3
<1>7. ASSUME NEW n \in (next + 1)..(last - 1)
      PROVE  \E i \in 1..Len(t) : IsUpdate(t[i]) /\ t[i].value.n = n
  <2>1. n \in next..(last - 1)
    OBVIOUS
  <2>2. PICK i \in 1..Len(q) : IsUpdate(q[i]) /\ q[i].value.n = n
    BY <2>1 DEF Counted
  <2>3. i # 1
    BY <1>5, <2>2
  <2>4. i - 1 \in 1..Len(t) /\ t[i - 1] = q[i]
    BY <1>1, <2>3
  <2>. QED
    BY <2>2, <2>4
<1>8. ASSUME NEW i \in 1..Len(t), NEW j \in 1..Len(t), i < j,
             IsUpdate(t[i]), IsUpdate(t[j])
      PROVE  t[i].value.n < t[j].value.n
  <2>1. i + 1 < j + 1 /\ i + 1 \in 1..Len(q) /\ j + 1 \in 1..Len(q)
    BY <1>1, <1>8
  <2>. QED
    BY <1>2, <1>8, <2>1 DEF Counted
<1>9. next < last
  BY <1>3
<1>. QED
  BY <1>1, <1>3, <1>5, <1>6, <1>7, <1>8, <1>9 DEF Counted, t

LEMMA ClientMessageKeepsCache ==
  ASSUME NEW c, NEW r, NEW a, HandleClientMessage(c, r, a)
  PROVE  UNCHANGED signal_cache
<1>1. CASE \E id \in SubId : Subscribe(c, a.path, r, id)
  BY <1>1 DEF Subscribe
<1>2. CASE Get(c, a.path, r)
  BY <1>2 DEF Get, maps
<1>3. CASE HandleSet(c, a.path, a.value, r)
  BY <1>3
  DEF HandleSet, SetWithoutRecipient, SetForwarded, SetUndeliverable, maps
<1>4. CASE Unsubscribe(c, r, a.subscription_id)
  BY <1>4 DEF Unsubscribe, UnsubscribeRefused, UnsubscribeOwned, maps
<1>5. CASE UnsubscribeAll(c, r)
  BY <1>5 DEF UnsubscribeAll, maps
<1>. QED
  BY <1>1, <1>2, <1>3, <1>4, <1>5 DEF HandleClientMessage

(* The manager changes the cache when it handles the next count, only. *)
LEMMA ManagerCaches ==
  ASSUME ServerIInv, CountInv, ManagerHandle
  PROVE  LET m == Head(manager_mailbox) IN
         IF IsUpdate(m)
           THEN /\ m.path = INTERVAL /\ m.value \in Value /\ m.value.n = NextCount
                /\ signal_cache' = [signal_cache EXCEPT ![Lower[INTERVAL]] = m.value]
                /\ Cached' = m.value
           ELSE UNCHANGED signal_cache
<1>. DEFINE m == Head(manager_mailbox)
            q == manager_mailbox
<1>1. /\ ServerTypeOK /\ q \in Seq(ManagerMessage) /\ q # <<>>
  BY DEF ServerIInv, ServerTypeOK, ManagerHandle
<1>2. m \in ManagerMessage
  BY <1>1, TailElements
<1>3. CASE IsUpdate(m)
  <2>1. NextCount \in Nat /\ sources \in Nat
    BY <1>1, BoundsAssumption DEF CountInv, ServerTypeOK
  <2>2. m.path = INTERVAL /\ m.value.n = NextCount
    BY <1>1, <1>3, <2>1, CountedUpdate DEF CountInv
  <2>3. m.value \in Value /\ UpdateSignal(m.path, m.value)
    BY <1>2, <1>3, MessageShape
    DEF IsUpdate, ManagerHandle, HandleSourceMessage
  <2>4. Lower[INTERVAL] \in Key
    BY IntervalAssumption, LowerKey
  <2>5. signal_cache' = [signal_cache EXCEPT ![Lower[INTERVAL]] = m.value]
    BY <2>2, <2>3 DEF UpdateSignal
  <2>6. Cached' = m.value
    BY <1>1, <2>4, <2>5 DEF Cached, ServerTypeOK, TypeOK
  <2>. QED
    BY <1>3, <2>2, <2>3, <2>5, <2>6
<1>4. CASE ~IsUpdate(m)
  <2>1. CASE m.msg = "ClientMessage"
    <3>1. HandleClientMessage(m.client_addr, m.request_id, m.message)
      BY <2>1 DEF ManagerHandle, HandleSourceMessage
    <3>. QED
      BY <1>4, <3>1, ClientMessageKeepsCache
  <2>2. CASE m.msg # "ClientMessage"
    BY <1>4, <2>2
    DEF ManagerHandle, HandleSourceMessage, AddSetRecipient, IsUpdate
  <2>. QED
    BY <2>1, <2>2
<1>. QED
  BY <1>3, <1>4

LEMMA CachedType ==
  ServerTypeOK => Lower[INTERVAL] \in Key /\ Cached \in Value \cup {None}
BY IntervalAssumption, LowerKey DEF ServerTypeOK, TypeOK, Cached

LEMMA NextCounted ==
  ASSUME ServerIInv, CallInv, CountInv, [ClientNext]_clientVars
  PROVE  CountInv'
<1>. DEFINE q == manager_mailbox
<1>1. /\ ServerTypeOK /\ q \in Seq(ManagerMessage)
      /\ sources \in Nat /\ NextCount \in Nat /\ NextCount <= sources
  BY BoundsAssumption DEF ServerIInv, ServerTypeOK, CountInv
<1>2. UNCHANGED signal_cache => UNCHANGED NextCount
  BY DEF NextCount, Cached
<1>3. CASE UNCHANGED <<manager_mailbox, sources, signal_cache>>
  BY <1>3 DEF CountInv, NextCount, Cached
<1>4. CASE ManagerHandle /\ UNCHANGED sources
  <2>. DEFINE m == Head(q)
  <2>1. q # <<>> /\ q' = Tail(q)
    BY <1>4 DEF ManagerHandle
  <2>2. CASE IsUpdate(m)
    <3>1. /\ m.value.n = NextCount /\ m.value \in Value
          /\ signal_cache' = [signal_cache EXCEPT ![Lower[INTERVAL]] = m.value]
          /\ Cached' = m.value
      BY <1>4, <2>2, ManagerCaches
    <3>2. NextCount' = NextCount + 1
      BY <3>1, ValueShape DEF NextCount
    <3>3. NextCount < sources /\ Counted(q', NextCount + 1, sources)
      BY <1>1, <2>1, <2>2, CountedUpdate DEF CountInv
    <3>4. \A k \in Key \ {Lower[INTERVAL]} : signal_cache'[k] = None
      BY <1>1, <3>1 DEF CountInv, ServerTypeOK, TypeOK
    <3>. QED
      BY <1>1, <1>4, <3>2, <3>3, <3>4 DEF CountInv
  <2>3. CASE ~IsUpdate(m)
    <3>1. UNCHANGED <<signal_cache, NextCount>>
      BY <1>2, <1>4, <2>3, ManagerCaches
    <3>2. Counted(q', NextCount, sources)
      BY <1>1, <2>1, <2>3, CountedTail DEF CountInv
    <3>. QED
      BY <1>4, <3>1, <3>2 DEF CountInv
  <2>. QED
    BY <2>2, <2>3
<1>5. ASSUME NEW m \in ManagerMessage, m.msg = "ClientMessage", ToManager(m),
             UNCHANGED <<sources, signal_cache>>
      PROVE  CountInv'
  <2>1. ~IsUpdate(m)
    BY <1>5 DEF IsUpdate
  <2>2. Counted(q', NextCount, sources)
    BY <1>1, <1>5, <2>1, CountedOther DEF CountInv, ToManager
  <2>. QED
    BY <1>2, <1>5, <2>2 DEF CountInv
<1>6. CASE IntervalTick /\ UNCHANGED signal_cache
  <2>1. PICK m : m = UpdateMessage(INTERVAL, PosInt(sources))
    OBVIOUS
  <2>2. q' = Append(q, m) /\ sources' = sources + 1 /\ sources \in 0..(MaxSources - 1)
    BY <1>1, <1>6, <2>1, BoundsAssumption
    DEF IntervalTick, SetSignal, FromSource, ToManager, ServerTypeOK
  <2>3. PosInt(sources) \in Value
    BY <2>2, ValuesAssumption
  <2>4. m \in ManagerMessage
    BY <2>1, <2>3, IntervalAssumption DEF ManagerMessage
  <2>5. IsUpdate(m) /\ m.path = INTERVAL /\ m.value.n = sources
    BY <2>1 DEF UpdateMessage, IsUpdate, PosInt
  <2>6. Counted(q', NextCount, sources + 1)
    BY <1>1, <2>2, <2>4, <2>5, CountedTick DEF CountInv
  <2>. QED
    BY <1>1, <1>2, <1>6, <2>2, <2>6 DEF CountInv
<1>. QED
  BY <1>3, <1>4, <1>5, <1>6, ManagerMailboxSteps

-------------------------------------------------------------------------------
(***************************************************************************)
(* Between the manager and an actor no count is lost or overtaken.         *)
(***************************************************************************)
ChainInv ==
  \A id \in SubId :
    Running(id) =>
      Chained(subscription[id].latest_signal_value, subscription_mailbox[id])

LEMMA ActorShape ==
  ASSUME ServerTypeOK, NEW id \in SubId
  PROVE  /\ subscription_mailbox[id] \in Seq(SubscriptionMessage)
         /\ Running(id) =>
              /\ subscription[id] \in Actor
              /\ subscription[id].client_addr \in Client
              /\ subscription[id].latest_signal_value \in Value \cup {None}
              /\ subscription[id].last_signal_value_client \in Value \cup {None}
BY DEF ServerTypeOK, Running, Actor

LEMMA EmptyChained == ASSUME NEW latest PROVE Chained(latest, <<>>)
<1>1. Len(<<>>) = 0
  OBVIOUS
<1>. QED
  BY <1>1 DEF Chained

(* The update the manager hands out follows what it has handed out. *)
LEMMA UpdateChains ==
  ASSUME ServerIInv, CountInv, FollowInv, ChainInv, ManagerHandle,
         NEW id \in SubId, QueuesUpdate(id)
  PROVE  /\ Chained(subscription[id].latest_signal_value, subscription_mailbox'[id])
         /\ Head(manager_mailbox).value \in Value
         /\ Cached' = Head(manager_mailbox).value
<1>. DEFINE m == Head(manager_mailbox)
            q == subscription_mailbox[id]
            latest == subscription[id].latest_signal_value
            v == m.value
<1>1. /\ ServerTypeOK /\ Listed(id) /\ Running(id) /\ IsUpdate(m)
      /\ id \in Subscribers(m.path)
      /\ subscription_mailbox'[id] = Append(q, NotifySubscriber(v))
  BY DEF ServerIInv, QueuesUpdate
<1>2. /\ m.path = INTERVAL /\ v \in Value /\ v.n = NextCount
      /\ Cached' = v
  BY <1>1, ManagerCaches
<1>3. signal_cache[KeyOf(id)] = Cached
  BY <1>1, <1>2, ListedUnderKey, IntervalAssumption DEF Cached
<1>4. q \in Seq(SubscriptionMessage) /\ latest \in Value \cup {None}
  BY <1>1, ActorShape
<1>5. Follows(id) /\ Chained(latest, q)
  BY <1>1 DEF FollowInv, ChainInv
<1>6. \A i \in 1..Len(q) : q[i] # StopSubscription
  BY <1>1, <1>4, LenProperties DEF ServerIInv, ListedIffRunning
<1>7. CASE q # <<>>
  <2>1. q[Len(q)] = NotifySubscriber(Cached)
    BY <1>3, <1>5, <1>7 DEF Follows
  <2>2. Len(q) \in 1..Len(q)
    BY <1>4, <1>7, LenProperties, EmptySeq
  <2>3. q[Len(q)] \in SubscriptionMessage /\ q[Len(q)].signal_value = Cached
    BY <1>4, <2>1, <2>2, ElementOfSeq DEF NotifySubscriber
  <2>4. Cached \in Value
    BY <1>6, <2>2, <2>3, QueuedShape
  <2>5. v.n = q[Len(q)].signal_value.n + 1
    BY <1>2, <2>3, <2>4, ValueShape DEF NextCount
  <2>. QED
    BY <1>1, <1>2, <1>4, <1>5, <1>6, <1>7, <2>5, ChainedAppend
<1>8. CASE q = <<>>
  <2>1. latest \in {None, Cached}
    BY <1>3, <1>5, <1>8 DEF Follows
  <2>2. latest # None => v.n = latest.n + 1
    BY <1>2, <2>1 DEF NextCount
  <2>. QED
    BY <1>1, <1>2, <1>4, <1>5, <1>6, <1>8, <2>2, ChainedAppend
<1>. QED
  BY <1>7, <1>8

LEMMA NextChained ==
  ASSUME ServerIInv, CallInv, CountInv, FollowInv, ChainInv,
         [ClientNext]_clientVars
  PROVE  ChainInv'
<1>1. ServerTypeOK
  BY DEF ServerIInv
<1>. SUFFICES ASSUME NEW id \in SubId, Running(id)'
              PROVE  Chained(subscription'[id].latest_signal_value,
                             subscription_mailbox'[id])
  BY DEF ChainInv
<1>. DEFINE Same == Running(id) /\ subscription'[id] = subscription[id]
                    /\ subscription_mailbox'[id] = subscription_mailbox[id]
            Goal == Chained(subscription'[id].latest_signal_value,
                            subscription_mailbox'[id])
<1>2. Same => Goal
  BY DEF ChainInv
<1>3. Still => Same
  BY DEF Still, Running
<1>4. ASSUME NEW c \in Client, Disconnect(c) PROVE Same
  BY <1>4 DEF Disconnect, Running
<1>5. CASE ManagerHandle
  <2>1. CASE Starts(id)
    BY <2>1, EmptyChained DEF Starts
  <2>2. CASE Running(id) /\ subscription'[id] = subscription[id]
    <3>1. CASE QueuesStop(id)
      BY <1>1, <2>2, <3>1, ActorShape, ChainedStop DEF QueuesStop, ChainInv
    <3>2. CASE QueuesUpdate(id)
      BY <1>5, <2>2, <3>2, UpdateChains
    <3>. QED
      BY <1>2, <1>5, <2>2, <3>1, <3>2, ManagerQueues
  <2>. QED
    BY <1>5, <2>1, <2>2, ManagerStarts
<1>6. ASSUME NEW i \in SubId, SubscriptionHandle(i) \/ Tick(i) PROVE Goal
  <2>1. CASE i # id
    BY <1>2, <1>6, <2>1, SubscriptionSteps DEF Running
  <2>2. CASE i = id
    <3>1. PICK v \in Value : TakesUpdate(id, v) \/ KeepsValue(id, v)
      BY <1>6, <2>2, SubscriptionSteps DEF Stopped, Running
    <3>2. Running(id)
      BY <1>6, <2>2, SubscriptionSteps
    <3>3. CASE TakesUpdate(id, v)
      BY <1>1, <3>2, <3>3, ActorShape, ChainedTail DEF TakesUpdate, Holding, ChainInv
    <3>4. CASE KeepsValue(id, v)
      BY <3>2, <3>4 DEF KeepsValue, Holding, ChainInv
    <3>. QED
      BY <3>1, <3>3, <3>4
  <2>. QED
    BY <2>1, <2>2
<1>. QED
  BY <1>2, <1>3, <1>4, <1>5, <1>6, ClientSteps

-------------------------------------------------------------------------------
(***************************************************************************)
(* What a client without filters receives after the answer: one count      *)
(* after the other.                                                        *)
(***************************************************************************)
Unfiltered(c) == HasCalledSubscribe(c) /\ called[c].text.filters = None

StreamInv == \A c \in Client : Unfiltered(c) => Consecutive(Received(c))

LEMMA ShortIsConsecutive ==
  ASSUME NEW R, Len(R) \in {0, 1}
  PROVE  Consecutive(R)
BY DEF Consecutive

LEMMA StreamGrows ==
  ASSUME NEW a, a.action = "subscribe", NEW own, NEW R \in Seq(Text),
         Shaped(a, own, R), NEW id \in SubId,
         R # <<>>, R[1].subscription_id = id,
         NEW latest \in Value \cup {None}, Holds(R, id, latest),
         NEW v \in Value, latest # None => v.n = latest.n + 1,
         Consecutive(R)
  PROVE  Consecutive(Append(R, Subscription(id, v)))
<1>. DEFINE x == Subscription(id, v)
<1>1. x \in Text /\ x.value = v /\ v.n \in Nat
  BY NotificationTexts, ValueShape DEF Text, Subscription
<1>2. ASSUME NEW i \in 2..Len(R)
      PROVE  IsNote(R[i], id) /\ R[i].value \in Value
  <2>1. Fits(a, own, R, i)
    BY LenProperties DEF Shaped
  <2>2. PICK w \in Value : R[i] = Subscription(id, w)
    BY <2>1 DEF Fits
  <2>. QED
    BY <2>2 DEF Subscription, IsNote, Has
<1>3. ASSUME Len(R) >= 2
      PROVE  latest # None /\ R[Len(R)].value = latest
  <2>1. Len(R) \in Nat /\ Len(R) \in 2..Len(R)
    BY <1>3, LenProperties
  <2>2. IsNote(R[Len(R)], id)
    BY <1>2, <2>1
  <2>3. latest # None
    BY <2>1, <2>2 DEF Holds, NoneIn
  <2>4. PICK i \in 1..Len(R) :
          /\ R[i].value = latest
          /\ \A j \in 1..Len(R) : IsNote(R[j], id) => j <= i
    BY <2>3 DEF Holds, LastIn
  <2>5. i = Len(R)
    BY <2>1, <2>2, <2>4
  <2>. QED
    BY <2>3, <2>4, <2>5
<1>4. \A i \in 2..Len(R) : R[i].value.n \in Nat
  BY <1>2, ValueShape
<1>5. Len(R) >= 2 => v.n = R[Len(R)].value.n + 1
  BY <1>3
<1>. HIDE DEF x
<1>. QED
  BY <1>1, <1>4, <1>5, ConsecutiveAppend DEF x

(* A notification to a client without filters is an update just taken. *)
LEMMA StreamIsFed ==
  ASSUME ServerIInv, ShapeInv, ActorInv, ChainInv, LastInv, StreamInv,
         NEW c \in Client, Unfiltered(c),
         NEW id \in SubId, SubscriptionHandle(id) \/ Tick(id),
         ~UNCHANGED Received(c)
  PROVE  Consecutive(Received(c))'
<1>. DEFINE R == Received(c)
            s == subscription[id]
            q == subscription_mailbox[id]
<1>1. ServerTypeOK
  BY DEF ServerIInv
<1>2. /\ Running(id) /\ s.client_addr = c /\ session[c] = "running"
      /\ \E w \in Value : /\ Receives(c, Subscription(id, w))
                          /\ TakesUpdate(id, w) \/ KeepsValue(id, w)
  BY SubscriptionSteps DEF Stopped, NothingSent, TakesUpdate, KeepsValue, SentBy
<1>3. PICK v \in Value : /\ Receives(c, Subscription(id, v))
                         /\ TakesUpdate(id, v) \/ KeepsValue(id, v)
  BY <1>2
<1>4. Owned(id) /\ Believes(id) /\ Chained(s.latest_signal_value, q)
  BY <1>2 DEF ActorInv, LastInv, ChainInv
<1>5. /\ s.filters = None /\ R # <<>> /\ R[1].subscription_id = id
  BY <1>2, <1>4 DEF Owned, Unfiltered
<1>6. TakesUpdate(id, v)
  BY <1>3, <1>5 DEF KeepsValue
<1>7. /\ s.latest_signal_value \in Value \cup {None}
      /\ q \in Seq(SubscriptionMessage)
  BY <1>1, <1>2, ActorShape
<1>8. Holds(R, id, s.latest_signal_value)
  BY <1>2, <1>4, <1>5 DEF Believes
<1>9. s.latest_signal_value # None => v.n = s.latest_signal_value.n + 1
  <2>1. q # <<>> /\ IsNotify(Head(q)) /\ Head(q).signal_value = v
    BY <1>6 DEF TakesUpdate
  <2>2. Head(q) = q[1] /\ 1 \in 1..Len(q)
    BY <1>7, <2>1, TailElements
  <2>. QED
    BY <1>4, <2>1, <2>2 DEF Chained
<1>10. /\ R \in Seq(Text) /\ Consecutive(R)
       /\ Shaped(called[c].text, OwnRequests(c), R)
       /\ called[c].text.action = "subscribe"
  BY <1>1, ReceivedType DEF StreamInv, ShapeInv, Unfiltered, HasCalledSubscribe
<1>11. Consecutive(Append(R, Subscription(id, v)))
  <2>1. PICK latest : latest = s.latest_signal_value
    OBVIOUS
  <2>. HIDE DEF R
  <2>. QED
    BY <1>5, <1>7, <1>8, <1>9, <1>10, <2>1, StreamGrows
<1>. QED
  BY <1>3, <1>11 DEF Receives

LEMMA NextStream ==
  ASSUME ServerIInv, CallInv, RequestInv, OneRequest, ShapeInv, ActorInv, ChainInv,
         LastInv, StreamInv, [ClientNext]_clientVars, Onward
  PROVE  StreamInv'
<1>1. ServerTypeOK
  BY DEF ServerIInv
<1>. SUFFICES ASSUME NEW c \in Client, Unfiltered(c)'
              PROVE  Consecutive(Received(c))'
  BY DEF StreamInv
<1>. DEFINE R == Received(c)
<1>2. CASE Blank(c)
  <2>1. CASE UNCHANGED R
    BY <1>2, <2>1, ShortIsConsecutive DEF Blank
  <2>2. ASSUME NEW x \in Response, Receives(c, x) PROVE Consecutive(R')
    BY <1>2, <2>2, AppendToEmpty, ShortIsConsecutive DEF Blank, Receives
  <2>3. ASSUME NEW d \in Client, Disconnect(d) PROVE UNCHANGED R
    <3>1. CASE d = c
      <4>1. /\ wire[c] \in Seq(Text) /\ session_mailbox[c] \in Seq(Text)
            /\ wire[c] \o session_mailbox[c] = <<>>
        BY <1>1, <1>2, ReceivedType DEF Blank, Received
      <4>2. wire[c] = <<>>
        BY <4>1, ConcatProperties, LenProperties, EmptySeq
      <4>. QED
        BY <1>1, <1>2, <2>3, <3>1, <4>2, DisconnectReceives DEF Blank
    <3>. QED
      BY <1>1, <2>3, <3>1, DisconnectReceives
  <2>4. ASSUME NEW id \in SubId, SubscriptionHandle(id) \/ Tick(id) PROVE UNCHANGED R
    BY <1>2, <2>4, SubscriptionSteps
    DEF Blank, Stopped, TakesUpdate, KeepsValue, NothingSent, SentBy
  <2>5. Still => UNCHANGED R
    BY DEF Still, NothingSent
  <2>. QED
    BY <2>1, <2>2, <2>3, <2>4, <2>5, ClientSteps, ManagerIsRead DEF IsAnswered
<1>3. CASE ~Blank(c)
  <2>1. Unfiltered(c)
    BY <1>3, CallStays DEF Unfiltered, HasCalledSubscribe
  <2>2. Consecutive(R)
    BY <2>1 DEF StreamInv
  <2>3. CASE UNCHANGED R
    BY <2>2, <2>3
  <2>4. ASSUME NEW d \in Client, Disconnect(d) PROVE Consecutive(R')
    <3>1. CASE d = c
      <4>1. /\ R' = wire[c] /\ R = wire[c] \o session_mailbox[c]
            /\ wire[c] \in Seq(Text) /\ session_mailbox[c] \in Seq(Text)
        BY <1>1, <2>4, <3>1, DisconnectReceives, ReceivedType DEF Received
      <4>. QED
        BY <2>2, <4>1, ConsecutivePrefix
    <3>. QED
      BY <1>1, <2>3, <2>4, <3>1, DisconnectReceives
  <2>5. ManagerHandle => UNCHANGED R
    BY <1>3, ManagerIsRead, AnsweredIsBlank DEF IsAnswered
  <2>6. Still => UNCHANGED R
    BY DEF Still, NothingSent
  <2>. QED
    BY <2>1, <2>3, <2>4, <2>5, <2>6, ClientSteps, StreamIsFed
<1>. QED
  BY <1>2, <1>3

-------------------------------------------------------------------------------
(***************************************************************************)
(* How the library reads the texts a connection of its own may carry.      *)
(***************************************************************************)
LEMMA SuccessIsRead ==
  ASSUME NEW r \in ReqId
  PROVE  /\ \A v \in Value : ReadSuccess(GetSuccess(r, v)) = GetSuccess(r, v)
         /\ \A id \in SubId :
              ReadSuccess(SubscribeSuccess(r, id)) = SubscribeSuccess(r, id)
         /\ ReadSuccess(UnsubscribeAllSuccess(r)) = UnsubscribeAllSuccess(r)
BY DEF ReadSuccess, Read, Reads, SuccessMembers, GetSuccess, SubscribeSuccess,
       UnsubscribeAllSuccess

LEMMA NotificationIsRead ==
  ASSUME NEW id \in SubId, NEW v \in Value
  PROVE  ReadSuccess(Subscription(id, v)) = Subscription(id, v)
BY DEF ReadSuccess, Read, Reads, SuccessMembers, Subscription

LEMMA GetErrorIsRead ==
  ASSUME NEW r \in ReqId, NEW e
  PROVE  /\ ReadSuccess(GetError(r, e)) = None
         /\ ReadError(GetError(r, e)) = GetError(r, e)
BY DEF ReadSuccess, ReadError, Read, Reads, SuccessMembers, ErrorMembers, GetError,
       RequestError

LEMMA TextsAreNotNone ==
  ASSUME NEW r \in ReqId
  PROVE  /\ \A v \in Value : GetSuccess(r, v) # None
         /\ \A id \in SubId : SubscribeSuccess(r, id) # None
         /\ UnsubscribeAllSuccess(r) # None
         /\ GetError(r, NOT_FOUND_INVALID_PATH) # None
         /\ \A id \in SubId, v \in Value : Subscription(id, v) # None
BY OptionAssumption
DEF Response, ActionSuccessResponse, ActionErrorResponse, ActionError, GetError

LEMMA GetYields ==
  ASSUME NEW c \in Client, NEW r \in ReqId, Own(c, r)
  PROVE  /\ \A v \in Value :
              GetItems(c, GetSuccess(r, v))
                = <<IF v \in Readable THEN OkValue(v) ELSE SerdeError>>
         /\ LET x == GetError(r, NOT_FOUND_INVALID_PATH) IN
            GetItems(c, x) = <<VisError(x)>>
<1>1. ASSUME NEW v \in Value
      PROVE  GetItems(c, GetSuccess(r, v))
               = <<IF v \in Readable THEN OkValue(v) ELSE SerdeError>>
  <2>1. /\ ReadSuccess(GetSuccess(r, v)) = GetSuccess(r, v)
        /\ GetSuccess(r, v) # None
        /\ GetSuccess(r, v).action = "get" /\ GetSuccess(r, v).value = v
        /\ GetSuccess(r, v).request_id = r
    BY SuccessIsRead, TextsAreNotNone DEF GetSuccess
  <2>. QED
    BY <2>1 DEF GetItems, Typed
<1>2. LET x == GetError(r, NOT_FOUND_INVALID_PATH) IN GetItems(c, x) = <<VisError(x)>>
  BY GetErrorIsRead, TextsAreNotNone DEF GetItems
<1>. QED
  BY <1>1, <1>2

LEMMA RawYields ==
  ASSUME NEW r \in ReqId, NEW id \in SubId
  PROVE  /\ LET x == SubscribeSuccess(r, id) IN SubscribeRawItems(x) = <<OkResponse(x)>>
         /\ \A v \in Value :
              LET x == Subscription(id, v) IN SubscribeRawItems(x) = <<OkResponse(x)>>
BY SuccessIsRead, NotificationIsRead, TextsAreNotNone DEF SubscribeRawItems

LEMMA SubscribeYields ==
  ASSUME NEW c \in Client, NEW r \in ReqId, Own(c, r), NEW id \in SubId,
         subscription_id \in [Client -> SubId \cup {None}]
  PROVE  /\ SubscribeItems(c, SubscribeSuccess(r, id)) = <<>>
         /\ StoredId(c, SubscribeSuccess(r, id)) = [subscription_id EXCEPT ![c] = id]
         /\ \A v \in Value : StoredId(c, Subscription(id, v)) = subscription_id
         /\ \A v \in Value :
              subscription_id[c] = id =>
                SubscribeItems(c, Subscription(id, v))
                  = <<IF v \in Readable THEN OkSubscribed(id, v) ELSE SerdeError>>
<1>. DEFINE x == SubscribeSuccess(r, id)
<1>1. /\ ReadSuccess(x) = x /\ x # None /\ x.action = "subscribe"
      /\ x.request_id = r /\ x.subscription_id = id
  BY SuccessIsRead, TextsAreNotNone DEF SubscribeSuccess
<1>. HIDE DEF x
<1>2. SubscribeItems(c, x) = <<>> /\ StoredId(c, x) = [subscription_id EXCEPT ![c] = id]
  BY <1>1 DEF SubscribeItems, StoredId
<1>3. ASSUME NEW v \in Value
      PROVE  /\ StoredId(c, Subscription(id, v)) = subscription_id
             /\ subscription_id[c] = id =>
                  SubscribeItems(c, Subscription(id, v))
                    = <<IF v \in Readable THEN OkSubscribed(id, v) ELSE SerdeError>>
  <2>. DEFINE y == Subscription(id, v)
  <2>1. /\ ReadSuccess(y) = y /\ y # None /\ y.action = "subscription"
        /\ y.subscription_id = id /\ y.value = v
    BY NotificationIsRead, TextsAreNotNone DEF Subscription
  <2>. HIDE DEF y
  <2>2. StoredId(c, y) = subscription_id
    BY <2>1 DEF StoredId
  <2>3. ASSUME subscription_id[c] = id
        PROVE  SubscribeItems(c, y)
                 = <<IF v \in Readable THEN OkSubscribed(id, v) ELSE SerdeError>>
    BY <2>1, <2>3 DEF SubscribeItems, Typed
  <2>. QED
    BY <2>2, <2>3 DEF y
<1>. QED
  BY <1>2, <1>3 DEF x

LEMMA UnsubscribeAllYields ==
  ASSUME NEW c \in Client, NEW r \in ReqId, Own(c, r)
  PROVE  UnsubscribeAllItems(c, UnsubscribeAllSuccess(r)) = <<OkUnit>>
<1>1. LET x == UnsubscribeAllSuccess(r) IN
      /\ ReadSuccess(x) = x /\ x # None /\ x.action = "unsubscribeAll"
      /\ x.request_id = r
  BY SuccessIsRead, TextsAreNotNone DEF UnsubscribeAllSuccess
<1>. QED
  BY <1>1 DEF UnsubscribeAllItems

-------------------------------------------------------------------------------
(***************************************************************************)
(* What a future or a stream has yielded, its, is accounted for by the     *)
(* texts read so far: the first pos ones of what was written, w.           *)
(***************************************************************************)
Gives(item, v) ==
  \/ Has(item, "value") /\ item.value = v
  \/ /\ Has(item, "response") /\ Has(item.response, "value")
     /\ item.response.value = v

ReadValues(w, pos, its) ==
  \A i \in 1..Len(its), v \in Value :
    Gives(its[i], v) => \E j \in 1..pos : Has(w[j], "value") /\ w[j].value = v

GetRead(own, w, pos, its, fin) ==
  /\ ~fin => its = <<>>
  /\ its # <<>> =>
       /\ Len(its) = 1
       /\ its[1].result = "VisError" =>
            its[1].error.action = "get" /\ its[1].error.request_id \in own
       /\ its[1].result = "SerdeError" =>
            /\ pos >= 1 /\ ReadSuccess(w[pos]) # None
            /\ w[pos].value \notin Readable

RawRead(w, pos, its, fin) ==
  /\ pos <= Len(its) /\ (~fin => Len(its) = pos)
  /\ \A i \in 1..Len(its) :
       IF i <= pos THEN its[i] = OkResponse(w[i]) ELSE ~IsOk(its[i])

SubscriptionRead(w, pos, id, its, fin) ==
  /\ pos >= 1 => id = w[1].subscription_id
  /\ ~fin => Len(its) = IF pos = 0 THEN 0 ELSE pos - 1
  /\ \A i \in 1..Len(its) :
       IsOk(its[i]) => i + 1 <= pos /\ its[i].value = w[i + 1].value

ReadBy(o, own, w, pos, id, its, fin) ==
  /\ ReadValues(w, pos, its)
  /\ o.call = "get" => GetRead(own, w, pos, its, fin)
  /\ o.call = "subscribe_raw" => RawRead(w, pos, its, fin)
  /\ o.call = "subscribe" => SubscriptionRead(w, pos, id, its, fin)

LEMMA ItemGives ==
  /\ \A v, u : Gives(OkValue(v), u) => u = v
  /\ \A id, v, u : Gives(OkSubscribed(id, v), u) => u = v
  /\ \A x, u : Gives(OkResponse(x), u) => Has(x, "value") /\ x.value = u
  /\ \A x, u : ~Gives(VisError(x), u)
  /\ \A u : /\ ~Gives(SerdeError, u) /\ ~Gives(OkUnit, u)
            /\ ~Gives(WebSocketError, u) /\ ~Gives(Panic, u)
BY DEF Gives, Has, OkValue, OkSubscribed, OkResponse, VisError, SerdeError, OkUnit,
       WebSocketError, Panic

LEMMA NothingRead ==
  ASSUME NEW o, NEW own, NEW w, NEW id
  PROVE  ReadBy(o, own, w, 0, id, <<>>, FALSE)
<1>1. Len(<<>>) = 0
  OBVIOUS
<1>. QED
  BY <1>1 DEF ReadBy, ReadValues, GetRead, RawRead, SubscriptionRead

LEMMA ReadGrows ==
  ASSUME NEW o, NEW own, NEW more, own \subseteq more,
         NEW w, NEW u, NEW pos \in Nat, \A i \in 1..pos : u[i] = w[i],
         NEW id, NEW its \in Seq(Item), NEW fin, ReadBy(o, own, w, pos, id, its, fin)
  PROVE  ReadBy(o, more, u, pos, id, its, fin)
<1>1. Len(its) \in Nat
  OBVIOUS
<1>2. ReadValues(u, pos, its)
  BY DEF ReadBy, ReadValues
<1>3. o.call = "get" => GetRead(more, u, pos, its, fin)
  BY DEF ReadBy, GetRead
<1>4. o.call = "subscribe_raw" => RawRead(u, pos, its, fin)
  BY <1>1 DEF ReadBy, RawRead
<1>5. o.call = "subscribe" => SubscriptionRead(u, pos, id, its, fin)
  <2>. SUFFICES ASSUME o.call = "subscribe"
                PROVE  SubscriptionRead(u, pos, id, its, fin)
    OBVIOUS
  <2>1. SubscriptionRead(w, pos, id, its, fin)
    BY DEF ReadBy
  <2>2. ASSUME NEW i \in 1..Len(its), IsOk(its[i])
        PROVE  i + 1 <= pos /\ its[i].value = u[i + 1].value
    <3>1. i + 1 <= pos /\ its[i].value = w[i + 1].value
      BY <2>1, <2>2 DEF SubscriptionRead
    <3>2. i + 1 \in 1..pos
      BY <1>1, <3>1
    <3>. QED
      BY <3>1, <3>2
  <2>3. pos >= 1 => id = u[1].subscription_id
    BY <2>1 DEF SubscriptionRead
  <2>. QED
    BY <2>1, <2>2, <2>3 DEF SubscriptionRead
<1>. QED
  BY <1>2, <1>3, <1>4, <1>5 DEF ReadBy

LEMMA ReadStops ==
  ASSUME NEW o, NEW own, NEW w, NEW pos, NEW id, NEW its, NEW fin,
         ReadBy(o, own, w, pos, id, its, fin)
  PROVE  ReadBy(o, own, w, pos, id, its, TRUE)
BY DEF ReadBy, GetRead, RawRead, SubscriptionRead

LEMMA ValuesAppend ==
  ASSUME NEW w, NEW pos \in Nat, NEW next \in {pos, pos + 1},
         NEW its \in Seq(Item), NEW item \in Item,
         ReadValues(w, pos, its),
         \A v \in Value : Gives(item, v) =>
           next = pos + 1 /\ Has(w[next], "value") /\ w[next].value = v
  PROVE  ReadValues(w, next, Append(its, item))
<1>. DEFINE t == Append(its, item)
<1>1. /\ Len(its) \in Nat /\ Len(t) = Len(its) + 1
      /\ \A i \in 1..Len(its) : t[i] = its[i]
      /\ t[Len(its) + 1] = item
  BY AppendElements
<1>. HIDE DEF t
<1>. SUFFICES ASSUME NEW i \in 1..Len(t), NEW v \in Value, Gives(t[i], v)
              PROVE  \E j \in 1..next : Has(w[j], "value") /\ w[j].value = v
  BY DEF ReadValues, t
<1>2. CASE i \in 1..Len(its)
  <2>1. PICK j \in 1..pos : Has(w[j], "value") /\ w[j].value = v
    BY <1>1, <1>2 DEF ReadValues
  <2>. QED
    BY <2>1
<1>3. CASE i = Len(its) + 1
  BY <1>1, <1>3
<1>. QED
  BY <1>1, <1>2, <1>3

LEMMA ReadEnds ==
  ASSUME NEW o, NEW own, NEW w, NEW pos \in Nat, NEW id, NEW its \in Seq(Item),
         ReadBy(o, own, w, pos, id, its, FALSE),
         NEW item \in {WebSocketError, Panic}
  PROVE  ReadBy(o, own, w, pos, id, Append(its, item), TRUE)
<1>. DEFINE t == Append(its, item)
<1>1. /\ item \in Item /\ ~IsOk(item)
      /\ item.result # "VisError" /\ item.result # "SerdeError"
  BY DEF Item, WebSocketError, Panic, IsOk
<1>2. /\ Len(its) \in Nat /\ Len(t) = Len(its) + 1
      /\ \A i \in 1..Len(its) : t[i] = its[i]
      /\ t[Len(its) + 1] = item
  BY <1>1, AppendElements
<1>3. ReadValues(w, pos, t)
  BY <1>1, ItemGives, ValuesAppend DEF ReadBy
<1>. HIDE DEF t
<1>4. \A i \in 1..Len(t) : (i \in 1..Len(its) /\ t[i] = its[i]) \/ t[i] = item
  BY <1>2
<1>5. ASSUME o.call = "get" PROVE GetRead(own, w, pos, t, TRUE)
  <2>1. its = <<>>
    BY <1>5 DEF ReadBy, GetRead
  <2>2. Len(t) = 1 /\ t[1] = item
    BY <1>2, <2>1
  <2>. QED
    BY <1>1, <2>2 DEF GetRead
<1>6. ASSUME o.call = "subscribe_raw" PROVE RawRead(w, pos, t, TRUE)
  <2>1. /\ Len(its) = pos
        /\ \A i \in 1..Len(its) : its[i] = OkResponse(w[i])
    BY <1>2, <1>6 DEF ReadBy, RawRead
  <2>2. \A i \in 1..Len(t) :
          \/ i \in 1..Len(its) /\ i <= pos /\ t[i] = its[i]
          \/ i > pos /\ t[i] = item
    BY <1>2, <2>1
  <2>. QED
    BY <1>1, <1>2, <2>1, <2>2 DEF RawRead
<1>7. ASSUME o.call = "subscribe" PROVE SubscriptionRead(w, pos, id, t, TRUE)
  BY <1>1, <1>4, <1>7 DEF ReadBy, SubscriptionRead
<1>. QED
  BY <1>3, <1>5, <1>6, <1>7 DEF ReadBy, t
(* One more text read, by each of the operations. *)
LEMMA GetPolled ==
  ASSUME NEW o, o.call = "get", NEW own \in SUBSET ReqId, NEW w, NEW pos \in Nat,
         NEW id, NEW its \in Seq(Item), ReadBy(o, own, w, pos, id, its, FALSE),
         NEW r \in own, NEW item,
         \/ \E v \in Value :
              /\ w[pos + 1] = GetSuccess(r, v)
              /\ item = IF v \in Readable THEN OkValue(v) ELSE SerdeError
         \/ /\ w[pos + 1] = GetError(r, NOT_FOUND_INVALID_PATH)
            /\ item = VisError(w[pos + 1])
  PROVE  item \in Item /\ ReadBy(o, own, w, pos + 1, id, Append(its, item), TRUE)
<1>. DEFINE text == w[pos + 1]
            t == Append(its, item)
<1>1. its = <<>>
  BY DEF ReadBy, GetRead
<1>2. ASSUME item \in Item,
             \A v \in Value : Gives(item, v) => Has(text, "value") /\ text.value = v,
             item.result = "VisError" =>
               item.error.action = "get" /\ item.error.request_id \in own,
             item.result = "SerdeError" =>
               ReadSuccess(text) # None /\ text.value \notin Readable
      PROVE  item \in Item /\ ReadBy(o, own, w, pos + 1, id, t, TRUE)
  <2>1. Len(t) = 1 /\ t[1] = item
    BY <1>1, <1>2, AppendToEmpty
  <2>2. ReadValues(w, pos + 1, t)
    BY <1>2, ValuesAppend DEF ReadBy
  <2>. HIDE DEF t
  <2>3. GetRead(own, w, pos + 1, t, TRUE)
    BY <1>2, <2>1 DEF GetRead
  <2>. QED
    BY <1>2, <2>2, <2>3 DEF ReadBy
<1>3. ASSUME NEW v \in Value, text = GetSuccess(r, v),
             item = IF v \in Readable THEN OkValue(v) ELSE SerdeError
      PROVE  item \in Item /\ ReadBy(o, own, w, pos + 1, id, t, TRUE)
  <2>1. /\ ReadSuccess(text) # None /\ Has(text, "value") /\ text.value = v
    BY <1>3, SuccessIsRead, TextsAreNotNone DEF GetSuccess, Has
  <2>2. CASE v \in Readable
    <3>1. item = OkValue(v) /\ item \in Item /\ item.result = "Ok"
      BY <1>3, <2>2 DEF Item, OkValue
    <3>. QED
      BY <1>2, <2>1, <3>1, ItemGives
  <2>3. CASE v \notin Readable
    <3>1. item = SerdeError /\ item \in Item /\ item.result = "SerdeError"
      BY <1>3, <2>3 DEF Item, SerdeError
    <3>. QED
      BY <1>2, <2>1, <2>3, <3>1, ItemGives
  <2>. QED
    BY <2>2, <2>3
<1>4. ASSUME text = GetError(r, NOT_FOUND_INVALID_PATH), item = VisError(text)
      PROVE  item \in Item /\ ReadBy(o, own, w, pos + 1, id, t, TRUE)
  <2>1. text \in ActionErrorResponse /\ text.action = "get" /\ text.request_id = r
    BY <1>4 DEF ActionErrorResponse, ActionError, GetError, RequestError
  <2>2. item \in Item /\ item.result = "VisError" /\ item.error = text
    BY <1>4, <2>1 DEF Item, VisError
  <2>. QED
    BY <1>2, <1>4, <2>1, <2>2, ItemGives
<1>. QED
  BY <1>3, <1>4

LEMMA RawPolled ==
  ASSUME NEW o, o.call = "subscribe_raw", NEW own, NEW w, NEW pos \in Nat, NEW id,
         NEW its \in Seq(Item), ReadBy(o, own, w, pos, id, its, FALSE),
         w[pos + 1] \in ActionSuccessResponse
  PROVE  LET item == OkResponse(w[pos + 1]) IN
         item \in Item /\ ReadBy(o, own, w, pos + 1, id, Append(its, item), FALSE)
<1>. DEFINE item == OkResponse(w[pos + 1])
            t == Append(its, item)
<1>1. item \in Item
  BY DEF Item
<1>2. /\ Len(its) \in Nat /\ Len(t) = Len(its) + 1
      /\ \A i \in 1..Len(its) : t[i] = its[i]
      /\ t[Len(its) + 1] = item
  BY <1>1, AppendElements
<1>3. \A v \in Value :
        Gives(item, v) => Has(w[pos + 1], "value") /\ w[pos + 1].value = v
  BY ItemGives
<1>. HIDE DEF item
<1>4. ReadValues(w, pos + 1, t)
  BY <1>1, <1>3, ValuesAppend DEF ReadBy
<1>. HIDE DEF t
<1>5. Len(its) = pos /\ \A i \in 1..Len(its) : its[i] = OkResponse(w[i])
  BY <1>2 DEF ReadBy, RawRead
<1>6. \A i \in 1..Len(t) : i <= pos + 1 /\ t[i] = OkResponse(w[i])
  BY <1>2, <1>5 DEF item
<1>7. RawRead(w, pos + 1, t, FALSE)
  BY <1>2, <1>5, <1>6 DEF RawRead
<1>. QED
  BY <1>1, <1>4, <1>7 DEF ReadBy, t, item

LEMMA AckPolled ==
  ASSUME NEW o, o.call = "subscribe", NEW own, NEW w, NEW id, NEW its \in Seq(Item),
         ReadBy(o, own, w, 0, id, its, FALSE)
  PROVE  ReadBy(o, own, w, 1, w[1].subscription_id, its, FALSE)
<1>1. Len(its) = 0
  BY DEF ReadBy, SubscriptionRead
<1>2. ReadValues(w, 1, its) /\ SubscriptionRead(w, 1, w[1].subscription_id, its, FALSE)
  BY <1>1 DEF ReadValues, SubscriptionRead
<1>. QED
  BY <1>2 DEF ReadBy

LEMMA NotePolled ==
  ASSUME NEW o, o.call = "subscribe", NEW own, NEW w, NEW pos \in Nat \ {0}, NEW id,
         NEW its \in Seq(Item), ReadBy(o, own, w, pos, id, its, FALSE),
         NEW i \in SubId, NEW v \in Value, w[pos + 1] = Subscription(i, v)
  PROVE  LET item == IF v \in Readable THEN OkSubscribed(i, v) ELSE SerdeError IN
         item \in Item /\ ReadBy(o, own, w, pos + 1, id, Append(its, item), FALSE)
<1>. DEFINE item == IF v \in Readable THEN OkSubscribed(i, v) ELSE SerdeError
            t == Append(its, item)
<1>1. item \in Item /\ (IsOk(item) => item.value = v)
  BY DEF Item, OkSubscribed, SerdeError, IsOk
<1>2. /\ Len(its) \in Nat /\ Len(t) = Len(its) + 1
      /\ \A k \in 1..Len(its) : t[k] = its[k]
      /\ t[Len(its) + 1] = item
  BY <1>1, AppendElements
<1>3. Has(w[pos + 1], "value") /\ w[pos + 1].value = v
  BY DEF Subscription, Has
<1>4. \A u \in Value : Gives(item, u) => u = v
  BY ItemGives
<1>. HIDE DEF item
<1>5. ReadValues(w, pos + 1, t)
  BY <1>1, <1>3, <1>4, ValuesAppend DEF ReadBy
<1>. HIDE DEF t
<1>6. /\ Len(its) = pos - 1 /\ id = w[1].subscription_id
      /\ \A k \in 1..Len(its) :
           IsOk(its[k]) => k + 1 <= pos /\ its[k].value = w[k + 1].value
  BY DEF ReadBy, SubscriptionRead
<1>7. ASSUME NEW k \in 1..Len(t), IsOk(t[k])
      PROVE  k + 1 <= pos + 1 /\ t[k].value = w[k + 1].value
  <2>1. CASE k \in 1..Len(its)
    BY <1>2, <1>6, <1>7, <2>1
  <2>2. CASE k = Len(its) + 1
    <3>1. k + 1 = pos + 1 /\ t[k] = item
      BY <1>2, <1>6, <2>2
    <3>. QED
      BY <1>1, <1>3, <1>7, <3>1
  <2>. QED
    BY <1>2, <2>1, <2>2
<1>8. SubscriptionRead(w, pos + 1, id, t, FALSE)
  BY <1>2, <1>6, <1>7 DEF SubscriptionRead
<1>. QED
  BY <1>1, <1>5, <1>8 DEF ReadBy, t, item

LEMMA UnitPolled ==
  ASSUME NEW o, o.call = "unsubscribe_all", NEW own, NEW w, NEW pos \in Nat, NEW id,
         NEW its \in Seq(Item), ReadBy(o, own, w, pos, id, its, FALSE)
  PROVE  OkUnit \in Item /\ ReadBy(o, own, w, pos + 1, id, Append(its, OkUnit), FALSE)
<1>1. OkUnit \in Item
  BY DEF Item
<1>2. ReadValues(w, pos + 1, Append(its, OkUnit))
  BY <1>1, ItemGives, ValuesAppend DEF ReadBy
<1>. QED
  BY <1>1, <1>2 DEF ReadBy

-------------------------------------------------------------------------------
(***************************************************************************)
(* The state of the library.                                               *)
(***************************************************************************)
LibraryType ==
  /\ position \in [Client -> Nat]
  /\ \A c \in Client : position[c] <= Len(wire[c])
  /\ subscription_id \in [Client -> SubId \cup {None}]
  /\ items \in [Client -> Seq(Item)]
  /\ finished \in [Client -> BOOLEAN]
  /\ observed_before \in [Client -> Value \cup {None}]

IdleInv ==
  \A c \in Client :
    called[c] = None =>
      /\ position[c] = 0 /\ items[c] = <<>> /\ finished[c] = FALSE
      /\ observed_before[c] = None

ReadInv ==
  \A c \in Client :
    ReadBy(called[c], OwnRequests(c), wire[c], position[c], subscription_id[c],
           items[c], finished[c])

LEMMA CallKinds ==
  ASSUME NEW o \in Calls
  PROVE  /\ o.call \in {"get", "subscribe", "subscribe_raw", "unsubscribe_all"}
         /\ o.call = "get" => o.text.action = "get"
         /\ o.call \in {"subscribe", "subscribe_raw"} => o.text.action = "subscribe"
         /\ o.call = "unsubscribe_all" => o.text.action = "unsubscribeAll"
BY CallsAssumption
DEF GetCall, SubscribeCall, SubscribeRawCall, UnsubscribeAllCall, GetAction,
    SubscribeAction, UnsubscribeAllAction

LEMMA ItemShape ==
  ASSUME NEW item \in Item
  PROVE  /\ Has(item, "value") => item.value \in Value
         /\ Has(item, "response") /\ Has(item.response, "value") =>
              item.response.value \in Value
<1>1. Has(item, "value") => item.value \in Value
  BY DEF Item, OkValue, OkSubscribed, OkResponse, VisError, OkUnit, SerdeError,
         WebSocketError, Panic, Has
<1>2. Has(item, "response") => item.response \in ActionSuccessResponse
  BY DEF Item, OkValue, OkSubscribed, OkResponse, VisError, OkUnit, SerdeError,
         WebSocketError, Panic, Has
<1>3. ASSUME NEW x \in ActionSuccessResponse, Has(x, "value") PROVE x.value \in Value
  BY <1>3
  DEF ActionSuccessResponse, GetSuccess, SetSuccess, SubscribeSuccess,
      UnsubscribeSuccess, UnsubscribeAllSuccess, Subscription, Has
<1>. QED
  BY <1>1, <1>2, <1>3

LEMMA SeenIsGiven ==
  ASSUME LibraryType, NEW c \in Client, NEW v \in ValuesSeen(c)
  PROVE  v \in Value /\ \E i \in 1..Len(items[c]) : Gives(items[c][i], v)
<1>1. items[c] \in Seq(Item) /\ DOMAIN items[c] = 1..Len(items[c])
  BY DEF LibraryType
<1>2. PICK i \in 1..Len(items[c]) : Gives(items[c][i], v)
  BY <1>1 DEF ValuesSeen, Gives
<1>3. items[c][i] \in Item
  BY <1>1, ElementOfSeq
<1>. QED
  BY <1>2, <1>3, ItemShape DEF Gives

(* There is a newest one among values. *)
LEMMA NewestExists ==
  ASSUME NEW seen \in SUBSET Value, seen # {}
  PROVE  \E v \in seen : \A w \in seen : w.n <= v.n
<1>. DEFINE T == {k \in Nat : \E v \in seen : v.n = MaxSources - k}
<1>1. ASSUME NEW v \in seen
      PROVE  MaxSources - v.n \in T /\ v.n \in Nat /\ v.n <= MaxSources
  <2>1. v.n \in Nat /\ v.n <= MaxSources /\ MaxSources \in Nat
    BY ValuesAssumption, BoundsAssumption DEF PosInt
  <2>2. MaxSources - v.n \in Nat /\ v.n = MaxSources - (MaxSources - v.n)
    BY <2>1
  <2>. QED
    BY <2>1, <2>2
<1>2. T # {} /\ T \subseteq Nat
  BY <1>1
<1>. HIDE DEF T
<1>3. PICK x \in T : \A y \in T : <<y, x>> \notin OpToRel(<, Nat)
  BY <1>2, NatLessThanWellFounded, WFMin
<1>4. \A y \in T : ~(y < x)
  BY <1>2, <1>3 DEF OpToRel
<1>5. PICK v \in seen : v.n = MaxSources - x
  BY DEF T
<1>6. ASSUME NEW w \in seen PROVE w.n <= v.n
  BY <1>1, <1>2, <1>4, <1>5, BoundsAssumption
<1>. QED
  BY <1>6

LEMMA NewestIsSeen ==
  ASSUME LibraryType, NewestSeen # None
  PROVE  NewestSeen \in Value /\ \E c \in Client : NewestSeen \in ValuesSeen(c)
<1>. DEFINE seen == UNION {ValuesSeen(c) : c \in Client}
<1>1. seen \in SUBSET Value
  BY SeenIsGiven
<1>2. seen # {} /\ NewestSeen = CHOOSE v \in seen : \A w \in seen : w.n <= v.n
  BY DEF NewestSeen
<1>. HIDE DEF seen
<1>3. NewestSeen \in seen
  BY <1>1, <1>2, NewestExists
<1>. QED
  BY <1>1, <1>3 DEF seen

LEMMA NextWire ==
  ASSUME ServerIInv, CallInv, [ClientNext]_clientVars, NEW c \in Client
  PROVE  /\ Len(wire[c]) \in Nat /\ Len(wire'[c]) \in Nat
         /\ Len(wire[c]) <= Len(wire'[c])
         /\ \A i \in 1..Len(wire[c]) : wire'[c][i] = wire[c][i]
<1>1. ServerTypeOK /\ wire[c] \in Seq(Text)
  BY ReceivedType DEF ServerIInv
<1>2. CASE UNCHANGED wire
  BY <1>1, <1>2
<1>3. ASSUME NEW d \in Client, SessionHandle(d)
      PROVE  /\ Len(wire'[c]) \in Nat
             /\ Len(wire[c]) <= Len(wire'[c])
             /\ \A i \in 1..Len(wire[c]) : wire'[c][i] = wire[c][i]
  <2>1. CASE c = d
    <3>1. session_mailbox[c] \in Seq(Text) /\ session_mailbox[c] # <<>>
      BY <1>1, <1>3, <2>1, ReceivedType DEF SessionHandle
    <3>2. Head(session_mailbox[c]) \in Text
      BY <3>1, TailElements
    <3>3. wire'[c] = Append(wire[c], Head(session_mailbox[c]))
      BY <1>1, <1>3, <2>1 DEF SessionHandle, Write, ServerTypeOK
    <3>. QED
      BY <1>1, <3>2, <3>3, AppendElements
  <2>2. CASE c # d
    BY <1>1, <1>3, <2>2 DEF SessionHandle, Write, ServerTypeOK
  <2>. QED
    BY <2>1, <2>2
<1>4. ASSUME NEW d \in Client, Arrive(d) PROVE UNCHANGED wire
  BY <1>1, <1>4, ArriveShape
<1>5. ASSUME NEW d \in Client, \/ Connect(d) \/ Disconnect(d) \/ Poll(d)
                               \/ StreamEnds(d) \/ Abandon(d)
      PROVE  UNCHANGED wire
  BY <1>5
  DEF Connect, Disconnect, Poll, StreamEnds, Abandon, serverVars, actors
<1>6. ASSUME NEW id \in SubId, SubscriptionHandle(id) \/ Tick(id)
      PROVE  UNCHANGED wire
  BY <1>6 DEF SubscriptionHandle, Tick
<1>7. ASSUME NEW d \in Client, NEW o \in Calls, Call(d, o) PROVE UNCHANGED wire
  BY <1>7 DEF Call, serverVars, actors
<1>8. ManagerHandle \/ IntervalTick => UNCHANGED wire
  BY DEF ManagerHandle, IntervalTick, SetSignal, FromSource
<1>9. UNCHANGED clientVars => UNCHANGED wire
  BY DEF clientVars, serverVars, actors
<1>. QED
  BY <1>1, <1>2, <1>3, <1>4, <1>5, <1>6, <1>7, <1>8, <1>9 DEF ClientNext, Server

LEMMA LibrarySteps ==
  ASSUME [ClientNext]_clientVars
  PROVE  \/ UNCHANGED library
         \/ \E c \in Client, o \in Calls : Call(c, o)
         \/ \E c \in Client : Poll(c) \/ StreamEnds(c) \/ Abandon(c)
BY DEF ClientNext, Server, IntervalTick, Arrive, clientVars
(* Poll: what the text is and what it yields, by the operation called. *)
LEMMA PolledText ==
  ASSUME ServerIInv, CallInv, RequestInv, ShapeInv, LibraryType,
         NEW c \in Client, Poll(c)
  PROVE  /\ called[c] \in Calls /\ finished[c] = FALSE
         /\ position[c] \in Nat /\ position[c] + 1 \in 1..Len(wire[c])
         /\ OwnRequests(c) \subseteq ReqId
         /\ \A r \in OwnRequests(c) : Own(c, r)
         /\ Fits(called[c].text, OwnRequests(c), wire[c], position[c] + 1)
         /\ position[c] > 0 => Fits(called[c].text, OwnRequests(c), wire[c], 1)
<1>1. ServerTypeOK /\ wire[c] \in Seq(Text) /\ session_mailbox[c] \in Seq(Text)
  BY ReceivedType DEF ServerIInv
<1>2. called[c] \in Calls /\ finished[c] = FALSE
  BY DEF Poll, CallInv, LibraryType
<1>3. /\ position[c] \in Nat /\ Len(wire[c]) \in Nat
      /\ position[c] + 1 \in 1..Len(wire[c]) /\ 1 \in 1..Len(wire[c])
  BY <1>1, LenProperties DEF Poll, LibraryType
<1>4. OwnRequests(c) \subseteq ReqId /\ \A r \in OwnRequests(c) : Own(c, r)
  BY <1>1, LenProperties, BoundsAssumption
  DEF OwnRequests, Own, RequestInv, ServerTypeOK
<1>5. Shaped(called[c].text, OwnRequests(c), wire[c])
  BY <1>1, ShapedPrefix DEF ShapeInv, Received
<1>. QED
  BY <1>2, <1>3, <1>4, <1>5 DEF Shaped

LEMMA PollEffect ==
  ASSUME NEW c \in Client, Poll(c),
         NEW yielded, Yields(c, wire[c][position[c] + 1]) = yielded
  PROVE  /\ items' = [items EXCEPT ![c] = items[c] \o yielded]
         /\ called[c].call = "get" /\ yielded # <<>> =>
              finished' = [finished EXCEPT ![c] = TRUE]
         /\ called[c].call # "get" => finished' = [finished EXCEPT ![c] = FALSE]
         /\ position' = [position EXCEPT ![c] = position[c] + 1]
         /\ called[c].call = "subscribe" =>
              subscription_id' = StoredId(c, wire[c][position[c] + 1])
         /\ called[c].call # "subscribe" => subscription_id' = subscription_id
<1>1. /\ items' = [items EXCEPT ![c] = items[c] \o yielded]
      /\ position' = [position EXCEPT ![c] = position[c] + 1]
      /\ called[c].call = "subscribe" =>
              subscription_id' = StoredId(c, wire[c][position[c] + 1])
      /\ called[c].call # "subscribe" => subscription_id' = subscription_id
  BY DEF Poll
<1>2. finished' = [finished EXCEPT ![c] = called[c].call = "get" /\ yielded # <<>>]
  BY DEF Poll
<1>3. ASSUME called[c].call = "get", yielded # <<>>
      PROVE  (called[c].call = "get" /\ yielded # <<>>) = TRUE
  BY <1>3
<1>4. ASSUME called[c].call # "get"
      PROVE  (called[c].call = "get" /\ yielded # <<>>) = FALSE
  BY <1>4
<1>. QED
  BY <1>1, <1>2, <1>3, <1>4

LEMMA OneMore ==
  ASSUME NEW its \in Seq(Item), NEW item \in Item
  PROVE  /\ its \o <<item>> = Append(its, item) /\ its \o <<item>> \in Seq(Item)
         /\ its \o <<>> = its /\ <<item>> # <<>> /\ <<item>> \in Seq(Item)
BY AppendIsConcat, ConcatEmptySeq

PolledWell(c) ==
  /\ items' \in [Client -> Seq(Item)]
  /\ subscription_id' \in [Client -> SubId \cup {None}]
  /\ \A d \in Client \ {c} :
       /\ items'[d] = items[d] /\ subscription_id'[d] = subscription_id[d]
       /\ finished'[d] = finished[d] /\ position'[d] = position[d]
  /\ position' = [position EXCEPT ![c] = position[c] + 1]
  /\ finished' \in [Client -> BOOLEAN]
  /\ ReadBy(called[c], OwnRequests(c), wire[c], position[c] + 1,
            subscription_id'[c], items'[c], finished'[c])

LEMMA PollGetWell ==
  ASSUME ServerIInv, CallInv, RequestInv, ShapeInv, LibraryType, ReadInv,
         NEW c \in Client, Poll(c), called[c].call = "get"
  PROVE  PolledWell(c)
<1>. DEFINE o == called[c]
            own == OwnRequests(c)
            w == wire[c]
            pos == position[c]
            its == items[c]
            text == w[pos + 1]
<1>1. /\ o \in Calls /\ finished[c] = FALSE /\ pos \in Nat /\ own \subseteq ReqId
      /\ o.text.action = "get" /\ Fits(o.text, own, w, pos + 1)
      /\ \A r \in own : Own(c, r)
  BY PolledText, CallKinds
<1>2. its \in Seq(Item) /\ ReadBy(o, own, w, pos, subscription_id[c], its, FALSE)
  BY <1>1 DEF LibraryType, ReadInv
<1>3. PICK item, r :
        /\ r \in own
        /\ \/ \E v \in Value :
                /\ text = GetSuccess(r, v)
                /\ item = IF v \in Readable THEN OkValue(v) ELSE SerdeError
           \/ text = GetError(r, NOT_FOUND_INVALID_PATH) /\ item = VisError(text)
        /\ Yields(c, text) = <<item>>
  <2>1. PICK r \in own : \/ text = GetError(r, NOT_FOUND_INVALID_PATH)
                         \/ \E v \in Value : text = GetSuccess(r, v)
    BY <1>1 DEF Fits
  <2>2. Yields(c, text) = GetItems(c, text)
    BY DEF Yields
  <2>3. r \in ReqId /\ Own(c, r)
    BY <1>1
  <2>4. CASE text = GetError(r, NOT_FOUND_INVALID_PATH)
    BY <2>2, <2>3, <2>4, GetYields
  <2>5. ASSUME NEW v \in Value, text = GetSuccess(r, v)
        PROVE  /\ text = GetSuccess(r, v)
               /\ Yields(c, text)
                    = <<IF v \in Readable THEN OkValue(v) ELSE SerdeError>>
    BY <2>2, <2>3, <2>5, GetYields
  <2>. QED
    BY <2>1, <2>4, <2>5
<1>. HIDE DEF text
<1>4. item \in Item /\ ReadBy(o, own, w, pos + 1, subscription_id[c], Append(its, item), TRUE)
  BY <1>1, <1>2, <1>3, GetPolled DEF text
<1>5. <<item>> # <<>> /\ <<item>> \in Seq(Item) /\ its \o <<item>> = Append(its, item)
      /\ its \o <<item>> \in Seq(Item)
  BY <1>2, <1>4, OneMore
<1>6. /\ items' = [items EXCEPT ![c] = its \o <<item>>]
      /\ finished' = [finished EXCEPT ![c] = TRUE]
      /\ position' = [position EXCEPT ![c] = pos + 1]
      /\ subscription_id' = subscription_id
  BY <1>1, <1>3, <1>5, PollEffect DEF text
<1>. QED
  BY <1>4, <1>5, <1>6 DEF PolledWell, LibraryType

LEMMA PollRawWell ==
  ASSUME ServerIInv, CallInv, RequestInv, ShapeInv, LibraryType, ReadInv,
         NEW c \in Client, Poll(c), called[c].call = "subscribe_raw"
  PROVE  PolledWell(c)
<1>. DEFINE o == called[c]
            own == OwnRequests(c)
            w == wire[c]
            pos == position[c]
            its == items[c]
            text == w[pos + 1]
            item == OkResponse(text)
<1>1. /\ o \in Calls /\ finished[c] = FALSE /\ pos \in Nat /\ own \subseteq ReqId
      /\ o.text.action = "subscribe" /\ Fits(o.text, own, w, pos + 1)
      /\ pos > 0 => Fits(o.text, own, w, 1)
  BY PolledText, CallKinds
<1>2. its \in Seq(Item) /\ ReadBy(o, own, w, pos, subscription_id[c], its, FALSE)
  BY <1>1 DEF LibraryType, ReadInv
<1>3. text \in ActionSuccessResponse /\ SubscribeRawItems(text) = <<item>>
  <2>1. CASE pos = 0
    <3>1. PICK r \in own, id \in SubId : text = SubscribeSuccess(r, id)
      BY <1>1, <2>1 DEF Fits
    <3>. QED
      BY <1>1, <3>1, RawYields DEF ActionSuccessResponse
  <2>2. CASE pos > 0
    <3>1. pos + 1 # 1
      BY <1>1, <2>2
    <3>2. PICK r \in own, id \in SubId : w[1] = SubscribeSuccess(r, id)
      BY <1>1, <2>2 DEF Fits
    <3>3. PICK v \in Value : text = Subscription(w[1].subscription_id, v)
      BY <1>1, <3>1 DEF Fits
    <3>4. text = Subscription(id, v)
      BY <3>2, <3>3 DEF SubscribeSuccess
    <3>. QED
      BY <1>1, <3>4, RawYields DEF ActionSuccessResponse
  <2>. QED
    BY <1>1, <2>1, <2>2
<1>4. Yields(c, text) = <<item>>
  BY <1>3 DEF Yields
<1>5. item \in Item /\ ReadBy(o, own, w, pos + 1, subscription_id[c], Append(its, item), FALSE)
  BY <1>1, <1>2, <1>3, RawPolled
<1>. HIDE DEF item, text
<1>6. <<item>> \in Seq(Item) /\ its \o <<item>> = Append(its, item)
      /\ its \o <<item>> \in Seq(Item)
  BY <1>2, <1>5, OneMore
<1>7. /\ items' = [items EXCEPT ![c] = its \o <<item>>]
      /\ finished' = [finished EXCEPT ![c] = FALSE]
      /\ position' = [position EXCEPT ![c] = pos + 1]
      /\ subscription_id' = subscription_id
  BY <1>1, <1>4, <1>6, PollEffect DEF text
<1>. QED
  BY <1>5, <1>6, <1>7 DEF PolledWell, LibraryType

LEMMA PollSubscribeWell ==
  ASSUME ServerIInv, CallInv, RequestInv, ShapeInv, LibraryType, ReadInv,
         NEW c \in Client, Poll(c), called[c].call = "subscribe"
  PROVE  PolledWell(c)
<1>. DEFINE o == called[c]
            own == OwnRequests(c)
            w == wire[c]
            pos == position[c]
            its == items[c]
            text == w[pos + 1]
<1>1. /\ o \in Calls /\ finished[c] = FALSE /\ pos \in Nat /\ own \subseteq ReqId
      /\ o.text.action = "subscribe" /\ Fits(o.text, own, w, pos + 1)
      /\ pos > 0 => Fits(o.text, own, w, 1)
      /\ \A r \in own : Own(c, r)
  BY PolledText, CallKinds
<1>2. its \in Seq(Item) /\ ReadBy(o, own, w, pos, subscription_id[c], its, FALSE)
  BY <1>1 DEF LibraryType, ReadInv
<1>3. subscription_id \in [Client -> SubId \cup {None}]
  BY DEF LibraryType
<1>4. Yields(c, text) = SubscribeItems(c, text)
  BY DEF Yields
<1>5. CASE pos = 0
  <2>1. PICK r \in own, id \in SubId : text = SubscribeSuccess(r, id)
    BY <1>1, <1>5 DEF Fits
  <2>2. /\ Yields(c, text) = <<>>
        /\ StoredId(c, text) = [subscription_id EXCEPT ![c] = id]
    BY <1>1, <1>3, <1>4, <2>1, SubscribeYields
  <2>3. w[1].subscription_id = id
    BY <1>5, <2>1 DEF SubscribeSuccess
  <2>4. ReadBy(o, own, w, 1, id, its, FALSE)
    BY <1>2, <1>5, <2>3, AckPolled
  <2>5. <<>> \in Seq(Item) /\ its \o <<>> = its
    BY <1>2, ConcatEmptySeq
  <2>. HIDE DEF text
  <2>6. /\ items' = [items EXCEPT ![c] = its \o <<>>]
        /\ finished' = [finished EXCEPT ![c] = FALSE]
        /\ position' = [position EXCEPT ![c] = pos + 1]
        /\ subscription_id' = [subscription_id EXCEPT ![c] = id]
    BY <1>1, <2>2, <2>5, PollEffect DEF text
  <2>7. ReadBy(o, own, w, pos + 1, id, its, FALSE)
    <3>1. pos + 1 = 1
      BY <1>5
    <3>. QED
      BY <2>4, <3>1
  <2>. QED
    BY <1>2, <2>5, <2>6, <2>7 DEF PolledWell, LibraryType
<1>6. CASE pos > 0
  <2>1. pos + 1 # 1 /\ pos \in Nat \ {0} /\ pos >= 1
    BY <1>1, <1>6
  <2>2. PICK r \in own, id \in SubId : w[1] = SubscribeSuccess(r, id)
    BY <1>1, <1>6 DEF Fits
  <2>3. PICK v \in Value : text = Subscription(w[1].subscription_id, v)
    BY <1>1, <2>1 DEF Fits
  <2>4. w[1].subscription_id = id
    BY <2>2 DEF SubscribeSuccess
  <2>5. text = Subscription(id, v)
    BY <2>3, <2>4
  <2>6. subscription_id[c] = id
    BY <1>2, <2>1, <2>4 DEF ReadBy, SubscriptionRead
  <2>. DEFINE item == IF v \in Readable THEN OkSubscribed(id, v) ELSE SerdeError
  <2>7. /\ Yields(c, text) = <<item>>
        /\ StoredId(c, text) = subscription_id
    BY <1>1, <1>3, <1>4, <2>5, <2>6, SubscribeYields
  <2>8. item \in Item
        /\ ReadBy(o, own, w, pos + 1, subscription_id[c], Append(its, item), FALSE)
    BY <1>2, <2>1, <2>5, NotePolled
  <2>. HIDE DEF item, text
  <2>9. <<item>> \in Seq(Item) /\ its \o <<item>> = Append(its, item)
        /\ its \o <<item>> \in Seq(Item)
    BY <1>2, <2>8, OneMore
  <2>10. /\ items' = [items EXCEPT ![c] = its \o <<item>>]
         /\ finished' = [finished EXCEPT ![c] = FALSE]
         /\ position' = [position EXCEPT ![c] = pos + 1]
         /\ subscription_id' = subscription_id
    BY <1>1, <2>7, <2>9, PollEffect DEF text
  <2>. QED
    BY <2>8, <2>9, <2>10 DEF PolledWell, LibraryType
<1>. QED
  BY <1>1, <1>5, <1>6

LEMMA PollUnitWell ==
  ASSUME ServerIInv, CallInv, RequestInv, ShapeInv, LibraryType, ReadInv,
         NEW c \in Client, Poll(c), called[c].call = "unsubscribe_all"
  PROVE  PolledWell(c)
<1>. DEFINE o == called[c]
            own == OwnRequests(c)
            w == wire[c]
            pos == position[c]
            its == items[c]
            text == w[pos + 1]
<1>1. /\ o \in Calls /\ finished[c] = FALSE /\ pos \in Nat /\ own \subseteq ReqId
      /\ o.text.action = "unsubscribeAll" /\ Fits(o.text, own, w, pos + 1)
      /\ \A r \in own : Own(c, r)
  BY PolledText, CallKinds
<1>2. its \in Seq(Item) /\ ReadBy(o, own, w, pos, subscription_id[c], its, FALSE)
  BY <1>1 DEF LibraryType, ReadInv
<1>3. Yields(c, text) = <<OkUnit>>
  <2>1. PICK r \in own : text = UnsubscribeAllSuccess(r)
    BY <1>1 DEF Fits
  <2>2. Yields(c, text) = UnsubscribeAllItems(c, text)
    BY DEF Yields
  <2>. QED
    BY <1>1, <2>1, <2>2, UnsubscribeAllYields
<1>4. OkUnit \in Item
      /\ ReadBy(o, own, w, pos + 1, subscription_id[c], Append(its, OkUnit), FALSE)
  BY <1>1, <1>2, UnitPolled
<1>. HIDE DEF text
<1>5. <<OkUnit>> \in Seq(Item) /\ its \o <<OkUnit>> = Append(its, OkUnit)
      /\ its \o <<OkUnit>> \in Seq(Item)
  BY <1>2, <1>4, OneMore
<1>6. /\ items' = [items EXCEPT ![c] = its \o <<OkUnit>>]
      /\ finished' = [finished EXCEPT ![c] = FALSE]
      /\ position' = [position EXCEPT ![c] = pos + 1]
      /\ subscription_id' = subscription_id
  BY <1>1, <1>3, <1>5, PollEffect DEF text
<1>. QED
  BY <1>4, <1>5, <1>6 DEF PolledWell, LibraryType
LEMMA PollWell ==
  ASSUME ServerIInv, CallInv, RequestInv, ShapeInv, LibraryType, ReadInv,
         NEW c \in Client, Poll(c)
  PROVE  PolledWell(c)
<1>1. called[c].call \in {"get", "subscribe", "subscribe_raw", "unsubscribe_all"}
  BY PolledText, CallKinds
<1>. QED
  BY <1>1, PollGetWell, PollRawWell, PollSubscribeWell, PollUnitWell

(* The library's own steps; with what the server does meanwhile. *)
LEMMA LibraryGrows ==
  ASSUME ServerIInv, CallInv, Onward, [ClientNext]_clientVars,
         LibraryType, IdleInv, ReadInv, UNCHANGED library
  PROVE  LibraryType' /\ IdleInv' /\ ReadInv'
<1>1. LibraryType'
  <2>1. ASSUME NEW c \in Client PROVE position[c] <= Len(wire'[c])
    <3>1. position[c] \in Nat /\ position[c] <= Len(wire[c])
      BY DEF LibraryType
    <3>. QED
      BY <3>1, NextWire
  <2>. QED
    BY <2>1 DEF LibraryType, library
<1>2. IdleInv'
  BY DEF IdleInv, library
<1>3. ASSUME NEW c \in Client
      PROVE  ReadBy(called'[c], OwnRequests(c)', wire'[c], position'[c],
                    subscription_id'[c], items'[c], finished'[c])
  <2>1. /\ position[c] \in Nat /\ position[c] <= Len(wire[c])
        /\ items[c] \in Seq(Item)
    BY DEF LibraryType
  <2>2. \A i \in 1..position[c] : wire'[c][i] = wire[c][i]
    BY <2>1, NextWire
  <2>3. OwnRequests(c) \subseteq OwnRequests(c)'
    BY DEF Onward
  <2>4. ReadBy(called[c], OwnRequests(c), wire[c], position[c], subscription_id[c],
               items[c], finished[c])
    BY DEF ReadInv
  <2>5. ReadBy(called[c], OwnRequests(c)', wire'[c], position[c], subscription_id[c],
               items[c], finished[c])
    BY <2>1, <2>2, <2>3, <2>4, ReadGrows
  <2>. QED
    BY <2>5 DEF library
<1>4. ReadInv'
  BY <1>3 DEF ReadInv, OwnRequests
<1>. QED
  BY <1>1, <1>2, <1>4

LEMMA CallWell ==
  ASSUME CallInv, LibraryType, IdleInv, ReadInv, NEW c \in Client, NEW o \in Calls,
         Call(c, o)
  PROVE  LibraryType' /\ IdleInv' /\ ReadInv'
<1>1. /\ called[c] = None /\ called' = [called EXCEPT ![c] = o]
      /\ observed_before' = [observed_before EXCEPT ![c] = NewestSeen]
      /\ UNCHANGED <<position, subscription_id, items, finished, wire, requests>>
  BY DEF Call, serverVars, actors
<1>2. LibraryType'
  <2>1. NewestSeen \in Value \cup {None}
    BY NewestIsSeen
  <2>. QED
    BY <1>1, <2>1 DEF LibraryType
<1>3. o # None
  BY CallsAssumption
<1>4. IdleInv'
  BY <1>1, <1>3 DEF IdleInv, LibraryType, CallInv
<1>5. ASSUME NEW d \in Client
      PROVE  ReadBy(called'[d], OwnRequests(d), wire[d], position[d],
                    subscription_id[d], items[d], finished[d])
  <2>1. CASE d = c
    BY <1>1, <2>1, NothingRead DEF IdleInv
  <2>2. CASE d # c
    BY <1>1, <2>2 DEF CallInv, ReadInv
  <2>. QED
    BY <2>1, <2>2
<1>6. ReadInv'
  BY <1>1, <1>5 DEF ReadInv, OwnRequests
<1>. QED
  BY <1>2, <1>4, <1>6

LEMMA StreamStepsWell ==
  ASSUME ServerIInv, CallInv, RequestInv, ShapeInv, LibraryType, IdleInv, ReadInv,
         NEW c \in Client, Poll(c) \/ StreamEnds(c) \/ Abandon(c)
  PROVE  LibraryType' /\ IdleInv' /\ ReadInv'
<1>1. /\ UNCHANGED <<called, observed_before, wire, requests>>
      /\ called[c] # None /\ finished[c] = FALSE
  BY DEF Poll, StreamEnds, Abandon, serverVars, actors, LibraryType
<1>2. ASSUME position' \in [Client -> Nat], position'[c] <= Len(wire[c]),
             subscription_id' \in [Client -> SubId \cup {None}],
             items' \in [Client -> Seq(Item)], finished' \in [Client -> BOOLEAN],
             \A d \in Client \ {c} :
               /\ items'[d] = items[d] /\ subscription_id'[d] = subscription_id[d]
               /\ finished'[d] = finished[d] /\ position'[d] = position[d],
             ReadBy(called[c], OwnRequests(c), wire[c], position'[c],
                    subscription_id'[c], items'[c], finished'[c])
      PROVE  LibraryType' /\ IdleInv' /\ ReadInv'
  <2>1. LibraryType'
    BY <1>1, <1>2 DEF LibraryType
  <2>2. IdleInv'
    BY <1>1, <1>2 DEF IdleInv
  <2>3. ASSUME NEW d \in Client
        PROVE  ReadBy(called[d], OwnRequests(d), wire[d], position'[d],
                      subscription_id'[d], items'[d], finished'[d])
    BY <1>2 DEF ReadInv
  <2>4. ReadInv'
    BY <1>1, <2>3 DEF ReadInv, OwnRequests
  <2>. QED
    BY <2>1, <2>2, <2>4
<1>3. CASE Poll(c)
  <2>1. PolledWell(c) /\ position[c] + 1 <= Len(wire[c])
    <3>1. Len(wire[c]) \in Nat
      BY ReceivedType, LenProperties DEF ServerIInv
    <3>2. position[c] \in Nat /\ position[c] + 1 \in 1..Len(wire[c])
      BY <1>3, PolledText
    <3>3. PolledWell(c)
      BY <1>3, PollWell
    <3>. QED
      BY <3>1, <3>2, <3>3
  <2>2. position' \in [Client -> Nat] /\ position'[c] = position[c] + 1
    BY <2>1 DEF PolledWell, LibraryType
  <2>. QED
    BY <1>2, <2>1, <2>2 DEF PolledWell
<1>4. ReadBy(called[c], OwnRequests(c), wire[c], position[c], subscription_id[c],
             items[c], FALSE)
  BY <1>1 DEF ReadInv
<1>5. /\ position[c] \in Nat /\ position[c] <= Len(wire[c]) /\ items[c] \in Seq(Item)
  BY DEF LibraryType
<1>6. CASE StreamEnds(c) \/ Abandon(c)
  <2>1. /\ finished' = [finished EXCEPT ![c] = TRUE]
        /\ UNCHANGED <<position, subscription_id>>
        /\ UNCHANGED items
             \/ \E item \in {WebSocketError, Panic} :
                  items' = [items EXCEPT ![c] = Append(items[c], item)]
    BY <1>6 DEF StreamEnds, Abandon
  <2>2. CASE UNCHANGED items
    <3>1. ReadBy(called[c], OwnRequests(c), wire[c], position[c], subscription_id[c],
                 items[c], TRUE)
      BY <1>4, ReadStops
    <3>. QED
      BY <1>2, <1>5, <2>1, <2>2, <3>1 DEF LibraryType
  <2>3. ASSUME NEW item \in {WebSocketError, Panic},
               items' = [items EXCEPT ![c] = Append(items[c], item)]
        PROVE  LibraryType' /\ IdleInv' /\ ReadInv'
    <3>1. ReadBy(called[c], OwnRequests(c), wire[c], position[c], subscription_id[c],
                 Append(items[c], item), TRUE)
      BY <1>4, <1>5, ReadEnds
    <3>2. Append(items[c], item) \in Seq(Item)
      BY <1>5, AppendElements DEF Item
    <3>. QED
      BY <1>2, <1>5, <2>1, <2>3, <3>1, <3>2 DEF LibraryType
  <2>. QED
    BY <2>1, <2>2, <2>3
<1>. QED
  BY <1>3, <1>6

LEMMA NextRead ==
  ASSUME ServerIInv, CallInv, RequestInv, ShapeInv, LibraryType, IdleInv, ReadInv,
         [ClientNext]_clientVars, Onward
  PROVE  LibraryType' /\ IdleInv' /\ ReadInv'
BY LibrarySteps, LibraryGrows, CallWell, StreamStepsWell

-------------------------------------------------------------------------------
(***************************************************************************)
(* Time: what a client is sent, or is about to be, is no newer than the    *)
(* cached count; and newer than what anybody had when it called, unless it *)
(* is the answer to a get, which may be as old.                            *)
(***************************************************************************)
Aged(o, seen, cached, v) ==
  /\ v \in Value /\ cached # None /\ v.n <= cached.n
  /\ seen # None => IF o.call = "get" THEN v.n >= seen.n ELSE v.n > seen.n

Timely(c, v) == Aged(called[c], observed_before[c], Cached, v)

SeenInv ==
  \A c \in Client :
    observed_before[c] # None => Cached # None /\ observed_before[c].n <= Cached.n

ReceivedInTime ==
  \A c \in Client : \A i \in 1..Len(Received(c)) :
    Has(Received(c)[i], "value") => Timely(c, Received(c)[i].value)

QueuedInTime(id) ==
  LET s == subscription[id]
      q == subscription_mailbox[id] IN
  /\ s.latest_signal_value # None => Timely(s.client_addr, s.latest_signal_value)
  /\ \A i \in 1..Len(q) :
       IsNotify(q[i]) => Timely(s.client_addr, q[i].signal_value)

TimeInv ==
  /\ SeenInv
  /\ ReceivedInTime
  /\ \A id \in SubId : Running(id) => QueuedInTime(id)

LEMMA CachedGrows ==
  ASSUME ServerIInv, CallInv, CountInv, [ClientNext]_clientVars
  PROVE  /\ Cached \in Value \cup {None} /\ Cached' \in Value \cup {None}
         /\ Cached # None => Cached' # None /\ Cached.n <= Cached'.n
<1>1. Cached \in Value \cup {None}
  BY CachedType DEF ServerIInv
<1>2. CASE UNCHANGED signal_cache
  <2>1. Cached' = Cached
    BY <1>2 DEF Cached
  <2>. QED
    BY <1>1, <2>1, ValueShape
<1>3. CASE ManagerHandle
  <2>1. ASSUME IsUpdate(Head(manager_mailbox))
        PROVE  Cached' \in Value /\ Cached'.n = NextCount
    BY <1>3, <2>1, ManagerCaches
  <2>2. CASE IsUpdate(Head(manager_mailbox))
    <3>1. Cached # None => Cached.n \in Nat /\ Cached'.n = Cached.n + 1
      BY <1>1, <2>1, <2>2, ValueShape DEF NextCount
    <3>. QED
      BY <1>1, <2>1, <2>2, <3>1, NoneAssumption
  <2>3. CASE ~IsUpdate(Head(manager_mailbox))
    BY <1>2, <1>3, <2>3, ManagerCaches
  <2>. QED
    BY <2>2, <2>3
<1>4. ASSUME NEW c \in Client, Disconnect(c) PROVE UNCHANGED signal_cache
  BY <1>4 DEF Disconnect, vars, maps
<1>5. ASSUME NEW id \in SubId, SubscriptionHandle(id) \/ Tick(id)
      PROVE  UNCHANGED signal_cache
  BY <1>5 DEF SubscriptionHandle, Tick, vars, maps
<1>6. Still => UNCHANGED signal_cache
  BY DEF Still
<1>. QED
  BY <1>2, <1>3, <1>4, <1>5, <1>6, ClientSteps

LEMMA AgedGrows ==
  ASSUME NEW o, NEW seen, NEW cached \in Value \cup {None},
         NEW later \in Value \cup {None}, NEW v, Aged(o, seen, cached, v),
         cached # None => later # None /\ cached.n <= later.n
  PROVE  Aged(o, seen, later, v)
<1>1. v \in Value /\ cached \in Value /\ later \in Value
  BY DEF Aged
<1>2. v.n \in Nat /\ cached.n \in Nat /\ later.n \in Nat
  BY <1>1, ValueShape
<1>. QED
  BY <1>1, <1>2 DEF Aged

(* What is timely for a client that has called stays so. *)
LEMMA StaysTimely ==
  ASSUME ServerIInv, CallInv, CountInv, Onward, [ClientNext]_clientVars,
         NEW c \in Client, called[c] \in Calls, NEW v, Timely(c, v)
  PROVE  Aged(called'[c], observed_before'[c], Cached', v)
<1>1. called'[c] = called[c] /\ observed_before'[c] = observed_before[c]
  BY DEF Onward, GoesOn
<1>2. Aged(called[c], observed_before[c], Cached', v)
  BY CachedGrows, AgedGrows DEF Timely
<1>. QED
  BY <1>1, <1>2

LEMMA SeenIsTimely ==
  ASSUME ServerTypeOK, LibraryType, ReadInv, ReceivedInTime, NEW c \in Client,
         NEW v \in ValuesSeen(c)
  PROVE  Timely(c, v)
<1>1. wire[c] \in Seq(Text) /\ session_mailbox[c] \in Seq(Text)
  BY ReceivedType
<1>2. v \in Value /\ \E i \in 1..Len(items[c]) : Gives(items[c][i], v)
  BY SeenIsGiven
<1>3. ReadValues(wire[c], position[c], items[c])
  BY DEF ReadInv, ReadBy
<1>4. PICK j \in 1..position[c] : Has(wire[c][j], "value") /\ wire[c][j].value = v
  BY <1>2, <1>3 DEF ReadValues
<1>5. position[c] \in Nat /\ position[c] <= Len(wire[c])
  BY DEF LibraryType
<1>6. j \in 1..Len(Received(c)) /\ Received(c)[j] = wire[c][j]
  <2>. DEFINE u == wire[c]
              q == session_mailbox[c]
  <2>1. u \in Seq(Text) /\ q \in Seq(Text) /\ j \in 1..Len(u)
    BY <1>1, <1>5, LenProperties
  <2>. HIDE DEF u, q
  <2>2. /\ Len(u) \in Nat /\ Len(u) <= Len(u \o q) /\ Len(u \o q) \in Nat
        /\ \A i \in 1..Len(u) : (u \o q)[i] = u[i]
    BY <2>1
  <2>3. j \in 1..Len(u \o q) /\ (u \o q)[j] = u[j]
    BY <2>1, <2>2
  <2>. QED
    BY <2>3 DEF Received, u, q
<1>. QED
  BY <1>4, <1>6 DEF ReceivedInTime

LEMMA NextSeen ==
  ASSUME ServerIInv, CallInv, CountInv, LibraryType, ReadInv, SeenInv,
         ReceivedInTime, [ClientNext]_clientVars
  PROVE  SeenInv'
<1>1. ServerTypeOK
  BY DEF ServerIInv
<1>2. /\ Cached \in Value \cup {None} /\ Cached' \in Value \cup {None}
      /\ Cached # None => Cached' # None /\ Cached.n <= Cached'.n
  BY CachedGrows
<1>3. ASSUME NEW v \in Value, Cached # None, v.n <= Cached.n
      PROVE  Cached' # None /\ v.n <= Cached'.n
  <2>1. v.n \in Nat /\ Cached.n \in Nat /\ Cached'.n \in Nat
    BY <1>2, <1>3, ValueShape
  <2>. QED
    BY <1>2, <1>3, <2>1
<1>. SUFFICES ASSUME NEW c \in Client, observed_before'[c] # None
              PROVE  Cached' # None /\ observed_before'[c].n <= Cached'.n
  BY DEF SeenInv
<1>4. CASE observed_before'[c] = observed_before[c]
  <2>1. /\ observed_before[c] \in Value
        /\ Cached # None /\ observed_before[c].n <= Cached.n
    BY <1>4 DEF SeenInv, LibraryType
  <2>. QED
    BY <1>3, <1>4, <2>1
<1>5. CASE observed_before'[c] = NewestSeen
  <2>1. PICK d \in Client : NewestSeen \in Value /\ NewestSeen \in ValuesSeen(d)
    BY <1>5, NewestIsSeen
  <2>2. Timely(d, NewestSeen)
    BY <1>1, <2>1, SeenIsTimely
  <2>3. Cached # None /\ NewestSeen.n <= Cached.n
    BY <2>2 DEF Timely, Aged
  <2>. QED
    BY <1>3, <1>5, <2>1, <2>3
<1>6. ASSUME NEW d \in Client, NEW o \in Calls, Call(d, o)
      PROVE  observed_before'[c] \in {observed_before[c], NewestSeen}
  BY <1>6 DEF Call, LibraryType
<1>7. ASSUME NEW d \in Client, Poll(d) \/ StreamEnds(d) \/ Abandon(d)
      PROVE  observed_before'[c] = observed_before[c]
  BY <1>7 DEF Poll, StreamEnds, Abandon
<1>8. UNCHANGED library => observed_before'[c] = observed_before[c]
  BY DEF library
<1>. QED
  BY <1>4, <1>5, <1>6, <1>7, <1>8, LibrarySteps
(* What the manager answers a get with is the cached count. *)
LEMMA AnswerInTime ==
  ASSUME ServerIInv, CountInv, LibraryType, SeenInv, ManagerHandle, Onward,
         NEW c \in Client, IsAnswered(c),
         NEW x \in Response, Answers(x, Head(manager_mailbox)), Has(x, "value")
  PROVE  Aged(called'[c], observed_before'[c], Cached', x.value)
<1>. DEFINE m == Head(manager_mailbox)
            a == m.message
<1>1. /\ Numbered(m) /\ called[c] \in Calls /\ called[c].text = a
      /\ called'[c] = called[c] /\ observed_before'[c] = observed_before[c]
  BY DEF IsAnswered, Onward, GoesOn
<1>2. ServerTypeOK /\ m \in ManagerMessage
  BY TailElements DEF ServerIInv, ServerTypeOK, ManagerHandle
<1>3. Cached' = Cached
  <2>1. ~IsUpdate(m)
    BY <1>1 DEF Numbered, IsUpdate
  <2>. QED
    BY <2>1, ManagerCaches DEF Cached
<1>4. /\ a.action = "get"
      /\ signal_cache[Lower[a.path]] # None
      /\ x.value = signal_cache[Lower[a.path]]
  <2>1. \A r, e : ~Has(GetError(r, e), "value")
    BY DEF Has, GetError, RequestError
  <2>2. \A r, v : GetSuccess(r, v).value = v
    BY DEF GetSuccess
  <2>3. /\ \A r : ~Has(UnsubscribeAllSuccess(r), "value")
        /\ \A r, id : ~Has(SubscribeSuccess(r, id), "value")
    BY DEF Has, UnsubscribeAllSuccess, SubscribeSuccess
  <2>. QED
    BY <2>1, <2>2, <2>3 DEF Answers
<1>5. Lower[a.path] \in Key
  BY <1>1, <1>2, <1>4, MessageShape, ForwardedShape, LowerKey DEF Numbered
<1>6. Cached # None /\ x.value = Cached
  BY <1>4, <1>5 DEF CountInv, Cached
<1>7. Cached \in Value /\ Cached.n \in Nat
  BY <1>2, <1>6, CachedType, ValueShape
<1>8. called[c].call = "get"
  BY <1>1, <1>4, CallKinds
<1>9. observed_before[c] # None =>
        observed_before[c].n \in Nat /\ observed_before[c].n <= Cached.n
  BY ValueShape DEF LibraryType, SeenInv
<1>. QED
  BY <1>1, <1>3, <1>6, <1>7, <1>8, <1>9 DEF Aged

LEMMA NextReceivedInTime ==
  ASSUME ServerIInv, CallInv, OneRequest, CountInv, LibraryType, TimeInv,
         [ClientNext]_clientVars, Onward
  PROVE  ReceivedInTime'
<1>1. ServerTypeOK
  BY DEF ServerIInv
<1>. SUFFICES ASSUME NEW c \in Client, NEW i \in 1..Len(Received(c)'),
                     Has(Received(c)'[i], "value")
              PROVE  Aged(called'[c], observed_before'[c], Cached',
                          Received(c)'[i].value)
  BY DEF ReceivedInTime, Timely
<1>. DEFINE R == Received(c)
            Goal == Aged(called'[c], observed_before'[c], Cached', R'[i].value)
<1>2. R \in Seq(Text) /\ Len(R) \in Nat
  BY <1>1, ReceivedType, LenProperties
<1>3. ASSUME i \in 1..Len(R), R'[i] = R[i] PROVE Goal
  <2>1. Timely(c, R[i].value)
    BY <1>3 DEF TimeInv, ReceivedInTime
  <2>2. R # <<>>
    <3>1. Len(<<>>) = 0
      OBVIOUS
    <3>. QED
      BY <1>2, <1>3, <3>1
  <2>3. called[c] \in Calls
    BY <2>2, CallStays DEF Blank
  <2>. QED
    BY <1>3, <2>1, <2>3, StaysTimely
<1>4. UNCHANGED R => Goal
  BY <1>3
<1>5. ASSUME NEW d \in Client, Disconnect(d) PROVE Goal
  <2>1. CASE d = c
    <3>. DEFINE u == wire[c]
                q == session_mailbox[c]
    <3>1. R' = u /\ u \in Seq(Text) /\ q \in Seq(Text) /\ R = u \o q
      BY <1>1, <1>5, <2>1, DisconnectReceives, ReceivedType DEF Received
    <3>. HIDE DEF u, q
    <3>2. /\ Len(u) \in Nat /\ Len(u) <= Len(u \o q) /\ Len(u \o q) \in Nat
          /\ \A j \in 1..Len(u) : (u \o q)[j] = u[j]
      BY <3>1
    <3>3. i \in 1..Len(R) /\ R'[i] = R[i]
      BY <3>1, <3>2
    <3>. QED
      BY <1>3, <3>3
  <2>2. CASE d # c
    BY <1>1, <1>4, <1>5, <2>2, DisconnectReceives
  <2>. QED
    BY <2>1, <2>2
<1>6. ASSUME NEW x \in Text, Receives(c, x),
             Has(x, "value") =>
               Aged(called'[c], observed_before'[c], Cached', x.value)
      PROVE  Goal
  <2>1. R' = Append(R, x)
    BY <1>6 DEF Receives
  <2>2. /\ Len(R') = Len(R) + 1 /\ R'[Len(R) + 1] = x
        /\ \A j \in 1..Len(R) : R'[j] = R[j]
    BY <1>2, <2>1, AppendElements
  <2>3. i \in 1..Len(R) \/ i = Len(R) + 1
    BY <1>2, <2>2
  <2>. QED
    BY <1>3, <1>6, <2>2, <2>3
<1>7. ManagerHandle => Goal
  <2>1. ASSUME ManagerHandle, IsAnswered(c) PROVE Goal
    <3>1. PICK x \in Response : Receives(c, x) /\ Answers(x, Head(manager_mailbox))
      BY <2>1 DEF IsAnswered
    <3>. QED
      BY <1>6, <2>1, <3>1, AnswerInTime DEF Text, TimeInv
  <2>. QED
    BY <1>4, <2>1, ManagerIsRead
<1>8. ASSUME NEW id \in SubId, SubscriptionHandle(id) \/ Tick(id) PROVE Goal
  <2>1. CASE UNCHANGED R
    BY <1>4, <2>1
  <2>2. CASE ~UNCHANGED R
    <3>1. /\ Running(id) /\ subscription[id].client_addr = c
          /\ \E v \in Value : /\ Receives(c, Subscription(id, v))
                              /\ TakesUpdate(id, v) \/ KeepsValue(id, v)
      BY <1>8, <2>2, SubscriptionSteps
      DEF Stopped, NothingSent, TakesUpdate, KeepsValue, SentBy
    <3>2. PICK v \in Value : /\ Receives(c, Subscription(id, v))
                             /\ TakesUpdate(id, v) \/ KeepsValue(id, v)
      BY <3>1
    <3>3. Timely(c, v)
      <4>1. QueuedInTime(id)
        BY <3>1 DEF TimeInv
      <4>2. CASE TakesUpdate(id, v)
        <5>1. subscription_mailbox[id] \in Seq(SubscriptionMessage)
          BY <1>1, ActorShape
        <5>2. /\ 1 \in 1..Len(subscription_mailbox[id])
              /\ Head(subscription_mailbox[id]) = subscription_mailbox[id][1]
          BY <4>2, <5>1, TailElements DEF TakesUpdate
        <5>. QED
          BY <3>1, <4>1, <4>2, <5>2 DEF QueuedInTime, TakesUpdate
      <4>3. CASE KeepsValue(id, v)
        BY <3>1, <4>1, <4>3, NoneAssumption DEF QueuedInTime, KeepsValue
      <4>. QED
        BY <3>2, <4>2, <4>3
    <3>4. called[c] \in Calls
      BY <3>1, CallStays DEF Blank
    <3>5. Aged(called'[c], observed_before'[c], Cached', v)
      BY <3>3, <3>4, StaysTimely
    <3>6. Subscription(id, v) \in Text /\ Subscription(id, v).value = v
      BY NotificationTexts DEF Text, Subscription
    <3>. QED
      BY <1>6, <3>2, <3>5, <3>6
  <2>. QED
    BY <2>1, <2>2
<1>9. Still => UNCHANGED R
  BY DEF Still, NothingSent
<1>. QED
  BY <1>4, <1>5, <1>7, <1>8, <1>9, ClientSteps
(* What the manager hands to a subscription is newer than anything seen. *)
LEMMA UpdateInTime ==
  ASSUME ServerIInv, CountInv, LibraryType, SeenInv, ManagerHandle,
         IsUpdate(Head(manager_mailbox)), NEW c \in Client
  PROVE  Aged(called[c], observed_before[c], Cached', Head(manager_mailbox).value)
<1>. DEFINE v == Head(manager_mailbox).value
<1>1. v \in Value /\ v.n = NextCount /\ Cached' = v
  BY ManagerCaches
<1>2. v.n \in Nat /\ v # None
  BY <1>1, ValueShape
<1>3. ASSUME observed_before[c] # None PROVE v.n > observed_before[c].n
  <2>1. Cached # None /\ observed_before[c].n <= Cached.n
    BY <1>3 DEF SeenInv
  <2>2. Cached.n \in Nat /\ observed_before[c].n \in Nat
    BY <1>3, <2>1, CachedType, ValueShape DEF ServerIInv, LibraryType
  <2>3. v.n = Cached.n + 1
    BY <1>1, <2>1 DEF NextCount
  <2>. QED
    BY <2>1, <2>2, <2>3
<1>4. observed_before[c] # None => observed_before[c].n \in Nat
  BY ValueShape DEF LibraryType
<1>. QED
  BY <1>1, <1>2, <1>3, <1>4 DEF Aged

LEMMA NextQueuedInTime ==
  ASSUME ServerIInv, CallInv, OneRequest, CountInv, LibraryType, TimeInv,
         [ClientNext]_clientVars, Onward, NEW id \in SubId, Running(id)'
  PROVE  QueuedInTime(id)'
<1>1. ServerTypeOK
  BY DEF ServerIInv
<1>. DEFINE Later(c, v) == Aged(called'[c], observed_before'[c], Cached', v)
            s == subscription[id]
            q == subscription_mailbox[id]
<1>2. ASSUME Running(id)
      PROVE  \E c \in Client :
               /\ s.client_addr = c /\ called[c] \in Calls
               /\ called'[c] = called[c] /\ observed_before'[c] = observed_before[c]
               /\ s.latest_signal_value # None => Later(c, s.latest_signal_value)
               /\ \A i \in 1..Len(q) : IsNotify(q[i]) => Later(c, q[i].signal_value)
  <2>1. PICK c \in Client : s.client_addr = c
    BY <1>1, <1>2, ActorShape
  <2>2. called[c] \in Calls
    BY <1>2, <2>1, CallStays DEF Blank
  <2>3. QueuedInTime(id)
    BY <1>2 DEF TimeInv
  <2>4. \A v : Timely(c, v) => Later(c, v)
    BY <2>2, StaysTimely
  <2>. QED
    BY <2>1, <2>2, <2>3, <2>4 DEF QueuedInTime, Onward, GoesOn
<1>. HIDE DEF Later
<1>3. ASSUME NEW c \in Client, subscription'[id].client_addr = c,
             NEW latest, subscription'[id].latest_signal_value = latest,
             NEW t, subscription_mailbox'[id] = t,
             latest # None => Later(c, latest),
             \A i \in 1..Len(t) : IsNotify(t[i]) => Later(c, t[i].signal_value)
      PROVE  QueuedInTime(id)'
  BY <1>3 DEF QueuedInTime, Timely, Later, IsNotify
<1>4. ASSUME Running(id), UNCHANGED <<subscription[id], subscription_mailbox[id]>>
      PROVE  QueuedInTime(id)'
  BY <1>2, <1>3, <1>4
<1>5. Still => QueuedInTime(id)'
  BY <1>4 DEF Still, Running
<1>6. ASSUME NEW c \in Client, Disconnect(c) PROVE QueuedInTime(id)'
  BY <1>4, <1>6 DEF Disconnect, Running
<1>7. CASE ManagerHandle
  <2>1. CASE Starts(id)
    <3>. DEFINE m == Head(manager_mailbox)
    <3>1. /\ subscription'[id] = Started(m) /\ subscription_mailbox'[id] = <<>>
          /\ Running(id)'
      BY <2>1 DEF Starts
    <3>2. /\ subscription'[id].client_addr \in Client
          /\ subscription'[id].latest_signal_value = None
      <4>1. m \in ManagerMessage /\ Numbered(m)
        BY <1>1, <1>7, <2>1, TailElements DEF ServerTypeOK, ManagerHandle, Starts
      <4>2. m.client_addr \in Client
        BY <4>1, MessageShape DEF Numbered
      <4>. QED
        BY <3>1, <4>2 DEF Started
    <3>3. Len(<<>>) = 0
      OBVIOUS
    <3>. QED
      BY <1>3, <3>1, <3>2, <3>3
  <2>2. CASE Running(id) /\ UNCHANGED subscription[id]
    <3>1. PICK c \in Client :
            /\ s.client_addr = c /\ called'[c] = called[c]
            /\ observed_before'[c] = observed_before[c]
            /\ s.latest_signal_value # None => Later(c, s.latest_signal_value)
            /\ \A i \in 1..Len(q) : IsNotify(q[i]) => Later(c, q[i].signal_value)
      BY <1>2, <2>2
    <3>2. ASSUME NEW x \in SubscriptionMessage,
                 subscription_mailbox'[id] = Append(q, x),
                 IsNotify(x) => Later(c, x.signal_value)
          PROVE  QueuedInTime(id)'
      <4>1. /\ Len(Append(q, x)) = Len(q) + 1 /\ Len(q) \in Nat
            /\ \A i \in 1..Len(q) : Append(q, x)[i] = q[i]
            /\ Append(q, x)[Len(q) + 1] = x
        BY <1>1, ActorShape, AppendElements
      <4>2. PICK t : t = Append(q, x)
        OBVIOUS
      <4>3. \A i \in 1..Len(t) : i \in 1..Len(q) \/ i = Len(q) + 1
        BY <4>1, <4>2
      <4>4. \A i \in 1..Len(t) : IsNotify(t[i]) => Later(c, t[i].signal_value)
        BY <3>1, <3>2, <4>1, <4>2, <4>3
      <4>. QED
        BY <1>3, <2>2, <3>1, <3>2, <4>2, <4>4
    <3>3. CASE QueuesStop(id)
      <4>1. StopSubscription \in SubscriptionMessage /\ ~IsNotify(StopSubscription)
        BY DEF SubscriptionMessage, StopSubscription, IsNotify
      <4>. QED
        BY <3>2, <3>3, <4>1 DEF QueuesStop
    <3>4. CASE QueuesUpdate(id)
      <4>. DEFINE m == Head(manager_mailbox)
                  x == NotifySubscriber(m.value)
      <4>1. IsUpdate(m) /\ subscription_mailbox'[id] = Append(q, x)
        BY <3>4 DEF QueuesUpdate
      <4>2. m.value \in Value
        BY <1>7, <4>1, ManagerCaches
      <4>3. x \in SubscriptionMessage /\ x.signal_value = m.value
        BY <4>2 DEF SubscriptionMessage, NotifySubscriber
      <4>4. Later(c, m.value)
        BY <1>7, <3>1, <4>1, UpdateInTime DEF TimeInv, Later
      <4>. QED
        BY <3>2, <4>1, <4>3, <4>4
    <3>. QED
      BY <1>4, <1>7, <2>2, <3>3, <3>4, ManagerQueues
  <2>. QED
    BY <1>7, <2>1, <2>2, ManagerStarts
<1>8. ASSUME NEW i \in SubId, SubscriptionHandle(i) \/ Tick(i) PROVE QueuedInTime(id)'
  <2>1. CASE i # id
    BY <1>4, <1>8, <2>1, SubscriptionSteps DEF Running
  <2>2. CASE i = id
    <3>1. PICK v \in Value : TakesUpdate(id, v) \/ KeepsValue(id, v)
      BY <1>8, <2>2, SubscriptionSteps DEF Stopped, Running
    <3>2. Running(id)
      BY <1>8, <2>2, SubscriptionSteps
    <3>3. PICK c \in Client :
            /\ s.client_addr = c
            /\ s.latest_signal_value # None => Later(c, s.latest_signal_value)
            /\ \A j \in 1..Len(q) : IsNotify(q[j]) => Later(c, q[j].signal_value)
      BY <1>2, <3>2
    <3>4. /\ subscription'[id].client_addr = c
          /\ subscription'[id].latest_signal_value = v
      BY <3>1, <3>3 DEF TakesUpdate, KeepsValue, Holding
    <3>5. CASE TakesUpdate(id, v)
      <4>. DEFINE t == Tail(q)
      <4>1. /\ Len(q) \in Nat \ {0} /\ Len(t) = Len(q) - 1
            /\ \A j \in 1..(Len(q) - 1) : t[j] = q[j + 1]
            /\ Head(q) = q[1] /\ 1 \in 1..Len(q)
        BY <1>1, <3>5, ActorShape, TailElements DEF TakesUpdate
      <4>2. Later(c, v)
        BY <3>3, <3>5, <4>1 DEF TakesUpdate
      <4>. HIDE DEF t
      <4>3. ASSUME NEW j \in 1..Len(t), IsNotify(t[j])
            PROVE  Later(c, t[j].signal_value)
        <5>1. t[j] = q[j + 1] /\ j + 1 \in 1..Len(q)
          BY <4>1
        <5>2. IsNotify(q[j + 1])
          BY <4>3, <5>1
        <5>3. Later(c, q[j + 1].signal_value)
          BY <3>3, <5>1, <5>2
        <5>. QED
          BY <5>1, <5>3
      <4>4. subscription_mailbox'[id] = t
        BY <3>5 DEF TakesUpdate, t
      <4>. QED
        BY <1>3, <3>4, <4>2, <4>3, <4>4
    <3>6. CASE KeepsValue(id, v)
      <4>1. v # None
        BY ValueShape
      <4>2. Later(c, v) /\ subscription_mailbox'[id] = q
        BY <3>3, <3>6, <4>1 DEF KeepsValue
      <4>. QED
        BY <1>3, <3>3, <3>4, <4>2
    <3>. QED
      BY <3>1, <3>5, <3>6
  <2>. QED
    BY <2>1, <2>2
<1>. QED
  BY <1>5, <1>6, <1>7, <1>8, ClientSteps

LEMMA NextTime ==
  ASSUME ServerIInv, CallInv, OneRequest, CountInv, LibraryType, ReadInv, TimeInv,
         [ClientNext]_clientVars, Onward
  PROVE  TimeInv'
<1>1. SeenInv'
  BY NextSeen DEF TimeInv
<1>2. ReceivedInTime'
  BY NextReceivedInTime
<1>3. \A id \in SubId : Running(id)' => QueuedInTime(id)'
  BY NextQueuedInTime
<1>. QED
  BY <1>1, <1>2, <1>3 DEF TimeInv

-------------------------------------------------------------------------------
(***************************************************************************)
(* The invariants of the server that the library's rest on, and those of   *)
(* the connections and the library.                                        *)
(***************************************************************************)
WorkerInv ==
  ServerIInv /\ CallInv /\ FollowInv /\ AckInv /\ LastInv /\ RequestInv

ConnectionInv ==
  OneRequest /\ ShapeInv /\ ActorInv /\ CountInv /\ ChainInv /\ StreamInv

StreamIInv ==
  WorkerInv /\ ConnectionInv /\ LibraryType /\ IdleInv /\ ReadInv /\ TimeInv

LEMMA NothingReceived ==
  ASSUME ServerInit
  PROVE  /\ \A c \in Client : Received(c) = <<>> /\ OwnRequests(c) = {}
         /\ \A id \in SubId : ~Running(id)
         /\ Elements(manager_mailbox) = {} /\ Len(manager_mailbox) = 0
<1>1. Len(<<>>) = 0 /\ DOMAIN <<>> = {} /\ <<>> \o <<>> = <<>>
  OBVIOUS
<1>. QED
  BY <1>1 DEF ServerInit, Received, OwnRequests, Running, Elements

LEMMA WorkerInitially == ClientInit => WorkerInv
<1>. SUFFICES ASSUME ClientInit PROVE WorkerInv
  OBVIOUS
<1>1. ServerInit /\ ServerIInv
  BY ServerInitially DEF ClientInit
<1>2. CallInv
  BY DEF ClientInit, ServerInit, Init, CallInv, MessagesAreMeant,
         OwnersHaveSubscribed, Registered
<1>3. FollowInv
  BY <1>1 DEF ServerInit, Init, FollowInv, Listed
<1>4. AckInv
  BY <1>1 DEF ServerInit, AckInv, InOrder, Received, FromConnected, Running
<1>5. LastInv
  BY <1>1 DEF ServerInit, LastInv, NoneIn, Received, Running
<1>6. RequestInv
  <2>1. IdsDiffer(<<>>) /\ InTurnAscends(<<>>) /\ QueueAscends(<<>>)
    BY DEF IdsDiffer, InTurnAscends, QueueAscends
  <2>2. Elements(<<>>) = {}
    BY DEF Elements
  <2>. QED
    BY <1>1, <2>1, <2>2, NothingReceived, BoundsAssumption
    DEF ServerInit, RequestInv, QueueInv, ReceivedInv
<1>. QED
  BY <1>1, <1>2, <1>3, <1>4, <1>5, <1>6 DEF WorkerInv

LEMMA StreamsInitially == ClientInit => StreamIInv
<1>. SUFFICES ASSUME ClientInit PROVE StreamIInv
  OBVIOUS
<1>1. WorkerInv /\ ServerInit
  BY WorkerInitially DEF ClientInit
<1>2. /\ \A c \in Client : Received(c) = <<>> /\ OwnRequests(c) = {}
      /\ \A id \in SubId : ~Running(id)
      /\ Elements(manager_mailbox) = {} /\ Len(manager_mailbox) = 0
  BY <1>1, NothingReceived
<1>3. Len(<<>>) = 0
  OBVIOUS
<1>4. OneRequest
  BY <1>2 DEF OneRequest, Blank
<1>5. ShapeInv /\ ActorInv /\ ChainInv /\ StreamInv
  BY <1>2, <1>3, ShortIsConsecutive DEF ShapeInv, Shaped, ActorInv, ChainInv, StreamInv
<1>6. CountInv
  <2>1. sources = 0 /\ \A k \in Key : signal_cache[k] = None
    BY <1>1 DEF ServerInit, Init
  <2>2. NextCount = 0
    BY <2>1, IntervalAssumption, LowerKey DEF NextCount, Cached
  <2>. QED
    BY <1>2, <2>1, <2>2 DEF CountInv, Counted
<1>7. LibraryType
  <2>1. \A c \in Client : 0 <= Len(wire[c])
    BY <1>1, <1>3 DEF ServerInit
  <2>. QED
    BY <2>1 DEF LibraryType, ClientInit
<1>8. IdleInv /\ ReadInv
  BY NothingRead DEF IdleInv, ReadInv, ClientInit
<1>9. TimeInv
  BY <1>2, <1>3 DEF TimeInv, SeenInv, ReceivedInTime, ClientInit
<1>. QED
  BY <1>1, <1>4, <1>5, <1>6, <1>7, <1>8, <1>9 DEF StreamIInv, ConnectionInv

LEMMA StreamsInductiveStep == StreamIInv /\ [ClientNext]_clientVars => StreamIInv'
<1>. SUFFICES ASSUME StreamIInv, [ClientNext]_clientVars PROVE StreamIInv'
  OBVIOUS
<1>. USE DEF StreamIInv, WorkerInv, ConnectionInv
<1>1. ServerTypeOK
  BY DEF ServerIInv
<1>2. [ServerNext]_serverVars
  BY <1>1, ClientNextIsServerNext DEF CallInv
<1>3. ServerIInv'
  BY <1>2, ServerInductiveStep
<1>4. CallInv'
  BY <1>1, NextCalls
<1>5. FollowInv'
  BY <1>2, <1>3, NextFollows
<1>6. AckInv'
  BY <1>2, NextAcknowledged
<1>7. LastInv'
  BY <1>2, NextBelieved
<1>8. RequestInv'
  BY <1>2, NextRequests
<1>9. Onward
  BY ClientOnward DEF LibraryType
<1>10. OneRequest'
  BY <1>9, NextOneRequest
<1>11. ShapeInv'
  BY <1>9, NextShape
<1>12. ActorInv'
  BY <1>9, NextOwned
<1>13. CountInv'
  BY NextCounted
<1>14. ChainInv'
  BY NextChained
<1>15. StreamInv'
  BY <1>9, NextStream
<1>16. LibraryType' /\ IdleInv' /\ ReadInv'
  BY <1>9, NextRead
<1>17. TimeInv'
  BY <1>9, NextTime
<1>. QED
  BY <1>3, <1>4, <1>5, <1>6, <1>7, <1>8, <1>10, <1>11, <1>12, <1>13, <1>14, <1>15,
     <1>16, <1>17

LEMMA StreamsInductive == ClientSpec => []StreamIInv
BY StreamsInitially, StreamsInductiveStep, PTL DEF ClientSpec

(***************************************************************************)
(* Every call, position, id and item of the client library has its type,   *)
(* and the library has read no more than the session wrote.                *)
(***************************************************************************)
THEOREM LibraryTypeCorrect == ClientSpec => []ClientTypeOK
<1>1. StreamIInv => ClientTypeOK
  BY DEF StreamIInv, WorkerInv, ServerIInv, CallInv, LibraryType, ClientTypeOK
<1>. QED
  BY <1>1, StreamsInductive, PTL

(* What was written is a prefix of what is received. *)
LEMMA WireIsShaped ==
  ASSUME StreamIInv, NEW c \in Client
  PROVE  /\ wire[c] \in Seq(Text) /\ Len(wire[c]) \in Nat
         /\ Shaped(called[c].text, OwnRequests(c), wire[c])
         /\ Unfiltered(c) => Consecutive(wire[c])
<1>. USE DEF StreamIInv, WorkerInv, ConnectionInv
<1>1. wire[c] \in Seq(Text) /\ session_mailbox[c] \in Seq(Text)
  BY ReceivedType DEF ServerIInv
<1>2. Shaped(called[c].text, OwnRequests(c), wire[c])
  BY <1>1, ShapedPrefix DEF ShapeInv, Received
<1>3. Unfiltered(c) => Consecutive(wire[c])
  BY <1>1, ConsecutivePrefix DEF StreamInv, Received
<1>. QED
  BY <1>1, <1>2, <1>3, LenProperties

(***************************************************************************)
(* A stream without filters yields consecutive counts, one per item        *)
(* (signal_manager.rs caches an update and hands it to the subscribers in  *)
(* one handler; the client's lib.rs, subscribe, drops the answer and       *)
(* yields one item per notification of its subscription).                  *)
(***************************************************************************)
THEOREM StreamsHaveNoGaps == ClientSpec => []GaplessStream
<1>1. ASSUME StreamIInv, NEW c \in Client, Calling(c, "subscribe"),
             called[c].text.filters = None,
             NEW i \in DOMAIN items[c], NEW j \in DOMAIN items[c], i <= j,
             IsOk(items[c][i]), IsOk(items[c][j])
      PROVE  items[c][j].value.n = items[c][i].value.n + (j - i)
  <2>1. called[c] \in Calls /\ called[c].call = "subscribe"
    BY <1>1 DEF Calling, StreamIInv, WorkerInv, CallInv
  <2>2. Unfiltered(c)
    BY <1>1, <2>1, CallKinds DEF Unfiltered, HasCalledSubscribe
  <2>3. /\ i \in 1..Len(items[c]) /\ j \in 1..Len(items[c])
        /\ position[c] \in Nat /\ position[c] <= Len(wire[c])
    BY <1>1 DEF StreamIInv, LibraryType
  <2>4. SubscriptionRead(wire[c], position[c], subscription_id[c], items[c], finished[c])
    BY <1>1, <2>1 DEF StreamIInv, ReadInv, ReadBy
  <2>5. /\ i + 1 <= position[c] /\ items[c][i].value = wire[c][i + 1].value
        /\ j + 1 <= position[c] /\ items[c][j].value = wire[c][j + 1].value
    BY <1>1, <2>3, <2>4 DEF SubscriptionRead
  <2>6. Consecutive(wire[c]) /\ Len(wire[c]) \in Nat
    BY <1>1, <2>2, WireIsShaped
  <2>7. i + 1 \in 2..Len(wire[c]) /\ j + 1 \in 2..Len(wire[c]) /\ i + 1 <= j + 1
    BY <1>1, <2>3, <2>5, <2>6
  <2>8. wire[c][j + 1].value.n = wire[c][i + 1].value.n + ((j + 1) - (i + 1))
    BY <2>6, <2>7 DEF Consecutive
  <2>9. (j + 1) - (i + 1) = j - i
    BY <2>3
  <2>. QED
    BY <2>5, <2>8, <2>9
<1>2. StreamIInv => GaplessStream
  BY <1>1 DEF GaplessStream
<1>. QED
  BY <1>2, StreamsInductive, PTL

(***************************************************************************)
(* No application is given a value older than one that another had before  *)
(* it called (signal_manager.rs caches an update in the handler that       *)
(* notifies of it, and one thread runs the manager).                       *)
(***************************************************************************)
THEOREM TimeDoesNotGoBack == ClientSpec => []ObservationsNeverGoBack
<1>1. ASSUME StreamIInv, NEW c \in Client, observed_before[c] # None,
             NEW v \in ValuesSeen(c)
      PROVE  IF called[c].call = "get" THEN v.n >= observed_before[c].n
                                       ELSE v.n > observed_before[c].n
  <2>1. Timely(c, v)
    BY <1>1, SeenIsTimely DEF StreamIInv, WorkerInv, ServerIInv, TimeInv
  <2>. QED
    BY <1>1, <2>1 DEF Timely, Aged
<1>2. StreamIInv => ObservationsNeverGoBack
  BY <1>1 DEF ObservationsNeverGoBack
<1>. QED
  BY <1>2, StreamsInductive, PTL

(***************************************************************************)
(* A get gives one item, and an error of the server is that of its own     *)
(* request: lib.rs, get, takes any error for its own, and a connection     *)
(* carries no other request.                                               *)
(***************************************************************************)
THEOREM GetsAreAnswered == ClientSpec => []GetHasItsAnswer
<1>1. ASSUME StreamIInv, NEW c \in Client, Calling(c, "get"), items[c] # <<>>
      PROVE  LET item == items[c][1] IN
             /\ Len(items[c]) = 1
             /\ item.result = "VisError" =>
                  item.error.action = "get" /\ Own(c, item.error.request_id)
             /\ item.result = "SerdeError" =>
                  /\ ReadSuccess(wire[c][position[c]]) # None
                  /\ wire[c][position[c]].value \notin Readable
  <2>1. GetRead(OwnRequests(c), wire[c], position[c], items[c], finished[c])
    BY <1>1 DEF Calling, StreamIInv, ReadInv, ReadBy
  <2>2. \A r \in OwnRequests(c) : Own(c, r)
    BY DEF OwnRequests, Own
  <2>. QED
    BY <1>1, <2>1, <2>2 DEF GetRead
<1>2. StreamIInv => GetHasItsAnswer
  BY <1>1 DEF GetHasItsAnswer
<1>. QED
  BY <1>2, StreamsInductive, PTL

(***************************************************************************)
(* The stream of subscribe_raw is the answer to its request and then       *)
(* notifications of the subscription the answer names                      *)
(* (tests/subscriptions.rs:13-35).                                         *)
(***************************************************************************)
THEOREM RawStreamsAreAnswered == ClientSpec => []RawStreamBeginsWithAnswer
<1>1. ASSUME StreamIInv, NEW c \in Client, Calling(c, "subscribe_raw"),
             NEW i \in DOMAIN items[c], IsOk(items[c][i])
      PROVE  LET x == items[c][i].response IN
             /\ IsOk(items[c][1])
             /\ IF i = 1
                  THEN x.action = "subscribe" /\ Own(c, x.request_id)
                  ELSE /\ x.action = "subscription"
                       /\ x.subscription_id = items[c][1].response.subscription_id
  <2>. DEFINE w == wire[c]
              its == items[c]
              own == OwnRequests(c)
  <2>1. called[c] \in Calls /\ called[c].call = "subscribe_raw"
    BY <1>1 DEF Calling, StreamIInv, WorkerInv, CallInv
  <2>2. called[c].text.action = "subscribe"
    BY <2>1, CallKinds
  <2>3. /\ i \in 1..Len(its) /\ Len(its) \in Nat
        /\ position[c] \in Nat /\ position[c] <= Len(w) /\ Len(w) \in Nat
    BY <1>1, WireIsShaped, LenProperties DEF StreamIInv, LibraryType
  <2>4. RawRead(w, position[c], its, finished[c])
    BY <1>1, <2>1 DEF StreamIInv, ReadInv, ReadBy
  <2>5. i <= position[c]
    BY <1>1, <2>3, <2>4 DEF RawRead
  <2>6. i \in 1..Len(w) /\ 1 \in 1..Len(w) /\ 1 \in 1..Len(its) /\ 1 <= position[c]
    BY <2>3, <2>5
  <2>7. its[i] = OkResponse(w[i]) /\ its[1] = OkResponse(w[1])
    BY <2>3, <2>4, <2>5, <2>6 DEF RawRead
  <2>8. Fits(called[c].text, own, w, i)
    BY <1>1, <2>6, WireIsShaped DEF Shaped
  <2>9. /\ IsOk(its[1]) /\ its[i].response = w[i] /\ its[1].response = w[1]
    BY <2>7 DEF OkResponse, IsOk
  <2>10. CASE i = 1
    <3>1. \E r \in own, id \in SubId : w[1] = SubscribeSuccess(r, id)
      BY <2>2, <2>8, <2>10 DEF Fits
    <3>2. w[1].action = "subscribe" /\ w[1].request_id \in own
      BY <3>1 DEF SubscribeSuccess
    <3>3. Own(c, w[1].request_id)
      BY <3>2 DEF OwnRequests, Own
    <3>. QED
      BY <2>9, <2>10, <3>2, <3>3
  <2>11. CASE i # 1
    <3>1. PICK v \in Value : w[i] = Subscription(w[1].subscription_id, v)
      BY <2>2, <2>8, <2>11 DEF Fits
    <3>2. w[i].action = "subscription" /\ w[i].subscription_id = w[1].subscription_id
      BY <3>1 DEF Subscription
    <3>. QED
      BY <2>9, <2>11, <3>2
  <2>. QED
    BY <2>10, <2>11
<1>2. StreamIInv => RawStreamBeginsWithAnswer
  BY <1>1 DEF RawStreamBeginsWithAnswer
<1>. QED
  BY <1>2, StreamsInductive, PTL
===============================================================================
