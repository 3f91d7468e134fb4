------------------------- MODULE VisServerAnswerProofs -------------------------
(***************************************************************************)
(* Theorems about what a client of VisServer receives: the texts written   *)
(* to its websocket, followed by those in its session's mailbox; and about *)
(* its requests, each in one place until it is answered.                   *)
(***************************************************************************)
EXTENDS VisServerProofs, FiniteSetTheorems

Text == Response \cup {BAD_REQUEST}

(***************************************************************************)
(* Sequences.  What is received grows at its end, by what the actors send; *)
(* by what the session answers itself, it grows in the middle.             *)
(***************************************************************************)
LEMMA ConcatAppend ==
  ASSUME NEW S, NEW u \in Seq(S), NEW q \in Seq(S), NEW x \in S
  PROVE  u \o Append(q, x) = Append(u \o q, x)
<1>. DEFINE s == u \o Append(q, x)
            t == Append(u \o q, x)
<1>1. /\ Len(u) \in Nat /\ Len(q) \in Nat
      /\ Append(q, x) \in Seq(S) /\ Len(Append(q, x)) = Len(q) + 1
      /\ \A i \in 1..Len(q) : Append(q, x)[i] = q[i]
      /\ Append(q, x)[Len(q) + 1] = x
  BY LenProperties, AppendElements
<1>2. /\ s \in Seq(S) /\ Len(s) = Len(u) + (Len(q) + 1)
      /\ \A i \in 1..(Len(u) + (Len(q) + 1)) :
           s[i] = IF i <= Len(u) THEN u[i] ELSE Append(q, x)[i - Len(u)]
  <2>. HIDE DEF s
  <2>1. /\ s \in Seq(S) /\ Len(s) = Len(u) + Len(Append(q, x))
        /\ \A i \in 1..(Len(u) + Len(Append(q, x))) :
             s[i] = IF i <= Len(u) THEN u[i] ELSE Append(q, x)[i - Len(u)]
    BY <1>1, ConcatProperties DEF s
  <2>. QED
    BY <1>1, <2>1
<1>3. /\ u \o q \in Seq(S) /\ Len(u \o q) = Len(u) + Len(q)
      /\ \A i \in 1..(Len(u) + Len(q)) :
           (u \o q)[i] = IF i <= Len(u) THEN u[i] ELSE q[i - Len(u)]
  BY ConcatProperties
<1>4. /\ t \in Seq(S) /\ Len(t) = Len(u) + Len(q) + 1
      /\ \A i \in 1..(Len(u) + Len(q)) : t[i] = (u \o q)[i]
      /\ t[Len(u) + Len(q) + 1] = x
  BY <1>3, AppendElements
<1>5. ASSUME NEW i \in 1..(Len(u) + (Len(q) + 1)) PROVE s[i] = t[i]
  <2>. HIDE DEF s, t
  <2>1. CASE i <= Len(u)
    <3>1. i \in 1..(Len(u) + Len(q))
      BY <1>1, <2>1
    <3>. QED
      BY <1>2, <1>3, <1>4, <2>1, <3>1
  <2>2. CASE i > Len(u) /\ i <= Len(u) + Len(q)
    <3>1. i \in 1..(Len(u) + Len(q)) /\ ~(i <= Len(u)) /\ i - Len(u) \in 1..Len(q)
      BY <1>1, <2>2
    <3>. QED
      BY <1>1, <1>2, <1>3, <1>4, <3>1
  <2>3. CASE i = Len(u) + Len(q) + 1
    <3>1. ~(i <= Len(u)) /\ i - Len(u) = Len(q) + 1
      BY <1>1, <2>3
    <3>. QED
      BY <1>1, <1>2, <1>4, <2>3, <3>1
  <2>. QED
    BY <1>1, <2>1, <2>2, <2>3
<1>. HIDE DEF s, t
<1>6. s = t
  <2>1. Len(s) = Len(t) /\ \A i \in 1..Len(s) : s[i] = t[i]
    BY <1>1, <1>2, <1>4, <1>5
  <2>. QED
    BY <1>2, <1>4, <2>1, SeqEqual
<1>. QED
  BY <1>6 DEF s, t

(* Where the elements of u \o q are when x is inserted between u and q. *)
LEMMA InsertElements ==
  ASSUME NEW S, NEW u \in Seq(S), NEW q \in Seq(S), NEW x \in S
  PROVE  LET s == u \o q
             t == Append(u, x) \o q IN
         /\ s \in Seq(S) /\ t \in Seq(S) /\ Len(t) = Len(s) + 1
         /\ Len(u) \in 0..Len(s)
         /\ \A i \in 1..Len(u) : t[i] = s[i]
         /\ t[Len(u) + 1] = x
         /\ \A i \in (Len(u) + 1)..Len(s) : t[i + 1] = s[i]
<1>. DEFINE s == u \o q
            v == Append(u, x)
            t == v \o q
<1>1. /\ Len(u) \in Nat /\ Len(q) \in Nat
      /\ v \in Seq(S) /\ Len(v) = Len(u) + 1
      /\ \A i \in 1..Len(u) : v[i] = u[i]
      /\ v[Len(u) + 1] = x
  BY LenProperties, AppendElements
<1>2. /\ s \in Seq(S) /\ Len(s) = Len(u) + Len(q)
      /\ \A i \in 1..(Len(u) + Len(q)) :
           s[i] = IF i <= Len(u) THEN u[i] ELSE q[i - Len(u)]
  BY ConcatProperties
<1>3. /\ t \in Seq(S) /\ Len(t) = Len(u) + 1 + Len(q)
      /\ \A i \in 1..(Len(u) + 1 + Len(q)) :
           t[i] = IF i <= Len(u) + 1 THEN v[i] ELSE q[i - (Len(u) + 1)]
  <2>. HIDE DEF v
  <2>1. /\ t \in Seq(S) /\ Len(t) = Len(v) + Len(q)
        /\ \A i \in 1..(Len(v) + Len(q)) :
             t[i] = IF i <= Len(v) THEN v[i] ELSE q[i - Len(v)]
    BY <1>1, ConcatProperties
  <2>. QED
    BY <1>1, <2>1
<1>. HIDE DEF s, v, t
<1>4. ASSUME NEW i \in (Len(u) + 1)..Len(s) PROVE t[i + 1] = s[i]
  <2>1. /\ i \in 1..(Len(u) + Len(q)) /\ ~(i <= Len(u))
        /\ i + 1 \in 1..(Len(u) + 1 + Len(q)) /\ ~(i + 1 <= Len(u) + 1)
        /\ (i + 1) - (Len(u) + 1) = i - Len(u)
    BY <1>1, <1>2
  <2>. QED
    BY <1>2, <1>3, <2>1
<1>5. \A i \in 1..Len(u) : t[i] = s[i]
  BY <1>1, <1>2, <1>3
<1>6. t[Len(u) + 1] = x
  BY <1>1, <1>3
<1>7. Len(t) = Len(s) + 1 /\ Len(u) \in 0..Len(s)
  BY <1>1, <1>2, <1>3
<1>. QED
  BY <1>2, <1>3, <1>4, <1>5, <1>6, <1>7 DEF s, t, v

LEMMA HeadMoves ==
  ASSUME NEW S, NEW u \in Seq(S), NEW q \in Seq(S), q # <<>>
  PROVE  Append(u, Head(q)) \o Tail(q) = u \o q
<1>1. Head(q) \in S /\ Tail(q) \in Seq(S)
  BY HeadTailProperties
<1>. DEFINE x == Head(q)
            p == Tail(q)
            t == Append(u, x) \o p
            s == u \o q
<1>2. /\ t \in Seq(S) /\ Len(t) = Len(u \o p) + 1
      /\ Len(u) \in 0..Len(u \o p)
      /\ \A i \in 1..Len(u) : t[i] = (u \o p)[i]
      /\ t[Len(u) + 1] = x
      /\ \A i \in (Len(u) + 1)..Len(u \o p) : t[i + 1] = (u \o p)[i]
  <2>. HIDE DEF x, p
  <2>. QED
    BY <1>1, InsertElements DEF x, p
<1>3. /\ Len(u \o p) = Len(u) + Len(p) /\ Len(p) = Len(q) - 1
      /\ Len(u) \in Nat /\ Len(q) \in Nat \ {0}
      /\ \A i \in 1..(Len(u) + Len(p)) :
           (u \o p)[i] = IF i <= Len(u) THEN u[i] ELSE p[i - Len(u)]
  BY <1>1, ConcatProperties, TailElements, LenProperties
<1>4. /\ \A i \in 1..(Len(q) - 1) : p[i] = q[i + 1]
      /\ x = q[1]
  BY TailElements
<1>5. /\ s \in Seq(S) /\ Len(s) = Len(u) + Len(q)
      /\ \A i \in 1..(Len(u) + Len(q)) :
           s[i] = IF i <= Len(u) THEN u[i] ELSE q[i - Len(u)]
  BY ConcatProperties
<1>. HIDE DEF s, t, x, p
<1>6. ASSUME NEW i \in 1..Len(s) PROVE t[i] = s[i]
  <2>1. CASE i <= Len(u)
    <3>1. i \in 1..Len(u) /\ i \in 1..(Len(u) + Len(p)) /\ i \in 1..(Len(u) + Len(q))
      BY <1>3, <1>5, <2>1
    <3>. QED
      BY <1>2, <1>3, <1>5, <2>1, <3>1
  <2>2. CASE i = Len(u) + 1
    <3>1. i \in 1..(Len(u) + Len(q)) /\ ~(i <= Len(u)) /\ i - Len(u) = 1
      BY <1>3, <1>5, <2>2
    <3>. QED
      BY <1>2, <1>4, <1>5, <2>2, <3>1
  <2>3. CASE i > Len(u) + 1
    <3>. DEFINE j == i - 1
    <3>1. /\ i = j + 1 /\ ~(j <= Len(u)) /\ ~(i <= Len(u))
          /\ j \in (Len(u) + 1)..(Len(u) + Len(p))
          /\ j \in 1..(Len(u) + Len(p)) /\ i \in 1..(Len(u) + Len(q))
          /\ j - Len(u) \in 1..(Len(q) - 1)
          /\ (j - Len(u)) + 1 = i - Len(u)
      BY <1>3, <1>5, <2>3
    <3>2. t[i] = (u \o p)[j] /\ (u \o p)[j] = p[j - Len(u)]
      BY <1>2, <1>3, <3>1
    <3>3. p[j - Len(u)] = q[(j - Len(u)) + 1]
      BY <1>4, <3>1
    <3>. QED
      BY <1>5, <3>1, <3>2, <3>3
  <2>. QED
    BY <1>3, <1>5, <2>1, <2>2, <2>3
<1>7. Len(t) = Len(s)
  BY <1>2, <1>3, <1>5
<1>8. t = s
  BY <1>2, <1>5, <1>6, <1>7, SeqEqual
<1>. QED
  BY <1>8 DEF t, s, x, p

(***************************************************************************)
(* What the steps of the actors do to what a client has received.          *)
(***************************************************************************)
LEMMA ReceivedType ==
  ASSUME ServerTypeOK, NEW c \in Client
  PROVE  /\ wire[c] \in Seq(Text)
         /\ session_mailbox[c] \in Seq(Response)
         /\ session_mailbox[c] \in Seq(Text)
         /\ Received(c) \in Seq(Text)
<1>1. wire[c] \in Seq(Text) /\ session_mailbox[c] \in Seq(Response)
  BY DEF ServerTypeOK, Text
<1>2. session_mailbox[c] \in Seq(Text)
  BY <1>1, SeqMonotonic DEF Text
<1>. QED
  BY <1>1, <1>2, ConcatProperties DEF Received

Receives(c, x) == Received(c)' = Append(Received(c), x)

LEMMA SessionReceives ==
  ASSUME ServerTypeOK, NEW c \in Client, NEW d \in Client, NEW x \in Response,
         session_mailbox'[d] = ToSession(c, x)[d], UNCHANGED wire
  PROVE  IF d = c /\ session[c] = "running"
           THEN Receives(d, x) ELSE UNCHANGED Received(d)
<1>1. CASE d = c /\ session[c] = "running"
  <2>1. session_mailbox'[d] = Append(session_mailbox[d], x)
    BY <1>1 DEF ToSession, ServerTypeOK
  <2>2. x \in Text
    BY DEF Text
  <2>3. wire[d] \o Append(session_mailbox[d], x)
          = Append(wire[d] \o session_mailbox[d], x)
    <3>. DEFINE u == wire[d]
                q == session_mailbox[d]
    <3>1. u \in Seq(Text) /\ q \in Seq(Text)
      BY ReceivedType
    <3>. HIDE DEF u, q
    <3>2. u \o Append(q, x) = Append(u \o q, x)
      BY <2>2, <3>1, ConcatAppend
    <3>. QED
      BY <3>2 DEF u, q
  <2>. QED
    BY <1>1, <2>1, <2>3 DEF Receives, Received
<1>2. CASE ~(d = c /\ session[c] = "running")
  <2>1. session_mailbox'[d] = session_mailbox[d]
    BY <1>2 DEF ToSession, ServerTypeOK
  <2>. QED
    BY <1>2, <2>1 DEF Received
<1>. QED
  BY <1>1, <1>2

LEMMA ManagerReceives ==
  ASSUME ServerTypeOK, ManagerHandle, NEW c \in Client
  PROVE  IF c \in DOMAIN sent' /\ session[c] = "running"
           THEN sent'[c] \in Response /\ Receives(c, sent'[c])
           ELSE UNCHANGED Received(c)
<1>1. TypeOK' /\ Deliver /\ UNCHANGED wire
  BY ManagerHandleType DEF ManagerHandle, ServerTypeOK
<1>2. CASE c \in DOMAIN sent'
  <2>1. sent'[c] \in Response
    BY <1>1, <1>2 DEF TypeOK
  <2>2. session_mailbox'[c] = ToSession(c, sent'[c])[c]
    BY <1>1, <1>2 DEF Deliver
  <2>3. IF session[c] = "running"
          THEN Receives(c, sent'[c]) ELSE UNCHANGED Received(c)
    BY <1>1, <2>1, <2>2, SessionReceives
  <2>. QED
    BY <1>2, <2>1, <2>3
<1>3. CASE c \notin DOMAIN sent'
  BY <1>1, <1>3 DEF Deliver, Received
<1>. QED
  BY <1>2, <1>3

(* What send_client_notification lets the client receive. *)
NotificationOf(id) ==
  {Subscription(id, v) : v \in Value}
    \cup {SubscriptionNotificationError(id, BAD_REQUEST_FILTER_INVALID)}

LEMMA SubscriptionReceives ==
  ASSUME ServerTypeOK, NEW id \in SubId, NEW s \in Actor, NEW over,
         s.latest_signal_value \in Value,
         SendClientNotification(id, s, over), UNCHANGED wire
  PROVE  \/ \A d \in Client : UNCHANGED Received(d)
         \/ \E x \in NotificationOf(id) :
              \A d \in Client :
                IF d = s.client_addr /\ session[d] = "running"
                  THEN Receives(d, x) ELSE UNCHANGED Received(d)
<1>. DEFINE val == s.latest_signal_value
            c == s.client_addr
<1>1. c \in Client
  BY DEF Actor
<1>2. ASSUME NEW x \in NotificationOf(id), session_mailbox' = ToSession(c, x),
             NEW d \in Client
      PROVE  IF d = c /\ session[d] = "running"
               THEN Receives(d, x) ELSE UNCHANGED Received(d)
  <2>1. x \in Response
    BY NotificationTexts DEF NotificationOf
  <2>. QED
    BY <1>1, <1>2, <2>1, SessionReceives
<1>3. CASE UNCHANGED session_mailbox
  BY <1>3 DEF Received
<1>4. \/ session_mailbox' = ToSession(c, Subscription(id, val))
      \/ session_mailbox' = ToSession(c,
            SubscriptionNotificationError(id, BAD_REQUEST_FILTER_INVALID))
      \/ UNCHANGED session_mailbox
  BY DEF SendClientNotification, Outcome
<1>5. /\ Subscription(id, val) \in NotificationOf(id)
      /\ SubscriptionNotificationError(id, BAD_REQUEST_FILTER_INVALID)
           \in NotificationOf(id)
  BY DEF NotificationOf
<1>. QED
  BY <1>2, <1>3, <1>4, <1>5

LEMMA SessionHandleReceives ==
  ASSUME ServerTypeOK, NEW c \in Client, SessionHandle(c), NEW d \in Client
  PROVE  UNCHANGED Received(d)
<1>1. CASE d = c
  <2>1. /\ wire'[d] = Append(wire[d], Head(session_mailbox[d]))
        /\ session_mailbox'[d] = Tail(session_mailbox[d])
        /\ session_mailbox[d] # <<>>
    BY <1>1 DEF SessionHandle, Write, ServerTypeOK
  <2>. QED
    BY <2>1, ReceivedType, HeadMoves DEF Received
<1>2. CASE d # c
  BY <1>2 DEF SessionHandle, Write, ServerTypeOK, Received
<1>. QED
  BY <1>1, <1>2

(***************************************************************************)
(* Acknowledgements come first.                                            *)
(***************************************************************************)
IsAck(x, id) ==
  Has(x, "action") /\ x.action = "subscribe" /\ x.subscription_id = id

AckIn(s, id) == \E j \in 1..Len(s) : IsAck(s[j], id)

InOrder(s) ==
  \A i \in 1..Len(s) :
    IsNotification(s[i]) => \E j \in 1..(i - 1) : IsAck(s[j], s[i].subscription_id)

LEMMA InOrderAppend ==
  ASSUME NEW s \in Seq(Text), NEW x \in Text, InOrder(s),
         IsNotification(x) => AckIn(s, x.subscription_id)
  PROVE  /\ InOrder(Append(s, x))
         /\ \A id : AckIn(s, id) \/ IsAck(x, id) => AckIn(Append(s, x), id)
<1>. DEFINE t == Append(s, x)
            n == Len(s)
<1>1. /\ n \in Nat /\ Len(t) = n + 1
      /\ \A i \in 1..n : t[i] = s[i]
      /\ t[n + 1] = x
  BY AppendElements
<1>. HIDE DEF t, n
<1>2. \A id : AckIn(s, id) \/ IsAck(x, id) => AckIn(t, id)
  BY <1>1 DEF AckIn, n
<1>3. ASSUME NEW i \in 1..(n + 1), IsNotification(t[i])
      PROVE  \E j \in 1..(i - 1) : IsAck(t[j], t[i].subscription_id)
  <2>1. CASE i = n + 1
    <3>1. t[i] = x /\ i - 1 = n
      BY <1>1, <2>1
    <3>2. PICK j \in 1..n : IsAck(s[j], x.subscription_id)
      BY <1>3, <3>1 DEF AckIn, n
    <3>. QED
      BY <1>1, <3>1, <3>2
  <2>2. CASE i # n + 1
    <3>1. i \in 1..n /\ t[i] = s[i]
      BY <1>1, <2>2
    <3>2. PICK j \in 1..(i - 1) : IsAck(s[j], s[i].subscription_id)
      BY <1>3, <3>1 DEF InOrder, n
    <3>3. j \in 1..n
      BY <1>1, <3>1, <3>2
    <3>. QED
      BY <1>1, <3>1, <3>2, <3>3
  <2>. QED
    BY <2>1, <2>2
<1>4. InOrder(t)
  BY <1>1, <1>3 DEF InOrder
<1>. QED
  BY <1>2, <1>4 DEF t

LEMMA InOrderInsert ==
  ASSUME NEW u \in Seq(Text), NEW q \in Seq(Text), NEW x \in Text,
         InOrder(u \o q), ~IsNotification(x)
  PROVE  /\ InOrder(Append(u, x) \o q)
         /\ \A id : AckIn(u \o q, id) => AckIn(Append(u, x) \o q, id)
<1>. DEFINE s == u \o q
            t == Append(u, x) \o q
            n == Len(u)
            At(i) == IF i <= n THEN i ELSE i + 1
<1>1. /\ s \in Seq(Text) /\ t \in Seq(Text)
      /\ Len(s) \in Nat /\ n \in 0..Len(s) /\ Len(t) = Len(s) + 1
      /\ \A i \in 1..n : t[i] = s[i]
      /\ t[n + 1] = x
      /\ \A i \in (n + 1)..Len(s) : t[i + 1] = s[i]
  BY InsertElements, LenProperties
<1>. HIDE DEF s, t, n
<1>2. \A i \in 1..Len(s) : At(i) \in 1..Len(t) /\ t[At(i)] = s[i]
  <2>. SUFFICES ASSUME NEW i \in 1..Len(s)
                PROVE  At(i) \in 1..Len(t) /\ t[At(i)] = s[i]
    OBVIOUS
  <2>1. CASE i <= n
    <3>1. i \in 1..n
      BY <1>1, <2>1
    <3>. QED
      BY <1>1, <2>1, <3>1
  <2>2. CASE ~(i <= n)
    <3>1. i \in (n + 1)..Len(s)
      BY <1>1, <2>2
    <3>. QED
      BY <1>1, <2>2, <3>1
  <2>. QED
    BY <2>1, <2>2
<1>3. \A id : AckIn(s, id) => AckIn(t, id)
  BY <1>2 DEF AckIn
<1>4. ASSUME NEW k \in 1..Len(t), IsNotification(t[k])
      PROVE  \E j \in 1..(k - 1) : IsAck(t[j], t[k].subscription_id)
  <2>1. PICK i \in 1..Len(s) : k = At(i)
    <3>1. k # n + 1
      BY <1>1, <1>4
    <3>2. CASE k <= n
      <4>1. k \in 1..Len(s) /\ k = At(k)
        BY <1>1, <3>2
      <4>. QED
        BY <4>1
    <3>3. CASE ~(k <= n)
      <4>1. k - 1 \in 1..Len(s) /\ k = At(k - 1)
        BY <1>1, <3>1, <3>3
      <4>. QED
        BY <4>1
    <3>. QED
      BY <3>2, <3>3
  <2>2. t[k] = s[i]
    BY <1>2, <2>1
  <2>3. PICK j \in 1..(i - 1) : IsAck(s[j], s[i].subscription_id)
    BY <1>4, <2>2 DEF InOrder, s
  <2>4. j \in 1..Len(s) /\ At(j) \in 1..(k - 1)
    BY <1>1, <2>1, <2>3
  <2>5. IsAck(t[At(j)], t[k].subscription_id)
    BY <1>2, <2>2, <2>3, <2>4
  <2>. QED
    BY <2>4, <2>5
<1>5. InOrder(t)
  BY <1>4 DEF InOrder
<1>. QED
  BY <1>3, <1>5 DEF s, t

LEMMA InOrderPrefix ==
  ASSUME NEW u \in Seq(Text), NEW q \in Seq(Text), InOrder(u \o q)
  PROVE  InOrder(u)
<1>. DEFINE s == u \o q
            n == Len(u)
<1>1. /\ n \in Nat /\ Len(q) \in Nat /\ Len(s) = n + Len(q)
      /\ \A i \in 1..(n + Len(q)) :
           s[i] = IF i <= n THEN u[i] ELSE q[i - n]
  BY ConcatProperties, LenProperties
<1>. HIDE DEF s, n
<1>2. \A i \in 1..n : i \in 1..Len(s) /\ s[i] = u[i]
  BY <1>1
<1>3. ASSUME NEW i \in 1..n, IsNotification(u[i])
      PROVE  \E j \in 1..(i - 1) : IsAck(u[j], u[i].subscription_id)
  <2>1. PICK j \in 1..(i - 1) : IsAck(s[j], s[i].subscription_id)
    BY <1>2, <1>3 DEF InOrder, s
  <2>2. j \in 1..n
    BY <1>1, <2>1
  <2>. QED
    BY <1>2, <2>1, <2>2
<1>. QED
  BY <1>3 DEF InOrder, n

(***************************************************************************)
(* What the manager answers, and to whom.                                  *)
(***************************************************************************)
IsAnswerTo(x, r) ==
  /\ Has(x, "request_id") /\ x.request_id = r
  /\ Has(x, "action")
  /\ x.action \in {"get", "set", "subscribe", "unsubscribe", "unsubscribeAll"}

LEMMA AnswerShapes ==
  ASSUME NEW r
  PROVE  /\ \A v : IsAnswerTo(GetSuccess(r, v), r)
         /\ \A e : IsAnswerTo(GetError(r, e), r)
         /\ IsAnswerTo(SetSuccess(r), r)
         /\ \A e : IsAnswerTo(SetError(r, e), r)
         /\ \A id : IsAnswerTo(SubscribeSuccess(r, id), r)
                      /\ IsAck(SubscribeSuccess(r, id), id)
         /\ \A id : IsAnswerTo(UnsubscribeSuccess(r, id), r)
         /\ \A id, e : IsAnswerTo(UnsubscribeError(r, id, e), r)
         /\ IsAnswerTo(UnsubscribeAllSuccess(r), r)
<1>1. \A v : IsAnswerTo(GetSuccess(r, v), r)
  BY DEF IsAnswerTo, Has, GetSuccess
<1>2. \A e : IsAnswerTo(GetError(r, e), r)
  BY DEF IsAnswerTo, Has, GetError, RequestError
<1>3. IsAnswerTo(SetSuccess(r), r)
  BY DEF IsAnswerTo, Has, SetSuccess
<1>4. \A e : IsAnswerTo(SetError(r, e), r)
  BY DEF IsAnswerTo, Has, SetError, RequestError
<1>5. \A id : IsAnswerTo(SubscribeSuccess(r, id), r)
                /\ IsAck(SubscribeSuccess(r, id), id)
  BY DEF IsAnswerTo, IsAck, Has, SubscribeSuccess
<1>6. \A id : IsAnswerTo(UnsubscribeSuccess(r, id), r)
  BY DEF IsAnswerTo, Has, UnsubscribeSuccess
<1>7. \A id, e : IsAnswerTo(UnsubscribeError(r, id, e), r)
  BY DEF IsAnswerTo, Has, UnsubscribeError
<1>8. IsAnswerTo(UnsubscribeAllSuccess(r), r)
  BY DEF IsAnswerTo, Has, UnsubscribeAllSuccess
<1>. QED
  BY <1>1, <1>2, <1>3, <1>4, <1>5, <1>6, <1>7, <1>8

(* A message that is to be answered. *)
Requesting(m, c, r) ==
  m.msg = "ClientMessage" /\ m.client_addr = c /\ m.request_id = r /\ r # None

LEMMA ManagerAnswers ==
  ASSUME ServerIInv, ManagerHandle, NEW c \in Client
  PROVE  LET m == Head(manager_mailbox) IN
         /\ c \in DOMAIN sent' => /\ Requesting(m, c, m.request_id)
                                  /\ IsAnswerTo(sent'[c], m.request_id)
         /\ Requesting(m, c, m.request_id) => c \in DOMAIN sent'
<1>. DEFINE m == Head(manager_mailbox)
            d == m.client_addr
            a == m.message
            r == m.request_id
<1>1. m \in ManagerMessage /\ IInv
  BY MailboxHead DEF ManagerHandle, ServerIInv, ServerTypeOK, IInv
<1>2. ASSUME m.msg = "ClientMessage", HandleClientMessage(d, r, a)
      PROVE  /\ c \in DOMAIN sent' => c = d /\ r # None /\ IsAnswerTo(sent'[c], r)
             /\ c = d /\ r # None => c \in DOMAIN sent'
  <2>1. d \in Client /\ a \in Forwarded /\ r \in ReqId \cup {None}
        /\ (r = None => a.action = "unsubscribeAll") /\ None \notin ReqId
    BY <1>1, <1>2, MessageShape, NoneAssumption
  <2>2. ASSUME NEW x, sent' = Reply(d, x), IsAnswerTo(x, r), r # None
        PROVE  /\ c \in DOMAIN sent' => c = d /\ r # None /\ IsAnswerTo(sent'[c], r)
               /\ c = d /\ r # None => c \in DOMAIN sent'
    BY <2>2 DEF Reply
  <2>3. ASSUME NEW x, NEW others \in SUBSET (SubId \cup Recipient), NEW y,
               sent' = ReplyAnd(d, x, others, y), IsAnswerTo(x, r), r # None
        PROVE  /\ c \in DOMAIN sent' => c = d /\ r # None /\ IsAnswerTo(sent'[c], r)
               /\ c = d /\ r # None => c \in DOMAIN sent'
    <3>1. c \notin others
      BY <2>3, AddrAssumption
    <3>2. DOMAIN sent' = {d} \cup others /\ sent'[d] = x
      BY <2>3 DEF ReplyAnd
    <3>. QED
      BY <2>3, <3>1, <3>2
  <2>4. CASE a.action = "subscribe"
    <3>1. PICK id \in SubId : Subscribe(d, a.path, r, id)
      BY <1>2, <2>4 DEF HandleClientMessage
    <3>2. sent' = Reply(d, SubscribeSuccess(r, id)) /\ r # None
      BY <2>1, <2>4, <3>1 DEF Subscribe
    <3>. QED
      BY <2>2, <3>2, AnswerShapes
  <2>5. CASE a.action = "get"
    <3>1. Get(d, a.path, r) /\ r # None
      BY <1>2, <2>1, <2>5 DEF HandleClientMessage
    <3>. QED
      BY <2>2, <3>1, AnswerShapes DEF Get
  <2>6. CASE a.action = "set"
    <3>1. HandleSet(d, a.path, a.value, r) /\ r # None /\ a.path \in Path
      BY <1>2, <2>1, <2>6, ForwardedShape DEF HandleClientMessage
    <3>2. CASE SetForwarded(d, a.path, a.value, r)
      <4>1. set_recipients[Lower[a.path]] \in Recipient
        BY <3>1, <3>2, LowerKey DEF SetForwarded, IInv, TypeOK, ServerIInv,
           ServerTypeOK
      <4>. QED
        BY <2>3, <3>1, <3>2, <4>1, AnswerShapes DEF SetForwarded
    <3>. QED
      BY <2>2, <3>1, <3>2, AnswerShapes
      DEF HandleSet, SetWithoutRecipient, SetUndeliverable
  <2>7. CASE a.action = "unsubscribe"
    <3>. DEFINE id == a.subscription_id
    <3>1. Unsubscribe(d, r, id) /\ r # None /\ id \in SubId
      BY <1>2, <2>1, <2>7, ForwardedShape DEF HandleClientMessage
    <3>2. CASE UnsubscribeRefused(d, r, id)
      BY <2>2, <3>1, <3>2, AnswerShapes DEF UnsubscribeRefused
    <3>3. CASE UnsubscribeOwned(d, r, id)
      <4>1. subscription_id_to_subscription[id] # None
        BY <2>1, <3>1, <3>3
        DEF UnsubscribeOwned, ServerIInv, RegistryCoherent,
            OwnedAreRegistered, Registered
      <4>2. sent' = ReplyAnd(d, UnsubscribeSuccess(r, id), {id},
                             StopSubscription)
        BY <3>3, <4>1 DEF UnsubscribeOwned
      <4>. QED
        BY <2>3, <3>1, <4>2, AnswerShapes
    <3>. QED
      BY <3>1, <3>2, <3>3 DEF Unsubscribe
  <2>8. CASE a.action = "unsubscribeAll"
    <3>1. UnsubscribeAll(d, r) /\ OwnSubscriptions(d) \in SUBSET SubId
      BY <1>2, <2>1, <2>8
      DEF HandleClientMessage, OwnSubscriptions, ServerIInv, ServerTypeOK,
          TypeOK
    <3>2. CASE r = None
      <4>1. DOMAIN sent' = OwnSubscriptions(d)
        BY <3>1, <3>2 DEF UnsubscribeAll
      <4>2. c \notin DOMAIN sent'
        BY <3>1, <4>1, AddrAssumption
      <4>. QED
        BY <3>2, <4>2
    <3>3. CASE r # None
      <4>1. sent' = ReplyAnd(d, UnsubscribeAllSuccess(r), OwnSubscriptions(d),
                             StopSubscription)
        BY <3>1, <3>3 DEF UnsubscribeAll
      <4>. QED
        BY <2>3, <3>1, <3>3, <4>1, AnswerShapes
    <3>. QED
      BY <3>2, <3>3
  <2>. QED
    BY <1>2, <2>1, <2>4, <2>5, <2>6, <2>7, <2>8, ForwardedShape
<1>3. ASSUME HandleSourceMessage(m)
      PROVE  c \notin DOMAIN sent' /\ m.msg # "ClientMessage"
  <2>1. CASE m.msg = "UpdateSignal" /\ UpdateSignal(m.path, m.value)
    <3>1. DOMAIN sent' = Subscribers(m.path)
      BY <2>1 DEF UpdateSignal
    <3>2. Subscribers(m.path) \subseteq SubId
      BY <1>1, <2>1, LowerKey, MessageShape
      DEF Subscribers, ServerIInv, ServerTypeOK, TypeOK
    <3>. QED
      BY <2>1, <3>1, <3>2, AddrAssumption
  <2>2. CASE m.msg = "AddSetRecipient" /\ AddSetRecipient(m.path, m.recipient)
    BY <2>2 DEF AddSetRecipient, NoMessage
  <2>. QED
    BY <1>3, <2>1, <2>2 DEF HandleSourceMessage
<1>4. \/ m.msg = "ClientMessage" /\ HandleClientMessage(d, r, a)
      \/ HandleSourceMessage(m)
  BY DEF ManagerHandle
<1>. HIDE DEF m
<1>5. CASE m.msg = "ClientMessage" /\ HandleClientMessage(d, r, a)
  BY <1>2, <1>5 DEF Requesting, m
<1>6. CASE HandleSourceMessage(m)
  BY <1>3, <1>6 DEF Requesting, m
<1>. QED
  BY <1>4, <1>5, <1>6 DEF m

(***************************************************************************)
(* The invariant.  When a notification is sent, the acknowledgement is     *)
(* among what the client has received already, if it is still there: the   *)
(* actor is started by the step that acknowledges it.  That the client has *)
(* connected before keeps a later connection from missing it.              *)
(***************************************************************************)
Acknowledged(id) ==
  LET c == subscription[id].client_addr IN
  /\ session[c] # "absent"
  /\ session[c] = "running" => AckIn(Received(c), id)

FromConnected ==
  \A i \in 1..Len(manager_mailbox) :
    manager_mailbox[i].msg = "ClientMessage" =>
      session[manager_mailbox[i].client_addr] # "absent"

AckInv ==
  /\ \A c \in Client : InOrder(Received(c))
  /\ \A id \in SubId : Running(id) => Acknowledged(id)
  /\ FromConnected

Grows(c) ==
  /\ InOrder(Received(c))'
  /\ \A id \in SubId : AckIn(Received(c), id) => AckIn(Received(c), id)'

LEMMA AppendConnected ==
  ASSUME ServerTypeOK, FromConnected, NEW m \in ManagerMessage, ToManager(m),
         UNCHANGED session,
         m.msg = "ClientMessage" => session[m.client_addr] # "absent"
  PROVE  FromConnected'
<1>. DEFINE q == manager_mailbox
<1>1. /\ q \in Seq(ManagerMessage) /\ manager_mailbox' = Append(q, m)
  BY DEF ServerTypeOK, ToManager
<1>2. /\ Len(q) \in Nat /\ Len(Append(q, m)) = Len(q) + 1
      /\ \A i \in 1..Len(q) : Append(q, m)[i] = q[i]
      /\ Append(q, m)[Len(q) + 1] = m
  BY <1>1, AppendElements
<1>3. ASSUME NEW i \in 1..Len(Append(q, m))
      PROVE  Append(q, m)[i].msg = "ClientMessage" =>
               session[Append(q, m)[i].client_addr] # "absent"
  <2>1. CASE i = Len(q) + 1
    BY <1>2, <2>1
  <2>2. CASE i # Len(q) + 1
    <3>1. i \in 1..Len(q)
      BY <1>2, <2>2
    <3>. QED
      BY <1>2, <3>1 DEF FromConnected
  <2>. QED
    BY <2>1, <2>2
<1>. QED
  BY <1>1, <1>3 DEF FromConnected

(* A step that starts no subscription, and whose client stays connected.   *)
LEMMA GrowingKeeps ==
  ASSUME AckInv, \A c \in Client : Grows(c), UNCHANGED session, FromConnected',
         ServerTypeOK,
         \A id \in SubId :
           Running(id)' =>
             /\ Running(id)
             /\ subscription'[id].client_addr = subscription[id].client_addr
  PROVE  AckInv'
<1>1. ASSUME NEW id \in SubId, Running(id)' PROVE Acknowledged(id)'
  <2>1. Acknowledged(id) /\ subscription[id].client_addr \in Client
    BY <1>1 DEF AckInv, ServerTypeOK, Running, Actor
  <2>. QED
    BY <1>1, <2>1 DEF Acknowledged, Grows
<1>. QED
  BY <1>1 DEF AckInv, Grows

LEMMA SendAcknowledged ==
  ASSUME ServerIInv, AckInv, NEW id \in SubId, NEW s \in Actor, NEW over,
         s.latest_signal_value \in Value, Running(id),
         s.client_addr = subscription[id].client_addr,
         SendClientNotification(id, s, over),
         UNCHANGED <<wire, session, manager_mailbox>>
  PROVE  AckInv'
<1>. ServerTypeOK
  BY DEF ServerIInv
<1>1. ASSUME NEW d \in Client PROVE Grows(d)
  <2>1. CASE UNCHANGED Received(d)
    BY <2>1 DEF Grows, AckInv
  <2>2. CASE \E x \in NotificationOf(id) :
               d = s.client_addr /\ session[d] = "running" /\ Receives(d, x)
    <3>1. PICK x \in NotificationOf(id) :
            d = s.client_addr /\ session[d] = "running" /\ Receives(d, x)
      BY <2>2
    <3>2. x \in Text
      BY NotificationTexts DEF NotificationOf, Text
    <3>3. x.subscription_id = id
      BY DEF NotificationOf, Subscription, SubscriptionNotificationError
    <3>4. AckIn(Received(d), id)
      BY <3>1 DEF AckInv, Acknowledged
    <3>5. Received(d) \in Seq(Text) /\ InOrder(Received(d))
      BY ReceivedType DEF AckInv
    <3>. QED
      BY <3>1, <3>2, <3>3, <3>4, <3>5, InOrderAppend DEF Receives, Grows
  <2>. QED
    BY <2>1, <2>2, SubscriptionReceives
<1>2. subscription' \in [SubId -> Actor \cup {None}]
      /\ subscription'[id].client_addr = subscription[id].client_addr
      /\ \A i \in SubId \ {id} : subscription'[i] = subscription[i]
  <2>. DEFINE t == [s EXCEPT !.last_signal_value_client = s.latest_signal_value]
  <2>1. t.client_addr = s.client_addr
    BY DEF Actor
  <2>2. subscription'[id] = s \/ subscription'[id] = t
    BY DEF SendClientNotification, ServerTypeOK
  <2>. QED
    BY <2>1, <2>2, SendType DEF SendClientNotification, ServerTypeOK
<1>3. FromConnected'
  BY DEF AckInv, FromConnected
<1>. QED
  BY <1>1, <1>2, <1>3, GrowingKeeps DEF Running

LEMMA SubscriptionHandleAcknowledged ==
  ASSUME ServerIInv, AckInv, NEW id \in SubId, SubscriptionHandle(id)
  PROVE  AckInv'
<1>. DEFINE m == Head(subscription_mailbox[id])
<1>. ServerTypeOK
  BY DEF ServerIInv
<1>1. /\ Running(id) /\ subscription[id] \in Actor
      /\ m \in SubscriptionMessage
      /\ UNCHANGED <<wire, session, manager_mailbox>>
  BY MailboxHead
  DEF SubscriptionHandle, ServerIInv, ActorsCoherent, ServerTypeOK, Running
<1>2. FromConnected'
  BY <1>1 DEF AckInv, FromConnected
<1>3. CASE m.msg = "NotifySubscriber" /\ Notify(id, m.signal_value)
  <2>. DEFINE s == [subscription[id] EXCEPT !.latest_signal_value =
                      m.signal_value]
  <2>1. m.signal_value \in Value
    BY <1>1, <1>3
    DEF SubscriptionMessage, NotifySubscriber, StopSubscription
  <2>2. /\ s \in Actor /\ s.latest_signal_value \in Value
        /\ s.client_addr = subscription[id].client_addr
    BY <1>1, <2>1 DEF Actor
  <2>3. CASE SendClientNotification(id, s, TRUE)
    BY <1>1, <2>2, <2>3, SendAcknowledged
  <2>4. CASE /\ subscription' = [subscription EXCEPT ![id] = s]
             /\ UNCHANGED session_mailbox
    <3>1. \A c \in Client : Grows(c)
      BY <1>1, <2>4 DEF Grows, AckInv, Received
    <3>2. /\ subscription'[id].client_addr = subscription[id].client_addr
          /\ \A i \in SubId \ {id} : subscription'[i] = subscription[i]
      BY <2>2, <2>4 DEF ServerTypeOK
    <3>. QED
      BY <1>1, <1>2, <3>1, <3>2, GrowingKeeps DEF Running
  <2>. QED
    BY <1>3, <2>3, <2>4 DEF Notify
<1>4. CASE m.msg = "StopSubscription" /\ Stop(id)
  <2>1. \A c \in Client : Grows(c)
    BY <1>1, <1>4 DEF Grows, AckInv, Received, Stop
  <2>2. /\ subscription'[id] = None
        /\ \A i \in SubId \ {id} : subscription'[i] = subscription[i]
    BY <1>4 DEF Stop, ServerTypeOK
  <2>. QED
    BY <1>1, <1>2, <2>1, <2>2, GrowingKeeps DEF Running
<1>. QED
  BY <1>3, <1>4 DEF SubscriptionHandle

LEMMA TickAcknowledged ==
  ASSUME ServerIInv, AckInv, NEW id \in SubId, Tick(id)
  PROVE  AckInv'
<1>1. subscription[id] \in Actor /\ subscription[id].latest_signal_value \in Value
  BY DEF Tick, Running, ServerIInv, ServerTypeOK, Actor
<1>2. PICK over \in BOOLEAN : SendClientNotification(id, subscription[id], over)
  BY DEF Tick
<1>. QED
  BY <1>1, <1>2, SendAcknowledged DEF Tick

LEMMA ConnectAcknowledged ==
  ASSUME ServerIInv, AckInv, NEW c \in Client, Connect(c)
  PROVE  AckInv'
<1>1. /\ \A d \in Client : UNCHANGED Received(d)
      /\ UNCHANGED <<manager_mailbox, subscription>>
  BY DEF Connect, Received
<1>2. \A d \in Client :
        session[d] # "absent" => session'[d] = session[d]
  BY DEF Connect, ServerIInv, ServerTypeOK
<1>3. FromConnected'
  <2>1. \A i \in 1..Len(manager_mailbox) :
          manager_mailbox[i] \in ManagerMessage
    BY DEF ServerIInv, ServerTypeOK
  <2>. QED
    BY <1>1, <1>2, <2>1, MessageShape DEF FromConnected, AckInv
<1>4. ASSUME NEW id \in SubId, Running(id)' PROVE Acknowledged(id)'
  <2>1. Acknowledged(id) /\ subscription[id].client_addr \in Client
    BY <1>1, <1>4 DEF Running, AckInv, ServerIInv, ServerTypeOK, Actor
  <2>. QED
    BY <1>1, <1>2, <2>1 DEF Acknowledged
<1>. QED
  BY <1>1, <1>3, <1>4 DEF AckInv

LEMMA DisconnectAcknowledged ==
  ASSUME ServerIInv, AckInv, NEW c \in Client, Disconnect(c)
  PROVE  AckInv'
<1>. ServerTypeOK
  BY DEF ServerIInv
<1>1. /\ session'[c] = "stopped" /\ session_mailbox'[c] = <<>>
      /\ \A d \in Client \ {c} : /\ session'[d] = session[d]
                                 /\ session_mailbox'[d] = session_mailbox[d]
      /\ UNCHANGED <<wire, subscription>>
      /\ ToManager(CleanUp(c))
  BY DEF Disconnect, ServerTypeOK, CleanUp
<1>2. \A d \in Client : session[d] # "absent" => session'[d] # "absent"
  BY <1>1
<1>3. InOrder(Received(c))'
  <2>1. wire[c] \in Seq(Text) /\ session_mailbox[c] \in Seq(Text)
    BY ReceivedType
  <2>2. InOrder(wire[c])
    <3>. DEFINE u == wire[c]
                q == session_mailbox[c]
    <3>1. u \in Seq(Text) /\ q \in Seq(Text) /\ InOrder(u \o q)
      BY <2>1 DEF AckInv, Received
    <3>. HIDE DEF u, q
    <3>2. InOrder(u)
      BY <3>1, InOrderPrefix
    <3>. QED
      BY <3>2 DEF u
  <2>3. wire[c] \o <<>> = wire[c]
    BY <2>1, ConcatEmptySeq
  <2>. QED
    BY <1>1, <2>2, <2>3 DEF Received
<1>4. \A d \in Client \ {c} : UNCHANGED Received(d)
  BY <1>1 DEF Received
<1>5. FromConnected'
  <2>. DEFINE q == manager_mailbox
              m == CleanUp(c)
  <2>1. q \in Seq(ManagerMessage) /\ m \in ManagerMessage
    BY CleanUpShape DEF ServerTypeOK
  <2>2. m.client_addr = c
    BY CleanUpShape
  <2>3. manager_mailbox' = Append(q, m)
    BY <1>1 DEF ToManager
  <2>. HIDE DEF m
  <2>4. /\ Len(q) \in Nat /\ Len(Append(q, m)) = Len(q) + 1
        /\ \A i \in 1..Len(q) : Append(q, m)[i] = q[i]
        /\ Append(q, m)[Len(q) + 1] = m
    BY <2>1, AppendElements
  <2>5. ASSUME NEW i \in 1..Len(Append(q, m)),
               Append(q, m)[i].msg = "ClientMessage"
        PROVE  session'[Append(q, m)[i].client_addr] # "absent"
    <3>1. CASE i = Len(q) + 1
      BY <1>1, <2>2, <2>4, <3>1
    <3>2. CASE i # Len(q) + 1
      <4>1. i \in 1..Len(q) /\ q[i] \in ManagerMessage
        BY <2>1, <2>4, <3>2
      <4>2. q[i].client_addr \in Client /\ session[q[i].client_addr] # "absent"
        BY <2>4, <2>5, <4>1, MessageShape DEF AckInv, FromConnected
      <4>. QED
        BY <1>2, <2>4, <4>1, <4>2
    <3>. QED
      BY <3>1, <3>2
  <2>. QED
    BY <2>3, <2>5 DEF FromConnected
<1>6. ASSUME NEW id \in SubId, Running(id)' PROVE Acknowledged(id)'
  <2>1. Acknowledged(id) /\ subscription[id].client_addr \in Client
    BY <1>1, <1>6 DEF Running, AckInv, ServerTypeOK, Actor
  <2>. QED
    BY <1>1, <1>4, <2>1 DEF Acknowledged
<1>. QED
  BY <1>3, <1>4, <1>5, <1>6 DEF AckInv

LEMMA SessionHandleAcknowledged ==
  ASSUME ServerIInv, AckInv, NEW c \in Client, SessionHandle(c)
  PROVE  AckInv'
<1>1. \A d \in Client : UNCHANGED Received(d)
  BY SessionHandleReceives DEF ServerIInv
<1>2. UNCHANGED <<session, subscription, manager_mailbox>>
  BY DEF SessionHandle
<1>3. \A d \in Client : Grows(d)
  BY <1>1 DEF Grows, AckInv
<1>. QED
  BY <1>2, <1>3, GrowingKeeps DEF AckInv, FromConnected, Running, ServerIInv

LEMMA ReceiveTextAcknowledged ==
  ASSUME ServerIInv, AckInv, NEW c \in Client, NEW a \in Texts,
         ReceiveText(c, a)
  PROVE  AckInv'
<1>. DEFINE r == Len(requests) + 1
            m == ClientMessage(c, r, a)
<1>. ServerTypeOK
  BY DEF ServerIInv
<1>1. /\ r \in ReqId /\ session[c] = "running"
      /\ UNCHANGED <<session, subscription, session_mailbox>>
  BY BoundsAssumption DEF ReceiveText, ServerTypeOK
<1>2. \/ a \in Forwarded /\ ToManager(m) /\ UNCHANGED wire
      \/ /\ UNCHANGED manager_mailbox
         /\ \E x \in Text : ~IsNotification(x) /\ Write(c, x)
  <2>1. /\ AuthorizeError(r, NOT_IMPLEMENTED) \in Text
        /\ GetMetadataError(r, NOT_IMPLEMENTED) \in Text
        /\ BAD_REQUEST \in Text
    BY <1>1, SessionTexts DEF Text
  <2>2. /\ ~IsNotification(AuthorizeError(r, NOT_IMPLEMENTED))
        /\ ~IsNotification(GetMetadataError(r, NOT_IMPLEMENTED))
        /\ ~IsNotification(BAD_REQUEST)
    BY DEF IsNotification, Has, AuthorizeError, GetMetadataError, RequestError,
           BAD_REQUEST, KnownError
  <2>. QED
    BY <2>1, <2>2 DEF ReceiveText
<1>3. FromConnected'
  <2>1. CASE a \in Forwarded /\ ToManager(m)
    <3>1. /\ m \in ManagerMessage /\ m.client_addr = c
      BY <1>1, <2>1 DEF ManagerMessage, ClientMessage
    <3>. QED
      BY <1>1, <2>1, <3>1, AppendConnected DEF AckInv
  <2>2. CASE UNCHANGED manager_mailbox
    BY <1>1, <2>2 DEF AckInv, FromConnected
  <2>. QED
    BY <1>2, <2>1, <2>2
<1>4. ASSUME NEW d \in Client PROVE Grows(d)
  <2>1. CASE UNCHANGED wire
    BY <1>1, <2>1 DEF Grows, AckInv, Received
  <2>2. CASE \E x \in Text : ~IsNotification(x) /\ Write(c, x)
    <3>1. PICK x \in Text : ~IsNotification(x) /\ Write(c, x)
      BY <2>2
    <3>2. CASE d # c
      BY <1>1, <3>1, <3>2 DEF Write, ServerTypeOK, Grows, AckInv, Received
    <3>3. CASE d = c
      <4>. DEFINE u == wire[d]
                  q == session_mailbox[d]
      <4>1. u \in Seq(Text) /\ q \in Seq(Text) /\ InOrder(u \o q)
        BY ReceivedType DEF AckInv, Received
      <4>2. Received(d) = u \o q /\ Received(d)' = Append(u, x) \o q
        BY <1>1, <3>1, <3>3 DEF Write, ServerTypeOK, Received
      <4>. HIDE DEF u, q
      <4>3. /\ InOrder(Append(u, x) \o q)
            /\ \A id : AckIn(u \o q, id) => AckIn(Append(u, x) \o q, id)
        BY <3>1, <4>1, InOrderInsert
      <4>. QED
        BY <4>2, <4>3 DEF Grows
    <3>. QED
      BY <3>2, <3>3
  <2>. QED
    BY <1>2, <2>1, <2>2
<1>. QED
  BY <1>1, <1>3, <1>4, GrowingKeeps DEF Running

LEMMA TailConnected ==
  ASSUME ServerTypeOK, FromConnected, manager_mailbox # <<>>,
         manager_mailbox' = Tail(manager_mailbox), UNCHANGED session
  PROVE  FromConnected'
<1>. DEFINE q == manager_mailbox
<1>1. q \in Seq(ManagerMessage)
  BY DEF ServerTypeOK
<1>2. /\ Len(q) \in Nat \ {0} /\ Len(Tail(q)) = Len(q) - 1
      /\ \A i \in 1..(Len(q) - 1) : Tail(q)[i] = q[i + 1]
  BY <1>1, TailElements
<1>3. \A i \in 1..Len(Tail(q)) : i + 1 \in 1..Len(q) /\ Tail(q)[i] = q[i + 1]
  BY <1>2
<1>. QED
  BY <1>3 DEF FromConnected

LEMMA ManagerHandleAcknowledged ==
  ASSUME ServerIInv, AckInv, ManagerHandle
  PROVE  AckInv'
<1>. DEFINE m == Head(manager_mailbox)
            d == m.client_addr
            a == m.message
            r == m.request_id
<1>. ServerTypeOK
  BY DEF ServerIInv
<1>1. /\ UNCHANGED session /\ m \in ManagerMessage
      /\ manager_mailbox # <<>> /\ manager_mailbox' = Tail(manager_mailbox)
  BY MailboxHead DEF ManagerHandle, ServerTypeOK
<1>2. FromConnected'
  BY <1>1, TailConnected DEF AckInv
<1>3. ASSUME NEW c \in Client
      PROVE  /\ Grows(c)
             /\ \A id \in SubId :
                  /\ c \in DOMAIN sent' /\ session[c] = "running"
                  /\ IsAck(sent'[c], id)
                  => AckIn(Received(c), id)'
  <2>1. CASE c \in DOMAIN sent' /\ session[c] = "running"
    <3>1. sent'[c] \in Text /\ Receives(c, sent'[c])
      BY <2>1, ManagerReceives DEF Text
    <3>2. ~IsNotification(sent'[c])
      BY <2>1, ManagerAnswers DEF IsAnswerTo, IsNotification
    <3>3. Received(c) \in Seq(Text) /\ InOrder(Received(c))
      BY ReceivedType DEF AckInv
    <3>4. /\ InOrder(Append(Received(c), sent'[c]))
          /\ \A id : AckIn(Received(c), id) \/ IsAck(sent'[c], id)
                       => AckIn(Append(Received(c), sent'[c]), id)
      BY <3>1, <3>2, <3>3, InOrderAppend
    <3>. QED
      BY <3>1, <3>4 DEF Receives, Grows
  <2>2. CASE ~(c \in DOMAIN sent' /\ session[c] = "running")
    BY <2>2, ManagerReceives DEF Grows, AckInv
  <2>. QED
    BY <2>1, <2>2
<1>4. CASE UNCHANGED subscription
  BY <1>1, <1>2, <1>3, <1>4, GrowingKeeps DEF Running
<1>5. CASE /\ m.msg = "ClientMessage" /\ a.action = "subscribe"
           /\ \E id \in SubId : /\ Subscribe(d, a.path, r, id)
                                /\ StartSubscription(id, d, a.filters)
  <2>1. PICK id \in SubId : /\ Subscribe(d, a.path, r, id)
                            /\ StartSubscription(id, d, a.filters)
    BY <1>5
  <2>2. d \in Client /\ session[d] # "absent"
    <3>1. m = manager_mailbox[1] /\ 1 \in 1..Len(manager_mailbox)
      BY <1>1 DEF ServerTypeOK
    <3>. QED
      BY <1>1, <1>5, <3>1, MessageShape DEF AckInv, FromConnected
  <2>3. /\ subscription'[id].client_addr = d
        /\ \A i \in SubId \ {id} : subscription'[i] = subscription[i]
    BY <2>1 DEF StartSubscription, ServerTypeOK
  <2>4. d \in DOMAIN sent' /\ IsAck(sent'[d], id)
    <3>1. sent' = Reply(d, SubscribeSuccess(r, id))
      BY <2>1 DEF Subscribe
    <3>. QED
      BY <3>1, AnswerShapes DEF Reply
  <2>5. Acknowledged(id)'
    BY <1>1, <1>3, <2>2, <2>3, <2>4 DEF Acknowledged
  <2>6. ASSUME NEW i \in SubId \ {id}, Running(i)' PROVE Acknowledged(i)'
    <3>1. Acknowledged(i) /\ subscription[i].client_addr \in Client
      BY <2>3, <2>6 DEF Running, AckInv, ServerTypeOK, Actor
    <3>. QED
      BY <1>1, <1>3, <2>3, <2>6, <3>1 DEF Acknowledged, Grows
  <2>. QED
    BY <1>2, <1>3, <2>5, <2>6 DEF AckInv, Grows
<1>. QED
  BY <1>4, <1>5 DEF ManagerHandle, HandleClientMessage, HandleSourceMessage

LEMMA NextAcknowledged ==
  ServerIInv /\ AckInv /\ [ServerNext]_serverVars => AckInv'
<1>. SUFFICES ASSUME ServerIInv, AckInv, [ServerNext]_serverVars PROVE AckInv'
  OBVIOUS
<1>1. ASSUME UNCHANGED <<wire, session_mailbox, session, subscription>>,
             FromConnected'
      PROVE  AckInv'
  BY <1>1 DEF AckInv, Received, Acknowledged, Running
<1>2. CASE UNCHANGED serverVars
  BY <1>1, <1>2 DEF serverVars, actors, AckInv, FromConnected
<1>3. ASSUME NEW m \in ManagerMessage, m.msg # "ClientMessage", FromSource(m)
      PROVE  AckInv'
  BY <1>1, <1>3, AppendConnected DEF FromSource, AckInv, ServerIInv
<1>4. ASSUME NEW rcpt \in Recipient, StopRecipient(rcpt) PROVE AckInv'
  BY <1>1, <1>4 DEF StopRecipient, AckInv, FromConnected
<1>5. ASSUME NEW p \in Path, NEW v \in Value, SetSignal(p, v) PROVE AckInv'
  BY <1>3, <1>5, SourceShape DEF SetSignal
<1>6. ASSUME NEW p \in Path, NEW rcpt \in Recipient, RegisterRecipient(p, rcpt)
      PROVE  AckInv'
  BY <1>3, <1>6, SourceShape DEF RegisterRecipient
<1>. QED
  BY <1>2, <1>4, <1>5, <1>6, ConnectAcknowledged, DisconnectAcknowledged,
     SessionHandleAcknowledged, ReceiveTextAcknowledged,
     ManagerHandleAcknowledged, SubscriptionHandleAcknowledged,
     TickAcknowledged
  DEF ServerNext

(***************************************************************************)
(* A notification never precedes the acknowledgement of its subscription   *)
(* (signal_manager.rs, Handler<Subscribe>: the actor is started and the    *)
(* answer is sent by one handler, through the same session's mailbox).     *)
(***************************************************************************)
THEOREM AcknowledgementsComeFirst == ServerSpec => []AcknowledgedBeforeNotified
<1>1. ServerInit => AckInv
  BY DEF ServerInit, AckInv, InOrder, Received, FromConnected, Running
<1>2. ServerIInv /\ AckInv => AcknowledgedBeforeNotified
  <2>. SUFFICES ASSUME ServerIInv, AckInv, NEW c \in Client,
                       NEW i \in DOMAIN Received(c),
                       IsNotification(Received(c)[i])
                PROVE  \E j \in 1..(i - 1) :
                         IsAck(Received(c)[j], Received(c)[i].subscription_id)
    BY DEF AcknowledgedBeforeNotified, IsAck
  <2>1. DOMAIN Received(c) = 1..Len(Received(c))
    BY ReceivedType DEF ServerIInv
  <2>. QED
    BY <2>1 DEF AckInv, InOrder
<1>. QED
  BY <1>1, <1>2, NextAcknowledged, ServerInductive, PTL DEF ServerSpec

(***************************************************************************)
(* What a subscription believes its client was last sent.                  *)
(***************************************************************************)
IsNote(x, id) ==
  Has(x, "action") /\ x.action = "subscription" /\ x.subscription_id = id

NoneIn(s, id) == \A i \in 1..Len(s) : ~IsNote(s[i], id)

LastIn(s, id, v) ==
  \E i \in 1..Len(s) :
    /\ IsNote(s[i], id) /\ s[i].value = v
    /\ \A j \in 1..Len(s) : IsNote(s[j], id) => j <= i

Holds(s, id, v) == IF v = None THEN NoneIn(s, id) ELSE LastIn(s, id, v)

LEMMA NoteAppend ==
  ASSUME NEW s \in Seq(Text), NEW x \in Text, NEW id
  PROVE  /\ ~IsNote(x, id) => \A v : Holds(s, id, v) => Holds(Append(s, x), id, v)
         /\ IsNote(x, id) => LastIn(Append(s, x), id, x.value)
<1>. DEFINE t == Append(s, x)
            n == Len(s)
<1>1. /\ n \in Nat /\ Len(t) = n + 1
      /\ \A i \in 1..n : t[i] = s[i]
      /\ t[n + 1] = x
  BY AppendElements
<1>. HIDE DEF t, n
<1>2. \A i \in 1..Len(t) : i = n + 1 \/ (i \in 1..n /\ t[i] = s[i])
  BY <1>1
<1>3. \A i \in 1..n : i \in 1..Len(t)
  BY <1>1
<1>4. ASSUME ~IsNote(x, id), NoneIn(s, id) PROVE NoneIn(t, id)
  BY <1>1, <1>2, <1>4 DEF NoneIn, n
<1>5. ASSUME ~IsNote(x, id), NEW v, LastIn(s, id, v) PROVE LastIn(t, id, v)
  <2>1. PICK i \in 1..n :
          /\ IsNote(s[i], id) /\ s[i].value = v
          /\ \A j \in 1..n : IsNote(s[j], id) => j <= i
    BY <1>5 DEF LastIn, n
  <2>2. \A j \in 1..Len(t) : IsNote(t[j], id) => j <= i
    BY <1>1, <1>2, <1>5, <2>1
  <2>. QED
    BY <1>1, <1>3, <2>1, <2>2 DEF LastIn
<1>6. ASSUME IsNote(x, id) PROVE LastIn(t, id, x.value)
  <2>1. n + 1 \in 1..Len(t) /\ \A j \in 1..Len(t) : j <= n + 1
    BY <1>1
  <2>. QED
    BY <1>1, <1>6, <2>1 DEF LastIn
<1>. QED
  BY <1>4, <1>5, <1>6 DEF Holds, t

LEMMA NoteInsert ==
  ASSUME NEW u \in Seq(Text), NEW q \in Seq(Text), NEW x \in Text, NEW id, NEW v,
         ~IsNote(x, id), Holds(u \o q, id, v)
  PROVE  Holds(Append(u, x) \o q, id, v)
<1>. DEFINE s == u \o q
            t == Append(u, x) \o q
            n == Len(u)
            At(i) == IF i <= n THEN i ELSE i + 1
<1>1. /\ Len(s) \in Nat /\ n \in 0..Len(s) /\ Len(t) = Len(s) + 1
      /\ \A i \in 1..n : t[i] = s[i]
      /\ t[n + 1] = x
      /\ \A i \in (n + 1)..Len(s) : t[i + 1] = s[i]
  BY InsertElements, LenProperties
<1>. HIDE DEF s, t, n
<1>2. \A i \in 1..Len(s) : At(i) \in 1..Len(t) /\ t[At(i)] = s[i]
  BY <1>1
<1>3. ASSUME NEW j \in 1..Len(t), j # n + 1
      PROVE  \E i \in 1..Len(s) : j = At(i) /\ t[j] = s[i]
  <2>1. CASE j <= n
    BY <1>1, <2>1
  <2>2. CASE j > n + 1
    <3>1. j - 1 \in 1..Len(s) /\ j = At(j - 1)
      BY <1>1, <2>2
    <3>. QED
      BY <1>2, <3>1
  <2>. QED
    BY <1>1, <1>3, <2>1, <2>2
<1>4. \A i, j \in 1..Len(s) : i <= j => At(i) <= At(j)
  BY <1>1
<1>. HIDE DEF At
<1>5. CASE NoneIn(s, id)
  <2>1. NoneIn(t, id)
    BY <1>1, <1>3, <1>5 DEF NoneIn
  <2>2. v = None \/ ~LastIn(s, id, v)
    BY <1>5 DEF NoneIn, LastIn
  <2>. QED
    BY <2>1, <2>2 DEF Holds, s, t
<1>6. CASE v # None /\ LastIn(s, id, v)
  <2>1. PICK i \in 1..Len(s) :
          /\ IsNote(s[i], id) /\ s[i].value = v
          /\ \A j \in 1..Len(s) : IsNote(s[j], id) => j <= i
    BY <1>6 DEF LastIn
  <2>2. \A j \in 1..Len(t) : IsNote(t[j], id) => j <= At(i)
    BY <1>1, <1>3, <1>4, <2>1
  <2>. QED
    BY <1>2, <1>6, <2>1, <2>2 DEF LastIn, Holds, t
<1>. QED
  BY <1>5, <1>6 DEF Holds, s

(* The invariant: an id that is not issued is one nobody has heard of. *)
Believes(id) ==
  LET s == subscription[id] IN
  /\ session[s.client_addr] # "stopped" =>
       Holds(Received(s.client_addr), id, s.last_signal_value_client)
  /\ s.filters = None => s.last_signal_value_client = s.latest_signal_value

LastInv ==
  \A id \in SubId :
    /\ id \notin issued =>
         \A c \in Client : session[c] # "stopped" => NoneIn(Received(c), id)
    /\ Running(id) => Believes(id)

(* What a client has been sent of id, if it is still there, holds still. *)
HoldsStill(c, id) ==
  session'[c] # "stopped" =>
    /\ session[c] # "stopped"
    /\ \A v : Holds(Received(c), id, v) => Holds(Received(c), id, v)'

LEMMA StillBelieved ==
  ASSUME ServerIInv, LastInv, NEW id \in SubId,
         \A c \in Client : HoldsStill(c, id),
         id \in issued => id \in issued',
         Running(id)' =>
           /\ Running(id)
           /\ subscription'[id].client_addr = subscription[id].client_addr
           /\ subscription'[id].last_signal_value_client
                = subscription[id].last_signal_value_client
           /\ subscription'[id].filters = None =>
                /\ subscription[id].filters = None
                /\ subscription'[id].latest_signal_value
                     = subscription[id].latest_signal_value
  PROVE  /\ id \notin issued' =>
              \A c \in Client : session'[c] # "stopped" => NoneIn(Received(c), id)'
         /\ Running(id)' => Believes(id)'
<1>1. ASSUME id \notin issued', NEW c \in Client, session'[c] # "stopped"
      PROVE  NoneIn(Received(c), id)'
  <2>1. session[c] # "stopped" /\ Holds(Received(c), id, None)
    BY <1>1 DEF LastInv, HoldsStill, Holds
  <2>2. Holds(Received(c), id, None)'
    BY <1>1, <2>1 DEF HoldsStill
  <2>. QED
    BY <2>2 DEF Holds
<1>2. ASSUME Running(id)' PROVE Believes(id)'
  <2>1. /\ subscription[id].client_addr \in Client /\ Believes(id)
        /\ subscription'[id].client_addr = subscription[id].client_addr
        /\ subscription'[id].last_signal_value_client
             = subscription[id].last_signal_value_client
    BY <1>2 DEF LastInv, Running, ServerIInv, ServerTypeOK, Actor
  <2>2. PICK c \in Client : c = subscription[id].client_addr
    BY <2>1
  <2>3. PICK v : v = subscription[id].last_signal_value_client
    OBVIOUS
  <2>4. session'[c] # "stopped" => Holds(Received(c), id, v)'
    BY <2>1, <2>2, <2>3 DEF Believes, HoldsStill
  <2>. QED
    BY <1>2, <2>1, <2>2, <2>3, <2>4 DEF Believes
<1>. QED
  BY <1>1, <1>2

LEMMA ReceivingHolds ==
  ASSUME ServerTypeOK, NEW c \in Client, NEW id \in SubId,
         session'[c] # "stopped" => session[c] # "stopped",
         \/ session'[c] = "stopped"
         \/ UNCHANGED Received(c)
         \/ \E x \in Text : ~IsNote(x, id) /\ Receives(c, x)
  PROVE  HoldsStill(c, id)
<1>1. CASE session'[c] = "stopped" \/ UNCHANGED Received(c)
  BY <1>1 DEF HoldsStill, Holds, NoneIn, LastIn
<1>2. ASSUME NEW x \in Text, ~IsNote(x, id), Receives(c, x)
      PROVE  HoldsStill(c, id)
  <2>1. Received(c) \in Seq(Text)
    BY ReceivedType
  <2>2. \A v : Holds(Received(c), id, v) => Holds(Append(Received(c), x), id, v)
    BY <1>2, <2>1, NoteAppend
  <2>3. \A v : Holds(Append(Received(c), x), id, v) => Holds(Received(c), id, v)'
    BY <1>2 DEF Receives, Holds, NoneIn, LastIn
  <2>. QED
    BY <2>2, <2>3 DEF HoldsStill
<1>. QED
  BY <1>1, <1>2

(* The client's last notification and the belief change together. *)
LEMMA SendBelieved ==
  ASSUME ServerIInv, AckInv, LastInv, NEW id \in SubId, NEW s \in Actor, NEW over,
         s.latest_signal_value \in Value, Running(id),
         s.client_addr = subscription[id].client_addr,
         s.filters = subscription[id].filters,
         s.last_signal_value_client = subscription[id].last_signal_value_client,
         SendClientNotification(id, s, over),
         UNCHANGED <<wire, session, issued>>
  PROVE  LastInv'
<1>. DEFINE val == s.latest_signal_value
            c == s.client_addr
            t == [s EXCEPT !.last_signal_value_client = val]
            note == Subscription(id, val)
            failure == SubscriptionNotificationError(id, BAD_REQUEST_FILTER_INVALID)
<1>. ServerTypeOK
  BY DEF ServerIInv
<1>1. /\ c \in Client /\ t.client_addr = c /\ t.filters = s.filters
      /\ t.latest_signal_value = val /\ t.last_signal_value_client = val
      /\ val # None
  BY NoneAssumption DEF Actor
<1>2. /\ note \in Response /\ failure \in Response
      /\ IsNote(note, id) /\ note.value = val
      /\ ~IsNote(failure, id)
      /\ \A i \in SubId \ {id} : ~IsNote(note, i) /\ ~IsNote(failure, i)
  BY NotificationTexts
  DEF IsNote, Has, Subscription, SubscriptionNotificationError
<1>3. \A i \in SubId \ {id} : subscription'[i] = subscription[i]
  BY DEF SendClientNotification, ServerTypeOK
<1>4. \/ /\ subscription'[id] = t
         /\ session_mailbox' = ToSession(c, note)
      \/ /\ subscription'[id] = s
         /\ \/ session_mailbox' = ToSession(c, failure)
            \/ UNCHANGED session_mailbox
         /\ s.filters = None => s.last_signal_value_client = val
  BY DEF SendClientNotification, Outcome, IsNotANumber, Matches, ServerTypeOK
<1>5. ASSUME NEW x \in Response, session_mailbox' = ToSession(c, x),
             NEW d \in Client
      PROVE  IF d = c /\ session[d] = "running"
               THEN Receives(d, x) ELSE UNCHANGED Received(d)
  BY <1>1, <1>5, SessionReceives
<1>. HIDE DEF note, failure, t, c, val
<1>. DEFINE Notifies == /\ subscription'[id] = t
                        /\ session_mailbox' = ToSession(c, note)
<1>6. ASSUME NEW d \in Client, NEW i \in SubId, i # id \/ d # c \/ ~Notifies
      PROVE  HoldsStill(d, i)
  <2>1. \/ UNCHANGED Received(d)
        \/ Receives(d, failure)
        \/ Receives(d, note) /\ i # id
    <3>1. CASE Notifies
      BY <1>2, <1>5, <1>6, <3>1
    <3>2. CASE session_mailbox' = ToSession(c, failure)
      BY <1>2, <1>5, <3>2
    <3>3. CASE UNCHANGED session_mailbox
      BY <3>3 DEF Received
    <3>. QED
      BY <1>4, <3>1, <3>2, <3>3
  <2>2. note \in Text /\ failure \in Text
    BY <1>2 DEF Text
  <2>3. ~IsNote(failure, i) /\ (i # id => ~IsNote(note, i))
    BY <1>2
  <2>. QED
    BY <2>1, <2>2, <2>3, ReceivingHolds
<1>7. ASSUME NEW i \in SubId \ {id}
      PROVE  /\ i \notin issued' =>
                  \A d \in Client : session'[d] # "stopped" => NoneIn(Received(d), i)'
             /\ Running(i)' => Believes(i)'
  <2>1. i \in SubId /\ \A d \in Client : HoldsStill(d, i)
    BY <1>6
  <2>2. subscription'[i] = subscription[i] /\ (i \in issued => i \in issued')
    BY <1>3
  <2>. QED
    BY <2>1, <2>2, StillBelieved DEF Running
<1>8. id \in issued'
  BY DEF ServerIInv, ActorsCoherent
<1>9. Believes(id)'
  <2>1. session[c] # "absent" /\ Believes(id)
    BY DEF AckInv, Acknowledged, LastInv, c
  <2>2. CASE Notifies
    <3>1. ASSUME session[c] = "running" PROVE Holds(Received(c), id, val)'
      <4>1. Receives(c, note)
        BY <1>1, <1>2, <1>5, <2>2, <3>1
      <4>2. Received(c) \in Seq(Text) /\ note \in Text
        BY <1>1, <1>2, ReceivedType DEF Text
      <4>3. LastIn(Append(Received(c), note), id, val)
        BY <1>2, <4>2, NoteAppend
      <4>. QED
        BY <1>1, <4>1, <4>3 DEF Holds, Receives, LastIn
    <3>2. session[c] \in {"running", "stopped"}
      BY <1>1, <2>1 DEF ServerTypeOK
    <3>. QED
      BY <1>1, <2>2, <3>1, <3>2 DEF Believes
  <2>3. CASE ~Notifies
    <3>1. /\ subscription'[id] = s
          /\ s.filters = None => s.last_signal_value_client = val
      BY <1>4, <2>3
    <3>2. HoldsStill(c, id)
      BY <1>1, <1>6, <2>3, <3>1
    <3>3. PICK v : v = s.last_signal_value_client
      OBVIOUS
    <3>4. session[c] # "stopped" => Holds(Received(c), id, v)
      BY <2>1, <3>3 DEF Believes, c
    <3>5. session'[c] # "stopped" => Holds(Received(c), id, v)'
      BY <3>2, <3>4 DEF HoldsStill
    <3>. QED
      BY <1>1, <3>1, <3>3, <3>5 DEF Believes, c, val
  <2>. QED
    BY <2>2, <2>3
<1>. QED
  BY <1>7, <1>8, <1>9 DEF LastInv

LEMMA SubscriptionHandleBelieved ==
  ASSUME ServerIInv, AckInv, LastInv, NEW id \in SubId, SubscriptionHandle(id)
  PROVE  LastInv'
<1>. DEFINE m == Head(subscription_mailbox[id])
<1>. ServerTypeOK
  BY DEF ServerIInv
<1>1. /\ Running(id) /\ subscription[id] \in Actor
      /\ m \in SubscriptionMessage
      /\ UNCHANGED <<wire, session, issued>>
  BY MailboxHead
  DEF SubscriptionHandle, ServerIInv, ActorsCoherent, ServerTypeOK, Running,
      vars, maps
<1>2. ASSUME UNCHANGED session_mailbox,
             \A i \in SubId \ {id} : subscription'[i] = subscription[i],
             Running(id)' =>
               /\ subscription'[id].client_addr = subscription[id].client_addr
               /\ subscription'[id].last_signal_value_client
                    = subscription[id].last_signal_value_client
               /\ subscription'[id].filters # None
      PROVE  LastInv'
  <2>1. ASSUME NEW i \in SubId
        PROVE  /\ i \notin issued' =>
                    \A d \in Client :
                      session'[d] # "stopped" => NoneIn(Received(d), i)'
               /\ Running(i)' => Believes(i)'
    <3>1. \A d \in Client : UNCHANGED Received(d)
      BY <1>1, <1>2 DEF Received
    <3>2. \A d \in Client : HoldsStill(d, i)
      BY <1>1, <3>1, ReceivingHolds
    <3>3. i \in issued => i \in issued'
      BY <1>1
    <3>. QED
      BY <1>1, <1>2, <3>2, <3>3, StillBelieved DEF Running
  <2>. QED
    BY <2>1 DEF LastInv
<1>3. CASE m.msg = "NotifySubscriber" /\ Notify(id, m.signal_value)
  <2>. DEFINE s == [subscription[id] EXCEPT !.latest_signal_value =
                      m.signal_value]
  <2>1. m.signal_value \in Value
    BY <1>1, <1>3
    DEF SubscriptionMessage, NotifySubscriber, StopSubscription
  <2>2. /\ s \in Actor /\ s.latest_signal_value \in Value
        /\ s.client_addr = subscription[id].client_addr
        /\ s.filters = subscription[id].filters
        /\ s.last_signal_value_client
             = subscription[id].last_signal_value_client
    BY <1>1, <2>1 DEF Actor
  <2>3. \/ SendClientNotification(id, s, TRUE)
        \/ /\ HasInterval(s)
           /\ subscription' = [subscription EXCEPT ![id] = s]
           /\ UNCHANGED session_mailbox
    BY <1>3 DEF Notify
  <2>. HIDE DEF s
  <2>4. CASE SendClientNotification(id, s, TRUE)
    BY <1>1, <2>2, <2>4, SendBelieved
  <2>5. CASE /\ HasInterval(s)
             /\ subscription' = [subscription EXCEPT ![id] = s]
             /\ UNCHANGED session_mailbox
    <3>1. subscription'[id] = s /\ s.filters # None
      BY <2>5 DEF HasInterval, ServerTypeOK
    <3>. QED
      BY <1>2, <2>2, <2>5, <3>1 DEF ServerTypeOK
  <2>. QED
    BY <2>3, <2>4, <2>5
<1>4. CASE m.msg = "StopSubscription" /\ Stop(id)
  BY <1>2, <1>4 DEF Stop, Running, ServerTypeOK
<1>. QED
  BY <1>3, <1>4 DEF SubscriptionHandle

LEMMA TickBelieved ==
  ASSUME ServerIInv, AckInv, LastInv, NEW id \in SubId, Tick(id)
  PROVE  LastInv'
<1>1. subscription[id] \in Actor /\ subscription[id].latest_signal_value \in Value
  BY DEF Tick, Running, ServerIInv, ServerTypeOK, Actor
<1>2. PICK over \in BOOLEAN : SendClientNotification(id, subscription[id], over)
  BY DEF Tick
<1>3. Running(id) /\ UNCHANGED <<wire, session, issued>>
  BY DEF Tick, vars, maps
<1>. QED
  BY <1>1, <1>2, <1>3, SendBelieved

(* A subscription starts with nothing sent, under an id that is new. *)
LEMMA ManagerHandleBelieved ==
  ASSUME ServerIInv, AckInv, LastInv, ManagerHandle
  PROVE  LastInv'
<1>. DEFINE m == Head(manager_mailbox)
            c == m.client_addr
            a == m.message
            r == m.request_id
<1>. ServerTypeOK
  BY DEF ServerIInv
<1>1. UNCHANGED session
  BY DEF ManagerHandle
<1>2. ASSUME NEW d \in Client, NEW id \in SubId PROVE HoldsStill(d, id)
  <2>1. CASE d \in DOMAIN sent' /\ session[d] = "running"
    <3>1. sent'[d] \in Text /\ Receives(d, sent'[d])
      BY <2>1, ManagerReceives DEF Text
    <3>2. ~IsNote(sent'[d], id)
      BY <2>1, ManagerAnswers DEF IsAnswerTo, IsNote
    <3>. QED
      BY <1>1, <3>1, <3>2, ReceivingHolds
  <2>2. CASE ~(d \in DOMAIN sent' /\ session[d] = "running")
    BY <1>1, <2>2, ManagerReceives, ReceivingHolds
  <2>. QED
    BY <2>1, <2>2
<1>3. CASE UNCHANGED <<subscription, issued>>
  <2>1. ASSUME NEW id \in SubId
        PROVE  /\ id \notin issued' =>
                    \A d \in Client :
                      session'[d] # "stopped" => NoneIn(Received(d), id)'
               /\ Running(id)' => Believes(id)'
    <3>1. id \in issued => id \in issued'
      BY <1>3
    <3>. QED
      BY <1>2, <1>3, <3>1, StillBelieved DEF Running
  <2>. QED
    BY <2>1 DEF LastInv
<1>4. ASSUME NEW new \in SubId,
             Subscribe(c, a.path, r, new), StartSubscription(new, c, a.filters)
      PROVE  LastInv'
  <2>1. new \notin issued /\ issued' = issued \cup {new}
    BY <1>4 DEF Subscribe
  <2>2. /\ subscription'[new].client_addr = c
        /\ subscription'[new].latest_signal_value = None
        /\ subscription'[new].last_signal_value_client = None
        /\ \A i \in SubId \ {new} : subscription'[i] = subscription[i]
    BY <1>4 DEF StartSubscription, ServerTypeOK
  <2>3. ASSUME NEW id \in SubId \ {new}
        PROVE  /\ id \notin issued' =>
                    \A d \in Client :
                      session'[d] # "stopped" => NoneIn(Received(d), id)'
               /\ Running(id)' => Believes(id)'
    <3>1. /\ id \in SubId /\ (id \in issued => id \in issued')
          /\ subscription'[id] = subscription[id]
      BY <2>1, <2>2
    <3>. QED
      BY <1>2, <3>1, StillBelieved DEF Running
  <2>4. Believes(new)'
    <3>1. c \in Client
      <4>1. m \in ManagerMessage /\ m.msg = "ClientMessage"
        <5>1. m \in ManagerMessage
          BY MailboxHead DEF ManagerHandle, ServerTypeOK
        <5>2. CASE m.msg = "ClientMessage"
          BY <5>1, <5>2
        <5>3. CASE m.msg # "ClientMessage"
          BY <2>1, <5>3
          DEF ManagerHandle, HandleSourceMessage, UpdateSignal, AddSetRecipient
        <5>. QED
          BY <5>2, <5>3
      <4>. QED
        BY <4>1, MessageShape
    <3>2. PICK d \in Client : d = c
      BY <3>1
    <3>3. session'[d] # "stopped" => Holds(Received(d), new, None)'
      BY <1>2, <2>1, <3>2 DEF LastInv, HoldsStill, Holds
    <3>. QED
      BY <2>2, <3>2, <3>3 DEF Believes
  <2>. QED
    BY <2>1, <2>3, <2>4 DEF LastInv
<1>5. CASE HandleSourceMessage(m)
  BY <1>3, <1>5 DEF HandleSourceMessage, UpdateSignal, AddSetRecipient
<1>6. CASE m.msg = "ClientMessage" /\ HandleClientMessage(c, r, a)
  BY <1>3, <1>4, <1>6
  DEF HandleClientMessage, HandleSet, Get, SetWithoutRecipient,
      SetForwarded, SetUndeliverable, Unsubscribe, UnsubscribeRefused,
      UnsubscribeOwned, UnsubscribeAll, maps
<1>. QED
  BY <1>5, <1>6 DEF ManagerHandle

LEMMA ReceiveTextBelieved ==
  ASSUME ServerIInv, LastInv, NEW c \in Client, NEW a \in Texts,
         ReceiveText(c, a)
  PROVE  \A d \in Client, id \in SubId : HoldsStill(d, id)
<1>. DEFINE r == Len(requests) + 1
<1>. ServerTypeOK
  BY DEF ServerIInv
<1>1. r \in ReqId /\ UNCHANGED <<session, session_mailbox>>
  BY BoundsAssumption DEF ReceiveText, ServerTypeOK
<1>2. \/ UNCHANGED wire
      \/ \E x \in Text : Write(c, x) /\ \A id \in SubId : ~IsNote(x, id)
  <2>1. /\ AuthorizeError(r, NOT_IMPLEMENTED) \in Text
        /\ GetMetadataError(r, NOT_IMPLEMENTED) \in Text
        /\ BAD_REQUEST \in Text
    BY <1>1, SessionTexts DEF Text
  <2>2. \A id \in SubId :
          /\ ~IsNote(AuthorizeError(r, NOT_IMPLEMENTED), id)
          /\ ~IsNote(GetMetadataError(r, NOT_IMPLEMENTED), id)
          /\ ~IsNote(BAD_REQUEST, id)
    BY DEF IsNote, Has, AuthorizeError, GetMetadataError, RequestError,
           BAD_REQUEST, KnownError
  <2>. QED
    BY <2>1, <2>2 DEF ReceiveText
<1>3. ASSUME NEW d \in Client, NEW id \in SubId PROVE HoldsStill(d, id)
  <2>1. CASE UNCHANGED Received(d)
    BY <1>1, <2>1, ReceivingHolds
  <2>2. ASSUME NEW x \in Text, Write(c, x), ~IsNote(x, id), d = c
        PROVE  HoldsStill(d, id)
    <3>. DEFINE u == wire[d]
                q == session_mailbox[d]
    <3>1. /\ u \in Seq(Text) /\ q \in Seq(Text)
          /\ Received(d) = u \o q /\ Received(d)' = Append(u, x) \o q
      BY <1>1, <2>2, ReceivedType DEF Write, ServerTypeOK, Received
    <3>. HIDE DEF u, q
    <3>2. \A v : Holds(u \o q, id, v) => Holds(Append(u, x) \o q, id, v)
      BY <2>2, <3>1, NoteInsert
    <3>3. \A v : Holds(Append(u, x) \o q, id, v) => Holds(Received(d), id, v)'
      BY <3>1 DEF Holds, NoneIn, LastIn
    <3>. QED
      BY <1>1, <3>1, <3>2, <3>3 DEF HoldsStill
  <2>. QED
    BY <1>1, <1>2, <2>1, <2>2 DEF Write, ServerTypeOK, Received
<1>. QED
  BY <1>3

LEMMA NextBelieved ==
  ServerIInv /\ AckInv /\ LastInv /\ [ServerNext]_serverVars => LastInv'
<1>. SUFFICES ASSUME ServerIInv, AckInv, LastInv, [ServerNext]_serverVars
              PROVE  LastInv'
  OBVIOUS
<1>. ServerTypeOK
  BY DEF ServerIInv
<1>1. ASSUME UNCHANGED <<subscription, issued>>,
             \A c \in Client, id \in SubId : HoldsStill(c, id)
      PROVE  LastInv'
  <2>1. ASSUME NEW id \in SubId
        PROVE  /\ id \notin issued' =>
                    \A d \in Client :
                      session'[d] # "stopped" => NoneIn(Received(d), id)'
               /\ Running(id)' => Believes(id)'
    <3>1. id \in issued => id \in issued'
      BY <1>1
    <3>. QED
      BY <1>1, <3>1, StillBelieved DEF Running
  <2>. QED
    BY <2>1 DEF LastInv
<1>2. ASSUME UNCHANGED <<vars, subscription>>,
             \A c \in Client :
               /\ session'[c] # "stopped" => session[c] # "stopped"
               /\ session'[c] = "stopped" \/ UNCHANGED Received(c)
      PROVE  LastInv'
  <2>1. \A c \in Client, id \in SubId : HoldsStill(c, id)
    BY <1>2, ReceivingHolds
  <2>. QED
    BY <1>1, <1>2, <2>1 DEF vars, maps
<1>3. ASSUME UNCHANGED <<vars, subscription, session, wire, session_mailbox>>
      PROVE  LastInv'
  BY <1>2, <1>3 DEF Received
<1>4. CASE UNCHANGED serverVars
  BY <1>3, <1>4 DEF serverVars, actors
<1>5. ASSUME NEW m, FromSource(m) PROVE LastInv'
  BY <1>3, <1>5 DEF FromSource
<1>6. ASSUME NEW rcpt \in Recipient, StopRecipient(rcpt) PROVE LastInv'
  BY <1>3, <1>6 DEF StopRecipient
<1>7. ASSUME NEW c \in Client, Connect(c) PROVE LastInv'
  BY <1>2, <1>7 DEF Connect, ServerTypeOK, Received
<1>8. ASSUME NEW c \in Client, Disconnect(c) PROVE LastInv'
  BY <1>2, <1>8 DEF Disconnect, ServerTypeOK, Received
<1>9. ASSUME NEW c \in Client, SessionHandle(c) PROVE LastInv'
  <2>1. \A d \in Client : UNCHANGED Received(d)
    BY <1>9, SessionHandleReceives
  <2>. QED
    BY <1>2, <1>9, <2>1 DEF SessionHandle
<1>10. ASSUME NEW c \in Client, NEW a \in Texts, ReceiveText(c, a)
       PROVE  LastInv'
  <2>1. \A d \in Client, id \in SubId : HoldsStill(d, id)
    BY <1>10, ReceiveTextBelieved
  <2>. QED
    BY <1>1, <1>10, <2>1 DEF ReceiveText, vars, maps
<1>. QED
  BY <1>4, <1>5, <1>6, <1>7, <1>8, <1>9, <1>10, ManagerHandleBelieved,
     SubscriptionHandleBelieved, TickBelieved
  DEF ServerNext, SetSignal, RegisterRecipient

(***************************************************************************)
(* What a running subscription believes its client was last sent is what   *)
(* the client was last sent, and without filters that is the latest value  *)
(* (signal_manager.rs, Subscription::send_client_notification, which       *)
(* remembers a value in the step that sends it).                           *)
(***************************************************************************)
THEOREM ClientsHaveLastValue == ServerSpec => []ClientHasLastValue
<1>1. ServerInit => AckInv /\ LastInv
  <2>1. ServerInit => AckInv
    BY DEF ServerInit, AckInv, InOrder, Received, FromConnected, Running
  <2>2. ServerInit => LastInv
    BY DEF ServerInit, LastInv, NoneIn, Received, Running
  <2>. QED
    BY <2>1, <2>2
<1>2. ASSUME ServerIInv, LastInv, NEW id \in SubId, Running(id)
      PROVE  LET s == subscription[id]
                 sent_to_client == NotificationsOf(s.client_addr, id) IN
             /\ session[s.client_addr] = "running" =>
                  IF s.last_signal_value_client = None
                    THEN sent_to_client = {}
                    ELSE \E i \in sent_to_client :
                           /\ \A j \in sent_to_client : j <= i
                           /\ Received(s.client_addr)[i].value
                                = s.last_signal_value_client
             /\ s.filters = None =>
                  s.last_signal_value_client = s.latest_signal_value
  <2>1. Believes(id) /\ subscription[id].client_addr \in Client
    BY <1>2 DEF LastInv, Running, ServerIInv, ServerTypeOK, Actor
  <2>2. PICK c \in Client : c = subscription[id].client_addr
    BY <2>1
  <2>3. NotificationsOf(c, id) = {i \in 1..Len(Received(c)) : IsNote(Received(c)[i], id)}
    <3>1. DOMAIN Received(c) = 1..Len(Received(c))
      BY <1>2, ReceivedType DEF ServerIInv
    <3>. QED
      BY <3>1 DEF NotificationsOf, IsNote
  <2>. QED
    BY <2>1, <2>2, <2>3 DEF Believes, Holds, NoneIn, LastIn
<1>3. ServerIInv /\ LastInv => ClientHasLastValue
  BY <1>2 DEF ClientHasLastValue
<1>. QED
  BY <1>1, <1>3, NextAcknowledged, NextBelieved, ServerInductive, PTL
  DEF ServerSpec

(***************************************************************************)
(* Requests: each is in one place, and the manager answers those of a      *)
(* client in their order.                                                  *)
(***************************************************************************)
Elements(s) == {s[i] : i \in 1..Len(s)}

HasId(x) == Has(x, "request_id")

(* The answers of the manager; the session gives the others by itself. *)
InTurn(x) == HasId(x) /\ x.action \notin {"authorize", "getMetadata"}

IdsDiffer(s) ==
  \A i, j \in 1..Len(s) :
    i # j /\ HasId(s[i]) /\ HasId(s[j]) => s[i].request_id # s[j].request_id

InTurnAscends(s) ==
  \A i, j \in 1..Len(s) :
    i < j /\ InTurn(s[i]) /\ InTurn(s[j]) => s[i].request_id < s[j].request_id

(***************************************************************************)
(* Sequences of texts.                                                     *)
(***************************************************************************)
LEMMA IdsAppend ==
  ASSUME NEW s \in Seq(Text), NEW x \in Text, IdsDiffer(s), InTurnAscends(s),
         \A y \in Elements(s) :
           /\ HasId(x) /\ HasId(y) => y.request_id # x.request_id
           /\ InTurn(x) /\ InTurn(y) => y.request_id < x.request_id
  PROVE  /\ IdsDiffer(Append(s, x)) /\ InTurnAscends(Append(s, x))
         /\ Elements(Append(s, x)) = Elements(s) \cup {x}
<1>. DEFINE t == Append(s, x)
            n == Len(s)
<1>1. /\ n \in Nat /\ Len(t) = n + 1
      /\ \A i \in 1..n : t[i] = s[i]
      /\ t[n + 1] = x
  BY AppendElements
<1>. HIDE DEF t, n
<1>2. \A i \in 1..n : t[i] \in Elements(s)
  BY <1>1 DEF Elements, n
<1>3. ASSUME NEW i \in 1..Len(t), NEW j \in 1..Len(t), i < j
      PROVE  /\ HasId(t[i]) /\ HasId(t[j]) => t[i].request_id # t[j].request_id
             /\ InTurn(t[i]) /\ InTurn(t[j]) => t[i].request_id < t[j].request_id
  <2>1. i \in 1..n /\ t[i] = s[i]
    BY <1>1, <1>3
  <2>2. CASE j = n + 1
    BY <1>1, <1>2, <2>1, <2>2
  <2>3. CASE j # n + 1
    <3>1. j \in 1..n /\ t[j] = s[j] /\ i # j
      BY <1>1, <1>3, <2>3
    <3>. QED
      BY <1>3, <2>1, <3>1 DEF IdsDiffer, InTurnAscends, n
  <2>. QED
    BY <2>2, <2>3
<1>4. IdsDiffer(t)
  <2>. SUFFICES ASSUME NEW i \in 1..Len(t), NEW j \in 1..Len(t), i # j,
                       HasId(t[i]), HasId(t[j])
                PROVE  t[i].request_id # t[j].request_id
    BY DEF IdsDiffer
  <2>1. i < j \/ j < i
    BY <1>1
  <2>. QED
    BY <1>3, <2>1
<1>5. InTurnAscends(t)
  BY <1>3 DEF InTurnAscends
<1>6. Elements(t) = Elements(s) \cup {x}
  <2>1. 1..(n + 1) = (1..n) \cup {n + 1}
    BY <1>1
  <2>. QED
    BY <1>1, <2>1 DEF Elements, n
<1>. QED
  BY <1>4, <1>5, <1>6 DEF t

(* A text the session writes: ahead of what is in its mailbox. *)
LEMMA IdsInsert ==
  ASSUME NEW u \in Seq(Text), NEW q \in Seq(Text), NEW x \in Text,
         IdsDiffer(u \o q), InTurnAscends(u \o q), ~InTurn(x),
         \A y \in Elements(u \o q) :
           HasId(x) /\ HasId(y) => y.request_id # x.request_id
  PROVE  /\ IdsDiffer(Append(u, x) \o q) /\ InTurnAscends(Append(u, x) \o q)
         /\ Elements(Append(u, x) \o q) = Elements(u \o q) \cup {x}
<1>. DEFINE s == u \o q
            t == Append(u, x) \o q
            n == Len(u)
            From(i) == IF i <= n THEN i ELSE i - 1
<1>1. /\ s \in Seq(Text) /\ n \in 0..Len(s) /\ Len(t) = Len(s) + 1
      /\ \A i \in 1..n : t[i] = s[i]
      /\ t[n + 1] = x
      /\ \A i \in (n + 1)..Len(s) : t[i + 1] = s[i]
  BY InsertElements
<1>2. Len(s) \in Nat
  BY <1>1
<1>. HIDE DEF s, t, n
<1>3. ASSUME NEW i \in 1..Len(t), i # n + 1
      PROVE  From(i) \in 1..Len(s) /\ t[i] = s[From(i)]
  <2>1. CASE i <= n
    BY <1>1, <1>2, <2>1
  <2>2. CASE i > n + 1
    <3>1. i - 1 \in (n + 1)..Len(s) /\ (i - 1) + 1 = i /\ ~(i <= n)
      BY <1>1, <1>2, <2>2
    <3>2. t[(i - 1) + 1] = s[i - 1]
      BY <1>1, <3>1
    <3>. QED
      BY <1>1, <1>2, <3>1, <3>2
  <2>. QED
    BY <1>1, <1>2, <1>3, <2>1, <2>2
<1>4. ASSUME NEW i \in 1..Len(t), NEW j \in 1..Len(t), i < j,
             i # n + 1, j # n + 1
      PROVE  From(i) < From(j)
  BY <1>1, <1>2, <1>4
<1>5. \A i \in 1..Len(t) : i # n + 1 => t[i] \in Elements(s)
  BY <1>3 DEF Elements
<1>6. ASSUME NEW i \in 1..Len(t), NEW j \in 1..Len(t), i < j
      PROVE  /\ HasId(t[i]) /\ HasId(t[j]) => t[i].request_id # t[j].request_id
             /\ InTurn(t[i]) /\ InTurn(t[j]) => t[i].request_id < t[j].request_id
  <2>1. CASE i = n + 1
    <3>1. j # n + 1
      BY <1>1, <1>2, <1>6, <2>1
    <3>. QED
      BY <1>1, <1>5, <2>1, <3>1 DEF s
  <2>2. CASE j = n + 1
    <3>1. i # n + 1
      BY <1>1, <1>2, <1>6, <2>2
    <3>. QED
      BY <1>1, <1>5, <2>2, <3>1 DEF s
  <2>3. CASE i # n + 1 /\ j # n + 1
    <3>. DEFINE k == From(i)
                l == From(j)
    <3>1. /\ k \in 1..Len(s) /\ l \in 1..Len(s)
          /\ t[i] = s[k] /\ t[j] = s[l] /\ k < l
      BY <1>3, <1>4, <1>6, <2>3
    <3>. HIDE DEF k, l, From
    <3>2. k # l
      BY <1>2, <3>1
    <3>. QED
      BY <3>1, <3>2 DEF IdsDiffer, InTurnAscends, s
  <2>. QED
    BY <2>1, <2>2, <2>3
<1>. HIDE DEF From
<1>7. IdsDiffer(t)
  <2>. SUFFICES ASSUME NEW i \in 1..Len(t), NEW j \in 1..Len(t), i # j,
                       HasId(t[i]), HasId(t[j])
                PROVE  t[i].request_id # t[j].request_id
    BY DEF IdsDiffer
  <2>1. i < j \/ j < i
    BY <1>1, <1>2
  <2>. QED
    BY <1>6, <2>1
<1>8. InTurnAscends(t)
  BY <1>6 DEF InTurnAscends
<1>9. Elements(t) = Elements(s) \cup {x}
  <2>1. n + 1 \in 1..Len(t) /\ t[n + 1] = x
    BY <1>1, <1>2
  <2>2. \A k \in 1..Len(s) : \E i \in 1..Len(t) : t[i] = s[k]
    <3>. TAKE k \in 1..Len(s)
    <3>1. CASE k <= n
      <4>1. k \in 1..Len(t) /\ k \in 1..n
        BY <1>1, <1>2, <3>1
      <4>. QED
        BY <1>1, <4>1
    <3>2. CASE k > n
      <4>1. k + 1 \in 1..Len(t) /\ k \in (n + 1)..Len(s)
        BY <1>1, <1>2, <3>2
      <4>. QED
        BY <1>1, <4>1
    <3>. QED
      BY <1>1, <1>2, <3>1, <3>2
  <2>. QED
    BY <1>5, <2>1, <2>2 DEF Elements
<1>. QED
  BY <1>7, <1>8, <1>9 DEF s, t

(* What is left when the mailbox of a session is dropped. *)
LEMMA IdsPrefix ==
  ASSUME NEW u \in Seq(Text), NEW q \in Seq(Text),
         IdsDiffer(u \o q), InTurnAscends(u \o q)
  PROVE  IdsDiffer(u) /\ InTurnAscends(u) /\ Elements(u) \subseteq Elements(u \o q)
<1>. DEFINE s == u \o q
            n == Len(u)
<1>1. /\ n \in Nat /\ Len(q) \in Nat /\ Len(s) = n + Len(q)
      /\ \A i \in 1..(n + Len(q)) :
           s[i] = IF i <= n THEN u[i] ELSE q[i - n]
  BY ConcatProperties, LenProperties
<1>. HIDE DEF s, n
<1>2. \A i \in 1..n : i \in 1..Len(s) /\ s[i] = u[i]
  BY <1>1
<1>3. IdsDiffer(u)
  BY <1>2 DEF IdsDiffer, s, n
<1>4. InTurnAscends(u)
  BY <1>2 DEF InTurnAscends, s, n
<1>5. Elements(u) \subseteq Elements(s)
  BY <1>2 DEF Elements, n
<1>. QED
  BY <1>3, <1>4, <1>5 DEF s

(***************************************************************************)
(* The invariant.  Ids are given out in order, and every number has one    *)
(* text: queued, or received by the client that sent the request.  What    *)
(* the manager has answered a client is older than what is queued.         *)
(***************************************************************************)
Numbered(m) == m.msg = "ClientMessage" /\ m.request_id # None

Known(r, c) == r \in 1..Len(requests) /\ requests[r].client = c

QueueAscends(q) ==
  \A i, j \in 1..Len(q) :
    i < j /\ Numbered(q[i]) /\ Numbered(q[j]) => q[i].request_id < q[j].request_id

QueueInv ==
  /\ \A m \in Elements(manager_mailbox) :
       Numbered(m) => Known(m.request_id, m.client_addr)
  /\ QueueAscends(manager_mailbox)

Precedes(x, m) ==
  HasId(x) /\ Numbered(m) =>
    /\ x.request_id # m.request_id
    /\ InTurn(x) => x.request_id < m.request_id

ReceivedInv(c) ==
  /\ IdsDiffer(Received(c)) /\ InTurnAscends(Received(c))
  /\ \A x \in Elements(Received(c)) :
       /\ HasId(x) => Known(x.request_id, c)
       /\ \A m \in Elements(manager_mailbox) : Precedes(x, m)

Accounted(r) ==
  \/ session[requests[r].client] # "running"
  \/ requests[r].action = "malformed"
  \/ \E m \in Elements(manager_mailbox) : Numbered(m) /\ m.request_id = r
  \/ \E x \in Elements(Received(requests[r].client)) :
       HasId(x) /\ x.request_id = r

RequestInv ==
  /\ Len(requests) <= MaxRequests
  /\ QueueInv
  /\ \A c \in Client : ReceivedInv(c)
  /\ \A r \in 1..Len(requests) :
       session[requests[r].client] # "absent" /\ Accounted(r)

LEMMA RequestShape ==
  ASSUME ServerTypeOK, NEW r \in 1..Len(requests)
  PROVE  requests[r].client \in Client
<1>. DEFINE S == [client : Client, action : {a.action : a \in Texts}]
<1>1. requests \in Seq(S)
  BY DEF ServerTypeOK
<1>. HIDE DEF S
<1>2. requests[r] \in S
  BY <1>1
<1>. QED
  BY <1>2 DEF S

(* What is queued when a message is appended. *)
LEMMA QueueAppend ==
  ASSUME NEW q \in Seq(ManagerMessage), NEW m \in ManagerMessage,
         QueueAscends(q),
         \A k \in Elements(q) :
           Numbered(k) /\ Numbered(m) => k.request_id < m.request_id
  PROVE  /\ QueueAscends(Append(q, m))
         /\ Elements(Append(q, m)) = Elements(q) \cup {m}
<1>. DEFINE t == Append(q, m)
            n == Len(q)
<1>1. /\ n \in Nat /\ Len(t) = n + 1
      /\ \A i \in 1..n : t[i] = q[i]
      /\ t[n + 1] = m
  BY AppendElements
<1>. HIDE DEF t, n
<1>2. ASSUME NEW i \in 1..Len(t), NEW j \in 1..Len(t), i < j,
             Numbered(t[i]), Numbered(t[j])
      PROVE  t[i].request_id < t[j].request_id
  <2>1. i \in 1..n /\ t[i] = q[i] /\ t[i] \in Elements(q)
    BY <1>1, <1>2 DEF Elements, n
  <2>2. CASE j = n + 1
    BY <1>1, <1>2, <2>1, <2>2
  <2>3. CASE j # n + 1
    <3>1. j \in 1..n /\ t[j] = q[j]
      BY <1>1, <2>3
    <3>. QED
      BY <1>2, <2>1, <3>1 DEF QueueAscends, n
  <2>. QED
    BY <2>2, <2>3
<1>3. Elements(t) = Elements(q) \cup {m}
  <2>1. 1..(n + 1) = (1..n) \cup {n + 1}
    BY <1>1
  <2>. QED
    BY <1>1, <2>1 DEF Elements, n
<1>. QED
  BY <1>2, <1>3 DEF QueueAscends, t

(* What is queued when the manager has taken the first message. *)
LEMMA QueueTail ==
  ASSUME NEW q \in Seq(ManagerMessage), q # <<>>, QueueAscends(q)
  PROVE  /\ QueueAscends(Tail(q))
         /\ Elements(q) = Elements(Tail(q)) \cup {Head(q)}
         /\ \A k \in Elements(Tail(q)) :
              Numbered(Head(q)) /\ Numbered(k) =>
                Head(q).request_id < k.request_id
<1>. DEFINE t == Tail(q)
            n == Len(q)
<1>1. /\ n \in Nat \ {0} /\ Len(t) = n - 1
      /\ \A i \in 1..(n - 1) : t[i] = q[i + 1]
      /\ Head(q) = q[1]
  BY TailElements
<1>. HIDE DEF t, n
<1>2. \A i \in 1..Len(t) : i + 1 \in 1..n /\ 1 < i + 1 /\ t[i] = q[i + 1]
  BY <1>1
<1>3. QueueAscends(t)
  <2>. SUFFICES ASSUME NEW i \in 1..Len(t), NEW j \in 1..Len(t), i < j,
                       Numbered(t[i]), Numbered(t[j])
                PROVE  t[i].request_id < t[j].request_id
    BY DEF QueueAscends
  <2>1. i + 1 < j + 1
    BY <1>1
  <2>. QED
    BY <1>2, <2>1 DEF QueueAscends, n
<1>4. Elements(q) = Elements(t) \cup {Head(q)}
  <2>1. \A i \in 1..n : i = 1 \/ (i - 1 \in 1..Len(t) /\ t[i - 1] = q[i])
    <3>. TAKE i \in 1..n
    <3>1. i # 1 => i - 1 \in 1..(n - 1) /\ (i - 1) + 1 = i
      BY <1>1
    <3>. QED
      BY <1>1, <3>1
  <2>2. 1 \in 1..n
    BY <1>1
  <2>. QED
    BY <1>1, <1>2, <2>1, <2>2 DEF Elements, n
<1>5. ASSUME NEW k \in Elements(t), Numbered(Head(q)), Numbered(k)
      PROVE  Head(q).request_id < k.request_id
  <2>1. PICK i \in 1..Len(t) : k = t[i]
    BY DEF Elements
  <2>2. 1 \in 1..n
    BY <1>1
  <2>. QED
    BY <1>1, <1>2, <1>5, <2>1, <2>2 DEF QueueAscends, n
<1>. QED
  BY <1>3, <1>4, <1>5 DEF t

(***************************************************************************)
(* A step that neither numbers a request nor answers one: a client         *)
(* receives nothing, a text without an id, or, when its session stops, no  *)
(* longer what the mailbox of the session holds.                           *)
(***************************************************************************)
ReceivesNoAnswer(c) ==
  \/ UNCHANGED Received(c)
  \/ \E x \in Text : ~HasId(x) /\ Receives(c, x)
  \/ /\ session'[c] = "stopped"
     /\ \E u, q \in Seq(Text) : Received(c) = u \o q /\ Received(c)' = u

LEMMA QuietRequests ==
  ASSUME ServerTypeOK, RequestInv, UNCHANGED requests,
         \/ UNCHANGED manager_mailbox
         \/ \E m \in ManagerMessage : ~Numbered(m) /\ ToManager(m),
         \A c \in Client :
           /\ session[c] # "absent" => session'[c] \in {session[c], "stopped"}
           /\ ReceivesNoAnswer(c)
  PROVE  RequestInv'
<1>1. /\ QueueAscends(manager_mailbox)'
      /\ Elements(manager_mailbox) \subseteq Elements(manager_mailbox)'
      /\ \A m \in Elements(manager_mailbox)' :
           m \in Elements(manager_mailbox) \/ ~Numbered(m)
  <2>1. CASE UNCHANGED manager_mailbox
    BY <2>1 DEF RequestInv, QueueInv
  <2>2. CASE \E m \in ManagerMessage : ~Numbered(m) /\ ToManager(m)
    <3>1. PICK m \in ManagerMessage : ~Numbered(m) /\ ToManager(m)
      BY <2>2
    <3>2. /\ manager_mailbox \in Seq(ManagerMessage)
          /\ QueueAscends(manager_mailbox)
      BY DEF ServerTypeOK, RequestInv, QueueInv
    <3>3. /\ QueueAscends(Append(manager_mailbox, m))
          /\ Elements(Append(manager_mailbox, m))
               = Elements(manager_mailbox) \cup {m}
      BY <3>1, <3>2, QueueAppend
    <3>. QED
      BY <3>1, <3>3 DEF ToManager
  <2>. QED
    BY <2>1, <2>2
<1>2. ASSUME NEW c \in Client
      PROVE  /\ IdsDiffer(Received(c))' /\ InTurnAscends(Received(c))'
             /\ \A x \in Elements(Received(c))' :
                  x \in Elements(Received(c)) \/ ~HasId(x)
             /\ \/ session'[c] = "stopped"
                \/ Elements(Received(c)) \subseteq Elements(Received(c))'
  <2>1. /\ Received(c) \in Seq(Text)
        /\ IdsDiffer(Received(c)) /\ InTurnAscends(Received(c))
    BY ReceivedType DEF RequestInv, ReceivedInv
  <2>2. CASE UNCHANGED Received(c)
    BY <2>1, <2>2
  <2>3. CASE \E x \in Text : ~HasId(x) /\ Receives(c, x)
    <3>1. PICK x \in Text : ~HasId(x) /\ Receives(c, x)
      BY <2>3
    <3>2. /\ IdsDiffer(Append(Received(c), x))
          /\ InTurnAscends(Append(Received(c), x))
          /\ Elements(Append(Received(c), x)) = Elements(Received(c)) \cup {x}
      BY <2>1, <3>1, IdsAppend DEF InTurn
    <3>. QED
      BY <3>1, <3>2 DEF Receives
  <2>4. CASE /\ session'[c] = "stopped"
             /\ \E u, q \in Seq(Text) : Received(c) = u \o q /\ Received(c)' = u
    BY <2>1, <2>4, IdsPrefix
  <2>. QED
    BY <2>2, <2>3, <2>4 DEF ReceivesNoAnswer
<1>3. QueueInv'
  BY <1>1 DEF RequestInv, QueueInv, Known
<1>4. ASSUME NEW c \in Client PROVE ReceivedInv(c)'
  BY <1>1, <1>2 DEF RequestInv, ReceivedInv, Known, Precedes
<1>5. ASSUME NEW r \in 1..Len(requests)
      PROVE  session'[requests[r].client] # "absent" /\ Accounted(r)'
  <2>1. /\ requests[r].client \in Client /\ Accounted(r)
        /\ session[requests[r].client] # "absent"
    BY RequestShape DEF RequestInv
  <2>. QED
    BY <1>1, <1>2, <2>1 DEF Accounted
<1>. QED
  BY <1>3, <1>4, <1>5 DEF RequestInv

(* A request has the next number; it is queued, or the session answers.    *)
LEMMA ReceiveTextRequests ==
  ASSUME ServerTypeOK, RequestInv, NEW c \in Client, NEW a \in Texts,
         ReceiveText(c, a)
  PROVE  RequestInv'
<1>0. PICK r \in Nat : r = Len(requests) + 1
  BY LenProperties DEF ServerTypeOK
<1>. DEFINE m == ClientMessage(c, r, a)
            S == [client : Client, action : {b.action : b \in Texts}]
            new == [client |-> c, action |-> a.action]
<1>1. /\ requests \in Seq(S) /\ new \in S /\ requests' = Append(requests, new)
      /\ r <= MaxRequests /\ session[c] = "running"
      /\ UNCHANGED <<session, session_mailbox>>
  BY <1>0 DEF ReceiveText, ServerTypeOK
<1>2. /\ Len(requests) \in Nat /\ Len(requests)' = r
      /\ \A i \in 1..Len(requests) : requests'[i] = requests[i]
      /\ requests'[r].client = c /\ requests'[r].action = a.action
  <2>. HIDE DEF S
  <2>1. /\ Len(requests) \in Nat /\ Len(Append(requests, new)) = Len(requests) + 1
        /\ \A i \in 1..Len(requests) : Append(requests, new)[i] = requests[i]
        /\ Append(requests, new)[Len(requests) + 1] = new
    <3>. HIDE DEF new
    <3>. QED
      BY <1>1, AppendElements
  <2>. QED
    BY <1>0, <1>1, <2>1
<1>3. r \in ReqId /\ r # None
  BY <1>1, <1>2, BoundsAssumption, NoneAssumption
<1>4. \/ a \in Forwarded /\ ToManager(m) /\ UNCHANGED wire
      \/ /\ UNCHANGED manager_mailbox
         /\ \E x \in Text :
              /\ Write(c, x) /\ ~InTurn(x)
              /\ HasId(x) => x.request_id = r
              /\ HasId(x) \/ a.action = "malformed"
  <2>1. /\ AuthorizeError(r, NOT_IMPLEMENTED) \in Text
        /\ GetMetadataError(r, NOT_IMPLEMENTED) \in Text
        /\ BAD_REQUEST \in Text
    BY <1>3, SessionTexts DEF Text
  <2>2. \A x \in {AuthorizeError(r, NOT_IMPLEMENTED),
                  GetMetadataError(r, NOT_IMPLEMENTED)} :
          ~InTurn(x) /\ HasId(x) /\ x.request_id = r
    BY DEF InTurn, HasId, Has, AuthorizeError, GetMetadataError, RequestError
  <2>3. ~HasId(BAD_REQUEST) /\ Malformed.action = "malformed"
    BY DEF HasId, Has, BAD_REQUEST, KnownError, Malformed
  <2>4. \/ a \in Forwarded /\ ToManager(m) /\ UNCHANGED wire
        \/ /\ UNCHANGED manager_mailbox
           /\ \/ Write(c, AuthorizeError(r, NOT_IMPLEMENTED))
              \/ Write(c, GetMetadataError(r, NOT_IMPLEMENTED))
              \/ a = Malformed /\ Write(c, BAD_REQUEST)
    BY <1>0 DEF ReceiveText
  <2>. QED
    BY <2>1, <2>2, <2>3, <2>4 DEF InTurn
<1>. HIDE DEF S, new
<1>5. \A k, d : Known(k, d) => Known(k, d)' /\ k < r
  BY <1>0, <1>2 DEF Known
<1>6. Known(r, c)'
  BY <1>0, <1>2 DEF Known
<1>7. CASE a \in Forwarded /\ ToManager(m) /\ UNCHANGED wire
  <2>1. m \in ManagerMessage
    BY <1>3, <1>7 DEF ManagerMessage, ClientMessage
  <2>2. /\ manager_mailbox \in Seq(ManagerMessage)
        /\ QueueAscends(manager_mailbox)
        /\ \A k \in Elements(manager_mailbox) :
             Numbered(k) => Known(k.request_id, k.client_addr)
    BY DEF ServerTypeOK, RequestInv, QueueInv
  <2>3. Numbered(m) /\ m.request_id = r /\ m.client_addr = c
    BY <1>3 DEF Numbered, ClientMessage
  <2>. HIDE DEF m
  <2>4. /\ QueueAscends(manager_mailbox)'
        /\ Elements(manager_mailbox)' = Elements(manager_mailbox) \cup {m}
    BY <1>5, <1>7, <2>1, <2>2, <2>3, QueueAppend DEF ToManager
  <2>5. \A d \in Client : UNCHANGED Received(d)
    BY <1>1, <1>7 DEF Received
  <2>6. QueueInv'
    BY <1>5, <1>6, <2>2, <2>3, <2>4 DEF QueueInv
  <2>7. ASSUME NEW d \in Client PROVE ReceivedInv(d)'
    <3>1. \A x \in Elements(Received(d)) : HasId(x) => Known(x.request_id, d)
      BY DEF RequestInv, ReceivedInv
    <3>2. \A x \in Elements(Received(d)) : Precedes(x, m)
      <4>. TAKE x \in Elements(Received(d))
      <4>1. HasId(x) => x.request_id \in Int /\ x.request_id < r
        BY <1>5, <3>1 DEF Known
      <4>2. r \in Int
        BY <1>0
      <4>. QED
        BY <2>3, <4>1, <4>2 DEF Precedes
    <3>. QED
      BY <1>5, <2>4, <2>5, <3>1, <3>2 DEF RequestInv, ReceivedInv
  <2>8. ASSUME NEW i \in 1..Len(requests)'
        PROVE  session'[requests'[i].client] # "absent" /\ Accounted(i)'
    <3>1. CASE i = r
      BY <1>1, <1>2, <2>3, <2>4, <3>1 DEF Accounted
    <3>2. CASE i # r
      <4>1. i \in 1..Len(requests) /\ requests'[i] = requests[i]
        BY <1>0, <1>2, <3>2
      <4>2. /\ requests[i].client \in Client /\ Accounted(i)
            /\ session[requests[i].client] # "absent"
        BY <4>1, RequestShape DEF RequestInv
      <4>. QED
        BY <1>1, <2>4, <2>5, <4>1, <4>2 DEF Accounted
    <3>. QED
      BY <3>1, <3>2
  <2>. QED
    BY <1>1, <1>2, <2>6, <2>7, <2>8 DEF RequestInv
<1>8. CASE /\ UNCHANGED manager_mailbox
           /\ \E x \in Text :
                /\ Write(c, x) /\ ~InTurn(x)
                /\ HasId(x) => x.request_id = r
                /\ HasId(x) \/ a.action = "malformed"
  <2>1. PICK x \in Text : /\ Write(c, x) /\ ~InTurn(x)
                          /\ HasId(x) => x.request_id = r
                          /\ HasId(x) \/ a.action = "malformed"
    BY <1>8
  <2>2. \A d \in Client \ {c} : UNCHANGED Received(d)
    BY <1>1, <2>1 DEF Write, ServerTypeOK, Received
  <2>3. /\ IdsDiffer(Received(c))' /\ InTurnAscends(Received(c))'
        /\ Elements(Received(c))' = Elements(Received(c)) \cup {x}
    <3>. DEFINE u == wire[c]
                q == session_mailbox[c]
    <3>1. u \in Seq(Text) /\ q \in Seq(Text)
      BY ReceivedType
    <3>2. Received(c) = u \o q /\ Received(c)' = Append(u, x) \o q
      BY <1>1, <2>1 DEF Write, ServerTypeOK, Received
    <3>3. \A y \in Elements(Received(c)) :
            HasId(x) /\ HasId(y) => y.request_id # x.request_id
      <4>. TAKE y \in Elements(Received(c))
      <4>1. HasId(y) => y.request_id \in Int /\ y.request_id < r
        BY <1>5 DEF RequestInv, ReceivedInv, Known
      <4>2. r \in Int
        BY <1>0
      <4>. QED
        BY <2>1, <4>1, <4>2
    <3>4. IdsDiffer(Received(c)) /\ InTurnAscends(Received(c))
      BY DEF RequestInv, ReceivedInv
    <3>. HIDE DEF u, q
    <3>5. /\ IdsDiffer(Append(u, x) \o q) /\ InTurnAscends(Append(u, x) \o q)
          /\ Elements(Append(u, x) \o q) = Elements(u \o q) \cup {x}
      BY <2>1, <3>1, <3>2, <3>3, <3>4, IdsInsert
    <3>. QED
      BY <3>2, <3>5
  <2>4. QueueInv'
    BY <1>5, <1>8 DEF RequestInv, QueueInv
  <2>5. ASSUME NEW d \in Client PROVE ReceivedInv(d)'
    <3>1. CASE d # c
      BY <1>5, <1>8, <2>2, <3>1 DEF RequestInv, ReceivedInv
    <3>2. CASE d = c
      <4>1. HasId(x) => Known(x.request_id, c)'
        BY <1>6, <2>1
      <4>2. \A k \in Elements(manager_mailbox) : Precedes(x, k)
        <5>. TAKE k \in Elements(manager_mailbox)
        <5>1. Numbered(k) => k.request_id \in Int /\ k.request_id < r
          BY <1>5 DEF RequestInv, QueueInv, Known
        <5>2. r \in Int
          BY <1>0
        <5>. QED
          BY <2>1, <5>1, <5>2 DEF Precedes
      <4>3. /\ \A y \in Elements(Received(c)) :
                 /\ HasId(y) => Known(y.request_id, c)'
                 /\ \A k \in Elements(manager_mailbox) : Precedes(y, k)
        BY <1>5 DEF RequestInv, ReceivedInv
      <4>. QED
        BY <1>8, <2>3, <3>2, <4>1, <4>2, <4>3 DEF ReceivedInv
    <3>. QED
      BY <3>1, <3>2
  <2>6. ASSUME NEW i \in 1..Len(requests)'
        PROVE  session'[requests'[i].client] # "absent" /\ Accounted(i)'
    <3>1. CASE i = r
      BY <1>1, <1>2, <2>1, <2>3, <3>1 DEF Accounted
    <3>2. CASE i # r
      <4>1. i \in 1..Len(requests) /\ requests'[i] = requests[i]
        BY <1>0, <1>2, <3>2
      <4>2. /\ requests[i].client \in Client /\ Accounted(i)
            /\ session[requests[i].client] # "absent"
        BY <4>1, RequestShape DEF RequestInv
      <4>. QED
        BY <1>1, <1>8, <2>2, <2>3, <4>1, <4>2 DEF Accounted
    <3>. QED
      BY <3>1, <3>2
  <2>. QED
    BY <1>1, <1>2, <2>4, <2>5, <2>6 DEF RequestInv
<1>. QED
  BY <1>4, <1>7, <1>8

(* The oldest request queued is answered: the answer follows all of its    *)
(* client's.                                                               *)
LEMMA ManagerHandleRequests ==
  ASSUME ServerIInv, RequestInv, ManagerHandle
  PROVE  RequestInv'
<1>. DEFINE m == Head(manager_mailbox)
<1>. ServerTypeOK
  BY DEF ServerIInv
<1>1. /\ manager_mailbox \in Seq(ManagerMessage) /\ manager_mailbox # <<>>
      /\ manager_mailbox' = Tail(manager_mailbox)
      /\ UNCHANGED <<session, requests>> /\ m \in ManagerMessage
  BY MailboxHead DEF ManagerHandle, ServerTypeOK
<1>2. /\ QueueAscends(manager_mailbox)'
      /\ Elements(manager_mailbox) = Elements(manager_mailbox)' \cup {m}
      /\ \A k \in Elements(manager_mailbox)' :
           Numbered(m) /\ Numbered(k) => m.request_id < k.request_id
  BY <1>1, QueueTail DEF RequestInv, QueueInv
<1>3. /\ \A k \in Elements(manager_mailbox) :
           Numbered(k) => Known(k.request_id, k.client_addr)
      /\ \A k, d : Known(k, d)' <=> Known(k, d)
  BY <1>1 DEF RequestInv, QueueInv, Known
<1>4. ASSUME NEW c \in Client
      PROVE  \/ /\ UNCHANGED Received(c)
                /\ ~(Numbered(m) /\ m.client_addr = c /\ session[c] = "running")
             \/ /\ Numbered(m) /\ m.client_addr = c
                /\ \E x \in Text : /\ HasId(x) /\ x.request_id = m.request_id
                                   /\ Receives(c, x)
  <2>1. CASE c \in DOMAIN sent' /\ session[c] = "running"
    <3>1. sent'[c] \in Text /\ Receives(c, sent'[c])
      BY <2>1, ManagerReceives DEF Text
    <3>2. /\ Requesting(m, c, m.request_id)
          /\ IsAnswerTo(sent'[c], m.request_id)
      BY <2>1, ManagerAnswers
    <3>. QED
      BY <3>1, <3>2 DEF Requesting, IsAnswerTo, Numbered, HasId
  <2>2. CASE ~(c \in DOMAIN sent' /\ session[c] = "running")
    BY <2>2, ManagerReceives, ManagerAnswers DEF Requesting, Numbered
  <2>. QED
    BY <2>1, <2>2
<1>. HIDE DEF m
<1>5. ASSUME NEW c \in Client
      PROVE  /\ ReceivedInv(c)'
             /\ Elements(Received(c)) \subseteq Elements(Received(c))'
  <2>1. CASE UNCHANGED Received(c)
    BY <1>2, <1>3, <2>1 DEF RequestInv, ReceivedInv
  <2>2. CASE /\ Numbered(m) /\ m.client_addr = c
             /\ \E x \in Text : /\ HasId(x) /\ x.request_id = m.request_id
                                /\ Receives(c, x)
    <3>1. PICK x \in Text : /\ HasId(x) /\ x.request_id = m.request_id
                            /\ Receives(c, x)
      BY <2>2
    <3>2. /\ Received(c) \in Seq(Text) /\ IdsDiffer(Received(c))
          /\ InTurnAscends(Received(c))
          /\ \A y \in Elements(Received(c)) :
               /\ HasId(y) => Known(y.request_id, c)
               /\ \A k \in Elements(manager_mailbox) : Precedes(y, k)
      BY ReceivedType DEF RequestInv, ReceivedInv
    <3>3. \A y \in Elements(Received(c)) : Precedes(y, m)
      BY <1>2, <3>2
    <3>4. /\ IdsDiffer(Append(Received(c), x))
          /\ InTurnAscends(Append(Received(c), x))
          /\ Elements(Append(Received(c), x)) = Elements(Received(c)) \cup {x}
      BY <2>2, <3>1, <3>2, <3>3, IdsAppend DEF Precedes, InTurn
    <3>5. Known(x.request_id, c)'
      BY <1>2, <1>3, <2>2, <3>1
    <3>6. \A k \in Elements(manager_mailbox)' : Precedes(x, k)
      <4>. TAKE k \in Elements(manager_mailbox)'
      <4>1. Numbered(k) => m.request_id \in Int /\ k.request_id \in Int
        BY <1>2, <1>3, <2>2 DEF Known
      <4>2. Numbered(k) => m.request_id < k.request_id
        BY <1>2, <2>2
      <4>. QED
        BY <3>1, <4>1, <4>2 DEF Precedes
    <3>. QED
      BY <1>2, <1>3, <3>1, <3>2, <3>4, <3>5, <3>6 DEF Receives, ReceivedInv
  <2>. QED
    BY <1>4, <2>1, <2>2
<1>6. QueueInv'
  BY <1>2, <1>3 DEF QueueInv
<1>7. ASSUME NEW r \in 1..Len(requests)
      PROVE  session[requests[r].client] # "absent" /\ Accounted(r)'
  <2>. DEFINE c == requests[r].client
  <2>1. c \in Client /\ Accounted(r) /\ session[c] # "absent"
    BY RequestShape DEF RequestInv
  <2>2. CASE Numbered(m) /\ m.request_id = r /\ session[c] = "running"
    <3>1. m.client_addr = c
      BY <1>2, <1>3, <2>2 DEF Known
    <3>2. PICK x \in Text : /\ HasId(x) /\ x.request_id = r /\ Receives(c, x)
      BY <1>4, <2>1, <2>2, <3>1
    <3>3. x \in Elements(Received(c))'
      <4>1. Received(c) \in Seq(Text)
        BY <2>1, ReceivedType
      <4>. DEFINE s == Received(c)
                  n == Len(s) + 1
      <4>. HIDE DEF s
      <4>2. /\ Append(s, x)[n] = x /\ n \in 1..Len(Append(s, x))
        BY <4>1, AppendElements DEF s
      <4>. QED
        BY <3>2, <4>2 DEF Receives, Elements, s
    <3>. QED
      BY <1>1, <2>1, <3>2, <3>3 DEF Accounted
  <2>3. CASE ~(Numbered(m) /\ m.request_id = r /\ session[c] = "running")
    BY <1>1, <1>2, <1>5, <2>1, <2>3 DEF Accounted
  <2>. QED
    BY <2>2, <2>3
<1>. QED
  BY <1>1, <1>5, <1>6, <1>7 DEF RequestInv

LEMMA DisconnectRequests ==
  ASSUME ServerTypeOK, RequestInv, NEW c \in Client, Disconnect(c)
  PROVE  RequestInv'
<1>1. /\ ~Numbered(CleanUp(c)) /\ CleanUp(c) \in ManagerMessage
      /\ ToManager(CleanUp(c))
  BY CleanUpShape DEF Disconnect, Numbered, CleanUp
<1>2. /\ UNCHANGED <<requests, wire>>
      /\ \A d \in Client :
           IF d = c
             THEN session'[d] = "stopped" /\ session_mailbox'[d] = <<>>
             ELSE session'[d] = session[d]
                    /\ session_mailbox'[d] = session_mailbox[d]
  BY DEF Disconnect, ServerTypeOK
<1>3. ASSUME NEW d \in Client PROVE ReceivesNoAnswer(d)
  <2>1. CASE d = c
    <3>1. wire[d] \in Seq(Text) /\ session_mailbox[d] \in Seq(Text)
      BY ReceivedType
    <3>2. wire[d] \o <<>> = wire[d]
      BY <3>1, ConcatEmptySeq
    <3>. QED
      BY <1>2, <2>1, <3>1, <3>2 DEF ReceivesNoAnswer, Received
  <2>2. CASE d # c
    BY <1>2, <2>2 DEF ReceivesNoAnswer, Received
  <2>. QED
    BY <2>1, <2>2
<1>. QED
  BY <1>1, <1>2, <1>3, QuietRequests

(* A step of a subscription. *)
LEMMA SubscriptionRequests ==
  ASSUME ServerTypeOK, RequestInv,
         UNCHANGED <<wire, session, manager_mailbox, requests>>,
         \/ UNCHANGED session_mailbox
         \/ \E id \in SubId, s \in Actor, over \in BOOLEAN :
              /\ s.latest_signal_value \in Value
              /\ SendClientNotification(id, s, over)
  PROVE  RequestInv'
<1>1. ASSUME NEW d \in Client PROVE ReceivesNoAnswer(d)
  <2>1. CASE UNCHANGED session_mailbox
    BY <2>1 DEF ReceivesNoAnswer, Received
  <2>2. CASE \E id \in SubId, s \in Actor, over \in BOOLEAN :
               /\ s.latest_signal_value \in Value
               /\ SendClientNotification(id, s, over)
    <3>1. PICK id \in SubId, s \in Actor, over \in BOOLEAN :
            /\ s.latest_signal_value \in Value
            /\ SendClientNotification(id, s, over)
      BY <2>2
    <3>2. \/ UNCHANGED Received(d)
          \/ \E x \in NotificationOf(id) : Receives(d, x)
      BY <3>1, SubscriptionReceives
    <3>3. \A x \in NotificationOf(id) : x \in Text
      BY NotificationTexts DEF NotificationOf, Text
    <3>4. \A x \in NotificationOf(id) : ~HasId(x)
      BY DEF NotificationOf, Subscription, SubscriptionNotificationError,
             HasId, Has
    <3>. QED
      BY <3>2, <3>3, <3>4 DEF ReceivesNoAnswer
  <2>. QED
    BY <2>1, <2>2
<1>. QED
  BY <1>1, QuietRequests

LEMMA SubscriptionHandleRequests ==
  ASSUME ServerIInv, RequestInv, NEW id \in SubId, SubscriptionHandle(id)
  PROVE  RequestInv'
<1>. DEFINE m == Head(subscription_mailbox[id])
<1>. ServerTypeOK
  BY DEF ServerIInv
<1>1. /\ subscription[id] \in Actor
      /\ m \in SubscriptionMessage
      /\ UNCHANGED <<wire, session, manager_mailbox, requests>>
  BY MailboxHead
  DEF SubscriptionHandle, ServerIInv, ActorsCoherent, ServerTypeOK, Running
<1>2. CASE m.msg = "NotifySubscriber" /\ Notify(id, m.signal_value)
  <2>. DEFINE s == [subscription[id] EXCEPT !.latest_signal_value =
                      m.signal_value]
  <2>1. m.signal_value \in Value
    BY <1>1, <1>2
    DEF SubscriptionMessage, NotifySubscriber, StopSubscription
  <2>2. s \in Actor /\ s.latest_signal_value \in Value
    BY <1>1, <2>1 DEF Actor
  <2>3. SendClientNotification(id, s, TRUE) \/ UNCHANGED session_mailbox
    BY <1>2 DEF Notify
  <2>. HIDE DEF s
  <2>. QED
    BY <1>1, <2>2, <2>3, SubscriptionRequests
<1>3. CASE m.msg = "StopSubscription" /\ Stop(id)
  BY <1>1, <1>3, SubscriptionRequests DEF Stop
<1>. QED
  BY <1>2, <1>3 DEF SubscriptionHandle

LEMMA TickRequests ==
  ASSUME ServerTypeOK, RequestInv, NEW id \in SubId, Tick(id)
  PROVE  RequestInv'
<1>1. subscription[id] \in Actor /\ subscription[id].latest_signal_value \in Value
  BY DEF Tick, Running, ServerTypeOK, Actor
<1>2. PICK over \in BOOLEAN : SendClientNotification(id, subscription[id], over)
  BY DEF Tick
<1>. QED
  BY <1>1, <1>2, SubscriptionRequests DEF Tick

LEMMA NextRequests ==
  ServerIInv /\ RequestInv /\ [ServerNext]_serverVars => RequestInv'
<1>. SUFFICES ASSUME ServerIInv, RequestInv, [ServerNext]_serverVars
              PROVE  RequestInv'
  OBVIOUS
<1>. ServerTypeOK
  BY DEF ServerIInv
<1>1. ASSUME UNCHANGED <<requests, wire, session_mailbox>>,
             \/ UNCHANGED manager_mailbox
             \/ \E m \in ManagerMessage : ~Numbered(m) /\ ToManager(m),
             \A d \in Client : session[d] # "absent" => session'[d] = session[d]
      PROVE  RequestInv'
  BY <1>1, QuietRequests DEF ReceivesNoAnswer, Received
<1>2. CASE UNCHANGED serverVars
  BY <1>1, <1>2 DEF serverVars, actors
<1>3. ASSUME NEW m \in ManagerMessage, m.msg # "ClientMessage", FromSource(m)
      PROVE  RequestInv'
  BY <1>1, <1>3 DEF FromSource, Numbered
<1>4. ASSUME NEW rcpt \in Recipient, StopRecipient(rcpt) PROVE RequestInv'
  BY <1>1, <1>4 DEF StopRecipient
<1>5. ASSUME NEW p \in Path, NEW v \in Value, SetSignal(p, v) PROVE RequestInv'
  BY <1>3, <1>5, SourceShape DEF SetSignal
<1>6. ASSUME NEW p \in Path, NEW rcpt \in Recipient, RegisterRecipient(p, rcpt)
      PROVE  RequestInv'
  BY <1>3, <1>6, SourceShape DEF RegisterRecipient
<1>7. ASSUME NEW c \in Client, Connect(c) PROVE RequestInv'
  <2>1. \A d \in Client : session[d] # "absent" => session'[d] = session[d]
    BY <1>7 DEF Connect, ServerTypeOK
  <2>. QED
    BY <1>1, <1>7, <2>1 DEF Connect
<1>8. ASSUME NEW c \in Client, SessionHandle(c) PROVE RequestInv'
  <2>1. \A d \in Client : UNCHANGED Received(d)
    BY <1>8, SessionHandleReceives
  <2>. QED
    BY <1>8, <2>1, QuietRequests DEF SessionHandle, ReceivesNoAnswer
<1>. QED
  BY <1>2, <1>4, <1>5, <1>6, <1>7, <1>8, DisconnectRequests,
     ReceiveTextRequests, ManagerHandleRequests, SubscriptionHandleRequests,
     TickRequests
  DEF ServerNext

LEMMA RequestsInductive == ServerSpec => [](ServerIInv /\ RequestInv)
<1>1. ServerInit => RequestInv
  <2>. SUFFICES ASSUME ServerInit PROVE RequestInv
    OBVIOUS
  <2>1. \A c \in Client : Received(c) = <<>>
    BY DEF ServerInit, Received
  <2>2. Elements(<<>>) = {} /\ Len(<<>>) = 0
    BY DEF Elements
  <2>3. IdsDiffer(<<>>) /\ InTurnAscends(<<>>) /\ QueueAscends(<<>>)
    BY DEF IdsDiffer, InTurnAscends, QueueAscends
  <2>. QED
    BY <2>1, <2>2, <2>3, BoundsAssumption
    DEF ServerInit, RequestInv, QueueInv, ReceivedInv
<1>. QED
  BY <1>1, NextRequests, ServerInductive, PTL DEF ServerSpec

(***************************************************************************)
(* The manager's answers reach a client in the order of its requests       *)
(* (signal_manager.rs and the handlers in router.rs: one mailbox from the  *)
(* sessions to the manager, one from the manager to each session, and the  *)
(* handler of a request answers it before it returns).                     *)
(***************************************************************************)
THEOREM AnswersKeepOrder == ServerSpec => []AnsweredInOrder
<1>1. ServerIInv /\ RequestInv => AnsweredInOrder
  <2>. SUFFICES ASSUME ServerIInv, RequestInv, NEW c \in Client,
                       NEW i \in DOMAIN Received(c), NEW j \in DOMAIN Received(c),
                       InTurn(Received(c)[i]), InTurn(Received(c)[j]), i < j
                PROVE  Received(c)[i].request_id < Received(c)[j].request_id
    BY DEF AnsweredInOrder, InTurn, HasId
  <2>1. DOMAIN Received(c) = 1..Len(Received(c))
    BY ReceivedType DEF ServerIInv
  <2>. QED
    BY <2>1 DEF RequestInv, ReceivedInv, InTurnAscends
<1>. QED
  BY <1>1, RequestsInductive, PTL

(* A set of which any two members are equal has at most one. *)
LEMMA AtMostOne ==
  ASSUME NEW S, \A x, y \in S : x = y
  PROVE  Cardinality(S) = IF S = {} THEN 0 ELSE 1
<1>1. CASE S = {}
  BY <1>1, FS_EmptySet
<1>2. CASE S # {}
  <2>1. PICK x \in S : S = {x}
    BY <1>2
  <2>. QED
    BY <1>2, <2>1, FS_Singleton
<1>. QED
  BY <1>1, <1>2

(***************************************************************************)
(* A request is in one place: it waits for the manager, or its client, and *)
(* nobody else, has received one answer to it (router.rs, the handler of   *)
(* a text, and every handler of signal_manager.rs that answers).           *)
(***************************************************************************)
THEOREM RequestsAnsweredOnce == ServerSpec => []AnsweredOnce
<1>1. ASSUME ServerIInv, RequestInv, NEW r \in DOMAIN requests
      PROVE  LET c == requests[r].client
                 places == Cardinality(Queued(r)) + Cardinality(AnswersTo(c, r)) IN
             /\ places <= 1
             /\ session[c] = "running" /\ requests[r].action # "malformed" =>
                  places = 1
             /\ \A d \in Client \ {c} : AnswersTo(d, r) = {}
  <2>. DEFINE c == requests[r].client
              queued == Queued(r)
              answered == AnswersTo(c, r)
              q == manager_mailbox
              s == Received(c)
  <2>1. r \in 1..Len(requests) /\ r \in Int /\ c \in Client
    <3>1. DOMAIN requests = 1..Len(requests) /\ Len(requests) \in Nat
      BY <1>1 DEF ServerIInv, ServerTypeOK
    <3>. QED
      BY <1>1, <3>1, RequestShape DEF ServerIInv
  <2>2. r # None
    BY <1>1, <2>1, BoundsAssumption, NoneAssumption
    DEF RequestInv, ServerIInv, ServerTypeOK
  <2>3. /\ Len(q) \in Nat /\ DOMAIN q = 1..Len(q)
        /\ \A d \in Client : /\ Len(Received(d)) \in Nat
                             /\ DOMAIN Received(d) = 1..Len(Received(d))
    BY <1>1, ReceivedType DEF ServerIInv, ServerTypeOK
  <2>4. /\ \A i \in queued : /\ i \in 1..Len(q) /\ q[i] \in Elements(q)
                             /\ Numbered(q[i]) /\ q[i].request_id = r
        /\ \A i \in 1..Len(q) : Numbered(q[i]) /\ q[i].request_id = r => i \in queued
    BY <2>2, <2>3 DEF Queued, Numbered, Elements
  <2>5. ASSUME NEW d \in Client, NEW i \in AnswersTo(d, r)
        PROVE  /\ i \in 1..Len(Received(d)) /\ HasId(Received(d)[i])
               /\ Received(d)[i].request_id = r
               /\ Received(d)[i] \in Elements(Received(d))
    BY <2>3, <2>5 DEF AnswersTo, HasId, Elements
  <2>6. ASSUME NEW i \in queued, NEW j \in queued PROVE i = j
    <3>1. ~(i < j) /\ ~(j < i)
      BY <1>1, <2>1, <2>4 DEF RequestInv, QueueInv, QueueAscends
    <3>. QED
      BY <2>3, <2>4, <3>1
  <2>7. ASSUME NEW i \in answered, NEW j \in answered PROVE i = j
    BY <1>1, <2>1, <2>5 DEF RequestInv, ReceivedInv, IdsDiffer
  <2>8. queued = {} \/ answered = {}
    <3>. SUFFICES ASSUME NEW i \in queued, NEW j \in answered PROVE FALSE
      OBVIOUS
    <3>. QED
      BY <1>1, <2>1, <2>4, <2>5 DEF RequestInv, ReceivedInv, Precedes
  <2>9. ASSUME session[c] = "running", requests[r].action # "malformed"
        PROVE  queued # {} \/ answered # {}
    <3>1. \/ \E m \in Elements(q) : Numbered(m) /\ m.request_id = r
          \/ \E x \in Elements(s) : HasId(x) /\ x.request_id = r
      BY <1>1, <2>1, <2>9 DEF RequestInv, Accounted
    <3>. QED
      BY <2>3, <2>4, <2>1, <3>1 DEF Elements, AnswersTo, HasId
  <2>10. ASSUME NEW d \in Client \ {c} PROVE AnswersTo(d, r) = {}
    <3>. SUFFICES ASSUME NEW i \in AnswersTo(d, r) PROVE FALSE
      OBVIOUS
    <3>. QED
      BY <1>1, <2>1, <2>5 DEF RequestInv, ReceivedInv, Known
  <2>. HIDE DEF queued, answered
  <2>11. /\ Cardinality(queued) = IF queued = {} THEN 0 ELSE 1
         /\ Cardinality(answered) = IF answered = {} THEN 0 ELSE 1
    BY <2>6, <2>7, AtMostOne
  <2>12. /\ Cardinality(queued) + Cardinality(answered) <= 1
         /\ session[c] = "running" /\ requests[r].action # "malformed" =>
              Cardinality(queued) + Cardinality(answered) = 1
    BY <2>8, <2>9, <2>11
  <2>. QED
    BY <2>10, <2>12 DEF queued, answered
<1>2. ServerIInv /\ RequestInv => AnsweredOnce
  BY <1>1 DEF AnsweredOnce
<1>. QED
  BY <1>2, RequestsInductive, PTL
===============================================================================
