-------------------------- MODULE ExampleServerProofs --------------------------
(***************************************************************************)
(* Theorems about ExampleServer, for any number of workers, clients,       *)
(* frames, ticks and requests.                                             *)
(***************************************************************************)
EXTENDS ExampleServer, FiniteSetTheorems, TLAPS

(***************************************************************************)
(* Types.  Requests and frames stay within their bound.                    *)
(***************************************************************************)
TypeInv == TypeOK /\ Inputs <= MaxInputs

LEMMA Sequences1 ==
  ASSUME NEW S, NEW q \in Seq(S), q # <<>>
  PROVE  Head(q) \in S /\ Tail(q) \in Seq(S)
OBVIOUS

LEMMA Sequences2 ==
  ASSUME NEW S, NEW q \in Seq(S), NEW x \in S
  PROVE  Append(q, x) \in Seq(S) /\ Len(Append(q, x)) = Len(q) + 1 /\ Len(q) \in Nat
OBVIOUS

LEMMA MessageShape ==
  ASSUME NEW m \in Message
  PROVE  /\ m.msg = "UpdateSignal" => m.path \in Path /\ m.value \in Value
         /\ m.msg = "AddSetRecipient" => m.path \in Path
         /\ m.msg = "ClientMessage" =>
              /\ m.client_addr \in Client /\ m.request_id \in ReqId
              /\ m.path \in Path
BY DEF Message, Update, AddSet, ClientMessage

LEMMA SendType ==
  ASSUME TypeInv, NEW w \in Worker, NEW m \in Message, DoSend(w, m)
  PROVE  manager_mailbox' \in [Worker -> Seq(Message)]
BY Sequences2 DEF TypeInv, TypeOK, DoSend

LEMMA HandleType ==
  ASSUME TypeInv, NEW w \in Worker, ManagerHandle(w)
  PROVE  TypeInv'
<1>. TypeOK
  BY DEF TypeInv
<1>. DEFINE m == Head(manager_mailbox[w])
<1>1. /\ m \in Message
      /\ manager_mailbox' \in [Worker -> Seq(Message)]
  BY Sequences1 DEF TypeOK, ManagerHandle
<1>2. UNCHANGED <<started, sourceVars, handled_sets, worker, requests>>
  BY DEF ManagerHandle
<1>3. /\ signal_cache' \in [Worker -> [Path -> Value \cup {None}]]
      /\ set_recipients' \in [Worker -> SUBSET Path]
      /\ set_mailbox' \in [Worker -> Seq(ReqId)]
      /\ answers' \in [Client -> Seq(Response)]
  <2>1. CASE m.msg = "UpdateSignal" /\ HandleUpdate(w, m.path, m.value)
    BY <1>1, <2>1, MessageShape DEF HandleUpdate, TypeOK
  <2>2. CASE m.msg = "AddSetRecipient" /\ HandleAddSet(w, m.path)
    BY <1>1, <2>2, MessageShape DEF HandleAddSet, TypeOK
  <2>3. ASSUME NEW c \in Client, NEW x \in Response, Answer(c, x)
        PROVE  answers' \in [Client -> Seq(Response)]
    BY <2>3, Sequences2 DEF Answer, TypeOK
  <2>4. CASE /\ m.msg = "ClientMessage"
             /\ HandleGet(w, m.client_addr, m.request_id, m.path)
    <3>. DEFINE v == signal_cache[w][m.path]
                x == IF v # None THEN GetSuccess(m.request_id, v)
                     ELSE GetError(m.request_id, NOT_FOUND_INVALID_PATH)
    <3>1. /\ m.client_addr \in Client /\ m.request_id \in ReqId
          /\ v \in Value \cup {None}
      BY <1>1, <2>4, MessageShape DEF TypeOK
    <3>2. x \in Response
      BY <3>1 DEF Response, ActionSuccessResponse, ActionErrorResponse,
                  GetError, ActionError
    <3>3. Answer(m.client_addr, x)
      BY <2>4 DEF HandleGet
    <3>. QED
      BY <2>3, <2>4, <3>1, <3>2, <3>3 DEF HandleGet, TypeOK
  <2>5. CASE /\ m.msg = "ClientMessage"
             /\ HandleSet(w, m.client_addr, m.request_id, m.path)
    <3>1. m.client_addr \in Client /\ m.request_id \in ReqId
      BY <1>1, <2>5, MessageShape
    <3>2. /\ SetSuccess(m.request_id) \in Response
          /\ SetError(m.request_id, NOT_FOUND_INVALID_PATH) \in Response
      BY <3>1 DEF Response, ActionSuccessResponse, ActionErrorResponse,
                  SetError, ActionError
    <3>3. answers' \in [Client -> Seq(Response)]
      BY <2>3, <2>5, <3>1, <3>2 DEF HandleSet
    <3>4. set_mailbox' \in [Worker -> Seq(ReqId)]
      <4>1. Append(set_mailbox[w], m.request_id) \in Seq(ReqId)
        BY <3>1, Sequences2 DEF TypeOK
      <4>2. \/ set_mailbox' = set_mailbox
            \/ set_mailbox' =
                 [set_mailbox EXCEPT ![w] = Append(set_mailbox[w], m.request_id)]
        BY <2>5 DEF HandleSet
      <4>. QED
        BY <4>1, <4>2 DEF TypeOK
    <3>. QED
      BY <2>5, <3>3, <3>4 DEF HandleSet, TypeOK
  <2>. QED
    BY <2>1, <2>2, <2>4, <2>5 DEF ManagerHandle
<1>. QED
  BY <1>1, <1>2, <1>3 DEF TypeInv, TypeOK, Inputs, sourceVars

LEMMA ReceiveType ==
  ASSUME TypeInv, NEW c \in Client, NEW a \in {"get", "set"}, NEW p \in Path,
         Receive(c, a, p)
  PROVE  TypeInv'
<1>. TypeOK
  BY DEF TypeInv
<1>. DEFINE w == worker[c]
            m == ClientMessage(c, Len(requests) + 1, a, p)
<1>1. w \in Worker /\ SendTo(w, c, a, p)
  BY DEF Receive, TypeOK
<1>2. Len(requests) \in Nat /\ Len(bus) \in Nat
  BY DEF TypeOK
<1>3. Len(requests) + 1 \in ReqId
  BY <1>1, <1>2, ExampleAssumption DEF SendTo, Inputs
<1>4. m \in Message
  BY <1>3 DEF Message
<1>5. manager_mailbox' \in [Worker -> Seq(Message)]
  BY <1>1, <1>4, SendType DEF SendTo
<1>6. /\ requests' \in Seq([client : Client, action : {"get", "set"}])
      /\ Len(requests') = Len(requests) + 1
  BY <1>1, Sequences2 DEF SendTo, TypeOK
<1>7. /\ bus' = bus
      /\ Len(requests) + Len(bus) < MaxInputs
  BY <1>1 DEF SendTo, sourceVars, Inputs
<1>8. Inputs' <= MaxInputs
  BY <1>2, <1>6, <1>7, ExampleAssumption DEF Inputs
<1>9. TypeOK'
  BY <1>1, <1>5, <1>6 DEF SendTo, TypeOK, sourceVars, sets
<1>. QED
  BY <1>8, <1>9 DEF TypeInv

LEMMA NextType == TypeInv /\ [Next]_vars => TypeInv'
<1>. SUFFICES ASSUME TypeInv, [Next]_vars PROVE TypeInv'
  OBVIOUS
<1>. TypeOK
  BY DEF TypeInv
<1>. Len(requests) \in Nat /\ Len(bus) \in Nat
  BY DEF TypeOK
<1>1. ASSUME NEW w \in Worker, StartApp(w) PROVE TypeInv'
  <2>1. AddSet(PRINT_SET) \in Message
    BY ExampleAssumption DEF Message
  <2>2. manager_mailbox' \in [Worker -> Seq(Message)]
    BY <1>1, <2>1, SendType DEF StartApp
  <2>3. Len(bus) \in 0..MaxInputs
    BY ExampleAssumption DEF TypeInv, Inputs
  <2>. QED
    BY <1>1, <2>2, <2>3 DEF StartApp, TypeInv, TypeOK, Inputs, sets, clients
<1>2. ASSUME NEW w \in Worker, IntervalTick(w) PROVE TypeInv'
  <2>1. count[w] \in 0..(MaxTicks - 1) /\ count[w] + 1 \in 0..MaxTicks
    BY <1>2, ExampleAssumption DEF IntervalTick, TypeOK
  <2>2. Update(INTERVAL, count[w]) \in Message
    BY <2>1, ExampleAssumption DEF Message
  <2>3. manager_mailbox' \in [Worker -> Seq(Message)]
    BY <1>2, <2>2, SendType DEF IntervalTick
  <2>. QED
    BY <1>2, <2>1, <2>3 DEF IntervalTick, TypeInv, TypeOK, Inputs, canVars, sets, clients
<1>3. ASSUME NEW w \in Worker, CanItem(w) PROVE TypeInv'
  <2>1. /\ can_stream[w] \in 0..MaxInputs /\ can_stream[w] < Len(bus)
        /\ can_stream[w] + 1 \in 1..Len(bus)
    BY <1>3 DEF CanItem, Unread, Open, TypeOK
  <2>2. can_stream[w] + 1 \in 0..MaxInputs
    BY <2>1, ExampleAssumption DEF TypeInv, Inputs
  <2>3. bus[can_stream[w] + 1] \in Frame
    BY <2>1 DEF TypeOK
  <2>4. Update(LAST_FRAME_ID, bus[can_stream[w] + 1]) \in Message
    BY <2>3, ExampleAssumption DEF Message
  <2>5. manager_mailbox' \in [Worker -> Seq(Message)]
    BY <1>3, <2>4, SendType DEF CanItem
  <2>. QED
    BY <1>3, <2>2, <2>5 DEF CanItem, TypeInv, TypeOK, Inputs, sets, clients
<1>4. ASSUME NEW w \in Worker, CanError(w) PROVE TypeInv'
  BY <1>4 DEF CanError, TypeInv, TypeOK, Inputs, managers, sets, clients
<1>5. ASSUME NEW w \in Worker, PrintSetHandle(w) PROVE TypeInv'
  <2>1. set_mailbox' \in [Worker -> Seq(ReqId)] /\ Head(set_mailbox[w]) \in ReqId
    BY <1>5, Sequences1 DEF PrintSetHandle, TypeOK
  <2>2. handled_sets' \in [Worker -> Seq(ReqId)]
    BY <1>5, <2>1, Sequences2 DEF PrintSetHandle, TypeOK
  <2>. QED
    BY <1>5, <2>1, <2>2
    DEF PrintSetHandle, TypeInv, TypeOK, Inputs, managers, sourceVars, clients
<1>6. ASSUME NEW f \in Frame, CanFrame(f) PROVE TypeInv'
  <2>1. bus' \in Seq(Frame) /\ Len(bus') = Len(bus) + 1
    BY <1>6, Sequences2 DEF CanFrame, TypeOK
  <2>2. /\ requests' = requests
        /\ Len(requests) + Len(bus) < MaxInputs
    BY <1>6 DEF CanFrame, clients, Inputs
  <2>3. Inputs' <= MaxInputs
    BY <2>1, <2>2, ExampleAssumption DEF Inputs
  <2>4. TypeOK'
    BY <1>6, <2>1 DEF CanFrame, TypeOK, managers, canVars, sets, clients
  <2>. QED
    BY <2>3, <2>4 DEF TypeInv
<1>7. ASSUME NEW c \in Client, NEW w \in Worker, Connect(c, w) PROVE TypeInv'
  BY <1>7 DEF Connect, TypeInv, TypeOK, Inputs, managers, sourceVars, sets
<1>8. CASE UNCHANGED vars
  BY <1>8
  DEF vars, managers, sourceVars, sets, clients, TypeInv, TypeOK, Inputs
<1>. QED
  BY <1>1, <1>2, <1>3, <1>4, <1>5, <1>6, <1>7, <1>8, HandleType, ReceiveType,
     ExampleAssumption DEF Next

LEMMA InitType == Init => TypeInv
BY ExampleAssumption DEF Init, TypeInv, TypeOK, Inputs

(***************************************************************************)
(* What the workers, their actors and their clients hold keeps its type.   *)
(***************************************************************************)
THEOREM TypeCorrect == Spec => []TypeOK
<1>1. Spec => []TypeInv
  BY InitType, NextType, PTL DEF Spec
<1>. QED
  BY <1>1, PTL DEF TypeInv

(***************************************************************************)
(* What a step does to the mailbox of a manager.                           *)
(***************************************************************************)
LEMMA Appended ==
  ASSUME NEW S, NEW q \in Seq(S), NEW x \in S
  PROVE  LET r == Append(q, x) IN
         /\ DOMAIN q = 1..Len(q) /\ Len(q) \in Nat
         /\ r # <<>> /\ Len(r) = Len(q) + 1 /\ DOMAIN r = 1..(Len(q) + 1)
         /\ \A i \in DOMAIN q : r[i] = q[i]
         /\ r[Len(q) + 1] = x
OBVIOUS

LEMMA Taken ==
  ASSUME NEW S, NEW q \in Seq(S), q # <<>>
  PROVE  LET r == Tail(q) IN
         /\ DOMAIN q = 1..Len(q) /\ Len(q) \in Nat \ {0}
         /\ Head(q) = q[1] /\ 1 \in DOMAIN q
         /\ Len(r) = Len(q) - 1 /\ DOMAIN r = 1..(Len(q) - 1)
         /\ \A i \in DOMAIN r : i + 1 \in DOMAIN q /\ r[i] = q[i + 1]
OBVIOUS

Sends(w, m) ==
  \/ w \notin started /\ m = AddSet(PRINT_SET)
  \/ w \in started /\ m = Update(INTERVAL, count[w])
  \/ /\ can_stream[w] # None /\ can_stream[w] < Len(bus)
     /\ m = Update(LAST_FRAME_ID, bus[can_stream[w] + 1])
  \/ \E c \in Client :
       /\ worker[c] = w
       /\ \/ m = ClientMessage(c, Len(requests) + 1, "set", PRINT_SET)
          \/ \E p \in {INTERVAL, LAST_FRAME_ID} :
               m = ClientMessage(c, Len(requests) + 1, "get", p)

Mailed(w) ==
  \E m \in Message :
    /\ Sends(w, m) /\ DoSend(w, m)
    /\ started' = IF m = AddSet(PRINT_SET) THEN started \cup {w} ELSE started

Unhandled == UNCHANGED <<signal_cache, set_recipients, answers>>

LEMMA StepSends ==
  ASSUME TypeInv, [Next]_vars
  PROVE  \/ \E w \in Worker : ManagerHandle(w)
         \/ /\ Unhandled
            /\ \/ UNCHANGED <<manager_mailbox, started>>
               \/ \E w \in Worker : Mailed(w)
<1>. TypeOK
  BY DEF TypeInv
<1>1. ASSUME NEW w \in Worker, StartApp(w) PROVE Unhandled /\ Mailed(w)
  <2>1. AddSet(PRINT_SET) \in Message
    BY ExampleAssumption DEF Message
  <2>. QED
    BY <1>1, <2>1 DEF StartApp, Mailed, Sends, AddSet, Update, Unhandled, clients
<1>2. ASSUME NEW w \in Worker, IntervalTick(w) PROVE Unhandled /\ Mailed(w)
  <2>1. count[w] \in 0..(MaxTicks - 1)
    BY <1>2, ExampleAssumption DEF IntervalTick, TypeOK
  <2>2. Update(INTERVAL, count[w]) \in Message
    BY <2>1, ExampleAssumption DEF Message
  <2>. QED
    BY <1>2, <2>2 DEF IntervalTick, Mailed, Sends, AddSet, Update, Unhandled, clients
<1>3. ASSUME NEW w \in Worker, CanItem(w) PROVE Unhandled /\ Mailed(w)
  <2>1. /\ can_stream[w] \in 0..MaxInputs /\ can_stream[w] < Len(bus)
        /\ can_stream[w] + 1 \in 1..Len(bus)
    BY <1>3 DEF CanItem, Unread, Open, TypeOK
  <2>2. bus[can_stream[w] + 1] \in Frame
    BY <2>1 DEF TypeOK
  <2>3. Update(LAST_FRAME_ID, bus[can_stream[w] + 1]) \in Message
    BY <2>2, ExampleAssumption DEF Message
  <2>. QED
    BY <1>3, <2>3 DEF CanItem, Unread, Open, Mailed, Sends, AddSet, Update, Unhandled, clients
<1>4. ASSUME NEW c \in Client, NEW a \in {"get", "set"}, NEW p \in Path,
             a = "set" <=> p = PRINT_SET, Receive(c, a, p)
      PROVE  Unhandled /\ \E w \in Worker : Mailed(w)
  <2>. DEFINE w == worker[c]
              m == ClientMessage(c, Len(requests) + 1, a, p)
  <2>1. w \in Worker /\ SendTo(w, c, a, p)
    BY <1>4 DEF Receive, TypeOK
  <2>2. Len(requests) + 1 \in ReqId
    <3>1. Len(requests) \in Nat /\ Len(bus) \in Nat
      BY DEF TypeOK
    <3>. QED
      BY <2>1, <3>1, ExampleAssumption DEF SendTo, Inputs
  <2>3. m \in Message
    BY <2>2 DEF Message
  <2>4. Sends(w, m)
    BY <1>4, ExampleAssumption DEF Sends
  <2>. QED
    BY <2>1, <2>3, <2>4 DEF SendTo, Mailed, Unhandled, AddSet, ClientMessage
<1>5. ASSUME NEW w \in Worker, CanError(w) \/ PrintSetHandle(w)
      PROVE  Unhandled /\ UNCHANGED <<manager_mailbox, started>>
  BY <1>5 DEF CanError, PrintSetHandle, Unhandled, managers, clients
<1>6. ASSUME NEW f \in Frame, CanFrame(f)
      PROVE  Unhandled /\ UNCHANGED <<manager_mailbox, started>>
  BY <1>6 DEF CanFrame, Unhandled, managers, clients
<1>7. ASSUME NEW c \in Client, NEW w \in Worker, Connect(c, w)
      PROVE  Unhandled /\ UNCHANGED <<manager_mailbox, started>>
  BY <1>7 DEF Connect, Unhandled, managers
<1>8. CASE UNCHANGED vars
  BY <1>8 DEF vars, Unhandled, managers, clients
<1>. QED
  BY <1>1, <1>2, <1>3, <1>4, <1>5, <1>6, <1>7, <1>8, ExampleAssumption DEF Next

(* Workers start once, and a connection keeps its worker. *)
Settled ==
  /\ \A c \in Client : worker[c] # None => worker[c] \in started
  /\ \A w \in Worker : can_stream[w] # None => w \in started

LEMMA StepSettles ==
  ASSUME TypeInv, Settled, [Next]_vars
  PROVE  /\ Settled'
         /\ started \subseteq started'
         /\ \A c \in Client : worker[c] # None => worker'[c] = worker[c]
<1>1. ASSUME NEW w \in Worker, StartApp(w)
      PROVE  /\ started' = started \cup {w} /\ UNCHANGED worker
             /\ \E n : can_stream' = [can_stream EXCEPT ![w] = n]
  BY <1>1 DEF StartApp, clients
<1>2. ASSUME NEW c \in Client, NEW w \in Worker, Connect(c, w)
      PROVE  /\ worker[c] = None /\ w \in started
             /\ UNCHANGED <<started, can_stream>>
             /\ worker' = [worker EXCEPT ![c] = w]
  BY <1>2 DEF Connect, sourceVars
<1>3. \/ \E w \in Worker : StartApp(w)
      \/ \E c \in Client, w \in Worker : Connect(c, w)
      \/ /\ UNCHANGED <<started, worker>>
         /\ \/ UNCHANGED can_stream
            \/ \E w \in Worker : \E n :
                 /\ can_stream[w] # None
                 /\ can_stream' = [can_stream EXCEPT ![w] = n]
  <2>1. ASSUME NEW w \in Worker, CanItem(w)
        PROVE  /\ UNCHANGED <<started, worker>>
               /\ can_stream[w] # None
               /\ \E n : can_stream' = [can_stream EXCEPT ![w] = n]
    BY <2>1 DEF CanItem, Unread, Open, clients
  <2>2. ASSUME NEW w \in Worker,
               \/ IntervalTick(w) \/ CanError(w)
               \/ ManagerHandle(w) \/ PrintSetHandle(w)
        PROVE  UNCHANGED <<started, worker, can_stream>>
    BY <2>2 DEF IntervalTick, canVars, CanError, ManagerHandle, PrintSetHandle, clients,
                sourceVars
  <2>3. ASSUME NEW c \in Client, NEW a, NEW p, Receive(c, a, p)
        PROVE  UNCHANGED <<started, worker, can_stream>>
    BY <2>3 DEF Receive, SendTo, sourceVars
  <2>4. ASSUME NEW f \in Frame, CanFrame(f)
        PROVE  UNCHANGED <<started, worker, can_stream>>
    BY <2>4 DEF CanFrame, canVars, clients
  <2>5. CASE UNCHANGED vars
    BY <2>5 DEF vars, clients, sourceVars
  <2>. QED
    BY <2>1, <2>2, <2>3, <2>4, <2>5 DEF Next
<1>4. CASE \E w \in Worker : StartApp(w)
  BY <1>1, <1>4 DEF Settled, TypeInv, TypeOK
<1>5. CASE \E c \in Client, w \in Worker : Connect(c, w)
  BY <1>2, <1>5 DEF Settled, TypeInv, TypeOK
<1>6. CASE UNCHANGED <<started, worker>>
  BY <1>3, <1>6, <1>1, <1>2 DEF Settled, TypeInv, TypeOK
<1>. QED
  BY <1>3, <1>4, <1>5, <1>6

(***************************************************************************)
(* The registration of a worker's recipient is the first message of its    *)
(* manager; a set is for the path it is registered for.                    *)
(***************************************************************************)
Ready(w) ==
  \/ PRINT_SET \in set_recipients[w]
  \/ manager_mailbox[w] = <<>> /\ w \notin started
  \/ manager_mailbox[w] # <<>> /\ Head(manager_mailbox[w]) = AddSet(PRINT_SET)

SetsPrint(w) ==
  \A i \in DOMAIN manager_mailbox[w] :
    LET m == manager_mailbox[w][i] IN
    m.msg = "ClientMessage" =>
      m.action \in {"get", "set"} /\ (m.action = "set" => m.path = PRINT_SET)

SetInv ==
  /\ \A w \in Worker : Ready(w) /\ SetsPrint(w)
  /\ SetIsAccepted

LEMMA MailedSets ==
  ASSUME TypeInv, Settled, SetInv, Unhandled, NEW w \in Worker, Mailed(w)
  PROVE  SetInv'
<1>. TypeOK
  BY DEF TypeInv
<1>1. PICK m \in Message :
         /\ Sends(w, m) /\ DoSend(w, m)
         /\ started' = IF m = AddSet(PRINT_SET) THEN started \cup {w} ELSE started
  BY DEF Mailed
<1>2. /\ manager_mailbox[w] \in Seq(Message)
      /\ manager_mailbox'[w] = Append(manager_mailbox[w], m)
      /\ \A x \in Worker \ {w} : manager_mailbox'[x] = manager_mailbox[x]
  BY <1>1 DEF DoSend, TypeOK
<1>3. m = AddSet(PRINT_SET) \/ w \in started
  BY <1>1, ExampleAssumption DEF Sends, Settled
<1>4. m.msg = "ClientMessage" =>
        m.action \in {"get", "set"} /\ (m.action = "set" => m.path = PRINT_SET)
  BY <1>1 DEF Sends, AddSet, Update, ClientMessage
<1>5. Ready(w)'
  <2>1. CASE manager_mailbox[w] = <<>>
    <3>1. Head(manager_mailbox'[w]) = m /\ manager_mailbox'[w] # <<>>
      BY <1>2, <2>1
    <3>. QED
      BY <1>3, <2>1, <3>1 DEF SetInv, Ready, Unhandled
  <2>2. CASE manager_mailbox[w] # <<>>
    <3>1. /\ Head(manager_mailbox'[w]) = Head(manager_mailbox[w])
          /\ manager_mailbox'[w] # <<>>
      BY <1>2, <2>2
    <3>. QED
      BY <2>2, <3>1 DEF SetInv, Ready, Unhandled
  <2>. QED
    BY <2>1, <2>2
<1>6. SetsPrint(w)'
  <2>1. ASSUME NEW i \in DOMAIN manager_mailbox'[w]
        PROVE  \/ /\ i \in DOMAIN manager_mailbox[w]
                  /\ manager_mailbox'[w][i] = manager_mailbox[w][i]
               \/ manager_mailbox'[w][i] = m
    BY <1>2, Appended
  <2>. QED
    BY <1>4, <2>1 DEF SetInv, SetsPrint
<1>7. ASSUME NEW x \in Worker \ {w} PROVE Ready(x)' /\ SetsPrint(x)'
  <2>1. x \in started' => x \in started
    BY <1>1
  <2>. QED
    BY <1>2, <2>1 DEF SetInv, Ready, SetsPrint, Unhandled
<1>8. SetIsAccepted'
  BY DEF SetInv, SetIsAccepted, Answered, Unhandled
<1>. QED
  BY <1>5, <1>6, <1>7, <1>8 DEF SetInv

LEMMA HandleSets ==
  ASSUME TypeInv, SetInv, NEW w \in Worker, ManagerHandle(w)
  PROVE  SetInv'
<1>. TypeOK
  BY DEF TypeInv
<1>. DEFINE m == Head(manager_mailbox[w])
<1>1. /\ manager_mailbox[w] \in Seq(Message) /\ manager_mailbox[w] # <<>>
      /\ manager_mailbox'[w] = Tail(manager_mailbox[w])
      /\ \A x \in Worker \ {w} : manager_mailbox'[x] = manager_mailbox[x]
      /\ m \in Message
  BY Sequences1 DEF ManagerHandle, TypeOK
<1>2. /\ \A x \in Worker \ {w} : set_recipients'[x] = set_recipients[x]
      /\ set_recipients[w] \subseteq set_recipients'[w]
      /\ m = AddSet(PRINT_SET) => PRINT_SET \in set_recipients'[w]
      /\ started' = started
  BY DEF ManagerHandle, HandleUpdate, HandleAddSet, HandleGet, HandleSet, AddSet,
         TypeOK
<1>3. Ready(w)'
  BY <1>1, <1>2 DEF SetInv, Ready
<1>4. SetsPrint(w)'
  BY <1>1, Taken DEF SetInv, SetsPrint
<1>5. ASSUME NEW x \in Worker \ {w} PROVE Ready(x)' /\ SetsPrint(x)'
  BY <1>1, <1>2 DEF SetInv, Ready, SetsPrint
<1>6. SetIsAccepted'
  <2>1. ASSUME NEW c \in Client, NEW x \in Response, Answer(c, x),
               \A r \in ReqId : x # SetError(r, NOT_FOUND_INVALID_PATH)
        PROVE  SetIsAccepted'
    <3>1. SUFFICES ASSUME NEW d \in Client, NEW r \in ReqId,
                          NEW i \in DOMAIN answers'[d],
                          answers'[d][i] = SetError(r, NOT_FOUND_INVALID_PATH)
                   PROVE  FALSE
      BY DEF SetIsAccepted, Answered
    <3>2. /\ i \in DOMAIN answers[d] /\ answers'[d][i] = answers[d][i]
          \/ answers'[d][i] = x
      BY <2>1, Appended DEF Answer, TypeOK
    <3>. QED
      BY <2>1, <3>1, <3>2 DEF SetInv, SetIsAccepted, Answered
  <2>2. CASE UNCHANGED answers
    BY <2>2 DEF SetInv, SetIsAccepted, Answered
  <2>3. ASSUME m.msg = "ClientMessage",
               HandleGet(w, m.client_addr, m.request_id, m.path)
        PROVE  SetIsAccepted'
    <3>. DEFINE v == signal_cache[w][m.path]
                x == IF v # None THEN GetSuccess(m.request_id, v)
                     ELSE GetError(m.request_id, NOT_FOUND_INVALID_PATH)
    <3>1. /\ m.client_addr \in Client /\ m.request_id \in ReqId
          /\ v \in Value \cup {None}
      BY <1>1, <2>3, MessageShape DEF TypeOK
    <3>2. x \in Response
      BY <3>1 DEF Response, ActionSuccessResponse, ActionErrorResponse,
                  GetError, ActionError
    <3>3. \A r \in ReqId : x # SetError(r, NOT_FOUND_INVALID_PATH)
      BY DEF GetSuccess, GetError, SetError, RequestError
    <3>4. Answer(m.client_addr, x)
      BY <2>3 DEF HandleGet
    <3>. QED
      BY <2>1, <3>1, <3>2, <3>3, <3>4
  <2>4. ASSUME m.msg = "ClientMessage", m.action = "set",
               HandleSet(w, m.client_addr, m.request_id, m.path)
        PROVE  SetIsAccepted'
    <3>1. /\ m.client_addr \in Client /\ m.request_id \in ReqId
      BY <1>1, <2>4, MessageShape
    <3>2. m.path = PRINT_SET
      BY <1>1, <2>4, Taken DEF SetInv, SetsPrint
    <3>3. PRINT_SET \in set_recipients[w]
      BY <1>1, <2>4 DEF SetInv, Ready, AddSet
    <3>4. Answer(m.client_addr, SetSuccess(m.request_id))
      BY <2>4, <3>2, <3>3 DEF HandleSet
    <3>5. /\ SetSuccess(m.request_id) \in Response
          /\ \A r \in ReqId :
               SetSuccess(m.request_id) # SetError(r, NOT_FOUND_INVALID_PATH)
      BY <3>1 DEF Response, ActionSuccessResponse, SetSuccess, SetError, RequestError
    <3>. QED
      BY <2>1, <3>1, <3>4, <3>5
  <2>. QED
    BY <2>2, <2>3, <2>4 DEF ManagerHandle, HandleUpdate, HandleAddSet
<1>. QED
  BY <1>3, <1>4, <1>5, <1>6 DEF SetInv

(***************************************************************************)
(* For any number of workers, a set of the settable path is never refused, *)
(* whichever worker the connection belongs to and however early it comes.  *)
(***************************************************************************)
THEOREM SetsAreAccepted == Spec => []SetIsAccepted
<1>1. Init => TypeInv /\ Settled /\ SetInv
  BY InitType DEF Init, Settled, SetInv, Ready, SetsPrint, SetIsAccepted, Answered
<1>2. TypeInv /\ Settled /\ SetInv /\ [Next]_vars => (TypeInv /\ Settled /\ SetInv)'
  <2>. SUFFICES ASSUME TypeInv, Settled, SetInv, [Next]_vars PROVE SetInv'
    BY NextType, StepSettles
  <2>1. CASE Unhandled /\ UNCHANGED <<manager_mailbox, started>>
    BY <2>1 DEF SetInv, Ready, SetsPrint, SetIsAccepted, Answered, Unhandled
  <2>. QED
    BY <2>1, StepSends, MailedSets, HandleSets
<1>. QED
  BY <1>1, <1>2, PTL DEF Spec, SetInv

(***************************************************************************)
(* When a manager has handled its mailbox q, starting from the frame v in  *)
(* its cache, f is the frame it will have there.                           *)
(***************************************************************************)
Settles(q, v, f) ==
  \/ \E i \in DOMAIN q :
       /\ q[i] = Update(LAST_FRAME_ID, f)
       /\ \A j \in DOMAIN q : j > i => ~IsFrame(q[j])
  \/ v = f /\ \A j \in DOMAIN q : ~IsFrame(q[j])

LEMMA SettlesAppend ==
  ASSUME NEW q \in Seq(Message), NEW m \in Message, NEW v, NEW f,
         IF IsFrame(m) THEN m = Update(LAST_FRAME_ID, f) ELSE Settles(q, v, f)
  PROVE  Settles(Append(q, m), v, f)
<1>. DEFINE r == Append(q, m)
<1>1. /\ Len(q) \in Nat /\ DOMAIN q = 1..Len(q) /\ DOMAIN r = 1..(Len(q) + 1)
      /\ \A i \in DOMAIN q : r[i] = q[i]
      /\ r[Len(q) + 1] = m
  BY Appended
<1>. HIDE DEF r
<1>2. CASE IsFrame(m)
  <2>1. Len(q) + 1 \in DOMAIN r /\ \A j \in DOMAIN r : ~(j > Len(q) + 1)
    BY <1>1
  <2>. QED
    BY <1>1, <1>2, <2>1 DEF Settles
<1>3. CASE ~IsFrame(m)
  <2>1. \A j \in DOMAIN r : j \in DOMAIN q \/ j = Len(q) + 1
    BY <1>1
  <2>2. DOMAIN q \subseteq DOMAIN r
    BY <1>1
  <2>. QED
    BY <1>1, <1>3, <2>1, <2>2 DEF Settles
<1>. QED
  BY <1>2, <1>3 DEF r

LEMMA SettlesTail ==
  ASSUME NEW q \in Seq(Message), q # <<>>, NEW v, NEW f, Settles(q, v, f)
  PROVE  Settles(Tail(q), IF IsFrame(Head(q)) THEN Head(q).value ELSE v, f)
<1>. DEFINE r == Tail(q)
            u == IF IsFrame(Head(q)) THEN Head(q).value ELSE v
<1>1. /\ Len(q) \in Nat \ {0} /\ DOMAIN q = 1..Len(q)
      /\ DOMAIN r = 1..(Len(q) - 1)
      /\ Head(q) = q[1] /\ 1 \in DOMAIN q
      /\ \A i \in DOMAIN r : i + 1 \in DOMAIN q /\ r[i] = q[i + 1]
  BY Taken
<1>. HIDE DEF r
<1>2. CASE v = f /\ \A j \in DOMAIN q : ~IsFrame(q[j])
  BY <1>1, <1>2 DEF Settles
<1>3. ASSUME NEW i \in DOMAIN q, q[i] = Update(LAST_FRAME_ID, f),
             \A j \in DOMAIN q : j > i => ~IsFrame(q[j])
      PROVE  Settles(r, u, f)
  <2>1. CASE i = 1
    <3>1. u = f
      BY <1>1, <1>3, <2>1 DEF IsFrame, Update
    <3>2. \A j \in DOMAIN r : ~IsFrame(r[j])
      <4>1. \A j \in DOMAIN r : j + 1 > i
        BY <1>1, <2>1
      <4>. QED
        BY <1>1, <1>3, <4>1
    <3>. QED
      BY <3>1, <3>2 DEF Settles
  <2>2. CASE i # 1
    <3>1. /\ i - 1 \in DOMAIN r /\ r[i - 1] = q[i]
          /\ \A j \in DOMAIN r : j > i - 1 => j + 1 > i
      <4>1. i - 1 \in DOMAIN r /\ (i - 1) + 1 = i
        BY <1>1, <2>2
      <4>2. r[i - 1] = q[(i - 1) + 1]
        BY <1>1, <4>1
      <4>. QED
        BY <1>1, <4>1, <4>2
    <3>2. \A j \in DOMAIN r : j > i - 1 => ~IsFrame(r[j])
      BY <1>1, <1>3, <3>1
    <3>. QED
      BY <1>3, <3>1, <3>2 DEF Settles
  <2>. QED
    BY <2>1, <2>2
<1>. QED
  BY <1>2, <1>3 DEF Settles, r

FollowsBus(w) ==
  LET q == manager_mailbox[w]
      v == signal_cache[w][LAST_FRAME_ID] IN
  IF can_stream[w] = None
    THEN w \notin started /\ q = <<>> /\ v = None
    ELSE /\ w \in started
         /\ can_stream[w] \in 0..Len(bus)
         /\ can_from[w] \in 0..can_stream[w]
         /\ Settles(q, v, LastTaken(w))

BusInv == \A w \in Worker : FollowsBus(w)

LEMMA OthersFollowBus ==
  ASSUME TypeInv, BusInv, NEW x \in Worker,
         x \in started' <=> x \in started,
         UNCHANGED <<manager_mailbox[x], signal_cache[x], can_stream[x], can_from[x]>>,
         UNCHANGED bus \/ \E f \in Frame : bus' = Append(bus, f)
  PROVE  FollowsBus(x)'
<1>. TypeOK
  BY DEF TypeInv
<1>1. bus \in Seq(Frame) /\ Len(bus) \in Nat
  BY DEF TypeOK
<1>2. /\ Len(bus') \in Nat /\ Len(bus) <= Len(bus')
      /\ \A k \in 1..Len(bus) : bus'[k] = bus[k]
  BY <1>1, Appended
<1>3. CASE can_stream[x] = None
  BY <1>3 DEF BusInv, FollowsBus
<1>4. CASE can_stream[x] # None
  <2>1. /\ can_stream[x] \in 0..Len(bus) /\ can_from[x] \in 0..can_stream[x]
        /\ x \in started
        /\ Settles(manager_mailbox[x], signal_cache[x][LAST_FRAME_ID], LastTaken(x))
    BY <1>4 DEF BusInv, FollowsBus
  <2>2. LastTaken(x)' = LastTaken(x)
    <3>1. can_stream[x] > can_from[x] => can_stream[x] \in 1..Len(bus)
      BY <1>1, <2>1
    <3>. QED
      BY <1>2, <3>1 DEF LastTaken
  <2>3. can_stream[x] \in 0..Len(bus')
    BY <1>1, <1>2, <2>1
  <2>. QED
    BY <1>4, <2>1, <2>2, <2>3 DEF FollowsBus
<1>. QED
  BY <1>3, <1>4

(* A message that is no frame, and a step that is about something else. *)
LEMMA MailedFollowsBus ==
  ASSUME TypeInv, BusInv, NEW w \in Worker, NEW m \in Message, w \in started,
         ~IsFrame(m), DoSend(w, m),
         UNCHANGED <<started, signal_cache, can_stream, can_from, bus>>
  PROVE  BusInv'
<1>. TypeOK
  BY DEF TypeInv
<1>1. /\ manager_mailbox[w] \in Seq(Message)
      /\ manager_mailbox'[w] = Append(manager_mailbox[w], m)
      /\ \A x \in Worker \ {w} : manager_mailbox'[x] = manager_mailbox[x]
  BY DEF DoSend, TypeOK
<1>2. ASSUME NEW v, NEW f, Settles(manager_mailbox[w], v, f)
      PROVE  Settles(manager_mailbox'[w], v, f)
  BY <1>1, <1>2, SettlesAppend
<1>3. FollowsBus(w)'
  BY <1>2 DEF BusInv, FollowsBus, LastTaken
<1>4. ASSUME NEW x \in Worker \ {w} PROVE FollowsBus(x)'
  BY <1>1, OthersFollowBus
<1>. QED
  BY <1>3, <1>4 DEF BusInv

LEMMA QuietFollowsBus ==
  ASSUME TypeInv, BusInv,
         UNCHANGED <<started, manager_mailbox, signal_cache, can_stream, can_from>>,
         UNCHANGED bus \/ \E f \in Frame : bus' = Append(bus, f)
  PROVE  BusInv'
BY OthersFollowBus DEF BusInv

LEMMA StartFollowsBus ==
  ASSUME TypeInv, BusInv, NEW w \in Worker, StartApp(w)
  PROVE  BusInv'
<1>. TypeOK
  BY DEF TypeInv
<1>. DEFINE m == AddSet(PRINT_SET)
<1>1. /\ m \in Message /\ ~IsFrame(m)
      /\ manager_mailbox[w] \in Seq(Message)
      /\ manager_mailbox'[w] = Append(manager_mailbox[w], m)
      /\ \A x \in Worker \ {w} : manager_mailbox'[x] = manager_mailbox[x]
  <2>1. m \in Message
    BY ExampleAssumption DEF Message
  <2>2. ~IsFrame(m)
    BY DEF IsFrame, AddSet
  <2>. QED
    BY <2>1, <2>2 DEF StartApp, DoSend, TypeOK
<1>2. /\ w \notin started /\ started' = started \cup {w}
      /\ can_stream' = [can_stream EXCEPT ![w] = Len(bus)]
      /\ can_from' = [can_from EXCEPT ![w] = Len(bus)]
      /\ UNCHANGED <<signal_cache, bus>>
  BY DEF StartApp
<1>3. FollowsBus(w)'
  <2>1. manager_mailbox[w] = <<>> /\ signal_cache[w][LAST_FRAME_ID] = None
    BY <1>2 DEF BusInv, FollowsBus
  <2>2. Settles(manager_mailbox[w], None, None)
    BY <2>1 DEF Settles
  <2>3. Settles(manager_mailbox'[w], None, None)
    BY <1>1, <2>2, SettlesAppend
  <2>4. Len(bus) \in 0..Len(bus) /\ Len(bus) \in Nat
    BY DEF TypeOK
  <2>5. can_stream'[w] = Len(bus) /\ can_from'[w] = Len(bus) /\ w \in started'
    BY <1>2 DEF TypeOK
  <2>6. Len(bus) # None
    BY <2>4, ExampleAssumption
  <2>7. LastTaken(w)' = None
    BY <2>4, <2>5 DEF LastTaken
  <2>. QED
    BY <1>2, <2>1, <2>3, <2>4, <2>5, <2>6, <2>7 DEF FollowsBus
<1>4. ASSUME NEW x \in Worker \ {w} PROVE FollowsBus(x)'
  <2>1. /\ x \in started' <=> x \in started
        /\ UNCHANGED <<manager_mailbox[x], signal_cache[x],
                       can_stream[x], can_from[x], bus>>
    BY <1>1, <1>2 DEF TypeOK
  <2>. QED
    BY <2>1, OthersFollowBus
<1>. QED
  BY <1>3, <1>4 DEF BusInv

LEMMA ItemFollowsBus ==
  ASSUME TypeInv, BusInv, NEW w \in Worker, CanItem(w)
  PROVE  BusInv'
<1>. TypeOK
  BY DEF TypeInv
<1>. DEFINE k == can_stream[w] + 1
            m == Update(LAST_FRAME_ID, bus[k])
<1>1. can_stream[w] # None /\ can_stream[w] \in 0..MaxInputs /\ k \in 1..Len(bus)
  BY DEF CanItem, Unread, Open, TypeOK
<1>2. bus[k] \in Frame
  BY <1>1 DEF TypeOK
<1>3. m \in Message /\ IsFrame(m)
  BY <1>2, ExampleAssumption DEF Message, IsFrame, Update
<1>4. /\ manager_mailbox[w] \in Seq(Message)
      /\ manager_mailbox'[w] = Append(manager_mailbox[w], m)
      /\ \A x \in Worker \ {w} : manager_mailbox'[x] = manager_mailbox[x]
  BY DEF CanItem, DoSend, TypeOK
<1>5. /\ can_stream' = [can_stream EXCEPT ![w] = k]
      /\ UNCHANGED <<started, signal_cache, can_from, bus>>
  BY DEF CanItem
<1>6. FollowsBus(w)'
  <2>1. Settles(manager_mailbox'[w], signal_cache[w][LAST_FRAME_ID], bus[k])
    BY <1>3, <1>4, SettlesAppend
  <2>2. k # None /\ k \in 0..Len(bus)
    BY <1>1, ExampleAssumption
  <2>3. w \in started /\ can_stream'[w] = k /\ can_from[w] \in 0..can_stream[w]
    BY <1>1, <1>5 DEF BusInv, FollowsBus, TypeOK
  <2>4. can_from[w] \in 0..k /\ k > can_from[w]
    BY <1>1, <2>3
  <2>5. LastTaken(w)' = bus[k]
    BY <1>5, <2>3, <2>4 DEF LastTaken
  <2>. QED
    BY <1>5, <2>1, <2>2, <2>3, <2>4, <2>5 DEF FollowsBus
<1>7. ASSUME NEW x \in Worker \ {w} PROVE FollowsBus(x)'
  BY <1>4, <1>5, OthersFollowBus DEF TypeOK
<1>. QED
  BY <1>6, <1>7 DEF BusInv

LEMMA HandleFollowsBus ==
  ASSUME TypeInv, BusInv, NEW w \in Worker, ManagerHandle(w)
  PROVE  BusInv'
<1>. TypeOK
  BY DEF TypeInv
<1>. DEFINE q == manager_mailbox[w]
            v == signal_cache[w][LAST_FRAME_ID]
<1>1. /\ q \in Seq(Message) /\ q # <<>> /\ Head(q) \in Message
      /\ manager_mailbox'[w] = Tail(q)
      /\ \A x \in Worker \ {w} : manager_mailbox'[x] = manager_mailbox[x]
      /\ UNCHANGED <<started, bus, can_stream, can_from>>
  BY Sequences1 DEF ManagerHandle, TypeOK, sourceVars
<1>2. /\ signal_cache'[w][LAST_FRAME_ID]
           = IF IsFrame(Head(q)) THEN Head(q).value ELSE v
      /\ \A x \in Worker \ {w} : signal_cache'[x] = signal_cache[x]
  <2>1. CASE Head(q).msg = "UpdateSignal"
    <3>1. signal_cache' = [signal_cache EXCEPT ![w][Head(q).path] = Head(q).value]
      BY <2>1 DEF ManagerHandle, HandleUpdate
    <3>2. Head(q).path \in Path /\ LAST_FRAME_ID \in Path
      BY <1>1, <2>1, MessageShape, ExampleAssumption
    <3>. QED
      BY <2>1, <3>1, <3>2 DEF IsFrame, TypeOK
  <2>2. CASE Head(q).msg # "UpdateSignal"
    BY <2>2 DEF ManagerHandle, HandleAddSet, HandleGet, HandleSet, IsFrame
  <2>. QED
    BY <2>1, <2>2
<1>3. ASSUME NEW f, Settles(q, v, f)
      PROVE  Settles(manager_mailbox'[w], signal_cache'[w][LAST_FRAME_ID], f)
  BY <1>1, <1>2, <1>3, SettlesTail
<1>4. FollowsBus(w)'
  <2>1. can_stream[w] # None
    BY <1>1 DEF BusInv, FollowsBus
  <2>. QED
    BY <1>1, <1>3, <2>1 DEF BusInv, FollowsBus, LastTaken
<1>5. ASSUME NEW x \in Worker \ {w} PROVE FollowsBus(x)'
  BY <1>1, <1>2, OthersFollowBus
<1>. QED
  BY <1>4, <1>5 DEF BusInv

LEMMA NextFollowsBus == TypeInv /\ Settled /\ BusInv /\ [Next]_vars => BusInv'
<1>. SUFFICES ASSUME TypeInv, Settled, BusInv, [Next]_vars PROVE BusInv'
  OBVIOUS
<1>. TypeOK
  BY DEF TypeInv
<1>1. ASSUME NEW w \in Worker, IntervalTick(w) PROVE BusInv'
  <2>1. count[w] \in 0..(MaxTicks - 1)
    BY <1>1, ExampleAssumption DEF IntervalTick, TypeOK
  <2>2. PICK m \in Message : m = Update(INTERVAL, count[w])
    BY <2>1, ExampleAssumption DEF Message
  <2>3. ~IsFrame(m)
    BY <2>2, ExampleAssumption DEF IsFrame, Update
  <2>4. /\ w \in started /\ DoSend(w, m)
        /\ UNCHANGED <<started, signal_cache, can_stream, can_from, bus>>
    BY <1>1, <2>2 DEF IntervalTick, canVars
  <2>. QED
    BY <2>3, <2>4, MailedFollowsBus
<1>2. ASSUME NEW c \in Client, NEW a \in {"get", "set"}, NEW p \in Path,
             Receive(c, a, p)
      PROVE  BusInv'
  <2>. DEFINE w == worker[c]
  <2>1. w \in Worker /\ w \in started /\ SendTo(w, c, a, p)
    BY <1>2 DEF Receive, TypeOK, Settled
  <2>2. Len(requests) + 1 \in ReqId
    <3>1. Len(requests) \in Nat /\ Len(bus) \in Nat
      BY DEF TypeOK
    <3>. QED
      BY <2>1, <3>1, ExampleAssumption DEF SendTo, Inputs
  <2>3. PICK m \in Message : m = ClientMessage(c, Len(requests) + 1, a, p)
    BY <2>2 DEF Message
  <2>4. ~IsFrame(m)
    BY <2>3 DEF IsFrame, ClientMessage
  <2>5. /\ DoSend(w, m)
        /\ UNCHANGED <<started, signal_cache, can_stream, can_from, bus>>
    BY <2>1, <2>3 DEF SendTo, sourceVars
  <2>. HIDE DEF w
  <2>. QED
    BY <2>1, <2>4, <2>5, MailedFollowsBus
<1>3. ASSUME NEW w \in Worker, CanError(w) PROVE BusInv'
  BY <1>3, QuietFollowsBus DEF CanError, managers
<1>4. ASSUME NEW w \in Worker, PrintSetHandle(w) PROVE BusInv'
  BY <1>4, QuietFollowsBus DEF PrintSetHandle, managers, sourceVars
<1>5. ASSUME NEW f \in Frame, CanFrame(f) PROVE BusInv'
  BY <1>5, QuietFollowsBus DEF CanFrame, managers, canVars
<1>6. ASSUME NEW c \in Client, NEW w \in Worker, Connect(c, w) PROVE BusInv'
  BY <1>6, QuietFollowsBus DEF Connect, managers, sourceVars
<1>7. CASE UNCHANGED vars
  BY <1>7, QuietFollowsBus DEF vars, managers, sourceVars
<1>. QED
  BY <1>1, <1>2, <1>3, <1>4, <1>5, <1>6, <1>7, StartFollowsBus, ItemFollowsBus,
     HandleFollowsBus, ExampleAssumption DEF Next

(***************************************************************************)
(* For any number of workers that start, fall behind and lose their stream *)
(* at any time: what a stream has taken before its end is delivered.       *)
(***************************************************************************)
THEOREM FramesAreDelivered == Spec => []FramesTakenAreDelivered
<1>1. Init => TypeInv /\ Settled /\ BusInv
  <2>1. Init => Settled /\ BusInv
    BY ExampleAssumption DEF Init, Settled, BusInv, FollowsBus
  <2>. QED
    BY <2>1, InitType
<1>2. TypeInv /\ Settled /\ BusInv /\ [Next]_vars => (TypeInv /\ Settled /\ BusInv)'
  BY NextType, StepSettles, NextFollowsBus
<1>3. TypeInv /\ BusInv => FramesTakenAreDelivered
  <2>. SUFFICES ASSUME TypeInv, BusInv, NEW w \in started,
                       \A i \in DOMAIN manager_mailbox[w] :
                         ~IsFrame(manager_mailbox[w][i])
                PROVE  signal_cache[w][LAST_FRAME_ID] = LastTaken(w)
    BY DEF FramesTakenAreDelivered
  <2>1. w \in Worker
    BY DEF TypeInv, TypeOK
  <2>2. Settles(manager_mailbox[w], signal_cache[w][LAST_FRAME_ID], LastTaken(w))
    BY <2>1 DEF BusInv, FollowsBus
  <2>. QED
    BY <2>2 DEF Settles, IsFrame, Update
<1>. QED
  BY <1>1, <1>2, <1>3, PTL DEF Spec

(***************************************************************************)
(* A worker's counter: the counts in its manager's mailbox q are in order, *)
(* none is older than the cached v, and all are older than the next, n.    *)
(***************************************************************************)
IsCount(m) == m.msg = "UpdateSignal" /\ m.path = INTERVAL

Ordered(q, v, n) ==
  /\ v # None => v \in Nat /\ v < n
  /\ \A i \in DOMAIN q :
       IsCount(q[i]) => /\ q[i].value \in Nat /\ q[i].value < n
                        /\ v # None => v <= q[i].value
  /\ \A i, j \in DOMAIN q :
       i < j /\ IsCount(q[i]) /\ IsCount(q[j]) => q[i].value <= q[j].value

LEMMA OrderedAppend ==
  ASSUME NEW q \in Seq(Message), NEW m \in Message, NEW v, NEW n,
         ~IsCount(m), Ordered(q, v, n)
  PROVE  Ordered(Append(q, m), v, n)
<1>. DEFINE r == Append(q, m)
<1>1. /\ \A i \in DOMAIN r : i \in DOMAIN q \/ i = Len(q) + 1
      /\ \A i \in DOMAIN q : r[i] = q[i]
      /\ r[Len(q) + 1] = m
  BY Appended
<1>. HIDE DEF r
<1>2. \A i \in DOMAIN r : IsCount(r[i]) => i \in DOMAIN q /\ r[i] = q[i]
  BY <1>1
<1>. QED
  BY <1>2 DEF Ordered, r

LEMMA OrderedCount ==
  ASSUME NEW q \in Seq(Message), NEW v, NEW n \in Nat, Ordered(q, v, n),
         NEW m \in Message, m = Update(INTERVAL, n)
  PROVE  Ordered(Append(q, m), v, n + 1)
<1>. DEFINE r == Append(q, m)
<1>1. /\ Len(q) \in Nat /\ DOMAIN q = 1..Len(q)
      /\ DOMAIN r = 1..(Len(q) + 1)
      /\ \A i \in DOMAIN q : r[i] = q[i]
      /\ r[Len(q) + 1] = m
  BY Appended
<1>. HIDE DEF r
<1>2. m.value = n
  BY DEF Update
<1>3. v # None => v \in Nat /\ v < n + 1 /\ v <= n
  BY DEF Ordered
<1>4. ASSUME NEW i \in DOMAIN r, IsCount(r[i])
      PROVE  /\ r[i].value \in Nat /\ r[i].value < n + 1
             /\ v # None => v <= r[i].value
  <2>1. CASE i \in DOMAIN q
    <3>1. /\ r[i].value \in Nat /\ r[i].value < n
          /\ v # None => v <= r[i].value
      BY <1>1, <1>4, <2>1 DEF Ordered
    <3>. QED
      BY <3>1
  <2>2. CASE i = Len(q) + 1
    BY <1>1, <1>2, <1>3, <2>2
  <2>. QED
    BY <1>1, <2>1, <2>2
<1>5. ASSUME NEW i \in DOMAIN r, NEW j \in DOMAIN r, i < j,
             IsCount(r[i]), IsCount(r[j])
      PROVE  r[i].value <= r[j].value
  <2>1. i \in DOMAIN q
    BY <1>1, <1>5
  <2>2. CASE j \in DOMAIN q
    BY <1>1, <1>5, <2>1, <2>2 DEF Ordered
  <2>3. CASE j = Len(q) + 1
    <3>1. r[i].value \in Nat /\ r[i].value < n
      BY <1>1, <1>5, <2>1 DEF Ordered
    <3>. QED
      BY <1>1, <1>2, <2>3, <3>1
  <2>. QED
    BY <1>1, <2>2, <2>3
<1>. QED
  BY <1>3, <1>4, <1>5 DEF Ordered, r

LEMMA OrderedTail ==
  ASSUME NEW q \in Seq(Message), q # <<>>, NEW v, NEW n, Ordered(q, v, n)
  PROVE  LET u == IF IsCount(Head(q)) THEN Head(q).value ELSE v IN
         /\ Ordered(Tail(q), u, n)
         /\ v # None => u # None /\ u \in Nat /\ v <= u
<1>. DEFINE r == Tail(q)
            u == IF IsCount(Head(q)) THEN Head(q).value ELSE v
<1>1. /\ Head(q) = q[1] /\ 1 \in DOMAIN q /\ DOMAIN r \subseteq Nat \ {0}
      /\ \A i \in DOMAIN r : i + 1 \in DOMAIN q /\ r[i] = q[i + 1]
  BY Taken
<1>. HIDE DEF r
<1>2. \A i \in DOMAIN r : 1 < i + 1 /\ \A j \in DOMAIN r : i < j => i + 1 < j + 1
  BY <1>1
<1>3. ASSUME NEW i \in DOMAIN r, NEW j \in DOMAIN r, i < j,
             IsCount(r[i]), IsCount(r[j])
      PROVE  r[i].value <= r[j].value
  BY <1>1, <1>2, <1>3 DEF Ordered
<1>4. ASSUME NEW i \in DOMAIN r, IsCount(r[i])
      PROVE  /\ r[i].value \in Nat /\ r[i].value < n
             /\ u # None => u <= r[i].value
  BY <1>1, <1>2, <1>4 DEF Ordered
<1>5. u # None => u \in Nat /\ u < n
  BY <1>1 DEF Ordered
<1>6. v # None => u # None /\ u \in Nat /\ v <= u
  BY <1>1, ExampleAssumption DEF Ordered
<1>. QED
  BY <1>3, <1>4, <1>5, <1>6 DEF Ordered, r

Sourced(w) ==
  /\ signal_cache[w][LAST_FRAME_ID] \in Frame \cup {None}
  /\ signal_cache[w][PRINT_SET] = None
  /\ \A i \in DOMAIN manager_mailbox[w] :
       LET m == manager_mailbox[w][i] IN
       /\ m.msg = "UpdateSignal" =>
            m.path = INTERVAL \/ (m.path = LAST_FRAME_ID /\ m.value \in Frame)
       /\ m.msg = "ClientMessage" => worker[m.client_addr] = w

Counting(w) ==
  Ordered(manager_mailbox[w], signal_cache[w][INTERVAL], count[w])

(* What a client has read is not newer than what its worker has cached. *)
IsReading(x) == x.action = "get" /\ "value" \in DOMAIN x /\ x.value \notin Frame

HasRead(c) ==
  \A i \in DOMAIN answers[c] :
    LET x == answers[c][i]
        cached == signal_cache[worker[c]][INTERVAL] IN
    IsReading(x) =>
      /\ worker[c] # None /\ cached # None
      /\ x.value \in Nat /\ x.value <= cached

CountInv ==
  /\ \A w \in Worker : Sourced(w) /\ Counting(w)
  /\ \A c \in Client : HasRead(c)
  /\ CounterNeverGoesBack

Stays == \A c \in Client : worker[c] # None => worker'[c] = worker[c]

LEMMA UnhandledReadings ==
  ASSUME TypeInv, CountInv, Stays, Unhandled
  PROVE  (\A c \in Client : HasRead(c)') /\ CounterNeverGoesBack'
<1>1. ASSUME NEW c \in Client PROVE HasRead(c)'
  BY DEF CountInv, HasRead, Stays, Unhandled
<1>2. CounterNeverGoesBack'
  BY DEF CountInv, CounterNeverGoesBack, Unhandled
<1>. QED
  BY <1>1, <1>2

LEMMA QuietCounts ==
  ASSUME TypeInv, CountInv, Stays, Unhandled, NEW x \in Worker,
         UNCHANGED <<manager_mailbox[x], count[x]>>
  PROVE  Sourced(x)' /\ Counting(x)'
<1>. TypeOK
  BY DEF TypeInv
<1>1. Counting(x)'
  BY DEF CountInv, Counting, Unhandled
<1>2. Sourced(x)'
  <2>1. ASSUME NEW i \in DOMAIN manager_mailbox[x],
               manager_mailbox[x][i].msg = "ClientMessage"
        PROVE  worker'[manager_mailbox[x][i].client_addr] = x
    <3>1. manager_mailbox[x][i].client_addr \in Client
      BY <2>1, MessageShape DEF TypeOK
    <3>2. worker[manager_mailbox[x][i].client_addr] = x
      BY <2>1 DEF CountInv, Sourced
    <3>. QED
      BY <3>1, <3>2, ExampleAssumption DEF Stays
  <2>. QED
    BY <2>1 DEF CountInv, Sourced, Unhandled
<1>. QED
  BY <1>1, <1>2

LEMMA MailedCounts ==
  ASSUME TypeInv, CountInv, Stays, Unhandled, NEW w \in Worker, NEW m \in Message,
         DoSend(w, m),
         m.msg = "UpdateSignal" =>
           \/ m.path = INTERVAL
           \/ m.path = LAST_FRAME_ID /\ m.value \in Frame,
         m.msg = "ClientMessage" => worker[m.client_addr] = w,
         IF IsCount(m)
           THEN /\ m = Update(INTERVAL, count[w])
                /\ count' = [count EXCEPT ![w] = @ + 1]
           ELSE UNCHANGED count
  PROVE  CountInv'
<1>. TypeOK
  BY DEF TypeInv
<1>1. /\ manager_mailbox[w] \in Seq(Message)
      /\ manager_mailbox'[w] = Append(manager_mailbox[w], m)
      /\ \A x \in Worker \ {w} : manager_mailbox'[x] = manager_mailbox[x]
  BY DEF DoSend, TypeOK
<1>2. count[w] \in Nat
  BY ExampleAssumption DEF TypeOK
<1>3. Counting(w)'
  <2>1. CASE IsCount(m)
    <3>1. count'[w] = count[w] + 1
      BY <2>1 DEF TypeOK
    <3>2. Ordered(manager_mailbox'[w], signal_cache[w][INTERVAL], count[w] + 1)
      BY <1>1, <1>2, <2>1, OrderedCount DEF CountInv, Counting
    <3>. QED
      BY <3>1, <3>2 DEF Counting, Unhandled
  <2>2. CASE ~IsCount(m)
    BY <1>1, <2>2, OrderedAppend DEF CountInv, Counting, Unhandled
  <2>. QED
    BY <2>1, <2>2
<1>4. Sourced(w)'
  <2>1. ASSUME NEW i \in DOMAIN manager_mailbox'[w]
        PROVE  \/ /\ i \in DOMAIN manager_mailbox[w]
                  /\ manager_mailbox'[w][i] = manager_mailbox[w][i]
               \/ manager_mailbox'[w][i] = m
    BY <1>1, Appended
  <2>2. ASSUME NEW i \in DOMAIN manager_mailbox'[w],
               manager_mailbox'[w][i].msg = "ClientMessage"
        PROVE  worker'[manager_mailbox'[w][i].client_addr] = w
    <3>1. /\ manager_mailbox'[w][i].client_addr \in Client
          /\ worker[manager_mailbox'[w][i].client_addr] = w
      BY <1>1, <2>1, <2>2, MessageShape DEF CountInv, Sourced, TypeOK
    <3>. QED
      BY <3>1, ExampleAssumption DEF Stays
  <2>3. ASSUME NEW i \in DOMAIN manager_mailbox'[w],
               manager_mailbox'[w][i].msg = "UpdateSignal"
        PROVE  \/ manager_mailbox'[w][i].path = INTERVAL
               \/ /\ manager_mailbox'[w][i].path = LAST_FRAME_ID
                  /\ manager_mailbox'[w][i].value \in Frame
    BY <2>1, <2>3 DEF CountInv, Sourced
  <2>. QED
    BY <2>2, <2>3 DEF CountInv, Sourced, Unhandled
<1>5. ASSUME NEW x \in Worker \ {w} PROVE Sourced(x)' /\ Counting(x)'
  <2>1. count'[x] = count[x]
    BY DEF TypeOK
  <2>. QED
    BY <1>1, <2>1, QuietCounts
<1>. QED
  BY <1>3, <1>4, <1>5, UnhandledReadings DEF CountInv

LEMMA HandledCache ==
  ASSUME TypeInv, CountInv, NEW w \in Worker, ManagerHandle(w)
  PROVE  /\ \A x \in Worker \ {w} : signal_cache'[x] = signal_cache[x]
         /\ Sourced(w)' /\ Counting(w)'
         /\ signal_cache[w][INTERVAL] # None =>
              /\ signal_cache[w][INTERVAL] \in Nat
              /\ signal_cache'[w][INTERVAL] \in Nat
              /\ signal_cache[w][INTERVAL] <= signal_cache'[w][INTERVAL]
<1>. TypeOK
  BY DEF TypeInv
<1>. DEFINE q == manager_mailbox[w]
            m == Head(q)
            v == signal_cache[w][INTERVAL]
            u == IF IsCount(m) THEN m.value ELSE v
<1>1. /\ q \in Seq(Message) /\ q # <<>> /\ m \in Message
      /\ manager_mailbox'[w] = Tail(q)
      /\ UNCHANGED <<count, worker>>
      /\ m = q[1] /\ 1 \in DOMAIN q
  BY Sequences1, Taken DEF ManagerHandle, TypeOK, sourceVars
<1>2. CASE m.msg = "UpdateSignal"
  <2>1. signal_cache' = [signal_cache EXCEPT ![w][m.path] = m.value]
    BY <1>2 DEF ManagerHandle, HandleUpdate
  <2>2. /\ m.path = INTERVAL \/ (m.path = LAST_FRAME_ID /\ m.value \in Frame)
        /\ {INTERVAL, LAST_FRAME_ID, PRINT_SET} \subseteq Path
    BY <1>1, <1>2, ExampleAssumption DEF CountInv, Sourced
  <2>3. /\ \A x \in Worker \ {w} : signal_cache'[x] = signal_cache[x]
        /\ signal_cache'[w][INTERVAL] = u
        /\ signal_cache'[w][LAST_FRAME_ID] \in Frame \cup {None}
        /\ signal_cache'[w][PRINT_SET] = None
    BY <1>2, <2>1, <2>2, ExampleAssumption DEF IsCount, TypeOK, CountInv, Sourced
  <2>4. /\ Ordered(Tail(q), u, count[w])
        /\ v # None => v \in Nat /\ u \in Nat /\ v <= u
    <3>1. Ordered(q, v, count[w])
      BY DEF CountInv, Counting
    <3>. QED
      BY <1>1, <3>1, OrderedTail DEF Ordered
  <2>5. Counting(w)'
    BY <1>1, <2>3, <2>4 DEF Counting
  <2>6. Sourced(w)'
    BY <1>1, <2>3, Taken DEF CountInv, Sourced
  <2>. QED
    BY <2>3, <2>4, <2>5, <2>6
<1>3. CASE m.msg # "UpdateSignal"
  <2>1. UNCHANGED signal_cache
    BY <1>3 DEF ManagerHandle, HandleAddSet, HandleGet, HandleSet
  <2>2. u = v
    BY <1>3 DEF IsCount
  <2>. QED
    BY <1>1, <2>1, <2>2, OrderedTail, Taken DEF CountInv, Sourced, Counting
<1>. QED
  BY <1>2, <1>3

LEMMA HandledReadings ==
  ASSUME TypeInv, CountInv, NEW w \in Worker, ManagerHandle(w)
  PROVE  \/ UNCHANGED answers
         \/ \E c \in Client, x \in Response :
              /\ Answer(c, x)
              /\ worker[c] = w
              /\ IsReading(x) =>
                   /\ x.value = signal_cache[w][INTERVAL] /\ x.value # None
                   /\ UNCHANGED signal_cache
<1>. TypeOK
  BY DEF TypeInv
<1>. DEFINE m == Head(manager_mailbox[w])
<1>1. /\ m \in Message
      /\ m.msg = "ClientMessage" => worker[m.client_addr] = w
  BY Sequences1, Taken DEF ManagerHandle, TypeOK, CountInv, Sourced
<1>2. CASE m.msg = "UpdateSignal" /\ HandleUpdate(w, m.path, m.value)
  BY <1>2 DEF HandleUpdate
<1>3. CASE m.msg = "AddSetRecipient" /\ HandleAddSet(w, m.path)
  BY <1>3 DEF HandleAddSet
<1>4. CASE /\ m.msg = "ClientMessage"
           /\ HandleGet(w, m.client_addr, m.request_id, m.path)
  <2>. DEFINE v == signal_cache[w][m.path]
              x == IF v # None THEN GetSuccess(m.request_id, v)
                   ELSE GetError(m.request_id, NOT_FOUND_INVALID_PATH)
  <2>1. /\ m.client_addr \in Client /\ m.request_id \in ReqId
        /\ v \in Value \cup {None} /\ m.path \in Path
    BY <1>1, <1>4, MessageShape DEF TypeOK
  <2>2. x \in Response
    BY <2>1 DEF Response, ActionSuccessResponse, ActionErrorResponse,
                GetError, ActionError
  <2>3. Answer(m.client_addr, x) /\ UNCHANGED signal_cache
    BY <1>4 DEF HandleGet
  <2>4. IsReading(x) => v # None /\ x.value = v /\ v \notin Frame
    BY DEF IsReading, GetSuccess, GetError, RequestError
  <2>5. v # None /\ v \notin Frame => m.path = INTERVAL
    BY <2>1, ExampleAssumption DEF CountInv, Sourced
  <2>. HIDE DEF x, v
  <2>6. IsReading(x) => x.value = signal_cache[w][INTERVAL] /\ x.value # None
    BY <2>4, <2>5 DEF v
  <2>. QED
    BY <1>1, <1>4, <2>1, <2>2, <2>3, <2>6
<1>5. CASE /\ m.msg = "ClientMessage"
           /\ HandleSet(w, m.client_addr, m.request_id, m.path)
  <2>1. /\ m.client_addr \in Client /\ m.request_id \in ReqId
    BY <1>1, <1>5, MessageShape
  <2>2. PICK x \in {SetSuccess(m.request_id),
                    SetError(m.request_id, NOT_FOUND_INVALID_PATH)} :
          Answer(m.client_addr, x)
    BY <1>5 DEF HandleSet
  <2>3. x \in Response
    BY <2>1, <2>2 DEF Response, ActionSuccessResponse, ActionErrorResponse,
                SetError, ActionError
  <2>4. ~IsReading(x)
    BY <2>2 DEF IsReading, SetSuccess, SetError, RequestError
  <2>. QED
    BY <1>1, <1>5, <2>1, <2>2, <2>3, <2>4
<1>. QED
  BY <1>2, <1>3, <1>4, <1>5 DEF ManagerHandle

LEMMA HandleCounts ==
  ASSUME TypeInv, CountInv, NEW w \in Worker, ManagerHandle(w)
  PROVE  CountInv'
<1>. TypeOK
  BY DEF TypeInv
<1>1. /\ \A x \in Worker \ {w} : manager_mailbox'[x] = manager_mailbox[x]
      /\ UNCHANGED <<count, worker>>
  BY DEF ManagerHandle, TypeOK, sourceVars
<1>2. ASSUME NEW x \in Worker PROVE Sourced(x)' /\ Counting(x)'
  <2>1. CASE x = w
    BY <2>1, HandledCache
  <2>2. CASE x # w
    <3>1. signal_cache'[x] = signal_cache[x]
      BY <2>2, HandledCache
    <3>. QED
      BY <1>1, <2>2, <3>1 DEF CountInv, Sourced, Counting
  <2>. QED
    BY <2>1, <2>2
<1>. DEFINE cached(c) == signal_cache[worker[c]][INTERVAL]
<1>3. ASSUME NEW c \in Client, worker[c] # None, cached(c) # None
      PROVE  /\ cached(c) \in Nat /\ cached(c)' \in Nat
             /\ cached(c) <= cached(c)' /\ cached(c)' # None
  <2>1. worker[c] \in Worker
    BY <1>3 DEF TypeOK
  <2>2. CASE worker[c] = w
    BY <1>1, <1>3, <2>2, HandledCache, ExampleAssumption
  <2>3. CASE worker[c] # w
    <3>1. cached(c)' = cached(c) /\ cached(c) \in Nat
      BY <1>1, <1>3, <2>1, <2>3, HandledCache DEF CountInv, Counting, Ordered
    <3>. QED
      BY <1>3, <3>1
  <2>. QED
    BY <2>2, <2>3
<1>4. ASSUME NEW c \in Client, NEW i \in DOMAIN answers[c], IsReading(answers[c][i])
      PROVE  /\ worker[c] # None /\ cached(c) # None
             /\ answers[c][i].value \in Nat
             /\ answers[c][i].value <= cached(c)
             /\ answers[c][i].value <= cached(c)'
  <2>1. /\ worker[c] # None /\ cached(c) # None
        /\ answers[c][i].value \in Nat
        /\ answers[c][i].value <= cached(c)
    BY <1>4 DEF CountInv, HasRead
  <2>2. /\ cached(c) \in Nat /\ cached(c)' \in Nat /\ cached(c) <= cached(c)'
    BY <1>3, <2>1
  <2>. QED
    BY <2>1, <2>2
<1>5. CASE UNCHANGED answers
  <2>1. ASSUME NEW c \in Client PROVE HasRead(c)'
    BY <1>1, <1>3, <1>4, <1>5 DEF HasRead
  <2>2. CounterNeverGoesBack'
    BY <1>5 DEF CountInv, CounterNeverGoesBack
  <2>. QED
    BY <1>2, <2>1, <2>2 DEF CountInv
<1>6. ASSUME NEW d \in Client, NEW x \in Response, Answer(d, x), worker[d] = w,
             IsReading(x) =>
               /\ x.value = signal_cache[w][INTERVAL] /\ x.value # None
               /\ UNCHANGED signal_cache
      PROVE  CountInv'
  <2>1. ASSUME NEW c \in Client, NEW i \in DOMAIN answers'[c]
        PROVE  \/ i \in DOMAIN answers[c] /\ answers'[c][i] = answers[c][i]
               \/ /\ c = d /\ i = Len(answers[c]) + 1 /\ answers'[c][i] = x
    <3>1. answers \in [Client -> Seq(Response)]
      BY DEF TypeOK
    <3>2. /\ c # d => answers'[c] = answers[c]
          /\ c = d => answers'[c] = Append(answers[c], x)
      BY <1>6, <3>1 DEF Answer
    <3>. QED
      BY <2>1, <3>1, <3>2, Appended
  <2>2. worker[d] # None
    BY <1>6, ExampleAssumption
  <2>3. IsReading(x) => /\ x.value \in Nat /\ x.value = cached(d)
                        /\ cached(d)' = cached(d)
    BY <1>1, <1>3, <1>6, <2>2
  <2>4. ASSUME NEW c \in Client PROVE HasRead(c)'
    <3>. SUFFICES ASSUME NEW i \in DOMAIN answers'[c], IsReading(answers'[c][i])
                  PROVE  /\ worker'[c] # None /\ cached(c)' # None
                         /\ answers'[c][i].value \in Nat
                         /\ answers'[c][i].value <= cached(c)'
      BY DEF HasRead
    <3>1. CASE i \in DOMAIN answers[c] /\ answers'[c][i] = answers[c][i]
      BY <1>1, <1>3, <1>4, <3>1
    <3>2. CASE c = d /\ answers'[c][i] = x
      BY <1>1, <1>6, <2>2, <2>3, <3>2
    <3>. QED
      BY <2>1, <3>1, <3>2
  <2>5. CounterNeverGoesBack'
    <3>. SUFFICES ASSUME NEW c \in Client,
                         NEW i \in DOMAIN answers'[c], NEW j \in DOMAIN answers'[c],
                         i < j, IsReading(answers'[c][i]), IsReading(answers'[c][j])
                  PROVE  answers'[c][i].value <= answers'[c][j].value
      BY DEF CounterNeverGoesBack, IsReading
    <3>1. /\ Len(answers[c]) \in Nat
          /\ \A k \in DOMAIN answers[c] : k \in Nat /\ k <= Len(answers[c])
      BY DEF TypeOK
    <3>2. i \in DOMAIN answers[c] /\ answers'[c][i] = answers[c][i]
      <4>1. i # Len(answers[c]) + 1
        <5>1. j \in DOMAIN answers[c] \/ j = Len(answers[c]) + 1
          BY <2>1
        <5>. QED
          BY <3>1, <5>1
      <4>. QED
        BY <2>1, <4>1
    <3>3. CASE j \in DOMAIN answers[c] /\ answers'[c][j] = answers[c][j]
      BY <3>2, <3>3 DEF CountInv, CounterNeverGoesBack, IsReading
    <3>4. CASE c = d /\ answers'[c][j] = x
      <4>1. answers[c][i].value <= cached(c)
        BY <1>4, <3>2
      <4>2. x.value = cached(c)
        BY <2>3, <3>4
      <4>. QED
        BY <3>2, <3>4, <4>1, <4>2
    <3>. QED
      BY <2>1, <3>3, <3>4
  <2>. QED
    BY <1>2, <2>4, <2>5 DEF CountInv
<1>. QED
  BY <1>5, <1>6, HandledReadings

LEMMA NextCounts == TypeInv /\ Settled /\ CountInv /\ [Next]_vars => CountInv'
<1>. SUFFICES ASSUME TypeInv, Settled, CountInv, [Next]_vars PROVE CountInv'
  OBVIOUS
<1>. TypeOK /\ Stays
  BY StepSettles DEF TypeInv, Stays
<1>1. ASSUME NEW w \in Worker, IntervalTick(w) PROVE CountInv'
  <2>1. count[w] \in 0..(MaxTicks - 1)
    BY <1>1, ExampleAssumption DEF IntervalTick, TypeOK
  <2>2. PICK m \in Message : m = Update(INTERVAL, count[w])
    BY <2>1, ExampleAssumption DEF Message
  <2>3. /\ IsCount(m) /\ m.path = INTERVAL /\ m.msg = "UpdateSignal"
    BY <2>2 DEF IsCount, Update
  <2>4. /\ DoSend(w, m) /\ Unhandled
        /\ count' = [count EXCEPT ![w] = @ + 1]
    BY <1>1, <2>2 DEF IntervalTick, Unhandled, clients
  <2>. QED
    BY <2>2, <2>3, <2>4, MailedCounts
<1>2. ASSUME NEW w \in Worker, NEW m \in Message, DoSend(w, m), Unhandled,
             UNCHANGED count, ~IsCount(m),
             m.msg = "UpdateSignal" => m.path = LAST_FRAME_ID /\ m.value \in Frame,
             m.msg = "ClientMessage" => worker[m.client_addr] = w
      PROVE  CountInv'
  BY <1>2, MailedCounts
<1>3. ASSUME NEW w \in Worker, StartApp(w) PROVE CountInv'
  <2>1. PICK m \in Message : m = AddSet(PRINT_SET)
    BY ExampleAssumption DEF Message
  <2>2. ~IsCount(m) /\ m.msg = "AddSetRecipient"
    BY <2>1 DEF IsCount, AddSet
  <2>3. DoSend(w, m) /\ Unhandled /\ UNCHANGED count
    BY <1>3, <2>1 DEF StartApp, Unhandled, clients
  <2>. QED
    BY <1>2, <2>2, <2>3
<1>4. ASSUME NEW w \in Worker, CanItem(w) PROVE CountInv'
  <2>1. can_stream[w] \in 0..MaxInputs /\ can_stream[w] + 1 \in 1..Len(bus)
    BY <1>4 DEF CanItem, Unread, Open, TypeOK
  <2>2. bus[can_stream[w] + 1] \in Frame
    BY <2>1 DEF TypeOK
  <2>3. PICK m \in Message : m = Update(LAST_FRAME_ID, bus[can_stream[w] + 1])
    BY <2>2, ExampleAssumption DEF Message
  <2>4. /\ ~IsCount(m) /\ m.msg = "UpdateSignal"
        /\ m.path = LAST_FRAME_ID /\ m.value \in Frame
    BY <2>2, <2>3, ExampleAssumption DEF IsCount, Update
  <2>5. DoSend(w, m) /\ Unhandled /\ UNCHANGED count
    BY <1>4, <2>3 DEF CanItem, Unhandled, clients
  <2>. QED
    BY <1>2, <2>4, <2>5
<1>5. ASSUME NEW c \in Client, NEW a \in {"get", "set"}, NEW p \in Path,
             Receive(c, a, p)
      PROVE  CountInv'
  <2>. DEFINE w == worker[c]
  <2>1. w \in Worker /\ SendTo(w, c, a, p)
    BY <1>5 DEF Receive, TypeOK
  <2>2. Len(requests) + 1 \in ReqId
    <3>1. Len(requests) \in Nat /\ Len(bus) \in Nat
      BY DEF TypeOK
    <3>. QED
      BY <2>1, <3>1, ExampleAssumption DEF SendTo, Inputs
  <2>3. PICK m \in Message : m = ClientMessage(c, Len(requests) + 1, a, p)
    BY <2>2 DEF Message
  <2>4. /\ ~IsCount(m) /\ m.msg = "ClientMessage" /\ m.client_addr = c
    BY <2>3 DEF IsCount, ClientMessage
  <2>5. DoSend(w, m) /\ Unhandled /\ UNCHANGED count
    BY <2>1, <2>3 DEF SendTo, Unhandled, sourceVars
  <2>. QED
    BY <1>2, <2>1, <2>4, <2>5
<1>6. ASSUME UNCHANGED <<manager_mailbox, signal_cache, set_recipients, answers, count>>
      PROVE  CountInv'
  <2>1. Unhandled
    BY <1>6 DEF Unhandled
  <2>2. ASSUME NEW x \in Worker PROVE Sourced(x)' /\ Counting(x)'
    BY <1>6, <2>1, QuietCounts
  <2>. QED
    BY <2>1, <2>2, UnhandledReadings DEF CountInv
<1>7. ASSUME NEW w \in Worker, CanError(w) \/ PrintSetHandle(w) PROVE CountInv'
  BY <1>6, <1>7 DEF CanError, PrintSetHandle, managers, sourceVars, clients
<1>8. ASSUME NEW f \in Frame, CanFrame(f) PROVE CountInv'
  BY <1>6, <1>8 DEF CanFrame, managers, clients
<1>9. ASSUME NEW c \in Client, NEW w \in Worker, Connect(c, w) PROVE CountInv'
  BY <1>6, <1>9 DEF Connect, managers, sourceVars
<1>10. CASE UNCHANGED vars
  BY <1>6, <1>10 DEF vars, managers, sourceVars, clients
<1>. QED
  BY <1>1, <1>3, <1>4, <1>5, <1>7, <1>8, <1>9, <1>10, HandleCounts,
     ExampleAssumption DEF Next

(***************************************************************************)
(* For any number of workers that count on their own, the counter a        *)
(* connection gets never goes back.                                        *)
(***************************************************************************)
THEOREM CountersGoOn == Spec => []CounterNeverGoesBack
<1>1. Init => TypeInv /\ Settled /\ CountInv
  <2>1. Init => Settled /\ CountInv
    BY ExampleAssumption
    DEF Init, Settled, CountInv, Sourced, Counting, Ordered, HasRead,
        CounterNeverGoesBack
  <2>. QED
    BY <2>1, InitType
<1>2. TypeInv /\ Settled /\ CountInv /\ [Next]_vars
        => (TypeInv /\ Settled /\ CountInv)'
  BY NextType, StepSettles, NextCounts
<1>. QED
  BY <1>1, <1>2, PTL DEF Spec, CountInv

(***************************************************************************)
(* A request is in one place at most: it waits for a manager, it is on its *)
(* way to a recipient as a Set, or a recipient has handled it.             *)
(***************************************************************************)
Place == {"waits", "sent", "done"} \X Worker \X (Nat \ {0})

Waits(r, w, i) ==
  LET q == manager_mailbox[w] IN
  i \in DOMAIN q /\ q[i].msg = "ClientMessage" /\ q[i].request_id = r

Sent(r, w, i) == i \in DOMAIN set_mailbox[w] /\ set_mailbox[w][i] = r

Done(r, w, i) == i \in DOMAIN handled_sets[w] /\ handled_sets[w][i] = r

At(r, p) ==
  \/ p[1] = "waits" /\ Waits(r, p[2], p[3])
  \/ p[1] = "sent" /\ Sent(r, p[2], p[3])
  \/ p[1] = "done" /\ Done(r, p[2], p[3])

Once(r) == \A p, q \in Place : At(r, p) /\ At(r, q) => p = q

Delivered(r) == \E w \in Worker, i \in Nat \ {0} : Sent(r, w, i) \/ Done(r, w, i)

OnceInv ==
  \A r \in ReqId :
    /\ Once(r)
    /\ \A p \in Place : At(r, p) => r \in DOMAIN requests
    /\ \A w \in Worker, i \in Nat \ {0} :
         Waits(r, w, i) => manager_mailbox[w][i].client_addr = requests[r].client
    /\ \A c \in Client :
         Answered(c, SetSuccess(r)) <=> Delivered(r) /\ c = requests[r].client

LEMMA Places ==
  ASSUME NEW w \in Worker, NEW i \in Nat \ {0}
  PROVE  /\ \A k \in {"waits", "sent", "done"} : <<k, w, i>> \in Place
         /\ \A r : /\ At(r, <<"waits", w, i>>) <=> Waits(r, w, i)
                   /\ At(r, <<"sent", w, i>>) <=> Sent(r, w, i)
                   /\ At(r, <<"done", w, i>>) <=> Done(r, w, i)
BY DEF Place, At

LEMMA PlaceShape ==
  ASSUME NEW p \in Place
  PROVE  /\ p = <<p[1], p[2], p[3]>>
         /\ p[1] \in {"waits", "sent", "done"} /\ p[2] \in Worker /\ p[3] \in Nat \ {0}
BY DEF Place

LEMMA AnsweredMore ==
  ASSUME TypeOK, NEW c \in Client, NEW x \in Response, Answer(c, x),
         NEW d \in Client, NEW y
  PROVE  Answered(d, y)' <=> Answered(d, y) \/ (d = c /\ y = x)
<1>1. CASE d = c
  <2>1. answers'[c] = Append(answers[c], x) /\ answers[c] \in Seq(Response)
    BY DEF Answer, TypeOK
  <2>2. /\ DOMAIN answers[c] = 1..Len(answers[c]) /\ Len(answers[c]) \in Nat
        /\ DOMAIN answers'[c] = 1..(Len(answers[c]) + 1)
        /\ \A i \in DOMAIN answers[c] : answers'[c][i] = answers[c][i]
        /\ answers'[c][Len(answers[c]) + 1] = x
    BY <2>1, Appended
  <2>. QED
    BY <1>1, <2>2 DEF Answered
<1>2. CASE d # c
  BY <1>2 DEF Answer, Answered, TypeOK
<1>. QED
  BY <1>1, <1>2

(* When what is in a place now was in a place of its own before. *)
LEMMA MovedOnce ==
  ASSUME NEW r, Once(r), NEW F \in [Place -> Place],
         \A p \in Place : At(r, p)' => At(r, F[p]),
         \A p, q \in Place : At(r, p)' /\ At(r, q)' /\ F[p] = F[q] => p = q
  PROVE  Once(r)'
BY DEF Once

LEMMA HandleWaits ==
  ASSUME TypeOK, NEW w \in Worker, ManagerHandle(w),
         NEW r, NEW x \in Worker, NEW i \in Nat \ {0}, Waits(r, x, i)'
  PROVE  IF x = w
           THEN /\ Waits(r, w, i + 1)
                /\ manager_mailbox'[w][i] = manager_mailbox[w][i + 1]
           ELSE Waits(r, x, i) /\ manager_mailbox'[x] = manager_mailbox[x]
<1>1. CASE x = w
  <2>1. /\ manager_mailbox'[w] = Tail(manager_mailbox[w])
        /\ manager_mailbox[w] \in Seq(Message) /\ manager_mailbox[w] # <<>>
    BY DEF ManagerHandle, TypeOK
  <2>. QED
    BY <1>1, <2>1, Taken DEF Waits
<1>2. CASE x # w
  BY <1>2 DEF ManagerHandle, TypeOK, Waits
<1>. QED
  BY <1>1, <1>2

(* What a manager does to sets: nothing, or it accepts one. *)
Accepts(w) ==
  LET m == Head(manager_mailbox[w]) IN
  /\ m.msg = "ClientMessage"
  /\ Answer(m.client_addr, SetSuccess(m.request_id))
  /\ set_mailbox' = [set_mailbox EXCEPT ![w] = Append(@, m.request_id)]

LEMMA HandleAccepts ==
  ASSUME TypeOK, NEW w \in Worker, ManagerHandle(w)
  PROVE  \/ Accepts(w)
         \/ /\ UNCHANGED set_mailbox
            /\ \A c \in Client, r \in ReqId :
                 Answered(c, SetSuccess(r))' <=> Answered(c, SetSuccess(r))
<1>. DEFINE m == Head(manager_mailbox[w])
            Same == \A c \in Client, r \in ReqId :
                      Answered(c, SetSuccess(r))' <=> Answered(c, SetSuccess(r))
<1>1. m \in Message
  BY Sequences1 DEF ManagerHandle, TypeOK
<1>2. UNCHANGED answers => Same
  BY DEF Answered
<1>3. ASSUME NEW c \in Client, NEW x \in Response, Answer(c, x),
             \A r \in ReqId : x # SetSuccess(r)
      PROVE  Same
  BY <1>3, AnsweredMore
<1>4. CASE m.msg = "UpdateSignal" /\ HandleUpdate(w, m.path, m.value)
  BY <1>2, <1>4 DEF HandleUpdate
<1>5. CASE m.msg = "AddSetRecipient" /\ HandleAddSet(w, m.path)
  BY <1>2, <1>5 DEF HandleAddSet
<1>6. CASE /\ m.msg = "ClientMessage"
           /\ HandleGet(w, m.client_addr, m.request_id, m.path)
  <2>. DEFINE v == signal_cache[w][m.path]
              x == IF v # None THEN GetSuccess(m.request_id, v)
                   ELSE GetError(m.request_id, NOT_FOUND_INVALID_PATH)
  <2>1. /\ m.client_addr \in Client /\ m.request_id \in ReqId
        /\ v \in Value \cup {None}
    BY <1>1, <1>6, MessageShape DEF TypeOK
  <2>2. x \in Response
    BY <2>1 DEF Response, ActionSuccessResponse, ActionErrorResponse,
                GetError, ActionError
  <2>3. x.action = "get"
    BY DEF GetSuccess, GetError, RequestError
  <2>4. \A r : SetSuccess(r).action = "set"
    BY DEF SetSuccess
  <2>5. Answer(m.client_addr, x) /\ UNCHANGED set_mailbox
    BY <1>6 DEF HandleGet
  <2>. HIDE DEF x
  <2>6. \A r \in ReqId : x # SetSuccess(r)
    BY <2>3, <2>4
  <2>. QED
    BY <1>3, <2>1, <2>2, <2>5, <2>6
<1>7. CASE /\ m.msg = "ClientMessage"
           /\ HandleSet(w, m.client_addr, m.request_id, m.path)
  <2>1. CASE m.path \in set_recipients[w]
    BY <1>7, <2>1 DEF HandleSet, Accepts
  <2>2. CASE m.path \notin set_recipients[w]
    <3>. DEFINE x == SetError(m.request_id, NOT_FOUND_INVALID_PATH)
    <3>1. m.client_addr \in Client /\ m.request_id \in ReqId
      BY <1>1, <1>7, MessageShape
    <3>2. x \in Response
      BY <3>1 DEF Response, ActionErrorResponse, SetError, ActionError
    <3>3. \A r \in ReqId : x # SetSuccess(r)
      BY DEF SetError, SetSuccess, RequestError
    <3>4. Answer(m.client_addr, x) /\ UNCHANGED set_mailbox
      BY <1>7, <2>2 DEF HandleSet
    <3>. HIDE DEF x
    <3>. QED
      BY <1>3, <3>1, <3>2, <3>3, <3>4
  <2>. QED
    BY <2>1, <2>2
<1>. QED
  BY <1>4, <1>5, <1>6, <1>7 DEF ManagerHandle

LEMMA HandleOnce ==
  ASSUME TypeInv, OnceInv, NEW w \in Worker, ManagerHandle(w)
  PROVE  OnceInv'
<1>. TypeOK
  BY DEF TypeInv
<1>. DEFINE m == Head(manager_mailbox[w])
            s == set_mailbox[w]
            n == Len(set_mailbox[w]) + 1
            F == [p \in Place |->
                    IF p[1] = "waits" /\ p[2] = w THEN <<"waits", w, p[3] + 1>>
                    ELSE IF Accepts(w) /\ p = <<"sent", w, n>> THEN <<"waits", w, 1>>
                    ELSE p]
<1>1. /\ UNCHANGED <<requests, handled_sets>>
      /\ m \in Message /\ m = manager_mailbox[w][1] /\ 1 \in DOMAIN manager_mailbox[w]
      /\ s \in Seq(ReqId) /\ n \in Nat \ {0} /\ DOMAIN s = 1..(n - 1)
  BY Sequences1, Taken DEF ManagerHandle, TypeOK
<1>2. ASSUME NEW r, NEW x \in Worker, NEW i \in Nat \ {0}
      PROVE  Sent(r, x, i)' <=>
               \/ Sent(r, x, i)
               \/ Accepts(w) /\ x = w /\ i = n /\ r = m.request_id
  <2>1. CASE Accepts(w)
    <3>1. CASE x = w
      <4>1. set_mailbox'[w] = Append(s, m.request_id) /\ m.request_id \in ReqId
        BY <1>1, <2>1, MessageShape DEF Accepts, TypeOK
      <4>. QED
        BY <1>1, <2>1, <3>1, <4>1, Appended DEF Sent
    <3>2. CASE x # w
      BY <2>1, <3>2 DEF Accepts, TypeOK, Sent
    <3>. QED
      BY <3>1, <3>2
  <2>2. CASE ~Accepts(w)
    BY <2>2, HandleAccepts DEF Sent
  <2>. QED
    BY <2>1, <2>2
<1>3. ASSUME Accepts(w) PROVE Waits(m.request_id, w, 1)
  BY <1>1, <1>3 DEF Accepts, Waits
<1>4. F \in [Place -> Place]
  BY DEF Place
<1>5. ASSUME NEW r \in ReqId, NEW p \in Place, At(r, p)'
      PROVE  At(r, F[p])
  <2>1. PICK k \in {"waits", "sent", "done"}, x \in Worker, i \in Nat \ {0} :
          p = <<k, x, i>>
    BY PlaceShape
  <2>2. CASE k = "waits"
    <3>1. Waits(r, x, i)'
      BY <1>5, <2>1, <2>2 DEF At
    <3>2. F[p] = IF x = w THEN <<"waits", w, i + 1>> ELSE p
      BY <2>1, <2>2
    <3>3. CASE x = w
      <4>1. i + 1 \in Nat \ {0} /\ Waits(r, w, i + 1)
        BY <3>1, <3>3, HandleWaits
      <4>2. At(r, <<"waits", w, i + 1>>)
        BY <4>1, Places
      <4>. QED
        BY <3>2, <3>3, <4>2
    <3>4. CASE x # w
      <4>1. Waits(r, x, i)
        BY <3>1, <3>4, HandleWaits
      <4>2. At(r, <<"waits", x, i>>)
        BY <4>1, Places
      <4>. QED
        BY <2>1, <2>2, <3>2, <3>4, <4>2
    <3>. QED
      BY <3>3, <3>4
  <2>3. CASE k = "sent"
    <3>1. Sent(r, x, i)'
      BY <1>5, <2>1, <2>3 DEF At
    <3>2. F[p] = IF Accepts(w) /\ x = w /\ i = n THEN <<"waits", w, 1>> ELSE p
      BY <2>1, <2>3
    <3>3. ~Sent(r, w, n)
      BY <1>1 DEF Sent
    <3>4. CASE Accepts(w) /\ x = w /\ i = n
      <4>1. r = m.request_id
        BY <1>2, <3>1, <3>3, <3>4
      <4>2. Waits(r, w, 1) /\ 1 \in Nat \ {0}
        BY <1>3, <3>4, <4>1
      <4>3. At(r, <<"waits", w, 1>>)
        BY <4>2, Places
      <4>. QED
        BY <3>2, <3>4, <4>3
    <3>5. CASE ~(Accepts(w) /\ x = w /\ i = n)
      <4>1. Sent(r, x, i)
        BY <1>2, <3>1, <3>5
      <4>2. At(r, <<"sent", x, i>>)
        BY <4>1, Places
      <4>3. F[p] = p
        BY <3>2, <3>5
      <4>. QED
        BY <2>1, <2>3, <4>2, <4>3
    <3>. QED
      BY <3>4, <3>5
  <2>4. CASE k = "done"
    <3>1. Done(r, x, i)
      BY <1>1, <1>5, <2>1, <2>4 DEF At, Done
    <3>2. F[p] = p
      BY <2>1, <2>4
    <3>. QED
      BY <2>1, <2>4, <3>1, <3>2, Places
  <2>. QED
    BY <2>2, <2>3, <2>4
<1>6. \A p, q \in Place : F[p] = F[q] => p = q
  <2>. SUFFICES ASSUME NEW p \in Place, NEW q \in Place, F[p] = F[q] PROVE p = q
    OBVIOUS
  <2>. QED
    BY PlaceShape
<1>. HIDE DEF F
<1>7. ASSUME NEW r \in ReqId
      PROVE  /\ Once(r)' /\ \A p \in Place : At(r, p)' => r \in DOMAIN requests
             /\ \A x \in Worker, i \in Nat \ {0} :
                  Waits(r, x, i)' =>
                    manager_mailbox'[x][i].client_addr = requests[r].client
  <2>1. Once(r)'
    BY <1>4, <1>5, <1>6, MovedOnce DEF OnceInv
  <2>2. \A p \in Place : At(r, p)' => r \in DOMAIN requests
    BY <1>4, <1>5 DEF OnceInv
  <2>3. ASSUME NEW x \in Worker, NEW i \in Nat \ {0}, Waits(r, x, i)'
        PROVE  manager_mailbox'[x][i].client_addr = requests[r].client
    <3>1. i + 1 \in Nat \ {0}
      OBVIOUS
    <3>. QED
      BY <2>3, <3>1, HandleWaits DEF OnceInv
  <2>. QED
    BY <2>1, <2>2, <2>3
<1>8. ASSUME NEW r \in ReqId, NEW c \in Client
      PROVE  Answered(c, SetSuccess(r))' <=> Delivered(r)' /\ c = requests[r].client
  <2>1. Delivered(r)' <=> Delivered(r) \/ (Accepts(w) /\ r = m.request_id)
    BY <1>1, <1>2 DEF Delivered, Done
  <2>2. CASE Accepts(w)
    <3>1. /\ m.client_addr \in Client /\ m.request_id \in ReqId
          /\ Answer(m.client_addr, SetSuccess(m.request_id))
          /\ m.client_addr = requests[m.request_id].client
      BY <1>1, <1>3, <2>2, MessageShape DEF Accepts, OnceInv
    <3>2. /\ SetSuccess(m.request_id) \in Response
          /\ SetSuccess(r) = SetSuccess(m.request_id) <=> r = m.request_id
      BY <3>1 DEF Response, ActionSuccessResponse, SetSuccess
    <3>3. Answered(c, SetSuccess(r))' <=>
            Answered(c, SetSuccess(r)) \/ (c = m.client_addr /\ r = m.request_id)
      BY <3>1, <3>2, AnsweredMore
    <3>. QED
      BY <2>1, <2>2, <3>1, <3>3 DEF OnceInv
  <2>3. CASE ~Accepts(w)
    BY <2>1, <2>3, HandleAccepts DEF OnceInv
  <2>. QED
    BY <2>2, <2>3
<1>. QED
  BY <1>1, <1>7, <1>8 DEF OnceInv

LEMMA PrintSetOnce ==
  ASSUME TypeInv, OnceInv, NEW w \in Worker, PrintSetHandle(w)
  PROVE  OnceInv'
<1>. TypeOK
  BY DEF TypeInv
<1>. DEFINE s == set_mailbox[w]
            h == handled_sets[w]
            n == Len(handled_sets[w]) + 1
            F == [p \in Place |->
                    IF p[1] = "sent" /\ p[2] = w THEN <<"sent", w, p[3] + 1>>
                    ELSE IF p = <<"done", w, n>> THEN <<"sent", w, 1>>
                    ELSE p]
<1>1. /\ UNCHANGED <<requests, answers, manager_mailbox>>
      /\ s \in Seq(ReqId) /\ s # <<>> /\ h \in Seq(ReqId)
      /\ n \in Nat \ {0} /\ DOMAIN h = 1..(n - 1)
      /\ Head(s) \in ReqId /\ Head(s) = s[1] /\ 1 \in DOMAIN s
      /\ set_mailbox'[w] = Tail(s) /\ handled_sets'[w] = Append(h, Head(s))
      /\ \A x \in Worker \ {w} : /\ set_mailbox'[x] = set_mailbox[x]
                                 /\ handled_sets'[x] = handled_sets[x]
  BY Sequences1, Taken DEF PrintSetHandle, TypeOK, managers, clients
<1>2. ASSUME NEW r, NEW x \in Worker, NEW i \in Nat \ {0}
      PROVE  /\ Waits(r, x, i)' <=> Waits(r, x, i)
             /\ Sent(r, x, i)' <=> IF x = w THEN Sent(r, w, i + 1) ELSE Sent(r, x, i)
             /\ Done(r, x, i)' <=> Done(r, x, i) \/ (x = w /\ i = n /\ r = s[1])
  <2>1. Waits(r, x, i)' <=> Waits(r, x, i)
    BY <1>1 DEF Waits
  <2>2. CASE x = w
    <3>1. Sent(r, x, i)' <=> Sent(r, w, i + 1)
      <4>1. /\ DOMAIN Tail(s) = 1..(Len(s) - 1) /\ Len(s) \in Nat \ {0}
            /\ DOMAIN s = 1..Len(s)
            /\ \A j \in DOMAIN Tail(s) : Tail(s)[j] = s[j + 1]
        BY <1>1, Taken
      <4>2. i \in DOMAIN Tail(s) <=> i + 1 \in DOMAIN s
        BY <4>1
      <4>. QED
        BY <1>1, <2>2, <4>1, <4>2 DEF Sent
    <3>2. Done(r, x, i)' <=> Done(r, x, i) \/ (i = n /\ r = s[1])
      BY <1>1, <2>2, Appended DEF Done
    <3>. QED
      BY <2>1, <2>2, <3>1, <3>2
  <2>3. CASE x # w
    BY <1>1, <2>1, <2>3 DEF Sent, Done
  <2>. QED
    BY <2>2, <2>3
<1>3. Sent(s[1], w, 1)
  BY <1>1 DEF Sent
<1>4. F \in [Place -> Place]
  BY DEF Place
<1>5. ASSUME NEW r \in ReqId, NEW p \in Place, At(r, p)'
      PROVE  At(r, F[p])
  <2>1. PICK k \in {"waits", "sent", "done"}, x \in Worker, i \in Nat \ {0} :
          p = <<k, x, i>>
    BY PlaceShape
  <2>2. CASE k = "waits"
    <3>1. Waits(r, x, i) /\ F[p] = p
      BY <1>2, <1>5, <2>1, <2>2 DEF At
    <3>. QED
      BY <2>1, <2>2, <3>1, Places
  <2>3. CASE k = "sent"
    <3>1. Sent(r, x, i)'
      BY <1>5, <2>1, <2>3 DEF At
    <3>2. F[p] = IF x = w THEN <<"sent", w, i + 1>> ELSE p
      BY <2>1, <2>3
    <3>3. CASE x = w
      <4>1. i + 1 \in Nat \ {0} /\ Sent(r, w, i + 1)
        BY <1>2, <3>1, <3>3
      <4>2. At(r, <<"sent", w, i + 1>>)
        BY <4>1, Places
      <4>. QED
        BY <3>2, <3>3, <4>2
    <3>4. CASE x # w
      <4>1. At(r, <<"sent", x, i>>)
        BY <1>2, <3>1, <3>4, Places
      <4>. QED
        BY <2>1, <2>3, <3>2, <3>4, <4>1
    <3>. QED
      BY <3>3, <3>4
  <2>4. CASE k = "done"
    <3>1. Done(r, x, i)'
      BY <1>5, <2>1, <2>4 DEF At
    <3>2. F[p] = IF x = w /\ i = n THEN <<"sent", w, 1>> ELSE p
      BY <2>1, <2>4
    <3>3. ~Done(r, w, n)
      BY <1>1 DEF Done
    <3>4. CASE x = w /\ i = n
      <4>1. r = s[1]
        BY <1>2, <3>1, <3>3, <3>4
      <4>2. Sent(r, w, 1) /\ 1 \in Nat \ {0}
        BY <1>3, <4>1
      <4>3. At(r, <<"sent", w, 1>>)
        BY <4>2, Places
      <4>. QED
        BY <3>2, <3>4, <4>3
    <3>5. CASE ~(x = w /\ i = n)
      <4>1. At(r, <<"done", x, i>>)
        BY <1>2, <3>1, <3>5, Places
      <4>. QED
        BY <2>1, <2>4, <3>2, <3>5, <4>1
    <3>. QED
      BY <3>4, <3>5
  <2>. QED
    BY <2>2, <2>3, <2>4
<1>6. \A p, q \in Place : F[p] = F[q] => p = q
  <2>. SUFFICES ASSUME NEW p \in Place, NEW q \in Place, F[p] = F[q] PROVE p = q
    OBVIOUS
  <2>. QED
    BY PlaceShape
<1>. HIDE DEF F
<1>7. ASSUME NEW r \in ReqId
      PROVE  /\ Once(r)' /\ \A p \in Place : At(r, p)' => r \in DOMAIN requests
             /\ \A x \in Worker, i \in Nat \ {0} :
                  Waits(r, x, i)' =>
                    manager_mailbox'[x][i].client_addr = requests[r].client
  <2>1. Once(r)'
    BY <1>4, <1>5, <1>6, MovedOnce DEF OnceInv
  <2>2. \A p \in Place : At(r, p)' => r \in DOMAIN requests
    BY <1>4, <1>5 DEF OnceInv
  <2>3. \A x \in Worker, i \in Nat \ {0} :
          Waits(r, x, i)' => manager_mailbox'[x][i].client_addr = requests[r].client
    BY <1>1, <1>2 DEF OnceInv
  <2>. QED
    BY <2>1, <2>2, <2>3
(* What is taken from the one queue is put into the other. *)
<1>8. ASSUME NEW r \in ReqId PROVE Delivered(r)' <=> Delivered(r)
  <2>1. ASSUME Delivered(r)' PROVE Delivered(r)
    <3>1. PICK x \in Worker, i \in Nat \ {0} : Sent(r, x, i)' \/ Done(r, x, i)'
      BY <2>1 DEF Delivered
    <3>2. i + 1 \in Nat \ {0} /\ 1 \in Nat \ {0}
      OBVIOUS
    <3>. QED
      BY <1>2, <1>3, <3>1, <3>2 DEF Delivered
  <2>2. ASSUME Delivered(r) PROVE Delivered(r)'
    <3>1. PICK x \in Worker, i \in Nat \ {0} : Sent(r, x, i) \/ Done(r, x, i)
      BY <2>2 DEF Delivered
    <3>2. CASE Done(r, x, i)
      BY <1>2, <3>1, <3>2 DEF Delivered
    <3>3. CASE Sent(r, x, i) /\ x # w
      BY <1>2, <3>1, <3>3 DEF Delivered
    <3>4. CASE Sent(r, x, i) /\ x = w /\ i = 1
      <4>1. r = s[1]
        BY <3>4 DEF Sent
      <4>2. PICK k \in Nat \ {0} : k = n
        BY <1>1
      <4>3. Done(r, w, k)'
        BY <1>2, <4>1, <4>2
      <4>. QED
        BY <4>2, <4>3 DEF Delivered
    <3>5. CASE Sent(r, x, i) /\ x = w /\ i # 1
      <4>1. i - 1 \in Nat \ {0} /\ (i - 1) + 1 = i
        BY <3>5
      <4>2. Sent(r, w, i - 1)'
        BY <1>2, <3>5, <4>1
      <4>. QED
        BY <4>1, <4>2 DEF Delivered
    <3>. QED
      BY <3>1, <3>2, <3>3, <3>4, <3>5
  <2>. QED
    BY <2>1, <2>2
<1>9. ASSUME NEW r \in ReqId, NEW c \in Client
      PROVE  Answered(c, SetSuccess(r))' <=> Delivered(r)' /\ c = requests[r].client
  BY <1>1, <1>8 DEF OnceInv, Answered
<1>. QED
  BY <1>1, <1>7, <1>9 DEF OnceInv

(* What waits in a mailbox that a message is put into. *)
LEMMA MailedWaits ==
  ASSUME TypeOK, NEW w \in Worker, NEW m \in Message, DoSend(w, m),
         NEW r, NEW x \in Worker, NEW i \in Nat \ {0}
  PROVE  /\ Waits(r, x, i) =>
              /\ Waits(r, x, i)'
              /\ manager_mailbox'[x][i] = manager_mailbox[x][i]
         /\ Waits(r, x, i)' =>
              \/ Waits(r, x, i)
              \/ /\ x = w /\ i = Len(manager_mailbox[w]) + 1
                 /\ m.msg = "ClientMessage" /\ m.request_id = r
                 /\ manager_mailbox'[x][i] = m
<1>1. CASE x = w
  <2>1. /\ manager_mailbox'[w] = Append(manager_mailbox[w], m)
        /\ manager_mailbox[w] \in Seq(Message)
    BY DEF DoSend, TypeOK
  <2>. QED
    BY <1>1, <2>1, Appended DEF Waits
<1>2. CASE x # w
  BY <1>2 DEF DoSend, TypeOK, Waits
<1>. QED
  BY <1>1, <1>2

LEMMA ReceiveOnce ==
  ASSUME TypeInv, OnceInv, NEW c \in Client, NEW a \in {"get", "set"},
         NEW p \in Path, Receive(c, a, p)
  PROVE  OnceInv'
<1>. TypeOK
  BY DEF TypeInv
<1>. DEFINE w == worker[c]
            fresh == Len(requests) + 1
            m == ClientMessage(c, fresh, a, p)
            n == Len(manager_mailbox[w]) + 1
<1>1. /\ w \in Worker /\ DoSend(w, m)
      /\ requests' = Append(requests, [client |-> c, action |-> a])
      /\ UNCHANGED <<set_mailbox, handled_sets, answers>>
  BY DEF Receive, SendTo, TypeOK, sets
<1>2. /\ DOMAIN requests' = DOMAIN requests \cup {fresh} /\ fresh \notin DOMAIN requests
      /\ \A i \in DOMAIN requests : requests'[i] = requests[i]
      /\ requests'[fresh].client = c
  BY <1>1 DEF TypeOK
<1>3. fresh \in ReqId
  <2>1. Len(requests) \in Nat /\ Len(bus) \in Nat
    BY DEF TypeOK
  <2>. QED
    BY <2>1, ExampleAssumption DEF Receive, SendTo, Inputs
<1>4. m \in Message /\ m.request_id = fresh /\ m.client_addr = c
  BY <1>3 DEF Message, ClientMessage
<1>5. n \in Nat \ {0}
  BY <1>1 DEF TypeOK
<1>. HIDE DEF m, fresh, n
<1>6. ASSUME NEW r \in ReqId, NEW q \in Place, At(r, q)'
      PROVE  At(r, q) \/ (r = fresh /\ q = <<"waits", w, n>>)
  <2>1. PICK k \in {"waits", "sent", "done"}, x \in Worker, i \in Nat \ {0} :
          q = <<k, x, i>>
    BY PlaceShape
  <2>2. CASE k = "waits"
    <3>1. Waits(r, x, i)'
      BY <1>6, <2>1, <2>2 DEF At
    <3>2. Waits(r, x, i) \/ (x = w /\ i = n /\ r = fresh)
      BY <1>1, <1>4, <3>1, MailedWaits DEF n
    <3>. QED
      BY <2>1, <2>2, <3>2, Places
  <2>3. CASE k # "waits"
    BY <1>1, <1>6, <2>1, <2>3 DEF At, Sent, Done
  <2>. QED
    BY <2>2, <2>3
<1>7. \A q \in Place : ~At(fresh, q)
  BY <1>2, <1>3 DEF OnceInv
<1>8. ASSUME NEW r \in ReqId
      PROVE  /\ Once(r)'
             /\ \A q \in Place : At(r, q)' => r \in DOMAIN requests'
  BY <1>2, <1>6, <1>7 DEF OnceInv, Once
<1>9. ASSUME NEW r \in ReqId, NEW x \in Worker, NEW i \in Nat \ {0}, Waits(r, x, i)'
      PROVE  manager_mailbox'[x][i].client_addr = requests'[r].client
  <2>1. CASE Waits(r, x, i)
    <3>1. manager_mailbox'[x][i] = manager_mailbox[x][i]
      BY <1>1, <1>4, <2>1, MailedWaits
    <3>2. r \in DOMAIN requests
      <4>1. <<"waits", x, i>> \in Place /\ At(r, <<"waits", x, i>>)
        BY <2>1, Places
      <4>. QED
        BY <4>1 DEF OnceInv
    <3>. QED
      BY <1>2, <2>1, <3>1, <3>2 DEF OnceInv
  <2>2. CASE ~Waits(r, x, i)
    <3>1. manager_mailbox'[x][i] = m /\ r = fresh
      BY <1>1, <1>4, <1>9, <2>2, MailedWaits
    <3>. QED
      BY <1>2, <1>4, <3>1
  <2>. QED
    BY <2>1, <2>2
<1>10. ASSUME NEW r \in ReqId, NEW d \in Client
       PROVE  Answered(d, SetSuccess(r))' <=> Delivered(r)' /\ d = requests'[r].client
  <2>1. /\ Answered(d, SetSuccess(r))' <=> Answered(d, SetSuccess(r))
        /\ Delivered(r)' <=> Delivered(r)
    BY <1>1 DEF Answered, Delivered, Sent, Done
  <2>2. Delivered(r) => r \in DOMAIN requests
    <3>1. ASSUME NEW x \in Worker, NEW i \in Nat \ {0}, Sent(r, x, i) \/ Done(r, x, i)
          PROVE  r \in DOMAIN requests
      <4>1. /\ <<"sent", x, i>> \in Place /\ <<"done", x, i>> \in Place
            /\ At(r, <<"sent", x, i>>) \/ At(r, <<"done", x, i>>)
        BY <3>1, Places
      <4>. QED
        BY <4>1 DEF OnceInv
    <3>. QED
      BY <3>1 DEF Delivered
  <2>. QED
    BY <1>2, <2>1, <2>2 DEF OnceInv
<1>. QED
  BY <1>8, <1>9, <1>10 DEF OnceInv

(* Steps that leave requests alone. *)
LEMMA QuietOnce ==
  ASSUME TypeOK, OnceInv, UNCHANGED <<requests, set_mailbox, handled_sets, answers>>,
         \A r \in ReqId, x \in Worker, i \in Nat \ {0} :
           Waits(r, x, i)' =>
             Waits(r, x, i) /\ manager_mailbox'[x][i] = manager_mailbox[x][i]
  PROVE  OnceInv'
<1>. SUFFICES ASSUME NEW r \in ReqId
              PROVE  /\ Once(r)' /\ \A p \in Place : At(r, p)' => r \in DOMAIN requests
                     /\ \A w \in Worker, i \in Nat \ {0} :
                          Waits(r, w, i)' =>
                            manager_mailbox'[w][i].client_addr = requests[r].client
                     /\ \A c \in Client :
                          Answered(c, SetSuccess(r))'
                            <=> Delivered(r)' /\ c = requests[r].client
  BY DEF OnceInv
<1>1. ASSUME NEW p \in Place, At(r, p)' PROVE At(r, p)
  <2>1. p[2] \in Worker /\ p[3] \in Nat \ {0}
    BY PlaceShape
  <2>. QED
    BY <1>1, <2>1 DEF At, Sent, Done
<1>2. /\ Delivered(r)' <=> Delivered(r)
      /\ \A c \in Client : Answered(c, SetSuccess(r))' <=> Answered(c, SetSuccess(r))
  BY DEF Delivered, Sent, Done, Answered
<1>. QED
  BY <1>1, <1>2 DEF OnceInv, Once
LEMMA NextOnce == TypeInv /\ OnceInv /\ [Next]_vars => OnceInv'
<1>. SUFFICES ASSUME TypeInv, OnceInv, [Next]_vars PROVE OnceInv'
  OBVIOUS
<1>. TypeOK
  BY DEF TypeInv
<1>1. ASSUME NEW w \in Worker, NEW m \in Message, DoSend(w, m),
             m.msg # "ClientMessage",
             UNCHANGED <<requests, set_mailbox, handled_sets, answers>>
      PROVE  OnceInv'
  <2>1. ASSUME NEW r \in ReqId, NEW x \in Worker, NEW i \in Nat \ {0}, Waits(r, x, i)'
        PROVE  Waits(r, x, i) /\ manager_mailbox'[x][i] = manager_mailbox[x][i]
    <3>1. Waits(r, x, i)
      BY <1>1, <2>1, MailedWaits
    <3>. QED
      BY <1>1, <3>1, MailedWaits
  <2>. QED
    BY <1>1, <2>1, QuietOnce
<1>2. ASSUME NEW w \in Worker, StartApp(w) PROVE OnceInv'
  <2>1. PICK m \in Message : m = AddSet(PRINT_SET)
    BY ExampleAssumption DEF Message
  <2>2. m.msg # "ClientMessage"
    BY <2>1 DEF AddSet
  <2>3. /\ DoSend(w, m)
        /\ UNCHANGED <<requests, set_mailbox, handled_sets, answers>>
    BY <1>2, <2>1 DEF StartApp, sets, clients
  <2>. QED
    BY <1>1, <2>2, <2>3
<1>3. ASSUME NEW w \in Worker, IntervalTick(w) PROVE OnceInv'
  <2>1. count[w] \in 0..(MaxTicks - 1)
    BY <1>3, ExampleAssumption DEF IntervalTick, TypeOK
  <2>2. PICK m \in Message : m = Update(INTERVAL, count[w])
    BY <2>1, ExampleAssumption DEF Message
  <2>3. m.msg # "ClientMessage"
    BY <2>2 DEF Update
  <2>4. /\ DoSend(w, m)
        /\ UNCHANGED <<requests, set_mailbox, handled_sets, answers>>
    BY <1>3, <2>2 DEF IntervalTick, sets, clients
  <2>. QED
    BY <1>1, <2>3, <2>4
<1>4. ASSUME NEW w \in Worker, CanItem(w) PROVE OnceInv'
  <2>1. can_stream[w] \in 0..MaxInputs /\ can_stream[w] + 1 \in 1..Len(bus)
    BY <1>4 DEF CanItem, Unread, Open, TypeOK
  <2>2. bus[can_stream[w] + 1] \in Frame
    BY <2>1 DEF TypeOK
  <2>3. PICK m \in Message : m = Update(LAST_FRAME_ID, bus[can_stream[w] + 1])
    BY <2>2, ExampleAssumption DEF Message
  <2>4. m.msg # "ClientMessage"
    BY <2>3 DEF Update
  <2>5. /\ DoSend(w, m)
        /\ UNCHANGED <<requests, set_mailbox, handled_sets, answers>>
    BY <1>4, <2>3 DEF CanItem, sets, clients
  <2>. QED
    BY <1>1, <2>4, <2>5
<1>5. ASSUME UNCHANGED <<manager_mailbox, requests, set_mailbox, handled_sets, answers>>
      PROVE  OnceInv'
  <2>1. \A r \in ReqId, x \in Worker, i \in Nat \ {0} :
          Waits(r, x, i)' =>
            Waits(r, x, i) /\ manager_mailbox'[x][i] = manager_mailbox[x][i]
    BY <1>5 DEF Waits
  <2>. QED
    BY <1>5, <2>1, QuietOnce
<1>6. ASSUME NEW w \in Worker, CanError(w) PROVE OnceInv'
  BY <1>5, <1>6 DEF CanError, managers, sets, clients
<1>7. ASSUME NEW f \in Frame, CanFrame(f) PROVE OnceInv'
  BY <1>5, <1>7 DEF CanFrame, managers, sets, clients
<1>8. ASSUME NEW c \in Client, NEW w \in Worker, Connect(c, w) PROVE OnceInv'
  BY <1>5, <1>8 DEF Connect, managers, sets
<1>9. CASE UNCHANGED vars
  BY <1>5, <1>9 DEF vars, managers, sets, clients
<1>10. ASSUME NEW c \in Client, NEW a \in {"get", "set"}, NEW p \in Path,
              Receive(c, a, p)
       PROVE  OnceInv'
  BY <1>10, ReceiveOnce
<1>. QED
  BY <1>2, <1>3, <1>4, <1>6, <1>7, <1>8, <1>9, <1>10, HandleOnce, PrintSetOnce,
     ExampleAssumption DEF Next

LEMMA InitOnce == Init => OnceInv
<1>. SUFFICES ASSUME Init, NEW r \in ReqId
              PROVE  /\ \A p \in Place : ~At(r, p)
                     /\ \A w \in Worker, i \in Nat \ {0} : ~Waits(r, w, i)
                     /\ ~Delivered(r) /\ \A c \in Client : ~Answered(c, SetSuccess(r))
  BY DEF OnceInv, Once
<1>1. ASSUME NEW w \in Worker, NEW i
      PROVE  ~Waits(r, w, i) /\ ~Sent(r, w, i) /\ ~Done(r, w, i)
  BY DEF Init, Waits, Sent, Done
<1>2. \A p \in Place : ~At(r, p)
  BY <1>1, PlaceShape DEF At
<1>3. \A c \in Client : ~Answered(c, SetSuccess(r))
  BY DEF Init, Answered
<1>. QED
  BY <1>1, <1>2, <1>3 DEF Delivered

(* The set that SetReachesOneRecipient counts. *)
LEMMA ReachedOne ==
  ASSUME TypeOK, NEW r \in ReqId, Once(r)
  PROVE  LET reached == UNION {{w} \X Deliveries(w, r) : w \in Worker} IN
         Cardinality(reached) = IF Delivered(r) THEN 1 ELSE 0
<1>. DEFINE reached == UNION {{w} \X Deliveries(w, r) : w \in Worker}
<1>1. ASSUME NEW w \in Worker, NEW i \in Nat \ {0}
      PROVE  /\ i \in Deliveries(w, r) <=> Sent(r, w, i)
             /\ -i \in Deliveries(w, r) <=> Done(r, w, i)
  <2>1. DOMAIN set_mailbox[w] \subseteq Nat \ {0} /\ DOMAIN handled_sets[w] \subseteq Nat \ {0}
    BY DEF TypeOK
  <2>. QED
    BY <2>1 DEF Deliveries, Sent, Done
<1>2. ASSUME NEW w \in Worker, NEW d \in Deliveries(w, r)
      PROVE  \E i \in Nat \ {0} : (d = i /\ Sent(r, w, i)) \/ (d = -i /\ Done(r, w, i))
  <2>1. DOMAIN set_mailbox[w] \subseteq Nat \ {0} /\ DOMAIN handled_sets[w] \subseteq Nat \ {0}
    BY DEF TypeOK
  <2>. QED
    BY <2>1 DEF Deliveries, Sent, Done
<1>. HIDE DEF Deliveries
<1>3. \A e : e \in reached <=> \E w \in Worker : \E d \in Deliveries(w, r) : e = <<w, d>>
  OBVIOUS
<1>. HIDE DEF reached
<1>4. CASE ~Delivered(r)
  <2>1. reached = {}
    BY <1>2, <1>3, <1>4 DEF Delivered
  <2>. QED
    BY <1>4, <2>1, FS_EmptySet DEF reached
<1>5. CASE Delivered(r)
  <2>1. PICK w \in Worker, i \in Nat \ {0} : Sent(r, w, i) \/ Done(r, w, i)
    BY <1>5 DEF Delivered
  <2>2. PICK e : e \in reached
    BY <1>1, <1>3, <2>1
  <2>3. ASSUME NEW f \in reached, NEW g \in reached PROVE f = g
    <3>1. PICK v \in Worker : \E b \in Deliveries(v, r) : f = <<v, b>>
      BY <1>3
    <3>2. PICK x \in Worker : \E d \in Deliveries(x, r) : g = <<x, d>>
      BY <1>3
    <3>8. PICK b \in Deliveries(v, r) : f = <<v, b>>
      BY <3>1
    <3>9. PICK d \in Deliveries(x, r) : g = <<x, d>>
      BY <3>2
    <3>3. PICK j \in Nat \ {0} : (b = j /\ Sent(r, v, j)) \/ (b = -j /\ Done(r, v, j))
      BY <1>2
    <3>4. PICK k \in Nat \ {0} : (d = k /\ Sent(r, x, k)) \/ (d = -k /\ Done(r, x, k))
      BY <1>2
    <3>5. /\ <<"sent", v, j>> \in Place /\ <<"done", v, j>> \in Place
          /\ <<"sent", x, k>> \in Place /\ <<"done", x, k>> \in Place
          /\ Sent(r, v, j) => At(r, <<"sent", v, j>>)
          /\ Done(r, v, j) => At(r, <<"done", v, j>>)
          /\ Sent(r, x, k) => At(r, <<"sent", x, k>>)
          /\ Done(r, x, k) => At(r, <<"done", x, k>>)
      BY Places
    <3>6. CASE b = j /\ Sent(r, v, j)
      <4>1. <<"sent", v, j>> = IF d = k /\ Sent(r, x, k) THEN <<"sent", x, k>>
                               ELSE <<"done", x, k>>
        BY <3>4, <3>5, <3>6 DEF Once
      <4>. QED
        BY <3>8, <3>9, <3>4, <3>6, <4>1
    <3>7. CASE b = -j /\ Done(r, v, j)
      <4>1. <<"done", v, j>> = IF d = -k /\ Done(r, x, k) THEN <<"done", x, k>>
                               ELSE <<"sent", x, k>>
        BY <3>4, <3>5, <3>7 DEF Once
      <4>. QED
        BY <3>8, <3>9, <3>4, <3>7, <4>1
    <3>. QED
      BY <3>3, <3>6, <3>7
  <2>4. reached = {e}
    BY <2>2, <2>3
  <2>. QED
    BY <1>5, <2>4, FS_Singleton DEF reached
<1>. QED
  BY <1>4, <1>5

LEMMA Elements ==
  ASSUME NEW S, NEW q \in Seq(S), NEW i \in DOMAIN q
  PROVE  i \in 1..Len(q) /\ q[i] \in S
OBVIOUS

(***************************************************************************)
(* For any number of workers, each with a PrintSetRecipient of its own     *)
(* (examples/server.rs), a set that the manager of one of them answers as  *)
(* a success reaches one recipient, once, and no other set reaches any.    *)
(***************************************************************************)
THEOREM SetsReachOneRecipient == Spec => []SetReachesOneRecipient
<1>1. TypeInv /\ OnceInv => SetReachesOneRecipient
  <2>. SUFFICES ASSUME TypeInv, OnceInv, NEW r \in DOMAIN requests
                PROVE  LET reached == UNION {{w} \X Deliveries(w, r) : w \in Worker} IN
                       Cardinality(reached) =
                         IF Answered(requests[r].client, SetSuccess(r)) THEN 1 ELSE 0
    BY DEF SetReachesOneRecipient
  <2>1. r \in ReqId /\ requests[r].client \in Client
    <3>1. Len(requests) \in Nat /\ Len(bus) \in Nat /\ Len(requests) + Len(bus) <= MaxInputs
      BY DEF TypeInv, TypeOK, Inputs
    <3>2. /\ r \in 1..Len(requests)
          /\ requests[r] \in [client : Client, action : {"get", "set"}]
      <4>1. requests \in Seq([client : Client, action : {"get", "set"}])
        BY DEF TypeInv, TypeOK
      <4>. QED
        BY <4>1, Elements
    <3>3. r \in 1..MaxInputs
      BY <3>1, <3>2, ExampleAssumption
    <3>. QED
      BY <3>2, <3>3, ExampleAssumption
  <2>2. Answered(requests[r].client, SetSuccess(r)) <=> Delivered(r)
    BY <2>1 DEF OnceInv
  <2>3. TypeOK /\ Once(r)
    BY <2>1 DEF TypeInv, OnceInv
  <2>. QED
    BY <2>1, <2>2, <2>3, ReachedOne
<1>2. TypeInv /\ OnceInv /\ [Next]_vars => (TypeInv /\ OnceInv)'
  BY NextType, NextOnce
<1>. QED
  BY <1>1, <1>2, InitType, InitOnce, PTL DEF Spec
===============================================================================
