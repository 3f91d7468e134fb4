----------------------------- MODULE ExampleServer -----------------------------
(***************************************************************************)
(* The example server with all its workers.  HttpServer runs the closure   *)
(* of `main` once per worker thread, so that every worker has an AppState, *)
(* a SignalManager, an IntervalSignalSource, a CAN socket and a            *)
(* PrintSetRecipient of its own; a connection belongs to the worker that   *)
(* accepted it.                                                            *)
(*                                                                         *)
(* Of a worker there are the manager's mailbox and the maps that `get` and *)
(* `set` use; VisServer has the rest, subscriptions and sessions that stop *)
(* among it.                                                               *)
(***************************************************************************)
EXTENDS VisApi, Integers, Sequences, FiniteSets

CONSTANTS
  Worker,
  Client,
  INTERVAL, LAST_FRAME_ID, PRINT_SET,  \* the three paths
  Frame,        \* ids of CAN frames
  MaxTicks,     \* bound: ticks of one IntervalSignalSource
  MaxInputs     \* bound: requests and frames together

ASSUME ExampleAssumption ==
  /\ Path = {INTERVAL, LAST_FRAME_ID, PRINT_SET}
  /\ INTERVAL # LAST_FRAME_ID /\ PRINT_SET \notin {INTERVAL, LAST_FRAME_ID}
  /\ MaxTicks \in Nat /\ MaxInputs \in Nat
  /\ ReqId = 1..MaxInputs
  /\ Value = Frame \cup 0..(MaxTicks - 1)
  /\ None \notin Worker \cup Frame \cup Int

VARIABLES
  started,            \* workers that have run the closure
  manager_mailbox,
  signal_cache,
  set_recipients,     \* paths whose recipient is registered, by worker
  count,              \* of the IntervalSignalSource
  bus,                \* frames so far
  can_from,           \* how many there were when a worker opened its socket
                      \* (history)
  can_stream,         \* how many it has taken from its stream, or missed
                      \* before; None before it is opened
  can_ended,          \* workers whose stream has ended with an error
  set_mailbox,        \* request ids on their way to the PrintSetRecipient
  handled_sets,       \* request ids a PrintSetRecipient has handled
  worker,             \* the worker of a connection, None before
  requests,           \* who sent what, in the order received
  answers             \* what a client has been answered

managers == <<manager_mailbox, signal_cache, set_recipients>>
canVars == <<can_from, can_stream, can_ended>>
sourceVars == <<count, bus, can_from, can_stream, can_ended>>
sets == <<set_mailbox, handled_sets>>
clients == <<worker, requests, answers>>
vars == <<started, managers, sourceVars, sets, clients>>

Update(p, v) == [msg |-> "UpdateSignal", path |-> p, value |-> v]
AddSet(p) == [msg |-> "AddSetRecipient", path |-> p]
ClientMessage(c, r, action, p) ==
  [msg |-> "ClientMessage", client_addr |-> c, request_id |-> r,
   action |-> action, path |-> p]

Message ==
  {Update(p, v) : p \in Path, v \in Value}
    \cup {AddSet(p) : p \in Path}
    \cup {ClientMessage(c, r, a, p) : c \in Client, r \in ReqId,
                                      a \in {"get", "set"}, p \in Path}

TypeOK ==
  /\ started \subseteq Worker
  /\ manager_mailbox \in [Worker -> Seq(Message)]
  /\ signal_cache \in [Worker -> [Path -> Value \cup {None}]]
  /\ set_recipients \in [Worker -> SUBSET Path]
  /\ count \in [Worker -> 0..MaxTicks]
  /\ bus \in Seq(Frame)
  /\ can_from \in [Worker -> 0..MaxInputs]
  /\ can_stream \in [Worker -> 0..MaxInputs \cup {None}]
  /\ can_ended \subseteq Worker
  /\ set_mailbox \in [Worker -> Seq(ReqId)]
  /\ handled_sets \in [Worker -> Seq(ReqId)]
  /\ worker \in [Client -> Worker \cup {None}]
  /\ requests \in Seq([client : Client, action : {"get", "set"}])
  /\ answers \in [Client -> Seq(Response)]

Init ==
  /\ started = {}
  /\ manager_mailbox = [w \in Worker |-> <<>>]
  /\ signal_cache = [w \in Worker |-> [p \in Path |-> None]]
  /\ set_recipients = [w \in Worker |-> {}]
  /\ count = [w \in Worker |-> 0]
  /\ bus = <<>>
  /\ can_from = [w \in Worker |-> 0]
  /\ can_stream = [w \in Worker |-> None]
  /\ can_ended = {}
  /\ set_mailbox = [w \in Worker |-> <<>>]
  /\ handled_sets = [w \in Worker |-> <<>>]
  /\ worker = [c \in Client |-> None]
  /\ requests = <<>>
  /\ answers = [c \in Client |-> <<>>]

Inputs == Len(requests) + Len(bus)

DoSend(w, m) == manager_mailbox' = [manager_mailbox EXCEPT ![w] = Append(@, m)]

-------------------------------------------------------------------------------
(* A faulty variant: the recipient is registered once for the process. *)
StartAppOnce(w) ==
  /\ w \notin started
  /\ started' = started \cup {w}
  /\ can_from' = [can_from EXCEPT ![w] = Len(bus)]
  /\ can_stream' = [can_stream EXCEPT ![w] = Len(bus)]
  /\ IF started = {} THEN DoSend(w, AddSet(PRINT_SET)) ELSE UNCHANGED manager_mailbox
  /\ UNCHANGED <<signal_cache, set_recipients, count, bus, can_ended, sets, clients>>

(***************************************************************************)
(* The closure of main.  It runs before the worker accepts connections and *)
(* before the thread polls what it spawns, so that the registration is the *)
(* first message of the manager.  The socket hears of later frames only.   *)
(***************************************************************************)
StartApp(w) ==
  /\ w \notin started
  /\ started' = started \cup {w}
  /\ can_from' = [can_from EXCEPT ![w] = Len(bus)]
  /\ can_stream' = [can_stream EXCEPT ![w] = Len(bus)]
  /\ DoSend(w, AddSet(PRINT_SET))
  /\ UNCHANGED <<signal_cache, set_recipients, count, bus, can_ended, sets, clients>>

(* IntervalSignalSource: the closure given to run_interval. *)
IntervalTick(w) ==
  /\ w \in started
  /\ count[w] < MaxTicks
  /\ count' = [count EXCEPT ![w] = @ + 1]
  /\ DoSend(w, Update(INTERVAL, count[w]))
  /\ UNCHANGED <<started, signal_cache, set_recipients, bus,
                 canVars, sets, clients>>

(* A frame on the bus. *)
CanFrame(f) ==
  /\ Inputs < MaxInputs
  /\ bus' = Append(bus, f)
  /\ UNCHANGED <<started, managers, count, canVars, sets, clients>>

Open(w) == can_stream[w] # None /\ w \notin can_ended

Unread(w) == Open(w) /\ can_stream[w] < Len(bus)

(* spawn_stream_signal_source: try_for_each, which ends at the first error. *)
CanItem(w) ==
  /\ Unread(w)
  /\ can_stream' = [can_stream EXCEPT ![w] = @ + 1]
  /\ DoSend(w, Update(LAST_FRAME_ID, bus[can_stream[w] + 1]))
  /\ UNCHANGED <<started, signal_cache, set_recipients, count, bus,
                 can_from, can_ended, sets, clients>>

(* A faulty variant: the item taken before the error is not sent. *)
CanErrorLosesItem(w) ==
  /\ Unread(w)
  /\ can_ended' = can_ended \cup {w}
  /\ can_stream' = [can_stream EXCEPT ![w] = @ + 1]
  /\ UNCHANGED <<started, managers, count, bus, can_from, sets, clients>>

CanError(w) ==
  /\ Open(w)
  /\ can_ended' = can_ended \cup {w}
  /\ UNCHANGED <<started, managers, count, bus, can_from, can_stream, sets, clients>>

(* ws_index, with the AppState of the worker that accepted. *)
Connect(c, w) ==
  /\ worker[c] = None
  /\ w \in started
  /\ worker' = [worker EXCEPT ![c] = w]
  /\ UNCHANGED <<started, managers, sourceVars, sets, requests, answers>>

SendTo(w, c, action, p) ==
  /\ Inputs < MaxInputs
  /\ requests' = Append(requests, [client |-> c, action |-> action])
  /\ DoSend(w, ClientMessage(c, Len(requests) + 1, action, p))
  /\ UNCHANGED <<started, signal_cache, set_recipients, sourceVars,
                 sets, worker, answers>>

(* A faulty variant: requests go to any worker. *)
ReceiveAnywhere(c, action, p) ==
  worker[c] # None /\ \E w \in started : SendTo(w, c, action, p)

(* The session dispatches to the manager it was given. *)
Receive(c, action, p) == worker[c] # None /\ SendTo(worker[c], c, action, p)

-------------------------------------------------------------------------------
(* The handlers of the SignalManager of worker w. *)
Answer(c, x) == answers' = [answers EXCEPT ![c] = Append(@, x)]

HandleUpdate(w, p, v) ==
  /\ signal_cache' = [signal_cache EXCEPT ![w][p] = v]
  /\ UNCHANGED <<set_recipients, set_mailbox, answers>>

HandleAddSet(w, p) ==
  /\ set_recipients' = [set_recipients EXCEPT ![w] = @ \cup {p}]
  /\ UNCHANGED <<signal_cache, set_mailbox, answers>>

(* A faulty variant: a signal without a value is not looked for. *)
HandleGetUnchecked(w, c, r, p) ==
  /\ Answer(c, GetSuccess(r, signal_cache[w][p]))
  /\ UNCHANGED <<signal_cache, set_recipients, set_mailbox>>

HandleGet(w, c, r, p) ==
  /\ Answer(c, IF signal_cache[w][p] # None
                 THEN GetSuccess(r, signal_cache[w][p])
                 ELSE GetError(r, NOT_FOUND_INVALID_PATH))
  /\ UNCHANGED <<signal_cache, set_recipients, set_mailbox>>

(* A faulty variant: the recipients of all workers are sent the request. *)
HandleSetEverywhere(w, c, r, p) ==
  /\ IF p \in set_recipients[w]
       THEN /\ Answer(c, SetSuccess(r))
            /\ set_mailbox' =
                 [x \in Worker |-> IF p \in set_recipients[x]
                                     THEN Append(set_mailbox[x], r)
                                     ELSE set_mailbox[x]]
       ELSE /\ Answer(c, SetError(r, NOT_FOUND_INVALID_PATH))
            /\ UNCHANGED set_mailbox
  /\ UNCHANGED <<signal_cache, set_recipients>>

(* The PrintSetRecipient never stops: its mailbox is open. *)
HandleSet(w, c, r, p) ==
  /\ IF p \in set_recipients[w]
       THEN /\ Answer(c, SetSuccess(r))
            /\ set_mailbox' = [set_mailbox EXCEPT ![w] = Append(@, r)]
       ELSE /\ Answer(c, SetError(r, NOT_FOUND_INVALID_PATH))
            /\ UNCHANGED set_mailbox
  /\ UNCHANGED <<signal_cache, set_recipients>>

ManagerHandle(w) ==
  /\ manager_mailbox[w] # <<>>
  /\ manager_mailbox' = [manager_mailbox EXCEPT ![w] = Tail(@)]
  /\ LET m == Head(manager_mailbox[w]) IN
       \/ m.msg = "UpdateSignal" /\ HandleUpdate(w, m.path, m.value)
       \/ m.msg = "AddSetRecipient" /\ HandleAddSet(w, m.path)
       \/ /\ m.msg = "ClientMessage"
          /\ \/ m.action = "get" /\ HandleGet(w, m.client_addr, m.request_id, m.path)
             \/ m.action = "set" /\ HandleSet(w, m.client_addr, m.request_id, m.path)
  /\ UNCHANGED <<started, sourceVars, handled_sets, worker, requests>>

(* Handler<Set> of the PrintSetRecipient *)
PrintSetHandle(w) ==
  /\ set_mailbox[w] # <<>>
  /\ handled_sets' = [handled_sets EXCEPT ![w] = Append(@, Head(set_mailbox[w]))]
  /\ set_mailbox' = [set_mailbox EXCEPT ![w] = Tail(@)]
  /\ UNCHANGED <<started, managers, sourceVars, clients>>

(* What the clients of the example ask for. *)
Next ==
  \/ \E w \in Worker :
       \/ StartApp(w) \/ IntervalTick(w) \/ CanItem(w) \/ CanError(w)
       \/ ManagerHandle(w) \/ PrintSetHandle(w)
  \/ \E f \in Frame : CanFrame(f)
  \/ \E c \in Client, w \in Worker : Connect(c, w)
  \/ \E c \in Client :
       \/ Receive(c, "set", PRINT_SET)
       \/ \E p \in {INTERVAL, LAST_FRAME_ID} : Receive(c, "get", p)

Spec == Init /\ [][Next]_vars

-------------------------------------------------------------------------------
Answered(c, x) == \E i \in DOMAIN answers[c] : answers[c][i] = x

(***************************************************************************)
(* A set of the settable path never fails, not even the first one of the   *)
(* first client: whichever worker accepts the connection has registered    *)
(* its recipient before.                                                   *)
(***************************************************************************)
SetIsAccepted ==
  \A c \in Client, r \in ReqId : ~Answered(c, SetError(r, NOT_FOUND_INVALID_PATH))

(***************************************************************************)
(* A set that was answered as a success reaches one recipient, once, and   *)
(* one that was not answered reaches none.                                 *)
(***************************************************************************)
Deliveries(w, r) ==
  {i \in DOMAIN set_mailbox[w] : set_mailbox[w][i] = r} \cup
  {-i : i \in {j \in DOMAIN handled_sets[w] : handled_sets[w][j] = r}}

SetReachesOneRecipient ==
  \A r \in DOMAIN requests :
    LET reached == UNION {{w} \X Deliveries(w, r) : w \in Worker} IN
    Cardinality(reached) =
      IF Answered(requests[r].client, SetSuccess(r)) THEN 1 ELSE 0

(***************************************************************************)
(* The workers count on their own, but a connection stays with one of      *)
(* them: the counter a client gets never goes back.                        *)
(***************************************************************************)
CounterNeverGoesBack ==
  \A c \in Client : \A i, j \in DOMAIN answers[c] :
    /\ i < j
    /\ \A k \in {i, j} :
         /\ answers[c][k].action = "get"
         /\ "value" \in DOMAIN answers[c][k]
         /\ answers[c][k].value \notin Frame
    => answers[c][i].value <= answers[c][j].value

(***************************************************************************)
(* Each worker reads the bus on its own, and an error ends its stream, not *)
(* those of the others.  Whatever a stream has taken is delivered, before  *)
(* and after its end: once no frame is queued, a worker has the last one   *)
(* its stream took, and hence as many workers as took that one agree.      *)
(***************************************************************************)
LastTaken(w) ==
  IF can_stream[w] > can_from[w] THEN bus[can_stream[w]] ELSE None

IsFrame(m) == m.msg = "UpdateSignal" /\ m.path = LAST_FRAME_ID

FramesTakenAreDelivered ==
  \A w \in started :
    (\A i \in DOMAIN manager_mailbox[w] : ~IsFrame(manager_mailbox[w][i]))
      => signal_cache[w][LAST_FRAME_ID] = LastTaken(w)
===============================================================================
