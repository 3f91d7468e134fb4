------------------------------ MODULE VisExchange ------------------------------
(***************************************************************************)
(* A request and its answer as texts: a client, be it the library or       *)
(* anybody with a websocket, sends a text; the session reads it and        *)
(* answers with a text; the client reads that.  A subscription goes on:    *)
(* its notifications are read, and it is ended by its id.                  *)
(***************************************************************************)
EXTENDS VisText

(* Ids are UUIDs or integers, and a Filters is what the type says. *)
ASSUME IdAssumption ==
  /\ \A r \in ReqId :
       IF r.id = "int" THEN r.n \in 0..U64_MAX /\ r = IntId(r.n)
                       ELSE r = UuidId(r.uuid)
  /\ \A id \in SubId : id = UuidId(id.uuid)

IsNumberOrNone(x) == x = None \/ IsNumber(x)

ASSUME FiltersAssumption ==
  \A f \in Filters \ {None} :
    /\ f = [interval |-> f.interval, range |-> f.range, min_change |-> f.min_change]
    /\ f.interval # None => f.interval \in 0..U64_MAX
    /\ f.range # None =>
         /\ f.range = [below |-> f.range.below, above |-> f.range.above]
         /\ IsNumberOrNone(f.range.below) /\ IsNumberOrNone(f.range.above)
    /\ IsNumberOrNone(f.min_change)

(* The actions the library writes, each with a new request id. *)
Requests ==
  LET Default == {r \in ReqId : r.id = "uuid"} IN
  {Request("get", r, [path |-> p]) : r \in Default, p \in Path}
    \cup {Request("subscribe", r, [path |-> p, filters |-> f]) :
            r \in Default, p \in Path, f \in Filters}
    \cup {Request("unsubscribeAll", r, NoArguments) : r \in Default}

VARIABLES
  text,      \* the request's text
  written,   \* the action the library wrote as that text, None if hand-written
  answer,    \* the last text the server has written, None before
  response   \* what the server serialized, None if it could not read the text

vars == <<text, written, answer, response>>

Init ==
  /\ \/ \E request \in Requests :
          text = WriteAction(request) /\ written = request
     \/ text \in HandWritten /\ written = None
  /\ answer = None
  /\ response = None

Serialize(x) == response' = x /\ answer' = WriteResponse(x)

(* StreamHandler::handle of a Text, and what comes back from the manager. *)
Answer ==
  /\ answer = None
  /\ IF ReadAction(text) = Unreadable
       THEN response' = None /\ answer' = WriteResponse(BAD_REQUEST)
       ELSE \E x \in Responses(ReadAction(text)) : Serialize(x)
  /\ UNCHANGED <<text, written>>

Subscribed ==
  response # None /\ response.action \in {"subscribe", "subscription"}

(* The subscription has a value to send. *)
Notify(v) ==
  /\ Subscribed
  /\ Serialize(Subscription(response.subscription_id, v))
  /\ UNCHANGED <<text, written>>

(* A client ends the subscription by the id it has read. *)
Unsubscribe(r) ==
  /\ Subscribed
  /\ written' = Request("unsubscribe", r,
                   [subscription_id |-> Fields(answer).subscription_id])
  /\ text' = WriteAction(written')
  /\ answer' = None
  /\ response' = None

Next ==
  \/ Answer
  \/ \E v \in Value : Notify(v)
  \/ \E r \in ReqId : Unsubscribe(r)

Spec == Init /\ [][Next]_vars

-------------------------------------------------------------------------------
IsSuccess(x) == "error" \notin DOMAIN x

(***************************************************************************)
(* The server reads what the library writes as the action that was meant,  *)
(* filters included: the Serialize and the Deserialize of Action, written  *)
(* once with attributes and once by hand, agree.                           *)
(***************************************************************************)
LibraryIsUnderstood == written # None => ReadAction(text) = written

(***************************************************************************)
(* A request that can be read is answered under its request id, also when  *)
(* it was spelt differently: comparing ReqIDs links the two.               *)
(***************************************************************************)
AnswerIsLinked ==
  response # None /\ response.action # "subscription" =>
    Fields(answer).request_id = ReadAction(text).request_id

(***************************************************************************)
(* The library reads a success as that success, and a failed get as the    *)
(* error it is, although successes and errors share their tags.            *)
(***************************************************************************)
AnswerIsReadAsMeant ==
  response # None =>
    /\ IsSuccess(response) => ReadSuccess(Fields(answer)) = response
    /\ response.action = "get" /\ ~IsSuccess(response) =>
         /\ ReadSuccess(Fields(answer)) = None
         /\ ReadError(Fields(answer)) = response
===============================================================================
