-------------------------------- MODULE VisText --------------------------------
(***************************************************************************)
(* The JSON texts of requests and answers: how the server reads a request  *)
(* (the derived deserializer of Action, the visitors of ReqID and          *)
(* SubscriptionID), how it prints an answer, and how the client library    *)
(* writes the one and reads the other.                                     *)
(*                                                                         *)
(* A text is a function from the names of its members to JSON values.      *)
(* Numbers are those of Filter; a string is known by what it spells: an    *)
(* integer, a UUID, a path, or nothing the server looks for.  `form` tells *)
(* spellings of the same thing apart.                                      *)
(***************************************************************************)
EXTENDS VisJson

CONSTANTS
  I64_MAX,
  HandWritten   \* texts clients send that the library did not write

ASSUME WidthAssumption == I64_MAX \in Nat

INSTANCE Filter

Unreadable == [kind |-> "Unreadable"]  \* a deserialization error

Null == [kind |-> "Null"]
IntString(form, n) == [kind |-> "IntString", form |-> form, n |-> n]
UuidString(form, u) == [kind |-> "UuidString", form |-> form, uuid |-> u]
PathString(p) == [kind |-> "PathString", path |-> p]
Object(members) == [kind |-> "Object", members |-> members]

-------------------------------------------------------------------------------
(***************************************************************************)
(* ReqID and SubscriptionID: strings that hold a UUID or an integer.  A    *)
(* JSON number is not accepted.                                            *)
(***************************************************************************)
IntId(n) == [id |-> "int", n |-> n]
UuidId(u) == [id |-> "uuid", uuid |-> u]

ReadId(x, integers) ==
  IF x.kind = "UuidString" THEN UuidId(x.uuid)
  ELSE IF x.kind = "IntString" /\ x.n \in integers THEN IntId(x.n)
  ELSE Unreadable

ReadReqID(x) == ReadId(x, 0..U64_MAX)
ReadSubscriptionID(x) == ReadId(x, (-(I64_MAX + 1))..I64_MAX)

(* A faulty variant: an integer is printed as a JSON number. *)
WriteIdPlainly(i) ==
  IF i.id = "int" THEN PosInt(i.n) ELSE UuidString("hyphenated", i.uuid)

(* Serialize for ReqID and SubscriptionID *)
WriteId(i) ==
  IF i.id = "int" THEN IntString("decimal", i.n)
                  ELSE UuidString("hyphenated", i.uuid)

-------------------------------------------------------------------------------
(***************************************************************************)
(* Filters: every member may be left out or null.                          *)
(***************************************************************************)
Given(object, m) == m \in DOMAIN object /\ object[m] # Null

NumberOrNone(object, m) == IF Given(object, m) THEN object[m] ELSE None

NumbersReadable(object, names) ==
  \A m \in names : Given(object, m) => IsNumber(object[m])

RangeReadable(x) ==
  x.kind = "Object" /\ NumbersReadable(x.members, {"below", "above"})

FiltersReadable(x) ==
  /\ x.kind = "Object"
  /\ LET f == x.members IN
       /\ Given(f, "interval") => IsU64(f.interval) /\ f.interval.n <= U64_MAX
       /\ Given(f, "range") => RangeReadable(f.range)
       /\ NumbersReadable(f, {"minChange"})

ReadFilters(f) ==
  [interval |-> IF Given(f, "interval") THEN f.interval.n ELSE None,
   range |-> IF Given(f, "range")
               THEN [below |-> NumberOrNone(f.range.members, "below"),
                     above |-> NumberOrNone(f.range.members, "above")]
               ELSE None,
   min_change |-> NumberOrNone(f, "minChange")]

-------------------------------------------------------------------------------
(***************************************************************************)
(* Action: the tag names the variant, in camel case or by its Rust name;   *)
(* the members of the variant must be there and be readable.               *)
(***************************************************************************)
Tags ==
  [authorize |-> {"authorize", "Authorize"},
   getMetadata |-> {"getMetadata", "GetMetadata"},
   get |-> {"get", "Get"},
   set |-> {"set", "Set"},
   subscribe |-> {"subscribe", "Subscribe"},
   unsubscribe |-> {"unsubscribe", "Unsubscribe"},
   unsubscribeAll |-> {"unsubscribeAll", "UnsubscribeAll"}]

RequestMembers ==
  [authorize      |-> {"tokens", "requestId"},
   getMetadata    |-> {"path", "requestId"},
   get            |-> {"path", "requestId"},
   set            |-> {"path", "value", "requestId"},
   subscribe      |-> {"path", "requestId"},
   unsubscribe    |-> {"requestId", "subscriptionId"},
   unsubscribeAll |-> {"requestId"}]

MemberReadable(m, x) ==
  CASE m = "requestId"      -> ReadReqID(x) # Unreadable
    [] m = "subscriptionId" -> ReadSubscriptionID(x) # Unreadable
    [] m = "path"           -> x.kind = "PathString"
    [] OTHER                -> TRUE

IsRequest(text, variant) ==
  /\ text.action \in Tags[variant]
  /\ \A m \in RequestMembers[variant] :
       m \in DOMAIN text /\ MemberReadable(m, text[m])
  /\ variant = "subscribe" /\ Given(text, "filters") =>
       FiltersReadable(text.filters)

NoArguments == [m \in {} |-> None]

Arguments(text, variant) ==
  CASE variant \in {"get", "getMetadata"} -> [path |-> text.path.path]
    [] variant = "set" -> [path |-> text.path.path, value |-> text.value]
    [] variant = "subscribe" ->
         [path |-> text.path.path,
          filters |-> IF Given(text, "filters")
                        THEN ReadFilters(text.filters.members) ELSE None]
    [] variant = "unsubscribe" ->
         [subscription_id |-> ReadSubscriptionID(text.subscriptionId)]
    [] variant = "authorize" -> [tokens |-> text.tokens]
    [] variant = "unsubscribeAll" -> NoArguments

With(f, g) ==
  [m \in DOMAIN f \cup DOMAIN g |-> IF m \in DOMAIN f THEN f[m] ELSE g[m]]

Request(variant, r, arguments) ==
  With([action |-> variant, request_id |-> r], arguments)

(* A faulty variant: the aliases are the only tags. *)
ReadActionByAlias(text) ==
  IF text.action \in {"Get", "Set", "Subscribe", "Unsubscribe", "UnsubscribeAll"}
    THEN LET v == CHOOSE w \in DOMAIN Tags : text.action \in Tags[w] IN
         Request(v, ReadReqID(text.requestId), Arguments(text, v))
    ELSE Unreadable

(* serde_json::from_str::<Action> *)
ReadAction(text) ==
  IF \E v \in DOMAIN Tags : IsRequest(text, v)
    THEN LET v == CHOOSE w \in DOMAIN Tags : IsRequest(text, w) IN
         Request(v, ReadReqID(text.requestId), Arguments(text, v))
    ELSE Unreadable

-------------------------------------------------------------------------------
(***************************************************************************)
(* What the library writes: serde_json::to_string(&Action).  Filters that  *)
(* are None are left out; their members that are None are null.            *)
(***************************************************************************)
OrNull(x) == IF x = None THEN Null ELSE x

WriteFilters(f) ==
  Object([interval |-> IF f.interval = None THEN Null ELSE PosInt(f.interval),
          range |-> IF f.range = None THEN Null
                    ELSE Object([below |-> OrNull(f.range.below),
                                 above |-> OrNull(f.range.above)]),
          minChange |-> OrNull(f.min_change)])

WriteArguments(request) ==
  CASE request.action = "get" -> [path |-> PathString(request.path)]
    [] request.action = "subscribe" ->
         IF request.filters = None
           THEN [path |-> PathString(request.path)]
           ELSE [path |-> PathString(request.path),
                 filters |-> WriteFilters(request.filters)]
    [] request.action = "unsubscribe" ->
         [subscriptionId |-> WriteId(request.subscription_id)]
    [] request.action = "unsubscribeAll" -> NoArguments

WriteAction(request) ==
  With([action |-> request.action, requestId |-> WriteId(request.request_id)],
       WriteArguments(request))

-------------------------------------------------------------------------------
(***************************************************************************)
(* Answers: the members carry the names the derive gives them, and ids are *)
(* printed.  serialize_result's fallback is not reached: these responses   *)
(* always serialize.                                                       *)
(***************************************************************************)
JsonName(field) ==
  CASE field = "request_id"      -> "requestId"
    [] field = "subscription_id" -> "subscriptionId"
    [] OTHER                     -> field

WriteResponse(response) ==
  [m \in {JsonName(f) : f \in DOMAIN response} |->
     CASE m = "requestId"      -> WriteId(response.request_id)
       [] m = "subscriptionId" -> WriteId(response.subscription_id)
       [] OTHER                -> response[m]]

(* The members as the library sees them, before it looks for a variant. *)
Fields(text) ==
  [f \in {g \in {"action", "value", "error", "number", "reason", "request_id",
                 "subscription_id"} : JsonName(g) \in DOMAIN text} |->
     CASE f = "request_id"      -> ReadReqID(text.requestId)
       [] f = "subscription_id" -> ReadSubscriptionID(text.subscriptionId)
       [] OTHER                 -> text[f]]

(* What the actors of VisServer may answer to a request. *)
Responses(request) ==
  LET r == request.request_id IN
  CASE request.action = "get" ->
         {GetSuccess(r, v) : v \in Value} \cup {GetError(r, NOT_FOUND_INVALID_PATH)}
    [] request.action = "set" ->
         {SetSuccess(r), SetError(r, NOT_FOUND_INVALID_PATH),
          SetError(r, SERVICE_UNAVAILABLE)}
    [] request.action = "subscribe" -> {SubscribeSuccess(r, id) : id \in SubId}
    [] request.action = "unsubscribe" ->
         {UnsubscribeSuccess(r, request.subscription_id),
          UnsubscribeError(r, request.subscription_id,
                           NOT_FOUND_INVALID_SUBSCRIPTION_ID)}
    [] request.action = "unsubscribeAll" -> {UnsubscribeAllSuccess(r)}
    [] request.action = "authorize" -> {AuthorizeError(r, NOT_IMPLEMENTED)}
    [] request.action = "getMetadata" -> {GetMetadataError(r, NOT_IMPLEMENTED)}
===============================================================================
