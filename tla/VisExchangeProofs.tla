--------------------------- MODULE VisExchangeProofs ---------------------------
(***************************************************************************)
(* Theorems about the texts of VisExchange, for integers of every width,   *)
(* all ids, paths, values and filters, and whatever texts clients send.    *)
(***************************************************************************)
EXTENDS VisExchange, TLAPS

(***************************************************************************)
(* Records put together.                                                   *)
(***************************************************************************)
LEMMA WithMembers ==
  ASSUME NEW f, NEW g
  PROVE  /\ DOMAIN With(f, g) = DOMAIN f \cup DOMAIN g
         /\ \A m \in DOMAIN f : With(f, g)[m] = f[m]
         /\ \A m \in DOMAIN g \ DOMAIN f : With(f, g)[m] = g[m]
BY DEF With

LEMMA RequestShape ==
  ASSUME NEW v, NEW r, NEW arguments,
         "action" \notin DOMAIN arguments, "request_id" \notin DOMAIN arguments
  PROVE  /\ Request(v, r, arguments).action = v
         /\ Request(v, r, arguments).request_id = r
         /\ \A m \in DOMAIN arguments : Request(v, r, arguments)[m] = arguments[m]
<1>. DEFINE head == [action |-> v, request_id |-> r]
<1>1. /\ DOMAIN head = {"action", "request_id"}
      /\ head["action"] = v /\ head["request_id"] = r
  OBVIOUS
<1>2. Request(v, r, arguments) = With(head, arguments)
  BY DEF Request
<1>. HIDE DEF head
<1>3. /\ DOMAIN With(head, arguments) = {"action", "request_id"} \cup DOMAIN arguments
      /\ With(head, arguments)["action"] = v
      /\ With(head, arguments)["request_id"] = r
      /\ \A m \in DOMAIN arguments : With(head, arguments)[m] = arguments[m]
  <2>1. \A m \in DOMAIN arguments : m \in DOMAIN arguments \ DOMAIN head
    BY <1>1
  <2>2. /\ DOMAIN With(head, arguments) = DOMAIN head \cup DOMAIN arguments
        /\ \A m \in DOMAIN head : With(head, arguments)[m] = head[m]
        /\ \A m \in DOMAIN arguments \ DOMAIN head :
             With(head, arguments)[m] = arguments[m]
    BY WithMembers
  <2>3. "action" \in DOMAIN head /\ "request_id" \in DOMAIN head
    BY <1>1
  <2>. QED
    BY <1>1, <2>1, <2>2, <2>3
<1>. QED
  BY <1>2, <1>3

LEMMA NotUnreadable ==
  /\ \A n : IntId(n) # Unreadable
  /\ \A u : UuidId(u) # Unreadable
  /\ \A v, r, arguments : Request(v, r, arguments) # Unreadable
<1>1. DOMAIN Unreadable = {"kind"}
  BY DEF Unreadable
<1>2. \A n : DOMAIN IntId(n) = {"id", "n"}
  BY DEF IntId
<1>3. \A u : DOMAIN UuidId(u) = {"id", "uuid"}
  BY DEF UuidId
<1>4. \A v, r, arguments : "action" \in DOMAIN Request(v, r, arguments)
  BY WithMembers DEF Request
<1>. QED
  BY <1>1, <1>2, <1>3, <1>4

(***************************************************************************)
(* An id that was printed is read as that id.                              *)
(***************************************************************************)
LEMMA IdsReadBack ==
  ASSUME NEW i, NEW integers,
         \/ \E n \in integers : i = IntId(n)
         \/ \E u : i = UuidId(u)
  PROVE  ReadId(WriteId(i), integers) = i
<1>1. CASE \E n \in integers : i = IntId(n)
  BY <1>1 DEF ReadId, WriteId, IntId, IntString
<1>2. CASE \E u : i = UuidId(u)
  BY <1>2 DEF ReadId, WriteId, UuidId, UuidString
<1>. QED
  BY <1>1, <1>2

LEMMA ReadIds ==
  ASSUME NEW x, NEW integers, ReadId(x, integers) # Unreadable
  PROVE  \/ \E n \in integers : ReadId(x, integers) = IntId(n)
         \/ \E u : ReadId(x, integers) = UuidId(u)
BY DEF ReadId

LEMMA ReqIdShape ==
  ASSUME NEW r \in ReqId
  PROVE  ReadReqID(WriteId(r)) = r /\ r # Unreadable
<1>1. (\E n \in 0..U64_MAX : r = IntId(n)) \/ \E u : r = UuidId(u)
  BY IdAssumption
<1>. QED
  BY <1>1, IdsReadBack, NotUnreadable DEF ReadReqID

LEMMA SubIdShape ==
  ASSUME NEW id \in SubId
  PROVE  ReadSubscriptionID(WriteId(id)) = id /\ id # Unreadable
<1>1. \E u : id = UuidId(u)
  BY IdAssumption
<1>. QED
  BY <1>1, IdsReadBack, NotUnreadable DEF ReadSubscriptionID

(***************************************************************************)
(* Filters that were printed are read as those filters.                    *)
(***************************************************************************)
LEMMA NumbersReadBack ==
  ASSUME NEW x, IsNumberOrNone(x)
  PROVE  /\ OrNull(x) # Null => IsNumber(OrNull(x))
         /\ (IF OrNull(x) # Null THEN OrNull(x) ELSE None) = x
<1>1. IsNumber(x) => x # Null
  BY DEF IsNumber, Null
<1>. QED
  BY <1>1 DEF OrNull, IsNumberOrNone

LEMMA FiltersReadBack ==
  ASSUME NEW f \in Filters \ {None}
  PROVE  /\ WriteFilters(f) # Null
         /\ FiltersReadable(WriteFilters(f))
         /\ ReadFilters(WriteFilters(f).members) = f
<1>. DEFINE w == WriteFilters(f).members
            rg == w.range
<1>1. /\ WriteFilters(f).kind = "Object"
      /\ DOMAIN w = {"interval", "range", "minChange"}
      /\ w.interval = IF f.interval = None THEN Null ELSE PosInt(f.interval)
      /\ w.range = IF f.range = None THEN Null
                   ELSE Object([below |-> OrNull(f.range.below),
                                above |-> OrNull(f.range.above)])
      /\ w.minChange = OrNull(f.min_change)
  BY DEF WriteFilters, Object
<1>2. WriteFilters(f) # Null
  BY <1>1 DEF Null
<1>. HIDE DEF w
<1>3. /\ Given(w, "interval") <=> w.interval # Null
      /\ Given(w, "range") <=> w.range # Null
      /\ Given(w, "minChange") <=> w.minChange # Null
  BY <1>1 DEF Given
<1>9. U64_MAX \in Nat
  BY WidthAssumption DEF U64_MAX
<1>4. /\ Given(w, "interval") => /\ IsU64(w.interval) /\ w.interval.n <= U64_MAX
                                 /\ w.interval.n = f.interval
      /\ Given(w, "interval") <=> f.interval # None
  <2>1. CASE f.interval = None
    BY <1>1, <1>3, <2>1
  <2>2. CASE f.interval # None
    <3>1. f.interval \in 0..U64_MAX
      BY <2>2, FiltersAssumption
    <3>2. f.interval <= U64_MAX
      BY <1>9, <3>1
    <3>3. w.interval.kind = "PosInt" /\ w.interval.n = f.interval
      BY <1>1, <2>2 DEF PosInt
    <3>4. w.interval # Null
      BY <3>3 DEF Null
    <3>. QED
      BY <1>3, <2>2, <3>2, <3>3, <3>4 DEF IsU64
  <2>. QED
    BY <2>1, <2>2
<1>5. /\ NumbersReadable(w, {"minChange"})
      /\ NumberOrNone(w, "minChange") = f.min_change
  <2>1. IsNumberOrNone(f.min_change)
    BY FiltersAssumption
  <2>. QED
    BY <1>1, <1>3, <2>1, NumbersReadBack DEF NumbersReadable, NumberOrNone
<1>6. /\ Given(w, "range") <=> f.range # None
      /\ Given(w, "range") =>
           /\ RangeReadable(w.range)
           /\ NumberOrNone(w.range.members, "below") = f.range.below
           /\ NumberOrNone(w.range.members, "above") = f.range.above
  <2>1. CASE f.range = None
    BY <1>1, <1>3, <2>1
  <2>2. CASE f.range # None
    <3>. DEFINE o == w.range.members
    <3>1. /\ w.range.kind = "Object"
          /\ DOMAIN o = {"below", "above"}
          /\ o.below = OrNull(f.range.below) /\ o.above = OrNull(f.range.above)
      BY <1>1, <2>2 DEF Object
    <3>2. w.range # Null
      BY <3>1 DEF Null
    <3>3. IsNumberOrNone(f.range.below) /\ IsNumberOrNone(f.range.above)
      BY <2>2, FiltersAssumption
    <3>. HIDE DEF o
    <3>4. /\ Given(o, "below") <=> o.below # Null
          /\ Given(o, "above") <=> o.above # Null
      BY <3>1 DEF Given
    <3>5. /\ NumbersReadable(o, {"below"}) /\ NumberOrNone(o, "below") = f.range.below
      BY <3>1, <3>3, <3>4, NumbersReadBack DEF NumbersReadable, NumberOrNone
    <3>6. /\ NumbersReadable(o, {"above"}) /\ NumberOrNone(o, "above") = f.range.above
      BY <3>1, <3>3, <3>4, NumbersReadBack DEF NumbersReadable, NumberOrNone
    <3>7. RangeReadable(w.range)
      BY <3>1, <3>5, <3>6 DEF RangeReadable, NumbersReadable, o
    <3>. QED
      BY <1>3, <2>2, <3>2, <3>5, <3>6, <3>7 DEF o
  <2>. QED
    BY <2>1, <2>2
<1>7. FiltersReadable(WriteFilters(f))
  BY <1>1, <1>4, <1>5, <1>6 DEF FiltersReadable, w
<1>8. ReadFilters(w) = f
  <2>1. f.range # None =>
          [below |-> NumberOrNone(w.range.members, "below"),
           above |-> NumberOrNone(w.range.members, "above")] = f.range
    BY <1>6, FiltersAssumption
  <2>2. f = [interval |-> f.interval, range |-> f.range, min_change |-> f.min_change]
    BY FiltersAssumption
  <2>. QED
    BY <1>4, <1>5, <1>6, <2>1, <2>2 DEF ReadFilters
<1>. QED
  BY <1>2, <1>7, <1>8 DEF w

(***************************************************************************)
(* A request the library writes is read as that request.                   *)
(***************************************************************************)
LEMMA TagsAreDistinct ==
  ASSUME NEW v \in DOMAIN Tags
  PROVE  v \in Tags[v] /\ \A u \in DOMAIN Tags : v \in Tags[u] => u = v
BY DEF Tags

(* Of the texts that carry the tag v none is read as another variant. *)
LEMMA ReadTagged ==
  ASSUME NEW t, NEW v \in DOMAIN Tags, t.action = v, IsRequest(t, v)
  PROVE  ReadAction(t) = Request(v, ReadReqID(t.requestId), Arguments(t, v))
<1>1. \A u \in DOMAIN Tags : IsRequest(t, u) => u = v
  BY TagsAreDistinct DEF IsRequest
<1>2. (CHOOSE u \in DOMAIN Tags : IsRequest(t, u)) = v
  BY <1>1
<1>. QED
  BY <1>2 DEF ReadAction

LEMMA WrittenMembers ==
  ASSUME NEW request, NEW members, WriteArguments(request) = members,
         "action" \notin DOMAIN members, "requestId" \notin DOMAIN members
  PROVE  /\ WriteAction(request).action = request.action
         /\ WriteAction(request).requestId = WriteId(request.request_id)
         /\ DOMAIN WriteAction(request) = {"action", "requestId"} \cup DOMAIN members
         /\ \A m \in DOMAIN members : WriteAction(request)[m] = members[m]
<1>. DEFINE head == [action |-> request.action,
                     requestId |-> WriteId(request.request_id)]
<1>1. /\ DOMAIN head = {"action", "requestId"}
      /\ head["action"] = request.action
      /\ head["requestId"] = WriteId(request.request_id)
  OBVIOUS
<1>2. WriteAction(request) = With(head, members)
  BY DEF WriteAction
<1>. HIDE DEF head
<1>3. /\ DOMAIN With(head, members) = DOMAIN head \cup DOMAIN members
      /\ \A m \in DOMAIN head : With(head, members)[m] = head[m]
      /\ \A m \in DOMAIN members \ DOMAIN head : With(head, members)[m] = members[m]
  BY DEF With
<1>4. \A m \in DOMAIN members : m \in DOMAIN members \ DOMAIN head
  BY <1>1
<1>5. "action" \in DOMAIN head /\ "requestId" \in DOMAIN head
  BY <1>1
<1>. QED
  BY <1>1, <1>2, <1>3, <1>4, <1>5

LEMMA GetIsUnderstood ==
  ASSUME NEW r \in ReqId, NEW p
  PROVE  LET request == Request("get", r, [path |-> p]) IN
         ReadAction(WriteAction(request)) = request
<1>. DEFINE arguments == [path |-> p]
            request == Request("get", r, arguments)
            t == WriteAction(request)
            members == [path |-> PathString(p)]
<1>0. DOMAIN arguments = {"path"} /\ arguments.path = p
  OBVIOUS
<1>. HIDE DEF arguments
<1>1. request.action = "get" /\ request.request_id = r /\ request.path = p
  BY <1>0, RequestShape
<1>. HIDE DEF request
<1>2. /\ WriteArguments(request) = members
      /\ DOMAIN members = {"path"}
      /\ members.path = PathString(p)
  BY <1>1 DEF WriteArguments
<1>. HIDE DEF members
<1>3. /\ t.action = "get" /\ t.requestId = WriteId(r)
      /\ DOMAIN t = {"action", "requestId", "path"} /\ t.path = PathString(p)
  <2>1. "action" \notin DOMAIN members /\ "requestId" \notin DOMAIN members
    BY <1>2
  <2>2. /\ t.action = "get" /\ t.requestId = WriteId(r)
        /\ DOMAIN t = {"action", "requestId"} \cup DOMAIN members
        /\ \A m \in DOMAIN members : t[m] = members[m]
    BY <1>1, <1>2, <2>1, WrittenMembers
  <2>. QED
    BY <1>2, <2>2
<1>. HIDE DEF t
<1>4. t.path.kind = "PathString" /\ t.path.path = p
  BY <1>3 DEF PathString
<1>5. ReadReqID(t.requestId) = r /\ r # Unreadable
  BY <1>3, ReqIdShape
<1>6. IsRequest(t, "get") /\ "get" \in DOMAIN Tags
  BY <1>3, <1>4, <1>5 DEF IsRequest, Tags, RequestMembers, MemberReadable
<1>7. Arguments(t, "get") = [path |-> p]
  BY <1>4 DEF Arguments
<1>. QED
  BY <1>3, <1>5, <1>6, <1>7, ReadTagged DEF t, request, arguments

LEMMA UnsubscribeAllIsUnderstood ==
  ASSUME NEW r \in ReqId
  PROVE  LET request == Request("unsubscribeAll", r, NoArguments) IN
         ReadAction(WriteAction(request)) = request
<1>. DEFINE request == Request("unsubscribeAll", r, NoArguments)
            t == WriteAction(request)
<1>0. DOMAIN NoArguments = {}
  BY DEF NoArguments
<1>1. request.action = "unsubscribeAll" /\ request.request_id = r
  BY <1>0, RequestShape
<1>. HIDE DEF request
<1>2. WriteArguments(request) = NoArguments /\ DOMAIN NoArguments = {}
  BY <1>1 DEF WriteArguments, NoArguments
<1>3. /\ t.action = "unsubscribeAll" /\ t.requestId = WriteId(r)
      /\ DOMAIN t = {"action", "requestId"}
  BY <1>1, <1>2, WrittenMembers
<1>. HIDE DEF t
<1>4. ReadReqID(t.requestId) = r /\ r # Unreadable
  BY <1>3, ReqIdShape
<1>5. IsRequest(t, "unsubscribeAll") /\ "unsubscribeAll" \in DOMAIN Tags
  BY <1>3, <1>4 DEF IsRequest, Tags, RequestMembers, MemberReadable
<1>6. Arguments(t, "unsubscribeAll") = NoArguments
  BY DEF Arguments
<1>. QED
  BY <1>3, <1>4, <1>5, <1>6, ReadTagged DEF t, request

LEMMA UnsubscribeIsUnderstood ==
  ASSUME NEW r \in ReqId, NEW id \in SubId
  PROVE  LET request == Request("unsubscribe", r, [subscription_id |-> id]) IN
         ReadAction(WriteAction(request)) = request
<1>. DEFINE arguments == [subscription_id |-> id]
            request == Request("unsubscribe", r, arguments)
            t == WriteAction(request)
            members == [subscriptionId |-> WriteId(id)]
<1>0. DOMAIN arguments = {"subscription_id"} /\ arguments.subscription_id = id
  OBVIOUS
<1>. HIDE DEF arguments
<1>1. /\ request.action = "unsubscribe" /\ request.request_id = r
      /\ request.subscription_id = id
  BY <1>0, RequestShape
<1>. HIDE DEF request
<1>2. /\ WriteArguments(request) = members
      /\ DOMAIN members = {"subscriptionId"}
      /\ members.subscriptionId = WriteId(id)
  BY <1>1 DEF WriteArguments
<1>. HIDE DEF members
<1>3. /\ t.action = "unsubscribe" /\ t.requestId = WriteId(r)
      /\ DOMAIN t = {"action", "requestId", "subscriptionId"}
      /\ t.subscriptionId = WriteId(id)
  BY <1>1, <1>2, WrittenMembers
<1>. HIDE DEF t
<1>4. ReadReqID(t.requestId) = r /\ r # Unreadable
  BY <1>3, ReqIdShape
<1>5. ReadSubscriptionID(t.subscriptionId) = id /\ id # Unreadable
  BY <1>3, SubIdShape
<1>6. IsRequest(t, "unsubscribe") /\ "unsubscribe" \in DOMAIN Tags
  BY <1>3, <1>4, <1>5 DEF IsRequest, Tags, RequestMembers, MemberReadable
<1>7. Arguments(t, "unsubscribe") = [subscription_id |-> id]
  BY <1>5 DEF Arguments
<1>. QED
  BY <1>3, <1>4, <1>6, <1>7, ReadTagged DEF t, request, arguments

LEMMA SubscribeIsUnderstood ==
  ASSUME NEW r \in ReqId, NEW p, NEW f \in Filters
  PROVE  LET request == Request("subscribe", r, [path |-> p, filters |-> f]) IN
         ReadAction(WriteAction(request)) = request
<1>. DEFINE arguments == [path |-> p, filters |-> f]
            request == Request("subscribe", r, arguments)
            t == WriteAction(request)
            members == IF f = None THEN [path |-> PathString(p)]
                       ELSE [path |-> PathString(p), filters |-> WriteFilters(f)]
<1>0. /\ DOMAIN arguments = {"path", "filters"}
      /\ arguments.path = p /\ arguments.filters = f
  OBVIOUS
<1>. HIDE DEF arguments
<1>1. /\ request.action = "subscribe" /\ request.request_id = r
      /\ request.path = p /\ request.filters = f
  BY <1>0, RequestShape
<1>. HIDE DEF request
<1>2. WriteArguments(request) = members
  BY <1>1 DEF WriteArguments
<1>3. /\ DOMAIN members = IF f = None THEN {"path"} ELSE {"path", "filters"}
      /\ members.path = PathString(p)
      /\ f # None => members.filters = WriteFilters(f)
  OBVIOUS
<1>. HIDE DEF members
<1>4. /\ t.action = "subscribe" /\ t.requestId = WriteId(r)
      /\ DOMAIN t = {"action", "requestId"} \cup DOMAIN members
      /\ t.path = PathString(p)
      /\ f # None => t.filters = WriteFilters(f)
  BY <1>1, <1>2, <1>3, WrittenMembers
<1>. HIDE DEF t
<1>5. t.path.kind = "PathString" /\ t.path.path = p
  BY <1>4 DEF PathString
<1>6. ReadReqID(t.requestId) = r /\ r # Unreadable
  BY <1>4, ReqIdShape
<1>7. /\ Given(t, "filters") <=> f # None
      /\ f # None => /\ FiltersReadable(t.filters)
                     /\ ReadFilters(t.filters.members) = f
  BY <1>3, <1>4, FiltersReadBack DEF Given
<1>8. IsRequest(t, "subscribe") /\ "subscribe" \in DOMAIN Tags
  BY <1>4, <1>3, <1>5, <1>6, <1>7 DEF IsRequest, Tags, RequestMembers, MemberReadable
<1>9. Arguments(t, "subscribe") = [path |-> p, filters |-> f]
  BY <1>5, <1>7 DEF Arguments
<1>. QED
  BY <1>4, <1>6, <1>8, <1>9, ReadTagged DEF t, request, arguments

LEMMA RequestsAreUnderstood ==
  ASSUME NEW request \in Requests
  PROVE  ReadAction(WriteAction(request)) = request
<1>1. \/ \E r \in ReqId, p \in Path : request = Request("get", r, [path |-> p])
      \/ \E r \in ReqId, p \in Path, f \in Filters :
           request = Request("subscribe", r, [path |-> p, filters |-> f])
      \/ \E r \in ReqId : request = Request("unsubscribeAll", r, NoArguments)
  BY DEF Requests
<1>2. CASE \E r \in ReqId, p \in Path : request = Request("get", r, [path |-> p])
  BY <1>2, GetIsUnderstood
<1>3. CASE \E r \in ReqId, p \in Path, f \in Filters :
             request = Request("subscribe", r, [path |-> p, filters |-> f])
  BY <1>3, SubscribeIsUnderstood
<1>4. CASE \E r \in ReqId : request = Request("unsubscribeAll", r, NoArguments)
  BY <1>4, UnsubscribeAllIsUnderstood
<1>. QED
  BY <1>1, <1>2, <1>3, <1>4

(***************************************************************************)
(* Answers.  What the library sees of an answer are the members of the     *)
(* response, with their ids.                                               *)
(***************************************************************************)
ResponseFields == {"action", "request_id", "subscription_id", "value", "error"}

LEMMA FieldsAre ==
  ASSUME NEW x, DOMAIN x \subseteq ResponseFields,
         "request_id" \in DOMAIN x => ReadReqID(WriteId(x.request_id)) = x.request_id,
         "subscription_id" \in DOMAIN x =>
           ReadSubscriptionID(WriteId(x.subscription_id)) = x.subscription_id
  PROVE  /\ DOMAIN Fields(WriteResponse(x)) = DOMAIN x
         /\ \A f \in DOMAIN x : Fields(WriteResponse(x))[f] = x[f]
<1>. DEFINE t == WriteResponse(x)
            names == {"action", "value", "error", "number", "reason", "request_id",
                      "subscription_id"}
<1>1. /\ DOMAIN t = {JsonName(f) : f \in DOMAIN x}
      /\ \A m \in DOMAIN t :
           t[m] = CASE m = "requestId"      -> WriteId(x.request_id)
                    [] m = "subscriptionId" -> WriteId(x.subscription_id)
                    [] OTHER                -> x[m]
  BY DEF WriteResponse
<1>2. \A f, g \in names : JsonName(f) = JsonName(g) => f = g
  BY DEF JsonName
<1>3. DOMAIN x \subseteq names
  BY DEF ResponseFields
<1>4. /\ DOMAIN Fields(t) = {g \in names : JsonName(g) \in DOMAIN t}
      /\ \A f \in DOMAIN Fields(t) :
           Fields(t)[f] = CASE f = "request_id"      -> ReadReqID(t.requestId)
                            [] f = "subscription_id" -> ReadSubscriptionID(t.subscriptionId)
                            [] OTHER                 -> t[f]
  BY DEF Fields
<1>. HIDE DEF t, names
<1>5. DOMAIN Fields(t) = DOMAIN x
  <2>1. ASSUME NEW g \in names PROVE JsonName(g) \in DOMAIN t <=> g \in DOMAIN x
    <3>1. JsonName(g) \in DOMAIN t <=> \E f \in DOMAIN x : JsonName(g) = JsonName(f)
      BY <1>1
    <3>. QED
      BY <1>2, <1>3, <3>1
  <2>. QED
    BY <1>3, <1>4, <2>1
<1>6. ASSUME NEW f \in DOMAIN x PROVE Fields(t)[f] = x[f]
  <2>1. f \in DOMAIN Fields(t) /\ JsonName(f) \in DOMAIN t
    BY <1>1, <1>5
  <2>2. CASE f = "request_id"
    <3>1. JsonName(f) = "requestId"
      BY <2>2 DEF JsonName
    <3>. QED
      BY <1>1, <1>4, <2>1, <2>2, <3>1
  <2>3. CASE f = "subscription_id"
    <3>1. JsonName(f) = "subscriptionId"
      BY <2>3 DEF JsonName
    <3>. QED
      BY <1>1, <1>4, <2>1, <2>3, <3>1
  <2>4. CASE f \notin {"request_id", "subscription_id"}
    <3>1. JsonName(f) = f
      BY <2>4 DEF JsonName
    <3>2. f \notin {"requestId", "subscriptionId"}
      BY DEF ResponseFields
    <3>. QED
      BY <1>1, <1>4, <2>1, <2>4, <3>1, <3>2
  <2>. QED
    BY <2>2, <2>3, <2>4
<1>. QED
  BY <1>5, <1>6 DEF t

(* The members of a response are those of its variant. *)
Shaped(x) ==
  /\ x = [m \in DOMAIN x |-> x[m]]
  /\ "action" \in DOMAIN x /\ DOMAIN x \subseteq ResponseFields
  /\ IsSuccess(x) => /\ x.action \in DOMAIN SuccessMembers
                     /\ DOMAIN x = {"action"} \cup SuccessMembers[x.action]
  /\ x.action = "get" /\ ~IsSuccess(x) => DOMAIN x = {"action", "request_id", "error"}

LEMMA ResponsesAreShaped ==
  ASSUME NEW r, NEW id, NEW v, NEW e
  PROVE  /\ Shaped(GetSuccess(r, v)) /\ Shaped(GetError(r, e))
         /\ Shaped(SetSuccess(r)) /\ Shaped(SetError(r, e))
         /\ Shaped(SubscribeSuccess(r, id)) /\ Shaped(UnsubscribeSuccess(r, id))
         /\ Shaped(UnsubscribeError(r, id, e)) /\ Shaped(UnsubscribeAllSuccess(r))
         /\ Shaped(AuthorizeError(r, e)) /\ Shaped(GetMetadataError(r, e))
         /\ Shaped(Subscription(id, v))
<1>1. Shaped(GetSuccess(r, v))
  BY DEF Shaped, GetSuccess, IsSuccess, SuccessMembers, ResponseFields
<1>2. \A a : a # "get" => Shaped(RequestError(a, r, e))
  BY DEF Shaped, RequestError, IsSuccess, ResponseFields
<1>3. Shaped(GetError(r, e))
  BY DEF Shaped, GetError, RequestError, IsSuccess, ResponseFields
<1>4. Shaped(SetSuccess(r))
  BY DEF Shaped, SetSuccess, IsSuccess, SuccessMembers, ResponseFields
<1>5. Shaped(SubscribeSuccess(r, id))
  BY DEF Shaped, SubscribeSuccess, IsSuccess, SuccessMembers, ResponseFields
<1>6. Shaped(UnsubscribeSuccess(r, id))
  BY DEF Shaped, UnsubscribeSuccess, IsSuccess, SuccessMembers, ResponseFields
<1>7. Shaped(UnsubscribeError(r, id, e))
  BY DEF Shaped, UnsubscribeError, IsSuccess, ResponseFields
<1>8. Shaped(UnsubscribeAllSuccess(r))
  BY DEF Shaped, UnsubscribeAllSuccess, IsSuccess, SuccessMembers, ResponseFields
<1>9. Shaped(Subscription(id, v))
  BY DEF Shaped, Subscription, IsSuccess, SuccessMembers, ResponseFields
<1>10. Shaped(SetError(r, e)) /\ Shaped(AuthorizeError(r, e)) /\ Shaped(GetMetadataError(r, e))
  BY <1>2 DEF SetError, AuthorizeError, GetMetadataError
<1>. QED
  BY <1>1, <1>3, <1>4, <1>5, <1>6, <1>7, <1>8, <1>9, <1>10

(* The ids of a response are read as they were meant. *)
Legible(x) ==
  /\ "request_id" \in DOMAIN x => ReadReqID(WriteId(x.request_id)) = x.request_id
  /\ "subscription_id" \in DOMAIN x =>
       ReadSubscriptionID(WriteId(x.subscription_id)) = x.subscription_id

LEMMA ResponsesAreRead ==
  ASSUME NEW x, Shaped(x), Legible(x)
  PROVE  /\ DOMAIN Fields(WriteResponse(x)) = DOMAIN x
         /\ \A f \in DOMAIN x : Fields(WriteResponse(x))[f] = x[f]
         /\ IsSuccess(x) => ReadSuccess(Fields(WriteResponse(x))) = x
         /\ x.action = "get" /\ ~IsSuccess(x) =>
              /\ ReadSuccess(Fields(WriteResponse(x))) = None
              /\ ReadError(Fields(WriteResponse(x))) = x
<1>. DEFINE fields == Fields(WriteResponse(x))
<1>1. /\ DOMAIN fields = DOMAIN x
      /\ \A f \in DOMAIN x : fields[f] = x[f]
  BY FieldsAre DEF Shaped, Legible
<1>. HIDE DEF fields
<1>2. "action" \in DOMAIN fields /\ fields.action = x.action
  BY <1>1 DEF Shaped
<1>3. ASSUME IsSuccess(x) PROVE ReadSuccess(fields) = x
  <2>1. /\ x.action \in DOMAIN SuccessMembers
        /\ DOMAIN x = {"action"} \cup SuccessMembers[x.action]
    BY <1>3 DEF Shaped
  <2>2. Reads(fields, SuccessMembers)
    BY <1>1, <1>2, <2>1 DEF Reads
  <2>3. ReadSuccess(fields) = [m \in DOMAIN x |-> fields[m]]
    BY <1>2, <2>1, <2>2 DEF ReadSuccess, Read
  <2>. QED
    BY <1>1, <2>3 DEF Shaped
<1>4. ASSUME x.action = "get", ~IsSuccess(x)
      PROVE  ReadSuccess(fields) = None /\ ReadError(fields) = x
  <2>1. DOMAIN x = {"action", "request_id", "error"}
    BY <1>4 DEF Shaped
  <2>2. ~Reads(fields, SuccessMembers)
    BY <1>1, <1>2, <1>4, <2>1 DEF Reads, SuccessMembers
  <2>3. Reads(fields, ErrorMembers) /\ ErrorMembers["get"] = {"request_id", "error"}
    BY <1>1, <1>2, <1>4, <2>1 DEF Reads, ErrorMembers
  <2>4. ReadError(fields) = [m \in DOMAIN x |-> fields[m]]
    BY <1>2, <1>4, <2>1, <2>3 DEF ReadError, Read
  <2>. QED
    BY <1>1, <2>2, <2>4 DEF Shaped, ReadSuccess, Read
<1>. QED
  BY <1>1, <1>3, <1>4 DEF fields
(***************************************************************************)
(* A request that was read, whatever the text, has readable ids; its       *)
(* answers carry them.                                                     *)
(***************************************************************************)
LEMMA ReqIdsReadBack ==
  ASSUME NEW x, ReadReqID(x) # Unreadable
  PROVE  ReadReqID(WriteId(ReadReqID(x))) = ReadReqID(x)
BY ReadIds, IdsReadBack DEF ReadReqID

LEMMA SubIdsReadBack ==
  ASSUME NEW x, ReadSubscriptionID(x) # Unreadable
  PROVE  ReadSubscriptionID(WriteId(ReadSubscriptionID(x))) = ReadSubscriptionID(x)
BY ReadIds, IdsReadBack DEF ReadSubscriptionID

LEMMA ReadRequests ==
  ASSUME NEW t, ReadAction(t) # Unreadable
  PROVE  /\ ReadAction(t).action \in DOMAIN Tags
         /\ ReadReqID(WriteId(ReadAction(t).request_id)) = ReadAction(t).request_id
         /\ ReadAction(t).action = "unsubscribe" =>
              ReadSubscriptionID(WriteId(ReadAction(t).subscription_id))
                = ReadAction(t).subscription_id
<1>1. PICK v \in DOMAIN Tags :
        /\ IsRequest(t, v)
        /\ ReadAction(t) = Request(v, ReadReqID(t.requestId), Arguments(t, v))
  <2>1. \E v \in DOMAIN Tags : IsRequest(t, v)
    BY DEF ReadAction
  <2>. DEFINE v == CHOOSE w \in DOMAIN Tags : IsRequest(t, w)
  <2>2. v \in DOMAIN Tags /\ IsRequest(t, v)
    BY <2>1
  <2>3. ReadAction(t) = Request(v, ReadReqID(t.requestId), Arguments(t, v))
    BY <2>1 DEF ReadAction
  <2>. QED
    BY <2>2, <2>3
<1>. DEFINE r == ReadReqID(t.requestId)
            arguments == Arguments(t, v)
<1>2. v \in {"authorize", "getMetadata", "get", "set", "subscribe", "unsubscribe",
             "unsubscribeAll"}
  BY DEF Tags
<1>3. "action" \notin DOMAIN arguments /\ "request_id" \notin DOMAIN arguments
  <2>1. CASE v \in {"get", "getMetadata"}
    BY <2>1 DEF Arguments
  <2>2. CASE v = "set"
    BY <2>2 DEF Arguments
  <2>3. CASE v = "subscribe"
    BY <2>3 DEF Arguments
  <2>4. CASE v = "unsubscribe"
    BY <2>4 DEF Arguments
  <2>5. CASE v = "authorize"
    BY <2>5 DEF Arguments
  <2>6. CASE v = "unsubscribeAll"
    BY <2>6 DEF Arguments, NoArguments
  <2>. QED
    BY <1>2, <2>1, <2>2, <2>3, <2>4, <2>5, <2>6
<1>4. r # Unreadable
  <2>1. "requestId" \in RequestMembers[v]
    BY <1>2 DEF RequestMembers
  <2>. QED
    BY <1>1, <2>1 DEF IsRequest, MemberReadable
<1>5. v = "unsubscribe" =>
        /\ arguments = [subscription_id |-> ReadSubscriptionID(t.subscriptionId)]
        /\ ReadSubscriptionID(t.subscriptionId) # Unreadable
  <2>1. v = "unsubscribe" => "subscriptionId" \in RequestMembers[v]
    BY DEF RequestMembers
  <2>. QED
    BY <1>1, <2>1 DEF IsRequest, MemberReadable, Arguments
<1>. HIDE DEF r, arguments
<1>6. /\ ReadAction(t).action = v /\ ReadAction(t).request_id = r
      /\ \A m \in DOMAIN arguments : ReadAction(t)[m] = arguments[m]
  BY <1>1, <1>3, RequestShape DEF r, arguments
<1>7. ReadReqID(WriteId(r)) = r
  BY <1>4, ReqIdsReadBack DEF r
<1>8. v = "unsubscribe" =>
        ReadAction(t).subscription_id = ReadSubscriptionID(t.subscriptionId)
  BY <1>5, <1>6
<1>. QED
  BY <1>5, <1>6, <1>7, <1>8, SubIdsReadBack

LEMMA ResponsesAreLegible ==
  ASSUME NEW t, ReadAction(t) # Unreadable, NEW x \in Responses(ReadAction(t))
  PROVE  /\ Shaped(x) /\ Legible(x)
         /\ "request_id" \in DOMAIN x /\ x.request_id = ReadAction(t).request_id
         /\ x.action = "subscribe" =>
              "subscription_id" \in DOMAIN x /\ x.subscription_id \in SubId
         /\ x.action # "subscription"
<1>. DEFINE q == ReadAction(t)
            r == q.request_id
<1>1. /\ q.action \in {"authorize", "getMetadata", "get", "set", "subscribe",
                       "unsubscribe", "unsubscribeAll"}
      /\ ReadReqID(WriteId(r)) = r
      /\ q.action = "unsubscribe" =>
           ReadSubscriptionID(WriteId(q.subscription_id)) = q.subscription_id
  BY ReadRequests DEF Tags
<1>. HIDE DEF q
<1>2. x \in Responses(q)
  BY DEF q
<1>3. CASE q.action = "get"
  <2>1. (\E v \in Value : x = GetSuccess(r, v)) \/ x = GetError(r, NOT_FOUND_INVALID_PATH)
    BY <1>2, <1>3 DEF Responses
  <2>2. Shaped(x)
    BY <2>1, ResponsesAreShaped
  <2>3. /\ x.request_id = r /\ x.action = "get" /\ "request_id" \in DOMAIN x
        /\ "subscription_id" \notin DOMAIN x
    BY <2>1 DEF GetSuccess, GetError, RequestError
  <2>. QED
    BY <1>1, <2>2, <2>3 DEF Legible, q
<1>4. CASE q.action = "set"
  <2>1. x = SetSuccess(r) \/ \E e : x = SetError(r, e)
    BY <1>2, <1>4 DEF Responses
  <2>2. Shaped(x)
    BY <2>1, ResponsesAreShaped
  <2>3. /\ x.request_id = r /\ x.action = "set" /\ "request_id" \in DOMAIN x
        /\ "subscription_id" \notin DOMAIN x
    BY <2>1 DEF SetSuccess, SetError, RequestError
  <2>. QED
    BY <1>1, <2>2, <2>3 DEF Legible, q
<1>5. CASE q.action = "subscribe"
  <2>1. PICK id \in SubId : x = SubscribeSuccess(r, id)
    BY <1>2, <1>5 DEF Responses
  <2>2. Shaped(x)
    BY <2>1, ResponsesAreShaped
  <2>3. /\ x.request_id = r /\ x.action = "subscribe" /\ "request_id" \in DOMAIN x
        /\ "subscription_id" \in DOMAIN x /\ x.subscription_id = id
    BY <2>1 DEF SubscribeSuccess
  <2>. QED
    BY <1>1, <2>2, <2>3, SubIdShape DEF Legible, q
<1>6. CASE q.action = "unsubscribe"
  <2>1. \/ x = UnsubscribeSuccess(r, q.subscription_id)
        \/ \E e : x = UnsubscribeError(r, q.subscription_id, e)
    BY <1>2, <1>6 DEF Responses
  <2>2. Shaped(x)
    BY <2>1, ResponsesAreShaped
  <2>3. /\ x.request_id = r /\ x.action = "unsubscribe" /\ "request_id" \in DOMAIN x
        /\ x.subscription_id = q.subscription_id
    BY <2>1 DEF UnsubscribeSuccess, UnsubscribeError
  <2>. QED
    BY <1>1, <1>6, <2>2, <2>3 DEF Legible, q
<1>7. CASE q.action = "unsubscribeAll"
  <2>1. x = UnsubscribeAllSuccess(r)
    BY <1>2, <1>7 DEF Responses
  <2>2. Shaped(x)
    BY <2>1, ResponsesAreShaped
  <2>3. /\ x.request_id = r /\ x.action = "unsubscribeAll" /\ "request_id" \in DOMAIN x
        /\ "subscription_id" \notin DOMAIN x
    BY <2>1 DEF UnsubscribeAllSuccess
  <2>. QED
    BY <1>1, <2>2, <2>3 DEF Legible, q
<1>8. CASE q.action \in {"authorize", "getMetadata"}
  <2>1. x \in {AuthorizeError(r, NOT_IMPLEMENTED), GetMetadataError(r, NOT_IMPLEMENTED)}
    BY <1>2, <1>8 DEF Responses
  <2>2. Shaped(x)
    BY <2>1, ResponsesAreShaped
  <2>3. /\ x.request_id = r /\ x.action \in {"authorize", "getMetadata"}
        /\ "request_id" \in DOMAIN x /\ "subscription_id" \notin DOMAIN x
    BY <2>1 DEF AuthorizeError, GetMetadataError, RequestError
  <2>. QED
    BY <1>1, <2>2, <2>3 DEF Legible, q
<1>. QED
  BY <1>1, <1>3, <1>4, <1>5, <1>6, <1>7, <1>8

(***************************************************************************)
(* The last answer is that of the request, or a notification of the        *)
(* subscription the answer has opened.                                     *)
(***************************************************************************)
Meant ==
  /\ answer = WriteResponse(response)
  /\ \/ /\ ReadAction(text) # Unreadable
        /\ response \in Responses(ReadAction(text))
     \/ \E id \in SubId, v \in Value : response = Subscription(id, v)

ExchangeInv == LibraryIsUnderstood /\ (response # None => Meant)

LEMMA NotificationShape ==
  ASSUME NEW id \in SubId, NEW v, NEW x, x = Subscription(id, v)
  PROVE  /\ Shaped(x) /\ Legible(x)
         /\ x.action = "subscription" /\ x.subscription_id = id
<1>1. Shaped(x)
  BY ResponsesAreShaped
<1>2. /\ x.action = "subscription" /\ x.subscription_id = id
      /\ "request_id" \notin DOMAIN x
  BY DEF Subscription
<1>. QED
  BY <1>1, <1>2, SubIdShape DEF Legible

LEMMA MeantIsRead ==
  ASSUME Meant
  PROVE  /\ Shaped(response) /\ Legible(response)
         /\ Subscribed => /\ response.subscription_id \in SubId
                          /\ Fields(answer).subscription_id = response.subscription_id
<1>1. /\ Shaped(response) /\ Legible(response)
      /\ response.action \in {"subscribe", "subscription"} =>
           response.subscription_id \in SubId /\ "subscription_id" \in DOMAIN response
  <2>1. CASE /\ ReadAction(text) # Unreadable
             /\ response \in Responses(ReadAction(text))
    BY <2>1, ResponsesAreLegible
  <2>2. CASE \E id \in SubId, v \in Value : response = Subscription(id, v)
    BY <2>2, NotificationShape DEF Subscription
  <2>. QED
    BY <2>1, <2>2 DEF Meant
<1>. QED
  BY <1>1, ResponsesAreRead DEF Meant, Subscribed

LEMMA InitExchange == Init => ExchangeInv
BY RequestsAreUnderstood DEF Init, ExchangeInv, LibraryIsUnderstood

LEMMA NextExchange == ExchangeInv /\ [Next]_vars => ExchangeInv'
<1>. SUFFICES ASSUME ExchangeInv, [Next]_vars PROVE ExchangeInv'
  OBVIOUS
<1>1. CASE Answer
  <2>1. LibraryIsUnderstood'
    BY <1>1 DEF Answer, ExchangeInv, LibraryIsUnderstood
  <2>2. response' # None => Meant'
    BY <1>1 DEF Answer, Serialize, Meant
  <2>. QED
    BY <2>1, <2>2 DEF ExchangeInv
<1>2. ASSUME NEW v \in Value, Notify(v) PROVE ExchangeInv'
  <2>1. LibraryIsUnderstood'
    BY <1>2 DEF Notify, ExchangeInv, LibraryIsUnderstood
  <2>2. response.subscription_id \in SubId
    BY <1>2, MeantIsRead DEF Notify, Subscribed, ExchangeInv
  <2>3. Meant'
    BY <1>2, <2>2 DEF Notify, Serialize, Meant
  <2>. QED
    BY <2>1, <2>3 DEF ExchangeInv
<1>3. ASSUME NEW r \in ReqId, Unsubscribe(r) PROVE ExchangeInv'
  <2>1. PICK id \in SubId : id = Fields(answer).subscription_id
    BY <1>3, MeantIsRead DEF Unsubscribe, Subscribed, ExchangeInv
  <2>2. written' = Request("unsubscribe", r, [subscription_id |-> id])
    BY <1>3, <2>1 DEF Unsubscribe
  <2>3. text' = WriteAction(written') /\ response' = None
    BY <1>3 DEF Unsubscribe
  <2>. QED
    BY <2>2, <2>3, UnsubscribeIsUnderstood DEF ExchangeInv, LibraryIsUnderstood
<1>4. CASE UNCHANGED vars
  BY <1>4 DEF vars, ExchangeInv, LibraryIsUnderstood, Meant
<1>. QED
  BY <1>1, <1>2, <1>3, <1>4 DEF Next

LEMMA ExchangeInvariant == Spec => []ExchangeInv
BY InitExchange, NextExchange, PTL DEF Spec

(***************************************************************************)
(* The server reads what the library writes as the action that was meant,  *)
(* with any ids, path and filters: what Serialize for Action prints,       *)
(* Deserialize for Action takes (api_type.rs).                             *)
(***************************************************************************)
THEOREM RequestsMeanTheSame == Spec => []LibraryIsUnderstood
<1>1. ExchangeInv => LibraryIsUnderstood
  BY DEF ExchangeInv
<1>. QED
  BY <1>1, ExchangeInvariant, PTL

(***************************************************************************)
(* Whatever text a client sends, if it can be read it is answered under    *)
(* the request id it was read with, however that was spelt (the visitors   *)
(* of ReqID and SubscriptionID).                                           *)
(***************************************************************************)
THEOREM AnswersAreLinked == Spec => []AnswerIsLinked
<1>1. ExchangeInv => AnswerIsLinked
  <2>. SUFFICES ASSUME Meant, response.action # "subscription"
                PROVE  Fields(answer).request_id = ReadAction(text).request_id
    BY DEF ExchangeInv, AnswerIsLinked
  <2>1. ReadAction(text) # Unreadable /\ response \in Responses(ReadAction(text))
    BY NotificationShape DEF Meant
  <2>. QED
    BY <2>1, ResponsesAreLegible, ResponsesAreRead DEF Meant
<1>. QED
  BY <1>1, ExchangeInvariant, PTL

(***************************************************************************)
(* The library tells successes from errors although they share their tags: *)
(* it reads every success as that success, and a failed get as its error.  *)
(***************************************************************************)
THEOREM AnswersMeanTheSame == Spec => []AnswerIsReadAsMeant
<1>1. ExchangeInv => AnswerIsReadAsMeant
  BY MeantIsRead, ResponsesAreRead DEF ExchangeInv, AnswerIsReadAsMeant, Meant
<1>. QED
  BY <1>1, ExchangeInvariant, PTL
===============================================================================
