----------------------------- MODULE RoutesProofs -----------------------------
(***************************************************************************)
(* Proofs about the way of a request through the Gateway, for all requests *)
(* and all UUIDs.  The routes, classes and handlers are those of the code: *)
(* what the properties need of each is looked up once, in the tables.      *)
(***************************************************************************)
EXTENDS Routes, Sums

-----------------------------------------------------------------------------
(* The tables.                                                             *)

\* There is a handler of the pattern at the service of the client, and it
\* validates with the class of the route.
HasHandler(route) ==
    \E h \in Handlers :
        h.pattern = route.pattern /\ h.service = route.client /\ h.class = route.class

\* Fields that a class may declare.
Declared(class) == Classes[class].required \cup Classes[class].optional

\* A body is validated, and the path and the header supply the id and the key
\* that the class declares, and the user whose orders are listed.
Supplied(route) ==
    /\ "body" \in route.takes => route.class \in DOMAIN Classes
    /\ route.class \in DOMAIN Classes =>
          /\ "id" \in Declared(route.class) => "id" \in Range(route.template)
          /\ "idempotencyKey" \in Declared(route.class) => "key" \in route.takes
    /\ route.pattern = "orders.user.list" => "userId" \in Range(route.template)

\* A template is a list; its second segment is a word.
Worded(route) == /\ Len(route.template) \in Nat \ {0, 1}
                 /\ DOMAIN route.template = 1..Len(route.template)
                 /\ route.template[2] \notin Params

\* The classes of the routes, and those that declare an id or a key.
LEMMA ClassTable ==
    /\ DOMAIN Classes = {"CreateBookRequest", "UpdateBookRequest", "GetBookRequest",
                         "GetUserRequest", "SignupUserRequest", "CreateOrderRequest",
                         "GetOrderRequest", "ListUserOrdersRequest"}
    /\ \A class \in DOMAIN Classes :
          /\ "id" \in Declared(class) =>
                class \in {"UpdateBookRequest", "GetBookRequest", "GetUserRequest",
                           "GetOrderRequest"}
          /\ "idempotencyKey" \in Declared(class) => class = "CreateOrderRequest"
BY DEF Classes, Class, Declared, BookFields

\* There are nine routes.
LEMMA RegistryDomain == DOMAIN Registry = 1..9
BY DEF Registry

\* Every route has a handler.
LEMMA HandlersOK == \A i \in 1..9 : HasHandler(Registry[i])
<1>1. HasHandler(Registry[1])
  BY DEF HasHandler, Registry, Route, Handlers, Handler
<1>2. HasHandler(Registry[2])
  BY DEF HasHandler, Registry, Route, Handlers, Handler
<1>3. HasHandler(Registry[3])
  BY DEF HasHandler, Registry, Route, Handlers, Handler
<1>4. HasHandler(Registry[4])
  BY DEF HasHandler, Registry, Route, Handlers, Handler
<1>5. HasHandler(Registry[5])
  BY DEF HasHandler, Registry, Route, Handlers, Handler
<1>6. HasHandler(Registry[6])
  BY DEF HasHandler, Registry, Route, Handlers, Handler
<1>7. HasHandler(Registry[7])
  BY DEF HasHandler, Registry, Route, Handlers, Handler
<1>8. HasHandler(Registry[8])
  BY DEF HasHandler, Registry, Route, Handlers, Handler
<1>9. HasHandler(Registry[9])
  BY DEF HasHandler, Registry, Route, Handlers, Handler
<1> QED
  BY <1>1, <1>2, <1>3, <1>4, <1>5, <1>6, <1>7, <1>8, <1>9

\* No route leaves an id, a key or a user to the body.
LEMMA SuppliedOK == \A i \in 1..9 : Supplied(Registry[i])
<1>1. Supplied(Registry[1])
  BY ClassTable DEF Supplied, Registry, Route, Range
<1>2. Supplied(Registry[2])
  BY ClassTable DEF Supplied, Registry, Route, Range
<1>3. Supplied(Registry[3])
  BY ClassTable DEF Supplied, Registry, Route, Range
<1>4. Supplied(Registry[4])
  BY ClassTable DEF Supplied, Registry, Route, Range
<1>5. Supplied(Registry[5])
  BY ClassTable DEF Supplied, Registry, Route, Range
<1>6. Supplied(Registry[6])
  BY ClassTable DEF Supplied, Registry, Route, Range
<1>7. Supplied(Registry[7])
  BY ClassTable DEF Supplied, Registry, Route, Range
<1>8. Supplied(Registry[8])
  BY ClassTable DEF Supplied, Registry, Route, Range
<1>9. Supplied(Registry[9])
  BY ClassTable DEF Supplied, Registry, Route, Range
<1> QED
  BY <1>1, <1>2, <1>3, <1>4, <1>5, <1>6, <1>7, <1>8, <1>9

\* Every template names its second segment.
LEMMA WordedOK == \A i \in 1..9 : Worded(Registry[i])
<1>1. Worded(Registry[1])
  <2>1. Registry[1].template = <<"api", "books", "catalog">>
    BY DEF Registry, Route
  <2> QED
    BY <2>1 DEF Worded, Params
<1>2. Worded(Registry[2])
  BY DEF Worded, Registry, Route, Params
<1>3. Worded(Registry[3])
  BY DEF Worded, Registry, Route, Params
<1>4. Worded(Registry[4])
  BY DEF Worded, Registry, Route, Params
<1>5. Worded(Registry[5])
  BY DEF Worded, Registry, Route, Params
<1>6. Worded(Registry[6])
  BY DEF Worded, Registry, Route, Params
<1>7. Worded(Registry[7])
  BY DEF Worded, Registry, Route, Params
<1>8. Worded(Registry[8])
  BY DEF Worded, Registry, Route, Params
<1>9. Worded(Registry[9])
  BY DEF Worded, Registry, Route, Params
<1> QED
  BY <1>1, <1>2, <1>3, <1>4, <1>5, <1>6, <1>7, <1>8, <1>9

\* What tells routes apart: the method, the length and the second segment.
Shape(route) == <<route.method, Len(route.template), route.template[2]>>

\* Only the catalog and a book have the same shape.
LEMMA ShapesDiffer ==
    \A i, j \in 1..9 : Shape(Registry[i]) = Shape(Registry[j]) /\ j < i => i = 2 /\ j = 1
<1>1. Shape(Registry[1]) = <<"GET", 3, "books">>
  BY DEF Shape, Registry, Route
<1>2. Shape(Registry[2]) = <<"GET", 3, "books">>
  BY DEF Shape, Registry, Route
<1>3. Shape(Registry[3]) = <<"POST", 2, "books">>
  BY DEF Shape, Registry, Route
<1>4. Shape(Registry[4]) = <<"PUT", 3, "books">>
  BY DEF Shape, Registry, Route
<1>5. Shape(Registry[5]) = <<"DELETE", 3, "books">>
  BY DEF Shape, Registry, Route
<1>6. Shape(Registry[6]) = <<"POST", 3, "users">>
  BY DEF Shape, Registry, Route
<1>7. Shape(Registry[7]) = <<"POST", 2, "orders">>
  BY DEF Shape, Registry, Route
<1>8. Shape(Registry[8]) = <<"GET", 3, "orders">>
  BY DEF Shape, Registry, Route
<1>9. Shape(Registry[9]) = <<"GET", 4, "orders">>
  BY DEF Shape, Registry, Route
<1> QED
  BY <1>1, <1>2, <1>3, <1>4, <1>5, <1>6, <1>7, <1>8, <1>9

-----------------------------------------------------------------------------
(* The way of a request.                                                   *)

\* Of some of the routes, Min is the first.
LEMMA MinIsFirst ==
    ASSUME NEW S \in SUBSET (1..9), S # {}
    PROVE  Min(S) \in S /\ \A i \in S : Min(S) <= i
<1>1. S \in SUBSET Nat /\ IsFiniteSet(S)
  <2>1. 1 \in Int /\ 9 \in Int /\ S \in SUBSET Nat
    OBVIOUS
  <2>2. IsFiniteSet(1..9)
    BY <2>1, FS_Interval
  <2>3. IsFiniteSet(S)
    BY <2>2, FS_Subset
  <2> QED
    BY <2>1, <2>3
<1> DEFINE D == DOMAIN Sorted(S)
           first == Sorted(S)[1]
<1>2. /\ Cardinality(S) \in Nat /\ D = 1..Cardinality(S)
      /\ \A i \in D : Sorted(S)[i] \in S
      /\ \A i, j \in D : i < j => Sorted(S)[i] < Sorted(S)[j]
      /\ \A s \in S : \E i \in D : Sorted(S)[i] = s
  BY <1>1, SortedIs
<1>3. 1 \in D
  <2>1. PICK i : i \in D
    BY <1>2
  <2> HIDE DEF D
  <2> QED
    BY <1>2, <2>1
<1>4. ASSUME NEW s \in S PROVE first <= s
  <2>1. PICK i \in D : Sorted(S)[i] = s
    BY <1>2
  <2>2. CASE i = 1
    BY <2>1, <2>2
  <2>3. CASE i # 1
    <3>1. i \in Int /\ 1 < i
      <4> HIDE DEF D
      <4> QED
        BY <1>2, <2>3
    <3>2. first < s
      BY <1>2, <1>3, <2>1, <3>1
    <3>3. first \in S
      BY <1>2, <1>3
    <3> HIDE DEF first
    <3> QED
      BY <3>2, <3>3
  <2> QED
    BY <2>2, <2>3
<1>5. first \in S
  BY <1>2, <1>3
<1> HIDE DEF first
<1> QED
  BY <1>4, <1>5 DEF Min

\* The route that a request is resolved to matches, and is the first that does.
LEMMA ResolvesToMatch ==
    ASSUME NEW r, Matching(r) # {}
    PROVE  \E m \in 1..9 : /\ Resolve(r) = Registry[m]
                           /\ m \in Matching(r)
                           /\ \A i \in Matching(r) : m <= i
<1>1. Matching(r) \in SUBSET (1..9)
  BY RegistryDomain DEF Matching
<1> QED
  BY <1>1, MinIsFirst DEF Resolve

\* What is left of a path when empty segments are dropped is a list of segments
\* of the path.
LEMMA SegmentsAre ==
    ASSUME NEW r \in Requests
    PROVE  /\ ToSegments(r.path) \in Seq(STRING)
           /\ \A i \in DOMAIN ToSegments(r.path) : ToSegments(r.path)[i] \in Range(r.path)
<1> DEFINE path == r.path
           full == {i \in DOMAIN path : path[i] # ""}
<1>1. path \in Seq(STRING) /\ Len(path) \in Nat /\ DOMAIN path = 1..Len(path)
  BY RoutesAssumption DEF IsRequest
<1>2. full \in SUBSET Nat /\ IsFiniteSet(full)
  <2>1. 1 \in Int /\ Len(path) \in Int
    BY <1>1
  <2>2. IsFiniteSet(1..Len(path))
    BY <2>1, FS_Interval
  <2>3. full \in SUBSET (1..Len(path))
    BY <1>1
  <2>4. IsFiniteSet(full)
    BY <2>2, <2>3, FS_Subset
  <2> HIDE DEF full
  <2> QED
    BY <1>1, <2>3, <2>4
<1> HIDE DEF path
<1>3. /\ Cardinality(full) \in Nat
      /\ DOMAIN Sorted(full) = 1..Cardinality(full)
      /\ \A i \in DOMAIN Sorted(full) : Sorted(full)[i] \in full
  BY <1>2, SortedIs
<1>4. ToSegments(path) = [i \in 1..Cardinality(full) |-> path[Sorted(full)[i]]]
  BY <1>3 DEF ToSegments
<1>5. \A i \in 1..Cardinality(full) :
          path[Sorted(full)[i]] \in STRING /\ path[Sorted(full)[i]] \in Range(path)
  <2>1. \A k \in DOMAIN path : path[k] \in STRING
    BY <1>1
  <2>2. \A k \in DOMAIN path : path[k] \in Range(path)
    BY DEF Range
  <2>3. \A k \in full : k \in DOMAIN path
    OBVIOUS
  <2> HIDE DEF full
  <2> QED
    BY <1>3, <2>1, <2>2, <2>3
<1> HIDE DEF full
<1> QED
  BY <1>3, <1>4, <1>5 DEF path

\* The parameters are the names in the template, and segments of the path.
LEMMA ParamsAre ==
    ASSUME NEW r \in Requests, NEW m \in Matching(r)
    PROVE  LET params == ParamsOf(Registry[m].template, ToSegments(r.path))
           IN  /\ DOMAIN params = Params \cap Range(Registry[m].template)
               /\ \A p \in DOMAIN params : params[p] \in Range(r.path)
<1> DEFINE template == Registry[m].template
           segments == ToSegments(r.path)
           params == ParamsOf(template, segments)
<1>1. m \in 1..9
  BY RegistryDomain DEF Matching
<1>2. Len(template) = Len(segments) /\ DOMAIN template = 1..Len(template)
  BY <1>1, WordedOK DEF Matching, Matches, Worded
<1>3. /\ segments \in Seq(STRING)
      /\ \A i \in DOMAIN segments : segments[i] \in Range(r.path)
  BY SegmentsAre
<1> HIDE DEF template, segments
<1>4. DOMAIN params = Params \cap Range(template)
  BY DEF ParamsOf
<1>5. ASSUME NEW p \in DOMAIN params PROVE params[p] \in Range(r.path)
  <2> DEFINE i == CHOOSE i \in DOMAIN template : template[i] = p
  <2>1. i \in DOMAIN template
    BY <1>4 DEF Range
  <2>2. params[p] = segments[i]
    BY <1>4 DEF ParamsOf
  <2> HIDE DEF i
  <2>3. i \in DOMAIN segments
    BY <1>2, <1>3, <2>1
  <2> QED
    BY <1>3, <2>2, <2>3
<1> QED
  BY <1>4, <1>5 DEF template, segments

-----------------------------------------------------------------------------
(* The invariant.                                                          *)

\* The message is the payload of the request, for its route, which the
\* validation of the Gateway has accepted.
Forwarded ==
    \E m \in 1..9 :
        /\ Resolve(request) = Registry[m]
        /\ m \in Matching(request)
        /\ Valid(Registry[m].class, message.payload)
        /\ message = [ client |-> Registry[m].client, pattern |-> Registry[m].pattern,
                       payload |-> Payload(request, Registry[m]) ]

RInv ==
    /\ request \in Requests
    /\ stage \in {"received", "tagged", "not_found", "invalid", "sent", "handled"}
    /\ stage # "received" => header \in Fresh
    /\ stage = "invalid" => Matching(request) # {}
    /\ IF stage \in {"sent", "handled"} THEN Forwarded ELSE message = NoMessage

\* A message that the Gateway sends has a handler that accepts it.
LEMMA ForwardedIsTaken == ASSUME Forwarded PROVE Taken
<1>1. PICK m \in 1..9 :
          /\ Valid(Registry[m].class, message.payload)
          /\ message = [ client |-> Registry[m].client, pattern |-> Registry[m].pattern,
                         payload |-> Payload(request, Registry[m]) ]
  BY DEF Forwarded
<1>2. HasHandler(Registry[m])
  BY HandlersOK
<1>3. message.client = Registry[m].client /\ message.pattern = Registry[m].pattern
  BY <1>1
<1> QED
  BY <1>1, <1>2, <1>3 DEF HasHandler, Taken

\* What is forwarded depends on the request, the header and the message only.
LEMMA ForwardedStays ==
    ASSUME Forwarded, UNCHANGED <<request, header, message>> PROVE Forwarded'
BY DEF Forwarded, Payload

\* Every step of a request's way keeps the invariant.
LEMMA RInvStep == ASSUME RInv, [Next]_vars PROVE RInv'
<1>1. CASE Tag
  BY <1>1 DEF RInv, Tag
<1>2. CASE NotFound
  BY <1>2 DEF RInv, NotFound
<1>3. CASE Invalid
  BY <1>3 DEF RInv, Invalid
<1>4. CASE Send
  <2>1. PICK m \in 1..9 : Resolve(request) = Registry[m] /\ m \in Matching(request)
    BY <1>4, ResolvesToMatch DEF Send
  <2>2. /\ Valid(Registry[m].class, Payload(request, Registry[m]))
        /\ message' = [ client |-> Registry[m].client, pattern |-> Registry[m].pattern,
                        payload |-> Payload(request, Registry[m]) ]
        /\ stage' = "sent" /\ stage = "tagged"
        /\ UNCHANGED <<request, header>>
    BY <1>4, <2>1 DEF Send
  <2>3. message'.payload = Payload(request, Registry[m])
    BY <2>2
  <2>4. Payload(request, Registry[m])' = Payload(request, Registry[m])
    BY <2>2 DEF Payload
  <2>5. Forwarded'
    BY <2>1, <2>2, <2>3, <2>4 DEF Forwarded
  <2> QED
    BY <2>2, <2>5 DEF RInv
<1>5. CASE Arrive
  <2>1. Forwarded /\ stage' = "handled" /\ UNCHANGED <<request, header, message>>
    BY <1>5, ForwardedIsTaken DEF RInv, Arrive
  <2>2. Forwarded'
    BY <2>1, ForwardedStays
  <2> QED
    BY <1>5, <2>1, <2>2 DEF RInv, Arrive
<1>6. CASE UNCHANGED vars
  <2>1. Forwarded => Forwarded'
    BY <1>6, ForwardedStays DEF vars
  <2> QED
    BY <1>6, <2>1 DEF RInv, vars
<1> QED
  BY <1>1, <1>2, <1>3, <1>4, <1>5, <1>6 DEF Next

\* A request starts without a message.
LEMMA InitRInv == Init => RInv
BY DEF Init, RInv

\* The invariant holds in every state of every request's way.
THEOREM RoutesInvariance == Spec => []RInv
<1> QED
  BY InitRInv, RInvStep, PTL DEF Spec

-----------------------------------------------------------------------------
(* The properties.                                                         *)

\* The services take every message that the Gateway lets through, whatever the
\* clients ask for.
THEOREM GatewayAgreesWithServices == Spec => []ServicesAgree
<1>1. RInv => ServicesAgree
  BY DEF RInv, ServicesAgree
<1> QED
  BY <1>1, RoutesInvariance, PTL

\* Every message carries the UUID that the Gateway made for its request.
THEOREM TracesByOneId == Spec => []TracedByOneId
<1>1. RInv => TracedByOneId
  <2> SUFFICES ASSUME RInv, message # NoMessage
               PROVE  message.payload.correlationId = header /\ header \in Fresh
    BY DEF TracedByOneId
  <2>1. Forwarded /\ header \in Fresh
    BY DEF RInv
  <2>2. PICK m \in 1..9 : message.payload = Payload(request, Registry[m])
    BY <2>1 DEF Forwarded
  <2>3. Payload(request, Registry[m]).correlationId = header
    BY DEF Payload, Spread
  <2> QED
    BY <2>1, <2>2, <2>3
<1> QED
  BY <1>1, RoutesInvariance, PTL

\* The segments that a template names.
Named(i) == {k \in DOMAIN Registry[i].template : Registry[i].template[k] \notin Params}

\* Of two routes that match one request, the earlier one names whatever the
\* later one names.
LEMMA EarlierNamesMore ==
    ASSUME NEW r, NEW i \in Matching(r), NEW j \in Matching(r), j <= i
    PROVE  Named(i) \subseteq Named(j)
<1>1. i \in 1..9 /\ j \in 1..9
  BY RegistryDomain DEF Matching
<1>2. CASE j = i
  BY <1>2
<1>3. CASE j # i
  <2> DEFINE segments == ToSegments(r.path)
  <2>1. ASSUME NEW m \in Matching(r)
        PROVE  Shape(Registry[m]) = <<r.method, Len(segments), segments[2]>>
    <3>1. m \in 1..9 /\ Registry[m].method = r.method /\ Matches(Registry[m].template, segments)
      BY RegistryDomain DEF Matching
    <3>2. 2 \in DOMAIN Registry[m].template /\ Registry[m].template[2] \notin Params
      <4> DEFINE template == Registry[m].template
      <4>1. /\ Len(template) \in Nat \ {0, 1} /\ DOMAIN template = 1..Len(template)
            /\ template[2] \notin Params
        BY <3>1, WordedOK DEF Worded
      <4> HIDE DEF template
      <4>2. 2 \in DOMAIN template /\ template[2] \notin Params
        BY <4>1
      <4> QED
        BY <4>2 DEF template
    <3> HIDE DEF segments
    <3> QED
      BY <3>1, <3>2 DEF Shape, Matches
  <2>2. Shape(Registry[i]) = Shape(Registry[j])
    BY <2>1
  <2>3. j < i
    BY <1>1, <1>3
  <2>4. i = 2 /\ j = 1
    BY <1>1, <2>2, <2>3, ShapesDiffer
  <2>5. Registry[1].template = <<"api", "books", "catalog">>
        /\ Registry[2].template = <<"api", "books", "id">>
    BY DEF Registry, Route
  <2>6. Named(2) = {1, 2} /\ Named(1) = {1, 2, 3}
    BY <2>5 DEF Named, Params
  <2> QED
    BY <2>4, <2>6
<1> QED
  BY <1>2, <1>3

\* No route stands in the way of another one that fits a request better, for
\* any path that a client can write.
THEOREM HidesNoRoute == Spec => []NoRouteHidden
<1>1. RInv => NoRouteHidden
  <2> SUFFICES ASSUME RInv, stage \in {"invalid", "sent"},
                      NEW i \in Matching(request), NEW j \in Matching(request),
                      Resolve(request) = Registry[j]
               PROVE  Named(i) \subseteq Named(j)
    BY DEF NoRouteHidden, Named
  <2>1. PICK m \in 1..9 : /\ Resolve(request) = Registry[m]
                          /\ m \in Matching(request)
                          /\ \A k \in Matching(request) : m <= k
    BY ResolvesToMatch
  <2>2. Named(i) \subseteq Named(m)
    BY <2>1, EarlierNamesMore
  <2>3. Named(m) = Named(j)
    BY <2>1 DEF Named
  <2> QED
    BY <2>2, <2>3
<1> QED
  BY <1>1, RoutesInvariance, PTL

\* Every id, key and listed user comes from the path and the headers, for
\* every body.
THEOREM PathAndHeaderCount == Spec => []PathAndHeaderRule
<1>1. RInv => PathAndHeaderRule
  <2> SUFFICES ASSUME RInv, NEW f \in DOMAIN message.payload
               PROVE  /\ f = "id" => message.payload[f] \in Range(request.path)
                      /\ f = "idempotencyKey" => message.payload[f] = request.key
                      /\ message.pattern = "orders.user.list" /\ f = "userId" =>
                            message.payload[f] \in Range(request.path)
    BY DEF PathAndHeaderRule
  <2>1. Forwarded
    <3>1. DOMAIN NoMessage.payload = {}
      BY DEF NoMessage
    <3>2. message # NoMessage
      BY <3>1
    <3> QED
      BY <3>2 DEF RInv
  <2>2. PICK m \in 1..9 :
            /\ m \in Matching(request)
            /\ Valid(Registry[m].class, message.payload)
            /\ message.payload = Payload(request, Registry[m])
            /\ message.pattern = Registry[m].pattern
    BY <2>1 DEF Forwarded
  <2> DEFINE route == Registry[m]
             params == ParamsOf(route.template, ToSegments(request.path))
             body == BodyOf(request, route)
             key == KeyOf(request, route)
             payload == message.payload
  <2>3. /\ DOMAIN params = Params \cap Range(route.template)
        /\ \A p \in DOMAIN params : params[p] \in Range(request.path)
    BY <2>2, ParamsAre DEF RInv
  <2>4. Supplied(route)
    BY SuppliedOK
  <2>5. /\ DOMAIN key = IF "key" \in route.takes THEN {"idempotencyKey"} ELSE {}
        /\ "key" \in route.takes => key["idempotencyKey"] = request.key
    BY DEF KeyOf
  <2>6. DOMAIN body # {} => "body" \in route.takes
    BY DEF BodyOf
  <2> HIDE DEF params, body, key
  <2>7. /\ DOMAIN payload = {"correlationId"} \cup DOMAIN params \cup DOMAIN key \cup DOMAIN body
        /\ f # "correlationId" =>
              /\ f \in DOMAIN params => payload[f] = params[f]
              /\ f \notin DOMAIN params /\ f \in DOMAIN key => payload[f] = key[f]
    BY <2>2 DEF Payload, Spread, params, body, key
  <2>8. ASSUME f # "correlationId", f \notin DOMAIN params, f \notin DOMAIN key
        PROVE  route.class \in DOMAIN Classes /\ f \in Declared(route.class)
    <3>1. f \in DOMAIN body /\ route.class \in DOMAIN Classes
      BY <2>4, <2>6, <2>7, <2>8 DEF Supplied
    <3> QED
      BY <2>2, <2>8, <3>1 DEF Valid, Declared
  <2>9. f = "id" => payload[f] \in Range(request.path)
    <3> SUFFICES ASSUME f = "id" PROVE payload[f] \in Range(request.path)
      OBVIOUS
    <3>1. f \in DOMAIN params
      BY <2>3, <2>4, <2>5, <2>8 DEF Supplied, Params
    <3> QED
      BY <2>3, <2>7, <3>1
  <2>10. f = "idempotencyKey" => payload[f] = request.key
    <3> SUFFICES ASSUME f = "idempotencyKey" PROVE payload[f] = request.key
      OBVIOUS
    <3>1. f \notin DOMAIN params
      BY <2>3 DEF Params
    <3>2. f \in DOMAIN key
      BY <2>4, <2>5, <2>8, <3>1 DEF Supplied
    <3> QED
      BY <2>5, <2>7, <3>1, <3>2
  <2>11. route.pattern = "orders.user.list" /\ f = "userId" => payload[f] \in Range(request.path)
    <3> SUFFICES ASSUME route.pattern = "orders.user.list", f = "userId"
                 PROVE  payload[f] \in Range(request.path)
      OBVIOUS
    <3>1. f \in DOMAIN params
      BY <2>3, <2>4 DEF Supplied, Params
    <3> QED
      BY <2>3, <2>7, <3>1
  <2> QED
    BY <2>2, <2>9, <2>10, <2>11
<1> QED
  BY <1>1, RoutesInvariance, PTL
=============================================================================
