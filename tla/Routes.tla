-------------------------------- MODULE Routes --------------------------------
(***************************************************************************)
(* The way of one HTTP request through the API Gateway to the handler of a *)
(* service: CorrelationIdMiddleware, the route registry, the payload and   *)
(* the two validations, the Gateway's and the service's own.               *)
(*                                                                         *)
(* A path is the sequence of what stands between its slashes.  A body is a *)
(* function from the fields of a JSON object to values; of a value only    *)
(* counts whether it is a UUID, which one, and whether it is well-formed.  *)
(***************************************************************************)
EXTENDS FiniteSetsExt, Sequences, Sorting

CONSTANTS Uuid,       \* the UUIDs that clients know
          Fresh,      \* the UUIDs that randomUUID may return
          Good, Bad,  \* a scalar that meets the rules of its field; one that does not
          Missing,    \* a header that is not sent
          Requests    \* HTTP requests

IsRequest(r) ==
    /\ r.path \in Seq(STRING) /\ Len(r.path) > 1 /\ r.path[1] = "api"
    /\ \A f \in DOMAIN r.body : r.body[f] \in Uuid \cup {Good, Bad}
    /\ r.key \in Uuid \cup {Bad, Missing}
    /\ r.correlation \in Uuid \cup {Bad, Missing}

ASSUME RoutesAssumption ==
    /\ Uuid \cap Fresh = {}
    /\ {Good, Bad, Missing} \cap (Uuid \cup Fresh) = {}
    /\ Good # Bad /\ Good # Missing /\ Bad # Missing
    /\ \A r \in Requests : IsRequest(r)

VARIABLES
    request,  \* the HTTP request
    stage,    \* where it is
    header,   \* X-Correlation-Id: what dispatch reads and the client is sent
    message   \* the TCP message that was made of it

vars == <<request, stage, header, message>>

-----------------------------------------------------------------------------
(* Requests of the services: what their classes declare.                   *)

Class(required, optional) == [required |-> required, optional |-> optional]

BookFields == {"title", "author", "isbn", "price", "availableQuantity"}

\* The request classes; a request without a class is not validated.
Classes ==
    [ CreateBookRequest     |-> Class(BookFields, {"description"}),
      UpdateBookRequest     |-> Class({"id"}, BookFields \cup {"description"}),
      GetBookRequest        |-> Class({"id"}, {}),
      GetUserRequest        |-> Class({"id"}, {}),
      SignupUserRequest     |-> Class({"firstName", "lastName", "email", "password"}, {}),
      CreateOrderRequest    |-> Class({"idempotencyKey", "userId", "items"}, {}),
      GetOrderRequest       |-> Class({"id"}, {}),
      ListUserOrdersRequest |-> Class({"userId"}, {}) ]

\* The fields that carry @IsUUID.
UuidFields == {"id", "userId", "idempotencyKey", "correlationId"}

\* What validators let through: of a class everything that is declared, and
\* nothing else (whitelist, forbidNonWhitelisted), and every value well-formed.
Valid(class, payload) ==
    class \in DOMAIN Classes =>
       LET C == Classes[class]
           Needed == C.required \cup {"correlationId"}
       IN  /\ Needed \subseteq DOMAIN payload
           /\ DOMAIN payload \subseteq Needed \cup C.optional
           /\ \A f \in DOMAIN payload :
                 IF f \in UuidFields THEN payload[f] \in Uuid \cup Fresh
                 ELSE payload[f] \notin {Bad, Missing}

\* The handlers: the service that has each @MessagePattern, and its @Payload.
Handler(pattern, service, class) ==
    [pattern |-> pattern, service |-> service, class |-> class]

Handlers ==
    { Handler("books.catalog.get",     "BOOKS_SERVICE",  ""),
      Handler("books.book.get",        "BOOKS_SERVICE",  "GetBookRequest"),
      Handler("books.book.create",     "BOOKS_SERVICE",  "CreateBookRequest"),
      Handler("books.book.update",     "BOOKS_SERVICE",  "UpdateBookRequest"),
      Handler("books.book.deactivate", "BOOKS_SERVICE",  "GetBookRequest"),
      Handler("users.account.signup",  "USERS_SERVICE",  "SignupUserRequest"),
      Handler("users.account.get",     "USERS_SERVICE",  "GetUserRequest"),
      Handler("orders.order.create",   "ORDERS_SERVICE", "CreateOrderRequest"),
      Handler("orders.order.get",      "ORDERS_SERVICE", "GetOrderRequest"),
      Handler("orders.user.list",      "ORDERS_SERVICE", "ListUserOrdersRequest") }

-----------------------------------------------------------------------------
(* The registry.                                                           *)

\* Segments of a template that are the name of a parameter (":id", ":userId").
Params == {"id", "userId"}

\* Where a route takes its payload from, beside the parameters of its path.
Route(method, template, client, pattern, class, takes) ==
    [ method |-> method, template |-> template, client |-> client,
      pattern |-> pattern, class |-> class, takes |-> takes ]

\* Mutant of Registry: a book's route comes before the catalog's, and books
\* are created without validation.
CarelessRegistry ==
    << Route("GET", <<"api", "books", "id">>, "BOOKS_SERVICE",
             "books.book.get", "GetBookRequest", {}),
       Route("GET", <<"api", "books", "catalog">>, "BOOKS_SERVICE",
             "books.catalog.get", "", {}),
       Route("POST", <<"api", "books">>, "BOOKS_SERVICE",
             "books.book.create", "", {"body"}) >>

Registry ==
    << Route("GET", <<"api", "books", "catalog">>, "BOOKS_SERVICE",
             "books.catalog.get", "", {}),
       Route("GET", <<"api", "books", "id">>, "BOOKS_SERVICE",
             "books.book.get", "GetBookRequest", {}),
       Route("POST", <<"api", "books">>, "BOOKS_SERVICE",
             "books.book.create", "CreateBookRequest", {"body"}),
       Route("PUT", <<"api", "books", "id">>, "BOOKS_SERVICE",
             "books.book.update", "UpdateBookRequest", {"body"}),
       Route("DELETE", <<"api", "books", "id">>, "BOOKS_SERVICE",
             "books.book.deactivate", "GetBookRequest", {}),
       Route("POST", <<"api", "users", "signup">>, "USERS_SERVICE",
             "users.account.signup", "SignupUserRequest", {"body"}),
       Route("POST", <<"api", "orders">>, "ORDERS_SERVICE",
             "orders.order.create", "CreateOrderRequest", {"body", "key"}),
       Route("GET", <<"api", "orders", "id">>, "ORDERS_SERVICE",
             "orders.order.get", "GetOrderRequest", {}),
       Route("GET", <<"api", "orders", "user", "userId">>, "ORDERS_SERVICE",
             "orders.user.list", "ListUserOrdersRequest", {}) >>

\* toSegments: filter(Boolean) drops what is empty.
ToSegments(path) ==
    LET kept == Sorted({i \in DOMAIN path : path[i] # ""})
    IN  [i \in DOMAIN kept |-> path[kept[i]]]

\* matchPath: every segment is that of the template, or a parameter of it.
Matches(template, segments) ==
    /\ Len(template) = Len(segments)
    /\ \A i \in DOMAIN template : template[i] \in Params \cup {segments[i]}

ParamsOf(template, segments) ==
    LET At(p) == CHOOSE i \in DOMAIN template : template[i] = p
    IN  [p \in Params \cap Range(template) |-> segments[At(p)]]

\* The routes that match, of which resolve takes the first.
Matching(r) ==
    {i \in DOMAIN Registry : /\ Registry[i].method = r.method
                             /\ Matches(Registry[i].template, ToSegments(r.path))}

Resolve(r) == Registry[Min(Matching(r))]

\* { ...under, ...over }: where both have a field, the later one counts.
Spread(under, over) ==
    [f \in DOMAIN under \cup DOMAIN over |->
        IF f \in DOMAIN over THEN over[f] ELSE under[f]]

\* What a route takes from the body and from the headers.
BodyOf(r, route) == IF "body" \in route.takes THEN r.body ELSE <<>>
KeyOf(r, route) == IF "key" \in route.takes THEN [f \in {"idempotencyKey"} |-> r.key] ELSE <<>>

\* Mutant of Payload: the body is spread last.
BodyLast(r, route) ==
    Spread(Spread(Spread([f \in {"correlationId"} |-> header], KeyOf(r, route)),
                  ParamsOf(route.template, ToSegments(r.path))),
           BodyOf(r, route))

\* buildPayload, and the correlationId of dispatch.
Payload(r, route) ==
    Spread(Spread(Spread(BodyOf(r, route), KeyOf(r, route)),
                  ParamsOf(route.template, ToSegments(r.path))),
           [f \in {"correlationId"} |-> header])

-----------------------------------------------------------------------------
(* The request's way.                                                      *)

NoMessage == [client |-> "", pattern |-> "", payload |-> <<>>]

Init ==
    /\ request \in Requests
    /\ stage = "received"
    /\ header = request.correlation
    /\ message = NoMessage

\* Mutant of Tag: a correlation ID of the client's is kept.
TrustTheClient ==
    /\ stage = "received"
    /\ stage' = "tagged"
    /\ header' \in IF request.correlation \in Uuid THEN {request.correlation} ELSE Fresh
    /\ UNCHANGED <<request, message>>

\* CorrelationIdMiddleware: whatever the client sent is replaced.
Tag ==
    /\ stage = "received"
    /\ stage' = "tagged"
    /\ header' \in Fresh
    /\ UNCHANGED <<request, message>>

\* dispatch: no route, 404 GATEWAY_ROUTE_NOT_FOUND.
NotFound ==
    /\ stage = "tagged"
    /\ Matching(request) = {}
    /\ stage' = "not_found"
    /\ UNCHANGED <<request, header, message>>

\* dispatch: routeValidationPipe refuses the payload, 400.
Invalid ==
    /\ stage = "tagged"
    /\ Matching(request) # {}
    /\ LET route == Resolve(request)
       IN  ~Valid(route.class, Payload(request, route))
    /\ stage' = "invalid"
    /\ UNCHANGED <<request, header, message>>

\* dispatch: the message is sent to the client of the route.
Send ==
    /\ stage = "tagged"
    /\ Matching(request) # {}
    /\ LET route == Resolve(request)
       IN  /\ Valid(route.class, Payload(request, route))
           /\ message' = [ client |-> route.client, pattern |-> route.pattern,
                           payload |-> Payload(request, route) ]
    /\ stage' = "sent"
    /\ UNCHANGED <<request, header>>

\* The handler of the service that gets the message, after RpcValidationPipe.
Taken ==
    \E h \in Handlers :
        /\ h.pattern = message.pattern
        /\ h.service = message.client
        /\ Valid(h.class, message.payload)

\* The service handles the message, or answers VALIDATION_ERROR or that it has
\* no handler.
Arrive ==
    /\ stage = "sent"
    /\ stage' = IF Taken THEN "handled" ELSE "refused"
    /\ UNCHANGED <<request, header, message>>

Next == Tag \/ NotFound \/ Invalid \/ Send \/ Arrive

Spec == Init /\ [][Next]_vars

-----------------------------------------------------------------------------
(* Properties.                                                             *)

\* README: "Clients cannot choose arbitrary TCP message patterns".  What the
\* Gateway lets through the service takes: there is a handler of the
\* pattern in the service that the message is sent to, and its own validation
\* accepts the payload that the Gateway's accepted.
ServicesAgree == stage # "refused"

\* A request that matches several routes is resolved to the one that names
\* every segment that another one names: no route hides another, neither from
\* the service nor behind a 400.
NoRouteHidden ==
    LET Named(i) == {j \in DOMAIN Registry[i].template : Registry[i].template[j] \notin Params}
    IN  stage \in {"invalid", "sent"} =>
            \A i, j \in Matching(request) :
                Resolve(request) = Registry[j] => Named(i) \subseteq Named(j)

\* Whatever its body says, a request acts on the book, order or user of its
\* path, and with the key of its header.
PathAndHeaderRule ==
    \A f \in DOMAIN message.payload :
        /\ f = "id" => message.payload[f] \in Range(request.path)
        /\ f = "idempotencyKey" => message.payload[f] = request.key
        /\ message.pattern = "orders.user.list" /\ f = "userId" =>
              message.payload[f] \in Range(request.path)

\* One request is traced by one UUID that the Gateway made: the one its client
\* is sent is the one its handler gets, and no client chooses it.
TracedByOneId ==
    message # NoMessage =>
        message.payload.correlationId = header /\ header \in Fresh
=============================================================================
