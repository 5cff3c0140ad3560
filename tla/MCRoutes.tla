------------------------------- MODULE MCRoutes -------------------------------
(***************************************************************************)
(* A small instance of Routes for TLC.                                     *)
(***************************************************************************)
EXTENDS Routes, TLC

\* What may stand between slashes; "u1" is a UUID that clients know, "x" is
\* nothing that any template names.
Words == {"", "books", "catalog", "orders", "user", "users", "signup", "u1", "x"}

Paths == {<<"api">> \o rest : rest \in UNION {[1..n -> Words] : n \in 1..3}}

Full(fields) == [f \in fields |-> Good]
With(f, value) == [g \in {f} |-> value]

Order == With("userId", "u1") @@ With("items", Good)
Person == Full({"firstName", "lastName", "email", "password"})

\* No JSON object, what each route takes, and what no route does.
Bodies ==
    { <<>>, Full(BookFields), With("price", Bad) @@ Full(BookFields),
      With("id", "u2") @@ Full(BookFields), With("title", Good),
      With("title", Good) @@ With("id", "u2"),
      With("correlationId", "u2") @@ With("title", Good),
      Order, With("idempotencyKey", "u2") @@ Order, With("items", Bad) @@ Order,
      Person, With("correlationId", "u2") @@ Person, With("role", Good) @@ Person }

Asked ==
    [ method : {"GET", "POST", "PUT", "DELETE", "PATCH"}, path : Paths, body : {<<>>},
      key : {Missing}, correlation : {Missing} ]
    \cup
    [ method : {"POST", "PUT"},
      path : {p \in Paths : Len(p) < 4}, body : Bodies,
      key : {Missing, "u1", Bad}, correlation : {Missing, "u2", Bad} ]
=============================================================================
