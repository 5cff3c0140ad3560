------------------------------ MODULE Accounts ------------------------------
(***************************************************************************)
(* What the bookstore promises of its user accounts: they are opened one   *)
(* at a time, each with an id and an email of its own, and are never       *)
(* changed or closed.  What clients have been told is part of it: of each  *)
(* signup at most that its account was opened, or that its email is taken, *)
(* and only once it is so.                                                 *)
(*                                                                         *)
(* This is the abstract specification that Users implements.               *)
(***************************************************************************)

VARIABLES users,  \* the accounts
          shown,  \* the accounts that signups and lookups have returned
          taken   \* the emails that signups were told are taken

accounts == <<users, shown, taken>>

Init == users = {} /\ shown = {} /\ taken = {}

\* An account is opened, and perhaps returned to who opened it.
Open(u) ==
    /\ \A other \in users : other.id # u.id /\ other.email # u.email
    /\ users' = users \cup {u}
    /\ shown' \in {shown, shown \cup {u}}
    /\ UNCHANGED taken

\* An account is returned to somebody.
Show(u) ==
    /\ u \in users
    /\ shown' = shown \cup {u}
    /\ UNCHANGED <<users, taken>>

\* A signup is told that its email is taken.
Deny(email) ==
    /\ \E u \in users : u.email = email
    /\ taken' = taken \cup {email}
    /\ UNCHANGED <<users, shown>>

Next ==
    \/ \E u \in users' \ users : Open(u)
    \/ \E u \in users : Show(u) \/ Deny(u.email)

Spec == Init /\ [][Next]_accounts
=============================================================================
