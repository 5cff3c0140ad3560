------------------------------- MODULE MCUsers -------------------------------
(***************************************************************************)
(* A small instance of Users for TLC.                                      *)
(***************************************************************************)
EXTENDS Users, TLC

CONSTANTS c1, c2, c3, ann, bea, Ann

\* The email of ann is also written Ann.
Normal == ann :> ann @@ bea :> bea @@ Ann :> ann

\* Signups with three spellings of two emails, and a lookup of each id.
Asked ==
    [kind : {"signup"}, email : Spelling] \cup [kind : {"get"}, id : {c1, c2}]
=============================================================================
