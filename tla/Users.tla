-------------------------------- MODULE Users --------------------------------
(***************************************************************************)
(* UsersService: signup and getUser, run by any number of concurrent calls *)
(* (apps/users-service).                                                   *)
(*                                                                         *)
(* users is the set of committed rows.  signup looks its email up, hashes  *)
(* the password, and only then inserts: Repository.save runs the INSERT    *)
(* and the COMMIT of a transaction of its own, and what it has inserted    *)
(* and not committed is in pending[c].  The unique index UQ_users_email    *)
(* makes an INSERT wait for another one with its email that has not ended. *)
(***************************************************************************)

CONSTANTS Caller,    \* calls of the service, over the life of the system
          Spelling,  \* emails as clients write them
          Email,     \* trimmed emails in lower case
          Lower,     \* email.trim().toLowerCase()
          Tasks      \* what clients ask of the service

\* A task: sign up with an email, or get the account of an id.  The id of an
\* account is the call that opened it.
IsTask(t) ==
    \/ t.kind = "signup" /\ t.email \in Spelling
    \/ t.kind = "get" /\ t.id \in Caller

ASSUME UsersAssumption ==
    /\ Lower \in [Spelling -> Email]
    /\ \A t \in Tasks : IsTask(t)

VARIABLES
    users,    \* committed rows of users
    pending,  \* the rows a call has inserted and not committed
    task,     \* what each call was asked
    at,       \* where each call is
    answer    \* what each call answered

vars == <<users, pending, task, at, answer>>

Account(id, email) == [id |-> id, email |-> email]

Success(us)   == [code |-> "OK", users |-> us]
Failure(code) == [code |-> code, users |-> {}]
NoReply       == Failure("")

Places  == {"idle", "find", "hash", "insert", "commit", "done", "crashed"}
Waiting == {"find", "hash", "insert", "commit"}
Codes   == {"", "OK", "USER_NOT_FOUND", "DUPLICATE_USER_EMAIL", "INTERNAL_ERROR"}

Init ==
    /\ users = {}
    /\ pending = [c \in Caller |-> {}]
    /\ task \in [Caller -> Tasks]
    /\ at = [c \in Caller |-> "idle"]
    /\ answer = [c \in Caller |-> NoReply]

Goto(c, label) == at' = [at EXCEPT ![c] = label] /\ UNCHANGED answer

Finish(c, reply) ==
    /\ at' = [at EXCEPT ![c] = "done"]
    /\ answer' = [answer EXCEPT ![c] = reply]

\* The email that is looked up and inserted.
EmailOf(c) == Lower[task[c].email]

\* findByEmail, and what the unique index says.
Taken(c) == \E u \in users : u.email = EmailOf(c)

-----------------------------------------------------------------------------
(* getUser.                                                                *)

\* findById: one query, and the answer.
GetUser(c) ==
    /\ at[c] = "idle"
    /\ task[c].kind = "get"
    /\ LET Found == {u \in users : u.id = task[c].id}
       IN  Finish(c, IF Found = {} THEN Failure("USER_NOT_FOUND") ELSE Success(Found))
    /\ UNCHANGED <<users, pending, task>>

-----------------------------------------------------------------------------
(* signup.                                                                 *)

Receive(c) ==
    /\ at[c] = "idle"
    /\ task[c].kind = "signup"
    /\ Goto(c, "find")
    /\ UNCHANGED <<users, pending, task>>

\* The email is looked up before the password is hashed.
FindByEmail(c) ==
    /\ at[c] = "find"
    /\ IF Taken(c) THEN Finish(c, Failure("DUPLICATE_USER_EMAIL")) ELSE Goto(c, "hash")
    /\ UNCHANGED <<users, pending, task>>

\* passwordHasher.hash: rounds of bcrypt, while other calls run.
Hash(c) ==
    /\ at[c] = "hash"
    /\ Goto(c, "insert")
    /\ UNCHANGED <<users, pending, task>>

\* Mutant of EmailPending: the INSERT does not wait.
NobodyPending(c) == FALSE

\* Another call has inserted the email, and its transaction has not ended.
EmailPending(c) ==
    \E d \in Caller \ {c} : \E u \in pending[d] : u.email = EmailOf(c)

\* INSERT: the email is free.
Insert(c) ==
    /\ at[c] = "insert"
    /\ ~EmailPending(c)
    /\ ~Taken(c)
    /\ pending' = [pending EXCEPT ![c] = {Account(c, EmailOf(c))}]
    /\ Goto(c, "commit")
    /\ UNCHANGED <<users, task>>

\* Mutant of MeetDuplicate: a conflict is seen before the other one has ended.
MeetPending(c) ==
    /\ at[c] = "insert"
    /\ Taken(c) \/ EmailPending(c)
    /\ Finish(c, Failure("DUPLICATE_USER_EMAIL"))
    /\ UNCHANGED <<users, pending, task>>

\* INSERT: the unique index has the email (23505), which isUniqueViolation
\* turns into the answer of FindByEmail.
MeetDuplicate(c) ==
    /\ at[c] = "insert"
    /\ ~EmailPending(c)
    /\ Taken(c)
    /\ Finish(c, Failure("DUPLICATE_USER_EMAIL"))
    /\ UNCHANGED <<users, pending, task>>

\* Mutant of Commit: save is not awaited.
AnswerBeforeCommit(c) ==
    /\ at[c] = "commit"
    /\ Finish(c, Success(pending[c]))
    /\ UNCHANGED <<users, pending, task>>

\* COMMIT, and the answer of signup.
Commit(c) ==
    /\ at[c] = "commit"
    /\ users' = users \cup pending[c]
    /\ pending' = [pending EXCEPT ![c] = {}]
    /\ Finish(c, Success(pending[c]))
    /\ UNCHANGED task

-----------------------------------------------------------------------------
(* What may go wrong.                                                      *)

\* Mutant of Fail: the transaction is left open.
FailLeavingOpen(c) ==
    /\ at[c] \in Waiting
    /\ Finish(c, Failure("INTERNAL_ERROR"))
    /\ UNCHANGED <<users, pending, task>>

\* A statement fails, or bcrypt does; PostgreSQL rolls back.
Fail(c) ==
    /\ at[c] \in Waiting
    /\ pending' = [pending EXCEPT ![c] = {}]
    /\ Finish(c, Failure("INTERNAL_ERROR"))
    /\ UNCHANGED <<users, task>>

\* The COMMIT is done, but its acknowledgement, or the process, is lost: the
\* call fails although the account is open.
CommitUnseen(c) ==
    /\ at[c] = "commit"
    /\ users' = users \cup pending[c]
    /\ pending' = [pending EXCEPT ![c] = {}]
    /\ Finish(c, Failure("INTERNAL_ERROR")) \/ Goto(c, "crashed")
    /\ UNCHANGED task

\* The process dies; PostgreSQL rolls the open transaction back.
Crash(c) ==
    /\ at[c] \in Waiting
    /\ pending' = [pending EXCEPT ![c] = {}]
    /\ Goto(c, "crashed")
    /\ UNCHANGED <<users, task>>

-----------------------------------------------------------------------------

Step(c) ==
    \/ FindByEmail(c)
    \/ Hash(c)
    \/ Insert(c)
    \/ MeetDuplicate(c)
    \/ Commit(c)

Finished ==
    /\ \A c \in Caller : at[c] \in {"done", "crashed"}
    /\ UNCHANGED vars

Next ==
    \/ \E c \in Caller :
          GetUser(c) \/ Receive(c) \/ Step(c) \/ Fail(c) \/ CommitUnseen(c) \/ Crash(c)
    \/ Finished

Spec == Init /\ [][Next]_vars

\* A signup that can go on does.
FairSpec == Spec /\ \A c \in Caller : WF_vars(Step(c))

-----------------------------------------------------------------------------
(* Properties.                                                             *)

\* The types of the variables.
TypeOK ==
    /\ users \subseteq [id : Caller, email : Email]
    /\ pending \in [Caller -> SUBSET [id : Caller, email : Email]]
    /\ task \in [Caller -> Tasks]
    /\ at \in [Caller -> Places]
    /\ DOMAIN answer = Caller
    /\ \A c \in Caller : answer[c].code \in Codes /\ answer[c].users \subseteq users

\* No two accounts have the same email, however signups overlap and whatever
\* way clients write it; nor is there a second one on its way.
EmailUnique ==
    LET Written == users \cup UNION {pending[c] : c \in Caller}
    IN  \A u, v \in Written : u.email = v.email => u = v

\* A client that got an answer to its signup knows that its email has an
\* account: its own if it was told so, and if it was told "duplicate" one that
\* is committed and stays.
SignupAnswersTrue ==
    \A c \in Caller : task[c].kind = "signup" =>
        /\ answer[c].code = "OK" => answer[c].users = {Account(c, EmailOf(c))}
        /\ answer[c].code \in {"OK", "DUPLICATE_USER_EMAIL"} =>
              \E u \in users : u.email = EmailOf(c)

\* An account that any call has returned is found ever after: Orders never
\* refuses a buyer whose signup was answered.
SignedUpIsFound ==
    [][\A c \in Caller :
          /\ answer'[c] # answer[c]
          /\ answer'[c].code = "USER_NOT_FOUND"
          => \A d \in Caller : \A u \in answer[d].users : u.id # task[c].id]_vars

Shown == UNION {answer[c].users : c \in Caller}
Denied == {EmailOf(c) : c \in {d \in Caller : answer[d].code = "DUPLICATE_USER_EMAIL"}}

Promise == INSTANCE Accounts WITH shown <- Shown, taken <- Denied

\* Accounts are opened, shown and denied as the abstract specification says.
KeepsAccounts == Promise!Spec

\* Every signup is answered, unless its process dies.
EverySignupAnswered ==
    \A c \in Caller : at[c] = "find" ~> at[c] \in {"done", "crashed"}
=============================================================================
