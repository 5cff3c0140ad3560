----------------------------- MODULE UsersProofs -----------------------------
(***************************************************************************)
(* Theorems about Users, for any number of callers and any emails.         *)
(***************************************************************************)
EXTENDS Users, TLAPS

\* The assumption on the constants, where a proof needs it.
LEMMA Spellings == \A s \in Spelling : Lower[s] \in Email
BY UsersAssumption DEF UsersAssumption

\* What a call knows at its place: only between INSERT and COMMIT does it have
\* a row that nobody sees, its own; a row it has committed ends it.
Stage(c) ==
    /\ at[c] \in Waiting => task[c].kind = "signup" /\ task[c].email \in Spelling
    /\ at[c] = "commit" => pending[c] = {Account(c, EmailOf(c))}
    /\ at[c] # "commit" => pending[c] = {}
    /\ at[c] \in {"idle"} \cup Waiting =>
          answer[c] = NoReply /\ \A u \in users : u.id # c

Inv ==
    /\ TypeOK
    /\ EmailUnique
    /\ SignupAnswersTrue
    /\ \A c \in Caller : Stage(c)

\* Fields of answers.
LEMMA AnswerFields ==
    /\ \A us : Success(us).code = "OK" /\ Success(us).users = us
    /\ \A code : Failure(code).code = code /\ Failure(code).users = {}
    /\ NoReply = Failure("")
BY DEF Success, Failure, NoReply

\* Fields of an account.
LEMMA AccountFields ==
    ASSUME NEW id, NEW email
    PROVE  Account(id, email).id = id /\ Account(id, email).email = email
BY DEF Account

\* At first there is no account and no call has begun.
LEMMA InitInv == Init => Inv
<1> SUFFICES ASSUME Init PROVE Inv
  OBVIOUS
<1>1. \A c \in Caller : answer[c].code = "" /\ answer[c].users = {} /\ answer[c] = NoReply
  BY AnswerFields DEF Init
<1>2. TypeOK
  BY <1>1 DEF Init, TypeOK, Places, Codes
<1>3. EmailUnique
  BY DEF Init, EmailUnique
<1>4. SignupAnswersTrue
  BY <1>1 DEF SignupAnswersTrue
<1>5. \A c \in Caller : Stage(c)
  BY <1>1 DEF Init, Stage, Waiting
<1> QED
  BY <1>2, <1>3, <1>4, <1>5 DEF Inv

-----------------------------------------------------------------------------
(* The steps, by what they change.                                         *)

\* A call changes only its own part of the state.
Alone(c) ==
    /\ task' = task
    /\ at' \in [Caller -> Places] /\ pending' \in [Caller -> SUBSET [id : Caller, email : Email]]
    /\ DOMAIN answer' = Caller
    /\ \A d \in Caller \ {c} :
          at'[d] = at[d] /\ pending'[d] = pending[d] /\ answer'[d] = answer[d]

\* A reply that is true of the accounts as they are now.
Honest(c, us) ==
    /\ answer'[c].code \in Codes
    /\ answer'[c].users \subseteq us
    /\ task[c].kind = "signup" =>
          /\ answer'[c].code = "OK" => answer'[c].users = {Account(c, EmailOf(c))}
          /\ answer'[c].code \in {"OK", "DUPLICATE_USER_EMAIL"} =>
                \E u \in us : u.email = EmailOf(c)

\* A step that opens no account and makes no row: it moves its call on, or
\* ends it.
LEMMA QuietStep ==
    ASSUME Inv, NEW c \in Caller, Alone(c), users' = users, pending'[c] = {},
           at[c] \in {"idle"} \cup Waiting,
           at'[c] # "commit", at'[c] # "idle",
           at'[c] \in Waiting =>
              answer'[c] = answer[c] /\ task[c].kind = "signup" /\ task[c].email \in Spelling,
           Honest(c, users)
    PROVE  Inv'
<1>1. TypeOK'
  BY DEF Inv, TypeOK, Alone, Honest
<1>2. EmailUnique'
  <2>1. users' \cup UNION {pending'[d] : d \in Caller}
          \subseteq users \cup UNION {pending[d] : d \in Caller}
    BY DEF Alone
  <2> QED
    BY <2>1 DEF Inv, EmailUnique
<1>3. SignupAnswersTrue'
  BY DEF Inv, SignupAnswersTrue, Alone, Honest, EmailOf
<1>4. ASSUME NEW d \in Caller PROVE Stage(d)'
  <2>1. CASE d # c
    BY <2>1 DEF Inv, Stage, Alone, EmailOf
  <2>2. CASE d = c
    BY <2>2 DEF Inv, Stage, Alone, EmailOf, Waiting
  <2> QED
    BY <2>1, <2>2
<1> QED
  BY <1>1, <1>2, <1>3, <1>4 DEF Inv

\* An INSERT: the row is its call's alone, and its email nobody else's.
LEMMA InsertInv ==
    ASSUME Inv, NEW c \in Caller, Insert(c)
    PROVE  Inv'
<1> DEFINE row == Account(c, EmailOf(c))
<1>1. EmailOf(c) \in Email /\ row.id = c /\ row.email = EmailOf(c) /\ row \in [id : Caller, email : Email]
  <2>1. task[c].email \in Spelling
    BY DEF Inv, Stage, Insert, Waiting
  <2> QED
    BY <2>1, Spellings DEF EmailOf, Account
<1> HIDE DEF row
<1>2. /\ Alone(c) /\ users' = users /\ pending'[c] = {row}
      /\ at'[c] = "commit" /\ answer' = answer /\ at[c] = "insert"
  BY <1>1 DEF Inv, TypeOK, Insert, Goto, Alone, Places, row
<1>3. TypeOK'
  BY <1>2 DEF Inv, TypeOK, Alone
<1>4. EmailUnique'
  <2>1. \A u \in users : u.email # EmailOf(c)
    BY DEF Insert, Taken
  <2>2. \A d \in Caller \ {c} : \A u \in pending[d] : u.email # EmailOf(c)
    BY DEF Insert, EmailPending
  <2>3. \A u \in users' \cup UNION {pending'[d] : d \in Caller} :
           \/ u \in users \cup UNION {pending[d] : d \in Caller} /\ u.email # EmailOf(c)
           \/ u = row
    BY <1>2, <2>1, <2>2 DEF Alone
  <2> QED
    BY <1>1, <2>3 DEF Inv, EmailUnique
<1>5. SignupAnswersTrue'
  BY <1>2 DEF Inv, SignupAnswersTrue, Alone, EmailOf
<1>6. ASSUME NEW d \in Caller PROVE Stage(d)'
  <2>1. CASE d # c
    BY <1>2, <2>1 DEF Inv, Stage, Alone, EmailOf
  <2>2. CASE d = c
    BY <1>2, <2>2 DEF Inv, Stage, Alone, EmailOf, Waiting, row
  <2> QED
    BY <2>1, <2>2
<1> QED
  BY <1>3, <1>4, <1>5, <1>6 DEF Inv

\* A COMMIT, whether or not its acknowledgement arrives: the one row that was
\* pending becomes an account.
LEMMA CommitInv ==
    ASSUME Inv, NEW c \in Caller, Commit(c) \/ CommitUnseen(c)
    PROVE  /\ Inv'
           /\ users' = users \cup {Account(c, EmailOf(c))}
           /\ \A u \in users : u.id # c /\ u.email # EmailOf(c)
           /\ task' = task
           /\ \A d \in Caller \ {c} : answer'[d] = answer[d]
           /\ answer'[c] \in {Success({Account(c, EmailOf(c))}), Failure("INTERNAL_ERROR"), answer[c]}
           /\ answer[c] = NoReply
<1> DEFINE row == Account(c, EmailOf(c))
<1>0. row.id = c /\ row.email = EmailOf(c)
  BY AccountFields
<1> HIDE DEF row
<1>1. at[c] = "commit" /\ pending[c] = {row} /\ answer[c] = NoReply /\ \A u \in users : u.id # c
  BY DEF Inv, Stage, Commit, CommitUnseen, Waiting, row
<1>2. row \in [id : Caller, email : Email]
  BY <1>1 DEF Inv, TypeOK
<1>3. /\ users' = users \cup {row}
      /\ pending' = [pending EXCEPT ![c] = {}]
      /\ task' = task
      /\ \/ Finish(c, Success({row}))
         \/ Finish(c, Failure("INTERNAL_ERROR"))
         \/ Goto(c, "crashed")
  BY <1>1 DEF Commit, CommitUnseen
<1>4. /\ Alone(c) /\ pending'[c] = {} /\ at'[c] \in {"done", "crashed"}
      /\ answer'[c] \in {Success({row}), Failure("INTERNAL_ERROR"), answer[c]}
  BY <1>3 DEF Inv, TypeOK, Alone, Finish, Goto, Places
<1>5. \A u \in users : u.email # EmailOf(c)
  <2> SUFFICES ASSUME NEW u \in users, u.email = row.email PROVE FALSE
    BY <1>0
  <2>1. u = row
    BY <1>1 DEF Inv, EmailUnique
  <2> QED
    BY <1>0, <1>1, <2>1
<1>6. Honest(c, users')
  <2>1. CASE answer'[c] = Success({row})
    BY <1>0, <1>3, <2>1, AnswerFields DEF Honest, Codes, row
  <2>2. CASE answer'[c] \in {Failure("INTERNAL_ERROR"), Failure("")}
    <3>1. answer'[c].code \in {"INTERNAL_ERROR", ""} /\ answer'[c].users = {}
      BY <2>2, AnswerFields
    <3> QED
      BY <3>1 DEF Honest, Codes
  <2> QED
    BY <1>1, <1>4, <2>1, <2>2, AnswerFields
<1>7. TypeOK'
  BY <1>2, <1>3, <1>4, <1>6 DEF Inv, TypeOK, Alone, Honest
<1>8. EmailUnique'
  <2>1. users' \cup UNION {pending'[d] : d \in Caller}
          \subseteq users \cup UNION {pending[d] : d \in Caller}
    BY <1>1, <1>3, <1>4 DEF Alone
  <2> QED
    BY <2>1 DEF Inv, EmailUnique
<1>9. SignupAnswersTrue'
  BY <1>3, <1>4, <1>6 DEF Inv, SignupAnswersTrue, Alone, Honest, EmailOf
<1>10. ASSUME NEW d \in Caller PROVE Stage(d)'
  <2>1. CASE d # c
    BY <1>0, <1>3, <1>4, <2>1 DEF Inv, Stage, Alone, EmailOf
  <2>2. CASE d = c
    BY <1>4, <2>2 DEF Stage, Waiting
  <2> QED
    BY <2>1, <2>2
<1>11. Inv'
  BY <1>7, <1>8, <1>9, <1>10 DEF Inv
<1> QED
  BY <1>1, <1>3, <1>4, <1>5, <1>11 DEF Alone, row

\* Steps that open no account.
Quiet(c) ==
    \/ GetUser(c) \/ Receive(c) \/ FindByEmail(c) \/ Hash(c) \/ MeetDuplicate(c)
    \/ Fail(c) \/ Crash(c)

\* A failure of no consequence is always true.
LEMMA FailureHonest ==
    ASSUME NEW c \in Caller, NEW code \in {"", "USER_NOT_FOUND", "INTERNAL_ERROR"},
           answer'[c] = Failure(code)
    PROVE  Honest(c, users)
<1>1. answer'[c].code = code /\ answer'[c].users = {}
  BY AnswerFields
<1> QED
  BY <1>1 DEF Honest, Codes

\* A duplicate is reported when the email has an account.
LEMMA DuplicateHonest ==
    ASSUME NEW c \in Caller, Taken(c), answer'[c] = Failure("DUPLICATE_USER_EMAIL")
    PROVE  Honest(c, users)
<1>1. answer'[c].code = "DUPLICATE_USER_EMAIL" /\ answer'[c].users = {}
  BY AnswerFields
<1> QED
  BY <1>1 DEF Honest, Codes, Taken

\* What the quiet steps have in common.
LEMMA QuietFacts ==
    ASSUME Inv, NEW c \in Caller, Quiet(c)
    PROVE  /\ Alone(c) /\ users' = users /\ pending'[c] = {}
           /\ at[c] \in {"idle"} \cup Waiting
           /\ at'[c] # "commit" /\ at'[c] # "idle"
           /\ at'[c] \in Waiting =>
                 /\ answer'[c] = answer[c]
                 /\ task[c].kind = "signup" /\ task[c].email \in Spelling
           /\ Honest(c, users)
           /\ answer[c] = NoReply
<1> USE DEF Inv, TypeOK
<1>1. Stage(c)
  OBVIOUS
<1>2. at[c] \in {"idle"} \cup Waiting /\ answer[c] = NoReply
  BY <1>1 DEF Quiet, GetUser, Receive, FindByEmail, Hash, MeetDuplicate, Fail, Crash,
     Waiting, Stage
<1>3. ASSUME NEW label \in Places \ {"commit", "idle"}, Goto(c, label), task' = task,
             users' = users, pending' = pending \/ pending' = [pending EXCEPT ![c] = {}],
             at[c] # "commit" \/ pending' = [pending EXCEPT ![c] = {}],
             label \in Waiting => task[c].kind = "signup" /\ task[c].email \in Spelling
      PROVE  /\ Alone(c) /\ pending'[c] = {} /\ at'[c] # "commit" /\ at'[c] # "idle"
             /\ at'[c] \in Waiting => task[c].kind = "signup" /\ task[c].email \in Spelling
             /\ answer'[c] = answer[c]
  BY <1>1, <1>3 DEF Alone, Goto, Stage
<1>4. ASSUME NEW reply, Finish(c, reply), task' = task,
             pending' = pending \/ pending' = [pending EXCEPT ![c] = {}],
             at[c] # "commit" \/ pending' = [pending EXCEPT ![c] = {}]
      PROVE  /\ Alone(c) /\ pending'[c] = {} /\ at'[c] = "done" /\ answer'[c] = reply
  BY <1>1, <1>4 DEF Alone, Finish, Stage, Places
<1>5. answer'[c] = answer[c] => Honest(c, users)
  BY <1>2, AnswerFields, FailureHonest
<1>6. CASE GetUser(c)
  <2> DEFINE Found == {u \in users : u.id = task[c].id}
  <2>1. task[c].kind = "get" /\ at[c] = "idle" /\ users' = users /\ pending' = pending /\ task' = task
    BY <1>6 DEF GetUser
  <2>2. Finish(c, Failure("USER_NOT_FOUND")) \/ Finish(c, Success(Found))
    <3>1. Finish(c, IF Found = {} THEN Failure("USER_NOT_FOUND") ELSE Success(Found))
      BY <1>6 DEF GetUser
    <3> HIDE DEF Found
    <3>2. CASE Found = {}
      BY <3>1, <3>2
    <3>3. CASE Found # {}
      BY <3>1, <3>3
    <3> QED
      BY <3>2, <3>3
  <2>3. CASE Finish(c, Failure("USER_NOT_FOUND"))
    BY <1>2, <1>4, <2>1, <2>3, FailureHonest DEF Waiting
  <2>4. CASE Finish(c, Success(Found))
    <3>0. Found \subseteq users
      OBVIOUS
    <3> HIDE DEF Found
    <3>1. answer'[c].code = "OK" /\ answer'[c].users \subseteq users
      <4>1. answer'[c] = Success(Found)
        BY <1>4, <2>1, <2>4
      <4> QED
        BY <3>0, <4>1 DEF Success
    <3>2. Honest(c, users)
      BY <2>1, <3>1 DEF Honest, Codes
    <3> QED
      BY <1>2, <1>4, <2>1, <2>4, <3>2 DEF Waiting
  <2> QED
    BY <2>2, <2>3, <2>4
<1>7. CASE Receive(c)
  <2>1. task[c].kind = "signup" /\ task[c].email \in Spelling
    BY <1>7, UsersAssumption DEF Receive, UsersAssumption, IsTask
  <2> QED
    BY <1>2, <1>3, <1>5, <1>7, <2>1 DEF Receive, Places, Waiting
<1>8. CASE FindByEmail(c)
  <2>0. task[c].kind = "signup" /\ task[c].email \in Spelling
    BY <1>1, <1>8 DEF FindByEmail, Stage, Waiting
  <2>1. CASE Taken(c) /\ Finish(c, Failure("DUPLICATE_USER_EMAIL"))
    BY <1>2, <1>4, <1>8, <2>1, DuplicateHonest DEF FindByEmail, Waiting
  <2>2. CASE Goto(c, "hash")
    BY <1>2, <1>3, <1>5, <1>8, <2>0, <2>2 DEF FindByEmail, Places, Waiting
  <2> QED
    BY <1>8, <2>1, <2>2 DEF FindByEmail
<1>9. CASE Hash(c)
  <2>0. task[c].kind = "signup" /\ task[c].email \in Spelling
    BY <1>1, <1>9 DEF Hash, Stage, Waiting
  <2> QED
    BY <1>2, <1>3, <1>5, <1>9, <2>0 DEF Hash, Places, Waiting
<1>10. CASE MeetDuplicate(c)
  BY <1>2, <1>4, <1>10, DuplicateHonest DEF MeetDuplicate, Waiting
<1>11. CASE Fail(c)
  BY <1>2, <1>4, <1>11, FailureHonest DEF Fail, Waiting
<1>12. CASE Crash(c)
  BY <1>2, <1>3, <1>5, <1>12 DEF Crash, Places, Waiting
<1> QED
  BY <1>6, <1>7, <1>8, <1>9, <1>10, <1>11, <1>12 DEF Quiet

\* Every step keeps the invariant.
LEMMA StepInv == Inv /\ [Next]_vars => Inv'
<1> SUFFICES ASSUME Inv, [Next]_vars PROVE Inv'
  OBVIOUS
<1>1. CASE UNCHANGED vars
  BY <1>1 DEF vars, Inv, TypeOK, EmailUnique, SignupAnswersTrue, Stage, EmailOf
<1>2. ASSUME NEW c \in Caller, Quiet(c) PROVE Inv'
  BY <1>2, QuietFacts, QuietStep
<1>3. ASSUME NEW c \in Caller, Insert(c) \/ Commit(c) \/ CommitUnseen(c) PROVE Inv'
  BY <1>3, InsertInv, CommitInv
<1> QED
  BY <1>1, <1>2, <1>3 DEF Next, Step, Quiet, Finished

-----------------------------------------------------------------------------
(* Theorems.                                                               *)

\* The inductive invariant holds in every reachable state.
THEOREM UsersInvariance == Spec => []Inv
BY InitInv, StepInv, PTL DEF Spec

\* The variables keep their types; in particular what is returned is committed.
THEOREM UsersTypes == Spec => []TypeOK
<1>1. Inv => TypeOK
  BY DEF Inv
<1> QED
  BY <1>1, UsersInvariance, PTL

\* However many signups overlap, no email has two accounts.
THEOREM OneAccountPerEmail == Spec => []EmailUnique
<1>1. Inv => EmailUnique
  BY DEF Inv
<1> QED
  BY <1>1, UsersInvariance, PTL

\* A signup that was answered, with an account or with a conflict, leaves its
\* email with an account.
THEOREM SignupAnswersAreTrue == Spec => []SignupAnswersTrue
<1>1. Inv => SignupAnswersTrue
  BY DEF Inv
<1> QED
  BY <1>1, UsersInvariance, PTL

-----------------------------------------------------------------------------
(* Users implements Accounts.                                              *)

\* An account is known by its id.
IdUnique == \A u, v \in users : u.id = v.id => u = v

\* Ids stay unique: a call opens at most one account.
LEMMA IdStep == Inv /\ IdUnique /\ [Next]_vars => IdUnique'
<1> SUFFICES ASSUME Inv, IdUnique, [Next]_vars PROVE IdUnique'
  OBVIOUS
<1>1. CASE UNCHANGED vars
  BY <1>1 DEF vars, IdUnique
<1>2. ASSUME NEW c \in Caller, Quiet(c) PROVE IdUnique'
  BY <1>2, QuietFacts DEF IdUnique
<1>3. ASSUME NEW c \in Caller, Insert(c) PROVE IdUnique'
  BY <1>3 DEF Insert, IdUnique
<1>4. ASSUME NEW c \in Caller, Commit(c) \/ CommitUnseen(c) PROVE IdUnique'
  <2> DEFINE row == Account(c, EmailOf(c))
  <2>1. users' = users \cup {row} /\ row.id = c /\ \A u \in users : u.id # c
    BY <1>4, CommitInv, AccountFields
  <2> HIDE DEF row
  <2> QED
    BY <2>1 DEF IdUnique
<1> QED
  BY <1>1, <1>2, <1>3, <1>4 DEF Next, Step, Quiet, Finished

\* What a quiet step answers: nothing new, a failure, a conflict with an
\* account that is there, or the account that was asked for.
Replies(c) ==
    \/ answer'[c] \in {answer[c], Failure("USER_NOT_FOUND"), Failure("INTERNAL_ERROR")}
    \/ answer'[c] = Failure("DUPLICATE_USER_EMAIL") /\ Taken(c)
    \/ \E us \in SUBSET users :
          us # {} /\ answer'[c] = Success(us) /\ \A u \in us : u.id = task[c].id

\* The quiet steps answer so.
LEMMA QuietReplies ==
    ASSUME TypeOK, NEW c \in Caller, Quiet(c)
    PROVE  Replies(c)
<1> USE DEF TypeOK
<1>1. CASE GetUser(c)
  <2> DEFINE Found == {u \in users : u.id = task[c].id}
  <2>1. Finish(c, IF Found = {} THEN Failure("USER_NOT_FOUND") ELSE Success(Found))
    BY <1>1 DEF GetUser
  <2>2. Found \in SUBSET users /\ \A u \in Found : u.id = task[c].id
    OBVIOUS
  <2> HIDE DEF Found
  <2>3. CASE Found = {}
    <3>1. answer'[c] = Failure("USER_NOT_FOUND")
      BY <2>1, <2>3 DEF Finish
    <3> QED
      BY <3>1 DEF Replies
  <2>4. CASE Found # {}
    <3>1. answer'[c] = Success(Found)
      BY <2>1, <2>4 DEF Finish
    <3> QED
      BY <2>2, <2>4, <3>1 DEF Replies
  <2> QED
    BY <2>3, <2>4
<1>2. CASE FindByEmail(c) \/ MeetDuplicate(c)
  <2>1. answer' = answer \/ (answer'[c] = Failure("DUPLICATE_USER_EMAIL") /\ Taken(c))
    BY <1>2 DEF FindByEmail, MeetDuplicate, Finish, Goto
  <2> QED
    BY <2>1 DEF Replies
<1>3. CASE Fail(c)
  <2>1. answer'[c] = Failure("INTERNAL_ERROR")
    BY <1>3 DEF Fail, Finish
  <2> QED
    BY <2>1 DEF Replies
<1>4. CASE Receive(c) \/ Hash(c) \/ Crash(c)
  BY <1>4 DEF Receive, Hash, Crash, Goto, Replies
<1> QED
  BY <1>1, <1>2, <1>3, <1>4 DEF Quiet

\* What clients have been shown and denied grows by the answer of the call.
LEMMA ShownGrows ==
    ASSUME NEW c \in Caller, answer[c] = NoReply, task' = task,
           \A d \in Caller \ {c} : answer'[d] = answer[d]
    PROVE  /\ Shown' = Shown \cup answer'[c].users
           /\ answer'[c].code # "DUPLICATE_USER_EMAIL" => Denied' = Denied
           /\ answer'[c].code = "DUPLICATE_USER_EMAIL" => Denied' = Denied \cup {EmailOf(c)}
<1>1. answer[c].users = {} /\ answer[c].code = ""
  BY AnswerFields
<1>2. \A d \in Caller : EmailOf(d)' = EmailOf(d)
  BY DEF EmailOf
<1>3. Shown' = Shown \cup answer'[c].users
  BY <1>1 DEF Shown
<1>4. ASSUME NEW e, answer'[c].code # "DUPLICATE_USER_EMAIL" PROVE e \in Denied' <=> e \in Denied
  BY <1>1, <1>2, <1>4 DEF Denied
<1>5. ASSUME NEW e, answer'[c].code = "DUPLICATE_USER_EMAIL"
      PROVE  e \in Denied' <=> e \in Denied \cup {EmailOf(c)}
  BY <1>1, <1>2, <1>5 DEF Denied
<1> QED
  BY <1>3, <1>4, <1>5

\* Every step is a step of Accounts, or none.
LEMMA StepKeepsAccounts ==
    Inv /\ IdUnique /\ [Next]_vars => [Promise!Next]_(Promise!accounts)
<1> SUFFICES ASSUME Inv, IdUnique, [Next]_vars
             PROVE  Promise!Next \/ UNCHANGED Promise!accounts
  OBVIOUS
<1>1. CASE UNCHANGED vars
  BY <1>1 DEF vars, Promise!accounts, Shown, Denied, EmailOf
<1>2. ASSUME NEW c \in Caller, Quiet(c)
      PROVE  Promise!Next \/ UNCHANGED Promise!accounts
  <2>1. /\ users' = users /\ task' = task /\ answer[c] = NoReply
        /\ \A d \in Caller \ {c} : answer'[d] = answer[d]
    BY <1>2, QuietFacts DEF Alone
  <2>2. CASE answer'[c] \in {answer[c], Failure("USER_NOT_FOUND"), Failure("INTERNAL_ERROR")}
    <3>1. answer'[c].users = {} /\ answer'[c].code # "DUPLICATE_USER_EMAIL"
      <4>1. PICK code \in {"", "USER_NOT_FOUND", "INTERNAL_ERROR"} : answer'[c] = Failure(code)
        BY <2>1, <2>2 DEF NoReply
      <4>2. Failure(code).users = {} /\ Failure(code).code = code
        BY AnswerFields
      <4> QED
        BY <4>1, <4>2
    <3> QED
      BY <2>1, <3>1, ShownGrows DEF Promise!accounts
  <2>3. CASE answer'[c] = Failure("DUPLICATE_USER_EMAIL") /\ Taken(c)
    <3>1. answer'[c].users = {} /\ answer'[c].code = "DUPLICATE_USER_EMAIL"
      BY <2>3, AnswerFields
    <3>2. Shown' = Shown /\ Denied' = Denied \cup {EmailOf(c)}
      BY <2>1, <3>1, ShownGrows
    <3>3. PICK u \in users : u.email = EmailOf(c)
      BY <2>3 DEF Taken
    <3>4. Promise!Deny(u.email)
      BY <2>1, <3>2, <3>3 DEF Promise!Deny
    <3> QED
      BY <3>4 DEF Promise!Next
  <2>4. ASSUME NEW us \in SUBSET users, us # {}, answer'[c] = Success(us),
               \A u \in us : u.id = task[c].id
        PROVE  Promise!Next
    <3>1. answer'[c].users = us /\ answer'[c].code # "DUPLICATE_USER_EMAIL"
      BY <2>4 DEF Success
    <3>2. PICK u \in us : TRUE
      BY <2>4
    <3>3. us = {u}
      BY <2>4, <3>2 DEF IdUnique
    <3>4. Promise!Show(u)
      BY <2>1, <3>1, <3>2, <3>3, ShownGrows DEF Promise!Show
    <3> QED
      BY <2>4, <3>2, <3>4 DEF Promise!Next
  <2>5. Replies(c)
    BY <1>2, QuietReplies DEF Inv
  <2> QED
    BY <2>2, <2>3, <2>4, <2>5 DEF Replies
<1>3. ASSUME NEW c \in Caller, Insert(c) PROVE UNCHANGED Promise!accounts
  BY <1>3 DEF Insert, Goto, Promise!accounts, Shown, Denied, EmailOf
<1>4. ASSUME NEW c \in Caller, Commit(c) \/ CommitUnseen(c) PROVE Promise!Next
  <2> DEFINE row == Account(c, EmailOf(c))
  <2>0. row.id = c /\ row.email = EmailOf(c)
    BY AccountFields
  <2> HIDE DEF row
  <2>1. /\ users' = users \cup {row}
        /\ \A u \in users : u.id # c /\ u.email # EmailOf(c)
        /\ task' = task /\ answer[c] = NoReply
        /\ \A d \in Caller \ {c} : answer'[d] = answer[d]
        /\ answer'[c] \in {Success({row}), Failure("INTERNAL_ERROR"), answer[c]}
    BY <1>4, CommitInv DEF row
  <2>2. answer'[c].users \in {{}, {row}} /\ answer'[c].code # "DUPLICATE_USER_EMAIL"
    <3>1. CASE answer'[c] = Success({row})
      BY <3>1 DEF Success
    <3>2. CASE answer'[c] \in {Failure("INTERNAL_ERROR"), answer[c]}
      <4>1. PICK code \in {"", "INTERNAL_ERROR"} : answer'[c] = Failure(code)
        BY <2>1, <3>2 DEF NoReply
      <4>2. Failure(code).users = {} /\ Failure(code).code = code
        BY AnswerFields
      <4> QED
        BY <4>1, <4>2
    <3> QED
      BY <2>1, <3>1, <3>2
  <2>3. Shown' \in {Shown, Shown \cup {row}} /\ Denied' = Denied
    BY <2>1, <2>2, ShownGrows
  <2>4. Promise!Open(row)
    BY <2>0, <2>1, <2>3 DEF Promise!Open
  <2> QED
    BY <2>0, <2>1, <2>4 DEF Promise!Next
<1> QED
  BY <1>1, <1>2, <1>3, <1>4 DEF Next, Step, Quiet, Finished

\* The service implements Accounts: accounts are opened one at a time with an
\* email of their own, are never changed or closed, and clients are only told
\* what is so.
THEOREM UsersImplementAccounts == Spec => KeepsAccounts
<1>1. Init => IdUnique
  BY DEF Init, IdUnique
<1>2. Init => Promise!Init
  <2> SUFFICES ASSUME Init PROVE Promise!Init
    OBVIOUS
  <2>1. \A c \in Caller : answer[c].code = "" /\ answer[c].users = {}
    BY AnswerFields DEF Init
  <2>2. Shown = {} /\ Denied = {}
    BY <2>1 DEF Shown, Denied
  <2> QED
    BY <2>2 DEF Init, Promise!Init
<1> QED
  BY <1>1, <1>2, InitInv, StepInv, IdStep, StepKeepsAccounts, PTL
     DEF Spec, KeepsAccounts, Promise!Spec

\* Once a client has been shown an account, no lookup of its id fails.
THEOREM ShownAreFound == Spec => SignedUpIsFound
<1> DEFINE Told(c) ==
      answer'[c] # answer[c] /\ answer'[c].code = "USER_NOT_FOUND"
         => \A d \in Caller : \A u \in answer[d].users : u.id # task[c].id
<1>1. ASSUME Inv, [Next]_vars, NEW c \in Caller PROVE Told(c)
  <2> SUFFICES ASSUME answer'[c] # answer[c], answer'[c].code = "USER_NOT_FOUND"
               PROVE  \A d \in Caller : \A u \in answer[d].users : u.id # task[c].id
    OBVIOUS
  <2>1. \A d \in Caller : answer[d].users \subseteq users
    BY <1>1 DEF Inv, TypeOK
  <2>2. \A u \in users : u.id # task[c].id
    <3>1. ASSUME NEW e \in Caller, e # c, Quiet(e) \/ Insert(e) \/ Commit(e) \/ CommitUnseen(e)
          PROVE  FALSE
      <4>1. CASE Quiet(e)
        BY <1>1, <3>1, <4>1, QuietFacts DEF Alone
      <4>2. CASE Insert(e)
        BY <4>2 DEF Insert, Goto
      <4>3. CASE Commit(e) \/ CommitUnseen(e)
        BY <1>1, <3>1, <4>3, CommitInv
      <4> QED
        BY <3>1, <4>1, <4>2, <4>3
    <3>2. ~UNCHANGED vars /\ ~Insert(c)
      BY DEF vars, Insert, Goto
    <3>3. ~(Commit(c) \/ CommitUnseen(c))
      <4> SUFFICES ASSUME Commit(c) \/ CommitUnseen(c) PROVE FALSE
        OBVIOUS
      <4>1. answer'[c] \in {Success({Account(c, EmailOf(c))}), Failure("INTERNAL_ERROR"), answer[c]}
        BY <1>1, CommitInv
      <4> QED
        BY <4>1 DEF Success, Failure
    <3>4. Quiet(c)
      BY <1>1, <3>1, <3>2, <3>3 DEF Next, Step, Quiet, Finished
    <3>5. GetUser(c)
      <4>1. CASE Fail(c)
        BY <1>1, <4>1 DEF Inv, TypeOK, Fail, Finish, Failure
      <4>2. CASE FindByEmail(c) \/ MeetDuplicate(c)
        BY <1>1, <4>2 DEF Inv, TypeOK, FindByEmail, MeetDuplicate, Finish, Goto, Failure
      <4> QED
        BY <3>4, <4>1, <4>2 DEF Quiet, Receive, Hash, Crash, Goto
    <3> DEFINE Found == {u \in users : u.id = task[c].id}
    <3>6. answer'[c] = (IF Found = {} THEN Failure("USER_NOT_FOUND") ELSE Success(Found))
      BY <1>1, <3>5 DEF GetUser, Finish, Inv, TypeOK
    <3> HIDE DEF Found
    <3>7. Found = {}
      BY <3>6 DEF Success
    <3> QED
      BY <3>7 DEF Found
  <2> QED
    BY <2>1, <2>2
<1> HIDE DEF Told
<1>2. Inv /\ [Next]_vars =>
        [\A c \in Caller :
          /\ answer'[c] # answer[c]
          /\ answer'[c].code = "USER_NOT_FOUND"
          => \A d \in Caller : \A u \in answer[d].users : u.id # task[c].id]_vars
  BY <1>1 DEF Told
<1> QED
  BY <1>2, UsersInvariance, PTL DEF Spec, SignedUpIsFound
=============================================================================
