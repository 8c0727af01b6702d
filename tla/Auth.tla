-------------------------------- MODULE Auth --------------------------------
(***************************************************************************)
(* Accounts and tokens: app/api/routes_auth.py, app/services/auth.py,      *)
(* app/security.py and get_current_user of app/api/deps.py.                *)
(*                                                                         *)
(* Registration checks the email, then inserts the account in a            *)
(* transaction that commits after the response was sent; the unique index  *)
(* on users.email is all that keeps two registrations apart.  Tokens are   *)
(* stored nowhere: whoever holds one may present it at any time, and what  *)
(* it is worth depends on its type, its expiry and the account.            *)
(*                                                                         *)
(* Login, refresh and every authenticated request await the lookup of the  *)
(* account, which may wait for a pooled connection first; the clock and    *)
(* the account move on meanwhile, and between the lookup and the answer.   *)
(***************************************************************************)
EXTENDS Naturals

CONSTANTS
    Emails,
    Passwords,
    Accounts,    \* the users.id uuid4 hands out in a behaviour
    Requests,    \* slots for the registrations that are served at the same time
    Calls,       \* slots for the logins, refreshes and authenticated requests
    AccessTTL,   \* access_token_expire_minutes
    RefreshTTL,  \* refresh_token_expire_days
    MaxTime,     \* bound: the last instant of a behaviour
    None

TokenType == {"access", "refresh"}
User      == [email : Emails, hashed_password : Passwords, is_active : BOOLEAN]
Instants  == 0 .. (MaxTime + AccessTTL + RefreshTTL)
Token     == [sub : Accounts, type : TokenType, exp : Instants]

ASSUME AuthAssumption ==
    /\ MaxTime \in Nat
    /\ AccessTTL \in Nat
    /\ RefreshTTL \in Nat
    /\ None \notin User
    /\ None \notin Emails \cup Passwords \cup Accounts
    /\ None \notin 0 .. MaxTime
    /\ None \notin [email : Emails, password : Passwords]

Phases  == {"idle", "insert", "answer", "commit"}
Replies == {"none", "created", "conflict", "server_error"}

(* A registration: the id of the User object and the object it inserts,    *)
(* the answer its client was sent, and, which is no part of the code,      *)
(* whether its email was confirmed when it began.                          *)
Registration ==
    [phase : Phases, account : Accounts \cup {None}, form : User \cup {None},
     reply : Replies, late : BOOLEAN]

Kinds       == {"login"} \cup TokenType
Credentials == [email : Emails, password : Passwords]

(* A login, a refresh or an authenticated request: what it came with,      *)
(* whose account it is about and the User object the lookup returned; for  *)
(* a slot that is idle, whether the last call got what it asked for.  No   *)
(* part of the code are the time since the account was given tokens and    *)
(* whether the account was disabled, both when the call began.             *)
Call ==
    [phase : {"idle", "lookup", "found"}, kind : Kinds \cup {None},
     claim : Credentials \cup {None}, sub : Accounts \cup {None}, row : User \cup {None},
     age : (0 .. MaxTime) \cup {None}, out : BOOLEAN, served : BOOLEAN]

NoCall ==
    [phase |-> "idle", kind |-> None, claim |-> None, sub |-> None, row |-> None,
     age |-> None, out |-> FALSE, served |-> FALSE]

VARIABLES
    users,        \* committed rows of the users table
    registration, \* per slot: the registration it serves
    now,          \* the time jwt.decode compares with
    tokens,       \* the tokens that were issued
    drawn,        \* the account ids handed out
    confirmed,    \* emails for which a client was answered 201
    issued,       \* per account: when it was last given tokens, None if never
    call          \* per slot: the login, refresh or authenticated request

vars == <<users, registration, now, tokens, drawn, confirmed, issued, call>>

-----------------------------------------------------------------------------

TypeOK ==
    /\ users \in [Accounts -> User \cup {None}]
    /\ registration \in [Requests -> Registration]
    /\ now \in 0 .. MaxTime
    /\ tokens \in SUBSET Token
    /\ drawn \in SUBSET Accounts
    /\ confirmed \in SUBSET Emails
    /\ issued \in [Accounts -> (0 .. MaxTime) \cup {None}]
    /\ call \in [Calls -> Call]

Init ==
    /\ users = [a \in Accounts |-> None]
    /\ registration = [r \in Requests |-> [phase |-> "idle", account |-> None,
                                           form |-> None, reply |-> "none", late |-> FALSE]]
    /\ now = 0
    /\ tokens = {}
    /\ drawn = {}
    /\ confirmed = {}
    /\ issued = [a \in Accounts |-> None]
    /\ call = [c \in Calls |-> NoCall]

-----------------------------------------------------------------------------
(***************************************************************************)
(* POST /auth/register                                                     *)
(***************************************************************************)

At(r, p) == registration[r].phase = p

Goto(r, p) == registration' = [registration EXCEPT ![r].phase = p]

(* UserRepository.get_by_email finds committed accounts.                   *)
GetByEmail(e) == {a \in Accounts : users[a] # None /\ users[a].email = e}

(* The email is known already: 409.                                        *)
EmailKnown(r, e) ==
    /\ At(r, "idle")
    /\ GetByEmail(e) # {}
    /\ registration' = [registration EXCEPT ![r].reply = "conflict", ![r].late = e \in confirmed]
    /\ UNCHANGED <<users, now, tokens, drawn, confirmed, issued, call>>

(* Mutated form of Register: is_active has no default.                     *)
RegisterUnset(r, e, p, a) ==
    /\ At(r, "idle")
    /\ GetByEmail(e) = {}
    /\ a \notin drawn
    /\ drawn' = drawn \cup {a}
    /\ registration' = [registration EXCEPT ![r] =
          [phase |-> "insert", account |-> a, reply |-> "none", late |-> e \in confirmed,
           form |-> [email |-> e, hashed_password |-> p, is_active |-> None]]]
    /\ UNCHANGED <<users, now, tokens, confirmed, issued, call>>

(* The email is free, as far as this request can see: a User is created.   *)
Register(r, e, p, a) ==
    /\ At(r, "idle")
    /\ GetByEmail(e) = {}
    /\ a \notin drawn
    /\ drawn' = drawn \cup {a}
    /\ registration' = [registration EXCEPT ![r] =
          [phase |-> "insert", account |-> a, reply |-> "none", late |-> e \in confirmed,
           form |-> [email |-> e, hashed_password |-> p, is_active |-> TRUE]]]
    /\ UNCHANGED <<users, now, tokens, confirmed, issued, call>>

(* Another transaction has inserted the email and not ended: the INSERT    *)
(* waits for it.                                                           *)
Locked(r) ==
    \E s \in Requests \ {r} :
        /\ registration[s].phase \in {"answer", "commit"}
        /\ registration[s].form.email = registration[r].form.email

(* Mutated forms of Insert: there is no unique index; registrations of one *)
(* email lock it before they insert, and wait for each other.              *)
InsertUnchecked(r) ==
    /\ At(r, "insert")
    /\ Goto(r, "answer")
    /\ UNCHANGED <<users, now, tokens, drawn, confirmed, issued, call>>

InsertWaitsForAll(r) ==
    /\ At(r, "insert")
    /\ ~\E s \in Requests \ {r} :
          ~At(s, "idle") /\ registration[s].form.email = registration[r].form.email
    /\ GetByEmail(registration[r].form.email) = {}
    /\ Goto(r, "answer")
    /\ UNCHANGED <<users, now, tokens, drawn, confirmed, issued, call>>

(* UserRepository.create: the flush passes the unique index.               *)
Insert(r) ==
    /\ At(r, "insert")
    /\ ~Locked(r)
    /\ GetByEmail(registration[r].form.email) = {}
    /\ Goto(r, "answer")
    /\ UNCHANGED <<users, now, tokens, drawn, confirmed, issued, call>>

EndRegistration(r, reply) ==
    registration' = [registration EXCEPT ![r] =
        [phase |-> "idle", account |-> None, form |-> None, reply |-> reply, late |-> @.late]]

(* The flush raises IntegrityError, which register does not expect: 500.   *)
EmailTaken(r) ==
    /\ At(r, "insert")
    /\ ~Locked(r)
    /\ GetByEmail(registration[r].form.email) # {}
    /\ EndRegistration(r, "server_error")
    /\ UNCHANGED <<users, now, tokens, drawn, confirmed, issued, call>>

AnswerRegister(r) ==
    /\ At(r, "answer")
    /\ registration' = [registration EXCEPT ![r].phase = "commit", ![r].reply = "created"]
    /\ confirmed' = confirmed \cup {registration[r].form.email}
    /\ UNCHANGED <<users, now, tokens, drawn, issued, call>>

CommitRegister(r) ==
    /\ At(r, "commit")
    /\ users' = [users EXCEPT ![registration[r].account] = registration[r].form]
    /\ EndRegistration(r, registration[r].reply)
    /\ UNCHANGED <<now, tokens, drawn, confirmed, issued, call>>

(* The commit fails, the task is cancelled or the process dies.            *)
LoseRegistration(r) ==
    /\ ~At(r, "idle")
    /\ EndRegistration(r, registration[r].reply)
    /\ UNCHANGED <<users, now, tokens, drawn, confirmed, issued, call>>

-----------------------------------------------------------------------------
(***************************************************************************)
(* Tokens.                                                                 *)
(***************************************************************************)

Active(a) == users[a] # None /\ users[a].is_active

(* AuthService.issue_tokens.                                               *)
IssueTokens(a) ==
    /\ tokens' = tokens \cup {[sub |-> a, type |-> "access", exp |-> now + AccessTTL],
                              [sub |-> a, type |-> "refresh", exp |-> now + RefreshTTL]}
    /\ issued' = [issued EXCEPT ![a] = now]

(* Mutated form of DecodeToken: any type will do.                          *)
DecodeAnyType(t, expected) == t \in tokens /\ now <= t.exp

(* security.decode_token: signed here, not expired, and of the right type. *)
DecodeToken(t, expected) == t \in tokens /\ now <= t.exp /\ t.type = expected

Calling(c, p) == call[c].phase = p

Begin(c, begun) == call' = [call EXCEPT ![c] = begun]

EndCall(c, served) == call' = [call EXCEPT ![c] = [NoCall EXCEPT !.served = served]]

(* POST /auth/login: authenticate asks for the account of the email.       *)
Login(c, e, p) ==
    /\ Calling(c, "idle")
    /\ Begin(c, [NoCall EXCEPT !.phase = "lookup", !.kind = "login",
                               !.claim = [email |-> e, password |-> p],
                               !.out = \E a \in GetByEmail(e) : ~Active(a)])
    /\ UNCHANGED <<users, registration, now, tokens, drawn, confirmed, issued>>

(* POST /auth/refresh, or get_current_user of another request: the token   *)
(* is good at this moment, and the lookup of its account begins.           *)
Present(c, t, type) ==
    /\ Calling(c, "idle")
    /\ DecodeToken(t, type)
    /\ Begin(c, [NoCall EXCEPT !.phase = "lookup", !.kind = type, !.sub = t.sub,
                               !.age = IF issued[t.sub] = None THEN None ELSE now - issued[t.sub],
                               !.out = ~Active(t.sub)])
    /\ UNCHANGED <<users, registration, now, tokens, drawn, confirmed, issued>>

(* The token is not accepted: 401.                                         *)
TokenRefused(c, t, type) ==
    /\ Calling(c, "idle")
    /\ ~DecodeToken(t, type)
    /\ EndCall(c, FALSE)
    /\ UNCHANGED <<users, registration, now, tokens, drawn, confirmed, issued>>

(* The accounts the lookup may return: get_by_email, or get_by_id.         *)
Sought(c) ==
    IF call[c].kind = "login" THEN GetByEmail(call[c].claim.email)
                              ELSE {a \in Accounts : a = call[c].sub /\ users[a] # None}

(* The SELECT is executed and the account loaded, as it is now.            *)
LookUp(c) ==
    /\ Calling(c, "lookup")
    /\ \/ \E a \in Sought(c) :
             Begin(c, [call[c] EXCEPT !.phase = "found", !.sub = a, !.row = users[a]])
       \/ Sought(c) = {} /\ Begin(c, [call[c] EXCEPT !.phase = "found"])
    /\ UNCHANGED <<users, registration, now, tokens, drawn, confirmed, issued>>

(* Mutated form of Accepts: is_active is not looked at.                    *)
AcceptsDisabled(c) ==
    /\ call[c].row # None
    /\ call[c].kind = "login" => call[c].row.hashed_password = call[c].claim.password

(* What authenticate, refresh and get_current_user ask of the loaded User. *)
Accepts(c) ==
    /\ call[c].row # None
    /\ call[c].kind = "login" => call[c].row.hashed_password = call[c].claim.password
    /\ call[c].row.is_active

(* Login and refresh answer with new tokens.                               *)
GiveTokens(c) ==
    /\ Calling(c, "found") /\ call[c].kind \in {"login", "refresh"}
    /\ Accepts(c)
    /\ IssueTokens(call[c].sub)
    /\ EndCall(c, TRUE)
    /\ UNCHANGED <<users, registration, now, drawn, confirmed>>

(* get_current_user lets the request through to its handler.               *)
LetThrough(c) ==
    /\ Calling(c, "found") /\ call[c].kind = "access"
    /\ Accepts(c)
    /\ EndCall(c, TRUE)
    /\ UNCHANGED <<users, registration, now, tokens, drawn, confirmed, issued>>

(* No such account, a wrong password or a disabled account: 401.           *)
RefuseCall(c) ==
    /\ Calling(c, "found")
    /\ ~Accepts(c)
    /\ EndCall(c, FALSE)
    /\ UNCHANGED <<users, registration, now, tokens, drawn, confirmed, issued>>

(* The lookup fails, the task is cancelled or the process dies.            *)
DropCall(c) ==
    /\ ~Calling(c, "idle")
    /\ EndCall(c, FALSE)
    /\ UNCHANGED <<users, registration, now, tokens, drawn, confirmed, issued>>

(* An operator clears is_active in the database: no endpoint does.         *)
Deactivate(a) ==
    /\ Active(a)
    /\ users' = [users EXCEPT ![a].is_active = FALSE]
    /\ UNCHANGED <<registration, now, tokens, drawn, confirmed, issued, call>>

Tick ==
    /\ now < MaxTime
    /\ now' = now + 1
    /\ UNCHANGED <<users, registration, tokens, drawn, confirmed, issued, call>>

-----------------------------------------------------------------------------

Continue(r) ==
    Insert(r) \/ EmailTaken(r) \/ AnswerRegister(r) \/ CommitRegister(r)

Next ==
    \/ \E r \in Requests :
        \/ \E e \in Emails : \/ EmailKnown(r, e)
                             \/ \E p \in Passwords, a \in Accounts : Register(r, e, p, a)
        \/ Continue(r)
        \/ LoseRegistration(r)
    \/ \E c \in Calls :
        \/ \E e \in Emails, p \in Passwords : Login(c, e, p)
        \/ \E t \in tokens, type \in TokenType : Present(c, t, type) \/ TokenRefused(c, t, type)
        \/ LookUp(c)
        \/ GiveTokens(c) \/ LetThrough(c) \/ RefuseCall(c)
        \/ DropCall(c)
    \/ \E a \in Accounts : Deactivate(a)
    \/ Tick

Spec == Init /\ [][Next]_vars

(* The event loop resumes a registration whose statement returned.  That   *)
(* Postgres answers a statement and a COMMIT, and wakes an INSERT that     *)
(* waits for a lock that is gone, is assumed of it: the client has no      *)
(* timeout.                                                                *)
FairSpec == Spec /\ \A r \in Requests : WF_vars(Continue(r))

-----------------------------------------------------------------------------
(***************************************************************************)
(* Properties.                                                             *)
(***************************************************************************)

(* However registrations overlap, an email has one account: the lookup of  *)
(* register can be stale, the unique index is not (auth.py register,       *)
(* models.py User.email).                                                  *)
OneAccountPerEmail ==
    \A a, b \in Accounts :
        (users[a] # None /\ users[b] # None /\ users[a].email = users[b].email) => a = b

(* The call of c is given its tokens, or let through, in this step.        *)
Served(c) == Calling(c, "found") /\ call'[c].served

Lifetime(type) == IF type = "access" THEN AccessTTL ELSE RefreshTTL

(* A request is let through, and tokens are refreshed, only for a call     *)
(* that came within the lifetime of an access or a refresh token after its *)
(* user was last given tokens: a refresh token, which lives longer, is no  *)
(* substitute for an access token, and nothing else prolongs access.  The  *)
(* expiry is checked before the lookup is awaited and not again, so the    *)
(* bound is on when the call came, not on when it is answered (deps.py     *)
(* get_current_user, auth.py refresh, security.py decode_token).           *)
AccessIsFresh ==
    [][\A c \in Calls : (Served(c) /\ call[c].kind # "login") =>
          call[c].age # None /\ call[c].age <= Lifetime(call[c].kind)]_vars

(* A call that begins when the account is disabled already gets nothing:   *)
(* it is not let through, and tokens are issued only in answer to a login  *)
(* or a refresh that began before.  One that began before may still be     *)
(* served, by the object it loaded (deps.py get_current_user, auth.py      *)
(* authenticate and refresh).                                              *)
DeactivatedStaysOut ==
    [][/\ \A c \in Calls : Served(c) => ~call[c].out
       /\ \A t \in tokens' \ tokens :
             \E c \in Calls : Served(c) /\ call[c].sub = t.sub /\ call[c].kind # "access"]_vars

(* Every registration comes to an end: two that wait for the same email    *)
(* never wait for each other (repositories.py create, under the fairness   *)
(* of FairSpec).                                                           *)
EveryRegistrationEnds == \A r \in Requests : At(r, "insert") ~> At(r, "idle")

(* The test "register duplicate email returns 409"                         *)
(* (tests/integration/test_auth_api.py:27): a registration that begins     *)
(* after the email was confirmed is not answered 500.                      *)
DuplicateIsConflict == \A r \in Requests : registration[r].late => registration[r].reply # "server_error"
=============================================================================
