----------------------------- MODULE AuthProofs -----------------------------
(***************************************************************************)
(* Proofs about Auth, for any emails, accounts, registrations served at    *)
(* the same time and lifetimes of tokens.                                  *)
(*                                                                         *)
(* IInv has three parts.  Accounts follows a registration from the lookup, *)
(* which may be stale, over the INSERT, from which on the unique index     *)
(* keeps its email, to the commit.  Tokens ties the expiry of every token  *)
(* to the last time its account was given one.  Calls follows a login, a   *)
(* refresh or a request over the two points where it waits: what was found *)
(* when it began is still true of the account it looks up, and then of the *)
(* object it loaded.                                                       *)
(***************************************************************************)
EXTENDS Auth, TLAPS

Registering(r) == registration[r].phase # "idle"
Inserted(r)    == registration[r].phase \in {"answer", "commit"}

(* What has been committed was drawn: a new account is not there yet.      *)
UsersDrawn == \A a \in Accounts : users[a] # None => a \in drawn

(* A registration brings an account of its own, not committed so far.      *)
RegistrationOK(r) ==
    Registering(r) =>
        /\ registration[r].account \in drawn
        /\ registration[r].form \in User
        /\ users[registration[r].account] = None

(* From its INSERT on, its email is no other's.                            *)
EmailKept(r) == Inserted(r) => GetByEmail(registration[r].form.email) = {}

RegistrationsOK == \A r \in Requests : RegistrationOK(r) /\ EmailKept(r)

Distinct ==
    \A r, s \in Requests :
        /\ Registering(r) /\ Registering(s) /\ registration[r].account = registration[s].account
              => r = s
        /\ Inserted(r) /\ Inserted(s) /\ registration[r].form.email = registration[s].form.email
              => r = s

AccountsInv == UsersDrawn /\ RegistrationsOK /\ Distinct /\ OneAccountPerEmail

(* A token was issued to a committed account, and expires within its       *)
(* lifetime after the account was last given tokens.                       *)
TokenOK(t) ==
    /\ issued[t.sub] # None
    /\ users[t.sub] # None
    /\ t.exp <= issued[t.sub] + Lifetime(t.type)

TokensInv ==
    /\ \A t \in tokens : TokenOK(t)
    /\ \A a \in Accounts : issued[a] # None => issued[a] <= now

(* A call that came with a token came in time.                             *)
CallFresh(c) ==
    (~Calling(c, "idle") /\ call[c].kind # "login") =>
        /\ call[c].kind \in TokenType
        /\ call[c].age # None /\ call[c].age <= Lifetime(call[c].kind)

(* A call under way was not answered.  What was loaded, and nothing is     *)
(* before the lookup, is a committed account.                              *)
CallLoaded(c) ==
    /\ ~Calling(c, "idle") => ~call[c].served
    /\ Calling(c, "lookup") => call[c].row = None
    /\ (Calling(c, "found") /\ call[c].row # None) =>
           /\ call[c].sub \in Accounts
           /\ users[call[c].sub] # None

Disabled(a) == users[a] # None /\ ~users[a].is_active

(* The account was disabled when the call began: it still is, and so is    *)
(* the object that is loaded.                                              *)
CallOut(c) ==
    call[c].out =>
        /\ (Calling(c, "lookup") /\ call[c].kind = "login") =>
               \E a \in GetByEmail(call[c].claim.email) : Disabled(a)
        /\ (Calling(c, "lookup") /\ call[c].kind # "login") =>
               call[c].sub \in Accounts /\ Disabled(call[c].sub)
        /\ (Calling(c, "found") /\ call[c].row # None) => ~call[c].row.is_active

CallsInv == \A c \in Calls : CallFresh(c) /\ CallLoaded(c) /\ CallOut(c)

IInv == TypeOK /\ AccountsInv /\ TokensInv /\ CallsInv

-----------------------------------------------------------------------------
(***************************************************************************)
(* What the actions do to the record of a registration.                    *)
(***************************************************************************)

(* The other registrations are as they were.                               *)
OnlyOf(r) == \A s \in Requests \ {r} : registration'[s] = registration[s]

LEMMA GotoEffect ==
    ASSUME TypeOK, NEW r \in Requests, NEW p \in Phases, Goto(r, p)
    PROVE  /\ registration' \in [Requests -> Registration]
           /\ registration'[r] = [registration[r] EXCEPT !.phase = p]
           /\ OnlyOf(r)
<1>1. registration' = [registration EXCEPT ![r] = [registration[r] EXCEPT !.phase = p]]
  BY DEF Goto
<1>2. [registration[r] EXCEPT !.phase = p] \in Registration
  BY DEF TypeOK, Registration
<1> QED
  BY <1>1, <1>2 DEF TypeOK, OnlyOf

LEMMA EndEffect ==
    ASSUME TypeOK, NEW r \in Requests, NEW reply \in Replies, EndRegistration(r, reply)
    PROVE  /\ registration' \in [Requests -> Registration]
           /\ registration'[r].phase = "idle"
           /\ OnlyOf(r)
<1> DEFINE ended == [phase |-> "idle", account |-> None, form |-> None, reply |-> reply,
                     late |-> registration[r].late]
<1>1. registration' = [registration EXCEPT ![r] = ended]
  BY DEF EndRegistration
<1>2. ended \in Registration
  BY DEF TypeOK, Registration, Phases
<1> QED
  BY <1>1, <1>2 DEF TypeOK, OnlyOf

LEMMA RegisterEffect ==
    ASSUME TypeOK, NEW r \in Requests, NEW e \in Emails, NEW p \in Passwords, NEW a \in Accounts,
           Register(r, e, p, a)
    PROVE  /\ registration' \in [Requests -> Registration]
           /\ registration'[r].phase = "insert" /\ registration'[r].account = a
           /\ registration'[r].form \in User
           /\ OnlyOf(r)
<1> DEFINE begun == [phase |-> "insert", account |-> a, reply |-> "none", late |-> e \in confirmed,
                     form |-> [email |-> e, hashed_password |-> p, is_active |-> TRUE]]
<1>1. registration' = [registration EXCEPT ![r] = begun]
  BY DEF Register
<1>2. begun.form \in User
  BY DEF User
<1>3. begun \in Registration
  <2>1. begun.late \in BOOLEAN
    OBVIOUS
  <2> QED
    BY <1>2, <2>1 DEF Registration, Phases, Replies
<1> QED
  BY <1>1, <1>2, <1>3 DEF TypeOK, OnlyOf

LEMMA EmailKnownEffect ==
    ASSUME TypeOK, NEW r \in Requests, NEW e \in Emails, EmailKnown(r, e)
    PROVE  /\ registration' \in [Requests -> Registration]
           /\ registration[r].phase = "idle" /\ registration'[r].phase = "idle"
           /\ OnlyOf(r)
<1> DEFINE told == [registration[r] EXCEPT !.reply = "conflict", !.late = e \in confirmed]
<1>1. registration' = [registration EXCEPT ![r] = told] /\ registration[r].phase = "idle"
  BY DEF EmailKnown, At
<1>2. registration[r] \in Registration
  BY DEF TypeOK
<1>3. (e \in confirmed) \in BOOLEAN
  OBVIOUS
<1>4. told \in Registration
  BY <1>2, <1>3 DEF Registration, Replies
<1>5. told.phase = registration[r].phase
  BY <1>2 DEF Registration
<1> QED
  BY <1>1, <1>4, <1>5 DEF TypeOK, OnlyOf

LEMMA AnswerEffect ==
    ASSUME TypeOK, NEW r \in Requests, AnswerRegister(r)
    PROVE  /\ registration' \in [Requests -> Registration]
           /\ registration[r].phase = "answer" /\ registration'[r].phase = "commit"
           /\ registration'[r].account = registration[r].account
           /\ registration'[r].form = registration[r].form
           /\ OnlyOf(r)
<1> DEFINE told == [registration[r] EXCEPT !.phase = "commit", !.reply = "created"]
<1>1. registration' = [registration EXCEPT ![r] = told] /\ registration[r].phase = "answer"
  BY DEF AnswerRegister, At
<1>2. registration[r] \in Registration
  BY DEF TypeOK
<1>3. told \in Registration
  BY <1>2 DEF Registration, Replies, Phases
<1>4. told.phase = "commit" /\ told.account = registration[r].account /\ told.form = registration[r].form
  BY <1>2 DEF Registration
<1> QED
  BY <1>1, <1>3, <1>4 DEF TypeOK, OnlyOf

(* Clearing is_active leaves the account and its email.                    *)
LEMMA DeactivateEffect ==
    ASSUME TypeOK, NEW a \in Accounts, Deactivate(a)
    PROVE  /\ users' \in [Accounts -> User \cup {None}]
           /\ users[a] # None /\ users'[a] # None /\ users'[a].email = users[a].email
           /\ Disabled(a)'
           /\ \A b \in Accounts \ {a} : users'[b] = users[b]
<1> DEFINE closed == [users[a] EXCEPT !.is_active = FALSE]
<1>1. users' = [users EXCEPT ![a] = closed] /\ users[a] # None
  BY DEF Deactivate, Active
<1>2. users[a] \in User
  BY <1>1 DEF TypeOK
<1>3. closed \in User /\ closed.email = users[a].email /\ ~closed.is_active
  BY <1>2 DEF User
<1> QED
  BY <1>1, <1>3, AuthAssumption DEF TypeOK, Disabled

(* What the steps of a call do to its record.                              *)
OnlyCall(c) == \A d \in Calls \ {c} : call'[d] = call[d]

LEMMA BeginEffect ==
    ASSUME TypeOK, NEW c \in Calls, NEW begun \in Call, Begin(c, begun)
    PROVE  call' \in [Calls -> Call] /\ call'[c] = begun /\ OnlyCall(c)
BY DEF TypeOK, Begin, OnlyCall

LEMMA EndCallEffect ==
    ASSUME TypeOK, NEW c \in Calls, NEW served \in BOOLEAN, EndCall(c, served)
    PROVE  /\ call' \in [Calls -> Call]
           /\ call'[c].phase = "idle" /\ ~call'[c].out /\ call'[c].served = served
           /\ OnlyCall(c)
<1> DEFINE ended == [NoCall EXCEPT !.served = served]
<1>1. call' = [call EXCEPT ![c] = ended]
  BY DEF EndCall
<1>2. /\ ended \in Call
      /\ ended.phase = "idle" /\ ~ended.out /\ ended.served = served
  BY DEF NoCall, Call
<1> QED
  BY <1>1, <1>2 DEF TypeOK, OnlyCall

LEMMA LoginEffect ==
    ASSUME TypeOK, NEW c \in Calls, NEW e \in Emails, NEW p \in Passwords, Login(c, e, p)
    PROVE  /\ call' \in [Calls -> Call]
           /\ call'[c].phase = "lookup" /\ call'[c].kind = "login"
           /\ call'[c].row = None /\ ~call'[c].served
           /\ call'[c].claim.email = e
           /\ call'[c].out => \E a \in GetByEmail(e) : ~Active(a)
           /\ OnlyCall(c)
<1> DEFINE out   == \E a \in GetByEmail(e) : ~Active(a)
           begun == [NoCall EXCEPT !.phase = "lookup", !.kind = "login",
                                   !.claim = [email |-> e, password |-> p], !.out = out]
<1>1. Begin(c, begun)
  BY DEF Login
<1>2. out \in BOOLEAN /\ [email |-> e, password |-> p] \in Credentials
  BY DEF Credentials
<1> HIDE DEF out
<1>3. /\ begun \in Call /\ begun.phase = "lookup" /\ begun.kind = "login" /\ begun.row = None /\ ~begun.served
      /\ begun.claim.email = e /\ begun.out = out
  BY <1>2 DEF NoCall, Call, Kinds
<1>4. call' \in [Calls -> Call] /\ call'[c] = begun /\ OnlyCall(c)
  BY <1>1, <1>3, BeginEffect
<1> QED
  BY <1>3, <1>4 DEF out

LEMMA PresentEffect ==
    ASSUME TypeOK, TokensInv, NEW c \in Calls, NEW t \in tokens, NEW type \in TokenType,
           Present(c, t, type)
    PROVE  /\ call' \in [Calls -> Call]
           /\ call'[c].phase = "lookup" /\ call'[c].kind = type /\ call'[c].sub = t.sub
           /\ call'[c].row = None /\ ~call'[c].served
           /\ call'[c].age # None /\ call'[c].age <= Lifetime(type)
           /\ call'[c].out => ~Active(t.sub)
           /\ t.sub \in Accounts
           /\ OnlyCall(c)
<1> DEFINE age   == IF issued[t.sub] = None THEN None ELSE now - issued[t.sub]
           out   == ~Active(t.sub)
           begun == [NoCall EXCEPT !.phase = "lookup", !.kind = type, !.sub = t.sub,
                                   !.age = age, !.out = out]
<1>1. Begin(c, begun) /\ now <= t.exp /\ t.type = type
  BY DEF Present, DecodeToken
<1>2. /\ t.sub \in Accounts /\ t.exp \in Nat /\ now \in 0 .. MaxTime /\ MaxTime \in Nat
      /\ issued[t.sub] # None /\ t.exp <= issued[t.sub] + Lifetime(type)
      /\ issued[t.sub] \in 0 .. MaxTime /\ issued[t.sub] <= now
  BY <1>1, AuthAssumption DEF TypeOK, Token, Instants, TokensInv, TokenOK
<1>3. Lifetime(type) \in Nat
  BY AuthAssumption DEF Lifetime
<1>4. age = now - issued[t.sub]
  BY <1>2
<1>5. age \in 0 .. MaxTime /\ age <= Lifetime(type)
  BY <1>1, <1>2, <1>3, <1>4
<1>6. age # None
  BY <1>5, AuthAssumption
<1>7. out \in BOOLEAN
  BY DEF Active
<1> HIDE DEF age, out
<1>8. /\ begun \in Call /\ begun.phase = "lookup" /\ begun.kind = type /\ begun.sub = t.sub
      /\ begun.row = None /\ ~begun.served
      /\ begun.age = age /\ begun.out = out
  BY <1>2, <1>5, <1>7 DEF NoCall, Call, Kinds, TokenType
<1>9. call' \in [Calls -> Call] /\ call'[c] = begun /\ OnlyCall(c)
  BY <1>1, <1>8, BeginEffect
<1> QED
  BY <1>2, <1>5, <1>6, <1>8, <1>9 DEF out

(* The lookup loads an account it sought, or none.                         *)
LEMMA LookUpEffect ==
    ASSUME TypeOK, NEW c \in Calls, LookUp(c)
    PROVE  /\ call' \in [Calls -> Call]
           /\ call'[c].phase = "found" /\ call'[c].kind = call[c].kind
           /\ call'[c].age = call[c].age /\ call'[c].out = call[c].out
           /\ call'[c].served = call[c].served
           /\ \/ /\ call'[c].sub \in Sought(c) /\ call'[c].sub \in Accounts
                 /\ call'[c].row = users[call'[c].sub] /\ users[call'[c].sub] # None
              \/ call'[c].row = call[c].row /\ Sought(c) = {}
           /\ OnlyCall(c)
<1>1. call[c] \in Call /\ call[c].kind \in Kinds \cup {None}
  BY DEF TypeOK, Call
<1>2. ASSUME NEW a \in Sought(c), Begin(c, [call[c] EXCEPT !.phase = "found", !.sub = a, !.row = users[a]])
      PROVE  /\ call' \in [Calls -> Call]
             /\ call'[c] = [call[c] EXCEPT !.phase = "found", !.sub = a, !.row = users[a]]
             /\ a \in Accounts /\ users[a] # None
             /\ OnlyCall(c)
  <2>1. a \in Accounts /\ users[a] # None
    BY DEF Sought, GetByEmail
  <2>2. [call[c] EXCEPT !.phase = "found", !.sub = a, !.row = users[a]] \in Call
    BY <1>1, <2>1 DEF TypeOK, Call
  <2> QED
    BY <1>2, <2>1, <2>2, BeginEffect
<1>3. ASSUME Sought(c) = {}, Begin(c, [call[c] EXCEPT !.phase = "found"])
      PROVE  /\ call' \in [Calls -> Call]
             /\ call'[c] = [call[c] EXCEPT !.phase = "found"]
             /\ OnlyCall(c)
  <2>1. [call[c] EXCEPT !.phase = "found"] \in Call
    BY <1>1 DEF Call
  <2> QED
    BY <1>3, <2>1, BeginEffect
<1>4. ASSUME NEW a \in Sought(c), Begin(c, [call[c] EXCEPT !.phase = "found", !.sub = a, !.row = users[a]])
      PROVE  /\ call' \in [Calls -> Call] /\ OnlyCall(c)
             /\ call'[c].phase = "found" /\ call'[c].kind = call[c].kind
             /\ call'[c].age = call[c].age /\ call'[c].out = call[c].out
             /\ call'[c].served = call[c].served
             /\ call'[c].sub \in Sought(c) /\ call'[c].sub \in Accounts
             /\ call'[c].row = users[call'[c].sub] /\ users[call'[c].sub] # None
  <2> DEFINE loaded == [call[c] EXCEPT !.phase = "found", !.sub = a, !.row = users[a]]
  <2>1. /\ loaded.phase = "found" /\ loaded.kind = call[c].kind /\ loaded.age = call[c].age
        /\ loaded.out = call[c].out /\ loaded.served = call[c].served
        /\ loaded.sub = a /\ loaded.row = users[a]
    BY <1>1 DEF Call
  <2>2. /\ call' \in [Calls -> Call] /\ OnlyCall(c) /\ call'[c] = loaded
        /\ a \in Accounts /\ users[a] # None
    BY <1>2, <1>4
  <2> QED
    BY <2>1, <2>2
<1>5. ASSUME Sought(c) = {}, Begin(c, [call[c] EXCEPT !.phase = "found"])
      PROVE  /\ call' \in [Calls -> Call] /\ OnlyCall(c)
             /\ call'[c].phase = "found" /\ call'[c].kind = call[c].kind
             /\ call'[c].age = call[c].age /\ call'[c].out = call[c].out
             /\ call'[c].served = call[c].served
             /\ call'[c].row = call[c].row
  BY <1>1, <1>3, <1>5 DEF Call
<1>6. CASE \E a \in Sought(c) :
             Begin(c, [call[c] EXCEPT !.phase = "found", !.sub = a, !.row = users[a]])
  BY <1>4, <1>6
<1>7. CASE Sought(c) = {} /\ Begin(c, [call[c] EXCEPT !.phase = "found"])
  BY <1>5, <1>7
<1> QED
  BY <1>6, <1>7 DEF LookUp

-----------------------------------------------------------------------------
(***************************************************************************)
(* The types.                                                              *)
(***************************************************************************)

LEMMA NextTypes ==
    ASSUME IInv, [Next]_vars
    PROVE  TypeOK'
<1>a. TypeOK
  BY DEF IInv
<1>1. ASSUME NEW r \in Requests, NEW e \in Emails, EmailKnown(r, e)
      PROVE  TypeOK'
  <2>1. UNCHANGED <<users, now, tokens, drawn, confirmed, issued, call>>
    BY <1>1 DEF EmailKnown
  <2> QED
    BY <1>a, <1>1, <2>1, EmailKnownEffect DEF TypeOK
<1>2. ASSUME NEW r \in Requests, NEW e \in Emails, NEW p \in Passwords, NEW a \in Accounts,
             Register(r, e, p, a)
      PROVE  TypeOK'
  <2>1. UNCHANGED <<users, now, tokens, confirmed, issued, call>> /\ drawn' = drawn \cup {a}
    BY <1>2 DEF Register
  <2>2. registration' \in [Requests -> Registration]
    BY <1>a, <1>2, RegisterEffect
  <2> QED
    BY <1>a, <2>1, <2>2 DEF TypeOK
<1>3. ASSUME NEW r \in Requests, Continue(r)
      PROVE  TypeOK'
  <2>1. CASE Insert(r)
    BY <1>a, <2>1, GotoEffect DEF TypeOK, Insert, Phases
  <2>2. CASE EmailTaken(r)
    BY <1>a, <2>2, EndEffect DEF TypeOK, EmailTaken, Replies
  <2>3. CASE AnswerRegister(r)
    <3>1. UNCHANGED <<users, now, tokens, drawn, issued, call>>
      BY <2>3 DEF AnswerRegister
    <3>2. confirmed' \in SUBSET Emails
      <4>1. registration[r].form \in User
        BY <2>3 DEF IInv, AccountsInv, RegistrationsOK, RegistrationOK, Registering, AnswerRegister, At
      <4> QED
        BY <1>a, <2>3, <4>1 DEF TypeOK, AnswerRegister, User
    <3> QED
      BY <1>a, <2>3, <3>1, <3>2, AnswerEffect DEF TypeOK
  <2>4. CASE CommitRegister(r)
    <3>1. registration[r].reply \in Replies /\ registration[r].form \in User \cup {None}
      BY <1>a DEF TypeOK, Registration
    <3> QED
      BY <1>a, <2>4, <3>1, EndEffect DEF TypeOK, CommitRegister
  <2> QED
    BY <1>3, <2>1, <2>2, <2>3, <2>4 DEF Continue
<1>4. ASSUME NEW r \in Requests, LoseRegistration(r)
      PROVE  TypeOK'
  <2>1. registration[r].reply \in Replies
    BY <1>a DEF TypeOK, Registration
  <2> QED
    BY <1>a, <1>4, <2>1, EndEffect DEF TypeOK, LoseRegistration
<1>5. ASSUME NEW a \in Accounts, IssueTokens(a)
      PROVE  tokens' \in SUBSET Token /\ issued' \in [Accounts -> (0 .. MaxTime) \cup {None}]
  <2>1. now + AccessTTL \in Instants /\ now + RefreshTTL \in Instants
    BY <1>a, AuthAssumption DEF TypeOK, Instants
  <2>2. /\ [sub |-> a, type |-> "access", exp |-> now + AccessTTL] \in Token
        /\ [sub |-> a, type |-> "refresh", exp |-> now + RefreshTTL] \in Token
    BY <2>1 DEF Token, TokenType
  <2> QED
    BY <1>a, <1>5, <2>2 DEF TypeOK, IssueTokens
<1>6. ASSUME NEW c \in Calls, NEW e \in Emails, NEW p \in Passwords, Login(c, e, p)
      PROVE  TypeOK'
  BY <1>a, <1>6, LoginEffect DEF TypeOK, Login
<1>7. ASSUME NEW c \in Calls, NEW t \in tokens, NEW type \in TokenType,
             Present(c, t, type) \/ TokenRefused(c, t, type)
      PROVE  TypeOK'
  <2>1. call' \in [Calls -> Call]
    BY <1>a, <1>7, PresentEffect, EndCallEffect DEF IInv, TokenRefused
  <2>2. UNCHANGED <<users, registration, now, tokens, drawn, confirmed, issued>>
    BY <1>7 DEF Present, TokenRefused
  <2> QED
    BY <1>a, <2>1, <2>2 DEF TypeOK
<1>8. ASSUME NEW c \in Calls, LookUp(c) \/ LetThrough(c) \/ RefuseCall(c) \/ DropCall(c)
      PROVE  TypeOK'
  <2>1. call' \in [Calls -> Call]
    BY <1>a, <1>8, LookUpEffect, EndCallEffect DEF LetThrough, RefuseCall, DropCall
  <2>2. UNCHANGED <<users, registration, now, tokens, drawn, confirmed, issued>>
    BY <1>8 DEF LookUp, LetThrough, RefuseCall, DropCall
  <2> QED
    BY <1>a, <2>1, <2>2 DEF TypeOK
<1>12. ASSUME NEW c \in Calls, GiveTokens(c)
      PROVE  TypeOK'
  <2>1. call[c].sub \in Accounts
    BY <1>12 DEF GiveTokens, Accepts, IInv, CallsInv, CallLoaded
  <2>2. call' \in [Calls -> Call]
    BY <1>a, <1>12, EndCallEffect DEF GiveTokens
  <2>3. tokens' \in SUBSET Token /\ issued' \in [Accounts -> (0 .. MaxTime) \cup {None}]
    BY <1>5, <1>12, <2>1 DEF GiveTokens
  <2>4. UNCHANGED <<users, registration, now, drawn, confirmed>>
    BY <1>12 DEF GiveTokens
  <2> QED
    BY <1>a, <2>2, <2>3, <2>4 DEF TypeOK
<1>9. ASSUME NEW a \in Accounts, Deactivate(a)
      PROVE  TypeOK'
  <2>1. UNCHANGED <<registration, now, tokens, drawn, confirmed, issued, call>>
    BY <1>9 DEF Deactivate
  <2> QED
    BY <1>a, <1>9, <2>1, DeactivateEffect DEF TypeOK
<1>10. CASE Tick
  BY <1>a, <1>10, AuthAssumption DEF TypeOK, Tick
<1>11. CASE UNCHANGED vars
  BY <1>a, <1>11 DEF TypeOK, vars
<1> QED
  BY <1>1, <1>2, <1>3, <1>4, <1>6, <1>7, <1>8, <1>9, <1>10, <1>11, <1>12 DEF Next

-----------------------------------------------------------------------------
(***************************************************************************)
(* Registrations and the unique index.                                     *)
(***************************************************************************)

(* A request that begins no insert and is committed nowhere.               *)
LEMMA RegistrationStep ==
    ASSUME IInv, NEW r \in Requests, OnlyOf(r), UNCHANGED <<users, drawn>>,
           Registering(r)' => /\ Registering(r)
                              /\ registration'[r].account = registration[r].account
                              /\ registration'[r].form = registration[r].form,
           Inserted(r)' => \/ Inserted(r)
                           \/ /\ GetByEmail(registration[r].form.email) = {}
                              /\ ~Locked(r)
    PROVE  AccountsInv'
<1> USE DEF OnlyOf
<1>1. Inserted(r)' => Registering(r)'
  BY DEF Inserted, Registering
<1>2. UsersDrawn' /\ OneAccountPerEmail'
  BY DEF IInv, AccountsInv, UsersDrawn, OneAccountPerEmail
<1>3. ASSUME NEW s \in Requests
      PROVE  RegistrationOK(s)' /\ EmailKept(s)'
  <2>1. RegistrationOK(s) /\ EmailKept(s)
    BY DEF IInv, AccountsInv, RegistrationsOK
  <2>2. CASE s = r
    BY <1>1, <2>1, <2>2 DEF RegistrationOK, EmailKept, GetByEmail
  <2>3. CASE s # r
    BY <2>1, <2>3 DEF RegistrationOK, EmailKept, Registering, Inserted, GetByEmail
  <2> QED
    BY <2>2, <2>3
<1>4. ASSUME NEW s \in Requests \ {r}
      PROVE  /\ Registering(s)' <=> Registering(s)
             /\ Inserted(s)' <=> Inserted(s)
             /\ registration'[s] = registration[s]
             /\ Registering(r)' /\ Registering(s) => registration'[r].account # registration[s].account
             /\ Inserted(r)' /\ Inserted(s) => registration'[r].form.email # registration[s].form.email
  <2>1. /\ Registering(s)' <=> Registering(s)
        /\ Inserted(s)' <=> Inserted(s)
        /\ registration'[s] = registration[s]
    BY DEF Registering, Inserted
  <2>2. Registering(r)' /\ Registering(s) => registration'[r].account # registration[s].account
    BY DEF IInv, AccountsInv, Distinct
  <2>3. Inserted(r)' /\ Inserted(s) => registration'[r].form.email # registration[s].form.email
    BY <1>1 DEF IInv, AccountsInv, Distinct, Locked, Inserted
  <2> QED
    BY <2>1, <2>2, <2>3
<1>5. Distinct'
  BY <1>4 DEF IInv, AccountsInv, Distinct
<1> QED
  BY <1>2, <1>3, <1>5 DEF AccountsInv, RegistrationsOK

LEMMA RegisterKeeps ==
    ASSUME IInv, NEW r \in Requests, NEW e \in Emails, NEW p \in Passwords, NEW a \in Accounts,
           Register(r, e, p, a)
    PROVE  AccountsInv'
<1>1. /\ registration'[r].phase = "insert" /\ registration'[r].account = a
      /\ registration'[r].form \in User
      /\ OnlyOf(r)
  BY RegisterEffect DEF IInv
<1>2. users' = users /\ drawn' = drawn \cup {a} /\ a \notin drawn
  BY DEF Register
<1>3. users[a] = None
  BY <1>2 DEF IInv, AccountsInv, UsersDrawn
<1>4. UsersDrawn' /\ OneAccountPerEmail'
  BY <1>2 DEF IInv, AccountsInv, UsersDrawn, OneAccountPerEmail
<1>5. ASSUME NEW s \in Requests \ {r}
      PROVE  /\ RegistrationOK(s) /\ EmailKept(s)
             /\ Registering(s)' <=> Registering(s)
             /\ Inserted(s)' <=> Inserted(s)
             /\ registration'[s] = registration[s]
  BY <1>1 DEF OnlyOf, Registering, Inserted, IInv, AccountsInv, RegistrationsOK
<1>6. RegistrationOK(r)' /\ EmailKept(r)' /\ ~Inserted(r)'
  BY <1>1, <1>2, <1>3 DEF RegistrationOK, EmailKept, Inserted
<1>7. \A s \in Requests \ {r} : RegistrationOK(s)' /\ EmailKept(s)'
  BY <1>2, <1>5 DEF RegistrationOK, EmailKept, GetByEmail
<1>8. \A s \in Requests \ {r} : Registering(s) => registration[s].account # a
  BY <1>2, <1>5 DEF RegistrationOK
<1>9. Distinct'
  BY <1>1, <1>5, <1>6, <1>8 DEF IInv, AccountsInv, Distinct
<1> QED
  BY <1>4, <1>6, <1>7, <1>9 DEF AccountsInv, RegistrationsOK

LEMMA CommitRegisterKeeps ==
    ASSUME IInv, NEW r \in Requests, CommitRegister(r)
    PROVE  AccountsInv'
<1> DEFINE a == registration[r].account
           f == registration[r].form
<1>1. /\ Registering(r) /\ Inserted(r)
      /\ a \in Accounts /\ a \in drawn /\ f \in User /\ f # None /\ users[a] = None
      /\ GetByEmail(f.email) = {}
  BY AuthAssumption DEF IInv, TypeOK, AccountsInv, RegistrationsOK, RegistrationOK, EmailKept,
                        CommitRegister, At, Registering, Inserted
<1>2. users'[a] = f /\ (\A b \in Accounts \ {a} : users'[b] = users[b]) /\ drawn' = drawn
  BY <1>1 DEF CommitRegister, IInv, TypeOK
<1>3. registration'[r].phase = "idle" /\ OnlyOf(r)
  <2>1. registration[r].reply \in Replies
    BY DEF IInv, TypeOK, Registration
  <2> QED
    BY <2>1, EndEffect DEF CommitRegister, IInv
<1>4. UsersDrawn'
  BY <1>1, <1>2 DEF IInv, AccountsInv, UsersDrawn
<1>5. OneAccountPerEmail'
  <2>1. \A b \in Accounts : users[b] # None => users[b].email # f.email
    BY <1>1 DEF GetByEmail
  <2> QED
    BY <1>1, <1>2, <2>1 DEF IInv, AccountsInv, OneAccountPerEmail
<1>6. ASSUME NEW s \in Requests \ {r}
      PROVE  /\ RegistrationOK(s) /\ EmailKept(s)
             /\ Registering(s)' <=> Registering(s)
             /\ Inserted(s)' <=> Inserted(s)
             /\ registration'[s] = registration[s]
             /\ Registering(s) => registration[s].account # a
             /\ Inserted(s) => registration[s].form.email # f.email
  BY <1>1, <1>3 DEF OnlyOf, Registering, Inserted, IInv, AccountsInv, RegistrationsOK, Distinct
<1>7. ~Registering(r)' /\ ~Inserted(r)'
  BY <1>3 DEF Registering, Inserted
<1>8. ASSUME NEW s \in Requests
      PROVE  RegistrationOK(s)' /\ EmailKept(s)'
  <2>1. CASE s = r
    BY <1>7, <2>1 DEF RegistrationOK, EmailKept
  <2>2. CASE s # r
    <3>1. RegistrationOK(s)'
      BY <1>2, <1>6, <2>2 DEF RegistrationOK, IInv, TypeOK
    <3>2. EmailKept(s)'
      BY <1>1, <1>2, <1>6, <2>2 DEF EmailKept, GetByEmail
    <3> QED
      BY <3>1, <3>2
  <2> QED
    BY <2>1, <2>2
<1>9. Distinct'
  BY <1>6, <1>7 DEF IInv, AccountsInv, Distinct
<1> QED
  BY <1>4, <1>5, <1>8, <1>9 DEF AccountsInv, RegistrationsOK

LEMMA DeactivateKeeps ==
    ASSUME IInv, NEW a \in Accounts, Deactivate(a)
    PROVE  AccountsInv'
<1>1. UNCHANGED <<registration, drawn>>
  BY DEF Deactivate
<1>2. \A b \in Accounts :
          /\ users'[b] = None <=> users[b] = None
          /\ users[b] # None => users'[b].email = users[b].email
  BY DeactivateEffect DEF IInv
<1>3. UsersDrawn' /\ OneAccountPerEmail'
  BY <1>1, <1>2 DEF IInv, AccountsInv, UsersDrawn, OneAccountPerEmail
<1>4. Distinct'
  BY <1>1 DEF IInv, AccountsInv, Distinct, Registering, Inserted
<1>5. ASSUME NEW s \in Requests
      PROVE  RegistrationOK(s)' /\ EmailKept(s)'
  <2>1. RegistrationOK(s) /\ EmailKept(s)
    BY DEF IInv, AccountsInv, RegistrationsOK
  <2>2. RegistrationOK(s)'
    BY <1>1, <1>2, <2>1 DEF RegistrationOK, Registering, IInv, TypeOK
  <2>3. EmailKept(s)'
    BY <1>1, <1>2, <2>1 DEF EmailKept, Inserted, GetByEmail
  <2> QED
    BY <2>2, <2>3
<1> QED
  BY <1>3, <1>4, <1>5 DEF AccountsInv, RegistrationsOK

LEMMA AccountsUntouched ==
    ASSUME IInv, UNCHANGED <<users, registration, drawn>>
    PROVE  AccountsInv'
BY DEF IInv, AccountsInv, UsersDrawn, RegistrationsOK, RegistrationOK, EmailKept, Distinct,
       OneAccountPerEmail, Registering, Inserted, GetByEmail

LEMMA NextAccounts ==
    ASSUME IInv, [Next]_vars
    PROVE  AccountsInv'
<1>1. ASSUME NEW r \in Requests, NEW e \in Emails, EmailKnown(r, e)
      PROVE  AccountsInv'
  <2>1. UNCHANGED <<users, drawn>>
    BY <1>1 DEF EmailKnown
  <2>2. OnlyOf(r) /\ ~Registering(r)' /\ ~Inserted(r)'
    BY <1>1, EmailKnownEffect DEF IInv, Registering, Inserted
  <2> QED
    BY <2>1, <2>2, RegistrationStep
<1>2. ASSUME NEW r \in Requests, Insert(r)
      PROVE  AccountsInv'
  <2>1. /\ UNCHANGED <<users, drawn>>
        /\ Registering(r) /\ ~Locked(r) /\ GetByEmail(registration[r].form.email) = {}
    BY <1>2 DEF Insert, At, Registering
  <2>2. /\ OnlyOf(r)
        /\ registration'[r] = [registration[r] EXCEPT !.phase = "answer"]
    BY <1>2, GotoEffect DEF Insert, IInv, Phases
  <2>3. /\ registration'[r].account = registration[r].account
        /\ registration'[r].form = registration[r].form
    BY <2>2 DEF IInv, TypeOK, Registration
  <2> QED
    BY <2>1, <2>2, <2>3, RegistrationStep
<1>3. ASSUME NEW r \in Requests, EmailTaken(r) \/ LoseRegistration(r)
      PROVE  AccountsInv'
  <2>1. UNCHANGED <<users, drawn>>
    BY <1>3 DEF EmailTaken, LoseRegistration
  <2>2. OnlyOf(r) /\ ~Registering(r)' /\ ~Inserted(r)'
    <3>1. "server_error" \in Replies /\ registration[r].reply \in Replies
      BY DEF IInv, TypeOK, Registration, Replies
    <3> QED
      BY <1>3, <3>1, EndEffect DEF IInv, EmailTaken, LoseRegistration, Registering, Inserted
  <2> QED
    BY <2>1, <2>2, RegistrationStep
<1>4. ASSUME NEW r \in Requests, AnswerRegister(r)
      PROVE  AccountsInv'
  <2>1. UNCHANGED <<users, drawn>>
    BY <1>4 DEF AnswerRegister
  <2>2. /\ OnlyOf(r) /\ Registering(r) /\ Inserted(r)
        /\ registration'[r].account = registration[r].account
        /\ registration'[r].form = registration[r].form
    BY <1>4, AnswerEffect DEF IInv, Registering, Inserted
  <2> QED
    BY <2>1, <2>2, RegistrationStep
<1>5. CASE Tick \/ UNCHANGED vars
  BY <1>5, AccountsUntouched DEF Tick, vars
<1>6. ASSUME NEW c \in Calls, NEW e \in Emails, NEW p \in Passwords, Login(c, e, p)
      PROVE  AccountsInv'
  BY <1>6, AccountsUntouched DEF Login
<1>7. ASSUME NEW c \in Calls, NEW t \in tokens, NEW type \in TokenType,
             Present(c, t, type) \/ TokenRefused(c, t, type)
      PROVE  AccountsInv'
  BY <1>7, AccountsUntouched DEF Present, TokenRefused
<1>8. ASSUME NEW c \in Calls,
             LookUp(c) \/ GiveTokens(c) \/ LetThrough(c) \/ RefuseCall(c) \/ DropCall(c)
      PROVE  AccountsInv'
  BY <1>8, AccountsUntouched DEF LookUp, GiveTokens, LetThrough, RefuseCall, DropCall
<1> QED
  BY <1>1, <1>2, <1>3, <1>4, <1>5, <1>6, <1>7, <1>8, RegisterKeeps, CommitRegisterKeeps, DeactivateKeeps
     DEF Next, Continue

-----------------------------------------------------------------------------
(***************************************************************************)
(* Tokens and their expiry.                                                *)
(***************************************************************************)

(* An account that is committed stays committed, with its email, and one   *)
(* that is disabled stays disabled.                                        *)
LEMMA UsersStay ==
    ASSUME IInv, [Next]_vars, NEW a \in Accounts, users[a] # None
    PROVE  /\ users'[a] # None /\ users'[a].email = users[a].email
           /\ Disabled(a) => Disabled(a)'
<1>1. ASSUME NEW r \in Requests, CommitRegister(r)
      PROVE  users'[a] = users[a]
  <2>1. registration[r].account \in drawn /\ users[registration[r].account] = None
    BY <1>1 DEF IInv, AccountsInv, RegistrationsOK, RegistrationOK, Registering, CommitRegister, At
  <2> QED
    BY <1>1, <2>1 DEF CommitRegister, IInv, TypeOK
<1>2. ASSUME NEW b \in Accounts, Deactivate(b)
      PROVE  /\ users'[a] # None /\ users'[a].email = users[a].email
             /\ Disabled(a) => Disabled(a)'
  <2>1. /\ users'[b] # None /\ users'[b].email = users[b].email /\ Disabled(b)'
        /\ \A d \in Accounts \ {b} : users'[d] = users[d]
    BY <1>2, DeactivateEffect DEF IInv
  <2> QED
    BY <2>1 DEF Disabled
<1>3. CASE UNCHANGED users
  BY <1>3 DEF Disabled
<1> QED
  BY <1>1, <1>2, <1>3
     DEF Next, Continue, vars, EmailKnown, Register, Insert, EmailTaken, AnswerRegister, LoseRegistration,
         Login, Present, TokenRefused, LookUp, GiveTokens, LetThrough, RefuseCall, DropCall, Tick, Disabled

LEMMA IssueKeeps ==
    ASSUME IInv, NEW a \in Accounts, users[a] # None, IssueTokens(a), UNCHANGED <<now, users>>
    PROVE  TokensInv'
<1>1. now \in 0 .. MaxTime /\ now # None
  BY AuthAssumption DEF IInv, TypeOK
<1>2. issued'[a] = now /\ \A b \in Accounts \ {a} : issued'[b] = issued[b]
  BY DEF IssueTokens, IInv, TypeOK
<1>3. \A b \in Accounts : issued'[b] # None => issued'[b] <= now
  BY <1>1, <1>2 DEF IInv, TokensInv
<1>4. ASSUME NEW t \in tokens
      PROVE  TokenOK(t)'
  <2>1. t.sub \in Accounts /\ t.exp \in Nat /\ TokenOK(t)
    BY AuthAssumption DEF IInv, TypeOK, Token, Instants, TokensInv
  <2>2. CASE t.sub = a
    <3>1. issued[a] \in 0 .. MaxTime /\ issued[a] <= now
      BY <2>1, <2>2 DEF TokenOK, IInv, TypeOK, TokensInv
    <3>2. Lifetime(t.type) \in Nat
      BY AuthAssumption DEF Lifetime
    <3>3. t.exp <= issued[a] + Lifetime(t.type)
      BY <2>1, <2>2 DEF TokenOK
    <3>4. t.exp <= now + Lifetime(t.type)
      BY <1>1, <2>1, <3>1, <3>2, <3>3, AuthAssumption
    <3> QED
      BY <1>1, <1>2, <2>1, <2>2, <3>4 DEF TokenOK, Lifetime
  <2>3. CASE t.sub # a
    BY <1>2, <2>1, <2>3 DEF TokenOK, Lifetime
  <2> QED
    BY <2>2, <2>3
<1>5. ASSUME NEW t \in tokens', t \notin tokens
      PROVE  TokenOK(t)'
  <2>1. t.sub = a /\ t.exp = now + Lifetime(t.type)
    BY <1>5 DEF IssueTokens, Lifetime
  <2>2. now + Lifetime(t.type) <= now + Lifetime(t.type)
    BY <1>1, AuthAssumption DEF Lifetime
  <2> QED
    BY <1>1, <1>2, <2>1, <2>2 DEF TokenOK, Lifetime
<1> QED
  BY <1>3, <1>4, <1>5 DEF TokensInv

LEMMA NextTokens ==
    ASSUME IInv, [Next]_vars
    PROVE  TokensInv'
<1>1. CASE UNCHANGED <<tokens, issued, now>>
  <2>1. \A t \in tokens : t.sub \in Accounts
    BY DEF IInv, TypeOK, Token
  <2>2. \A t \in tokens : TokenOK(t)'
    BY <1>1, <2>1, UsersStay DEF IInv, TokensInv, TokenOK, Lifetime
  <2> QED
    BY <1>1, <2>2 DEF IInv, TokensInv
<1>2. CASE Tick
  <2>1. now \in Nat /\ now' = now + 1 /\ UNCHANGED <<tokens, issued, users>>
    BY <1>2, AuthAssumption DEF Tick, IInv, TypeOK
  <2>2. \A a \in Accounts : issued[a] # None => issued[a] \in Nat
    BY AuthAssumption DEF IInv, TypeOK
  <2> QED
    BY <2>1, <2>2 DEF IInv, TokensInv, TokenOK, Lifetime
<1>3. ASSUME NEW c \in Calls, GiveTokens(c)
      PROVE  TokensInv'
  <2>1. call[c].sub \in Accounts /\ users[call[c].sub] # None
    BY <1>3 DEF GiveTokens, Accepts, IInv, CallsInv, CallLoaded
  <2> QED
    BY <1>3, <2>1, IssueKeeps DEF GiveTokens
<1> QED
  BY <1>1, <1>2, <1>3
     DEF Next, Continue, vars, EmailKnown, Register, Insert, EmailTaken, AnswerRegister, CommitRegister,
         LoseRegistration, Login, Present, TokenRefused, LookUp, LetThrough, RefuseCall, DropCall,
         Deactivate

-----------------------------------------------------------------------------
(***************************************************************************)
(* Calls under way.                                                        *)
(***************************************************************************)

CallOK(c) == CallFresh(c) /\ CallLoaded(c) /\ CallOut(c)

(* Whatever else happens, a call that waits is as good as it was.          *)
LEMMA CallStays ==
    ASSUME IInv, [Next]_vars, NEW c \in Calls, call'[c] = call[c]
    PROVE  CallOK(c)'
<1>1. CallFresh(c) /\ CallLoaded(c) /\ CallOut(c)
  BY DEF IInv, CallsInv
<1>2. CallFresh(c)'
  BY <1>1 DEF CallFresh, Calling, Lifetime
<1>3. CallLoaded(c)'
  BY <1>1, UsersStay DEF CallLoaded, Calling
<1>4. \A a \in Accounts : Disabled(a) => Disabled(a)'
  BY UsersStay DEF Disabled
<1>5. \A e : \A a \in Accounts : a \in GetByEmail(e) => a \in GetByEmail(e)'
  BY UsersStay DEF GetByEmail
<1>6. \A e : (\E a \in GetByEmail(e) : Disabled(a)) => (\E a \in GetByEmail(e)' : Disabled(a)')
  BY <1>4, <1>5 DEF GetByEmail
<1>7. CallOut(c)'
  BY <1>1, <1>4, <1>6 DEF CallOut, Calling, GetByEmail
<1> QED
  BY <1>2, <1>3, <1>7 DEF CallOK

(* The object loaded is the account that was disabled, if one was.         *)
LEMMA LookUpKeeps ==
    ASSUME IInv, NEW c \in Calls, LookUp(c)
    PROVE  CallOK(c)'
<1>1. /\ call'[c].phase = "found" /\ call'[c].kind = call[c].kind
      /\ call'[c].age = call[c].age /\ call'[c].out = call[c].out
      /\ call'[c].served = call[c].served
      /\ \/ /\ call'[c].sub \in Sought(c) /\ call'[c].sub \in Accounts
            /\ call'[c].row = users[call'[c].sub] /\ users[call'[c].sub] # None
         \/ call'[c].row = call[c].row /\ Sought(c) = {}
  BY LookUpEffect DEF IInv
<1>2. users' = users /\ Calling(c, "lookup")
  BY DEF LookUp
<1>3. CallFresh(c) /\ CallOut(c) /\ call[c].row = None /\ ~call[c].served
  BY <1>2 DEF IInv, CallsInv, CallLoaded, Calling
<1>4. CallFresh(c)'
  BY <1>1, <1>2, <1>3 DEF CallFresh, Calling, Lifetime
<1>5. CallLoaded(c)'
  BY <1>1, <1>2, <1>3 DEF CallLoaded, Calling
<1>6. ASSUME call[c].out, call'[c].row # None
      PROVE  ~call'[c].row.is_active
  <2>1. call'[c].sub \in Sought(c) /\ call'[c].row = users[call'[c].sub]
    BY <1>1, <1>3, <1>6
  <2>2. CASE call[c].kind = "login"
    <3>1. PICK a \in GetByEmail(call[c].claim.email) : Disabled(a)
      BY <1>2, <1>3, <1>6, <2>2 DEF CallOut
    <3>2. call'[c].sub \in GetByEmail(call[c].claim.email)
      BY <2>1, <2>2 DEF Sought
    <3>3. call'[c].sub = a
      BY <3>1, <3>2 DEF GetByEmail, IInv, AccountsInv, OneAccountPerEmail
    <3> QED
      BY <2>1, <3>1, <3>3 DEF Disabled
  <2>3. CASE call[c].kind # "login"
    BY <1>2, <1>3, <1>6, <2>1, <2>3 DEF CallOut, Sought, Disabled
  <2> QED
    BY <2>2, <2>3
<1>7. CallOut(c)'
  BY <1>1, <1>6 DEF CallOut, Calling
<1> QED
  BY <1>4, <1>5, <1>7 DEF CallOK

LEMMA NextCalls ==
    ASSUME IInv, [Next]_vars
    PROVE  CallsInv'
<1>a. ASSUME NEW c \in Calls, OnlyCall(c), CallOK(c)'
      PROVE  CallsInv'
  BY <1>a, CallStays DEF CallsInv, OnlyCall, CallOK
<1>1. ASSUME NEW c \in Calls, NEW e \in Emails, NEW p \in Passwords, Login(c, e, p)
      PROVE  CallsInv'
  <2>1. /\ call'[c].phase = "lookup" /\ call'[c].kind = "login" /\ call'[c].claim.email = e
        /\ call'[c].row = None /\ ~call'[c].served
        /\ call'[c].out => \E a \in GetByEmail(e) : ~Active(a)
        /\ OnlyCall(c)
    BY <1>1, LoginEffect DEF IInv
  <2>2. users' = users
    BY <1>1 DEF Login
  <2>3. (\E a \in GetByEmail(e) : ~Active(a)) => \E a \in GetByEmail(e) : Disabled(a)
    BY DEF GetByEmail, Active, Disabled
  <2>4. CallOK(c)'
    BY <2>1, <2>2, <2>3 DEF CallOK, CallFresh, CallLoaded, CallOut, Calling, GetByEmail, Disabled
  <2> QED
    BY <1>a, <2>1, <2>4
<1>2. ASSUME NEW c \in Calls, NEW t \in tokens, NEW type \in TokenType, Present(c, t, type)
      PROVE  CallsInv'
  <2>1. /\ call'[c].phase = "lookup" /\ call'[c].kind = type /\ call'[c].sub = t.sub
        /\ call'[c].row = None /\ ~call'[c].served
        /\ call'[c].age # None /\ call'[c].age <= Lifetime(type)
        /\ call'[c].out => ~Active(t.sub)
        /\ t.sub \in Accounts
        /\ OnlyCall(c)
    BY <1>2, PresentEffect DEF IInv
  <2>2. users' = users
    BY <1>2 DEF Present
  <2>3. ~Active(t.sub) => Disabled(t.sub)
    BY DEF IInv, TokensInv, TokenOK, Active, Disabled
  <2>4. type # "login"
    BY DEF TokenType
  <2>5. CallOK(c)'
    BY <2>1, <2>2, <2>3, <2>4
       DEF CallOK, CallFresh, CallLoaded, CallOut, Calling, Disabled, Lifetime
  <2> QED
    BY <1>a, <2>1, <2>5
<1>3. ASSUME NEW c \in Calls, LookUp(c)
      PROVE  CallsInv'
  BY <1>a, <1>3, LookUpEffect, LookUpKeeps DEF IInv
<1>4. ASSUME NEW c \in Calls, NEW served \in BOOLEAN, EndCall(c, served)
      PROVE  CallsInv'
  <2>1. call'[c].phase = "idle" /\ ~call'[c].out /\ OnlyCall(c)
    BY <1>4, EndCallEffect DEF IInv
  <2>2. CallOK(c)'
    BY <2>1 DEF CallOK, CallFresh, CallLoaded, CallOut, Calling
  <2> QED
    BY <1>a, <2>1, <2>2
<1>5. ASSUME NEW c \in Calls,
             \/ \E t \in tokens, type \in TokenType : TokenRefused(c, t, type)
             \/ GiveTokens(c) \/ LetThrough(c) \/ RefuseCall(c) \/ DropCall(c)
      PROVE  CallsInv'
  BY <1>4, <1>5 DEF TokenRefused, GiveTokens, LetThrough, RefuseCall, DropCall
<1>6. CASE UNCHANGED call
  BY <1>6, CallStays DEF CallsInv, CallOK
<1> QED
  BY <1>1, <1>2, <1>3, <1>5, <1>6
     DEF Next, Continue, vars, EmailKnown, Register, Insert, EmailTaken, AnswerRegister, CommitRegister,
         LoseRegistration, Deactivate, Tick

-----------------------------------------------------------------------------

LEMMA InitKeeps ==
    ASSUME Init
    PROVE  IInv
<1>1. TypeOK
  BY AuthAssumption DEF Init, TypeOK, Registration, Phases, Replies, NoCall, Call
<1>2. AccountsInv
  BY DEF Init, AccountsInv, UsersDrawn, RegistrationsOK, RegistrationOK, EmailKept, Distinct,
         OneAccountPerEmail, Registering, Inserted
<1>3. TokensInv
  BY DEF Init, TokensInv
<1>4. CallsInv
  BY DEF Init, CallsInv, CallFresh, CallLoaded, CallOut, Calling, NoCall
<1> QED
  BY <1>1, <1>2, <1>3, <1>4 DEF IInv

(* Accounts, registrations, tokens and the calls under way fit together in *)
(* every state that register, login, refresh, authenticated requests, an   *)
(* operator and lost commits can reach.                                    *)
THEOREM Invariance == Spec => []IInv
<1>1. Init => IInv
  BY InitKeeps
<1>2. IInv /\ [Next]_vars => IInv'
  BY NextTypes, NextAccounts, NextTokens, NextCalls DEF IInv
<1> QED
  BY <1>1, <1>2, PTL DEF Spec

(* The accounts, the registrations under way and the tokens keep their     *)
(* types (models.py User, auth.py register, security.py).                  *)
THEOREM AuthTypes == Spec => []TypeOK
<1>1. IInv => TypeOK
  BY DEF IInv
<1> QED
  BY <1>1, Invariance, PTL

(* However many registrations of one email overlap, whatever their lookups *)
(* saw and whichever of them are lost, one account comes of them           *)
(* (auth.py register, models.py User.email).                               *)
THEOREM EmailsAreUnique == Spec => []OneAccountPerEmail
<1>1. IInv => OneAccountPerEmail
  BY DEF IInv, AccountsInv
<1> QED
  BY <1>1, Invariance, PTL

(* A request is let through, or its tokens are refreshed, only if it came  *)
(* within the lifetime of its type of token after its user was last given  *)
(* tokens, however long its lookup waited (deps.py get_current_user,       *)
(* auth.py refresh, security.py decode_token).                             *)
THEOREM AccessIsAlwaysFresh == Spec => AccessIsFresh
<1> DEFINE Fresh == \A c \in Calls : (Served(c) /\ call[c].kind # "login") =>
                        call[c].age # None /\ call[c].age <= Lifetime(call[c].kind)
<1>1. IInv => Fresh
  BY DEF IInv, CallsInv, CallFresh, Served, Calling
<1>2. IInv /\ [Next]_vars => [Fresh]_vars
  BY <1>1
<1> QED
  BY <1>2, Invariance, PTL DEF Spec, AccessIsFresh

(* Whatever tokens a disabled account still holds, a call that begins with *)
(* one of them gets nothing, however it overlaps with others, and tokens   *)
(* come of nothing but a login or a refresh that is served (deps.py        *)
(* get_current_user, auth.py authenticate and refresh).                    *)
THEOREM DeactivatedAlwaysStaysOut == Spec => DeactivatedStaysOut
<1> DEFINE Out == /\ \A c \in Calls : Served(c) => ~call[c].out
                  /\ \A t \in tokens' \ tokens :
                        \E c \in Calls : Served(c) /\ call[c].sub = t.sub /\ call[c].kind # "access"
<1>1. ASSUME IInv, NEW c \in Calls, Accepts(c), Calling(c, "found")
      PROVE  ~call[c].out
  BY <1>1 DEF IInv, CallsInv, CallOut, Accepts
<1>2. ASSUME IInv, NEW c \in Calls, EndCall(c, FALSE)
      PROVE  \A d \in Calls : ~Served(d)
  <2>1. ~call'[c].served /\ OnlyCall(c)
    BY <1>2, EndCallEffect DEF IInv
  <2>2. \A d \in Calls : Calling(d, "found") => ~call[d].served
    BY <1>2 DEF IInv, CallsInv, CallLoaded, Calling
  <2> QED
    BY <2>1, <2>2 DEF Served, OnlyCall
<1>3. ASSUME IInv, NEW c \in Calls, Accepts(c), Calling(c, "found"), EndCall(c, TRUE)
      PROVE  \A d \in Calls : Served(d) <=> d = c
  <2>1. call'[c].served /\ OnlyCall(c)
    BY <1>3, EndCallEffect DEF IInv
  <2>2. \A d \in Calls : Calling(d, "found") => ~call[d].served
    BY <1>3 DEF IInv, CallsInv, CallLoaded, Calling
  <2> QED
    BY <1>3, <2>1, <2>2 DEF Served, OnlyCall
<1>4. ASSUME IInv, NEW c \in Calls, GiveTokens(c)
      PROVE  Out
  <2>1. /\ Accepts(c) /\ Calling(c, "found") /\ EndCall(c, TRUE) /\ IssueTokens(call[c].sub)
        /\ call[c].kind # "access"
    BY <1>4 DEF GiveTokens
  <2>2. Served(c) /\ \A d \in Calls : Served(d) => ~call[d].out
    BY <1>1, <1>3, <1>4, <2>1
  <2>3. \A t \in tokens' \ tokens : t.sub = call[c].sub
    BY <2>1 DEF IssueTokens
  <2> QED
    BY <2>1, <2>2, <2>3
<1>5. ASSUME IInv, NEW c \in Calls, LetThrough(c)
      PROVE  Out
  <2>1. Accepts(c) /\ Calling(c, "found") /\ EndCall(c, TRUE) /\ tokens' = tokens
    BY <1>5 DEF LetThrough
  <2>2. \A d \in Calls : Served(d) => ~call[d].out
    BY <1>1, <1>3, <1>5, <2>1
  <2> QED
    BY <2>1, <2>2
<1>6. ASSUME IInv, NEW c \in Calls,
             \/ \E t \in tokens, type \in TokenType : TokenRefused(c, t, type)
             \/ RefuseCall(c) \/ DropCall(c)
      PROVE  Out
  <2>1. EndCall(c, FALSE) /\ tokens' = tokens
    BY <1>6 DEF TokenRefused, RefuseCall, DropCall
  <2> QED
    BY <1>2, <1>6, <2>1
<1>7. ASSUME IInv, NEW c \in Calls, OnlyCall(c), call'[c].served => ~Calling(c, "found"), tokens' = tokens
      PROVE  Out
  <2>1. \A d \in Calls : ~Served(d)
    BY <1>7 DEF Served, OnlyCall, IInv, CallsInv, CallLoaded, Calling
  <2> QED
    BY <1>7, <2>1
<1>8. ASSUME IInv, NEW c \in Calls, NEW e \in Emails, NEW p \in Passwords, Login(c, e, p)
      PROVE  Out
  BY <1>7, <1>8, LoginEffect DEF IInv, Login
<1>9. ASSUME IInv, NEW c \in Calls, NEW t \in tokens, NEW type \in TokenType, Present(c, t, type)
      PROVE  Out
  BY <1>7, <1>9, PresentEffect DEF IInv, Present
<1>10. ASSUME IInv, NEW c \in Calls, LookUp(c)
       PROVE  Out
  <2>1. ~call[c].served
    BY <1>10 DEF IInv, CallsInv, CallLoaded, LookUp, Calling
  <2> QED
    BY <1>7, <1>10, <2>1, LookUpEffect DEF IInv, LookUp
<1>11. ASSUME IInv, UNCHANGED <<call, tokens>>
       PROVE  Out
  BY <1>11 DEF Served, IInv, CallsInv, CallLoaded, Calling
<1>12. ASSUME IInv, [Next]_vars
       PROVE  Out
  BY <1>12, <1>4, <1>5, <1>6, <1>8, <1>9, <1>10, <1>11
     DEF Next, Continue, vars, EmailKnown, Register, Insert, EmailTaken, AnswerRegister, CommitRegister,
         LoseRegistration, Deactivate, Tick
<1>13. IInv /\ [Next]_vars => [Out]_vars
  BY <1>12
<1> QED
  BY <1>13, Invariance, PTL DEF Spec, DeactivatedStaysOut

=============================================================================
