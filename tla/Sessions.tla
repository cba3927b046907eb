------------------------------ MODULE Sessions ------------------------------
(***************************************************************************)
(* Users and their sessions: concurrent requests that register, log in or  *)
(* present a token, and the cleanup goroutine that deletes what expired.   *)
(* Registration is a PostgreSQL transaction of two inserts; every          *)
(* statement is one action, and a uniqueness conflict with a transaction   *)
(* in progress waits for its end.                                          *)
(*                                                                         *)
(* Passwords stand for themselves: hashing and comparing them is not       *)
(* modelled.  A nonce stands for the random bytes of a user's ID and of a  *)
(* session's token, which never repeat.                                    *)
(***************************************************************************)
EXTENDS Integers

CONSTANTS
    Logins,     \* the logins that clients use
    Passwords,  \* the passwords that clients use
    Nonces,     \* bound: the random values that get drawn
    Requests,   \* the requests the HTTP server handles at once
    None,       \* nothing
    Lifetime,   \* sessionLifetime
    MaxTime     \* bound: when the clock stops

Account == [id : Nonces, login : Logins, password : Passwords]
Session == [token : Nonces, id : Nonces, expires : Nat]

\* What a request asks for, and what it has read or made up so far.  "known" is
\* history: whether there was reason to let it in when it came.
Registration ==
    [kind : {"register"}, login : Logins, password : Passwords, session : Session]
Login ==
    [kind : {"login"}, login : Logins, password : Passwords,
     session : Session \cup {None}, known : BOOLEAN]
Access ==
    [kind : {"access"}, token : Nonces, session : Session \cup {None}, known : BOOLEAN]

ASSUME ConstantsAssumption ==
    /\ Lifetime \in Nat \ {0}
    /\ MaxTime \in Nat

VARIABLES
    now,        \* the clock
    users,      \* the users table
    sessions,   \* the user_sessions table
    drawn,      \* the nonces drawn so far
    cutoff,     \* the time the cleanup's DELETE compares with, while it runs
    pc,         \* where each request is
    req,        \* what each request asks for
    resp,       \* the answer each request got
    issued      \* history: the sessions whose token a client has received

vars == <<now, users, sessions, drawn, cutoff, pc, req, resp, issued>>
-----------------------------------------------------------------------------
\* The states of a registration whose user row is inserted and not committed.
Inserting == {"insert session", "commit", "in doubt"}
PCs == {"idle", "insert user", "find user", "add session", "get session", "check expiry"}
          \cup Inserting
Responses == {"none", "ok", "conflict", "unauthorized", "error"}

TypeOK ==
    /\ now \in Nat
    /\ users \subseteq Account
    /\ sessions \subseteq Session
    /\ drawn \subseteq Nonces
    /\ cutoff \in Nat \cup {None}
    /\ pc \in [Requests -> PCs]
    /\ req \in [Requests -> Registration \cup Login \cup Access \cup {None}]
    /\ resp \in [Requests -> Responses]
    /\ issued \subseteq Session

HasInserted(r, login) == pc[r] \in Inserting /\ req[r].login = login

\* newSession: the token is new, the lifetime starts before it is stored.
NewSession(n, id) == [token |-> n, id |-> id, expires |-> now + Lifetime]

\* The user that a registration stores.
Registrant(q) == [id |-> q.session.id, login |-> q.login, password |-> q.password]

Matches(a, login, password) == a.login = login /\ a.password = password
-----------------------------------------------------------------------------
Goto(r, label) ==
    /\ pc' = [pc EXCEPT ![r] = label]
    /\ UNCHANGED resp

\* The handler answers; the deferred Rollback has ended a transaction.
Answer(r, response) ==
    /\ pc' = [pc EXCEPT ![r] = "idle"]
    /\ resp' = [resp EXCEPT ![r] = response]

\* A request comes in.
Start(r, label, q) ==
    /\ pc[r] = "idle"
    /\ pc' = [pc EXCEPT ![r] = label]
    /\ req' = [req EXCEPT ![r] = q]
    /\ resp' = [resp EXCEPT ![r] = "none"]
-----------------------------------------------------------------------------
(***************************************************************************)
(* Faults: a plausible mistake in the code each.  They are no part of the  *)
(* specification; they show what the properties below detect.              *)
(***************************************************************************)
\* An insert in progress is taken for a conflict instead of being waited for.
InsertUserImpatient(r) ==
    /\ pc[r] = "insert user"
    /\ IF \/ \E a \in users : a.login = req[r].login
          \/ \E q \in Requests \ {r} : HasInserted(q, req[r].login)
       THEN Answer(r, "conflict")
       ELSE Goto(r, "insert session")
    /\ UNCHANGED <<now, users, sessions, drawn, cutoff, req, issued>>

\* The user is inserted through the pool, not through the transaction.
InsertUserAtOnce(r) ==
    /\ pc[r] = "insert user"
    /\ IF \E a \in users : a.login = req[r].login
       THEN Answer(r, "conflict") /\ UNCHANGED users
       ELSE Goto(r, "insert session") /\ users' = users \cup {Registrant(req[r])}
    /\ UNCHANGED <<now, sessions, drawn, cutoff, req, issued>>

\* The handler forgets to look at the error of AddSession.
AddSessionUnchecked(r) ==
    /\ pc[r] = "add session"
    /\ sessions' \in {sessions, sessions \cup {req[r].session}}
    /\ Answer(r, "ok")
    /\ issued' = issued \cup {req[r].session}
    /\ UNCHANGED <<now, users, drawn, cutoff, req>>

\* The cleanup takes what expires before its next run as well.
PurgeableEarly(s, time) == s.expires <= time + 1

\* A session is accepted until its expiry inclusive.
ValidInclusive(s) == s.expires >= now
-----------------------------------------------------------------------------
Init ==
    /\ now = 0
    /\ users = {}
    /\ sessions = {}
    /\ drawn = {}
    /\ cutoff = None
    /\ pc = [r \in Requests |-> "idle"]
    /\ req = [r \in Requests |-> None]
    /\ resp = [r \in Requests |-> "none"]
    /\ issued = {}

\* Service.Register, called by the handler, draws the ID and the token before the transaction.
Register(r, login, password, n) ==
    /\ n \notin drawn
    /\ drawn' = drawn \cup {n}
    /\ Start(r, "insert user",
             [kind |-> "register", login |-> login, password |-> password,
              session |-> NewSession(n, n)])
    /\ UNCHANGED <<now, users, sessions, cutoff, issued>>

\* INSERT INTO users waits until no other transaction has an uncommitted row of
\* the same login, then inserts or violates users_login_key.
InsertUser(r) ==
    /\ pc[r] = "insert user"
    /\ \A q \in Requests \ {r} : ~HasInserted(q, req[r].login)
    /\ IF \E a \in users : a.login = req[r].login
       THEN Answer(r, "conflict")
       ELSE Goto(r, "insert session")
    /\ UNCHANGED <<now, users, sessions, drawn, cutoff, req, issued>>

InsertSession(r) ==
    /\ pc[r] = "insert session"
    /\ Goto(r, "commit")
    /\ UNCHANGED <<now, users, sessions, drawn, cutoff, req, issued>>

\* The two rows become visible together.
StoreRegistration(r) ==
    /\ users' = users \cup {Registrant(req[r])}
    /\ sessions' = sessions \cup {req[r].session}

Commit(r) ==
    /\ pc[r] = "commit"
    /\ StoreRegistration(r)
    /\ Answer(r, "ok")
    /\ issued' = issued \cup {req[r].session}
    /\ UNCHANGED <<now, drawn, cutoff, req>>

\* Commit returns an error although the server may have got the COMMIT: the
\* client has its answer before the transaction has ended.
GiveUpCommit(r) ==
    /\ pc[r] = "commit"
    /\ pc' = [pc EXCEPT ![r] = "in doubt"]
    /\ resp' = [resp EXCEPT ![r] = "error"]
    /\ UNCHANGED <<now, users, sessions, drawn, cutoff, req, issued>>

\* The server ends a transaction in doubt one way or the other.
Settle(r) ==
    /\ pc[r] = "in doubt"
    /\ pc' = [pc EXCEPT ![r] = "idle"]
    /\ StoreRegistration(r) \/ UNCHANGED <<users, sessions>>
    /\ UNCHANGED <<now, drawn, cutoff, req, resp, issued>>

LogIn(r, login, password) ==
    /\ Start(r, "find user",
             [kind |-> "login", login |-> login, password |-> password, session |-> None,
              known |-> \E a \in users : Matches(a, login, password)])
    /\ UNCHANGED <<now, users, sessions, drawn, cutoff, issued>>

\* GetByLogin finds the account and Compare accepts the password.
Found(a, q) == Matches(a, q.login, q.password)

\* The token is drawn when the password matches.
FindUser(r) ==
    /\ pc[r] = "find user"
    /\ \/ \E a \in users, n \in Nonces \ drawn :
             /\ Found(a, req[r])
             /\ drawn' = drawn \cup {n}
             /\ req' = [req EXCEPT ![r].session = NewSession(n, a.id)]
             /\ Goto(r, "add session")
       \/ /\ \A a \in users : ~Found(a, req[r])
          /\ Answer(r, "unauthorized")
          /\ UNCHANGED <<drawn, req>>
    /\ UNCHANGED <<now, users, sessions, cutoff, issued>>

\* The session is stored; its token goes to the client unless the answer of the
\* database gets lost.
AddSession(r) ==
    /\ pc[r] = "add session"
    /\ sessions' = sessions \cup {req[r].session}
    /\ \/ Answer(r, "ok") /\ issued' = issued \cup {req[r].session}
       \/ Answer(r, "error") /\ UNCHANGED issued
    /\ UNCHANGED <<now, users, drawn, cutoff, req>>

\* RequireAuth takes the token from the request.
Present(r, token) ==
    /\ Start(r, "get session",
             [kind |-> "access", token |-> token, session |-> None,
              known |-> \E s \in issued : s.token = token])
    /\ UNCHANGED <<now, users, sessions, drawn, cutoff, issued>>

GetSession(r) ==
    /\ pc[r] = "get session"
    /\ \/ \E s \in sessions :
             /\ s.token = req[r].token
             /\ req' = [req EXCEPT ![r].session = s]
             /\ Goto(r, "check expiry")
       \/ /\ \A s \in sessions : s.token # req[r].token
          /\ Answer(r, "unauthorized")
          /\ UNCHANGED req
    /\ UNCHANGED <<now, users, sessions, drawn, cutoff, issued>>

Valid(s) == s.expires > now

\* The clock is read after the row, which may have been deleted since.
CheckExpiry(r) ==
    /\ pc[r] = "check expiry"
    /\ IF Valid(req[r].session) THEN Answer(r, "ok") ELSE Answer(r, "unauthorized")
    /\ UNCHANGED <<now, users, sessions, drawn, cutoff, req, issued>>

\* A statement fails: the context is cancelled, the connection or the process
\* is lost.  The server rolls the transaction back.
Fail(r) ==
    /\ pc[r] \in PCs \ {"idle", "in doubt"}
    /\ Answer(r, "error")
    /\ UNCHANGED <<now, users, sessions, drawn, cutoff, req, issued>>

\* PurgeExpiredSessions reads the clock ...
BeginPurge ==
    /\ cutoff = None
    /\ cutoff' = now
    /\ UNCHANGED <<now, users, sessions, drawn, pc, req, resp, issued>>

Purgeable(s, time) == s.expires <= time

\* ... and deletes, or fails and is logged.
Purge ==
    /\ cutoff # None
    /\ sessions' \in {sessions, {s \in sessions : ~Purgeable(s, cutoff)}}
    /\ cutoff' = None
    /\ UNCHANGED <<now, users, drawn, pc, req, resp, issued>>

Tick ==
    /\ now < MaxTime
    /\ now' = now + 1
    /\ UNCHANGED <<users, sessions, drawn, cutoff, pc, req, resp, issued>>

Proceed(r) ==
    \/ InsertUser(r)
    \/ InsertSession(r)
    \/ Commit(r)
    \/ GiveUpCommit(r)
    \/ Settle(r)
    \/ FindUser(r)
    \/ AddSession(r)
    \/ GetSession(r)
    \/ CheckExpiry(r)
    \/ Fail(r)

Next ==
    \/ \E r \in Requests :
          \/ \E login \in Logins, password \in Passwords :
                \/ \E n \in Nonces : Register(r, login, password, n)
                \/ LogIn(r, login, password)
          \/ \E token \in Nonces : Present(r, token)
          \/ Proceed(r)
    \/ BeginPurge
    \/ Purge
    \/ Tick

Spec == Init /\ [][Next]_vars
-----------------------------------------------------------------------------
\* A login belongs to one account, however many registrations race for it, are
\* rolled back or end in doubt (user_repository.go:47).
OneAccountPerLogin ==
    \A a, b \in users : a.login = b.login \/ a.id = b.id => a = b

\* An account is stored together with a session of its own or not at all,
\* whatever fails in between (service.go:36, user_repository.go:58).
AtomicRegistration ==
    [][\A a \in users' \ users : \E s \in sessions' \ sessions : s.id = a.id]_vars

\* A token that a client received works until it expires: its session is stored
\* before the answer is sent, and the cleanup, whose clock reading may be old
\* and whose DELETE may run late, never takes it (user_repository.go:121).
IssuedTokensWork == \A s \in issued : Valid(s) => s \in sessions

\* An answer agrees with the tables: 200 means that the account of that login
\* and password exists, or that the token is a session's, and 409 that another
\* account has the login -- never that a registration which was rolled back
\* afterwards merely tried to.
AnswersAreTrue ==
    \A r \in Requests :
        LET q == req[r] IN
        /\ resp[r] = "ok" =>
              \E a \in users :
                 /\ a.id = q.session.id
                 /\ q.kind \in {"register", "login"} => Matches(a, q.login, q.password)
        /\ resp[r] = "conflict" =>
              \E a \in users : a.login = q.login /\ a.id # q.session.id

\* A client is refused only with reason: a login, if the account and password
\* did not match when it came; a token, if it was not issued when it came or
\* has expired by now.
RefusalsAreJustified ==
    \A r \in Requests :
        resp[r] = "unauthorized" /\ req[r].known =>
            /\ req[r].kind = "access"
            /\ \A s \in issued : s.token = req[r].token => ~(s.expires > now)

\* A request is let in only while the session it presented is stored and has
\* not expired, although its row was read before the clock (service.go:133, 140).
AcceptedWhileLive ==
    [][\A r \in Requests :
          pc[r] = "check expiry" /\ resp'[r] = "ok" =>
              \E s \in sessions : /\ s.token = req[r].token
                                  /\ s.id = req[r].session.id
                                  /\ s.expires > now]_vars

\* Registration, login and expiry implement the accounts; the purge, failures
\* and refusals change nothing that a client could notice.
Promise == INSTANCE Accounts WITH
    Ids <- Nonces,
    Tokens <- Nonces,
    accounts <- users,
    live <- {s \in sessions : s.expires > now}

AccountsSpec == Promise!Spec
=============================================================================
