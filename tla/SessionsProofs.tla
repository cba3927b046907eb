--------------------------- MODULE SessionsProofs ---------------------------
(***************************************************************************)
(* Proofs about Sessions.tla for every set of logins, passwords, random    *)
(* values and requests, every lifetime and every time: accounts are        *)
(* unique, answers are true, refusals justified, and sessions live exactly *)
(* until they expire.                                                      *)
(***************************************************************************)
EXTENDS Sessions, TLAPS

\* Where a registration, a login, an access can be.
RegisterPCs == {"insert user"} \cup Inserting
LoginPCs == {"find user", "add session"}
AccessPCs == {"get session", "check expiry"}

\* A request that has made up a session and not stored it, and one that has read
\* a session and not judged it.
Holds(r) == pc[r] \in {"insert user", "add session"} \cup Inserting
Reads(r) == pc[r] = "check expiry"

\* What a request in progress is, and what an answered one was.
RequestShape ==
    \A r \in Requests :
        /\ pc[r] \in RegisterPCs => req[r] \in Registration
        /\ pc[r] \in LoginPCs => req[r] \in Login
        /\ pc[r] \in AccessPCs => req[r] \in Access
        /\ Holds(r) \/ Reads(r) => req[r].session \in Session
        /\ pc[r] \notin {"idle", "in doubt"} => resp[r] = "none"
        /\ pc[r] = "in doubt" => resp[r] = "error"
        /\ resp[r] = "unauthorized" => req[r] \in Login \cup Access

\* The uniqueness of logins: a login that is being inserted has no other row.
OneInsertPerLogin ==
    \A r \in Requests : pc[r] \in Inserting =>
        /\ \A a \in users : a.login # req[r].login
        /\ \A q \in Requests \ {r} : pc[q] \in Inserting => req[q].login # req[r].login

\* The token of a session that is not stored yet is nobody else's token or ID.
Untaken(r) ==
    /\ \A a \in users : a.id # req[r].session.token
    /\ \A s \in sessions \cup issued : s.token # req[r].session.token
    /\ \A q \in Requests \ {r} :
          Holds(q) \/ Reads(q) => req[q].session.token # req[r].session.token

\* Random values in use are drawn; a registration uses its token as the ID.
Fresh ==
    /\ \A a \in users : a.id \in drawn
    /\ \A s \in sessions \cup issued : s.token \in drawn
    /\ \A r \in Requests :
          /\ Holds(r) \/ Reads(r) => req[r].session.token \in drawn
          /\ pc[r] \in RegisterPCs => req[r].session.id = req[r].session.token
          /\ Holds(r) => Untaken(r)

\* A token names one session among those stored, issued and read.
TokensUnique ==
    /\ \A s, t \in sessions \cup issued : s.token = t.token => s = t
    /\ \A r \in Requests : Reads(r) =>
          \A s \in sessions \cup issued :
              s.token = req[r].session.token => s = req[r].session

UserIds == {a.id : a \in users}

\* The session of a request is one of the account that it names.
LoggedIn(r) ==
    \E a \in users : /\ a.id = req[r].session.id
                     /\ Matches(a, req[r].login, req[r].password)

\* Sessions belong to accounts: stored, issued and read ones, and the ones that a
\* login has made up.
Owned ==
    /\ \A s \in sessions \cup issued : s.id \in UserIds
    /\ \A r \in Requests :
          /\ Reads(r) => req[r].session.id \in UserIds /\ req[r].session.token = req[r].token
          /\ pc[r] = "add session" => LoggedIn(r)

\* The cleanup's time is not ahead of the clock, and no session lasts longer
\* than a lifetime from now.
Lifetimes ==
    /\ cutoff # None => cutoff \in Nat /\ cutoff <= now
    /\ \A s \in sessions : s.expires <= now + Lifetime
    /\ \A r \in Requests : Holds(r) => req[r].session.expires <= now + Lifetime

\* A session that was issued or read, and has not expired, is stored.
StoredWhileValid ==
    /\ \A s \in issued : Valid(s) => s \in sessions
    /\ \A r \in Requests : Reads(r) /\ Valid(req[r].session) => req[r].session \in sessions

\* What "known" says of a login and of a token still holds.
KnownLogin(r) ==
    req[r].known => \E a \in users : Matches(a, req[r].login, req[r].password)
KnownToken(r) == req[r].known => \E s \in issued : s.token = req[r].token

Presented(r) ==
    \/ pc[r] \in AccessPCs
    \/ resp[r] = "unauthorized" /\ req[r] \in Access

KnownStays ==
    \A r \in Requests :
        /\ pc[r] = "find user" => KnownLogin(r)
        /\ Presented(r) => KnownToken(r)

Inv ==
    /\ TypeOK /\ RequestShape
    /\ OneInsertPerLogin /\ Fresh /\ TokensUnique
    /\ Owned /\ Lifetimes /\ StoredWhileValid /\ KnownStays
    /\ OneAccountPerLogin /\ AnswersAreTrue /\ RefusalsAreJustified
-----------------------------------------------------------------------------
LEMMA InitInv == Init => Inv
<1> SUFFICES ASSUME Init PROVE Inv
  OBVIOUS
<1>1. TypeOK
  BY DEF Init, TypeOK, PCs, Responses
<1>2. RequestShape /\ OneInsertPerLogin /\ Fresh /\ TokensUnique
  BY DEF Init, RequestShape, OneInsertPerLogin, Fresh, TokensUnique, Holds, Reads,
     RegisterPCs, LoginPCs, AccessPCs, Inserting
<1>3. Owned /\ Lifetimes /\ StoredWhileValid
  BY DEF Init, Owned, Lifetimes, StoredWhileValid, Holds, Reads, Inserting
<1>4. KnownStays
  BY DEF Init, KnownStays, AccessPCs, Presented
<1>5. OneAccountPerLogin /\ AnswersAreTrue /\ RefusalsAreJustified
  BY DEF Init, OneAccountPerLogin, AnswersAreTrue, RefusalsAreJustified
<1> QED BY <1>1, <1>2, <1>3, <1>4, <1>5 DEF Inv
-----------------------------------------------------------------------------
(***************************************************************************)
(* The kinds of steps, by what they do to the tables and to the request    *)
(* that takes them.                                                        *)
(***************************************************************************)
\* Only r moves.
Frame(r) ==
    \A q \in Requests \ {r} : pc'[q] = pc[q] /\ req'[q] = req[q] /\ resp'[q] = resp[q]

\* r starts, moves on or ends; nothing is made up, read or stored.
Quiet(r) ==
    /\ Frame(r)
    /\ UNCHANGED <<now, users, sessions, drawn, cutoff, issued>>
    /\ Holds(r)' => Holds(r) /\ req'[r] = req[r]
    /\ Reads(r)' => Reads(r) /\ req'[r] = req[r]
    /\ pc'[r] \in RegisterPCs => pc[r] \in RegisterPCs
    /\ pc'[r] = "add session" => pc[r] = "add session"

\* r makes up a session from a random value.
Draws(r, n) ==
    /\ Frame(r)
    /\ UNCHANGED <<now, users, sessions, cutoff, issued>>
    /\ n \in Nonces \ drawn
    /\ drawn' = drawn \cup {n}
    /\ req'[r].session.token = n
    /\ req'[r].session.expires = now + Lifetime
    /\ \/ pc'[r] = "insert user" /\ req'[r].session.id = n
       \/ /\ pc'[r] = "add session"
          /\ \E a \in users : /\ a.id = req'[r].session.id
                             /\ Matches(a, req'[r].login, req'[r].password)

\* r reads a session.
ReadsRow(r, s) ==
    /\ Frame(r)
    /\ UNCHANGED <<now, users, sessions, drawn, cutoff, issued>>
    /\ s \in sessions
    /\ pc'[r] = "check expiry"
    /\ req'[r].session = s
    /\ req'[r].token = s.token

\* r stores its session, a registration its user as well.
Stores(r) ==
    /\ Frame(r)
    /\ UNCHANGED <<now, drawn, cutoff, req>>
    /\ Holds(r)
    /\ pc'[r] = "idle"
    /\ sessions' = sessions \cup {req[r].session}
    /\ issued' \in {issued, issued \cup {req[r].session}}
    /\ \/ pc[r] = "add session" /\ UNCHANGED users
       \/ pc[r] \in Inserting /\ users' = users \cup {Registrant(req[r])}

LEMMA SessionType ==
    ASSUME TypeOK, NEW n \in Nonces, NEW id \in Nonces
    PROVE  /\ NewSession(n, id) \in Session
           /\ NewSession(n, id).token = n
           /\ NewSession(n, id).id = id
           /\ NewSession(n, id).expires = now + Lifetime
BY ConstantsAssumption DEF TypeOK, NewSession, Session

LEMMA RegisterStep ==
    ASSUME TypeOK, NEW r \in Requests, NEW login \in Logins, NEW password \in Passwords,
           NEW n \in Nonces, Register(r, login, password, n)
    PROVE  /\ Draws(r, n)
           /\ req'[r] \in Registration
           /\ pc' = [pc EXCEPT ![r] = "insert user"] /\ resp' = [resp EXCEPT ![r] = "none"]
           /\ req' = [req EXCEPT ![r] = req'[r]]
<1> DEFINE q == [kind |-> "register", login |-> login, password |-> password,
                 session |-> NewSession(n, n)]
<1>1. /\ n \notin drawn /\ drawn' = drawn \cup {n}
      /\ pc' = [pc EXCEPT ![r] = "insert user"] /\ resp' = [resp EXCEPT ![r] = "none"]
      /\ req' = [req EXCEPT ![r] = q]
      /\ UNCHANGED <<now, users, sessions, cutoff, issued>>
  BY DEF Register, Start
<1>2. req'[r] = q /\ pc'[r] = "insert user"
  BY <1>1 DEF TypeOK
<1>3. NewSession(n, n) \in Session /\ NewSession(n, n).token = n /\ NewSession(n, n).id = n
      /\ NewSession(n, n).expires = now + Lifetime
  BY SessionType
<1>4. q \in Registration /\ q.session = NewSession(n, n)
  BY <1>3 DEF Registration
<1> HIDE DEF q
<1>5. Frame(r)
  BY <1>1 DEF Frame, TypeOK
<1> QED BY <1>1, <1>2, <1>3, <1>4, <1>5 DEF Draws

LEMMA FindStep ==
    ASSUME TypeOK, RequestShape, NEW r \in Requests, FindUser(r), drawn' # drawn
    PROVE  \E n \in Nonces :
              /\ Draws(r, n)
              /\ pc[r] = "find user"
              /\ pc' = [pc EXCEPT ![r] = "add session"] /\ UNCHANGED resp
              /\ req' = [req EXCEPT ![r] = req'[r]]
              /\ req'[r] \in Login /\ req'[r].session \in Session
<1>1. PICK a \in users, n \in Nonces \ drawn :
          /\ Matches(a, req[r].login, req[r].password)
          /\ drawn' = drawn \cup {n}
          /\ req' = [req EXCEPT ![r].session = NewSession(n, a.id)]
          /\ pc' = [pc EXCEPT ![r] = "add session"] /\ UNCHANGED resp
  BY DEF FindUser, Found, Goto, Answer
<1>2. pc[r] = "find user" /\ UNCHANGED <<now, users, sessions, cutoff, issued>>
  BY DEF FindUser
<1>3. req[r] \in Login
  BY <1>2 DEF RequestShape, LoginPCs
<1>4. a.id \in Nonces
  BY DEF TypeOK, Account
<1> DEFINE s == NewSession(n, a.id)
<1>5. s \in Session /\ s.token = n /\ s.id = a.id /\ s.expires = now + Lifetime
  BY <1>4, SessionType
<1> HIDE DEF s
<1>6. req'[r] = [req[r] EXCEPT !.session = s]
  BY <1>1 DEF TypeOK, s
<1>7. /\ req'[r] \in Login /\ req'[r].session = s
      /\ req'[r].login = req[r].login /\ req'[r].password = req[r].password
  BY <1>3, <1>5, <1>6 DEF Login
<1>8. req' = [req EXCEPT ![r] = req'[r]]
  BY <1>1, <1>6 DEF TypeOK, s
<1>9. Frame(r) /\ pc'[r] = "add session"
  BY <1>1, <1>8 DEF Frame, TypeOK
<1>10. Draws(r, n)
  BY <1>1, <1>2, <1>5, <1>7, <1>9 DEF Draws
<1> QED BY <1>1, <1>2, <1>5, <1>7, <1>8, <1>10

LEMMA GetStep ==
    ASSUME TypeOK, RequestShape, NEW r \in Requests, GetSession(r), pc'[r] = "check expiry"
    PROVE  \E s \in sessions :
              /\ ReadsRow(r, s)
              /\ pc[r] = "get session"
              /\ pc' = [pc EXCEPT ![r] = "check expiry"] /\ UNCHANGED resp
              /\ req' = [req EXCEPT ![r] = req'[r]]
              /\ req'[r] \in Access /\ req'[r].token = req[r].token
              /\ req'[r].known = req[r].known
<1>1. PICK s \in sessions :
          /\ s.token = req[r].token
          /\ req' = [req EXCEPT ![r].session = s]
          /\ pc' = [pc EXCEPT ![r] = "check expiry"] /\ UNCHANGED resp
  BY DEF GetSession, Goto, Answer, TypeOK
<1>2. pc[r] = "get session" /\ UNCHANGED <<now, users, sessions, drawn, cutoff, issued>>
  BY DEF GetSession
<1>3. req[r] \in Access /\ s \in Session
  BY <1>2 DEF RequestShape, AccessPCs, TypeOK
<1>4. req'[r] = [req[r] EXCEPT !.session = s]
  BY <1>1 DEF TypeOK
<1>5. /\ req'[r] \in Access /\ req'[r].session = s /\ req'[r].token = req[r].token
      /\ req'[r].known = req[r].known
  BY <1>3, <1>4 DEF Access
<1>6. req' = [req EXCEPT ![r] = req'[r]]
  BY <1>1, <1>4 DEF TypeOK
<1>7. Frame(r) /\ pc'[r] = "check expiry"
  BY <1>1, <1>6 DEF Frame, TypeOK
<1>8. ReadsRow(r, s)
  BY <1>1, <1>2, <1>5, <1>7 DEF ReadsRow
<1> QED BY <1>1, <1>2, <1>5, <1>6, <1>8

LEMMA StoreStep ==
    ASSUME TypeOK, RequestShape, NEW r \in Requests,
           \/ Commit(r)
           \/ Settle(r) /\ StoreRegistration(r)
           \/ AddSession(r)
    PROVE  Stores(r)
<1>1. CASE Commit(r)
  BY <1>1 DEF Commit, StoreRegistration, Answer, Stores, Frame, Holds, Inserting, TypeOK
<1>2. CASE Settle(r) /\ StoreRegistration(r)
  BY <1>2 DEF Settle, StoreRegistration, Stores, Frame, Holds, Inserting, TypeOK
<1>3. CASE AddSession(r)
  BY <1>3 DEF AddSession, Answer, Stores, Frame, Holds, TypeOK
<1> QED BY <1>1, <1>2, <1>3

\* What a quiet step of r does to it.
LEMMA QuietStep ==
    ASSUME TypeOK, NEW r \in Requests,
           \/ \E login \in Logins, password \in Passwords : LogIn(r, login, password)
           \/ \E token \in Nonces : Present(r, token)
           \/ InsertUser(r) \/ InsertSession(r) \/ GiveUpCommit(r) \/ CheckExpiry(r) \/ Fail(r)
           \/ Settle(r) /\ UNCHANGED <<users, sessions>>
           \/ FindUser(r) /\ UNCHANGED drawn
           \/ GetSession(r) /\ pc'[r] # "check expiry"
    PROVE  Quiet(r)
<1> USE DEF Quiet, Frame, Holds, Reads, Inserting, RegisterPCs, TypeOK
<1>1. CASE \E login \in Logins, password \in Passwords : LogIn(r, login, password)
  BY <1>1 DEF LogIn, Start
<1>2. CASE \E token \in Nonces : Present(r, token)
  BY <1>2 DEF Present, Start
<1>3. CASE InsertUser(r) \/ InsertSession(r) \/ GiveUpCommit(r)
  BY <1>3 DEF InsertUser, InsertSession, GiveUpCommit, Goto, Answer
<1>4. CASE CheckExpiry(r) \/ Fail(r)
  BY <1>4 DEF CheckExpiry, Fail, Answer
<1>5. CASE Settle(r) /\ UNCHANGED <<users, sessions>>
  BY <1>5 DEF Settle
<1>6. CASE GetSession(r) /\ pc'[r] # "check expiry"
  BY <1>6 DEF GetSession, Goto, Answer
<1>7. CASE FindUser(r) /\ UNCHANGED drawn
  BY <1>7 DEF FindUser, Goto, Answer
<1> QED BY <1>1, <1>2, <1>3, <1>4, <1>5, <1>6, <1>7

LEMMA StepKinds ==
    ASSUME TypeOK, RequestShape, [Next]_vars
    PROVE  \/ \E r \in Requests : Quiet(r) \/ Stores(r)
           \/ \E r \in Requests, n \in Nonces : Draws(r, n)
           \/ \E r \in Requests, s \in sessions : ReadsRow(r, s)
           \/ BeginPurge \/ Purge \/ Tick \/ UNCHANGED vars
<1>1. ASSUME NEW r \in Requests, NEW login \in Logins, NEW password \in Passwords,
             NEW n \in Nonces, Register(r, login, password, n)
      PROVE  Draws(r, n)
  BY <1>1, RegisterStep
<1>2. ASSUME NEW r \in Requests,
             \/ \E login \in Logins, password \in Passwords : LogIn(r, login, password)
             \/ \E token \in Nonces : Present(r, token)
             \/ InsertUser(r) \/ InsertSession(r) \/ GiveUpCommit(r) \/ CheckExpiry(r) \/ Fail(r)
      PROVE  Quiet(r)
  BY <1>2, QuietStep
<1>3. ASSUME NEW r \in Requests, Commit(r) \/ AddSession(r)
      PROVE  Stores(r)
  BY <1>3, StoreStep
<1>4. ASSUME NEW r \in Requests, Settle(r)
      PROVE  Stores(r) \/ Quiet(r)
  <2>1. StoreRegistration(r) \/ UNCHANGED <<users, sessions>>
    BY <1>4 DEF Settle
  <2> QED BY <1>4, <2>1, StoreStep, QuietStep
<1>5. ASSUME NEW r \in Requests, FindUser(r)
      PROVE  Quiet(r) \/ \E n \in Nonces : Draws(r, n)
  BY <1>5, FindStep, QuietStep
<1>6. ASSUME NEW r \in Requests, GetSession(r)
      PROVE  Quiet(r) \/ \E s \in sessions : ReadsRow(r, s)
  BY <1>6, GetStep, QuietStep
<1> QED BY <1>1, <1>2, <1>3, <1>4, <1>5, <1>6 DEF Next, Proceed

-----------------------------------------------------------------------------
\* What the tables and the requests' sessions have in common.
Data == Fresh /\ TokensUnique /\ Owned /\ Lifetimes /\ StoredWhileValid

\* Sessions and their expiry are numbers and random values.
LEMMA SessionFields ==
    ASSUME TypeOK, RequestShape
    PROVE  /\ now \in Nat /\ now + Lifetime \in Nat
           /\ \A s \in sessions \cup issued : s \in Session /\ s.expires \in Nat
           /\ \A r \in Requests : Holds(r) \/ Reads(r) =>
                 req[r].session \in Session /\ req[r].session.expires \in Nat
<1>1. now \in Nat /\ now + Lifetime \in Nat
  BY ConstantsAssumption DEF TypeOK
<1>2. \A s \in Session : s.expires \in Nat
  BY DEF Session
<1>3. /\ \A s \in sessions \cup issued : s \in Session
      /\ \A r \in Requests : Holds(r) \/ Reads(r) => req[r].session \in Session
  BY DEF TypeOK, RequestShape
<1> QED BY <1>1, <1>2, <1>3

LEMMA QuietData ==
    ASSUME TypeOK, RequestShape, Data, NEW r \in Requests, Quiet(r)
    PROVE  Data'
<1>1. /\ \A q \in Requests : Holds(q)' => Holds(q) /\ req'[q] = req[q]
      /\ \A q \in Requests : Reads(q)' => Reads(q) /\ req'[q] = req[q]
      /\ \A q \in Requests : pc'[q] \in RegisterPCs => pc[q] \in RegisterPCs /\ Holds(q)'
      /\ \A q \in Requests : pc'[q] = "add session" => pc[q] = "add session" /\ Holds(q)'
      /\ UNCHANGED <<now, users, sessions, drawn, cutoff, issued>>
  BY DEF Quiet, Frame, Holds, Reads, RegisterPCs
<1>2. Fresh'
  <2>1. ASSUME NEW q \in Requests, Holds(q)'
        PROVE  Untaken(q)'
    <3>1. Untaken(q) /\ req'[q] = req[q]
      BY <1>1, <2>1 DEF Data, Fresh
    <3> QED BY <1>1, <3>1 DEF Untaken
  <2> QED BY <1>1, <2>1 DEF Data, Fresh
<1>3. TokensUnique'
  BY <1>1 DEF Data, TokensUnique
<1>4. Owned'
  BY <1>1 DEF Data, Owned, UserIds, LoggedIn
<1>5. Lifetimes'
  BY <1>1 DEF Data, Lifetimes
<1>6. StoredWhileValid'
  BY <1>1 DEF Data, StoredWhileValid, Valid
<1> QED BY <1>2, <1>3, <1>4, <1>5, <1>6 DEF Data

LEMMA DrawsData ==
    ASSUME TypeOK, RequestShape, Data, NEW r \in Requests, NEW n \in Nonces, Draws(r, n)
    PROVE  Data'
<1>1. /\ \A q \in Requests \ {r} :
            /\ Holds(q)' <=> Holds(q)
            /\ Reads(q)' <=> Reads(q)
            /\ pc'[q] = pc[q] /\ req'[q] = req[q]
      /\ Holds(r)' /\ ~Reads(r)'
      /\ req'[r].session.token = n
      /\ req'[r].session.expires = now + Lifetime
      /\ n \notin drawn /\ drawn' = drawn \cup {n}
      /\ UNCHANGED <<now, users, sessions, cutoff, issued>>
  BY DEF Draws, Frame, Holds, Reads, Inserting
<1>2. Fresh'
  <2>1. \A q \in Requests : Holds(q)' => Untaken(q)'
    <3>1. Untaken(r)'
      BY <1>1 DEF Data, Fresh, Untaken
    <3>2. ASSUME NEW q \in Requests \ {r}, Holds(q)'
          PROVE  Untaken(q)'
      BY <1>1, <3>2 DEF Data, Fresh, Untaken
    <3> QED BY <3>1, <3>2
  <2>2. pc'[r] \in RegisterPCs => req'[r].session.id = n
    BY DEF Draws, RegisterPCs, Inserting
  <2> QED BY <1>1, <2>1, <2>2 DEF Data, Fresh
<1>3. TokensUnique'
  BY <1>1 DEF Data, TokensUnique
<1>4. Owned'
  <2>1. pc'[r] = "add session" => LoggedIn(r)'
    BY <1>1 DEF Draws, LoggedIn, Matches
  <2>2. \A q \in Requests \ {r} : LoggedIn(q) => LoggedIn(q)'
    BY <1>1 DEF LoggedIn
  <2> QED BY <1>1, <2>1, <2>2 DEF Data, Owned, UserIds
<1>5. Lifetimes'
  <2>1. now + Lifetime \in Nat
    BY SessionFields
  <2> QED BY <1>1, <2>1 DEF Data, Lifetimes
<1>6. StoredWhileValid'
  BY <1>1 DEF Data, StoredWhileValid, Valid
<1> QED BY <1>2, <1>3, <1>4, <1>5, <1>6 DEF Data

LEMMA ReadsData ==
    ASSUME TypeOK, RequestShape, Data, NEW r \in Requests, NEW s \in sessions, ReadsRow(r, s)
    PROVE  Data'
<1>1. /\ \A q \in Requests \ {r} :
            /\ Holds(q)' <=> Holds(q)
            /\ Reads(q)' <=> Reads(q)
            /\ pc'[q] = pc[q] /\ req'[q] = req[q]
      /\ ~Holds(r)' /\ Reads(r)'
      /\ pc'[r] = "check expiry" /\ pc'[r] \notin RegisterPCs
      /\ req'[r].session = s /\ req'[r].token = s.token
      /\ UNCHANGED <<now, users, sessions, drawn, cutoff, issued>>
  BY DEF ReadsRow, Frame, Holds, Reads, RegisterPCs, Inserting
<1>2. Fresh'
  <2>1. \A q \in Requests : Holds(q)' => Untaken(q)'
    <3> SUFFICES ASSUME NEW q \in Requests \ {r}, Holds(q)'
                 PROVE  Untaken(q)'
      BY <1>1
    <3>1. Holds(q) /\ req'[q] = req[q]
      BY <1>1
    <3>2. Untaken(q) /\ s.token # req[q].session.token
      BY <1>1, <3>1 DEF Data, Fresh, Untaken
    <3> QED BY <1>1, <3>1, <3>2 DEF Untaken
  <2> QED BY <1>1, <2>1 DEF Data, Fresh
<1>3. TokensUnique'
  <2>1. \A t, u \in sessions \cup issued : t.token = u.token => t = u
    BY DEF Data, TokensUnique
  <2>2. \A q \in Requests : Reads(q)' =>
           \A t \in sessions \cup issued :
               t.token = req'[q].session.token => t = req'[q].session
    <3>1. \A q \in Requests \ {r} : Reads(q) =>
             \A t \in sessions \cup issued :
                 t.token = req[q].session.token => t = req[q].session
      BY DEF Data, TokensUnique
    <3> QED BY <1>1, <2>1, <3>1
  <2> QED BY <1>1, <2>1, <2>2 DEF TokensUnique
<1>4. Owned'
  <2>1. \A q \in Requests \ {r} : LoggedIn(q) => LoggedIn(q)'
    BY <1>1 DEF LoggedIn
  <2> QED BY <1>1, <2>1 DEF Data, Owned, UserIds
<1>5. Lifetimes'
  BY <1>1 DEF Data, Lifetimes
<1>6. StoredWhileValid'
  BY <1>1 DEF Data, StoredWhileValid, Valid
<1> QED BY <1>2, <1>3, <1>4, <1>5, <1>6 DEF Data

LEMMA StoresData ==
    ASSUME TypeOK, RequestShape, Data, NEW r \in Requests, Stores(r)
    PROVE  Data'
<1> DEFINE new == req[r].session
<1>1. /\ \A q \in Requests \ {r} :
            /\ Holds(q)' <=> Holds(q)
            /\ Reads(q)' <=> Reads(q)
            /\ pc'[q] = pc[q] /\ req'[q] = req[q]
      /\ Holds(r) /\ ~Holds(r)' /\ ~Reads(r)'
      /\ pc'[r] = "idle" /\ pc'[r] \notin RegisterPCs
      /\ sessions' = sessions \cup {new}
      /\ issued' \in {issued, issued \cup {new}}
      /\ UNCHANGED <<now, drawn, cutoff>>
  BY DEF Stores, Frame, Holds, Reads, RegisterPCs, Inserting
<1>2. /\ new.token \in drawn /\ Untaken(r)
      /\ new.expires <= now + Lifetime
  BY <1>1 DEF Data, Fresh, Lifetimes
<1>3. /\ users \subseteq users'
      /\ \A a \in users' \ users : a.id = new.token
      /\ \E a \in users' : a.id = new.id
  <2>1. CASE pc[r] = "add session" /\ UNCHANGED users
    BY <2>1 DEF Data, Owned, LoggedIn
  <2>2. CASE pc[r] \in Inserting /\ users' = users \cup {Registrant(req[r])}
    <3>1. new.id = new.token
      BY <2>2 DEF Data, Fresh, RegisterPCs
    <3>2. Registrant(req[r]).id = new.id
      BY DEF Registrant
    <3> HIDE DEF new
    <3> QED BY <2>2, <3>1, <3>2
  <2> QED BY <2>1, <2>2 DEF Stores
<1> HIDE DEF new
<1>4. Fresh'
  <2>1. ASSUME NEW q \in Requests \ {r}, Holds(q)'
        PROVE  Untaken(q)'
    <3>1. Untaken(q) /\ req[q].session.token # new.token
      BY <1>1, <2>1 DEF Data, Fresh, Untaken, new
    <3> QED BY <1>1, <1>3, <2>1, <3>1 DEF Untaken
  <2> QED BY <1>1, <1>2, <1>3, <2>1 DEF Data, Fresh
<1>5. TokensUnique'
  <2>1. \A s \in sessions \cup issued : s.token # new.token
    BY <1>2 DEF Untaken, new
  <2>2. \A q \in Requests \ {r} : Reads(q) => req[q].session.token # new.token
    BY <1>2 DEF Untaken, new
  <2> QED BY <1>1, <2>1, <2>2 DEF Data, TokensUnique
<1>6. Owned'
  <2>1. \A q \in Requests \ {r} : LoggedIn(q) => LoggedIn(q)'
    BY <1>1, <1>3 DEF LoggedIn
  <2>2. UserIds \subseteq UserIds' /\ new.id \in UserIds'
    BY <1>3 DEF UserIds
  <2> QED BY <1>1, <2>1, <2>2 DEF Data, Owned
<1>7. Lifetimes'
  BY <1>1, <1>2 DEF Data, Lifetimes
<1>8. StoredWhileValid'
  BY <1>1 DEF Data, StoredWhileValid, Valid
<1> QED BY <1>4, <1>5, <1>6, <1>7, <1>8 DEF Data

LEMMA ClockData ==
    ASSUME TypeOK, RequestShape, Data, BeginPurge \/ Purge \/ Tick \/ UNCHANGED vars
    PROVE  Data'
<1>0. now \in Nat /\ now' \in {now, now + 1}
  BY DEF TypeOK, BeginPurge, Purge, Tick, vars
<1>9. /\ \A s \in sessions \cup issued : s.expires \in Nat
      /\ \A r \in Requests : Holds(r) \/ Reads(r) => req[r].session.expires \in Nat
  BY SessionFields
<1>1. /\ \A q \in Requests :
            /\ Holds(q)' <=> Holds(q)
            /\ Reads(q)' <=> Reads(q)
            /\ pc'[q] = pc[q] /\ req'[q] = req[q]
      /\ UNCHANGED <<users, drawn, issued>>
      /\ sessions' \subseteq sessions
  BY DEF BeginPurge, Purge, Tick, vars, Holds, Reads
<1>2. Fresh'
  <2>1. ASSUME NEW q \in Requests, Holds(q)'
        PROVE  Untaken(q)'
    <3>1. Untaken(q) /\ req'[q] = req[q]
      BY <1>1, <2>1 DEF Data, Fresh
    <3> QED BY <1>1, <3>1 DEF Untaken
  <2> QED BY <1>1, <2>1 DEF Data, Fresh
<1>3. TokensUnique'
  BY <1>1 DEF Data, TokensUnique
<1>4. Owned'
  BY <1>1 DEF Data, Owned, UserIds, LoggedIn
<1>5. Lifetimes'
  <2>1. \A s \in sessions' : s.expires <= now' + Lifetime
    <3> SUFFICES ASSUME NEW s \in sessions' PROVE s.expires <= now' + Lifetime
      OBVIOUS
    <3>1. s.expires \in Nat /\ s.expires <= now + Lifetime
      BY <1>1, <1>9 DEF Data, Lifetimes
    <3> QED BY <1>0, <3>1, ConstantsAssumption
  <2>2. \A q \in Requests : Holds(q)' => req'[q].session.expires <= now' + Lifetime
    <3> SUFFICES ASSUME NEW q \in Requests, Holds(q)'
                 PROVE  req'[q].session.expires <= now' + Lifetime
      OBVIOUS
    <3>1. /\ req'[q] = req[q]
          /\ req[q].session.expires \in Nat /\ req[q].session.expires <= now + Lifetime
      BY <1>1, <1>9 DEF Data, Lifetimes
    <3> QED BY <1>0, <3>1, ConstantsAssumption
  <2>3. cutoff' # None => cutoff' \in Nat /\ cutoff' <= now'
    BY <1>0 DEF Data, Lifetimes, BeginPurge, Purge, Tick, vars
  <2> QED BY <2>1, <2>2, <2>3 DEF Lifetimes
<1>6. StoredWhileValid'
  <2>1. \A s \in sessions : Valid(s)' => s \in sessions'
    <3>1. CASE UNCHANGED sessions
      BY <3>1
    <3>2. CASE Purge
      <4>1. cutoff \in Nat /\ cutoff <= now /\ now' = now
        BY <3>2 DEF Purge, Data, Lifetimes
      <4>2. \A s \in sessions : s.expires <= cutoff => ~(s.expires > now')
        BY <1>0, <1>9, <4>1
      <4> QED BY <3>2, <4>2 DEF Purge, Purgeable, Valid
    <3> QED BY <3>1, <3>2 DEF BeginPurge, Tick, vars
  <2>2. \A s \in issued : Valid(s)' => Valid(s)
    BY <1>0, <1>9 DEF Valid
  <2>3. \A q \in Requests : Reads(q) /\ Valid(req[q].session)' => Valid(req[q].session)
    BY <1>0, <1>1, <1>9 DEF Valid
  <2> QED BY <1>1, <2>1, <2>2, <2>3 DEF Data, StoredWhileValid, Valid
<1> QED BY <1>2, <1>3, <1>4, <1>5, <1>6 DEF Data

LEMMA DataStep ==
    ASSUME TypeOK, RequestShape, Data, [Next]_vars
    PROVE  Data'
BY StepKinds, QuietData, DrawsData, ReadsData, StoresData, ClockData
-----------------------------------------------------------------------------
\* A new login or access is one, whatever "known" says.
LEMMA LogInStep ==
    ASSUME TypeOK, NEW r \in Requests, NEW login \in Logins, NEW password \in Passwords,
           LogIn(r, login, password)
    PROVE  /\ pc[r] = "idle"
           /\ pc' = [pc EXCEPT ![r] = "find user"] /\ resp' = [resp EXCEPT ![r] = "none"]
           /\ req' = [req EXCEPT ![r] = req'[r]]
           /\ req'[r] \in Login
           /\ req'[r].known =>
                 \E a \in users : Matches(a, req'[r].login, req'[r].password)
           /\ UNCHANGED <<now, users, sessions, drawn, cutoff, issued>>
<1> DEFINE b == \E a \in users : Matches(a, login, password)
           q == [kind |-> "login", login |-> login, password |-> password,
                 session |-> None, known |-> b]
<1>1. /\ pc[r] = "idle"
      /\ pc' = [pc EXCEPT ![r] = "find user"] /\ resp' = [resp EXCEPT ![r] = "none"]
      /\ req' = [req EXCEPT ![r] = q] /\ req'[r] = q
      /\ UNCHANGED <<now, users, sessions, drawn, cutoff, issued>>
  BY DEF LogIn, Start, TypeOK
<1>2. b \in BOOLEAN
  OBVIOUS
<1>3. q.known => b
  OBVIOUS
<1>4. q.login = login /\ q.password = password
  OBVIOUS
<1>5. q \in Login
  <2> HIDE DEF b
  <2> QED BY <1>2 DEF Login
<1>6. q.known => \E a \in users : Matches(a, q.login, q.password)
  <2> HIDE DEF q
  <2> QED BY <1>3, <1>4
<1> HIDE DEF q
<1> QED BY <1>1, <1>5, <1>6

LEMMA PresentStep ==
    ASSUME TypeOK, NEW r \in Requests, NEW token \in Nonces, Present(r, token)
    PROVE  /\ pc[r] = "idle"
           /\ pc' = [pc EXCEPT ![r] = "get session"] /\ resp' = [resp EXCEPT ![r] = "none"]
           /\ req' = [req EXCEPT ![r] = req'[r]]
           /\ req'[r] \in Access
           /\ req'[r].known => \E s \in issued : s.token = req'[r].token
           /\ UNCHANGED <<now, users, sessions, drawn, cutoff, issued>>
<1> DEFINE b == \E s \in issued : s.token = token
           q == [kind |-> "access", token |-> token, session |-> None, known |-> b]
<1>1. /\ pc[r] = "idle"
      /\ pc' = [pc EXCEPT ![r] = "get session"] /\ resp' = [resp EXCEPT ![r] = "none"]
      /\ req' = [req EXCEPT ![r] = q] /\ req'[r] = q
      /\ UNCHANGED <<now, users, sessions, drawn, cutoff, issued>>
  BY DEF Present, Start, TypeOK
<1>2. b \in BOOLEAN
  OBVIOUS
<1>3. q.known => b
  OBVIOUS
<1>4. q.token = token
  OBVIOUS
<1>5. q \in Access
  <2> HIDE DEF b
  <2> QED BY <1>2 DEF Access
<1>6. q.known => \E s \in issued : s.token = q.token
  <2> HIDE DEF q
  <2> QED BY <1>3, <1>4
<1> HIDE DEF q
<1> QED BY <1>1, <1>5, <1>6

\* The steps that leave the request as it is.
Plain(r) ==
    \/ InsertUser(r) \/ InsertSession(r) \/ GiveUpCommit(r) \/ CheckExpiry(r) \/ Fail(r)
    \/ Commit(r) \/ Settle(r) \/ AddSession(r)
    \/ FindUser(r) /\ UNCHANGED drawn
    \/ GetSession(r) /\ pc'[r] # "check expiry"

LEMMA PlainStep ==
    ASSUME TypeOK, NEW r \in Requests, Plain(r)
    PROVE  /\ UNCHANGED req
           /\ \E l \in PCs : pc' = [pc EXCEPT ![r] = l]
           /\ \E a \in Responses : resp' = [resp EXCEPT ![r] = a]
           /\ pc'[r] \in RegisterPCs => pc[r] \in RegisterPCs
           /\ pc'[r] \notin LoginPCs \cup AccessPCs
           /\ pc'[r] \notin {"idle", "in doubt"} =>
                 resp' = resp /\ pc[r] \notin {"idle", "in doubt"}
           /\ pc'[r] = "in doubt" => resp'[r] = "error"
           /\ resp'[r] = "unauthorized" =>
                 pc[r] \in {"find user", "get session", "check expiry"} \/ resp[r] = "unauthorized"
<1> USE DEF RegisterPCs, LoginPCs, AccessPCs, Inserting, PCs, Responses, TypeOK
<1>0. resp = [resp EXCEPT ![r] = resp[r]]
  OBVIOUS
<1>1. CASE InsertUser(r)
  BY <1>0, <1>1 DEF InsertUser, Goto, Answer
<1>2. CASE InsertSession(r)
  BY <1>0, <1>2 DEF InsertSession, Goto
<1>3. CASE GiveUpCommit(r)
  BY <1>0, <1>3 DEF GiveUpCommit
<1>4. CASE CheckExpiry(r)
  BY <1>0, <1>4 DEF CheckExpiry, Answer
<1>5. CASE Fail(r)
  BY <1>0, <1>5 DEF Fail, Answer
<1>6. CASE Commit(r)
  BY <1>0, <1>6 DEF Commit, Answer
<1>7. CASE Settle(r)
  BY <1>0, <1>7 DEF Settle
<1>8. CASE AddSession(r)
  BY <1>0, <1>8 DEF AddSession, Answer
<1>9. CASE FindUser(r) /\ UNCHANGED drawn
  BY <1>0, <1>9 DEF FindUser, Answer, Goto
<1>10. CASE GetSession(r) /\ pc'[r] # "check expiry"
  BY <1>0, <1>10 DEF GetSession, Answer, Goto
<1> QED BY <1>1, <1>2, <1>3, <1>4, <1>5, <1>6, <1>7, <1>8, <1>9, <1>10 DEF Plain

LEMMA NextCases ==
    ASSUME [Next]_vars
    PROVE  \/ \E r \in Requests, login \in Logins, password \in Passwords, n \in Nonces :
                 Register(r, login, password, n)
           \/ \E r \in Requests, login \in Logins, password \in Passwords :
                 LogIn(r, login, password)
           \/ \E r \in Requests, token \in Nonces : Present(r, token)
           \/ \E r \in Requests : FindUser(r) /\ drawn' # drawn
           \/ \E r \in Requests : GetSession(r) /\ pc'[r] = "check expiry"
           \/ \E r \in Requests : Plain(r)
           \/ BeginPurge \/ Purge \/ Tick \/ UNCHANGED vars
BY DEF Next, Proceed, Plain

\* The types of the tables.
LEMMA TablesStep ==
    ASSUME TypeOK, RequestShape, [Next]_vars
    PROVE  /\ now' \in Nat /\ cutoff' \in Nat \cup {None} /\ drawn' \subseteq Nonces
           /\ users' \subseteq Account /\ sessions' \subseteq Session /\ issued' \subseteq Session
<1>1. CASE \E r \in Requests : Quiet(r)
  BY <1>1 DEF Quiet, TypeOK
<1>2. ASSUME NEW r \in Requests, Stores(r)
      PROVE  /\ users' \subseteq Account /\ sessions' \subseteq Session /\ issued' \subseteq Session
             /\ UNCHANGED <<now, cutoff, drawn>>
  <2>1. req[r].session \in Session
    BY <1>2 DEF Stores, RequestShape
  <2>2. pc[r] \in Inserting => Registrant(req[r]) \in Account
    <3> SUFFICES ASSUME pc[r] \in Inserting PROVE Registrant(req[r]) \in Account
      OBVIOUS
    <3>1. req[r] \in Registration
      BY DEF RequestShape, RegisterPCs
    <3>2. req[r].session.id \in Nonces /\ req[r].login \in Logins /\ req[r].password \in Passwords
      BY <2>1, <3>1 DEF Registration, Session
    <3> QED BY <3>2 DEF Registrant, Account
  <2> QED BY <1>2, <2>1, <2>2 DEF Stores, TypeOK
<1>3. ASSUME NEW r \in Requests, NEW n \in Nonces, Draws(r, n)
      PROVE  drawn' \subseteq Nonces /\ UNCHANGED <<now, users, sessions, cutoff, issued>>
  BY <1>3 DEF Draws, TypeOK
<1>4. CASE \E r \in Requests, s \in sessions : ReadsRow(r, s)
  BY <1>4 DEF ReadsRow, TypeOK
<1>5. CASE BeginPurge \/ Purge \/ Tick \/ UNCHANGED vars
  BY <1>5 DEF BeginPurge, Purge, Tick, vars, TypeOK
<1>6. TypeOK
  OBVIOUS
<1> QED BY <1>1, <1>2, <1>3, <1>4, <1>5, <1>6, StepKinds DEF TypeOK

\* What the requests are.
LEMMA RequestsStep ==
    ASSUME TypeOK, RequestShape, [Next]_vars
    PROVE  /\ pc' \in [Requests -> PCs]
           /\ req' \in [Requests -> Registration \cup Login \cup Access \cup {None}]
           /\ resp' \in [Requests -> Responses]
           /\ RequestShape'
<1> USE DEF Holds, Reads, RegisterPCs, LoginPCs, AccessPCs, Inserting, PCs, Responses
<1> DEFINE Goal ==
              /\ pc' \in [Requests -> PCs]
              /\ req' \in [Requests -> Registration \cup Login \cup Access \cup {None}]
              /\ resp' \in [Requests -> Responses]
              /\ RequestShape'
<1>1. ASSUME NEW r \in Requests, NEW login \in Logins, NEW password \in Passwords,
             NEW n \in Nonces, Register(r, login, password, n)
      PROVE  Goal
  <2>1. /\ req'[r] \in Registration
        /\ pc' = [pc EXCEPT ![r] = "insert user"] /\ resp' = [resp EXCEPT ![r] = "none"]
        /\ req' = [req EXCEPT ![r] = req'[r]]
    BY <1>1, RegisterStep
  <2>2. req'[r].session \in Session
    BY <2>1 DEF Registration
  <2> QED BY <2>1, <2>2 DEF TypeOK, RequestShape
<1>2. ASSUME NEW r \in Requests, NEW login \in Logins, NEW password \in Passwords,
             LogIn(r, login, password)
      PROVE  Goal
  <2>1. /\ pc' = [pc EXCEPT ![r] = "find user"] /\ resp' = [resp EXCEPT ![r] = "none"]
        /\ req' = [req EXCEPT ![r] = req'[r]]
        /\ req'[r] \in Login
    BY <1>2, LogInStep
  <2> QED BY <2>1 DEF TypeOK, RequestShape
<1>3. ASSUME NEW r \in Requests, NEW token \in Nonces, Present(r, token)
      PROVE  Goal
  <2>1. /\ pc' = [pc EXCEPT ![r] = "get session"] /\ resp' = [resp EXCEPT ![r] = "none"]
        /\ req' = [req EXCEPT ![r] = req'[r]]
        /\ req'[r] \in Access
    BY <1>3, PresentStep
  <2> QED BY <2>1 DEF TypeOK, RequestShape
<1>4. ASSUME NEW r \in Requests, FindUser(r), drawn' # drawn
      PROVE  Goal
  <2>1. /\ pc[r] = "find user"
        /\ pc' = [pc EXCEPT ![r] = "add session"] /\ UNCHANGED resp
        /\ req' = [req EXCEPT ![r] = req'[r]]
        /\ req'[r] \in Login /\ req'[r].session \in Session
    BY <1>4, FindStep
  <2> QED BY <2>1 DEF TypeOK, RequestShape
<1>5. ASSUME NEW r \in Requests, GetSession(r), pc'[r] = "check expiry"
      PROVE  Goal
  <2>1. /\ pc[r] = "get session"
        /\ pc' = [pc EXCEPT ![r] = "check expiry"] /\ UNCHANGED resp
        /\ req' = [req EXCEPT ![r] = req'[r]]
        /\ req'[r] \in Access
        /\ req'[r].session \in sessions
    BY <1>5, GetStep DEF ReadsRow
  <2>2. req'[r].session \in Session
    BY <2>1 DEF TypeOK
  <2> QED BY <2>1, <2>2 DEF TypeOK, RequestShape
<1>6. ASSUME NEW r \in Requests, Plain(r)
      PROVE  Goal
  <2>1. PICK l \in PCs, a \in Responses :
            pc' = [pc EXCEPT ![r] = l] /\ resp' = [resp EXCEPT ![r] = a]
    BY <1>6, PlainStep
  <2>2. /\ UNCHANGED req
        /\ l \in RegisterPCs => pc[r] \in RegisterPCs
        /\ l \notin LoginPCs \cup AccessPCs
        /\ l \notin {"idle", "in doubt"} => a = resp[r] /\ pc[r] \notin {"idle", "in doubt"}
        /\ l = "in doubt" => a = "error"
        /\ a = "unauthorized" =>
              pc[r] \in {"find user", "get session", "check expiry"} \/ resp[r] = "unauthorized"
    <3> HIDE DEF Holds, Reads, RegisterPCs, LoginPCs, AccessPCs, Inserting, PCs, Responses
    <3>1. pc'[r] = l /\ resp'[r] = a /\ (resp' = resp => a = resp[r])
      BY <2>1 DEF TypeOK
    <3> QED BY <1>6, <3>1, PlainStep
  <2>3. RequestShape'
    <3> SUFFICES ASSUME NEW q \in Requests
                 PROVE  /\ pc'[q] \in RegisterPCs => req[q] \in Registration
                        /\ pc'[q] \in LoginPCs => req[q] \in Login
                        /\ pc'[q] \in AccessPCs => req[q] \in Access
                        /\ Holds(q)' \/ Reads(q)' => req[q].session \in Session
                        /\ pc'[q] \notin {"idle", "in doubt"} => resp'[q] = "none"
                        /\ pc'[q] = "in doubt" => resp'[q] = "error"
                        /\ resp'[q] = "unauthorized" => req[q] \in Login \cup Access
      BY <2>2 DEF RequestShape
    <3>1. CASE q = r
      BY <2>1, <2>2, <3>1 DEF TypeOK, RequestShape
    <3>2. CASE q # r
      BY <2>1, <3>2 DEF TypeOK, RequestShape
    <3> QED BY <3>1, <3>2
  <2> QED BY <2>1, <2>2, <2>3 DEF TypeOK
<1>7. ASSUME UNCHANGED <<pc, req, resp>>
      PROVE  Goal
  BY <1>7 DEF TypeOK, RequestShape
<1> HIDE DEF Goal, Holds, Reads, RegisterPCs, LoginPCs, AccessPCs, Inserting, PCs, Responses
<1>8. BeginPurge \/ Purge \/ Tick \/ UNCHANGED vars => UNCHANGED <<pc, req, resp>>
  BY DEF BeginPurge, Purge, Tick, vars
<1>9. Goal
  BY <1>1, <1>2, <1>3, <1>4, <1>5, <1>6, <1>7, <1>8, NextCases
<1> QED BY <1>9 DEF Goal
-----------------------------------------------------------------------------
\* Accounts and issued tokens only ever become more, and time only passes.
LEMMA Growth ==
    ASSUME TypeOK, RequestShape, [Next]_vars
    PROVE  users \subseteq users' /\ issued \subseteq issued' /\ now' \in {now, now + 1}
<1>1. CASE \E r \in Requests : Quiet(r) \/ Stores(r)
  BY <1>1 DEF Quiet, Stores
<1>2. CASE \E r \in Requests, n \in Nonces : Draws(r, n)
  BY <1>2 DEF Draws
<1>3. CASE \E r \in Requests, s \in sessions : ReadsRow(r, s)
  BY <1>3 DEF ReadsRow
<1>4. CASE BeginPurge \/ Purge \/ Tick \/ UNCHANGED vars
  BY <1>4 DEF BeginPurge, Purge, Tick, vars
<1> QED BY <1>1, <1>2, <1>3, <1>4, StepKinds

\* Users come from registrations that were inserting, with their login.
LEMMA UsersStep ==
    ASSUME TypeOK, RequestShape, [Next]_vars
    PROVE  \/ UNCHANGED users
           \/ \E r \in Requests : /\ Stores(r)
                                 /\ pc[r] \in Inserting
                                 /\ users' = users \cup {Registrant(req[r])}
<1>1. CASE \E r \in Requests : Quiet(r) \/ Stores(r)
  BY <1>1 DEF Quiet, Stores
<1>2. CASE \E r \in Requests, n \in Nonces : Draws(r, n)
  BY <1>2 DEF Draws
<1>3. CASE \E r \in Requests, s \in sessions : ReadsRow(r, s)
  BY <1>3 DEF ReadsRow
<1>4. CASE BeginPurge \/ Purge \/ Tick \/ UNCHANGED vars
  BY <1>4 DEF BeginPurge, Purge, Tick, vars
<1> QED BY <1>1, <1>2, <1>3, <1>4, StepKinds

\* A transaction gets an uncommitted user row by InsertUser only.
LEMMA InsertingStep ==
    ASSUME TypeOK, RequestShape, [Next]_vars
    PROVE  \/ \E r \in Requests : InsertUser(r)
           \/ \A q \in Requests : pc'[q] \in Inserting => pc[q] \in Inserting /\ req'[q] = req[q]
<1> DEFINE Goal == \A q \in Requests :
                      pc'[q] \in Inserting => pc[q] \in Inserting /\ req'[q] = req[q]
<1> USE DEF Inserting
<1>1. ASSUME NEW r \in Requests, NEW login \in Logins, NEW password \in Passwords
      PROVE  /\ \A n \in Nonces : Register(r, login, password, n) => Goal
             /\ LogIn(r, login, password) => Goal
  BY DEF Register, LogIn, Start, TypeOK
<1>2. ASSUME NEW r \in Requests, NEW token \in Nonces, Present(r, token)
      PROVE  Goal
  BY <1>2 DEF Present, Start, TypeOK
<1>3. ASSUME NEW r \in Requests, FindUser(r) \/ GetSession(r)
      PROVE  Goal
  BY <1>3 DEF FindUser, GetSession, Goto, Answer, TypeOK
<1>4. ASSUME NEW r \in Requests,
             InsertSession(r) \/ GiveUpCommit(r) \/ CheckExpiry(r) \/ Fail(r)
      PROVE  Goal
  BY <1>4 DEF InsertSession, GiveUpCommit, CheckExpiry, Fail, Goto, Answer, TypeOK
<1>5. ASSUME NEW r \in Requests, Commit(r) \/ Settle(r) \/ AddSession(r)
      PROVE  Goal
  BY <1>5 DEF Commit, Settle, AddSession, Answer, TypeOK
<1>6. BeginPurge \/ Purge \/ Tick \/ UNCHANGED vars => Goal
  BY DEF BeginPurge, Purge, Tick, vars
<1> HIDE DEF Goal
<1>7. (\E r \in Requests : InsertUser(r)) \/ Goal
  BY <1>1, <1>2, <1>3, <1>4, <1>5, <1>6, NextCases DEF Plain
<1> QED BY <1>7 DEF Goal

LEMMA OneInsertStep ==
    ASSUME TypeOK, RequestShape, OneInsertPerLogin, [Next]_vars
    PROVE  OneInsertPerLogin'
<1>1. ASSUME NEW r \in Requests, InsertUser(r)
      PROVE  OneInsertPerLogin'
  <2>1. /\ UNCHANGED <<users, req>>
        /\ \A q \in Requests \ {r} : pc'[q] = pc[q]
        /\ pc'[r] \in Inserting => \A a \in users : a.login # req[r].login
        /\ \A q \in Requests \ {r} : pc[q] \in Inserting => req[q].login # req[r].login
    BY <1>1 DEF InsertUser, HasInserted, Goto, Answer, Inserting, TypeOK
  <2> QED BY <2>1 DEF OneInsertPerLogin
<1>2. ASSUME \A q \in Requests : pc'[q] \in Inserting => pc[q] \in Inserting /\ req'[q] = req[q],
             UNCHANGED users
      PROVE  OneInsertPerLogin'
  BY <1>2 DEF OneInsertPerLogin
<1>3. ASSUME \A q \in Requests : pc'[q] \in Inserting => pc[q] \in Inserting /\ req'[q] = req[q],
             NEW r \in Requests, Stores(r), pc[r] \in Inserting,
             users' = users \cup {Registrant(req[r])}
      PROVE  OneInsertPerLogin'
  <2>1. pc'[r] \notin Inserting
    BY <1>3 DEF Stores, Inserting
  <2>2. Registrant(req[r]).login = req[r].login
    BY DEF Registrant
  <2> QED BY <1>3, <2>1, <2>2 DEF OneInsertPerLogin
<1>4. \A r \in Requests : InsertUser(r) => UNCHANGED users
  BY DEF InsertUser
<1> QED BY <1>1, <1>2, <1>3, <1>4, InsertingStep, UsersStep

\* A login belongs to one account, and so does an ID.
LEMMA AccountsStep ==
    ASSUME TypeOK, RequestShape, OneInsertPerLogin, Data, OneAccountPerLogin, [Next]_vars
    PROVE  OneAccountPerLogin'
<1>1. CASE UNCHANGED users
  BY <1>1 DEF OneAccountPerLogin
<1>2. ASSUME NEW r \in Requests, Stores(r), pc[r] \in Inserting,
             users' = users \cup {Registrant(req[r])}
      PROVE  OneAccountPerLogin'
  <2>1. \A a \in users : a.login # req[r].login
    BY <1>2 DEF OneInsertPerLogin
  <2>2. \A a \in users : a.id # req[r].session.id
    BY <1>2 DEF Data, Fresh, Untaken, Holds, RegisterPCs
  <2>3. Registrant(req[r]).login = req[r].login /\ Registrant(req[r]).id = req[r].session.id
    BY DEF Registrant
  <2> QED BY <1>2, <2>1, <2>2, <2>3 DEF OneAccountPerLogin
<1> QED BY <1>1, <1>2, UsersStep

\* The kind of a request tells what it is.
LEMMA Kinds ==
    /\ \A q \in Registration : q.kind = "register"
    /\ \A q \in Login : q.kind = "login"
    /\ \A q \in Access : q.kind = "access"
BY DEF Registration, Login, Access

LEMMA KnownStep ==
    ASSUME TypeOK, RequestShape, KnownStays, [Next]_vars
    PROVE  KnownStays'
<1>0. users \subseteq users' /\ issued \subseteq issued'
  BY Growth
<1>1. ASSUME NEW q \in Requests, req'[q] = req[q],
             pc'[q] = "find user" => pc[q] = "find user",
             Presented(q)' => Presented(q)
      PROVE  /\ pc'[q] = "find user" => KnownLogin(q)'
             /\ Presented(q)' => KnownToken(q)'
  BY <1>0, <1>1 DEF KnownStays, KnownLogin, KnownToken
<1> DEFINE Goal(q) == /\ pc'[q] = "find user" => KnownLogin(q)'
                      /\ Presented(q)' => KnownToken(q)'
<1>2. ASSUME NEW r \in Requests, NEW q \in Requests \ {r},
             pc'[q] = pc[q], req'[q] = req[q], resp'[q] = resp[q]
      PROVE  Goal(q)
  BY <1>1, <1>2 DEF Presented
<1>3. ASSUME NEW r \in Requests, NEW login \in Logins, NEW password \in Passwords,
             NEW n \in Nonces, Register(r, login, password, n)
      PROVE  \A q \in Requests : Goal(q)
  <2>0. /\ pc' = [pc EXCEPT ![r] = "insert user"] /\ resp' = [resp EXCEPT ![r] = "none"]
        /\ req' = [req EXCEPT ![r] = req'[r]]
    BY <1>3, RegisterStep
  <2>1. /\ pc'[r] = "insert user" /\ resp'[r] = "none"
        /\ \A q \in Requests \ {r} : pc'[q] = pc[q] /\ req'[q] = req[q] /\ resp'[q] = resp[q]
    BY <2>0 DEF TypeOK
  <2>2. Goal(r)
    BY <2>1 DEF AccessPCs, Presented
  <2> QED BY <1>2, <2>1, <2>2
<1>4. ASSUME NEW r \in Requests, NEW login \in Logins, NEW password \in Passwords,
             LogIn(r, login, password)
      PROVE  \A q \in Requests : Goal(q)
  <2>1. /\ pc'[r] = "find user" /\ resp'[r] = "none"
        /\ req'[r].known => \E a \in users : Matches(a, req'[r].login, req'[r].password)
        /\ \A q \in Requests \ {r} : pc'[q] = pc[q] /\ req'[q] = req[q] /\ resp'[q] = resp[q]
    <3>1. /\ pc' = [pc EXCEPT ![r] = "find user"] /\ resp' = [resp EXCEPT ![r] = "none"]
          /\ req' = [req EXCEPT ![r] = req'[r]]
          /\ req'[r].known => \E a \in users : Matches(a, req'[r].login, req'[r].password)
      BY <1>4, LogInStep
    <3>2. \A q \in Requests \ {r} : pc'[q] = pc[q] /\ req'[q] = req[q] /\ resp'[q] = resp[q]
      BY <3>1 DEF TypeOK
    <3>3. pc'[r] = "find user" /\ resp'[r] = "none"
      BY <3>1 DEF TypeOK
    <3> QED BY <3>1, <3>2, <3>3
  <2>2. Goal(r)
    BY <1>0, <2>1 DEF AccessPCs, Presented, KnownLogin
  <2> QED BY <1>2, <2>1, <2>2
<1>5. ASSUME NEW r \in Requests, NEW token \in Nonces, Present(r, token)
      PROVE  \A q \in Requests : Goal(q)
  <2>1. /\ pc'[r] = "get session"
        /\ req'[r].known => \E s \in issued : s.token = req'[r].token
        /\ \A q \in Requests \ {r} : pc'[q] = pc[q] /\ req'[q] = req[q] /\ resp'[q] = resp[q]
    <3>1. /\ pc' = [pc EXCEPT ![r] = "get session"] /\ resp' = [resp EXCEPT ![r] = "none"]
          /\ req' = [req EXCEPT ![r] = req'[r]]
          /\ req'[r].known => \E s \in issued : s.token = req'[r].token
      BY <1>5, PresentStep
    <3>2. \A q \in Requests \ {r} : pc'[q] = pc[q] /\ req'[q] = req[q] /\ resp'[q] = resp[q]
      BY <3>1 DEF TypeOK
    <3>3. pc'[r] = "get session"
      BY <3>1 DEF TypeOK
    <3> QED BY <3>1, <3>2, <3>3
  <2>2. Goal(r)
    BY <1>0, <2>1 DEF KnownToken
  <2> QED BY <1>2, <2>1, <2>2
<1>6. ASSUME NEW r \in Requests, FindUser(r), drawn' # drawn
      PROVE  \A q \in Requests : Goal(q)
  <2>1. /\ pc[r] = "find user" /\ pc'[r] = "add session" /\ resp'[r] = resp[r]
        /\ \A q \in Requests \ {r} : pc'[q] = pc[q] /\ req'[q] = req[q] /\ resp'[q] = resp[q]
    BY <1>6, FindStep DEF TypeOK
  <2>2. resp[r] = "none"
    BY <2>1 DEF RequestShape
  <2>3. Goal(r)
    BY <2>1, <2>2 DEF AccessPCs, Presented
  <2> QED BY <1>2, <2>1, <2>3
<1>7. ASSUME NEW r \in Requests, GetSession(r), pc'[r] = "check expiry"
      PROVE  \A q \in Requests : Goal(q)
  <2>1. /\ pc[r] = "get session"
        /\ req'[r].token = req[r].token /\ req'[r].known = req[r].known
        /\ \A q \in Requests \ {r} : pc'[q] = pc[q] /\ req'[q] = req[q] /\ resp'[q] = resp[q]
    <3>1. /\ pc[r] = "get session"
          /\ pc' = [pc EXCEPT ![r] = "check expiry"] /\ UNCHANGED resp
          /\ req' = [req EXCEPT ![r] = req'[r]]
          /\ req'[r].token = req[r].token /\ req'[r].known = req[r].known
      BY <1>7, GetStep
    <3>2. \A q \in Requests \ {r} : pc'[q] = pc[q] /\ req'[q] = req[q] /\ resp'[q] = resp[q]
      BY <3>1 DEF TypeOK
    <3> QED BY <3>1, <3>2
  <2>2. KnownToken(r)
    <3>1. Presented(r)
      BY <1>7 DEF GetSession, AccessPCs, Presented
    <3> QED BY <3>1 DEF KnownStays
  <2>3. Goal(r)
    BY <1>0, <1>7, <2>1, <2>2 DEF KnownToken
  <2> QED BY <1>2, <2>1, <2>3
<1>8. ASSUME NEW r \in Requests, Plain(r)
      PROVE  \A q \in Requests : Goal(q)
  <2>1. /\ UNCHANGED req
        /\ pc'[r] \notin LoginPCs \cup AccessPCs
        /\ resp'[r] = "unauthorized" =>
              pc[r] \in {"find user", "get session", "check expiry"} \/ resp[r] = "unauthorized"
        /\ \A q \in Requests \ {r} : pc'[q] = pc[q] /\ resp'[q] = resp[q]
    BY <1>8, PlainStep DEF TypeOK
  <2>2. pc[r] = "find user" => req[r] \notin Access
    BY Kinds DEF RequestShape, LoginPCs
  <2>3. Presented(r)' => Presented(r)
    BY <2>1, <2>2 DEF AccessPCs, Presented
  <2>4. Goal(r)
    BY <1>1, <2>1, <2>3 DEF LoginPCs
  <2> QED BY <1>2, <2>1, <2>4
<1>9. ASSUME BeginPurge \/ Purge \/ Tick \/ UNCHANGED vars
      PROVE  \A q \in Requests : Goal(q)
  <2>1. UNCHANGED <<pc, req, resp>>
    BY <1>9 DEF BeginPurge, Purge, Tick, vars
  <2> QED BY <1>1, <2>1 DEF Presented
<1> HIDE DEF Goal
<1>10. \A q \in Requests : Goal(q)
  BY <1>3, <1>4, <1>5, <1>6, <1>7, <1>8, <1>9, NextCases
<1> QED BY <1>10 DEF Goal, KnownStays
-----------------------------------------------------------------------------
\* The steps that give an answer other than an error.
Answers(q) ==
    \/ InsertUser(q) \/ Commit(q) \/ AddSession(q) \/ CheckExpiry(q)
    \/ FindUser(q) /\ UNCHANGED drawn
    \/ GetSession(q) /\ pc'[q] # "check expiry"

LEMMA AnswerKinds ==
    ASSUME TypeOK, RequestShape, [Next]_vars, NEW q \in Requests
    PROVE  \/ resp'[q] \in {"none", "error"}
           \/ resp'[q] = resp[q] /\ req'[q] = req[q]
           \/ Answers(q)
<1> DEFINE Goal == \/ resp'[q] \in {"none", "error"}
                   \/ resp'[q] = resp[q] /\ req'[q] = req[q]
                   \/ Answers(q)
<1>1. ASSUME NEW r \in Requests, NEW a \in {"none", "error"},
             resp' = [resp EXCEPT ![r] = a], req' = [req EXCEPT ![r] = req'[r]]
      PROVE  Goal
  BY <1>1 DEF TypeOK
<1>2. ASSUME NEW r \in Requests, resp[r] = "none", UNCHANGED resp,
             req' = [req EXCEPT ![r] = req'[r]]
      PROVE  Goal
  BY <1>2 DEF TypeOK
<1>3. ASSUME NEW r \in Requests, NEW login \in Logins, NEW password \in Passwords,
             NEW n \in Nonces, Register(r, login, password, n)
      PROVE  Goal
  BY <1>1, <1>3, RegisterStep
<1>4. ASSUME NEW r \in Requests, NEW login \in Logins, NEW password \in Passwords,
             LogIn(r, login, password)
      PROVE  Goal
  BY <1>1, <1>4, LogInStep
<1>5. ASSUME NEW r \in Requests, NEW token \in Nonces, Present(r, token)
      PROVE  Goal
  BY <1>1, <1>5, PresentStep
<1>6. ASSUME NEW r \in Requests, FindUser(r), drawn' # drawn
      PROVE  Goal
  <2>1. pc[r] = "find user" /\ UNCHANGED resp /\ req' = [req EXCEPT ![r] = req'[r]]
    BY <1>6, FindStep
  <2> QED BY <1>2, <2>1 DEF RequestShape
<1>7. ASSUME NEW r \in Requests, GetSession(r), pc'[r] = "check expiry"
      PROVE  Goal
  <2>1. pc[r] = "get session" /\ UNCHANGED resp /\ req' = [req EXCEPT ![r] = req'[r]]
    BY <1>7, GetStep
  <2> QED BY <1>2, <2>1 DEF RequestShape
<1>8. ASSUME NEW r \in Requests, Plain(r)
      PROVE  Goal
  <2>1. UNCHANGED req /\ \E a \in Responses : resp' = [resp EXCEPT ![r] = a]
    BY <1>8, PlainStep
  <2>2. CASE r # q
    BY <2>1, <2>2 DEF TypeOK
  <2>3. CASE InsertSession(q) \/ GiveUpCommit(q) \/ Fail(q) \/ Settle(q)
    BY <2>1, <2>3 DEF InsertSession, GiveUpCommit, Fail, Settle, Goto, Answer, TypeOK
  <2> QED BY <1>8, <2>2, <2>3 DEF Plain, Answers
<1>9. BeginPurge \/ Purge \/ Tick \/ UNCHANGED vars => Goal
  BY DEF BeginPurge, Purge, Tick, vars
<1> HIDE DEF Goal
<1>10. Goal
  BY <1>3, <1>4, <1>5, <1>6, <1>7, <1>8, <1>9, NextCases
<1> QED BY <1>10 DEF Goal

\* What an answer says.
Truth(r) ==
    /\ resp[r] = "ok" =>
          \E a \in users :
             /\ a.id = req[r].session.id
             /\ req[r].kind \in {"register", "login"} => Matches(a, req[r].login, req[r].password)
    /\ resp[r] = "conflict" =>
          \E a \in users : a.login = req[r].login /\ a.id # req[r].session.id

\* Answers stay true, since users stay, and the ones given now are.
LEMMA AnswersStep ==
    ASSUME TypeOK, RequestShape, Data, AnswersAreTrue, [Next]_vars
    PROVE  AnswersAreTrue'
<1> SUFFICES ASSUME NEW r \in Requests PROVE Truth(r)'
  BY DEF AnswersAreTrue, Truth
<1>0. users \subseteq users'
  BY Growth
<1>1. CASE resp'[r] \in {"none", "error"}
  BY <1>1 DEF Truth
<1>2. CASE resp'[r] = resp[r] /\ req'[r] = req[r]
  <2>1. Truth(r)
    BY DEF AnswersAreTrue, Truth
  <2> QED BY <1>0, <1>2, <2>1 DEF Truth
<1>3. CASE InsertUser(r) /\ resp'[r] = "conflict"
  <2>1. PICK a \in users : a.login = req[r].login
    BY <1>3 DEF InsertUser, Goto, RequestShape
  <2>2. /\ pc[r] = "insert user" /\ UNCHANGED <<users, req>>
    BY <1>3 DEF InsertUser
  <2>3. a.id # req[r].session.id
    BY <2>1, <2>2 DEF Data, Fresh, Untaken, Holds, RegisterPCs
  <2> QED BY <1>3, <2>1, <2>2, <2>3 DEF Truth
<1>4. CASE Commit(r)
  <2>1. /\ users' = users \cup {Registrant(req[r])} /\ UNCHANGED req /\ resp'[r] = "ok"
    BY <1>4 DEF Commit, StoreRegistration, Answer, TypeOK
  <2>2. /\ Registrant(req[r]).id = req[r].session.id
        /\ Matches(Registrant(req[r]), req[r].login, req[r].password)
    BY DEF Registrant, Matches
  <2> QED BY <2>1, <2>2 DEF Truth
<1>5. CASE AddSession(r)
  <2>1. LoggedIn(r) /\ UNCHANGED <<users, req>>
    BY <1>5 DEF AddSession, Data, Owned
  <2>2. resp'[r] \in {"ok", "error"}
    BY <1>5 DEF AddSession, Answer, TypeOK
  <2> QED BY <2>1, <2>2 DEF Truth, LoggedIn
<1>6. CASE CheckExpiry(r)
  <2>1. Reads(r) /\ req[r] \in Access /\ UNCHANGED <<users, req>>
    BY <1>6 DEF CheckExpiry, Reads, RequestShape, AccessPCs
  <2>2. (\E a \in users : a.id = req[r].session.id) /\ req[r].kind = "access"
    BY <2>1, Kinds DEF Data, Owned, UserIds
  <2>3. resp'[r] \in {"ok", "unauthorized"}
    BY <1>6 DEF CheckExpiry, Answer, TypeOK
  <2> QED BY <2>1, <2>2, <2>3 DEF Truth
<1>7. CASE resp'[r] = "unauthorized"
  BY <1>7 DEF Truth
<1>8. ASSUME Answers(r)
      PROVE  \/ InsertUser(r) /\ resp'[r] \in {"conflict", "none"}
             \/ Commit(r) \/ AddSession(r) \/ CheckExpiry(r)
             \/ resp'[r] = "unauthorized"
  <2>1. InsertUser(r) => resp'[r] \in {"conflict", "none"}
    BY DEF InsertUser, Goto, Answer, RequestShape, TypeOK
  <2>2. FindUser(r) /\ UNCHANGED drawn => resp'[r] = "unauthorized"
    BY DEF FindUser, Answer, TypeOK
  <2>3. GetSession(r) /\ pc'[r] # "check expiry" => resp'[r] = "unauthorized"
    BY DEF GetSession, Goto, Answer, TypeOK
  <2> QED BY <1>8, <2>1, <2>2, <2>3 DEF Answers
<1> QED BY <1>1, <1>2, <1>3, <1>4, <1>5, <1>6, <1>7, <1>8, AnswerKinds

\* A token that was known names one issued session, so if that has expired, all
\* sessions of the token have, now and later.
LEMMA RefusalsStep ==
    ASSUME TypeOK, RequestShape, Data, KnownStays, RefusalsAreJustified, [Next]_vars,
           RequestShape', Data', KnownStays'
    PROVE  RefusalsAreJustified'
<1> SUFFICES ASSUME NEW r \in Requests, resp'[r] = "unauthorized", req'[r].known
             PROVE  /\ req'[r].kind = "access"
                    /\ \A s \in issued' : s.token = req'[r].token => ~(s.expires > now')
  BY DEF RefusalsAreJustified
<1>0. /\ issued \subseteq issued' /\ now \in Nat /\ now' \in {now, now + 1}
      /\ \A s \in issued : s.expires \in Nat
  BY Growth, SessionFields
<1>1. CASE resp'[r] = resp[r] /\ req'[r] = req[r]
  <2>1. /\ req[r].kind = "access"
        /\ \A s \in issued : s.token = req[r].token => ~(s.expires > now)
    BY <1>1 DEF RefusalsAreJustified
  <2>2. req[r] \in Access
    BY <1>1, <2>1, Kinds DEF RequestShape
  <2>3. PICK s \in issued : s.token = req[r].token
    BY <1>1, <2>2 DEF KnownStays, Presented, KnownToken
  <2>4. ~(s.expires > now')
    BY <1>0, <2>1, <2>3
  <2>5. \A t \in issued' : t.token = s.token => t = s
    BY <1>0 DEF Data, TokensUnique
  <2> QED BY <1>1, <2>1, <2>3, <2>4, <2>5
<1>2. CASE FindUser(r) /\ UNCHANGED drawn
  <2>1. UNCHANGED <<users, req>> /\ \A a \in users : ~Matches(a, req[r].login, req[r].password)
    BY <1>2 DEF FindUser, Found
  <2>2. KnownLogin(r)
    BY <1>2 DEF FindUser, KnownStays
  <2> QED BY <2>1, <2>2 DEF KnownLogin
<1>3. CASE GetSession(r) /\ pc'[r] # "check expiry"
  <2>1. /\ \A s \in sessions : s.token # req[r].token
        /\ UNCHANGED <<req, issued, now>> /\ pc[r] = "get session"
    BY <1>3 DEF GetSession, Goto, Answer, TypeOK
  <2>2. \A s \in issued : s.expires > now => s \in sessions
    BY DEF Data, StoredWhileValid, Valid
  <2>3. req[r].kind = "access"
    BY <2>1, Kinds DEF RequestShape, AccessPCs
  <2> QED BY <2>1, <2>2, <2>3
<1>4. CASE CheckExpiry(r)
  <2>1. Reads(r) /\ UNCHANGED <<req, issued, now>> /\ ~Valid(req[r].session)
    BY <1>4 DEF CheckExpiry, Reads, Answer, TypeOK
  <2>2. req[r].session.token = req[r].token
    BY <2>1 DEF Data, Owned
  <2>3. \A s \in issued : s.token = req[r].token => s = req[r].session
    BY <2>1, <2>2 DEF Data, TokensUnique
  <2>4. req[r].kind = "access"
    BY <2>1, Kinds DEF RequestShape, AccessPCs, Reads
  <2> QED BY <2>1, <2>3, <2>4 DEF Valid
<1>5. InsertUser(r) \/ Commit(r) \/ AddSession(r) => resp'[r] # "unauthorized"
  <2>1. InsertUser(r) => resp'[r] # "unauthorized"
    BY DEF InsertUser, Goto, Answer, RequestShape, TypeOK
  <2>2. Commit(r) \/ AddSession(r) => resp'[r] # "unauthorized"
    BY DEF Commit, AddSession, Answer, TypeOK
  <2> QED BY <2>1, <2>2
<1> QED BY <1>1, <1>2, <1>3, <1>4, <1>5, AnswerKinds DEF Answers

LEMMA Invariance == Spec => []Inv
<1>1. Inv /\ [Next]_vars => Inv'
  <2> SUFFICES ASSUME Inv, [Next]_vars PROVE Inv'
    OBVIOUS
  <2>1. /\ TypeOK /\ RequestShape /\ OneInsertPerLogin /\ Data /\ KnownStays
        /\ OneAccountPerLogin /\ AnswersAreTrue /\ RefusalsAreJustified
    BY DEF Inv, Data
  <2>2. TypeOK' /\ RequestShape'
    BY <2>1, TablesStep, RequestsStep DEF TypeOK
  <2>3. Data' /\ OneInsertPerLogin' /\ KnownStays' /\ OneAccountPerLogin' /\ AnswersAreTrue'
    BY <2>1, DataStep, OneInsertStep, KnownStep, AccountsStep, AnswersStep
  <2>4. RefusalsAreJustified'
    BY <2>1, <2>2, <2>3, RefusalsStep
  <2> QED BY <2>2, <2>3, <2>4 DEF Inv, Data
<1> QED BY <1>1, InitInv, PTL DEF Spec
-----------------------------------------------------------------------------
\* Every variable of the model of sessions keeps its type.
THEOREM TypeCorrect == Spec => []TypeOK
BY Invariance, PTL DEF Inv

\* However many registrations race, a login and an ID belong to one account
\* (user_repository.go:47).
THEOREM UniqueAccounts == Spec => []OneAccountPerLogin
BY Invariance, PTL DEF Inv

\* Every token a client has received works until its expiry, whenever the
\* cleanup read its clock (user_repository.go:121).
THEOREM IssuedWork == Spec => []IssuedTokensWork
<1>1. Inv => IssuedTokensWork
  BY DEF Inv, StoredWhileValid, IssuedTokensWork
<1> QED BY <1>1, Invariance, PTL

\* 200 and 409 agree with the tables for ever (service.go:62-111).
THEOREM TrueAnswers == Spec => []AnswersAreTrue
BY Invariance, PTL DEF Inv

\* 401 is given only with reason, and the reason stays (service.go:98-140).
THEOREM JustRefusals == Spec => []RefusalsAreJustified
BY Invariance, PTL DEF Inv

\* A step that adds a user adds a session of the user's own, for it stores the
\* registration whole (user_repository.go:58).
THEOREM RegistrationIsAtomic == Spec => AtomicRegistration
<1>1. ASSUME Inv, [Next]_vars, NEW a \in users' \ users
      PROVE  \E s \in sessions' \ sessions : s.id = a.id
  <2>1. TypeOK /\ RequestShape /\ Fresh
    BY <1>1 DEF Inv
  <2>2. PICK r \in Requests : Stores(r) /\ users' = users \cup {Registrant(req[r])}
    BY <1>1, <2>1, UsersStep
  <2>3. a.id = req[r].session.id
    BY <1>1, <2>2 DEF Registrant
  <2>4. req[r].session \in sessions' /\ req[r].session \notin sessions
    BY <2>1, <2>2 DEF Stores, Fresh, Untaken
  <2> QED BY <2>3, <2>4
<1>2. Inv /\ [Next]_vars =>
         [\A a \in users' \ users : \E s \in sessions' \ sessions : s.id = a.id]_vars
  BY <1>1
<1> QED BY <1>2, Invariance, PTL DEF Spec, AtomicRegistration

\* A request passes RequireAuth only with a session that is stored at that
\* moment, although its row was read before (service.go:133, 140).
THEOREM AcceptedLive == Spec => AcceptedWhileLive
<1>1. ASSUME Inv, [Next]_vars, NEW r \in Requests, pc[r] = "check expiry", resp'[r] = "ok"
      PROVE  \E s \in sessions : /\ s.token = req[r].token
                                 /\ s.id = req[r].session.id
                                 /\ s.expires > now
  <2>1. TypeOK /\ RequestShape /\ Owned /\ StoredWhileValid /\ Reads(r) /\ resp[r] = "none"
    BY <1>1 DEF Inv, Reads, RequestShape
  <2>2. Answers(r)
    BY <1>1, <2>1, AnswerKinds
  <2>3. CheckExpiry(r)
    BY <1>1, <2>2 DEF Answers, InsertUser, Commit, AddSession, FindUser, GetSession
  <2>4. Valid(req[r].session)
    BY <1>1, <2>1, <2>3 DEF CheckExpiry, Answer, TypeOK
  <2>5. req[r].session \in sessions /\ req[r].session.token = req[r].token
    BY <2>1, <2>4 DEF Owned, StoredWhileValid
  <2> QED BY <2>4, <2>5 DEF Valid
<1>2. Inv /\ [Next]_vars =>
         [\A r \in Requests :
             pc[r] = "check expiry" /\ resp'[r] = "ok" =>
                 \E s \in sessions : /\ s.token = req[r].token
                                     /\ s.id = req[r].session.id
                                     /\ s.expires > now]_vars
  BY <1>1
<1> QED BY <1>2, Invariance, PTL DEF Spec, AcceptedWhileLive
-----------------------------------------------------------------------------
Live == {s \in sessions : s.expires > now}

\* Storing a session opens it, unless it has expired by then.
LEMMA StoresOpens ==
    ASSUME TypeOK, RequestShape, Data, NEW r \in Requests, Stores(r)
    PROVE  \/ Live' = Live
           \/ \E token \in Nonces, expires \in (now + 1)..(now + Lifetime) :
                 /\ \A s \in Live : s.token # token
                 /\ Live' = Live \cup {[token |-> token, id |-> req[r].session.id,
                                        expires |-> expires]}
<1> DEFINE new == req[r].session
<1>1. /\ sessions' = sessions \cup {new} /\ now' = now /\ Holds(r)
      /\ new \in Session /\ new.expires \in Nat /\ now \in Nat
  BY SessionFields DEF Stores
<1>2. /\ \A s \in sessions : s.token # new.token
      /\ new.expires <= now + Lifetime
  BY <1>1 DEF Data, Fresh, Untaken, Lifetimes
<1>3. new = [token |-> new.token, id |-> new.id, expires |-> new.expires] /\ new.token \in Nonces
  BY <1>1 DEF Session
<1> HIDE DEF new
<1>4. CASE new.expires > now
  <2>1. new.expires \in (now + 1)..(now + Lifetime)
    BY <1>1, <1>2, <1>4, ConstantsAssumption
  <2>2. Live' = Live \cup {new} /\ \A s \in Live : s.token # new.token
    BY <1>1, <1>2, <1>4 DEF Live
  <2> QED BY <1>3, <2>1, <2>2 DEF new
<1>5. CASE ~(new.expires > now)
  BY <1>1, <1>5 DEF Live
<1> QED BY <1>4, <1>5

\* A step that stores is a registration or a login of the accounts.
LEMMA StoresPromise ==
    ASSUME Inv, NEW r \in Requests, Stores(r)
    PROVE  Promise!Next
<1>1. TypeOK /\ RequestShape /\ Data /\ OneInsertPerLogin
  BY DEF Inv, Data
<1>2. req[r].session \in Session
  BY <1>1 DEF Stores, RequestShape
<1>3. PICK id \in Nonces : id = req[r].session.id
  BY <1>2 DEF Session
<1>4. Promise!Open(id)
  BY <1>1, <1>3, StoresOpens DEF Promise!Open, Live
<1>5. UNCHANGED now
  BY DEF Stores
<1>6. CASE pc[r] = "add session" /\ UNCHANGED users
  <2>1. PICK a \in users : a.id = id
    BY <1>1, <1>3, <1>6 DEF Data, Owned, LoggedIn
  <2>2. Promise!Open(a.id)
    BY <1>4, <2>1
  <2>3. Promise!LogIn(a)
    BY <1>5, <1>6, <2>2 DEF Promise!LogIn
  <2> QED BY <2>1, <2>3 DEF Promise!Next
<1>7. CASE pc[r] \in Inserting /\ users' = users \cup {Registrant(req[r])}
  <2>1. req[r] \in Registration
    BY <1>1, <1>7 DEF RequestShape, RegisterPCs
  <2>2. PICK login \in Logins, password \in Passwords :
            login = req[r].login /\ password = req[r].password
    BY <2>1 DEF Registration
  <2>3. \A a \in users : a.login # login /\ a.id # id
    BY <1>1, <1>3, <1>7, <2>2 DEF OneInsertPerLogin, Data, Fresh, Untaken, Holds, RegisterPCs
  <2>4. Registrant(req[r]) = [id |-> id, login |-> login, password |-> password]
    BY <1>3, <2>2 DEF Registrant
  <2>5. Promise!Register(id, login, password)
    BY <1>4, <1>5, <1>7, <2>3, <2>4 DEF Promise!Register
  <2> QED BY <2>2, <2>5 DEF Promise!Next
<1> QED BY <1>6, <1>7 DEF Stores

\* The cleanup deletes what has expired only; a tick lets sessions expire.
LEMMA ClockPromise ==
    ASSUME Inv, BeginPurge \/ Purge \/ Tick \/ UNCHANGED vars
    PROVE  Promise!Next \/ UNCHANGED <<now, users, Live>>
<1>1. CASE BeginPurge \/ UNCHANGED vars
  BY <1>1 DEF BeginPurge, vars, Live
<1>2. CASE Purge
  <2>1. /\ now \in Nat /\ cutoff \in Nat /\ cutoff <= now
        /\ \A s \in sessions : s.expires \in Nat
    BY <1>2, SessionFields DEF Inv, Purge, Lifetimes
  <2>2. \A s \in sessions : s.expires > now => ~(s.expires <= cutoff)
    BY <2>1
  <2> QED BY <1>2, <2>2 DEF Purge, Purgeable, Live
<1>3. CASE Tick
  <2>1. /\ now \in Nat /\ \A s \in sessions : s.expires \in Nat
    BY SessionFields DEF Inv
  <2>2. \A s \in sessions : s.expires > now + 1 => s.expires > now
    BY <2>1
  <2>3. /\ now' = now + 1 /\ UNCHANGED <<users, sessions>>
    BY <1>3 DEF Tick
  <2>4. Live' = {s \in Live : s.expires > now + 1}
    BY <2>2, <2>3 DEF Live
  <2> QED BY <2>3, <2>4 DEF Promise!Tick, Promise!Next, Live
<1> QED BY <1>1, <1>2, <1>3

\* Requests, transactions and the cleanup implement the accounts: a login is one
\* account's for ever, and a session lives exactly until it expires.
THEOREM ImplementsAccounts == Spec => AccountsSpec
<1>1. Init => Promise!Init
  BY DEF Init, Promise!Init
<1>2. Inv /\ [Next]_vars => [Promise!Next]_(Promise!vars)
  <2> SUFFICES ASSUME Inv, [Next]_vars
               PROVE  Promise!Next \/ UNCHANGED <<now, users, Live>>
    BY DEF Promise!vars, Live
  <2>1. ASSUME NEW r \in Requests, Quiet(r)
        PROVE  UNCHANGED <<now, users, Live>>
    BY <2>1 DEF Quiet, Live
  <2>2. ASSUME NEW r \in Requests, NEW n \in Nonces, Draws(r, n)
        PROVE  UNCHANGED <<now, users, Live>>
    BY <2>2 DEF Draws, Live
  <2>3. ASSUME NEW r \in Requests, NEW s \in sessions, ReadsRow(r, s)
        PROVE  UNCHANGED <<now, users, Live>>
    BY <2>3 DEF ReadsRow, Live
  <2>4. TypeOK /\ RequestShape
    BY DEF Inv
  <2> QED BY <2>1, <2>2, <2>3, <2>4, StepKinds, StoresPromise, ClockPromise
<1> QED BY <1>1, <1>2, Invariance, PTL DEF Spec, AccountsSpec, Promise!Spec
=============================================================================
