------------------------------ MODULE Accounts ------------------------------
(***************************************************************************)
(* What registration, login and expiry promise, without requests,          *)
(* transactions or the cleanup: a login belongs to one account for ever,   *)
(* only accounts have sessions, and a session lives exactly until it       *)
(* expires, which is a lifetime from its opening at most.                  *)
(* Sessions.tla implements this specification.                             *)
(***************************************************************************)
EXTENDS Naturals

CONSTANTS Logins, Passwords, Ids, Tokens, Lifetime

VARIABLES
    now,        \* the clock
    accounts,   \* the accounts
    live        \* the sessions that have not expired

vars == <<now, accounts, live>>

Init ==
    /\ now = 0
    /\ accounts = {}
    /\ live = {}

\* A session that comes so late that it has expired never lives.
Open(id) ==
    \/ UNCHANGED live
    \/ \E token \in Tokens, expires \in (now + 1)..(now + Lifetime) :
          /\ \A s \in live : s.token # token
          /\ live' = live \cup {[token |-> token, id |-> id, expires |-> expires]}

Register(id, login, password) ==
    /\ \A a \in accounts : a.login # login /\ a.id # id
    /\ accounts' = accounts \cup {[id |-> id, login |-> login, password |-> password]}
    /\ Open(id)
    /\ UNCHANGED now

LogIn(a) ==
    /\ Open(a.id)
    /\ UNCHANGED <<now, accounts>>

Tick ==
    /\ now' = now + 1
    /\ live' = {s \in live : s.expires > now + 1}
    /\ UNCHANGED accounts

Next ==
    \/ \E id \in Ids, login \in Logins, password \in Passwords : Register(id, login, password)
    \/ \E a \in accounts : LogIn(a)
    \/ Tick

Spec == Init /\ [][Next]_vars
=============================================================================
