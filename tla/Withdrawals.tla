---------------------------- MODULE Withdrawals ----------------------------
(***************************************************************************)
(* Withdrawals against the orders table: BalanceRepository.Withdraw run by *)
(* concurrent HTTP requests as a PostgreSQL transaction at the default     *)
(* isolation level (READ COMMITTED), while users upload orders and the     *)
(* accrual worker saves what the accrual service answered.                 *)
(*                                                                         *)
(* Every statement of the transaction is one action, because another       *)
(* transaction may commit between two statements.  The locks are derived   *)
(* from how far a transaction has come: PostgreSQL keeps a row lock or an  *)
(* uncommitted row until the transaction ends.                             *)
(***************************************************************************)
EXTENDS Integers, FiniteSets

CONSTANTS
    Users,          \* the registered users
    OrderNumbers,   \* the numbers that are uploaded as orders
    Numbers,        \* the numbers that withdrawals are made for
    Amounts,        \* the positive sums that occur, in hundredths
    Requests,       \* the withdrawal requests the HTTP server handles at once
    PoolSize,       \* the connections of the pgxpool
    None,           \* an absent row, or no request
    Total(_)        \* the SUM aggregate, over a function from keys to amounts

Values == Amounts \cup {0}

Statuses == {"NEW", "PROCESSING", "INVALID", "PROCESSED"}
Unfinished == {"NEW", "PROCESSING"}

\* An order row; the accrual 0 also stands for NULL, which the balance query
\* leaves out of its sum.
Order == [status : Statuses, user : Users, accrual : Values]

\* What a request asks for.
Withdrawal == [user : Users, number : Numbers, sum : Amounts]

\* A row of the withdrawals table, keyed by its number.
Row == [user : Users, sum : Amounts]

ASSUME ConstantsAssumption ==
    /\ Amounts \subseteq Nat \ {0}
    /\ PoolSize \in Nat \ {0}
    /\ None \notin Order \cup Withdrawal \cup Row

\* What SUM does, said without recursion: a sum of zeros is zero, and changing
\* one row changes the sum by as much.
ASSUME TotalAssumption ==
    \A K \in {OrderNumbers, Numbers} :
        /\ Total([k \in K |-> 0]) = 0
        /\ \A f \in [K -> Values] :
              /\ Total(f) \in Nat
              /\ \A k \in K, v \in Values :
                    Total([f EXCEPT ![k] = v]) = Total(f) - f[k] + v

VARIABLES
    orders,         \* the orders table
    withdrawals,    \* the committed rows of the withdrawals table
    pc,             \* where each request is
    req,            \* the withdrawal each request asks for
    resp            \* the answer each request got

vars == <<orders, withdrawals, pc, req, resp>>
-----------------------------------------------------------------------------
\* The states in which a request holds a connection of the pool, its user's row
\* lock, and an uncommitted row of its own.  An "in doubt" transaction is one
\* whose COMMIT was sent and whose connection the client then gave up.
Connected == {"lock", "insert", "conflict", "check", "commit"}
Locking == {"insert", "conflict", "check", "commit", "in doubt"}
Inserting == {"check", "commit", "in doubt"}
PCs == {"idle", "begin", "lock"} \cup Locking

Responses == {"none", "ok", "insufficient", "already withdrawn", "error"}

HoldsUserLock(r, u) == pc[r] \in Locking /\ req[r].user = u
HasInserted(r, n) == pc[r] \in Inserting /\ req[r].number = n

\* Fault: the balance is read through the pool, on a second connection, instead of
\* through the transaction.
BlockersThroughPool(r) ==
    LET connected == {q \in Requests : pc[q] \in Connected}
    IN  CASE pc[r] \in {"begin", "check"} ->
                IF Cardinality(connected) < PoolSize THEN {} ELSE connected
          [] pc[r] = "lock" -> {q \in Requests \ {r} : HoldsUserLock(q, req[r].user)}
          [] pc[r] = "insert" -> {q \in Requests \ {r} : HasInserted(q, req[r].number)}
          [] OTHER -> {}

\* Whom the next statement of r has to wait for: pool.Begin for those who have the
\* connections if none is left, SELECT ... FOR NO KEY UPDATE for who has the row of the
\* same user, and INSERT for who has inserted the same number and not ended yet.
Blockers(r) ==
    CASE pc[r] = "begin" ->
            LET connected == {q \in Requests : pc[q] \in Connected}
            IN  IF Cardinality(connected) < PoolSize THEN {} ELSE connected
      [] pc[r] = "lock" -> {q \in Requests \ {r} : HoldsUserLock(q, req[r].user)}
      [] pc[r] = "insert" -> {q \in Requests \ {r} : HasInserted(q, req[r].number)}
      [] OTHER -> {}

\* The rows of the two subqueries of balanceQuery as functions from keys.
Accrued(u) ==
    [o \in OrderNumbers |->
        IF orders[o] # None /\ orders[o].status = "PROCESSED" /\ orders[o].user = u
        THEN orders[o].accrual ELSE 0]
Withdrawn(u) ==
    [n \in Numbers |->
        IF withdrawals[n] # None /\ withdrawals[n].user = u
        THEN withdrawals[n].sum ELSE 0]

\* balanceQuery over the committed rows: the current balance.
Current(u) == Total(Accrued(u)) - Total(Withdrawn(u))

\* balanceQuery inside the transaction of r, which sees its own row as well.
CurrentIn(r) == Current(req[r].user) - req[r].sum

TypeOK ==
    /\ orders \in [OrderNumbers -> Order \cup {None}]
    /\ withdrawals \in [Numbers -> Row \cup {None}]
    /\ pc \in [Requests -> PCs]
    /\ req \in [Requests -> Withdrawal \cup {None}]
    /\ resp \in [Requests -> Responses]
    /\ \A r \in Requests : pc[r] # "idle" => req[r] # None
-----------------------------------------------------------------------------
Goto(r, label) ==
    /\ pc' = [pc EXCEPT ![r] = label]
    /\ UNCHANGED <<req, resp>>

\* The handler answers; the deferred Rollback has ended the transaction.
Answer(r, response) ==
    /\ pc' = [pc EXCEPT ![r] = "idle"]
    /\ resp' = [resp EXCEPT ![r] = response]
    /\ UNCHANGED req

\* The statement with this label is the next of r, and need not wait.
At(r, label) == pc[r] = label /\ Blockers(r) = {}

StoreRow(r) ==
    withdrawals' = [withdrawals EXCEPT ![req[r].number] =
                        [user |-> req[r].user, sum |-> req[r].sum]]
-----------------------------------------------------------------------------
(***************************************************************************)
(* Faults: a plausible mistake in the code each.  They are no part of the  *)
(* specification; they show what the properties below detect.              *)
(***************************************************************************)
\* The user's row is read without FOR NO KEY UPDATE.
LockOwnerUnlocked(r) ==
    /\ pc[r] = "lock"
    /\ Goto(r, "insert")
    /\ UNCHANGED <<orders, withdrawals>>

\* An insert in progress is taken for a conflict instead of being waited for.
InsertImpatient(r) ==
    /\ pc[r] = "insert"
    /\ IF \/ withdrawals[req[r].number] # None
          \/ \E q \in Requests \ {r} : HasInserted(q, req[r].number)
       THEN Goto(r, "conflict")
       ELSE Goto(r, "check")
    /\ UNCHANGED <<orders, withdrawals>>

\* ON CONFLICT DO UPDATE: the second withdrawal replaces the first.
InsertUpserting(r) ==
    /\ pc[r] = "insert"
    /\ \A q \in Requests \ {r} : ~HasInserted(q, req[r].number)
    /\ Goto(r, "check")
    /\ UNCHANGED <<orders, withdrawals>>

-----------------------------------------------------------------------------
Init ==
    /\ orders = [o \in OrderNumbers |-> None]
    /\ withdrawals = [n \in Numbers |-> None]
    /\ pc = [r \in Requests |-> "idle"]
    /\ req = [r \in Requests |-> None]
    /\ resp = [r \in Requests |-> "none"]

\* OrderRepository.Add: the number's first uploader owns it.
AddOrder(u, o) ==
    /\ orders[o] = None
    /\ orders' = [orders EXCEPT ![o] = [status |-> "NEW", user |-> u, accrual |-> 0]]
    /\ UNCHANGED <<withdrawals, pc, req, resp>>

\* AccrualRepository.Save of any update a worker may have decided on, however
\* long ago: only the WHERE clause stands between it and the row.
Save(o, status, accrual) ==
    /\ orders[o] # None
    /\ orders[o].status \in Unfinished
    /\ ~(orders[o].status = "PROCESSING" /\ status = "NEW")
    /\ orders' = [orders EXCEPT ![o].status = status, ![o].accrual = accrual]
    /\ UNCHANGED <<withdrawals, pc, req, resp>>

\* The handler and the service accept a withdrawal request.
Receive(r, w) ==
    /\ pc[r] = "idle"
    /\ pc' = [pc EXCEPT ![r] = "begin"]
    /\ req' = [req EXCEPT ![r] = w]
    /\ resp' = [resp EXCEPT ![r] = "none"]
    /\ UNCHANGED <<orders, withdrawals>>

\* pool.Begin waits for a free connection.
Begin(r) ==
    /\ At(r, "begin")
    /\ Goto(r, "lock")
    /\ UNCHANGED <<orders, withdrawals>>

\* SELECT ... FOR NO KEY UPDATE waits for the user's row lock.
LockOwner(r) ==
    /\ At(r, "lock")
    /\ Goto(r, "insert")
    /\ UNCHANGED <<orders, withdrawals>>

\* INSERT ... ON CONFLICT DO NOTHING waits until no other transaction has an
\* uncommitted row of the same number, then inserts or finds the committed one.
Insert(r) ==
    /\ At(r, "insert")
    /\ IF withdrawals[req[r].number] = None
       THEN Goto(r, "check")
       ELSE Goto(r, "conflict")
    /\ UNCHANGED <<orders, withdrawals>>

\* No row was inserted: the existing row is read and the request refused.  That the
\* row has another number, as hashes collide, is an error: Fail gives its answer.
ReadConflict(r) ==
    /\ At(r, "conflict")
    /\ Answer(r, "already withdrawn")
    /\ UNCHANGED <<orders, withdrawals>>

\* The balance is read with the new row in place; a negative one is refused.
CheckBalance(r) ==
    /\ At(r, "check")
    /\ IF CurrentIn(r) >= 0
       THEN Goto(r, "commit")
       ELSE Answer(r, "insufficient")
    /\ UNCHANGED <<orders, withdrawals>>

Commit(r) ==
    /\ At(r, "commit")
    /\ StoreRow(r)
    /\ Answer(r, "ok")
    /\ UNCHANGED orders

\* A statement fails: the context is cancelled, the connection or the process
\* is lost.  The server rolls the transaction back.
Fail(r) ==
    /\ pc[r] \in {"begin"} \cup Connected
    /\ Answer(r, "error")
    /\ UNCHANGED <<orders, withdrawals>>

\* Commit returns an error although the server may have got the COMMIT: the
\* client has its answer before the transaction has ended.
GiveUpCommit(r) ==
    /\ pc[r] = "commit"
    /\ pc' = [pc EXCEPT ![r] = "in doubt"]
    /\ resp' = [resp EXCEPT ![r] = "error"]
    /\ UNCHANGED <<orders, withdrawals, req>>

\* The server ends a transaction in doubt one way or the other.
Settle(r) ==
    /\ At(r, "in doubt")
    /\ StoreRow(r) \/ UNCHANGED withdrawals
    /\ pc' = [pc EXCEPT ![r] = "idle"]
    /\ UNCHANGED <<orders, req, resp>>

\* The statements of the transaction, each of which may have to wait.
Proceed(r) ==
    \/ Begin(r)
    \/ LockOwner(r)
    \/ Insert(r)
    \/ ReadConflict(r)
    \/ CheckBalance(r)
    \/ Commit(r)
    \/ Settle(r)

Next ==
    \/ \E u \in Users, o \in OrderNumbers : AddOrder(u, o)
    \/ \E o \in OrderNumbers, status \in Statuses, accrual \in Values :
          /\ status # "PROCESSED" => accrual = 0
          /\ Save(o, status, accrual)
    \/ \E r \in Requests :
          \/ \E w \in Withdrawal : Receive(r, w)
          \/ Proceed(r)
          \/ Fail(r)
          \/ GiveUpCommit(r)

\* The pool and PostgreSQL queue their waiters in order of arrival, so a
\* waiter whose turn comes again and again is served: strong fairness.  For a
\* statement that need not wait this says no more than that it is executed.
Fairness == \A r \in Requests : SF_vars(Proceed(r))

Spec == Init /\ [][Next]_vars

FairSpec == Spec /\ Fairness
-----------------------------------------------------------------------------
\* No interleaving of withdrawals, uploads and late saves overdraws an account:
\* the balance a request checked (balance_repository.go:99) is still there when
\* its transaction commits (106).  GetBalance reports an error otherwise.
NonNegativeBalance == \A u \in Users : Current(u) >= 0

\* An answer agrees with the table for as long as the client may act on it: 200
\* means that this very withdrawal is stored, and "already withdrawn" that the
\* number has paid for some withdrawal -- never that it was merely being tried
\* by a request that was rolled back afterwards.
AnswersAreTrue ==
    \A r \in Requests :
        /\ resp[r] = "ok" =>
              withdrawals[req[r].number] = [user |-> req[r].user, sum |-> req[r].sum]
        /\ resp[r] = "already withdrawn" => withdrawals[req[r].number] # None

\* Nobody waits in a circle: in every set of waiting requests somebody waits for one
\* outside of it.  A request has at most one connection (the balance is read on that of
\* its transaction), takes it before the user's row, and that before the number
\* (balance_repository.go:66-99).
NeverDeadlocked ==
    \A D \in (SUBSET Requests) \ {{}} :
        (\A r \in D : Blockers(r) # {}) => \E r \in D : ~(Blockers(r) \subseteq D)

\* Every request is answered and its transaction ends, however many requests
\* wait for the same connection, user or number.
EveryRequestEnds == \A r \in Requests : pc[r] # "idle" ~> pc[r] = "idle"

\* The transactions implement the ledger.
Account == INSTANCE Ledger WITH
    funds <- [u \in Users |-> Current(u)],
    payments <- withdrawals

LedgerSpec == Account!Spec
=============================================================================
