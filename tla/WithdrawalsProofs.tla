------------------------- MODULE WithdrawalsProofs -------------------------
(***************************************************************************)
(* Proofs about Withdrawals.tla for every set of users, numbers, sums and  *)
(* requests and every size of the pool: no account is overdrawn, the       *)
(* answers are true, the transactions implement the ledger and never wait  *)
(* for each other in a circle.                                             *)
(***************************************************************************)
EXTENDS Withdrawals, FiniteSetTheorems, TLAPS

\* FOR NO KEY UPDATE on the user's row: at most one transaction per user.
OneLockPerUser ==
    \A r, q \in Requests :
        r # q /\ pc[r] \in Locking /\ pc[q] \in Locking => req[r].user # req[q].user

\* The unique key: a number with an uncommitted row has no other row.
OneInsertPerNumber ==
    \A r \in Requests : pc[r] \in Inserting =>
        /\ withdrawals[req[r].number] = None
        /\ \A q \in Requests \ {r} :
              pc[q] \in Inserting => req[r].number # req[q].number

\* The balance that was checked is still there.
Checked(r) == pc[r] \in {"commit", "in doubt"}
CheckedFunds == \A r \in Requests : Checked(r) => CurrentIn(r) >= 0

\* A conflict was found with a committed row, and 200 ends a request.
ConflictIsCommitted ==
    \A r \in Requests :
        /\ pc[r] = "conflict" => withdrawals[req[r].number] # None
        /\ pc[r] # "idle" => resp[r] \in {"none", "error"}
        /\ resp[r] # "none" => req[r] # None

Inv ==
    /\ TypeOK
    /\ OneLockPerUser
    /\ OneInsertPerNumber
    /\ CheckedFunds
    /\ NonNegativeBalance
    /\ ConflictIsCommitted
    /\ AnswersAreTrue

\* At only names the guard the statements share.
USE DEF At
-----------------------------------------------------------------------------
\* The rows a balance sums are functions into the sums that occur, so the
\* balance is a number.
LEMMA BalanceIsInteger ==
    ASSUME TypeOK, NEW u \in Users
    PROVE  /\ Accrued(u) \in [OrderNumbers -> Values]
           /\ Withdrawn(u) \in [Numbers -> Values]
           /\ Total(Accrued(u)) \in Nat
           /\ Total(Withdrawn(u)) \in Nat
           /\ Current(u) \in Int
<1>1. Accrued(u) \in [OrderNumbers -> Values]
  <2>1. ASSUME NEW o \in OrderNumbers
        PROVE  (IF orders[o] # None /\ orders[o].status = "PROCESSED" /\ orders[o].user = u
                THEN orders[o].accrual ELSE 0) \in Values
    BY DEF TypeOK, Order, Values
  <2> QED BY <2>1 DEF Accrued
<1>2. Withdrawn(u) \in [Numbers -> Values]
  <2>1. ASSUME NEW n \in Numbers
        PROVE  (IF withdrawals[n] # None /\ withdrawals[n].user = u
                THEN withdrawals[n].sum ELSE 0) \in Values
    BY DEF TypeOK, Row, Values
  <2> QED BY <2>1 DEF Withdrawn
<1>3. Total(Accrued(u)) \in Nat /\ Total(Withdrawn(u)) \in Nat
  BY <1>1, <1>2, TotalAssumption
<1> QED BY <1>1, <1>2, <1>3 DEF Current

\* An order that is uploaded changes nobody's balance.
LEMMA AddOrderKeepsBalances ==
    ASSUME TypeOK, NEW u \in Users, NEW v \in Users, NEW o \in OrderNumbers,
           AddOrder(v, o)
    PROVE  Current(u)' = Current(u)
<1>1. Accrued(u)' = Accrued(u)
  <2>1. ASSUME NEW k \in OrderNumbers
        PROVE  (IF orders'[k] # None /\ orders'[k].status = "PROCESSED" /\ orders'[k].user = u
                THEN orders'[k].accrual ELSE 0)
             = (IF orders[k] # None /\ orders[k].status = "PROCESSED" /\ orders[k].user = u
                THEN orders[k].accrual ELSE 0)
    <3>1. CASE k = o
      BY <3>1 DEF TypeOK, AddOrder
    <3>2. CASE k # o
      BY <3>2 DEF TypeOK, AddOrder
    <3> QED BY <3>1, <3>2
  <2> QED BY <2>1 DEF Accrued
<1>2. Withdrawn(u)' = Withdrawn(u)
  BY DEF Withdrawn, AddOrder
<1> QED BY <1>1, <1>2 DEF Current

\* A saved update raises the balance of the order's owner by the accrual of a
\* PROCESSED order, and no other balance: the WHERE clause of Save admits only
\* orders that have not been counted yet.
LEMMA SaveCredits ==
    ASSUME TypeOK, NEW u \in Users, NEW o \in OrderNumbers,
           NEW s \in Statuses, NEW a \in Values, Save(o, s, a)
    PROVE  Current(u)' = Current(u)
               + (IF s = "PROCESSED" /\ orders[o].user = u THEN a ELSE 0)
<1> DEFINE credit == IF s = "PROCESSED" /\ orders[o].user = u THEN a ELSE 0
<1>1. credit \in Values
  BY DEF Values
<1>2. Accrued(u)' = [Accrued(u) EXCEPT ![o] = credit]
  <2>1. ASSUME NEW k \in OrderNumbers
        PROVE  (IF orders'[k] # None /\ orders'[k].status = "PROCESSED" /\ orders'[k].user = u
                THEN orders'[k].accrual ELSE 0)
             = [Accrued(u) EXCEPT ![o] = credit][k]
    <3>1. CASE k = o
      <4>1. orders'[o] = [orders[o] EXCEPT !.status = s, !.accrual = a]
        BY DEF Save, TypeOK
      <4>2. orders[o] \in Order
        BY DEF Save, TypeOK
      <4>3. orders'[o] # None /\ orders'[o].status = s
               /\ orders'[o].user = orders[o].user /\ orders'[o].accrual = a
        BY <4>1, <4>2, ConstantsAssumption DEF Order
      <4> QED BY <3>1, <4>3 DEF Accrued
    <3>2. CASE k # o
      BY <3>2 DEF TypeOK, Save, Accrued
    <3> QED BY <3>1, <3>2
  <2> QED BY <2>1 DEF Accrued
<1>3. Accrued(u)[o] = 0
  BY DEF Save, Accrued, Unfinished
<1>4. Total(Accrued(u)') = Total(Accrued(u)) + credit
  <2>1. Total([Accrued(u) EXCEPT ![o] = credit]) = Total(Accrued(u)) - Accrued(u)[o] + credit
    BY <1>1, BalanceIsInteger, TotalAssumption
  <2>2. credit \in Int
    BY <1>1, ConstantsAssumption DEF Values
  <2> HIDE DEF credit
  <2> QED BY <1>2, <1>3, <2>1, <2>2, BalanceIsInteger
<1>5. Withdrawn(u)' = Withdrawn(u)
  BY DEF Withdrawn, Save
<1>6. credit \in Int
  BY <1>1, ConstantsAssumption DEF Values
<1> HIDE DEF credit
<1>7. Current(u)' = Current(u) + credit
  BY <1>4, <1>5, <1>6, BalanceIsInteger DEF Current
<1> QED BY <1>7 DEF credit

\* A committed row lowers its user's balance by its sum, and no other balance.
LEMMA StoreRowDebits ==
    ASSUME TypeOK, NEW u \in Users, NEW r \in Requests, req[r] # None,
           withdrawals[req[r].number] = None, StoreRow(r), UNCHANGED orders
    PROVE  Current(u)' = IF u = req[r].user THEN CurrentIn(r) ELSE Current(u)
<1> DEFINE n == req[r].number
           sum == req[r].sum
           debit == IF u = req[r].user THEN sum ELSE 0
<1>1. n \in Numbers /\ req[r].user \in Users /\ sum \in Amounts
  BY DEF TypeOK, Withdrawal
<1>2. debit \in Values /\ debit \in Int /\ sum \in Int
  <2>1. \A a \in Values : a \in Int
    BY ConstantsAssumption DEF Values
  <2>2. sum \in Values /\ debit \in Values
    BY <1>1 DEF Values
  <2> QED BY <2>1, <2>2
<1>3. withdrawals' = [withdrawals EXCEPT ![n] = [user |-> req[r].user, sum |-> sum]]
  BY DEF StoreRow
<1>4. [user |-> req[r].user, sum |-> sum] # None
  BY <1>1, ConstantsAssumption DEF Row
<1>5. Withdrawn(u)' = [Withdrawn(u) EXCEPT ![n] = debit]
  <2>1. ASSUME NEW k \in Numbers
        PROVE  (IF withdrawals'[k] # None /\ withdrawals'[k].user = u
                THEN withdrawals'[k].sum ELSE 0)
             = [Withdrawn(u) EXCEPT ![n] = debit][k]
    <3>1. CASE k = n
      <4>1. withdrawals'[n] = [user |-> req[r].user, sum |-> sum]
        BY <1>1, <1>3 DEF TypeOK
      <4>2. withdrawals'[n].user = req[r].user /\ withdrawals'[n].sum = sum
        BY <4>1
      <4> QED BY <3>1, <1>4, <4>1, <4>2 DEF Withdrawn
    <3>2. CASE k # n
      BY <3>2, <1>1, <1>3 DEF TypeOK, Withdrawn
    <3> QED BY <3>1, <3>2
  <2> QED BY <2>1 DEF Withdrawn
<1>6. Withdrawn(u)[n] = 0
  BY <1>1 DEF Withdrawn
<1>7. Total([Withdrawn(u) EXCEPT ![n] = debit]) = Total(Withdrawn(u)) - Withdrawn(u)[n] + debit
  BY <1>1, <1>2, BalanceIsInteger, TotalAssumption
<1>8. Accrued(u)' = Accrued(u)
  BY DEF Accrued
<1> HIDE DEF debit
<1>9. Total(Withdrawn(u)') = Total(Withdrawn(u)) + debit
  BY <1>2, <1>5, <1>6, <1>7, BalanceIsInteger
<1>10. Current(u)' = Current(u) - debit
  BY <1>2, <1>8, <1>9, BalanceIsInteger DEF Current
<1>11. CASE u = req[r].user
  BY <1>10, <1>11 DEF debit, CurrentIn
<1>12. CASE u # req[r].user
  <2>1. debit = 0
    BY <1>12 DEF debit
  <2> QED BY <1>10, <1>12, <2>1, BalanceIsInteger
<1> QED BY <1>11, <1>12

\* A step that touches neither table keeps every balance.
LEMMA TablesDecideBalances ==
    ASSUME NEW u \in Users, UNCHANGED <<orders, withdrawals>>
    PROVE  Current(u)' = Current(u)
BY DEF Current, Accrued, Withdrawn

-----------------------------------------------------------------------------
\* The initial states: no order, no withdrawal, balances of zero.
LEMMA InitialBalances ==
    ASSUME Init, NEW u \in Users
    PROVE  Current(u) = 0
<1>1. Accrued(u) = [o \in OrderNumbers |-> 0]
  BY DEF Init, Accrued
<1>2. Withdrawn(u) = [n \in Numbers |-> 0]
  BY DEF Init, Withdrawn
<1>3. Total(Accrued(u)) = 0 /\ Total(Withdrawn(u)) = 0
  BY <1>1, <1>2, TotalAssumption
<1> QED BY <1>3 DEF Current

LEMMA InitInv == Init => Inv
<1> SUFFICES ASSUME Init PROVE Inv
  OBVIOUS
<1>1. TypeOK
  BY DEF Init, TypeOK, PCs, Responses
<1>2. OneLockPerUser /\ OneInsertPerNumber /\ CheckedFunds
  BY DEF Init, OneLockPerUser, OneInsertPerNumber, CheckedFunds, Checked, Locking, Inserting
<1>3. NonNegativeBalance
  BY InitialBalances DEF NonNegativeBalance
<1>4. ConflictIsCommitted /\ AnswersAreTrue
  BY DEF Init, ConflictIsCommitted, AnswersAreTrue
<1> QED BY <1>1, <1>2, <1>3, <1>4 DEF Inv

\* Every action keeps the variables in their types.
LEMMA TypeStep ==
    ASSUME TypeOK, [Next]_vars
    PROVE  TypeOK'
<1> USE DEF TypeOK
<1>1. ASSUME NEW u \in Users, NEW o \in OrderNumbers, AddOrder(u, o)
      PROVE  TypeOK'
  <2>1. [status |-> "NEW", user |-> u, accrual |-> 0] \in Order
    BY DEF Order, Statuses, Values
  <2> QED BY <1>1, <2>1 DEF AddOrder
<1>2. ASSUME NEW o \in OrderNumbers, NEW s \in Statuses, NEW a \in Values, Save(o, s, a)
      PROVE  TypeOK'
  <2>1. [orders[o] EXCEPT !.status = s, !.accrual = a] \in Order
    BY <1>2 DEF Save, Order
  <2>2. orders' = [orders EXCEPT ![o] = [orders[o] EXCEPT !.status = s, !.accrual = a]]
    BY <1>2 DEF Save
  <2> QED BY <1>2, <2>1, <2>2 DEF Save
<1>3. ASSUME NEW r \in Requests, NEW w \in Withdrawal, Receive(r, w)
      PROVE  TypeOK'
  <2>1. w # None
    BY ConstantsAssumption
  <2> QED BY <1>3, <2>1 DEF Receive, PCs, Responses
<1>4. ASSUME NEW r \in Requests, StoreRow(r), pc[r] # "idle"
      PROVE  withdrawals' \in [Numbers -> Row \cup {None}]
  BY <1>4 DEF StoreRow, Withdrawal, Row
<1>5. ASSUME NEW r \in Requests, Proceed(r) \/ Fail(r) \/ GiveUpCommit(r)
      PROVE  TypeOK'
  BY <1>4, <1>5 DEF Proceed, Fail, GiveUpCommit, Begin, LockOwner, Insert, ReadConflict,
     CheckBalance, Commit, Settle, Goto, Answer, PCs, Locking, Connected, Responses
<1>6. CASE UNCHANGED vars
  BY <1>6 DEF vars
<1> QED BY <1>1, <1>2, <1>3, <1>5, <1>6 DEF Next

\* The locks PostgreSQL keeps exclude each other.
LEMMA LocksStep ==
    ASSUME Inv, [Next]_vars
    PROVE  OneLockPerUser' /\ OneInsertPerNumber'
<1> USE DEF Inv, TypeOK, OneLockPerUser, OneInsertPerNumber, Locking, Inserting
<1>1. ASSUME NEW u \in Users, NEW o \in OrderNumbers, AddOrder(u, o)
      PROVE  OneLockPerUser' /\ OneInsertPerNumber'
  BY <1>1 DEF AddOrder
<1>2. ASSUME NEW o \in OrderNumbers, NEW s \in Statuses, NEW a \in Values, Save(o, s, a)
      PROVE  OneLockPerUser' /\ OneInsertPerNumber'
  BY <1>2 DEF Save
<1>3. ASSUME NEW r \in Requests, NEW w \in Withdrawal, Receive(r, w)
      PROVE  OneLockPerUser' /\ OneInsertPerNumber'
  BY <1>3 DEF Receive
<1>4. ASSUME NEW r \in Requests, Begin(r) \/ ReadConflict(r) \/ Fail(r) \/ GiveUpCommit(r)
      PROVE  OneLockPerUser' /\ OneInsertPerNumber'
  <2>1. withdrawals' = withdrawals /\ req' = req
    BY <1>4 DEF Begin, ReadConflict, Fail, GiveUpCommit, Goto, Answer
  <2>2. \A q \in Requests : /\ pc'[q] \in Locking => pc[q] \in Locking
                            /\ pc'[q] \in Inserting => pc[q] \in Inserting
    <3>1. CASE Begin(r)
      BY <3>1 DEF Begin, Goto, Connected
    <3>2. CASE ReadConflict(r)
      BY <3>2 DEF ReadConflict, Answer
    <3>3. CASE Fail(r) \/ GiveUpCommit(r)
      BY <3>3 DEF Fail, GiveUpCommit, Answer
    <3> QED BY <1>4, <3>1, <3>2, <3>3
  <2> HIDE DEF Locking, Inserting
  <2> QED BY <2>1, <2>2
<1>5. ASSUME NEW r \in Requests, LockOwner(r)
      PROVE  OneLockPerUser' /\ OneInsertPerNumber'
  BY <1>5 DEF LockOwner, Blockers, HoldsUserLock, Goto
<1>6. ASSUME NEW r \in Requests, Insert(r)
      PROVE  OneLockPerUser' /\ OneInsertPerNumber'
  <2>1. /\ withdrawals' = withdrawals /\ req' = req
        /\ pc[r] = "insert"
        /\ \A q \in Requests \ {r} : pc'[q] = pc[q] /\ ~HasInserted(q, req[r].number)
        /\ pc'[r] \in Inserting => withdrawals[req[r].number] = None
    BY <1>6 DEF Insert, Blockers, Goto
  <2>2. \A q \in Requests : pc'[q] \in Locking => pc[q] \in Locking
    BY <2>1
  <2>3. OneLockPerUser'
    <3> HIDE DEF Locking
    <3> QED BY <2>1, <2>2
  <2>4. ASSUME NEW q \in Requests, pc'[q] \in Inserting
        PROVE  /\ withdrawals[req[q].number] = None
               /\ \A p \in Requests \ {q} :
                     pc'[p] \in Inserting => req[q].number # req[p].number
    BY <2>1, <2>4 DEF HasInserted
  <2> QED BY <2>1, <2>3, <2>4
<1>7. ASSUME NEW r \in Requests, CheckBalance(r)
      PROVE  OneLockPerUser' /\ OneInsertPerNumber'
  <2>1. withdrawals' = withdrawals /\ req' = req
    BY <1>7 DEF CheckBalance, Goto, Answer
  <2>2. \A q \in Requests : /\ pc'[q] \in Locking => pc[q] \in Locking
                            /\ pc'[q] \in Inserting => pc[q] \in Inserting
    BY <1>7 DEF CheckBalance, Goto, Answer
  <2> HIDE DEF Locking, Inserting
  <2> QED BY <2>1, <2>2
<1>8. ASSUME NEW r \in Requests, Commit(r) \/ Settle(r)
      PROVE  OneLockPerUser' /\ OneInsertPerNumber'
  <2>1. /\ pc[r] \in Inserting
        /\ req' = req
        /\ pc' = [pc EXCEPT ![r] = "idle"]
        /\ \A n \in Numbers : n # req[r].number => withdrawals'[n] = withdrawals[n]
    BY <1>8 DEF Commit, Settle, StoreRow, Answer
  <2>2. OneLockPerUser'
    BY <2>1
  <2>3. ASSUME NEW q \in Requests, pc'[q] \in Inserting
        PROVE  /\ withdrawals'[req[q].number] = None
               /\ \A p \in Requests \ {q} :
                     pc'[p] \in Inserting => req[q].number # req[p].number
    <3>1. q # r /\ pc[q] \in Inserting /\ req[q].number # req[r].number
      BY <2>1, <2>3
    <3>2. req[q].number \in Numbers
      BY <3>1 DEF Withdrawal
    <3> QED BY <2>1, <3>1, <3>2
  <2> QED BY <2>1, <2>2, <2>3
<1>9. CASE UNCHANGED vars
  BY <1>9 DEF vars
<1> QED BY <1>1, <1>2, <1>3, <1>4, <1>5, <1>6, <1>7, <1>8, <1>9 DEF Next, Proceed

\* A step that lowers no balance, and brings no transaction to its commit,
\* keeps the accounts covered.
LEMMA FundsKept ==
    ASSUME Inv, TypeOK',
           \A u \in Users : Current(u)' \in Int /\ Current(u)' >= Current(u),
           \A r \in Requests : Checked(r)' => Checked(r) /\ req'[r] = req[r]
    PROVE  CheckedFunds' /\ NonNegativeBalance'
<1>1. \A u \in Users : Current(u) \in Int
  BY BalanceIsInteger DEF Inv
<1>2. ASSUME NEW u \in Users, NEW sum \in Int, Current(u) - sum >= 0
      PROVE  Current(u)' - sum >= 0
  <2>1. Current(u) \in Int /\ Current(u)' \in Int /\ Current(u)' >= Current(u)
    BY <1>1
  <2> QED BY <1>2, <2>1
<1>3. NonNegativeBalance'
  <2>1. ASSUME NEW u \in Users
        PROVE  Current(u)' >= 0
    <3>1. Current(u) \in Int /\ Current(u)' \in Int /\ Current(u)' >= Current(u)
      BY <1>1
    <3>2. Current(u) >= 0
      BY DEF Inv, NonNegativeBalance
    <3> QED BY <3>1, <3>2
  <2> QED BY <2>1 DEF NonNegativeBalance
<1>4. ASSUME NEW r \in Requests, Checked(r)'
      PROVE  CurrentIn(r)' >= 0
  <2>1. CurrentIn(r) >= 0 /\ req'[r] = req[r] /\ req[r] # None
    <3>1. Checked(r) /\ req'[r] = req[r]
      BY <1>4
    <3>2. CurrentIn(r) >= 0
      BY <3>1 DEF Inv, CheckedFunds
    <3>3. ASSUME Checked(r) PROVE req[r] # None
      BY <3>3 DEF Checked, Inv, TypeOK
    <3> QED BY <3>1, <3>2, <3>3
  <2>2. req[r].user \in Users /\ req[r].sum \in Int
    <3>1. req[r] \in Withdrawal
      BY <2>1 DEF Inv, TypeOK
    <3>2. \A a \in Amounts : a \in Int
      BY ConstantsAssumption
    <3> QED BY <3>1, <3>2 DEF Withdrawal
  <2>3. PICK u \in Users : u = req[r].user /\ u = req'[r].user
    BY <2>1, <2>2
  <2>4. Current(u) - req[r].sum >= 0
    BY <2>1, <2>3 DEF CurrentIn
  <2>5. Current(u)' - req[r].sum >= 0
    BY <1>2, <2>2, <2>4
  <2>6. CurrentIn(r)' = Current(u)' - req[r].sum
    BY <2>1, <2>3 DEF CurrentIn
  <2> QED BY <2>5, <2>6
<1> QED BY <1>3, <1>4 DEF CheckedFunds

\* No step overdraws an account.
LEMMA FundsStep ==
    ASSUME Inv, TypeOK', [Next]_vars
    PROVE  CheckedFunds' /\ NonNegativeBalance'
<1>1. \A u \in Users : Current(u) \in Int
  BY BalanceIsInteger DEF Inv
<1>2. ASSUME UNCHANGED <<orders, withdrawals>>
      PROVE  \A u \in Users : Current(u)' \in Int /\ Current(u)' >= Current(u)
  BY <1>1, <1>2, TablesDecideBalances
<1>3. ASSUME NEW v \in Users, NEW o \in OrderNumbers, AddOrder(v, o)
      PROVE  CheckedFunds' /\ NonNegativeBalance'
  <2>1. \A u \in Users : Current(u)' \in Int /\ Current(u)' >= Current(u)
    BY <1>1, <1>3, AddOrderKeepsBalances DEF Inv
  <2> QED BY <1>3, <2>1, FundsKept DEF AddOrder, Checked
<1>4. ASSUME NEW o \in OrderNumbers, NEW s \in Statuses, NEW a \in Values, Save(o, s, a)
      PROVE  CheckedFunds' /\ NonNegativeBalance'
  <2>1. ASSUME NEW u \in Users
        PROVE  Current(u)' \in Int /\ Current(u)' >= Current(u)
    <3>1. (IF s = "PROCESSED" /\ orders[o].user = u THEN a ELSE 0) \in Nat
      BY ConstantsAssumption DEF Values
    <3> QED BY <1>1, <1>4, <3>1, SaveCredits DEF Inv
  <2> QED BY <1>4, <2>1, FundsKept DEF Save, Checked
<1>5. ASSUME NEW r \in Requests, NEW w \in Withdrawal, Receive(r, w)
      PROVE  CheckedFunds' /\ NonNegativeBalance'
  BY <1>2, <1>5, FundsKept DEF Receive, Inv, TypeOK, Checked
<1>6. ASSUME NEW r \in Requests,
             \/ Begin(r) \/ LockOwner(r) \/ Insert(r) \/ ReadConflict(r)
             \/ Fail(r) \/ GiveUpCommit(r)
      PROVE  CheckedFunds' /\ NonNegativeBalance'
  <2>1. UNCHANGED <<orders, withdrawals, req>>
    BY <1>6 DEF Begin, LockOwner, Insert, ReadConflict, Fail, GiveUpCommit, Goto, Answer
  <2>2. \A q \in Requests : Checked(q)' => Checked(q)
    BY <1>6 DEF Begin, LockOwner, Insert, ReadConflict, Fail, GiveUpCommit, Goto, Answer,
       Connected, Inv, TypeOK, Checked
  <2> QED BY <1>2, <2>1, <2>2, FundsKept
<1>7. ASSUME NEW r \in Requests, CheckBalance(r)
      PROVE  CheckedFunds' /\ NonNegativeBalance'
  <2>1. UNCHANGED <<orders, withdrawals, req>>
    BY <1>7 DEF CheckBalance, Goto, Answer
  <2>2. NonNegativeBalance'
    BY <2>1 DEF Inv, NonNegativeBalance, Current, Accrued, Withdrawn
  <2>3. ASSUME NEW q \in Requests, Checked(q)'
        PROVE  CurrentIn(q)' >= 0
    <3>1. CurrentIn(q)' = CurrentIn(q)
      BY <2>1 DEF CurrentIn, Current, Accrued, Withdrawn
    <3>2. CurrentIn(q) >= 0
      BY <1>7, <2>3 DEF CheckBalance, Goto, Answer, Inv, TypeOK, CheckedFunds, Checked
    <3> QED BY <3>1, <3>2
  <2> QED BY <2>2, <2>3 DEF CheckedFunds
<1>8. ASSUME NEW r \in Requests, Commit(r) \/ Settle(r)
      PROVE  CheckedFunds' /\ NonNegativeBalance'
  <2>1. /\ Checked(r)
        /\ pc' = [pc EXCEPT ![r] = "idle"]
        /\ UNCHANGED <<orders, req>>
        /\ StoreRow(r) \/ UNCHANGED withdrawals
    BY <1>8 DEF Commit, Settle, Answer, Checked
  <2>2. CASE UNCHANGED withdrawals
    <3>1. \A q \in Requests : Checked(q)' => Checked(q)
      BY <2>1 DEF Inv, TypeOK, Checked
    <3> QED BY <1>2, <2>1, <2>2, <3>1, FundsKept
  <2>3. CASE StoreRow(r)
    <3>1. /\ req[r] # None /\ withdrawals[req[r].number] = None
          /\ CurrentIn(r) >= 0
      BY <2>1 DEF Inv, TypeOK, OneInsertPerNumber, Inserting, CheckedFunds, Checked
    <3>2. \A u \in Users :
              Current(u)' = IF u = req[r].user THEN CurrentIn(r) ELSE Current(u)
      BY <2>1, <2>3, <3>1, StoreRowDebits DEF Inv
    <3>3. NonNegativeBalance'
      BY <3>1, <3>2 DEF Inv, NonNegativeBalance
    <3>4. ASSUME NEW q \in Requests, Checked(q)'
          PROVE  CurrentIn(q)' >= 0
      <4>1. q # r /\ Checked(q)
        BY <2>1, <3>4 DEF Inv, TypeOK, Checked
      <4>2. req[q].user # req[r].user /\ req[q] # None /\ CurrentIn(q) >= 0
        BY <2>1, <4>1 DEF Inv, TypeOK, OneLockPerUser, Locking, CheckedFunds, Checked
      <4>3. PICK u \in Users : u = req[q].user /\ u = req'[q].user
        BY <2>1, <4>2 DEF Inv, TypeOK, Withdrawal
      <4>4. Current(u)' = Current(u)
        BY <3>2, <4>2, <4>3
      <4>5. CurrentIn(q)' = CurrentIn(q)
        BY <2>1, <4>3, <4>4 DEF CurrentIn
      <4> QED BY <4>2, <4>5
    <3> QED BY <3>3, <3>4 DEF CheckedFunds
  <2> QED BY <2>1, <2>2, <2>3
<1>9. CASE UNCHANGED vars
  BY <1>2, <1>9, FundsKept DEF vars, Checked
<1> QED BY <1>3, <1>4, <1>5, <1>6, <1>7, <1>8, <1>9 DEF Next, Proceed

\* A committed withdrawal is never changed or removed.
LEMMA RowsStay ==
    ASSUME Inv, [Next]_vars, NEW n \in Numbers, withdrawals[n] # None
    PROVE  withdrawals'[n] = withdrawals[n]
<1>1. CASE UNCHANGED withdrawals
  BY <1>1
<1>2. ASSUME NEW r \in Requests, pc[r] \in Inserting, StoreRow(r)
      PROVE  withdrawals'[n] = withdrawals[n]
  <2>1. withdrawals[req[r].number] = None
    BY <1>2 DEF Inv, OneInsertPerNumber
  <2> QED BY <1>2, <2>1 DEF Inv, TypeOK, StoreRow
<1>3. UNCHANGED withdrawals \/ \E r \in Requests : pc[r] \in Inserting /\ StoreRow(r)
  BY DEF Next, vars, AddOrder, Save, Receive, Fail, GiveUpCommit, Proceed, Begin, LockOwner,
     Insert, ReadConflict, CheckBalance, Commit, Settle, Inserting
<1> QED BY <1>1, <1>2, <1>3

\* What was answered stays true, and the new answers are.
LEMMA AnswersStep ==
    ASSUME Inv, TypeOK', [Next]_vars
    PROVE  ConflictIsCommitted' /\ AnswersAreTrue'
<1> DEFINE Stored(r) == withdrawals[req[r].number] # None
           Paid(r) == withdrawals[req[r].number] = [user |-> req[r].user, sum |-> req[r].sum]
           Truthful(r) ==
               /\ pc[r] = "conflict" => Stored(r)
               /\ pc[r] # "idle" => resp[r] \in {"none", "error"}
               /\ resp[r] # "none" => req[r] # None
               /\ resp[r] = "ok" => Paid(r)
               /\ resp[r] = "already withdrawn" => Stored(r)
<1> SUFFICES ASSUME NEW r \in Requests PROVE Truthful(r)'
  BY DEF ConflictIsCommitted, AnswersAreTrue
<1>1. Truthful(r)
  BY DEF Inv, ConflictIsCommitted, AnswersAreTrue
<1>2. ASSUME req[r] # None, req'[r] = req[r]
      PROVE  (Stored(r) => Stored(r)') /\ (Paid(r) => Paid(r)')
  <2>1. req[r].number \in Numbers /\ [user |-> req[r].user, sum |-> req[r].sum] \in Row
    BY <1>2 DEF Inv, TypeOK, Withdrawal, Row
  <2>2. [user |-> req[r].user, sum |-> req[r].sum] # None
    BY <2>1, ConstantsAssumption
  <2>3. withdrawals[req[r].number] # None =>
            withdrawals'[req[r].number] = withdrawals[req[r].number]
    BY <2>1, RowsStay
  <2> QED BY <1>2, <2>2, <2>3
<1>3. ASSUME req'[r] = req[r], pc'[r] = pc[r], resp'[r] = resp[r]
      PROVE  Truthful(r)'
  <2>1. (pc[r] # "idle" \/ resp[r] # "none") => req[r] # None
    BY <1>1 DEF Inv, TypeOK
  <2> HIDE DEF Stored, Paid
  <2> QED BY <1>1, <1>2, <1>3, <2>1
<1>4. ASSUME NEW w \in Withdrawal, Receive(r, w)
      PROVE  Truthful(r)'
  BY <1>4 DEF Receive, Inv, TypeOK
<1>5. CASE Begin(r) \/ LockOwner(r) \/ CheckBalance(r) \/ Fail(r) \/ GiveUpCommit(r)
  <2>1. /\ pc[r] # "idle" /\ req' = req
        /\ pc'[r] # "conflict"
        /\ pc'[r] # "idle" => resp'[r] \in {"none", "error"}
        /\ resp'[r] \notin {"ok", "already withdrawn"}
    BY <1>1, <1>5 DEF Begin, LockOwner, CheckBalance, Fail, GiveUpCommit, Goto, Answer,
       Connected, Inv, TypeOK
  <2> QED BY <2>1 DEF Inv, TypeOK
<1>6. CASE Insert(r) \/ ReadConflict(r)
  <2>1. /\ pc[r] # "idle" /\ UNCHANGED <<withdrawals, req>>
        /\ pc'[r] # "idle" => resp'[r] \in {"none", "error"}
        /\ resp'[r] # "ok"
        /\ pc'[r] = "conflict" \/ resp'[r] = "already withdrawn" => Stored(r)
    BY <1>1, <1>6 DEF Insert, ReadConflict, Goto, Answer, Inv, TypeOK
  <2> QED BY <2>1 DEF Inv, TypeOK
<1>7. CASE Commit(r)
  <2>1. /\ pc[r] # "idle" /\ req' = req
        /\ pc'[r] = "idle" /\ resp'[r] = "ok"
        /\ StoreRow(r)
    BY <1>7 DEF Commit, Answer, Inv, TypeOK
  <2>2. req[r] # None /\ req[r].number \in Numbers
    BY <2>1 DEF Inv, TypeOK, Withdrawal
  <2>3. Paid(r)'
    BY <2>1, <2>2 DEF StoreRow, Inv, TypeOK
  <2> QED BY <2>1, <2>2, <2>3
<1>8. CASE Settle(r)
  <2>1. /\ pc[r] # "idle" /\ req' = req /\ pc'[r] = "idle" /\ resp'[r] = resp[r]
    BY <1>8 DEF Settle, Inv, TypeOK
  <2> QED BY <1>1, <2>1 DEF Inv, TypeOK
<1>9. ASSUME NEW q \in Requests, q # r,
             \/ \E w \in Withdrawal : Receive(q, w)
             \/ Proceed(q) \/ Fail(q) \/ GiveUpCommit(q)
      PROVE  req'[r] = req[r] /\ pc'[r] = pc[r] /\ resp'[r] = resp[r]
  BY <1>9 DEF Receive, Fail, GiveUpCommit, Proceed, Begin, LockOwner, Insert, ReadConflict,
     CheckBalance, Commit, Settle, Goto, Answer, Inv, TypeOK
<1>10. CASE UNCHANGED <<pc, req, resp>>
  BY <1>3, <1>10
<1>11. ASSUME NEW q \in Requests,
              \/ \E w \in Withdrawal : Receive(q, w)
              \/ Proceed(q) \/ Fail(q) \/ GiveUpCommit(q)
       PROVE  Truthful(r)'
  <2> HIDE DEF Truthful
  <2> QED BY <1>3, <1>4, <1>5, <1>6, <1>7, <1>8, <1>9, <1>11 DEF Proceed
<1> HIDE DEF Truthful
<1> QED BY <1>10, <1>11 DEF Next, vars, AddOrder, Save

LEMMA InvStep == Inv /\ [Next]_vars => Inv'
<1> SUFFICES ASSUME Inv, [Next]_vars PROVE Inv'
  OBVIOUS
<1>1. TypeOK'
  BY TypeStep DEF Inv
<1> QED BY <1>1, LocksStep, FundsStep, AnswersStep DEF Inv

THEOREM Invariance == Spec => []Inv
BY InitInv, InvStep, PTL DEF Spec
-----------------------------------------------------------------------------
\* The tables hold rows of their types and every request is at a statement of
\* the transaction, for every value of the constants.
THEOREM TypeCorrect == Spec => []TypeOK
<1>1. Inv => TypeOK
  BY DEF Inv
<1> QED BY <1>1, Invariance, PTL

\* No interleaving of withdrawals, uploads and saved accruals overdraws an
\* account (the check at balance_repository.go:99-105).
THEOREM NoOverdraft == Spec => []NonNegativeBalance
<1>1. Inv => NonNegativeBalance
  BY DEF Inv
<1> QED BY <1>1, Invariance, PTL

\* 200 and "already withdrawn" tell the truth about the withdrawals table.
THEOREM TrueAnswers == Spec => []AnswersAreTrue
<1>1. Inv => AnswersAreTrue
  BY DEF Inv
<1> QED BY <1>1, Invariance, PTL

-----------------------------------------------------------------------------
\* The initial states and the steps of the transactions are those of the
\* ledger, or leave it alone.
LEMMA LedgerInit == Init => Account!Init
<1> SUFFICES ASSUME Init PROVE Account!Init
  OBVIOUS
<1>1. [u \in Users |-> Current(u)] = [u \in Users |-> 0]
  BY InitialBalances
<1> QED BY <1>1 DEF Init, Account!Init

LEMMA LedgerStep == Inv /\ [Next]_vars => [Account!Next]_Account!vars
<1> SUFFICES ASSUME Inv, [Next]_vars PROVE [Account!Next]_Account!vars
  OBVIOUS
<1> DEFINE funds == [u \in Users |-> Current(u)]
<1>1. ASSUME UNCHANGED withdrawals, \A u \in Users : Current(u)' = Current(u)
      PROVE  UNCHANGED Account!vars
  BY <1>1 DEF Account!vars
<1>2. CASE UNCHANGED <<orders, withdrawals>>
  BY <1>1, <1>2, TablesDecideBalances
<1>3. ASSUME NEW v \in Users, NEW o \in OrderNumbers, AddOrder(v, o)
      PROVE  UNCHANGED Account!vars
  BY <1>1, <1>3, AddOrderKeepsBalances DEF Inv, AddOrder
<1>4. ASSUME NEW o \in OrderNumbers, NEW s \in Statuses, NEW a \in Values, Save(o, s, a)
      PROVE  [Account!Next]_Account!vars
  <2> DEFINE owner == orders[o].user
  <2>1. owner \in Users /\ UNCHANGED withdrawals
    BY <1>4 DEF Save, Inv, TypeOK, Order
  <2>2. CASE s = "PROCESSED" /\ a \in Amounts
    <3>1. \A u \in Users : Current(u)' = Current(u) + (IF u = owner THEN a ELSE 0)
      BY <1>4, <2>2, SaveCredits DEF Inv
    <3>2. \A u \in Users : Current(u) \in Int
      BY BalanceIsInteger DEF Inv
    <3>3. funds' = [funds EXCEPT ![owner] = funds[owner] + a]
      BY <2>1, <3>1, <3>2
    <3>4. Account!Credit(owner, a)
      BY <2>1, <3>3 DEF Account!Credit
    <3> QED BY <2>1, <2>2, <3>4 DEF Account!Next
  <2>3. CASE ~(s = "PROCESSED" /\ a \in Amounts)
    <3>1. \A u \in Users : Current(u) \in Int
      BY BalanceIsInteger DEF Inv
    <3>2. \A u \in Users : Current(u)' = Current(u) + 0
      BY <1>4, <2>3, SaveCredits DEF Inv, Values
    <3> QED BY <1>1, <2>1, <3>1, <3>2
  <2> QED BY <2>2, <2>3
<1>5. ASSUME NEW r \in Requests, Commit(r) \/ Settle(r)
      PROVE  [Account!Next]_Account!vars
  <2>1. CASE UNCHANGED withdrawals
    BY <1>2, <1>5, <2>1 DEF Commit, Settle
  <2>2. CASE StoreRow(r)
    <3> DEFINE payer == req[r].user
               n == req[r].number
               sum == req[r].sum
    <3>1. req[r] # None /\ withdrawals[n] = None /\ CurrentIn(r) >= 0 /\ UNCHANGED orders
      BY <1>5 DEF Commit, Settle, Inv, TypeOK, OneInsertPerNumber, Inserting, CheckedFunds, Checked
    <3>2. payer \in Users /\ n \in Numbers /\ sum \in Amounts
      BY <3>1 DEF Inv, TypeOK, Withdrawal
    <3>3. sum \in Int /\ Current(payer) \in Int
      <4>1. \A a \in Amounts : a \in Int
        BY ConstantsAssumption
      <4>2. \A u \in Users : Current(u) \in Int
        BY BalanceIsInteger DEF Inv
      <4> QED BY <3>2, <4>1, <4>2
    <3>4. sum <= funds[payer]
      <4>1. Current(payer) - sum >= 0
        BY <3>1 DEF CurrentIn
      <4>2. funds[payer] = Current(payer)
        BY <3>2
      <4> HIDE DEF sum, payer, funds
      <4> QED BY <3>3, <4>1, <4>2
    <3>5. funds' = [funds EXCEPT ![payer] = funds[payer] - sum]
      BY <2>2, <3>1, <3>2, StoreRowDebits DEF Inv, CurrentIn
    <3>6. withdrawals' = [withdrawals EXCEPT ![n] = [user |-> payer, sum |-> sum]]
      BY <2>2 DEF StoreRow
    <3>7. Account!Pay(payer, n, sum)
      BY <3>1, <3>4, <3>5, <3>6 DEF Account!Pay
    <3> QED BY <3>2, <3>7 DEF Account!Next
  <2> QED BY <1>5, <2>1, <2>2 DEF Commit, Settle
<1>6. \/ UNCHANGED <<orders, withdrawals>>
      \/ \E v \in Users, o \in OrderNumbers : AddOrder(v, o)
      \/ \E o \in OrderNumbers, s \in Statuses, a \in Values : Save(o, s, a)
      \/ \E r \in Requests : Commit(r) \/ Settle(r)
  BY DEF Next, vars, Receive, Fail, GiveUpCommit, Proceed, Begin, LockOwner, Insert,
     ReadConflict, CheckBalance
<1> QED BY <1>1, <1>2, <1>3, <1>4, <1>5, <1>6

\* The withdrawal transactions, with everything that interleaves with them,
\* implement the account's ledger: balances never go negative, a number pays
\* once among all users, and only PROCESSED orders add to a balance.
THEOREM ImplementsLedger == Spec => LedgerSpec
BY LedgerInit, LedgerStep, Invariance, PTL DEF Spec, LedgerSpec, Account!Spec
-----------------------------------------------------------------------------
\* Who waits is at one of the three statements that may have to, and waits for others
\* that have what it needs.
LEMMA WaitersAreThree ==
    ASSUME TypeOK, NEW r \in Requests, Blockers(r) # {}
    PROVE  /\ pc[r] \in {"begin", "lock", "insert"}
           /\ pc[r] = "begin" => \A q \in Blockers(r) : pc[q] \in Connected
           /\ pc[r] = "lock" => \A q \in Blockers(r) : pc[q] \in Locking
           /\ pc[r] = "insert" => \A q \in Blockers(r) : pc[q] \in Inserting
<1>1. pc[r] \in {"begin", "lock", "insert"}
  BY DEF Blockers
<1>2. CASE pc[r] = "begin"
  BY <1>2 DEF Blockers
<1>3. CASE pc[r] = "lock"
  BY <1>3 DEF Blockers, HoldsUserLock
<1>4. CASE pc[r] = "insert"
  BY <1>4 DEF Blockers, HasInserted
<1> QED BY <1>1, <1>2, <1>3, <1>4

\* In no set of waiting requests does everybody wait for the others: waiting leads from
\* the connection to the user's row, from there to the number, and no further.
THEOREM NobodyWaitsInCircles == Spec => []NeverDeadlocked
<1>1. ASSUME TypeOK PROVE NeverDeadlocked
  <2> SUFFICES ASSUME NEW D \in SUBSET Requests, D # {},
                      \A r \in D : Blockers(r) # {} /\ Blockers(r) \subseteq D
               PROVE  FALSE
    BY DEF NeverDeadlocked
  <2>1. \A r \in D : \E q \in D : q \in Blockers(r)
    OBVIOUS
  <2>2. \A r \in D : pc[r] # "insert"
    BY <1>1, <2>1, WaitersAreThree DEF Inserting
  <2>3. \A r \in D : pc[r] # "lock"
    BY <1>1, <2>1, <2>2, WaitersAreThree DEF Locking
  <2>4. \A r \in D : pc[r] # "begin"
    BY <1>1, <2>1, <2>2, <2>3, WaitersAreThree DEF Connected
  <2> QED BY <1>1, <2>2, <2>3, <2>4, WaitersAreThree
<1>2. Inv => TypeOK
  BY DEF Inv
<1> QED BY <1>1, <1>2, Invariance, PTL
=============================================================================
