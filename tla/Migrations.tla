----------------------------- MODULE Migrations -----------------------------
(***************************************************************************)
(* The start of several instances over one database: newPostgresPool and   *)
(* Migrate.  Each tries to get the advisory lock of its session, reads     *)
(* which migrations the database has, executes the others one after the    *)
(* other, each in a transaction, and only then serves requests.  The       *)
(* provider and its lock are goose's, as Migrate configures them.          *)
(***************************************************************************)
EXTENDS Integers, Sequences, FiniteSets

CONSTANTS
    Instances,
    None,
    MaxTries,       \* how often the locker tries
    MaxFaults       \* bound: how often an instance dies or its setup takes too long

ASSUME ConstantsAssumption ==
    MaxTries \in Nat \ {0} /\ MaxFaults \in Nat /\ None \notin Instances

VARIABLES
    pc,             \* where each instance is
    tries,          \* how often it has tried to get the lock
    pending,        \* the migrations it still has to apply, as it has read
    statement,      \* how many statements of the first it has executed
    transaction,    \* the objects made by them
    failure,        \* why its start failed, if it did
    lock,           \* who has the lock
    schema,         \* the objects of the database
    versions,       \* the table of goose: which migrations it has
    faults

vars == <<pc, tries, pending, statement, transaction, failure, lock, schema, versions,
          faults>>
-----------------------------------------------------------------------------
\* The objects made by the Up statements of each file, in their order, and
\* whether IF NOT EXISTS lets a statement pass if the object is there already.
Make(object) == [object |-> object, lenient |-> FALSE]
MakeIfMissing(object) == [object |-> object, lenient |-> TRUE]

Legacy == {"users", "user_sessions", "user_sessions_user_id_idx",
           "user_sessions_expires_at_idx"}

Files == <<
    <<MakeIfMissing("users"), MakeIfMissing("user_sessions"),
      MakeIfMissing("user_sessions_user_id_idx"),
      MakeIfMissing("user_sessions_expires_at_idx")>>,
    <<Make("order_status"), Make("orders"), Make("orders_user_uploaded_at_idx")>>,
    <<Make("orders.accrual"), Make("withdrawals"),
      Make("withdrawals_user_processed_at_idx")>>,
    <<Make("order_check_backoff"), Make("orders.next_check_at"),
      Make("orders.check_attempts"), Make("orders.check_backoff"),
      Make("orders_pending_next_check_idx")>> >>

Objects(k) == {Files[k][s].object : s \in DOMAIN Files[k]}
ObjectsOf(S) == UNION {Objects(k) : k \in S}

First(S) == CHOOSE k \in S : \A l \in S : k <= l
-----------------------------------------------------------------------------
(***************************************************************************)
(* Faults: a plausible mistake in the code each.  They are no part of the  *)
(* specification; they show what the properties below detect.              *)
(***************************************************************************)
\* goose runs without WithSessionLocker.
LockFreeAlways(i) == TRUE

\* The lock is a row of a table and not of the session.
ReleasedNever(i) == lock

\* A file says NO TRANSACTION: every statement takes effect at once.
VisibleAtOnce(object) == schema \cup {object}

\* Migrate takes the first migration for all of them.
RemainingNone(S) == {}
-----------------------------------------------------------------------------
\* A new database, one from before goose, or one that has had other releases.
Init ==
    /\ pc = [i \in Instances |-> "down"]
    /\ tries = [i \in Instances |-> 0]
    /\ pending = [i \in Instances |-> {}]
    /\ statement = [i \in Instances |-> 0]
    /\ transaction = [i \in Instances |-> {}]
    /\ failure = [i \in Instances |-> "none"]
    /\ lock = None
    /\ \/ versions = {} /\ schema = Legacy
       \/ \E k \in 0..Len(Files) : versions = 1..k /\ schema = ObjectsOf(1..k)
    /\ faults = 0

\* The lock is free once the session of its owner has ended.
Released(i) == IF lock = i THEN None ELSE lock

\* The start of i fails: the pool is closed, and with it go its transaction and
\* its lock.
Fail(i, reason) ==
    /\ pc' = [pc EXCEPT ![i] = "down"]
    /\ failure' = [failure EXCEPT ![i] = reason]
    /\ pending' = [pending EXCEPT ![i] = {}]
    /\ statement' = [statement EXCEPT ![i] = 0]
    /\ transaction' = [transaction EXCEPT ![i] = {}]
    /\ lock' = Released(i)

\* An instance is started, for the first time or again, and its ping succeeds.
Start(i) ==
    /\ pc[i] = "down"
    /\ pc' = [pc EXCEPT ![i] = "locking"]
    /\ tries' = [tries EXCEPT ![i] = 0]
    /\ failure' = [failure EXCEPT ![i] = "none"]
    /\ UNCHANGED <<pending, statement, transaction, lock, schema, versions, faults>>

LockFree(i) == lock = None
Again(t) == t + 1 < MaxTries

\* pg_try_advisory_lock: once a second, at most MaxTries times.  goose looks for pending
\* migrations before it does, but what it applies is what it finds under the lock.
TryLock(i) ==
    /\ pc[i] = "locking"
    /\ IF LockFree(i)
       THEN /\ lock' = i
            /\ pc' = [pc EXCEPT ![i] = "reading"]
            /\ UNCHANGED <<tries, pending, statement, transaction, failure>>
       ELSE IF Again(tries[i])
       THEN /\ tries' = [tries EXCEPT ![i] = tries[i] + 1]
            /\ UNCHANGED <<pc, pending, statement, transaction, failure, lock>>
       ELSE Fail(i, "lock") /\ UNCHANGED tries
    /\ UNCHANGED <<schema, versions, faults>>

\* The provider makes its table, if need be, and compares it with the files.
ReadVersions(i) ==
    /\ pc[i] = "reading"
    /\ pending' = [pending EXCEPT ![i] = DOMAIN Files \ versions]
    /\ pc' = [pc EXCEPT ![i] = "migrating"]
    /\ UNCHANGED <<tries, statement, transaction, failure, lock, schema, versions, faults>>

\* What others see of a statement in a transaction.
Visible(object) == schema

\* The next statement of the first pending migration.
Execute(i) ==
    /\ pc[i] = "migrating" /\ pending[i] # {}
    /\ LET file == Files[First(pending[i])]
           next == file[statement[i] + 1]
       IN  /\ statement[i] < Len(file)
           /\ IF next.object \in schema \cup transaction[i] /\ ~next.lenient
              THEN Fail(i, "conflict") /\ UNCHANGED schema
              ELSE /\ schema' = Visible(next.object)
                   /\ transaction' = [transaction EXCEPT ![i] = @ \cup {next.object}]
                   /\ statement' = [statement EXCEPT ![i] = @ + 1]
                   /\ UNCHANGED <<pc, pending, failure, lock>>
    /\ UNCHANGED <<tries, versions, faults>>

Remaining(S) == S \ {First(S)}

\* The version is inserted and the transaction committed.  What another one has
\* committed meanwhile conflicts.
Commit(i) ==
    /\ pc[i] = "migrating" /\ pending[i] # {}
    /\ statement[i] = Len(Files[First(pending[i])])
    /\ IF First(pending[i]) \in versions
       THEN Fail(i, "conflict") /\ UNCHANGED <<schema, versions>>
       ELSE /\ schema' = schema \cup transaction[i]
            /\ versions' = versions \cup {First(pending[i])}
            /\ pending' = [pending EXCEPT ![i] = Remaining(pending[i])]
            /\ statement' = [statement EXCEPT ![i] = 0]
            /\ transaction' = [transaction EXCEPT ![i] = {}]
            /\ UNCHANGED <<pc, failure, lock>>
    /\ UNCHANGED <<tries, faults>>

Finish(i) ==
    /\ pc[i] = "migrating" /\ pending[i] = {}
    /\ pc' = [pc EXCEPT ![i] = "unlocking"]
    /\ UNCHANGED <<tries, pending, statement, transaction, failure, lock, schema, versions,
                   faults>>

\* The lock is given back, Migrate and newPostgresPool return, Run goes on.
Unlock(i) ==
    /\ pc[i] = "unlocking"
    /\ lock' = Released(i)
    /\ pc' = [pc EXCEPT ![i] = "serving"]
    /\ UNCHANGED <<tries, pending, statement, transaction, failure, schema, versions, faults>>

\* An instance dies; PostgreSQL notices the end of its session.
Die(i) ==
    /\ faults < MaxFaults
    /\ pc[i] # "down"
    /\ faults' = faults + 1
    /\ Fail(i, "died")
    /\ UNCHANGED <<tries, schema, versions>>

\* The ten seconds of setupCtx are over, or the process is told to stop.
TooLate(i) ==
    /\ faults < MaxFaults
    /\ pc[i] \in {"locking", "reading", "migrating"}
    /\ faults' = faults + 1
    /\ Fail(i, "too late")
    /\ UNCHANGED <<tries, schema, versions>>

Step(i) ==
    TryLock(i) \/ ReadVersions(i) \/ Execute(i) \/ Commit(i) \/ Finish(i) \/ Unlock(i)

Next == \E i \in Instances : Start(i) \/ Step(i) \/ Die(i) \/ TooLate(i)

\* An instance that runs goes on, and something starts instances that stopped.
Fairness == \A i \in Instances : WF_vars(Start(i)) /\ WF_vars(Step(i))

Spec == Init /\ [][Next]_vars /\ Fairness
-----------------------------------------------------------------------------
\* The migrations the database has are the first ones, each is there with all of
\* its objects, and no object is there without its migration but those from
\* before goose: an instance that dies halfway leaves nothing behind.
SchemaMatchesVersions ==
    /\ \E k \in 0..Len(Files) : versions = 1..k
    /\ schema \in {ObjectsOf(versions), ObjectsOf(versions) \cup Legacy}

\* An instance that serves requests has every table and column it uses.
ServesOnlyCurrentSchema ==
    \A i \in Instances : pc[i] = "serving" => ObjectsOf(DOMAIN Files) \subseteq schema

\* Instances that start side by side do not make each other fail, except that
\* one may wait for the lock in vain (migrate_test.go: "concurrent migration
\* failed").
StartsSideBySide == \A i \in Instances : failure[i] # "conflict"

\* Whatever dies, with the lock or in a transaction, the service gets to serve.
ServesAtLast == <>[](\E i \in Instances : pc[i] = "serving")
=============================================================================
