--------------------------- MODULE AccrualWorker ---------------------------
(***************************************************************************)
(* The accrual worker: every instance of the service polls the orders      *)
(* table for unfinished orders, claims them with a lease, asks the accrual *)
(* service about them from a pool of goroutines and saves the outcome.     *)
(*                                                                         *)
(* Time is a global clock in steps of the backoff's base.  Nothing forces  *)
(* a goroutine to act before the clock advances, so a claim may outlive    *)
(* its lease and an answer may be saved long after it was given.           *)
(***************************************************************************)
EXTENDS Integers, Sequences, FiniteSets

CONSTANTS
    Orders,         \* the order numbers
    Instances,      \* the running copies of the service
    Workers,        \* the worker goroutines of an instance
    None,           \* no row, no claim, nothing received
    BatchSize,      \* the capacity of the jobs channel
    NotifyBuffer,   \* the capacity of the notify channel
    Lease,          \* for how long a claim hides an order
    Retries,        \* the Retry-After times of the accrual service
    MaxAttempts,    \* maxBackoffExponent
    Short, Long,    \* the delays of the two backoffs, by attempts
    MaxTime,        \* bound: when the clock stops
    MaxCrashes      \* bound: how often an instance stops and starts again

ASSUME ConstantsAssumption ==
    /\ IsFiniteSet(Orders)
    /\ BatchSize \in Nat \ {0}
    /\ NotifyBuffer \in Nat
    /\ Lease \in Nat \ {0}
    /\ Retries \subseteq Nat
    /\ MaxAttempts \in Nat
    /\ Short \in [0..MaxAttempts -> Nat \ {0}]
    /\ Long \in [0..MaxAttempts -> Nat \ {0}]
    /\ MaxTime \in Nat
    /\ MaxCrashes \in Nat

VARIABLES
    now,            \* the clock
    orders,         \* the orders table
    service,        \* what the accrual service knows of each order
    jobs,           \* the jobs channel of each instance
    pushing,        \* what the main goroutine has claimed and not sent to jobs
    notify,         \* the notify channel of each instance
    pausedUntil,    \* until when each instance sends no requests
    worker,         \* the worker goroutines of each instance
    crashes,        \* how often each instance has been stopped
    overrun,        \* history: the orders with a claim that outlived its lease
    quietUntil      \* history: until when the service asked for silence with a 429

vars == <<now, orders, service, jobs, pushing, notify, pausedUntil, worker, crashes,
          overrun, quietUntil>>
memory == <<jobs, pushing, notify, pausedUntil, worker, crashes>>
history == <<overrun, quietUntil>>
-----------------------------------------------------------------------------
Unfinished == {"NEW", "PROCESSING"}
Final == {"INVALID", "PROCESSED"}
Backoffs == {"short", "long"}

\* PROCESSING stands for REGISTERED as well: decide treats them alike.
ServiceStates == {"unregistered", "PROCESSING"} \cup Final

Order == [status : Unfinished \cup Final, attempts : 0..MaxAttempts,
          backoff : Backoffs, next : Nat]

ASSUME NoneIsNoOrder == None \notin Order

\* A claimed order as ClaimDue and Claim return it; the lease is kept here for
\* the properties, the code forgets it.
Pending == [order : Orders, status : Unfinished, attempts : 0..MaxAttempts,
            backoff : Backoffs, lease : Nat]

Answer == [status : ServiceStates \cup {"failed", "limited"}, retryAfter : Nat]

\* What a worker saves; the accrual goes with the status PROCESSED.
Update == Order

WorkerStates ==
    [pc : {"idle"}, job : {None}, got : {None}]
        \cup [pc : {"gate", "send", "fetch"}, job : Pending, got : {None}]
        \cup [pc : {"answered"}, job : Pending, got : Answer]
        \cup [pc : {"save"}, job : Pending, got : Update]

Idle == [pc |-> "idle", job |-> None, got |-> None]

TypeOK ==
    /\ now \in Nat
    /\ orders \in [Orders -> Order \cup {None}]
    /\ service \in [Orders -> ServiceStates]
    /\ jobs \in [Instances -> Seq(Pending)]
    /\ pushing \in [Instances -> SUBSET Pending]
    /\ notify \in [Instances -> SUBSET Orders]
    /\ pausedUntil \in [Instances -> Nat]
    /\ worker \in [Instances -> [Workers -> WorkerStates]]
    /\ crashes \in [Instances -> Nat]
    /\ overrun \subseteq Orders
    /\ quietUntil \in Nat
-----------------------------------------------------------------------------
Paused(i) == now < pausedUntil[i]

Later(s, t) == IF t > s THEN t ELSE s

Due(o) ==
    /\ orders[o] # None
    /\ orders[o].status \in Unfinished
    /\ orders[o].next <= now

\* The row of o is locked while a worker's UPDATE of it is being executed.
MayBeLocked(o) ==
    \E i \in Instances, w \in Workers :
        worker[i][w].pc = "save" /\ worker[i][w].job.order = o

\* A set that ORDER BY next_check_at LIMIT free FOR UPDATE SKIP LOCKED may select.
Selectable(S, free) ==
    /\ \A o \in S : Due(o)
    /\ Cardinality(S) <= free
    /\ \A o \in Orders \ S : Due(o) =>
          \/ MayBeLocked(o)
          \/ /\ Cardinality(S) = free
             /\ \A s \in S : orders[s].next <= orders[o].next

PendingOf(o) ==
    [order |-> o, status |-> orders[o].status, attempts |-> orders[o].attempts,
     backoff |-> orders[o].backoff, lease |-> now + Lease]

\* The claims of o that the program still holds, by where they are.
Claims(o) == UNION {
    {<<i, "main", p>> : p \in {q \in pushing[i] : q.order = o}}
        \cup {<<i, "jobs", k>> : k \in {l \in DOMAIN jobs[i] : jobs[i][l].order = o}}
        \cup {<<i, "worker", w>> : w \in {v \in Workers :
                 worker[i][v].pc # "idle" /\ worker[i][v].job.order = o}}
    : i \in Instances}

Outlived(o, time) ==
    \E i \in Instances :
        \/ \E p \in pushing[i] : p.order = o /\ p.lease <= time
        \/ \E k \in DOMAIN jobs[i] : jobs[i][k].order = o /\ jobs[i][k].lease <= time
        \/ \E w \in Workers : /\ worker[i][w].pc # "idle"
                              /\ worker[i][w].job.order = o
                              /\ worker[i][w].job.lease <= time
-----------------------------------------------------------------------------
(***************************************************************************)
(* Faults: a plausible mistake in the code each.  They are no part of the  *)
(* specification; they show what the properties below detect.              *)
(***************************************************************************)
\* The attempts are counted without the cap.
NextAttemptsUncapped(attempts) == attempts + 1

\* claimDue asks for as many orders as the channel can hold, full or not.
FreeSlotsOfEmpty(i) == BatchSize

\* The lease counts from when the order was due instead of from now.
LeasedFromDue(o) == [orders[o] EXCEPT !.next = orders[o].next + Lease]

\* The WHERE clause of Save forgets that a finished order is finished.
SaveableUnguarded(o, status) ==
    orders[o] # None /\ ~(orders[o].status = "PROCESSING" /\ status = "NEW")

\* The last 429 decides, whatever an earlier one asked for.
ExtendedPauseOverwriting(i, retryAfter) == now + retryAfter

\* A 429 prolongs the pause that is running.
ExtendedPauseAdding(i, retryAfter) ==
    IF Paused(i) THEN pausedUntil[i] + retryAfter ELSE now + retryAfter
-----------------------------------------------------------------------------
\* decide.go: what to save for a claimed order after an answer at time t.
NextAttempts(attempts) == IF attempts >= MaxAttempts THEN MaxAttempts ELSE attempts + 1

LongRetry(job, t) ==
    LET base == IF job.backoff = "long" THEN job.attempts ELSE 0
    IN [status |-> job.status, attempts |-> NextAttempts(base),
        backoff |-> "long", next |-> t + Long[base]]

ShortRetry(job, t) ==
    LET attempts == IF job.status = "PROCESSING" /\ job.backoff = "short"
                    THEN NextAttempts(job.attempts) ELSE 0
    IN [status |-> "PROCESSING", attempts |-> attempts,
        backoff |-> "short", next |-> t + Short[attempts]]

Decision(job, status, t) ==
    CASE status \in {"failed", "unregistered"} -> LongRetry(job, t)
      [] status = "PROCESSING" -> ShortRetry(job, t)
      [] status \in Final ->
            [status |-> status, attempts |-> 0, backoff |-> job.backoff, next |-> t]

\* The order is put off until the pause ends, without penalty.
Deferral(job, until) ==
    [status |-> job.status, attempts |-> job.attempts,
     backoff |-> job.backoff, next |-> until]

\* extendPause: the pause never gets shorter.
ExtendedPause(i, retryAfter) == Later(pausedUntil[i], now + retryAfter)

\* How many orders claimDue asks for.
FreeSlots(i) == BatchSize - Len(jobs[i])

\* The row of a claimed order is due again when the lease ends.
Leased(o) == [orders[o] EXCEPT !.next = now + Lease]

\* The WHERE clause of Save.
Saveable(o, status) ==
    /\ orders[o] # None
    /\ orders[o].status \in Unfinished
    /\ ~(orders[o].status = "PROCESSING" /\ status = "NEW")
-----------------------------------------------------------------------------
Init ==
    /\ now = 0
    /\ orders = [o \in Orders |-> None]
    /\ service = [o \in Orders |-> "unregistered"]
    /\ jobs = [i \in Instances |-> <<>>]
    /\ pushing = [i \in Instances |-> {}]
    /\ notify = [i \in Instances |-> {}]
    /\ pausedUntil = [i \in Instances |-> 0]
    /\ worker = [i \in Instances |-> [w \in Workers |-> Idle]]
    /\ crashes = [i \in Instances |-> 0]
    /\ overrun = {}
    /\ quietUntil = 0

\* Service.Submit on instance i adds the order and calls Notify, which drops
\* the number when the channel is full -- or Submit ends after the insert.
Upload(i, o) ==
    /\ orders[o] = None
    /\ orders' = [orders EXCEPT ![o] =
                    [status |-> "NEW", attempts |-> 0, backoff |-> "long", next |-> now]]
    /\ \/ /\ Cardinality(notify[i]) < NotifyBuffer
          /\ notify' = [notify EXCEPT ![i] = notify[i] \cup {o}]
       \/ UNCHANGED notify
    /\ UNCHANGED <<now, service, jobs, pushing, pausedUntil, worker, crashes, history>>

\* The order system registers an order with the accrual service, which
\* calculates and concludes.
ServiceAdvances(o) ==
    /\ \/ service[o] = "unregistered" /\ service' = [service EXCEPT ![o] = "PROCESSING"]
       \/ /\ service[o] = "PROCESSING"
          /\ \E final \in Final : service' = [service EXCEPT ![o] = final]
    /\ UNCHANGED <<now, orders, memory, history>>

\* The main goroutine claims S and is about to send it to the workers -- or
\* loses the answer of the database, and the orders wait for their lease to end.
ClaimOrders(i, S) ==
    /\ orders' = [o \in Orders |-> IF o \in S THEN Leased(o) ELSE orders[o]]
    /\ \/ pushing' = [pushing EXCEPT ![i] = {PendingOf(o) : o \in S}]
       \/ UNCHANGED pushing

\* The ticker, or the start of the worker: claimDue.
ClaimDue(i) ==
    /\ pushing[i] = {}
    /\ ~Paused(i)
    /\ FreeSlots(i) > 0
    /\ \E S \in SUBSET Orders : S # {} /\ Selectable(S, FreeSlots(i)) /\ ClaimOrders(i, S)
    /\ UNCHANGED <<now, service, jobs, notify, pausedUntil, worker, crashes, history>>

\* A notification is received, which happens only outside a pause: claim.  It
\* is dropped when the channel is full, the order is not due or the query fails.
ClaimNotified(i, o) ==
    /\ pushing[i] = {}
    /\ o \in notify[i]
    /\ ~Paused(i)
    /\ notify' = [notify EXCEPT ![i] = notify[i] \ {o}]
    /\ \/ Len(jobs[i]) < BatchSize /\ Due(o) /\ ClaimOrders(i, {o})
       \/ UNCHANGED <<orders, pushing>>
    /\ UNCHANGED <<now, service, jobs, pausedUntil, worker, crashes, history>>

\* The main goroutine sends a claimed order to the jobs channel.
Push(i) ==
    /\ Len(jobs[i]) < BatchSize
    /\ \E p \in pushing[i] :
          /\ pushing' = [pushing EXCEPT ![i] = pushing[i] \ {p}]
          /\ jobs' = [jobs EXCEPT ![i] = Append(jobs[i], p)]
    /\ UNCHANGED <<now, orders, service, notify, pausedUntil, worker, crashes, history>>

\* A worker moves on with its claim, or gets one, or is rid of it.
WorkerGoes(i, w, pc, job, got) ==
    worker' = [worker EXCEPT ![i][w] = [pc |-> pc, job |-> job, got |-> got]]

Receive(i, w) ==
    /\ worker[i][w].pc = "idle"
    /\ jobs[i] # <<>>
    /\ WorkerGoes(i, w, "gate", Head(jobs[i]), None)
    /\ jobs' = [jobs EXCEPT ![i] = Tail(jobs[i])]
    /\ UNCHANGED <<now, orders, service, pushing, notify, pausedUntil, crashes, history>>

\* process looks whether requests are paused; if so the order is put off.
PassGate(i, w) ==
    LET job == worker[i][w].job IN
    /\ worker[i][w].pc = "gate"
    /\ IF Paused(i)
       THEN WorkerGoes(i, w, "save", job, Deferral(job, pausedUntil[i]))
       ELSE WorkerGoes(i, w, "send", job, None)
    /\ UNCHANGED <<now, orders, service, jobs, pushing, notify, pausedUntil, crashes, history>>

\* Fetch sends the request.
Send(i, w) ==
    /\ worker[i][w].pc = "send"
    /\ WorkerGoes(i, w, "fetch", worker[i][w].job, None)
    /\ UNCHANGED <<now, orders, service, jobs, pushing, notify, pausedUntil, crashes, history>>

\* The service answers, or refuses with 429, or the request fails or times out.
GetAnswer(i, w) ==
    LET job == worker[i][w].job IN
    /\ worker[i][w].pc = "fetch"
    /\ \/ \E status \in {service[job.order], "failed"} :
             WorkerGoes(i, w, "answered", job, [status |-> status, retryAfter |-> 0])
       \/ \E r \in Retries :
             WorkerGoes(i, w, "answered", job, [status |-> "limited", retryAfter |-> r])
    /\ UNCHANGED <<now, orders, service, jobs, pushing, notify, pausedUntil, crashes, history>>

\* process decides what to save; a 429 pauses the instance and puts the order off.
HandleAnswer(i, w) ==
    LET job == worker[i][w].job
        answer == worker[i][w].got
        until == ExtendedPause(i, answer.retryAfter)
    IN
    /\ worker[i][w].pc = "answered"
    /\ IF answer.status = "limited"
       THEN /\ pausedUntil' = [pausedUntil EXCEPT ![i] = until]
            /\ quietUntil' = Later(quietUntil, now + answer.retryAfter)
            /\ WorkerGoes(i, w, "save", job, Deferral(job, until))
       ELSE /\ UNCHANGED <<pausedUntil, quietUntil>>
            /\ WorkerGoes(i, w, "save", job, Decision(job, answer.status, now))
    /\ UNCHANGED <<now, orders, service, jobs, pushing, notify, crashes, overrun>>

\* AccrualRepository.Save: the row is updated if the WHERE clause admits it.
\* The statement may fail; the worker only logs that.
Save(i, w) ==
    LET o == worker[i][w].job.order
        update == worker[i][w].got
    IN
    /\ worker[i][w].pc = "save"
    /\ \/ /\ Saveable(o, update.status)
          /\ orders' = [orders EXCEPT ![o] = update]
       \/ UNCHANGED orders
    /\ WorkerGoes(i, w, "idle", None, None)
    /\ UNCHANGED <<now, service, jobs, pushing, notify, pausedUntil, crashes, history>>

\* An instance stops, in order or not, and starts again: channels, claims in
\* memory and the pause are gone, the table stays.
Restart(i) ==
    /\ crashes[i] < MaxCrashes
    /\ crashes' = [crashes EXCEPT ![i] = crashes[i] + 1]
    /\ jobs' = [jobs EXCEPT ![i] = <<>>]
    /\ pushing' = [pushing EXCEPT ![i] = {}]
    /\ notify' = [notify EXCEPT ![i] = {}]
    /\ pausedUntil' = [pausedUntil EXCEPT ![i] = 0]
    /\ worker' = [worker EXCEPT ![i] = [w \in Workers |-> Idle]]
    /\ UNCHANGED <<now, orders, service, history>>

Tick ==
    /\ now < MaxTime
    /\ now' = now + 1
    /\ overrun' = overrun \cup {o \in Orders : Outlived(o, now + 1)}
    /\ UNCHANGED <<orders, service, memory, quietUntil>>

WorkerStep(i, w) ==
    \/ Receive(i, w)
    \/ PassGate(i, w)
    \/ Send(i, w)
    \/ GetAnswer(i, w)
    \/ HandleAnswer(i, w)
    \/ Save(i, w)

Next ==
    \/ Tick
    \/ \E o \in Orders : ServiceAdvances(o)
    \/ \E i \in Instances :
          \/ \E o \in Orders : Upload(i, o) \/ ClaimNotified(i, o)
          \/ ClaimDue(i)
          \/ Push(i)
          \/ \E w \in Workers : WorkerStep(i, w)
          \/ Restart(i)

Spec == Init /\ [][Next]_vars
-----------------------------------------------------------------------------
\* The main goroutine never blocks on the jobs channel (worker.go:136, 156): it
\* claims no more than the free slots, and nobody else sends.  Blocked there it
\* would miss its context's end, its ticker and its notifications.
ChannelRoom ==
    \A i \in Instances : Len(jobs[i]) + Cardinality(pushing[i]) <= BatchSize

\* As long as no claim of an order outlived its lease, the order is with one
\* goroutine of one instance at most -- whatever was restarted, deferred, lost
\* or saved late for other orders.
LeaseExclusive ==
    \A o \in Orders \ overrun : \A c, d \in Claims(o) : c = d

\* No order drops out of the schedule: an unfinished order is due again within
\* a lease, a backoff delay or a Retry-After from now, whatever became of its
\* claims and however many 429s came in at once.
Delays ==
    {Lease} \cup Retries \cup {Short[a] : a \in 0..MaxAttempts}
        \cup {Long[a] : a \in 0..MaxAttempts}

NeverForgotten ==
    \A o \in Orders :
        orders[o] # None /\ orders[o].status \in Unfinished =>
            \E d \in Delays : orders[o].next <= now + d

\* A pause that a 429 asked for is cut short by nothing but a restart, also
\* when the workers get several 429s with different Retry-After times.
PauseNeverShrinks ==
    [][\A i \in Instances :
          pausedUntil'[i] < pausedUntil[i] => crashes'[i] # crashes[i]]_vars

\* README.md:91 says that a 429 pauses all requests to the accrual service for
\* the time of Retry-After.  The code looks at the pause before it sends a
\* request (worker.go:161), so a request that passed the gate may follow.
NoRequestWhilePaused ==
    [][\A i \in Instances, w \in Workers : Send(i, w) => ~Paused(i)]_vars

\* The same line of the README for a 429 whose instance is restarted, or that
\* another instance got: the pause lives in memory (worker.go:38), so requests
\* go on although the service asked for silence.
ServiceLeftAlone ==
    [][\A i \in Instances, w \in Workers : Send(i, w) => now >= quietUntil]_vars

\* The workers implement the life cycle of an order: no verdict is lost to a
\* late save of an older answer, and none is made up.
Lifecycle == INSTANCE OrderLifecycle WITH
    Absent <- None,
    status <- [o \in Orders |-> IF orders[o] = None THEN None ELSE orders[o].status],
    verdict <- service

LifecycleSpec == Lifecycle!Spec
=============================================================================
