# A formal model of gophermart

This directory holds TLA+ specifications of the loyalty service in `src/`, the
TLC configurations that check them on small instances, and proofs that TLAPS
checks for every instance. Paths below are relative to the repository root;
those without a directory are under `src/internal`.

## The system

`gophermart` is one Go process (possibly run in several copies) over a
PostgreSQL database and an external accrual service.

| component | code | state | operations |
|---|---|---|---|
| withdrawals and balance | `infrastructure/postgres/balance_repository.go`, `application/balance`, `domain/balance`, `transport/http/handler/withdraw.go` | table `withdrawals`, row locks on `users`, uncommitted rows, the connection pool | `Withdraw` (a transaction of four statements), `GetBalance`, `ListWithdrawals` |
| accrual worker | `application/accrual`, `infrastructure/postgres/accrual_repository.go` | table `orders` (status, accrual, attempts, backoff, next check), channels `jobs` and `notify`, `pausedUntil`, the main goroutine and the worker goroutines | `Run`, `Notify`, `claimDue`, `claim`, `process`, `save`, `pause`, `extendPause`; `ClaimDue`, `Claim`, `Save`; `decide` |
| order upload and listing | `application/order`, `infrastructure/postgres/order_repository.go`, `handler/submit_order.go`, `handler/list_orders.go` | table `orders` | `Submit` (insert, or find the owner; then notify the worker), `List` |
| accrual client | `infrastructure/accrual/client.go` | none | `Fetch`: a result, "not registered", a 429 with Retry-After, or an error |
| users and sessions | `application/user`, `infrastructure/postgres/user_repository.go`, `transport/http/auth_middleware.go`, `handler/register.go`, `handler/login.go` | tables `users`, `user_sessions` | `Register`, `Login`, `Authenticate`, `PurgeExpiredSessions` |
| process life cycle | `bootstrap/app.go`, `src/cmd/gophermart/main.go` | contexts, done channels, HTTP server, pool | start, serve, shut down with a time limit, stop worker and cleanup, close the pool |
| gzip middleware | `transport/http/compress_middleware.go` | per response: headers written, compressing, gzip stream | `WriteHeader`, `Write`, `finish`, lazy request reader |
| number and sum parsing | `domain/order/number.go`, `domain/balance/amount.go` | none | Luhn check, exact decimal parsing |
| routing, requests, rendering | `transport/http/router.go`, `handler/*`, `auth_middleware.go` | none | match a route, authenticate, read the body, call a service, answer |
| configuration | `infrastructure/config`, `NewClient` | settings while they are put together | `Load`: flags, file, environment, checks |
| migrations | `infrastructure/postgres/migrate.go`, `migrations/*.sql`, `newPostgresPool` | the schema, the table of versions, an advisory lock | `Migrate`: lock, read versions, execute, unlock |
| password hashing | `infrastructure/password` | none | |

How they interact. HTTP handlers run concurrently and share nothing but the
connection pool and the database. An upload inserts a `NEW` order and calls
`Notify`, a non-blocking send to a buffered channel. The worker's main
goroutine claims due orders in the database (it moves `next_check_at` to the
end of a lease) when its ticker fires or a notification arrives, and sends them
to the `jobs` channel; worker goroutines ask the accrual service and save the
outcome with a conditional `UPDATE`. A 429 pauses the process in memory
(`pausedUntil`, under a mutex). A withdrawal reads what the worker wrote: the
balance is the sum of the accruals of `PROCESSED` orders less the withdrawals.

What is hard here: transactions of one user, or for one number, that interleave
between statements; a commit whose outcome the client does not learn; requests
that hold a connection while they wait for locks; claims that outlive their
lease, so that a late answer meets a newer one; several 429s in any order; a
restart that loses everything in memory; channels at their capacity; instances
that migrate one database at the same time; numbers, headers and bodies at their
limits.
`PROJECT.json` lists these hazards with the line where each bites and the
properties that cover it.

What makes each component correct:

* withdrawals: no account goes below zero, a number pays once among all users,
  answers tell the truth, every request ends (checked, and proved but for the last);
* accrual worker: a verdict of the accrual service is final and is never made
  up or lost to a late save; an order is with one goroutine while leases are
  kept; no order drops out of the schedule; the main goroutine never blocks on
  its own channel; a pause is not cut short (checked and proved); what the service
  concludes arrives in the table, and no order starves (checked);
* uploads: one owner per number, at most one 202, answers that agree with the
  table, and no notification of an order that is not stored (checked and proved);
* sessions: one account per login, stored with a session or not at all; a token
  works from its answer to its expiry and not after, whatever the cleanup does
  (checked and proved);
* life cycle: the pool outlives its background users and a success means that
  every request was served (checked and proved); a process that is told to stop
  exits (checked);
* gzip: a client can always decode what it gets, and gets what it would have got
  without compression, and only if it accepts gzip; a handler reads what the client
  means, or an error (checked and proved);
* numbers and sums: a slip is no other order's number; an amount is the same in
  the request, in the table and in the response (checked and proved);
* client: only a sound response decides an order, and the silence after a 429 is
  as long as asked (checked and proved);
* requests: one that is refused has no effect, and the status tells what happened
  (checked and proved);
* configuration: each setting comes from its most important source, and the
  program goes on only if all is in order (checked and proved);
* migrations: whatever dies, the schema is that of the versions; an instance
  serves only the schema it needs; instances do not make each other fail (checked and
  proved); some instance serves at last (checked).

## Modules

| module | what it is | state and actions |
|---|---|---|
| `Ledger` | abstract: what the account promises | `funds`, `payments`; `Credit`, `Pay` |
| `Withdrawals` | `BalanceRepository.Withdraw`, one action per statement, with `AddOrder` and `Save` interleaved | `orders`, `withdrawals` are the committed tables; `pc`, `req`, `resp` say where each HTTP request is, what it asks for and what it was answered |
| `WithdrawalsProofs` | theorems about `Withdrawals` | |
| `OrderLifecycle` | abstract: what polling promises about an order | `status`, `verdict` |
| `AccrualWorker` | the worker of every instance, one action per step of a goroutine | `orders` is the polling part of the table; `jobs`, `notify`, `pausedUntil` are the worker's fields; `pushing` holds what the main goroutine has claimed but not sent; `worker` the goroutines |
| `AccrualWorkerProofs` | theorems about `AccrualWorker` | |
| `AccrualPolling` | the same goroutines for ever, with relative time: what must happen at last | as `AccrualWorker`; times are distances from the present |
| `AccrualClient` | one `Fetch` and the pause after it | `response` what arrives, `outcome` what `Fetch` returns, `until` the end of the pause |
| `Ownership` | abstract: what uploading promises | `owner`, `accepted`; `Take`, `Accept` |
| `OrderSubmission` | `Service.Submit`, one action per statement, then `Notify` | `orders` is the table by `number_hash`, `notify` the worker's channel; `pc`, `req`, `resp` as above |
| `OrderSubmissionProofs` | theorems about `OrderSubmission` | |
| `Accounts` | abstract: what users and tokens promise | `accounts`, `live`, the clock |
| `Sessions` | register, login, access with a token and the cleanup, one action per statement | `users`, `sessions` are the committed tables; `cutoff` is the time the running DELETE compares with; `drawn` the random values used up; `pc`, `req`, `resp` as above |
| `SessionsProofs` | theorems about `Sessions` | |
| `ProcessLifecycle` | `bootstrap.Run` and `serve` with every goroutine they start | `main` is where the main goroutine is; one variable per context, channel and goroutine; `pool` |
| `ProcessLifecycleProofs` | theorems about `ProcessLifecycle` | |
| `GzipWriter` | `gzipResponseWriter` under any sequence of calls of a handler, beside net/http alone | `code`, `sent`, `gz` are its fields; `wire` and `plain` what the client gets with and without it |
| `GzipWriterProofs` | theorems about `GzipWriter` | |
| `GzipRequests` | negotiation and `lazyGzipReader` | `body` what is left to read, `gz` and `err` the reader's fields, `given` what the handler has read |
| `HttpApi` | a request through middlewares, router, handler and service | `pc` where it is, `call` and `outcome` the service's call, `status` the response |
| `Sums` | an amount from JSON to `NUMERIC` and back | `text`, `amount`, `numeric`, `shown`: its forms |
| `OrderNumbers` | `ParseNumber`, and the slips of who copies a number | `i`, `checksum`, `double`: the loop |
| `Configuration` | `config.Load` and `NewClient` | `cfg` the settings so far |
| `Migrations` | `newPostgresPool` and `Migrate` in several instances | `schema`, `versions`, `lock` of the database; `pc`, `pending`, `statement`, `transaction` of each instance |
| `MigrationsProofs` | theorems about `Migrations` | |
| `Inputs` | the six modules that follow one input: `Sums`, `OrderNumbers`, `AccrualClient`, `GzipRequests`, `Configuration`, `HttpApi` | `unit` says which of them runs; the variables of the others are `None` |
| `InputsProofs` | theorems about the six | |
| `MC...` | instances of these for TLC | |

In every module a section named "Faults" holds plausible mistakes, each a changed
copy of one definition. They are no part of the specification: with one of them
in place of its original, TLC finds the property named for it in `PROJECT.json`
violated. They show what the properties detect.

### Withdrawals

Locks are not variables. PostgreSQL keeps a row lock or an uncommitted row
until its transaction ends, so "r holds the row lock of u" is "r is past the
statement that takes it" (`HoldsUserLock`), and likewise for an uncommitted row
(`HasInserted`). `LockOwner` and `Insert` wait for other holders. Statements
see the rows committed when they start (READ COMMITTED) plus their own, which
is `CurrentIn`. `GiveUpCommit` models an error of `Commit`: the answer is 500,
the connection is gone, and the server ends the transaction later, either way
(`Settle`). `Fail` is any other failure: a cancelled context, a lost
connection, the end of the process, or a number whose hash is that of another one,
as the table here is keyed by the number.

`Blockers` says whom a request waits for, by the same definitions as the guards of its
actions: those who hold all connections, the user's row, the number. `NeverDeadlocked`
says that there is no set of requests in which everyone waits only for others of the
set. Were the balance read over a connection of its own (`BlockersThroughPool`), two
requests could hold the two connections and wait for a third.

`Total` stands for SQL `SUM`. The specification assumes of it what the proofs
need (`TotalAssumption`: a sum of zeros is zero, and changing one row changes the
sum by as much); the instances define it as a fold, and TLC evaluates the
assumption for them. `Save` takes any update, since the worker may have decided
on it arbitrarily long ago. A NULL accrual is 0.

### AccrualWorker

Time is a global clock. `Tick` is possible in every state, so every delay of a
goroutine, of the network or of the database is covered, and a claim may outlive
its lease. The clocks of all instances agree. `claimDue` and `claim` read the
clock and the pause and run their query in one step; what happens between the
two could as well have happened just after. The order in which the main
goroutine sends one batch, and in which notifications are received, is left
open; the jobs channel is a queue. `ClaimDue` may skip rows that a save has
locked. `REGISTERED` is `PROCESSING`, as `decide` treats them alike. `lease` in a
claim, `overrun` and `quietUntil` (the end of the longest Retry-After so far) are
history: the code does not store them. The accrual
service is external; it only moves forward.

### AccrualPolling

`AccrualWorker` bounds its clock, so nothing can be said there of what happens at
last. Here time is relative: an order has so long to wait, a pause so long to run,
and `Tick` brings everything nearer by one. Of orders that are overdue only their
order matters, so `Sooner` makes their times ranks, and there are finitely many
states without any bound on the time. A retry comes after any of the delays,
which stands for both backoffs and all counters. The service has concluded an order or
not; that it does not know it yet is an answer that `decide` treats as a failure
(`Unanswered`). Requests may fail, and be refused, again and again; lost claims, failed saves and restarts are
bounded by `MaxFaults`, as a database that never works lets nothing arrive. A send
to the jobs channel is a part of the claim: `ChannelRoom` of `AccrualWorker`, which is
proved, says that it never waits.

### AccrualClient

A body is a JSON value of some length and what comes after it, piece by piece, so
the limit may fall anywhere. A number of seconds is any integer. `SilentAsAsked` wants
the silence to be as long as asked or as long as the client ever keeps silent
(`Longest`). That is the cap of 2^32 seconds, with one exception: `strconv.ParseInt` refuses
a number beyond `int64`, and the client then takes the default of 60 seconds
(`client.go:134`, `149`), however many were asked for. So the greatest requests get a
shorter silence than the cap, which `Longest` states rather than hides. Products are cut
to the width of a duration (`Wrapped`). The clock goes on between the answer, `Fetch`
and `Pause`.

### OrderSubmission

`Add`, `ReadConflict`, `GetExisting` are transactions of one statement each, so
no locks are needed, and a failure between any two of them is a `Fail`. The row
may be stored and the answer of the database lost: the request ends with an
error, and a later upload finds the order there. The table is keyed by a hash,
and `Hash` is any function: the model, and the proofs, do not rely on the
absence of collisions. A collision is answered with an error, as in the code.
The channel is the set of its numbers. `Ownership` is the promise: a number gets
an owner once, and one upload at most is answered with 202, its owner's; the 202 need
not come, since the answer may get lost. `accepted` keeps every 202 of a number, one
after the other, so that a second one is no step of `Ownership`, whoever gets it.

### Sessions

Registration is one transaction; as in `Withdrawals`, the uncommitted rows are
those of requests past the insert (`HasInserted`), and an insert of the same
login waits for their end. Passwords stand for themselves: PBKDF2
is not modelled. One nonce stands for the random ID of a user and the random token of
its first session, a later login draws another; nonces never repeat. There is one
cleanup goroutine, which reads the clock (`BeginPurge`) before it deletes (`Purge`),
any time later. `Accounts` knows neither requests nor the cleanup: a session lives exactly until its expiry.
`known` and `issued` are history.

### ProcessLifecycle

What a goroutine does with the database is a query that holds a connection; the
other models say what it does. `main` follows `Run` and `serve` statement by
statement, deferred functions included. `Shutdown` may overtake the goroutine
of `server.Serve`, and a request may come on a connection that was accepted
before the listener was closed (`Request` while draining). A shutdown that times
out leaves handlers running: they may still hold a connection, which
`pool.Close` waits for, or find the pool closed.

### GzipWriter

The environment is every handler: it changes headers, calls `WriteHeader` and
`Write` with and without data in any order, and returns or panics. Status codes,
content types and encodings are the classes the code tells apart. `Transparent` is
about handlers that leave the head of the response alone once a plain writer
would have sent it (`orderly`): the middleware keeps the head back until the first
data, so a change in between would be seen. No handler here makes one, and none reaches
past the middleware to the plain writer, as `Unwrap` (`compress_middleware.go:140`)
would let it.

### GzipRequests

A body is any sequence of pieces: data, the heads and the ends of gzip's members, and
bytes that are none of these. Nothing ties it to what the headers say of it. `ReadZipped`
is Go's `gzip.Reader`, external: the middleware leaves it in its multistream mode, so
behind the end of a member it goes on with the next one, and its errors stay. What is
meant is said without a reader: the pieces of a sound body have their places (`Fits`),
and its content is the data of all its members (`DataOf`). `Close` is not modelled: the
server closes the body after the handler and nobody reads its error.

`NegotiatedAsMeant` wants compression exactly where the items that decide agree: those
that name gzip, or else those with a star. If they contradict each other -- `gzip;q=0`
and `gzip` in one request -- either answer will do; the code goes by the last.

### HttpApi

Every handler has the shape of `ReadBody`, `Serve`, `Respond`; they differ in the
outcomes of their services (`Outcomes`) and the statuses made of them (`StatusOf`). A
body is a document, its length and what follows; `submit` takes any text that is not
empty for one, and the others a JSON object with its fields (`Readable`). What the services do is in the
other modules; here they return anything. The checks of the user ID in the
handlers never fail behind `RequireAuth` and are left out.

### Sums, OrderNumbers

A text is the parts of a JSON number, which `encoding/json` has made sure of, and the
digits are numbers. The limit of 18 integer digits is a constant. `ConstantsAssumption`
says that a text has fewer digits than an exponent of 19 digits is worth, as a body
has a megabyte at most: of a longer text `parseExponent` could refuse an exponent that
cancels with the length of the number. PostgreSQL and the driver choose the exponent
of what is read (`Numerics`). In `OrderNumbers` the customer copies a valid number and
may make one mistake; `IsNumber` is the Luhn check as it is usually stated.

### Configuration, Migrations

Values of settings are those the checks tell apart. A malformed file changes
nothing, or all it has, before it is refused.

`Migrations` has the statements of the four files in their order, each in the
transaction of its file, and the table of goose. The session lock is released with
the session (`Released`). The code asks for 60 tries, one a second, but the
context of the setup ends after ten seconds (`app.go:154`): `TooLate` may come at any
point, so what holds does not depend on which is shorter. Down migrations are
not run by the program. goose also looks for pending migrations before it takes the
lock; that decides nothing, so `TryLock` leaves it out.

## Runs

| run | instance | question |
|---|---|---|
| `withdrawals` | 2 users, 2 orders, 2 numbers, sums 1 and 2, 2 requests, 2 connections | can any interleaving overdraw an account, pay twice for a number, or answer falsely? |
| `withdrawals_live` | 2 users, 1 order, 1 number, 3 requests, 2 connections | can requests wait for each other in a circle, and does every one end, though they compete for connections, a user and a number? |
| `worker_pair` | 1 instance with 2 workers and one restart, 1 order, a jobs channel of 2, Retry-After 1 and 2, clock to 4 | leases, schedule, pause and life cycle under late answers and different 429s; can claims that pile up block the main goroutine? |
| `worker_paused` | 1 instance, 2 workers, 2 orders | violation: a request is sent after a 429 was handled |
| `worker_restarted` | 1 instance, 1 worker, 1 order, one restart | violation: a request is sent before the Retry-After has passed |
| `polling` | 1 instance, 1 worker, 2 orders, channels of 1, one fault, unbounded time | does each order get its turn for ever, and every verdict arrive in the table? |
| `submission` | 2 users, 3 numbers of which 2 share a hash, 3 requests, a channel of 1 | one owner, true answers, one 202 at most and to the owner, also with collisions, repeated uploads and lost answers? |
| `sessions` | 1 login, 2 passwords, 3 nonces, 2 requests, lifetime 1, clock to 2 | do accounts and tokens keep their promise under races, failures and the cleanup? |
| `lifecycle` | 2 handlers, 2 worker goroutines, 2 connections, with fairness | is anything left behind when the pool is closed, or when Run returns nil; does the process exit? |
| `gzip_writer` | handlers of up to 5 calls with 2 kinds of data | is every response decodable, and the same as without compression? |
| `migrations` | 3 instances, 2 tries for the lock, 2 deaths or timeouts | is the schema ever halfway, does anyone serve too early, does someone serve at last? |
| `inputs` | the six instances below, one at a time | is every amount exact, every slip noticed, every refusal without effect; who is believed, and for how long is the service left alone? |

The instances of `inputs`:

| module | instance | question |
|---|---|---|
| `Sums` | digits 0 and 5, 3 integer digits with a limit of 2, 3 decimal places, exponents to 100 | is every amount exact on its whole way? |
| `OrderNumbers` | all valid numbers of up to 3 digits, a limit of 3, every slip | does the loop detect every slip, and accept what is no slip? |
| `AccrualClient` | bodies around a limit, 8-bit integers, seconds of 4 nanoseconds, headers around every limit | can an unsound response decide an order, or a Retry-After wrap? |
| `GzipRequests` | every body of up to 5 pieces of 2 kinds of data, heads, ends and junk, and bodies of two members, whole, cut off or continued; up to 2 codings and 3 items of Accept-Encoding, 6 reads | do handlers read what was meant, and clients get what they accept? |
| `Configuration` | each setting through all its sources; every file and command line | who wins, and what is refused? |
| `HttpApi` | 8 routes, 4 tokens, up to 2 Authorization headers, bodies around a limit of 2 | does a refused request have an effect, does a status lie? |

Requests of a run start over when they have ended, so two of them produce every
pair of concurrent withdrawals in every state of the tables; three are needed
only for waiting. Sums 1 and 2 allow a balance that covers one withdrawal and
not both. Two users are needed for a number that both want, two orders for a
balance from several accruals. For one order two workers are as many claims as
ever matter at once: the older, whose lease ran out, and the newer. The clock
runs past two leases and the longest pause. Two orders of one user and two
numbers give `SUM` more than one row.

Uploads need a third request for a conflict that is read while another request
inserts, and three numbers for a collision beside an ordinary number. Sessions
of lifetime 1 pass through all their ages, before, at and after expiry, by clock
2; of three nonces one is the account's and two are later logins, or two are
those of registrations that race.
Two connections for two handlers and three background users make every one of
them wait. Five calls are a header change, an informational code, a final code
and two writes, in any order and number.

In `polling` one order is always due when the other is, so that a batch of one has
to choose; one lost claim, failed save or restart is enough to lose what is in
memory, and it may come at any time. Digits 0 and 5 give zeros on both sides and
carries of nothing; the exponents are below, at and beyond the limits, with zeros
in front. Three digits are two neighbours in each of the weights. For
`AccrualClient` the largest duration is 127: 31 seconds of 4 fit, 32 do not, and the
cap is below; 128 seconds are no integer. Five pieces are an empty member with another
behind it, or one with data and anything behind it; six reads pass the end of two
members. Three instances in `migrations` are one that works, one that waits and
one whose turn is taken.

What larger instances could show is proved where there is a proof: that leases keep
any number of instances apart, that no batch of orders overfills the jobs channel,
that logins are not mixed up. The type invariants are proved as well, so only that of
`AccrualWorker`, which also bounds the exponents of the backoff, is checked in a run.

Deadlock is checked where nothing may stop: in `withdrawals` and `withdrawals_live`,
`polling`, `submission` and `sessions`. The bound of the clock ends the runs of the
worker; the life cycle ends with its process, the writer with its handler, an
input with its answer, and the migrations when every instance serves.

`worker_paused` is a disagreement with the README: line 91 says that a 429
pauses all requests, but the gate (`worker.go:161`) is passed before the
request is sent (165), so requests of other workers may follow the 429. There
are at most as many as there are other workers, once per pause.

`worker_restarted` is a disagreement with the same line: `pausedUntil`
(`worker.go:38`) is in memory, so a restart forgets the pause, and the first order it
claims is asked about before the time of the Retry-After has passed.

## Fairness

`FairSpec` of `Withdrawals` assumes that a request whose next statement can be
executed again and again is at last executed (strong fairness of `Proceed`).
pgxpool queues those who wait for a connection and PostgreSQL those who wait
for a lock in order of arrival, which gives exactly that, and for statements
that need not wait it says that the database answers. Failures are never
assumed to happen. `AccrualWorker` states no liveness: its clock is bounded.

`AccrualPolling` assumes that time passes, that the ticker fires at last while a claim is
possible, and that every worker goroutine goes on (weak fairness): the
client has a timeout of five seconds, so a request ends. Of the accrual service it
assumes that an order that is asked about again and again is answered
at last (strong fairness of `AnsweredAbout`): without it, it could refuse for ever.
Notifications are not needed for progress, and get no fairness.

`Migrations` assumes that an instance that runs goes on, and that something starts it
again when it stopped (weak fairness). Deaths and timeouts are bounded, as a setup
that always takes too long never serves.

`FairSpec` of `ProcessLifecycle` assumes that the Go scheduler runs every
goroutine that can run (weak fairness) and that the database answers a query or
notices its cancellation. `ClaimerStops` has strong fairness: the worker's
`select` picks among the ready cases at random, so the end of the context wins
at last against ticks and notifications. Nothing is assumed of handlers, which may
hang for ever between their queries, nor of signals or failures.

## Proofs

`WithdrawalsProofs` proves for all users, numbers, sums, requests and pool sizes:

* `TypeCorrect`, `NoOverdraft`, `TrueAnswers`: `TypeOK`, `NonNegativeBalance` and
  `AnswersAreTrue` are invariants;
* `ImplementsLedger`: `Withdrawals` implements `Ledger`;
* `NobodyWaitsInCircles`: `NeverDeadlocked` is an invariant. Only who begins, takes the
  user's row or inserts can wait (`WaitersAreThree`), and every request takes one
  connection, then the row, then the number. So whom a waiting inserter waits for need
  not wait, whom a request at the row waits for is at most an inserter, and whom one
  without a connection waits for has got one. This is what `EveryRequestEnds` rests on
  apart from fairness.

`NonNegativeBalance` is not inductive: that a commit leaves the balance
non-negative needs that the check still holds then (`CheckedFunds`), which needs
that no other transaction of the user commits in between (`OneLockPerUser`),
that the row is still missing (`OneInsertPerNumber`), and that a save only ever
raises a balance -- the lemma `SaveCredits`, which rests on the WHERE clause of
`Save`: an order that was counted is never touched again. `AnswersAreTrue` needs
`RowsStay`: a committed withdrawal is never changed. `Inv` is their conjunction.
The refinement maps `funds` to the balances of the tables; the step lemmas
about balances (`AddOrderKeepsBalances`, `SaveCredits`, `StoreRowDebits`) serve the
invariant and the refinement alike. The assumptions are `ConstantsAssumption`
and `TotalAssumption`.

`OrderSubmissionProofs` proves for all users, numbers and requests, every hash
function and every capacity of the channel: `TypeCorrect`, `TrueAnswers`,
`NotifiedAreStored`, and `ImplementsOwnership`, that uploads implement `Ownership`.
The argument is that a row never changes (`RowsStay`), so what an answer says stays
true; that a request which notifies inserted its row itself (`NotifierInserted`),
so no other request notifies of that number, now or later; and that an accepted
number is stored. The assumption is `ConstantsAssumption`.

`ProcessLifecycleProofs` proves for any number of handlers and goroutines and any
pool: `TypeCorrect`, `StopsBeforePool`, `SuccessIsServed`, `AwaitsWhatComes` and
`ShutdownGoesForward`. `DeferredInOrder` ties
what has stopped to how far the deferred functions have got; `ShutdownInOrder`
says that `await server` is reached only after a signal and with no handler left,
and that no request comes after. No assumption is used.

The last two are what `ProcessEnds` rests on apart from fairness. `AwaitedComes` is an
invariant: the result of `server.Serve` is in its channel exactly from the end of the
server until `serve` has taken it, whoever is awaited was started and has a cancelled
context, and the pool waits for handlers only. `Started` is the strengthening: what
is started and cancelled at each point of `Run` and `serve`. `GoesForward` is an action
property: the main goroutine never goes back, and under a cancelled context the
cleanup and the goroutines that fetch go through their states in one direction, without
another query. Only the main goroutine of the worker may go round between its `select`
and its check of the context, which is why `ClaimerStops` needs strong fairness.

`SessionsProofs` proves for all logins, passwords, random values and requests, every
lifetime and every clock: `TypeCorrect`, `UniqueAccounts`, `RegistrationIsAtomic`,
`IssuedWork`, `TrueAnswers`, `JustRefusals`, `AcceptedLive` and `ImplementsAccounts`.
The invariant `Inv` says that a random value drawn for a session that is not
stored yet is nobody else's (`Fresh`, `Untaken`); so a token names one session among
those stored, issued and read (`TokensUnique`). Sessions belong to accounts
(`Owned`), a login that is being inserted has no other row (`OneInsertPerLogin`),
and the cleanup's time is never ahead of the clock (`Lifetimes`), so a session that
was issued or read stays stored while it is valid (`StoredWhileValid`). A step is
one of few kinds (`Quiet`, `Draws`, `ReadsRow`, `Stores`, or the clock's and the
cleanup's); the data parts of `Inv` are shown per kind. The assumption is
`ConstantsAssumption`, and that random values do not repeat is the model's.

`AccrualWorkerProofs` proves for all orders, instances and workers, every capacity of
the channels, lease, delay and Retry-After: `TypeCorrect`, `PauseNeverCutShort`,
`OrdersStayScheduled`, `MainNeverBlocks`, `LeaseExcludesOthers` and `ImplementsLifecycle`.

* `NeverForgotten` is not inductive: the next check may come from a pause or from an
  update that waits to be saved, so `Scheduled` bounds those as well.
* `ChannelRoom` follows from `Room`: what is claimed is in `pushing` only if the channel
  had room for all of it, and only the main goroutine adds to the channel.
* `LeaseExclusive` needs that a claim that has not outlived its lease *is* the lease of
  the row (`Held`), so that the row is not due and nobody can claim it, and that an order
  is only once with an instance while that is so (`Sole`): `Exclusive` is their conjunction.
* The refinement needs that a final status on its way to the table is the service's
  verdict, and that of a row as well (`Sound`); as the service's verdict never changes,
  and the WHERE clause of `Save` admits unfinished rows only, a late save never replaces
  a verdict.

The assumptions are `ConstantsAssumption` (there are finitely many orders, and the delays
are bounded) and `NoneIsNoOrder`.

`GzipWriterProofs` proves for all data and every number of calls: `TypeCorrect`,
`StreamsAreWellFormed` and `MiddlewareIsTransparent`. While the handler runs, nothing but informational codes has
gone out before `start` (`Unstarted`), and after it the header announces gzip exactly
if the stream is open, whose parts are of one kind (`Started`); the end is written by
`finish` alone, after which the handler is over (`Ended`). That no handler announces
gzip itself is an assumption about handlers, made by `Next`. For transparency the two
responses are compared part by part (`Alike`): before `start` the code and the header
that the middleware keeps back are those the plain response has already; after it
both have the same head, and the same data in each part. The client decodes by taking
the parts that are data, so equal parts are decoded to equal data, and the end of the
stream adds none. The assumption on the constants is `BoundAssumption`.

`MigrationsProofs` proves for any number of instances, tries, deaths and timeouts:
`MigratesOneAtATime`, `MatchesVersions`, `ServesCurrent` and `SideBySide`. That the
schema matches the versions is not inductive: the owner of the lock must know which
migrations are missing, and what its open transaction has made must be the beginning
of the first of them (`InStep`); both stay true because nobody else migrates meanwhile
(`HeldWhileMigrating`), even when the owner dies and its session and transaction end. The
statements are those of the four files. The assumption is `ConstantsAssumption`.

`InputsProofs` proves, each for every input and not for those of the runs:

* `NoEffectWhenRefused`: requests with any headers and bodies of any length;
* `VerdictsAreSound`, `SilenceIsKept`: any body, limit, header, date and width of integers;
* `ConnectsAsConfigured`: any starts. `SettledFrom` says which sources have been applied;
* `NegotiatesAsMeant`, `GivesWhatIsMeant`: any codings, Accept-Encoding, body and number
  of reads. The pieces that were read are each in their place, what was given is their
  data, and what is left is what was sent behind them (`Inflated`), so an end without
  an error is reached behind the end of the last member only, and an error stays;
* `DetectsSlips`: numbers of any length. The loop has, modulo ten, the sum of the digits
  it has passed (`Looping`). A slip changes the sum by less than ten and not by zero
  (`WrongDigit`, `WrongOrder`), so ten cannot divide both sums;
* `ParsesExactly`, `ShowsExactly`: texts and amounts of any length, and any limit. Zeros in
  front count nothing, and zeros behind multiply by a power of ten (`TrimmedLeft`,
  `TrimmedRight`). What is left ends with no zero, so a power of ten divides it only if
  it is one: a number that is refused for its last digit has no value in hundredths, and
  one that is refused for its first is too large (`RefusedIsNone`). An exponent that is too
  long makes more zeros than the number has digits (`FarIsNoSum`). What is shown of an
  amount is its decimal digits (`DigitsAreWorth`), less zeros behind the point.

Each of the six keeps an invariant of its own, and `UnitsInv` is the conjunction of
them. `TenTo`, `Value`, `DecimalDigits`, `LuhnSum`, `DataOf` are recursive functions: of each
it is proved that a function with its equation exists (`PowersExist`, `ValuesExist`, ...), so
the equation holds of it, and what it computes follows from a least number for which
it would not (`LeastNumber`), as induction theorems with an operator as a parameter
cannot be used. The assumption is `InputsAssumption`, the assumptions of the six modules.

## What is only model-checked, and what is not modelled

`EveryRequestEnds`, `ProcessEnds`, `VerdictsArrive`, `NoOrderStarves` and `ServesAtLast` are
liveness under fairness and stay with TLC; so `AccrualPolling`, which has nothing else, is
checked and not proved. `worker_paused` and `worker_restarted` are counterexamples. Every
other property of the runs is a theorem.

Not modelled, and why:

* password hashing: PBKDF2 with a random salt is cryptography; `Sessions` lets a
  password match itself only;
* the fields of the JSON responses other than the amounts of balances and withdrawals,
  and the order of lists: copied from the database without a decision (`List` sorts in
  SQL). The accruals in the list of orders are `float64` (`list_orders.go:35`): what is
  proved of amounts is not said of them;
* the shift of the backoff (`decide.go:81`): the delays are tables over the attempts,
  which stay within 0..20, so the greatest is 2^20 seconds and far from overflow;
* `Close` of the request reader, for the reason above;
* the accrual service itself: binaries without source, modelled as the environment;
* constructors, logging, and the wording of errors.

## Plan

Done: all modules above, a proof of every safety property and every refinement, and of
what the liveness of the withdrawals and of the shutdown rests on apart from fairness
(`NobodyWaitsInCircles`, `AwaitsWhatComes`, `ShutdownGoesForward`). What is left is the same
for the accrual worker and the migrations: that a claim that is possible stays possible
until some worker makes it, and that an instance that starts again gets as far as one
that never stopped.
