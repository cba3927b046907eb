-------------------------- MODULE ProcessLifecycle --------------------------
(***************************************************************************)
(* The start and the end of the process: bootstrap.Run and serve as the    *)
(* main goroutine, the HTTP server with its handlers, the session cleanup  *)
(* and the goroutines of the accrual worker, all over one connection pool. *)
(* What the goroutines do with the database is a query here; what matters  *)
(* is when they may still do it.                                           *)
(***************************************************************************)
EXTENDS Naturals, FiniteSets

CONSTANTS
    Handlers,   \* bound: the requests in progress at once
    Fetchers,   \* the worker goroutines of the accrual worker
    PoolSize    \* the connections of the pool

ASSUME ConstantsAssumption == PoolSize \in Nat \ {0}

VARIABLES
    main,           \* where the main goroutine is
    result,         \* what Run is going to return
    signalled,      \* whether the context of the process is cancelled
    stopCleanup,    \* whether the cleanup's own context is cancelled
    stopWorker,     \* whether the worker's own context is cancelled
    server,         \* whether server.Serve runs, or how it ended
    serveErr,       \* what is in the channel serveErr
    shutdown,       \* how far the server is told to stop
    handler,        \* the handlers of requests
    cleanup,        \* the cleanup goroutine
    claimer,        \* the main goroutine of the accrual worker
    fetcher,        \* its worker goroutines
    pool            \* the connection pool

vars == <<main, result, signalled, stopCleanup, stopWorker, server, serveErr,
          shutdown, handler, cleanup, claimer, fetcher, pool>>
tasks == <<handler, cleanup, claimer, fetcher>>
contexts == <<signalled, stopCleanup, stopWorker>>
http == <<server, serveErr, shutdown>>
-----------------------------------------------------------------------------
MainPCs == {"listen", "serve", "select", "shutdown", "drain", "await server",
            "stop cleanup", "await cleanup", "stop worker", "await worker",
            "close pool", "await pool", "exited"}

TypeOK ==
    /\ main \in MainPCs
    /\ result \in {"none", "ok", "error"}
    /\ signalled \in BOOLEAN /\ stopCleanup \in BOOLEAN /\ stopWorker \in BOOLEAN
    /\ server \in {"off", "starting", "serving", "failed", "closed"}
    /\ serveErr \in {"empty", "failed", "closed"}
    /\ shutdown \in {"no", "graceful", "forced"}
    /\ handler \in [Handlers -> {"none", "running", "query"}]
    /\ cleanup \in {"off", "ready", "query", "waiting", "stopped"}
    /\ claimer \in {"off", "ready", "query", "waiting", "stopped"}
    /\ fetcher \in [Fetchers -> {"off", "idle", "fetch", "query", "stopped"}]
    /\ pool \in {"open", "closing", "closed"}

CleanupCancelled == signalled \/ stopCleanup
WorkerCancelled == signalled \/ stopWorker

\* The connections in use.
Acquired ==
    Cardinality({h \in Handlers : handler[h] = "query"})
        + Cardinality({f \in Fetchers : fetcher[f] = "query"})
        + (IF cleanup = "query" THEN 1 ELSE 0)
        + (IF claimer = "query" THEN 1 ELSE 0)

CanAcquire == pool = "open" /\ Acquired < PoolSize

WorkerDone == claimer = "stopped" /\ \A f \in Fetchers : fetcher[f] = "stopped"

Goto(label) == main' = label /\ UNCHANGED result

\* serve returns; its deferred functions run, then those of Run.
Return(res) == main' = "stop cleanup" /\ result' = res
-----------------------------------------------------------------------------
(***************************************************************************)
(* Faults: a plausible mistake in the code each.  They are no part of the  *)
(* specification; they show what the properties below detect.              *)
(***************************************************************************)
\* Run cancels the worker and does not wait for it.
AwaitWorkerNot ==
    /\ main = "await worker"
    /\ Goto("close pool")
    /\ UNCHANGED <<contexts, http, tasks, pool>>

\* Run waits for the worker without cancelling it.
StopWorkerNot ==
    /\ main = "stop worker"
    /\ Goto("await worker")
    /\ UNCHANGED <<contexts, http, tasks, pool>>

\* serve does not look at the error of Shutdown.
TimeOutSilently ==
    /\ main = "drain"
    /\ Goto("await server")
    /\ UNCHANGED <<contexts, http, tasks, pool>>
-----------------------------------------------------------------------------
Init ==
    /\ main = "listen"
    /\ result = "none"
    /\ signalled = FALSE /\ stopCleanup = FALSE /\ stopWorker = FALSE
    /\ server = "off"
    /\ serveErr = "empty"
    /\ shutdown = "no"
    /\ handler = [h \in Handlers |-> "none"]
    /\ cleanup = "off"
    /\ claimer = "off"
    /\ fetcher = [f \in Fetchers |-> "off"]
    /\ pool = "open"

Signal ==
    /\ ~signalled
    /\ signalled' = TRUE
    /\ UNCHANGED <<main, result, stopCleanup, stopWorker, http, tasks, pool>>

\* Run listens, which may fail, and starts the worker.
Listen ==
    /\ main = "listen"
    /\ \/ /\ Goto("serve")
          /\ claimer' = "ready"
          /\ fetcher' = [f \in Fetchers |-> "idle"]
       \/ /\ main' = "close pool"
          /\ result' = "error"
          /\ UNCHANGED <<claimer, fetcher>>
    /\ UNCHANGED <<contexts, http, handler, cleanup, pool>>

\* serve starts the cleanup and the server.
Serve ==
    /\ main = "serve"
    /\ Goto("select")
    /\ cleanup' = "ready"
    /\ server' = "starting"
    /\ UNCHANGED <<contexts, serveErr, shutdown, handler, claimer, fetcher, pool>>

\* The select of serve takes any case that is ready.
Select ==
    /\ main = "select"
    /\ \/ signalled /\ Goto("shutdown") /\ UNCHANGED serveErr
       \/ /\ serveErr # "empty"
          /\ serveErr' = "empty"
          /\ Return(IF serveErr = "closed" THEN "ok" ELSE "error")
    /\ UNCHANGED <<contexts, server, shutdown, tasks, pool>>

\* Shutdown closes the listeners and lets no more requests in.
Shutdown ==
    /\ main = "shutdown"
    /\ shutdown' = "graceful"
    /\ Goto("drain")
    /\ UNCHANGED <<contexts, server, serveErr, tasks, pool>>

\* Shutdown returns when no request is in progress ...
Drained ==
    /\ main = "drain"
    /\ \A h \in Handlers : handler[h] = "none"
    /\ Goto("await server")
    /\ UNCHANGED <<contexts, http, tasks, pool>>

\* ... or after ten seconds, and Close cuts the connections.
TimeOut ==
    /\ main = "drain"
    /\ shutdown' = "forced"
    /\ Return("error")
    /\ UNCHANGED <<contexts, server, serveErr, tasks, pool>>

AwaitServer ==
    /\ main = "await server"
    /\ serveErr # "empty"
    /\ serveErr' = "empty"
    /\ Return(IF serveErr = "closed" THEN "ok" ELSE "error")
    /\ UNCHANGED <<contexts, server, shutdown, tasks, pool>>

StopCleanup ==
    /\ main = "stop cleanup"
    /\ stopCleanup' = TRUE
    /\ Goto("await cleanup")
    /\ UNCHANGED <<signalled, stopWorker, http, tasks, pool>>

AwaitCleanup ==
    /\ main = "await cleanup"
    /\ cleanup = "stopped"
    /\ Goto("stop worker")
    /\ UNCHANGED <<contexts, http, tasks, pool>>

StopWorker ==
    /\ main = "stop worker"
    /\ stopWorker' = TRUE
    /\ Goto("await worker")
    /\ UNCHANGED <<signalled, stopCleanup, http, tasks, pool>>

AwaitWorker ==
    /\ main = "await worker"
    /\ WorkerDone
    /\ Goto("close pool")
    /\ UNCHANGED <<contexts, http, tasks, pool>>

\* pool.Close lets nobody acquire a connection and waits for those in use.
ClosePool ==
    /\ main = "close pool"
    /\ pool' = "closing"
    /\ Goto("await pool")
    /\ UNCHANGED <<contexts, http, tasks>>

AwaitPool ==
    /\ main = "await pool"
    /\ Acquired = 0
    /\ pool' = "closed"
    /\ Goto("exited")
    /\ UNCHANGED <<contexts, http, tasks>>

Main ==
    \/ Listen \/ Serve \/ Select \/ Shutdown \/ Drained \/ TimeOut \/ AwaitServer
    \/ StopCleanup \/ AwaitCleanup \/ StopWorker \/ AwaitWorker \/ ClosePool \/ AwaitPool
-----------------------------------------------------------------------------
\* The goroutine of server.Serve, which Shutdown may overtake.
ServerRuns ==
    /\ \/ server = "starting" /\ shutdown = "no" /\ server' = "serving" /\ UNCHANGED serveErr
       \/ /\ server \in {"starting", "serving"}
          /\ shutdown # "no"
          /\ server' = "closed" /\ serveErr' = "closed"
    /\ UNCHANGED <<main, result, contexts, shutdown, tasks, pool>>

ServerFails ==
    /\ server \in {"starting", "serving"}
    /\ shutdown = "no"
    /\ server' = "failed" /\ serveErr' = "failed"
    /\ UNCHANGED <<main, result, contexts, shutdown, tasks, pool>>

\* A request comes in, also on a connection that outlived its listener, or was
\* so new that Shutdown waits for its first request.
Request(h) ==
    /\ handler[h] = "none"
    /\ \/ server \in {"serving", "failed"} /\ shutdown = "no"
       \/ server = "closed" /\ main = "drain"
    /\ handler' = [handler EXCEPT ![h] = "running"]
    /\ UNCHANGED <<main, result, contexts, http, cleanup, claimer, fetcher, pool>>

HandlerQueries(h) ==
    /\ handler[h] = "running"
    /\ CanAcquire
    /\ handler' = [handler EXCEPT ![h] = "query"]
    /\ UNCHANGED <<main, result, contexts, http, cleanup, claimer, fetcher, pool>>

\* The query is answered, fails, or is cancelled with the request.
HandlerAnswered(h) ==
    /\ handler[h] = "query"
    /\ handler' = [handler EXCEPT ![h] = "running"]
    /\ UNCHANGED <<main, result, contexts, http, cleanup, claimer, fetcher, pool>>

HandlerReturns(h) ==
    /\ handler[h] = "running"
    /\ handler' = [handler EXCEPT ![h] = "none"]
    /\ UNCHANGED <<main, result, contexts, http, cleanup, claimer, fetcher, pool>>

\* runSessionCleanup: purge, wait for the ticker, and again.
CleanupRuns ==
    /\ \/ cleanup = "ready" /\ ~CleanupCancelled /\ CanAcquire /\ cleanup' = "query"
       \/ cleanup = "query" /\ cleanup' = IF CleanupCancelled THEN "stopped" ELSE "waiting"
       \/ cleanup = "waiting" /\ cleanup' = "ready"
       \/ cleanup \in {"ready", "waiting"} /\ CleanupCancelled /\ cleanup' = "stopped"
    /\ UNCHANGED <<main, result, contexts, http, handler, claimer, fetcher, pool>>

\* Worker.Run: claim, wait for the ticker or a notification, and again.
ClaimerRuns ==
    /\ \/ claimer = "ready" /\ ~WorkerCancelled /\ CanAcquire /\ claimer' = "query"
       \/ claimer = "ready" /\ WorkerCancelled /\ claimer' = "waiting"
       \/ claimer = "query" /\ claimer' = "waiting"
       \/ claimer = "waiting" /\ claimer' = "ready"
    /\ UNCHANGED <<main, result, contexts, http, handler, cleanup, fetcher, pool>>

ClaimerStops ==
    /\ claimer = "waiting"
    /\ WorkerCancelled
    /\ claimer' = "stopped"
    /\ UNCHANGED <<main, result, contexts, http, handler, cleanup, fetcher, pool>>

\* A job is fetched and saved; a cancelled context ends both.
FetcherRuns(f) ==
    /\ \/ /\ fetcher[f] = "idle" /\ ~WorkerCancelled
          /\ claimer \notin {"off", "stopped"}
          /\ fetcher' = [fetcher EXCEPT ![f] = "fetch"]
       \/ /\ fetcher[f] = "fetch" /\ ~WorkerCancelled
          /\ CanAcquire
          /\ fetcher' = [fetcher EXCEPT ![f] = "query"]
       \/ /\ \/ fetcher[f] = "fetch" /\ WorkerCancelled
             \/ fetcher[f] = "query"
          /\ fetcher' = [fetcher EXCEPT ![f] = "idle"]
    /\ UNCHANGED <<main, result, contexts, http, handler, cleanup, claimer, pool>>

\* The jobs channel is closed when the main goroutine of the worker ends.
FetcherStops(f) ==
    /\ fetcher[f] = "idle"
    /\ claimer = "stopped"
    /\ fetcher' = [fetcher EXCEPT ![f] = "stopped"]
    /\ UNCHANGED <<main, result, contexts, http, handler, cleanup, claimer, pool>>

Next ==
    \/ Signal
    \/ Main
    \/ ServerRuns \/ ServerFails
    \/ \E h \in Handlers :
          Request(h) \/ HandlerQueries(h) \/ HandlerAnswered(h) \/ HandlerReturns(h)
    \/ CleanupRuns
    \/ ClaimerRuns \/ ClaimerStops
    \/ \E f \in Fetchers : FetcherRuns(f) \/ FetcherStops(f)

\* The Go scheduler runs every goroutine that can run, and the database answers
\* every query or notices that it is cancelled.  A select takes one of the cases
\* that are ready at random, so the worker at last sees its context's end though
\* its ticker and notifications compete: strong fairness of ClaimerStops.  Nothing
\* says that a handler returns, that a signal comes or that the server fails.
Fairness ==
    /\ WF_vars(Main)
    /\ WF_vars(ServerRuns)
    /\ WF_vars(CleanupRuns)
    /\ WF_vars(ClaimerRuns)
    /\ SF_vars(ClaimerStops)
    /\ \A h \in Handlers : WF_vars(HandlerAnswered(h))
    /\ \A f \in Fetchers : WF_vars(FetcherRuns(f)) /\ WF_vars(FetcherStops(f))

Spec == Init /\ [][Next]_vars

FairSpec == Spec /\ Fairness
-----------------------------------------------------------------------------
\* The pool is closed only when nothing in the background can want it any more,
\* whether the process was signalled, failed to listen or lost its server: the
\* defers of Run and serve (app.go:40, 62, 83) run in this order.
BackgroundStopsFirst ==
    pool # "open" =>
        /\ cleanup \in {"off", "stopped"}
        /\ claimer \in {"off", "stopped"}
        /\ \A f \in Fetchers : fetcher[f] \in {"off", "stopped"}

\* Run reports success only if it was told to stop and every request got its
\* answer over an open pool: a handler that still runs when the pool is closed
\* shows in the exit code (app.go:104-111).
SuccessMeansServed ==
    result = "ok" => signalled /\ \A h \in Handlers : handler[h] = "none"

\* Once it is signalled or has lost its server the process exits, although
\* handlers hang, several goroutines wait for each other's end, and Shutdown may
\* be called before the server has started.
ProcessEnds == (signalled \/ server = "failed") ~> main = "exited"
=============================================================================
