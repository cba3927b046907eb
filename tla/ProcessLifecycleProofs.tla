---------------------- MODULE ProcessLifecycleProofs ----------------------
(***************************************************************************)
(* Proofs about ProcessLifecycle.tla for every number of requests and of   *)
(* worker goroutines and every size of the pool: what runs in the          *)
(* background stops before the pool is closed, Run reports success only    *)
(* when every request was served, and a shutdown goes forward and waits    *)
(* only for what comes.                                                    *)
(***************************************************************************)
EXTENDS ProcessLifecycle, Sequences, TLAPS

Idle == \A h \in Handlers : handler[h] = "none"

FetchersIn(states) == \A f \in Fetchers : fetcher[f] \in states

\* How far the deferred functions have got, and what is stopped by then.
DeferredInOrder ==
    /\ main \in {"listen", "serve"} => cleanup = "off"
    /\ main = "listen" => claimer = "off" /\ FetchersIn({"off"})
    /\ main \in {"stop worker", "await worker"} => cleanup = "stopped"
    /\ main \in {"close pool", "await pool", "exited"} =>
          /\ cleanup \in {"off", "stopped"}
          /\ claimer \in {"off", "stopped"}
          /\ FetchersIn({"off", "stopped"})
    /\ pool # "open" => main \in {"await pool", "exited"}

Returning == {"stop cleanup", "await cleanup", "stop worker", "await worker",
              "close pool", "await pool", "exited"}

\* The server is told to stop after a signal only, and Run waits for the result
\* of server.Serve only after Shutdown has seen every request end.
ShutdownInOrder ==
    /\ main \in {"shutdown", "drain", "await server"} => signalled
    /\ main \in {"listen", "serve", "select", "shutdown"} => shutdown = "no"
    /\ main = "drain" => shutdown # "no"
    /\ shutdown = "no" => serveErr # "closed"
    /\ main = "await server" \/ result = "ok" => signalled /\ shutdown # "no" /\ Idle
    /\ result # "none" => main \in Returning

Inv == TypeOK /\ DeferredInOrder /\ ShutdownInOrder
-----------------------------------------------------------------------------
LEMMA InitInv == Init => Inv
<1> SUFFICES ASSUME Init PROVE Inv
  OBVIOUS
<1>1. TypeOK
  BY DEF Init, TypeOK, MainPCs
<1>2. DeferredInOrder /\ ShutdownInOrder
  BY DEF Init, DeferredInOrder, ShutdownInOrder, FetchersIn
<1> QED BY <1>1, <1>2 DEF Inv

\* A step of the main goroutine.
LEMMA MainStep ==
    ASSUME Inv, Main
    PROVE  Inv'
<1> USE DEF Goto, Return, contexts, http, tasks
<1>0. TypeOK /\ DeferredInOrder /\ ShutdownInOrder
  BY DEF Inv
<1>1. CASE Listen
  <2>1. /\ main' \in MainPCs /\ result' \in {"none", "ok", "error"}
        /\ claimer' \in {claimer, "ready"}
        /\ fetcher' \in {fetcher, [f \in Fetchers |-> "idle"]}
        /\ UNCHANGED <<signalled, stopCleanup, stopWorker, server, serveErr, shutdown,
                       handler, cleanup, pool>>
    BY <1>0, <1>1 DEF Listen, TypeOK, MainPCs
  <2>4. TypeOK'
    BY <1>0, <2>1 DEF TypeOK
  <2>2. DeferredInOrder'
    BY <1>0, <1>1 DEF Listen, DeferredInOrder, FetchersIn
  <2>3. ShutdownInOrder'
    BY <1>0, <1>1 DEF Listen, ShutdownInOrder, Idle, Returning
  <2> QED BY <2>2, <2>3, <2>4 DEF Inv
<1>2. CASE Serve \/ Select \/ Shutdown \/ Drained \/ TimeOut \/ AwaitServer
  <2>1. TypeOK'
    <3>1. /\ main' \in MainPCs /\ result' \in {result, "ok", "error"}
          /\ cleanup' \in {cleanup, "ready"} /\ server' \in {server, "starting"}
          /\ serveErr' \in {serveErr, "empty"} /\ shutdown' \in {shutdown, "graceful", "forced"}
          /\ UNCHANGED <<signalled, stopCleanup, stopWorker, handler, claimer, fetcher, pool>>
      BY <1>2 DEF Serve, Select, Shutdown, Drained, TimeOut, AwaitServer, MainPCs
    <3> QED BY <1>0, <3>1 DEF TypeOK
  <2>2. DeferredInOrder'
    BY <1>0, <1>2 DEF Serve, Select, Shutdown, Drained, TimeOut, AwaitServer,
       DeferredInOrder, FetchersIn, TypeOK
  <2>3. ShutdownInOrder'
    <3>1. CASE Serve \/ Shutdown
      BY <1>0, <3>1 DEF Serve, Shutdown, ShutdownInOrder, Idle, Returning
    <3>5. CASE TimeOut
      BY <1>0, <3>5 DEF TimeOut, ShutdownInOrder, Idle, Returning
    <3>2. CASE Select
      BY <1>0, <3>2 DEF Select, ShutdownInOrder, Idle, Returning
    <3>3. CASE Drained
      BY <1>0, <3>3 DEF Drained, ShutdownInOrder, Idle, Returning
    <3>4. CASE AwaitServer
      BY <1>0, <3>4 DEF AwaitServer, ShutdownInOrder, Idle, Returning
    <3> QED BY <1>2, <3>1, <3>2, <3>3, <3>4, <3>5
  <2> QED BY <2>1, <2>2, <2>3 DEF Inv
<1>3. CASE StopCleanup \/ AwaitCleanup \/ StopWorker \/ AwaitWorker \/ ClosePool \/ AwaitPool
  <2>1. TypeOK'
    BY <1>0, <1>3 DEF StopCleanup, AwaitCleanup, StopWorker, AwaitWorker, ClosePool,
       AwaitPool, TypeOK, MainPCs
  <2>2. DeferredInOrder'
    BY <1>0, <1>3 DEF StopCleanup, AwaitCleanup, StopWorker, AwaitWorker, ClosePool,
       AwaitPool, WorkerDone, DeferredInOrder, FetchersIn
  <2>3. ShutdownInOrder'
    BY <1>0, <1>3 DEF StopCleanup, AwaitCleanup, StopWorker, AwaitWorker, ClosePool,
       AwaitPool, ShutdownInOrder, Idle, Returning
  <2> QED BY <2>1, <2>2, <2>3 DEF Inv
<1> QED BY <1>1, <1>2, <1>3 DEF Main

\* A step of any other goroutine, or a signal.
LEMMA OtherStep ==
    ASSUME Inv, Next, ~Main
    PROVE  Inv'
<1> USE DEF contexts, http, tasks
<1>0. TypeOK /\ DeferredInOrder /\ ShutdownInOrder
  BY DEF Inv
<1>1. CASE Signal \/ ServerRuns \/ ServerFails
  <2>1. TypeOK'
    <3>1. /\ signalled' \in BOOLEAN
          /\ server' \in {server, "serving", "closed", "failed"}
          /\ serveErr' \in {serveErr, "closed", "failed"}
          /\ UNCHANGED <<main, result, stopCleanup, stopWorker, shutdown, handler,
                         cleanup, claimer, fetcher, pool>>
      BY <1>0, <1>1 DEF TypeOK, Signal, ServerRuns, ServerFails
    <3> QED BY <1>0, <3>1 DEF TypeOK
  <2>2. DeferredInOrder'
    BY <1>0, <1>1 DEF Signal, ServerRuns, ServerFails, DeferredInOrder, FetchersIn
  <2>3. ShutdownInOrder'
    BY <1>0, <1>1 DEF Signal, ServerRuns, ServerFails, ShutdownInOrder, Idle
  <2> QED BY <2>1, <2>2, <2>3 DEF Inv
<1>2. ASSUME NEW h \in Handlers,
             Request(h) \/ HandlerQueries(h) \/ HandlerAnswered(h) \/ HandlerReturns(h)
      PROVE  Inv'
  <2>1. TypeOK'
    BY <1>0, <1>2 DEF Request, HandlerQueries, HandlerAnswered, HandlerReturns, TypeOK
  <2>2. DeferredInOrder'
    BY <1>0, <1>2 DEF Request, HandlerQueries, HandlerAnswered, HandlerReturns,
       DeferredInOrder, FetchersIn
  <2>3. Idle => ~(HandlerQueries(h) \/ HandlerAnswered(h) \/ HandlerReturns(h))
    BY DEF Idle, HandlerQueries, HandlerAnswered, HandlerReturns
  <2>4. Request(h) => main # "await server" /\ result # "ok"
    BY <1>0 DEF Request, ShutdownInOrder, Returning
  <2>5. ShutdownInOrder'
    BY <1>0, <1>2, <2>3, <2>4 DEF Request, HandlerQueries, HandlerAnswered, HandlerReturns,
       ShutdownInOrder
  <2> QED BY <2>1, <2>2, <2>5 DEF Inv
<1>3. CASE CleanupRuns \/ ClaimerRuns \/ ClaimerStops
  <2>1. TypeOK'
    BY <1>0, <1>3 DEF CleanupRuns, ClaimerRuns, ClaimerStops, TypeOK
  <2>2. DeferredInOrder'
    BY <1>0, <1>3 DEF CleanupRuns, ClaimerRuns, ClaimerStops, DeferredInOrder, FetchersIn
  <2>3. ShutdownInOrder'
    BY <1>0, <1>3 DEF CleanupRuns, ClaimerRuns, ClaimerStops, ShutdownInOrder, Idle
  <2> QED BY <2>1, <2>2, <2>3 DEF Inv
<1>4. ASSUME NEW f \in Fetchers, FetcherRuns(f) \/ FetcherStops(f)
      PROVE  Inv'
  <2>1. TypeOK'
    BY <1>0, <1>4 DEF FetcherRuns, FetcherStops, TypeOK
  <2>2. fetcher[f] \notin {"off", "stopped"}
    BY <1>4 DEF FetcherRuns, FetcherStops
  <2>3. DeferredInOrder'
    BY <1>0, <1>4, <2>2 DEF FetcherRuns, FetcherStops, DeferredInOrder, FetchersIn
  <2>4. ShutdownInOrder'
    BY <1>0, <1>4 DEF FetcherRuns, FetcherStops, ShutdownInOrder, Idle
  <2> QED BY <2>1, <2>3, <2>4 DEF Inv
<1> QED BY <1>1, <1>2, <1>3, <1>4 DEF Next

LEMMA Invariance == Spec => []Inv
<1>1. Inv /\ UNCHANGED vars => Inv'
  <2> SUFFICES ASSUME Inv, UNCHANGED vars PROVE Inv'
    OBVIOUS
  <2>1. UNCHANGED <<main, result, signalled, stopCleanup, stopWorker, server, serveErr,
                    shutdown, handler, cleanup, claimer, fetcher, pool>>
    BY DEF vars
  <2>2. TypeOK'
    BY <2>1 DEF Inv, TypeOK
  <2>3. DeferredInOrder' /\ ShutdownInOrder'
    BY <2>1 DEF Inv, DeferredInOrder, ShutdownInOrder, FetchersIn, Idle
  <2> QED BY <2>2, <2>3 DEF Inv
<1>2. Inv /\ [Next]_vars => Inv'
  BY <1>1, MainStep, OtherStep
<1> QED BY <1>2, InitInv, PTL DEF Spec
-----------------------------------------------------------------------------
\* Every variable of the model of the process keeps its type.
THEOREM TypeCorrect == Spec => []TypeOK
BY Invariance, PTL DEF Inv

\* The cleanup and every goroutine of the worker have ended, or were never
\* started, when the pool is told to close (app.go:40, 62, 83).
THEOREM StopsBeforePool == Spec => []BackgroundStopsFirst
<1>1. Inv => BackgroundStopsFirst
  BY DEF Inv, DeferredInOrder, FetchersIn, BackgroundStopsFirst
<1> QED BY <1>1, Invariance, PTL

\* Run returns nil only after a signal and with no handler left behind
\* (app.go:104-111).
THEOREM SuccessIsServed == Spec => []SuccessMeansServed
<1>1. Inv => SuccessMeansServed
  BY DEF Inv, ShutdownInOrder, Idle, SuccessMeansServed
<1> QED BY <1>1, Invariance, PTL
-----------------------------------------------------------------------------
\* What the main goroutine waits for is on its way.  The result of server.Serve is in
\* the channel from the end of the server until serve has taken it (app.go:88-108), so
\* it is neither missed by a Shutdown that comes first nor awaited twice.  Each
\* goroutine that Run and serve wait for was started and is cancelled by then, and what
\* can still keep a connection when the pool waits for all of them is a handler.
AwaitedComes ==
    /\ main \in {"select", "shutdown", "drain", "await server"} =>
          (server \in {"failed", "closed"} <=> serveErr # "empty")
    /\ main = "await server" /\ serveErr = "empty" =>
          server \in {"starting", "serving"} /\ shutdown # "no"
    /\ main = "await cleanup" => CleanupCancelled /\ cleanup # "off"
    /\ main = "await worker" =>
          WorkerCancelled /\ claimer # "off" /\ \A f \in Fetchers : fetcher[f] # "off"
    /\ main \in {"await cleanup", "await worker"} => pool = "open"
    /\ main = "await pool" =>
          /\ pool = "closing" /\ cleanup # "query" /\ claimer # "query"
          /\ \A f \in Fetchers : fetcher[f] # "query"

\* The order in which a goroutine goes through its states.
Before(order, a, b) ==
    \E i, j \in DOMAIN order : i < j /\ order[i] = a /\ order[j] = b

MainOrder == <<"listen", "serve", "select", "shutdown", "drain", "await server",
               "stop cleanup", "await cleanup", "stop worker", "await worker",
               "close pool", "await pool", "exited">>
CleanupOrder == <<"off", "query", "waiting", "ready", "stopped">>
FetcherOrder == <<"off", "query", "fetch", "idle", "stopped">>

\* The main goroutine never goes back, and once a context is cancelled each step of the
\* goroutines under it brings them nearer to their end, without another query.  Only
\* the main goroutine of the worker may go round, as its select may take the ticker.
GoesForward ==
    [][/\ main' # main => Before(MainOrder, main, main')
       /\ CleanupCancelled => CleanupCancelled'
       /\ CleanupCancelled /\ cleanup' # cleanup => Before(CleanupOrder, cleanup, cleanup')
       /\ WorkerCancelled => WorkerCancelled'
       /\ WorkerCancelled => \A f \in Fetchers :
             fetcher'[f] # fetcher[f] => Before(FetcherOrder, fetcher[f], fetcher'[f])
       /\ WorkerCancelled /\ claimer' = "query" => claimer = "query"
       /\ claimer = "stopped" => claimer' = "stopped"]_vars

-----------------------------------------------------------------------------
\* When the server has ended, and what the main goroutine has started and cancelled.
Started ==
    /\ main \in {"listen", "serve"} => server = "off" /\ serveErr = "empty"
    /\ main \in {"select", "shutdown", "drain", "await server"} =>
          /\ server # "off"
          /\ server \in {"failed", "closed"} <=> serveErr # "empty"
    /\ main \in {"select", "shutdown", "drain", "await server", "stop cleanup",
                 "await cleanup"} => cleanup # "off"
    /\ main \notin {"listen", "close pool", "await pool", "exited"} =>
          claimer # "off" /\ \A f \in Fetchers : fetcher[f] # "off"
    /\ main = "await cleanup" => stopCleanup
    /\ main = "await worker" => stopWorker
    /\ main = "await pool" => pool = "closing"

LEMMA StartedStep ==
    ASSUME Inv, Started, Next
    PROVE  Started'
<1> USE DEF contexts, http, tasks
<1>0. TypeOK /\ DeferredInOrder /\ ShutdownInOrder
  BY DEF Inv
<1>1. CASE Main
  <2> USE DEF Goto, Return
  <2>1. CASE Listen
    BY <1>0, <2>1 DEF Listen, Started
  <2>2. CASE Serve
    BY <1>0, <2>2 DEF Serve, Started, ShutdownInOrder, DeferredInOrder, TypeOK
  <2>3. CASE Select \/ Shutdown \/ Drained \/ TimeOut \/ AwaitServer
    BY <2>3 DEF Select, Shutdown, Drained, TimeOut, AwaitServer, Started
  <2>4. CASE StopCleanup \/ AwaitCleanup \/ StopWorker \/ AwaitWorker
    BY <2>4 DEF StopCleanup, AwaitCleanup, StopWorker, AwaitWorker, Started
  <2>5. CASE ClosePool \/ AwaitPool
    BY <2>5 DEF ClosePool, AwaitPool, Started
  <2> QED BY <1>1, <2>1, <2>2, <2>3, <2>4, <2>5 DEF Main
<1>2. CASE Signal \/ ServerRuns \/ ServerFails
  BY <1>2 DEF Signal, ServerRuns, ServerFails, Started
<1>3. ASSUME NEW h \in Handlers,
             Request(h) \/ HandlerQueries(h) \/ HandlerAnswered(h) \/ HandlerReturns(h)
      PROVE  Started'
  BY <1>3 DEF Request, HandlerQueries, HandlerAnswered, HandlerReturns, Started
<1>4. CASE CleanupRuns \/ ClaimerRuns \/ ClaimerStops
  BY <1>4 DEF CleanupRuns, ClaimerRuns, ClaimerStops, Started
<1>5. ASSUME NEW f \in Fetchers, FetcherRuns(f) \/ FetcherStops(f)
      PROVE  Started'
  <2>1. \A g \in Fetchers : fetcher[g] # "off" => fetcher'[g] # "off"
    <3>1. fetcher \in [Fetchers -> {"off", "idle", "fetch", "query", "stopped"}]
      BY <1>0 DEF TypeOK
    <3>2. CASE FetcherRuns(f)
      <4>1. \E v \in {"fetch", "query", "idle"} : fetcher' = [fetcher EXCEPT ![f] = v]
        BY <3>2 DEF FetcherRuns
      <4> QED BY <3>1, <4>1
    <3>3. CASE FetcherStops(f)
      BY <3>1, <3>3 DEF FetcherStops
    <3> QED BY <1>5, <3>2, <3>3
  <2>2. UNCHANGED <<main, stopCleanup, stopWorker, server, serveErr, cleanup, claimer, pool>>
    BY <1>5 DEF FetcherRuns, FetcherStops
  <2> QED BY <2>1, <2>2 DEF Started
<1> QED BY <1>1, <1>2, <1>3, <1>4, <1>5 DEF Next

LEMMA StartedInvariance == Spec => [](Inv /\ Started)
<1>1. Init => Started
  BY DEF Init, Started
<1>2. Inv /\ Started /\ [Next]_vars => Started'
  <2>1. ASSUME Started, UNCHANGED vars PROVE Started'
    BY <2>1 DEF vars, Started
  <2> QED BY <2>1, StartedStep
<1> QED BY <1>1, <1>2, Invariance, PTL DEF Spec

\* Whatever the main goroutine waits for comes, unless a handler hangs (app.go:83-108).
THEOREM AwaitsWhatComes == Spec => []AwaitedComes
<1>1. Inv /\ Started => AwaitedComes
  <2> SUFFICES ASSUME Inv, Started PROVE AwaitedComes
    OBVIOUS
  <2>0. TypeOK /\ DeferredInOrder /\ ShutdownInOrder
    BY DEF Inv
  <2>1. main \in {"select", "shutdown", "drain", "await server"} =>
            (server \in {"failed", "closed"} <=> serveErr # "empty")
    BY DEF Started
  <2>2. main = "await server" /\ serveErr = "empty" =>
            server \in {"starting", "serving"} /\ shutdown # "no"
    BY <2>0, <2>1 DEF Started, TypeOK, ShutdownInOrder
  <2>3. main = "await pool" =>
            /\ pool = "closing" /\ cleanup # "query" /\ claimer # "query"
            /\ \A f \in Fetchers : fetcher[f] # "query"
    BY <2>0 DEF Started, DeferredInOrder, FetchersIn
  <2>4. main \in {"await cleanup", "await worker"} => pool = "open"
    BY <2>0 DEF DeferredInOrder
  <2> QED BY <2>1, <2>2, <2>3, <2>4 DEF AwaitedComes, Started, CleanupCancelled,
             WorkerCancelled
<1> QED BY <1>1, StartedInvariance, PTL

\* The steps from each state of the main goroutine lead on.
LEMMA MainGoesOn ==
    ASSUME Main, main' # main
    PROVE  Before(MainOrder, main, main')
<1> DEFINE o == MainOrder
<1>1. /\ DOMAIN o = 1..13
      /\ o[1] = "listen" /\ o[2] = "serve" /\ o[3] = "select" /\ o[4] = "shutdown"
      /\ o[5] = "drain" /\ o[6] = "await server" /\ o[7] = "stop cleanup"
      /\ o[8] = "await cleanup" /\ o[9] = "stop worker" /\ o[10] = "await worker"
      /\ o[11] = "close pool" /\ o[12] = "await pool" /\ o[13] = "exited"
  BY DEF MainOrder
<1> HIDE DEF o
<1>2. \A i, j \in 1..13 : i < j => Before(o, o[i], o[j])
  BY <1>1 DEF Before
<1>3. /\ Before(o, "listen", "serve")
      /\ Before(o, "listen", "close pool")
      /\ Before(o, "serve", "select")
      /\ Before(o, "select", "shutdown")
      /\ Before(o, "select", "stop cleanup")
      /\ Before(o, "shutdown", "drain")
      /\ Before(o, "drain", "await server")
      /\ Before(o, "drain", "stop cleanup")
      /\ Before(o, "await server", "stop cleanup")
      /\ Before(o, "stop cleanup", "await cleanup")
      /\ Before(o, "await cleanup", "stop worker")
      /\ Before(o, "stop worker", "await worker")
      /\ Before(o, "await worker", "close pool")
      /\ Before(o, "close pool", "await pool")
      /\ Before(o, "await pool", "exited")
  <2>1. /\ Before(o, o[1], o[2]) /\ Before(o, o[1], o[11]) /\ Before(o, o[2], o[3])
        /\ Before(o, o[3], o[4]) /\ Before(o, o[3], o[7]) /\ Before(o, o[4], o[5])
        /\ Before(o, o[5], o[6]) /\ Before(o, o[5], o[7]) /\ Before(o, o[6], o[7])
        /\ Before(o, o[7], o[8]) /\ Before(o, o[8], o[9]) /\ Before(o, o[9], o[10])
        /\ Before(o, o[10], o[11]) /\ Before(o, o[11], o[12]) /\ Before(o, o[12], o[13])
    BY <1>2
  <2> QED BY <1>1, <2>1
<1>4. Before(o, main, main')
  <2> USE DEF Goto, Return
  <2>1. CASE Listen
    BY <1>3, <2>1 DEF Listen
  <2>2. CASE Serve \/ Select
    BY <1>3, <2>2 DEF Serve, Select
  <2>3. CASE Shutdown \/ Drained \/ TimeOut \/ AwaitServer
    BY <1>3, <2>3 DEF Shutdown, Drained, TimeOut, AwaitServer
  <2>4. CASE StopCleanup \/ AwaitCleanup \/ StopWorker \/ AwaitWorker
    BY <1>3, <2>4 DEF StopCleanup, AwaitCleanup, StopWorker, AwaitWorker
  <2>5. CASE ClosePool \/ AwaitPool
    BY <1>3, <2>5 DEF ClosePool, AwaitPool
  <2> QED BY <2>1, <2>2, <2>3, <2>4, <2>5 DEF Main
<1> QED BY <1>4 DEF o

\* So do those of the cleanup once its context is cancelled ...
LEMMA CleanupGoesOn ==
    ASSUME Inv, Next, CleanupCancelled, cleanup' # cleanup
    PROVE  Before(CleanupOrder, cleanup, cleanup')
<1> DEFINE o == CleanupOrder
<1>1. /\ DOMAIN o = 1..5
      /\ o[1] = "off" /\ o[2] = "query" /\ o[3] = "waiting" /\ o[4] = "ready"
      /\ o[5] = "stopped"
  BY DEF CleanupOrder
<1> HIDE DEF o
<1>2. \A i, j \in 1..5 : i < j => Before(o, o[i], o[j])
  BY <1>1 DEF Before
<1>3. Serve \/ CleanupRuns
  BY DEF Next, Main, Signal, Listen, Select, Shutdown, Drained, TimeOut, AwaitServer,
     StopCleanup, AwaitCleanup, StopWorker, AwaitWorker, ClosePool, AwaitPool, ServerRuns,
     ServerFails, Request, HandlerQueries, HandlerAnswered, HandlerReturns, ClaimerRuns,
     ClaimerStops, FetcherRuns, FetcherStops, tasks
<1>4. \E i, j \in 1..5 : i < j /\ cleanup = o[i] /\ cleanup' = o[j]
  <2>1. CASE Serve
    BY <1>1, <2>1 DEF Serve, Inv, DeferredInOrder
  <2>2. CASE CleanupRuns
    BY <1>1, <2>2 DEF CleanupRuns
  <2> QED BY <1>3, <2>1, <2>2
<1> QED BY <1>2, <1>4 DEF o

\* ... and of the goroutines that fetch.
LEMMA FetchersGoOn ==
    ASSUME Inv, Next, WorkerCancelled, NEW f \in Fetchers, fetcher'[f] # fetcher[f]
    PROVE  Before(FetcherOrder, fetcher[f], fetcher'[f])
<1> DEFINE o == FetcherOrder
<1>1. /\ DOMAIN o = 1..5
      /\ o[1] = "off" /\ o[2] = "query" /\ o[3] = "fetch" /\ o[4] = "idle"
      /\ o[5] = "stopped"
  BY DEF FetcherOrder
<1> HIDE DEF o
<1>2. \A i, j \in 1..5 : i < j => Before(o, o[i], o[j])
  BY <1>1 DEF Before
<1>3. Listen \/ \E g \in Fetchers : FetcherRuns(g) \/ FetcherStops(g)
  BY DEF Next, Main, Signal, Serve, Select, Shutdown, Drained, TimeOut, AwaitServer,
     StopCleanup, AwaitCleanup, StopWorker, AwaitWorker, ClosePool, AwaitPool, ServerRuns,
     ServerFails, Request, HandlerQueries, HandlerAnswered, HandlerReturns, CleanupRuns,
     ClaimerRuns, ClaimerStops, tasks
<1>4. \E i, j \in 1..5 : i < j /\ fetcher[f] = o[i] /\ fetcher'[f] = o[j]
  <2>1. CASE Listen
    <3>1. fetcher[f] = "off" /\ fetcher'[f] = "idle"
      BY <2>1 DEF Listen, Inv, DeferredInOrder, FetchersIn
    <3> WITNESS 1 \in 1..5, 4 \in 1..5
    <3> QED BY <1>1, <3>1
  <2>2. ASSUME NEW g \in Fetchers, FetcherRuns(g) \/ FetcherStops(g)
        PROVE  \E i, j \in 1..5 : i < j /\ fetcher[f] = o[i] /\ fetcher'[f] = o[j]
    <3>1. fetcher \in [Fetchers -> {"off", "idle", "fetch", "query", "stopped"}]
      BY DEF Inv, TypeOK
    <3>2. g = f
      BY <2>2, <3>1 DEF FetcherRuns, FetcherStops
    <3>3. \/ fetcher[f] = "idle" /\ fetcher'[f] = "stopped"
          \/ fetcher[f] \in {"fetch", "query"} /\ fetcher'[f] = "idle"
      BY <2>2, <3>1, <3>2 DEF FetcherRuns, FetcherStops
    <3>4. CASE fetcher[f] = "idle" /\ fetcher'[f] = "stopped"
      <4> WITNESS 4 \in 1..5, 5 \in 1..5
      <4> QED BY <1>1, <3>4
    <3>5. CASE fetcher[f] = "query" /\ fetcher'[f] = "idle"
      <4> WITNESS 2 \in 1..5, 4 \in 1..5
      <4> QED BY <1>1, <3>5
    <3>6. CASE fetcher[f] = "fetch" /\ fetcher'[f] = "idle"
      <4> WITNESS 3 \in 1..5, 4 \in 1..5
      <4> QED BY <1>1, <3>6
    <3> QED BY <3>3, <3>4, <3>5, <3>6
  <2> QED BY <1>3, <2>1, <2>2
<1> QED BY <1>2, <1>4 DEF o

\* Neither a hung handler nor the order in which the goroutines run turns a shutdown
\* back: the contexts stay cancelled and each of their goroutines runs out of steps
\* (app.go:62-112).
THEOREM ShutdownGoesForward == Spec => GoesForward
<1> DEFINE Step ==
      /\ main' # main => Before(MainOrder, main, main')
      /\ CleanupCancelled => CleanupCancelled'
      /\ CleanupCancelled /\ cleanup' # cleanup => Before(CleanupOrder, cleanup, cleanup')
      /\ WorkerCancelled => WorkerCancelled'
      /\ WorkerCancelled => \A f \in Fetchers :
            fetcher'[f] # fetcher[f] => Before(FetcherOrder, fetcher[f], fetcher'[f])
      /\ WorkerCancelled /\ claimer' = "query" => claimer = "query"
      /\ claimer = "stopped" => claimer' = "stopped"
<1>1. ASSUME Inv, Next PROVE Step
  <2>1. main' # main => Main
    BY <1>1 DEF Next, Signal, ServerRuns, ServerFails, Request, HandlerQueries,
       HandlerAnswered, HandlerReturns, CleanupRuns, ClaimerRuns, ClaimerStops,
       FetcherRuns, FetcherStops
  <2>2. contexts' # contexts => Signal \/ StopCleanup \/ StopWorker
    BY <1>1 DEF Next, Main, Listen, Serve, Select, Shutdown, Drained, TimeOut,
       AwaitServer, AwaitCleanup, AwaitWorker, ClosePool, AwaitPool, ServerRuns,
       ServerFails, Request, HandlerQueries, HandlerAnswered, HandlerReturns,
       CleanupRuns, ClaimerRuns, ClaimerStops, FetcherRuns, FetcherStops
  <2>5. CleanupCancelled => CleanupCancelled'
    BY <2>2 DEF Signal, StopCleanup, StopWorker, CleanupCancelled, contexts
  <2>6. WorkerCancelled => WorkerCancelled'
    BY <2>2 DEF Signal, StopCleanup, StopWorker, WorkerCancelled, contexts
  <2>3. claimer' # claimer => Listen \/ ClaimerRuns \/ ClaimerStops
    BY <1>1 DEF Next, Main, Signal, Serve, Select, Shutdown, Drained, TimeOut,
       AwaitServer, StopCleanup, AwaitCleanup, StopWorker, AwaitWorker, ClosePool,
       AwaitPool, ServerRuns, ServerFails, Request, HandlerQueries, HandlerAnswered,
       HandlerReturns, CleanupRuns, FetcherRuns, FetcherStops, tasks
  <2>4. claimer' # claimer =>
            claimer # "stopped" /\ (WorkerCancelled => claimer' # "query")
    BY <1>1, <2>3 DEF Listen, ClaimerRuns, ClaimerStops, Inv, DeferredInOrder
  <2> QED BY <1>1, <2>1, <2>4, <2>5, <2>6, MainGoesOn, CleanupGoesOn, FetchersGoOn
<1>2. ASSUME Inv, [Next]_vars PROVE [Step]_vars
  BY <1>1, <1>2
<1>3. [][Step]_vars <=> GoesForward
  BY DEF GoesForward
<1> HIDE DEF Step
<1> QED BY <1>2, <1>3, Invariance, PTL DEF Spec
=============================================================================
