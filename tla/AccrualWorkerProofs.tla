------------------------ MODULE AccrualWorkerProofs ------------------------
(***************************************************************************)
(* Proofs about AccrualWorker.tla for every number of orders, instances    *)
(* and workers, every size of the channels, every lease and backoff.       *)
(***************************************************************************)
EXTENDS AccrualWorker, FiniteSetTheorems, TLAPS

\* What a worker holds, by where it is.
LEMMA WorkerHolds ==
    ASSUME TypeOK, NEW i \in Instances, NEW w \in Workers
    PROVE  /\ worker[i][w] \in WorkerStates
           /\ worker[i][w].pc # "idle" => worker[i][w].job \in Pending
           /\ worker[i][w].pc = "answered" => worker[i][w].got \in Answer
           /\ worker[i][w].pc = "save" => worker[i][w].got \in Update
<1>1. worker[i][w] \in WorkerStates
  BY DEF TypeOK
<1> QED BY <1>1 DEF WorkerStates

\* One worker of one instance moves on.
LEMMA WorkerMoves ==
    ASSUME TypeOK, NEW i \in Instances, NEW w \in Workers, NEW pc, NEW job, NEW got,
           [pc |-> pc, job |-> job, got |-> got] \in WorkerStates,
           WorkerGoes(i, w, pc, job, got)
    PROVE  /\ worker' \in [Instances -> [Workers -> WorkerStates]]
           /\ worker'[i][w] = [pc |-> pc, job |-> job, got |-> got]
           /\ \A j \in Instances, v \in Workers :
                 j # i \/ v # w => worker'[j][v] = worker[j][v]
BY DEF TypeOK, WorkerGoes

\* The delays are numbers, and so is what decide counts.
LEMMA DecisionType ==
    ASSUME NEW job \in Pending, NEW t \in Nat,
           NEW status \in ServiceStates \cup {"failed"}
    PROVE  Decision(job, status, t) \in Order
<1>1. /\ job.status \in Unfinished /\ job.attempts \in 0..MaxAttempts
      /\ job.backoff \in Backoffs
  BY DEF Pending
<1>2. \A a \in 0..MaxAttempts : NextAttempts(a) \in 0..MaxAttempts
  BY ConstantsAssumption DEF NextAttempts
<1>3. 0 \in 0..MaxAttempts
  BY ConstantsAssumption
<1>4. \A a \in 0..MaxAttempts : Short[a] \in Nat /\ Long[a] \in Nat
  BY ConstantsAssumption
<1>5. LongRetry(job, t) \in Order
  <2> DEFINE base == IF job.backoff = "long" THEN job.attempts ELSE 0
  <2>1. base \in 0..MaxAttempts
    BY <1>1, <1>3
  <2>2. t + Long[base] \in Nat /\ NextAttempts(base) \in 0..MaxAttempts
    BY <2>1, <1>2, <1>4
  <2> HIDE DEF base
  <2>3. [status |-> job.status, attempts |-> NextAttempts(base), backoff |-> "long",
         next |-> t + Long[base]] \in Order
    BY <1>1, <2>2 DEF Order, Backoffs
  <2> QED BY <2>3 DEF LongRetry, base
<1>6. ShortRetry(job, t) \in Order
  <2> DEFINE attempts == IF job.status = "PROCESSING" /\ job.backoff = "short"
                         THEN NextAttempts(job.attempts) ELSE 0
  <2>1. attempts \in 0..MaxAttempts
    BY <1>1, <1>2, <1>3
  <2>2. t + Short[attempts] \in Nat
    BY <2>1, <1>4
  <2> HIDE DEF attempts
  <2>3. [status |-> "PROCESSING", attempts |-> attempts, backoff |-> "short",
         next |-> t + Short[attempts]] \in Order
    BY <2>1, <2>2 DEF Order, Backoffs, Unfinished
  <2> QED BY <2>3 DEF ShortRetry, attempts
<1>7. CASE status \in {"failed", "unregistered"}
  BY <1>5, <1>7 DEF Decision, Final
<1>8. CASE status = "PROCESSING"
  BY <1>6, <1>8 DEF Decision, Final
<1>9. CASE status \in Final
  <2>1. [status |-> status, attempts |-> 0, backoff |-> job.backoff, next |-> t] \in Order
    BY <1>1, <1>3, <1>9 DEF Order
  <2>2. status \notin {"failed", "unregistered", "PROCESSING"}
    BY <1>9 DEF Final
  <2> QED BY <2>1, <2>2, <1>9 DEF Decision
<1> QED BY <1>7, <1>8, <1>9 DEF ServiceStates

LEMMA DeferralType ==
    ASSUME NEW job \in Pending, NEW until \in Nat
    PROVE  Deferral(job, until) \in Order
BY DEF Deferral, Pending, Order

\* Claims are made of unfinished orders and hide them for a lease.
LEMMA ClaimTypes ==
    ASSUME TypeOK, NEW i \in Instances, NEW S \in SUBSET Orders, \A o \in S : Due(o),
           ClaimOrders(i, S)
    PROVE  /\ orders' \in [Orders -> Order \cup {None}]
           /\ pushing' \in [Instances -> SUBSET Pending]
<1>1. now + Lease \in Nat
  BY ConstantsAssumption DEF TypeOK
<1>2. ASSUME NEW o \in S PROVE Leased(o) \in Order /\ PendingOf(o) \in Pending
  <2>1. orders[o] \in Order /\ orders[o].status \in Unfinished
    BY DEF TypeOK, Due
  <2> QED BY <2>1, <1>1 DEF Leased, PendingOf, Order, Pending
<1>3. orders' \in [Orders -> Order \cup {None}]
  BY <1>2 DEF ClaimOrders, TypeOK
<1>4. {PendingOf(o) : o \in S} \subseteq Pending
  BY <1>2
<1>5. pushing' \in [Instances -> SUBSET Pending]
  BY <1>4 DEF ClaimOrders, TypeOK
<1> QED BY <1>3, <1>5
-----------------------------------------------------------------------------
LEMMA TypeInit == Init => TypeOK
BY DEF Init, TypeOK, Idle, WorkerStates, ServiceStates

LEMMA TypeWorkerStep ==
    ASSUME TypeOK, NEW i \in Instances, NEW w \in Workers, WorkerStep(i, w)
    PROVE  TypeOK'
<1> DEFINE job == worker[i][w].job
           answer == worker[i][w].got
<1>1. CASE Receive(i, w)
  <2>1. jobs[i] \in Seq(Pending) /\ jobs[i] # <<>>
    BY <1>1 DEF Receive, TypeOK
  <2>2. Head(jobs[i]) \in Pending /\ Tail(jobs[i]) \in Seq(Pending)
    BY <2>1
  <2>3. [pc |-> "gate", job |-> Head(jobs[i]), got |-> None] \in WorkerStates
    BY <2>2 DEF WorkerStates
  <2>4. worker' \in [Instances -> [Workers -> WorkerStates]]
    BY <1>1, <2>3, WorkerMoves DEF Receive
  <2>5. jobs' \in [Instances -> Seq(Pending)]
    BY <1>1, <2>2 DEF Receive, TypeOK
  <2> QED BY <1>1, <2>4, <2>5 DEF Receive, TypeOK, history
<1>2. CASE PassGate(i, w)
  <2>1. job \in Pending
    BY <1>2, WorkerHolds DEF PassGate
  <2>2. pausedUntil[i] \in Nat
    BY DEF TypeOK
  <2>3. [pc |-> "send", job |-> job, got |-> None] \in WorkerStates
    BY <2>1 DEF WorkerStates
  <2>4. [pc |-> "save", job |-> job, got |-> Deferral(job, pausedUntil[i])] \in WorkerStates
    BY <2>1, <2>2, DeferralType DEF WorkerStates, Update
  <2> HIDE DEF job
  <2>5. \/ WorkerGoes(i, w, "send", job, None)
        \/ WorkerGoes(i, w, "save", job, Deferral(job, pausedUntil[i]))
    BY <1>2 DEF PassGate, job
  <2>6. worker' \in [Instances -> [Workers -> WorkerStates]]
    BY <2>3, <2>4, <2>5, WorkerMoves
  <2> QED BY <1>2, <2>6 DEF PassGate, TypeOK, history
<1>3. CASE Send(i, w)
  <2>1. job \in Pending
    BY <1>3, WorkerHolds DEF Send
  <2>2. [pc |-> "fetch", job |-> job, got |-> None] \in WorkerStates
    BY <2>1 DEF WorkerStates
  <2>3. worker' \in [Instances -> [Workers -> WorkerStates]]
    BY <1>3, <2>2, WorkerMoves DEF Send
  <2> QED BY <1>3, <2>3 DEF Send, TypeOK, history
<1>4. CASE GetAnswer(i, w)
  <2>1. job \in Pending /\ job.order \in Orders
    BY <1>4, WorkerHolds DEF GetAnswer, Pending
  <2>2. service[job.order] \in ServiceStates
    BY <2>1 DEF TypeOK
  <2> HIDE DEF job
  <2>3. ASSUME NEW status \in {service[job.order], "failed"}
        PROVE  [pc |-> "answered", job |-> job, got |-> [status |-> status, retryAfter |-> 0]]
                  \in WorkerStates
    BY <2>1, <2>2 DEF WorkerStates, Answer
  <2>4. ASSUME NEW r \in Retries
        PROVE  [pc |-> "answered", job |-> job,
                got |-> [status |-> "limited", retryAfter |-> r]] \in WorkerStates
    BY <2>1, ConstantsAssumption DEF WorkerStates, Answer
  <2>5. \/ \E status \in {service[job.order], "failed"} :
              WorkerGoes(i, w, "answered", job, [status |-> status, retryAfter |-> 0])
        \/ \E r \in Retries :
              WorkerGoes(i, w, "answered", job, [status |-> "limited", retryAfter |-> r])
    BY <1>4 DEF GetAnswer, job
  <2>6. worker' \in [Instances -> [Workers -> WorkerStates]]
    BY <2>3, <2>4, <2>5, WorkerMoves
  <2> QED BY <1>4, <2>6 DEF GetAnswer, TypeOK, history
<1>5. CASE HandleAnswer(i, w)
  <2> DEFINE until == ExtendedPause(i, answer.retryAfter)
  <2>1. /\ job \in Pending
        /\ answer.status \in ServiceStates \cup {"failed", "limited"}
        /\ answer.retryAfter \in Nat
    BY <1>5, WorkerHolds DEF HandleAnswer, Answer
  <2>2. now \in Nat /\ quietUntil \in Nat /\ pausedUntil[i] \in Nat
    BY DEF TypeOK
  <2>3. until \in Nat /\ Later(quietUntil, now + answer.retryAfter) \in Nat
    BY <2>1, <2>2 DEF ExtendedPause, Later
  <2>4. [pc |-> "save", job |-> job, got |-> Deferral(job, until)] \in WorkerStates
    BY <2>1, <2>3, DeferralType DEF WorkerStates, Update
  <2>5. answer.status # "limited" =>
           [pc |-> "save", job |-> job, got |-> Decision(job, answer.status, now)]
               \in WorkerStates
    <3>1. ASSUME answer.status # "limited" PROVE Decision(job, answer.status, now) \in Order
      BY <2>1, <2>2, <3>1, DecisionType
    <3> QED BY <2>1, <3>1 DEF WorkerStates, Update
  <2>6. CASE answer.status = "limited"
    <3>1. WorkerGoes(i, w, "save", job, Deferral(job, until))
      BY <1>5, <2>6 DEF HandleAnswer
    <3>2. pausedUntil' = [pausedUntil EXCEPT ![i] = until]
          /\ quietUntil' = Later(quietUntil, now + answer.retryAfter)
      BY <1>5, <2>6 DEF HandleAnswer
    <3> HIDE DEF job, answer, until
    <3>3. worker' \in [Instances -> [Workers -> WorkerStates]]
      BY <2>4, <3>1, WorkerMoves
    <3>4. pausedUntil' \in [Instances -> Nat] /\ quietUntil' \in Nat
      BY <2>3, <3>2 DEF TypeOK
    <3> QED BY <1>5, <3>3, <3>4 DEF HandleAnswer, TypeOK
  <2>7. CASE answer.status # "limited"
    <3>1. WorkerGoes(i, w, "save", job, Decision(job, answer.status, now))
      BY <1>5, <2>7 DEF HandleAnswer
    <3>2. UNCHANGED <<pausedUntil, quietUntil>>
      BY <1>5, <2>7 DEF HandleAnswer
    <3> HIDE DEF job, answer
    <3>3. worker' \in [Instances -> [Workers -> WorkerStates]]
      BY <2>5, <2>7, <3>1, WorkerMoves
    <3> QED BY <1>5, <3>2, <3>3 DEF HandleAnswer, TypeOK
  <2> QED BY <2>6, <2>7
<1>6. CASE Save(i, w)
  <2>1. job \in Pending /\ answer \in Order /\ job.order \in Orders
    BY <1>6, WorkerHolds DEF Save, Update, Pending
  <2>2. orders' = [orders EXCEPT ![job.order] = answer] \/ UNCHANGED orders
    BY <1>6 DEF Save
  <2>3. orders' \in [Orders -> Order \cup {None}]
    <3> HIDE DEF job, answer
    <3> QED BY <2>1, <2>2 DEF TypeOK
  <2>4. [pc |-> "idle", job |-> None, got |-> None] \in WorkerStates
    BY DEF WorkerStates
  <2>5. worker' \in [Instances -> [Workers -> WorkerStates]]
    BY <1>6, <2>4, WorkerMoves DEF Save
  <2> QED BY <1>6, <2>3, <2>5 DEF Save, TypeOK, history
<1> QED BY <1>1, <1>2, <1>3, <1>4, <1>5, <1>6 DEF WorkerStep

LEMMA TypeNext == TypeOK /\ [Next]_vars => TypeOK'
<1> SUFFICES ASSUME TypeOK, [Next]_vars PROVE TypeOK'
  OBVIOUS
<1>1. CASE Tick
  <2>1. now + 1 \in Nat
    BY DEF TypeOK
  <2> QED BY <1>1, <2>1 DEF Tick, TypeOK, memory
<1>2. ASSUME NEW o \in Orders, ServiceAdvances(o) PROVE TypeOK'
  <2>1. service' \in [Orders -> ServiceStates]
    BY <1>2 DEF ServiceAdvances, TypeOK, ServiceStates, Final
  <2> QED BY <1>2, <2>1 DEF ServiceAdvances, TypeOK, memory, history
<1>3. ASSUME NEW i \in Instances, NEW o \in Orders, Upload(i, o) PROVE TypeOK'
  <2>1. [status |-> "NEW", attempts |-> 0, backoff |-> "long", next |-> now] \in Order
    BY ConstantsAssumption DEF TypeOK, Order, Unfinished, Backoffs
  <2>2. orders' \in [Orders -> Order \cup {None}]
    BY <1>3, <2>1 DEF Upload, TypeOK
  <2>3. notify' \in [Instances -> SUBSET Orders]
    <3>1. notify' = [notify EXCEPT ![i] = notify[i] \cup {o}] \/ notify' = notify
      BY <1>3 DEF Upload
    <3>2. notify \in [Instances -> SUBSET Orders]
      BY DEF TypeOK
    <3>3. notify[i] \cup {o} \in SUBSET Orders
      BY <3>2
    <3> QED BY <3>1, <3>2, <3>3
  <2> QED BY <1>3, <2>2, <2>3 DEF Upload, TypeOK, history
<1>4. ASSUME NEW i \in Instances, NEW o \in Orders, ClaimNotified(i, o) PROVE TypeOK'
  <2>1. notify' \in [Instances -> SUBSET Orders]
    BY <1>4 DEF ClaimNotified, TypeOK
  <2>2. CASE Due(o) /\ ClaimOrders(i, {o})
    <3>1. {o} \in SUBSET Orders /\ \A p \in {o} : Due(p)
      BY <2>2
    <3>2. orders' \in [Orders -> Order \cup {None}] /\ pushing' \in [Instances -> SUBSET Pending]
      BY <2>2, <3>1, ClaimTypes
    <3> QED BY <1>4, <2>1, <3>2 DEF ClaimNotified, TypeOK, history
  <2>3. CASE UNCHANGED <<orders, pushing>>
    BY <1>4, <2>1, <2>3 DEF ClaimNotified, TypeOK, history
  <2> QED BY <1>4, <2>2, <2>3 DEF ClaimNotified
<1>5. ASSUME NEW i \in Instances, ClaimDue(i) PROVE TypeOK'
  <2>1. PICK S \in SUBSET Orders : Selectable(S, FreeSlots(i)) /\ ClaimOrders(i, S)
    BY <1>5 DEF ClaimDue
  <2>2. \A o \in S : Due(o)
    BY <2>1 DEF Selectable
  <2>3. orders' \in [Orders -> Order \cup {None}] /\ pushing' \in [Instances -> SUBSET Pending]
    BY <2>1, <2>2, ClaimTypes
  <2> QED BY <1>5, <2>3 DEF ClaimDue, TypeOK, history
<1>6. ASSUME NEW i \in Instances, Push(i) PROVE TypeOK'
  <2>1. PICK p \in pushing[i] : /\ pushing' = [pushing EXCEPT ![i] = pushing[i] \ {p}]
                                /\ jobs' = [jobs EXCEPT ![i] = Append(jobs[i], p)]
    BY <1>6 DEF Push
  <2>2. p \in Pending /\ jobs[i] \in Seq(Pending)
    BY DEF TypeOK
  <2>3. Append(jobs[i], p) \in Seq(Pending)
    BY <2>2
  <2>4. jobs' \in [Instances -> Seq(Pending)] /\ pushing' \in [Instances -> SUBSET Pending]
    BY <2>1, <2>3 DEF TypeOK
  <2> QED BY <1>6, <2>4 DEF Push, TypeOK, history
<1>7. ASSUME NEW i \in Instances, Restart(i) PROVE TypeOK'
  <2>1. <<>> \in Seq(Pending)
    OBVIOUS
  <2>2. Idle \in WorkerStates
    BY DEF Idle, WorkerStates
  <2>3. worker' \in [Instances -> [Workers -> WorkerStates]]
    BY <1>7, <2>2 DEF Restart, TypeOK
  <2>4. /\ jobs' \in [Instances -> Seq(Pending)]
        /\ pushing' \in [Instances -> SUBSET Pending]
        /\ notify' \in [Instances -> SUBSET Orders]
        /\ pausedUntil' \in [Instances -> Nat]
        /\ crashes' \in [Instances -> Nat]
    BY <1>7, <2>1 DEF Restart, TypeOK
  <2> QED BY <1>7, <2>3, <2>4 DEF Restart, TypeOK, history
<1>8. CASE UNCHANGED vars
  BY <1>8 DEF vars, TypeOK
<1> QED BY <1>1, <1>2, <1>3, <1>4, <1>5, <1>6, <1>7, <1>8, TypeWorkerStep DEF Next

\* The tables, the channels and what the workers hold have their types in every
\* reachable state, the attempts never exceed their cap.
THEOREM TypeCorrect == Spec => []TypeOK
BY TypeInit, TypeNext, PTL DEF Spec
-----------------------------------------------------------------------------
\* Most steps leave the pauses alone, HandleAnswer prolongs one.
LEMMA PauseStep ==
    ASSUME TypeOK, [Next]_vars, NEW i \in Instances, crashes'[i] = crashes[i]
    PROVE  ~(pausedUntil'[i] < pausedUntil[i])
<1>0. now \in Nat /\ pausedUntil \in [Instances -> Nat] /\ crashes \in [Instances -> Nat]
  BY DEF TypeOK
<1>1. ASSUME NEW j \in Instances, NEW w \in Workers, HandleAnswer(j, w)
      PROVE  ~(pausedUntil'[i] < pausedUntil[i])
  <2> DEFINE answer == worker[j][w].got
  <2>1. answer.retryAfter \in Nat
    BY <1>1, WorkerHolds DEF HandleAnswer, Answer
  <2>2. \/ pausedUntil' = [pausedUntil EXCEPT ![j] = ExtendedPause(j, answer.retryAfter)]
        \/ UNCHANGED pausedUntil
    BY <1>1 DEF HandleAnswer
  <2>3. ExtendedPause(j, answer.retryAfter) \in Nat
        /\ ExtendedPause(j, answer.retryAfter) >= pausedUntil[j]
    BY <1>0, <2>1 DEF ExtendedPause, Later
  <2> QED BY <1>0, <2>2, <2>3
<1>2. ASSUME NEW j \in Instances, Restart(j) PROVE ~(pausedUntil'[i] < pausedUntil[i])
  <2>1. j # i
    BY <1>0, <1>2 DEF Restart
  <2> QED BY <1>0, <1>2, <2>1 DEF Restart
<1>3. CASE UNCHANGED pausedUntil
  BY <1>0, <1>3
<1>4. ASSUME NEW j \in Instances, NEW w \in Workers, WorkerStep(j, w), ~HandleAnswer(j, w)
      PROVE  UNCHANGED pausedUntil
  BY <1>4 DEF WorkerStep, Receive, PassGate, Send, GetAnswer, Save
<1>5. ASSUME Next, \A j \in Instances : ~Restart(j) /\ \A w \in Workers : ~WorkerStep(j, w)
      PROVE  UNCHANGED pausedUntil
  BY <1>5 DEF Next, Tick, ServiceAdvances, Upload, ClaimNotified, ClaimDue, Push, memory
<1> QED BY <1>1, <1>2, <1>3, <1>4, <1>5 DEF vars

\* Nothing but a restart of the instance cuts a pause short, whatever 429s its
\* workers get in whatever order.
THEOREM PauseNeverCutShort == Spec => PauseNeverShrinks
<1>1. TypeOK /\ [Next]_vars =>
         [\A i \in Instances :
             pausedUntil'[i] < pausedUntil[i] => crashes'[i] # crashes[i]]_vars
  BY PauseStep
<1> QED BY <1>1, TypeCorrect, PTL DEF Spec, PauseNeverShrinks
-----------------------------------------------------------------------------
\* At time n, t is no further away than the longest delay.
Within(n, t) == \E d \in Delays : t <= n + d

LEMMA DelaysAreNumbers == Delays \subseteq Nat
BY ConstantsAssumption DEF Delays

LEMMA WithinLater ==
    ASSUME NEW n \in Nat, NEW m \in Nat, NEW t \in Nat, n <= m, Within(n, t)
    PROVE  Within(m, t)
<1>1. PICK d \in Delays : t <= n + d
  BY DEF Within
<1>2. d \in Nat
  BY DelaysAreNumbers
<1>3. t <= m + d
  BY <1>1, <1>2
<1> QED BY <1>3 DEF Within

LEMMA WithinDelay ==
    ASSUME NEW n \in Nat, NEW d \in Delays
    PROVE  Within(n, n + d)
<1>1. n + d <= n + d
  BY DelaysAreNumbers
<1> QED BY <1>1 DEF Within

\* Whoever is to be asked again is asked after a delay of its backoff.
LEMMA DecisionWithin ==
    ASSUME NEW job \in Pending, NEW t \in Nat,
           NEW status \in ServiceStates \cup {"failed"},
           Decision(job, status, t).status \in Unfinished
    PROVE  Within(t, Decision(job, status, t).next)
<1>1. job.attempts \in 0..MaxAttempts /\ 0 \in 0..MaxAttempts
  BY ConstantsAssumption DEF Pending
<1>2. \A a \in 0..MaxAttempts : NextAttempts(a) \in 0..MaxAttempts
  BY ConstantsAssumption DEF NextAttempts
<1>3. \A a \in 0..MaxAttempts : Within(t, t + Long[a]) /\ Within(t, t + Short[a])
  BY WithinDelay DEF Delays
<1>4. CASE status \in {"failed", "unregistered"}
  <2>1. Decision(job, status, t) = LongRetry(job, t)
    BY <1>4 DEF Decision, Final
  <2>2. \E a \in 0..MaxAttempts : LongRetry(job, t).next = t + Long[a]
    BY <1>1 DEF LongRetry
  <2> QED BY <2>1, <2>2, <1>3
<1>5. CASE status = "PROCESSING"
  <2>1. Decision(job, status, t) = ShortRetry(job, t)
    BY <1>5 DEF Decision, Final
  <2>2. \E a \in 0..MaxAttempts : ShortRetry(job, t).next = t + Short[a]
    BY <1>1, <1>2 DEF ShortRetry
  <2> QED BY <2>1, <2>2, <1>3
<1>6. CASE status \in Final
  BY <1>6 DEF Decision, Final, Unfinished
<1> QED BY <1>4, <1>5, <1>6 DEF ServiceStates
-----------------------------------------------------------------------------
\* What keeps every unfinished order in the schedule: not only the table, also
\* the pauses and what the workers are about to save are near.
Scheduled ==
    /\ NeverForgotten
    /\ \A i \in Instances : \E d \in Delays : pausedUntil[i] <= now + d
    /\ \A i \in Instances, w \in Workers :
          /\ worker[i][w].pc = "answered" /\ worker[i][w].got.status = "limited" =>
                worker[i][w].got.retryAfter \in Retries
          /\ worker[i][w].pc = "save" /\ worker[i][w].got.status \in Unfinished =>
                \E d \in Delays : worker[i][w].got.next <= now + d

\* The three parts at the state given, to carry them over a step.
RowNear(n, row) == row # None /\ row.status \in Unfinished => Within(n, row.next)
WorkerNear(n, wk) ==
    /\ wk.pc = "answered" /\ wk.got.status = "limited" => wk.got.retryAfter \in Retries
    /\ wk.pc = "save" /\ wk.got.status \in Unfinished => Within(n, wk.got.next)

LEMMA ScheduledParts ==
    Scheduled <=> /\ \A o \in Orders : RowNear(now, orders[o])
                  /\ \A i \in Instances : Within(now, pausedUntil[i])
                  /\ \A i \in Instances, w \in Workers : WorkerNear(now, worker[i][w])
BY DEF Scheduled, NeverForgotten, RowNear, WorkerNear, Within

LEMMA ScheduledNext ==
    ASSUME \A o \in Orders : RowNear(now', orders'[o]),
           \A i \in Instances : Within(now', pausedUntil'[i]),
           \A i \in Instances, w \in Workers : WorkerNear(now', worker'[i][w])
    PROVE  Scheduled'
BY DEF Scheduled, NeverForgotten, RowNear, WorkerNear, Within

LEMMA ScheduledInit == Init => Scheduled
<1> SUFFICES ASSUME Init PROVE Scheduled
  OBVIOUS
<1>1. Within(0, 0)
  <2>1. Lease \in Delays /\ Lease \in Nat
    BY ConstantsAssumption DEF Delays
  <2>2. 0 <= 0 + Lease
    BY <2>1
  <2> QED BY <2>1, <2>2 DEF Within
<1>2. \A o \in Orders : RowNear(now, orders[o])
  BY DEF Init, RowNear
<1>3. \A i \in Instances : Within(now, pausedUntil[i])
  BY <1>1 DEF Init
<1>4. \A i \in Instances, w \in Workers : WorkerNear(now, worker[i][w])
  BY DEF Init, Idle, WorkerNear
<1> QED BY <1>2, <1>3, <1>4, ScheduledParts

\* A worker moves on with something near; the clock, the table and the pauses stay.
LEMMA WorkerMovesNear ==
    ASSUME TypeOK, Scheduled, NEW i \in Instances, NEW w \in Workers,
           NEW pc, NEW job, NEW got,
           [pc |-> pc, job |-> job, got |-> got] \in WorkerStates,
           WorkerGoes(i, w, pc, job, got),
           WorkerNear(now, [pc |-> pc, job |-> job, got |-> got])
    PROVE  \A j \in Instances, v \in Workers : WorkerNear(now, worker'[j][v])
<1>1. ASSUME NEW j \in Instances, NEW v \in Workers PROVE WorkerNear(now, worker'[j][v])
  <2>1. WorkerNear(now, worker[j][v])
    BY ScheduledParts
  <2>2. worker'[j][v] = worker[j][v]
        \/ worker'[j][v] = [pc |-> pc, job |-> job, got |-> got]
    BY WorkerMoves
  <2> QED BY <2>1, <2>2
<1> QED BY <1>1

LEMMA ScheduledWorkerStep ==
    ASSUME TypeOK, Scheduled, NEW i \in Instances, NEW w \in Workers, WorkerStep(i, w)
    PROVE  Scheduled'
<1> DEFINE job == worker[i][w].job
           answer == worker[i][w].got
<1>0. /\ \A o \in Orders : RowNear(now, orders[o])
      /\ \A j \in Instances : Within(now, pausedUntil[j])
      /\ \A j \in Instances, v \in Workers : WorkerNear(now, worker[j][v])
      /\ now \in Nat
  BY ScheduledParts DEF TypeOK
<1>1. CASE Receive(i, w)
  <2>1. jobs[i] \in Seq(Pending) /\ jobs[i] # <<>>
    BY <1>1 DEF Receive, TypeOK
  <2>2. Head(jobs[i]) \in Pending
    BY <2>1
  <2>3. [pc |-> "gate", job |-> Head(jobs[i]), got |-> None] \in WorkerStates
    BY <2>2 DEF WorkerStates
  <2>4. WorkerNear(now, [pc |-> "gate", job |-> Head(jobs[i]), got |-> None])
    BY DEF WorkerNear
  <2>5. UNCHANGED <<now, orders, pausedUntil>> /\ WorkerGoes(i, w, "gate", Head(jobs[i]), None)
    BY <1>1 DEF Receive
  <2>6. \A j \in Instances, v \in Workers : WorkerNear(now, worker'[j][v])
    BY <2>3, <2>4, <2>5, WorkerMovesNear
  <2> QED BY <1>0, <2>5, <2>6, ScheduledNext
<1>2. CASE PassGate(i, w)
  <2>1. job \in Pending /\ pausedUntil[i] \in Nat
    BY <1>2, WorkerHolds DEF PassGate, TypeOK
  <2>2. UNCHANGED <<now, orders, pausedUntil>>
    BY <1>2 DEF PassGate
  <2>3. \/ WorkerGoes(i, w, "send", job, None)
        \/ WorkerGoes(i, w, "save", job, Deferral(job, pausedUntil[i]))
    BY <1>2 DEF PassGate
  <2> HIDE DEF job
  <2>4. /\ [pc |-> "send", job |-> job, got |-> None] \in WorkerStates
        /\ [pc |-> "save", job |-> job, got |-> Deferral(job, pausedUntil[i])] \in WorkerStates
    BY <2>1, DeferralType DEF WorkerStates, Update
  <2>5. /\ WorkerNear(now, [pc |-> "send", job |-> job, got |-> None])
        /\ WorkerNear(now, [pc |-> "save", job |-> job, got |-> Deferral(job, pausedUntil[i])])
    BY <1>0 DEF WorkerNear, Deferral
  <2>6. \A j \in Instances, v \in Workers : WorkerNear(now, worker'[j][v])
    BY <2>3, <2>4, <2>5, WorkerMovesNear
  <2> QED BY <1>0, <2>2, <2>6, ScheduledNext
<1>3. CASE Send(i, w)
  <2>1. job \in Pending
    BY <1>3, WorkerHolds DEF Send
  <2>2. UNCHANGED <<now, orders, pausedUntil>> /\ WorkerGoes(i, w, "fetch", job, None)
    BY <1>3 DEF Send
  <2> HIDE DEF job
  <2>3. [pc |-> "fetch", job |-> job, got |-> None] \in WorkerStates
    BY <2>1 DEF WorkerStates
  <2>4. WorkerNear(now, [pc |-> "fetch", job |-> job, got |-> None])
    BY DEF WorkerNear
  <2>5. \A j \in Instances, v \in Workers : WorkerNear(now, worker'[j][v])
    BY <2>2, <2>3, <2>4, WorkerMovesNear
  <2> QED BY <1>0, <2>2, <2>5, ScheduledNext
<1>4. CASE GetAnswer(i, w)
  <2>1. job \in Pending /\ job.order \in Orders
    BY <1>4, WorkerHolds DEF GetAnswer, Pending
  <2>2. service[job.order] \in ServiceStates
    BY <2>1 DEF TypeOK
  <2>3. UNCHANGED <<now, orders, pausedUntil>>
    BY <1>4 DEF GetAnswer
  <2>4. \/ \E status \in {service[job.order], "failed"} :
              WorkerGoes(i, w, "answered", job, [status |-> status, retryAfter |-> 0])
        \/ \E r \in Retries :
              WorkerGoes(i, w, "answered", job, [status |-> "limited", retryAfter |-> r])
    BY <1>4 DEF GetAnswer
  <2> HIDE DEF job
  <2>5. ASSUME NEW got \in Answer, got.status = "limited" => got.retryAfter \in Retries,
               WorkerGoes(i, w, "answered", job, got)
        PROVE  \A j \in Instances, v \in Workers : WorkerNear(now, worker'[j][v])
    <3>1. [pc |-> "answered", job |-> job, got |-> got] \in WorkerStates
      BY <2>1 DEF WorkerStates
    <3>2. WorkerNear(now, [pc |-> "answered", job |-> job, got |-> got])
      BY <2>5 DEF WorkerNear
    <3> QED BY <2>5, <3>1, <3>2, WorkerMovesNear
  <2>6. ASSUME \E status \in {service[job.order], "failed"} :
              WorkerGoes(i, w, "answered", job, [status |-> status, retryAfter |-> 0])
        PROVE  \A j \in Instances, v \in Workers : WorkerNear(now, worker'[j][v])
    <3>1. PICK status \in {service[job.order], "failed"} :
              WorkerGoes(i, w, "answered", job, [status |-> status, retryAfter |-> 0])
      BY <2>6
    <3>2. status \in ServiceStates \cup {"failed"} /\ status # "limited"
      BY <2>2 DEF ServiceStates, Final
    <3>3. [status |-> status, retryAfter |-> 0] \in Answer
      BY <3>2 DEF Answer
    <3>4. [status |-> status, retryAfter |-> 0].status # "limited"
      BY <3>2
    <3> QED BY <2>5, <3>1, <3>3, <3>4
  <2>7. ASSUME \E r \in Retries :
              WorkerGoes(i, w, "answered", job, [status |-> "limited", retryAfter |-> r])
        PROVE  \A j \in Instances, v \in Workers : WorkerNear(now, worker'[j][v])
    <3>1. PICK r \in Retries :
              WorkerGoes(i, w, "answered", job, [status |-> "limited", retryAfter |-> r])
      BY <2>7
    <3>2. [status |-> "limited", retryAfter |-> r] \in Answer
      BY ConstantsAssumption DEF Answer
    <3> QED BY <2>5, <3>1, <3>2
  <2>8. \A j \in Instances, v \in Workers : WorkerNear(now, worker'[j][v])
    BY <2>4, <2>6, <2>7
  <2> QED BY <1>0, <2>3, <2>8, ScheduledNext
<1>5. CASE HandleAnswer(i, w)
  <2> DEFINE until == ExtendedPause(i, answer.retryAfter)
  <2>1. /\ job \in Pending
        /\ answer.status \in ServiceStates \cup {"failed", "limited"}
        /\ answer.retryAfter \in Nat
        /\ pausedUntil \in [Instances -> Nat]
    BY <1>5, WorkerHolds DEF HandleAnswer, Answer, TypeOK
  <2>2. UNCHANGED <<now, orders>>
    BY <1>5 DEF HandleAnswer
  <2>3. CASE answer.status = "limited"
    <3>1. answer.retryAfter \in Retries
      BY <1>0, <1>5, <2>3 DEF HandleAnswer, WorkerNear
    <3>2. Within(now, now + answer.retryAfter)
      BY <1>0, <3>1, WithinDelay DEF Delays
    <3>3. until \in Nat /\ Within(now, until)
      BY <1>0, <2>1, <3>2 DEF ExtendedPause, Later
    <3>4. /\ pausedUntil' = [pausedUntil EXCEPT ![i] = until]
          /\ WorkerGoes(i, w, "save", job, Deferral(job, until))
      BY <1>5, <2>3 DEF HandleAnswer
    <3> HIDE DEF job, answer, until
    <3>5. \A j \in Instances : Within(now, pausedUntil'[j])
      BY <1>0, <2>1, <3>3, <3>4
    <3>6. [pc |-> "save", job |-> job, got |-> Deferral(job, until)] \in WorkerStates
      BY <2>1, <3>3, DeferralType DEF WorkerStates, Update
    <3>7. WorkerNear(now, [pc |-> "save", job |-> job, got |-> Deferral(job, until)])
      BY <3>3 DEF WorkerNear, Deferral
    <3>8. \A j \in Instances, v \in Workers : WorkerNear(now, worker'[j][v])
      BY <3>4, <3>6, <3>7, WorkerMovesNear
    <3> QED BY <1>0, <2>2, <3>5, <3>8, ScheduledNext
  <2>4. CASE answer.status # "limited"
    <3>1. UNCHANGED pausedUntil /\ WorkerGoes(i, w, "save", job, Decision(job, answer.status, now))
      BY <1>5, <2>4 DEF HandleAnswer
    <3>2. answer.status \in ServiceStates \cup {"failed"}
      BY <2>1, <2>4
    <3> HIDE DEF job, answer
    <3>3. Decision(job, answer.status, now) \in Order
      BY <1>0, <2>1, <3>2, DecisionType
    <3>4. [pc |-> "save", job |-> job, got |-> Decision(job, answer.status, now)] \in WorkerStates
      BY <2>1, <3>3 DEF WorkerStates, Update
    <3>5. Decision(job, answer.status, now).status \in Unfinished =>
             Within(now, Decision(job, answer.status, now).next)
      BY <1>0, <2>1, <3>2, DecisionWithin
    <3>6. WorkerNear(now, [pc |-> "save", job |-> job, got |-> Decision(job, answer.status, now)])
      BY <3>5 DEF WorkerNear
    <3>7. \A j \in Instances, v \in Workers : WorkerNear(now, worker'[j][v])
      BY <3>1, <3>4, <3>6, WorkerMovesNear
    <3> QED BY <1>0, <2>2, <3>1, <3>7, ScheduledNext
  <2> QED BY <2>3, <2>4
<1>6. CASE Save(i, w)
  <2>1. job \in Pending /\ job.order \in Orders
    BY <1>6, WorkerHolds DEF Save, Pending
  <2>2. orders' = [orders EXCEPT ![job.order] = answer] \/ UNCHANGED orders
    BY <1>6 DEF Save
  <2>3. UNCHANGED <<now, pausedUntil>> /\ WorkerGoes(i, w, "idle", None, None)
    BY <1>6 DEF Save
  <2>4. RowNear(now, answer)
    BY <1>0, <1>6 DEF Save, WorkerNear, RowNear
  <2>5. orders \in [Orders -> Order \cup {None}]
    BY DEF TypeOK
  <2> HIDE DEF job, answer
  <2>6. \A o \in Orders : RowNear(now, orders'[o])
    BY <1>0, <2>1, <2>2, <2>4, <2>5
  <2>7. /\ [pc |-> "idle", job |-> None, got |-> None] \in WorkerStates
        /\ WorkerNear(now, [pc |-> "idle", job |-> None, got |-> None])
    BY DEF WorkerStates, WorkerNear
  <2>8. \A j \in Instances, v \in Workers : WorkerNear(now, worker'[j][v])
    BY <2>3, <2>7, WorkerMovesNear
  <2> QED BY <1>0, <2>3, <2>6, <2>8, ScheduledNext
<1> QED BY <1>1, <1>2, <1>3, <1>4, <1>5, <1>6 DEF WorkerStep

\* A claim puts an order off by a lease.
LEMMA ClaimedNear ==
    ASSUME TypeOK, Scheduled, NEW i \in Instances, NEW S \in SUBSET Orders,
           \A o \in S : Due(o), ClaimOrders(i, S)
    PROVE  \A o \in Orders : RowNear(now, orders'[o])
<1>1. ASSUME NEW o \in Orders PROVE RowNear(now, orders'[o])
  <2>1. CASE o \notin S
    <3>1. orders'[o] = orders[o]
      BY <2>1 DEF ClaimOrders
    <3> QED BY <3>1, ScheduledParts
  <2>2. CASE o \in S
    <3>1. orders'[o] = Leased(o)
      BY <2>2 DEF ClaimOrders
    <3>2. Within(now, now + Lease)
      BY WithinDelay DEF Delays, TypeOK
    <3>3. orders[o] \in Order
      BY <2>2 DEF TypeOK, Due
    <3>4. Leased(o).next = now + Lease
      BY <3>3 DEF Leased, Order
    <3> QED BY <3>1, <3>2, <3>4 DEF RowNear
  <2> QED BY <2>1, <2>2
<1> QED BY <1>1

LEMMA ScheduledStep == TypeOK /\ Scheduled /\ [Next]_vars => Scheduled'
<1> SUFFICES ASSUME TypeOK, Scheduled, [Next]_vars PROVE Scheduled'
  OBVIOUS
<1>0. /\ \A o \in Orders : RowNear(now, orders[o])
      /\ \A j \in Instances : Within(now, pausedUntil[j])
      /\ \A j \in Instances, v \in Workers : WorkerNear(now, worker[j][v])
      /\ now \in Nat
  BY ScheduledParts DEF TypeOK
<1>1. CASE Tick
  <2>1. now' = now + 1 /\ now' \in Nat /\ now <= now' /\ UNCHANGED <<orders, pausedUntil, worker>>
    BY <1>0, <1>1 DEF Tick, memory
  <2>2. ASSUME NEW o \in Orders PROVE RowNear(now', orders'[o])
    <3>1. RowNear(now, orders[o]) /\ orders[o] \in Order \cup {None}
      BY <1>0 DEF TypeOK
    <3>2. CASE orders[o] # None /\ orders[o].status \in Unfinished
      <4>1. orders[o].next \in Nat /\ Within(now, orders[o].next)
        BY <3>1, <3>2 DEF Order, RowNear
      <4>2. Within(now', orders[o].next)
        BY <1>0, <2>1, <4>1, WithinLater
      <4> QED BY <2>1, <4>2 DEF RowNear
    <3> QED BY <2>1, <3>2 DEF RowNear
  <2>3. ASSUME NEW j \in Instances PROVE Within(now', pausedUntil'[j])
    <3>1. pausedUntil[j] \in Nat /\ Within(now, pausedUntil[j])
      BY <1>0 DEF TypeOK
    <3> QED BY <1>0, <2>1, <3>1, WithinLater
  <2>4. ASSUME NEW j \in Instances, NEW v \in Workers PROVE WorkerNear(now', worker'[j][v])
    <3>1. WorkerNear(now, worker[j][v])
      BY <1>0
    <3>2. CASE worker[j][v].pc = "save" /\ worker[j][v].got.status \in Unfinished
      <4>1. worker[j][v].got.next \in Nat /\ Within(now, worker[j][v].got.next)
        BY <3>1, <3>2, WorkerHolds DEF Update, Order, WorkerNear
      <4>2. Within(now', worker[j][v].got.next)
        BY <1>0, <2>1, <4>1, WithinLater
      <4> QED BY <2>1, <3>1, <4>2 DEF WorkerNear
    <3> QED BY <2>1, <3>1, <3>2 DEF WorkerNear
  <2> QED BY <2>2, <2>3, <2>4, ScheduledNext
<1>2. ASSUME NEW o \in Orders, ServiceAdvances(o) PROVE Scheduled'
  BY <1>0, <1>2, ScheduledNext DEF ServiceAdvances, memory
<1>3. ASSUME NEW i \in Instances, NEW o \in Orders, Upload(i, o) PROVE Scheduled'
  <2>1. UNCHANGED <<now, pausedUntil, worker>>
    BY <1>3 DEF Upload
  <2>2. Within(now, now)
    <3>1. Lease \in Delays /\ Lease \in Nat
      BY ConstantsAssumption DEF Delays
    <3>2. now <= now + Lease
      BY <1>0, <3>1
    <3> QED BY <3>1, <3>2 DEF Within
  <2>3. \A p \in Orders : RowNear(now, orders'[p])
    <3>1. orders' = [orders EXCEPT ![o] =
                       [status |-> "NEW", attempts |-> 0, backoff |-> "long", next |-> now]]
      BY <1>3 DEF Upload
    <3>2. RowNear(now, [status |-> "NEW", attempts |-> 0, backoff |-> "long", next |-> now])
      BY <2>2 DEF RowNear
    <3>3. orders \in [Orders -> Order \cup {None}]
      BY DEF TypeOK
    <3> QED BY <1>0, <3>1, <3>2, <3>3
  <2> QED BY <1>0, <2>1, <2>3, ScheduledNext
<1>4. ASSUME NEW i \in Instances, NEW o \in Orders, ClaimNotified(i, o) PROVE Scheduled'
  <2>1. /\ UNCHANGED <<now, pausedUntil, worker>>
        /\ (Due(o) /\ ClaimOrders(i, {o})) \/ UNCHANGED orders
    BY <1>4 DEF ClaimNotified
  <2>2. Due(o) => \A p \in {o} : Due(p)
    OBVIOUS
  <2>3. \A p \in Orders : RowNear(now, orders'[p])
    BY <1>0, <2>1, <2>2, ClaimedNear
  <2> QED BY <1>0, <2>1, <2>3, ScheduledNext
<1>5. ASSUME NEW i \in Instances, ClaimDue(i) PROVE Scheduled'
  <2>1. PICK S \in SUBSET Orders : Selectable(S, FreeSlots(i)) /\ ClaimOrders(i, S)
    BY <1>5 DEF ClaimDue
  <2>2. UNCHANGED <<now, pausedUntil, worker>>
    BY <1>5 DEF ClaimDue
  <2>3. \A o \in S : Due(o)
    BY <2>1 DEF Selectable
  <2>4. \A p \in Orders : RowNear(now, orders'[p])
    BY <2>1, <2>3, ClaimedNear
  <2> QED BY <1>0, <2>2, <2>4, ScheduledNext
<1>6. ASSUME NEW i \in Instances, Push(i) PROVE Scheduled'
  BY <1>0, <1>6, ScheduledNext DEF Push
<1>7. ASSUME NEW i \in Instances, Restart(i) PROVE Scheduled'
  <2>1. UNCHANGED <<now, orders>>
    BY <1>7 DEF Restart
  <2>2. Within(now, 0)
    <3>1. Lease \in Delays /\ Lease \in Nat
      BY ConstantsAssumption DEF Delays
    <3>2. 0 <= now + Lease
      BY <1>0, <3>1
    <3> QED BY <3>1, <3>2 DEF Within
  <2>3. \A j \in Instances : pausedUntil'[j] = pausedUntil[j] \/ pausedUntil'[j] = 0
    BY <1>7 DEF Restart, TypeOK
  <2>4. \A j \in Instances, v \in Workers : worker'[j][v] = worker[j][v] \/ worker'[j][v] = Idle
    BY <1>7 DEF Restart, TypeOK
  <2>5. WorkerNear(now, Idle)
    BY DEF Idle, WorkerNear
  <2>6. \A j \in Instances : Within(now, pausedUntil'[j])
    BY <1>0, <2>2, <2>3
  <2>7. \A j \in Instances, v \in Workers : WorkerNear(now, worker'[j][v])
    BY <1>0, <2>4, <2>5
  <2> QED BY <1>0, <2>1, <2>6, <2>7, ScheduledNext
<1>8. CASE UNCHANGED vars
  BY <1>0, <1>8, ScheduledNext DEF vars
<1> QED BY <1>1, <1>2, <1>3, <1>4, <1>5, <1>6, <1>7, <1>8, ScheduledWorkerStep DEF Next

\* However claims are lost, deferred or saved late, every unfinished order stays
\* within a delay of being due: the strengthening says the same of the pauses
\* and of what the workers are about to save.
THEOREM OrdersStayScheduled == Spec => []NeverForgotten
<1>1. Scheduled => NeverForgotten
  BY DEF Scheduled
<1> QED BY <1>1, ScheduledInit, ScheduledStep, TypeCorrect, PTL DEF Spec
-----------------------------------------------------------------------------
\* What the jobs channel has to take fits, and is finitely much.
RoomAt(i, jbs, psh) ==
    /\ IsFiniteSet(psh[i])
    /\ Len(jbs[i]) + Cardinality(psh[i]) <= BatchSize

Room == \A i \in Instances : RoomAt(i, jobs, pushing)

LEMMA RoomNext ==
    ASSUME \A i \in Instances : RoomAt(i, jobs', pushing')
    PROVE  Room'
BY DEF Room, RoomAt

\* As many claims as orders, or fewer.
LEMMA ClaimedCount ==
    ASSUME NEW S \in SUBSET Orders
    PROVE  /\ IsFiniteSet(S)
           /\ IsFiniteSet({PendingOf(o) : o \in S})
           /\ Cardinality({PendingOf(o) : o \in S}) <= Cardinality(S)
<1> DEFINE f == [o \in S |-> PendingOf(o)]
           T == {PendingOf(o) : o \in S}
<1>1. IsFiniteSet(S)
  BY ConstantsAssumption, FS_Subset
<1>2. f \in Surjection(S, T)
  BY DEF Surjection
<1> HIDE DEF f, T
<1>3. IsFiniteSet(T) /\ Cardinality(T) <= Cardinality(S)
  BY <1>1, <1>2, FS_Surjection
<1> QED BY <1>1, <1>3 DEF T

\* A claim of no more orders than the channel has free slots.
LEMMA RoomClaim ==
    ASSUME TypeOK, Room, NEW i \in Instances, NEW S \in SUBSET Orders,
           Len(jobs[i]) + Cardinality(S) <= BatchSize,
           ClaimOrders(i, S), UNCHANGED jobs
    PROVE  Room'
<1> DEFINE T == {PendingOf(o) : o \in S}
<1>0. jobs[i] \in Seq(Pending) /\ pushing \in [Instances -> SUBSET Pending]
  BY DEF TypeOK
<1>1. IsFiniteSet(S) /\ IsFiniteSet(T) /\ Cardinality(T) <= Cardinality(S)
  BY ClaimedCount
<1>2. pushing' = [pushing EXCEPT ![i] = T] \/ UNCHANGED pushing
  BY DEF ClaimOrders
<1> HIDE DEF T
<1>3. Len(jobs[i]) \in Nat /\ Cardinality(S) \in Nat /\ Cardinality(T) \in Nat
  BY <1>0, <1>1, FS_CardinalityType
<1>4. Len(jobs[i]) + Cardinality(T) <= BatchSize
  BY <1>1, <1>3, ConstantsAssumption
<1>5. ASSUME NEW j \in Instances PROVE RoomAt(j, jobs', pushing')
  <2>1. RoomAt(j, jobs, pushing)
    BY DEF Room
  <2>2. pushing'[j] = pushing[j] \/ (j = i /\ pushing'[j] = T)
    BY <1>0, <1>2
  <2> QED BY <1>1, <1>4, <2>1, <2>2 DEF RoomAt
<1> QED BY <1>5, RoomNext

LEMMA RoomInit == Init => Room
<1> SUFFICES ASSUME Init, NEW i \in Instances PROVE RoomAt(i, jobs, pushing)
  BY DEF Room
<1>1. jobs[i] = <<>> /\ pushing[i] = {}
  BY DEF Init
<1>2. Len(<<>>) = 0
  OBVIOUS
<1> QED BY <1>1, <1>2, FS_EmptySet, ConstantsAssumption DEF RoomAt

LEMMA RoomStep == TypeOK /\ Room /\ [Next]_vars => Room'
<1> SUFFICES ASSUME TypeOK, Room, [Next]_vars PROVE Room'
  OBVIOUS
<1>0. /\ \A i \in Instances : jobs[i] \in Seq(Pending)
      /\ jobs \in [Instances -> Seq(Pending)]
      /\ pushing \in [Instances -> SUBSET Pending]
      /\ \A i \in Instances : IsFiniteSet(pushing[i]) /\ Cardinality(pushing[i]) \in Nat
      /\ \A i \in Instances : Len(jobs[i]) + Cardinality(pushing[i]) <= BatchSize
      /\ BatchSize \in Nat
  BY FS_CardinalityType, ConstantsAssumption DEF TypeOK, Room, RoomAt
<1>1. CASE UNCHANGED <<jobs, pushing>>
  BY <1>1, RoomNext DEF Room
<1>2. ASSUME NEW i \in Instances, NEW o \in Orders, ClaimNotified(i, o) PROVE Room'
  <2>1. CASE Len(jobs[i]) < BatchSize /\ ClaimOrders(i, {o})
    <3>1. Cardinality({o}) = 1
      BY FS_Singleton
    <3>2. Len(jobs[i]) \in Nat
      BY <1>0
    <3>3. Len(jobs[i]) + Cardinality({o}) <= BatchSize
      BY <1>0, <2>1, <3>1, <3>2
    <3>4. UNCHANGED jobs
      BY <1>2 DEF ClaimNotified
    <3> QED BY <2>1, <3>3, <3>4, RoomClaim
  <2> QED BY <1>1, <1>2, <2>1 DEF ClaimNotified
<1>3. ASSUME NEW i \in Instances, ClaimDue(i) PROVE Room'
  <2>1. PICK S \in SUBSET Orders : Selectable(S, FreeSlots(i)) /\ ClaimOrders(i, S)
    BY <1>3 DEF ClaimDue
  <2>2. Cardinality(S) <= BatchSize - Len(jobs[i])
    BY <2>1 DEF Selectable, FreeSlots
  <2>3. Len(jobs[i]) \in Nat /\ Cardinality(S) \in Nat
    <3>1. IsFiniteSet(S)
      BY ClaimedCount
    <3> QED BY <1>0, <3>1, FS_CardinalityType
  <2>4. Len(jobs[i]) + Cardinality(S) <= BatchSize
    BY <1>0, <2>2, <2>3
  <2>5. UNCHANGED jobs
    BY <1>3 DEF ClaimDue
  <2> QED BY <2>1, <2>4, <2>5, RoomClaim
<1>4. ASSUME NEW i \in Instances, Push(i) PROVE Room'
  <2>1. PICK p \in pushing[i] : /\ pushing' = [pushing EXCEPT ![i] = pushing[i] \ {p}]
                                /\ jobs' = [jobs EXCEPT ![i] = Append(jobs[i], p)]
    BY <1>4 DEF Push
  <2> DEFINE P == pushing[i] \ {p}
             J == Append(jobs[i], p)
  <2>2. IsFiniteSet(P) /\ Cardinality(P) = Cardinality(pushing[i]) - 1
    BY <1>0, FS_RemoveElement
  <2>3. Len(J) = Len(jobs[i]) + 1 /\ Len(jobs[i]) \in Nat
    BY <1>0, <2>1 DEF TypeOK
  <2> HIDE DEF P, J
  <2>4. Len(J) + Cardinality(P) <= BatchSize
    BY <1>0, <2>2, <2>3
  <2>5. ASSUME NEW j \in Instances PROVE RoomAt(j, jobs', pushing')
    <3>1. \/ j = i /\ jobs'[j] = J /\ pushing'[j] = P
          \/ jobs'[j] = jobs[j] /\ pushing'[j] = pushing[j]
      BY <1>0, <2>1 DEF J, P
    <3> QED BY <1>0, <2>2, <2>4, <3>1 DEF RoomAt
  <2> QED BY <2>5, RoomNext
<1>5. ASSUME NEW i \in Instances, NEW w \in Workers, Receive(i, w) PROVE Room'
  <2>1. /\ jobs[i] # <<>> /\ UNCHANGED pushing
        /\ jobs' = [jobs EXCEPT ![i] = Tail(jobs[i])]
    BY <1>5 DEF Receive
  <2>2. Len(Tail(jobs[i])) = Len(jobs[i]) - 1 /\ Len(jobs[i]) \in Nat
    BY <1>0, <2>1
  <2> DEFINE J == Tail(jobs[i])
  <2>3. Len(J) + Cardinality(pushing[i]) <= BatchSize
    BY <1>0, <2>2
  <2> HIDE DEF J
  <2>4. ASSUME NEW j \in Instances PROVE RoomAt(j, jobs', pushing')
    <3>1. (j = i /\ jobs'[j] = J) \/ jobs'[j] = jobs[j]
      BY <1>0, <2>1 DEF J
    <3> QED BY <1>0, <2>1, <2>3, <3>1 DEF RoomAt
  <2> QED BY <2>4, RoomNext
<1>6. ASSUME NEW i \in Instances, Restart(i) PROVE Room'
  <2>1. /\ jobs' = [jobs EXCEPT ![i] = <<>>]
        /\ pushing' = [pushing EXCEPT ![i] = {}]
    BY <1>6 DEF Restart
  <2>2. Len(<<>>) = 0 /\ Cardinality({}) = 0 /\ IsFiniteSet({})
    BY FS_EmptySet
  <2>3. ASSUME NEW j \in Instances PROVE RoomAt(j, jobs', pushing')
    <3>1. CASE jobs'[j] = <<>> /\ pushing'[j] = {}
      <4>1. Len(jobs'[j]) = 0 /\ Cardinality(pushing'[j]) = 0 /\ IsFiniteSet(pushing'[j])
        BY <2>2, <3>1
      <4> QED BY <1>0, <4>1 DEF RoomAt
    <3>2. CASE jobs'[j] = jobs[j] /\ pushing'[j] = pushing[j]
      BY <1>0, <3>2 DEF RoomAt
    <3> QED BY <1>0, <2>1, <3>1, <3>2
  <2> QED BY <2>3, RoomNext
<1>7. ASSUME NEW i \in Instances, NEW w \in Workers, WorkerStep(i, w), ~Receive(i, w)
      PROVE  UNCHANGED <<jobs, pushing>>
  BY <1>7 DEF WorkerStep, PassGate, Send, GetAnswer, HandleAnswer, Save
<1>8. ASSUME NEW i \in Instances, NEW o \in Orders, Upload(i, o)
      PROVE  UNCHANGED <<jobs, pushing>>
  BY <1>8 DEF Upload
<1>9. ASSUME Tick \/ \E o \in Orders : ServiceAdvances(o)
      PROVE  UNCHANGED <<jobs, pushing>>
  BY <1>9 DEF Tick, ServiceAdvances, memory
<1>10. CASE UNCHANGED vars
  BY <1>1, <1>10 DEF vars
<1> QED BY <1>1, <1>2, <1>3, <1>4, <1>5, <1>6, <1>7, <1>8, <1>9, <1>10 DEF Next

\* The main goroutine always finds room in the jobs channel for what it has
\* claimed, whatever the batch size and whoever restarts.
THEOREM MainNeverBlocks == Spec => []ChannelRoom
<1>1. Room => ChannelRoom
  BY DEF Room, RoomAt, ChannelRoom
<1> QED BY <1>1, RoomInit, RoomStep, TypeCorrect, PTL DEF Spec
-----------------------------------------------------------------------------
\* Somebody holds a claim of o: the place it is at, and the claim itself.
Held(jbs, psh, wrk, o, c) ==
    \/ \E i \in Instances : \E p \in psh[i] :
          p.order = o /\ c = <<i, "main", p, p>>
    \/ \E i \in Instances : \E k \in DOMAIN jbs[i] :
          jbs[i][k].order = o /\ c = <<i, "jobs", k, jbs[i][k]>>
    \/ \E i \in Instances : \E w \in Workers :
          /\ wrk[i][w].pc # "idle"
          /\ wrk[i][w].job.order = o
          /\ c = <<i, "worker", w, wrk[i][w].job>>

\* There is one claim of the order at most, and while there is one, the row
\* carries its lease and is not due.
Sole(n, row, jbs, psh, wrk, o) ==
    \A c, d : Held(jbs, psh, wrk, o, c) /\ Held(jbs, psh, wrk, o, d) =>
        c = d /\ row # None /\ c[4].lease = row.next /\ n < row.next

Exclusive == \A o \in Orders \ overrun : Sole(now, orders[o], jobs, pushing, worker, o)

LEMMA ExclusiveNext ==
    ASSUME \A o \in Orders \ overrun' : Sole(now', orders'[o], jobs', pushing', worker', o)
    PROVE  Exclusive'
BY DEF Exclusive

LEMMA ExclusiveImplies == Exclusive => LeaseExclusive
<1> SUFFICES ASSUME Exclusive, NEW o \in Orders \ overrun,
                    NEW a \in Claims(o), NEW b \in Claims(o)
             PROVE  a = b
  BY DEF LeaseExclusive
<1>1. ASSUME NEW e \in Claims(o)
      PROVE  \E c : Held(jobs, pushing, worker, o, c) /\ e = <<c[1], c[2], c[3]>>
  <2>1. PICK i \in Instances :
           \/ e \in {<<i, "main", p>> : p \in {q \in pushing[i] : q.order = o}}
           \/ e \in {<<i, "jobs", k>> : k \in {l \in DOMAIN jobs[i] : jobs[i][l].order = o}}
           \/ e \in {<<i, "worker", w>> : w \in {v \in Workers :
                       worker[i][v].pc # "idle" /\ worker[i][v].job.order = o}}
    BY DEF Claims
  <2>2. CASE e \in {<<i, "main", p>> : p \in {q \in pushing[i] : q.order = o}}
    <3>1. PICK p \in pushing[i] : p.order = o /\ e = <<i, "main", p>>
      BY <2>2
    <3>2. Held(jobs, pushing, worker, o, <<i, "main", p, p>>)
      BY <3>1 DEF Held
    <3> QED BY <3>1, <3>2
  <2>3. CASE e \in {<<i, "jobs", k>> : k \in {l \in DOMAIN jobs[i] : jobs[i][l].order = o}}
    <3>1. PICK k \in DOMAIN jobs[i] : jobs[i][k].order = o /\ e = <<i, "jobs", k>>
      BY <2>3
    <3>2. Held(jobs, pushing, worker, o, <<i, "jobs", k, jobs[i][k]>>)
      BY <3>1 DEF Held
    <3> QED BY <3>1, <3>2
  <2>4. CASE e \in {<<i, "worker", w>> : w \in {v \in Workers :
                       worker[i][v].pc # "idle" /\ worker[i][v].job.order = o}}
    <3>1. PICK w \in Workers : /\ worker[i][w].pc # "idle" /\ worker[i][w].job.order = o
                               /\ e = <<i, "worker", w>>
      BY <2>4
    <3>2. Held(jobs, pushing, worker, o, <<i, "worker", w, worker[i][w].job>>)
      BY <3>1 DEF Held
    <3> QED BY <3>1, <3>2
  <2> QED BY <2>1, <2>2, <2>3, <2>4
<1>2. PICK c : Held(jobs, pushing, worker, o, c) /\ a = <<c[1], c[2], c[3]>>
  BY <1>1
<1>3. PICK d : Held(jobs, pushing, worker, o, d) /\ b = <<d[1], d[2], d[3]>>
  BY <1>1
<1>4. c = d
  BY <1>2, <1>3 DEF Exclusive, Sole
<1> QED BY <1>2, <1>3, <1>4

LEMMA ExclusiveInit == Init => Exclusive
<1> SUFFICES ASSUME Init, NEW o, NEW c, Held(jobs, pushing, worker, o, c) PROVE FALSE
  BY DEF Exclusive, Sole
<1>1. \A i \in Instances : /\ pushing[i] = {} /\ jobs[i] = <<>>
                           /\ \A w \in Workers : worker[i][w].pc = "idle"
  BY DEF Init, Idle
<1>2. DOMAIN <<>> = {}
  OBVIOUS
<1> QED BY <1>1, <1>2 DEF Held

\* Most steps only lose claims of an order and leave its row alone.
LEMMA SoleKept ==
    ASSUME NEW o \in Orders \ overrun, Exclusive, UNCHANGED now,
           orders'[o] = orders[o],
           \A c : Held(jobs', pushing', worker', o, c) => Held(jobs, pushing, worker, o, c)
    PROVE  Sole(now', orders'[o], jobs', pushing', worker', o)
<1>1. Sole(now, orders[o], jobs, pushing, worker, o)
  BY DEF Exclusive
<1> QED BY <1>1 DEF Sole

\* A worker that keeps its claim, or is rid of it, adds none.
LEMMA HeldByWorker ==
    ASSUME TypeOK, NEW i \in Instances, NEW w \in Workers, NEW pc, NEW got, NEW job,
           WorkerGoes(i, w, pc, job, got),
           pc = "idle" \/ (worker[i][w].pc # "idle" /\ job = worker[i][w].job),
           UNCHANGED <<jobs, pushing>>
    PROVE  \A o, c : Held(jobs', pushing', worker', o, c) => Held(jobs, pushing, worker, o, c)
<1>1. \A j \in Instances, v \in Workers :
         worker'[j][v].pc # "idle" => /\ worker[j][v].pc # "idle"
                                      /\ worker'[j][v].job = worker[j][v].job
  <2>1. worker'[i][w] = [pc |-> pc, job |-> job, got |-> got]
    BY DEF TypeOK, WorkerGoes
  <2>2. \A j \in Instances, v \in Workers : j # i \/ v # w => worker'[j][v] = worker[j][v]
    BY DEF TypeOK, WorkerGoes
  <2> QED BY <2>1, <2>2
<1> QED BY <1>1 DEF Held

\* A received claim has left the channel, the others have moved up.
LEMMA ExclusiveReceive ==
    ASSUME TypeOK, Exclusive, NEW i \in Instances, NEW w \in Workers, Receive(i, w),
           NEW o \in Orders \ overrun
    PROVE  Sole(now', orders'[o], jobs', pushing', worker', o)
<1> DEFINE Came(b) == IF b[1] = i /\ b[2] = "jobs"
                      THEN IF b[3] = 1 THEN <<i, "worker", w, b[4]>>
                                       ELSE <<i, "jobs", b[3] - 1, b[4]>>
                      ELSE b
<1>1. /\ worker[i][w].pc = "idle" /\ jobs[i] # <<>>
      /\ WorkerGoes(i, w, "gate", Head(jobs[i]), None)
      /\ jobs' = [jobs EXCEPT ![i] = Tail(jobs[i])]
      /\ UNCHANGED <<now, orders, pushing>>
  BY DEF Receive
<1>2. jobs[i] \in Seq(Pending) /\ jobs \in [Instances -> Seq(Pending)]
  BY DEF TypeOK
<1>3. /\ Head(jobs[i]) = jobs[i][1] /\ 1 \in DOMAIN jobs[i]
      /\ \A k \in DOMAIN Tail(jobs[i]) : /\ k \in Nat \ {0}
                                         /\ k + 1 \in DOMAIN jobs[i]
                                         /\ Tail(jobs[i])[k] = jobs[i][k + 1]
  BY <1>1, <1>2
<1>4. /\ worker'[i][w] = [pc |-> "gate", job |-> jobs[i][1], got |-> None]
      /\ \A j \in Instances, v \in Workers : j # i \/ v # w => worker'[j][v] = worker[j][v]
  BY <1>1, <1>3 DEF TypeOK, WorkerGoes
<1>5. ASSUME NEW c, Held(jobs', pushing', worker', o, c)
      PROVE  \E b : Held(jobs, pushing, worker, o, b) /\ c = Came(b) /\ c[4] = b[4]
  <2>1. CASE \E j \in Instances : \E p \in pushing'[j] : p.order = o /\ c = <<j, "main", p, p>>
    <3>1. Held(jobs, pushing, worker, o, c)
      BY <1>1, <2>1 DEF Held
    <3> QED BY <2>1, <3>1
  <2>2. CASE \E j \in Instances : \E k \in DOMAIN jobs'[j] :
                jobs'[j][k].order = o /\ c = <<j, "jobs", k, jobs'[j][k]>>
    <3>0. PICK j \in Instances : \E k \in DOMAIN jobs'[j] :
             jobs'[j][k].order = o /\ c = <<j, "jobs", k, jobs'[j][k]>>
      BY <2>2
    <3>1. PICK k \in DOMAIN jobs'[j] :
             jobs'[j][k].order = o /\ c = <<j, "jobs", k, jobs'[j][k]>>
      BY <3>0
    <3>2. CASE j # i
      <4>1. Held(jobs, pushing, worker, o, c)
        BY <1>1, <1>2, <3>1, <3>2 DEF Held
      <4> QED BY <3>1, <3>2, <4>1
    <3>3. CASE j = i
      <4>1. /\ k \in Nat \ {0} /\ k + 1 \in DOMAIN jobs[i]
            /\ jobs'[i][k] = jobs[i][k + 1]
        BY <1>1, <1>2, <1>3, <3>1, <3>3
      <4> DEFINE b == <<i, "jobs", k + 1, jobs[i][k + 1]>>
      <4>2. Held(jobs, pushing, worker, o, b)
        BY <3>1, <3>3, <4>1 DEF Held
      <4>3. k + 1 # 1 /\ (k + 1) - 1 = k
        BY <4>1
      <4>4. c = Came(b) /\ c[4] = b[4]
        BY <3>1, <3>3, <4>1, <4>3
      <4> QED BY <4>2, <4>4
    <3> QED BY <3>2, <3>3
  <2>3. CASE \E j \in Instances : \E v \in Workers :
                /\ worker'[j][v].pc # "idle" /\ worker'[j][v].job.order = o
                /\ c = <<j, "worker", v, worker'[j][v].job>>
    <3>1. PICK j \in Instances, v \in Workers :
             /\ worker'[j][v].pc # "idle" /\ worker'[j][v].job.order = o
             /\ c = <<j, "worker", v, worker'[j][v].job>>
      BY <2>3
    <3>2. CASE j # i \/ v # w
      <4>1. Held(jobs, pushing, worker, o, c)
        BY <1>4, <3>1, <3>2 DEF Held
      <4> QED BY <3>1, <4>1
    <3>3. CASE j = i /\ v = w
      <4> DEFINE b == <<i, "jobs", 1, jobs[i][1]>>
      <4>1. Held(jobs, pushing, worker, o, b)
        BY <1>3, <1>4, <3>1, <3>3 DEF Held
      <4>2. c = Came(b) /\ c[4] = b[4]
        BY <1>4, <3>1, <3>3
      <4> QED BY <4>1, <4>2
    <3> QED BY <3>2, <3>3
  <2> QED BY <1>5, <2>1, <2>2, <2>3 DEF Held
<1>6. Sole(now, orders[o], jobs, pushing, worker, o)
  BY DEF Exclusive
<1> HIDE DEF Came
<1>7. ASSUME NEW c, NEW d,
             Held(jobs', pushing', worker', o, c), Held(jobs', pushing', worker', o, d)
      PROVE  c = d /\ orders[o] # None /\ c[4].lease = orders[o].next /\ now < orders[o].next
  <2>1. PICK a : Held(jobs, pushing, worker, o, a) /\ c = Came(a) /\ c[4] = a[4]
    BY <1>5, <1>7
  <2>2. PICK b : Held(jobs, pushing, worker, o, b) /\ d = Came(b)
    BY <1>5, <1>7
  <2>3. /\ a = b /\ orders[o] # None
        /\ a[4].lease = orders[o].next /\ now < orders[o].next
    BY <1>6, <2>1, <2>2 DEF Sole
  <2> QED BY <2>1, <2>2, <2>3
<1> QED BY <1>1, <1>7 DEF Sole

\* A sent claim has left the main goroutine.
LEMMA ExclusivePush ==
    ASSUME TypeOK, Exclusive, NEW i \in Instances, Push(i), NEW o \in Orders \ overrun
    PROVE  Sole(now', orders'[o], jobs', pushing', worker', o)
<1>1. PICK p \in pushing[i] : /\ pushing' = [pushing EXCEPT ![i] = pushing[i] \ {p}]
                              /\ jobs' = [jobs EXCEPT ![i] = Append(jobs[i], p)]
                              /\ UNCHANGED <<now, orders, worker>>
  BY DEF Push
<1> DEFINE last == Len(jobs[i]) + 1
           Sent(b) == IF b = <<i, "main", p, p>> THEN <<i, "jobs", last, p>> ELSE b
<1>2. /\ jobs[i] \in Seq(Pending) /\ jobs \in [Instances -> Seq(Pending)]
      /\ pushing \in [Instances -> SUBSET Pending] /\ p \in Pending
  BY DEF TypeOK
<1>3. \A k \in DOMAIN Append(jobs[i], p) :
         \/ k = last /\ Append(jobs[i], p)[k] = p
         \/ k \in DOMAIN jobs[i] /\ Append(jobs[i], p)[k] = jobs[i][k]
  BY <1>2
<1>4. ASSUME NEW c, Held(jobs', pushing', worker', o, c)
      PROVE  \E b : Held(jobs, pushing, worker, o, b) /\ c = Sent(b) /\ c[4] = b[4]
  <2>1. CASE \E j \in Instances : \E q \in pushing'[j] : q.order = o /\ c = <<j, "main", q, q>>
    <3>0. PICK j \in Instances : \E q \in pushing'[j] : q.order = o /\ c = <<j, "main", q, q>>
      BY <2>1
    <3>1. PICK q \in pushing'[j] : q.order = o /\ c = <<j, "main", q, q>>
      BY <3>0
    <3>2. q \in pushing[j] /\ (j # i \/ q # p)
      BY <1>1, <1>2, <3>1
    <3>3. Held(jobs, pushing, worker, o, c)
      BY <3>1, <3>2 DEF Held
    <3>4. c # <<i, "main", p, p>>
      BY <3>1, <3>2
    <3> QED BY <3>3, <3>4
  <2>2. CASE \E j \in Instances : \E k \in DOMAIN jobs'[j] :
                jobs'[j][k].order = o /\ c = <<j, "jobs", k, jobs'[j][k]>>
    <3>0. PICK j \in Instances : \E k \in DOMAIN jobs'[j] :
             jobs'[j][k].order = o /\ c = <<j, "jobs", k, jobs'[j][k]>>
      BY <2>2
    <3>1. PICK k \in DOMAIN jobs'[j] :
             jobs'[j][k].order = o /\ c = <<j, "jobs", k, jobs'[j][k]>>
      BY <3>0
    <3>2. c # <<i, "main", p, p>>
      BY <3>1
    <3>3. CASE j # i
      <4>1. Held(jobs, pushing, worker, o, c)
        BY <1>1, <1>2, <3>1, <3>3 DEF Held
      <4> QED BY <3>2, <4>1
    <3>4. CASE j = i
      <4>1. jobs'[i] = Append(jobs[i], p)
        BY <1>1, <1>2
      <4>2. \/ k = last /\ jobs'[i][k] = p
            \/ k \in DOMAIN jobs[i] /\ jobs'[i][k] = jobs[i][k]
        BY <1>3, <3>1, <3>4, <4>1
      <4> HIDE DEF last
      <4>3. CASE k = last /\ jobs'[i][k] = p
        <5>1. Held(jobs, pushing, worker, o, <<i, "main", p, p>>)
          BY <1>1, <3>1, <3>4, <4>3 DEF Held
        <5>2. c = <<i, "jobs", last, p>>
          BY <3>1, <3>4, <4>3
        <5> QED BY <5>1, <5>2
      <4>4. CASE k \in DOMAIN jobs[i] /\ jobs'[i][k] = jobs[i][k]
        <5>1. Held(jobs, pushing, worker, o, c)
          BY <3>1, <3>4, <4>4 DEF Held
        <5> QED BY <3>2, <5>1
      <4> QED BY <4>2, <4>3, <4>4
    <3> QED BY <3>3, <3>4
  <2>3. CASE \E j \in Instances : \E v \in Workers :
                /\ worker'[j][v].pc # "idle" /\ worker'[j][v].job.order = o
                /\ c = <<j, "worker", v, worker'[j][v].job>>
    <3>1. Held(jobs, pushing, worker, o, c)
      BY <1>1, <2>3 DEF Held
    <3>2. c # <<i, "main", p, p>>
      BY <2>3
    <3> QED BY <3>1, <3>2
  <2> QED BY <1>4, <2>1, <2>2, <2>3 DEF Held
<1>5. Sole(now, orders[o], jobs, pushing, worker, o)
  BY DEF Exclusive
<1> HIDE DEF Sent, last
<1>6. ASSUME NEW c, NEW d,
             Held(jobs', pushing', worker', o, c), Held(jobs', pushing', worker', o, d)
      PROVE  c = d /\ orders[o] # None /\ c[4].lease = orders[o].next /\ now < orders[o].next
  <2>1. PICK a : Held(jobs, pushing, worker, o, a) /\ c = Sent(a) /\ c[4] = a[4]
    BY <1>4, <1>6
  <2>2. PICK b : Held(jobs, pushing, worker, o, b) /\ d = Sent(b)
    BY <1>4, <1>6
  <2>3. /\ a = b /\ orders[o] # None
        /\ a[4].lease = orders[o].next /\ now < orders[o].next
    BY <1>5, <2>1, <2>2 DEF Sole
  <2> QED BY <2>1, <2>2, <2>3
<1> QED BY <1>1, <1>6 DEF Sole

\* Nobody holds a claim of an order that is due, so a claim of it is the only one.
LEMMA ExclusiveClaim ==
    ASSUME TypeOK, Exclusive, NEW i \in Instances, NEW S \in SUBSET Orders,
           \A s \in S : Due(s), pushing[i] = {}, ClaimOrders(i, S),
           UNCHANGED <<now, jobs, worker>>, NEW o \in Orders \ overrun
    PROVE  Sole(now', orders'[o], jobs', pushing', worker', o)
<1>0. now \in Nat /\ pushing \in [Instances -> SUBSET Pending] /\ Lease \in Nat \ {0}
  BY ConstantsAssumption DEF TypeOK
<1>1. Sole(now, orders[o], jobs, pushing, worker, o)
  BY DEF Exclusive
<1>2. \A j \in Instances : \A p \in pushing'[j] :
         p \in pushing[j] \/ (j = i /\ \E s \in S : p = PendingOf(s))
  <2>1. pushing' = [pushing EXCEPT ![i] = {PendingOf(s) : s \in S}] \/ UNCHANGED pushing
    BY DEF ClaimOrders
  <2> QED BY <1>0, <2>1
<1>3. \A s : PendingOf(s).order = s /\ PendingOf(s).lease = now + Lease
  BY DEF PendingOf
<1>4. ASSUME NEW c, Held(jobs', pushing', worker', o, c)
      PROVE  \/ Held(jobs, pushing, worker, o, c)
             \/ o \in S /\ c = <<i, "main", PendingOf(o), PendingOf(o)>>
  <2>1. CASE \E j \in Instances : \E p \in pushing'[j] : p.order = o /\ c = <<j, "main", p, p>>
    <3>1. PICK j \in Instances : \E p \in pushing'[j] : p.order = o /\ c = <<j, "main", p, p>>
      BY <2>1
    <3>2. PICK p \in pushing'[j] : p.order = o /\ c = <<j, "main", p, p>>
      BY <3>1
    <3>3. CASE p \in pushing[j]
      BY <3>2, <3>3 DEF Held
    <3>4. CASE j = i /\ \E s \in S : p = PendingOf(s)
      BY <1>3, <3>2, <3>4
    <3> QED BY <1>2, <3>2, <3>3, <3>4
  <2>2. CASE ~\E j \in Instances : \E p \in pushing'[j] : p.order = o /\ c = <<j, "main", p, p>>
    <3>1. UNCHANGED <<jobs, worker>>
      OBVIOUS
    <3> QED BY <1>4, <2>2, <3>1 DEF Held
  <2> QED BY <2>1, <2>2
<1>5. CASE o \notin S
  <2>1. orders'[o] = orders[o]
    BY <1>5 DEF ClaimOrders
  <2>2. \A c : Held(jobs', pushing', worker', o, c) => Held(jobs, pushing, worker, o, c)
    BY <1>4, <1>5
  <2> QED BY <2>1, <2>2, SoleKept
<1>6. CASE o \in S
  <2>1. orders[o] \in Order /\ orders[o].next \in Nat /\ orders[o].next <= now
    BY <1>6 DEF TypeOK, Due, Order
  <2>2. \A c : ~Held(jobs, pushing, worker, o, c)
    <3>1. ~(now < orders[o].next)
      BY <1>0, <2>1
    <3> QED BY <1>1, <3>1 DEF Sole
  <2>3. orders'[o] = Leased(o)
    BY <1>6 DEF ClaimOrders
  <2>4. Leased(o) \in Order /\ Leased(o).next = now + Lease
    BY <1>0, <2>1 DEF Leased, Order
  <2>5. now < now + Lease
    BY <1>0
  <2>6. orders'[o] # None
    BY <2>3, <2>4, NoneIsNoOrder
  <2>7. ASSUME NEW c, NEW d,
               Held(jobs', pushing', worker', o, c), Held(jobs', pushing', worker', o, d)
        PROVE  /\ c = d /\ orders'[o] # None
               /\ c[4].lease = orders'[o].next /\ now < orders'[o].next
    <3>1. /\ c = <<i, "main", PendingOf(o), PendingOf(o)>>
          /\ d = <<i, "main", PendingOf(o), PendingOf(o)>>
      BY <1>4, <2>2, <2>7
    <3>2. c[4].lease = now + Lease
      BY <1>3, <3>1
    <3> QED BY <2>3, <2>4, <2>5, <2>6, <3>1, <3>2
  <2> QED BY <2>7 DEF Sole
<1> QED BY <1>5, <1>6

\* A saved answer frees the order: its worker held the only claim.
LEMMA ExclusiveSave ==
    ASSUME TypeOK, Exclusive, NEW i \in Instances, NEW w \in Workers, Save(i, w),
           NEW o \in Orders \ overrun
    PROVE  Sole(now', orders'[o], jobs', pushing', worker', o)
<1> DEFINE job == worker[i][w].job
<1>1. /\ worker[i][w].pc = "save"
      /\ orders' = [orders EXCEPT ![job.order] = worker[i][w].got] \/ UNCHANGED orders
      /\ WorkerGoes(i, w, "idle", None, None)
      /\ UNCHANGED <<now, jobs, pushing>>
  BY DEF Save
<1>2. \A c : Held(jobs', pushing', worker', o, c) => Held(jobs, pushing, worker, o, c)
  BY <1>1, HeldByWorker
<1>3. CASE job.order # o
  <2>1. orders'[o] = orders[o]
    BY <1>1, <1>3 DEF TypeOK
  <2> QED BY <1>1, <1>2, <2>1, SoleKept
<1>4. CASE job.order = o
  <2> DEFINE mine == <<i, "worker", w, job>>
  <2>1. Held(jobs, pushing, worker, o, mine)
    BY <1>1, <1>4 DEF Held
  <2>2. Sole(now, orders[o], jobs, pushing, worker, o)
    BY DEF Exclusive
  <2>3. ASSUME NEW c, Held(jobs', pushing', worker', o, c) PROVE c = mine
    <3>1. Held(jobs, pushing, worker, o, c)
      BY <1>2, <2>3
    <3> QED BY <2>1, <2>2, <3>1 DEF Sole
  <2>4. ~Held(jobs', pushing', worker', o, mine)
    <3>1. worker'[i][w].pc = "idle"
      BY <1>1 DEF WorkerGoes, TypeOK
    <3> QED BY <3>1 DEF Held
  <2> QED BY <2>3, <2>4 DEF Sole
<1> QED BY <1>3, <1>4

LEMMA ExclusiveWorkerStep ==
    ASSUME TypeOK, Exclusive, NEW i \in Instances, NEW w \in Workers, WorkerStep(i, w),
           NEW o \in Orders \ overrun
    PROVE  Sole(now', orders'[o], jobs', pushing', worker', o)
<1> DEFINE Same == UNCHANGED <<now, orders, jobs, pushing>>
           job == worker[i][w].job
<1>1. ASSUME NEW pc, NEW got, WorkerGoes(i, w, pc, job, got), worker[i][w].pc # "idle", Same
      PROVE  Sole(now', orders'[o], jobs', pushing', worker', o)
  <2>1. \A c : Held(jobs', pushing', worker', o, c) => Held(jobs, pushing, worker, o, c)
    BY <1>1, HeldByWorker
  <2> QED BY <1>1, <2>1, SoleKept
<1>2. CASE Receive(i, w)
  BY <1>2, ExclusiveReceive
<1>3. CASE Save(i, w)
  BY <1>3, ExclusiveSave
<1>4. ASSUME PassGate(i, w) \/ Send(i, w) \/ GetAnswer(i, w) \/ HandleAnswer(i, w)
      PROVE  /\ worker[i][w].pc # "idle" /\ Same
             /\ \E pc, got : WorkerGoes(i, w, pc, job, got)
  <2>1. CASE PassGate(i, w)
    BY <2>1 DEF PassGate
  <2>2. CASE Send(i, w)
    BY <2>2 DEF Send
  <2>3. CASE GetAnswer(i, w)
    BY <2>3 DEF GetAnswer
  <2>4. CASE HandleAnswer(i, w)
    BY <2>4 DEF HandleAnswer
  <2> QED BY <1>4, <2>1, <2>2, <2>3, <2>4
<1> QED BY <1>1, <1>2, <1>3, <1>4 DEF WorkerStep

LEMMA ExclusiveStep == TypeOK /\ Exclusive /\ [Next]_vars => Exclusive'
<1> SUFFICES ASSUME TypeOK, Exclusive, [Next]_vars, NEW o \in Orders \ overrun'
             PROVE  Sole(now', orders'[o], jobs', pushing', worker', o)
  BY ExclusiveNext
<1> DEFINE Goal == Sole(now', orders'[o], jobs', pushing', worker', o)
<1>0. o \in Orders \ overrun /\ Sole(now, orders[o], jobs, pushing, worker, o)
  <2>1. overrun \subseteq overrun'
    <3>1. CASE Tick
      BY <3>1 DEF Tick
    <3>2. ASSUME NEW u \in Orders, ServiceAdvances(u) PROVE UNCHANGED overrun
      BY <3>2 DEF ServiceAdvances, history
    <3>3. ASSUME NEW i \in Instances, NEW u \in Orders, Upload(i, u) \/ ClaimNotified(i, u)
          PROVE  UNCHANGED overrun
      BY <3>3 DEF Upload, ClaimNotified, history
    <3>4. ASSUME NEW i \in Instances, ClaimDue(i) PROVE UNCHANGED overrun
      BY <3>4 DEF ClaimDue, history
    <3>5. ASSUME NEW i \in Instances, Push(i) \/ Restart(i) PROVE UNCHANGED overrun
      BY <3>5 DEF Push, Restart, history
    <3>6. ASSUME NEW i \in Instances, NEW w \in Workers, WorkerStep(i, w)
          PROVE  UNCHANGED overrun
      BY <3>6 DEF WorkerStep, Receive, PassGate, Send, GetAnswer, HandleAnswer, Save, history
    <3>7. CASE UNCHANGED vars
      BY <3>7 DEF vars
    <3> QED BY <3>1, <3>2, <3>3, <3>4, <3>5, <3>6, <3>7 DEF Next
  <2> QED BY <2>1 DEF Exclusive
<1>1. CASE Tick
  <2>1. now' = now + 1 /\ UNCHANGED <<orders, jobs, pushing, worker>> /\ ~Outlived(o, now + 1)
    BY <1>1 DEF Tick, memory
  <2>2. ASSUME NEW c, Held(jobs, pushing, worker, o, c)
        PROVE  ~(c[4].lease <= now + 1) /\ c[4].lease \in Nat
    <3>1. CASE \E j \in Instances : \E p \in pushing[j] : p.order = o /\ c = <<j, "main", p, p>>
      BY <2>1, <3>1 DEF Outlived, TypeOK, Pending
    <3>2. CASE \E j \in Instances : \E k \in DOMAIN jobs[j] :
                  jobs[j][k].order = o /\ c = <<j, "jobs", k, jobs[j][k]>>
      <4>1. PICK j \in Instances : \E k \in DOMAIN jobs[j] :
                  jobs[j][k].order = o /\ c = <<j, "jobs", k, jobs[j][k]>>
        BY <3>2
      <4>2. PICK k \in DOMAIN jobs[j] : jobs[j][k].order = o /\ c = <<j, "jobs", k, jobs[j][k]>>
        BY <4>1
      <4>3. jobs[j] \in Seq(Pending)
        BY DEF TypeOK
      <4>4. jobs[j][k] \in Pending
        BY <4>2, <4>3
      <4> QED BY <2>1, <4>2, <4>4 DEF Outlived, Pending
    <3>3. CASE \E j \in Instances : \E v \in Workers :
                  /\ worker[j][v].pc # "idle" /\ worker[j][v].job.order = o
                  /\ c = <<j, "worker", v, worker[j][v].job>>
      <4>1. PICK j \in Instances, v \in Workers :
                  /\ worker[j][v].pc # "idle" /\ worker[j][v].job.order = o
                  /\ c = <<j, "worker", v, worker[j][v].job>>
        BY <3>3
      <4>2. worker[j][v].job \in Pending
        BY <4>1, WorkerHolds
      <4> QED BY <2>1, <4>1, <4>2 DEF Outlived, Pending
    <3> QED BY <2>2, <3>1, <3>2, <3>3 DEF Held
  <2>3. ASSUME NEW c, Held(jobs, pushing, worker, o, c) PROVE now + 1 < c[4].lease
    <3>1. ~(c[4].lease <= now + 1) /\ c[4].lease \in Nat
      BY <2>2, <2>3
    <3> QED BY <3>1 DEF TypeOK
  <2>4. \A c, d : Held(jobs, pushing, worker, o, c) /\ Held(jobs, pushing, worker, o, d) =>
           c = d /\ orders[o] # None /\ c[4].lease = orders[o].next /\ now + 1 < orders[o].next
    BY <1>0, <2>3 DEF Sole
  <2> QED BY <2>1, <2>4 DEF Sole
<1>2. CASE UNCHANGED <<now, orders, jobs, pushing, worker>>
  BY <1>0, <1>2, SoleKept
<1>3. ASSUME NEW i \in Instances, NEW u \in Orders, Upload(i, u) PROVE Goal
  <2>1. UNCHANGED <<now, jobs, pushing, worker>> /\ orders[u] = None
    BY <1>3 DEF Upload
  <2>2. CASE u = o
    BY <1>0, <2>1, <2>2 DEF Sole
  <2>3. CASE u # o
    <3>1. orders'[o] = orders[o]
      BY <1>3, <2>3 DEF Upload, TypeOK
    <3> QED BY <1>0, <2>1, <3>1, SoleKept
  <2> QED BY <2>2, <2>3
<1>4. ASSUME NEW i \in Instances, NEW u \in Orders, ClaimNotified(i, u) PROVE Goal
  <2>1. pushing[i] = {} /\ UNCHANGED <<now, jobs, worker>>
    BY <1>4 DEF ClaimNotified
  <2>2. CASE Due(u) /\ ClaimOrders(i, {u})
    <3>1. {u} \in SUBSET Orders /\ \A s \in {u} : Due(s)
      BY <2>2
    <3> QED BY <1>0, <2>1, <2>2, <3>1, ExclusiveClaim
  <2> QED BY <1>2, <1>4, <2>1, <2>2 DEF ClaimNotified
<1>5. ASSUME NEW i \in Instances, ClaimDue(i) PROVE Goal
  <2>1. PICK S \in SUBSET Orders : Selectable(S, FreeSlots(i)) /\ ClaimOrders(i, S)
    BY <1>5 DEF ClaimDue
  <2>2. \A s \in S : Due(s)
    BY <2>1 DEF Selectable
  <2>3. pushing[i] = {} /\ UNCHANGED <<now, jobs, worker>>
    BY <1>5 DEF ClaimDue
  <2> QED BY <1>0, <2>1, <2>2, <2>3, ExclusiveClaim
<1>6. ASSUME NEW i \in Instances, Push(i) PROVE Goal
  BY <1>0, <1>6, ExclusivePush
<1>7. ASSUME NEW i \in Instances, Restart(i) PROVE Goal
  <2>1. UNCHANGED <<now, orders>>
    BY <1>7 DEF Restart
  <2>2. \A j \in Instances :
           \/ /\ pushing'[j] = {} /\ jobs'[j] = <<>>
              /\ \A w \in Workers : worker'[j][w].pc = "idle"
           \/ /\ pushing'[j] = pushing[j] /\ jobs'[j] = jobs[j]
              /\ \A w \in Workers : worker'[j][w] = worker[j][w]
    BY <1>7 DEF Restart, TypeOK, Idle
  <2>3. DOMAIN <<>> = {}
    OBVIOUS
  <2>4. \A c : Held(jobs', pushing', worker', o, c) => Held(jobs, pushing, worker, o, c)
    BY <2>2, <2>3 DEF Held
  <2> QED BY <1>0, <2>1, <2>4, SoleKept
<1>8. ASSUME NEW i \in Instances, NEW w \in Workers, WorkerStep(i, w) PROVE Goal
  BY <1>0, <1>8, ExclusiveWorkerStep
<1>9. ASSUME NEW u \in Orders, ServiceAdvances(u) PROVE Goal
  BY <1>2, <1>9 DEF ServiceAdvances, memory
<1>10. CASE UNCHANGED vars
  BY <1>2, <1>10 DEF vars
<1> QED BY <1>1, <1>3, <1>4, <1>5, <1>6, <1>7, <1>8, <1>9, <1>10 DEF Next

\* As long as no claim of an order outlives its lease, nobody else gets the
\* order: the row carries the lease of the one claim there is.
THEOREM LeaseExcludesOthers == Spec => []LeaseExclusive
BY ExclusiveInit, ExclusiveStep, ExclusiveImplies, TypeCorrect, PTL DEF Spec
-----------------------------------------------------------------------------
\* The status is one that the accrual service svc bears out, now and later on.
Told(svc, o, status) ==
    /\ status = "PROCESSING" => svc[o] # "unregistered"
    /\ status \in Final => svc[o] = status

RowSound(svc, o, row) == row # None => Told(svc, o, row.status)
ClaimSound(svc, p) == Told(svc, p.order, p.status)
WorkerSound(svc, wk) ==
    /\ wk.pc # "idle" => ClaimSound(svc, wk.job)
    /\ wk.pc \in {"answered", "save"} => Told(svc, wk.job.order, wk.got.status)

\* Whatever the table says, a claim remembers or a worker is about to save was
\* true of the service and has not become false.
Sound ==
    /\ \A o \in Orders : RowSound(service, o, orders[o])
    /\ \A i \in Instances : \A p \in pushing[i] : ClaimSound(service, p)
    /\ \A i \in Instances : \A k \in DOMAIN jobs[i] : ClaimSound(service, jobs[i][k])
    /\ \A i \in Instances, w \in Workers : WorkerSound(service, worker[i][w])

LEMMA SoundNext ==
    ASSUME \A o \in Orders : RowSound(service', o, orders'[o]),
           \A i \in Instances : \A p \in pushing'[i] : ClaimSound(service', p),
           \A i \in Instances : \A k \in DOMAIN jobs'[i] : ClaimSound(service', jobs'[i][k]),
           \A i \in Instances, w \in Workers : WorkerSound(service', worker'[i][w])
    PROVE  Sound'
BY DEF Sound, RowSound, ClaimSound, WorkerSound, Told

LEMMA SoundInit == Init => Sound
<1> SUFFICES ASSUME Init PROVE Sound
  OBVIOUS
<1>1. \A o \in Orders : RowSound(service, o, orders[o])
  BY DEF Init, RowSound
<1>2. \A i \in Instances : pushing[i] = {} /\ jobs[i] = <<>>
  BY DEF Init
<1>3. DOMAIN <<>> = {}
  OBVIOUS
<1>4. \A i \in Instances, w \in Workers : WorkerSound(service, worker[i][w])
  BY DEF Init, Idle, WorkerSound
<1> QED BY <1>1, <1>2, <1>3, <1>4 DEF Sound

\* The service never takes back what it said.
LEMMA ServiceBearsOut ==
    ASSUME TypeOK, NEW u \in Orders, ServiceAdvances(u),
           NEW o \in Orders, NEW status, Told(service, o, status)
    PROVE  Told(service', o, status)
<1>1. service \in [Orders -> ServiceStates]
  BY DEF TypeOK
<1>2. CASE o # u
  <2>1. service'[o] = service[o]
    BY <1>1, <1>2 DEF ServiceAdvances
  <2> QED BY <2>1 DEF Told
<1>3. CASE o = u
  <2>1. service[o] \notin Final /\ service'[o] # "unregistered"
    BY <1>1, <1>3 DEF ServiceAdvances, Final
  <2> QED BY <2>1 DEF Told
<1> QED BY <1>2, <1>3

\* A worker moves on with something sound.
LEMMA WorkerMovesSound ==
    ASSUME TypeOK, Sound, NEW i \in Instances, NEW w \in Workers,
           NEW pc, NEW job, NEW got,
           WorkerGoes(i, w, pc, job, got),
           WorkerSound(service, [pc |-> pc, job |-> job, got |-> got])
    PROVE  \A j \in Instances, v \in Workers : WorkerSound(service, worker'[j][v])
<1>1. ASSUME NEW j \in Instances, NEW v \in Workers PROVE WorkerSound(service, worker'[j][v])
  <2>1. WorkerSound(service, worker[j][v])
    BY DEF Sound
  <2>2. worker'[j][v] = worker[j][v]
        \/ worker'[j][v] = [pc |-> pc, job |-> job, got |-> got]
    BY DEF TypeOK, WorkerGoes
  <2> QED BY <2>1, <2>2
<1> QED BY <1>1

\* What decide makes of an answer says no more than the answer and the claim.
LEMMA DecisionTold ==
    ASSUME NEW svc, NEW job, NEW t, NEW status \in ServiceStates \cup {"failed"},
           Told(svc, job.order, job.status), Told(svc, job.order, status)
    PROVE  Told(svc, job.order, Decision(job, status, t).status)
<1>1. CASE status \in {"failed", "unregistered"}
  <2>1. Decision(job, status, t).status = job.status
    BY <1>1 DEF Decision, LongRetry, Final
  <2> QED BY <2>1
<1>2. CASE status = "PROCESSING"
  <2>1. Decision(job, status, t).status = status
    BY <1>2 DEF Decision, ShortRetry, Final
  <2> QED BY <2>1
<1>3. CASE status \in Final
  <2>1. Decision(job, status, t).status = status
    BY <1>3 DEF Decision, Final
  <2> QED BY <2>1
<1> QED BY <1>1, <1>2, <1>3 DEF ServiceStates

LEMMA SoundWorkerStep ==
    ASSUME TypeOK, Sound, NEW i \in Instances, NEW w \in Workers, WorkerStep(i, w)
    PROVE  Sound'
<1> DEFINE job == worker[i][w].job
           answer == worker[i][w].got
<1>0. /\ \A o \in Orders : RowSound(service, o, orders[o])
      /\ \A j \in Instances : \A p \in pushing[j] : ClaimSound(service, p)
      /\ \A j \in Instances : \A k \in DOMAIN jobs[j] : ClaimSound(service, jobs[j][k])
      /\ WorkerSound(service, worker[i][w])
  BY DEF Sound
<1>1. CASE Receive(i, w)
  <2>1. jobs[i] \in Seq(Pending) /\ jobs[i] # <<>> /\ jobs \in [Instances -> Seq(Pending)]
    BY <1>1 DEF Receive, TypeOK
  <2>2. /\ Head(jobs[i]) = jobs[i][1] /\ 1 \in DOMAIN jobs[i]
        /\ \A k \in DOMAIN Tail(jobs[i]) : k + 1 \in DOMAIN jobs[i]
                                           /\ Tail(jobs[i])[k] = jobs[i][k + 1]
    BY <2>1
  <2>3. /\ UNCHANGED <<service, orders, pushing>>
        /\ WorkerGoes(i, w, "gate", Head(jobs[i]), None)
        /\ jobs' = [jobs EXCEPT ![i] = Tail(jobs[i])]
    BY <1>1 DEF Receive
  <2>4. WorkerSound(service, [pc |-> "gate", job |-> Head(jobs[i]), got |-> None])
    BY <1>0, <2>2 DEF WorkerSound
  <2>5. \A j \in Instances, v \in Workers : WorkerSound(service, worker'[j][v])
    BY <2>3, <2>4, WorkerMovesSound
  <2>6. ASSUME NEW j \in Instances, NEW k \in DOMAIN jobs'[j]
        PROVE  ClaimSound(service, jobs'[j][k])
    <3>1. CASE j = i
      BY <1>0, <2>1, <2>2, <2>3, <3>1
    <3>2. CASE j # i
      BY <1>0, <2>1, <2>3, <3>2
    <3> QED BY <3>1, <3>2
  <2> QED BY <1>0, <2>3, <2>5, <2>6, SoundNext
<1>2. ASSUME NEW pc, NEW got, WorkerGoes(i, w, pc, job, got),
             WorkerSound(service, [pc |-> pc, job |-> job, got |-> got]),
             UNCHANGED <<service, orders, jobs, pushing>>
      PROVE  Sound'
  <2>1. \A j \in Instances, v \in Workers : WorkerSound(service, worker'[j][v])
    BY <1>2, WorkerMovesSound
  <2> QED BY <1>0, <1>2, <2>1, SoundNext
<1>3. worker[i][w].pc # "idle" => ClaimSound(service, job) /\ Told(service, job.order, job.status)
  BY <1>0 DEF WorkerSound, ClaimSound
<1>4. CASE PassGate(i, w)
  <2>1. /\ worker[i][w].pc = "gate"
        /\ UNCHANGED <<service, orders, jobs, pushing>>
        /\ \/ WorkerGoes(i, w, "save", job, Deferral(job, pausedUntil[i]))
           \/ WorkerGoes(i, w, "send", job, None)
    BY <1>4 DEF PassGate
  <2>2. /\ WorkerSound(service, [pc |-> "send", job |-> job, got |-> None])
        /\ WorkerSound(service, [pc |-> "save", job |-> job,
                                 got |-> Deferral(job, pausedUntil[i])])
    BY <1>3, <2>1 DEF WorkerSound, Deferral
  <2> QED BY <1>2, <2>1, <2>2
<1>5. CASE Send(i, w)
  <2>1. /\ worker[i][w].pc = "send"
        /\ UNCHANGED <<service, orders, jobs, pushing>>
        /\ WorkerGoes(i, w, "fetch", job, None)
    BY <1>5 DEF Send
  <2>2. WorkerSound(service, [pc |-> "fetch", job |-> job, got |-> None])
    BY <1>3, <2>1 DEF WorkerSound
  <2> QED BY <1>2, <2>1, <2>2
<1>6. CASE GetAnswer(i, w)
  <2>1. worker[i][w].pc = "fetch" /\ UNCHANGED <<service, orders, jobs, pushing>>
    BY <1>6 DEF GetAnswer
  <2>2. \/ \E status \in {service[job.order], "failed"} :
              WorkerGoes(i, w, "answered", job, [status |-> status, retryAfter |-> 0])
        \/ \E r \in Retries :
              WorkerGoes(i, w, "answered", job, [status |-> "limited", retryAfter |-> r])
    BY <1>6 DEF GetAnswer
  <2>3. ASSUME NEW got, WorkerGoes(i, w, "answered", job, got),
               got.status \in {service[job.order], "failed", "limited"}
        PROVE  Sound'
    <3>1. Told(service, job.order, got.status)
      BY <2>3 DEF Told, Final
    <3>2. WorkerSound(service, [pc |-> "answered", job |-> job, got |-> got])
      BY <1>3, <2>1, <3>1 DEF WorkerSound
    <3> QED BY <1>2, <2>1, <2>3, <3>2
  <2>4. \A status, r : [status |-> status, retryAfter |-> r].status = status
    OBVIOUS
  <2> HIDE DEF job
  <2> QED BY <2>2, <2>3, <2>4
<1>7. CASE HandleAnswer(i, w)
  <2> DEFINE until == ExtendedPause(i, answer.retryAfter)
  <2>1. worker[i][w].pc = "answered" /\ UNCHANGED <<service, orders, jobs, pushing>>
    BY <1>7 DEF HandleAnswer
  <2>2. CASE answer.status = "limited"
    <3>1. WorkerGoes(i, w, "save", job, Deferral(job, until))
      BY <1>7, <2>2 DEF HandleAnswer
    <3>2. WorkerSound(service, [pc |-> "save", job |-> job, got |-> Deferral(job, until)])
      BY <1>3, <2>1 DEF WorkerSound, Deferral
    <3> QED BY <1>2, <2>1, <3>1, <3>2
  <2>3. CASE answer.status # "limited"
    <3>1. WorkerGoes(i, w, "save", job, Decision(job, answer.status, now))
      BY <1>7, <2>3 DEF HandleAnswer
    <3>2. answer.status \in ServiceStates \cup {"failed"}
      BY <2>1, <2>3, WorkerHolds DEF Answer
    <3>3. Told(service, job.order, answer.status)
      BY <1>0, <2>1 DEF WorkerSound
    <3>4. Told(service, job.order, Decision(job, answer.status, now).status)
      BY <1>3, <2>1, <3>2, <3>3, DecisionTold
    <3>5. WorkerSound(service, [pc |-> "save", job |-> job,
                                got |-> Decision(job, answer.status, now)])
      BY <1>3, <2>1, <3>4 DEF WorkerSound
    <3> QED BY <1>2, <2>1, <3>1, <3>5
  <2> QED BY <2>2, <2>3
<1>8. CASE Save(i, w)
  <2>1. /\ worker[i][w].pc = "save" /\ UNCHANGED <<service, jobs, pushing>>
        /\ orders' = [orders EXCEPT ![job.order] = answer] \/ UNCHANGED orders
        /\ WorkerGoes(i, w, "idle", None, None)
    BY <1>8 DEF Save
  <2>2. WorkerSound(service, [pc |-> "idle", job |-> None, got |-> None])
    BY DEF WorkerSound
  <2>3. \A j \in Instances, v \in Workers : WorkerSound(service, worker'[j][v])
    BY <2>1, <2>2, WorkerMovesSound
  <2>4. Told(service, job.order, answer.status)
    BY <1>0, <2>1 DEF WorkerSound
  <2>5. ASSUME NEW o \in Orders PROVE RowSound(service, o, orders'[o])
    <3>1. orders'[o] = orders[o] \/ (o = job.order /\ orders'[o] = answer)
      BY <2>1 DEF TypeOK
    <3> QED BY <1>0, <2>4, <3>1 DEF RowSound
  <2> QED BY <1>0, <2>1, <2>3, <2>5, SoundNext
<1> QED BY <1>1, <1>4, <1>5, <1>6, <1>7, <1>8 DEF WorkerStep

LEMMA SoundStep == TypeOK /\ Sound /\ [Next]_vars => Sound'
<1> SUFFICES ASSUME TypeOK, Sound, [Next]_vars PROVE Sound'
  OBVIOUS
<1>0. /\ \A o \in Orders : RowSound(service, o, orders[o])
      /\ \A j \in Instances : \A p \in pushing[j] : ClaimSound(service, p)
      /\ \A j \in Instances : \A k \in DOMAIN jobs[j] : ClaimSound(service, jobs[j][k])
      /\ \A j \in Instances, v \in Workers : WorkerSound(service, worker[j][v])
  BY DEF Sound
<1>1. CASE UNCHANGED <<orders, service, jobs, pushing, worker>>
  BY <1>0, <1>1, SoundNext
<1>2. ASSUME NEW u \in Orders, ServiceAdvances(u) PROVE Sound'
  <2>1. UNCHANGED <<orders, jobs, pushing, worker>>
    BY <1>2 DEF ServiceAdvances, memory
  <2>2. ASSUME NEW o \in Orders PROVE RowSound(service', o, orders'[o])
    BY <1>0, <1>2, <2>1, ServiceBearsOut DEF RowSound
  <2>3. ASSUME NEW p \in Pending, ClaimSound(service, p) PROVE ClaimSound(service', p)
    <3>1. p.order \in Orders
      BY DEF Pending
    <3> QED BY <1>2, <2>3, <3>1, ServiceBearsOut DEF ClaimSound
  <2>4. ASSUME NEW j \in Instances, NEW p \in pushing'[j] PROVE ClaimSound(service', p)
    BY <1>0, <2>1, <2>3 DEF TypeOK
  <2>5. ASSUME NEW j \in Instances, NEW k \in DOMAIN jobs'[j]
        PROVE  ClaimSound(service', jobs'[j][k])
    <3>1. jobs[j] \in Seq(Pending) /\ k \in DOMAIN jobs[j]
      BY <2>1 DEF TypeOK
    <3>2. jobs[j][k] \in Pending
      BY <3>1
    <3> QED BY <1>0, <2>1, <2>3, <3>1, <3>2
  <2>6. ASSUME NEW j \in Instances, NEW v \in Workers PROVE WorkerSound(service', worker'[j][v])
    <3>1. worker[j][v].pc # "idle" => worker[j][v].job \in Pending
      BY WorkerHolds
    <3>2. WorkerSound(service, worker[j][v])
      BY <1>0
    <3>3. CASE worker[j][v].pc = "idle"
      BY <2>1, <3>3 DEF WorkerSound
    <3>4. CASE worker[j][v].pc # "idle"
      <4>1. worker[j][v].job \in Pending /\ worker[j][v].job.order \in Orders
        BY <3>1, <3>4 DEF Pending
      <4>2. ClaimSound(service', worker[j][v].job)
        BY <2>3, <3>2, <3>4, <4>1 DEF WorkerSound
      <4>3. worker[j][v].pc \in {"answered", "save"} =>
               Told(service', worker[j][v].job.order, worker[j][v].got.status)
        BY <1>2, <3>2, <4>1, ServiceBearsOut DEF WorkerSound
      <4> QED BY <2>1, <4>2, <4>3 DEF WorkerSound
    <3> QED BY <3>3, <3>4
  <2> QED BY <2>2, <2>4, <2>5, <2>6, SoundNext
<1>3. ASSUME NEW i \in Instances, NEW u \in Orders, Upload(i, u) PROVE Sound'
  <2>1. /\ UNCHANGED <<service, jobs, pushing, worker>>
        /\ orders' = [orders EXCEPT ![u] =
                        [status |-> "NEW", attempts |-> 0, backoff |-> "long", next |-> now]]
    BY <1>3 DEF Upload
  <2>2. RowSound(service, u, [status |-> "NEW", attempts |-> 0, backoff |-> "long", next |-> now])
    BY DEF RowSound, Told, Final
  <2>3. orders \in [Orders -> Order \cup {None}]
    BY DEF TypeOK
  <2>4. \A o \in Orders : RowSound(service, o, orders'[o])
    BY <1>0, <2>1, <2>2, <2>3
  <2> QED BY <1>0, <2>1, <2>4, SoundNext
<1>4. ASSUME NEW i \in Instances, NEW S \in SUBSET Orders, \A o \in S : Due(o),
             ClaimOrders(i, S), UNCHANGED <<service, jobs, worker>>
      PROVE  Sound'
  <2>1. \A o \in S : orders[o] \in Order /\ Told(service, o, orders[o].status)
    BY <1>0, <1>4, NoneIsNoOrder DEF Due, TypeOK, RowSound
  <2>2. ASSUME NEW o \in Orders PROVE RowSound(service, o, orders'[o])
    <3>1. CASE o \in S
      <4>1. orders'[o] = Leased(o)
        BY <1>4, <3>1 DEF ClaimOrders
      <4>2. Leased(o).status = orders[o].status
        BY <2>1, <3>1 DEF Leased, Order
      <4> QED BY <2>1, <3>1, <4>1, <4>2 DEF RowSound
    <3>2. CASE o \notin S
      <4>1. orders'[o] = orders[o]
        BY <1>4, <3>2 DEF ClaimOrders
      <4> QED BY <1>0, <4>1
    <3> QED BY <3>1, <3>2
  <2>3. \A o \in S : ClaimSound(service, PendingOf(o))
    BY <2>1 DEF ClaimSound, PendingOf
  <2>4. \A j \in Instances : \A p \in pushing'[j] :
           p \in pushing[j] \/ \E o \in S : p = PendingOf(o)
    <3>1. pushing' = [pushing EXCEPT ![i] = {PendingOf(o) : o \in S}] \/ UNCHANGED pushing
      BY <1>4 DEF ClaimOrders
    <3>2. pushing \in [Instances -> SUBSET Pending]
      BY DEF TypeOK
    <3> QED BY <3>1, <3>2
  <2>5. \A j \in Instances : \A p \in pushing'[j] : ClaimSound(service, p)
    BY <1>0, <2>3, <2>4
  <2> QED BY <1>0, <1>4, <2>2, <2>5, SoundNext
<1>5. ASSUME NEW i \in Instances, NEW u \in Orders, ClaimNotified(i, u) PROVE Sound'
  <2>1. UNCHANGED <<service, jobs, worker>>
    BY <1>5 DEF ClaimNotified
  <2>2. CASE Due(u) /\ ClaimOrders(i, {u})
    <3>1. {u} \in SUBSET Orders /\ \A o \in {u} : Due(o)
      BY <2>2
    <3> QED BY <1>4, <2>1, <2>2, <3>1
  <2> QED BY <1>1, <1>5, <2>1, <2>2 DEF ClaimNotified
<1>6. ASSUME NEW i \in Instances, ClaimDue(i) PROVE Sound'
  <2>1. PICK S \in SUBSET Orders : Selectable(S, FreeSlots(i)) /\ ClaimOrders(i, S)
    BY <1>6 DEF ClaimDue
  <2>2. (\A o \in S : Due(o)) /\ UNCHANGED <<service, jobs, worker>>
    BY <1>6, <2>1 DEF Selectable, ClaimDue
  <2> QED BY <1>4, <2>1, <2>2
<1>7. ASSUME NEW i \in Instances, Push(i) PROVE Sound'
  <2>1. PICK p \in pushing[i] : /\ pushing' = [pushing EXCEPT ![i] = pushing[i] \ {p}]
                                /\ jobs' = [jobs EXCEPT ![i] = Append(jobs[i], p)]
    BY <1>7 DEF Push
  <2>2. UNCHANGED <<orders, service, worker>>
    BY <1>7 DEF Push
  <2>3. ClaimSound(service, p)
    BY <1>0
  <2>4. \A j \in Instances : \A q \in pushing'[j] : ClaimSound(service, q)
    BY <1>0, <2>1 DEF TypeOK
  <2>5. jobs[i] \in Seq(Pending) /\ p \in Pending /\ jobs \in [Instances -> Seq(Pending)]
    BY DEF TypeOK
  <2>6. \A k \in DOMAIN Append(jobs[i], p) :
           \/ Append(jobs[i], p)[k] = p
           \/ k \in DOMAIN jobs[i] /\ Append(jobs[i], p)[k] = jobs[i][k]
    BY <2>5
  <2>7. ASSUME NEW j \in Instances, NEW k \in DOMAIN jobs'[j]
        PROVE  ClaimSound(service, jobs'[j][k])
    <3>1. CASE j = i
      <4>1. jobs'[j] = Append(jobs[i], p)
        BY <2>1, <2>5, <3>1
      <4> QED BY <1>0, <2>3, <2>6, <4>1
    <3>2. CASE j # i
      <4>1. jobs'[j] = jobs[j]
        BY <2>1, <2>5, <3>2
      <4> QED BY <1>0, <4>1
    <3> QED BY <3>1, <3>2
  <2> QED BY <1>0, <2>2, <2>4, <2>7, SoundNext
<1>8. ASSUME NEW i \in Instances, Restart(i) PROVE Sound'
  <2>1. UNCHANGED <<orders, service>>
    BY <1>8 DEF Restart
  <2>2. \A j \in Instances :
           \/ /\ pushing'[j] = {} /\ jobs'[j] = <<>>
              /\ \A w \in Workers : worker'[j][w] = Idle
           \/ /\ pushing'[j] = pushing[j] /\ jobs'[j] = jobs[j]
              /\ \A w \in Workers : worker'[j][w] = worker[j][w]
    BY <1>8 DEF Restart, TypeOK
  <2>3. DOMAIN <<>> = {}
    OBVIOUS
  <2>4. WorkerSound(service, Idle)
    BY DEF WorkerSound, Idle
  <2>5. /\ \A j \in Instances : \A p \in pushing'[j] : ClaimSound(service, p)
        /\ \A j \in Instances : \A k \in DOMAIN jobs'[j] : ClaimSound(service, jobs'[j][k])
        /\ \A j \in Instances, v \in Workers : WorkerSound(service, worker'[j][v])
    BY <1>0, <2>2, <2>3, <2>4
  <2> QED BY <1>0, <2>1, <2>5, SoundNext
<1>9. CASE Tick
  BY <1>1, <1>9 DEF Tick, memory
<1>10. CASE UNCHANGED vars
  BY <1>1, <1>10 DEF vars
<1> QED BY <1>2, <1>3, <1>5, <1>6, <1>7, <1>8, <1>9, <1>10, SoundWorkerStep DEF Next
-----------------------------------------------------------------------------
\* What the life cycle sees of a row.
StatusOf(row) == IF row = None THEN None ELSE row.status

LEMMA LifecycleStutters ==
    ASSUME \A o \in Orders : StatusOf(orders'[o]) = StatusOf(orders[o]), UNCHANGED service
    PROVE  UNCHANGED Lifecycle!vars
<1>1. [o \in Orders |-> StatusOf(orders'[o])] = [o \in Orders |-> StatusOf(orders[o])]
  OBVIOUS
<1> QED BY <1>1 DEF Lifecycle!vars, StatusOf

\* A claim is no step of the life cycle.
LEMMA LifecycleClaim ==
    ASSUME TypeOK, NEW i \in Instances, NEW S \in SUBSET Orders, \A o \in S : Due(o),
           ClaimOrders(i, S), UNCHANGED service
    PROVE  UNCHANGED Lifecycle!vars
<1>1. ASSUME NEW o \in Orders PROVE StatusOf(orders'[o]) = StatusOf(orders[o])
  <2>1. CASE o \in S
    <3>1. orders[o] \in Order /\ orders[o] # None
      BY <2>1 DEF Due, TypeOK
    <3>2. /\ Leased(o).status = orders[o].status
          /\ Leased(o) \in Order
      <4>1. now + Lease \in Nat
        BY ConstantsAssumption DEF TypeOK
      <4> QED BY <3>1, <4>1 DEF Leased, Order
    <3>3. orders'[o] = Leased(o)
      BY <2>1 DEF ClaimOrders
    <3> QED BY <3>1, <3>2, <3>3, NoneIsNoOrder DEF StatusOf
  <2>2. CASE o \notin S
    BY <2>2 DEF ClaimOrders
  <2> QED BY <2>1, <2>2
<1> QED BY <1>1, LifecycleStutters

\* What Save writes is a step of the life cycle, or what the row says already.
LEMMA LifecycleSave ==
    ASSUME TypeOK, Sound, NEW i \in Instances, NEW w \in Workers, Save(i, w)
    PROVE  [Lifecycle!Next]_Lifecycle!vars
<1> DEFINE update == worker[i][w].got
           state == [p \in Orders |-> StatusOf(orders[p])]
<1>1. worker[i][w].pc = "save" /\ UNCHANGED service
  BY DEF Save
<1>0. worker[i][w].job.order \in Orders
  BY <1>1, WorkerHolds DEF Pending
<1> PICK o \in Orders : o = worker[i][w].job.order
  BY <1>0
<1>2. update \in Order /\ Told(service, o, update.status)
  <2>1. WorkerSound(service, worker[i][w])
    BY DEF Sound
  <2> QED BY <1>1, <2>1, WorkerHolds DEF Update, WorkerSound
<1>3. CASE UNCHANGED orders
  BY <1>1, <1>3, LifecycleStutters
<1>4. CASE Saveable(o, update.status) /\ orders' = [orders EXCEPT ![o] = update]
  <2>1. /\ orders[o] # None /\ orders[o].status \in Unfinished
        /\ ~(orders[o].status = "PROCESSING" /\ update.status = "NEW")
    BY <1>4 DEF Saveable
  <2>2. update # None /\ update.status \in Unfinished \cup Final
    BY <1>2, NoneIsNoOrder DEF Order
  <2> HIDE DEF update
  <2>3. \A p \in Orders : orders'[p] = IF p = o THEN update ELSE orders[p]
    BY <1>2, <1>4 DEF TypeOK
  <2>4. [p \in Orders |-> StatusOf(orders'[p])] = [state EXCEPT ![o] = update.status]
    BY <1>2, <2>2, <2>3 DEF StatusOf
  <2>5. state[o] = orders[o].status
    BY <1>2, <2>1 DEF StatusOf
  <2>6. CASE update.status = orders[o].status
    <3>1. \A p \in Orders : StatusOf(orders'[p]) = StatusOf(orders[p])
      BY <2>1, <2>2, <2>3, <2>6 DEF StatusOf
    <3> QED BY <1>1, <3>1, LifecycleStutters
  <2>7. CASE update.status = "PROCESSING" /\ orders[o].status = "NEW"
    <3>1. service[o] # "unregistered"
      BY <1>2, <2>7 DEF Told
    <3>2. Lifecycle!StartProcessing(o)
      BY <1>1, <2>4, <2>5, <2>7, <3>1 DEF Lifecycle!StartProcessing, StatusOf
    <3> QED BY <1>2, <3>2 DEF Lifecycle!Next
  <2>8. CASE update.status \in Final
    <3>1. service[o] = update.status
      BY <1>2, <2>8 DEF Told
    <3>2. Lifecycle!Finish(o)
      BY <1>1, <2>1, <2>4, <2>5, <2>8, <3>1
         DEF Lifecycle!Finish, Lifecycle!Final, Final, Unfinished, StatusOf
    <3> QED BY <1>2, <3>2 DEF Lifecycle!Next
  <2> QED BY <2>1, <2>2, <2>6, <2>7, <2>8 DEF Unfinished
<1> QED BY <1>3, <1>4 DEF Save

LEMMA LifecycleStep ==
    TypeOK /\ Sound /\ [Next]_vars => [Lifecycle!Next]_Lifecycle!vars
<1> SUFFICES ASSUME TypeOK, Sound, [Next]_vars PROVE [Lifecycle!Next]_Lifecycle!vars
  OBVIOUS
<1>1. CASE UNCHANGED <<orders, service>>
  BY <1>1, LifecycleStutters
<1>2. ASSUME NEW u \in Orders, ServiceAdvances(u) PROVE [Lifecycle!Next]_Lifecycle!vars
  <2>1. UNCHANGED orders
    BY <1>2 DEF ServiceAdvances
  <2>2. Lifecycle!Register(u) \/ \E final \in Final : Lifecycle!Conclude(u, final)
    BY <1>2, <2>1 DEF ServiceAdvances, Lifecycle!Register, Lifecycle!Conclude
  <2> QED BY <2>2 DEF Lifecycle!Next, Lifecycle!Final, Final
<1>3. ASSUME NEW i \in Instances, NEW u \in Orders, Upload(i, u)
      PROVE  [Lifecycle!Next]_Lifecycle!vars
  <2> DEFINE state == [p \in Orders |-> StatusOf(orders[p])]
             row == [status |-> "NEW", attempts |-> 0, backoff |-> "long", next |-> now]
  <2>1. /\ orders[u] = None /\ UNCHANGED service
        /\ orders' = [orders EXCEPT ![u] = row]
    BY <1>3 DEF Upload
  <2>2. row # None /\ row.status = "NEW"
    <3>1. row \in Order
      BY ConstantsAssumption DEF TypeOK, Order, Unfinished, Backoffs
    <3> QED BY <3>1, NoneIsNoOrder
  <2> HIDE DEF row
  <2>3. \A p \in Orders : orders'[p] = IF p = u THEN row ELSE orders[p]
    BY <2>1 DEF TypeOK
  <2>4. [p \in Orders |-> StatusOf(orders'[p])] = [state EXCEPT ![u] = "NEW"]
    BY <2>2, <2>3 DEF StatusOf
  <2>5. state[u] = None
    BY <2>1 DEF StatusOf
  <2>6. Lifecycle!Upload(u)
    BY <2>1, <2>4, <2>5 DEF Lifecycle!Upload, StatusOf
  <2> QED BY <2>6 DEF Lifecycle!Next
<1>4. ASSUME NEW i \in Instances, NEW u \in Orders, ClaimNotified(i, u)
      PROVE  [Lifecycle!Next]_Lifecycle!vars
  <2>1. UNCHANGED service
    BY <1>4 DEF ClaimNotified
  <2>2. CASE Due(u) /\ ClaimOrders(i, {u})
    <3>1. {u} \in SUBSET Orders /\ \A o \in {u} : Due(o)
      BY <2>2
    <3> QED BY <2>1, <2>2, <3>1, LifecycleClaim
  <2> QED BY <1>1, <1>4, <2>1, <2>2 DEF ClaimNotified
<1>5. ASSUME NEW i \in Instances, ClaimDue(i) PROVE [Lifecycle!Next]_Lifecycle!vars
  <2>1. PICK S \in SUBSET Orders : Selectable(S, FreeSlots(i)) /\ ClaimOrders(i, S)
    BY <1>5 DEF ClaimDue
  <2>2. (\A o \in S : Due(o)) /\ UNCHANGED service
    BY <1>5, <2>1 DEF Selectable, ClaimDue
  <2> QED BY <2>1, <2>2, LifecycleClaim
<1>6. ASSUME NEW i \in Instances, NEW w \in Workers, WorkerStep(i, w), ~Save(i, w)
      PROVE  UNCHANGED <<orders, service>>
  BY <1>6 DEF WorkerStep, Receive, PassGate, Send, GetAnswer, HandleAnswer
<1>7. ASSUME NEW i \in Instances, Push(i) \/ Restart(i) PROVE UNCHANGED <<orders, service>>
  BY <1>7 DEF Push, Restart
<1>8. CASE Tick
  BY <1>1, <1>8 DEF Tick
<1>9. CASE UNCHANGED vars
  BY <1>1, <1>9 DEF vars
<1> QED BY <1>1, <1>2, <1>3, <1>4, <1>5, <1>6, <1>7, <1>8, <1>9, LifecycleSave DEF Next

\* Polling implements the life cycle of an order, for any number of instances,
\* workers and orders: what is written was true of the service, and Save's
\* guards keep a late write from undoing a newer one.
THEOREM ImplementsLifecycle == Spec => LifecycleSpec
<1>1. Init => Lifecycle!Init
  BY DEF Init, Lifecycle!Init
<1>2. Spec => []Sound
  BY SoundInit, SoundStep, TypeCorrect, PTL DEF Spec
<1> QED BY <1>1, <1>2, LifecycleStep, TypeCorrect, PTL DEF Spec, LifecycleSpec, Lifecycle!Spec
=============================================================================
