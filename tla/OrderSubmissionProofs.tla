----------------------- MODULE OrderSubmissionProofs -----------------------
(***************************************************************************)
(* Proofs about OrderSubmission.tla for every set of users, numbers and    *)
(* requests, every hash function and every capacity of the channel: the    *)
(* answers are true, and uploads implement the ownership of numbers.       *)
(***************************************************************************)
EXTENDS OrderSubmission, FiniteSetTheorems, TLAPS

\* A request in progress has an upload and no answer; an answered one had one.
RequestShape ==
    \A r \in Requests :
        /\ pc[r] # "idle" => req[r] \in Order /\ resp[r] = "none"
        /\ resp[r] # "none" => req[r] \in Order

\* A request notifies only of the row it inserted itself, once.
NotifierInserted ==
    \A r \in Requests : pc[r] = "notify" =>
        /\ orders[Hash[req[r].number]] = req[r]
        /\ accepted[req[r].number] = << >>
        /\ \A q \in Requests \ {r} :
              pc[q] = "notify" => req[q].number # req[r].number

\* A 202 was given only for a number that is stored.
AcceptedAreStored == \A n \in Numbers : accepted[n] # << >> => Stored(n)

Inv ==
    /\ TypeOK
    /\ IsFiniteSet(notify)
    /\ RequestShape
    /\ NotifierInserted
    /\ AcceptedAreStored
    /\ AnswersAreTrue
    /\ NotifiedOrdersAreStored
-----------------------------------------------------------------------------
LEMMA InitInv == Init => Inv
<1> SUFFICES ASSUME Init PROVE Inv
  OBVIOUS
<1>1. TypeOK /\ IsFiniteSet(notify)
  BY FS_EmptySet, ConstantsAssumption DEF Init, TypeOK, PCs, Responses
<1>2. RequestShape /\ NotifierInserted /\ AcceptedAreStored
  BY DEF Init, RequestShape, NotifierInserted, AcceptedAreStored
<1>3. AnswersAreTrue /\ NotifiedOrdersAreStored
  BY DEF Init, AnswersAreTrue, NotifiedOrdersAreStored
<1> QED BY <1>1, <1>2, <1>3 DEF Inv

\* Nothing changes a row of the orders table: ON CONFLICT DO NOTHING.
LEMMA RowsStay ==
    ASSUME TypeOK, RequestShape, [Next]_vars
    PROVE  \A h \in Hashes : orders[h] # None => orders'[h] = orders[h]
<1>1. ASSUME NEW r \in Requests, Add(r)
      PROVE  \A h \in Hashes : orders[h] # None => orders'[h] = orders[h]
  BY <1>1 DEF Add, TypeOK
<1>2. CASE UNCHANGED orders
  BY <1>2
<1>3. UNCHANGED orders \/ \E r \in Requests : Add(r)
  BY DEF Next, vars, Receive, ReadConflict, GetExisting, Notify, Fail, TakeNotification
<1> QED BY <1>1, <1>2, <1>3

\* So what is stored stays stored, with its owner.
LEMMA StoredStays ==
    ASSUME TypeOK, RequestShape, [Next]_vars
    PROVE  \A n \in Numbers : Stored(n) => Stored(n)' /\ orders'[Hash[n]] = orders[Hash[n]]
<1>1. \A n \in Numbers : Hash[n] \in Hashes
  BY ConstantsAssumption
<1> QED BY <1>1, RowsStay DEF Stored

\* An upload is stored exactly when its own row is there.
LEMMA OwnRowIsStored ==
    ASSUME NEW upload \in Order, orders[Hash[upload.number]] = upload
    PROVE  Stored(upload.number)
BY ConstantsAssumption DEF Stored, Order
-----------------------------------------------------------------------------
LEMMA TypeStep ==
    ASSUME Inv, [Next]_vars
    PROVE  TypeOK' /\ IsFiniteSet(notify)'
<1>1. ASSUME NEW r \in Requests, NEW upload \in Order, Receive(r, upload)
      PROVE  TypeOK' /\ IsFiniteSet(notify)'
  BY <1>1 DEF Receive, Inv, TypeOK, PCs, Responses
<1>2. ASSUME NEW r \in Requests, Add(r)
      PROVE  TypeOK' /\ IsFiniteSet(notify)'
  <2>1. req[r] \in Order
    BY <1>2 DEF Add, Inv, RequestShape
  <2> QED BY <1>2, <2>1 DEF Add, Goto, Answer, Inv, TypeOK, PCs, Responses
<1>3. ASSUME NEW r \in Requests, ReadConflict(r) \/ GetExisting(r) \/ Fail(r)
      PROVE  TypeOK' /\ IsFiniteSet(notify)'
  <2>1. UNCHANGED <<orders, notify, req, accepted>>
    BY <1>3 DEF ReadConflict, GetExisting, Fail, Goto, Answer
  <2>2. pc' \in [Requests -> PCs] /\ resp' \in [Requests -> Responses]
    BY <1>3 DEF ReadConflict, GetExisting, Fail, Goto, Answer, Inv, TypeOK, PCs, Responses
  <2> QED BY <2>1, <2>2 DEF Inv, TypeOK
<1>4. ASSUME NEW r \in Requests, Notify(r)
      PROVE  TypeOK' /\ IsFiniteSet(notify)'
  <2>1. req[r] \in Order /\ req[r].number \in Numbers /\ req[r].user \in Users
    BY <1>4 DEF Notify, Inv, RequestShape, Order
  <2>2. IsFiniteSet(notify') /\ Cardinality(notify') <= NotifyBuffer
    <3>1. Cardinality(notify) \in Nat
      BY FS_CardinalityType DEF Inv
    <3>2. CASE Cardinality(notify) < NotifyBuffer
      <4>1. notify' = notify \cup {req[r].number}
        BY <1>4, <3>2 DEF Notify
      <4>2. /\ IsFiniteSet(notify')
            /\ Cardinality(notify') \in {Cardinality(notify), Cardinality(notify) + 1}
        BY <4>1, FS_AddElement DEF Inv
      <4> QED BY <3>1, <3>2, <4>2, ConstantsAssumption
    <3>3. CASE ~(Cardinality(notify) < NotifyBuffer)
      BY <1>4, <3>3 DEF Notify, Inv, TypeOK
    <3> QED BY <3>2, <3>3
  <2>3. accepted' \in [Numbers -> Seq(Users)]
    BY <1>4, <2>1 DEF Notify, Inv, TypeOK
  <2> QED BY <1>4, <2>1, <2>2, <2>3 DEF Notify, Answer, Inv, TypeOK, PCs, Responses
<1>5. ASSUME NEW n \in Numbers, TakeNotification(n)
      PROVE  TypeOK' /\ IsFiniteSet(notify)'
  <2>1. IsFiniteSet(notify') /\ Cardinality(notify') <= NotifyBuffer
    <3>1. Cardinality(notify) \in Nat
      BY FS_CardinalityType DEF Inv
    <3>2. /\ IsFiniteSet(notify')
          /\ Cardinality(notify') \in {Cardinality(notify), Cardinality(notify) - 1}
      BY <1>5, FS_RemoveElement DEF TakeNotification, Inv
    <3>3. Cardinality(notify) <= NotifyBuffer
      BY DEF Inv, TypeOK
    <3> QED BY <3>1, <3>2, <3>3, ConstantsAssumption
  <2> QED BY <1>5, <2>1 DEF TakeNotification, Inv, TypeOK
<1>6. CASE UNCHANGED vars
  BY <1>6 DEF vars, Inv, TypeOK
<1> QED BY <1>1, <1>2, <1>3, <1>4, <1>5, <1>6 DEF Next

LEMMA ShapeStep ==
    ASSUME TypeOK, RequestShape, [Next]_vars
    PROVE  RequestShape'
<1>1. ASSUME NEW r \in Requests, NEW upload \in Order, Receive(r, upload)
      PROVE  RequestShape'
  BY <1>1 DEF Receive, TypeOK, RequestShape
<1>2. ASSUME NEW r \in Requests,
             Add(r) \/ ReadConflict(r) \/ GetExisting(r) \/ Notify(r) \/ Fail(r)
      PROVE  RequestShape'
  <2>1. pc[r] # "idle" /\ UNCHANGED req /\ req[r] \in Order
    BY <1>2 DEF Add, ReadConflict, GetExisting, Notify, Fail, Goto, Answer, RequestShape
  <2>2. \/ \E l \in PCs : Goto(r, l)
        \/ \E a \in Responses : Answer(r, a)
    BY <1>2 DEF Add, ReadConflict, GetExisting, Notify, Fail, PCs, Responses
  <2> QED BY <2>1, <2>2 DEF Goto, Answer, TypeOK, RequestShape
<1>3. CASE UNCHANGED <<pc, req, resp>>
  BY <1>3 DEF RequestShape
<1> QED BY <1>1, <1>2, <1>3 DEF Next, vars, TakeNotification

LEMMA NotifierStep ==
    ASSUME Inv, [Next]_vars, RequestShape'
    PROVE  NotifierInserted' /\ AcceptedAreStored'
<1>0. /\ TypeOK /\ RequestShape /\ NotifierInserted /\ AcceptedAreStored
      /\ \A h \in Hashes : orders[h] # None => orders'[h] = orders[h]
      /\ \A n \in Numbers : Stored(n) => Stored(n)'
  BY RowsStay, StoredStays DEF Inv
<1>1. ASSUME NEW r \in Requests, Add(r), pc'[r] = "notify"
      PROVE  NotifierInserted' /\ AcceptedAreStored'
  <2> DEFINE h == Hash[req[r].number]
  <2>1. req[r] \in Order /\ req[r] # None /\ h \in Hashes /\ req[r].number \in Numbers
    BY <1>0, <1>1, ConstantsAssumption DEF Add, RequestShape, Order
  <2>2. orders[h] = None /\ orders'[h] = req[r] /\ UNCHANGED <<req, accepted>>
    BY <1>0, <1>1, <2>1 DEF Add, Goto, Answer, TypeOK
  <2>3. \A q \in Requests \ {r} : pc'[q] = pc[q]
    BY <1>0, <1>1 DEF Add, Goto, Answer, TypeOK
  <2>4. accepted[req[r].number] = << >>
    BY <1>0, <2>1, <2>2 DEF AcceptedAreStored, Stored
  <2>5. \A q \in Requests \ {r} : pc[q] = "notify" =>
            req[q] \in Order /\ req[q] # None /\ req[q].number # req[r].number
                /\ Hash[req[q].number] \in Hashes
    BY <1>0, <2>1, <2>2, ConstantsAssumption DEF NotifierInserted, RequestShape, Order
  <2>6. NotifierInserted'
    <3> SUFFICES ASSUME NEW q \in Requests, pc'[q] = "notify"
                 PROVE  /\ orders'[Hash[req[q].number]] = req[q]
                        /\ accepted[req[q].number] = << >>
                        /\ \A p \in Requests \ {q} :
                              pc'[p] = "notify" => req[p].number # req[q].number
      BY <2>2 DEF NotifierInserted
    <3>1. CASE q = r
      BY <2>2, <2>3, <2>4, <2>5, <3>1
    <3>2. CASE q # r
      BY <1>0, <2>3, <2>5, <3>2 DEF NotifierInserted
    <3> QED BY <3>1, <3>2
  <2>7. AcceptedAreStored'
    BY <1>0, <2>2 DEF AcceptedAreStored, TypeOK
  <2> QED BY <2>6, <2>7
<1>2. ASSUME NEW r \in Requests, Notify(r)
      PROVE  NotifierInserted' /\ AcceptedAreStored'
  <2>1. req[r] \in Order /\ Stored(req[r].number)
    BY <1>0, <1>2, OwnRowIsStored DEF Notify, RequestShape, NotifierInserted
  <2>2. /\ UNCHANGED <<orders, req>>
        /\ accepted' = [accepted EXCEPT ![req[r].number] = Append(@, req[r].user)]
        /\ pc' = [pc EXCEPT ![r] = "idle"]
    BY <1>2 DEF Notify, Answer
  <2>3. NotifierInserted'
    BY <1>0, <1>2, <2>2 DEF Notify, NotifierInserted, TypeOK
  <2>4. AcceptedAreStored'
    BY <1>0, <2>1, <2>2 DEF AcceptedAreStored, Stored
  <2> QED BY <2>3, <2>4
<1>3. CASE /\ UNCHANGED accepted
           /\ \A r \in Requests : pc'[r] = "notify" => pc[r] = "notify" /\ req'[r] = req[r]
  <2>1. AcceptedAreStored'
    BY <1>0, <1>3 DEF AcceptedAreStored, TypeOK
  <2>2. \A r \in Requests : pc[r] = "notify" =>
            /\ Hash[req[r].number] \in Hashes
            /\ orders[Hash[req[r].number]] # None
    BY <1>0, ConstantsAssumption DEF NotifierInserted, RequestShape, Order
  <2>3. NotifierInserted'
    BY <1>0, <1>3, <2>2 DEF NotifierInserted
  <2> QED BY <2>1, <2>3
<1>4. \/ \E r \in Requests : Add(r) /\ pc'[r] = "notify"
      \/ \E r \in Requests : Notify(r)
      \/ /\ UNCHANGED accepted
         /\ \A r \in Requests : pc'[r] = "notify" => pc[r] = "notify" /\ req'[r] = req[r]
  BY <1>0 DEF Next, vars, Receive, Add, ReadConflict, GetExisting, Fail, TakeNotification,
     Goto, Answer, TypeOK
<1> QED BY <1>1, <1>2, <1>3, <1>4

LEMMA NotifiedStep ==
    ASSUME Inv, [Next]_vars
    PROVE  NotifiedOrdersAreStored'
<1>0. \A n \in Numbers : Stored(n) => Stored(n)'
  BY StoredStays DEF Inv
<1>1. notify' \subseteq notify \/ \E r \in Requests : Notify(r)
  BY DEF Next, vars, Receive, Add, ReadConflict, GetExisting, Fail, TakeNotification
<1>2. CASE notify' \subseteq notify
  BY <1>0, <1>2 DEF Inv, TypeOK, NotifiedOrdersAreStored
<1>3. ASSUME NEW r \in Requests, Notify(r)
      PROVE  NotifiedOrdersAreStored'
  <2>1. Stored(req[r].number) /\ req[r].number \in Numbers
    BY <1>3, OwnRowIsStored DEF Notify, Inv, RequestShape, NotifierInserted, Order
  <2>2. notify' \subseteq notify \cup {req[r].number}
    BY <1>3 DEF Notify
  <2> QED BY <1>0, <2>1, <2>2 DEF Inv, TypeOK, NotifiedOrdersAreStored
<1> QED BY <1>1, <1>2, <1>3

\* What an answer says of the table.
Truth(r) ==
    LET row == orders[Hash[req[r].number]] IN
    /\ resp[r] \in {"accepted", "already uploaded"} => row = req[r]
    /\ resp[r] = "conflict" => Stored(req[r].number) /\ row.user # req[r].user

\* Answers that were given stay true, and the ones given now are.
LEMMA AnswersStep ==
    ASSUME Inv, [Next]_vars
    PROVE  AnswersAreTrue'
<1>0. /\ TypeOK /\ RequestShape /\ NotifierInserted /\ AnswersAreTrue
      /\ \A n \in Numbers : Stored(n) => Stored(n)' /\ orders'[Hash[n]] = orders[Hash[n]]
  BY StoredStays DEF Inv
<1> SUFFICES ASSUME NEW r \in Requests PROVE Truth(r)'
  BY DEF Truth, AnswersAreTrue
<1>1. CASE resp'[r] \in {"none", "error"}
  BY <1>1 DEF Truth
<1>2. CASE resp'[r] \notin {"none", "error"} /\ resp'[r] = resp[r] /\ req'[r] = req[r]
  <2>1. req[r] \in Order /\ req[r].number \in Numbers
    BY <1>0, <1>2 DEF RequestShape, Order
  <2>2. resp[r] \in {"accepted", "already uploaded"} \/ resp[r] = "conflict"
    BY <1>0, <1>2 DEF TypeOK, Responses
  <2>3. Stored(req[r].number)
    BY <1>0, <2>1, <2>2, OwnRowIsStored DEF AnswersAreTrue
  <2> QED BY <1>0, <1>2, <2>1, <2>3 DEF Truth, AnswersAreTrue
<1>3. CASE Notify(r)
  <2>1. UNCHANGED <<orders, req>> /\ resp'[r] = "accepted"
    BY <1>0, <1>3 DEF Notify, Answer, TypeOK
  <2> QED BY <1>0, <1>3, <2>1 DEF Notify, NotifierInserted, Truth
<1>4. CASE GetExisting(r)
  <2>1. UNCHANGED <<orders, req>> /\ req[r] \in Order
    BY <1>0, <1>4 DEF GetExisting, Answer, RequestShape
  <2>2. CASE ~Stored(req[r].number)
    BY <1>0, <1>4, <2>2 DEF GetExisting, Answer, TypeOK, Truth
  <2>3. CASE Stored(req[r].number)
    <3> DEFINE row == orders[Hash[req[r].number]]
    <3>1. row \in Order /\ row.number = req[r].number
      BY <1>0, <2>1, <2>3, ConstantsAssumption DEF Stored, TypeOK, Order
    <3>2. row.user = req[r].user => row = req[r]
      BY <2>1, <3>1 DEF Order
    <3>3. resp'[r] = IF row.user = req[r].user THEN "already uploaded" ELSE "conflict"
      BY <1>0, <1>4, <2>3 DEF GetExisting, Answer, TypeOK
    <3>4. Stored(req[r].number)'
      BY <2>1, <2>3 DEF Stored
    <3> QED BY <2>1, <3>2, <3>3, <3>4 DEF Truth
  <2> QED BY <2>2, <2>3
<1>5. \/ resp'[r] \in {"none", "error"}
      \/ resp'[r] = resp[r] /\ req'[r] = req[r]
      \/ Notify(r) \/ GetExisting(r)
  <2> DEFINE Goal == \/ resp'[r] \in {"none", "error"}
                     \/ resp'[r] = resp[r] /\ req'[r] = req[r]
                     \/ Notify(r) \/ GetExisting(r)
  <2>1. ASSUME NEW q \in Requests, NEW o \in Order, Receive(q, o)
        PROVE  Goal
    BY <1>0, <2>1 DEF Receive, TypeOK
  <2>2. ASSUME NEW q \in Requests, Add(q) \/ ReadConflict(q) \/ Fail(q)
        PROVE  Goal
    BY <1>0, <2>2 DEF Add, ReadConflict, Fail, Goto, Answer, TypeOK, RequestShape
  <2>3. ASSUME NEW q \in Requests, q # r, Notify(q) \/ GetExisting(q)
        PROVE  Goal
    BY <1>0, <2>3 DEF Notify, GetExisting, Answer, TypeOK
  <2>4. (\E n \in Numbers : TakeNotification(n)) \/ UNCHANGED vars => Goal
    BY DEF TakeNotification, vars
  <2> HIDE DEF Goal
  <2>5. Goal
    BY <1>0, <2>1, <2>2, <2>3, <2>4 DEF Next, Goal
  <2> QED BY <2>5 DEF Goal
<1> QED BY <1>1, <1>2, <1>3, <1>4, <1>5

LEMMA Invariance == Spec => []Inv
<1>1. Inv /\ [Next]_vars => Inv'
  <2> SUFFICES ASSUME Inv, [Next]_vars PROVE Inv'
    OBVIOUS
  <2>1. RequestShape'
    BY ShapeStep DEF Inv
  <2> QED BY <2>1, TypeStep, NotifierStep, NotifiedStep, AnswersStep DEF Inv
<1> QED BY <1>1, InitInv, PTL DEF Spec
-----------------------------------------------------------------------------
\* Every variable of the model of uploads keeps its type, and the channel its
\* capacity.
THEOREM TypeCorrect == Spec => []TypeOK
BY Invariance, PTL DEF Inv

\* 202, 200 and 409 agree with the table for ever, whoever uploads what at the
\* same time (service.go:62-78).
THEOREM TrueAnswers == Spec => []AnswersAreTrue
BY Invariance, PTL DEF Inv

\* Only stored numbers reach the worker's channel (service.go:75).
THEOREM NotifiedAreStored == Spec => []NotifiedOrdersAreStored
BY Invariance, PTL DEF Inv
-----------------------------------------------------------------------------
LEMMA OwnershipInit == Init => Promise!Init
BY ConstantsAssumption DEF Init, Promise!Init, Stored

LEMMA OwnershipStep ==
    ASSUME Inv, [Next]_vars
    PROVE  [Promise!Next]_Promise!vars
<1> DEFINE owner == [n \in Numbers |-> IF Stored(n) THEN orders[Hash[n]].user ELSE None]
<1>0. /\ TypeOK /\ RequestShape /\ NotifierInserted
      /\ \A n \in Numbers : Stored(n) => orders[Hash[n]].user \in Users
  <2>1. \A n \in Numbers : Stored(n) => orders[Hash[n]] \in Order
    BY ConstantsAssumption DEF Inv, TypeOK, Stored
  <2> QED BY <2>1 DEF Inv, Order
<1>1. CASE UNCHANGED <<orders, accepted>>
  BY <1>1 DEF Promise!vars, Stored
<1>2. ASSUME NEW r \in Requests, Add(r), orders' # orders
      PROVE  Promise!Next
  <2>0. req[r] \in Order
    BY <1>0, <1>2 DEF Add, RequestShape
  <2>1. PICK uploader \in Users, m \in Numbers :
            /\ req[r] = [user |-> uploader, number |-> m]
            /\ req[r].number = m /\ req[r].user = uploader
            /\ req[r] \in Order /\ req[r] # None /\ Hash[m] \in Hashes
    BY <2>0, ConstantsAssumption DEF Order
  <2>2. /\ orders[Hash[m]] = None
        /\ orders' = [orders EXCEPT ![Hash[m]] = req[r]]
        /\ UNCHANGED <<req, accepted>>
    <3>1. orders' # orders
      BY <1>2
    <3> QED BY <1>2, <2>1, <3>1 DEF Add, Goto, Answer
  <2>3. \A n \in Numbers : Hash[n] \in Hashes
    BY ConstantsAssumption
  <2>4. \A n \in Numbers \ {m} :
            /\ Stored(n)' <=> Stored(n)
            /\ Stored(n) => orders'[Hash[n]] = orders[Hash[n]]
    BY <1>0, <2>1, <2>2, <2>3 DEF Stored, TypeOK
  <2>5. Stored(m)' /\ orders'[Hash[m]] = req[r] /\ ~Stored(m)
    <3>1. orders'[Hash[m]] = req[r]
      BY <1>0, <2>1, <2>2 DEF TypeOK
    <3>2. ~Stored(m)
      BY <2>2 DEF Stored
    <3>3. Stored(m)'
      BY <2>1, <3>1, <2>2 DEF Stored
    <3> QED BY <3>1, <3>2, <3>3
  <2>6. owner' = [owner EXCEPT ![m] = uploader]
    <3>1. ASSUME NEW n \in Numbers
          PROVE  owner'[n] = [owner EXCEPT ![m] = uploader][n]
      <4>1. CASE n = m
        BY <2>1, <2>5, <4>1
      <4>2. CASE n # m
        <5>1. owner'[n] = IF Stored(n)' THEN orders'[Hash[n]].user ELSE None
          OBVIOUS
        <5>2. owner[n] = IF Stored(n) THEN orders[Hash[n]].user ELSE None
          OBVIOUS
        <5>3. owner'[n] = owner[n]
          BY <2>4, <4>2, <5>1, <5>2
        <5> HIDE DEF owner
        <5> QED BY <4>2, <5>3
      <4> QED BY <4>1, <4>2
    <3> QED BY <3>1
  <2>7. owner[m] = None
    BY <2>1, <2>5
  <2>8. Promise!Take(uploader, m)
    BY <2>2, <2>6, <2>7 DEF Promise!Take
  <2> QED BY <2>1, <2>8 DEF Promise!Next
<1>3. ASSUME NEW r \in Requests, Notify(r)
      PROVE  Promise!Next
  <2> DEFINE m == req[r].number
  <2>1. req[r] \in Order /\ m \in Numbers /\ accepted[m] = << >> /\ Stored(m)
    BY <1>0, <1>3, OwnRowIsStored DEF Notify, RequestShape, NotifierInserted, Order
  <2>2. /\ UNCHANGED orders
        /\ accepted' = [accepted EXCEPT ![m] = Append(accepted[m], req[r].user)]
    BY <1>3 DEF Notify
  <2>3. owner' = owner
    BY <2>2 DEF Stored
  <2>4. owner[m] # None /\ owner[m] = req[r].user
    BY <1>0, <1>3, <2>1, ConstantsAssumption DEF Notify, NotifierInserted
  <2>5. Append(accepted[m], req[r].user) = << owner[m] >>
    BY <2>1, <2>4
  <2> HIDE DEF owner
  <2>6. /\ owner[m] # None
        /\ accepted[m] = << >>
        /\ accepted' = [accepted EXCEPT ![m] = << owner[m] >>]
        /\ owner' = owner
    BY <2>1, <2>2, <2>3, <2>4, <2>5
  <2>7. Promise!Accept(m)
    BY <2>6 DEF Promise!Accept, owner
  <2> QED BY <2>1, <2>7 DEF Promise!Next
<1>4. \/ UNCHANGED <<orders, accepted>>
      \/ \E r \in Requests : Add(r) /\ orders' # orders
      \/ \E r \in Requests : Notify(r)
  BY DEF Next, vars, Receive, Add, ReadConflict, GetExisting, Fail, TakeNotification
<1> QED BY <1>1, <1>2, <1>3, <1>4

\* Concurrent uploads implement the ownership of numbers: one owner for ever
\* and at most one 202, for any hash function of the numbers.
THEOREM ImplementsOwnership == Spec => OwnershipSpec
BY OwnershipInit, OwnershipStep, Invariance, PTL DEF Spec, OwnershipSpec, Promise!Spec
=============================================================================
