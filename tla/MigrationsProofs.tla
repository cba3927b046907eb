-------------------------- MODULE MigrationsProofs --------------------------
(***************************************************************************)
(* Proofs about Migrations.tla for any number of instances, tries and      *)
(* faults: the lock keeps the instances apart, the schema is always that   *)
(* of the migrations the database has, and no start fails by another one.  *)
(***************************************************************************)
EXTENDS Migrations, TLAPS

\* Where an instance needs the lock.
Critical == {"reading", "migrating", "unlocking"}

AllObjects == ObjectsOf(DOMAIN Files)

\* What the first n statements of a file make.
Made(k, n) == {Files[k][s].object : s \in 1..n}

TypeOK ==
    /\ pc \in [Instances -> {"down", "locking", "serving"} \cup Critical]
    /\ tries \in [Instances -> Nat]
    /\ pending \in [Instances -> SUBSET DOMAIN Files]
    /\ statement \in [Instances -> Nat]
    /\ transaction \in [Instances -> SUBSET AllObjects]
    /\ failure \in [Instances -> {"none", "lock", "conflict", "died", "too late"}]
    /\ lock \in Instances \cup {None}
    /\ schema \subseteq AllObjects
    /\ versions \subseteq DOMAIN Files
    /\ faults \in 0..MaxFaults

\* Only the owner of the lock reads the versions, migrates and unlocks.
HeldWhileMigrating == \A i \in Instances : pc[i] \in Critical => lock = i

\* What the owner has read is still true, and its transaction is the beginning
\* of the first migration that is missing.  Who is done has left none missing.
InStep(i) ==
    /\ pc[i] = "migrating" =>
          /\ pending[i] = DOMAIN Files \ versions
          /\ pending[i] # {} => statement[i] <= Len(Files[First(pending[i])])
          /\ pending[i] # {} => transaction[i] = Made(First(pending[i]), statement[i])
          /\ pending[i] = {} => statement[i] = 0 /\ transaction[i] = {}
    /\ pc[i] # "migrating" => statement[i] = 0 /\ transaction[i] = {}
    /\ pc[i] \in {"unlocking", "serving"} => versions = DOMAIN Files

IInv ==
    /\ TypeOK
    /\ HeldWhileMigrating
    /\ SchemaMatchesVersions
    /\ \A i \in Instances : InStep(i)
    /\ StartsSideBySide
-----------------------------------------------------------------------------
\* A counter of one instance is increased.
LEMMA CountUp ==
    ASSUME NEW S, NEW f \in [S -> Nat], NEW i \in S
    PROVE  [f EXCEPT ![i] = f[i] + 1] \in [S -> Nat]
OBVIOUS

LEMMA FilesShape ==
    /\ DOMAIN Files = 1..4 /\ Len(Files) = 4
    /\ Len(Files[1]) = 4 /\ Len(Files[2]) = 3 /\ Len(Files[3]) = 3 /\ Len(Files[4]) = 5
    /\ DOMAIN Files[1] = 1..4 /\ DOMAIN Files[2] = 1..3
    /\ DOMAIN Files[3] = 1..3 /\ DOMAIN Files[4] = 1..5
BY DEF Files

\* Every file is a sequence of statements.
LEMMA FileLength ==
    ASSUME NEW k \in 1..4
    PROVE  Len(Files[k]) \in Nat \ {0} /\ DOMAIN Files[k] = 1..Len(Files[k])
BY FilesShape

\* The missing migrations after the first k, and the first of them.
LEMMA FirstMissing ==
    ASSUME NEW k \in 0..3
    PROVE  /\ (1..4) \ (1..k) = (k+1)..4
           /\ First((k+1)..4) = k + 1
           /\ ((k+1)..4) \ {k + 1} = (1..4) \ (1..(k+1))
           /\ (1..k) \cup {k + 1} = 1..(k+1)
<1>1. \A l \in (k+1)..4 : (\A m \in (k+1)..4 : l <= m) => l = k + 1
  OBVIOUS
<1>2. First((k+1)..4) = k + 1
  BY <1>1 DEF First
<1> QED
  BY <1>2

\* A database has all the migrations, or a first one is missing.
LEMMA Missing ==
    ASSUME NEW V, \E k \in 0..Len(Files) : V = 1..k
    PROVE  \/ V = DOMAIN Files
           \/ \E k \in 0..3 : /\ V = 1..k
                              /\ DOMAIN Files \ V = (k+1)..4
                              /\ First(DOMAIN Files \ V) = k + 1
                              /\ DOMAIN Files \ V # {}
<1>1. PICK k \in 0..4 : V = 1..k
  BY FilesShape
<1>2. CASE k = 4
  BY <1>1, <1>2, FilesShape
<1>3. CASE k \in 0..3
  <2>1. DOMAIN Files \ V = (k+1)..4
    BY <1>1, FilesShape, FirstMissing
  <2>2. First(DOMAIN Files \ V) = k + 1
    BY <1>3, <2>1, FirstMissing
  <2>3. DOMAIN Files \ V # {}
    BY <1>3, <2>1
  <2> QED
    BY <1>1, <1>3, <2>1, <2>2, <2>3
<1> QED
  BY <1>2, <1>3

\* What all the statements of a file make are its objects.
LEMMA MadeAll ==
    ASSUME NEW k \in 1..4
    PROVE  Made(k, Len(Files[k])) = Objects(k)
BY FileLength DEF Made, Objects

\* The objects before goose are those of the first file.
LEMMA LegacyIsFirst == Legacy = Objects(1)
BY FilesShape DEF Legacy, Objects, Files, MakeIfMissing

LEMMA ObjectsOfOneMore ==
    ASSUME NEW k \in 0..3
    PROVE  ObjectsOf(1..(k+1)) = ObjectsOf(1..k) \cup Objects(k+1)
BY FirstMissing DEF ObjectsOf

\* Two statements make different objects.
LEMMA ObjectsDiffer ==
    ASSUME NEW k \in 1..4, NEW l \in 1..4, NEW s \in DOMAIN Files[k],
           NEW t \in DOMAIN Files[l], Files[k][s].object = Files[l][t].object
    PROVE  k = l /\ s = t
BY FilesShape DEF Files, Make, MakeIfMissing

\* The statements of the first file tolerate what is there.
LEMMA FirstIsLenient == \A s \in DOMAIN Files[1] : Files[1][s].lenient
BY FilesShape DEF Files, MakeIfMissing

\* The objects of the first k migrations, before goose or not, are none that a
\* later file makes.
LEMMA NothingInTheWay ==
    ASSUME NEW k \in 1..3, NEW r \in Nat, NEW s \in DOMAIN Files[k+1], s = r + 1
    PROVE  Files[k+1][s].object \notin ObjectsOf(1..k) \cup Legacy \cup Made(k+1, r)
<1>1. ASSUME NEW l \in 1..k, Files[k+1][s].object \in Objects(l)
      PROVE  FALSE
  <2>1. PICK t \in DOMAIN Files[l] : Files[l][t].object = Files[k+1][s].object
    BY <1>1 DEF Objects
  <2> QED
    BY <2>1, ObjectsDiffer
<1>2. Files[k+1][s].object \notin ObjectsOf(1..k)
  BY <1>1 DEF ObjectsOf
<1>3. Files[k+1][s].object \notin Legacy
  BY <1>1, LegacyIsFirst
<1>4. ASSUME Files[k+1][s].object \in Made(k+1, r)
      PROVE  FALSE
  <2>1. PICK t \in 1..r : Files[k+1][t].object = Files[k+1][s].object
    BY <1>4 DEF Made
  <2>2. t \in DOMAIN Files[k+1] /\ t # s /\ k+1 \in 1..4
    BY FileLength
  <2> QED
    BY <2>1, <2>2, ObjectsDiffer
<1> QED
  BY <1>2, <1>3, <1>4

LEMMA InitInvariant == Init => IInv
<1> SUFFICES ASSUME Init PROVE IInv
  OBVIOUS
<1>1. \E k \in 0..4 : versions = 1..k
  <2>1. versions = {} => versions = 1..0
    OBVIOUS
  <2> QED
    BY <2>1, FilesShape DEF Init
<1>2. schema \in {ObjectsOf(versions), ObjectsOf(versions) \cup Legacy}
  <2>1. ObjectsOf({}) = {}
    BY DEF ObjectsOf
  <2> QED
    BY <2>1 DEF Init
<1>3. schema \subseteq AllObjects
  BY <1>1, <1>2, LegacyIsFirst, FilesShape DEF AllObjects, ObjectsOf
<1> QED
  BY <1>1, <1>2, <1>3, FilesShape, ConstantsAssumption
     DEF Init, IInv, TypeOK, HeldWhileMigrating, SchemaMatchesVersions, InStep,
         StartsSideBySide, Critical

\* A start that fails for another reason than a conflict keeps the invariant.
LEMMA FailKeeps ==
    ASSUME IInv, NEW i \in Instances, NEW reason \in {"lock", "died", "too late"},
           Fail(i, reason), tries' \in [Instances -> Nat], faults' \in 0..MaxFaults,
           UNCHANGED <<schema, versions>>
    PROVE  IInv'
<1>1. TypeOK'
  BY DEF IInv, TypeOK, Fail, Released, Critical, AllObjects
<1>2. HeldWhileMigrating'
  BY DEF IInv, TypeOK, HeldWhileMigrating, Fail, Released, Critical
<1>3. SchemaMatchesVersions'
  BY DEF IInv, SchemaMatchesVersions
<1>4. \A j \in Instances : InStep(j)'
  BY DEF IInv, TypeOK, InStep, Fail
<1>5. StartsSideBySide'
  BY DEF IInv, TypeOK, StartsSideBySide, Fail
<1> QED
  BY <1>1, <1>2, <1>3, <1>4, <1>5 DEF IInv

LEMMA StartKeeps ==
    ASSUME IInv, NEW i \in Instances, Start(i)
    PROVE  IInv'
BY DEF IInv, TypeOK, HeldWhileMigrating, SchemaMatchesVersions, InStep, StartsSideBySide,
       Start, Critical, AllObjects

LEMMA TryLockKeeps ==
    ASSUME IInv, NEW i \in Instances, TryLock(i)
    PROVE  IInv'
<1>1. CASE LockFree(i)
  <2>1. TypeOK' /\ SchemaMatchesVersions' /\ StartsSideBySide'
    BY <1>1 DEF IInv, TypeOK, SchemaMatchesVersions, StartsSideBySide, TryLock, Critical,
                AllObjects
  <2>2. HeldWhileMigrating'
    BY <1>1, ConstantsAssumption
       DEF IInv, TypeOK, HeldWhileMigrating, TryLock, LockFree, Critical
  <2>3. \A j \in Instances : InStep(j)'
    BY <1>1 DEF IInv, TypeOK, InStep, TryLock
  <2> QED
    BY <2>1, <2>2, <2>3 DEF IInv
<1>2. CASE ~LockFree(i) /\ Again(tries[i])
  <2>1. TypeOK'
    <3>1. tries' \in [Instances -> Nat]
      <4>1. tries \in [Instances -> Nat] /\ tries' = [tries EXCEPT ![i] = tries[i] + 1]
        BY <1>2 DEF IInv, TypeOK, TryLock
      <4> QED
        BY <4>1, CountUp
    <3> QED
      BY <1>2, <3>1 DEF IInv, TypeOK, TryLock
  <2>3. SchemaMatchesVersions' /\ StartsSideBySide' /\ HeldWhileMigrating'
    BY <1>2 DEF IInv, SchemaMatchesVersions, StartsSideBySide, HeldWhileMigrating, TryLock
  <2>2. \A j \in Instances : InStep(j)'
    BY <1>2 DEF IInv, InStep, TryLock
  <2> QED
    BY <2>1, <2>2, <2>3 DEF IInv
<1>3. CASE ~LockFree(i) /\ ~Again(tries[i])
  BY <1>3, FailKeeps DEF TryLock, IInv, TypeOK
<1> QED
  BY <1>1, <1>2, <1>3

LEMMA ReadVersionsKeeps ==
    ASSUME IInv, NEW i \in Instances, ReadVersions(i)
    PROVE  IInv'
<1>1. TypeOK' /\ HeldWhileMigrating' /\ SchemaMatchesVersions' /\ StartsSideBySide'
  BY DEF IInv, TypeOK, HeldWhileMigrating, SchemaMatchesVersions, StartsSideBySide,
         ReadVersions, Critical, AllObjects
<1>2. InStep(i)'
  <2>1. pc[i] = "reading" /\ statement'[i] = 0 /\ transaction'[i] = {}
    BY DEF IInv, InStep, ReadVersions
  <2>2. pending'[i] = DOMAIN Files \ versions' /\ pc'[i] = "migrating"
    BY DEF IInv, TypeOK, ReadVersions
  <2>3. First(pending'[i]) \in 1..4 \/ pending'[i] = {}
    <3>1. \E k \in 0..Len(Files) : versions = 1..k
      BY DEF IInv, SchemaMatchesVersions
    <3>2. pending'[i] = DOMAIN Files \ versions
      BY <2>2 DEF ReadVersions
    <3>3. \/ versions = DOMAIN Files
          \/ \E k \in 0..3 : First(DOMAIN Files \ versions) = k + 1
      BY <3>1, Missing
    <3>4. CASE versions = DOMAIN Files
      BY <3>2, <3>4
    <3>5. CASE \E k \in 0..3 : First(DOMAIN Files \ versions) = k + 1
      <4>1. First(DOMAIN Files \ versions) \in 1..4
        BY <3>5
      <4> QED
        BY <4>1, <3>2
    <3> QED
      BY <3>3, <3>4, <3>5
  <2>4. Made(First(pending'[i]), 0) = {}
    BY DEF Made
  <2>5. pending'[i] # {} => 0 <= Len(Files[First(pending'[i])])
    BY <2>3, FileLength
  <2> HIDE DEF First, Made
  <2> QED
    BY <2>1, <2>2, <2>4, <2>5 DEF InStep
<1>3. ASSUME NEW j \in Instances \ {i} PROVE InStep(j)'
  BY DEF IInv, TypeOK, InStep, ReadVersions
<1> QED
  BY <1>1, <1>2, <1>3 DEF IInv

\* What an instance that migrates has before it.
LEMMA Position ==
    ASSUME IInv, NEW i \in Instances, pc[i] = "migrating", pending[i] # {}
    PROVE  \E k \in 0..3 : /\ versions = 1..k
                           /\ pending[i] = (k+1)..4
                           /\ First(pending[i]) = k + 1
                           /\ statement[i] \in 0..Len(Files[k+1])
                           /\ transaction[i] = Made(k+1, statement[i])
<1>1. \E k \in 0..Len(Files) : versions = 1..k
  BY DEF IInv, SchemaMatchesVersions
<1>2. pending[i] = DOMAIN Files \ versions /\ statement[i] \in Nat
  BY DEF IInv, InStep, TypeOK
<1>3. PICK k \in 0..3 : /\ versions = 1..k
                        /\ pending[i] = (k+1)..4
                        /\ First(pending[i]) = k + 1
  BY <1>1, <1>2, Missing
<1>4. statement[i] <= Len(Files[k+1]) /\ transaction[i] = Made(k+1, statement[i])
  BY <1>3 DEF IInv, InStep
<1>5. statement[i] \in 0..Len(Files[k+1])
  BY <1>2, <1>3, <1>4, FileLength
<1> QED
  BY <1>3, <1>4, <1>5

LEMMA ExecuteKeeps ==
    ASSUME IInv, NEW i \in Instances, Execute(i)
    PROVE  IInv'
<1> PICK k \in 0..3 : /\ versions = 1..k
                      /\ pending[i] = (k+1)..4
                      /\ First(pending[i]) = k + 1
                      /\ statement[i] \in 0..Len(Files[k+1])
                      /\ transaction[i] = Made(k+1, statement[i])
  BY Position DEF Execute
<1> DEFINE next == Files[k+1][statement[i] + 1]
<1>1. statement[i] < Len(Files[k+1]) /\ statement[i] + 1 \in DOMAIN Files[k+1]
  BY FileLength DEF Execute
<1>2. next.lenient \/ next.object \notin schema \cup transaction[i]
  <2>1. CASE k = 0
    BY <2>1, <1>1, FirstIsLenient
  <2>2. CASE k \in 1..3
    <3>1. statement[i] \in Nat
      BY DEF IInv, TypeOK
    <3>2. next.object \notin ObjectsOf(1..k) \cup Legacy \cup Made(k+1, statement[i])
      BY <2>2, <3>1, <1>1, NothingInTheWay
    <3> QED
      BY <3>2 DEF IInv, SchemaMatchesVersions
  <2> QED
    BY <2>1, <2>2
<1>3. /\ transaction' = [transaction EXCEPT ![i] = @ \cup {next.object}]
      /\ statement' = [statement EXCEPT ![i] = @ + 1]
      /\ pc[i] = "migrating"
      /\ UNCHANGED <<pc, pending, failure, lock, schema, tries, versions, faults>>
  BY <1>2 DEF Execute, Visible
<1>4. next.object \in AllObjects
  BY <1>1, FilesShape DEF AllObjects, ObjectsOf, Objects
<1>5. Made(k+1, statement[i] + 1) = Made(k+1, statement[i]) \cup {next.object}
  BY DEF Made
<1> HIDE DEF next, First, Made
<1>6. TypeOK'
  <2>1. transaction' \in [Instances -> SUBSET AllObjects]
    BY <1>3, <1>4 DEF IInv, TypeOK
  <2>2. statement' \in [Instances -> Nat]
    <3>1. statement \in [Instances -> Nat] /\ statement' = [statement EXCEPT ![i] = @ + 1]
      BY <1>3 DEF IInv, TypeOK
    <3> QED
      BY <3>1, CountUp
  <2> QED
    BY <1>3, <2>1, <2>2 DEF IInv, TypeOK
<1>9. HeldWhileMigrating' /\ SchemaMatchesVersions' /\ StartsSideBySide'
  BY <1>3 DEF IInv, HeldWhileMigrating, SchemaMatchesVersions, StartsSideBySide
<1>7. InStep(i)'
  <2>1. pc'[i] = "migrating" /\ pending'[i] = DOMAIN Files \ versions' /\ pending'[i] # {}
    BY <1>3 DEF IInv, InStep, Execute
  <2>2. First(pending'[i]) = k + 1
    BY <1>3
  <2>3. statement'[i] = statement[i] + 1 /\ transaction'[i] = Made(k+1, statement'[i])
    BY <1>3, <1>5 DEF IInv, TypeOK
  <2>4. statement'[i] <= Len(Files[k+1])
    BY <2>3, <1>1, FileLength
  <2> QED
    BY <2>1, <2>2, <2>3, <2>4 DEF InStep
<1>8. ASSUME NEW j \in Instances \ {i} PROVE InStep(j)'
  BY <1>3 DEF IInv, TypeOK, InStep
<1> QED
  BY <1>6, <1>7, <1>8, <1>9 DEF IInv

LEMMA CommitKeeps ==
    ASSUME IInv, NEW i \in Instances, Commit(i)
    PROVE  IInv'
<1> PICK k \in 0..3 : /\ versions = 1..k
                      /\ pending[i] = (k+1)..4
                      /\ First(pending[i]) = k + 1
                      /\ statement[i] \in 0..Len(Files[k+1])
                      /\ transaction[i] = Made(k+1, statement[i])
  BY Position DEF Commit
<1>1. k + 1 \in 1..4 /\ k + 1 \notin versions
  OBVIOUS
<1>2. transaction[i] = Objects(k+1)
  BY <1>1, MadeAll DEF Commit
<1>3. /\ schema' = schema \cup Objects(k+1)
      /\ versions' = versions \cup {k + 1}
      /\ pending' = [pending EXCEPT ![i] = pending[i] \ {k + 1}]
      /\ statement' = [statement EXCEPT ![i] = 0]
      /\ transaction' = [transaction EXCEPT ![i] = {}]
      /\ pc[i] = "migrating"
      /\ UNCHANGED <<pc, failure, lock, tries, faults>>
  BY <1>1, <1>2 DEF Commit, Remaining
<1>4. versions' = 1..(k+1) /\ pending[i] \ {k + 1} = (1..4) \ versions'
  BY <1>3, FirstMissing
<1>5. lock = i
  BY <1>3 DEF IInv, HeldWhileMigrating, Critical
<1>6. Objects(k+1) \subseteq AllObjects
  BY <1>1, FilesShape DEF AllObjects, ObjectsOf
<1> HIDE DEF First, Made, Objects
<1>7. TypeOK'
  <2>1. transaction' \in [Instances -> SUBSET AllObjects]
    BY <1>3 DEF IInv, TypeOK
  <2>2. schema' \subseteq AllObjects /\ versions' \subseteq DOMAIN Files
    BY <1>1, <1>3, <1>6, FilesShape DEF IInv, TypeOK
  <2>3. pending' \in [Instances -> SUBSET DOMAIN Files]
    BY <1>3 DEF IInv, TypeOK
  <2>4. statement' \in [Instances -> Nat]
    BY <1>3 DEF IInv, TypeOK
  <2> QED
    BY <1>3, <2>1, <2>2, <2>3, <2>4 DEF IInv, TypeOK
<1>8. HeldWhileMigrating' /\ StartsSideBySide'
  BY <1>3 DEF IInv, HeldWhileMigrating, StartsSideBySide
<1>9. SchemaMatchesVersions'
  <2>1. ObjectsOf(versions') = ObjectsOf(versions) \cup Objects(k+1)
    BY <1>4, ObjectsOfOneMore
  <2>2. schema' \in {ObjectsOf(versions'), ObjectsOf(versions') \cup Legacy}
    BY <1>3, <2>1 DEF IInv, SchemaMatchesVersions
  <2>3. \E l \in 0..Len(Files) : versions' = 1..l
    BY <1>1, <1>4, FilesShape
  <2> QED
    BY <2>2, <2>3 DEF SchemaMatchesVersions
<1>10. InStep(i)'
  <2>1. /\ pc'[i] = "migrating" /\ statement'[i] = 0 /\ transaction'[i] = {}
        /\ pending'[i] = DOMAIN Files \ versions'
    BY <1>3, <1>4, FilesShape DEF IInv, TypeOK
  <2>2. First(pending'[i]) \in 1..4 \/ pending'[i] = {}
    <3>1. First(DOMAIN Files \ versions') \in 1..4 \/ versions' = DOMAIN Files
      <4>1. \/ versions' = DOMAIN Files
            \/ \E l \in 0..3 : First(DOMAIN Files \ versions') = l + 1
        BY <1>9, Missing DEF SchemaMatchesVersions
      <4> QED
        BY <4>1
    <3> QED
      BY <2>1, <3>1
  <2>3. Made(First(pending'[i]), 0) = {}
    BY DEF Made
  <2>4. pending'[i] # {} => 0 <= Len(Files[First(pending'[i])])
    BY <2>2, FileLength
  <2> QED
    BY <2>1, <2>3, <2>4 DEF InStep
<1>11. ASSUME NEW j \in Instances \ {i} PROVE InStep(j)'
  <2>1. pc[j] \notin Critical
    BY <1>5 DEF IInv, HeldWhileMigrating
  <2>2. versions # DOMAIN Files
    BY <1>1, FilesShape
  <2> QED
    BY <1>3, <2>1, <2>2 DEF IInv, TypeOK, InStep, Critical
<1> QED
  BY <1>7, <1>8, <1>9, <1>10, <1>11 DEF IInv

LEMMA FinishKeeps ==
    ASSUME IInv, NEW i \in Instances, Finish(i)
    PROVE  IInv'
<1>1. TypeOK' /\ SchemaMatchesVersions' /\ StartsSideBySide'
  BY DEF IInv, TypeOK, SchemaMatchesVersions, StartsSideBySide, Finish, Critical
<1>2. HeldWhileMigrating'
  BY DEF IInv, TypeOK, HeldWhileMigrating, Finish, Critical
<1>3. versions = DOMAIN Files
  BY DEF IInv, TypeOK, InStep, Finish
<1>4. \A j \in Instances : InStep(j)'
  BY <1>3 DEF IInv, TypeOK, InStep, Finish
<1> QED
  BY <1>1, <1>2, <1>4 DEF IInv

LEMMA UnlockKeeps ==
    ASSUME IInv, NEW i \in Instances, Unlock(i)
    PROVE  IInv'
<1>1. TypeOK' /\ SchemaMatchesVersions' /\ StartsSideBySide'
  BY DEF IInv, TypeOK, SchemaMatchesVersions, StartsSideBySide, Unlock, Critical, Released
<1>2. HeldWhileMigrating'
  BY DEF IInv, TypeOK, HeldWhileMigrating, Unlock, Critical, Released
<1>3. \A j \in Instances : InStep(j)'
  BY DEF IInv, TypeOK, InStep, Unlock
<1> QED
  BY <1>1, <1>2, <1>3 DEF IInv
-----------------------------------------------------------------------------
\* The invariant holds of every behaviour, for any number of instances.
THEOREM Invariant == Spec => []IInv
<1>1. ASSUME IInv, [Next]_vars PROVE IInv'
  <2>1. CASE UNCHANGED vars
    BY <1>1, <2>1 DEF vars, IInv, TypeOK, HeldWhileMigrating, SchemaMatchesVersions, InStep,
                      StartsSideBySide
  <2>2. ASSUME NEW i \in Instances, Die(i) \/ TooLate(i) PROVE IInv'
    <3>1. faults \in 0..MaxFaults /\ faults < MaxFaults /\ faults' = faults + 1
      BY <1>1, <2>2 DEF IInv, TypeOK, Die, TooLate
    <3>2. faults' \in 0..MaxFaults
      BY <3>1, ConstantsAssumption
    <3>3. tries' \in [Instances -> Nat] /\ UNCHANGED <<schema, versions>>
      BY <1>1, <2>2 DEF IInv, TypeOK, Die, TooLate
    <3>4. Fail(i, "died") \/ Fail(i, "too late")
      BY <2>2 DEF Die, TooLate
    <3> QED
      BY <1>1, <3>2, <3>3, <3>4, FailKeeps
  <2>3. ASSUME NEW i \in Instances, Start(i) PROVE IInv'
    BY <1>1, <2>3, StartKeeps
  <2>4. ASSUME NEW i \in Instances, Step(i) PROVE IInv'
    BY <1>1, <2>4, TryLockKeeps, ReadVersionsKeeps, ExecuteKeeps, CommitKeeps, FinishKeeps,
       UnlockKeeps DEF Step
  <2> QED
    BY <1>1, <2>1, <2>2, <2>3, <2>4 DEF Next
<1> QED
  BY <1>1, InitInvariant, PTL DEF Spec

\* At most one instance at a time reads the versions or migrates.
OneAtATime ==
    \A i, j \in Instances : pc[i] \in Critical /\ pc[j] \in Critical => i = j

THEOREM MigratesOneAtATime == Spec => []OneAtATime
<1>1. IInv => OneAtATime
  BY DEF IInv, HeldWhileMigrating, OneAtATime
<1> QED
  BY <1>1, Invariant, PTL

\* The database has the first migrations, with all of their objects and no
\* others, at every moment, whoever dies and wherever.
THEOREM MatchesVersions == Spec => []SchemaMatchesVersions
<1>1. IInv => SchemaMatchesVersions
  BY DEF IInv
<1> QED
  BY <1>1, Invariant, PTL

\* An instance that serves requests has every table and column it uses.
THEOREM ServesCurrent == Spec => []ServesOnlyCurrentSchema
<1>1. IInv => ServesOnlyCurrentSchema
  BY DEF IInv, InStep, SchemaMatchesVersions, ServesOnlyCurrentSchema
<1> QED
  BY <1>1, Invariant, PTL

\* No start fails because of what another instance has migrated.
THEOREM SideBySide == Spec => []StartsSideBySide
<1>1. IInv => StartsSideBySide
  BY DEF IInv
<1> QED
  BY <1>1, Invariant, PTL
=============================================================================
