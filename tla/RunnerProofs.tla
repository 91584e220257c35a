---------------------------- MODULE RunnerProofs ----------------------------
(***************************************************************************)
(* Proof that the check runner returns every result, as part of Reception, *)
(* for any number of checks and any limit on their concurrency.            *)
(***************************************************************************)
EXTENDS Reception, TLAPS, FiniteSetTheorems

\* The tasks that were added to the WaitGroup and are not done.
Pending == {i \in TaskIds : task[i] # "done"
                            /\ (i < spawner.next \/ (i = spawner.next /\ spawner.pc = "acquire"))}

Types ==
  /\ spawner \in [pc : {"idle", "add", "acquire", "wait", "returned"}, next : 1..(TaskCount + 1)]
  /\ task \in [TaskIds -> {"new", "running", "written", "released", "done"}]
  /\ wg \in Nat
  /\ results \in [TaskIds -> Int]

\* Where the spawner is tells which goroutines exist.
Spawning ==
  /\ spawner.pc = "idle" => spawner.next = 1
  /\ spawner.pc = "acquire" => spawner.next <= TaskCount
  /\ spawner.pc \in {"wait", "returned"} => spawner.next = TaskCount + 1
  /\ \A i \in TaskIds : i < spawner.next <=> task[i] # "new"
  /\ spawner.pc = "idle" <=> stage # "analyze"

\* A goroutine that is past its check has written its result.
Written ==
  /\ \A i \in panicked : i \in TaskIds /\ task[i] \in {"written", "released", "done"}
  /\ \A i \in TaskIds :
       task[i] \in {"written", "released", "done"} =>
         results[i] = IF i \in panicked THEN ErrorOf(i) ELSE i

RInv ==
  /\ Types /\ Spawning /\ Written
  /\ wg = Cardinality(Pending)
  /\ spawner.pc = "returned" => \A i \in TaskIds : task[i] = "done"
  /\ ResultsComplete

-----------------------------------------------------------------------------
\* The tasks are finitely many, so the pending ones can be counted.
LEMMA PendingFinite == IsFiniteSet(Pending) /\ IsFiniteSet(Pending')
<1>1. IsFiniteSet(TaskIds)
  BY RunnerAssumption, FS_Interval DEF TaskIds
<1> QED
  BY <1>1, FS_Subset DEF Pending

\* wg.Add(1) counts one task more.
LEMMA AddInv == RInv /\ AddTask /\ UNCHANGED stage => RInv'
<1> SUFFICES ASSUME RInv, AddTask, UNCHANGED stage PROVE RInv'
  OBVIOUS
<1> DEFINE n == spawner.next
<1>1. /\ spawner.pc = "add" /\ n \in 1..(TaskCount + 1) /\ n <= TaskCount /\ n \in TaskIds
      /\ task' = task /\ results' = results /\ panicked' = panicked /\ out' = out
  BY RunnerAssumption DEF RInv, Types, AddTask, TaskIds
<1>2. /\ spawner' \in [pc : {"idle", "add", "acquire", "wait", "returned"}, next : 1..(TaskCount + 1)]
      /\ spawner'.pc = "acquire" /\ spawner'.next = n
  BY DEF RInv, Types, AddTask
<1> HIDE DEF n
<1>3. Pending' = Pending \cup {n} /\ n \notin Pending
  BY <1>1, <1>2, RunnerAssumption DEF RInv, Spawning, Pending, TaskIds, n
<1>4. wg' = Cardinality(Pending') /\ wg' \in Nat
  BY <1>3, PendingFinite, FS_AddElement DEF RInv, Types, AddTask
<1>5. Types'
  BY <1>1, <1>2, <1>4 DEF RInv, Types, TaskIds
<1>6. Spawning'
  BY <1>1, <1>2 DEF RInv, Spawning, TaskIds, n
<1>7. Written'
  BY <1>1 DEF RInv, Written, TaskIds, ErrorOf
<1> QED
  BY <1>2, <1>4, <1>5, <1>6, <1>7 DEF RInv, ResultsComplete

\* A goroutine starts with its token.
LEMMA SpawnInv == RInv /\ Spawn /\ UNCHANGED stage => RInv'
<1> SUFFICES ASSUME RInv, Spawn, UNCHANGED stage PROVE RInv'
  OBVIOUS
<1> DEFINE n == spawner.next
<1>1. /\ spawner.pc = "acquire" /\ n \in TaskIds /\ n \in Nat
      /\ task \in [TaskIds -> {"new", "running", "written", "released", "done"}]
      /\ task' = [task EXCEPT ![n] = "running"] /\ results' = results /\ panicked' = panicked
      /\ wg' = wg
  BY RunnerAssumption DEF RInv, Types, Spawning, Spawn, TaskIds
<1>2. /\ spawner' = [pc |-> "add", next |-> n + 1] /\ n + 1 \in 1..(TaskCount + 1)
      /\ spawner'.pc = "add" /\ spawner'.next = n + 1
  BY <1>1, RunnerAssumption DEF Spawn, TaskIds
<1>3. task[n] = "new"
  BY <1>1, RunnerAssumption DEF RInv, Spawning, TaskIds, n
<1>4. /\ task' \in [TaskIds -> {"new", "running", "written", "released", "done"}]
      /\ task'[n] = "running" /\ \A i \in TaskIds : i # n => task'[i] = task[i]
  BY <1>1
<1> HIDE DEF n
<1>5. \A i \in TaskIds : i < n + 1 <=> i < n \/ i = n
  BY <1>1, RunnerAssumption DEF TaskIds
<1>6. Pending' = Pending
  BY <1>1, <1>2, <1>3, <1>4, <1>5, RunnerAssumption DEF Pending, n
<1>7. Types'
  BY <1>1, <1>2, <1>4 DEF RInv, Types
<1>8. Spawning'
  BY <1>1, <1>2, <1>3, <1>4, <1>5 DEF RInv, Spawning, n
<1>9. Written'
  BY <1>1, <1>3, <1>4 DEF RInv, Written, ErrorOf
<1> QED
  BY <1>1, <1>2, <1>6, <1>7, <1>8, <1>9 DEF RInv, ResultsComplete

\* The last goroutine is started.
LEMMA AllSpawnedInv == RInv /\ AllSpawned /\ UNCHANGED stage => RInv'
<1> SUFFICES ASSUME RInv, AllSpawned, UNCHANGED stage PROVE RInv'
  OBVIOUS
<1>1. /\ spawner.pc = "add" /\ spawner.next = TaskCount + 1
      /\ task' = task /\ results' = results /\ panicked' = panicked /\ wg' = wg
  BY RunnerAssumption DEF RInv, Types, AllSpawned
<1>2. /\ spawner' \in [pc : {"idle", "add", "acquire", "wait", "returned"}, next : 1..(TaskCount + 1)]
      /\ spawner'.pc = "wait" /\ spawner'.next = spawner.next
  BY DEF RInv, Types, AllSpawned
<1>3. Pending' = Pending
  BY <1>1, <1>2 DEF Pending
<1>4. Types' /\ Spawning' /\ Written'
  BY <1>1, <1>2 DEF RInv, Types, Spawning, Written, ErrorOf
<1> QED
  BY <1>1, <1>2, <1>3, <1>4 DEF RInv, ResultsComplete

\* wg.Wait returns when nothing is pending, and then every result is there.
LEMMA CollectInv == RInv /\ Collect /\ UNCHANGED stage => RInv'
<1> SUFFICES ASSUME RInv, Collect, UNCHANGED stage PROVE RInv'
  OBVIOUS
<1>1. /\ spawner.pc = "wait" /\ spawner.next = TaskCount + 1 /\ wg = 0
      /\ out' = [i \in TaskIds |-> results[i]]
      /\ task' = task /\ results' = results /\ panicked' = panicked /\ wg' = wg
  BY DEF RInv, Spawning, Collect
<1>2. /\ spawner' \in [pc : {"idle", "add", "acquire", "wait", "returned"}, next : 1..(TaskCount + 1)]
      /\ spawner'.pc = "returned" /\ spawner'.next = spawner.next
  BY DEF RInv, Types, Collect
<1>3. Pending = {}
  BY <1>1, PendingFinite, FS_EmptySet DEF RInv
<1>4. \A i \in TaskIds : task[i] = "done"
  <2>1. \A i \in TaskIds : i < TaskCount + 1
    BY RunnerAssumption DEF TaskIds
  <2> QED
    BY <1>1, <1>3, <2>1 DEF Pending
<1>5. out' = [i \in TaskIds |-> IF i \in panicked THEN ErrorOf(i) ELSE i]
  BY <1>1, <1>4 DEF RInv, Written
<1>6. Pending' = Pending
  BY <1>1, <1>2 DEF Pending
<1>7. Types' /\ Spawning' /\ Written'
  BY <1>1, <1>2 DEF RInv, Types, Spawning, Written, ErrorOf
<1> QED
  BY <1>1, <1>2, <1>4, <1>5, <1>6, <1>7 DEF RInv, ResultsComplete, ErrorOf

\* A check ends, with its result or with a panic; a goroutine gives its token back.
LEMMA RunInv ==
  ASSUME RInv, NEW i \in TaskIds, RunTask(i) \/ ReleaseToken(i), UNCHANGED stage
  PROVE  RInv'
<1>1. /\ spawner' = spawner /\ wg' = wg /\ out' = out
      /\ task[i] \in {"running", "written"}
      /\ task \in [TaskIds -> {"new", "running", "written", "released", "done"}]
      /\ results \in [TaskIds -> Int]
  BY DEF RInv, Types, RunTask, ReleaseToken
<1>2. /\ task' \in [TaskIds -> {"new", "running", "written", "released", "done"}]
      /\ task'[i] \in {"written", "released"}
      /\ \A j \in TaskIds : j # i => task'[j] = task[j]
  BY <1>1 DEF RunTask, ReleaseToken
<1>3. Pending' = Pending
  BY <1>1, <1>2 DEF Pending
<1>4. spawner.pc # "returned"
  BY <1>1 DEF RInv
<1>5. Written' /\ results' \in [TaskIds -> Int]
  <2>1. CASE RunTask(i) /\ results' = [results EXCEPT ![i] = i] /\ UNCHANGED panicked
    <3>1. i \notin panicked /\ i \in Int
      BY <2>1, RunnerAssumption DEF RInv, Written, RunTask, TaskIds
    <3>2. /\ results' \in [TaskIds -> Int] /\ results'[i] = i
          /\ \A j \in TaskIds : j # i => results'[j] = results[j]
      BY <1>1, <2>1, <3>1
    <3> QED
      BY <1>2, <2>1, <3>1, <3>2, ZenonT(40) DEF RInv, Written, ErrorOf
  <2>2. CASE RunTask(i) /\ results' = [results EXCEPT ![i] = ErrorOf(i)] /\ panicked' = panicked \cup {i}
    <3>1. ErrorOf(i) \in Int
      BY RunnerAssumption DEF TaskIds, ErrorOf
    <3>2. /\ results' \in [TaskIds -> Int] /\ results'[i] = ErrorOf(i)
          /\ \A j \in TaskIds : j # i => results'[j] = results[j]
      BY <1>1, <2>2, <3>1
    <3> QED
      BY <1>2, <2>2, <3>2 DEF RInv, Written, RunTask, ErrorOf
  <2>3. CASE ReleaseToken(i)
    BY <1>1, <1>2, <2>3 DEF RInv, Written, ReleaseToken, ErrorOf
  <2> QED
    BY <2>1, <2>2, <2>3 DEF RunTask
<1>6. Types'
  BY <1>1, <1>2, <1>5 DEF RInv, Types
<1>7. Spawning'
  BY <1>1, <1>2 DEF RInv, Spawning
<1> QED
  BY <1>1, <1>3, <1>4, <1>5, <1>6, <1>7 DEF RInv, ResultsComplete

\* wg.Done: one pending task less.
LEMMA DoneInv ==
  ASSUME RInv, NEW i \in TaskIds, TaskDone(i), UNCHANGED stage
  PROVE  RInv'
<1>1. /\ spawner' = spawner /\ out' = out /\ results' = results /\ panicked' = panicked
      /\ task[i] = "released" /\ wg' = wg - 1
      /\ task \in [TaskIds -> {"new", "running", "written", "released", "done"}]
  BY DEF RInv, Types, TaskDone
<1>2. /\ task' \in [TaskIds -> {"new", "running", "written", "released", "done"}]
      /\ task'[i] = "done"
      /\ \A j \in TaskIds : j # i => task'[j] = task[j]
  BY <1>1 DEF TaskDone
<1>3. i \in Pending /\ Pending' = Pending \ {i}
  BY <1>1, <1>2 DEF RInv, Spawning, Pending
<1>4. wg' = Cardinality(Pending') /\ wg' \in Nat
  <2>1. Cardinality(Pending') = Cardinality(Pending) - 1 /\ Cardinality(Pending') \in Nat
    BY <1>3, PendingFinite, FS_RemoveElement, FS_CardinalityType
  <2> QED
    BY <1>1, <2>1 DEF RInv, Types
<1>5. spawner.pc # "returned"
  BY <1>1 DEF RInv
<1>6. Types' /\ Spawning' /\ Written'
  BY <1>1, <1>2, <1>4 DEF RInv, Types, Spawning, Written, ErrorOf
<1> QED
  BY <1>1, <1>4, <1>5, <1>6 DEF RInv, ResultsComplete

\* The runner as it is before a call.
LEMMA FreshInv == RunnerInit /\ stage # "analyze" => RInv
<1> SUFFICES ASSUME RunnerInit, stage # "analyze" PROVE RInv
  OBVIOUS
<1>1. /\ spawner.pc = "idle" /\ spawner.next = 1
      /\ \A i \in TaskIds : task[i] = "new"
      /\ wg = 0 /\ panicked = {}
  BY DEF RunnerInit
<1>2. Types
  BY RunnerAssumption DEF RunnerInit, Types, Missing
<1>3. Pending = {}
  BY <1>1, RunnerAssumption DEF Pending, TaskIds
<1>4. Spawning /\ Written
  BY <1>1, RunnerAssumption DEF Spawning, Written, TaskIds
<1> QED
  BY <1>1, <1>2, <1>3, <1>4, FS_EmptySet DEF RInv, ResultsComplete

\* For any number of checks and any limit: whatever the order in which the checks
\* end, whichever panic, the runner returns one result per check, in order.
THEOREM RunnerReturnsAll == Spec => []ResultsComplete
<1>1. Init => RInv
  BY FreshInv DEF Init
<1>2. RInv /\ [Next]_vars => RInv'
  <2> SUFFICES ASSUME RInv, [Next]_vars PROVE RInv'
    OBVIOUS
  <2>1. CASE RunnerStep
    <3>1. UNCHANGED stage
      BY <2>1 DEF RunnerStep, messageVars
    <3>2. CASE SpawnerStep
      BY <3>1, <3>2, AddInv, SpawnInv, AllSpawnedInv, CollectInv DEF SpawnerStep
    <3>3. CASE \E i \in TaskIds : TaskStep(i)
      BY <3>1, <3>3, RunInv, DoneInv DEF TaskStep
    <3> QED
      BY <2>1, <3>2, <3>3 DEF RunnerStep, RunnerNext
  <2>2. CASE Stamp
    <3>1. /\ spawner.pc = "idle" /\ spawner.next = 1 /\ stage' = "analyze"
          /\ UNCHANGED <<task, wg, results, out, panicked>>
      BY <2>2 DEF RInv, Spawning, Stamp
    <3>2. /\ spawner' \in [pc : {"idle", "add", "acquire", "wait", "returned"},
                           next : 1..(TaskCount + 1)]
          /\ spawner'.pc = "add" /\ spawner'.next = spawner.next
      BY <2>2 DEF Stamp, RInv, Types
    <3>3. Pending' = Pending
      BY <3>1, <3>2 DEF Pending
    <3>4. Types' /\ Spawning' /\ Written'
      BY <3>1, <3>2 DEF RInv, Types, Spawning, Written, ErrorOf
    <3> QED
      BY <3>1, <3>2, <3>3, <3>4 DEF RInv, ResultsComplete
  <2>3. CASE Report
    <3>1. (RunnerInit /\ stage # "analyze")'
      BY <2>3 DEF Report, RunnerReset, RunnerInit, TaskIds, Missing, NotReturned
    <3> QED
      BY <3>1, FreshInv, PTL
  <2>4. CASE UNCHANGED runnerVars /\ (stage' = "analyze" <=> stage = "analyze")
    BY <2>4 DEF runnerVars, RInv, Types, Spawning, Written, Pending, ResultsComplete, ErrorOf
  <2>5. CASE SpfStep \/ Reanalyze \/ UNCHANGED vars
    BY <2>4, <2>5 DEF SpfStep, Reanalyze, vars, messageVars
  <2> QED
    BY <2>1, <2>2, <2>3, <2>5 DEF Next
<1>3. RInv => ResultsComplete
  BY DEF RInv
<1> QED
  BY <1>1, <1>2, <1>3, PTL DEF Spec
=============================================================================
