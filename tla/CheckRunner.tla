----------------------------- MODULE CheckRunner -----------------------------
(***************************************************************************)
(* runChecksConcurrently (internal/analyzer/analyzer.go): one goroutine    *)
(* per task, at most limit of them at a time, each isolated from panics,   *)
(* and the results in task order.  A task's result is its number, or       *)
(* ErrorOf(task) when it panicked.                                         *)
(***************************************************************************)
EXTENDS Integers, Sequences, FiniteSets

CONSTANTS TaskCount, Limit
ASSUME RunnerAssumption == TaskCount \in Nat /\ Limit \in Nat \ {0}

VARIABLES
  spawner,   \* [pc, next]: the calling goroutine
  task,      \* task[i]: where goroutine i is
  sem,       \* tokens in the semaphore channel
  wg,        \* the WaitGroup counter
  results,   \* results[i], Missing until the goroutine assigns it
  out,       \* what the runner returns
  panicked   \* history: the tasks that panicked

runnerVars == <<spawner, task, sem, wg, results, out, panicked>>

TaskIds == 1..TaskCount
Missing == 0
ErrorOf(i) == -i
NotReturned == <<>>

RunnerTypeOK ==
  /\ spawner \in [pc : {"idle", "add", "acquire", "wait", "returned"}, next : 1..(TaskCount + 1)]
  /\ task \in [TaskIds -> {"new", "running", "written", "released", "done"}]
  /\ sem \in 0..Limit
  /\ wg \in 0..TaskCount
  /\ results \in [TaskIds -> Int]
  /\ panicked \subseteq TaskIds

RunnerInit ==
  /\ spawner = [pc |-> "idle", next |-> 1]
  /\ task = [i \in TaskIds |-> "new"]
  /\ sem = 0 /\ wg = 0
  /\ results = [i \in TaskIds |-> Missing]
  /\ out = NotReturned
  /\ panicked = {}

RunnerReset ==
  /\ spawner' = [pc |-> "idle", next |-> 1]
  /\ task' = [i \in TaskIds |-> "new"]
  /\ sem' = 0 /\ wg' = 0
  /\ results' = [i \in TaskIds |-> Missing]
  /\ out' = NotReturned
  /\ panicked' = {}

-----------------------------------------------------------------------------
\* wg.Add(1), before the token is taken.
AddTask ==
  /\ spawner.pc = "add" /\ spawner.next <= TaskCount
  /\ wg' = wg + 1
  /\ spawner' = [spawner EXCEPT !.pc = "acquire"]
  /\ UNCHANGED <<task, sem, results, out, panicked>>

\* sem <- struct{}{} blocks while the channel is full; then the goroutine starts.
Spawn ==
  /\ spawner.pc = "acquire" /\ sem < Limit
  /\ sem' = sem + 1
  /\ task' = [task EXCEPT ![spawner.next] = "running"]
  /\ spawner' = [pc |-> "add", next |-> spawner.next + 1]
  /\ UNCHANGED <<wg, results, out, panicked>>

AllSpawned ==
  /\ spawner.pc = "add" /\ spawner.next > TaskCount
  /\ spawner' = [spawner EXCEPT !.pc = "wait"]
  /\ UNCHANGED <<task, sem, wg, results, out, panicked>>

\* The check returns, or panics and the innermost deferred function assigns the
\* error result.
RunTask(i) ==
  /\ task[i] = "running"
  /\ task' = [task EXCEPT ![i] = "written"]
  /\ \/ results' = [results EXCEPT ![i] = i] /\ UNCHANGED panicked
     \/ results' = [results EXCEPT ![i] = ErrorOf(i)] /\ panicked' = panicked \cup {i}
  /\ UNCHANGED <<spawner, sem, wg, out>>

\* Fault variant: a task that panicked keeps its token.
ReleaseToken_NotOnPanic(i) ==
  /\ task[i] = "written"
  /\ task' = [task EXCEPT ![i] = "released"]
  /\ sem' = IF i \in panicked THEN sem ELSE sem - 1
  /\ UNCHANGED <<spawner, wg, results, out, panicked>>

\* The deferred functions run last in, first out: the token, then wg.Done.
ReleaseToken(i) ==
  /\ task[i] = "written"
  /\ task' = [task EXCEPT ![i] = "released"]
  /\ sem' = sem - 1
  /\ UNCHANGED <<spawner, wg, results, out, panicked>>

TaskDone(i) ==
  /\ task[i] = "released"
  /\ task' = [task EXCEPT ![i] = "done"]
  /\ wg' = wg - 1
  /\ UNCHANGED <<spawner, sem, results, out, panicked>>

\* Fault variant: the results are collected once every goroutine is started.
Collect_NoWait ==
  /\ spawner.pc = "wait"
  /\ spawner' = [spawner EXCEPT !.pc = "returned"]
  /\ out' = [i \in TaskIds |-> results[i]]
  /\ UNCHANGED <<task, sem, wg, results, panicked>>

\* wg.Wait(), then the results are joined in task order.
Collect ==
  /\ spawner.pc = "wait" /\ wg = 0
  /\ spawner' = [spawner EXCEPT !.pc = "returned"]
  /\ out' = [i \in TaskIds |-> results[i]]
  /\ UNCHANGED <<task, sem, wg, results, panicked>>

TaskStep(i) == RunTask(i) \/ ReleaseToken(i) \/ TaskDone(i)
SpawnerStep == AddTask \/ Spawn \/ AllSpawned \/ Collect

RunnerNext == SpawnerStep \/ \E i \in TaskIds : TaskStep(i)

-----------------------------------------------------------------------------
\* What Analyze relies on: the runner returns one result per task in task order,
\* the task's own or, exactly if it panicked, its error result; none is missing,
\* whatever the order in which the goroutines end.
ResultsComplete ==
  spawner.pc = "returned" =>
    out = [i \in TaskIds |-> IF i \in panicked THEN ErrorOf(i) ELSE i]
=============================================================================
