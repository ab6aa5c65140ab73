------------------------------ MODULE AsyncTasks ------------------------------
(***************************************************************************)
(* Task graphs and the pool of threads that runs them (AsyncTaskGraph,     *)
(* AsyncTaskExecutor).  A builder collects tasks and dependencies; every   *)
(* call of ExecuteGraph is a context with its own copy of the graph: it    *)
(* posts the tasks that depend on nothing, waits for completions and posts *)
(* what they release, until nothing is pending.  A thread runs the tasks   *)
(* it finds and tries once again those that asked to continue.             *)
(***************************************************************************)
EXTENDS Integers, Sequences, FiniteSets

CONSTANTS
  Contexts,      \* calls of ExecuteGraph
  Threads,       \* threads of the pool
  MaxTasks,      \* tasks of the graph
  MaxEdits,      \* calls of AddDependency and ClearDependencies
  MaxContinues   \* times a task returns Continue

ASSUME AsyncAssumption ==
  /\ Threads # {} /\ MaxTasks \in Nat \ {0} /\ MaxEdits \in Nat
  /\ MaxContinues \in Nat

TaskIDs == 0 .. MaxTasks - 1

VARIABLES
  numTasks, vFrom, vTo, edits,               \* AsyncGraphBuilder
  dependentTasks, dependencyCount, completedTasks, executingTasks,
                                             \* AsyncGraphOrder, per context
  pcCtx, taskList, pendingTasks, completionQueue, localCompletions,
                                             \* TaskContext and RunAllTasks
  pcThread, todoList, localTodo, unfinished, numToProcess, messagesDone,
  taskLoad, stopFlag,                        \* TaskExecutorThread
  pcDestroy, missed,                         \* threads joined by the destructor,
                                             \* and those that missed the flag
  continued, completed                       \* tasks: Continues so far, ended

builderVars == <<numTasks, vFrom, vTo, edits>>
orderVars == <<dependentTasks, dependencyCount, completedTasks, executingTasks>>
contextVars == <<pcCtx, taskList, pendingTasks, localCompletions>>
threadVars == <<pcThread, localTodo, unfinished, numToProcess, messagesDone>>
destroyVars == <<pcDestroy, missed>>
postVars == <<todoList, taskLoad>>
asyncVars == <<builderVars, orderVars, contextVars, completionQueue, threadVars,
               postVars, stopFlag, destroyVars, continued, completed>>

AsyncInit ==
  /\ numTasks = 0 /\ edits = 0
  /\ vFrom = [i \in TaskIDs |-> {}] /\ vTo = [i \in TaskIDs |-> {}]
  /\ dependentTasks = [c \in Contexts |-> vTo]
  /\ dependencyCount = [c \in Contexts |-> [i \in TaskIDs |-> 0]]
  /\ completedTasks = [c \in Contexts |-> 0]
  /\ executingTasks = [c \in Contexts |-> 0]
  /\ pcCtx = [c \in Contexts |-> "new"]
  /\ taskList = [c \in Contexts |-> <<>>]
  /\ pendingTasks = [c \in Contexts |-> 0]
  /\ completionQueue = [c \in Contexts |-> <<>>]
  /\ localCompletions = [c \in Contexts |-> <<>>]
  /\ pcThread = [t \in Threads |-> "top"]
  /\ todoList = [t \in Threads |-> <<>>]
  /\ localTodo = [t \in Threads |-> <<>>]
  /\ unfinished = [t \in Threads |-> <<>>]
  /\ numToProcess = [t \in Threads |-> 0]
  /\ messagesDone = [t \in Threads |-> <<>>]
  /\ taskLoad = [t \in Threads |-> 0]
  /\ stopFlag = [t \in Threads |-> FALSE]
  /\ pcDestroy = {} /\ missed = {}
  /\ continued = [c \in Contexts |-> [i \in TaskIDs |-> 0]]
  /\ completed = [c \in Contexts |-> {}]

-----------------------------------------------------------------------------
(* AsyncGraphBuilder: used by one thread, before it executes the graph     *)

Building == \A c \in Contexts : pcCtx[c] = "new"
NotBuilder == UNCHANGED <<orderVars, contextVars, completionQueue, threadVars,
                          postVars, stopFlag, destroyVars, continued, completed>>

AddTask ==
  /\ Building /\ numTasks < MaxTasks
  /\ numTasks' = numTasks + 1
  /\ UNCHANGED <<vFrom, vTo, edits>> /\ NotBuilder

Edit == Building /\ edits < MaxEdits /\ edits' = edits + 1 /\ UNCHANGED numTasks

\* Both sets ignore duplicates; a task may depend on itself.
AddDependency(from, to) ==
  /\ Edit
  /\ from < numTasks /\ to < numTasks
  /\ vFrom' = [vFrom EXCEPT ![from] = @ \cup {to}]
  /\ vTo' = [vTo EXCEPT ![to] = @ \cup {from}]
  /\ NotBuilder

\* Fault: the tasks it depended on are not told.
KeptDependents(i) == vTo
LeftDependents(i) ==
  [j \in TaskIDs |-> IF j \in vFrom[i] THEN vTo[j] \ {i} ELSE vTo[j]]

ClearDependencies(i) ==
  /\ Edit
  /\ i < numTasks
  /\ vTo' = LeftDependents(i)
  /\ vFrom' = [vFrom EXCEPT ![i] = {}]
  /\ NotBuilder

-----------------------------------------------------------------------------
(* ExecuteGraph and RunAllTasks                                            *)

InOrder(S) == CHOOSE q \in [1 .. Cardinality(S) -> S] :
                \A k, l \in DOMAIN q : k < l => q[k] < q[l]

\* ConstructGraph, CreateContext and the first list of tasks.  How many edits
\* led to the graph no longer matters.
StartContext(c) ==
  LET initial == {i \in 0 .. numTasks - 1 : vFrom[i] = {}} IN
  /\ pcCtx[c] = "new" /\ numTasks > 0 /\ pcDestroy = {}
  /\ dependentTasks' = [dependentTasks EXCEPT ![c] = vTo]
  /\ dependencyCount' = [dependencyCount EXCEPT ![c] =
                           [i \in TaskIDs |-> Cardinality(vFrom[i])]]
  /\ taskList' = [taskList EXCEPT ![c] = InOrder(initial)]
  /\ executingTasks' = [executingTasks EXCEPT ![c] = Cardinality(initial)]
  /\ pendingTasks' = [pendingTasks EXCEPT ![c] = Cardinality(initial)]
  /\ pcCtx' = [pcCtx EXCEPT ![c] = IF initial = {} THEN "returned" ELSE "post"]
  /\ edits' = 0
  /\ UNCHANGED <<numTasks, vFrom, vTo, completedTasks, localCompletions,
                 completionQueue, threadVars, postVars, stopFlag, destroyVars,
                 continued, completed>>

\* PostTaskToThread picks a thread with the smallest load, and PostTask needs
\* its mutex, which a thread between its check and its sleep holds.
PostTaskToThread(c, t) ==
  /\ pcCtx[c] = "post" /\ taskList[c] # <<>>
  /\ \A u \in Threads : taskLoad[t] <= taskLoad[u]
  /\ pcThread[t] # "checked"
  /\ todoList' = [todoList EXCEPT ![t] = Append(@, [ctx |-> c, id |-> Head(taskList[c])])]
  /\ taskLoad' = [taskLoad EXCEPT ![t] = @ + 1]
  /\ taskList' = [taskList EXCEPT ![c] = Tail(@)]
  /\ pcThread' = [pcThread EXCEPT ![t] = IF @ = "sleep" THEN "awake" ELSE @]
  /\ UNCHANGED <<builderVars, orderVars, pcCtx, pendingTasks,
                 localCompletions, completionQueue, localTodo, unfinished,
                 numToProcess, messagesDone, stopFlag, destroyVars, continued,
                 completed>>

\* Wait for completions and take all of them.
TakeCompletions(c) ==
  /\ pcCtx[c] = "post" /\ taskList[c] = <<>>
  /\ completionQueue[c] # <<>>
  /\ localCompletions' = [localCompletions EXCEPT ![c] = completionQueue[c]]
  /\ completionQueue' = [completionQueue EXCEPT ![c] = <<>>]
  /\ pendingTasks' = [pendingTasks EXCEPT ![c] = @ - Len(completionQueue[c])]
  /\ pcCtx' = [pcCtx EXCEPT ![c] = "handle"]
  /\ UNCHANGED <<builderVars, orderVars, taskList, threadVars, postVars,
                 stopFlag, destroyVars, continued, completed>>

\* Fault: a task is released by the first of its dependencies.
AnyOf(c, dep) == {j \in dep : dependencyCount[c][j] > 0}
Released(c, dep) == {j \in dep : dependencyCount[c][j] = 1}

\* GetTasksToExecute: one completion releases the tasks that waited for it
\* alone.  After the last one what was released is pending, or all is done.
HandleCompletion(c) ==
  LET i == Head(localCompletions[c])
      dep == dependentTasks[c][i]
      list == taskList[c] \o InOrder(Released(c, dep))
      last == Len(localCompletions[c]) = 1
      pending == pendingTasks[c] + Len(list)
  IN
  /\ pcCtx[c] = "handle"
  /\ localCompletions' = [localCompletions EXCEPT ![c] = Tail(@)]
  /\ completedTasks' = [completedTasks EXCEPT ![c] = @ + 1]
  /\ executingTasks' = [executingTasks EXCEPT ![c] =
                          @ - 1 + Cardinality(Released(c, dep))]
  /\ dependencyCount' = [dependencyCount EXCEPT ![c] =
       [j \in TaskIDs |-> IF j \in dep THEN @[j] - 1 ELSE @[j]]]
  /\ taskList' = [taskList EXCEPT ![c] = list]
  /\ IF last
     THEN /\ pendingTasks' = [pendingTasks EXCEPT ![c] = pending]
          /\ pcCtx' = [pcCtx EXCEPT ![c] = IF pending = 0 THEN "returned" ELSE "post"]
     ELSE UNCHANGED <<pendingTasks, pcCtx>>
  /\ UNCHANGED <<builderVars, dependentTasks, completionQueue, threadVars,
                 postVars, stopFlag, destroyVars, continued, completed>>

HasUnexecutedTasks(c) == completedTasks[c] < numTasks

\* What RunAllTasks returns.
TaskResult(c) ==
  IF HasUnexecutedTasks(c) THEN "UnableToProgress" ELSE "ExecutionComplete"

-----------------------------------------------------------------------------
(* TaskExecutorThread::Run                                                 *)

At(t, label) == pcThread[t] = label
Goto(t, label) == pcThread' = [pcThread EXCEPT ![t] = label]

NotThread == UNCHANGED <<builderVars, orderVars, contextVars, destroyVars>>

\* The loop condition, then the predicate of the wait with the mutex locked.
CheckTodo(t) ==
  /\ At(t, "top") \/ At(t, "awake")
  /\ \/ stopFlag[t] /\ Goto(t, "ended")
        /\ UNCHANGED <<todoList, localTodo>>
     \/ /\ ~stopFlag[t] /\ todoList[t] = <<>>
        /\ Goto(t, "checked")
        /\ UNCHANGED <<todoList, localTodo>>
     \/ /\ ~stopFlag[t] /\ todoList[t] # <<>>
        /\ localTodo' = [localTodo EXCEPT ![t] = todoList[t]]
        /\ todoList' = [todoList EXCEPT ![t] = <<>>]
        /\ Goto(t, "run")
  /\ UNCHANGED <<unfinished, numToProcess, messagesDone, taskLoad, stopFlag,
                 completionQueue, continued, completed>>
  /\ NotThread

FallAsleep(t) ==
  /\ At(t, "checked") /\ Goto(t, "sleep")
  /\ UNCHANGED <<localTodo, unfinished, numToProcess, messagesDone, postVars,
                 stopFlag, completionQueue, continued, completed>>
  /\ NotThread

\* One call of a task: it completes, or asks to be continued.
Complete(t, p) ==
  /\ messagesDone' = [messagesDone EXCEPT ![t] = Append(@, p)]
  /\ taskLoad' = [taskLoad EXCEPT ![t] = @ - 1]
  /\ completed' = [completed EXCEPT ![p.ctx] = @ \cup {p.id}]
  /\ UNCHANGED continued

Continue(p) ==
  /\ continued[p.ctx][p.id] < MaxContinues
  /\ continued' = [continued EXCEPT ![p.ctx][p.id] = @ + 1]
  /\ UNCHANGED <<messagesDone, taskLoad, completed>>

\* Fault: the unfinished ones are left where they are.
NotTried(q) == 0
ToTryAgain(q) == Len(q)

\* The new tasks first; after the last of them the unfinished ones are counted.
RunTodo(t) ==
  LET p == Head(localTodo[t]) IN
  /\ At(t, "run")
  /\ localTodo[t] # <<>>
  /\ localTodo' = [localTodo EXCEPT ![t] = Tail(@)]
  /\ \/ Complete(t, p) /\ UNCHANGED unfinished
     \/ Continue(p) /\ unfinished' = [unfinished EXCEPT ![t] = Append(@, p)]
  /\ numToProcess' = [numToProcess EXCEPT ![t] = ToTryAgain(unfinished'[t])]
  /\ UNCHANGED <<pcThread, todoList, stopFlag, completionQueue>>
  /\ NotThread

\* Then the unfinished ones once more, as many as there were.
RunUnfinished(t) ==
  LET p == Head(unfinished[t]) IN
  /\ At(t, "run")
  /\ localTodo[t] = <<>> /\ numToProcess[t] > 0
  /\ \/ Complete(t, p) /\ unfinished' = [unfinished EXCEPT ![t] = Tail(@)]
     \/ Continue(p) /\ unfinished' = [unfinished EXCEPT ![t] = Append(Tail(@), p)]
  /\ numToProcess' = [numToProcess EXCEPT ![t] = @ - 1]
  /\ UNCHANGED <<pcThread, localTodo, todoList, stopFlag, completionQueue>>
  /\ NotThread

\* PostTaskCompletions: each to its context; then back to the top, where the
\* thread waits for new tasks although it may have unfinished ones.
PostCompletion(t) ==
  LET m == Head(messagesDone[t]) IN
  /\ At(t, "run")
  /\ localTodo[t] = <<>> /\ numToProcess[t] = 0
  /\ IF messagesDone[t] = <<>>
     THEN Goto(t, "top") /\ UNCHANGED <<messagesDone, completionQueue>>
     ELSE /\ completionQueue' = [completionQueue EXCEPT ![m.ctx] = Append(@, m.id)]
          /\ messagesDone' = [messagesDone EXCEPT ![t] = Tail(@)]
          /\ UNCHANGED pcThread
  /\ UNCHANGED <<localTodo, unfinished, numToProcess, postVars, stopFlag,
                 continued, completed>>
  /\ NotThread

-----------------------------------------------------------------------------
(* The destructor joins the threads one after the other                    *)

Woken(t) == [pcThread EXCEPT ![t] = IF @ = "sleep" THEN "awake" ELSE @]

\* Join sets the flag and notifies without the mutex: a thread between its
\* check and its sleep notices neither.
Join(t) ==
  /\ \A c \in Contexts : pcCtx[c] = "returned"
  /\ \A u \in pcDestroy : At(u, "ended")
  /\ t \notin pcDestroy
  /\ pcDestroy' = pcDestroy \cup {t}
  /\ missed' = IF At(t, "checked") THEN missed \cup {t} ELSE missed
  /\ stopFlag' = [stopFlag EXCEPT ![t] = TRUE]
  /\ pcThread' = Woken(t)
  /\ UNCHANGED <<builderVars, orderVars, contextVars, localTodo, unfinished,
                 numToProcess, messagesDone, postVars, completionQueue,
                 continued, completed>>

ContextStep(c) ==
  \/ \E t \in Threads : PostTaskToThread(c, t)
  \/ TakeCompletions(c) \/ HandleCompletion(c)

ThreadStep(t) ==
  \/ CheckTodo(t) \/ FallAsleep(t) \/ RunTodo(t) \/ RunUnfinished(t)
  \/ PostCompletion(t)

AsyncNext ==
  \/ AddTask
  \/ \E i, j \in TaskIDs : AddDependency(i, j)
  \/ \E i \in TaskIDs : ClearDependencies(i)
  \/ \E c \in Contexts : StartContext(c) \/ ContextStep(c)
  \/ \E t \in Threads : ThreadStep(t) \/ Join(t)

\* Threads are scheduled, and every call of a task returns.
AsyncFairness ==
  /\ \A c \in Contexts : WF_asyncVars(ContextStep(c))
  /\ \A t \in Threads : WF_asyncVars(ThreadStep(t))

AsyncSpec == AsyncInit /\ [][AsyncNext]_asyncVars

-----------------------------------------------------------------------------
(* Properties                                                              *)

AsyncTypeOK ==
  /\ numTasks \in 0 .. MaxTasks
  /\ vFrom \in [TaskIDs -> SUBSET TaskIDs] /\ vTo \in [TaskIDs -> SUBSET TaskIDs]
  /\ dependencyCount \in [Contexts -> [TaskIDs -> 0 .. MaxTasks]]
  /\ pendingTasks \in [Contexts -> 0 .. MaxTasks]
  /\ executingTasks \in [Contexts -> 0 .. MaxTasks]
  /\ taskLoad \in [Threads -> Nat]
  /\ pcThread \in [Threads -> {"top", "checked", "sleep", "awake", "run", "ended"}]

\* The two sides of the builder's graph agree after any sequence of edits; the
\* counts come from one side and the releases from the other.
BuilderSymmetric ==
  \A i, j \in TaskIDs : j \in vFrom[i] <=> i \in vTo[j]

Queues(t) == <<todoList[t], localTodo[t], unfinished[t]>>

\* Where a task of a context is on its way through the pool.
Places(c, i) ==
  UNION {{<<t, n, k>> : k \in {k \in DOMAIN Queues(t)[n] : Queues(t)[n][k] = [ctx |-> c, id |-> i]}}
           : t \in Threads, n \in 1 .. 3}

\* A task is handed to one thread once, only after every task it depends on
\* has completed, and never again.
RunsOnceAfterDependencies ==
  \A c \in Contexts, i \in TaskIDs :
    /\ Cardinality(Places(c, i)) <= IF i \in completed[c] THEN 0 ELSE 1
    /\ Places(c, i) # {} => vFrom[i] \subseteq completed[c]

\* The pool is done with a graph when all that can run has run: the result is
\* UnableToProgress exactly when some tasks lie on or behind a cycle.
Stuck(S) == S # {} /\ \A i \in S : vFrom[i] \cap S # {}
ResultTellsCycle ==
  \A c \in Contexts : pcCtx[c] = "returned" =>
    (TaskResult(c) = "UnableToProgress"
       <=> \E S \in SUBSET (0 .. numTasks - 1) : Stuck(S))

\* ExecuteGraph returns, as long as no task asks to continue twice.
ExecuteGraphReturns ==
  \A c \in Contexts : (pcCtx[c] # "new") ~> (pcCtx[c] = "returned")

\* Every thread that is asked to stop ends and is joined, unless it was asked
\* between its check and its sleep.
ToEnd == {t \in Threads : stopFlag[t] /\ t \notin missed /\ pcThread[t] # "ended"}
JoinReturns == (ToEnd # {}) ~> (ToEnd = {})
=============================================================================
