------------------------- MODULE StartupTaskManager -------------------------
(***************************************************************************)
(* The startup task manager of Holder (src/Holder/StartupTaskManager.cpp): *)
(* tasks are defined by name, given dependencies on other tasks by name,   *)
(* and told when all of these are complete or one has failed.  Calls from  *)
(* other threads are queued; the executor on the startup thread handles    *)
(* them in order.  Calls made on the startup thread, by a listener that is *)
(* being called back, are handled at once, inside the call that led to the *)
(* callback: the stack of these calls is the variable `stack'.             *)
(*                                                                         *)
(* Other threads touch the queue only, which the startup thread reads only *)
(* between two rounds, so their calls are taken where the stack is empty.  *)
(***************************************************************************)
EXTENDS Integers, Sequences, FiniteSets

CONSTANTS
  Names,            (* task names clients use: positive numbers            *)
  NoTask,           (* stands for an absent task ID                        *)
  MaxTasks,         (* bound: tasks ever defined                           *)
  MaxQueue,         (* bound: length of the action queue                   *)
  MaxSetDeps,       (* bound: SetStartupDependencies calls per task        *)
  UINT_RANGE,       (* number of values of m_waitingTasks' type            *)
  StopWhenComplete, (* the argument of StartExecutor                       *)
  ReadyReactions,   (* what OnTaskReady may do: "run", "later", "finish"   *)
  FailReactions,    (* what OnDependencyFailed may do: "fail", "none",
                       "update"                                            *)
  Acyclic,          (* whether names only depend on smaller ones           *)
  OnlyDefined,      (* whether clients depend on names they defined only   *)
  OnlyBeforeStart,  (* whether tasks are only defined before StartExecutor *)
  MayRedefine,      (* whether clients define a name twice                 *)
  FailAnyTime,      (* whether clients give up tasks that do not run       *)
  MayTerminate      (* whether the executor may be asked to terminate      *)

TaskIDs == 0 .. MaxTasks - 1

TaskStates == {"Unknown", "DepsUnknown", "WaitingForDeps", "Ready", "Running",
               "Completed", "Failed"}

ASSUME ConstantsAssumption ==
  /\ Names \subseteq Nat \ {0}
  /\ MaxTasks \in Nat /\ MaxQueue \in Nat /\ MaxSetDeps \in Nat
  /\ NoTask \notin TaskIDs
  /\ UINT_RANGE \in Nat /\ UINT_RANGE > MaxTasks
  /\ {StopWhenComplete, Acyclic, OnlyDefined, OnlyBeforeStart, MayRedefine,
      FailAnyTime, MayTerminate} \subseteq BOOLEAN
  /\ ReadyReactions \subseteq {"run", "later", "finish"}
  /\ FailReactions \subseteq {"fail", "none", "update"}

VARIABLES
  \* The manager, guarded by m_mutex
  executorQueue, nextTaskId, running,
  \* The executor: how the execution manager sees it, whether a signal for it
  \* is on its way, and its own flags and local queue
  exec, signalled, stopRequested, localQueue, stack,
  \* m_taskNameMap: the names in it, their tasks, and who depends on those
  \* that have none
  named, nameTask, nameDependents,
  \* m_taskStates
  state, dependsOn, dependsOnUndefined, dependedOnBy, failuresReported,
  waitingTasks,
  \* The names each task was last made to depend on (a history variable), the
  \* names clients defined, and the calls made, for the bound
  requested, defined, setDepsCalls,
  \* Whether an exception or undefined behaviour ended the process
  crashed

managerVars == <<executorQueue, nextTaskId, running>>
nameVars == <<named, nameTask, nameDependents>>
graphVars == <<dependsOn, dependsOnUndefined, dependedOnBy>>
taskVars == <<state, failuresReported, waitingTasks>>
clientVars == <<requested, defined, setDepsCalls>>
execVars == <<exec, signalled, stopRequested>>
vars == <<managerVars, nameVars, graphVars, taskVars, clientVars, execVars,
          localQueue, stack, crashed>>

-----------------------------------------------------------------------------
(* Actions as they are queued, and frames of the call stack                *)

Action(op, id) == [op |-> op, id |-> id, name |-> 0, deps |-> {}, success |-> FALSE]
DefineAction(id, n)     == [Action("Define", id) EXCEPT !.name = n]
SetDepsAction(id, deps) == [Action("SetDeps", id) EXCEPT !.deps = deps]
RunAction(id)           == Action("Run", id)
CompleteAction(id, ok)  == [Action("Complete", id) EXCEPT !.success = ok]

\* EvaluateDependencies in progress: the dependencies its loop has still to
\* visit, how many were complete, and the failure being reported, if any.
EvaluateFrame(t, deps) ==
  [fn |-> "Evaluate", task |-> t, left |-> deps, complete |-> 0, reporting |-> NoTask]
\* The loop of HandleAction(CompleteTaskAction) over the dependents of a task.
NotifyFrame(t, dependents) ==
  [fn |-> "Notify", task |-> t, left |-> dependents, complete |-> 0, reporting |-> NoTask]

Top == stack[Len(stack)]
Below == SubSeq(stack, 1, Len(stack) - 1)
TopIs(fn) == ~crashed /\ stack # <<>> /\ Top.fn = fn
Idle == ~crashed /\ stack = <<>>

Push(calls, frame) == Append(calls, frame)

Plus(n, k) == (n + k) % UINT_RANGE
Minus(n, k) == (n + UINT_RANGE - k) % UINT_RANGE

-----------------------------------------------------------------------------
Init ==
  /\ executorQueue = <<>> /\ nextTaskId = 0 /\ running = FALSE
  /\ exec = "none" /\ signalled = FALSE /\ stopRequested = FALSE
  /\ localQueue = <<>> /\ stack = <<>>
  /\ named = {}
  /\ nameTask = [n \in Names |-> NoTask]
  /\ nameDependents = [n \in Names |-> {}]
  /\ state = [t \in TaskIDs |-> "Unknown"]
  /\ dependsOn = [t \in TaskIDs |-> {}]
  /\ dependsOnUndefined = [t \in TaskIDs |-> {}]
  /\ dependedOnBy = [t \in TaskIDs |-> {}]
  /\ failuresReported = [t \in TaskIDs |-> {}]
  /\ waitingTasks = 0
  /\ requested = [t \in TaskIDs |-> {}]
  /\ defined = <<>>
  /\ setDepsCalls = [t \in TaskIDs |-> 0]
  /\ crashed = FALSE

-----------------------------------------------------------------------------
(* Calls from other threads: queue the action, signal the executor if it   *)
(* was started                                                             *)

Enqueue(action) ==
  /\ Idle
  /\ Len(executorQueue) < MaxQueue
  /\ executorQueue' = Append(executorQueue, action)
  /\ signalled' = (signalled \/ running)
  /\ UNCHANGED <<running, exec, stopRequested, localQueue, stack, nameVars,
                 graphVars, taskVars, crashed>>

Queued(op, t) ==
  \E i \in DOMAIN executorQueue : executorQueue[i].op = op /\ executorQueue[i].id = t

DefineStartupTask(n) ==
  /\ nextTaskId < MaxTasks
  /\ OnlyBeforeStart => exec = "none"
  /\ MayRedefine \/ \A i \in DOMAIN defined : defined[i] # n
  /\ Enqueue(DefineAction(nextTaskId, n))
  /\ nextTaskId' = nextTaskId + 1
  /\ defined' = Append(defined, n)
  /\ UNCHANGED <<requested, setDepsCalls>>

\* The names clients let task t depend on
DependencyNames(t) ==
  {n \in Names : /\ Acyclic => n < defined[t + 1]
                 /\ OnlyDefined => \E i \in DOMAIN defined : defined[i] = n}

SetStartupDependencies(t, deps) ==
  /\ t < nextTaskId
  /\ OnlyBeforeStart => exec = "none"
  /\ deps \subseteq DependencyNames(t)
  /\ setDepsCalls[t] < MaxSetDeps
  /\ setDepsCalls' = [setDepsCalls EXCEPT ![t] = @ + 1]
  /\ Enqueue(SetDepsAction(t, deps))
  /\ UNCHANGED <<nextTaskId, requested, defined>>

RunTask(t) ==
  /\ state[t] = "Ready" /\ "later" \in ReadyReactions
  /\ ~Queued("Run", t)
  /\ Enqueue(RunAction(t))
  /\ UNCHANGED <<nextTaskId, clientVars>>

\* A service completes its task once it runs; with FailAnyTime it may also
\* give up before (BaseService::MarkFailed).
CompleteTask(t, success) ==
  /\ state[t] = "Running" \/ (FailAnyTime /\ t < nextTaskId /\ ~success)
  /\ ~Queued("Complete", t)
  /\ Enqueue(CompleteAction(t, success))
  /\ UNCHANGED <<nextTaskId, clientVars>>

\* The executor is created and handed to the execution manager.  Once it was
\* terminated the shop is locked: a new one never runs, but m_running is set.
StartExecutor ==
  /\ Idle
  /\ ~running
  /\ OnlyBeforeStart => \A t \in TaskIDs : t < nextTaskId => setDepsCalls[t] > 0
  /\ running' = TRUE
  /\ exec' = IF exec = "none" THEN "executing" ELSE exec
  /\ UNCHANGED <<executorQueue, nextTaskId, signalled, stopRequested,
                 localQueue, stack, nameVars, graphVars, taskVars, clientVars,
                 crashed>>

-----------------------------------------------------------------------------
(* The execution manager: signals reach the executor between two rounds    *)

Wake ==
  /\ Idle
  /\ signalled /\ exec # "running"
  /\ signalled' = FALSE
  /\ exec' = IF exec = "suspended" THEN "executing" ELSE exec
  /\ UNCHANGED <<managerVars, stopRequested, localQueue, stack, nameVars,
                 graphVars, taskVars, clientVars, crashed>>

TerminationRequested ==
  /\ Idle /\ MayTerminate
  /\ exec \in {"executing", "suspended"}
  /\ stopRequested' = TRUE
  /\ exec' = "executing"
  /\ UNCHANGED <<managerVars, signalled, localQueue, stack, nameVars, graphVars,
                 taskVars, clientVars, crashed>>

-----------------------------------------------------------------------------
(* A round of the executor: StartupTaskExecutor::Run                       *)

StartRound ==
  /\ Idle /\ exec = "executing" /\ ~stopRequested
  /\ localQueue' = executorQueue
  /\ executorQueue' = <<>>
  /\ exec' = "running"
  /\ UNCHANGED <<nextTaskId, running, signalled, stopRequested, stack, nameVars,
                 graphVars, taskVars, clientVars, crashed>>

StopRound ==
  /\ Idle /\ exec = "executing" /\ stopRequested
  /\ running' = FALSE
  /\ exec' = "ended"
  /\ UNCHANGED <<executorQueue, nextTaskId, signalled, stopRequested,
                 localQueue, stack, nameVars, graphVars, taskVars, clientVars,
                 crashed>>

\* Fault: the end of a round does not ask for the count of waiting tasks.
OnceStarted == StopWhenComplete /\ \E t \in TaskIDs : state[t] # "Unknown"

AllDone == /\ StopWhenComplete
           /\ \E t \in TaskIDs : state[t] # "Unknown"
           /\ waitingTasks = 0

EndRound ==
  /\ Idle /\ exec = "running" /\ localQueue = <<>>
  /\ exec' = IF AllDone THEN "ended" ELSE "suspended"
  /\ UNCHANGED <<managerVars, signalled, stopRequested, localQueue, stack,
                 nameVars, graphVars, taskVars, clientVars, crashed>>

\* The executor takes the next action off its queue and handles it.  Act is
\* called before the action is popped, but nothing else reads the queue.
Handles(op, action) ==
  /\ Idle /\ exec = "running"
  /\ localQueue # <<>>
  /\ action = Head(localQueue) /\ action.op = op
  /\ localQueue' = Tail(localQueue)
  /\ UNCHANGED <<managerVars, execVars, defined, setDepsCalls>>

-----------------------------------------------------------------------------
(* HandleAction(DefineTaskAction)                                          *)

\* Fault: the dependents of an undefined name stay in its description.
DependentsKept(n) == nameDependents

DependentsMoved(n) == [nameDependents EXCEPT ![n] = {}]

\* The tasks that waited for the name now depend on the task.  A name that has
\* a task already has no dependents to move: value() of an empty optional.
HandleDefine(a) ==
  /\ Handles("Define", a)
  /\ IF a.name \in named /\ nameTask[a.name] # NoTask
     THEN /\ crashed' = TRUE
          /\ UNCHANGED <<nameVars, graphVars, taskVars>>
     ELSE /\ named' = named \cup {a.name}
          /\ nameTask' = [nameTask EXCEPT ![a.name] = a.id]
          /\ nameDependents' = DependentsMoved(a.name)
          /\ dependsOn' = [t \in TaskIDs |-> IF t \in nameDependents[a.name]
                                             THEN dependsOn[t] \cup {a.id}
                                             ELSE dependsOn[t]]
          /\ dependsOnUndefined' =
               [t \in TaskIDs |-> IF t \in nameDependents[a.name]
                                  THEN dependsOnUndefined[t] \ {a.name}
                                  ELSE dependsOnUndefined[t]]
          /\ dependedOnBy' = [dependedOnBy EXCEPT ![a.id] = nameDependents[a.name]]
          /\ state' = [state EXCEPT ![a.id] = "DepsUnknown"]
          /\ waitingTasks' = Plus(waitingTasks, 1)
          /\ UNCHANGED <<failuresReported, crashed>>
  /\ UNCHANGED <<stack, requested>>

-----------------------------------------------------------------------------
(* HandleAction(SetDependenciesAction)                                     *)

MayChangeDependencies(t) == state[t] \in {"DepsUnknown", "WaitingForDeps"}

\* The description of a dependency, for each x that t depended on before or
\* depends on now.
\* Fault: t stays among the dependents of what it no longer depends on.
OnlyAdded(dependents, t, before, now) ==
  [x \in DOMAIN dependents |->
     dependents[x] \cup (IF x \in now THEN {t} ELSE {})]

Redirected(dependents, t, before, now) ==
  [x \in DOMAIN dependents |->
     (IF x \in before THEN dependents[x] \ {t} ELSE dependents[x])
       \cup (IF x \in now THEN {t} ELSE {})]

\* A name that is not in the map is put there, as undefined, but is not added
\* to the undefined dependencies of the task.
HandleSetDeps(a) ==
  LET known == a.deps \cap named
      deps  == {nameTask[n] : n \in {m \in known : nameTask[m] # NoTask}}
      undef == {n \in known : nameTask[n] = NoTask}
  IN
  /\ Handles("SetDeps", a)
  /\ IF MayChangeDependencies(a.id)
     THEN /\ named' = named \cup a.deps
          /\ dependedOnBy' = Redirected(dependedOnBy, a.id, dependsOn[a.id], deps)
          /\ nameDependents' = Redirected(nameDependents, a.id,
                                          dependsOnUndefined[a.id], undef)
          /\ dependsOn' = [dependsOn EXCEPT ![a.id] = deps]
          /\ dependsOnUndefined' = [dependsOnUndefined EXCEPT ![a.id] = undef]
          /\ failuresReported' = [failuresReported EXCEPT ![a.id] = {}]
          /\ state' = [state EXCEPT ![a.id] = "WaitingForDeps"]
          /\ requested' = [requested EXCEPT ![a.id] = a.deps]
          /\ stack' = Push(stack, EvaluateFrame(a.id, deps))
     ELSE UNCHANGED <<named, graphVars, nameDependents, failuresReported, state,
                      requested, stack>>
  /\ UNCHANGED <<nameTask, waitingTasks, crashed>>

-----------------------------------------------------------------------------
(* HandleAction(CompleteTaskAction) and HandleAction(RunTaskAction), for   *)
(* actions off the queue and for calls of listeners on the startup thread  *)

MayComplete(t, success) ==
  IF success THEN state[t] = "Running"
             ELSE state[t] \in {"Running", "Ready", "WaitingForDeps"}

\* Fault: the dependents of a task are told of its success only.
DependentsOfCompleted(t, success) == IF success THEN dependedOnBy[t] ELSE {}

\* Fault: the task itself is evaluated again with its dependents.
DependentsAndTask(t, success) == dependedOnBy[t] \cup {t}

DependentsToTell(t, success) == dependedOnBy[t]

\* The call made while the frames `calls' are on the stack
Complete(t, success, calls) ==
  IF MayComplete(t, success)
  THEN /\ state' = [state EXCEPT ![t] = IF success THEN "Completed" ELSE "Failed"]
       /\ waitingTasks' = Minus(waitingTasks, 1)
       /\ stack' = Push(calls, NotifyFrame(t, DependentsToTell(t, success)))
  ELSE /\ stack' = calls
       /\ UNCHANGED <<state, waitingTasks>>

HandleComplete(a) ==
  /\ Handles("Complete", a)
  /\ Complete(a.id, a.success, stack)
  /\ UNCHANGED <<nameVars, graphVars, failuresReported, requested, crashed>>

HandleRun(a) ==
  /\ Handles("Run", a)
  /\ state' = IF state[a.id] = "Ready" THEN [state EXCEPT ![a.id] = "Running"]
                                       ELSE state
  /\ UNCHANGED <<nameVars, graphVars, failuresReported, waitingTasks, stack,
                 requested, crashed>>

\* The loop over the dependents of a completed or failed task
TellDependent ==
  /\ TopIs("Notify") /\ Top.left # {}
  /\ \E d \in Top.left :
       stack' = Push(Push(Below, [Top EXCEPT !.left = @ \ {d}]),
                     EvaluateFrame(d, dependsOn[d]))
  /\ UNCHANGED <<managerVars, nameVars, graphVars, taskVars, clientVars, execVars,
                 localQueue, crashed>>

EndTelling ==
  /\ TopIs("Notify") /\ Top.left = {}
  /\ stack' = Below
  /\ UNCHANGED <<managerVars, nameVars, graphVars, taskVars, clientVars, execVars,
                 localQueue, crashed>>

-----------------------------------------------------------------------------
(* EvaluateDependencies: the set is visited in any order                   *)

FrameOnly == UNCHANGED <<managerVars, nameVars, graphVars, clientVars, execVars,
                         localQueue>>

NewFailure(t, d) == state[d] = "Failed" /\ d \notin failuresReported[t]

\* A dependency that needs no report
VisitDependency ==
  /\ TopIs("Evaluate") /\ Top.reporting = NoTask
  /\ \E d \in Top.left :
       /\ ~NewFailure(Top.task, d)
       /\ stack' = Push(Below, [Top EXCEPT !.left = @ \ {d},
                                  !.complete = IF state[d] = "Completed"
                                               THEN @ + 1 ELSE @])
  /\ FrameOnly /\ UNCHANGED <<taskVars, crashed>>

\* OnDependencyFailed.  A listener that changes the dependencies of the task
\* takes away the set the loop iterates over.
ReportFailure(reaction) ==
  /\ TopIs("Evaluate") /\ Top.reporting = NoTask
  /\ \E d \in Top.left :
       /\ NewFailure(Top.task, d)
       /\ LET calls == Push(Below, [Top EXCEPT !.left = @ \ {d}, !.reporting = d])
          IN \/ reaction = "none" /\ stack' = calls
                /\ UNCHANGED <<state, waitingTasks, crashed>>
             \/ reaction = "fail" /\ Complete(Top.task, FALSE, calls)
                /\ UNCHANGED crashed
             \/ reaction = "update" /\ stack' = calls
                /\ crashed' = MayChangeDependencies(Top.task)
                /\ UNCHANGED <<state, waitingTasks>>
  /\ FrameOnly /\ UNCHANGED failuresReported

\* The listener returned: the failure counts as reported.
FailureReported ==
  /\ TopIs("Evaluate") /\ Top.reporting # NoTask
  /\ failuresReported' = [failuresReported EXCEPT ![Top.task] = @ \cup {Top.reporting}]
  /\ stack' = Push(Below, [Top EXCEPT !.reporting = NoTask])
  /\ FrameOnly /\ UNCHANGED <<state, waitingTasks, crashed>>

\* Fault: one complete dependency is enough.
SomeComplete(f) ==
  (f.complete > 0 \/ dependsOn[f.task] = {}) /\ dependsOnUndefined[f.task] = {}

AllComplete(f) == /\ f.complete = Cardinality(dependsOn[f.task])
                  /\ dependsOnUndefined[f.task] = {}

Evaluated(f) == f.left = {} /\ f.reporting = NoTask

EvaluatedWaiting ==
  /\ TopIs("Evaluate") /\ Evaluated(Top) /\ ~AllComplete(Top)
  /\ stack' = Below
  /\ FrameOnly /\ UNCHANGED <<taskVars, crashed>>

\* OnTaskReady, whose listener runs the task at once ("run"), and may even
\* complete it ("finish"), or leaves that to another thread ("later").
EvaluatedReady(reaction) ==
  /\ TopIs("Evaluate") /\ Evaluated(Top) /\ AllComplete(Top)
  /\ LET t == Top.task
     IN \/ reaction = "later" /\ stack' = Below
           /\ state' = [state EXCEPT ![t] = "Ready"]
           /\ UNCHANGED waitingTasks
        \/ reaction = "run" /\ stack' = Below
           /\ state' = [state EXCEPT ![t] = "Running"]
           /\ UNCHANGED waitingTasks
        \/ reaction = "finish"
           /\ state' = [state EXCEPT ![t] = "Completed"]
           /\ waitingTasks' = Minus(waitingTasks, 1)
           /\ stack' = Push(Below, NotifyFrame(t, DependentsToTell(t, TRUE)))
  /\ FrameOnly /\ UNCHANGED <<failuresReported, crashed>>

-----------------------------------------------------------------------------
Clients ==
  \/ \E n \in Names : DefineStartupTask(n)
  \/ \E t \in TaskIDs, deps \in SUBSET Names : SetStartupDependencies(t, deps)
  \/ \E t \in TaskIDs : RunTask(t)
  \/ \E t \in TaskIDs, success \in BOOLEAN : CompleteTask(t, success)
  \/ StartExecutor

StartupThread ==
  \/ StartRound
  \/ StopRound
  \/ EndRound
  \/ localQueue # <<>> /\ HandleDefine(Head(localQueue))
  \/ localQueue # <<>> /\ HandleSetDeps(Head(localQueue))
  \/ localQueue # <<>> /\ HandleComplete(Head(localQueue))
  \/ localQueue # <<>> /\ HandleRun(Head(localQueue))
  \/ TellDependent
  \/ EndTelling
  \/ VisitDependency
  \/ \E reaction \in FailReactions : ReportFailure(reaction)
  \/ FailureReported
  \/ EvaluatedWaiting
  \/ \E reaction \in ReadyReactions : EvaluatedReady(reaction)

Next == Clients \/ Wake \/ TerminationRequested \/ StartupThread

Spec == Init /\ [][Next]_vars

-----------------------------------------------------------------------------
(* Properties                                                              *)

Exists(t) == state[t] # "Unknown"
Final(t) == state[t] \in {"Completed", "Failed"}

Actions == [op : {"Define", "SetDeps", "Run", "Complete"}, id : TaskIDs,
            name : Names \cup {0}, deps : SUBSET Names, success : BOOLEAN]

Frames == [fn : {"Evaluate", "Notify"}, task : TaskIDs, left : SUBSET TaskIDs,
           complete : 0 .. MaxTasks, reporting : TaskIDs \cup {NoTask}]

\* The types of the variables.  As TaskNameDesc_ has it, only a name without a
\* task has a set of dependents, and the number of waiting tasks fits its type.
TypeOK ==
  /\ executorQueue \in Seq(Actions) /\ localQueue \in Seq(Actions)
  /\ nextTaskId \in 0 .. MaxTasks
  /\ exec \in {"none", "executing", "running", "suspended", "ended"}
  /\ {running, signalled, stopRequested, crashed} \subseteq BOOLEAN
  /\ stack \in Seq(Frames)
  /\ named \subseteq Names
  /\ nameTask \in [Names -> TaskIDs \cup {NoTask}]
  /\ nameDependents \in [Names -> SUBSET TaskIDs]
  /\ \A n \in Names : nameDependents[n] # {} => n \in named /\ nameTask[n] = NoTask
  /\ state \in [TaskIDs -> TaskStates]
  /\ dependsOn \in [TaskIDs -> SUBSET TaskIDs]
  /\ dependsOnUndefined \in [TaskIDs -> SUBSET Names]
  /\ dependedOnBy \in [TaskIDs -> SUBSET TaskIDs]
  /\ failuresReported \in [TaskIDs -> SUBSET TaskIDs]
  /\ waitingTasks \in 0 .. UINT_RANGE - 1
  /\ requested \in [TaskIDs -> SUBSET Names]
  /\ defined \in Seq(Names) /\ Len(defined) = nextTaskId
  /\ setDepsCalls \in [TaskIDs -> 0 .. MaxSetDeps]

\* Dependencies are recorded on both sides, for defined tasks and for names
\* still to be defined: every task that waits for another is told of its end
\* (cpp:313), and a name that is defined finds all tasks that wait for it.
GraphSymmetric ==
  /\ \A t, d \in TaskIDs : d \in dependsOn[t] <=> t \in dependedOnBy[d]
  /\ \A t \in TaskIDs, n \in Names :
       n \in dependsOnUndefined[t] <=> t \in nameDependents[n]

\* m_waitingTasks counts the tasks that are neither completed nor failed, on
\* which the end of the executor depends (cpp:43), also between the callbacks
\* of one action.
WaitingCount ==
  waitingTasks = Cardinality({t \in TaskIDs : Exists(t) /\ ~Final(t)})

\* Between two actions nothing is forgotten: a waiting task was told of every
\* dependency that failed, and is not one whose dependencies are all complete.
NothingMissed ==
  (stack = <<>> /\ ~crashed) =>
    \A t \in TaskIDs : state[t] = "WaitingForDeps" =>
      /\ {d \in dependsOn[t] : state[d] = "Failed"} \subseteq failuresReported[t]
      /\ \/ dependsOnUndefined[t] # {}
         \/ \E d \in dependsOn[t] : state[d] # "Completed"

\* The listener of a task is not called back inside its own OnDependencyFailed:
\* BaseService::OnDependencyFailed holds its mutex over the call that fails the
\* task, and would wait for itself.
ListenerNotReentered ==
  \A i, j \in DOMAIN stack :
    (i # j /\ stack[i].reporting # NoTask /\ stack[j].reporting # NoTask)
      => stack[i].task # stack[j].task

\* The executor that is to stop when all is complete (cpp:41-43) ends only when
\* no task is left that is neither completed nor failed, or when asked to.
EndsOnlyWhenResolved ==
  exec = "ended" => \/ stopRequested
                    \/ \A t \in TaskIDs : Exists(t) => Final(t)

\* No legal sequence of calls ends the process.
NoCrash == ~crashed

\* Where the dependencies have no cycle, listeners run their tasks when ready
\* and fail them when a dependency fails, the executor that stops when complete
\* (cpp:41-43) stops, with every task that was ever defined completed or failed.
EventuallyEnds ==
  (nextTaskId > 0) ~>
    (exec = "ended" /\ \A t \in TaskIDs : t < nextTaskId => Final(t))
=============================================================================
