--------------------------- MODULE ServicesProofs ---------------------------
(***************************************************************************)
(* What services and the startup task manager promise each other, for any  *)
(* number of services: every step of a service is one that the manager     *)
(* expects of its clients and listeners, so what StartupProofs shows of    *)
(* the manager holds with services; a service and the manager agree on how *)
(* its startup ended; and no service is put on its queue before all it     *)
(* depends on are up.                                                      *)
(***************************************************************************)
EXTENDS Services, StartupProofs

-----------------------------------------------------------------------------
(* The invariant of the services                                           *)

\* What the services make of the manager: a listener runs its task at once when
\* it is ready and fails it at most when a dependency failed, and no service
\* fails before its task runs.
ServicesUse ==
  ReadyReactions = {"run"} /\ FailReactions = {"fail", "none"} /\ ~FailAnyTime

ServicesTypeOK ==
  /\ receiver \in [TaskIDs -> {"none", "created", "ready"}]
  /\ failedStartup \in [TaskIDs -> BOOLEAN]
  /\ completedStartup \in [TaskIDs -> BOOLEAN]

\* The end of the service's startup is still to be handled by the manager.
EndWaits(t) == \E i \in DOMAIN calls : calls[i].op = "Complete" /\ calls[i].id = t

\* A service has a receiver when its task runs or ran, with all it depends on
\* complete.  Its flags are those of its task, or a call that makes them so is
\* on its way.
ServiceOf(t) ==
  /\ state[t] # "Ready"
  /\ state[t] = "Completed" => completedStartup[t]
  /\ state[t] = "Failed" => failedStartup[t]
  /\ receiver[t] # "none" =>
       state[t] \in {"Running", "Completed", "Failed"} /\ AllMet(t)
  /\ completedStartup[t] =>
       /\ ~failedStartup[t] /\ receiver[t] = "ready"
       /\ state[t] \in {"Running", "Completed"}
  /\ failedStartup[t] => state[t] \in {"Running", "Failed"}
  /\ state[t] = "Running" /\ ~Undecided(t) => EndWaits(t)

\* A call that ends a startup is the one its service's flags tell of.
EndOf(a) ==
  a.op = "Complete" =>
    IF a.success THEN completedStartup[a.id] ELSE failedStartup[a.id]

ServicesInv ==
  /\ ServicesTypeOK
  /\ \A t \in TaskIDs : ServiceOf(t)
  /\ \A i \in DOMAIN calls : EndOf(calls[i])

-----------------------------------------------------------------------------
(* Services are clients and listeners of the manager                       *)

\* A service with a receiver that has not told its end runs, and the manager
\* has no call from it.
LEMMA UndecidedRuns ==
  ASSUME TypeOK, ServicesInv, NEW t \in TaskIDs, receiver[t] # "none", Undecided(t)
  PROVE  state[t] = "Running" /\ ~EndWaits(t) /\ ~Queued("Complete", t)
<1>1. ServiceOf(t) /\ ~completedStartup[t] /\ ~failedStartup[t]
  BY DEF ServicesInv, Undecided
<1>2. state[t] = "Running"
  BY <1>1 DEF ServiceOf
<1>3. ~EndWaits(t)
  BY <1>1 DEF EndWaits, ServicesInv, EndOf
<1>4. ASSUME NEW i \in DOMAIN executorQueue,
             executorQueue[i].op = "Complete", executorQueue[i].id = t
      PROVE  FALSE
  <2>1. executorQueue \in Seq(Actions) /\ localQueue \in Seq(Actions)
    BY DEF TypeOK
  <2>2. /\ DOMAIN executorQueue = 1 .. Len(executorQueue) /\ Len(executorQueue) \in Nat
        /\ Len(localQueue) \in Nat
    BY <2>1, LenProperties
  <2>3. /\ calls \in Seq(Actions)
        /\ Len(calls) = Len(localQueue) + Len(executorQueue)
        /\ \A k \in 1 .. Len(localQueue) + Len(executorQueue) :
             calls[k] = IF k <= Len(localQueue) THEN localQueue[k]
                        ELSE executorQueue[k - Len(localQueue)]
    BY <2>1, ConcatProperties DEF calls
  <2>4. DOMAIN calls = 1 .. Len(calls)
    BY <2>3, LenProperties
  <2>5. /\ i + Len(localQueue) \in 1 .. Len(localQueue) + Len(executorQueue)
        /\ ~ (i + Len(localQueue) <= Len(localQueue))
        /\ i + Len(localQueue) - Len(localQueue) = i
    BY <2>2
  <2>6. i + Len(localQueue) \in DOMAIN calls /\ calls[i + Len(localQueue)] = executorQueue[i]
    BY <2>3, <2>4, <2>5
  <2> QED BY <1>3, <1>4, <2>6 DEF EndWaits
<1> QED BY <1>2, <1>3, <1>4 DEF Queued

\* A service that tells its end completes or fails a task that runs.
LEMMA EndsAreCalls ==
  ASSUME TypeOK, ServicesInv, NEW t \in TaskIDs, receiver[t] # "none", Undecided(t),
         NEW ok \in BOOLEAN, QueueCompletion(t, ok)
  PROVE  CompleteTask(t, ok)
BY UndecidedRuns DEF CompleteTask, QueueCompletion

\* Each step of the services, their starter and the threads is one of the
\* manager's specification, or leaves the manager alone.
LEMMA ServicesStep ==
  ASSUME ServicesUse, TypeOK, ServicesInv, [ServicesNext]_servicesVars
  PROVE  [Next]_vars
<1>1. ASSUME NEW n \in Names, AddService(n) PROVE UNCHANGED vars
  BY <1>1 DEF AddService
<1>2. ASSUME Starter PROVE Next \/ UNCHANGED vars
  <2>1. CASE Start
    BY <2>1 DEF Start
  <2>2. CASE StartSucceeds
    BY <2>2 DEF StartSucceeds, Next, Clients
  <2>3. ASSUME NEW n \in Names, OnCreated(n) PROVE Next
    BY <2>3 DEF OnCreated, Next, Clients
  <2>4. ASSUME NEW t \in TaskIDs, OnDependenciesAdded(t) PROVE Next
    BY <2>4 DEF OnDependenciesAdded, Next, Clients
  <2> QED BY <1>2, <2>1, <2>2, <2>3, <2>4 DEF Starter
<1>3. ASSUME ManagerAlone PROVE Next
  BY <1>3 DEF ManagerAlone, Next, StartupThread
<1>4. ASSUME OnTaskReady PROVE Next
  BY <1>4 DEF OnTaskReady, ServicesUse, Next, StartupThread
<1>5. ASSUME OnDependencyFailed PROVE Next
  BY <1>5 DEF OnDependencyFailed, ServicesUse, Next, StartupThread
<1>6. ASSUME NEW t \in TaskIDs, ServiceThread(t) PROVE Next \/ UNCHANGED vars
  <2>1. ASSUME receiver[t] # "none", MarkReady(t) PROVE Next \/ UNCHANGED vars
    <3>1. CASE Undecided(t)
      <4>1. CompleteTask(t, TRUE)
        BY <2>1, <3>1, EndsAreCalls DEF MarkReady
      <4> QED BY <4>1 DEF Next, Clients
    <3>2. CASE ~Undecided(t)
      BY <2>1, <3>2 DEF MarkReady
    <3> QED BY <3>1, <3>2
  <2>2. CASE OnReceiverReady(t)
    BY <2>1, <2>2 DEF OnReceiverReady
  <2>3. CASE MarksReady(t)
    BY <2>1, <2>3 DEF MarksReady
  <2>4. CASE MarkFailed(t)
    <3>1. receiver[t] # "none" /\ Undecided(t) /\ QueueCompletion(t, FALSE)
      BY <2>4 DEF MarkFailed, ServicesUse
    <3>2. CompleteTask(t, FALSE)
      BY <3>1, EndsAreCalls
    <3> QED BY <3>2 DEF Next, Clients
  <2> QED BY <1>6, <2>2, <2>3, <2>4 DEF ServiceThread
<1>7. CASE UNCHANGED servicesVars
  BY <1>7 DEF servicesVars
<1> QED BY <1>1, <1>2, <1>3, <1>4, <1>5, <1>6, <1>7 DEF ServicesNext


-----------------------------------------------------------------------------
(* Every step keeps the invariant                                          *)

\* Calls wait in the same order when the queue is left alone or taken over.
LEMMA CallsStay ==
  ASSUME TypeOK, CallsInv, UNCHANGED <<executorQueue, localQueue>> \/ StartRound
  PROVE  calls' = calls
<1>1. CASE UNCHANGED <<executorQueue, localQueue>>
  BY <1>1 DEF calls
<1>2. CASE StartRound
  <2>1. localQueue = <<>>
    BY <1>2 DEF StartRound, CallsInv
  <2>2. <<>> \o executorQueue = executorQueue /\ executorQueue \o <<>> = executorQueue
    BY ConcatEmptySeq DEF TypeOK
  <2> QED BY <1>2, <2>1, <2>2 DEF StartRound, calls
<1> QED BY <1>1, <1>2

\* When a call is handled all others move up by one.
LEMMA CallTaken ==
  ASSUME TypeOK, localQueue # <<>>, NEW op, Handles(op, Head(localQueue))
  PROVE  /\ Head(localQueue) = calls[1] /\ Head(localQueue) \in Actions
         /\ Head(localQueue).op = op /\ 1 \in DOMAIN calls
         /\ \A i \in DOMAIN calls' : i + 1 \in DOMAIN calls /\ calls'[i] = calls[i + 1]
         /\ \A j \in DOMAIN calls : j # 1 =>
              j - 1 \in DOMAIN calls' /\ calls'[j - 1] = calls[j]
<1>1. calls' = Tail(calls) /\ calls \in Seq(Actions) /\ calls # <<>>
  BY HeadFacts DEF Handles, calls, managerVars
<1>2. /\ Len(calls) \in Nat \ {0} /\ DOMAIN calls = 1 .. Len(calls)
      /\ DOMAIN calls' = 1 .. Len(calls) - 1
      /\ \A i \in 1 .. Len(calls) - 1 : calls'[i] = calls[i + 1]
  BY <1>1, Taken
<1>3. \A i \in DOMAIN calls' : i + 1 \in DOMAIN calls /\ calls'[i] = calls[i + 1]
  BY <1>2
<1>4. \A j \in DOMAIN calls : j # 1 => j - 1 \in DOMAIN calls' /\ calls'[j - 1] = calls[j]
  <2> SUFFICES ASSUME NEW j \in DOMAIN calls, j # 1
               PROVE  j - 1 \in DOMAIN calls' /\ calls'[j - 1] = calls[j]
    OBVIOUS
  <2>1. j - 1 \in 1 .. Len(calls) - 1 /\ j - 1 + 1 = j
    BY <1>2
  <2> QED BY <1>2, <2>1
<1> QED BY <1>3, <1>4, HeadFacts DEF Handles

\* A task that runs or ran keeps its dependencies, which stay complete.
LEMMA MetStays ==
  ASSUME StartupInv, SettledInv, ServicesUse, [Next]_vars, NEW u \in TaskIDs,
         AllMet(u), state[u] \in {"Running", "Completed", "Failed"}
  PROVE  AllMet(u)'
<1>1. TypeOK /\ CallsInv /\ GraphInv /\ FramesInv
  BY DEF StartupInv
<1>2. UNCHANGED <<state, waitingTasks>> \/ \E t \in TaskIDs : Moved(t)
  BY <1>1, SettledMoves DEF ServicesUse
<1>3. UNCHANGED <<dependsOn[u], dependsOnUndefined[u]>>
  <2> USE DEF graphVars
  <2>1. CASE localQueue # <<>> /\ HandleDefine(Head(localQueue))
    <3>1. PICK t \in TaskIDs, n \in Names :
            UNCHANGED <<dependsOn, dependsOnUndefined>> \/
            /\ dependsOn' = [v \in TaskIDs |-> IF v \in nameDependents[n]
                                               THEN dependsOn[v] \cup {t}
                                               ELSE dependsOn[v]]
            /\ dependsOnUndefined' =
                 [v \in TaskIDs |-> IF v \in nameDependents[n]
                                    THEN dependsOnUndefined[v] \ {n}
                                    ELSE dependsOnUndefined[v]]
      BY <1>1, <2>1, DefineSteps
    <3>2. u \notin nameDependents[n]
      BY <1>1 DEF GraphInv, GraphSymmetric, AllMet
    <3> QED BY <3>1, <3>2
  <2>2. ASSUME NEW t \in TaskIDs, NEW names \in SUBSET Names, NEW deps \in SUBSET TaskIDs,
               NEW undef \in SUBSET Names, DependenciesSet(t, names, deps, undef)
        PROVE  UNCHANGED <<dependsOn[u], dependsOnUndefined[u]>>
    BY <1>1, <2>2 DEF DependenciesSet, MayChangeDependencies, TypeOK
  <2>3. CASE \/ LoopFrame /\ LoopOutcome
             \/ \E t \in TaskIDs, ok \in BOOLEAN : TaskEnded(t, ok)
             \/ \E t \in TaskIDs : TaskRun(t)
             \/ Quiet
    BY <2>3 DEF LoopFrame, TaskEnded, TaskRun, Quiet
  <2> QED BY <1>1, <2>1, <2>2, <2>3, StepKinds
<1> QED BY <1>1, <1>2, <1>3, MoveKeeps

\* A service is right while nothing that it depends on changes.
LEMMA ServiceStays ==
  ASSUME NEW u \in TaskIDs, ServiceOf(u),
         UNCHANGED <<state[u], receiver[u], failedStartup[u], completedStartup[u]>>,
         receiver[u] # "none" /\ AllMet(u) => AllMet(u)',
         EndWaits(u) => EndWaits(u)'
  PROVE  ServiceOf(u)'
BY DEF ServiceOf, Undecided

\* Calls that still wait go on waiting behind one that is added.
LEMMA EndAdded ==
  ASSUME TypeOK, NEW a \in Actions, UNCHANGED localQueue,
         executorQueue' = Append(executorQueue, a), NEW u
  PROVE  /\ EndWaits(u) => EndWaits(u)'
         /\ a.op = "Complete" /\ a.id = u => EndWaits(u)'
<1>1. /\ Len(calls) \in Nat /\ DOMAIN calls = 1 .. Len(calls)
      /\ DOMAIN calls' = 1 .. Len(calls) + 1
      /\ \A i \in 1 .. Len(calls) : calls'[i] = calls[i]
      /\ calls'[Len(calls) + 1] = a
  BY CallAdded
<1>2. ASSUME NEW i \in DOMAIN calls PROVE i \in DOMAIN calls' /\ calls'[i] = calls[i]
  BY <1>1
<1>3. Len(calls) + 1 \in DOMAIN calls'
  BY <1>1
<1> QED BY <1>1, <1>2, <1>3 DEF EndWaits

\* What every step of the services leaves to be shown.
LEMMA ServicesStays ==
  ASSUME ServicesInv, UNCHANGED <<state, serviceVars>>,
         \A u \in TaskIDs : receiver[u] # "none" /\ AllMet(u) => AllMet(u)',
         \A u \in TaskIDs : EndWaits(u) => EndWaits(u)',
         \A i \in DOMAIN calls' : \/ \E j \in DOMAIN calls : calls'[i] = calls[j]
                                  \/ calls'[i].op # "Complete"
  PROVE  ServicesInv'
<1>1. ServicesTypeOK'
  BY DEF ServicesInv, ServicesTypeOK, serviceVars
<1>2. ASSUME NEW u \in TaskIDs PROVE ServiceOf(u)'
  BY ServiceStays DEF ServicesInv, serviceVars
<1>3. ASSUME NEW i \in DOMAIN calls' PROVE EndOf(calls[i])'
  BY DEF ServicesInv, EndOf, serviceVars
<1> QED BY <1>1, <1>2, <1>3 DEF ServicesInv

\* The steps of the manager that change the state of no task.
LEMMA ManagerKeepsServices ==
  ASSUME TypeOK, CallsInv, FramesInv, ServicesUse, ServicesInv,
         UNCHANGED serviceVars,
         \A u \in TaskIDs : receiver[u] # "none" /\ AllMet(u) => AllMet(u)',
         \/ Wake \/ StartRound \/ EndRound \/ TellDependent \/ EndTelling
         \/ VisitDependency \/ FailureReported \/ EvaluatedWaiting \/ StartExecutor
         \/ UNCHANGED vars
  PROVE  ServicesInv'
<1> USE DEF managerVars, taskVars
<1>1. UNCHANGED <<executorQueue, localQueue>> \/ StartRound
  BY DEF Wake, EndRound, TellDependent, EndTelling, VisitDependency, FailureReported,
         EvaluatedWaiting, FrameOnly, StartExecutor, vars
<1>2. UNCHANGED state
  BY DEF Wake, StartRound, EndRound, TellDependent, EndTelling, VisitDependency,
         FailureReported, EvaluatedWaiting, FrameOnly, StartExecutor, vars
<1>3. calls' = calls
  BY <1>1, CallsStay
<1> QED BY <1>2, <1>3, ServicesStays DEF EndWaits

\* Defining a service and telling what it depends on.
LEMMA StarterKeepsServices ==
  ASSUME TypeOK, ServicesInv, UNCHANGED serviceVars,
         \A u \in TaskIDs : receiver[u] # "none" /\ AllMet(u) => AllMet(u)',
         \/ \E n \in Names : DefineStartupTask(n)
         \/ \E t \in TaskIDs, deps \in SUBSET Names : SetStartupDependencies(t, deps)
  PROVE  ServicesInv'
<1>1. \E a \in Actions : /\ a.op # "Complete" /\ executorQueue' = Append(executorQueue, a)
                         /\ UNCHANGED <<localQueue, state>>
  <2>1. ASSUME NEW n \in Names, DefineStartupTask(n) PROVE <1>1!:
    <3>1. nextTaskId \in TaskIDs
      BY <2>1, Numbers DEF DefineStartupTask, TypeOK, TaskIDs
    <3>2. DefineAction(nextTaskId, n) \in Actions /\ DefineAction(nextTaskId, n).op = "Define"
      BY <3>1, ActionTypes DEF DefineAction, Action
    <3> QED BY <2>1, <3>2 DEF DefineStartupTask, Enqueue, taskVars
  <2>2. ASSUME NEW t \in TaskIDs, NEW deps \in SUBSET Names, SetStartupDependencies(t, deps)
        PROVE  <1>1!:
    <3>1. SetDepsAction(t, deps) \in Actions /\ SetDepsAction(t, deps).op = "SetDeps"
      BY ActionTypes DEF SetDepsAction, Action
    <3> QED BY <2>2, <3>1 DEF SetStartupDependencies, Enqueue, taskVars
  <2> QED BY <2>1, <2>2
<1>2. PICK a \in Actions : /\ a.op # "Complete" /\ executorQueue' = Append(executorQueue, a)
                           /\ UNCHANGED <<localQueue, state>>
  BY <1>1
<1>3. /\ Len(calls) \in Nat /\ DOMAIN calls = 1 .. Len(calls)
      /\ DOMAIN calls' = 1 .. Len(calls) + 1
      /\ \A i \in 1 .. Len(calls) : calls'[i] = calls[i]
      /\ calls'[Len(calls) + 1] = a
  BY <1>2, CallAdded
<1>4. ASSUME NEW i \in DOMAIN calls'
      PROVE  \/ \E j \in DOMAIN calls : calls'[i] = calls[j]
             \/ calls'[i].op # "Complete"
  <2>1. i \in 1 .. Len(calls) \/ i = Len(calls) + 1
    BY <1>3
  <2> QED BY <1>2, <1>3, <2>1
<1>5. \A u \in TaskIDs : EndWaits(u) => EndWaits(u)'
  BY <1>2, EndAdded
<1> QED BY <1>2, <1>4, <1>5, ServicesStays

\* A call that defines a task, or says what it depends on, is handled: the task
\* does not run yet.
LEMMA GraphKeepsServices ==
  ASSUME TypeOK, TypeOK', CallsInv, ServicesInv, UNCHANGED serviceVars, localQueue # <<>>,
         \A u \in TaskIDs : receiver[u] # "none" /\ AllMet(u) => AllMet(u)',
         HandleDefine(Head(localQueue)) \/ HandleSetDeps(Head(localQueue))
  PROVE  ServicesInv'
<1> DEFINE a == Head(localQueue)
<1>1. PICK op : op \in {"Define", "SetDeps"} /\ Handles(op, a)
  BY DEF HandleDefine, HandleSetDeps
<1>2. /\ a = calls[1] /\ a \in Actions /\ a.op = op /\ 1 \in DOMAIN calls
      /\ \A i \in DOMAIN calls' : i + 1 \in DOMAIN calls /\ calls'[i] = calls[i + 1]
      /\ \A j \in DOMAIN calls : j # 1 =>
           j - 1 \in DOMAIN calls' /\ calls'[j - 1] = calls[j]
  BY <1>1, CallTaken
<1>3. a.id \in TaskIDs
  BY <1>2 DEF Actions
<1>4. \/ UNCHANGED state
      \/ /\ state[a.id] \in {"Unknown", "DepsUnknown", "WaitingForDeps"}
         /\ \E s \in {"DepsUnknown", "WaitingForDeps"} : state' = [state EXCEPT ![a.id] = s]
  <2>1. CASE HandleDefine(a)
    <3>1. a.op = "Define"
      BY <2>1 DEF HandleDefine, Handles
    <3>2. state[a.id] = "Unknown"
      BY <1>2, <3>1 DEF CallsInv, CallOf
    <3> QED BY <2>1, <3>2 DEF HandleDefine, taskVars
  <2>2. CASE HandleSetDeps(a)
    BY <2>2 DEF HandleSetDeps, MayChangeDependencies
  <2> QED BY <2>1, <2>2
<1>5. ASSUME NEW u \in TaskIDs, EndWaits(u) PROVE EndWaits(u)'
  <2>1. PICK j \in DOMAIN calls : calls[j].op = "Complete" /\ calls[j].id = u
    BY <1>5 DEF EndWaits
  <2>2. j # 1
    BY <1>1, <1>2, <2>1
  <2> QED BY <1>2, <2>1, <2>2 DEF EndWaits
<1> HIDE DEF a
<1>6. ASSUME NEW u \in TaskIDs PROVE ServiceOf(u)'
  <2>1. ServiceOf(u)
    BY DEF ServicesInv
  <2>2. CASE UNCHANGED state[u]
    BY <1>5, <2>1, <2>2, ServiceStays DEF serviceVars
  <2>3. CASE ~UNCHANGED state[u]
    <3>1. /\ state[u] \in {"Unknown", "DepsUnknown", "WaitingForDeps"}
          /\ state'[u] \in {"DepsUnknown", "WaitingForDeps"}
      BY <1>3, <1>4, <2>3 DEF TypeOK
    <3>2. receiver[u] = "none" /\ ~completedStartup[u] /\ ~failedStartup[u]
      BY <2>1, <3>1 DEF ServiceOf
    <3> QED BY <3>1, <3>2 DEF ServiceOf, serviceVars
  <2> QED BY <2>2, <2>3
<1>7. ASSUME NEW i \in DOMAIN calls' PROVE EndOf(calls[i])'
  BY <1>2 DEF ServicesInv, EndOf, serviceVars
<1>8. ServicesTypeOK'
  BY DEF ServicesInv, ServicesTypeOK, serviceVars
<1> QED BY <1>6, <1>7, <1>8 DEF ServicesInv

\* The end of a startup is handled: the task ends as the flags of its service
\* tell, or did so before.
LEMMA EndKeepsServices ==
  ASSUME TypeOK, TypeOK', ServicesInv, UNCHANGED serviceVars, localQueue # <<>>,
         SettledInv,
         \A u \in TaskIDs : receiver[u] # "none" /\ AllMet(u) => AllMet(u)',
         HandleComplete(Head(localQueue))
  PROVE  ServicesInv'
<1> DEFINE a == Head(localQueue)
<1>1. Handles("Complete", a) /\ Complete(a.id, a.success, stack)
  BY DEF HandleComplete
<1>2. /\ a = calls[1] /\ a \in Actions /\ a.op = "Complete" /\ 1 \in DOMAIN calls
      /\ \A i \in DOMAIN calls' : i + 1 \in DOMAIN calls /\ calls'[i] = calls[i + 1]
      /\ \A j \in DOMAIN calls : j # 1 =>
           j - 1 \in DOMAIN calls' /\ calls'[j - 1] = calls[j]
  BY <1>1, CallTaken
<1>3. a.id \in TaskIDs /\ a.success \in BOOLEAN
  BY <1>2 DEF Actions
<1>4. /\ IF a.success THEN completedStartup[a.id] ELSE failedStartup[a.id]
      /\ ServiceOf(a.id) /\ state[a.id] \in {"Running", "Completed", "Failed"}
  BY <1>2, <1>3 DEF ServicesInv, EndOf, SettledInv
<1>5. /\ state[a.id] # "Running" => UNCHANGED state
      /\ state[a.id] = "Running" =>
           state' = [state EXCEPT ![a.id] = IF a.success THEN "Completed" ELSE "Failed"]
  BY <1>1, <1>3, <1>4 DEF Complete, MayComplete
<1>6. ASSUME NEW u \in TaskIDs, u # a.id, EndWaits(u) PROVE EndWaits(u)'
  <2>1. PICK j \in DOMAIN calls : calls[j].op = "Complete" /\ calls[j].id = u
    BY <1>6 DEF EndWaits
  <2>2. j # 1
    BY <1>2, <1>6, <2>1
  <2> QED BY <1>2, <2>1, <2>2 DEF EndWaits
<1> HIDE DEF a
<1>7. ASSUME NEW u \in TaskIDs PROVE ServiceOf(u)'
  <2>1. ServiceOf(u)
    BY DEF ServicesInv
  <2>2. CASE u # a.id
    <3>1. UNCHANGED state[u]
      BY <1>3, <1>5, <1>4, <2>2 DEF TypeOK
    <3> QED BY <1>6, <2>1, <2>2, <3>1, ServiceStays DEF serviceVars
  <2>3. CASE u = a.id
    <3>1. state'[u] \in {"Completed", "Failed"} /\ (state'[u] = "Completed" => completedStartup[u])
          /\ (state'[u] = "Failed" => failedStartup[u])
      BY <1>3, <1>4, <1>5, <2>1, <2>3 DEF TypeOK, ServiceOf
    <3>2. receiver[u] # "none" => AllMet(u)'
      BY <2>1 DEF ServiceOf
    <3> QED BY <2>1, <3>1, <3>2 DEF ServiceOf, serviceVars
  <2> QED BY <2>2, <2>3
<1>8. ASSUME NEW i \in DOMAIN calls' PROVE EndOf(calls[i])'
  BY <1>2 DEF ServicesInv, EndOf, serviceVars
<1>9. ServicesTypeOK'
  BY DEF ServicesInv, ServicesTypeOK, serviceVars
<1> QED BY <1>7, <1>8, <1>9 DEF ServicesInv

\* OnTaskReady gives the service a receiver and runs its task, all of whose
\* dependencies are complete.
LEMMA ReadyKeepsServices ==
  ASSUME TypeOK, TypeOK', CallsInv, FramesInv, SettledInv, ServicesInv,
         \A u \in TaskIDs : receiver[u] # "none" /\ AllMet(u) => AllMet(u)',
         OnTaskReady
  PROVE  ServicesInv'
<1>1. /\ stack # <<>> /\ Top.fn = "Evaluate" /\ Evaluated(Top) /\ AllComplete(Top)
      /\ state' = [state EXCEPT ![Top.task] = "Running"]
      /\ UNCHANGED <<dependsOn, dependsOnUndefined, executorQueue, localQueue>>
  BY DEF OnTaskReady, EvaluatedReady, TopIs, FrameOnly, managerVars, graphVars
<1>2. /\ Top.task \in TaskIDs /\ state[Top.task] = "WaitingForDeps" /\ AllMet(Top.task)
  BY <1>1, ReadyFacts, TopFacts, FrameTypes
<1>3. PICK t \in TaskIDs : t = Top.task
  BY <1>2
<1>4. /\ receiver' = [receiver EXCEPT ![t] = IF @ = "none" THEN "created" ELSE @]
      /\ UNCHANGED <<failedStartup, completedStartup>>
  BY <1>3 DEF OnTaskReady
<1>5. calls' = calls
  BY <1>1, CallsStay
<1>6. ASSUME NEW u \in TaskIDs PROVE ServiceOf(u)'
  <2>1. ServiceOf(u) /\ ServiceOf(t)
    BY DEF ServicesInv
  <2>2. CASE u # t
    <3>1. UNCHANGED <<state[u], receiver[u]>>
      BY <1>1, <1>3, <1>4, <2>2 DEF TypeOK, ServicesInv, ServicesTypeOK
    <3> QED BY <1>4, <1>5, <2>1, <3>1, ServiceStays DEF EndWaits
  <2>3. CASE u = t
    <3>1. state'[u] = "Running"
      BY <1>1, <1>3, <2>3 DEF TypeOK
    <3>2. ~completedStartup[u] /\ ~failedStartup[u]
      BY <1>2, <1>3, <2>1, <2>3 DEF ServiceOf
    <3>3. AllMet(u)'
      <4>1. \A d \in TaskIDs : state[d] = "Completed" => state'[d] = "Completed"
        BY <1>1, <1>2 DEF TypeOK
      <4>2. dependsOn[u] \in SUBSET TaskIDs
        BY DEF TypeOK
      <4> QED BY <1>1, <1>2, <1>3, <2>3, <4>1, <4>2 DEF AllMet
    <3> QED BY <1>4, <3>1, <3>2, <3>3 DEF ServiceOf, Undecided
  <2> QED BY <2>2, <2>3
<1>7. ASSUME NEW i \in DOMAIN calls' PROVE EndOf(calls[i])'
  BY <1>4, <1>5 DEF ServicesInv, EndOf
<1>8. ServicesTypeOK'
  BY <1>4 DEF ServicesInv, ServicesTypeOK
<1> QED BY <1>6, <1>7, <1>8 DEF ServicesInv

\* A task is told of a failure only while it waits or after it failed.
LEMMA FailureFacts ==
  ASSUME TypeOK, GraphInv, FramesInv, SettledInv, stack # <<>>, Top.fn = "Evaluate",
         NEW d \in Top.left, NewFailure(Top.task, d)
  PROVE  Top.task \in TaskIDs /\ state[Top.task] \in {"WaitingForDeps", "Failed"}
<1>1. Top \in Frames /\ FrameOf(Top, state, dependsOn, dependedOnBy)
  BY TopFacts
<1>2. PICK t \in TaskIDs : t = Top.task
  BY <1>1, FrameTypes
<1>3. d \in dependsOn[t] /\ state[d] = "Failed"
  BY <1>1, <1>2 DEF FrameOf, NewFailure
<1>4. state[t] \notin {"Ready", "Running", "Completed"}
  BY <1>3 DEF SettledInv, TaskSettled, AllMet
<1>5. state[t] # "Unknown" /\ state[t] # "DepsUnknown"
  BY <1>3 DEF GraphInv, Exists
<1>6. state[t] \in TaskStates
  BY DEF TypeOK
<1> QED BY <1>2, <1>4, <1>5, <1>6 DEF TaskStates

\* OnDependencyFailed fails the task when the service hears of it first.
LEMMA FailureKeepsServices ==
  ASSUME TypeOK, TypeOK', CallsInv, GraphInv, FramesInv, SettledInv, ServicesInv,
         \A u \in TaskIDs : receiver[u] # "none" /\ AllMet(u) => AllMet(u)',
         OnDependencyFailed
  PROVE  ServicesInv'
<1>1. /\ stack # <<>> /\ Top.fn = "Evaluate"
      /\ UNCHANGED <<executorQueue, localQueue, receiver, completedStartup>>
      /\ \E d \in Top.left : NewFailure(Top.task, d)
  BY DEF OnDependencyFailed, ReportFailure, TopIs, FrameOnly, managerVars
<1>2. Top.task \in TaskIDs /\ state[Top.task] \in {"WaitingForDeps", "Failed"}
  BY <1>1, FailureFacts
<1>3. PICK t \in TaskIDs : t = Top.task
  BY <1>2
<1>4. ServiceOf(t) /\ failedStartup \in [TaskIDs -> BOOLEAN]
  BY DEF ServicesInv, ServicesTypeOK
<1>5. failedStartup' = [failedStartup EXCEPT ![t] = TRUE]
  BY <1>3 DEF OnDependencyFailed
<1>6. state' = [state EXCEPT ![t] = "Failed"]
  <2>1. CASE failedStartup[t]
    <3>1. state[t] = "Failed"
      BY <1>2, <1>3, <1>4, <2>1 DEF ServiceOf
    <3>2. UNCHANGED state
      BY <1>3, <2>1 DEF OnDependencyFailed, ReportFailure
    <3> QED BY <3>1, <3>2 DEF TypeOK
  <2>2. CASE ~failedStartup[t]
    <3>1. state[t] = "WaitingForDeps"
      BY <1>2, <1>3, <1>4, <2>2 DEF ServiceOf
    <3>2. \E c : Complete(t, FALSE, c)
      BY <1>3, <2>2 DEF OnDependencyFailed, ReportFailure
    <3> QED BY <3>1, <3>2 DEF Complete, MayComplete
  <2> QED BY <2>1, <2>2
<1>7. calls' = calls
  BY <1>1, CallsStay
<1>8. ASSUME NEW u \in TaskIDs PROVE ServiceOf(u)'
  <2>1. ServiceOf(u)
    BY DEF ServicesInv
  <2>2. CASE u # t
    <3>1. UNCHANGED <<state[u], failedStartup[u]>>
      BY <1>4, <1>5, <1>6, <2>2 DEF TypeOK
    <3> QED BY <1>1, <1>7, <2>1, <3>1, ServiceStays DEF EndWaits
  <2>3. CASE u = t
    <3>1. state'[u] = "Failed" /\ failedStartup'[u] = TRUE
      BY <1>4, <1>5, <1>6, <2>3 DEF TypeOK
    <3>2. ~completedStartup[u]
      BY <1>2, <1>3, <2>1, <2>3 DEF ServiceOf
    <3> QED BY <1>1, <2>1, <3>1, <3>2 DEF ServiceOf
  <2> QED BY <2>2, <2>3
<1>9. ASSUME NEW i \in DOMAIN calls' PROVE EndOf(calls[i])'
  <2>1. EndOf(calls[i]) /\ calls[i] \in Actions
    <3>1. calls \in Seq(Actions)
      BY ConcatProperties DEF calls, TypeOK
    <3> QED BY <1>7, <3>1, ElementOfSeq, LenProperties DEF ServicesInv
  <2>2. calls[i].id \in TaskIDs
    BY <2>1 DEF Actions
  <2> QED BY <1>1, <1>4, <1>5, <1>7, <2>1, <2>2 DEF EndOf
<1>10. ServicesTypeOK'
  BY <1>1, <1>4, <1>5 DEF ServicesInv, ServicesTypeOK
<1> QED BY <1>8, <1>9, <1>10 DEF ServicesInv

\* A service whose receiver is ready tells its end, and sets the flag for it.
LEMMA EndToldKeepsServices ==
  ASSUME TypeOK, ServicesInv, NEW t \in TaskIDs, NEW ok \in BOOLEAN,
         \A u \in TaskIDs : receiver[u] # "none" /\ AllMet(u) => AllMet(u)',
         receiver[t] # "none", Undecided(t), QueueCompletion(t, ok),
         receiver' = [receiver EXCEPT ![t] = "ready"],
         completedStartup' = IF ok THEN [completedStartup EXCEPT ![t] = TRUE]
                                   ELSE completedStartup,
         failedStartup' = IF ok THEN failedStartup
                                ELSE [failedStartup EXCEPT ![t] = TRUE]
  PROVE  ServicesInv'
<1> DEFINE a == CompleteAction(t, ok)
<1>1. a \in Actions /\ a.op = "Complete" /\ a.id = t /\ a.success = ok
  BY ActionTypes DEF CompleteAction, Action
<1>2. executorQueue' = Append(executorQueue, a) /\ UNCHANGED <<localQueue, state>>
  BY DEF QueueCompletion, Enqueue, taskVars
<1> HIDE DEF a
<1>3. /\ Len(calls) \in Nat /\ DOMAIN calls = 1 .. Len(calls)
      /\ DOMAIN calls' = 1 .. Len(calls) + 1
      /\ \A i \in 1 .. Len(calls) : calls'[i] = calls[i]
      /\ calls'[Len(calls) + 1] = a
      /\ calls \in Seq(Actions)
  BY <1>1, <1>2, CallAdded
<1>4. /\ receiver \in [TaskIDs -> {"none", "created", "ready"}]
      /\ failedStartup \in [TaskIDs -> BOOLEAN] /\ completedStartup \in [TaskIDs -> BOOLEAN]
      /\ ~failedStartup[t] /\ ~completedStartup[t]
  BY DEF ServicesInv, ServicesTypeOK, Undecided
<1>5. ASSUME NEW u \in TaskIDs PROVE ServiceOf(u)'
  <2>1. ServiceOf(u)
    BY DEF ServicesInv
  <2>2. (EndWaits(u) => EndWaits(u)') /\ EndWaits(t)'
    BY <1>1, <1>2, EndAdded
  <2>3. CASE u # t
    <3>1. UNCHANGED <<receiver[u], failedStartup[u], completedStartup[u]>>
      BY <1>4, <2>3
    <3> QED BY <1>2, <2>1, <2>2, <3>1, ServiceStays
  <2>4. CASE u = t
    <3>1. /\ receiver'[u] = "ready"
          /\ completedStartup'[u] = ok /\ failedStartup'[u] = ~ok
      BY <1>4, <2>4
    <3>2. state[u] = "Running" /\ AllMet(u)'
      BY <2>1, <2>4, UndecidedRuns DEF ServiceOf
    <3> QED BY <1>2, <2>2, <2>4, <3>1, <3>2 DEF ServiceOf
  <2> QED BY <2>3, <2>4
<1>6. ASSUME NEW i \in DOMAIN calls' PROVE EndOf(calls[i])'
  <2>1. i \in 1 .. Len(calls) \/ i = Len(calls) + 1
    BY <1>3
  <2>2. CASE i \in 1 .. Len(calls)
    <3>1. EndOf(calls[i]) /\ calls[i] \in Actions /\ calls'[i] = calls[i]
      BY <1>3, <2>2, ElementOfSeq DEF ServicesInv
    <3>2. calls[i].id \in TaskIDs
      BY <3>1 DEF Actions
    <3> QED BY <1>4, <3>1, <3>2 DEF EndOf
  <2>3. CASE i = Len(calls) + 1
    BY <1>1, <1>3, <1>4, <2>3 DEF EndOf
  <2> QED BY <2>1, <2>2, <2>3
<1>7. ServicesTypeOK'
  BY <1>4 DEF ServicesTypeOK
<1> QED BY <1>5, <1>6, <1>7 DEF ServicesInv

\* What a service does on its own thread: its receiver is ready, it is up, or
\* it failed.
LEMMA ThreadKeepsServices ==
  ASSUME ServicesUse, TypeOK, CallsInv, ServicesInv, NEW t \in TaskIDs, ServiceThread(t),
         \A u \in TaskIDs : receiver[u] # "none" /\ AllMet(u) => AllMet(u)'
  PROVE  ServicesInv'
<1>1. receiver \in [TaskIDs -> {"none", "created", "ready"}]
  BY DEF ServicesInv, ServicesTypeOK
<1>2. CASE OnReceiverReady(t)
  <2>1. /\ receiver[t] = "created" /\ receiver' = [receiver EXCEPT ![t] = "ready"]
        /\ UNCHANGED failedStartup
        /\ MarkReady(t) \/ UNCHANGED <<vars, completedStartup>>
    BY <1>2 DEF OnReceiverReady
  <2>2. CASE Undecided(t) /\ MarkReady(t)
    BY <2>1, <2>2, EndToldKeepsServices DEF MarkReady
  <2>3. CASE UNCHANGED <<vars, completedStartup>>
    <3>1. UNCHANGED state /\ calls' = calls
      BY <2>3, CallsStay DEF vars, taskVars, managerVars
    <3>2. ASSUME NEW u \in TaskIDs PROVE ServiceOf(u)'
      <4>1. ServiceOf(u) /\ (EndWaits(u) => EndWaits(u)')
        BY <3>1 DEF ServicesInv, EndWaits
      <4>2. CASE u # t
        BY <2>1, <2>3, <3>1, <4>1, <4>2, ServiceStays
      <4>3. CASE u = t
        <5>1. receiver'[u] = "ready" /\ receiver[u] # "none"
          BY <1>1, <2>1, <4>3
        <5> QED BY <2>1, <2>3, <3>1, <4>1, <5>1 DEF ServiceOf, Undecided
      <4> QED BY <4>2, <4>3
    <3>3. ASSUME NEW i \in DOMAIN calls' PROVE EndOf(calls[i])'
      BY <2>1, <2>3, <3>1 DEF ServicesInv, EndOf
    <3>4. ServicesTypeOK'
      BY <2>1, <2>3 DEF ServicesInv, ServicesTypeOK
    <3> QED BY <3>2, <3>3, <3>4 DEF ServicesInv
  <2> QED BY <2>1, <2>2, <2>3 DEF MarkReady
<1>3. CASE MarksReady(t)
  <2>1. /\ receiver[t] = "ready" /\ Undecided(t) /\ MarkReady(t)
        /\ UNCHANGED <<receiver, failedStartup>>
    BY <1>3 DEF MarksReady
  <2>2. receiver' = [receiver EXCEPT ![t] = "ready"]
    BY <1>1, <2>1
  <2> QED BY <2>1, <2>2, EndToldKeepsServices DEF MarkReady
<1>4. CASE MarkFailed(t)
  <2>1. /\ receiver[t] = "ready" /\ Undecided(t) /\ QueueCompletion(t, FALSE)
        /\ failedStartup' = [failedStartup EXCEPT ![t] = TRUE]
        /\ UNCHANGED <<receiver, completedStartup>>
    BY <1>4 DEF MarkFailed, ServicesUse
  <2>2. receiver' = [receiver EXCEPT ![t] = "ready"]
    BY <1>1, <2>1
  <2> QED BY <2>1, <2>2, EndToldKeepsServices
<1> QED BY <1>2, <1>3, <1>4 DEF ServiceThread

\* Every step keeps what the services know.
LEMMA ServicesKept ==
  ASSUME ServicesUse, StartupInv, SettledInv, ServicesInv, [ServicesNext]_servicesVars
  PROVE  ServicesInv'
<1>1. TypeOK /\ CallsInv /\ GraphInv /\ FramesInv /\ [Next]_vars
  BY ServicesStep DEF StartupInv
<1>2. TypeOK'
  BY <1>1, StartupKept DEF StartupInv
<1>3. \A u \in TaskIDs : receiver[u] # "none" /\ AllMet(u) => AllMet(u)'
  BY <1>1, MetStays DEF ServicesInv, ServiceOf
<1>4. CASE (\E n \in Names : AddService(n)) \/ UNCHANGED servicesVars
  BY <1>1, <1>3, <1>4, ManagerKeepsServices DEF AddService, servicesVars
<1>5. CASE Starter
  <2>1. CASE Start \/ StartSucceeds
    BY <1>1, <1>3, <2>1, ManagerKeepsServices DEF Start, StartSucceeds
  <2>2. CASE (\E n \in Names : OnCreated(n)) \/ \E t \in TaskIDs : OnDependenciesAdded(t)
    BY <1>1, <1>3, <2>2, StarterKeepsServices DEF OnCreated, OnDependenciesAdded
  <2> QED BY <1>5, <2>1, <2>2 DEF Starter
<1>6. CASE ManagerAlone
  <2>1. UNCHANGED serviceVars
    BY <1>6 DEF ManagerAlone
  <2>2. CASE \/ Wake \/ StartRound \/ EndRound \/ TellDependent \/ EndTelling
             \/ VisitDependency \/ FailureReported \/ EvaluatedWaiting
    BY <1>1, <1>3, <2>1, <2>2, ManagerKeepsServices
  <2>3. CASE \/ localQueue # <<>> /\ HandleDefine(Head(localQueue))
             \/ localQueue # <<>> /\ HandleSetDeps(Head(localQueue))
    BY <1>1, <1>2, <1>3, <2>1, <2>3, GraphKeepsServices
  <2>4. CASE localQueue # <<>> /\ HandleComplete(Head(localQueue))
    BY <1>1, <1>2, <1>3, <2>1, <2>4, EndKeepsServices
  <2> QED BY <1>6, <2>2, <2>3, <2>4 DEF ManagerAlone
<1>7. CASE OnTaskReady
  BY <1>1, <1>2, <1>3, <1>7, ReadyKeepsServices
<1>8. CASE OnDependencyFailed
  BY <1>1, <1>2, <1>3, <1>8, FailureKeepsServices
<1>9. CASE \E t \in TaskIDs : ServiceThread(t)
  BY <1>1, <1>3, <1>9, ThreadKeepsServices
<1> QED BY <1>4, <1>5, <1>6, <1>7, <1>8, <1>9 DEF ServicesNext

-----------------------------------------------------------------------------
(* What holds throughout                                                   *)

\* Before anything is defined no service runs.
LEMMA ServicesStart == ServicesInit => ServicesInv
<1> SUFFICES ASSUME ServicesInit PROVE ServicesInv
  OBVIOUS
<1>1. localQueue = <<>> /\ executorQueue = <<>>
  BY DEF ServicesInit, Init
<1>2. calls = <<>>
  BY <1>1, ConcatEmptySeq DEF calls
<1>3. \A t \in TaskIDs : ServiceOf(t)
  BY DEF ServicesInit, Init, ServiceOf, Undecided
<1>4. ServicesTypeOK
  BY DEF ServicesInit, ServicesTypeOK
<1>5. \A i \in DOMAIN calls : EndOf(calls[i])
  BY <1>2
<1> QED BY <1>3, <1>4, <1>5 DEF ServicesInv

\* The manager and the services agree at every moment.
LEMMA ServicesHold ==
  ASSUME ServicesUse
  PROVE  ServicesSpec => [](StartupInv /\ SettledInv /\ WaitingCount /\ ServicesInv)
<1>1. ServicesInit => StartupInv /\ SettledInv /\ WaitingCount /\ ServicesInv
  BY StartupInit, SettledInit, ServicesStart DEF ServicesInit
<1>2. ASSUME StartupInv, SettledInv, WaitingCount, ServicesInv, [ServicesNext]_servicesVars
      PROVE  (StartupInv /\ SettledInv /\ WaitingCount /\ ServicesInv)'
  <2>1. [Next]_vars
    BY <1>2, ServicesStep DEF StartupInv
  <2>2. ~FailAnyTime /\ "finish" \notin ReadyReactions
    BY DEF ServicesUse
  <2> QED BY <1>2, <2>1, <2>2, StartupKept, SettledKept, ServicesKept
<1> QED BY <1>1, <1>2, PTL DEF ServicesSpec

\* Services and their starter are clients and listeners as the manager expects
\* them: whatever they do is a behaviour of the manager's specification, so all
\* that StartupProofs shows holds with services (BaseService, BaseStarter).
THEOREM ServicesAreClients ==
  ASSUME ServicesUse
  PROVE  ServicesSpec => Spec
<1>1. ServicesInit => Init
  BY DEF ServicesInit
<1>2. StartupInv /\ ServicesInv /\ [ServicesNext]_servicesVars => [Next]_vars
  BY ServicesStep DEF StartupInv
<1> QED BY <1>1, <1>2, ServicesHold, PTL DEF ServicesSpec, Spec

\* With services the count of waiting tasks is right at every moment, no task
\* is forgotten, and the executor ends only when every service is up or failed;
\* without a cycle of dependencies no service is called back inside its own
\* OnDependencyFailed, where it holds its mutex.
THEOREM ManagerWithServices ==
  ASSUME ServicesUse
  PROVE  /\ ServicesSpec => [](WaitingCount /\ NothingMissed /\ EndsOnlyWhenResolved)
         /\ Acyclic => (ServicesSpec => []ListenerNotReentered)
<1>1. ~FailAnyTime /\ "finish" \notin ReadyReactions
  BY DEF ServicesUse
<1>2. /\ Spec => []WaitingCount
      /\ Spec => []NothingMissed
      /\ Spec => []EndsOnlyWhenResolved
  BY <1>1, WaitingCorrect, MissedCorrect, EndsCorrect
<1>3. Acyclic => (Spec => []ListenerNotReentered)
  BY ReentranceCorrect
<1>4. ServicesSpec => [](WaitingCount /\ NothingMissed /\ EndsOnlyWhenResolved)
  BY <1>2, ServicesAreClients, PTL
<1>5. ASSUME Acyclic PROVE ServicesSpec => []ListenerNotReentered
  BY <1>3, <1>5, ServicesAreClients
<1> QED BY <1>4, <1>5

\* A service is up or failed as its task is, once the manager has handled what
\* the service told it: no MarkReady or MarkFailed is refused, and no task ends
\* without its service's knowing.
THEOREM FlagsCorrect ==
  ASSUME ServicesUse
  PROVE  ServicesSpec => []FlagsMatchTask
<1>1. ASSUME TypeOK, ServicesInv PROVE FlagsMatchTask
  <2>1. ASSUME NEW t \in TaskIDs, EndWaits(t)
        PROVE  \E q \in {executorQueue, localQueue} :
                 \E i \in DOMAIN q : q[i].op = "Complete" /\ q[i].id = t
    <3>1. executorQueue \in Seq(Actions) /\ localQueue \in Seq(Actions)
      BY <1>1 DEF TypeOK
    <3>2. /\ DOMAIN executorQueue = 1 .. Len(executorQueue)
          /\ DOMAIN localQueue = 1 .. Len(localQueue)
          /\ Len(executorQueue) \in Nat /\ Len(localQueue) \in Nat
      BY <3>1, LenProperties
    <3>3. /\ calls \in Seq(Actions)
          /\ Len(calls) = Len(localQueue) + Len(executorQueue)
          /\ \A k \in 1 .. Len(localQueue) + Len(executorQueue) :
               calls[k] = IF k <= Len(localQueue) THEN localQueue[k]
                          ELSE executorQueue[k - Len(localQueue)]
      BY <3>1, ConcatProperties DEF calls
    <3>4. DOMAIN calls = 1 .. Len(localQueue) + Len(executorQueue)
      BY <3>3, LenProperties
    <3>5. PICK i \in DOMAIN calls : calls[i].op = "Complete" /\ calls[i].id = t
      BY <2>1 DEF EndWaits
    <3>6. CASE i <= Len(localQueue)
      <4>1. i \in DOMAIN localQueue /\ calls[i] = localQueue[i]
        BY <3>2, <3>3, <3>4, <3>6
      <4> QED BY <3>5, <4>1
    <3>7. CASE ~ (i <= Len(localQueue))
      <4>1. i - Len(localQueue) \in DOMAIN executorQueue
        BY <3>2, <3>4, <3>7
      <4>2. calls[i] = executorQueue[i - Len(localQueue)]
        BY <3>3, <3>4, <3>7
      <4> QED BY <3>5, <4>1, <4>2
    <3> QED BY <3>6, <3>7
  <2>2. ASSUME NEW t \in TaskIDs, NEW told \in BOOLEAN, EndWaits(t) => told
        PROVE  /\ state[t] = "Completed" => completedStartup[t] /\ ~failedStartup[t]
               /\ state[t] = "Failed" => failedStartup[t]
               /\ (completedStartup[t] /\ ~told) => state[t] = "Completed"
               /\ (failedStartup[t] /\ ~told) => state[t] = "Failed"
    BY <1>1, <2>2 DEF ServicesInv, ServiceOf, Undecided
  <2> SUFFICES ASSUME NEW t \in TaskIDs, stack = <<>>, ~crashed
               PROVE  LET told == \E q \in {executorQueue, localQueue} :
                            \E i \in DOMAIN q : q[i].op = "Complete" /\ q[i].id = t IN
                      /\ state[t] = "Completed" => completedStartup[t] /\ ~failedStartup[t]
                      /\ state[t] = "Failed" => failedStartup[t]
                      /\ (completedStartup[t] /\ ~told) => state[t] = "Completed"
                      /\ (failedStartup[t] /\ ~told) => state[t] = "Failed"
    BY DEF FlagsMatchTask
  <2> DEFINE told == \E q \in {executorQueue, localQueue} :
                       \E i \in DOMAIN q : q[i].op = "Complete" /\ q[i].id = t
  <2>3. EndWaits(t) => told
    BY <2>1
  <2>4. told \in BOOLEAN
    OBVIOUS
  <2> HIDE DEF told
  <2>5. /\ state[t] = "Completed" => completedStartup[t] /\ ~failedStartup[t]
        /\ state[t] = "Failed" => failedStartup[t]
        /\ (completedStartup[t] /\ ~told) => state[t] = "Completed"
        /\ (failedStartup[t] /\ ~told) => state[t] = "Failed"
    BY <2>2, <2>3, <2>4
  <2> QED BY <2>5 DEF told
<1>2. StartupInv /\ ServicesInv => FlagsMatchTask
  BY <1>1 DEF StartupInv
<1> QED BY <1>2, ServicesHold, PTL

-----------------------------------------------------------------------------
(* Names that have their tasks                                             *)

HasTask(n) == nameTask[n] # NoTask

\* The name has a task when call i is handled.
Before(n, i) ==
  \/ HasTask(n)
  \/ \E j \in DOMAIN calls : j < i /\ calls[j].op = "Define" /\ calls[j].name = n

\* Where clients depend on names they defined, each such name has a task when
\* it is looked up, and the task is among those that are depended on.
NamesInv ==
  /\ \A n \in Names : HasTask(n) => n \in named
  /\ \A t \in TaskIDs : \A n \in requested[t] :
       HasTask(n) /\ nameTask[n] \in dependsOn[t]
  /\ \A k \in DOMAIN defined : Before(defined[k], Len(calls) + 1)
  /\ \A i \in DOMAIN calls : calls[i].op = "SetDeps" =>
       \A n \in calls[i].deps : Before(n, i)

\* The queue of calls has a length.
LEMMA CallTypes ==
  ASSUME TypeOK
  PROVE  /\ calls \in Seq(Actions) /\ Len(calls) \in Nat /\ DOMAIN calls = 1 .. Len(calls)
         /\ \A i \in DOMAIN calls : i \in Nat \ {0} /\ calls[i] \in Actions
<1>1. calls \in Seq(Actions)
  BY ConcatProperties DEF calls, TypeOK
<1>2. Len(calls) \in Nat /\ DOMAIN calls = 1 .. Len(calls)
  BY <1>1, LenProperties
<1>3. \A i \in DOMAIN calls : calls[i] \in Actions
  BY <1>1, <1>2, ElementOfSeq
<1> QED BY <1>1, <1>2, <1>3

\* A call is added: what is known before the others stays known.
LEMMA NamesAdded ==
  ASSUME TypeOK, TypeOK', NamesInv, NEW a \in Actions, UNCHANGED localQueue,
         executorQueue' = Append(executorQueue, a),
         UNCHANGED <<nameVars, requested, graphVars>>,
         \/ UNCHANGED defined
         \/ \E n \in Names : /\ defined' = Append(defined, n)
                             /\ a.op = "Define" /\ a.name = n,
         a.op = "SetDeps" => \A n \in a.deps : \E k \in DOMAIN defined : defined[k] = n
  PROVE  NamesInv'
<1> USE DEF nameVars, graphVars
<1>1. /\ Len(calls) \in Nat /\ DOMAIN calls = 1 .. Len(calls)
      /\ DOMAIN calls' = 1 .. Len(calls) + 1 /\ calls' = Append(calls, a)
      /\ \A i \in 1 .. Len(calls) : calls'[i] = calls[i]
      /\ calls'[Len(calls) + 1] = a
  BY CallAdded
<1>2. Len(calls') = Len(calls) + 1
  <2>1. calls' \in Seq(Actions)
    BY ConcatProperties DEF calls, TypeOK
  <2>2. DOMAIN calls' = 1 .. Len(calls')
    BY <2>1, LenProperties
  <2>3. Len(calls') \in Nat
    BY <2>1, LenProperties
  <2>4. Len(calls) + 1 \in 1 .. Len(calls') /\ (Len(calls') > 0 => Len(calls') \in 1 .. Len(calls) + 1)
    BY <1>1, <2>2, <2>3
  <2> QED BY <1>1, <2>3, <2>4
<1> DEFINE Then(n, i) == \/ nameTask'[n] # NoTask
                          \/ \E j \in DOMAIN calls' :
                               j < i /\ calls'[j].op = "Define" /\ calls'[j].name = n
<1>3. ASSUME NEW n, NEW i \in Int, NEW j \in Int, i <= j, Before(n, i) PROVE Then(n, j)
  <2>1. CASE HasTask(n)
    BY <2>1 DEF HasTask
  <2>2. CASE ~HasTask(n)
    <3>1. PICK m \in DOMAIN calls : m < i /\ calls[m].op = "Define" /\ calls[m].name = n
      BY <1>3, <2>2 DEF Before
    <3>2. m \in DOMAIN calls' /\ calls'[m] = calls[m] /\ m < j
      BY <1>1, <1>3, <3>1
    <3> QED BY <3>1, <3>2
  <2> QED BY <2>1, <2>2
<1> HIDE DEF Then
<1>4. ASSUME NEW k \in DOMAIN defined' PROVE Then(defined'[k], Len(calls') + 1)
  <2>1. CASE UNCHANGED defined
    <3>1. Before(defined[k], Len(calls) + 1)
      BY <2>1 DEF NamesInv
    <3> QED BY <1>1, <1>2, <1>3, <2>1, <3>1
  <2>2. ASSUME NEW n \in Names, defined' = Append(defined, n), a.op = "Define", a.name = n
        PROVE  Then(defined'[k], Len(calls') + 1)
    <3>1. /\ defined \in Seq(Names) /\ DOMAIN defined = 1 .. Len(defined)
          /\ Len(defined) \in Nat /\ DOMAIN defined' = 1 .. Len(defined) + 1
          /\ \A i \in 1 .. Len(defined) : defined'[i] = defined[i]
          /\ defined'[Len(defined) + 1] = n
      BY <2>2, Pushed DEF TypeOK
    <3>2. CASE k \in 1 .. Len(defined)
      <4>1. Before(defined[k], Len(calls) + 1) /\ defined'[k] = defined[k]
        BY <3>1, <3>2 DEF NamesInv
      <4> QED BY <1>1, <1>2, <1>3, <4>1
    <3>3. CASE k = Len(defined) + 1
      <4>1. Len(calls) + 1 \in DOMAIN calls' /\ Len(calls) + 1 < Len(calls') + 1
        BY <1>1, <1>2
      <4> QED BY <1>1, <2>2, <3>1, <3>3, <4>1 DEF Then
    <3> QED BY <3>1, <3>2, <3>3
  <2> QED BY <2>1, <2>2
<1>5. ASSUME NEW i \in DOMAIN calls', calls'[i].op = "SetDeps", NEW n \in calls'[i].deps
      PROVE  Then(n, i)
  <2>1. CASE i \in 1 .. Len(calls)
    <3>1. Before(n, i)
      BY <1>1, <1>5, <2>1 DEF NamesInv
    <3> QED BY <1>1, <1>3, <2>1, <3>1
  <2>2. CASE i = Len(calls) + 1
    <3>1. Before(n, Len(calls) + 1)
      BY <1>1, <1>5, <2>2 DEF NamesInv
    <3> QED BY <1>1, <1>3, <2>2, <3>1
  <2> QED BY <1>1, <2>1, <2>2
<1>6. /\ (\A n \in Names : HasTask(n) => n \in named)'
      /\ (\A t \in TaskIDs : \A n \in requested[t] :
            HasTask(n) /\ nameTask[n] \in dependsOn[t])'
  BY DEF NamesInv, HasTask
<1>7. ASSUME NEW k \in DOMAIN defined' PROVE Before(defined[k], Len(calls) + 1)'
  BY <1>4 DEF Then, Before, HasTask
<1>8. ASSUME NEW i \in DOMAIN calls', calls'[i].op = "SetDeps", NEW n \in calls'[i].deps
      PROVE  Before(n, i)'
  BY <1>5, <1>8 DEF Then, Before, HasTask
<1> QED BY <1>6, <1>7, <1>8 DEF NamesInv

\* A call is handled: names that had a task keep it, and so do those that the
\* call defined.
LEMMA NamesTaken ==
  ASSUME TypeOK, TypeOK', NamesInv, localQueue # <<>>, NEW op, Handles(op, Head(localQueue)),
         \A n : HasTask(n) => HasTask(n)',
         calls[1].op = "Define" => nameTask'[calls[1].name] # NoTask
  PROVE  /\ \A k \in DOMAIN defined' : Before(defined[k], Len(calls) + 1)'
         /\ \A i \in DOMAIN calls' : calls'[i].op = "SetDeps" =>
              \A n \in calls'[i].deps : Before(n, i)'
<1>1. /\ Len(calls) \in Nat \ {0} /\ DOMAIN calls = 1 .. Len(calls)
      /\ DOMAIN calls' = 1 .. Len(calls) - 1 /\ Len(calls') = Len(calls) - 1
      /\ \A i \in 1 .. Len(calls) - 1 : calls'[i] = calls[i + 1]
  <2>1. calls' = Tail(calls) /\ calls \in Seq(Actions) /\ calls # <<>>
    BY HeadFacts DEF Handles, calls, managerVars
  <2> QED BY <2>1, Taken, HeadTailProperties
<1>2. UNCHANGED defined
  BY DEF Handles
<1> DEFINE Then(n, i) == \/ nameTask'[n] # NoTask
                          \/ \E j \in DOMAIN calls' :
                               j < i /\ calls'[j].op = "Define" /\ calls'[j].name = n
<1>3. ASSUME NEW n, NEW i \in Int, Before(n, i) PROVE Then(n, i - 1)
  <2>1. CASE HasTask(n) \/ (calls[1].op = "Define" /\ calls[1].name = n)
    BY <2>1 DEF HasTask
  <2>2. CASE ~HasTask(n) /\ ~(calls[1].op = "Define" /\ calls[1].name = n)
    <3>1. PICK m \in DOMAIN calls : m < i /\ calls[m].op = "Define" /\ calls[m].name = n
      BY <1>3, <2>2 DEF Before
    <3>2. m # 1
      BY <2>2, <3>1
    <3>3. m - 1 \in DOMAIN calls' /\ calls'[m - 1] = calls[m] /\ m - 1 < i - 1
      <4>1. m - 1 \in 1 .. Len(calls) - 1 /\ m - 1 + 1 = m /\ m - 1 < i - 1
        BY <1>1, <3>1, <3>2
      <4> QED BY <1>1, <4>1
    <3> QED BY <3>1, <3>3
  <2> QED BY <2>1, <2>2
<1> HIDE DEF Then
<1>4. ASSUME NEW k \in DOMAIN defined' PROVE Before(defined[k], Len(calls) + 1)'
  <2>1. Before(defined[k], Len(calls) + 1)
    BY <1>2 DEF NamesInv
  <2>2. Len(calls) + 1 - 1 = Len(calls') + 1 /\ Len(calls) + 1 \in Int
    BY <1>1
  <2>3. Then(defined[k], Len(calls) + 1 - 1)
    BY <1>3, <2>1, <2>2
  <2>4. Then(defined'[k], Len(calls') + 1)
    BY <1>2, <2>2, <2>3
  <2> QED BY <2>4 DEF Then, Before, HasTask
<1>5. ASSUME NEW i \in DOMAIN calls', calls'[i].op = "SetDeps", NEW n \in calls'[i].deps
      PROVE  Before(n, i)'
  <2>1. PICK k \in Int : k = i + 1 /\ k - 1 = i /\ k \in DOMAIN calls /\ calls'[i] = calls[k]
    BY <1>1
  <2>2. Before(n, k)
    BY <1>5, <2>1 DEF NamesInv
  <2>3. Then(n, k - 1)
    BY <1>3, <2>2
  <2> QED BY <2>1, <2>3 DEF Then, Before, HasTask
<1> QED BY <1>4, <1>5


\* A task is defined: its name has a task now, and tasks that depended on the
\* name depend on the task.
LEMMA NamesDefined ==
  ASSUME StartupInv, StartupInv', DefinedOnce, NamesInv, localQueue # <<>>,
         HandleDefine(Head(localQueue))
  PROVE  NamesInv'
<1>1. TypeOK /\ TypeOK' /\ CallsInv
  BY DEF StartupInv
<1>2. UNCHANGED crashed
  BY DefinesNew
<1>3. /\ Handles("Define", Head(localQueue))
      /\ named' = named \cup {Head(localQueue).name}
      /\ UNCHANGED requested /\ ~crashed
  BY <1>1, <1>2 DEF HandleDefine, Handles, Idle, TypeOK
<1>4. PICK t \in TaskIDs, n \in Names :
        /\ t < nextTaskId /\ n = defined[t + 1] /\ state[t] = "Unknown"
        /\ calls[1].id = t /\ calls[1].name = n
        /\ nameTask' = [nameTask EXCEPT ![n] = t]
        /\ dependsOn' = [u \in TaskIDs |-> IF u \in nameDependents[n]
                                           THEN dependsOn[u] \cup {t}
                                           ELSE dependsOn[u]]
  BY <1>1, <1>2, <1>3, DefineSteps
<1>5. nameTask[n] = NoTask
  BY <1>4, DefinesNew
<1>6. /\ nameTask \in [Names -> TaskIDs \cup {NoTask}]
      /\ dependsOn \in [TaskIDs -> SUBSET TaskIDs]
      /\ requested \in [TaskIDs -> SUBSET Names]
      /\ t # NoTask
  BY <1>1, Numbers DEF TypeOK
<1>7. /\ \A m \in Names : m # n => nameTask'[m] = nameTask[m]
      /\ nameTask'[n] = t
  BY <1>4, <1>6
<1>8. ASSUME NEW m, HasTask(m) PROVE HasTask(m)'
  <2>1. CASE m \in Names
    BY <1>5, <1>6, <1>7, <1>8, <2>1 DEF HasTask
  <2>2. CASE m \notin Names
    <3>1. nameTask'[m] = nameTask[m]
      BY <1>4, <1>6, <2>2
    <3> QED BY <1>8, <3>1 DEF HasTask
  <2> QED BY <2>1, <2>2
<1>9. Head(localQueue) = calls[1]
  BY <1>1, HeadFacts
<1>10. (\A m \in Names : HasTask(m) => m \in named)'
  BY <1>3, <1>4, <1>7, <1>9 DEF NamesInv, HasTask
<1>11. ASSUME NEW u \in TaskIDs, NEW m \in requested'[u]
       PROVE  nameTask'[m] # NoTask /\ nameTask'[m] \in dependsOn'[u]
  <2>1. m \in Names /\ nameTask[m] # NoTask /\ nameTask[m] \in dependsOn[u]
    BY <1>3, <1>6, <1>11 DEF NamesInv, HasTask
  <2>2. m # n
    BY <1>5, <2>1
  <2>3. dependsOn[u] \subseteq dependsOn'[u]
    BY <1>4, <1>6
  <2> QED BY <1>7, <2>1, <2>2, <2>3
<1>12. /\ \A k \in DOMAIN defined' : Before(defined[k], Len(calls) + 1)'
       /\ \A i \in DOMAIN calls' : calls'[i].op = "SetDeps" =>
            \A m \in calls'[i].deps : Before(m, i)'
  <2>1. nameTask'[calls[1].name] # NoTask
    BY <1>4, <1>6, <1>7
  <2> QED BY <1>1, <1>3, <1>8, <2>1, NamesTaken
<1>13. (\A u \in TaskIDs : \A m \in requested[u] :
          HasTask(m) /\ nameTask[m] \in dependsOn[u])'
  BY <1>11 DEF HasTask
<1> QED BY <1>10, <1>12, <1>13 DEF NamesInv

\* Dependencies are set: each name has its task, which is what is depended on.
LEMMA NamesLookedUp ==
  ASSUME TypeOK, TypeOK', NamesInv, localQueue # <<>>, HandleSetDeps(Head(localQueue))
  PROVE  NamesInv'
<1> DEFINE a == Head(localQueue)
<1>1. Handles("SetDeps", a) /\ UNCHANGED nameTask
  BY DEF HandleSetDeps
<1>2. /\ a = calls[1] /\ a \in Actions /\ a.op = "SetDeps" /\ 1 \in DOMAIN calls
  BY <1>1, CallTaken
<1>3. a.id \in TaskIDs /\ a.deps \in SUBSET Names
  BY <1>2 DEF Actions
<1>4. \A n \in a.deps : nameTask[n] # NoTask /\ n \in named
  <2>1. \A n \in a.deps : Before(n, 1)
    BY <1>2 DEF NamesInv
  <2>2. \A j \in DOMAIN calls : ~ (j < 1)
    BY CallTypes
  <2>3. \A n \in a.deps : HasTask(n)
    BY <2>1, <2>2 DEF Before
  <2> QED BY <1>3, <2>3 DEF NamesInv, HasTask
<1>5. /\ \A k \in DOMAIN defined' : Before(defined[k], Len(calls) + 1)'
      /\ \A i \in DOMAIN calls' : calls'[i].op = "SetDeps" =>
           \A m \in calls'[i].deps : Before(m, i)'
  BY <1>1, <1>2, NamesTaken DEF HasTask
<1>6. CASE MayChangeDependencies(a.id)
  <2>1. /\ named' = named \cup a.deps
        /\ requested' = [requested EXCEPT ![a.id] = a.deps]
        /\ dependsOn' = [dependsOn EXCEPT ![a.id] =
                           {nameTask[n] : n \in {m \in a.deps \cap named : nameTask[m] # NoTask}}]
    BY <1>6 DEF HandleSetDeps
  <2> HIDE DEF a
  <2>2. ASSUME NEW u \in TaskIDs, NEW m \in requested'[u]
        PROVE  nameTask'[m] # NoTask /\ nameTask'[m] \in dependsOn'[u]
    <3>1. dependsOn \in [TaskIDs -> SUBSET TaskIDs] /\ requested \in [TaskIDs -> SUBSET Names]
      BY DEF TypeOK
    <3>2. CASE u = a.id
      <4>1. /\ requested'[u] = a.deps
            /\ dependsOn'[u] = {nameTask[n] : n \in {k \in a.deps \cap named : nameTask[k] # NoTask}}
        BY <1>3, <2>1, <3>1, <3>2
      <4> QED BY <1>1, <1>4, <2>2, <4>1
    <3>3. CASE u # a.id
      <4>1. requested'[u] = requested[u] /\ dependsOn'[u] = dependsOn[u]
        BY <2>1, <3>1, <3>3
      <4> QED BY <1>1, <2>2, <4>1 DEF NamesInv, HasTask
    <3> QED BY <3>2, <3>3
  <2>3. (\A u \in TaskIDs : \A m \in requested[u] :
           HasTask(m) /\ nameTask[m] \in dependsOn[u])'
    BY <2>2 DEF HasTask
  <2>4. (\A m \in Names : HasTask(m) => m \in named)'
    BY <1>1, <2>1 DEF NamesInv, HasTask
  <2> QED BY <1>5, <2>3, <2>4 DEF NamesInv
<1>7. CASE ~MayChangeDependencies(a.id)
  <2>1. UNCHANGED <<named, requested, dependsOn>>
    BY <1>7 DEF HandleSetDeps, graphVars
  <2> QED BY <1>1, <1>5, <2>1 DEF NamesInv, HasTask
<1> QED BY <1>6, <1>7

\* Every step of the manager keeps what is known of names.
LEMMA NamesKept ==
  ASSUME OnlyDefined, StartupInv, StartupInv', DefinedOnce, NamesInv, [Next]_vars
  PROVE  NamesInv'
<1> USE DEF managerVars, clientVars, execVars
<1>1. TypeOK /\ TypeOK' /\ CallsInv
  BY DEF StartupInv
<1>2. ASSUME UNCHANGED <<executorQueue, localQueue>> \/ StartRound,
             UNCHANGED <<nameVars, graphVars, requested, defined>>
      PROVE  NamesInv'
  <2>1. calls' = calls
    BY <1>1, <1>2, CallsStay
  <2> QED BY <1>2, <2>1 DEF NamesInv, Before, HasTask, nameVars, graphVars
<1>3. ASSUME NEW n \in Names, DefineStartupTask(n) PROVE NamesInv'
  <2>1. nextTaskId \in TaskIDs
    BY <1>1, <1>3, Numbers DEF DefineStartupTask, TypeOK, TaskIDs
  <2> DEFINE a == DefineAction(nextTaskId, n)
  <2>2. a \in Actions /\ a.op = "Define" /\ a.name = n
    BY <2>1, ActionTypes DEF DefineAction, Action
  <2>3. /\ executorQueue' = Append(executorQueue, a) /\ defined' = Append(defined, n)
        /\ UNCHANGED <<localQueue, nameVars, requested, graphVars>>
    BY <1>3 DEF DefineStartupTask, Enqueue
  <2> HIDE DEF a
  <2> QED BY <1>1, <2>2, <2>3, NamesAdded
<1>4. ASSUME NEW t \in TaskIDs, NEW deps \in SUBSET Names, SetStartupDependencies(t, deps)
      PROVE  NamesInv'
  <2> DEFINE a == SetDepsAction(t, deps)
  <2>1. a \in Actions /\ a.op = "SetDeps" /\ a.deps = deps
    BY ActionTypes DEF SetDepsAction, Action
  <2>2. /\ executorQueue' = Append(executorQueue, a)
        /\ UNCHANGED <<localQueue, nameVars, requested, graphVars, defined>>
    BY <1>4 DEF SetStartupDependencies, Enqueue
  <2>3. \A n \in deps : \E k \in DOMAIN defined : defined[k] = n
    BY <1>4 DEF SetStartupDependencies, DependencyNames
  <2> HIDE DEF a
  <2> QED BY <1>1, <2>1, <2>2, <2>3, NamesAdded
<1>5. ASSUME NEW t \in TaskIDs, RunTask(t) PROVE NamesInv'
  <2>1. RunAction(t) \in Actions /\ RunAction(t).op = "Run"
    BY ActionTypes DEF RunAction, Action
  <2>2. /\ executorQueue' = Append(executorQueue, RunAction(t))
        /\ UNCHANGED <<localQueue, nameVars, requested, graphVars, defined>>
    BY <1>5 DEF RunTask, Enqueue
  <2> QED BY <1>1, <2>1, <2>2, NamesAdded
<1>6. ASSUME NEW t \in TaskIDs, NEW ok \in BOOLEAN, CompleteTask(t, ok) PROVE NamesInv'
  <2>1. CompleteAction(t, ok) \in Actions /\ CompleteAction(t, ok).op = "Complete"
    BY ActionTypes DEF CompleteAction, Action
  <2>2. /\ executorQueue' = Append(executorQueue, CompleteAction(t, ok))
        /\ UNCHANGED <<localQueue, nameVars, requested, graphVars, defined>>
    BY <1>6 DEF CompleteTask, Enqueue
  <2> QED BY <1>1, <2>1, <2>2, NamesAdded
<1>7. CASE StartExecutor \/ Wake \/ TerminationRequested \/ StartRound \/ StopRound \/ EndRound
  BY <1>2, <1>7 DEF StartExecutor, Wake, TerminationRequested, StartRound, StopRound, EndRound
<1>8. CASE localQueue # <<>> /\ HandleDefine(Head(localQueue))
  BY <1>8, NamesDefined
<1>9. CASE localQueue # <<>> /\ HandleSetDeps(Head(localQueue))
  BY <1>1, <1>9, NamesLookedUp
<1>10. CASE /\ localQueue # <<>>
            /\ HandleComplete(Head(localQueue)) \/ HandleRun(Head(localQueue))
  <2>1. PICK op : op \in {"Complete", "Run"} /\ Handles(op, Head(localQueue))
    BY <1>10 DEF HandleComplete, HandleRun
  <2>2. UNCHANGED <<nameVars, graphVars, requested, defined>>
    BY <1>10 DEF HandleComplete, HandleRun, Handles
  <2>3. calls[1].op # "Define"
    BY <1>1, <1>10, <2>1, CallTaken
  <2>4. UNCHANGED <<nameTask, named, dependsOn>>
    BY <2>2 DEF nameVars, graphVars
  <2>5. /\ \A k \in DOMAIN defined' : Before(defined[k], Len(calls) + 1)'
        /\ \A i \in DOMAIN calls' : calls'[i].op = "SetDeps" =>
             \A m \in calls'[i].deps : Before(m, i)'
    BY <1>1, <1>10, <2>1, <2>3, <2>4, NamesTaken DEF HasTask
  <2> QED BY <2>2, <2>4, <2>5 DEF NamesInv, HasTask
<1>11. CASE LoopStep
  <2>1. UNCHANGED <<executorQueue, localQueue, nameVars, graphVars, requested, defined>>
    BY <1>11 DEF LoopStep, TellDependent, EndTelling, VisitDependency, ReportFailure,
                 FailureReported, EvaluatedWaiting, EvaluatedReady, FrameOnly
  <2> QED BY <1>2, <2>1
<1>12. CASE UNCHANGED vars
  BY <1>2, <1>12 DEF vars
<1> QED BY <1>3, <1>4, <1>5, <1>6, <1>7, <1>8, <1>9, <1>10, <1>11, <1>12
        DEF Next, Clients, StartupThread, LoopStep

\* Before the first call no name has a task.
LEMMA NamesStart == Init => NamesInv
<1> SUFFICES ASSUME Init PROVE NamesInv
  OBVIOUS
<1>1. localQueue = <<>> /\ executorQueue = <<>> /\ defined = <<>>
  BY DEF Init
<1>2. calls = <<>>
  BY <1>1, ConcatEmptySeq DEF calls
<1>3. \A n \in Names : ~HasTask(n)
  BY DEF Init, HasTask
<1>4. \A t \in TaskIDs : requested[t] = {}
  BY DEF Init
<1>5. DOMAIN defined = {} /\ DOMAIN calls = {}
  BY <1>1, <1>2
<1> QED BY <1>3, <1>4, <1>5 DEF NamesInv

-----------------------------------------------------------------------------
(* What services depend on                                                 *)

\* The starter defines each service once.
StarterInv ==
  /\ start = "to be called" => defined = <<>>
  /\ \A n \in toCreate : \A i \in DOMAIN defined : defined[i] # n
  /\ DefinedOnce

\* Before the starter starts nothing is defined.
LEMMA StarterStart == ServicesInit => StarterInv
<1> SUFFICES ASSUME ServicesInit PROVE StarterInv
  OBVIOUS
<1>1. defined = <<>> /\ toCreate = {}
  BY DEF ServicesInit, Init
<1>2. DOMAIN defined = {}
  BY <1>1
<1> QED BY <1>1, <1>2 DEF StarterInv, DefinedOnce

\* Every step keeps this: a service is taken off the list when it is created.
LEMMA StarterKept ==
  ASSUME TypeOK, StarterInv, [ServicesNext]_servicesVars
  PROVE  StarterInv'
<1> USE DEF starterVars, serviceVars, clientVars
<1>1. ASSUME NEW n \in Names, OnCreated(n) PROVE StarterInv'
  <2>1. /\ start = "creating" /\ n \in toCreate /\ toCreate' = toCreate \ {n}
        /\ UNCHANGED start /\ defined' = Append(defined, n)
    BY <1>1 DEF OnCreated, DefineStartupTask
  <2>2. /\ defined \in Seq(Names) /\ DOMAIN defined = 1 .. Len(defined)
        /\ Len(defined) \in Nat /\ DOMAIN defined' = 1 .. Len(defined) + 1
        /\ \A i \in 1 .. Len(defined) : defined'[i] = defined[i]
        /\ defined'[Len(defined) + 1] = n
    <3>1. defined \in Seq(Names)
      BY DEF TypeOK
    <3> QED BY <2>1, <3>1, Pushed
  <2>3. \A i \in DOMAIN defined' : i \in DOMAIN defined \/ i = Len(defined) + 1
    BY <2>2
  <2>4. ASSUME NEW m \in toCreate', NEW i \in DOMAIN defined' PROVE defined'[i] # m
    BY <2>1, <2>2, <2>3, <2>4 DEF StarterInv
  <2>5. ASSUME NEW i \in DOMAIN defined', NEW j \in DOMAIN defined',
               defined'[i] = defined'[j]
        PROVE  i = j
    BY <2>1, <2>2, <2>3, <2>5 DEF StarterInv, DefinedOnce
  <2> QED BY <2>1, <2>4, <2>5 DEF StarterInv, DefinedOnce
<1>2. CASE Start
  <2>1. defined = <<>> /\ UNCHANGED defined /\ start' = "creating"
    BY <1>2 DEF Start, StarterInv, vars
  <2> QED BY <2>1 DEF StarterInv, DefinedOnce
<1>3. ASSUME UNCHANGED defined, UNCHANGED toCreate, UNCHANGED start \/ start' = "succeeded"
      PROVE  StarterInv'
  BY <1>3 DEF StarterInv, DefinedOnce
<1>4. CASE \/ \E n \in Names : AddService(n)
           \/ StartSucceeds
           \/ \E t \in TaskIDs : OnDependenciesAdded(t)
           \/ UNCHANGED servicesVars
  BY <1>3, <1>4 DEF AddService, StartSucceeds, StartExecutor, OnDependenciesAdded,
                    SetStartupDependencies, servicesVars, vars
<1>5. CASE ManagerAlone \/ OnTaskReady \/ OnDependencyFailed
  <2>1. UNCHANGED <<toCreate, start>>
    BY <1>5 DEF ManagerAlone, OnTaskReady, OnDependencyFailed
  <2>2. CASE \/ Wake \/ StartRound \/ EndRound \/ TellDependent \/ EndTelling
             \/ VisitDependency \/ FailureReported \/ EvaluatedWaiting
    BY <1>3, <2>1, <2>2 DEF Wake, StartRound, EndRound, TellDependent, EndTelling,
             VisitDependency, FailureReported, EvaluatedWaiting, FrameOnly
  <2>3. CASE \/ HandleDefine(Head(localQueue)) \/ HandleSetDeps(Head(localQueue))
             \/ HandleComplete(Head(localQueue))
    <3>1. \E op : Handles(op, Head(localQueue))
      BY <2>3 DEF HandleDefine, HandleSetDeps, HandleComplete
    <3> QED BY <1>3, <2>1, <3>1 DEF Handles
  <2>4. CASE OnTaskReady
    BY <1>3, <2>1, <2>4 DEF OnTaskReady, EvaluatedReady, FrameOnly
  <2>5. CASE OnDependencyFailed
    BY <1>3, <2>1, <2>5 DEF OnDependencyFailed, ReportFailure, FrameOnly
  <2> QED BY <1>5, <2>2, <2>3, <2>4, <2>5 DEF ManagerAlone
<1>6. ASSUME NEW t \in TaskIDs, ServiceThread(t) PROVE StarterInv'
  BY <1>3, <1>6 DEF ServiceThread, OnReceiverReady, MarksReady, MarkFailed, MarkReady,
                    QueueCompletion, vars
<1> QED BY <1>1, <1>2, <1>4, <1>5, <1>6 DEF ServicesNext, Starter

\* No step of the services ends the process.
LEMMA ServicesCrashFree ==
  ASSUME StartupInv, DefinedOnce, NoCrash, [ServicesNext]_servicesVars
  PROVE  NoCrash'
<1> USE DEF NoCrash
<1>1. ASSUME UNCHANGED crashed PROVE NoCrash'
  BY <1>1
<1>2. CASE localQueue # <<>> /\ HandleDefine(Head(localQueue))
  BY <1>1, <1>2, DefinesNew
<1>3. CASE \/ \E n \in Names : AddService(n)
           \/ Starter
           \/ UNCHANGED servicesVars
  BY <1>1, <1>3 DEF AddService, Starter, Start, StartSucceeds, StartExecutor, OnCreated,
                    DefineStartupTask, OnDependenciesAdded, SetStartupDependencies,
                    Enqueue, servicesVars, vars
<1>4. CASE ManagerAlone
  <2>1. CASE \/ Wake \/ StartRound \/ EndRound \/ TellDependent \/ EndTelling
             \/ VisitDependency \/ FailureReported \/ EvaluatedWaiting
    BY <1>1, <2>1 DEF Wake, StartRound, EndRound, TellDependent, EndTelling,
             VisitDependency, FailureReported, EvaluatedWaiting, FrameOnly
  <2>2. CASE HandleSetDeps(Head(localQueue)) \/ HandleComplete(Head(localQueue))
    BY <1>1, <2>2 DEF HandleSetDeps, HandleComplete
  <2> QED BY <1>2, <1>4, <2>1, <2>2 DEF ManagerAlone
<1>5. CASE OnTaskReady
  BY <1>1, <1>5 DEF OnTaskReady, EvaluatedReady
<1>6. CASE OnDependencyFailed
  BY <1>1, <1>6 DEF OnDependencyFailed, ReportFailure
<1>7. ASSUME NEW t \in TaskIDs, ServiceThread(t) PROVE NoCrash'
  BY <1>1, <1>7 DEF ServiceThread, OnReceiverReady, MarksReady, MarkFailed, MarkReady,
                    QueueCompletion, Enqueue, vars
<1> QED BY <1>3, <1>4, <1>5, <1>6, <1>7 DEF ServicesNext

\* The starter defines each service once, so nothing a service or the starter
\* does ends the process: no value() of an empty optional (cpp:145) and no
\* change of the dependencies a loop iterates over (cpp:103).
THEOREM ServicesNeverCrash ==
  ASSUME ServicesUse
  PROVE  ServicesSpec => []NoCrash
<1>1. ServicesInit => StarterInv /\ NoCrash
  BY StarterStart DEF ServicesInit, Init, NoCrash
<1>2. StartupInv /\ StarterInv /\ NoCrash /\ [ServicesNext]_servicesVars
        => (StarterInv /\ NoCrash)'
  BY StarterKept, ServicesCrashFree DEF StartupInv, StarterInv
<1> QED BY <1>1, <1>2, ServicesHold, PTL DEF ServicesSpec

\* Where the services that a service depends on are defined before it asks for
\* them, which the order of the starter's unordered map does not see to (run
\* startup_undefined), it is put on its queue, and told so, only when every one
\* of them has a receiver that is ready and has said that it is up.
THEOREM ReceiversCorrect ==
  ASSUME ServicesUse, OnlyDefined
  PROVE  ServicesSpec => []ReceiverAfterDependencies
<1>1. ServicesInit => StarterInv /\ NamesInv
  BY StarterStart, NamesStart DEF ServicesInit
<1>2. ASSUME StartupInv, ServicesInv, StarterInv, NamesInv, [ServicesNext]_servicesVars
      PROVE  (StarterInv /\ NamesInv)'
  <2>1. [Next]_vars
    BY <1>2, ServicesStep DEF StartupInv
  <2>2. StartupInv'
    BY <1>2, <2>1, StartupKept
  <2>3. NamesInv'
    BY <1>2, <2>1, <2>2, NamesKept DEF StarterInv
  <2> QED BY <1>2, <2>3, StarterKept DEF StartupInv
<1>3. ASSUME StartupInv, ServicesInv, StarterInv, NamesInv
      PROVE  ReceiverAfterDependencies
  <2> SUFFICES ASSUME NEW t \in TaskIDs, receiver[t] # "none",
                      NEW u \in TaskIDs, u < nextTaskId, defined[u + 1] \in requested[t]
               PROVE  receiver[u] = "ready" /\ completedStartup[u]
    BY DEF ReceiverAfterDependencies
  <2>1. PICK n \in Names : n = defined[u + 1] /\ n \in requested[t]
    BY <1>3 DEF StartupInv, TypeOK
  <2>2. nameTask[n] # NoTask /\ nameTask[n] \in dependsOn[t]
    BY <1>3, <2>1 DEF NamesInv, HasTask
  <2>3. PICK v \in TaskIDs : v = nameTask[n]
    BY <1>3, <2>2 DEF StartupInv, TypeOK
  <2>4. Exists(v) /\ defined[v + 1] = n
    BY <1>3, <2>2, <2>3 DEF StartupInv, GraphInv
  <2>5. v < nextTaskId
    BY <1>3, <2>4 DEF StartupInv, GraphInv
  <2>6. DOMAIN defined = 1 .. nextTaskId /\ nextTaskId \in Nat
    BY <1>3, LenProperties, Numbers DEF StartupInv, TypeOK
  <2>7. v + 1 \in DOMAIN defined /\ u + 1 \in DOMAIN defined
    <3>1. v \in Nat /\ u \in Nat
      BY Numbers
    <3> QED BY <2>5, <2>6, <3>1
  <2>8. v + 1 = u + 1
    BY <1>3, <2>1, <2>4, <2>7 DEF StarterInv, DefinedOnce
  <2>9. v = u
    <3>1. v \in Nat /\ u \in Nat
      BY Numbers
    <3> QED BY <2>8, <3>1
  <2>10. state[u] = "Completed"
    BY <1>3, <2>2, <2>3, <2>9 DEF ServicesInv, ServiceOf, AllMet
  <2> QED BY <1>3, <2>10 DEF ServicesInv, ServiceOf
<1>4. /\ StartupInv /\ ServicesInv /\ StarterInv /\ NamesInv /\ [ServicesNext]_servicesVars
        => (StarterInv /\ NamesInv)'
      /\ StartupInv /\ ServicesInv /\ StarterInv /\ NamesInv => ReceiverAfterDependencies
  BY <1>2, <1>3
<1> QED BY <1>1, <1>4, ServicesHold, PTL DEF ServicesSpec
=============================================================================
