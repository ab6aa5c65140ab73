------------------------------ MODULE Services ------------------------------
(***************************************************************************)
(* Services and their starter (BaseService, BaseStarter) on top of the     *)
(* startup task manager, whose task t is the "ready" task of the service   *)
(* defined as the t-th.  The starter's thread creates the services; their  *)
(* OnTaskReady and OnDependencyFailed are called back on the startup       *)
(* thread, inside the manager's calls; OnReceiverReady, MarkReady and      *)
(* MarkFailed run on the service's own thread.                             *)
(*                                                                         *)
(* m_stateMutex makes each of these one step.  A service's call between    *)
(* two callbacks of one round is taken before or after the round: both     *)
(* test and set the same flags, and the manager's queue is read between    *)
(* rounds only.                                                            *)
(***************************************************************************)
EXTENDS StartupTaskManager

CONSTANTS AutoComplete \* names of services with m_autoCompleteStartup

ASSUME ServicesAssumption == AutoComplete \subseteq Names

VARIABLES
  \* BaseStarter: m_serviceStartMap, the services Start has still to create,
  \* whether Start is "to be called", "creating" or has "succeeded"
  serviceStartMap, toCreate, start,
  \* BaseService, for each ready task: its default receiver ("none",
  \* "created", "ready") and its two flags
  receiver, failedStartup, completedStartup

starterVars == <<serviceStartMap, toCreate, start>>
serviceVars == <<receiver, failedStartup, completedStartup>>
servicesVars == <<vars, starterVars, serviceVars>>

ServicesInit ==
  /\ Init
  /\ serviceStartMap = {} /\ toCreate = {} /\ start = "to be called"
  /\ receiver = [t \in TaskIDs |-> "none"]
  /\ failedStartup = [t \in TaskIDs |-> FALSE]
  /\ completedStartup = [t \in TaskIDs |-> FALSE]

-----------------------------------------------------------------------------
(* BaseStarter *)

\* A path that was added before is left as it is.
AddService(n) ==
  /\ start = "to be called" /\ n \notin serviceStartMap
  /\ serviceStartMap' = serviceStartMap \cup {n}
  /\ UNCHANGED <<vars, toCreate, start, serviceVars>>

Start ==
  /\ start = "to be called"
  /\ start' = "creating" /\ toCreate' = serviceStartMap
  /\ UNCHANGED <<vars, serviceStartMap, serviceVars>>

\* BaseService::OnCreated, in the order of an unordered map: AddService ...
OnCreated(n) ==
  /\ start = "creating" /\ n \in toCreate
  /\ \A t \in 0 .. nextTaskId - 1 : setDepsCalls[t] > 0
  /\ DefineStartupTask(n)
  /\ toCreate' = toCreate \ {n}
  /\ UNCHANGED <<serviceStartMap, start, serviceVars>>

\* ... and OnDependenciesAdded.
OnDependenciesAdded(t) ==
  /\ t < nextTaskId /\ setDepsCalls[t] = 0
  /\ \E deps \in SUBSET Names : SetStartupDependencies(t, deps)
  /\ UNCHANGED <<starterVars, serviceVars>>

StartSucceeds ==
  /\ start = "creating" /\ toCreate = {}
  /\ \A t \in 0 .. nextTaskId - 1 : setDepsCalls[t] > 0
  /\ StartExecutor
  /\ start' = "succeeded"
  /\ UNCHANGED <<serviceStartMap, toCreate, serviceVars>>

-----------------------------------------------------------------------------
(* BaseService, called back on the startup thread *)

\* The default receiver is created, then the task is run at once.
OnTaskReady ==
  /\ EvaluatedReady("run")
  /\ receiver' = [receiver EXCEPT ![Top.task] = IF @ = "none" THEN "created" ELSE @]
  /\ UNCHANGED <<starterVars, failedStartup, completedStartup>>

OnDependencyFailed ==
  /\ stack # <<>>
  /\ ReportFailure(IF failedStartup[Top.task] THEN "none" ELSE "fail")
  /\ failedStartup' = [failedStartup EXCEPT ![Top.task] = TRUE]
  /\ UNCHANGED <<starterVars, receiver, completedStartup>>

-----------------------------------------------------------------------------
(* BaseService, on the thread of the service *)

QueueCompletion(t, success) ==
  /\ Enqueue(CompleteAction(t, success))
  /\ UNCHANGED <<nextTaskId, clientVars>>

\* A fault: a service that completed may still fail.
NotFailed(t) == ~failedStartup[t]

Undecided(t) == ~failedStartup[t] /\ ~completedStartup[t]

MarkReady(t) ==
  IF Undecided(t)
  THEN /\ QueueCompletion(t, TRUE)
       /\ completedStartup' = [completedStartup EXCEPT ![t] = TRUE]
  ELSE UNCHANGED <<vars, completedStartup>>

OnReceiverReady(t) ==
  /\ receiver[t] = "created"
  /\ receiver' = [receiver EXCEPT ![t] = "ready"]
  /\ IF defined[t + 1] \in AutoComplete THEN MarkReady(t)
     ELSE UNCHANGED <<vars, completedStartup>>
  /\ UNCHANGED <<starterVars, failedStartup>>

\* A service that does not complete by itself says when it is ready.
MarksReady(t) ==
  /\ receiver[t] = "ready" /\ defined[t + 1] \notin AutoComplete
  /\ Undecided(t)
  /\ MarkReady(t)
  /\ UNCHANGED <<starterVars, receiver, failedStartup>>

MarkFailed(t) ==
  /\ receiver[t] = "ready" \/ (FailAnyTime /\ t < nextTaskId /\ setDepsCalls[t] > 0)
  /\ Undecided(t)
  /\ QueueCompletion(t, FALSE)
  /\ failedStartup' = [failedStartup EXCEPT ![t] = TRUE]
  /\ UNCHANGED <<starterVars, receiver, completedStartup>>

-----------------------------------------------------------------------------
\* What the manager does without a service.
ManagerAlone ==
  /\ \/ Wake \/ StartRound \/ EndRound
     \/ localQueue # <<>> /\ HandleDefine(Head(localQueue))
     \/ localQueue # <<>> /\ HandleSetDeps(Head(localQueue))
     \/ localQueue # <<>> /\ HandleComplete(Head(localQueue))
     \/ TellDependent \/ EndTelling
     \/ VisitDependency \/ FailureReported \/ EvaluatedWaiting
  /\ UNCHANGED <<starterVars, serviceVars>>

Starter ==
  \/ Start \/ StartSucceeds
  \/ \E n \in Names : OnCreated(n)
  \/ \E t \in TaskIDs : OnDependenciesAdded(t)

ServiceThread(t) == OnReceiverReady(t) \/ MarksReady(t) \/ MarkFailed(t)

ServicesNext ==
  \/ \E n \in Names : AddService(n)
  \/ Starter
  \/ ManagerAlone \/ OnTaskReady \/ OnDependencyFailed
  \/ \E t \in TaskIDs : ServiceThread(t)

ServicesSpec == ServicesInit /\ [][ServicesNext]_servicesVars

\* The starter goes on, every thread takes the steps it has to take, and a
\* service whose receiver is ready says in the end that it is ready or failed.
ServicesFairSpec ==
  /\ ServicesSpec
  /\ WF_servicesVars(Starter)
  /\ WF_servicesVars(ManagerAlone \/ OnTaskReady \/ OnDependencyFailed)
  /\ \A t \in TaskIDs : SF_servicesVars(ServiceThread(t))

-----------------------------------------------------------------------------
(* Properties *)

\* What a service believes of its startup is what the manager believes, once
\* the manager has handled the service's call: no call of MarkReady or
\* MarkFailed is refused, and no task ends without its service's knowing.
FlagsMatchTask ==
  (stack = <<>> /\ ~crashed) =>
    \A t \in TaskIDs :
      LET told == \E q \in {executorQueue, localQueue} :
                    \E i \in DOMAIN q : q[i].op = "Complete" /\ q[i].id = t IN
      /\ state[t] = "Completed" => completedStartup[t] /\ ~failedStartup[t]
      /\ state[t] = "Failed" => failedStartup[t]
      /\ (completedStartup[t] /\ ~told) => state[t] = "Completed"
      /\ (failedStartup[t] /\ ~told) => state[t] = "Failed"

\* A service is put on its queue, and told so, only when every service it
\* depends on has a receiver that is ready and has said that it is up.
ReceiverAfterDependencies ==
  \A t \in TaskIDs : receiver[t] # "none" =>
    \A u \in TaskIDs : (u < nextTaskId /\ defined[u + 1] \in requested[t]) =>
      receiver[u] = "ready" /\ completedStartup[u]
=============================================================================
