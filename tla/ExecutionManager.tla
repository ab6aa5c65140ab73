-------------------------- MODULE ExecutionManager --------------------------
(***************************************************************************)
(* The execution manager of Holder (src/Holder/ExecutionManager.cpp): a    *)
(* singleton that owns named threads.  Each thread runs any number of      *)
(* executors round-robin and sleeps when none of them is active.  Clients  *)
(* add executors by thread name, signal them by ID, doom a thread by name  *)
(* and lock up shop; each of these posts to the instruction list of a      *)
(* thread, under the manager's mutex.                                      *)
(*                                                                         *)
(* An action is one critical section of m_mutex or of a thread's           *)
(* m_mutexInstructions, or one step of the thread's loop between them.     *)
(* The timer thread is left to a module of its own.                        *)
(***************************************************************************)
EXTENDS Integers, Sequences, FiniteSets

CONSTANTS
  Names,          (* thread names clients use                              *)
  EXEC_WILDCARD,  (* the reserved executor ID: 0xffffffff in the code      *)
  MaxThreads,     (* bound: threads ever created                           *)
  MaxInstr,       (* bound: length of a thread's instruction list          *)
  MaxLockCalls,   (* bound: calls of LockShop                              *)
  MaxPerThread,   (* how many executors clients keep on one thread at once *)
  ClientSignals,  (* the signals clients send to one executor              *)
  UINT_RANGE,     (* number of values of unsigned int, m_nActive's type    *)
  InitMayFail,    (* whether IExecutor::Init may return false              *)
  MayDoom,        (* whether clients call DoomThread                       *)
  NoThread        (* stands for an absent map entry                        *)

ThreadIDs == 0 .. MaxThreads - 1
\* AddExecutor throws once m_nextExec is EXEC_WILDCARD - 1.
ExecutorIDs == 0 .. EXEC_WILDCARD - 2

ExecutorSignalTypes == {"WakeUp", "RequestTermination"}

ASSUME ConstantsAssumption ==
  /\ Names # {}
  /\ EXEC_WILDCARD \in Nat \ {0, 1}
  /\ MaxThreads \in Nat
  /\ MaxInstr \in Nat
  /\ MaxLockCalls \in Nat
  /\ MaxPerThread \in Nat
  /\ UINT_RANGE \in Nat /\ UINT_RANGE > EXEC_WILDCARD
  /\ ClientSignals \subseteq ExecutorSignalTypes
  /\ InitMayFail \in BOOLEAN
  /\ MayDoom \in BOOLEAN
  /\ NoThread \notin ThreadIDs

ExecutionStates == {"Continue", "Suspend", "End"}
ExecutorStateTags == {"Executing", "Suspended"}

\* signalType is left uninitialised in an AddExecutor message and never read.
AddMessage(e) ==
  [instructionTag |-> "AddExecutor", signalType |-> "Unset", execId |-> e]
SignalMessage(e, type) ==
  [instructionTag |-> "SignalExecutor", signalType |-> type, execId |-> e]

Instructions ==
  [instructionTag : {"AddExecutor"}, signalType : {"Unset"}, execId : ExecutorIDs]
    \cup
  [instructionTag : {"SignalExecutor"}, signalType : ExecutorSignalTypes,
   execId : ExecutorIDs \cup {EXEC_WILDCARD}]

ExecutorStates == [execId : ExecutorIDs, stateTag : ExecutorStateTags]

VARIABLES
  \* The manager, guarded by m_mutex
  lockedShop, nextThread, nextExec, threadNameMap, threadMap, executorMap,
  threadsToJoin,
  \* What a thread was created with
  threadName, isSingleton, firstExec,
  \* The mailbox of a thread, guarded by its m_mutexInstructions
  instructionList, isDoomed, newInstructions,
  \* The loop of a thread: where it is and its local variables
  pc, justWaited, localInstructionList, cursor, execsToRemove,
  \* The executor table of a thread, touched by that thread only
  executors, signalMap, nActive,
  \* The executor objects: the callbacks they have received
  initialised, deInitialised, termRequested,
  \* The controlling thread, and whether the process met undefined behaviour
  mainPc, crashed,
  lockCalls  \* how often LockShop was called, for its bound

managerVars == <<lockedShop, nextThread, nextExec, threadNameMap, threadMap,
                 executorMap, threadsToJoin>>
identityVars == <<threadName, isSingleton, firstExec>>
mailboxVars == <<instructionList, isDoomed, newInstructions>>
loopVars == <<pc, justWaited, localInstructionList, cursor, execsToRemove>>
tableVars == <<executors, signalMap, nActive>>
objectVars == <<initialised, deInitialised, termRequested>>
processVars == <<mainPc, crashed, lockCalls>>
vars == <<managerVars, identityVars, mailboxVars, loopVars, tableVars,
          objectVars, processVars>>

-----------------------------------------------------------------------------
(* Helpers                                                                 *)

\* i is the first index of S after `from'.
IsNext(i, from, S) ==
  /\ i \in S
  /\ i > from
  /\ \A j \in S : j > from => i <= j

Executing(t) == {i \in DOMAIN executors[t] : executors[t][i].stateTag = "Executing"}
Suspended(t) == {i \in DOMAIN executors[t] : executors[t][i].stateTag = "Suspended"}
AddsTaken(t) ==
  {i \in DOMAIN localInstructionList[t] :
     localInstructionList[t][i].instructionTag = "AddExecutor"}

\* The list taken is handled in two passes: the adds in order, then the signals.
NextInstruction(t, i) ==
  IF AddsTaken(t) # {} THEN IsNext(i, 0, AddsTaken(t)) ELSE i = 1

\* Unsigned arithmetic of m_nActive.
Plus(n, k) == (n + k) % UINT_RANGE
Minus(n, k) == (n + UINT_RANGE - k) % UINT_RANGE

\* What Run may return: the executors of the repository (MQDExecutor and the
\* startup task executor) end as soon as they were asked to terminate.
RunOutcomes(e) == IF e \in termRequested THEN {"End"} ELSE ExecutionStates

\* Fault: the thread forgets that instructions may be waiting for it.
ShouldRunDespiteInstructions(t) == executors[t] # <<>> \/ ~isDoomed[t]
\* Fault: the thread looks only at what may still come, not at what it has.
ShouldRunDespiteExecutors(t) == instructionList[t] # <<>> \/ ~isDoomed[t]

\* The thread's test for another round of its loop.
ShouldRun(t) ==
  instructionList[t] # <<>> \/ executors[t] # <<>> \/ ~isDoomed[t]

\* Fault: new instructions are looked at only when flagged.
InstructionsFlagged(t) == newInstructions[t]

\* The thread takes its instructions after a wait, or when flagged new ones;
\* no operation sets the flag.
InstructionsDue(t) == justWaited[t] \/ newInstructions[t]

\* The process runs: it met no undefined behaviour and main has not ended.
Alive == ~crashed /\ mainPc \notin {"aborted", "destroyed"}
At(t, label) == Alive /\ pc[t] = label

\* Undefined behaviour: nothing is claimed of the process from here on.
Crash ==
  /\ crashed' = TRUE
  /\ UNCHANGED <<managerVars, identityVars, mailboxVars, loopVars, tableVars,
                 objectVars, mainPc, lockCalls>>

-----------------------------------------------------------------------------
Init ==
  /\ lockedShop = FALSE
  /\ nextThread = 0
  /\ nextExec = 0
  /\ threadNameMap = [n \in Names |-> NoThread]
  /\ threadMap = {}
  /\ executorMap = [e \in ExecutorIDs |-> NoThread]
  /\ threadsToJoin = {}
  /\ threadName = [t \in ThreadIDs |-> CHOOSE n \in Names : TRUE]
  /\ isSingleton = [t \in ThreadIDs |-> FALSE]
  /\ firstExec = [t \in ThreadIDs |-> 0]
  /\ instructionList = [t \in ThreadIDs |-> <<>>]
  /\ isDoomed = [t \in ThreadIDs |-> FALSE]
  /\ newInstructions = [t \in ThreadIDs |-> FALSE]
  /\ pc = [t \in ThreadIDs |-> "none"]
  /\ justWaited = [t \in ThreadIDs |-> FALSE]
  /\ localInstructionList = [t \in ThreadIDs |-> <<>>]
  /\ cursor = [t \in ThreadIDs |-> 0]
  /\ execsToRemove = [t \in ThreadIDs |-> <<>>]
  /\ executors = [t \in ThreadIDs |-> <<>>]
  /\ signalMap = [t \in ThreadIDs |-> [e \in ExecutorIDs |-> 0]]
  /\ nActive = [t \in ThreadIDs |-> 0]
  /\ initialised = {}
  /\ deInitialised = {}
  /\ termRequested = {}
  /\ mainPc = "loop"
  /\ crashed = FALSE
  /\ lockCalls = 0

-----------------------------------------------------------------------------
(* Operations of the manager, each under m_mutex                           *)

\* PostAddExecutor and PostSignalExecutor: append to the list of a thread.
\* The notification is in WakeUp, which needs none: the wait is timed.
Post(t, msg) ==
  /\ Len(instructionList[t]) < MaxInstr
  /\ instructionList' = [instructionList EXCEPT ![t] = Append(@, msg)]

\* The name is taken: post to its thread.
AddToThread(name) ==
  LET t == threadNameMap[name] IN
  /\ t # NoThread
  /\ ~isSingleton[t]
  /\ Cardinality({e \in ExecutorIDs : executorMap[e] = t}) < MaxPerThread
  /\ Post(t, AddMessage(nextExec))
  /\ executorMap' = [executorMap EXCEPT ![nextExec] = t]
  /\ UNCHANGED <<nextThread, threadNameMap, threadMap, identityVars, pc>>

\* The name is taken and one side wants the thread for itself: an exception,
\* after m_nextExec was already advanced.
RejectSingleton(name, single) ==
  LET t == threadNameMap[name] IN
  /\ t # NoThread
  /\ single \/ isSingleton[t]
  /\ UNCHANGED <<nextThread, threadNameMap, threadMap, identityVars, pc,
                 instructionList, executorMap>>

\* The name is free: start a thread with this executor.
StartThread(name, single) ==
  /\ threadNameMap[name] = NoThread
  /\ nextThread < MaxThreads
  /\ nextThread' = nextThread + 1
  /\ threadMap' = threadMap \cup {nextThread}
  /\ threadNameMap' = [threadNameMap EXCEPT ![name] = nextThread]
  /\ executorMap' = [executorMap EXCEPT ![nextExec] = nextThread]
  /\ threadName' = [threadName EXCEPT ![nextThread] = name]
  /\ isSingleton' = [isSingleton EXCEPT ![nextThread] = single]
  /\ firstExec' = [firstExec EXCEPT ![nextThread] = nextExec]
  /\ pc' = [pc EXCEPT ![nextThread] = "start"]
  /\ UNCHANGED instructionList

\* Fault: the shop is not asked.
NotAsked == TRUE
ShopOpen == ~lockedShop

\* Fault: IDs run into the reserved one.
IdsUnlimited == TRUE
IdsLeft == nextExec # EXEC_WILDCARD - 1

AddExecutor(name, single) ==
  /\ Alive
  /\ IdsLeft
  /\ ShopOpen
  /\ nextExec' = nextExec + 1
  /\ \/ ~single /\ AddToThread(name)
     \/ RejectSingleton(name, single)
     \/ StartThread(name, single)
  /\ UNCHANGED <<lockedShop, threadsToJoin, isDoomed, newInstructions,
                 justWaited, localInstructionList, cursor, execsToRemove,
                 tableVars, objectVars, processVars>>

\* The thread dies once it has no executor and loses its name at once.
DoomThread(name) ==
  LET t == threadNameMap[name] IN
  /\ Alive /\ MayDoom
  /\ t # NoThread
  /\ isDoomed' = [isDoomed EXCEPT ![t] = TRUE]
  /\ threadNameMap' = [threadNameMap EXCEPT ![name] = NoThread]
  /\ UNCHANGED <<lockedShop, nextThread, nextExec, threadMap, executorMap,
                 threadsToJoin, identityVars, instructionList,
                 newInstructions, loopVars, tableVars, objectVars, processVars>>

\* The entry of an executor is followed to its thread without a check.
SignalExecutor(e, type) ==
  LET t == executorMap[e] IN
  /\ Alive
  /\ t # NoThread
  /\ \/ /\ t \in threadMap
        /\ Post(t, SignalMessage(e, type))
        /\ UNCHANGED <<managerVars, identityVars, isDoomed, newInstructions,
                       loopVars, tableVars, objectVars, processVars>>
     \/ t \notin threadMap /\ Crash

\* Fault: the threads are told to terminate their executors and left alive.
DoomNone == isDoomed
DoomAll == [t \in ThreadIDs |-> isDoomed[t] \/ t \in threadMap]

\* Dooms every thread and, with sendTermination, asks all executors to stop.
LockShop(sendTermination) ==
  /\ Alive
  /\ lockCalls < MaxLockCalls
  /\ lockCalls' = lockCalls + 1
  /\ sendTermination =>
       \A t \in threadMap : Len(instructionList[t]) < MaxInstr
  /\ isDoomed' = DoomAll
  /\ instructionList' =
       [t \in ThreadIDs |->
          IF sendTermination /\ t \in threadMap
          THEN Append(instructionList[t],
                      SignalMessage(EXEC_WILDCARD, "RequestTermination"))
          ELSE instructionList[t]]
  /\ lockedShop' = TRUE
  /\ UNCHANGED <<nextThread, nextExec, threadNameMap, threadMap, executorMap,
                 threadsToJoin, identityVars, newInstructions, loopVars,
                 tableVars, objectVars, mainPc, crashed>>

\* Fault: the manager keeps them on its map.
WithExecutors(t) == executorMap
WithoutExecutors(t) ==
  [e \in ExecutorIDs |->
     IF \E i \in DOMAIN execsToRemove[t] : execsToRemove[t][i] = e
     THEN NoThread ELSE executorMap[e]]

\* A thread takes the executors that ended off the manager's map.
RemoveExecutors(t) ==
  /\ At(t, "remove")
  /\ cursor[t] = Len(execsToRemove[t])
  /\ executorMap' = WithoutExecutors(t)
  /\ execsToRemove' = [execsToRemove EXCEPT ![t] = <<>>]
  /\ cursor' = [cursor EXCEPT ![t] = 0]
  /\ pc' = [pc EXCEPT ![t] = "idle"]
  /\ UNCHANGED <<lockedShop, nextThread, nextExec, threadNameMap, threadMap,
                 threadsToJoin, identityVars, mailboxVars, justWaited,
                 localInstructionList, tableVars, objectVars, processVars>>

\* Fault: the name of the thread stays.
NameKept(t) == threadNameMap
NameErased(t) == [threadNameMap EXCEPT ![threadName[t]] = NoThread]

\* Fault: the shop locks with the first thread that leaves.
IsAnyThread(t) == TRUE
IsLastThread(t) == threadMap = {t}

\* Fault: the thread is not handed over to be joined.
NotHandedOver(t) == threadsToJoin
HandedOver(t) == threadsToJoin \cup {t}

\* A thread's last act.  The name is erased whoever holds it by now, and the
\* shop locks with its last thread.
RemoveThread(t) ==
  /\ At(t, "exit")
  /\ threadMap' = threadMap \ {t}
  /\ threadNameMap' = NameErased(t)
  /\ threadsToJoin' = HandedOver(t)
  /\ lockedShop' = (lockedShop \/ IsLastThread(t))
  /\ pc' = [pc EXCEPT ![t] = "done"]
  /\ UNCHANGED <<nextThread, nextExec, executorMap, identityVars, mailboxVars,
                 justWaited, localInstructionList, cursor, execsToRemove,
                 tableVars, objectVars, processVars>>

-----------------------------------------------------------------------------
(* The loop of an executor thread                                          *)

\* AddExecutor of the thread: Init, then a table entry and an index entry.
AddLocal(t, e) ==
  \/ /\ executors' =
          [executors EXCEPT ![t] = Append(@, [execId |-> e, stateTag |-> "Executing"])]
     /\ signalMap' =
          [signalMap EXCEPT ![t][e] = IF @ = 0 THEN Len(executors[t]) + 1 ELSE @]
     /\ nActive' = [nActive EXCEPT ![t] = Plus(@, 1)]
     /\ initialised' = initialised \cup {e}
     /\ UNCHANGED <<deInitialised, termRequested>>
  \/ /\ InitMayFail
     /\ UNCHANGED <<tableVars, objectVars>>

\* The thread function starts with its first executor; without it, it leaves
\* at once.
Start(t) ==
  /\ At(t, "start")
  /\ AddLocal(t, firstExec[t])
  /\ pc' = [pc EXCEPT ![t] = IF executors'[t] = <<>> THEN "exit" ELSE "top"]
  /\ UNCHANGED <<managerVars, identityVars, mailboxVars, justWaited,
                 localInstructionList, cursor, execsToRemove, processVars>>

\* Swap the instruction list for an empty one, under m_mutexInstructions.
TakeInstructions(t) ==
  /\ At(t, "top")
  /\ InstructionsDue(t)
  /\ newInstructions' =
       [newInstructions EXCEPT ![t] = IF justWaited[t] THEN @ ELSE FALSE]
  /\ justWaited' = [justWaited EXCEPT ![t] = FALSE]
  /\ localInstructionList' = [localInstructionList EXCEPT ![t] = instructionList[t]]
  /\ instructionList' = [instructionList EXCEPT ![t] = <<>>]
  /\ pc' = [pc EXCEPT ![t] = "round"]
  /\ UNCHANGED <<managerVars, identityVars, isDoomed, cursor, execsToRemove,
                 tableVars, objectVars, processVars>>

\* Fault: every signal counts, whatever the state of the executor.
SignalledCount(t, S) == Cardinality(S)
WokenCount(t, S) == Cardinality(S \cap Suspended(t))

\* HandleSignalForIndex on every index of S: every signal is also a wakeup.
SignalIndexes(t, S, type) ==
  /\ executors' =
       [executors EXCEPT ![t] =
          [i \in DOMAIN executors[t] |->
             IF i \in S THEN [executors[t][i] EXCEPT !.stateTag = "Executing"]
                        ELSE executors[t][i]]]
  /\ nActive' = [nActive EXCEPT ![t] = Plus(@, WokenCount(t, S))]
  /\ termRequested' =
       IF type = "RequestTermination"
       THEN termRequested \cup {executors[t][i].execId : i \in S}
       ELSE termRequested

\* Where the index says the executor is; an index beyond the table is an
\* out-of-range access.
HandleExecutorSignal(t, e, type) ==
  LET i == signalMap[t][e] IN
  \/ /\ e = EXEC_WILDCARD
     /\ SignalIndexes(t, DOMAIN executors[t], type)
     /\ UNCHANGED crashed
  \/ /\ e # EXEC_WILDCARD
     /\ i \in DOMAIN executors[t]
     /\ SignalIndexes(t, {i}, type)
     /\ UNCHANGED crashed
  \/ /\ e # EXEC_WILDCARD
     /\ i = 0
     /\ UNCHANGED <<executors, nActive, termRequested, crashed>>
  \/ /\ e # EXEC_WILDCARD
     /\ i > Len(executors[t])
     /\ crashed' = TRUE
     /\ UNCHANGED <<executors, nActive, termRequested>>

\* One round of either loop over the list taken.
HandleInstruction(t) ==
  /\ At(t, "round")
  /\ \E i \in DOMAIN localInstructionList[t] :
       /\ NextInstruction(t, i)
       /\ LET msg == localInstructionList[t][i] IN
          \/ /\ msg.instructionTag = "AddExecutor"
             /\ AddLocal(t, msg.execId)
             /\ UNCHANGED crashed
          \/ /\ msg.instructionTag = "SignalExecutor"
             /\ HandleExecutorSignal(t, msg.execId, msg.signalType)
             /\ UNCHANGED <<signalMap, initialised, deInitialised>>
       /\ localInstructionList' =
            [localInstructionList EXCEPT
               ![t] = SubSeq(@, 1, i - 1) \o SubSeq(@, i + 1, Len(@))]
  /\ UNCHANGED <<managerVars, identityVars, mailboxVars, pc, justWaited, cursor,
                 execsToRemove, mainPc, lockCalls>>

\* The thread goes through its executors: after the instructions it took, or
\* at once if it neither waited nor was flagged new instructions.
InRound(t) ==
  \/ At(t, "round") /\ localInstructionList[t] = <<>>
  \/ At(t, "top") /\ ~InstructionsDue(t)
RoundOver(t) == InRound(t) /\ \A i \in Executing(t) : i <= cursor[t]

\* Run the next active executor of the round.
RunExecutor(t, outcome) ==
  /\ InRound(t)
  /\ pc' = [pc EXCEPT ![t] = "round"]
  /\ \E i \in Executing(t) :
       /\ IsNext(i, cursor[t], Executing(t))
       /\ outcome \in RunOutcomes(executors[t][i].execId)
       /\ cursor' = [cursor EXCEPT ![t] = i]
       /\ \/ outcome = "Continue" /\ UNCHANGED <<executors, nActive, execsToRemove>>
          \/ /\ outcome = "Suspend"
             /\ executors' = [executors EXCEPT ![t][i].stateTag = "Suspended"]
             /\ nActive' = [nActive EXCEPT ![t] = Minus(@, 1)]
             /\ UNCHANGED execsToRemove
          \/ /\ outcome = "End"
             /\ execsToRemove' =
                  [execsToRemove EXCEPT ![t] = Append(@, executors[t][i].execId)]
             /\ UNCHANGED <<executors, nActive>>
  /\ UNCHANGED <<managerVars, identityVars, mailboxVars, justWaited,
                 localInstructionList, signalMap, objectVars, processVars>>

\* Some executors asked to be removed.
EndRound(t) ==
  /\ RoundOver(t)
  /\ execsToRemove[t] # <<>>
  /\ cursor' = [cursor EXCEPT ![t] = 0]
  /\ pc' = [pc EXCEPT ![t] = "remove"]
  /\ UNCHANGED <<managerVars, identityVars, mailboxVars, justWaited,
                 localInstructionList, execsToRemove, tableVars, objectVars,
                 processVars>>

\* RemoveExecutor of the thread: DeInit whatever the index leads to, swap it
\* with the last entry, and drop the last entry.  After the swap the name
\* rOtherExec is the entry that leaves, so it is that entry's index that is
\* written; the entry that moved keeps its old one.
Unlist(t, e) ==
  LET table == executors[t]
      at    == signalMap[t][e]
      last  == Len(table)
  IN
  /\ deInitialised' = deInitialised \cup {table[at].execId}
  /\ executors' =
       [executors EXCEPT ![t] =
          SubSeq([table EXCEPT ![at] = table[last]], 1, last - 1)]
  /\ signalMap' =
       [signalMap EXCEPT ![t] =
          [x \in ExecutorIDs |->
             IF x = e THEN 0
             ELSE IF at # last /\ x = table[at].execId THEN at
             ELSE signalMap[t][x]]]
  /\ nActive' = [nActive EXCEPT ![t] = Minus(@, 1)]

\* No index, nothing to do; an index beyond the table is an out-of-range access.
RemoveExecutor(t) ==
  /\ At(t, "remove")
  /\ cursor[t] < Len(execsToRemove[t])
  /\ cursor' = [cursor EXCEPT ![t] = @ + 1]
  /\ LET e == execsToRemove[t][cursor[t] + 1]
         at == signalMap[t][e]
     IN IF at \in DOMAIN executors[t]
        THEN Unlist(t, e) /\ UNCHANGED crashed
        ELSE /\ crashed' = (at # 0)
             /\ UNCHANGED <<tableVars, deInitialised>>
  /\ UNCHANGED <<managerVars, identityVars, mailboxVars, pc, justWaited,
                 localInstructionList, execsToRemove, initialised,
                 termRequested, mainPc, lockCalls>>

\* With no active executor: under m_mutexInstructions, leave or begin the wait.
GoIdle(t) ==
  /\ At(t, "idle") \/ (RoundOver(t) /\ execsToRemove[t] = <<>>)
  /\ cursor' = [cursor EXCEPT ![t] = 0]
  /\ pc' = [pc EXCEPT ![t] = IF nActive[t] # 0 THEN "top"
                             ELSE IF ShouldRun(t) THEN "waiting" ELSE "exit"]
  /\ UNCHANGED <<managerVars, identityVars, mailboxVars, justWaited,
                 localInstructionList, execsToRemove, tableVars, objectVars,
                 processVars>>

\* wait_for returns on a notification, spuriously, or at the idle timeout: it
\* may always return.
WakeUp(t) ==
  /\ At(t, "waiting")
  /\ justWaited' = [justWaited EXCEPT ![t] = TRUE]
  /\ pc' = [pc EXCEPT ![t] = IF ShouldRun(t) THEN "top" ELSE "exit"]
  /\ UNCHANGED <<managerVars, identityVars, mailboxVars, localInstructionList,
                 cursor, execsToRemove, tableVars, objectVars, processVars>>

-----------------------------------------------------------------------------
(* The controlling thread: in RunLoop from the start, since a locked shop   *)
(* refuses what it would do before; then the destructor of the singleton    *)

\* Fault: the loop ends as soon as the shop is locked.
ShopLocked == lockedShop
NothingRuns == lockedShop /\ threadMap = {}

\* The wait is timed: the condition is looked at again and again.
RunLoopReturn ==
  /\ Alive /\ mainPc = "loop"
  /\ NothingRuns
  /\ mainPc' = "returned"
  /\ UNCHANGED <<managerVars, identityVars, mailboxVars, loopVars, tableVars,
                 objectVars, crashed, lockCalls>>

\* ~ExecutionManager: aborts the process if the shop is open or a thread is
\* left, and joins the threads that removed themselves.
Destroy ==
  /\ Alive /\ mainPc = "returned"
  /\ mainPc' = IF ~lockedShop \/ threadMap # {} THEN "aborted" ELSE "destroyed"
  /\ UNCHANGED <<managerVars, identityVars, mailboxVars, loopVars, tableVars,
                 objectVars, crashed, lockCalls>>

-----------------------------------------------------------------------------
ThreadStep(t) ==
  \/ Start(t) \/ TakeInstructions(t) \/ HandleInstruction(t)
  \/ \E outcome \in ExecutionStates : RunExecutor(t, outcome)
  \/ EndRound(t) \/ RemoveExecutor(t) \/ RemoveExecutors(t)
  \/ GoIdle(t) \/ WakeUp(t) \/ RemoveThread(t)

Clients ==
  \/ \E n \in Names, single \in BOOLEAN : AddExecutor(n, single)
  \/ \E n \in Names : DoomThread(n)
  \/ \E e \in ExecutorIDs, type \in ClientSignals : SignalExecutor(e, type)
  \/ \E sendTermination \in BOOLEAN : LockShop(sendTermination)

Next ==
  \/ Clients
  \/ \E t \in ThreadIDs : ThreadStep(t)
  \/ RunLoopReturn
  \/ Destroy

Spec == Init /\ [][Next]_vars

(***************************************************************************)
(* Fairness.  The operating system schedules every thread.  An executor    *)
(* does not return Continue forever: MQDExecutor continues only while its  *)
(* queue has messages, the startup task executor never does.               *)
(***************************************************************************)
FairSpec ==
  /\ Spec
  /\ \A t \in ThreadIDs : WF_vars(ThreadStep(t))
  /\ \A t \in ThreadIDs :
       SF_vars(RunExecutor(t, "Suspend") \/ RunExecutor(t, "End"))
  /\ WF_vars(RunLoopReturn \/ Destroy)

\* The operating system's part alone, for what the code does when an
\* executor stays busy.
SchedulerSpec ==
  /\ Spec
  /\ \A t \in ThreadIDs : WF_vars(ThreadStep(t))
-----------------------------------------------------------------------------
(* Properties                                                              *)

\* The values of the variables.
TypeOK ==
  /\ lockedShop \in BOOLEAN
  /\ nextThread \in 0 .. MaxThreads
  /\ nextExec \in 0 .. EXEC_WILDCARD - 1
  /\ threadNameMap \in [Names -> ThreadIDs \cup {NoThread}]
  /\ threadMap \subseteq ThreadIDs
  /\ executorMap \in [ExecutorIDs -> ThreadIDs \cup {NoThread}]
  /\ threadsToJoin \subseteq ThreadIDs
  /\ threadName \in [ThreadIDs -> Names]
  /\ isSingleton \in [ThreadIDs -> BOOLEAN]
  /\ firstExec \in [ThreadIDs -> ExecutorIDs]
  /\ instructionList \in [ThreadIDs -> Seq(Instructions)]
  /\ isDoomed \in [ThreadIDs -> BOOLEAN]
  /\ newInstructions \in [ThreadIDs -> BOOLEAN]
  /\ pc \in [ThreadIDs -> {"none", "start", "top", "round", "remove", "idle", "waiting", "exit", "done"}]
  /\ justWaited \in [ThreadIDs -> BOOLEAN]
  /\ localInstructionList \in [ThreadIDs -> Seq(Instructions)]
  /\ cursor \in [ThreadIDs -> Nat]
  /\ execsToRemove \in [ThreadIDs -> Seq(ExecutorIDs)]
  /\ executors \in [ThreadIDs -> Seq(ExecutorStates)]
  /\ signalMap \in [ThreadIDs -> [ExecutorIDs -> Nat]]
  /\ nActive \in [ThreadIDs -> 0 .. UINT_RANGE - 1]
  /\ initialised \subseteq ExecutorIDs
  /\ deInitialised \subseteq ExecutorIDs
  /\ termRequested \subseteq ExecutorIDs
  /\ mainPc \in {"loop", "returned", "aborted", "destroyed"}
  /\ crashed \in BOOLEAN
  /\ lockCalls \in 0 .. MaxLockCalls

\* A thread that still has to see that the shop is locked would never exit:
\* whichever way the shop came to be locked (LockShop, or the last thread
\* leaving) and however thread creation interleaved with it, every thread the
\* manager still owns is doomed.
DoomedOnceLocked ==
  lockedShop => \A t \in threadMap : isDoomed[t]

\* A thread ever created is owned by the manager until its last act, which
\* hands it over to be joined, for good (ExecutionManager.cpp:704-706): RunLoop
\* and the destructor miss none, and no thread runs that is not owned.
ThreadsAccountedFor ==
  /\ threadMap \cap threadsToJoin = {}
  /\ threadMap \cup threadsToJoin = 0 .. nextThread - 1
  /\ \A t \in ThreadIDs :
       /\ t \in threadMap <=> pc[t] \notin {"none", "done"}
       /\ t \in threadsToJoin <=> pc[t] = "done"

\* AddExecutor and DoomThread follow a name to its thread without a check
\* (ExecutionManager.cpp:584-590, 622-624): the entry must lead to a thread
\* the manager owns, of that name, and that may still accept executors.
NamesLeadToThreads ==
  \A n \in Names :
    LET t == threadNameMap[n] IN
    t # NoThread => /\ t \in threadMap
                    /\ threadName[t] = n
                    /\ ~lockedShop => ~isDoomed[t]

\* The add instruction of a thread, if any, for executor e.
AddPending(t, e) ==
  \/ pc[t] = "start" /\ firstExec[t] = e
  \/ \E i \in DOMAIN instructionList[t] : instructionList[t][i] = AddMessage(e)
  \/ \E i \in AddsTaken(t) : localInstructionList[t][i].execId = e
Listed(t, e) == \E i \in DOMAIN executors[t] : executors[t][i].execId = e

\* A thread that left its loop takes no accepted executor with it
\* (ExecutionManager.cpp:94-109: "At this point there should be NO pending
\* executors"): an add posted between the decision to leave and the removal
\* from the map would be lost, and so would one posted to a thread that finds
\* that its first executor does not start.
NoAddLost ==
  \A t \in ThreadIDs, e \in ExecutorIDs :
    pc[t] \in {"exit", "done"} => ~AddPending(t, e) /\ ~Listed(t, e)

\* SignalExecutor follows an executor to its thread without a check
\* (ExecutionManager.cpp:635-640).
ExecutorsLeadToThreads ==
  \A e \in ExecutorIDs :
    executorMap[e] # NoThread => executorMap[e] \in threadMap

\* Every executor the manager knows is where its thread can find it: waiting
\* to be added, in the table, or on its way out.  Every executor in a table,
\* where it is run, is one the manager knows to be on that thread and that was
\* not deinitialised.
ExecutorsAccountedFor ==
  /\ \A e \in ExecutorIDs : executorMap[e] # NoThread =>
       LET t == executorMap[e] IN
       \/ AddPending(t, e) \/ Listed(t, e)
       \/ \E i \in DOMAIN execsToRemove[t] : execsToRemove[t][i] = e
  /\ \A t \in ThreadIDs, e \in ExecutorIDs :
       Listed(t, e) => executorMap[e] = t /\ e \notin deInitialised

\* m_nActive, kept by increments in three places and decrements in two, is
\* the number of active executors: the thread sleeps only when it has none.
ActiveCount ==
  \A t \in ThreadIDs : nActive[t] = Cardinality(Executing(t))

\* RunLoop "Returns when all threads are joinable" (ExecutionManager.h:268-269):
\* afterwards every thread ever created has handed itself over to be joined,
\* and the destructor does not abort.
AllJoinableAfterRunLoop ==
  mainPc \in {"returned", "aborted", "destroyed"} =>
    /\ mainPc # "aborted"
    /\ threadsToJoin = 0 .. nextThread - 1
    /\ \A t \in threadsToJoin : pc[t] = "done"

\* Locking up shop is final: afterwards no executor is accepted and no thread
\* is created, threads only leave.
LockIsFinal ==
  [][lockedShop => /\ lockedShop'
                   /\ nextExec' = nextExec
                   /\ threadMap' \subseteq threadMap]_vars

\* "Swap this with the last one, and update its entry"
\* (ExecutionManager.cpp:181): the index of every executor in the table leads
\* to it, which RemoveExecutor relies on again at line 194.
IndexesLeadToExecutors ==
  \A t \in ThreadIDs : \A i \in DOMAIN executors[t] :
    signalMap[t][executors[t][i].execId] = i

\* A doomed thread "is no longer associated with its name"
\* (ExecutionManager.h:262): its end does not take the name from the thread
\* that has it now, so a live thread is found under its name.
LiveThreadsKeepTheirName ==
  \A t \in threadMap :
    ~isDoomed[t] => threadNameMap[threadName[t]] = t

TerminationPosted(t) ==
  \E i \in DOMAIN instructionList[t] :
    instructionList[t][i] = SignalMessage(EXEC_WILDCARD, "RequestTermination")

\* LockShop(true) ends the program: once every thread has been asked to
\* terminate, all of them leave and RunLoop returns.
ShutdownCompletes ==
  (mainPc = "loop" /\ lockedShop /\ \A t \in threadMap : TerminationPosted(t))
    ~> (mainPc \in {"returned", "destroyed"})

\* A signal is a wakeup (ExecutionManager.cpp:138): a suspended executor that
\* is signalled runs again or leaves, whatever the signal races with.
SignalWakes ==
  \A t \in ThreadIDs, e \in ExecutorIDs :
    (/\ \E i \in Suspended(t) : executors[t][i].execId = e
     /\ \E i \in DOMAIN instructionList[t] :
          instructionList[t][i] = SignalMessage(e, "WakeUp"))
      ~> (\/ \E i \in Executing(t) : executors[t][i].execId = e
          \/ ~Listed(t, e))

\* "This ensures that a ""send to all"" signal really is sent to all"
\* (ExecutionManager.cpp:36-38): an executor on a thread that was sent the
\* termination signal receives it, unless it ends by itself.
TerminationReachesAll ==
  \A t \in ThreadIDs, e \in ExecutorIDs :
    (Listed(t, e) /\ TerminationPosted(t)) ~> (e \in termRequested \/ ~Listed(t, e))

\* The life of an executor as the service promises it: accepted once the
\* manager mapped it to a thread, running or suspended while it is in that
\* thread's table, ended once it was deinitialised.
PhaseOf(e) ==
  IF e \in deInitialised THEN "ended"
  ELSE IF \E t \in ThreadIDs : \E i \in Executing(t) : executors[t][i].execId = e
       THEN "running"
  ELSE IF \E t \in ThreadIDs : \E i \in Suspended(t) : executors[t][i].execId = e
       THEN "suspended"
  ELSE IF executorMap[e] # NoThread THEN "accepted" ELSE "unknown"

Service == INSTANCE ExecutorService WITH
             open <- ~lockedShop,
             phase <- [e \in ExecutorIDs |-> PhaseOf(e)]

\* The manager with its threads implements the service: no executor starts
\* after the shop closed unless it was accepted before, none starts twice, and
\* none comes back after its end, whatever the threads, the instruction lists
\* and the removals in two steps (RemoveExecutor, then RemoveExecutors) do.
ImplementsService == Service!ServiceSpec
=============================================================================
