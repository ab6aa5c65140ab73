# Verification of Holder

TLA+ modules, TLC configurations and TLAPS proofs for Holder, a C++17 framework
of services that run on named threads (`src/Holder`), with a small library of
task graphs (`src/AsyncTasks`). The reference is the code; where a comment or a
header promises something the code does not do, and a model shows it, section 4
quotes the sentence and names the configuration with which TLC finds the violation.
Where the code fails and nothing in the repository says otherwise, section 4 says so
without one.

## 1. The system

The code is work in progress: some of it does not compile as it stands, and some
headers are missing. A part is modelled where what it does is clear from its own
lines, and what had to be read into them is said in section 3.

| Part | State | Operations | Interacts with | What makes it correct |
|---|---|---|---|---|
| **Execution manager** (`ExecutionManager.{h,cpp}`) | maps of names, threads and executors, the lock on the shop; per thread an instruction list, a table of executors, an index into it, a count of active ones | AddExecutor, DoomThread, SignalExecutor, LockShop, RunLoop, destructor; the thread's loop | everything that runs: executors call back from its threads | maps lead to live threads; no accepted executor or signal is lost; shutdown ends and joins every thread |
| **Timer thread** (same files) | definitions by name and ID, a queue ordered by next beat, a message list | SetTimer, CancelTimer, the loop | callbacks of clients, doomed when the shop locks | a timer that is set beats; messages are read |
| **Startup task manager** (`StartupTaskManager.{h,cpp}`) | queue of actions; per name a task or dependents, per task state and dependencies both ways, a count of open tasks | DefineStartupTask, SetStartupDependencies, RunTask, CompleteTask, StartExecutor | execution manager (its thread, wake-ups), listeners (nested calls back) | tasks run after what they depend on, end once, failures are told, the executor ends when all is done |
| **Services, starter** (`BaseService.h`, `BaseStarter.cpp`) | startup task of a service, flags completed and failed under a mutex | OnCreated, OnTaskReady, OnDependencyFailed, OnReceiverReady, MarkReady, MarkFailed; AddService, Start | startup manager, dispatcher | service and manager agree; nobody goes on before what it depends on is up; every startup ends |
| **Message dispatcher** (`MessageDequeDispatcher`, `MQDExecutor`, `BaseMessageHandler.h`) | three queues (create, remove, messages), each with a local twin; the receivers and the handler's clients | SendMessage, CreateReceiver, RemoveReceiver, ProcessMessages | execution manager | order per sender, no lost wake-up, receivers and clients match |
| **Requests** (`BaseRequest*.h`, `RequestDeltas.h`) | state of a request at issuer and handler | issue, update, cancel, complete, time out, purge | dispatcher, timers | both sides agree; one end per request |
| **Client manager, its lock** (`SOClientManager.cpp`, `RWLockWrapper.h`) | services, their names in a tree, their clients; a shared mutex and a record per thread | AddMethod, AddService, RemoveService, CreateClient, FindService, SendMessage, DispatchMessageToProxy, OnProxyDestroyed | methods, proxies and queues, which call back | registry, queues and methods agree; a client in use stays |
| **Object tree, store** (`ObjectTree.h`, `PathLib.h`, `SharedObjectStore`) | tree of named nodes, objects by ID, tokens | add, remove, find | services, client manager | same as a map from paths |
| **Asynchronous tasks** (`AsyncTasks/`) | task graph, worker threads | build, execute, continue, join | - | topological order, every task runs once, it ends |
| **Data trees, serializers** (`DTSimple*`, `DTJsonSerializer.cpp`, `DTUtils.h`) | lists, dictionaries, elements; tokens | build, serialize, print, convert | - | the text spells the tree; the nearest value is read |

What is hard in it: nothing is tested in the repository; clients call from any
thread; the threads of the execution manager read their instructions only at
certain points; callbacks come back into the manager that is making them;
shutdown is a race of everyone with everyone; answers, timeouts and cancels
cross each other. `PROJECT.json` lists the hazards at their lines.

## 2. Modules

| Module | What it is |
|---|---|
| `ExecutionManager` | the manager, its clients and any number of executor threads |
| `ExecutorService` | the abstract promise about one executor; `ExecutionManager` implements it (`ImplementsService`) |
| `MCExecutionManager` | symmetry for TLC |
| `StartupTaskManager` | the startup task manager, its clients, and listeners on its thread |
| `Services` | starter and services on top of `StartupTaskManager`, whose clients and listeners they are |
| `MessageDispatcher` | dispatcher, the executor that runs it, the handler that listens |
| `TimerThread` | the timer thread and its callers |
| `Requests` | issuers and a handler of requests, over channels that keep order, with timeouts |
| `MCMessages` | the three modules before, each on its own, in one run |
| `ObjectTree` | tree, node IDs, paths and walks, as operators |
| `SharedObjectStore` | the store of objects, on `ObjectTree` |
| `ClientManager` | the registry of services and clients with its lock, on `ObjectTree` |
| `AsyncTasks` | graph builder, contexts and the thread pool |
| `DataTree` | building, serializing and printing of trees |
| `DataConvert` | reading an element as another type |
| `MCLibraries` | the five modules before (the tree within two of them), each on its own, in one run |
| `ExecutionManagerProofs`, `ExecutorServiceProofs` | theorems on the execution manager: threads, additions and the inside of a thread; counts, places and the refinement |
| `StartupProofs`, `ServicesProofs`, `RequestsProofs` | theorems on the components they are named after |
| `MessagesProofs` | theorems on the dispatcher with its handler, the timer thread, and on `MCMessages` as a whole |
| `DataTreeProofs` | theorems on data trees: the walk, the tokens and their printing |
| `LibrariesProofs` | theorems on conversions, task graphs and their pool, the client manager, the object store, and on `MCLibraries` as a whole |

`MCMessages` and `MCLibraries` compose parts that share no state: the variable
`part`, chosen at the start, says which moves, so a run is the sum of its parts
and not their product. `Requests` is written on top of what the other two parts
of its run show: its channels keep order because `MessageDispatcher` does
(`QueuedInOrder`), and its timeouts come twice because those of `TimerThread` do.

## 3. How the modules correspond to the code

### ExecutionManager

An action is one critical section of `m_mutex` or of a thread's
`m_mutexInstructions`, or one step of a thread's loop between them. Variables
keep the names of the members (`lockedShop` is `m_lockedShop`, and so on); maps
are functions into `NoThread`. The instruction list and `isDoomed` are the
mailbox of a thread. Its loop is in `pc`:

| `pc` | code (`ExecutionManager.cpp`) | actions |
|---|---|---|
| start | 8-20 | `Start` |
| top | 24-34 | `TakeInstructions`, or on to the round when neither waited nor flagged |
| round | 36-77 | `HandleInstruction` for each message, adds first, then `RunExecutor` for each active executor |
| remove | 79-87 | `RemoveExecutor` for each, then `RemoveExecutors` on the manager |
| idle, waiting | 89-105 | `GoIdle`, `WakeUp` |
| exit, done | 109-112 | `RemoveThread` |

`executors` is the vector, `signalMap` the index into it (0: no entry; the code
counts from 0, the model from 1). What the code does with an index past the end
of the vector, or with the end iterator of a map, is `crashed`: nothing is
claimed after it. Timed waits may always return, so notifications need no
action. What `Run` and `Init` return is up to the executor, except that an
executor asked to terminate returns End, as the two in the repository do.
Singleton threads, the exception thrown after an ID was used up, and the
automatic lock when the last thread leaves are modelled. Not modelled:
thread-local names, and AddExecutor with an empty name.

### TimerThread

Callers append to `messages` and notify; a notification moves a thread that
waits and is lost otherwise, as the waits have no predicate. The thread swaps the
messages (`SwapMessages`), applies them one by one, then either makes one
callback that is due or waits. `timerPriorities` holds what is left until each
beat, and `Tick` is the clock; `MaxLate` bounds how far the thread falls behind.
`recalibrate` is set on a new timer too, so that the first beat of a one-shot
timer puts it back: it fires twice (`ExecutionManager.cpp:415`). `m_threadDoomed`
is set by no constructor (`threadDoomed \in BOOLEAN` at the start), and the doom
of the thread notifies nobody.

### StartupTaskManager

Calls from other threads queue an action and signal the executor. One round of
`StartupTaskExecutor::Run` is `StartRound`, one handler per action, `EndRound`
(or `StopRound`). The handlers call each other through listeners:
`EvaluateDependencies` calls `OnDependencyFailed` in the middle of its loop, the
listener calls `CompleteTask`, which on this thread is handled at once and
evaluates the dependents. The variable `stack` is this call stack, with one
frame per loop in progress; each visit of an element, in any order (the sets are
unordered), is a step, because the state between two elements is what the
callbacks see. The reactions of listeners are constants: run the task at once,
complete it at once, or leave it for later; fail the task, do nothing, or update
the dependencies. `named`, `nameTask`, `nameDependents` are `m_taskNameMap`; the
functions on tasks are the fields of `TaskStateDesc_`. `requested` is history:
the names the task was last made to depend on. A name in the set passed to
`SetStartupDependencies` that is unknown is added to the name map and nowhere
else, as the code has it.

Other threads touch only the queue, which the startup thread reads between two
rounds, so their calls are taken where the stack is empty. Restart after a
termination request sets `m_running` and no more: the shop is locked then, and
the new executor never runs. Task results are left out.

### Services

The clients of the startup manager are made concrete: the starter creates the
services in any order (its map is unordered), each defines its task and sets its
dependencies in `OnCreated`; `OnTaskReady` creates the default receiver and runs
the task at once (it does so on the startup thread, `BaseService.h:181`, although
`MessageDequeDispatcher.h:187` asks for the dispatcher's own thread; the
dispatcher's queues are not part of this module, so what a race there would do is
not modelled); `OnReceiverReady`, `MarkReady` and `MarkFailed` are the
service's own thread under its mutex. The listener's reactions of the manager's
module are used as they are, with the one the flags choose. A second service
under a path replaces nothing: the duplicate check of `BaseStarter.cpp:80` looks
into the wrong map, but `emplace` leaves the first. Left out: `AddObject` into the
store (`SharedObjectStore`), the handling of the queue (`MessageDispatcher`), and
`Run`, which enters `RunLoop` (`ExecutionManager`).

### MessageDispatcher

`queue`, `createQueue`, `removeQueue` are the members, `local...` what `Run` has
taken. `TakeQueues` swaps all three in one critical section, the messages only
when none is left of those before; then creations, removals and messages are
acted on in that order, one a step, while senders post. A sender counts its
message before it locks (`CountMessage`, `PostMessage`). Between two runs the
execution manager reads signals (`HandleSignals`); a suspended executor sleeps
until one is there. A signal given before `StoreExecutorID` is ignored
(`MQDExecutor.cpp:47`); what was posted then is marked `early`, and nothing is
claimed of when it is read. `m_totalSize` is set by no constructor (`BaseSizes`).
`PostMessage` of the code moves a parameter that its declaration does not name,
and `CreateClient` and `DispatchToClient` of the handler need small corrections to
compile; what they mean is not in doubt.

### Requests

`requestMap` is an issuer's, `clientMaps` and `requestInfos` the handler's two
ways to look up a request. `incoming[c]` and `outgoing` are the queues of the
dispatchers. `Updated` is the `Updater` with its test `IsValid`. Three things are
as the code has them and not as their names say: `RequestCompleteDelta` keeps
nothing of its result (`RequestDeltas.h:27`), so `IsValid` refuses it and an issuer
never learns of a completion, although its listener has a call for it (run
`requests_completion`); `CancelRequest` at the issuer has its condition
upside down (`BaseRequestIssuer.h:58`), so only `PurgeRequest` and a timeout cancel;
`m_purgeOnCancelAck` is never set. `BaseRequestIssuer` is instantiated nowhere, so
the calls a service would make are made in every order. Identifiers that wrap
around are out of the bounds: `MaxRequests` is below the range of the counter.
`fate` is history: what became of a request at the handler.

### ObjectTree and SharedObjectStore

Every operation of the store holds its mutex throughout, so it is one step.
(`FindObject` shares the mutex and calls `GetObject`, which shares it again,
`SharedObjectStore.h:57` and `42`: undefined for a `shared_mutex`, and a thread that
waits to write in between may stop both. Neither is modelled: finding is an
operator.) A
node's ID is its index and a bit for values; `RemoveNode` passes the index where
the ID is wanted (`ObjectTree.h:447`), so the name of a removed object stays taken
and `FindObject` meets an ID of nothing. A walk that fails half way leaves the
dictionaries it made. Visitors, metadata and removal of dictionaries have no
caller and are left out. Indices that would reach the bit of the values are out of
the bounds: `AddObject` is not called with so many names that one could.

### ClientManager

`calls[t]` is a thread's stack of calls into the manager, the innermost first,
each with the wrapper of `RWLockWrapper.h` that it made: a call takes the mutex only
if `m_lockState` of its thread says that no call around it has. `Enter`, `Leave` and
`Throw` are the wrapper's constructor, destructor and exception. Methods, proxies
and queues are outside. A method may call back whenever it is called (`InMethod`:
`OnAdded`, `ConnectService`, `OnNewClient`, `SendMessage` and `OnClientDestroyed`, the last
also out of the loop of `RemoveService` and out of `OnProxyDestroyed`), with any
function for its use and by letting go of a proxy whose destructor calls
`OnProxyDestroyed`; `MaxDepth` bounds how deep.

The code lacks a `mutable`, a `return` and an output parameter. What it does do is
modelled:

* `FindService` returns the node's ID, not the service's (`SOClientManager.cpp:254`),
  so `CreateClient` of a name that is known follows the end iterator (`cmCrashed`) or
  meets the service that has the number of a dictionary.
* The destructor of an inner wrapper resets `m_lockState` (`RWLockWrapper.h:37`), so
  that a second call within the same call locks a mutex its thread holds. That is
  undefined: the thread waits for itself (`relocked`: it goes no further), or, if it
  only shares the mutex and wants no more, may be let in once more; then it keeps its
  share until the last wrapper that has one goes (`ShareLeft`).
* The loop of `RemoveService` goes on from the client it told the method of. If the
  method had that client or the service removed the iterator is one of nothing
  (`NextClient`, `cmCrashed`).
* A method that refuses its new client has `CreateClient` throw
  `ClientCreateException` with the receiver and the entry made (`RefuseClient`): the
  lock is let go and both stay. `BaseProxy`'s destructor says nothing to the manager;
  one that calls `OnProxyDestroyed`, before the exception leaves the call, is
  modelled too (`Within`).
* A call that has to write under one that reads throws through all calls
  (`ThrowWithin`), and ends the process where it would leave a destructor.
* `RemoveService` leaves the name in the tree.

An entry added to a map moves no entry that is there, and what `AddService` does to
the iterators of calls around it is taken as harmless: none of them goes on with one.

### AsyncTasks

The builder is used by one thread before the graph is executed; a context is one
`ExecuteGraph` with its copy of the graph. A thread of the pool is at `top`,
`checked` (the predicate was false, the mutex is held), `sleep`, `awake`, `run` or
`ended`. `Join` sets the flag and notifies without the mutex
(`AsyncExecutor.cpp:80`): a thread between `checked` and `sleep` notices neither and
is in `missed`. A task that asks to continue is tried once more in the same
round; after that the thread waits for new tasks although it has unfinished ones
(`AsyncExecutor.cpp:46`), so with `MaxContinues` of 2 `ExecuteGraph` need not return.
A task goes to a thread that has the least to do at that moment; the code reads the
loads one after the other (`AsyncExecutor.cpp:199`), so that it may choose one that
no longer has. No property depends on which thread it is.

### DataTree and DataConvert

A tree is built entry by entry, then one datum is serialized, one iteration of
`SerializeDataTree` a step with the token generator's callbacks inside, then
printed, one token a step. The text of a leaf is the leaf. A break and its
indentation stand for the layout. An empty list or dictionary with
`sameLineElements` false leaves an indentation behind, which `PrintedAsNested`
exempts. Strings are not escaped and 8-bit integers print as characters: no
property is about the characters of a token.

An integral type is a signedness and a greatest value, with `Cast` for what a
`static_cast` keeps; floating point numbers are their integral parts. The branch
of `DTUtils.h:225` from integers to floating point tests the opposite and is never
taken, so that conversion is refused. `DTUtils.h:144` negates the lowest number of a
type, which overflows for `int` and everything wider (`IntMax`): GCC and Clang refuse
that in a constant expression; where it is accepted (the repository has a Visual
Studio project) it wraps around, and `NegatedMin` is what the cast to `uint64_t`, a type
of `WideRange` numbers, makes of it. A floating point number outside the target's
range gives any value. `GetListValue` passes a pointer where a reference is
wanted (`DTUtils.h:442`), and is left out.

## 4. What is checked

Bounds are constants with `Max` in their names, or the sizes of sets. Runs stop
when clients have used up their calls, so `CHECK_DEADLOCK` is off: that nothing
hangs is said by the liveness properties.

| Run | Shows | Bounds and why they are enough |
|---|---|---|
| `exec_threads` | ownership, names, doom, joins, `m_nActive`, final lock | two names and two threads: a name changes hands, a thread leaves while another is created; two executors, together on a thread or each on its own, and mailboxes of two, so that an add posted after a signal is handled before it and a second signal finds the executor awake; `Init` may fail |
| `exec_service` | executor map and tables agree, no accepted executor is lost, `ExecutorService` is implemented, shutdown ends and no wake-up is lost, under `FairSpec` | every `Init` succeeds; two names, two threads and two executors, one per thread at a time (more meets the stale index), so that they follow each other on a thread and an add is posted to a thread whose only executor is ending, before and after it looks at its mailbox; LockShop is called twice; no symmetry, which liveness would not allow. More executors and threads: the theorems of section 5 |
| `startup_graph` | graph symmetric, nothing missed | two tasks, whose dependencies are each set twice, cycles, self-dependency, undefined names, all reactions, termination at any time |
| `services` | flags and tasks agree, nobody before its dependencies, count, no early end, no listener re-entered, every startup ends, under `ServicesFairSpec` | three services without cycle, created in any order that defines what is depended on first: chain, fork and triangle; one that completes by itself, two that say so or fail |
| `messages` | dispatcher: order, receivers, `m_totalSize`, no lost wake-up. Timers: one entry each, beats carry on. Requests: lookups and sides agree, no end taken back, what is given up is dropped | two senders of two messages, so that a queue is refilled while the local one is worked off; two receivers (the default one and a client's); one named timer besides anonymous ones and three calls: set, set again, cancel in any order; two issuers with a request each and timeouts that fire twice |
| `libraries` | graph and pool, store and paths, clients and lock, printing, conversions | two threads, three tasks and three edits (a cycle needs three tasks with two edges, or one edge to itself), one Continue; six paths that share dictionaries or run through each other's ends, four objects, so that a name is asked for again after a removal; two threads in the client manager, so that readers share and a writer waits, two services and a client each, three calls within each other, so that a method called by a nested call calls back (a fourth would find one of the same situations: what a call relies on is proved for any depth); three datums, three entries (nested, shared and empty compounds); signed integer types of which one is narrower than `int`, one is `int` and one wider, unsigned ones of 1 and 3 bits, booleans, and a float between them |

The runs that find a violation, each about a sentence of the repository:

| Run | Sentence | What happens |
|---|---|---|
| `exec_stale_index` | "Swap this with the last one, and update its entry" (`ExecutionManager.cpp:181`) | the entry updated is that of the executor removed |
| `exec_name_reuse` | a doomed thread "is no longer associated with its name" (`ExecutionManager.h:262`) | its end erases the name of its successor |
| `exec_starved` | "a 'send to all' signal really is sent to all" (`ExecutionManager.cpp:36`) | a busy thread never reads it |
| `startup_undefined` | "If there are undefined dependencies the ready-check should never come up true" (`StartupTaskManager.cpp:122`) | the first mention of a name is forgotten: a service created before one it depends on goes on without it |
| `startup_revived` | the executor goes on while it "has tasks not in Completed or Failed state" (`StartupTaskManager.cpp:41`) | a task that failed while it waited was counted off then; made ready again it is open, and the executor ends |
| `requests_completion` | a timeout is ignored "If the request is in completed or failed state" (`BaseRequestIssuer.h:39`), and a listener is told of completions (`IRequestResponse.h:70`) | the delta is empty (`RequestDeltas.h:27`), the update is refused, and the request stays issued until it times out |

Eight configurations more are kept beside the runs. Each has one property, which says
what a sentence of the repository says, and TLC finds it violated in about a
minute (`tlc -config <Configuration>.cfg <Module>`):

| Configuration | Module, property | Sentence | What happens |
|---|---|---|---|
| `ExecLostAdd` | `MCExecutionManager`, `NoAddLost` | "At this point there should be NO pending executors" (`ExecutionManager.cpp:109`) | an executor is posted to a thread whose first `Init` then fails |
| `ExecFailedInit` | `MCExecutionManager`, `ExecutorsLeadToThreads` | "a thread is not dead until all executors are removed" (`ExecutionManager.cpp:702`) | an executor whose `Init` failed stays in the map, and leads nowhere |
| `StartupCountedTwice` | `StartupTaskManager`, `EndsOnlyWhenResolved` | as for `startup_revived` | listeners that complete their task in `OnTaskReady`: b depends on a, and c on both. The nested loop has c complete, and then the outer one (`StartupTaskManager.cpp:315`) once more; its second end is counted for d, which is open |
| `StartupUpdated` | `StartupTaskManager`, `NoCrash` | "Mark the task failed or update the dependencies" (`StartupTaskManagerInterfaces.h:59`) | the update takes the set away from the loop that made the call (`StartupTaskManager.cpp:103`) |
| `ClientsRelock` | `MCLibraries`, `NeverLocksItselfOut` | `m_lockState` is "Used to prevent relocking when calling from outside" (`SOClientManager.h:99`); "The method will call back the object here" (`SOClientManager.cpp:74`) | the second call that a method makes locks what its thread holds (`RWLockWrapper.h:37`) |
| `ClientsRefused` | `MCLibraries`, `ClientsHaveProxies` | "A client represents a proxy object" (`SOClientManager.h:35`) | a client that its method refused stays, its proxy is gone (`SOClientManager.cpp:188`) |
| `StoreNameKept` | `MCLibraries`, `ChildrenExist` | "Remove from tree updating the parent directory" (`SharedObjectStore.cpp:78`) | the child stays, and its name is taken for good (`ObjectTree.h:447`) |
| `ConvertOverflow` | `DataConvert`, `NearestRead` | "Safe to run this in the compiler for two signed or unsigned types" (`DTUtils.h:134`) | the next comparison overflows: `int` read as a wider type is cut |

The passing runs are made so that these are out of the way, and say so: services
are created after those they depend on (`OnlyDefined`), clients fail tasks that
wait only in `startup_revived` (`FailAnyTime`), `Init` does not fail in `exec_service`,
and so on.

Other properties fail because of the same behaviours, or of behaviours about which
no sentence of the repository says anything. A constant turns them on, or a name
exempts them:

* `InitMayFail` in `exec_service`: besides the two above, also `ExecutorsAccountedFor` fails.
* The stale index and `ActiveCount`: with three or more executors on a thread at once
  a removal can drop a suspended executor for the one that ended and count it off
  (`ExecutionManager.cpp:187`), so that `m_nActive` is wrong. `exec_threads` has two
  executors in all, with which it cannot happen; a run with six executors, four on a
  thread, fails after 38 steps. `ActiveCountCorrect` says that there is no other cause.
* `"finish"` among `ReadyReactions`: the count of open tasks goes wrong as
  `StartupCountedTwice` shows, so that `WaitingCount` and `EndsOnlyWhenResolved` are
  checked in `services`, whose listeners do not do it, and the theorems `WaitingCorrect`
  and `EndsCorrect` exclude it. `startup_graph` has it, and claims neither.
* `MayRedefine` with `NoCrash`: the second definition of a name takes `value()` of
  an empty optional (`StartupTaskManager.cpp:145`).
* `FailAnyTime` in `services`: `MarkFailed` before the dependencies were handled is
  refused by the manager and remembered by the service (`BaseService.h:112`);
  `FlagsMatchTask` and `EventuallyEnds` fail.
* `early` in `PostedIsHandled`, `missed` in `JoinReturns`, `MaxContinues` of 1 in
  `ExecuteGraphReturns`, `timerPriorities # {}` in `BeatsCarryOn`: the lost
  notifications and the forgotten task of section 3. `BeatsCarryOn` speaks of the
  doom that notifies nobody only while some timer beats; without one the timer
  thread sleeps, and the destructor that joins it (`ExecutionManager.cpp:550`)
  waits for ever.
* `nestedEnded` in `LocksItselfOutOnlyAfterNested`: the lock that a thread takes
  from itself (`ClientsRelock`) has this one cause. `refused` in `RegistriesAgree`: a
  method has forgotten the clients that it refused, the registry has not
  (`ClientsRefused`).
* `NegationMisleads` in `CoercedToNearest`: the pairs of types of `ConvertOverflow`.
* Of a process that ended (`crashed`, `cmCrashed`) nothing is claimed.
* `FoundUntilRemoval`: what a path leads to is claimed until the first removal, and
  after it only that it is never another object.

### Fairness

Everywhere: the operating system schedules every thread (weak fairness of each
thread's step), and nothing obliges a client to call.

* `ExecutionManager!FairSpec` adds that an executor does not return Continue for
  ever (strong fairness of its Suspend or End): `MQDExecutor` continues only while
  it has messages, the startup executor never does. `SchedulerSpec` is without it,
  for what the code does when it fails.
* `ServicesFairSpec`: the starter goes on, the startup thread and the wake-up it
  was sent take their steps, and a service whose receiver is ready says in the end
  that it is ready or failed, even if the bounded queue is full now and then
  (strong fairness).
* `DispatcherFairness`: the execution manager runs an active executor and reads its
  signals (`exec_service`), and a thread inside a call returns from it.
* `TimerFairness`: the clock goes on as well.
* `RequestsFairness`: the handler's dispatching thread handles what is queued. No
  issuer has to read its answers, no timer to fire, no service to complete, purge
  or issue.
* `AsyncFairness`: contexts and threads of the pool; every call of a task returns.

### Mutants

Each property of a passing run is paired with a fault of the code that it
catches: operators marked `Fault:` stand before the definition they would
replace, such as a guard that is dropped or a map that is not updated.

## 5. What is proved

`ExecutionManagerProofs`, for every number of threads, names, executors,
instructions and calls, from `ConstantsAssumption` alone (the reserved ID is at
least 2, the range of the counter exceeds the number of IDs, there is a name):

* `TypeCorrect`: `Spec => []TypeOK`. The work is in the executor table: a list
  from which one item is taken, a table after the swap-and-pop, and the modular
  count stay in their types (`WithoutItem`, `UnlistType`, `SignalIndexesType`,
  `PlusType`, `MinusType`).
* `OwnershipCorrect`: the inductive invariant `OwnershipInv`. The properties alone
  are not inductive: a new thread takes over its name undoomed only because no
  thread is doomed before it exists, `threadMap` and `threadsToJoin` have to be
  exactly the threads created and to agree with `pc`, and the states after
  RunLoop need the shop to be locked and empty. Every step is first shown to be
  either quiet (it leaves ownership alone and moves `pc` among the labels of a
  thread that runs) or one of six that are treated one by one (`StepKinds`).
* `ThreadsCorrect`, `DoomCorrect`, `NamesCorrect`, `RunLoopCorrect`: its
  consequences, the invariants of run `exec_threads`.
* `LockFinal`: the action property `LockIsFinal`.

The same module then follows an executor from the manager's map to its thread:

* `AddsCorrect`, from the same assumption, and `AddsNeverLost`: `Spec => []NoAddLost`
  where every `Init` succeeds (`~InitMayFail`; `ExecLostAdd` shows why).
  `AddsInv` says which executors of the map a thread has still to add: their
  message is in the mailbox or among the instructions taken, once, and names the
  thread the map names; the others are listed in a table, or on their way out of
  it. `NoAddLost` alone says nothing of what `TakeInstructions` swaps out. `Served` adds
  what a thread that left has: its first executor was initialized, so that it left
  through the loop, with nothing in its mailbox.

`ExecutorServiceProofs` shows what one executor is promised. The index a thread
keeps into its table goes stale (`exec_stale_index`), and then a removal takes the
wrong executor; so these results assume `IndexesDoNotMislead`: an index that lies
inside the table is that of the executor it is looked up for. The assumption is on
behaviours (`Spec /\ []IndexesDoNotMislead => ...`), and for one executor per
thread at a time (`MaxPerThread = 1`) it is itself a theorem
(`SingleIndexesCorrect`: the swap is then of an item with itself), so that each
result has a second form from assumptions on constants alone.

* `BatchesCorrect`: what a thread still has to run, remove or unmap in a round are
  executors of its own, each once (`SteadyInv`, with one `AccountInv` per thread:
  every executor of the table is either active and counted, suspended, or ended and
  in exactly one of the lists that remove it).
* `ActiveCountCorrect`, `SingleActiveCount`: `m_nActive`.
* `ExecutorsFound`, `ExecutorsOnThreads`, `SingleExecutorsFound`: the map of the
  manager and the tables of the threads agree, where `Init` does not fail
  (`~InitMayFail`; section 4 says why it must not).
* `ServiceImplemented`, `SingleServiceImplemented`: the refinement. Each action of
  the manager is shown to move the phase of at most one executor, along an edge of
  `ExecutorService` (`ServiceMoves`); that `RemoveThread` ends what its table holds
  needs `SteadyInv`.

`StartupProofs`, for any names and any number of tasks, calls and callbacks within
callbacks, from `ConstantsAssumption` (tasks are numbered, the counter's range
exceeds their number):

* `StartupCorrect`: the invariant `StartupInv`. `CallsInv` knows where a queued call
  comes from (its task was numbered before; a definition is of a task that does not
  exist yet). `GraphInv` adds to `GraphSymmetric` that only tasks that exist have
  dependencies or dependents, and that a name leads to the task defined under it.
  `FramesInv` relates each loop on the call stack to the graph: what it has still to
  visit is a subset of the task's present dependencies or dependents, so that no
  nested call changes a set that is being walked unless it ends the process.
  Steps are sorted first (`StepKinds`): an iteration of a loop with one of seven
  outcomes, a handler, or a step that leaves the tasks alone.
* `StartupTypeCorrect`, `GraphCorrect`: its consequences.
* `MissedCorrect`: `Spec => []NothingMissed`. Between two actions a waiting task has
  been told of every failure and waits for something. Inside the nesting this is
  not true, and `MissedInv` says what is then remembered where: a failure not yet
  reported is on the way in some frame, or the evaluation that will see it is
  (`ToBeTold`, `ToBeSeen`, `ToBeCounted`).
* `CrashFree`: no exception and no iterator of a changed set, if no name is defined
  twice and no listener updates dependencies when one failed. The two hypotheses are
  the two behaviours of section 4, so nothing else ends the process.
* `WaitingCorrect`, `EndsCorrect`: the count, and that the executor ends by itself
  only when all is done, unless listeners complete a task inside `OnTaskReady` or
  clients give tasks up out of turn (section 4 again: both do break the count).
  `SettledInv` carries the argument: a task that is settled is in no frame that could
  settle it again, and no call that could is queued.
* `ReentranceCorrect`: without cycles (`Acyclic`) the tasks in the frames of the call
  stack are in the order of the dependencies, so that no listener is called back
  inside its own `OnDependencyFailed`, where `BaseService` holds its mutex.

`ServicesProofs`, for any number of services, from `ConstantsAssumption` and what
`BaseService` and `BaseStarter` make of the manager (`ServicesUse`): a listener runs its
task at once in `OnTaskReady`, in `OnDependencyFailed` it fails it or does nothing, and
no service fails before its task runs. Run `services` has the same values.

* `ServicesAreClients`: `ServicesSpec => Spec`. Every step of a service or the starter is
  one that the manager's specification allows its clients and listeners
  (`ServicesStep`), for which `ServicesInv` is needed: that a service calls `MarkReady` or
  `MarkFailed` only while its task runs rests on what its flags say of the task.
* `ManagerWithServices`: therefore all that `StartupProofs` shows of the manager holds
  with services on top; the hypotheses it makes about listeners are among the above.
* `FlagsCorrect`: `ServicesSpec => []FlagsMatchTask`. `ServicesInv` is inductive: a service
  has a receiver only when its task runs or ran with all it depends on complete
  (`ServiceOf`), and a queued end of a startup is the one its flags tell of (`EndOf`).
* `ServicesNeverCrash`: one of the two ways to end the process needs a name that is
  defined twice (`DefinesNew`), and the starter's loop defines each service once
  (`StarterInv`); the other needs a listener that services are not.
* `ReceiversCorrect`: `ServicesSpec => []ReceiverAfterDependencies`, where what a service
  depends on is defined before it asks for it (`OnlyDefined`). `BaseStarter` creates services
  in the order of an unordered map and does not see to that: `startup_undefined` shows what
  happens otherwise. `NamesInv` relates the names a service
  asked for to the tasks the manager found under them, whichever was created first.

`RequestsProofs`, for any issuers, any number of requests of each, and timers that
fire any number of times, from `RequestsAssumption` (there is at least one request
identifier). The queues are unbounded here:

* `RequestsTypeCorrect`: `RequestsSpec => []RequestsTypeOK`.
* `LookupsCorrect`, `SidesCorrect`, `NotTakenBack`: the invariants `LookupsAgree` and
  `SidesAgree` and the action property `NeverTakenBack` of run `messages`. None of
  them is inductive, because what the two sides know of each other is in the
  queues between them. `RequestsInv` adds what is on its way: a request that
  travels to the handler is unknown there, travels only once, and if its issuer
  has given it up a cancel follows it (`IssuesInv`); what was not issued is known to
  nobody (`FreshInv`); a request the handler works on is waited for, or a cancel is
  on its way (`InfosInv`); what travels back acknowledges only what was cancelled
  (`AnswersInv`). Each action has its lemma (`IssueKeeps`, `TimeoutKeeps`, ...), on two
  about the queue: a message is added behind what is known of the others
  (`GivingUpKeeps`), and the first one is taken (`TakingKeeps`). `SidesCorrect` then says
  that with empty queues no cancel can be on its way.

`MessagesProofs`, for any senders, receivers, clients, timer names and calls, from
`DispatcherAssumption`, `TimerAssumption` and `RequestsAssumption`. Here too queues have any length:

* `TotalSizeCorrect`: the types of the dispatcher, and that `m_totalSize` is what waits
  and what is about to be posted. A sender counts before it locks, so the set of
  senders in between is part of the count (`CountsInv`; that it is finite is part
  of the invariant, as nothing says that there are finitely many senders).
* `DeliveryCorrect`: `DeliveredInOrder`. `OrderInv` speaks of the local queue followed by
  the shared one: sender by sender these are the numbers from the first that is not
  handled to the last that was posted, increasing. The swap of the queues leaves
  this alone because the local one is empty then. That nothing is lost needs
  `ReceiversInv`: what has been taken was queued after the creations it needs, so
  a receiver to which a message is taken is not still in `createQueue` (`TakenInv`).
  `AwakeInv` is about sleep: as long as an executor runs or sleeps and has no signal,
  what is in the three queues was posted before its ID was stored.
* `ReceiversCorrect`: also from `ReceiversInv`, in which every number that was given out
  is held by the handler or was removed (`GivenInv`), and no two clients have the same
  receiver (`ClientsInv`).
* `TimersCorrect`: `OneEntryPerTimer`. `EntriesInv` adds that an index is given out once:
  all are below `nextTimerIndex`, no two definitions and no two entries of the queue
  share one, through setting, both ways to cancel, and beats that put their entry
  back. An entry may outlive its definition until its beat. `IndexesInv` bounds the
  index by the calls made, of which some still wait.
* `PartsAsSpecified`, `MessagesCorrect`: in `MCMessages` each part implements its own
  specification, so that all six invariants of the run follow, those of `RequestsProofs`
  included.

`DataTreeProofs`, for trees of any size and shape with any keys and any shared parts, from
`DataTreeAssumption` (there can be a datum; the mark of an entry without a key is no key):

* `DataTypeCorrect`: `DataSpec => []DataTypeOK`. `DataInv` says that an entry was made
  before what it is in, so that no tree has a cycle; that every level of the walk stands at
  a datum; and that what is open in the generator and in the printer are tokens, which
  are only ever added (`After`).
* `WalkInvariant`: what the serialization has done at any moment, in three parts. Of the
  tokens alone, `Brackets`: openers and closers know each other and are nested, an
  opener is flagged exactly if something that is not empty opens directly in it, and no
  separator comes before a closer. Of the generator, `Opened`: what is on its stack is
  what is open, from the outermost to the innermost. Of the walk, `Walking`: its stack is a chain
  from the root to the datum it stands at (`Chain`), the levels that have begun are what
  is open (`OpenersOf`), and the texts of the tokens are those that come before each
  level followed by those of the entries it has done (`TextsOf`). That the tokens spell the
  root is not inductive, since it says nothing of a walk that is half done.
  The flag is the subtle part: it is set on the compound around when a compound
  with entries is opened, and must stay right when the inner one is closed
  (`EmptyCompound`, `FullCompound`, `ClosedCompound`).
* The reference `Spelled` is a recursive function, of which nothing is known until a
  function with its equation is shown to exist: `SpelledEach`, by an induction over
  the datums (`AllUpTo`), since the text of a datum is made of those created before
  it. `SpelledLeaf` and `SpelledCompound` then give its values.
* `PrintInvariant`: the printer's stack is the set of the compounds around the token
  it is at (`Stacked`), its indentation the number of those whose elements are on lines of
  their own (`Shown`), and every break made so far is indented by the compounds that are open
  there (`Nested`). The two sets differ in the middle of a line; where a line
  begins they are the same, because what is around a compound with compounds in it is
  flagged itself (`AllShown`). `LaidOut` goes through the kinds of tokens: nothing is out of
  place, so that no exception is thrown, and a token changes the indentation
  exactly as it changes `Shown`. That holds where an empty compound does not
  indent (`Regular`), which is the hypothesis `PrintedAsNested` makes.
* `TreesPrinted`: `DataSpec => [](TokensSpellTree /\ PrintedAsNested)`.

`LibrariesProofs`, one part after the other, each from the assumption of its own module
alone.

Conversions, for any set of integer types of any width, from `DataConvertAssumption`
(the greatest values are numbers, and a signed type has no more numbers than
`uint64_t`):

* `ConvertCorrect`: `ConvertSpec => []CoercedToNearest`, so for every pair of types
  but signed ones of which the narrower is at least as wide as `int`. The argument follows the
  branches of `ConvertValue`: the limits of the narrower type are numbers of the
  wider one, so that the cast before a comparison does not bend the limit
  (`CutAboveNearest`, `CutBothEndsNearest`, `ConvertIntegralNearest`). The
  invariant `ConvertInv` remembers of the last read that it was one of these.
* `ConvertTypeCorrect`: what is read as a type is a value of that type.

Task graphs and the pool, for any graphs, contexts and threads, and tasks that ask to
continue any number of times, from `AsyncAssumption` (there is a thread, and there can
be a task):

* `BuilderCorrect`: `BuilderSymmetric`, through added edges and cleared dependencies.
* `RunsOnceCorrect`: a task runs after all it depends on, and once. A task that was
  released is passed from queue to queue: from the list of its context to a thread,
  through the thread's own lists, and back through the completion queue. `PlacesInv`
  says that no two of these queues share a task, and that it has not run in
  the first ones and has in the others; `CountsOf` that a count of the context is that of the
  dependencies whose completion it has not handled, so that a task is released when the
  last one is; `PendingOf` what `pendingTasks` counts.
* `ResultCorrect`: `ResultTellsCycle`. No task of a set whose members each wait for
  another one of it completes (`CyclesOf`); the other way round, what is left when
  nothing is pending is such a set.

The client manager, for any threads, services, clients and calls within calls, from
`ClientManagerAssumption`:

* `ClientManagerTypeCorrect`, `RegistriesCorrect`, `UsedClientsCorrect`,
  `LockedOutCorrect`, for stacks of calls of any depth. `CMInv` knows of a stack
  (`Busy`): its outermost call has the mutex, shared (`ReadsIn`) or alone (`WritesIn`). All
  calls of a thread that shares it read, since one that would write throws, unless
  one of them has ended and the next locks the thread out, so that it goes no further.
  In a thread that writes, the calls around the innermost one are at steps at
  which a method is called and which look at nothing afterwards that could have changed
  (`Waits`), or at the iterator that `NextClient` checks. So no step has to know what
  the calls within did. `RegistryInv` says how far queues and methods lag behind the
  registry while a thread writes: by the clients that the loops of its `RemoveService`
  calls are done with (`ToldOf`), and for the methods by those they refused.

The object store, for paths of any length and any number of objects and names, from
`TreeAssumption` and `StoreAssumption` (strings are sequences of characters; the bit
that marks values lies above every identifier):

* `StoreInvariant`: `StoreInv` is inductive. `PathsInv`: the nodes can be labelled with
  paths such that a child's label is its parent's and its own name, which gives every
  node one path and no two nodes the same. `ObjectsInv`: objects, tokens and the values of
  the tree are the same set under three keys. `LinksInv`: until a removal each object is
  where its path leads.
* `NodesCorrect`, `FindsCorrect`, `FoundCorrect`, `StoreTypeCorrect`: its consequences. An
  addition that succeeds adds one value at the end of its path, one that fails adds
  dictionaries at most, and neither takes a link away (`PathAdded`); a removal leaves a
  child that leads nowhere. The walks along a path are recursive functions; what
  they return is shown for every path by an induction over the steps (`AllUpTo`, in `DataTreeProofs`), which is
  itself proved from the library's pigeonhole principle, as the library's theorems on
  induction cannot be instantiated here.

All of them together:

* `LibrariesAsSpecified`: in `MCLibraries` each part implements its own specification.
* `GraphsRunRight`, `PathsCorrect`, `ClientsCorrect`, `TreesCorrect`,
  `LibrariesTypeCorrect`: therefore all invariants of run `libraries` hold for all constants.

So every invariant and every action property of the passing runs is a theorem, some of
them under hypotheses that the run's constants meet too and that are named above. Only
model-checked is what is out of the prover's reach: everything about liveness
(`EventuallyEnds`, `PostedIsHandled`, `BeatsCarryOn`, `GivenUpIsDropped`, `PoolFinishes`,
`ShutdownCompletes`, `SignalWakes`), which needs fairness and `ENABLED`. The
properties of the runs that expect a violation are false of the code.

## 6. Plan

What was planned is done. What could follow is a model of the parts of section 7 that are
not code yet, as they are completed.

## 7. What is not modelled and why

* *Service communication* (`BaseServiceComm*`): an earlier form of the request
  layer. Most of the service side is declared and never defined, and
  `CreateSubscription` declares its parameter again and returns nothing.
* *Service objects and proxies* (`BaseServiceObject.h`, `BaseProxy.h`): they name
  `IProxy.h` and types that do not exist; `SOServiceManager` is a stub. What the
  client manager does with proxies is in `ClientManager`.
* *Shared object locks* (`SharedObjects.cpp`): the header it implements is missing.
  *Spin mutex* (`MiniSpinMutex.h`): nothing uses it.
* *Copies under `HolderComponents`*: they repeat the object tree and the paths;
  `IDStore.h` beside them does not compile.
* *Factories and type tags*: registration at static initialisation and templates
  over types, without behaviour over time.
* *Network, publishing, samples*: interfaces without implementation, and examples.
* Within modelled parts: thread-local names of the execution manager, task
  results, the dispatch table of a handler by type tag, tree operations without a
  caller, `GetListValue`, the characters of JSON tokens, and logging.
