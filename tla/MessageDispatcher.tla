-------------------------- MODULE MessageDispatcher --------------------------
(***************************************************************************)
(* A message dispatcher run as an executor (MessageDequeDispatcher,        *)
(* MQDExecutor) and the one message handler that listens to it             *)
(* (BaseMessageHandler): its default receiver and a receiver per client.   *)
(*                                                                         *)
(* Senders post from any thread.  Receivers are created by the thread that *)
(* builds the handler before the executor is added, and afterwards only on *)
(* the dispatching thread, as MessageDequeDispatcher.h demands.  The       *)
(* execution manager is seen through what ExecutionManager shows of it: an *)
(* executor starts active, signals wait in a list that is read between two *)
(* runs, every signal is also a wake-up.                                   *)
(***************************************************************************)
EXTENDS Integers, Sequences, FiniteSets

CONSTANTS
  Senders,      \* threads that send messages
  MaxSends,     \* messages a sender posts
  MaxReceivers, \* receivers ever created
  BaseSizes     \* contents of m_totalSize, which no constructor sets

ASSUME DispatcherAssumption ==
  /\ MaxSends \in Nat \ {0} /\ MaxReceivers \in Nat \ {0}
  /\ BaseSizes \subseteq Nat /\ BaseSizes # {}

ReceiverIDs == 0 .. MaxReceivers - 1
NoReceiver == -1
ClientIDs == 1 .. MaxReceivers   \* dispatch IDs of clients, m_freeClientID first
NoDispatch == -1

VARIABLES
  \* MessageDequeDispatcher
  queue, createQueue, removeQueue, localQueue, localCreateQueue,
  localRemoveQueue, totalSize, freeRcvId, receiverMap,
  \* BaseMessageHandler
  defaultReceiver, clientMap, freeClientID,
  \* MQDExecutor and its entry in the execution manager
  myExecutor, tag, signals, endRequested, pcRun,
  \* the senders, and what the properties remember
  pcSend, posted, handled, removed, baseSize

dispVars == <<queue, createQueue, removeQueue, localQueue, localCreateQueue,
              localRemoveQueue, totalSize, freeRcvId, receiverMap>>
handlerVars == <<defaultReceiver, clientMap, freeClientID>>
execVars == <<myExecutor, tag, signals, endRequested, pcRun>>
histVars == <<pcSend, posted, handled, removed, baseSize>>
dispatcherVars == <<dispVars, handlerVars, execVars, histVars>>

Message(s, r) ==
  [from |-> s, n |-> posted[s] + 1, to |-> r, early |-> myExecutor # "stored"]
Creation(r, d) == [id |-> r, dispatch |-> d, early |-> myExecutor # "stored"]
Removal(r) == [id |-> r, early |-> myExecutor # "stored"]

DispatcherInit ==
  /\ queue = <<>> /\ createQueue = <<>> /\ removeQueue = <<>>
  /\ localQueue = <<>> /\ localCreateQueue = <<>> /\ localRemoveQueue = <<>>
  /\ baseSize \in BaseSizes /\ totalSize = baseSize
  /\ freeRcvId = 0
  /\ receiverMap = [r \in ReceiverIDs |-> NoDispatch]
  /\ defaultReceiver = NoReceiver
  /\ clientMap = [d \in ClientIDs |-> NoReceiver]
  /\ freeClientID = 1
  /\ myExecutor = "none" /\ tag = "none" /\ signals = {}
  /\ endRequested = FALSE /\ pcRun = "idle"
  /\ pcSend = [s \in Senders |-> NoReceiver]
  /\ posted = [s \in Senders |-> 0] /\ handled = [s \in Senders |-> 0]
  /\ removed = {}

-----------------------------------------------------------------------------
(* Posting: under m_mutexQueue, with the signal inside the lock            *)

\* Fault: no signal is given.
NeverSignalled == signals
\* MQDExecutor::DoSignal: the manager knows no executor by the reserved ID.
DoSignal == IF myExecutor = "stored" /\ tag # "gone"
            THEN signals \cup {"WakeUp"} ELSE signals

\* Fault: the newest message is put where the oldest is taken.
PushBack(m, q) == <<m>> \o q
\* push_front, as seen by a reader that takes from the back.
PushFront(m, q) == Append(q, m)

\* The handler's thread creates a receiver.
CreateReceiver(d) ==
  /\ freeRcvId < MaxReceivers
  /\ freeRcvId' = freeRcvId + 1
  /\ createQueue' = PushFront(Creation(freeRcvId, d), createQueue)

\* The receiver's number is known once CreateReceiver has returned.
CreateDefaultReceiver ==
  /\ myExecutor = "none"
  /\ defaultReceiver = NoReceiver
  /\ CreateReceiver(0)
  /\ defaultReceiver' = freeRcvId
  /\ signals' = DoSignal
  /\ UNCHANGED <<queue, removeQueue, localQueue, localCreateQueue,
                 localRemoveQueue, totalSize, receiverMap, clientMap,
                 freeClientID, myExecutor, tag, endRequested, pcRun, histVars>>

\* Fault: the message is not counted.
NotCounted == totalSize
OneMore == totalSize + 1

\* SendMessage counts the message before it takes the lock.
CountMessage(s, r) ==
  /\ pcSend[s] = NoReceiver /\ posted[s] < MaxSends
  /\ r < freeRcvId
  /\ pcSend' = [pcSend EXCEPT ![s] = r]
  /\ totalSize' = OneMore
  /\ UNCHANGED <<queue, createQueue, removeQueue, localQueue,
                 localCreateQueue, localRemoveQueue, freeRcvId, receiverMap,
                 handlerVars, execVars, posted, handled, removed, baseSize>>

PostMessage(s) ==
  /\ pcSend[s] # NoReceiver
  /\ queue' = PushFront(Message(s, pcSend[s]), queue)
  /\ signals' = DoSignal
  /\ pcSend' = [pcSend EXCEPT ![s] = NoReceiver]
  /\ posted' = [posted EXCEPT ![s] = @ + 1]
  /\ UNCHANGED <<createQueue, removeQueue, localQueue, localCreateQueue,
                 localRemoveQueue, totalSize, freeRcvId, receiverMap,
                 handlerVars, myExecutor, tag, endRequested, pcRun, handled,
                 removed, baseSize>>

-----------------------------------------------------------------------------
(* The executor in its manager                                             *)

\* InitExecutor: the executor may run before its ID is stored.
InitExecutor ==
  /\ myExecutor = "none"
  /\ myExecutor' = "added" /\ tag' = "executing"
  /\ UNCHANGED <<dispVars, handlerVars, signals, endRequested, pcRun, histVars>>

StoreExecutorID ==
  /\ myExecutor = "added" /\ myExecutor' = "stored"
  /\ UNCHANGED <<dispVars, handlerVars, tag, signals, endRequested, pcRun,
                 histVars>>

RequestTermination ==
  /\ tag \in {"executing", "suspended"}
  /\ ~endRequested
  /\ signals' = signals \cup {"RequestTermination"}
  /\ UNCHANGED <<dispVars, handlerVars, myExecutor, tag, endRequested, pcRun,
                 histVars>>

\* Read between two runs; TerminationRequested only sets a flag.
HandleSignals ==
  /\ pcRun = "idle" /\ tag \in {"executing", "suspended"}
  /\ signals # {}
  /\ endRequested' = (endRequested \/ "RequestTermination" \in signals)
  /\ tag' = "executing"
  /\ signals' = {}
  /\ UNCHANGED <<dispVars, handlerVars, myExecutor, pcRun, histVars>>

-----------------------------------------------------------------------------
(* MQDExecutor::Run and ProcessMessages                                    *)

\* The three queues are taken in one critical section, the messages only
\* once those taken before are all handled.
TakeQueues ==
  /\ pcRun = "idle" /\ tag = "executing"
  /\ pcRun' = "work"
  /\ IF localQueue = <<>> THEN localQueue' = queue /\ queue' = <<>>
     ELSE UNCHANGED <<queue, localQueue>>
  /\ localCreateQueue' = createQueue /\ createQueue' = localCreateQueue
  /\ localRemoveQueue' = removeQueue /\ removeQueue' = localRemoveQueue
  /\ UNCHANGED <<totalSize, freeRcvId, receiverMap, handlerVars, myExecutor,
                 tag, signals, endRequested, histVars>>

\* MQDCreateReceiverEnvelope::Act; OnReceiverReady does nothing to the state.
ActOnCreation ==
  /\ pcRun = "work"
  /\ localCreateQueue # <<>>
  /\ receiverMap' = [receiverMap EXCEPT ![Head(localCreateQueue).id] =
                       Head(localCreateQueue).dispatch]
  /\ localCreateQueue' = Tail(localCreateQueue)
  /\ UNCHANGED <<queue, createQueue, removeQueue, localQueue,
                 localRemoveQueue, totalSize, freeRcvId, handlerVars,
                 execVars, histVars>>

CreationsDone == localCreateQueue = <<>>

ActOnRemoval ==
  /\ pcRun = "work"
  /\ CreationsDone
  /\ localRemoveQueue # <<>>
  /\ receiverMap' = [receiverMap EXCEPT ![Head(localRemoveQueue).id] = NoDispatch]
  /\ localRemoveQueue' = Tail(localRemoveQueue)
  /\ UNCHANGED <<queue, createQueue, removeQueue, localQueue,
                 localCreateQueue, totalSize, freeRcvId, handlerVars,
                 execVars, histVars>>

\* A handler lets a message pass,
LetPass == UNCHANGED <<createQueue, removeQueue, freeRcvId, handlerVars,
                       signals, removed>>

\* or takes a new client, whose constructor creates its receiver,
CreateClient ==
  /\ CreateReceiver(freeClientID)
  /\ clientMap' = [clientMap EXCEPT ![freeClientID] = freeRcvId]
  /\ freeClientID' = freeClientID + 1
  /\ signals' = DoSignal
  /\ UNCHANGED <<removeQueue, defaultReceiver, removed>>

\* Fault: the entry of the client is left in the map.
ForgotClient(d) == clientMap
WithoutClient(d) == [clientMap EXCEPT ![d] = NoReceiver]

\* or removes one, whose destructor removes its receiver.
RemoveClient(d) ==
  /\ clientMap[d] # NoReceiver
  /\ removeQueue' = PushFront(Removal(clientMap[d]), removeQueue)
  /\ removed' = removed \cup {clientMap[d]}
  /\ clientMap' = WithoutClient(d)
  /\ signals' = DoSignal
  /\ UNCHANGED <<createQueue, freeRcvId, defaultReceiver, freeClientID>>

\* The messages of clients that are gone end in OnUnknownClient.
Known(d) == d # 0 => clientMap[d] # NoReceiver

ReceiversSettled == localCreateQueue = <<>> /\ localRemoveQueue = <<>>

\* MQDMessageEnvelope::Act, then the message is popped and counted off.  A
\* message whose receiver is not on the map is lost without a trace.
ActOnMessage ==
  LET m == Head(localQueue) IN
  /\ pcRun = "work"
  /\ ReceiversSettled
  /\ localQueue # <<>>
  /\ localQueue' = Tail(localQueue)
  /\ totalSize' = totalSize - 1
  /\ handled' = [handled EXCEPT ![m.from] = @ + 1]
  /\ \/ LetPass
     \/ /\ receiverMap[m.to] # NoDispatch /\ Known(receiverMap[m.to])
        /\ CreateClient \/ \E d \in ClientIDs : RemoveClient(d)
  /\ UNCHANGED <<queue, localCreateQueue, localRemoveQueue, receiverMap,
                 myExecutor, tag, endRequested, pcRun, pcSend, posted,
                 baseSize>>

\* End leaves what is queued; messages counted but not posted keep it awake.
AfterRun ==
  IF endRequested THEN "gone"
  ELSE IF totalSize > 0 THEN "executing" ELSE "suspended"

EndRun ==
  /\ pcRun = "work"
  /\ localCreateQueue = <<>> /\ localRemoveQueue = <<>> /\ localQueue = <<>>
  /\ tag' = AfterRun
  /\ pcRun' = "idle"
  /\ UNCHANGED <<dispVars, handlerVars, myExecutor, signals, endRequested,
                 histVars>>

Dispatch ==
  \/ HandleSignals \/ TakeQueues \/ ActOnCreation \/ ActOnRemoval
  \/ ActOnMessage \/ EndRun

DispatcherNext ==
  \/ CreateDefaultReceiver \/ InitExecutor \/ StoreExecutorID
  \/ RequestTermination
  \/ \E s \in Senders : PostMessage(s) \/ \E r \in ReceiverIDs : CountMessage(s, r)
  \/ Dispatch

\* Threads that are inside a call return from it, and the execution manager
\* runs an active executor and reads its instructions.
DispatcherFairness ==
  /\ WF_dispatcherVars(Dispatch)
  /\ WF_dispatcherVars(StoreExecutorID)
  /\ \A s \in Senders : WF_dispatcherVars(PostMessage(s))

DispatcherSpec == DispatcherInit /\ [][DispatcherNext]_dispatcherVars

-----------------------------------------------------------------------------
(* Properties                                                              *)

\* Types; one invariant for the module.
DispatcherTypeOK ==
  /\ \A i \in DOMAIN queue : queue[i].from \in Senders /\ queue[i].to \in ReceiverIDs
  /\ totalSize \in Nat
  /\ freeRcvId \in 0 .. MaxReceivers
  /\ receiverMap \in [ReceiverIDs -> {NoDispatch, 0} \cup ClientIDs]
  /\ defaultReceiver \in ReceiverIDs \cup {NoReceiver}
  /\ clientMap \in [ClientIDs -> ReceiverIDs \cup {NoReceiver}]
  /\ tag \in {"none", "executing", "suspended", "gone"}
  /\ signals \subseteq {"WakeUp", "RequestTermination"}
  /\ pcSend \in [Senders -> ReceiverIDs \cup {NoReceiver}]

\* The messages to be handled, first those the executor has taken
Waiting == localQueue \o queue

\* What waits in the two message queues is, sender by sender, what was posted
\* and not yet handled, in the order of posting: nothing is dropped, handled
\* twice or overtaken, although the local queue is refilled by a swap.
QueuedInOrder ==
  \A s \in Senders :
    LET mine == {i \in DOMAIN Waiting : Waiting[i].from = s} IN
    /\ {Waiting[i].n : i \in mine} = handled[s] + 1 .. posted[s]
    /\ \A i, j \in mine : i < j => Waiting[i].n < Waiting[j].n

\* m_totalSize is what waits in both queues and what is about to be posted;
\* Run decides on it whether to sleep.
TotalSizeCounts ==
  totalSize = baseSize + Len(queue) + Len(localQueue)
              + Cardinality({s \in Senders : pcSend[s] # NoReceiver})

\* No message is lost but those to a receiver that was removed: a receiver
\* whose number is known is on the map by the time a message to it is acted on.
LostOnlyIfRemoved ==
  (pcRun = "work" /\ ReceiversSettled /\ localQueue # <<>>)
  => LET r == Head(localQueue).to IN
     receiverMap[r] = NoDispatch => r \in removed

\* Once what waits is acted on the receivers are those of the handler and its
\* present clients, so that no receiver outlives its client on the map.
ReceiversOfClients ==
  LET pending(q) == {q[i].id : i \in DOMAIN q}
      made == {r \in ReceiverIDs : receiverMap[r] # NoDispatch}
              \cup pending(createQueue) \cup pending(localCreateQueue)
      kept == made \ (pending(removeQueue) \cup pending(localRemoveQueue))
  IN kept = ({defaultReceiver} \cup {clientMap[d] : d \in ClientIDs}) \ {NoReceiver}

\* An executor asleep without a signal has nothing to do, but for what was
\* posted before InitExecutor stored the ID that DoSignal needs.
AsleepOnlyWhenDone ==
  (tag = "suspended" /\ signals = {}) =>
    \A q \in {queue, createQueue, removeQueue} : \A i \in DOMAIN q : q[i].early

\* Messages posted once the ID is stored are acted on, all of them, unless the
\* executor ends: no signal is lost to a sleep that begins meanwhile.
PostedIsHandled ==
  (\E q \in {queue, localQueue} : \E i \in DOMAIN q : ~q[i].early)
    ~> (endRequested \/ (queue = <<>> /\ localQueue = <<>>))
=============================================================================
