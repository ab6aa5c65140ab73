----------------------------- MODULE MCMessages -----------------------------
(***************************************************************************)
(* The parts that messages and time go through, each on its own: the       *)
(* dispatcher of a message handler, the timer thread, and the requests,    *)
(* which rely on the order the first keeps and on the beats of the second. *)
(* They share no variable; `part' says which of them moves.                *)
(***************************************************************************)
EXTENDS MessageDispatcher, TimerThread, Requests

VARIABLE part

msgVars == <<dispatcherVars, timerVars, requestVars, part>>

\* What no constructor sets is of interest in the part that moves only.
MessagesInit ==
  /\ DispatcherInit /\ TimerInit /\ RequestsInit
  /\ part \in {"dispatcher", "timer", "requests"}
  /\ part # "dispatcher" => totalSize = 0
  /\ part # "timer" => ~threadDoomed

\* A step of one part
OfDispatcher(A) == part = "dispatcher" /\ A /\ UNCHANGED <<timerVars, requestVars, part>>
OfTimer(A) == part = "timer" /\ A /\ UNCHANGED <<dispatcherVars, requestVars, part>>
OfRequests(A) == part = "requests" /\ A /\ UNCHANGED <<dispatcherVars, timerVars, part>>

MessagesNext ==
  \/ OfDispatcher(DispatcherNext)
  \/ OfTimer(TimerNext)
  \/ OfRequests(RequestsNext)

\* DispatcherFairness, TimerFairness and RequestsFairness, of the part that moves
MessagesFairness ==
  /\ WF_msgVars(OfDispatcher(Dispatch) \/ OfTimer(TimerStep) \/ OfRequests(HandlerDispatches))
  /\ WF_msgVars(OfDispatcher(StoreExecutorID) \/ OfTimer(Tick))
  /\ \A s \in Senders : WF_msgVars(OfDispatcher(PostMessage(s)))

MessagesSpec == MessagesInit /\ [][MessagesNext]_msgVars /\ MessagesFairness

-----------------------------------------------------------------------------
\* The types of the three parts; m_totalSize counts what waits to be handled.
MessagesTypeOK ==
  DispatcherTypeOK /\ TotalSizeCounts /\ TimerTypeOK /\ RequestsTypeOK

\* Messages are handled in the order they were posted, each once, none is lost
\* but to a receiver that was removed, and the executor does not sleep on one.
DeliveredInOrder == QueuedInOrder /\ LostOnlyIfRemoved /\ AsleepOnlyWhenDone
=============================================================================
