----------------------------- MODULE TimerThread -----------------------------
(***************************************************************************)
(* The timer thread of the execution manager (ExecutionManager::           *)
(* TimerThread): clients post Set and Cancel messages, the thread keeps    *)
(* the definitions by ID and one entry per timer in a queue ordered by its *)
(* next beat.  It waits without a predicate, so that a notification given  *)
(* while it is not waiting is lost.                                        *)
(*                                                                         *)
(* Time is kept as what is left until a beat; MaxLate bounds how far the   *)
(* thread may fall behind.                                                 *)
(***************************************************************************)
EXTENDS Integers, Sequences, FiniteSets

CONSTANTS
  TimerNames,   \* names, without the empty one
  Intervals,    \* intervals of timers, in ticks
  MaxCalls,     \* calls of SetTimer and CancelTimer
  MaxLate       \* bound on the lateness of a beat

ASSUME TimerAssumption ==
  /\ Intervals \subseteq Nat \ {0}
  /\ MaxCalls \in Nat /\ MaxLate \in Nat

Anonymous == "anonymous"          \* the empty name
TimerIDs == 0 .. MaxCalls - 1

VARIABLES
  messages,          \* m_messages
  msgs,              \* the messages swapped out, local to the thread
  timerStates,       \* m_timerStates: definitions, with their IDs
  timerPriorities,   \* m_timerPriorities: [index, left] entries
  nextTimerIndex,    \* m_nextTimerIndex
  threadDoomed,      \* m_threadDoomed, which no constructor sets
  pcTimer,           \* where the thread is
  calls              \* calls so far

sharedVars == <<messages, threadDoomed, calls>>
localVars == <<msgs, timerStates, timerPriorities, nextTimerIndex>>
timerVars == <<sharedVars, localVars, pcTimer>>

TimerInit ==
  /\ messages = <<>> /\ msgs = <<>>
  /\ timerStates = {} /\ timerPriorities = {}
  /\ nextTimerIndex = 0
  /\ threadDoomed \in BOOLEAN
  /\ pcTimer = "loop"
  /\ calls = 0

-----------------------------------------------------------------------------
(* Callers: the message is queued and one notification is given            *)

Notified == IF pcTimer \in {"wait", "timedWait"} THEN "loop" ELSE pcTimer

PostTimerMessage(msg) ==
  /\ calls < MaxCalls
  /\ calls' = calls + 1
  /\ messages' = Append(messages, msg)
  /\ pcTimer' = Notified
  /\ UNCHANGED <<threadDoomed, localVars>>

SetTimer ==
  \E m \in [tag : {"Set"}, name : TimerNames \cup {Anonymous},
           interval : Intervals, repeating : BOOLEAN] : PostTimerMessage(m)

\* By name, or by the ID that OnTimer was told.
CancelTimer ==
  \E m \in [tag : {"CancelName"}, name : TimerNames]
           \cup [tag : {"CancelID"}, id : TimerIDs] : PostTimerMessage(m)

\* DoomMe, from LockedShopUpdateState: no notification.
DoomTimerThread ==
  /\ ~threadDoomed /\ threadDoomed' = TRUE
  /\ UNCHANGED <<messages, calls, localVars, pcTimer>>

-----------------------------------------------------------------------------
(* The thread                                                              *)

\* The head of the loop, and the swap under the mutex.
SwapMessages ==
  /\ pcTimer = "loop"
  /\ IF threadDoomed
     THEN pcTimer' = "ended" /\ UNCHANGED <<messages, msgs>>
     ELSE pcTimer' = "process" /\ msgs' = messages /\ messages' = <<>>
  /\ UNCHANGED <<threadDoomed, calls, timerStates, timerPriorities,
                 nextTimerIndex>>

Named(name) == {t \in timerStates : t.name = name /\ name # Anonymous}

\* Fault: the new timer gets no entry in the queue.
WithoutEntry(interval) == timerPriorities
WithEntry(interval) ==
  timerPriorities \cup {[index |-> nextTimerIndex, left |-> interval]}

\* A timer that is set again keeps its place in the queue; a new one counts as
\* recalibrated as well.
ApplySet(m) ==
  LET def(i) == [id |-> i, name |-> m.name, interval |-> m.interval,
                 repeating |-> m.repeating, recalibrate |-> TRUE] IN
  \/ /\ m.tag = "Set" /\ Named(m.name) # {}
     /\ \E t \in Named(m.name) :
          timerStates' = (timerStates \ {t}) \cup {def(t.id)}
     /\ UNCHANGED <<timerPriorities, nextTimerIndex>>
  \/ /\ m.tag = "Set" /\ Named(m.name) = {}
     /\ timerStates' = timerStates \cup {def(nextTimerIndex)}
     /\ timerPriorities' = WithEntry(m.interval)
     /\ nextTimerIndex' = nextTimerIndex + 1

\* The entry of a cancelled timer stays in the queue.
ApplyCancel(m) ==
  /\ \/ /\ m.tag = "CancelName"
        /\ IF Named(m.name) = {} THEN UNCHANGED timerStates
           ELSE \E t \in Named(m.name) : timerStates' = timerStates \ {t}
     \/ /\ m.tag = "CancelID"
        /\ timerStates' = {t \in timerStates : t.id # m.id}
  /\ UNCHANGED <<timerPriorities, nextTimerIndex>>

ProcessTimerMessage ==
  /\ pcTimer = "process" /\ msgs # <<>>
  /\ ApplySet(Head(msgs)) \/ ApplyCancel(Head(msgs))
  /\ msgs' = Tail(msgs)
  /\ UNCHANGED <<sharedVars, pcTimer>>

Top == {e \in timerPriorities : \A f \in timerPriorities : e.left <= f.left}

\* Fault: the wait knows no end.
WaitUntimed == "wait"
WaitForBeat == IF timerPriorities = {} THEN "wait" ELSE "timedWait"

\* Nothing to do now: wait for the first beat, or for a message.  What was
\* posted since the swap is not looked at.
StartWaiting ==
  /\ pcTimer = "process" /\ msgs = <<>>
  /\ \A e \in Top : e.left > 0
  /\ pcTimer' = WaitForBeat
  /\ UNCHANGED <<sharedVars, localVars>>

BeatsAgain(t) == t.recalibrate \/ t.repeating

\* One beat: the callback, and the entry is put back unless the timer is gone
\* or was its last time.
OnTimerDue ==
  /\ pcTimer = "process" /\ msgs = <<>>
  /\ \E e \in Top :
       LET known == {t \in timerStates : t.id = e.index} IN
       /\ e.left <= 0
       /\ timerStates' = (timerStates \ known)
            \cup {[t EXCEPT !.recalibrate = FALSE] : t \in {u \in known : BeatsAgain(u)}}
       /\ timerPriorities' = (timerPriorities \ {e})
            \cup {[e EXCEPT !.left = @ + t.interval] : t \in {u \in known : BeatsAgain(u)}}
  /\ pcTimer' = "loop"
  /\ UNCHANGED <<sharedVars, msgs, nextTimerIndex>>

TimeIsUp == pcTimer = "timedWait" /\ \E e \in Top : e.left <= 0

\* wait_until ends with the beat it waits for.
WakeUpInTime ==
  /\ TimeIsUp
  /\ pcTimer' = "loop"
  /\ UNCHANGED <<sharedVars, localVars>>

SpuriousWakeUp ==
  /\ pcTimer \in {"wait", "timedWait"}
  /\ pcTimer' = "loop"
  /\ UNCHANGED <<sharedVars, localVars>>

Tick ==
  /\ timerPriorities # {}
  /\ \A e \in timerPriorities : e.left > -MaxLate
  /\ timerPriorities' = {[e EXCEPT !.left = @ - 1] : e \in timerPriorities}
  /\ UNCHANGED <<sharedVars, msgs, timerStates, nextTimerIndex, pcTimer>>

TimerStep ==
  \/ SwapMessages \/ ProcessTimerMessage \/ StartWaiting \/ OnTimerDue
  \/ WakeUpInTime

TimerNext ==
  \/ SetTimer \/ CancelTimer
  \/ DoomTimerThread \/ SpuriousWakeUp \/ Tick \/ TimerStep

\* The thread is scheduled and the clock goes on.
TimerFairness == WF_timerVars(TimerStep) /\ WF_timerVars(Tick)

TimerSpec == TimerInit /\ [][TimerNext]_timerVars

-----------------------------------------------------------------------------
(* Properties                                                              *)

TimerTypeOK ==
  /\ nextTimerIndex \in 0 .. MaxCalls
  /\ \A t \in timerStates : t.id \in TimerIDs /\ t.interval \in Intervals
  /\ \A e \in timerPriorities : e.index \in TimerIDs /\ e.left \in Int
  /\ pcTimer \in {"loop", "process", "wait", "timedWait", "ended"}

\* Every timer that is set has exactly one entry in the queue, through
\* updates by name, cancels and beats: a cancelled one may leave an entry
\* behind, a live one is never stranded and never beats twice at a time.
OneEntryPerTimer ==
  /\ \A t \in timerStates :
       Cardinality({e \in timerPriorities : e.index = t.id}) = 1
  /\ \A e, f \in timerPriorities : e.index = f.index => e = f

\* As long as a timer beats, messages are read and a doomed thread ends: the
\* notification that a wait misses, or that DoomMe never gives, is made good by
\* the next beat.
BeatsCarryOn ==
  /\ (timerPriorities # {} /\ messages # <<>>)
       ~> (messages = <<>> \/ pcTimer = "ended")
  /\ (timerPriorities # {} /\ threadDoomed) ~> (pcTimer = "ended")
=============================================================================
