---------------------------- MODULE StartupProofs ----------------------------
(***************************************************************************)
(* What StartupTaskManager promises for any number of tasks, names and     *)
(* calls: dependencies are recorded on both sides, no waiting task is      *)
(* forgotten between two actions, and, with listeners that behave, the     *)
(* number of waiting tasks is right, the executor ends only when they are  *)
(* resolved, and no listener is called back inside its own callback.       *)
(***************************************************************************)
EXTENDS StartupTaskManager, FiniteSetTheorems, SequenceTheorems, TLAPS

-----------------------------------------------------------------------------
(* The invariant of the manager                                            *)

\* The calls the startup thread has still to handle, in their order.
calls == localQueue \o executorQueue

\* A call names a task that was handed out; a definition names the task it was
\* handed out for, which is unknown until then and is defined by no other call.
CallOf(a, next, names, states) ==
  /\ a.id < next
  /\ a.op = "Define" =>
       /\ a.name \in Names /\ a.name = names[a.id + 1]
       /\ states[a.id] = "Unknown"

CallsInv ==
  /\ exec # "running" => localQueue = <<>>
  /\ \A i \in DOMAIN calls : CallOf(calls[i], nextTaskId, defined, state)
  /\ \A i, j \in DOMAIN calls :
       calls[i].op = "Define" /\ calls[j].op = "Define" /\ calls[i].id = calls[j].id
         => i = j

\* Only tasks that exist have dependencies, which were set, or are one.
GraphInv ==
  /\ GraphSymmetric
  /\ \A t \in TaskIDs :
       /\ Exists(t) => t < nextTaskId
       /\ dependsOn[t] # {} \/ dependsOnUndefined[t] # {} =>
            Exists(t) /\ state[t] # "DepsUnknown"
       /\ \A d \in dependsOn[t] : Exists(d)
  /\ \A n \in Names : nameTask[n] # NoTask =>
       Exists(nameTask[n]) /\ defined[nameTask[n] + 1] = n

\* An evaluation has dependencies of its task before it and counted others
\* only; the loop over dependents has dependents of its task before it.
FrameOf(f, states, on, by) ==
  /\ states[f.task] # "Unknown"
  /\ f.fn = "Evaluate" =>
       /\ f.left \subseteq on[f.task]
       /\ f.complete + Cardinality(f.left) <= Cardinality(on[f.task])
  /\ f.fn = "Notify" => f.left \subseteq by[f.task] /\ f.reporting = NoTask

FramesInv == \A i \in DOMAIN stack : FrameOf(stack[i], state, dependsOn, dependedOnBy)

-----------------------------------------------------------------------------
(* Sets, stacks and queues                                                 *)

\* There are finitely many tasks.
LEMMA TasksFinite ==
  /\ IsFiniteSet(TaskIDs) /\ Cardinality(TaskIDs) = MaxTasks
  /\ \A S \in SUBSET TaskIDs :
       /\ IsFiniteSet(S)
       /\ Cardinality(S) \in Nat /\ Cardinality(S) <= MaxTasks
<1>1. MaxTasks \in Nat
  BY ConstantsAssumption
<1>2. IsFiniteSet(0 .. MaxTasks - 1) /\ Cardinality(0 .. MaxTasks - 1) = MaxTasks
  BY <1>1, FS_Interval, FS_EmptySet
<1>3. IsFiniteSet(TaskIDs) /\ Cardinality(TaskIDs) = MaxTasks
  BY <1>2 DEF TaskIDs
<1>4. ASSUME NEW S \in SUBSET TaskIDs
      PROVE  IsFiniteSet(S) /\ Cardinality(S) \in Nat /\ Cardinality(S) <= MaxTasks
  <2>1. IsFiniteSet(S) /\ Cardinality(S) <= Cardinality(TaskIDs)
    BY <1>3, FS_Subset
  <2> QED BY <1>3, <2>1, FS_CardinalityType
<1> QED BY <1>3, <1>4

\* One element less.
LEMMA OneLess ==
  ASSUME NEW S \in SUBSET TaskIDs, NEW d \in S
  PROVE  Cardinality(S \ {d}) = Cardinality(S) - 1 /\ Cardinality(S) > 0
<1>1. IsFiniteSet(S) /\ IsFiniteSet(S \ {d})
  BY TasksFinite
<1>2. Cardinality(S \ {d}) = Cardinality(S) - 1
  BY <1>1, FS_RemoveElement
<1>3. Cardinality(S \ {d}) \in Nat /\ Cardinality(S) \in Nat
  BY <1>1, FS_CardinalityType
<1> QED BY <1>2, <1>3

\* The frames below the top.
BelowTop(s) == SubSeq(s, 1, Len(s) - 1)

\* A stack without its top frame is a stack.
LEMMA Popped ==
  ASSUME NEW F, NEW s \in Seq(F), s # <<>>
  PROVE  /\ Len(s) \in Nat \ {0} /\ DOMAIN s = 1 .. Len(s) /\ s[Len(s)] \in F
         /\ BelowTop(s) \in Seq(F) /\ Len(BelowTop(s)) = Len(s) - 1
         /\ DOMAIN BelowTop(s) = 1 .. Len(s) - 1
         /\ \A i \in 1 .. Len(s) - 1 : BelowTop(s)[i] = s[i]
<1>1. Len(s) \in Nat \ {0} /\ DOMAIN s = 1 .. Len(s)
  BY EmptySeq, LenProperties
<1>2. s[Len(s)] \in F /\ \A i \in 1 .. Len(s) - 1 : s[i] \in F
  <2>1. \A i \in 1 .. Len(s) : s[i] \in F
    BY ElementOfSeq
  <2> QED BY <1>1, <2>1
<1> DEFINE n == Len(s) - 1
<1>3. n \in Int /\ \A i \in 1 .. n : s[i] \in F
  BY <1>1, <1>2
<1> HIDE DEF n
<1>4. /\ SubSeq(s, 1, n) \in Seq(F)
      /\ Len(SubSeq(s, 1, n)) = IF 1 <= n THEN n - 1 + 1 ELSE 0
      /\ \A i \in 1 .. n - 1 + 1 : SubSeq(s, 1, n)[i] = s[1 + i - 1]
  BY ONLY <1>3, SubSeqProperties
<1>5. /\ BelowTop(s) \in Seq(F) /\ Len(BelowTop(s)) = Len(s) - 1
      /\ \A i \in 1 .. Len(s) - 1 : BelowTop(s)[i] = s[i]
  BY <1>1, <1>4 DEF BelowTop, n
<1>6. DOMAIN BelowTop(s) = 1 .. Len(s) - 1
  BY ONLY <1>5, LenProperties
<1> QED BY <1>1, <1>2, <1>5, <1>6

\* One frame in place of the top.
LEMMA Replaced ==
  ASSUME NEW F, NEW s \in Seq(F), s # <<>>, NEW f \in F
  PROVE  /\ Append(BelowTop(s), f) \in Seq(F)
         /\ Len(Append(BelowTop(s), f)) = Len(s)
         /\ DOMAIN Append(BelowTop(s), f) = 1 .. Len(s)
         /\ \A i \in 1 .. Len(s) - 1 : Append(BelowTop(s), f)[i] = s[i]
         /\ Append(BelowTop(s), f)[Len(s)] = f
<1>1. /\ Len(s) \in Nat \ {0}
      /\ BelowTop(s) \in Seq(F) /\ Len(BelowTop(s)) = Len(s) - 1
      /\ \A i \in 1 .. Len(s) - 1 : BelowTop(s)[i] = s[i]
  BY Popped
<1>2. /\ Append(BelowTop(s), f) \in Seq(F)
      /\ Len(Append(BelowTop(s), f)) = Len(BelowTop(s)) + 1
      /\ \A i \in 1 .. Len(BelowTop(s)) : Append(BelowTop(s), f)[i] = BelowTop(s)[i]
      /\ Append(BelowTop(s), f)[Len(BelowTop(s)) + 1] = f
  BY ONLY <1>1, f \in F, AppendProperties
<1>3. Len(Append(BelowTop(s), f)) = Len(s) /\ Append(BelowTop(s), f)[Len(s)] = f
  BY <1>1, <1>2
<1>4. DOMAIN Append(BelowTop(s), f) = 1 .. Len(s)
  BY ONLY <1>2, <1>3, LenProperties
<1>5. \A i \in 1 .. Len(s) - 1 : Append(BelowTop(s), f)[i] = s[i]
  BY <1>1, <1>2
<1> QED BY <1>2, <1>3, <1>4, <1>5

\* Two frames in place of the top.
LEMMA TwoForOne ==
  ASSUME NEW F, NEW s \in Seq(F), s # <<>>, NEW f \in F, NEW g \in F
  PROVE  LET r == Append(Append(BelowTop(s), f), g)
         IN  /\ r \in Seq(F) /\ Len(r) = Len(s) + 1 /\ DOMAIN r = 1 .. Len(s) + 1
             /\ \A i \in 1 .. Len(s) - 1 : r[i] = s[i]
             /\ r[Len(s)] = f /\ r[Len(s) + 1] = g
<1> DEFINE q == Append(BelowTop(s), f)
           r == Append(q, g)
<1>1. /\ q \in Seq(F) /\ Len(q) = Len(s)
      /\ \A i \in 1 .. Len(s) - 1 : q[i] = s[i]
      /\ q[Len(s)] = f
  BY Replaced
<1> HIDE DEF q
<1>2. /\ r \in Seq(F) /\ Len(r) = Len(q) + 1
      /\ \A i \in 1 .. Len(q) : r[i] = q[i]
      /\ r[Len(q) + 1] = g
  BY ONLY <1>1, g \in F, AppendProperties
<1>3. DOMAIN r = 1 .. Len(r)
  BY ONLY <1>2, LenProperties
<1>4. Len(s) \in Nat \ {0}
  BY Popped
<1> HIDE DEF r
<1>5. /\ r \in Seq(F) /\ Len(r) = Len(s) + 1 /\ DOMAIN r = 1 .. Len(s) + 1
      /\ \A i \in 1 .. Len(s) - 1 : r[i] = s[i]
      /\ r[Len(s)] = f /\ r[Len(s) + 1] = g
  BY <1>1, <1>2, <1>3, <1>4
<1> QED BY <1>5 DEF r, q

\* A first frame, or one on top of others.
LEMMA Pushed ==
  ASSUME NEW F, NEW s \in Seq(F), NEW f \in F
  PROVE  /\ Len(s) \in Nat /\ DOMAIN s = 1 .. Len(s)
         /\ Append(s, f) \in Seq(F)
         /\ DOMAIN Append(s, f) = 1 .. Len(s) + 1
         /\ \A i \in 1 .. Len(s) : Append(s, f)[i] = s[i]
         /\ Append(s, f)[Len(s) + 1] = f
BY LenProperties, AppendProperties

\* The first of a queue is taken.
LEMMA Taken ==
  ASSUME NEW S, NEW s \in Seq(S), s # <<>>
  PROVE  /\ Len(s) \in Nat \ {0} /\ DOMAIN s = 1 .. Len(s)
         /\ Head(s) \in S /\ Head(s) = s[1]
         /\ Tail(s) \in Seq(S) /\ DOMAIN Tail(s) = 1 .. Len(s) - 1
         /\ \A i \in 1 .. Len(s) - 1 : Tail(s)[i] = s[i + 1]
<1>1. Len(s) \in Nat \ {0} /\ DOMAIN s = 1 .. Len(s)
  BY EmptySeq, LenProperties
<1>2. /\ Head(s) \in S /\ Tail(s) \in Seq(S) /\ Len(Tail(s)) = Len(s) - 1
      /\ \A i \in 1 .. Len(Tail(s)) : Tail(s)[i] = s[i + 1]
  BY HeadTailProperties
<1>3. Head(s) = s[1]
  BY <1>1
<1>4. DOMAIN Tail(s) = 1 .. Len(s) - 1
  BY <1>1, <1>2, LenProperties
<1> QED BY <1>1, <1>2, <1>3, <1>4

-----------------------------------------------------------------------------
(* Types                                                                   *)

\* Tasks are numbers below the range of the counter of waiting tasks.
LEMMA Numbers ==
  /\ MaxTasks \in Nat /\ TaskIDs \subseteq Nat /\ NoTask \notin TaskIDs
  /\ UINT_RANGE \in Nat /\ UINT_RANGE > MaxTasks
  /\ Names \subseteq Nat \ {0}
  /\ \A t \in TaskIDs : t >= 0 /\ t < MaxTasks /\ t + 1 \in Nat
BY ConstantsAssumption DEF TaskIDs

\* Calls have the type of their queue.
LEMMA ActionTypes ==
  \A t \in TaskIDs :
    /\ \A n \in Names : DefineAction(t, n) \in Actions
    /\ \A deps \in SUBSET Names : SetDepsAction(t, deps) \in Actions
    /\ RunAction(t) \in Actions
    /\ \A ok \in BOOLEAN : CompleteAction(t, ok) \in Actions
BY DEF DefineAction, SetDepsAction, RunAction, CompleteAction, Action, Actions

\* The unsigned count stays in its range.
LEMMA CountTypes ==
  ASSUME NEW n \in 0 .. UINT_RANGE - 1, NEW k \in Nat
  PROVE  Plus(n, k) \in 0 .. UINT_RANGE - 1 /\ Minus(n, k) \in 0 .. UINT_RANGE - 1
<1>1. UINT_RANGE \in Nat \ {0}
  BY Numbers
<1>2. \A x \in Int : x % UINT_RANGE \in 0 .. UINT_RANGE - 1
  BY <1>1
<1>3. n + k \in Int /\ n + UINT_RANGE - k \in Int
  BY <1>1
<1> QED BY ONLY <1>2, <1>3 DEF Plus, Minus

\* What a step from outside the startup thread leaves alone, and what it may
\* add to the queue.
LEMMA OutsideSteps ==
  ASSUME TypeOK, Clients \/ Wake \/ TerminationRequested
  PROVE  /\ stack = <<>> /\ ~crashed
         /\ UNCHANGED <<localQueue, stack, nameVars, graphVars, taskVars, requested, crashed>>
         /\ \/ executorQueue' = executorQueue
            \/ \E a \in Actions : executorQueue' = Append(executorQueue, a)
<1> USE DEF Idle, Enqueue, managerVars, nameVars, graphVars, taskVars, clientVars, execVars
<1>1. ASSUME NEW n \in Names, DefineStartupTask(n)
      PROVE  /\ stack = <<>> /\ ~crashed
             /\ UNCHANGED <<localQueue, stack, nameVars, graphVars, taskVars, requested, crashed>>
             /\ \E a \in Actions : executorQueue' = Append(executorQueue, a)
  <2>1. nextTaskId \in TaskIDs
    BY <1>1, Numbers DEF DefineStartupTask, TypeOK, TaskIDs
  <2>2. DefineAction(nextTaskId, n) \in Actions
    BY <2>1, ActionTypes
  <2> QED BY <1>1, <2>2 DEF DefineStartupTask
<1>2. ASSUME NEW t \in TaskIDs, NEW deps \in SUBSET Names, SetStartupDependencies(t, deps)
      PROVE  /\ stack = <<>> /\ ~crashed
             /\ UNCHANGED <<localQueue, stack, nameVars, graphVars, taskVars, requested, crashed>>
             /\ \E a \in Actions : executorQueue' = Append(executorQueue, a)
  <2>1. SetDepsAction(t, deps) \in Actions
    BY ActionTypes
  <2> QED BY <1>2, <2>1 DEF SetStartupDependencies
<1>3. ASSUME NEW t \in TaskIDs, RunTask(t)
      PROVE  /\ stack = <<>> /\ ~crashed
             /\ UNCHANGED <<localQueue, stack, nameVars, graphVars, taskVars, requested, crashed>>
             /\ \E a \in Actions : executorQueue' = Append(executorQueue, a)
  <2>1. RunAction(t) \in Actions
    BY ActionTypes
  <2> QED BY <1>3, <2>1 DEF RunTask
<1>4. ASSUME NEW t \in TaskIDs, NEW ok \in BOOLEAN, CompleteTask(t, ok)
      PROVE  /\ stack = <<>> /\ ~crashed
             /\ UNCHANGED <<localQueue, stack, nameVars, graphVars, taskVars, requested, crashed>>
             /\ \E a \in Actions : executorQueue' = Append(executorQueue, a)
  <2>1. CompleteAction(t, ok) \in Actions
    BY ActionTypes
  <2> QED BY <1>4, <2>1 DEF CompleteTask
<1>5. CASE StartExecutor
  BY <1>5 DEF StartExecutor
<1>6. CASE Wake
  BY <1>6 DEF Wake
<1>7. CASE TerminationRequested
  BY <1>7 DEF TerminationRequested
<1> QED BY <1>1, <1>2, <1>3, <1>4, <1>5, <1>6, <1>7 DEF Clients

\* Calls of clients, wake-ups and requests to terminate keep the types.
LEMMA OutsideType ==
  ASSUME TypeOK, Clients \/ Wake \/ TerminationRequested
  PROVE  TypeOK'
<1> DEFINE Same == UNCHANGED <<localQueue, stack, nameVars, graphVars, taskVars, requested, crashed>>
<1>1. Same
  BY OutsideSteps
<1>2. executorQueue' \in Seq(Actions) /\ localQueue' \in Seq(Actions)
  <2>1. executorQueue \in Seq(Actions) /\ localQueue \in Seq(Actions)
    BY DEF TypeOK
  <2>2. \A a \in Actions : Append(executorQueue, a) \in Seq(Actions)
    BY <2>1, AppendProperties
  <2> QED BY <1>1, <2>1, <2>2, OutsideSteps
<1>3. /\ nextTaskId' \in 0 .. MaxTasks
      /\ exec' \in {"none", "executing", "running", "suspended", "ended"}
      /\ {running', signalled', stopRequested'} \subseteq BOOLEAN
      /\ defined' \in Seq(Names) /\ Len(defined') = nextTaskId'
      /\ setDepsCalls' \in [TaskIDs -> 0 .. MaxSetDeps]
  <2> USE DEF Enqueue, managerVars, clientVars, execVars
  <2>1. /\ nextTaskId \in 0 .. MaxTasks
        /\ exec \in {"none", "executing", "running", "suspended", "ended"}
        /\ {running, signalled, stopRequested} \subseteq BOOLEAN
        /\ defined \in Seq(Names) /\ Len(defined) = nextTaskId
        /\ setDepsCalls \in [TaskIDs -> 0 .. MaxSetDeps]
    BY DEF TypeOK
  <2>2. ASSUME NEW n \in Names, DefineStartupTask(n) PROVE <1>3!:
    <3>1. Append(defined, n) \in Seq(Names) /\ Len(Append(defined, n)) = Len(defined) + 1
      BY <2>1, AppendProperties
    <3> QED BY <2>1, <2>2, <3>1, Numbers DEF DefineStartupTask
  <2>3. ASSUME NEW t \in TaskIDs, NEW deps \in SUBSET Names, SetStartupDependencies(t, deps)
        PROVE  <1>3!:
    BY <2>1, <2>3, ConstantsAssumption DEF SetStartupDependencies
  <2>4. ASSUME NEW t \in TaskIDs, RunTask(t) PROVE <1>3!:
    BY <2>1, <2>4 DEF RunTask
  <2>5. ASSUME NEW t \in TaskIDs, NEW ok \in BOOLEAN, CompleteTask(t, ok) PROVE <1>3!:
    BY <2>1, <2>5 DEF CompleteTask
  <2>6. CASE StartExecutor
    BY <2>1, <2>6 DEF StartExecutor
  <2>7. CASE Wake
    BY <2>1, <2>7 DEF Wake
  <2>8. CASE TerminationRequested
    BY <2>1, <2>8 DEF TerminationRequested
  <2> QED BY <2>2, <2>3, <2>4, <2>5, <2>6, <2>7, <2>8 DEF Clients
<1> HIDE DEF Same
<1> QED BY <1>1, <1>2, <1>3 DEF TypeOK, Same, nameVars, graphVars, taskVars

\* The frames of a call stack have their type, as long as an evaluation has
\* counted no more than it has visited.
LEMMA FrameTypes ==
  /\ \A t \in TaskIDs, deps \in SUBSET TaskIDs :
       EvaluateFrame(t, deps) \in Frames /\ NotifyFrame(t, deps) \in Frames
  /\ \A f \in Frames :
       /\ f.task \in TaskIDs /\ f.left \subseteq TaskIDs /\ f.complete \in 0 .. MaxTasks
       /\ f.fn \in {"Evaluate", "Notify"} /\ f.reporting \in TaskIDs \cup {NoTask}
       /\ \A d : [f EXCEPT !.left = @ \ {d}] \in Frames
       /\ \A d : \A n \in 0 .. MaxTasks :
            [f EXCEPT !.left = @ \ {d}, !.complete = n] \in Frames
       /\ \A d : \A r \in TaskIDs :
            [f EXCEPT !.left = @ \ {d}, !.reporting = r] \in Frames
       /\ [f EXCEPT !.reporting = NoTask] \in Frames
<1>1. ASSUME NEW t \in TaskIDs, NEW deps \in SUBSET TaskIDs
      PROVE  EvaluateFrame(t, deps) \in Frames /\ NotifyFrame(t, deps) \in Frames
  BY Numbers DEF EvaluateFrame, NotifyFrame, Frames
<1>2. ASSUME NEW f \in Frames
      PROVE  /\ f.task \in TaskIDs /\ f.left \subseteq TaskIDs /\ f.complete \in 0 .. MaxTasks
             /\ f.fn \in {"Evaluate", "Notify"} /\ f.reporting \in TaskIDs \cup {NoTask}
             /\ [f EXCEPT !.reporting = NoTask] \in Frames
  BY DEF Frames
<1>3. ASSUME NEW f \in Frames, NEW d
      PROVE  /\ [f EXCEPT !.left = @ \ {d}] \in Frames
             /\ \A n \in 0 .. MaxTasks :
                  [f EXCEPT !.left = @ \ {d}, !.complete = n] \in Frames
             /\ \A r \in TaskIDs :
                  [f EXCEPT !.left = @ \ {d}, !.reporting = r] \in Frames
  <2>1. f.left \ {d} \in SUBSET TaskIDs
    BY <1>2
  <2>2. \A l \in SUBSET TaskIDs :
          /\ [f EXCEPT !.left = l] \in Frames
          /\ \A n \in 0 .. MaxTasks : [f EXCEPT !.left = l, !.complete = n] \in Frames
          /\ \A r \in TaskIDs : [f EXCEPT !.left = l, !.reporting = r] \in Frames
    BY DEF Frames
  <2> QED BY <2>1, <2>2
<1> QED BY <1>1, <1>2, <1>3

\* The frame that is executing.
LEMMA TopFacts ==
  ASSUME TypeOK, FramesInv, stack # <<>>
  PROVE  /\ Len(stack) \in Nat \ {0} /\ DOMAIN stack = 1 .. Len(stack)
         /\ Top = stack[Len(stack)] /\ Top \in Frames /\ FrameOf(Top, state, dependsOn, dependedOnBy)
         /\ Below = BelowTop(stack) /\ Below \in Seq(Frames)
         /\ stack \in Seq(Frames)
<1>1. stack \in Seq(Frames)
  BY DEF TypeOK
<1>2. /\ Len(stack) \in Nat \ {0} /\ DOMAIN stack = 1 .. Len(stack)
      /\ stack[Len(stack)] \in Frames /\ BelowTop(stack) \in Seq(Frames)
  BY <1>1, Popped
<1>3. FrameOf(stack[Len(stack)], state, dependsOn, dependedOnBy)
  BY <1>2 DEF FramesInv
<1> QED BY <1>1, <1>2, <1>3 DEF Top, Below, BelowTop

\* An evaluation can count each dependency it has before it.
LEMMA CountBounded ==
  ASSUME TypeOK, FramesInv, stack # <<>>, Top.fn = "Evaluate", NEW d \in Top.left
  PROVE  Top.complete + 1 \in 0 .. MaxTasks
<1>1. Top \in Frames /\ FrameOf(Top, state, dependsOn, dependedOnBy)
  BY TopFacts
<1>2. Top.left \in SUBSET TaskIDs /\ Top.task \in TaskIDs /\ Top.complete \in 0 .. MaxTasks
  BY <1>1, FrameTypes
<1>3. Cardinality(Top.left) \in Nat /\ Cardinality(Top.left) > 0
  BY <1>2, OneLess, TasksFinite
<1>4. dependsOn[Top.task] \in SUBSET TaskIDs
  BY <1>2 DEF TypeOK
<1>5. Cardinality(dependsOn[Top.task]) \in Nat /\ Cardinality(dependsOn[Top.task]) <= MaxTasks
  BY <1>4, TasksFinite
<1>6. Top.complete + Cardinality(Top.left) <= Cardinality(dependsOn[Top.task])
  BY <1>1 DEF FrameOf
<1> QED BY <1>2, <1>3, <1>5, <1>6, Numbers

\* Completing a task on top of a stack of frames.
LEMMA CompleteType ==
  ASSUME TypeOK, NEW t \in TaskIDs, NEW ok \in BOOLEAN, NEW s \in Seq(Frames),
         Complete(t, ok, s)
  PROVE  /\ stack' \in Seq(Frames)
         /\ state' \in [TaskIDs -> TaskStates]
         /\ waitingTasks' \in 0 .. UINT_RANGE - 1
<1>1. NotifyFrame(t, DependentsToTell(t, ok)) \in Frames
  BY FrameTypes DEF TypeOK, DependentsToTell
<1>2. Append(s, NotifyFrame(t, DependentsToTell(t, ok))) \in Seq(Frames)
  BY <1>1, AppendProperties
<1>3. Minus(waitingTasks, 1) \in 0 .. UINT_RANGE - 1
  BY CountTypes DEF TypeOK
<1>4. [state EXCEPT ![t] = "Completed"] \in [TaskIDs -> TaskStates]
      /\ [state EXCEPT ![t] = "Failed"] \in [TaskIDs -> TaskStates]
  BY DEF TypeOK, TaskStates
<1> QED BY <1>2, <1>3, <1>4 DEF Complete, TypeOK, Push

\* The call that is handled is the first of all that wait.
LEMMA HeadFacts ==
  ASSUME TypeOK, localQueue # <<>>
  PROVE  /\ calls \in Seq(Actions) /\ calls # <<>> /\ 1 \in DOMAIN calls
         /\ Head(localQueue) = calls[1] /\ Head(localQueue) \in Actions
         /\ Tail(localQueue) \in Seq(Actions)
         /\ Tail(localQueue) \o executorQueue = Tail(calls)
<1>1. localQueue \in Seq(Actions) /\ executorQueue \in Seq(Actions)
  BY DEF TypeOK
<1>2. /\ Len(localQueue) \in Nat \ {0} /\ Head(localQueue) \in Actions
      /\ Head(localQueue) = localQueue[1] /\ Tail(localQueue) \in Seq(Actions)
      /\ DOMAIN Tail(localQueue) = 1 .. Len(localQueue) - 1
      /\ \A i \in 1 .. Len(localQueue) - 1 : Tail(localQueue)[i] = localQueue[i + 1]
  BY <1>1, Taken
<1>3. Len(executorQueue) \in Nat /\ Len(Tail(localQueue)) = Len(localQueue) - 1
  BY <1>1, <1>2, LenProperties, HeadTailProperties
<1>4. /\ calls \in Seq(Actions) /\ Len(calls) = Len(localQueue) + Len(executorQueue)
      /\ \A i \in 1 .. Len(localQueue) + Len(executorQueue) :
           calls[i] = IF i <= Len(localQueue) THEN localQueue[i]
                      ELSE executorQueue[i - Len(localQueue)]
  BY ONLY <1>1, ConcatProperties DEF calls
<1>5. calls # <<>> /\ 1 \in DOMAIN calls /\ Head(localQueue) = calls[1]
  <2>1. DOMAIN calls = 1 .. Len(calls)
    BY ONLY <1>4, LenProperties
  <2> QED BY <1>2, <1>3, <1>4, <2>1
<1>6. /\ Tail(calls) \in Seq(Actions) /\ Len(Tail(calls)) = Len(calls) - 1
      /\ \A i \in 1 .. Len(calls) - 1 : Tail(calls)[i] = calls[i + 1]
  BY <1>4, <1>5, HeadTailProperties
<1> DEFINE rest == Tail(localQueue) \o executorQueue
<1>7. /\ rest \in Seq(Actions) /\ Len(rest) = Len(localQueue) - 1 + Len(executorQueue)
      /\ \A i \in 1 .. Len(localQueue) - 1 + Len(executorQueue) :
           rest[i] = IF i <= Len(localQueue) - 1 THEN Tail(localQueue)[i]
                     ELSE executorQueue[i - (Len(localQueue) - 1)]
  <2>1. /\ rest \in Seq(Actions) /\ Len(rest) = Len(Tail(localQueue)) + Len(executorQueue)
        /\ \A i \in 1 .. Len(Tail(localQueue)) + Len(executorQueue) :
             rest[i] = IF i <= Len(Tail(localQueue)) THEN Tail(localQueue)[i]
                       ELSE executorQueue[i - Len(Tail(localQueue))]
    BY ONLY <1>1, <1>2, ConcatProperties
  <2> HIDE DEF rest
  <2> QED BY <1>3, <2>1
<1> HIDE DEF rest
<1>8. Len(rest) = Len(Tail(calls))
  BY <1>2, <1>3, <1>4, <1>6, <1>7
<1>9. ASSUME NEW i \in 1 .. Len(rest) PROVE rest[i] = Tail(calls)[i]
  <2>1. i \in Nat \ {0} /\ i <= Len(localQueue) - 1 + Len(executorQueue)
        /\ Tail(calls)[i] = calls[i + 1]
        /\ i + 1 \in 1 .. Len(localQueue) + Len(executorQueue)
    BY <1>2, <1>3, <1>4, <1>6, <1>7
  <2>2. CASE i <= Len(localQueue) - 1
    <3>1. rest[i] = Tail(localQueue)[i] /\ Tail(localQueue)[i] = localQueue[i + 1]
      BY <1>2, <1>3, <1>7, <2>1, <2>2
    <3>2. calls[i + 1] = localQueue[i + 1]
      BY <1>2, <1>4, <2>1, <2>2
    <3> QED BY <2>1, <3>1, <3>2
  <2>3. CASE ~(i <= Len(localQueue) - 1)
    <3>1. rest[i] = executorQueue[i - (Len(localQueue) - 1)]
      BY <1>2, <1>3, <1>7, <2>1, <2>3
    <3>2. calls[i + 1] = executorQueue[i + 1 - Len(localQueue)]
      BY <1>2, <1>4, <2>1, <2>3
    <3>3. i - (Len(localQueue) - 1) = i + 1 - Len(localQueue)
      BY <1>2, <2>1
    <3> QED BY <2>1, <3>1, <3>2, <3>3
  <2> QED BY <2>2, <2>3
<1>10. rest = Tail(calls)
  BY ONLY <1>6, <1>7, <1>8, <1>9, SeqEqual
<1> QED BY <1>2, <1>4, <1>5, <1>10 DEF rest

\* Taking a call off the queue and handling it.
LEMMA DefineType ==
  ASSUME TypeOK, CallsInv, localQueue # <<>>, HandleDefine(Head(localQueue))
  PROVE  TypeOK'
<1> DEFINE a == Head(localQueue)
<1> USE DEF Handles, managerVars, nameVars, graphVars, taskVars, execVars
<1>1. a \in Actions /\ a.op = "Define" /\ Tail(localQueue) \in Seq(Actions)
  BY HeadFacts DEF HandleDefine
<1>2. a.id \in TaskIDs /\ a.name \in Names
  <2>1. calls[1] = a /\ 1 \in DOMAIN calls
    BY HeadFacts
  <2> QED BY <1>1, <2>1 DEF CallsInv, CallOf, Actions
<1> HIDE DEF a
<1>3. CASE crashed'
  <2>1. ~crashed
    BY DEF HandleDefine, Idle
  <2>2. UNCHANGED <<nameVars, graphVars, taskVars>>
    BY <1>3, <2>1 DEF HandleDefine, a
  <2> QED BY <1>1, <1>3, <2>2 DEF HandleDefine, TypeOK, a
<1>4. CASE ~crashed'
  <2>1. /\ named' = named \cup {a.name}
        /\ nameTask' = [nameTask EXCEPT ![a.name] = a.id]
        /\ nameDependents' = [nameDependents EXCEPT ![a.name] = {}]
        /\ dependsOn' = [t \in TaskIDs |-> IF t \in nameDependents[a.name]
                                           THEN dependsOn[t] \cup {a.id}
                                           ELSE dependsOn[t]]
        /\ dependsOnUndefined' =
             [t \in TaskIDs |-> IF t \in nameDependents[a.name]
                                THEN dependsOnUndefined[t] \ {a.name}
                                ELSE dependsOnUndefined[t]]
        /\ dependedOnBy' = [dependedOnBy EXCEPT ![a.id] = nameDependents[a.name]]
        /\ state' = [state EXCEPT ![a.id] = "DepsUnknown"]
        /\ waitingTasks' = Plus(waitingTasks, 1)
        /\ UNCHANGED <<failuresReported, crashed>>
    BY <1>4 DEF HandleDefine, DependentsMoved, a
  <2>2. /\ named' \subseteq Names
        /\ nameTask' \in [Names -> TaskIDs \cup {NoTask}]
        /\ nameDependents' \in [Names -> SUBSET TaskIDs]
        /\ \A n \in Names : nameDependents'[n] # {} => n \in named' /\ nameTask'[n] = NoTask
    BY <1>2, <2>1 DEF TypeOK
  <2>3. /\ dependsOn' \in [TaskIDs -> SUBSET TaskIDs]
        /\ dependsOnUndefined' \in [TaskIDs -> SUBSET Names]
        /\ dependedOnBy' \in [TaskIDs -> SUBSET TaskIDs]
    BY <1>2, <2>1 DEF TypeOK
  <2>4. state' \in [TaskIDs -> TaskStates] /\ waitingTasks' \in 0 .. UINT_RANGE - 1
    BY <1>2, <2>1, CountTypes DEF TypeOK, TaskStates
  <2> QED BY <1>1, <2>1, <2>2, <2>3, <2>4 DEF HandleDefine, TypeOK, a
<1> QED BY <1>3, <1>4, Zenon DEF HandleDefine

\* HandleAction(SetDependenciesAction) keeps the types.
LEMMA SetDepsType ==
  ASSUME TypeOK, localQueue # <<>>, HandleSetDeps(Head(localQueue))
  PROVE  TypeOK'
<1> DEFINE a == Head(localQueue)
           undef == {n \in a.deps \cap named : nameTask[n] = NoTask}
           deps == {nameTask[n] : n \in {m \in a.deps \cap named : nameTask[m] # NoTask}}
<1> USE DEF Handles, managerVars, nameVars, graphVars, taskVars, execVars
<1>1. a \in Actions /\ Tail(localQueue) \in Seq(Actions)
  BY HeadFacts
<1>2. a.id \in TaskIDs /\ a.deps \subseteq Names
  BY <1>1 DEF Actions
<1>3. undef \subseteq Names /\ deps \subseteq TaskIDs
  BY <1>2 DEF TypeOK
<1>4. CASE MayChangeDependencies(a.id)
  <2>1. /\ named' = named \cup a.deps
        /\ dependedOnBy' = Redirected(dependedOnBy, a.id, dependsOn[a.id], deps)
        /\ nameDependents' = Redirected(nameDependents, a.id,
                                        dependsOnUndefined[a.id], undef)
        /\ dependsOn' = [dependsOn EXCEPT ![a.id] = deps]
        /\ dependsOnUndefined' = [dependsOnUndefined EXCEPT ![a.id] = undef]
        /\ failuresReported' = [failuresReported EXCEPT ![a.id] = {}]
        /\ state' = [state EXCEPT ![a.id] = "WaitingForDeps"]
        /\ requested' = [requested EXCEPT ![a.id] = a.deps]
        /\ stack' = Append(stack, EvaluateFrame(a.id, deps))
        /\ UNCHANGED nameTask
    BY <1>4 DEF HandleSetDeps, Push
  <2> HIDE DEF a
  <2>2. EvaluateFrame(a.id, deps) \in Frames /\ stack \in Seq(Frames)
    BY <1>2, <1>3, FrameTypes DEF TypeOK
  <2>3. stack' \in Seq(Frames)
    BY <2>1, <2>2, AppendProperties
  <2>4. /\ dependsOn' \in [TaskIDs -> SUBSET TaskIDs]
        /\ dependsOnUndefined' \in [TaskIDs -> SUBSET Names]
        /\ dependedOnBy' \in [TaskIDs -> SUBSET TaskIDs]
    BY <1>2, <1>3, <2>1 DEF TypeOK, Redirected
  <2>5. /\ nameDependents' \in [Names -> SUBSET TaskIDs]
        /\ named' \subseteq Names
    BY <1>2, <1>3, <2>1 DEF TypeOK, Redirected
  <2>6. ASSUME NEW n \in Names, nameDependents'[n] # {}
        PROVE  n \in named' /\ nameTask'[n] = NoTask
    <3>1. nameDependents[n] # {} \/ n \in undef
      BY <2>1, <2>6 DEF Redirected, TypeOK
    <3> QED BY <2>1, <3>1 DEF TypeOK
  <2>7. /\ failuresReported' \in [TaskIDs -> SUBSET TaskIDs]
        /\ state' \in [TaskIDs -> TaskStates]
        /\ requested' \in [TaskIDs -> SUBSET Names]
    BY <1>2, <2>1 DEF TypeOK, TaskStates
  <2> QED BY <1>1, <2>1, <2>3, <2>4, <2>5, <2>6, <2>7, ZenonT(60) DEF HandleSetDeps, TypeOK, a
<1>5. CASE ~MayChangeDependencies(a.id)
  <2>1. UNCHANGED <<nameVars, graphVars, failuresReported, state, requested, stack>>
    BY <1>5 DEF HandleSetDeps
  <2> QED BY <1>1, <2>1 DEF HandleSetDeps, TypeOK
<1> QED BY <1>4, <1>5

\* Completing and running a task keep the types.
LEMMA CompleteRunType ==
  ASSUME TypeOK, localQueue # <<>>,
         HandleComplete(Head(localQueue)) \/ HandleRun(Head(localQueue))
  PROVE  TypeOK'
<1> DEFINE a == Head(localQueue)
<1> USE DEF Handles, managerVars, nameVars, graphVars, execVars
<1>1. a \in Actions /\ Tail(localQueue) \in Seq(Actions)
  BY HeadFacts
<1>2. a.id \in TaskIDs /\ a.success \in BOOLEAN
  BY <1>1 DEF Actions
<1> HIDE DEF a
<1>3. CASE HandleComplete(a)
  <2>1. stack \in Seq(Frames)
    BY DEF TypeOK
  <2>2. /\ stack' \in Seq(Frames)
        /\ state' \in [TaskIDs -> TaskStates]
        /\ waitingTasks' \in 0 .. UINT_RANGE - 1
    BY <1>2, <1>3, <2>1, CompleteType DEF HandleComplete
  <2> QED BY <1>1, <1>3, <2>2 DEF HandleComplete, TypeOK, a
<1>4. CASE HandleRun(a)
  <2>1. state' \in [TaskIDs -> TaskStates]
    BY <1>2, <1>4 DEF HandleRun, TypeOK, TaskStates
  <2> QED BY <1>1, <1>4, <2>1 DEF HandleRun, TypeOK, a
<1> QED BY <1>3, <1>4 DEF a

\* A step in the loops of the handlers.
LoopStep ==
  \/ TellDependent
  \/ EndTelling
  \/ VisitDependency
  \/ \E reaction \in FailReactions : ReportFailure(reaction)
  \/ FailureReported
  \/ EvaluatedWaiting
  \/ \E reaction \in ReadyReactions : EvaluatedReady(reaction)

\* The loops and their callbacks keep the types.
LEMMA LoopType ==
  ASSUME TypeOK, FramesInv, LoopStep
  PROVE  TypeOK'
<1> USE DEF FrameOnly, TopIs, managerVars, nameVars, graphVars, taskVars, clientVars, execVars
<1>1. stack # <<>> /\ ~crashed
  BY DEF LoopStep, TellDependent, EndTelling, VisitDependency, ReportFailure,
         FailureReported, EvaluatedWaiting, EvaluatedReady
<1>2. Top \in Frames /\ Below \in Seq(Frames)
  BY <1>1, TopFacts
<1>3. /\ Top.task \in TaskIDs /\ Top.left \subseteq TaskIDs
      /\ Top.reporting \in TaskIDs \cup {NoTask}
  BY <1>2, FrameTypes
<1>4. \A f \in Frames : Append(Below, f) \in Seq(Frames)
                        /\ \A g \in Frames : Append(Append(Below, f), g) \in Seq(Frames)
  BY <1>2, AppendProperties
<1>5. /\ UNCHANGED <<managerVars, nameVars, graphVars, clientVars, execVars, localQueue>>
      /\ crashed' \in BOOLEAN
  <2>1. crashed \in BOOLEAN /\ \A t : MayChangeDependencies(t) \in BOOLEAN
    BY DEF TypeOK, MayChangeDependencies
  <2> QED BY <2>1 DEF LoopStep, TellDependent, EndTelling, VisitDependency,
                      ReportFailure, FailureReported, EvaluatedWaiting, EvaluatedReady
<1>6. /\ stack' \in Seq(Frames)
      /\ state' \in [TaskIDs -> TaskStates]
      /\ waitingTasks' \in 0 .. UINT_RANGE - 1
      /\ failuresReported' \in [TaskIDs -> SUBSET TaskIDs]
  <2>1. /\ state \in [TaskIDs -> TaskStates]
        /\ waitingTasks \in 0 .. UINT_RANGE - 1
        /\ failuresReported \in [TaskIDs -> SUBSET TaskIDs]
        /\ dependsOn \in [TaskIDs -> SUBSET TaskIDs]
    BY DEF TypeOK
  <2>2. CASE TellDependent
    <3>1. PICK d \in Top.left :
            stack' = Append(Append(Below, [Top EXCEPT !.left = @ \ {d}]),
                            EvaluateFrame(d, dependsOn[d]))
      BY <2>2 DEF TellDependent, Push
    <3>2. [Top EXCEPT !.left = @ \ {d}] \in Frames
      BY <1>2, FrameTypes
    <3>3. EvaluateFrame(d, dependsOn[d]) \in Frames
      BY <1>3, <2>1, FrameTypes
    <3> QED BY <1>4, <2>1, <2>2, <3>1, <3>2, <3>3 DEF TellDependent
  <2>3. CASE EndTelling
    BY <1>2, <2>1, <2>3 DEF EndTelling
  <2>4. CASE VisitDependency
    <3>1. PICK d \in Top.left :
            stack' = Append(Below, [Top EXCEPT !.left = @ \ {d},
                                      !.complete = IF state[d] = "Completed"
                                                   THEN @ + 1 ELSE @])
      BY <2>4 DEF VisitDependency, Push
    <3> DEFINE n == IF state[d] = "Completed" THEN Top.complete + 1 ELSE Top.complete
    <3>2. n \in 0 .. MaxTasks
      BY <1>1, <1>2, <2>4, CountBounded, FrameTypes DEF VisitDependency
    <3> HIDE DEF n
    <3>3. [Top EXCEPT !.left = @ \ {d}, !.complete = n] \in Frames
      BY <1>2, <3>2, FrameTypes
    <3>4. stack' \in Seq(Frames)
      BY <1>4, <3>1, <3>3 DEF n
    <3> QED BY <2>1, <2>4, <3>4 DEF VisitDependency
  <2>5. ASSUME NEW reaction \in FailReactions, ReportFailure(reaction) PROVE <1>6!:
    <3>1. PICK d \in Top.left :
            LET frames == Push(Below, [Top EXCEPT !.left = @ \ {d}, !.reporting = d])
            IN \/ stack' = frames /\ UNCHANGED <<state, waitingTasks>>
               \/ Complete(Top.task, FALSE, frames)
      BY <2>5 DEF ReportFailure
    <3>2. [Top EXCEPT !.left = @ \ {d}, !.reporting = d] \in Frames
      BY <1>2, <1>3, FrameTypes
    <3> DEFINE told == Append(Below, [Top EXCEPT !.left = @ \ {d}, !.reporting = d])
    <3>3. told \in Seq(Frames)
      BY <1>4, <3>2
    <3> HIDE DEF told
    <3>4. \/ stack' = told /\ UNCHANGED <<state, waitingTasks>>
          \/ Complete(Top.task, FALSE, told)
      BY <3>1 DEF told, Push
    <3>5. CASE Complete(Top.task, FALSE, told)
      <4>1. /\ stack' \in Seq(Frames)
            /\ state' \in [TaskIDs -> TaskStates]
            /\ waitingTasks' \in 0 .. UINT_RANGE - 1
        BY <1>3, <3>3, <3>5, CompleteType
      <4> QED BY <2>1, <2>5, <4>1 DEF ReportFailure
    <3> QED BY <2>1, <2>5, <3>3, <3>4, <3>5 DEF ReportFailure
  <2>6. CASE FailureReported
    <3>1. [Top EXCEPT !.reporting = NoTask] \in Frames
      BY <1>2, FrameTypes
    <3>2. stack' \in Seq(Frames)
      BY <1>4, <2>6, <3>1 DEF FailureReported, Push
    <3>3. failuresReported' \in [TaskIDs -> SUBSET TaskIDs]
      BY <1>3, <2>1, <2>6 DEF FailureReported
    <3> QED BY <2>1, <2>6, <3>2, <3>3 DEF FailureReported
  <2>7. CASE EvaluatedWaiting
    BY <1>2, <2>1, <2>7 DEF EvaluatedWaiting
  <2>8. ASSUME NEW reaction \in ReadyReactions, EvaluatedReady(reaction) PROVE <1>6!:
    <3> DEFINE f == NotifyFrame(Top.task, DependentsToTell(Top.task, TRUE))
    <3>1. f \in Frames
      BY <1>3, FrameTypes DEF DependentsToTell, TypeOK
    <3>2. Append(Below, f) \in Seq(Frames)
      BY <1>4, <3>1
    <3> HIDE DEF f
    <3>3. Minus(waitingTasks, 1) \in 0 .. UINT_RANGE - 1
      BY <2>1, CountTypes
    <3>4. \A s \in TaskStates : [state EXCEPT ![Top.task] = s] \in [TaskIDs -> TaskStates]
      BY <1>3, <2>1
    <3>5. {"Ready", "Running", "Completed"} \subseteq TaskStates
      BY DEF TaskStates
    <3> QED BY <1>2, <2>1, <2>8, <3>2, <3>3, <3>4, <3>5, ZenonT(60) DEF EvaluatedReady, Push, f
  <2> QED BY <2>2, <2>3, <2>4, <2>5, <2>6, <2>7, <2>8 DEF LoopStep
<1> QED BY <1>5, <1>6 DEF TypeOK

\* Every step keeps the types.
LEMMA TypeKept ==
  ASSUME TypeOK, CallsInv, FramesInv, [Next]_vars
  PROVE  TypeOK'
<1>1. CASE Clients \/ Wake \/ TerminationRequested
  BY <1>1, OutsideType
<1>2. CASE StartRound \/ StopRound \/ EndRound
  <2>1. <<>> \in Seq(Actions)
    BY EmptySeq
  <2> QED BY <1>2, <2>1 DEF StartRound, StopRound, EndRound, TypeOK, managerVars, nameVars,
                            graphVars, taskVars, clientVars
<1>3. CASE localQueue # <<>> /\ HandleDefine(Head(localQueue))
  BY <1>3, DefineType
<1>4. CASE localQueue # <<>> /\ HandleSetDeps(Head(localQueue))
  BY <1>4, SetDepsType
<1>5. CASE localQueue # <<>> /\ (HandleComplete(Head(localQueue)) \/ HandleRun(Head(localQueue)))
  BY <1>5, CompleteRunType
<1>6. CASE LoopStep
  BY <1>6, LoopType
<1>7. CASE UNCHANGED vars
  BY <1>7 DEF vars, managerVars, nameVars, graphVars, taskVars, clientVars, execVars, TypeOK
<1> QED BY <1>1, <1>2, <1>3, <1>4, <1>5, <1>6, <1>7 DEF Next, StartupThread, LoopStep

-----------------------------------------------------------------------------
(* Which tasks exist, and the queue                                        *)

\* Only a definition brings a task into being; only setting dependencies and
\* what follows from it changes the state of one.
StatesStay ==
  \A t \in TaskIDs :
    /\ state'[t] = "Unknown" <=> state[t] = "Unknown"
    /\ state'[t] = "DepsUnknown" => state[t] = "DepsUnknown"

\* A task that exists goes on existing, and its dependencies stay known.
LEMMA StatesKept ==
  ASSUME TypeOK, FramesInv, [Next]_vars,
         ~(localQueue # <<>> /\ HandleDefine(Head(localQueue)))
  PROVE  StatesStay
<1>1. state \in [TaskIDs -> TaskStates]
  BY DEF TypeOK
<1>2. ASSUME NEW t, NEW ok, NEW s, Complete(t, ok, s) PROVE StatesStay
  BY <1>1, <1>2 DEF StatesStay, Complete, MayComplete
<1>3. CASE Clients \/ Wake \/ TerminationRequested
  <2>1. state' = state
    BY <1>3, OutsideSteps DEF taskVars
  <2> QED BY <2>1 DEF StatesStay
<1>4. CASE StartRound \/ StopRound \/ EndRound
  BY <1>4 DEF StatesStay, StartRound, StopRound, EndRound, taskVars
<1>5. CASE localQueue # <<>> /\ HandleSetDeps(Head(localQueue))
  BY <1>1, <1>5 DEF StatesStay, HandleSetDeps, MayChangeDependencies
<1>6. CASE localQueue # <<>> /\ HandleComplete(Head(localQueue))
  <2>1. Complete(Head(localQueue).id, Head(localQueue).success, stack)
    BY <1>6 DEF HandleComplete
  <2> QED BY <1>2, <2>1 DEF StatesStay
<1>7. CASE localQueue # <<>> /\ HandleRun(Head(localQueue))
  <2> DEFINE t == Head(localQueue).id
  <2>1. state' = IF state[t] = "Ready" THEN [state EXCEPT ![t] = "Running"] ELSE state
    BY <1>7 DEF HandleRun
  <2> HIDE DEF t
  <2> QED BY <1>1, <2>1 DEF StatesStay
<1>8. CASE \E reaction \in FailReactions : ReportFailure(reaction)
  <2>1. state' = state \/ \E s : Complete(Top.task, FALSE, s)
    BY <1>8 DEF ReportFailure
  <2> QED BY <1>2, <2>1 DEF StatesStay
<1>9. CASE \E reaction \in ReadyReactions : EvaluatedReady(reaction)
  <2>1. stack # <<>>
    BY <1>9 DEF EvaluatedReady, TopIs
  <2>2. state[Top.task] # "Unknown"
    BY <2>1, TopFacts DEF FrameOf
  <2>3. \E s \in {"Ready", "Running", "Completed"} : state' = [state EXCEPT ![Top.task] = s]
    BY <1>9 DEF EvaluatedReady
  <2> QED BY <1>1, <2>2, <2>3 DEF StatesStay
<1>10. CASE TellDependent \/ EndTelling \/ VisitDependency \/ FailureReported
            \/ EvaluatedWaiting
  BY <1>10 DEF StatesStay, TellDependent, EndTelling, VisitDependency, FailureReported,
               EvaluatedWaiting, taskVars
<1>11. CASE UNCHANGED vars
  BY <1>11 DEF StatesStay, vars, taskVars
<1> QED BY <1>3, <1>4, <1>5, <1>6, <1>7, <1>8, <1>9, <1>10, <1>11 DEF Next, StartupThread

\* A call that is added comes last of all that wait.
LEMMA CallAdded ==
  ASSUME TypeOK, NEW a \in Actions, UNCHANGED localQueue,
         executorQueue' = Append(executorQueue, a)
  PROVE  /\ calls \in Seq(Actions) /\ Len(calls) \in Nat /\ DOMAIN calls = 1 .. Len(calls)
         /\ calls' = Append(calls, a)
         /\ DOMAIN calls' = 1 .. Len(calls) + 1
         /\ \A i \in 1 .. Len(calls) : calls'[i] = calls[i]
         /\ calls'[Len(calls) + 1] = a
<1>1. localQueue \in Seq(Actions) /\ executorQueue \in Seq(Actions) /\ <<a>> \in Seq(Actions)
  BY DEF TypeOK
<1>2. calls \in Seq(Actions)
  BY <1>1, ConcatProperties DEF calls
<1>3. /\ Append(executorQueue, a) = executorQueue \o <<a>>
      /\ Append(calls, a) = calls \o <<a>>
  BY <1>1, <1>2, AppendIsConcat
<1>4. (localQueue \o executorQueue) \o <<a>> = localQueue \o (executorQueue \o <<a>>)
  BY <1>1, ConcatAssociative
<1>5. calls' = Append(calls, a)
  BY <1>3, <1>4 DEF calls
<1>6. /\ Len(calls) \in Nat /\ DOMAIN calls = 1 .. Len(calls)
      /\ DOMAIN Append(calls, a) = 1 .. Len(calls) + 1
      /\ \A i \in 1 .. Len(calls) : Append(calls, a)[i] = calls[i]
      /\ Append(calls, a)[Len(calls) + 1] = a
  BY <1>2, Pushed
<1> QED BY <1>2, <1>5, <1>6

\* Every step keeps what is known of the calls that are queued.
LEMMA CallsKept ==
  ASSUME TypeOK, TypeOK', CallsInv, GraphInv, FramesInv, [Next]_vars
  PROVE  CallsInv'
<1> USE DEF managerVars, nameVars, graphVars, taskVars, clientVars, execVars
<1>1. calls \in Seq(Actions) /\ DOMAIN calls = 1 .. Len(calls) /\ Len(calls) \in Nat
  <2>1. calls \in Seq(Actions)
    BY ConcatProperties DEF calls, TypeOK
  <2> QED BY <2>1, LenProperties
<1>2. \A i \in DOMAIN calls : calls[i] \in Actions /\ calls[i].id \in TaskIDs
  <2>1. \A i \in 1 .. Len(calls) : calls[i] \in Actions
    BY <1>1, ElementOfSeq
  <2>2. \A a \in Actions : a.id \in TaskIDs
    BY DEF Actions
  <2> QED BY <1>1, <2>1, <2>2
<1>3. CASE Clients \/ Wake \/ TerminationRequested
  <2>1. localQueue' = localQueue /\ state' = state
    BY <1>3, OutsideSteps
  <2>2. exec' # "running" => localQueue' = <<>>
    <3>1. exec' # "running" => exec # "running"
      BY <1>3 DEF Clients, DefineStartupTask, SetStartupDependencies, RunTask, CompleteTask,
                  Enqueue, StartExecutor, Wake, TerminationRequested
    <3> QED BY <2>1, <3>1 DEF CallsInv
  <2>3. \A i \in DOMAIN calls : CallOf(calls[i], nextTaskId', defined', state')
    <3>1. /\ nextTaskId \in Nat /\ nextTaskId' \in Nat /\ nextTaskId' >= nextTaskId
          /\ \A k \in 1 .. nextTaskId : defined'[k] = defined[k]
      <4>1. nextTaskId \in Nat /\ defined \in Seq(Names) /\ Len(defined) = nextTaskId
        BY Numbers DEF TypeOK
      <4>2. CASE \E n \in Names : DefineStartupTask(n)
        <5>1. PICK n \in Names : DefineStartupTask(n)
          BY <4>2
        <5>2. defined' = Append(defined, n) /\ nextTaskId' = nextTaskId + 1
          BY <5>1 DEF DefineStartupTask
        <5> QED BY <4>1, <5>2, AppendProperties
      <4>3. CASE ~\E n \in Names : DefineStartupTask(n)
        <5>1. UNCHANGED <<nextTaskId, defined>>
          BY <1>3, <4>3 DEF Clients, SetStartupDependencies, RunTask, CompleteTask,
                            Enqueue, StartExecutor, Wake, TerminationRequested
        <5> QED BY <4>1, <5>1
      <4> QED BY <4>2, <4>3
    <3>2. ASSUME NEW a \in Actions, CallOf(a, nextTaskId, defined, state) PROVE CallOf(a, nextTaskId', defined', state')
      <4>1. a.id \in Nat /\ a.id < nextTaskId
        BY <3>2, Numbers DEF CallOf, Actions
      <4>2. a.id + 1 \in 1 .. nextTaskId
        BY <3>1, <4>1
      <4> QED BY <2>1, <3>1, <3>2, <4>1, <4>2 DEF CallOf
    <3> QED BY <1>2, <3>2 DEF CallsInv
  <2>4. CASE executorQueue' = executorQueue
    <3>1. calls' = calls
      BY <2>1, <2>4 DEF calls
    <3> QED BY <2>2, <2>3, <3>1 DEF CallsInv
  <2>5. ASSUME NEW a \in Actions, executorQueue' = Append(executorQueue, a), CallOf(a, nextTaskId', defined', state'),
               a.op = "Define" => a.id = nextTaskId
        PROVE  CallsInv'
    <3>1. /\ DOMAIN calls' = 1 .. Len(calls) + 1
          /\ \A i \in 1 .. Len(calls) : calls'[i] = calls[i]
          /\ calls'[Len(calls) + 1] = a
      BY <2>1, <2>5, CallAdded
    <3>2. \A i \in DOMAIN calls' : CallOf(calls'[i], nextTaskId', defined', state')
      <4> SUFFICES ASSUME NEW i \in DOMAIN calls' PROVE CallOf(calls'[i], nextTaskId', defined', state')
        OBVIOUS
      <4>1. CASE i = Len(calls) + 1
        BY <2>5, <3>1, <4>1
      <4>2. CASE i \in DOMAIN calls
        <5>1. calls'[i] = calls[i] /\ CallOf(calls[i], nextTaskId', defined', state')
          BY <1>1, <2>3, <3>1, <4>2
        <5> QED BY <5>1
      <4> QED BY <1>1, <3>1, <4>1, <4>2
    <3>3. ASSUME NEW i \in DOMAIN calls', NEW j \in DOMAIN calls',
                 calls'[i].op = "Define", calls'[j].op = "Define",
                 calls'[i].id = calls'[j].id
          PROVE  i = j
      <4>1. \A k \in 1 .. Len(calls) : calls[k].id < nextTaskId /\ calls[k].id \in Nat
        BY <1>1, <1>2, Numbers DEF CallsInv, CallOf
      <4>2. nextTaskId \in Nat
        BY Numbers DEF TypeOK
      <4>3. CASE i \in DOMAIN calls /\ j \in DOMAIN calls
        BY <1>1, <3>1, <3>3, <4>3 DEF CallsInv
      <4>4. CASE i = Len(calls) + 1 /\ j \in DOMAIN calls
        BY <1>1, <2>5, <3>1, <3>3, <4>1, <4>2, <4>4
      <4>5. CASE j = Len(calls) + 1 /\ i \in DOMAIN calls
        BY <1>1, <2>5, <3>1, <3>3, <4>1, <4>2, <4>5
      <4> QED BY <1>1, <3>1, <3>3, <4>3, <4>4, <4>5
    <3> QED BY <2>2, <3>2, <3>3 DEF CallsInv
  <2>6. ASSUME NEW n \in Names, DefineStartupTask(n) PROVE CallsInv'
    <3> DEFINE a == DefineAction(nextTaskId, n)
    <3>1. nextTaskId \in TaskIDs /\ nextTaskId \in Nat /\ nextTaskId' = nextTaskId + 1
      BY <2>6, Numbers DEF DefineStartupTask, TypeOK, TaskIDs
    <3>2. a \in Actions /\ executorQueue' = Append(executorQueue, a)
      BY <2>6, <3>1, ActionTypes DEF DefineStartupTask, Enqueue
    <3>3. a.id = nextTaskId /\ a.name = n /\ a.op = "Define"
      BY DEF DefineAction, Action
    <3>4. defined'[nextTaskId + 1] = n
      <4>1. defined' = Append(defined, n) /\ defined \in Seq(Names) /\ Len(defined) = nextTaskId
        BY <2>6 DEF DefineStartupTask, TypeOK
      <4> QED BY <4>1, AppendProperties
    <3>5. state[nextTaskId] = "Unknown"
      <4>1. Exists(nextTaskId) => nextTaskId < nextTaskId
        BY <3>1 DEF GraphInv
      <4> QED BY <3>1, <4>1 DEF Exists
    <3> HIDE DEF a
    <3>6. CallOf(a, nextTaskId', defined', state')
      BY <2>1, <3>1, <3>3, <3>4, <3>5 DEF CallOf
    <3> QED BY <2>5, <3>2, <3>3, <3>6
  <2>7. ASSUME NEW a \in Actions, executorQueue' = Append(executorQueue, a),
               a.op # "Define", a.id < nextTaskId, nextTaskId' = nextTaskId
        PROVE  CallsInv'
    <3>1. CallOf(a, nextTaskId', defined', state')
      BY <2>7 DEF CallOf
    <3> QED BY <2>5, <2>7, <3>1
  <2>8. ASSUME NEW t \in TaskIDs, NEW deps \in SUBSET Names, SetStartupDependencies(t, deps)
        PROVE  CallsInv'
    <3> DEFINE a == SetDepsAction(t, deps)
    <3>1. a \in Actions /\ a.op = "SetDeps" /\ a.id = t
      BY ActionTypes DEF SetDepsAction, Action
    <3>2. executorQueue' = Append(executorQueue, a) /\ t < nextTaskId /\ nextTaskId' = nextTaskId
      BY <2>8 DEF SetStartupDependencies, Enqueue
    <3> HIDE DEF a
    <3> QED BY <2>7, <3>1, <3>2
  <2>9. ASSUME NEW t \in TaskIDs, RunTask(t) PROVE CallsInv'
    <3> DEFINE a == RunAction(t)
    <3>1. a \in Actions /\ a.op = "Run" /\ a.id = t
      BY ActionTypes DEF RunAction, Action
    <3>2. executorQueue' = Append(executorQueue, a) /\ t < nextTaskId /\ nextTaskId' = nextTaskId
      BY <2>9 DEF RunTask, Enqueue, GraphInv, Exists
    <3> HIDE DEF a
    <3> QED BY <2>7, <3>1, <3>2
  <2>10. ASSUME NEW t \in TaskIDs, NEW ok \in BOOLEAN, CompleteTask(t, ok) PROVE CallsInv'
    <3> DEFINE a == CompleteAction(t, ok)
    <3>1. a \in Actions /\ a.op = "Complete" /\ a.id = t
      BY ActionTypes DEF CompleteAction, Action
    <3>2. executorQueue' = Append(executorQueue, a) /\ t < nextTaskId /\ nextTaskId' = nextTaskId
      BY <2>10 DEF CompleteTask, Enqueue, GraphInv, Exists
    <3> HIDE DEF a
    <3> QED BY <2>7, <3>1, <3>2
  <2>11. CASE StartExecutor \/ Wake \/ TerminationRequested
    BY <2>4, <2>11 DEF StartExecutor, Wake, TerminationRequested
  <2> QED BY <1>3, <2>6, <2>8, <2>9, <2>10, <2>11 DEF Clients
<1>4. CASE UNCHANGED <<executorQueue, localQueue, nextTaskId, defined>>
           /\ (exec' # "running" => exec # "running" \/ localQueue = <<>>)
           /\ \A t \in TaskIDs : state[t] = "Unknown" => state'[t] = "Unknown"
  <2>1. calls' = calls
    BY <1>4 DEF calls
  <2>2. ASSUME NEW i \in DOMAIN calls PROVE CallOf(calls[i], nextTaskId', defined', state')
    BY <1>2, <1>4 DEF CallsInv, CallOf
  <2> QED BY <1>4, <2>1, <2>2 DEF CallsInv
<1>5. CASE StartRound
  <2>1. localQueue = <<>>
    BY <1>5 DEF StartRound, CallsInv
  <2>2. calls' = calls
    <3>1. executorQueue \in Seq(Actions)
      BY DEF TypeOK
    <3>2. <<>> \o executorQueue = executorQueue /\ executorQueue \o <<>> = executorQueue
      BY <3>1, ConcatEmptySeq
    <3> QED BY <1>5, <2>1, <3>2 DEF StartRound, calls
  <2>3. exec' = "running" /\ UNCHANGED <<nextTaskId, defined, state>>
    BY <1>5 DEF StartRound
  <2>4. \A a \in Actions : CallOf(a, nextTaskId, defined, state) => CallOf(a, nextTaskId', defined', state')
    BY <2>3 DEF CallOf
  <2> QED BY <1>2, <2>2, <2>3, <2>4 DEF CallsInv
<1>6. CASE StopRound \/ EndRound
  BY <1>4, <1>6 DEF StopRound, EndRound
<1>7. CASE LoopStep
  <2>1. UNCHANGED <<executorQueue, localQueue, nextTaskId, defined, exec>>
    BY <1>7 DEF LoopStep, TellDependent, EndTelling, VisitDependency, ReportFailure,
                FailureReported, EvaluatedWaiting, EvaluatedReady, FrameOnly
  <2>2. stack # <<>>
    BY <1>7 DEF LoopStep, TellDependent, EndTelling, VisitDependency, ReportFailure,
                FailureReported, EvaluatedWaiting, EvaluatedReady, TopIs
  <2>3. \A t \in TaskIDs : state'[t] = "Unknown" <=> state[t] = "Unknown"
    <3>1. ~(localQueue # <<>> /\ HandleDefine(Head(localQueue)))
      BY <2>2 DEF HandleDefine, Handles, Idle
    <3> QED BY <3>1, StatesKept DEF StatesStay
  <2> QED BY <1>4, <2>1, <2>3
<1>8. CASE UNCHANGED vars
  BY <1>4, <1>8 DEF vars
<1>9. ASSUME localQueue # <<>>, NEW op, Handles(op, Head(localQueue)),
             UNCHANGED nextTaskId,
             \A i \in DOMAIN calls : i # 1 /\ calls[i].op = "Define" =>
               state'[calls[i].id] = "Unknown"
      PROVE  CallsInv'
  <2>1. calls' = Tail(calls) /\ exec = "running" /\ UNCHANGED <<exec, nextTaskId, defined>>
    BY <1>9, HeadFacts DEF Handles, calls
  <2>2. /\ Len(calls) \in Nat \ {0} /\ DOMAIN calls' = 1 .. Len(calls) - 1
        /\ \A i \in 1 .. Len(calls) - 1 : calls'[i] = calls[i + 1]
    BY <1>1, <1>9, <2>1, HeadFacts, Taken
  <2>3. \A i \in DOMAIN calls' : i + 1 \in DOMAIN calls /\ i + 1 # 1 /\ calls'[i] = calls[i + 1]
    BY <1>1, <2>2
  <2>4. ASSUME NEW i \in DOMAIN calls, i # 1 PROVE CallOf(calls[i], nextTaskId', defined', state')
    BY <1>9, <2>1, <2>4 DEF CallsInv, CallOf
  <2>5. ASSUME NEW i \in DOMAIN calls' PROVE CallOf(calls'[i], nextTaskId', defined', state')
    <3>1. CallOf(calls[i + 1], nextTaskId', defined', state') /\ calls'[i] = calls[i + 1]
      BY <2>3, <2>4
    <3> QED BY <3>1
  <2>6. ASSUME NEW i \in DOMAIN calls', NEW j \in DOMAIN calls',
               calls'[i].op = "Define", calls'[j].op = "Define",
               calls'[i].id = calls'[j].id
        PROVE  i = j
    <3>1. i + 1 = j + 1
      BY <2>3, <2>6 DEF CallsInv
    <3> QED BY <2>2, <3>1
  <2> QED BY <2>1, <2>5, <2>6 DEF CallsInv
<1>10. CASE localQueue # <<>> /\ HandleDefine(Head(localQueue))
  <2> DEFINE a == Head(localQueue)
  <2>1. a = calls[1] /\ 1 \in DOMAIN calls /\ a.op = "Define" /\ Handles("Define", a)
        /\ UNCHANGED nextTaskId
    BY <1>10, HeadFacts DEF HandleDefine, Handles
  <2>2. state' = state \/ state' = [state EXCEPT ![a.id] = "DepsUnknown"]
    BY <1>10 DEF HandleDefine
  <2> HIDE DEF a
  <2>3. ASSUME NEW i \in DOMAIN calls, i # 1, calls[i].op = "Define"
        PROVE  state'[calls[i].id] = "Unknown"
    <3>1. calls[i].id # a.id /\ calls[i].id \in TaskIDs
      BY <1>2, <2>1, <2>3 DEF CallsInv
    <3>2. state[calls[i].id] = "Unknown"
      BY <2>3 DEF CallsInv, CallOf
    <3> QED BY <2>2, <3>1, <3>2 DEF TypeOK
  <2> QED BY <1>9, <1>10, <2>1, <2>3 DEF a
<1>11. CASE /\ localQueue # <<>>
            /\ \/ HandleSetDeps(Head(localQueue))
               \/ HandleComplete(Head(localQueue))
               \/ HandleRun(Head(localQueue))
  <2>1. PICK op \in {"SetDeps", "Complete", "Run"} : Handles(op, Head(localQueue))
    BY <1>11 DEF HandleSetDeps, HandleComplete, HandleRun
  <2>2. ~(localQueue # <<>> /\ HandleDefine(Head(localQueue)))
    BY <2>1 DEF HandleDefine, Handles
  <2>3. \A i \in DOMAIN calls : calls[i].op = "Define" => state'[calls[i].id] = "Unknown"
    BY <1>2, <2>2, StatesKept DEF StatesStay, CallsInv, CallOf
  <2> QED BY <1>9, <1>11, <2>1, <2>3 DEF Handles
<1> QED BY <1>3, <1>5, <1>6, <1>7, <1>8, <1>10, <1>11 DEF Next, StartupThread, LoopStep

-----------------------------------------------------------------------------
(* The graph of dependencies                                               *)

\* Tasks keep the names they were defined for.
LEMMA DefinedKept ==
  ASSUME TypeOK, [Next]_vars
  PROVE  /\ nextTaskId \in Nat /\ nextTaskId' \in Nat /\ nextTaskId' >= nextTaskId
         /\ \A t \in TaskIDs : t < nextTaskId => defined'[t + 1] = defined[t + 1]
<1> USE DEF managerVars, nameVars, graphVars, taskVars, clientVars, execVars
<1>1. /\ nextTaskId \in Nat /\ defined \in Seq(Names) /\ Len(defined) = nextTaskId
      /\ TaskIDs \subseteq Nat
  BY Numbers DEF TypeOK
<1>2. CASE \E n \in Names : DefineStartupTask(n)
  <2>1. PICK n \in Names : defined' = Append(defined, n) /\ nextTaskId' = nextTaskId + 1
    BY <1>2 DEF DefineStartupTask
  <2>2. \A k \in 1 .. nextTaskId : defined'[k] = defined[k]
    BY <1>1, <2>1, AppendProperties
  <2>3. \A t \in TaskIDs : t < nextTaskId => t + 1 \in 1 .. nextTaskId
    BY <1>1
  <2> QED BY <1>1, <2>1, <2>2, <2>3
<1>3. CASE UNCHANGED <<nextTaskId, defined>>
  BY <1>1, <1>3
<1>4. CASE Clients /\ ~\E n \in Names : DefineStartupTask(n)
  BY <1>3, <1>4 DEF Clients, SetStartupDependencies, RunTask, CompleteTask, Enqueue,
                    StartExecutor
<1>5. CASE StartupThread
  BY <1>3, <1>5 DEF StartupThread, StartRound, StopRound, EndRound, HandleDefine,
                    HandleSetDeps, HandleComplete, HandleRun, Handles, TellDependent,
                    EndTelling, VisitDependency, ReportFailure, FailureReported,
                    EvaluatedWaiting, EvaluatedReady, FrameOnly
<1>6. CASE Wake \/ TerminationRequested \/ UNCHANGED vars
  BY <1>3, <1>6 DEF Wake, TerminationRequested, vars
<1> QED BY <1>2, <1>4, <1>5, <1>6 DEF Next

\* The graph changes in two handlers only.
LEMMA GraphSteps ==
  ASSUME TypeOK, [Next]_vars, ~UNCHANGED <<nameVars, graphVars>>
  PROVE  /\ localQueue # <<>>
         /\ HandleDefine(Head(localQueue)) \/ HandleSetDeps(Head(localQueue))
<1> USE DEF managerVars, nameVars, graphVars, taskVars, clientVars, execVars
<1>1. ~(Clients \/ Wake \/ TerminationRequested)
  BY OutsideSteps
<1>2. ~UNCHANGED vars
  BY DEF vars
<1>3. ~(StartRound \/ StopRound \/ EndRound)
  BY DEF StartRound, StopRound, EndRound
<1>4. ~LoopStep
  BY DEF LoopStep, TellDependent, EndTelling, VisitDependency, ReportFailure,
         FailureReported, EvaluatedWaiting, EvaluatedReady, FrameOnly
<1>5. ~(HandleComplete(Head(localQueue)) \/ HandleRun(Head(localQueue)))
  BY DEF HandleComplete, HandleRun
<1> QED BY <1>1, <1>2, <1>3, <1>4, <1>5 DEF Next, StartupThread, LoopStep

\* What a definition does unless it ends the process.
LEMMA DefineSteps ==
  ASSUME TypeOK, CallsInv, localQueue # <<>>, HandleDefine(Head(localQueue))
  PROVE  \E t \in TaskIDs, n \in Names :
           /\ t < nextTaskId /\ n = defined[t + 1] /\ state[t] = "Unknown"
           /\ calls[1].id = t /\ calls[1].name = n /\ 1 \in DOMAIN calls
           /\ calls[1].op = "Define"
           /\ \/ /\ crashed' = TRUE
                 /\ n \in named /\ nameTask[n] # NoTask
                 /\ UNCHANGED <<nameVars, graphVars, taskVars>>
              \/ /\ UNCHANGED <<crashed, failuresReported>>
                 /\ nameTask' = [nameTask EXCEPT ![n] = t]
                 /\ nameDependents' = [nameDependents EXCEPT ![n] = {}]
                 /\ dependsOn' = [u \in TaskIDs |-> IF u \in nameDependents[n]
                                                    THEN dependsOn[u] \cup {t}
                                                    ELSE dependsOn[u]]
                 /\ dependsOnUndefined' =
                      [u \in TaskIDs |-> IF u \in nameDependents[n]
                                         THEN dependsOnUndefined[u] \ {n}
                                         ELSE dependsOnUndefined[u]]
                 /\ dependedOnBy' = [dependedOnBy EXCEPT ![t] = nameDependents[n]]
                 /\ state' = [state EXCEPT ![t] = "DepsUnknown"]
                 /\ waitingTasks' = Plus(waitingTasks, 1)
           /\ stack = <<>> /\ ~crashed
           /\ UNCHANGED <<stack, requested, defined, nextTaskId>>
<1> DEFINE a == Head(localQueue)
<1>1. a \in Actions /\ a = calls[1] /\ 1 \in DOMAIN calls /\ a.op = "Define"
  BY HeadFacts DEF HandleDefine, Handles
<1>2. a.id \in TaskIDs /\ CallOf(a, nextTaskId, defined, state)
  BY <1>1 DEF CallsInv, Actions
<1>3. a.id < nextTaskId /\ a.name = defined[a.id + 1] /\ a.name \in Names /\ state[a.id] = "Unknown"
  BY <1>1, <1>2 DEF CallOf
<1>4. stack = <<>> /\ ~crashed /\ UNCHANGED <<stack, requested, defined, nextTaskId>>
  BY DEF HandleDefine, Handles, Idle, managerVars
<1>5. CASE a.name \in named /\ nameTask[a.name] # NoTask
  <2>1. crashed' = TRUE /\ UNCHANGED <<nameVars, graphVars, taskVars>>
    BY <1>5 DEF HandleDefine
  <2> HIDE DEF a
  <2> QED BY <1>1, <1>2, <1>3, <1>4, <1>5, <2>1
<1>6. CASE ~(a.name \in named /\ nameTask[a.name] # NoTask)
  <2>1. /\ UNCHANGED <<crashed, failuresReported>>
        /\ nameTask' = [nameTask EXCEPT ![a.name] = a.id]
        /\ nameDependents' = [nameDependents EXCEPT ![a.name] = {}]
        /\ dependsOn' = [u \in TaskIDs |-> IF u \in nameDependents[a.name]
                                           THEN dependsOn[u] \cup {a.id}
                                           ELSE dependsOn[u]]
        /\ dependsOnUndefined' =
             [u \in TaskIDs |-> IF u \in nameDependents[a.name]
                                THEN dependsOnUndefined[u] \ {a.name}
                                ELSE dependsOnUndefined[u]]
        /\ dependedOnBy' = [dependedOnBy EXCEPT ![a.id] = nameDependents[a.name]]
        /\ state' = [state EXCEPT ![a.id] = "DepsUnknown"]
        /\ waitingTasks' = Plus(waitingTasks, 1)
    BY <1>6 DEF HandleDefine, DependentsMoved
  <2> HIDE DEF a
  <2> QED BY <1>1, <1>2, <1>3, <1>4, <2>1
<1> QED BY <1>5, <1>6

\* What setting dependencies does: task t, made to depend on names, depends on
\* tasks deps and on names undef that have none yet.
DependenciesSet(t, names, deps, undef) ==
  /\ calls[1].id = t /\ calls[1].deps = names /\ 1 \in DOMAIN calls
  /\ undef \subseteq names
  /\ \A n \in undef : nameTask[n] = NoTask
  /\ \A d \in deps : \E n \in names : nameTask[n] = d /\ d # NoTask
  /\ MayChangeDependencies(t)
  /\ dependedOnBy' = Redirected(dependedOnBy, t, dependsOn[t], deps)
  /\ nameDependents' = Redirected(nameDependents, t, dependsOnUndefined[t], undef)
  /\ dependsOn' = [dependsOn EXCEPT ![t] = deps]
  /\ dependsOnUndefined' = [dependsOnUndefined EXCEPT ![t] = undef]
  /\ failuresReported' = [failuresReported EXCEPT ![t] = {}]
  /\ state' = [state EXCEPT ![t] = "WaitingForDeps"]
  /\ stack = <<>> /\ stack' = Append(stack, EvaluateFrame(t, deps))
  /\ UNCHANGED <<nameTask, crashed, waitingTasks, defined, nextTaskId>>

\* A step of HandleAction(SetDependenciesAction) that changes the graph.
LEMMA SetDepsSteps ==
  ASSUME TypeOK, CallsInv, localQueue # <<>>, HandleSetDeps(Head(localQueue)),
         ~UNCHANGED <<nameVars, graphVars>>
  PROVE  \E t \in TaskIDs, names \in SUBSET Names, deps \in SUBSET TaskIDs,
            undef \in SUBSET Names : DependenciesSet(t, names, deps, undef)
<1> DEFINE a == Head(localQueue)
           undef == {n \in a.deps \cap named : nameTask[n] = NoTask}
           deps == {nameTask[n] : n \in {m \in a.deps \cap named : nameTask[m] # NoTask}}
<1>1. a \in Actions /\ a = calls[1] /\ 1 \in DOMAIN calls
  BY HeadFacts
<1>2. a.id \in TaskIDs /\ a.deps \in SUBSET Names
  BY <1>1 DEF Actions
<1>3. /\ undef \in SUBSET Names /\ undef \subseteq a.deps
      /\ \A n \in undef : nameTask[n] = NoTask
  BY <1>2
<1>4. /\ deps \in SUBSET TaskIDs
      /\ \A d \in deps : \E n \in a.deps : nameTask[n] = d /\ d # NoTask
  BY <1>2 DEF TypeOK
<1>5. MayChangeDependencies(a.id)
  BY DEF HandleSetDeps, nameVars, graphVars
<1>6. /\ dependedOnBy' = Redirected(dependedOnBy, a.id, dependsOn[a.id], deps)
      /\ nameDependents' = Redirected(nameDependents, a.id, dependsOnUndefined[a.id], undef)
      /\ dependsOn' = [dependsOn EXCEPT ![a.id] = deps]
      /\ dependsOnUndefined' = [dependsOnUndefined EXCEPT ![a.id] = undef]
      /\ failuresReported' = [failuresReported EXCEPT ![a.id] = {}]
      /\ state' = [state EXCEPT ![a.id] = "WaitingForDeps"]
      /\ stack = <<>> /\ stack' = Append(stack, EvaluateFrame(a.id, deps))
      /\ UNCHANGED <<nameTask, crashed, waitingTasks, defined, nextTaskId>>
  BY <1>5 DEF HandleSetDeps, Handles, Idle, Push, managerVars
<1> HIDE DEF a, undef, deps
<1>7. DependenciesSet(a.id, a.deps, deps, undef)
  BY <1>1, <1>3, <1>4, <1>5, <1>6 DEF DependenciesSet
<1> QED BY <1>2, <1>3, <1>4, <1>7


\* Every step keeps both sides of the graph of dependencies.
LEMMA GraphKept ==
  ASSUME TypeOK, TypeOK', CallsInv, GraphInv, FramesInv, [Next]_vars
  PROVE  GraphInv'
<1> USE DEF nameVars, graphVars
<1>1. /\ nextTaskId \in Nat /\ nextTaskId' \in Nat /\ nextTaskId' >= nextTaskId
      /\ \A t \in TaskIDs : t < nextTaskId => defined'[t + 1] = defined[t + 1]
      /\ TaskIDs \subseteq Nat
  BY DefinedKept, Numbers
<1>2. /\ \A t, d \in TaskIDs : d \in dependsOn[t] <=> t \in dependedOnBy[d]
      /\ \A t \in TaskIDs, n \in Names :
           n \in dependsOnUndefined[t] <=> t \in nameDependents[n]
  BY DEF GraphInv, GraphSymmetric
<1>3. \A t \in TaskIDs :
        /\ Exists(t) => t < nextTaskId
        /\ dependsOn[t] # {} \/ dependsOnUndefined[t] # {} =>
             Exists(t) /\ state[t] # "DepsUnknown"
        /\ \A d \in dependsOn[t] : Exists(d)
  BY DEF GraphInv
<1>4. \A n \in Names : nameTask[n] # NoTask =>
        Exists(nameTask[n]) /\ defined[nameTask[n] + 1] = n
  BY DEF GraphInv
<1>5. /\ dependsOn \in [TaskIDs -> SUBSET TaskIDs]
      /\ dependedOnBy \in [TaskIDs -> SUBSET TaskIDs]
      /\ dependsOnUndefined \in [TaskIDs -> SUBSET Names]
      /\ nameDependents \in [Names -> SUBSET TaskIDs]
      /\ nameTask \in [Names -> TaskIDs \cup {NoTask}]
      /\ state \in [TaskIDs -> TaskStates]
  BY DEF TypeOK
<1>6. CASE UNCHANGED <<nameVars, graphVars>>
  <2>1. StatesStay \/ \E t \in TaskIDs : state[t] = "Unknown" /\ state' = state
    <3>1. CASE localQueue # <<>> /\ HandleDefine(Head(localQueue))
      <4>1. PICK t \in TaskIDs, n \in Names :
              /\ state[t] = "Unknown"
              /\ state' = state \/ nameTask' = [nameTask EXCEPT ![n] = t]
        BY <3>1, DefineSteps DEF taskVars
      <4>2. ASSUME nameTask' = [nameTask EXCEPT ![n] = t] PROVE FALSE
        <5>1. nameTask[n] = t
          BY <1>5, <1>6, <4>2
        <5> QED BY <1>4, <4>1, <5>1, Numbers DEF Exists
      <4> QED BY <4>1, <4>2
    <3> QED BY <3>1, StatesKept
  <2>2. \A t \in TaskIDs :
          /\ state'[t] = "Unknown" <=> state[t] = "Unknown"
          /\ state'[t] = "DepsUnknown" => state[t] = "DepsUnknown"
    BY <2>1 DEF StatesStay
  <2>3. GraphSymmetric'
    BY <1>2, <1>6 DEF GraphSymmetric
  <2>4. \A t \in TaskIDs :
          /\ Exists(t)' => t < nextTaskId'
          /\ dependsOn'[t] # {} \/ dependsOnUndefined'[t] # {} =>
               Exists(t)' /\ state'[t] # "DepsUnknown"
          /\ \A d \in dependsOn'[t] : Exists(d)'
    <3> SUFFICES ASSUME NEW t \in TaskIDs
                 PROVE  /\ Exists(t)' => t < nextTaskId'
                        /\ dependsOn'[t] # {} \/ dependsOnUndefined'[t] # {} =>
                             Exists(t)' /\ state'[t] # "DepsUnknown"
                        /\ \A d \in dependsOn'[t] : Exists(d)'
      OBVIOUS
    <3>1. Exists(t)' => t < nextTaskId'
      BY <1>1, <1>3, <2>2 DEF Exists
    <3>2. dependsOn'[t] # {} \/ dependsOnUndefined'[t] # {} =>
            Exists(t)' /\ state'[t] # "DepsUnknown"
      BY <1>3, <1>6, <2>2 DEF Exists
    <3>3. \A d \in dependsOn'[t] : d \in TaskIDs /\ Exists(d)'
      BY <1>3, <1>5, <1>6, <2>2 DEF Exists
    <3> QED BY <3>1, <3>2, <3>3
  <2>5. ASSUME NEW n \in Names, nameTask'[n] # NoTask
        PROVE  Exists(nameTask[n])' /\ defined'[nameTask'[n] + 1] = n
    <3>1. /\ nameTask'[n] = nameTask[n] /\ nameTask[n] \in TaskIDs
          /\ Exists(nameTask[n]) /\ defined[nameTask[n] + 1] = n
      BY <1>4, <1>5, <1>6, <2>5
    <3>2. nameTask[n] < nextTaskId
      BY <1>3, <3>1
    <3> QED BY <1>1, <2>2, <3>1, <3>2 DEF Exists
  <2> QED BY <2>3, <2>4, <2>5 DEF GraphInv
<1>7. CASE /\ ~UNCHANGED <<nameVars, graphVars>>
           /\ localQueue # <<>> /\ HandleDefine(Head(localQueue))
  <2>1. PICK t \in TaskIDs, n \in Names :
          /\ t < nextTaskId /\ n = defined[t + 1] /\ state[t] = "Unknown"
          /\ nameTask' = [nameTask EXCEPT ![n] = t]
          /\ nameDependents' = [nameDependents EXCEPT ![n] = {}]
          /\ dependsOn' = [u \in TaskIDs |-> IF u \in nameDependents[n]
                                             THEN dependsOn[u] \cup {t}
                                             ELSE dependsOn[u]]
          /\ dependsOnUndefined' =
               [u \in TaskIDs |-> IF u \in nameDependents[n]
                                  THEN dependsOnUndefined[u] \ {n}
                                  ELSE dependsOnUndefined[u]]
          /\ dependedOnBy' = [dependedOnBy EXCEPT ![t] = nameDependents[n]]
          /\ state' = [state EXCEPT ![t] = "DepsUnknown"]
          /\ UNCHANGED <<defined, nextTaskId>>
    BY <1>7, DefineSteps
  <2>2. /\ dependedOnBy[t] = {} /\ dependsOn[t] = {} /\ dependsOnUndefined[t] = {}
        /\ t \notin nameDependents[n]
    BY <1>2, <1>3, <1>5, <2>1 DEF Exists
  <2>3. \A u \in TaskIDs : state'[u] = IF u = t THEN "DepsUnknown" ELSE state[u]
    BY <1>5, <2>1
  <2>4. \A u, d \in TaskIDs : d \in dependsOn'[u] <=> u \in dependedOnBy'[d]
    BY <1>2, <1>5, <2>1, <2>2
  <2>5. \A u \in TaskIDs, m \in Names :
          m \in dependsOnUndefined'[u] <=> u \in nameDependents'[m]
    BY <1>2, <1>5, <2>1
  <2>6. ASSUME NEW u \in TaskIDs
        PROVE  /\ Exists(u)' => u < nextTaskId'
               /\ dependsOn'[u] # {} \/ dependsOnUndefined'[u] # {} =>
                    Exists(u)' /\ state'[u] # "DepsUnknown"
               /\ \A d \in dependsOn'[u] : Exists(d)'
    <3>1. Exists(u)' => u < nextTaskId'
      BY <1>3, <2>1, <2>3 DEF Exists
    <3>2. \A d \in dependsOn'[u] : Exists(d)'
      <4>1. \A d \in dependsOn'[u] : d = t \/ d \in dependsOn[u]
        BY <2>1
      <4> QED BY <1>3, <1>5, <2>3, <4>1 DEF Exists
    <3>3. ASSUME dependsOn'[u] # {} \/ dependsOnUndefined'[u] # {}
          PROVE  Exists(u)' /\ state'[u] # "DepsUnknown"
      <4>1. u # t
        BY <2>1, <2>2, <3>3
      <4>2. u \in nameDependents[n] => n \in dependsOnUndefined[u]
        BY <1>2
      <4>3. dependsOn[u] # {} \/ dependsOnUndefined[u] # {}
        BY <2>1, <3>3, <4>2
      <4> QED BY <1>3, <2>3, <4>1, <4>3 DEF Exists
    <3> QED BY <3>1, <3>2, <3>3
  <2>7. ASSUME NEW m \in Names, nameTask'[m] # NoTask
        PROVE  /\ nameTask'[m] \in TaskIDs /\ state'[nameTask'[m]] # "Unknown"
               /\ defined'[nameTask'[m] + 1] = m
    <3>1. CASE m = n
      BY <1>5, <2>1, <2>3, <3>1
    <3>2. CASE m # n
      BY <1>4, <1>5, <2>1, <2>3, <2>7, <3>2 DEF Exists
    <3> QED BY <3>1, <3>2
  <2> QED BY <2>4, <2>5, <2>6, <2>7 DEF GraphInv, GraphSymmetric, Exists
<1>8. CASE /\ ~UNCHANGED <<nameVars, graphVars>>
           /\ localQueue # <<>> /\ HandleSetDeps(Head(localQueue))
  <2>1. PICK t \in TaskIDs, names \in SUBSET Names, deps \in SUBSET TaskIDs,
             undef \in SUBSET Names : DependenciesSet(t, names, deps, undef)
    BY <1>8, SetDepsSteps
  <2> USE DEF DependenciesSet
  <2>2. \A u \in TaskIDs :
          /\ state'[u] = IF u = t THEN "WaitingForDeps" ELSE state[u]
          /\ dependsOn'[u] = IF u = t THEN deps ELSE dependsOn[u]
          /\ dependsOnUndefined'[u] = IF u = t THEN undef ELSE dependsOnUndefined[u]
          /\ dependedOnBy'[u] = (IF u \in dependsOn[t] THEN dependedOnBy[u] \ {t}
                                                       ELSE dependedOnBy[u])
                                  \cup (IF u \in deps THEN {t} ELSE {})
    BY <1>5, <2>1 DEF Redirected
  <2>3. \A n \in Names :
          nameDependents'[n] = (IF n \in dependsOnUndefined[t] THEN nameDependents[n] \ {t}
                                                               ELSE nameDependents[n])
                                 \cup (IF n \in undef THEN {t} ELSE {})
    BY <1>5, <2>1 DEF Redirected
  <2>4. \A u, d \in TaskIDs : d \in dependsOn'[u] <=> u \in dependedOnBy'[d]
    BY <1>2, <2>2
  <2>5. \A u \in TaskIDs, m \in Names :
          m \in dependsOnUndefined'[u] <=> u \in nameDependents'[m]
    BY <1>2, <2>2, <2>3
  <2>6. state[t] # "Unknown"
    BY <2>1 DEF MayChangeDependencies
  <2>7. \A d \in deps : Exists(d)
    BY <1>4, <2>1
  <2>8. ASSUME NEW u \in TaskIDs
        PROVE  /\ Exists(u)' => u < nextTaskId'
               /\ dependsOn'[u] # {} \/ dependsOnUndefined'[u] # {} =>
                    Exists(u)' /\ state'[u] # "DepsUnknown"
               /\ \A d \in dependsOn'[u] : Exists(d)'
    <3>1. Exists(u)' => u < nextTaskId'
      BY <1>3, <2>1, <2>2, <2>6 DEF Exists
    <3>2. \A d \in dependsOn'[u] : Exists(d)'
      <4>1. \A d \in dependsOn'[u] : d \in TaskIDs /\ Exists(d)
        BY <1>3, <1>5, <2>2, <2>7
      <4> QED BY <2>2, <4>1 DEF Exists
    <3>3. dependsOn'[u] # {} \/ dependsOnUndefined'[u] # {} =>
            Exists(u)' /\ state'[u] # "DepsUnknown"
      BY <1>3, <2>2 DEF Exists
    <3> QED BY <3>1, <3>2, <3>3
  <2>9. ASSUME NEW m \in Names, nameTask'[m] # NoTask
        PROVE  /\ nameTask'[m] \in TaskIDs /\ state'[nameTask'[m]] # "Unknown"
               /\ defined'[nameTask'[m] + 1] = m
    BY <1>4, <1>5, <2>1, <2>2, <2>9 DEF Exists
  <2> QED BY <2>4, <2>5, <2>8, <2>9 DEF GraphInv, GraphSymmetric, Exists
<1> QED BY <1>6, <1>7, <1>8, GraphSteps

-----------------------------------------------------------------------------
(* What a step in a loop of a handler does to the stack                    *)

Depth == Len(stack)

LoopFrame ==
  /\ Depth \in Nat \ {0} /\ DOMAIN stack = 1 .. Depth
  /\ Top = stack[Depth] /\ Top \in Frames /\ FrameOf(Top, state, dependsOn, dependedOnBy)
  /\ \A i \in 1 .. Depth - 1 : stack'[i] = stack[i]
  /\ ~crashed
  /\ UNCHANGED <<managerVars, nameVars, graphVars, clientVars, execVars, localQueue>>

\* A dependent d of the task that ended is evaluated.
Told(d) ==
  /\ Top.fn = "Notify" /\ d \in Top.left
  /\ DOMAIN stack' = 1 .. Depth + 1
  /\ stack'[Depth] = [Top EXCEPT !.left = @ \ {d}]
  /\ stack'[Depth + 1] = EvaluateFrame(d, dependsOn[d])
  /\ UNCHANGED <<taskVars, crashed>>

\* A loop ended.
Returned ==
  /\ \/ Top.fn = "Notify" /\ Top.left = {}
     \/ Top.fn = "Evaluate" /\ Evaluated(Top) /\ ~AllComplete(Top)
  /\ DOMAIN stack' = 1 .. Depth - 1
  /\ UNCHANGED <<taskVars, crashed>>

\* Dependency d was looked at.
Visited(d) ==
  /\ Top.fn = "Evaluate" /\ Top.reporting = NoTask
  /\ d \in Top.left /\ ~NewFailure(Top.task, d)
  /\ DOMAIN stack' = 1 .. Depth
  /\ stack'[Depth] = [Top EXCEPT !.left = @ \ {d},
                        !.complete = IF state[d] = "Completed" THEN @ + 1 ELSE @]
  /\ UNCHANGED <<taskVars, crashed>>

\* The failure of dependency d is reported; the listener may fail the task.
Reported(d) ==
  /\ Top.fn = "Evaluate" /\ Top.reporting = NoTask
  /\ d \in Top.left /\ NewFailure(Top.task, d)
  /\ stack'[Depth] = [Top EXCEPT !.left = @ \ {d}, !.reporting = d]
  /\ \/ /\ DOMAIN stack' = 1 .. Depth
        /\ UNCHANGED <<state, waitingTasks>>
     \/ /\ DOMAIN stack' = 1 .. Depth + 1
        /\ stack'[Depth + 1] = NotifyFrame(Top.task, dependedOnBy[Top.task])
        /\ state[Top.task] \in {"Running", "Ready", "WaitingForDeps"}
        /\ state' = [state EXCEPT ![Top.task] = "Failed"]
        /\ waitingTasks' = Minus(waitingTasks, 1)
        /\ UNCHANGED crashed
  /\ crashed' => "update" \in FailReactions
  /\ UNCHANGED failuresReported

\* The listener returned from a report.
Acknowledged ==
  /\ Top.fn = "Evaluate" /\ Top.reporting # NoTask
  /\ DOMAIN stack' = 1 .. Depth
  /\ stack'[Depth] = [Top EXCEPT !.reporting = NoTask]
  /\ failuresReported' = [failuresReported EXCEPT ![Top.task] = @ \cup {Top.reporting}]
  /\ UNCHANGED <<state, waitingTasks, crashed>>

\* The task is ready, or runs already.
MadeReady(s) ==
  /\ Top.fn = "Evaluate" /\ Evaluated(Top) /\ AllComplete(Top)
  /\ DOMAIN stack' = 1 .. Depth - 1
  /\ state' = [state EXCEPT ![Top.task] = s]
  /\ UNCHANGED <<failuresReported, waitingTasks, crashed>>

\* The task was ready, ran and is complete.
Finished ==
  /\ "finish" \in ReadyReactions
  /\ Top.fn = "Evaluate" /\ Evaluated(Top) /\ AllComplete(Top)
  /\ DOMAIN stack' = 1 .. Depth
  /\ stack'[Depth] = NotifyFrame(Top.task, dependedOnBy[Top.task])
  /\ state' = [state EXCEPT ![Top.task] = "Completed"]
  /\ waitingTasks' = Minus(waitingTasks, 1)
  /\ UNCHANGED <<failuresReported, crashed>>

LoopOutcome ==
  \/ \E d \in TaskIDs : Told(d) \/ Visited(d) \/ Reported(d)
  \/ Returned
  \/ Acknowledged
  \/ \E s \in {"Ready", "Running"} : MadeReady(s)
  \/ Finished

\* Each iteration of a loop has one of the outcomes named above.
LEMMA LoopOutcomes ==
  ASSUME TypeOK, FramesInv, LoopStep
  PROVE  LoopFrame /\ LoopOutcome
<1> USE DEF FrameOnly, TopIs
<1>1. stack # <<>> /\ ~crashed
  BY DEF LoopStep, TellDependent, EndTelling, VisitDependency, ReportFailure,
         FailureReported, EvaluatedWaiting, EvaluatedReady
<1>2. /\ Depth \in Nat \ {0} /\ DOMAIN stack = 1 .. Depth
      /\ Top = stack[Depth] /\ Top \in Frames /\ FrameOf(Top, state, dependsOn, dependedOnBy)
      /\ Below = BelowTop(stack) /\ stack \in Seq(Frames)
  BY <1>1, TopFacts DEF Depth
<1>3. Top.task \in TaskIDs /\ Top.left \subseteq TaskIDs
  BY <1>2, FrameTypes
<1>4. UNCHANGED <<managerVars, nameVars, graphVars, clientVars, execVars, localQueue>>
  BY DEF LoopStep, TellDependent, EndTelling, VisitDependency, ReportFailure,
         FailureReported, EvaluatedWaiting, EvaluatedReady
<1> DEFINE Below1 == \A i \in 1 .. Depth - 1 : stack'[i] = stack[i]
<1>5. ASSUME stack' = Below PROVE DOMAIN stack' = 1 .. Depth - 1 /\ Below1
  BY <1>1, <1>2, <1>5, Popped DEF Depth
<1>6. ASSUME NEW f \in Frames, stack' = Append(Below, f)
      PROVE  DOMAIN stack' = 1 .. Depth /\ Below1 /\ stack'[Depth] = f
  <2>1. LET r == Append(BelowTop(stack), f)
        IN  /\ DOMAIN r = 1 .. Len(stack) /\ r[Len(stack)] = f
            /\ \A i \in 1 .. Len(stack) - 1 : r[i] = stack[i]
    BY ONLY <1>1, <1>2, f \in Frames, Replaced
  <2> QED BY <1>2, <1>6, <2>1 DEF Depth
<1>7. ASSUME NEW f \in Frames, NEW g \in Frames, stack' = Append(Append(Below, f), g)
      PROVE  /\ DOMAIN stack' = 1 .. Depth + 1 /\ Below1
             /\ stack'[Depth] = f /\ stack'[Depth + 1] = g
  <2>1. LET r == Append(Append(BelowTop(stack), f), g)
        IN  /\ DOMAIN r = 1 .. Len(stack) + 1
            /\ \A i \in 1 .. Len(stack) - 1 : r[i] = stack[i]
            /\ r[Len(stack)] = f /\ r[Len(stack) + 1] = g
    BY ONLY <1>1, <1>2, f \in Frames, g \in Frames, TwoForOne
  <2> QED BY <1>2, <1>7, <2>1 DEF Depth
<1>8. \A t \in TaskIDs : dependsOn[t] \in SUBSET TaskIDs /\ dependedOnBy[t] \in SUBSET TaskIDs
  BY DEF TypeOK
<1> HIDE DEF Below1
<1>9. CASE TellDependent
  <2>1. PICK d \in Top.left :
          stack' = Append(Append(Below, [Top EXCEPT !.left = @ \ {d}]),
                          EvaluateFrame(d, dependsOn[d]))
    BY <1>9 DEF TellDependent, Push
  <2>2. [Top EXCEPT !.left = @ \ {d}] \in Frames /\ EvaluateFrame(d, dependsOn[d]) \in Frames
        /\ d \in TaskIDs
    BY <1>2, <1>3, <1>8, FrameTypes
  <2>3. /\ DOMAIN stack' = 1 .. Depth + 1 /\ Below1
        /\ stack'[Depth] = [Top EXCEPT !.left = @ \ {d}]
        /\ stack'[Depth + 1] = EvaluateFrame(d, dependsOn[d])
    BY <1>7, <2>1, <2>2
  <2>4. Told(d)
    BY <1>9, <2>3 DEF Told, TellDependent
  <2> QED BY <1>1, <1>2, <1>4, <2>2, <2>3, <2>4 DEF LoopFrame, LoopOutcome, Below1
<1>10. CASE EndTelling \/ EvaluatedWaiting
  <2>1. stack' = Below
    BY <1>10 DEF EndTelling, EvaluatedWaiting
  <2>2. Returned
    BY <1>5, <1>10, <2>1 DEF Returned, EndTelling, EvaluatedWaiting
  <2> QED BY <1>1, <1>2, <1>4, <1>5, <2>1, <2>2 DEF LoopFrame, LoopOutcome, Below1
<1>11. CASE VisitDependency
  <2>1. PICK d \in Top.left :
          /\ ~NewFailure(Top.task, d)
          /\ stack' = Append(Below, [Top EXCEPT !.left = @ \ {d},
                                       !.complete = IF state[d] = "Completed"
                                                    THEN @ + 1 ELSE @])
    BY <1>11 DEF VisitDependency, Push
  <2> DEFINE n == IF state[d] = "Completed" THEN Top.complete + 1 ELSE Top.complete
  <2>2. n \in 0 .. MaxTasks
    BY <1>1, <1>2, <1>11, CountBounded, FrameTypes DEF VisitDependency
  <2> HIDE DEF n
  <2>3. [Top EXCEPT !.left = @ \ {d}, !.complete = n] \in Frames
    BY <1>2, <2>2, FrameTypes
  <2>4. DOMAIN stack' = 1 .. Depth /\ Below1
        /\ stack'[Depth] = [Top EXCEPT !.left = @ \ {d}, !.complete = n]
    BY <1>6, <2>1, <2>3 DEF n
  <2>5. Visited(d)
    BY <1>11, <2>1, <2>4 DEF Visited, VisitDependency, n
  <2> QED BY <1>1, <1>2, <1>3, <1>4, <2>4, <2>5 DEF LoopFrame, LoopOutcome, Below1
<1>12. ASSUME NEW reaction \in FailReactions, ReportFailure(reaction)
       PROVE  LoopFrame /\ LoopOutcome
  <2>1. PICK d \in Top.left :
          /\ NewFailure(Top.task, d)
          /\ LET told == Push(Below, [Top EXCEPT !.left = @ \ {d}, !.reporting = d])
             IN \/ reaction = "none" /\ stack' = told
                   /\ UNCHANGED <<state, waitingTasks, crashed>>
                \/ reaction = "fail" /\ Complete(Top.task, FALSE, told)
                   /\ UNCHANGED crashed
                \/ reaction = "update" /\ stack' = told
                   /\ crashed' = MayChangeDependencies(Top.task)
                   /\ UNCHANGED <<state, waitingTasks>>
    BY <1>12 DEF ReportFailure
  <2> DEFINE f == [Top EXCEPT !.left = @ \ {d}, !.reporting = d]
             g == NotifyFrame(Top.task, dependedOnBy[Top.task])
  <2>2. f \in Frames /\ g \in Frames /\ d \in TaskIDs
    BY <1>2, <1>3, <1>8, FrameTypes
  <2>3. /\ \/ /\ stack' = Append(Below, f)
              /\ UNCHANGED <<state, waitingTasks>>
           \/ /\ stack' = Append(Append(Below, f), g)
              /\ state[Top.task] \in {"Running", "Ready", "WaitingForDeps"}
              /\ state' = [state EXCEPT ![Top.task] = "Failed"]
              /\ waitingTasks' = Minus(waitingTasks, 1)
              /\ UNCHANGED crashed
        /\ crashed' => "update" \in FailReactions
    BY <1>1, <2>1 DEF Complete, MayComplete, Push, DependentsToTell
  <2>4. /\ Top.fn = "Evaluate" /\ Top.reporting = NoTask /\ NewFailure(Top.task, d)
        /\ UNCHANGED failuresReported
    BY <1>12, <2>1 DEF ReportFailure
  <2> HIDE DEF f, g
  <2>5. CASE stack' = Append(Below, f) /\ UNCHANGED <<state, waitingTasks>>
    <3>1. DOMAIN stack' = 1 .. Depth /\ Below1 /\ stack'[Depth] = f
      BY <1>6, <2>2, <2>5
    <3>2. Reported(d)
      BY <2>1, <2>3, <2>4, <2>5, <3>1 DEF Reported, f
    <3> QED BY <1>1, <1>2, <1>4, <2>2, <3>1, <3>2 DEF LoopFrame, LoopOutcome, Below1
  <2>6. CASE ~(stack' = Append(Below, f) /\ UNCHANGED <<state, waitingTasks>>)
    <3>1. /\ DOMAIN stack' = 1 .. Depth + 1 /\ Below1
          /\ stack'[Depth] = f /\ stack'[Depth + 1] = g
      BY <1>7, <2>2, <2>3, <2>6
    <3>2. Reported(d)
      BY <2>1, <2>3, <2>4, <2>6, <3>1 DEF Reported, f, g
    <3> QED BY <1>1, <1>2, <1>4, <2>2, <3>1, <3>2 DEF LoopFrame, LoopOutcome, Below1
  <2> QED BY <2>5, <2>6
<1>13. CASE FailureReported
  <2>1. [Top EXCEPT !.reporting = NoTask] \in Frames
    BY <1>2, FrameTypes
  <2>2. stack' = Append(Below, [Top EXCEPT !.reporting = NoTask])
    BY <1>13 DEF FailureReported, Push
  <2>3. DOMAIN stack' = 1 .. Depth /\ Below1 /\ stack'[Depth] = [Top EXCEPT !.reporting = NoTask]
    BY <1>6, <2>1, <2>2
  <2>4. Acknowledged
    BY <1>13, <2>3 DEF Acknowledged, FailureReported
  <2> QED BY <1>1, <1>2, <1>4, <2>3, <2>4 DEF LoopFrame, LoopOutcome, Below1
<1>14. ASSUME NEW reaction \in ReadyReactions, EvaluatedReady(reaction)
       PROVE  LoopFrame /\ LoopOutcome
  <2> DEFINE g == NotifyFrame(Top.task, dependedOnBy[Top.task])
  <2>1. g \in Frames
    BY <1>3, <1>8, FrameTypes
  <2>2. /\ Top.fn = "Evaluate" /\ Evaluated(Top) /\ AllComplete(Top)
        /\ UNCHANGED <<failuresReported, crashed>>
    BY <1>14 DEF EvaluatedReady
  <2>3. \/ /\ stack' = Below
           /\ UNCHANGED waitingTasks
           /\ \E s \in {"Ready", "Running"} : state' = [state EXCEPT ![Top.task] = s]
        \/ /\ stack' = Append(Below, g) /\ "finish" \in ReadyReactions
           /\ state' = [state EXCEPT ![Top.task] = "Completed"]
           /\ waitingTasks' = Minus(waitingTasks, 1)
    BY <1>14 DEF EvaluatedReady, DependentsToTell, Push
  <2> HIDE DEF g
  <2>4. CASE stack' = Below /\ UNCHANGED waitingTasks
             /\ \E s \in {"Ready", "Running"} : state' = [state EXCEPT ![Top.task] = s]
    <3>1. DOMAIN stack' = 1 .. Depth - 1 /\ Below1
      BY <1>5, <2>4
    <3>2. PICK s \in {"Ready", "Running"} : state' = [state EXCEPT ![Top.task] = s]
      BY <2>4
    <3>3. MadeReady(s)
      BY <2>2, <2>4, <3>1, <3>2 DEF MadeReady
    <3> QED BY <1>1, <1>2, <1>4, <3>1, <3>3 DEF LoopFrame, LoopOutcome, Below1
  <2>5. CASE stack' = Append(Below, g)
             /\ "finish" \in ReadyReactions
             /\ state' = [state EXCEPT ![Top.task] = "Completed"]
             /\ waitingTasks' = Minus(waitingTasks, 1)
    <3>1. DOMAIN stack' = 1 .. Depth /\ Below1 /\ stack'[Depth] = g
      BY <1>6, <2>1, <2>5
    <3>2. Finished
      BY <2>2, <2>5, <3>1 DEF Finished, g
    <3> QED BY <1>1, <1>2, <1>4, <3>1, <3>2 DEF LoopFrame, LoopOutcome, Below1
  <2> QED BY <2>3, <2>4, <2>5
<1> QED BY <1>9, <1>10, <1>11, <1>12, <1>13, <1>14 DEF LoopStep

-----------------------------------------------------------------------------
(* The other steps                                                         *)

\* A call that completes or fails task t is handled.
TaskEnded(t, ok) ==
  /\ localQueue # <<>> /\ Handles("Complete", Head(localQueue))
  /\ calls[1].op = "Complete" /\ calls[1].id = t /\ 1 \in DOMAIN calls
  /\ MayComplete(t, ok)
  /\ state' = [state EXCEPT ![t] = IF ok THEN "Completed" ELSE "Failed"]
  /\ waitingTasks' = Minus(waitingTasks, 1)
  /\ stack = <<>> /\ stack' = Append(stack, NotifyFrame(t, dependedOnBy[t]))
  /\ UNCHANGED <<nameVars, graphVars, failuresReported, crashed>>

\* A call that runs task t is handled.
TaskRun(t) ==
  /\ state[t] = "Ready" /\ state' = [state EXCEPT ![t] = "Running"]
  /\ stack = <<>>
  /\ UNCHANGED <<stack, nameVars, graphVars, failuresReported, waitingTasks, crashed>>

\* A step that leaves tasks, names and stack alone.
Quiet == UNCHANGED <<stack, nameVars, graphVars, taskVars, crashed>>

\* Every step is an iteration of a loop, a handler that begins, or quiet.
LEMMA StepKinds ==
  ASSUME TypeOK, CallsInv, FramesInv, [Next]_vars
  PROVE  \/ LoopFrame /\ LoopOutcome
         \/ localQueue # <<>> /\ HandleDefine(Head(localQueue))
         \/ \E t \in TaskIDs, names \in SUBSET Names, deps \in SUBSET TaskIDs,
               undef \in SUBSET Names : DependenciesSet(t, names, deps, undef)
         \/ \E t \in TaskIDs, ok \in BOOLEAN : TaskEnded(t, ok)
         \/ \E t \in TaskIDs : TaskRun(t)
         \/ Quiet
<1> USE DEF nameVars, graphVars, taskVars
<1>1. CASE Clients \/ Wake \/ TerminationRequested
  BY <1>1, OutsideSteps DEF Quiet
<1>2. CASE StartRound \/ StopRound \/ EndRound
  BY <1>2 DEF StartRound, StopRound, EndRound, Quiet
<1>3. CASE UNCHANGED vars
  BY <1>3 DEF vars, Quiet
<1>4. CASE localQueue # <<>> /\ HandleSetDeps(Head(localQueue))
  <2> DEFINE a == Head(localQueue)
  <2>1. CASE MayChangeDependencies(a.id)
    <3>1. CASE UNCHANGED <<nameVars, graphVars>>
      <4> DEFINE undef == {n \in a.deps \cap named : nameTask[n] = NoTask}
                 deps == {nameTask[n] : n \in {m \in a.deps \cap named : nameTask[m] # NoTask}}
      <4>1. a \in Actions /\ a = calls[1] /\ 1 \in DOMAIN calls
        BY <1>4, HeadFacts
      <4>2. a.id \in TaskIDs /\ a.deps \in SUBSET Names
        BY <4>1 DEF Actions
      <4>3. /\ undef \in SUBSET Names /\ undef \subseteq a.deps
            /\ \A n \in undef : nameTask[n] = NoTask
        BY <4>2
      <4>4. /\ deps \in SUBSET TaskIDs
            /\ \A d \in deps : \E n \in a.deps : nameTask[n] = d /\ d # NoTask
        BY <4>2 DEF TypeOK
      <4>5. /\ dependedOnBy' = Redirected(dependedOnBy, a.id, dependsOn[a.id], deps)
            /\ nameDependents' = Redirected(nameDependents, a.id,
                                            dependsOnUndefined[a.id], undef)
            /\ dependsOn' = [dependsOn EXCEPT ![a.id] = deps]
            /\ dependsOnUndefined' = [dependsOnUndefined EXCEPT ![a.id] = undef]
            /\ failuresReported' = [failuresReported EXCEPT ![a.id] = {}]
            /\ state' = [state EXCEPT ![a.id] = "WaitingForDeps"]
            /\ stack = <<>> /\ stack' = Append(stack, EvaluateFrame(a.id, deps))
            /\ UNCHANGED <<nameTask, crashed, waitingTasks, defined, nextTaskId>>
        BY <1>4, <2>1 DEF HandleSetDeps, Handles, Idle, Push, managerVars
      <4> HIDE DEF a, undef, deps
      <4>6. DependenciesSet(a.id, a.deps, deps, undef)
        BY <2>1, <4>1, <4>3, <4>4, <4>5 DEF DependenciesSet
      <4> QED BY <4>2, <4>3, <4>4, <4>6
    <3>2. CASE ~UNCHANGED <<nameVars, graphVars>>
      BY <1>4, <3>2, SetDepsSteps
    <3> QED BY <3>1, <3>2
  <2>2. CASE ~MayChangeDependencies(a.id)
    BY <1>4, <2>2 DEF HandleSetDeps, Quiet
  <2> QED BY <2>1, <2>2
<1>5. CASE localQueue # <<>> /\ HandleComplete(Head(localQueue))
  <2> DEFINE a == Head(localQueue)
  <2>1. /\ a \in Actions /\ a = calls[1] /\ 1 \in DOMAIN calls /\ a.op = "Complete"
        /\ Handles("Complete", a)
    BY <1>5, HeadFacts DEF HandleComplete, Handles
  <2>2. a.id \in TaskIDs /\ a.success \in BOOLEAN
    BY <2>1 DEF Actions
  <2>3. CASE MayComplete(a.id, a.success)
    <3>1. TaskEnded(a.id, a.success)
      BY <1>5, <2>1, <2>3 DEF HandleComplete, Handles, Complete, Idle, Push,
                              DependentsToTell, TaskEnded
    <3> QED BY <2>2, <3>1
  <2>4. CASE ~MayComplete(a.id, a.success)
    BY <1>5, <2>4 DEF HandleComplete, Complete, Quiet
  <2> QED BY <2>3, <2>4
<1>6. CASE localQueue # <<>> /\ HandleRun(Head(localQueue))
  <2> DEFINE a == Head(localQueue)
  <2>1. a \in Actions
    BY <1>6, HeadFacts
  <2>2. a.id \in TaskIDs
    BY <2>1 DEF Actions
  <2>3. CASE state[a.id] = "Ready"
    <3>1. TaskRun(a.id)
      BY <1>6, <2>3 DEF HandleRun, Handles, Idle, TaskRun
    <3> QED BY <2>2, <3>1
  <2>4. CASE state[a.id] # "Ready"
    BY <1>6, <2>4 DEF HandleRun, Quiet
  <2> QED BY <2>3, <2>4
<1>7. CASE LoopStep
  BY <1>7, LoopOutcomes
<1> QED BY <1>1, <1>2, <1>3, <1>4, <1>5, <1>6, <1>7 DEF Next, StartupThread, LoopStep

\* A frame put on an empty stack is the whole of it.
LEMMA OnlyFrame ==
  ASSUME NEW F, NEW f \in F
  PROVE  DOMAIN Append(<<>>, f) = {1} /\ Append(<<>>, f)[1] = f
<1>1. <<>> \in Seq(F) /\ Len(<<>>) = 0
  BY EmptySeq
<1>2. DOMAIN Append(<<>>, f) = 1 .. 0 + 1 /\ Append(<<>>, f)[0 + 1] = f
  BY <1>1, Pushed
<1>3. 1 .. 0 + 1 = {1}
  OBVIOUS
<1> QED BY <1>2, <1>3

-----------------------------------------------------------------------------
(* The frames, and the first theorems                                      *)

\* A frame stays what it is while no task comes into being and the graph is
\* left alone.
LEMMA FrameStays ==
  ASSUME StatesStay, UNCHANGED graphVars, NEW f \in Frames,
         FrameOf(f, state, dependsOn, dependedOnBy)
  PROVE  FrameOf(f, state', dependsOn', dependedOnBy')
<1>1. f.task \in TaskIDs
  BY FrameTypes
<1> QED BY <1>1 DEF StatesStay, graphVars, FrameOf

\* A new evaluation has all dependencies before it, a new loop all dependents.
LEMMA NewFrames ==
  ASSUME NEW t \in TaskIDs, NEW states, NEW on, NEW by, states[t] # "Unknown",
         on[t] \in SUBSET TaskIDs
  PROVE  /\ FrameOf(EvaluateFrame(t, on[t]), states, on, by)
         /\ FrameOf(NotifyFrame(t, by[t]), states, on, by)
<1>1. Cardinality(on[t]) \in Nat
  BY TasksFinite
<1> DEFINE e == EvaluateFrame(t, on[t])
           n == NotifyFrame(t, by[t])
<1>2. e.fn = "Evaluate" /\ e.task = t /\ e.left = on[t] /\ e.complete = 0
  BY DEF EvaluateFrame
<1>3. n.fn = "Notify" /\ n.task = t /\ n.left = by[t] /\ n.reporting = NoTask
  BY DEF NotifyFrame
<1> HIDE DEF e, n
<1>4. FrameOf(e, states, on, by) /\ FrameOf(n, states, on, by)
  BY <1>1, <1>2, <1>3 DEF FrameOf
<1> QED BY <1>4 DEF e, n

\* Every step keeps what the frames of the call stack range over.
LEMMA FramesKept ==
  ASSUME TypeOK, TypeOK', CallsInv, GraphInv, FramesInv, [Next]_vars
  PROVE  FramesInv'
<1>1. CASE LoopFrame /\ LoopOutcome
  <2>1. stack # <<>>
    BY <1>1, EmptySeq DEF LoopFrame, Depth
  <2>2. ~(localQueue # <<>> /\ HandleDefine(Head(localQueue)))
    BY <2>1 DEF HandleDefine, Handles, Idle
  <2>3. StatesStay
    BY <2>2, StatesKept
  <2>4. UNCHANGED graphVars
    BY <1>1 DEF LoopFrame
  <2>5. /\ Depth \in Nat \ {0} /\ DOMAIN stack = 1 .. Depth
        /\ Top = stack[Depth] /\ Top \in Frames /\ FrameOf(Top, state, dependsOn, dependedOnBy)
        /\ \A i \in 1 .. Depth - 1 : stack'[i] = stack[i]
    BY <1>1 DEF LoopFrame
  <2>6. \A f \in Frames : FrameOf(f, state, dependsOn, dependedOnBy) =>
                          FrameOf(f, state', dependsOn', dependedOnBy')
    BY <2>3, <2>4, FrameStays
  <2>7. \A i \in 1 .. Depth : stack[i] \in Frames
    BY <2>1, <2>5, TopFacts, ElementOfSeq DEF Depth
  <2>8. \A i \in 1 .. Depth - 1 : FrameOf(stack'[i], state', dependsOn', dependedOnBy')
    BY <2>5, <2>6, <2>7 DEF FramesInv
  <2> DEFINE fits(f) == FrameOf(f, state', dependsOn', dependedOnBy')
  <2>9. fits(Top) /\ Top.task \in TaskIDs /\ Top.left \subseteq TaskIDs
        /\ Top.complete \in 0 .. MaxTasks
    BY <2>5, <2>6, FrameTypes
  <2>10. /\ state'[Top.task] # "Unknown" /\ state[Top.task] # "Unknown"
         /\ Top.fn = "Evaluate" =>
              /\ Top.left \subseteq dependsOn'[Top.task]
              /\ Top.complete + Cardinality(Top.left) <= Cardinality(dependsOn'[Top.task])
         /\ Top.fn = "Notify" => Top.left \subseteq dependedOnBy'[Top.task]
                                 /\ Top.reporting = NoTask
    BY <2>5, <2>9 DEF FrameOf
  <2>11. \A t \in TaskIDs : dependsOn'[t] \in SUBSET TaskIDs
    BY DEF TypeOK
  <2>12. fits(NotifyFrame(Top.task, dependedOnBy[Top.task]))
    <3>1. fits(NotifyFrame(Top.task, dependedOnBy'[Top.task]))
      BY <2>9, <2>10, <2>11, NewFrames
    <3> QED BY <2>4, <3>1 DEF graphVars
  <2>13. ASSUME NEW d \in Top.left, Top.fn = "Evaluate"
         PROVE  /\ Cardinality(Top.left \ {d}) = Cardinality(Top.left) - 1
                /\ Cardinality(Top.left) \in Nat /\ Cardinality(dependsOn'[Top.task]) \in Nat
    BY <2>9, <2>11, OneLess, TasksFinite
  <2> HIDE DEF fits
  <2>14. SUFFICES /\ DOMAIN stack' \subseteq 1 .. Depth + 1
                  /\ Depth \in DOMAIN stack' => fits(stack'[Depth])
                  /\ Depth + 1 \in DOMAIN stack' => fits(stack'[Depth + 1])
    BY <2>5, <2>8 DEF FramesInv, fits
  <2>15. ASSUME NEW d \in TaskIDs, Told(d)
         PROVE  /\ DOMAIN stack' \subseteq 1 .. Depth + 1
                /\ fits(stack'[Depth]) /\ fits(stack'[Depth + 1])
    <3>1. state[d] # "Unknown"
      <4>1. d \in dependedOnBy[Top.task]
        BY <2>5, <2>15 DEF Told, FrameOf
      <4>2. Top.task \in dependsOn[d]
        BY <2>9, <4>1 DEF GraphInv, GraphSymmetric
      <4> QED BY <4>2 DEF GraphInv, Exists
    <3>2. fits(EvaluateFrame(d, dependsOn'[d]))
      BY <2>3, <2>11, <3>1, NewFrames DEF StatesStay, fits
    <3>3. fits([Top EXCEPT !.left = @ \ {d}])
      <4> DEFINE f == [Top EXCEPT !.left = @ \ {d}]
      <4>1. /\ f.task = Top.task /\ f.fn = "Notify" /\ f.reporting = Top.reporting
            /\ f.left = Top.left \ {d}
        BY <2>5, <2>15 DEF Told, Frames
      <4> HIDE DEF f
      <4>2. fits(f)
        BY <2>10, <2>15, <4>1 DEF fits, FrameOf, Told
      <4> QED BY <4>2 DEF f
    <3> QED BY <2>4, <2>15, <3>2, <3>3 DEF Told, graphVars
  <2>16. ASSUME NEW d \in TaskIDs, Visited(d)
         PROVE  DOMAIN stack' \subseteq 1 .. Depth /\ fits(stack'[Depth])
    <3> DEFINE n == IF state[d] = "Completed" THEN Top.complete + 1 ELSE Top.complete
               f == [Top EXCEPT !.left = @ \ {d}, !.complete = n]
    <3>1. /\ f.task = Top.task /\ f.fn = "Evaluate" /\ f.left = Top.left \ {d}
          /\ f.complete = n
      BY <2>5, <2>16 DEF Visited, Frames
    <3>2. n \in Nat /\ n <= Top.complete + 1
      BY <2>9, Numbers
    <3>3. stack'[Depth] = f /\ DOMAIN stack' = 1 .. Depth /\ d \in Top.left
          /\ Top.fn = "Evaluate"
      BY <2>16 DEF Visited
    <3> HIDE DEF f, n
    <3>4. /\ Cardinality(f.left) = Cardinality(Top.left) - 1
          /\ Cardinality(Top.left) \in Nat /\ Cardinality(dependsOn'[Top.task]) \in Nat
          /\ Top.complete + Cardinality(Top.left) <= Cardinality(dependsOn'[Top.task])
          /\ Top.complete \in Nat /\ f.complete \in Nat /\ f.complete <= Top.complete + 1
      BY <2>9, <2>10, <2>13, <3>1, <3>2, <3>3, SMTT(30)
    <3>5. f.complete + Cardinality(f.left) <= Cardinality(dependsOn'[Top.task])
      BY <3>4
    <3>6. fits(f)
      BY <2>10, <3>1, <3>3, <3>5 DEF fits, FrameOf
    <3> QED BY <3>3, <3>6
  <2>17. ASSUME NEW d \in TaskIDs, Reported(d)
         PROVE  /\ DOMAIN stack' \subseteq 1 .. Depth + 1 /\ fits(stack'[Depth])
                /\ Depth + 1 \in DOMAIN stack' => fits(stack'[Depth + 1])
    <3> DEFINE f == [Top EXCEPT !.left = @ \ {d}, !.reporting = d]
    <3>1. /\ f.task = Top.task /\ f.fn = "Evaluate" /\ f.left = Top.left \ {d}
          /\ f.complete = Top.complete
      BY <2>5, <2>17 DEF Reported, Frames
    <3>2. stack'[Depth] = f /\ d \in Top.left /\ Top.fn = "Evaluate"
      BY <2>17 DEF Reported
    <3> HIDE DEF f
    <3>3. f.complete + Cardinality(f.left) <= Cardinality(dependsOn'[Top.task])
      BY <2>9, <2>10, <2>13, <3>1, <3>2, Numbers
    <3>4. fits(f)
      BY <2>10, <3>1, <3>2, <3>3 DEF fits, FrameOf
    <3>5. \/ DOMAIN stack' = 1 .. Depth
          \/ /\ DOMAIN stack' = 1 .. Depth + 1
             /\ stack'[Depth + 1] = NotifyFrame(Top.task, dependedOnBy[Top.task])
      BY <2>17 DEF Reported
    <3>6. Depth + 1 \notin 1 .. Depth /\ 1 .. Depth \subseteq 1 .. Depth + 1
      BY <2>5
    <3> QED BY <2>12, <3>2, <3>4, <3>5, <3>6
  <2>18. CASE Returned \/ \E s \in {"Ready", "Running"} : MadeReady(s)
    <3>1. DOMAIN stack' = 1 .. Depth - 1
      BY <2>18 DEF Returned, MadeReady
    <3> QED BY <2>5, <3>1
  <2>19. CASE Acknowledged
    <3> DEFINE f == [Top EXCEPT !.reporting = NoTask]
    <3>1. /\ f.task = Top.task /\ f.fn = "Evaluate" /\ f.left = Top.left
          /\ f.complete = Top.complete
      BY <2>5, <2>19 DEF Acknowledged, Frames
    <3>2. stack'[Depth] = f /\ DOMAIN stack' = 1 .. Depth /\ Top.fn = "Evaluate"
      BY <2>19 DEF Acknowledged
    <3> HIDE DEF f
    <3>3. fits(f)
      BY <2>10, <3>1, <3>2 DEF fits, FrameOf
    <3> QED BY <2>5, <3>2, <3>3
  <2>20. CASE Finished
    <3>1. /\ stack'[Depth] = NotifyFrame(Top.task, dependedOnBy[Top.task])
          /\ DOMAIN stack' = 1 .. Depth
      BY <2>20 DEF Finished
    <3> QED BY <2>5, <2>12, <3>1
  <2>21. 1 .. Depth \subseteq 1 .. Depth + 1 /\ Depth + 1 \notin 1 .. Depth
    BY <2>5
  <2> QED BY <1>1, <2>15, <2>16, <2>17, <2>18, <2>19, <2>20, <2>21 DEF LoopOutcome
<1>2. CASE localQueue # <<>> /\ HandleDefine(Head(localQueue))
  BY <1>2 DEF HandleDefine, Handles, Idle, FramesInv
<1>3. ASSUME NEW t \in TaskIDs, NEW names \in SUBSET Names, NEW deps \in SUBSET TaskIDs,
             NEW undef \in SUBSET Names, DependenciesSet(t, names, deps, undef)
      PROVE  FramesInv'
  <2>1. dependsOn'[t] = deps /\ state'[t] = "WaitingForDeps"
    BY <1>3 DEF DependenciesSet, TypeOK
  <2>2. FrameOf(EvaluateFrame(t, dependsOn'[t]), state', dependsOn', dependedOnBy')
    BY <2>1, NewFrames
  <2>3. stack' = Append(<<>>, EvaluateFrame(t, dependsOn'[t]))
    BY <1>3, <2>1 DEF DependenciesSet
  <2>4. DOMAIN stack' = {1} /\ stack'[1] = EvaluateFrame(t, dependsOn'[t])
    BY <2>1, <2>3, FrameTypes, OnlyFrame
  <2> QED BY <2>2, <2>4 DEF FramesInv
<1>4. ASSUME NEW t \in TaskIDs, NEW ok \in BOOLEAN, TaskEnded(t, ok)
      PROVE  FramesInv'
  <2>1. /\ state'[t] # "Unknown" /\ dependedOnBy' = dependedOnBy
        /\ dependedOnBy'[t] \in SUBSET TaskIDs /\ dependsOn'[t] \in SUBSET TaskIDs
    BY <1>4 DEF TaskEnded, TypeOK, graphVars
  <2>2. FrameOf(NotifyFrame(t, dependedOnBy'[t]), state', dependsOn', dependedOnBy')
    BY <2>1, NewFrames
  <2>3. stack' = Append(<<>>, NotifyFrame(t, dependedOnBy'[t]))
    BY <1>4, <2>1 DEF TaskEnded
  <2>4. DOMAIN stack' = {1} /\ stack'[1] = NotifyFrame(t, dependedOnBy'[t])
    BY <2>1, <2>3, FrameTypes, OnlyFrame
  <2> QED BY <2>2, <2>4 DEF FramesInv
<1>5. ASSUME NEW t \in TaskIDs, TaskRun(t) PROVE FramesInv'
  BY <1>5 DEF TaskRun, FramesInv
<1>6. CASE Quiet
  BY <1>6 DEF Quiet, FramesInv, graphVars, taskVars
<1> QED BY <1>1, <1>2, <1>3, <1>4, <1>5, <1>6, StepKinds


\* All that holds of the manager whatever its clients and listeners do.
StartupInv == TypeOK /\ CallsInv /\ GraphInv /\ FramesInv

\* The invariant holds before the first call.
LEMMA StartupInit == Init => StartupInv
<1> SUFFICES ASSUME Init PROVE StartupInv
  OBVIOUS
<1> USE DEF Init
<1>1. <<>> \in Seq(Actions) /\ <<>> \in Seq(Frames) /\ <<>> \in Seq(Names)
      /\ Len(<<>>) = 0 /\ DOMAIN <<>> = {}
  BY EmptySeq
<1>2. 0 \in 0 .. MaxTasks /\ 0 \in 0 .. UINT_RANGE - 1 /\ 0 \in 0 .. MaxSetDeps
  BY ConstantsAssumption
<1>3. TypeOK
  BY <1>1, <1>2, Numbers DEF TypeOK, TaskStates
<1>4. DOMAIN calls = {}
  <2>1. calls \in Seq(Actions) /\ Len(calls) = 0 + 0
    BY ONLY <1>1, Init, ConcatProperties DEF calls, Init
  <2> QED BY <2>1, LenProperties
<1>5. CallsInv
  BY <1>4 DEF CallsInv
<1>6. GraphInv
  BY <1>1 DEF GraphInv, GraphSymmetric, Exists
<1>7. FramesInv
  BY <1>1 DEF FramesInv
<1> QED BY <1>3, <1>5, <1>6, <1>7 DEF StartupInv

\* Every step keeps the invariant.
LEMMA StartupKept ==
  ASSUME StartupInv, [Next]_vars
  PROVE  StartupInv'
BY TypeKept, CallsKept, GraphKept, FramesKept DEF StartupInv

\* The invariant holds throughout: the types, the calls in the queue, the graph
\* of dependencies and the frames of the call stack agree with each other.
THEOREM StartupCorrect == Spec => []StartupInv
<1>1. StartupInv /\ [Next]_vars => StartupInv'
  BY StartupKept
<1> QED BY StartupInit, <1>1, PTL DEF Spec

\* The variables have their types whatever clients and listeners do: only a
\* name without a task has dependents, and the count of waiting tasks, loops
\* and counts of complete dependencies stay in their ranges.
THEOREM StartupTypeCorrect == Spec => []TypeOK
<1>1. StartupInv => TypeOK
  BY DEF StartupInv
<1> QED BY <1>1, StartupCorrect, PTL

\* Dependencies are recorded on both sides, for tasks and for names that have
\* none yet, whatever calls arrive in which order.
THEOREM GraphCorrect == Spec => []GraphSymmetric
<1>1. StartupInv => GraphSymmetric
  BY DEF StartupInv, GraphInv
<1> QED BY <1>1, StartupCorrect, PTL


-----------------------------------------------------------------------------
(* No waiting task is forgotten                                            *)

\* What a frame has still to do for task t: evaluate it, look at or finish the
\* report of its dependency d, find all of its dependencies complete.
Tells(f, t) == f.fn = "Notify" /\ t \in f.left
Sees(f, t, d) ==
  f.fn = "Evaluate" /\ f.task = t /\ (d \in f.left \/ f.reporting = d)
Counts(f, t, deps) ==
  /\ f.fn = "Evaluate" /\ f.task = t /\ f.reporting = NoTask
  /\ f.complete + Cardinality(f.left) = Cardinality(deps)

ToBeTold(t) == \E i \in DOMAIN stack : Tells(stack[i], t)
ToBeSeen(t, d) == \E i \in DOMAIN stack : Sees(stack[i], t, d)
ToBeCounted(t) == \E i \in DOMAIN stack : Counts(stack[i], t, dependsOn[t])

AllMet(t) == /\ dependsOnUndefined[t] = {}
             /\ \A d \in dependsOn[t] : state[d] = "Completed"

\* A waiting task that was not told of a failure, or has all it waits for, is
\* one that some frame on the stack will still take care of.
Remembered(t) ==
  state[t] = "WaitingForDeps" =>
    /\ \A d \in dependsOn[t] : NewFailure(t, d) => ToBeTold(t) \/ ToBeSeen(t, d)
    /\ AllMet(t) => ToBeTold(t) \/ ToBeCounted(t)

MissedInv == ~crashed => \A t \in TaskIDs : Remembered(t)

\* While no state or set of dependencies that matters to t changes, t stays
\* remembered if what was to be done for it still is.
LEMMA RememberedStays ==
  ASSUME NEW t, Remembered(t),
         state'[t] = "WaitingForDeps" => state[t] = "WaitingForDeps",
         dependsOn'[t] = dependsOn[t], dependsOnUndefined'[t] = dependsOnUndefined[t],
         \A d \in dependsOn[t] : NewFailure(t, d)' =>
            NewFailure(t, d) \/ ToBeTold(t)',
         \A d \in dependsOn[t] : state'[d] = "Completed" =>
            state[d] = "Completed" \/ ToBeTold(t)',
         ToBeTold(t) => Remembered(t)' \/ ToBeTold(t)',
         \A d \in dependsOn[t] : NewFailure(t, d)' /\ ToBeSeen(t, d) =>
            Remembered(t)' \/ ToBeTold(t)' \/ ToBeSeen(t, d)',
         AllMet(t) /\ ToBeCounted(t) => Remembered(t)' \/ ToBeTold(t)' \/ ToBeCounted(t)'
  PROVE  Remembered(t)'
<1> SUFFICES ASSUME ~Remembered(t)' PROVE FALSE
  OBVIOUS
<1>1. CASE ToBeTold(t)'
  BY <1>1 DEF Remembered
<1>2. CASE ~ToBeTold(t)'
  <2>1. state'[t] = "WaitingForDeps" /\ state[t] = "WaitingForDeps"
    BY DEF Remembered
  <2>2. \A d \in dependsOn[t] : NewFailure(t, d)' => ToBeSeen(t, d)'
    BY <1>2, <2>1 DEF Remembered
  <2>3. AllMet(t)' => ToBeCounted(t)'
    <3>1. AllMet(t)' => AllMet(t)
      BY <1>2 DEF AllMet
    <3> QED BY <1>2, <2>1, <3>1 DEF Remembered
  <2> QED BY <2>1, <2>2, <2>3 DEF Remembered
<1> QED BY <1>1, <1>2


\* The frames below the one that is executing still do what they had to.
LEMMA BelowStay ==
  ASSUME LoopFrame, LoopOutcome, NEW t
  PROVE  /\ ToBeTold(t) => Tells(Top, t) \/ ToBeTold(t)'
         /\ \A d : ToBeSeen(t, d) => Sees(Top, t, d) \/ ToBeSeen(t, d)'
         /\ ToBeCounted(t) => Counts(Top, t, dependsOn[t]) \/ ToBeCounted(t)'
<1>1. /\ Depth \in Nat \ {0} /\ DOMAIN stack = 1 .. Depth /\ Top = stack[Depth]
      /\ \A i \in 1 .. Depth - 1 : stack'[i] = stack[i]
      /\ dependsOn' = dependsOn
  BY DEF LoopFrame, graphVars
<1>2. \E n \in {Depth - 1, Depth, Depth + 1} : DOMAIN stack' = 1 .. n
  BY DEF LoopOutcome, Told, Visited, Reported, Returned, Acknowledged, MadeReady, Finished
<1>3. \A i \in 1 .. Depth : i = Depth \/ (i \in 1 .. Depth - 1 /\ i \in DOMAIN stack')
  BY <1>1, <1>2
<1>4. \A i \in DOMAIN stack : stack[i] = Top \/ (i \in DOMAIN stack' /\ stack'[i] = stack[i])
  BY <1>1, <1>3
<1> QED BY <1>1, <1>4 DEF ToBeTold, ToBeSeen, ToBeCounted

\* When a task ends whose dependents are told, all tasks but it stay remembered.
LEMMA EndRemembered ==
  ASSUME TypeOK, GraphInv, NEW t \in TaskIDs, NEW end \in {"Completed", "Failed"},
         state' = [state EXCEPT ![t] = end], UNCHANGED <<graphVars, failuresReported>>,
         NEW k \in DOMAIN stack', stack'[k] = NotifyFrame(t, dependedOnBy[t]),
         NEW u \in TaskIDs, Remembered(u),
         ToBeTold(u) => ToBeTold(u)',
         \A d \in dependsOn[u] : NewFailure(u, d) /\ ToBeSeen(u, d) =>
           u = t \/ ToBeSeen(u, d)',
         AllMet(u) /\ ToBeCounted(u) => u = t \/ ToBeCounted(u)'
  PROVE  Remembered(u)'
<1>1. state \in [TaskIDs -> TaskStates] /\ dependsOn[u] \subseteq TaskIDs
  BY DEF TypeOK
<1>2. CASE u = t
  BY <1>1, <1>2 DEF Remembered
<1>3. CASE u # t
  <2>1. ASSUME t \in dependsOn[u] PROVE ToBeTold(u)'
    <3>1. u \in dependedOnBy[t]
      BY <2>1 DEF GraphInv, GraphSymmetric
    <3>2. Tells(stack'[k], u)
      BY <3>1 DEF Tells, NotifyFrame
    <3> QED BY <3>2 DEF ToBeTold
  <2>2. \A d \in dependsOn[u] : d # t =>
          /\ NewFailure(u, d)' => NewFailure(u, d)
          /\ state'[d] = state[d]
    BY <1>1 DEF NewFailure
  <2>3. /\ dependsOn'[u] = dependsOn[u] /\ dependsOnUndefined'[u] = dependsOnUndefined[u]
        /\ state'[u] = state[u]
    BY <1>1, <1>3 DEF graphVars
  <2>4. \A d \in dependsOn[u] : NewFailure(u, d)' => NewFailure(u, d) \/ ToBeTold(u)'
    BY <2>1, <2>2
  <2>5. \A d \in dependsOn[u] : state'[d] = "Completed" =>
                                state[d] = "Completed" \/ ToBeTold(u)'
    BY <2>1, <2>2
  <2>6. \A d \in dependsOn[u] : NewFailure(u, d)' /\ ToBeSeen(u, d) =>
          ToBeTold(u)' \/ ToBeSeen(u, d)'
    BY <1>3, <2>4
  <2> QED BY <1>3, <2>3, <2>4, <2>5, <2>6, RememberedStays
<1> QED BY <1>2, <1>3

\* Every step remembers what a waiting task has still to be told.
LEMMA MissedKept ==
  ASSUME TypeOK, TypeOK', CallsInv, GraphInv, FramesInv, MissedInv, [Next]_vars
  PROVE  MissedInv'
<1> SUFFICES ASSUME ~crashed', NEW u \in TaskIDs PROVE Remembered(u)'
  BY DEF MissedInv
<1>1. /\ state \in [TaskIDs -> TaskStates] /\ dependsOn[u] \subseteq TaskIDs
      /\ dependsOn \in [TaskIDs -> SUBSET TaskIDs]
      /\ failuresReported \in [TaskIDs -> SUBSET TaskIDs]
      /\ dependsOnUndefined \in [TaskIDs -> SUBSET Names]
      /\ NoTask \notin TaskIDs
  BY Numbers DEF TypeOK
<1>2. ASSUME ~crashed PROVE Remembered(u)
  BY <1>2 DEF MissedInv
<1>3. CASE LoopFrame /\ LoopOutcome
  <2>1. /\ Depth \in Nat \ {0} /\ Top \in Frames /\ DOMAIN stack = 1 .. Depth
        /\ FrameOf(Top, state, dependsOn, dependedOnBy)
        /\ ~crashed /\ UNCHANGED graphVars
    BY <1>3 DEF LoopFrame
  <2>2. Remembered(u)
    BY <1>2, <2>1
  <2>3. /\ Top.task \in TaskIDs /\ Top.left \subseteq TaskIDs
        /\ Top.complete \in 0 .. MaxTasks
        /\ Top.fn = "Evaluate" => Top.left \subseteq dependsOn[Top.task]
    BY <2>1, FrameTypes DEF FrameOf
  <2>4. /\ ToBeTold(u) => Tells(Top, u) \/ ToBeTold(u)'
        /\ \A d : ToBeSeen(u, d) => Sees(Top, u, d) \/ ToBeSeen(u, d)'
        /\ ToBeCounted(u) => Counts(Top, u, dependsOn[u]) \/ ToBeCounted(u)'
    BY <1>3, BelowStay
  <2>5. dependsOn'[u] = dependsOn[u] /\ dependsOnUndefined'[u] = dependsOnUndefined[u]
    BY <2>1 DEF graphVars
  <2>6. /\ \A d : NewFailure(u, d) <=> state[d] = "Failed" /\ d \notin failuresReported[u]
        /\ \A d : NewFailure(u, d)' <=> state'[d] = "Failed" /\ d \notin failuresReported'[u]
    BY DEF NewFailure
  <2>7. ASSUME UNCHANGED state PROVE AllMet(u)' <=> AllMet(u)
    BY <2>5, <2>7 DEF AllMet
  <2>8. \A i \in DOMAIN stack' :
          /\ Tells(stack'[i], u) => ToBeTold(u)'
          /\ \A d : Sees(stack'[i], u, d) => ToBeSeen(u, d)'
          /\ Counts(stack'[i], u, dependsOn[u]) => ToBeCounted(u)'
    BY <2>5 DEF ToBeTold, ToBeSeen, ToBeCounted
  <2>9. ASSUME NEW d \in TaskIDs, Told(d) PROVE Remembered(u)'
    <3>1. /\ Depth \in DOMAIN stack' /\ Depth + 1 \in DOMAIN stack'
          /\ stack'[Depth] = [Top EXCEPT !.left = @ \ {d}]
          /\ stack'[Depth + 1] = EvaluateFrame(d, dependsOn[d])
          /\ Top.fn = "Notify" /\ UNCHANGED <<state, failuresReported>>
      BY <2>1, <2>9 DEF Told, taskVars
    <3>2. CASE u = d
      <4>1. Cardinality(dependsOn[u]) \in Nat
        BY <1>1, TasksFinite
      <4>2. /\ \A e \in dependsOn[u] : Sees(stack'[Depth + 1], u, e)
            /\ Counts(stack'[Depth + 1], u, dependsOn[u])
        BY <3>1, <3>2, <4>1 DEF Sees, Counts, EvaluateFrame
      <4>3. (\A e \in dependsOn[u] : ToBeSeen(u, e)') /\ ToBeCounted(u)'
        BY <2>8, <3>1, <4>2
      <4> QED BY <2>5, <4>3 DEF Remembered
    <3>3. CASE u # d
      <4>1. Tells(Top, u) => ToBeTold(u)'
        <5>1. Tells(Top, u) => Tells(stack'[Depth], u)
          BY <2>1, <3>1, <3>3 DEF Tells, Frames
        <5> QED BY <2>8, <3>1, <5>1
      <4>2. ~Counts(Top, u, dependsOn[u]) /\ \A e : ~Sees(Top, u, e)
        BY <3>1 DEF Counts, Sees
      <4> QED BY <2>2, <2>4, <2>5, <2>6, <3>1, <4>1, <4>2, RememberedStays
    <3> QED BY <3>2, <3>3
  <2>10. CASE Returned
    <3>1. UNCHANGED <<state, failuresReported>>
      BY <2>10 DEF Returned, taskVars
    <3>2. ~Tells(Top, u)
      BY <2>10 DEF Returned, Tells, Evaluated
    <3>3. ASSUME NEW d \in dependsOn[u] PROVE ~Sees(Top, u, d)
      BY <1>1, <2>10 DEF Returned, Sees, Evaluated
    <3>4. ~(AllMet(u) /\ Counts(Top, u, dependsOn[u]))
      <4> SUFFICES ASSUME AllMet(u), Counts(Top, u, dependsOn[u]) PROVE FALSE
        OBVIOUS
      <4>1. Top.left = {} /\ Top.task = u /\ ~AllComplete(Top)
        BY <2>10 DEF Returned, Counts, Evaluated
      <4>2. Cardinality({}) = 0
        BY FS_EmptySet
      <4>3. Top.complete = Cardinality(dependsOn[Top.task])
        BY <2>3, <4>1, <4>2 DEF Counts
      <4> QED BY <4>1, <4>3 DEF AllComplete, AllMet
    <3> QED BY <2>2, <2>4, <2>5, <2>6, <3>1, <3>2, <3>3, <3>4, RememberedStays
  <2>11. ASSUME NEW d \in TaskIDs, Visited(d) PROVE Remembered(u)'
    <3> DEFINE n == IF state[d] = "Completed" THEN Top.complete + 1 ELSE Top.complete
               f == [Top EXCEPT !.left = @ \ {d}, !.complete = n]
    <3>1. /\ f.task = Top.task /\ f.fn = Top.fn /\ f.left = Top.left \ {d}
          /\ f.complete = n /\ f.reporting = Top.reporting
      BY <2>1 DEF Frames
    <3>2. /\ Depth \in DOMAIN stack' /\ stack'[Depth] = f
          /\ d \in Top.left /\ Top.fn = "Evaluate" /\ ~NewFailure(Top.task, d)
          /\ Top.reporting = NoTask /\ UNCHANGED <<state, failuresReported>>
      BY <2>1, <2>11 DEF Visited, taskVars
    <3>3. ~Tells(Top, u)
      BY <3>2 DEF Tells
    <3>4. ASSUME NEW e \in dependsOn[u], NewFailure(u, e), Sees(Top, u, e)
          PROVE  ToBeSeen(u, e)'
      <4>1. e \in Top.left /\ e # d /\ Top.task = u
        BY <1>1, <3>2, <3>4 DEF Sees
      <4> HIDE DEF f
      <4>2. Sees(f, u, e)
        BY <3>1, <3>2, <4>1 DEF Sees
      <4> QED BY <2>8, <3>2, <4>2
    <3>5. ASSUME AllMet(u), Counts(Top, u, dependsOn[u]) PROVE ToBeCounted(u)'
      <4>1. /\ Top.task = u /\ Top.complete + Cardinality(Top.left) = Cardinality(dependsOn[u])
            /\ state[d] = "Completed"
        BY <2>3, <3>2, <3>5 DEF Counts, AllMet
      <4>2. Cardinality(Top.left \ {d}) = Cardinality(Top.left) - 1
            /\ Cardinality(Top.left) \in Nat
        BY <2>3, <3>2, OneLess, TasksFinite
      <4>3. n = Top.complete + 1 /\ Top.complete \in Nat
        BY <2>3, <4>1, Numbers
      <4> HIDE DEF f, n
      <4>4. f.complete + Cardinality(f.left) = Cardinality(dependsOn[u])
        BY <3>1, <4>1, <4>2, <4>3
      <4>5. Counts(f, u, dependsOn[u])
        BY <3>1, <3>2, <4>1, <4>4 DEF Counts
      <4> QED BY <2>8, <3>2, <4>5
    <3> HIDE DEF f
    <3> QED BY <2>2, <2>4, <2>5, <2>6, <3>2, <3>3, <3>4, <3>5, RememberedStays
  <2>12. ASSUME NEW d \in TaskIDs, Reported(d) PROVE Remembered(u)'
    <3> DEFINE f == [Top EXCEPT !.left = @ \ {d}, !.reporting = d]
    <3>1. /\ f.task = Top.task /\ f.fn = Top.fn /\ f.left = Top.left \ {d}
          /\ f.reporting = d
      BY <2>1 DEF Frames
    <3>2. /\ Depth \in DOMAIN stack' /\ stack'[Depth] = f
          /\ d \in Top.left /\ Top.fn = "Evaluate" /\ NewFailure(Top.task, d)
          /\ Top.reporting = NoTask /\ UNCHANGED failuresReported
      BY <2>1, <2>12 DEF Reported
    <3> HIDE DEF f
    <3>3. ~Tells(Top, u)
      BY <3>2 DEF Tells
    <3>4. ASSUME NEW e \in dependsOn[u], Sees(Top, u, e) PROVE ToBeSeen(u, e)'
      <4>1. (e \in Top.left \ {d} \/ e = d) /\ Top.task = u
        BY <1>1, <3>2, <3>4 DEF Sees
      <4>2. Sees(f, u, e)
        BY <3>1, <3>2, <4>1 DEF Sees
      <4> QED BY <2>8, <3>2, <4>2
    <3>5. ~(AllMet(u) /\ Counts(Top, u, dependsOn[u]))
      BY <2>3, <3>2 DEF AllMet, Counts, NewFailure
    <3>6. CASE UNCHANGED state
      BY <2>2, <2>4, <2>5, <2>6, <3>2, <3>3, <3>4, <3>5, <3>6, RememberedStays
    <3>7. CASE ~UNCHANGED state
      <4>1. /\ Depth + 1 \in DOMAIN stack'
            /\ stack'[Depth + 1] = NotifyFrame(Top.task, dependedOnBy[Top.task])
            /\ state' = [state EXCEPT ![Top.task] = "Failed"]
        BY <2>1, <2>12, <3>7 DEF Reported
      <4>2. /\ ToBeTold(u) => ToBeTold(u)'
            /\ \A e \in dependsOn[u] : NewFailure(u, e) /\ ToBeSeen(u, e) =>
                 ToBeSeen(u, e)'
            /\ AllMet(u) /\ ToBeCounted(u) => ToBeCounted(u)'
        BY <2>4, <3>3, <3>4, <3>5
      <4> QED BY <2>1, <2>2, <2>3, <3>2, <4>1, <4>2, EndRemembered
    <3> QED BY <3>6, <3>7
  <2>13. CASE Acknowledged
    <3> DEFINE f == [Top EXCEPT !.reporting = NoTask]
    <3>1. /\ f.task = Top.task /\ f.fn = Top.fn /\ f.left = Top.left
      BY <2>1 DEF Frames
    <3>2. /\ Depth \in DOMAIN stack' /\ stack'[Depth] = f
          /\ Top.fn = "Evaluate" /\ Top.reporting # NoTask /\ UNCHANGED state
          /\ failuresReported' =
               [failuresReported EXCEPT ![Top.task] = @ \cup {Top.reporting}]
      BY <2>1, <2>13 DEF Acknowledged
    <3> HIDE DEF f
    <3>3. ~Tells(Top, u) /\ ~Counts(Top, u, dependsOn[u])
      BY <3>2 DEF Tells, Counts
    <3>4. \A e : NewFailure(u, e)' => NewFailure(u, e)
      BY <1>1, <2>6, <3>2
    <3>5. ASSUME NEW e \in dependsOn[u], NewFailure(u, e)', Sees(Top, u, e)
          PROVE  ToBeSeen(u, e)'
      <4>1. Top.task = u /\ e # Top.reporting
        BY <1>1, <2>6, <3>2, <3>5 DEF Sees
      <4>2. Sees(f, u, e)
        BY <3>1, <3>2, <3>5, <4>1 DEF Sees
      <4> QED BY <2>8, <3>2, <4>2
    <3> QED BY <2>2, <2>4, <2>5, <2>6, <3>2, <3>3, <3>4, <3>5, RememberedStays
  <2>14. ASSUME NEW s \in {"Ready", "Running"}, MadeReady(s) PROVE Remembered(u)'
    <3>1. /\ Top.fn = "Evaluate" /\ UNCHANGED failuresReported
          /\ state' = [state EXCEPT ![Top.task] = s]
      BY <2>14 DEF MadeReady
    <3>2. CASE u = Top.task
      BY <1>1, <3>1, <3>2 DEF Remembered
    <3>3. CASE u # Top.task
      <4>1. ~Tells(Top, u) /\ ~Counts(Top, u, dependsOn[u]) /\ \A e : ~Sees(Top, u, e)
        BY <3>1, <3>3 DEF Tells, Counts, Sees
      <4>2. state'[u] = state[u]
        BY <1>1, <3>1, <3>3
      <4>3. \A e \in dependsOn[u] :
              /\ state'[e] = "Failed" => state[e] = "Failed"
              /\ state'[e] = "Completed" => state[e] = "Completed"
        BY <1>1, <3>1
      <4>4. \A e \in dependsOn[u] : NewFailure(u, e)' => NewFailure(u, e)
        BY <2>6, <3>1, <4>3
      <4> QED BY <2>2, <2>4, <2>5, <4>1, <4>2, <4>3, <4>4, RememberedStays
    <3> QED BY <3>2, <3>3
  <2>15. CASE Finished
    <3>1. /\ Depth \in DOMAIN stack' /\ Top.fn = "Evaluate"
          /\ stack'[Depth] = NotifyFrame(Top.task, dependedOnBy[Top.task])
          /\ state' = [state EXCEPT ![Top.task] = "Completed"]
          /\ UNCHANGED failuresReported
      BY <2>1, <2>15 DEF Finished
    <3>2. /\ ToBeTold(u) => ToBeTold(u)'
          /\ \A e \in dependsOn[u] : NewFailure(u, e) /\ ToBeSeen(u, e) =>
               u = Top.task \/ ToBeSeen(u, e)'
          /\ AllMet(u) /\ ToBeCounted(u) => u = Top.task \/ ToBeCounted(u)'
      BY <2>4, <3>1 DEF Tells, Sees, Counts
    <3> QED BY <2>1, <2>2, <2>3, <3>1, <3>2, EndRemembered
  <2> QED BY <1>3, <2>9, <2>10, <2>11, <2>12, <2>13, <2>14, <2>15 DEF LoopOutcome
<1>4. ASSUME stack = <<>>
      PROVE  ~ToBeTold(u) /\ ~ToBeCounted(u) /\ \A d : ~ToBeSeen(u, d)
  <2>1. DOMAIN stack = {}
    BY <1>4, EmptySeq
  <2> QED BY <2>1 DEF ToBeTold, ToBeSeen, ToBeCounted
<1>5. CASE localQueue # <<>> /\ HandleDefine(Head(localQueue))
  <2>1. PICK t \in TaskIDs, n \in Names :
          /\ state[t] = "Unknown"
          /\ dependsOn' = [v \in TaskIDs |-> IF v \in nameDependents[n]
                                             THEN dependsOn[v] \cup {t}
                                             ELSE dependsOn[v]]
          /\ dependsOnUndefined' =
               [v \in TaskIDs |-> IF v \in nameDependents[n]
                                  THEN dependsOnUndefined[v] \ {n}
                                  ELSE dependsOnUndefined[v]]
          /\ state' = [state EXCEPT ![t] = "DepsUnknown"]
          /\ stack = <<>> /\ ~crashed
          /\ UNCHANGED failuresReported
    BY <1>5, DefineSteps
  <2>2. /\ \A d : ~ToBeSeen(u, d)
        /\ ~ToBeTold(u) /\ ~ToBeCounted(u) /\ Remembered(u)
    BY <1>2, <1>4, <2>1
  <2>3. ASSUME state'[u] = "WaitingForDeps"
        PROVE  (\A d \in dependsOn'[u] : ~NewFailure(u, d)') /\ ~AllMet(u)'
    <3>1. u # t /\ state[u] = "WaitingForDeps"
      BY <1>1, <2>1, <2>3
    <3>2. (\A d \in dependsOn[u] : ~NewFailure(u, d)) /\ ~AllMet(u)
      BY <2>2, <3>1 DEF Remembered
    <3>3. \A d \in dependsOn'[u] : d = t \/ (d \in dependsOn[u] /\ state'[d] = state[d])
      BY <1>1, <2>1
    <3>4. state'[t] = "DepsUnknown"
      BY <1>1, <2>1
    <3>5. \A d \in dependsOn'[u] : ~NewFailure(u, d)'
      BY <2>1, <3>2, <3>3, <3>4 DEF NewFailure
    <3>6. ~AllMet(u)'
      <4>1. CASE u \in nameDependents[n]
        <5>1. t \in dependsOn'[u]
          BY <2>1, <4>1
        <5> QED BY <3>4, <5>1 DEF AllMet
      <4>2. CASE u \notin nameDependents[n]
        <5>1. dependsOn'[u] = dependsOn[u] /\ dependsOnUndefined'[u] = dependsOnUndefined[u]
          BY <2>1, <4>2
        <5>2. AllMet(u)' => AllMet(u)
          BY <3>3, <3>4, <5>1 DEF AllMet
        <5> QED BY <3>2, <5>2
      <4> QED BY <4>1, <4>2
    <3> QED BY <3>5, <3>6
  <2> QED BY <2>3 DEF Remembered
<1>6. ASSUME NEW t \in TaskIDs, NEW names \in SUBSET Names, NEW deps \in SUBSET TaskIDs,
             NEW undef \in SUBSET Names, DependenciesSet(t, names, deps, undef)
      PROVE  Remembered(u)'
  <2>1. /\ stack = <<>> /\ stack' = Append(<<>>, EvaluateFrame(t, deps)) /\ ~crashed
        /\ dependsOn' = [dependsOn EXCEPT ![t] = deps]
        /\ dependsOnUndefined' = [dependsOnUndefined EXCEPT ![t] = undef]
        /\ failuresReported' = [failuresReported EXCEPT ![t] = {}]
        /\ state' = [state EXCEPT ![t] = "WaitingForDeps"]
    BY <1>6 DEF DependenciesSet
  <2>2. CASE u = t
    <3>1. DOMAIN stack' = {1} /\ stack'[1] = EvaluateFrame(t, deps)
      BY <2>1, FrameTypes, OnlyFrame
    <3>2. Cardinality(deps) \in Nat
      BY TasksFinite
    <3>3. /\ \A d \in deps : Sees(EvaluateFrame(t, deps), t, d)
          /\ Counts(EvaluateFrame(t, deps), t, deps)
      BY <3>2 DEF Sees, Counts, EvaluateFrame
    <3>4. dependsOn'[u] = deps
      BY <1>1, <2>1, <2>2
    <3>5. (\A d \in dependsOn'[u] : ToBeSeen(u, d)') /\ ToBeCounted(u)'
      BY <2>2, <3>1, <3>3, <3>4 DEF ToBeSeen, ToBeCounted
    <3> QED BY <3>5 DEF Remembered
  <2>3. CASE u # t
    <3>1. Remembered(u) /\ ~ToBeTold(u) /\ ~ToBeCounted(u) /\ \A d : ~ToBeSeen(u, d)
      BY <1>2, <1>4, <2>1
    <3>2. /\ state'[u] = state[u] /\ dependsOn'[u] = dependsOn[u]
          /\ dependsOnUndefined'[u] = dependsOnUndefined[u]
          /\ failuresReported'[u] = failuresReported[u]
      BY <1>1, <2>1, <2>3
    <3>3. \A d \in dependsOn[u] :
            /\ state'[d] = "Failed" => state[d] = "Failed"
            /\ state'[d] = "Completed" => state[d] = "Completed"
      BY <1>1, <2>1
    <3>4. \A d \in dependsOn[u] : NewFailure(u, d)' => NewFailure(u, d)
      BY <3>2, <3>3 DEF NewFailure
    <3> QED BY <3>1, <3>2, <3>3, <3>4, RememberedStays
  <2> QED BY <2>2, <2>3
<1>7. ASSUME NEW t \in TaskIDs, NEW ok \in BOOLEAN, TaskEnded(t, ok)
      PROVE  Remembered(u)'
  <2> DEFINE end == IF ok THEN "Completed" ELSE "Failed"
  <2>1. /\ stack = <<>> /\ stack' = Append(<<>>, NotifyFrame(t, dependedOnBy[t])) /\ ~crashed
        /\ state' = [state EXCEPT ![t] = end]
        /\ UNCHANGED <<graphVars, failuresReported>>
    BY <1>7 DEF TaskEnded
  <2>2. end \in {"Completed", "Failed"} /\ dependedOnBy[t] \in SUBSET TaskIDs
    BY DEF TypeOK
  <2>3. 1 \in DOMAIN stack' /\ stack'[1] = NotifyFrame(t, dependedOnBy[t])
    BY <2>1, <2>2, FrameTypes, OnlyFrame
  <2>4. Remembered(u) /\ ~ToBeTold(u) /\ ~ToBeCounted(u) /\ \A d : ~ToBeSeen(u, d)
    BY <1>2, <1>4, <2>1
  <2> HIDE DEF end
  <2> QED BY <2>1, <2>2, <2>3, <2>4, EndRemembered
<1>8. ASSUME NEW t \in TaskIDs, TaskRun(t) PROVE Remembered(u)'
  <2>1. /\ stack = <<>> /\ ~crashed /\ UNCHANGED <<graphVars, failuresReported>>
        /\ state' = [state EXCEPT ![t] = "Running"]
    BY <1>8 DEF TaskRun
  <2>2. Remembered(u) /\ ~ToBeTold(u) /\ ~ToBeCounted(u) /\ \A d : ~ToBeSeen(u, d)
    BY <1>2, <1>4, <2>1
  <2>3. /\ state'[u] = "WaitingForDeps" => state[u] = "WaitingForDeps"
        /\ dependsOn'[u] = dependsOn[u] /\ dependsOnUndefined'[u] = dependsOnUndefined[u]
    BY <1>1, <2>1 DEF graphVars
  <2>4. \A d \in dependsOn[u] :
          /\ state'[d] = "Failed" => state[d] = "Failed"
          /\ state'[d] = "Completed" => state[d] = "Completed"
    BY <1>1, <2>1
  <2>5. \A d \in dependsOn[u] : NewFailure(u, d)' => NewFailure(u, d)
    BY <2>1, <2>4 DEF NewFailure
  <2> QED BY <2>2, <2>3, <2>4, <2>5, RememberedStays
<1>9. CASE Quiet
  <2>1. Remembered(u)
    BY <1>2, <1>9 DEF Quiet
  <2> QED BY <1>9, <2>1 DEF Quiet, graphVars, taskVars, Remembered, ToBeTold, ToBeSeen,
                            ToBeCounted, AllMet, NewFailure
<1> QED BY <1>3, <1>5, <1>6, <1>7, <1>8, <1>9, StepKinds

\* Whenever no call is being handled, no waiting task has a failed dependency
\* it was not told of or only complete ones: nothing is forgotten, whatever
\* is called inside which callback.
THEOREM MissedCorrect == Spec => []NothingMissed
<1>1. Init => StartupInv /\ MissedInv
  <2> SUFFICES ASSUME Init PROVE StartupInv /\ MissedInv
    OBVIOUS
  <2>1. \A t \in TaskIDs : state[t] = "Unknown"
    BY DEF Init
  <2> QED BY <2>1, StartupInit DEF MissedInv, Remembered
<1>2. StartupInv /\ MissedInv /\ [Next]_vars => (StartupInv /\ MissedInv)'
  BY StartupKept, MissedKept DEF StartupInv
<1>3. StartupInv /\ MissedInv => NothingMissed
  <2> SUFFICES ASSUME StartupInv, MissedInv, stack = <<>>, ~crashed,
                      NEW t \in TaskIDs, state[t] = "WaitingForDeps"
               PROVE  /\ {d \in dependsOn[t] : state[d] = "Failed"} \subseteq failuresReported[t]
                      /\ \/ dependsOnUndefined[t] # {}
                         \/ \E d \in dependsOn[t] : state[d] # "Completed"
    BY DEF NothingMissed
  <2>1. DOMAIN stack = {}
    BY EmptySeq
  <2>2. ~ToBeTold(t) /\ ~ToBeCounted(t) /\ \A d : ~ToBeSeen(t, d)
    BY <2>1 DEF ToBeTold, ToBeSeen, ToBeCounted
  <2>3. Remembered(t)
    BY DEF MissedInv
  <2> QED BY <2>2, <2>3 DEF Remembered, NewFailure, AllMet
<1> QED BY <1>1, <1>2, <1>3, PTL DEF Spec


-----------------------------------------------------------------------------
(* Well-behaved clients and listeners                                      *)

\* The call a client adds to the queue in a step.
CallMade(a) ==
  \/ \E n \in Names : DefineStartupTask(n) /\ a = DefineAction(nextTaskId, n)
  \/ \E t \in TaskIDs, deps \in SUBSET Names :
       SetStartupDependencies(t, deps) /\ a = SetDepsAction(t, deps)
  \/ \E t \in TaskIDs : RunTask(t) /\ a = RunAction(t)
  \/ \E t \in TaskIDs, ok \in BOOLEAN : CompleteTask(t, ok) /\ a = CompleteAction(t, ok)

\* A call that waits after a step waited before it or is made in it.
LEMMA CallsFrom ==
  ASSUME TypeOK, CallsInv, [Next]_vars, NEW i \in DOMAIN calls'
  PROVE  \/ \E j \in DOMAIN calls : calls'[i] = calls[j]
         \/ CallMade(calls'[i])
<1> USE DEF managerVars, clientVars, execVars
<1>1. calls \in Seq(Actions) /\ DOMAIN calls = 1 .. Len(calls) /\ Len(calls) \in Nat
  <2>1. calls \in Seq(Actions)
    BY ConcatProperties DEF calls, TypeOK
  <2> QED BY <2>1, LenProperties
<1>2. CASE UNCHANGED <<executorQueue, localQueue>>
  <2>1. calls' = calls
    BY <1>2 DEF calls
  <2> QED BY <2>1
<1>3. ASSUME NEW a \in Actions, executorQueue' = Append(executorQueue, a),
             UNCHANGED localQueue, CallMade(a)
      PROVE  \/ \E j \in DOMAIN calls : calls'[i] = calls[j]
             \/ CallMade(calls'[i])
  <2>1. /\ DOMAIN calls' = 1 .. Len(calls) + 1
        /\ \A k \in 1 .. Len(calls) : calls'[k] = calls[k]
        /\ calls'[Len(calls) + 1] = a
    BY <1>3, CallAdded
  <2>2. i = Len(calls) + 1 \/ i \in 1 .. Len(calls)
    BY <1>1, <2>1
  <2> QED BY <1>1, <1>3, <2>1, <2>2
<1>4. CASE Clients
  <2>1. UNCHANGED localQueue
    BY <1>4, OutsideSteps
  <2>2. ASSUME NEW n \in Names, DefineStartupTask(n)
        PROVE  \/ \E j \in DOMAIN calls : calls'[i] = calls[j]
               \/ CallMade(calls'[i])
    <3>1. nextTaskId \in TaskIDs
      BY <2>2, Numbers DEF DefineStartupTask, TypeOK, TaskIDs
    <3>2. /\ DefineAction(nextTaskId, n) \in Actions
          /\ executorQueue' = Append(executorQueue, DefineAction(nextTaskId, n))
      BY <2>2, <3>1, ActionTypes DEF DefineStartupTask, Enqueue
    <3>3. CallMade(DefineAction(nextTaskId, n))
      BY <2>2 DEF CallMade
    <3> QED BY <1>3, <2>1, <3>2, <3>3
  <2>3. ASSUME NEW t \in TaskIDs, NEW deps \in SUBSET Names, SetStartupDependencies(t, deps)
        PROVE  \/ \E j \in DOMAIN calls : calls'[i] = calls[j]
               \/ CallMade(calls'[i])
    <3>1. /\ SetDepsAction(t, deps) \in Actions
          /\ executorQueue' = Append(executorQueue, SetDepsAction(t, deps))
      BY <2>3, ActionTypes DEF SetStartupDependencies, Enqueue
    <3>2. CallMade(SetDepsAction(t, deps))
      BY <2>3 DEF CallMade
    <3> QED BY <1>3, <2>1, <3>1, <3>2
  <2>4. ASSUME NEW t \in TaskIDs, RunTask(t)
        PROVE  \/ \E j \in DOMAIN calls : calls'[i] = calls[j]
               \/ CallMade(calls'[i])
    <3>1. RunAction(t) \in Actions /\ executorQueue' = Append(executorQueue, RunAction(t))
      BY <2>4, ActionTypes DEF RunTask, Enqueue
    <3>2. CallMade(RunAction(t))
      BY <2>4 DEF CallMade
    <3> QED BY <1>3, <2>1, <3>1, <3>2
  <2>5. ASSUME NEW t \in TaskIDs, NEW ok \in BOOLEAN, CompleteTask(t, ok)
        PROVE  \/ \E j \in DOMAIN calls : calls'[i] = calls[j]
               \/ CallMade(calls'[i])
    <3>1. /\ CompleteAction(t, ok) \in Actions
          /\ executorQueue' = Append(executorQueue, CompleteAction(t, ok))
      BY <2>5, ActionTypes DEF CompleteTask, Enqueue
    <3>2. CallMade(CompleteAction(t, ok))
      BY <2>5 DEF CallMade
    <3> QED BY <1>3, <2>1, <3>1, <3>2
  <2>6. CASE StartExecutor
    BY <1>2, <2>6 DEF StartExecutor
  <2> QED BY <1>4, <2>2, <2>3, <2>4, <2>5, <2>6 DEF Clients
<1>5. CASE Wake \/ TerminationRequested \/ StopRound \/ EndRound
  BY <1>2, <1>5 DEF Wake, TerminationRequested, StopRound, EndRound
<1>6. CASE StartRound
  <2>1. localQueue = <<>>
    BY <1>6 DEF StartRound, CallsInv
  <2>2. <<>> \o executorQueue = executorQueue /\ executorQueue \o <<>> = executorQueue
    BY ConcatEmptySeq DEF TypeOK
  <2>3. calls' = calls
    BY <1>6, <2>1, <2>2 DEF StartRound, calls
  <2> QED BY <2>3
<1>7. ASSUME localQueue # <<>>, NEW op, Handles(op, Head(localQueue))
      PROVE  \E j \in DOMAIN calls : calls'[i] = calls[j]
  <2>1. calls' = Tail(calls) /\ calls # <<>>
    BY <1>7, HeadFacts DEF Handles, calls
  <2>2. /\ DOMAIN calls' = 1 .. Len(calls) - 1
        /\ \A k \in 1 .. Len(calls) - 1 : calls'[k] = calls[k + 1]
    BY <1>1, <2>1, Taken
  <2>3. i + 1 \in DOMAIN calls /\ calls'[i] = calls[i + 1]
    BY <1>1, <2>2
  <2> QED BY <2>3
<1>8. CASE /\ localQueue # <<>>
           /\ \/ HandleDefine(Head(localQueue))
              \/ HandleSetDeps(Head(localQueue))
              \/ HandleComplete(Head(localQueue))
              \/ HandleRun(Head(localQueue))
  BY <1>7, <1>8 DEF HandleDefine, HandleSetDeps, HandleComplete, HandleRun
<1>9. CASE LoopStep
  BY <1>2, <1>9 DEF LoopStep, TellDependent, EndTelling, VisitDependency, ReportFailure,
                    FailureReported, EvaluatedWaiting, EvaluatedReady, FrameOnly
<1>10. CASE UNCHANGED vars
  BY <1>2, <1>10 DEF vars
<1> QED BY <1>4, <1>5, <1>6, <1>8, <1>9, <1>10 DEF Next, StartupThread, LoopStep


\* No name is defined twice.
DefinedOnce == \A i, j \in DOMAIN defined : defined[i] = defined[j] => i = j

\* Where no name was defined twice, a definition finds its name without a task:
\* value() of an empty optional is not asked for (cpp:145).
LEMMA DefinesNew ==
  ASSUME StartupInv, DefinedOnce, localQueue # <<>>, HandleDefine(Head(localQueue))
  PROVE  /\ UNCHANGED crashed
         /\ \A t \in TaskIDs, n \in Names :
              t < nextTaskId /\ n = defined[t + 1] /\ state[t] = "Unknown"
                => nameTask[n] = NoTask
<1>1. ASSUME NEW t \in TaskIDs, NEW n \in Names,
             t < nextTaskId, n = defined[t + 1], state[t] = "Unknown", nameTask[n] # NoTask
      PROVE  FALSE
  <2>1. /\ Exists(nameTask[n]) /\ defined[nameTask[n] + 1] = n
        /\ nameTask[n] \in TaskIDs
    BY <1>1 DEF StartupInv, GraphInv, TypeOK
  <2>2. nameTask[n] < nextTaskId
    BY <2>1 DEF StartupInv, GraphInv
  <2>3. /\ DOMAIN defined = 1 .. nextTaskId /\ nextTaskId \in Nat
    BY LenProperties, Numbers DEF StartupInv, TypeOK
  <2>4. /\ \A k \in TaskIDs : k < nextTaskId => k + 1 \in DOMAIN defined
        /\ \A j, k \in TaskIDs : j + 1 = k + 1 => j = k
    BY <2>3, Numbers
  <2>5. t + 1 = nameTask[n] + 1
    BY <1>1, <2>1, <2>2, <2>4 DEF DefinedOnce
  <2>6. t = nameTask[n]
    BY <2>1, <2>4, <2>5
  <2> QED BY <1>1, <2>1, <2>6 DEF Exists
<1>2. UNCHANGED crashed
  <2>1. PICK t \in TaskIDs, n \in Names :
          /\ t < nextTaskId /\ n = defined[t + 1] /\ state[t] = "Unknown"
          /\ nameTask[n] # NoTask \/ UNCHANGED crashed
    BY DefineSteps DEF StartupInv
  <2> QED BY <1>1, <2>1
<1> QED BY <1>1, <1>2

\* Where clients define no name twice and no listener changes dependencies
\* when a dependency failed, no legal sequence of calls ends the process: the
\* two places that can (cpp:145 and the loop of cpp:103) are the only ones.
THEOREM CrashFree ==
  ASSUME ~MayRedefine, "update" \notin FailReactions
  PROVE  Spec => []NoCrash
<1>1. Init => NoCrash /\ DefinedOnce
  BY DEF Init, NoCrash, DefinedOnce
<1>2. ASSUME StartupInv, NoCrash, DefinedOnce, [Next]_vars PROVE DefinedOnce'
  <2>1. defined \in Seq(Names) /\ DOMAIN defined = 1 .. Len(defined) /\ Len(defined) \in Nat
    BY <1>2, LenProperties DEF StartupInv, TypeOK
  <2>2. CASE \E n \in Names : DefineStartupTask(n)
    <3>1. PICK n \in Names : DefineStartupTask(n)
      BY <2>2
    <3>2. (\A i \in DOMAIN defined : defined[i] # n) /\ defined' = Append(defined, n)
      BY <3>1 DEF DefineStartupTask
    <3>3. /\ DOMAIN defined' = 1 .. Len(defined) + 1
          /\ \A i \in 1 .. Len(defined) : defined'[i] = defined[i]
          /\ defined'[Len(defined) + 1] = n
      BY <2>1, <3>2, Pushed
    <3>4. \A i \in DOMAIN defined' : i \in DOMAIN defined \/ i = Len(defined) + 1
      BY <2>1, <3>3
    <3> QED BY <1>2, <2>1, <3>2, <3>3, <3>4 DEF DefinedOnce
  <2>3. CASE ~\E n \in Names : DefineStartupTask(n)
    <3>1. UNCHANGED defined
      <4> USE DEF clientVars
      <4>1. CASE Clients \/ Wake \/ TerminationRequested
        BY <2>3, <4>1 DEF Clients, SetStartupDependencies, RunTask, CompleteTask,
                          StartExecutor, Wake, TerminationRequested
      <4>2. CASE LoopStep
        BY <4>2 DEF LoopStep, TellDependent, EndTelling, VisitDependency, ReportFailure,
                    FailureReported, EvaluatedWaiting, EvaluatedReady, FrameOnly
      <4>3. CASE StartRound \/ StopRound \/ EndRound
        BY <4>3 DEF StartRound, StopRound, EndRound
      <4>4. CASE \/ HandleDefine(Head(localQueue))
                 \/ HandleSetDeps(Head(localQueue))
                 \/ HandleComplete(Head(localQueue))
                 \/ HandleRun(Head(localQueue))
        BY <4>4 DEF HandleDefine, HandleSetDeps, HandleComplete, HandleRun, Handles
      <4>5. CASE UNCHANGED vars
        BY <4>5 DEF vars
      <4> QED BY <1>2, <4>1, <4>2, <4>3, <4>4, <4>5 DEF Next, StartupThread, LoopStep
    <3> QED BY <1>2, <3>1 DEF DefinedOnce
  <2> QED BY <2>2, <2>3
<1>3. ASSUME StartupInv, NoCrash, DefinedOnce, [Next]_vars PROVE NoCrash'
  <2> SUFFICES ASSUME crashed' # FALSE PROVE FALSE
    BY DEF NoCrash
  <2>1. ~crashed /\ crashed \in BOOLEAN
    BY <1>3 DEF NoCrash, StartupInv, TypeOK
  <2>2. CASE localQueue # <<>> /\ HandleDefine(Head(localQueue))
    BY <1>3, <2>1, <2>2, DefinesNew
  <2>3. CASE LoopFrame /\ LoopOutcome
    <3>1. UNCHANGED crashed \/ \E d \in TaskIDs : Reported(d)
      BY <2>3 DEF LoopOutcome, Told, Visited, Returned, Acknowledged, MadeReady, Finished
    <3>2. UNCHANGED crashed \/ (crashed' => "update" \in FailReactions)
      BY <3>1 DEF Reported
    <3>3. crashed' \in BOOLEAN
      BY <1>3, StartupKept DEF StartupInv, TypeOK
    <3> QED BY <2>1, <3>2, <3>3
  <2>4. CASE \E t \in TaskIDs, names \in SUBSET Names, deps \in SUBSET TaskIDs,
                undef \in SUBSET Names : DependenciesSet(t, names, deps, undef)
    BY <2>1, <2>4 DEF DependenciesSet
  <2>5. CASE \/ \E t \in TaskIDs, ok \in BOOLEAN : TaskEnded(t, ok)
             \/ \E t \in TaskIDs : TaskRun(t)
             \/ Quiet
    BY <2>1, <2>5 DEF TaskEnded, TaskRun, Quiet
  <2> QED BY <1>3, <2>2, <2>3, <2>4, <2>5, StepKinds DEF StartupInv
<1>4. StartupInv /\ NoCrash /\ DefinedOnce /\ [Next]_vars => (NoCrash /\ DefinedOnce)'
  BY <1>2, <1>3
<1> QED BY <1>1, <1>4, StartupCorrect, PTL DEF Spec


-----------------------------------------------------------------------------
(* The count of waiting tasks                                              *)

Open == {t \in TaskIDs : Exists(t) /\ ~Final(t)}

HasFailed(t) == \E d \in dependsOn[t] : state[d] = "Failed"

\* The dependencies of task t that are complete, without those in left.
CompleteWithout(t, left) == {d \in dependsOn[t] \ left : state[d] = "Completed"}

\* A task runs only when all it depends on is complete, and ends after that or
\* because a dependency failed.
TaskSettled(t) ==
  /\ state[t] \in {"Ready", "Running", "Completed"} => AllMet(t)
  /\ state[t] = "Failed" => AllMet(t) \/ HasFailed(t)

\* An evaluation counted complete dependencies only.  Its task still waits, and
\* is evaluated nowhere else, or a dependency of it failed.  Dependents to be
\* told are such tasks as well.
FrameSettled(i) ==
  /\ stack[i].fn = "Evaluate" =>
       /\ stack[i].complete <= Cardinality(CompleteWithout(stack[i].task, stack[i].left))
       /\ \/ HasFailed(stack[i].task)
          \/ /\ state[stack[i].task] = "WaitingForDeps"
             /\ \/ i = 1
                \/ i = 2 /\ stack[1].fn = "Notify" /\ stack[i].task \notin stack[1].left
  /\ stack[i].fn = "Notify" =>
       /\ \/ state[stack[i].task] = "Failed"
          \/ i = 1 /\ state[stack[i].task] = "Completed"
       /\ \A d \in stack[i].left : HasFailed(d) \/ state[d] = "WaitingForDeps"

SettledInv ==
  /\ \A i \in DOMAIN calls : calls[i].op = "Complete" =>
       state[calls[i].id] \in {"Running", "Completed", "Failed"}
  /\ \A t \in TaskIDs : TaskSettled(t)
  /\ \A i \in DOMAIN stack : FrameSettled(i)

\* The state of one task changes, and the count with it.
Moves(t, s) == state' = [state EXCEPT ![t] = s]
Moved(t) ==
  \/ /\ state[t] = "Unknown" /\ Moves(t, "DepsUnknown")
     /\ waitingTasks' = Plus(waitingTasks, 1)
  \/ /\ state[t] \in {"DepsUnknown", "WaitingForDeps"} /\ Moves(t, "WaitingForDeps")
     /\ UNCHANGED waitingTasks
  \/ /\ state[t] = "WaitingForDeps" /\ AllMet(t)
     /\ Moves(t, "Ready") \/ Moves(t, "Running")
     /\ UNCHANGED waitingTasks
  \/ state[t] = "Ready" /\ Moves(t, "Running") /\ UNCHANGED waitingTasks
  \/ /\ state[t] = "Running" /\ Moves(t, "Completed")
     /\ waitingTasks' = Minus(waitingTasks, 1)
  \/ /\ state[t] \in {"Running", "Ready", "WaitingForDeps"} /\ Moves(t, "Failed")
     /\ AllMet(t) \/ HasFailed(t)
     /\ waitingTasks' = Minus(waitingTasks, 1)

\* The unsigned count does not wrap around where it counts tasks.
LEMMA Counting ==
  ASSUME NEW n \in 0 .. MaxTasks
  PROVE  /\ n < MaxTasks => Plus(n, 1) = n + 1
         /\ n > 0 => Minus(n, 1) = n - 1
<1>1. UINT_RANGE \in Nat \ {0} /\ UINT_RANGE > MaxTasks /\ MaxTasks \in Nat
  BY Numbers
<1>2. \A r \in 0 .. UINT_RANGE - 1 : r % UINT_RANGE = r /\ (r + UINT_RANGE) % UINT_RANGE = r
  BY ONLY <1>1
<1>3. ASSUME n < MaxTasks PROVE Plus(n, 1) = n + 1
  <2>1. n + 1 \in 0 .. UINT_RANGE - 1
    BY <1>1, <1>3
  <2> QED BY <1>2, <2>1 DEF Plus
<1>4. ASSUME n > 0 PROVE Minus(n, 1) = n - 1
  <2>1. n - 1 \in 0 .. UINT_RANGE - 1 /\ n + UINT_RANGE - 1 = (n - 1) + UINT_RANGE
    BY <1>1, <1>4
  <2> QED BY <1>2, <2>1 DEF Minus
<1> QED BY <1>3, <1>4

\* The count follows the moves of tasks.
LEMMA CountKept ==
  ASSUME TypeOK, WaitingCount, NEW t \in TaskIDs, Moved(t)
  PROVE  WaitingCount'
<1>1. state \in [TaskIDs -> TaskStates]
  BY DEF TypeOK
<1>2. \A S \in SUBSET TaskIDs : IsFiniteSet(S) /\ Cardinality(S) \in 0 .. MaxTasks
  BY TasksFinite, Numbers
<1>3. Open \in SUBSET TaskIDs /\ Open' \in SUBSET TaskIDs
  BY DEF Open
<1>4. waitingTasks = Cardinality(Open)
  BY DEF WaitingCount, Open
<1>5. Cardinality(Open) \in 0 .. MaxTasks /\ Cardinality(Open') \in 0 .. MaxTasks
      /\ MaxTasks \in Nat
  BY <1>2, <1>3, Numbers
<1>6. CASE state[t] = "Unknown" /\ Moves(t, "DepsUnknown")
           /\ waitingTasks' = Plus(waitingTasks, 1)
  <2>1. t \notin Open /\ Open' = Open \cup {t}
    BY <1>1, <1>6 DEF Open, Moves, Exists, Final
  <2>2. Cardinality(Open') = Cardinality(Open) + 1
    BY <1>2, <1>3, <2>1, FS_AddElement
  <2>3. Plus(Cardinality(Open), 1) = Cardinality(Open) + 1
    BY <1>5, <2>2, Counting
  <2> QED BY <1>4, <1>6, <2>2, <2>3 DEF WaitingCount, Open
<1>7. CASE /\ state[t] \in {"Running", "Ready", "WaitingForDeps"}
           /\ Moves(t, "Completed") \/ Moves(t, "Failed")
           /\ waitingTasks' = Minus(waitingTasks, 1)
  <2>1. t \in Open /\ Open' = Open \ {t}
    BY <1>1, <1>7 DEF Open, Moves, Exists, Final
  <2>2. Cardinality(Open') = Cardinality(Open) - 1
    BY <1>2, <1>3, <2>1, FS_RemoveElement
  <2>3. Minus(Cardinality(Open), 1) = Cardinality(Open) - 1
    BY <1>5, <2>2, Counting
  <2> QED BY <1>4, <1>7, <2>2, <2>3 DEF WaitingCount, Open
<1>8. CASE /\ state[t] \in {"DepsUnknown", "WaitingForDeps", "Ready"}
           /\ Moves(t, "WaitingForDeps") \/ Moves(t, "Ready") \/ Moves(t, "Running")
           /\ UNCHANGED waitingTasks
  <2>1. Open' = Open
    BY <1>1, <1>8 DEF Open, Moves, Exists, Final
  <2> QED BY <1>4, <1>8, <2>1 DEF WaitingCount, Open
<1> QED BY <1>6, <1>7, <1>8 DEF Moved

\* The evaluation on top that counted every dependency is of a task that waits,
\* and is the only one of it.
LEMMA ReadyFacts ==
  ASSUME TypeOK, FramesInv, SettledInv, stack # <<>>, Top.fn = "Evaluate",
         Evaluated(Top), AllComplete(Top)
  PROVE  /\ state[Top.task] = "WaitingForDeps" /\ AllMet(Top.task) /\ ~HasFailed(Top.task)
         /\ \/ Len(stack) = 1
            \/ Len(stack) = 2 /\ stack[1].fn = "Notify" /\ Top.task \notin stack[1].left
<1>1. /\ Len(stack) \in DOMAIN stack /\ Top = stack[Len(stack)] /\ Top \in Frames
  BY TopFacts
<1>2. FrameSettled(Len(stack)) /\ Top.task \in TaskIDs /\ Top.left = {}
      /\ Top.complete \in 0 .. MaxTasks
  BY <1>1, FrameTypes DEF SettledInv, Evaluated
<1> DEFINE D == dependsOn[Top.task]
           C == CompleteWithout(Top.task, {})
<1>3. D \in SUBSET TaskIDs /\ C \in SUBSET D
  BY <1>2 DEF TypeOK, CompleteWithout
<1>4. Top.complete = Cardinality(D) /\ dependsOnUndefined[Top.task] = {}
  BY DEF AllComplete
<1>5. Top.complete <= Cardinality(C)
  BY <1>1, <1>2 DEF FrameSettled
<1>6. IsFiniteSet(D) /\ Cardinality(D) \in Nat /\ Cardinality(C) \in Nat
  BY <1>3, TasksFinite
<1>7. Cardinality(C) <= Cardinality(D) /\ (Cardinality(D) = Cardinality(C) => D = C)
  BY <1>3, <1>6, FS_Subset
<1> HIDE DEF D, C
<1>8. D = C
  BY <1>4, <1>5, <1>6, <1>7
<1>9. \A d \in dependsOn[Top.task] : state[d] = "Completed"
  BY <1>8 DEF D, C, CompleteWithout
<1>10. AllMet(Top.task) /\ ~HasFailed(Top.task)
  BY <1>4, <1>9 DEF AllMet, HasFailed
<1> QED BY <1>1, <1>2, <1>10 DEF FrameSettled

\* What the steps do to the states of tasks where clients give up no task that
\* does not run and no listener completes its task inside OnTaskReady.
LEMMA SettledMoves ==
  ASSUME TypeOK, CallsInv, FramesInv, SettledInv, [Next]_vars,
         "finish" \notin ReadyReactions
  PROVE  UNCHANGED <<state, waitingTasks>> \/ \E t \in TaskIDs : Moved(t)
<1>1. CASE LoopFrame /\ LoopOutcome
  <2>1. Top.task \in TaskIDs /\ stack # <<>>
    BY <1>1, FrameTypes, EmptySeq DEF LoopFrame, Depth
  <2>2. ASSUME NEW d \in TaskIDs, Reported(d)
        PROVE  UNCHANGED <<state, waitingTasks>> \/ Moved(Top.task)
    <3>1. HasFailed(Top.task)
      BY <1>1, <2>2 DEF LoopFrame, FrameOf, Reported, NewFailure, HasFailed
    <3> QED BY <2>2, <3>1 DEF Reported, Moved, Moves
  <2>3. ASSUME NEW s \in {"Ready", "Running"}, MadeReady(s) PROVE Moved(Top.task)
    <3>1. state[Top.task] = "WaitingForDeps" /\ AllMet(Top.task)
      BY <2>1, <2>3, ReadyFacts DEF MadeReady
    <3> QED BY <2>3, <3>1 DEF MadeReady, Moved, Moves
  <2> QED BY <1>1, <2>1, <2>2, <2>3 DEF LoopOutcome, Told, Visited, Returned, Acknowledged,
                                        Finished, taskVars
<1>2. CASE localQueue # <<>> /\ HandleDefine(Head(localQueue))
  BY <1>2, DefineSteps DEF Moved, Moves, taskVars
<1>3. ASSUME NEW t \in TaskIDs, NEW names \in SUBSET Names, NEW deps \in SUBSET TaskIDs,
             NEW undef \in SUBSET Names, DependenciesSet(t, names, deps, undef)
      PROVE  Moved(t)
  BY <1>3 DEF DependenciesSet, MayChangeDependencies, Moved, Moves
<1>4. ASSUME NEW t \in TaskIDs, NEW ok \in BOOLEAN, TaskEnded(t, ok) PROVE Moved(t)
  <2>1. state[t] = "Running"
    BY <1>4 DEF TaskEnded, MayComplete, SettledInv
  <2>2. AllMet(t)
    BY <2>1 DEF SettledInv, TaskSettled
  <2> QED BY <1>4, <2>1, <2>2 DEF TaskEnded, Moved, Moves
<1>5. ASSUME NEW t \in TaskIDs, TaskRun(t) PROVE Moved(t)
  BY <1>5 DEF TaskRun, Moved, Moves
<1>6. CASE Quiet
  BY <1>6 DEF Quiet, taskVars
<1> QED BY <1>1, <1>2, <1>3, <1>4, <1>5, <1>6, StepKinds


\* Tasks that ended stay as they ended, and tasks that were met or have a failed
\* dependency stay so while the graph is left alone.
LEMMA MoveKeeps ==
  ASSUME TypeOK, UNCHANGED <<state, waitingTasks>> \/ \E t \in TaskIDs : Moved(t)
  PROVE  /\ \A u \in TaskIDs : state[u] \in {"Completed", "Failed"} => state'[u] = state[u]
         /\ \A u \in TaskIDs : state[u] = "Running" => state'[u] \in {"Running", "Completed", "Failed"}
         /\ \A u \in TaskIDs : UNCHANGED <<dependsOn[u], dependsOnUndefined[u]>> =>
              /\ AllMet(u) => AllMet(u)'
              /\ HasFailed(u) => HasFailed(u)'
<1>1. state \in [TaskIDs -> TaskStates] /\ dependsOn \in [TaskIDs -> SUBSET TaskIDs]
  BY DEF TypeOK
<1>2. /\ \A u \in TaskIDs : state[u] \in {"Completed", "Failed"} => state'[u] = state[u]
      /\ \A u \in TaskIDs : state[u] = "Running" => state'[u] \in {"Running", "Completed", "Failed"}
  <2>1. ASSUME NEW u \in TaskIDs, NEW t \in TaskIDs, Moved(t)
        PROVE  /\ state[u] \in {"Completed", "Failed"} => state'[u] = state[u]
               /\ state[u] = "Running" => state'[u] \in {"Running", "Completed", "Failed"}
    <3>1. CASE u = t
      BY <1>1, <2>1, <3>1 DEF Moved, Moves
    <3>2. CASE u # t
      BY <1>1, <2>1, <3>2 DEF Moved, Moves
    <3> QED BY <3>1, <3>2
  <2> QED BY <2>1
<1>3. ASSUME NEW u \in TaskIDs, UNCHANGED <<dependsOn[u], dependsOnUndefined[u]>>
      PROVE  (AllMet(u) => AllMet(u)') /\ (HasFailed(u) => HasFailed(u)')
  <2>1. \A d \in dependsOn[u] : d \in TaskIDs
    BY <1>1
  <2> QED BY <1>2, <1>3, <2>1 DEF AllMet, HasFailed
<1> QED BY <1>2, <1>3

\* A task that a move leaves met, or with a failed dependency, is settled.
LEMMA SettledStays ==
  ASSUME TypeOK, SettledInv, NEW u \in TaskIDs,
         UNCHANGED <<state, waitingTasks>> \/ \E t \in TaskIDs : Moved(t),
         UNCHANGED <<dependsOn[u], dependsOnUndefined[u]>>
  PROVE  TaskSettled(u)'
<1>1. (AllMet(u) => AllMet(u)') /\ (HasFailed(u) => HasFailed(u)')
  BY MoveKeeps
<1>2. TaskSettled(u) /\ state \in [TaskIDs -> TaskStates]
  BY DEF SettledInv, TypeOK
<1>3. CASE state'[u] = state[u]
  BY <1>1, <1>2, <1>3 DEF TaskSettled
<1>4. CASE state'[u] # state[u]
  <2>1. PICK t \in TaskIDs : Moved(t)
    BY <1>4
  <2>2. t = u
    BY <1>2, <1>4, <2>1 DEF Moved, Moves
  <2>3. /\ state'[u] \in {"Ready", "Running", "Completed"} => AllMet(u)
        /\ state'[u] = "Failed" => AllMet(u) \/ HasFailed(u)
    BY <1>2, <2>1, <2>2 DEF Moved, Moves, TaskSettled
  <2> QED BY <1>1, <2>3 DEF TaskSettled
<1> QED BY <1>3, <1>4

\* Calls that complete a task are queued for tasks that run.
LEMMA SettledCalls ==
  ASSUME TypeOK, CallsInv, SettledInv, [Next]_vars, ~FailAnyTime,
         UNCHANGED <<state, waitingTasks>> \/ \E t \in TaskIDs : Moved(t)
  PROVE  (\A i \in DOMAIN calls : calls[i].op = "Complete" =>
            state[calls[i].id] \in {"Running", "Completed", "Failed"})'
<1> SUFFICES ASSUME NEW i \in DOMAIN calls', calls'[i].op = "Complete"
             PROVE  state'[calls'[i].id] \in {"Running", "Completed", "Failed"}
  OBVIOUS
<1>1. ASSUME NEW u \in TaskIDs, state[u] \in {"Running", "Completed", "Failed"}
      PROVE  state'[u] \in {"Running", "Completed", "Failed"}
  BY <1>1, MoveKeeps
<1>2. ASSUME NEW j \in DOMAIN calls, calls'[i] = calls[j]
      PROVE  state'[calls'[i].id] \in {"Running", "Completed", "Failed"}
  <2>1. calls[j].id \in TaskIDs
    <3>1. calls \in Seq(Actions)
      BY ConcatProperties DEF calls, TypeOK
    <3>2. calls[j] \in Actions
      BY <3>1, ElementOfSeq, LenProperties
    <3> QED BY <3>2 DEF Actions
  <2> QED BY <1>1, <1>2, <2>1 DEF SettledInv
<1>3. CASE CallMade(calls'[i])
  <2>1. PICK t \in TaskIDs, ok \in BOOLEAN :
          CompleteTask(t, ok) /\ calls'[i] = CompleteAction(t, ok)
    <3>1. /\ \A t, n : DefineAction(t, n).op = "Define"
          /\ \A t, deps : SetDepsAction(t, deps).op = "SetDeps"
          /\ \A t : RunAction(t).op = "Run"
      BY DEF DefineAction, SetDepsAction, RunAction, Action
    <3> QED BY <1>3, <3>1 DEF CallMade
  <2>2. calls'[i].id = t
    BY <2>1 DEF CompleteAction, Action
  <2>3. state[t] = "Running"
    BY <2>1 DEF CompleteTask
  <2> QED BY <1>1, <2>2, <2>3
<1> QED BY <1>2, <1>3, CallsFrom

\* Tasks stay settled.
LEMMA SettledTasks ==
  ASSUME TypeOK, TypeOK', CallsInv, GraphInv, FramesInv, SettledInv, [Next]_vars,
         UNCHANGED <<state, waitingTasks>> \/ \E t \in TaskIDs : Moved(t),
         NEW u \in TaskIDs
  PROVE  TaskSettled(u)'
<1>1. /\ state \in [TaskIDs -> TaskStates] /\ dependsOn \in [TaskIDs -> SUBSET TaskIDs]
      /\ dependsOnUndefined \in [TaskIDs -> SUBSET Names]
      /\ nameDependents \in [Names -> SUBSET TaskIDs]
  BY DEF TypeOK
<1>2. CASE UNCHANGED graphVars
  BY <1>2, SettledStays DEF graphVars
<1>3. CASE localQueue # <<>> /\ HandleDefine(Head(localQueue)) /\ ~UNCHANGED graphVars
  <2>1. PICK t \in TaskIDs, n \in Names :
          /\ state[t] = "Unknown"
          /\ dependsOn' = [v \in TaskIDs |-> IF v \in nameDependents[n]
                                             THEN dependsOn[v] \cup {t}
                                             ELSE dependsOn[v]]
          /\ dependsOnUndefined' =
               [v \in TaskIDs |-> IF v \in nameDependents[n]
                                  THEN dependsOnUndefined[v] \ {n}
                                  ELSE dependsOnUndefined[v]]
          /\ state' = [state EXCEPT ![t] = "DepsUnknown"]
    BY <1>3, DefineSteps, ZenonT(60)
  <2>2. CASE u \notin nameDependents[n]
    <3>1. UNCHANGED <<dependsOn[u], dependsOnUndefined[u]>>
      BY <2>1, <2>2
    <3> QED BY <3>1, SettledStays
  <2>3. CASE u \in nameDependents[n]
    <3>1. n \in dependsOnUndefined[u]
      BY <2>3 DEF GraphInv, GraphSymmetric
    <3>2. ~AllMet(u) /\ TaskSettled(u)
      BY <3>1 DEF AllMet, SettledInv
    <3>3. HasFailed(u) => HasFailed(u)'
      <4> SUFFICES ASSUME NEW d \in dependsOn[u], state[d] = "Failed"
                   PROVE  d \in dependsOn'[u] /\ state'[d] = "Failed"
        BY DEF HasFailed
      <4> QED BY <1>1, <2>1, <2>3
    <3>4. CASE u = t
      <4>1. state'[u] = "DepsUnknown"
        BY <1>1, <2>1, <3>4
      <4> QED BY <4>1 DEF TaskSettled
    <3>5. CASE u # t
      <4>1. state'[u] = state[u]
        BY <1>1, <2>1, <3>5
      <4> QED BY <3>2, <3>3, <4>1 DEF TaskSettled
    <3> QED BY <3>4, <3>5
  <2> QED BY <2>2, <2>3
<1>4. ASSUME NEW t \in TaskIDs, NEW names \in SUBSET Names, NEW deps \in SUBSET TaskIDs,
             NEW undef \in SUBSET Names, DependenciesSet(t, names, deps, undef)
      PROVE  TaskSettled(u)'
  <2>1. /\ dependsOn' = [dependsOn EXCEPT ![t] = deps]
        /\ dependsOnUndefined' = [dependsOnUndefined EXCEPT ![t] = undef]
        /\ state' = [state EXCEPT ![t] = "WaitingForDeps"]
    BY <1>4 DEF DependenciesSet
  <2>2. CASE u = t
    <3>1. state'[u] = "WaitingForDeps"
      BY <1>1, <2>1, <2>2
    <3> QED BY <3>1 DEF TaskSettled
  <2>3. CASE u # t
    <3>1. UNCHANGED <<dependsOn[u], dependsOnUndefined[u]>>
      BY <2>1, <2>3
    <3> QED BY <3>1, SettledStays
  <2> QED BY <2>2, <2>3
<1> QED BY <1>2, <1>3, <1>4, StepKinds DEF LoopFrame, TaskEnded, TaskRun, Quiet

\* Complete dependencies that were not before an evaluation still are not.
LEMMA CompleteGrows ==
  ASSUME TypeOK, TypeOK', UNCHANGED dependsOn, NEW t \in TaskIDs,
         NEW left \in SUBSET TaskIDs, NEW now \in SUBSET left,
         \A u \in TaskIDs : state[u] \in {"Completed", "Failed"} => state'[u] = state[u]
  PROVE  /\ Cardinality(CompleteWithout(t, left)) \in Nat
         /\ Cardinality(CompleteWithout(t, now)') \in Nat
         /\ Cardinality(CompleteWithout(t, left)) <= Cardinality(CompleteWithout(t, now)')
         /\ \A d \in left \ now : d \in dependsOn[t] /\ state[d] = "Completed" =>
              Cardinality(CompleteWithout(t, left)) + 1
                <= Cardinality(CompleteWithout(t, now)')
<1> DEFINE C == CompleteWithout(t, left)
           B == CompleteWithout(t, now)'
<1>1. dependsOn[t] \in SUBSET TaskIDs
  BY DEF TypeOK
<1>2. C \in SUBSET TaskIDs /\ B \in SUBSET TaskIDs /\ C \in SUBSET B
  BY <1>1 DEF CompleteWithout
<1>3. /\ IsFiniteSet(B) /\ IsFiniteSet(C)
      /\ Cardinality(B) \in Nat /\ Cardinality(C) \in Nat
  BY <1>2, TasksFinite
<1>4. Cardinality(C) <= Cardinality(B)
  BY <1>2, <1>3, FS_Subset
<1>5. ASSUME NEW d \in left \ now, d \in dependsOn[t], state[d] = "Completed"
      PROVE  Cardinality(C) + 1 <= Cardinality(B)
  <2>1. d \notin C /\ C \cup {d} \in SUBSET B
    BY <1>2, <1>5 DEF CompleteWithout
  <2> HIDE DEF C, B
  <2>2. Cardinality(C \cup {d}) = Cardinality(C) + 1
    BY <1>3, <2>1, FS_AddElement
  <2>3. Cardinality(C \cup {d}) <= Cardinality(B)
    BY <1>3, <2>1, FS_Subset
  <2> QED BY <2>2, <2>3
<1> QED BY <1>3, <1>4, <1>5


\* What a frame relies on stays as it is while other tasks move.
LEMMA FramesSettled ==
  ASSUME TypeOK, TypeOK', CallsInv, GraphInv, FramesInv, SettledInv, [Next]_vars,
         "finish" \notin ReadyReactions,
         UNCHANGED <<state, waitingTasks>> \/ \E t \in TaskIDs : Moved(t)
  PROVE  (\A i \in DOMAIN stack : FrameSettled(i))'
<1>1. /\ state \in [TaskIDs -> TaskStates] /\ dependsOn \in [TaskIDs -> SUBSET TaskIDs]
      /\ dependedOnBy \in [TaskIDs -> SUBSET TaskIDs]
  BY DEF TypeOK
<1>2. \A u \in TaskIDs : state[u] \in {"Completed", "Failed"} => state'[u] = state[u]
  BY MoveKeeps
<1>3. ASSUME UNCHANGED graphVars, NEW u \in TaskIDs, HasFailed(u) PROVE HasFailed(u)'
  BY <1>3, MoveKeeps DEF graphVars
<1>4. CASE LoopFrame /\ LoopOutcome
  <2>1. /\ Depth \in Nat \ {0} /\ DOMAIN stack = 1 .. Depth
        /\ Top = stack[Depth] /\ Top \in Frames
        /\ FrameOf(Top, state, dependsOn, dependedOnBy)
        /\ \A i \in 1 .. Depth - 1 : stack'[i] = stack[i]
        /\ UNCHANGED graphVars
    BY <1>4 DEF LoopFrame
  <2>2. PICK n \in Nat \ {0} : n = Depth
    BY <2>1
  <2>3. /\ DOMAIN stack = 1 .. n /\ Top = stack[n] /\ stack # <<>>
        /\ \A i \in 1 .. n - 1 : stack'[i] = stack[i]
    BY <2>1, <2>2, EmptySeq DEF Depth
  <2>4. \A i \in 1 .. n : stack[i] \in Frames /\ FrameSettled(i)
    <3>1. stack \in Seq(Frames) /\ Len(stack) = n
      BY <2>2 DEF TypeOK, Depth
    <3>2. \A i \in 1 .. n : stack[i] \in Frames
      BY <3>1, ElementOfSeq
    <3> QED BY <2>3, <3>2 DEF SettledInv
  <2>5. \A i \in 1 .. n : /\ stack[i].task \in TaskIDs /\ stack[i].left \in SUBSET TaskIDs
                          /\ stack[i].complete \in Nat
    <3>1. \A f \in Frames : f.task \in TaskIDs /\ f.left \in SUBSET TaskIDs /\ f.complete \in Nat
      BY Numbers DEF Frames
    <3> QED BY <2>4, <3>1
  <2>6. /\ Top.task \in TaskIDs /\ Top.left \in SUBSET TaskIDs /\ Top.complete \in Nat
        /\ n \in 1 .. n /\ FrameSettled(n)
    BY <2>2, <2>3, <2>4, <2>5
  <2>7. UNCHANGED dependsOn /\ UNCHANGED dependedOnBy
    BY <2>1 DEF graphVars
  <2>8. ASSUME NEW u \in TaskIDs, ~HasFailed(u), state[u] = "WaitingForDeps",
               \A s \in {"Ready", "Running"} : ~(MadeReady(s) /\ u = Top.task)
        PROVE  state'[u] = "WaitingForDeps"
    <3>1. ASSUME NEW d \in TaskIDs, Reported(d) PROVE HasFailed(Top.task)
      BY <2>1, <3>1 DEF FrameOf, Reported, NewFailure, HasFailed
    <3>2. CASE UNCHANGED state
      BY <2>8, <3>2
    <3>3. CASE \E d \in TaskIDs : Reported(d) /\ ~UNCHANGED state
      <4>1. PICK d \in TaskIDs : Reported(d) /\ ~UNCHANGED state
        BY <3>3
      <4>2. u # Top.task /\ state' = [state EXCEPT ![Top.task] = "Failed"]
        BY <2>8, <3>1, <4>1 DEF Reported
      <4> QED BY <1>1, <2>8, <4>2
    <3>4. ASSUME NEW s \in {"Ready", "Running"}, MadeReady(s)
          PROVE  state'[u] = "WaitingForDeps"
      <4>1. u # Top.task /\ state' = [state EXCEPT ![Top.task] = s]
        BY <2>8, <3>4 DEF MadeReady
      <4> QED BY <1>1, <2>8, <4>1
    <3> QED BY <1>4, <3>2, <3>3, <3>4 DEF LoopOutcome, Told, Visited, Returned,
                                          Acknowledged, Finished, taskVars
  <2>9. ASSUME NEW s \in {"Ready", "Running"}, MadeReady(s)
        PROVE  n = 1 \/ (n = 2 /\ stack[1].fn = "Notify" /\ Top.task \notin stack[1].left)
    <3>1. Top.fn = "Evaluate" /\ Evaluated(Top) /\ AllComplete(Top)
      BY <2>9 DEF MadeReady
    <3> QED BY <2>2, <2>3, <3>1, ReadyFacts DEF Depth
  <2>10. PICK t \in TaskIDs, k \in SUBSET TaskIDs, c \in Nat :
           t = Top.task /\ k = Top.left /\ c = Top.complete
    BY <2>6
  <2>11. ASSUME NEW u \in TaskIDs, NEW l \in SUBSET TaskIDs, NEW m \in Nat, NEW i \in Nat,
                stack'[i].fn = "Evaluate", stack'[i].task = u, stack'[i].left = l,
                stack'[i].complete = m,
                m <= Cardinality(CompleteWithout(u, l)'),
                \/ HasFailed(u)'
                \/ /\ state'[u] = "WaitingForDeps"
                   /\ \/ i = 1
                      \/ i = 2 /\ stack'[1].fn = "Notify" /\ u \notin stack'[1].left
         PROVE  FrameSettled(i)'
    BY <2>11 DEF FrameSettled, CompleteWithout, HasFailed
  <2>12. ASSUME NEW u \in TaskIDs, NEW l \in SUBSET TaskIDs, NEW i \in Nat,
                stack'[i].fn = "Notify", stack'[i].task = u, stack'[i].left = l,
                state'[u] = "Failed" \/ (i = 1 /\ state'[u] = "Completed"),
                \A d \in l : HasFailed(d)' \/ state'[d] = "WaitingForDeps"
         PROVE  FrameSettled(i)'
    BY <2>12 DEF FrameSettled, HasFailed
  <2>13. ASSUME NEW i \in 1 .. n - 1 PROVE FrameSettled(i)'
    <3>1. /\ i \in 1 .. n /\ i < n /\ i \in Nat /\ stack'[i] = stack[i] /\ FrameSettled(i)
          /\ stack[i] \in Frames
      BY <2>2, <2>3, <2>4, <2>13
    <3>2. PICK u \in TaskIDs, l \in SUBSET TaskIDs, m \in Nat :
            u = stack[i].task /\ l = stack[i].left /\ m = stack[i].complete
      BY <2>5, <3>1
    <3>3. CASE stack[i].fn = "Evaluate"
      <4>1. /\ m <= Cardinality(CompleteWithout(u, l))
            /\ \/ HasFailed(u)
               \/ /\ state[u] = "WaitingForDeps"
                  /\ i = 1 \/ (i = 2 /\ stack[1].fn = "Notify" /\ u \notin stack[1].left)
        BY <3>1, <3>2, <3>3 DEF FrameSettled
      <4>2. m <= Cardinality(CompleteWithout(u, l)')
        <5>1. /\ Cardinality(CompleteWithout(u, l)) \in Nat
              /\ Cardinality(CompleteWithout(u, l)') \in Nat
              /\ Cardinality(CompleteWithout(u, l)) <= Cardinality(CompleteWithout(u, l)')
          BY <1>2, <2>7, CompleteGrows
        <5> QED BY <4>1, <5>1
      <4>3. CASE HasFailed(u)
        <5>1. HasFailed(u)'
          BY <1>3, <2>1, <4>3
        <5> QED BY <2>11, <3>1, <3>2, <3>3, <4>2, <5>1
      <4>4. CASE ~HasFailed(u)
        <5>1. \A s \in {"Ready", "Running"} : ~MadeReady(s)
          BY <2>9, <3>1, <3>3, <4>1, <4>4
        <5>2. state'[u] = "WaitingForDeps"
          BY <2>8, <4>1, <4>4, <5>1
        <5>3. i = 2 => stack'[1] = stack[1]
          BY <2>2, <2>3, <3>1
        <5>4. i = 1 \/ (i = 2 /\ stack'[1].fn = "Notify" /\ u \notin stack'[1].left)
          BY <4>1, <4>4, <5>3
        <5> QED BY <2>11, <3>1, <3>2, <3>3, <4>2, <5>2, <5>4
      <4> QED BY <4>3, <4>4
    <3>4. CASE stack[i].fn = "Notify"
      <4>1. /\ state[u] = "Failed" \/ (i = 1 /\ state[u] = "Completed")
            /\ \A d \in l : HasFailed(d) \/ state[d] = "WaitingForDeps"
        BY <3>1, <3>2, <3>4 DEF FrameSettled
      <4>2. state'[u] = "Failed" \/ (i = 1 /\ state'[u] = "Completed")
        BY <1>2, <4>1
      <4>3. ASSUME NEW d \in l, ~HasFailed(d)'
            PROVE  state'[d] = "WaitingForDeps"
        <5>1. ~HasFailed(d) /\ state[d] = "WaitingForDeps"
          BY <1>3, <2>1, <4>1, <4>3
        <5>2. \A s \in {"Ready", "Running"} : ~(MadeReady(s) /\ d = Top.task)
          <6>1. ASSUME NEW s \in {"Ready", "Running"}, MadeReady(s) PROVE d # Top.task
            <7>1. n = 2 /\ i = 1 /\ Top.task \notin stack[1].left
              BY <2>9, <3>1, <6>1
            <7> QED BY <3>2, <7>1
          <6> QED BY <6>1
        <5> QED BY <2>8, <5>1, <5>2
      <4> QED BY <2>12, <3>1, <3>2, <3>4, <4>2, <4>3
    <3> QED BY <3>1, <3>3, <3>4, FrameTypes
  <2>14. ASSUME NEW l \in SUBSET k
         PROVE  /\ Cardinality(CompleteWithout(t, k)) \in Nat
                /\ Cardinality(CompleteWithout(t, l)') \in Nat
                /\ Cardinality(CompleteWithout(t, k)) <= Cardinality(CompleteWithout(t, l)')
                /\ \A d \in k \ l : d \in dependsOn[t] /\ state[d] = "Completed" =>
                     Cardinality(CompleteWithout(t, k)) + 1
                       <= Cardinality(CompleteWithout(t, l)')
    BY <1>2, <2>7, CompleteGrows
  <2>15. ASSUME Top.fn = "Evaluate"
         PROVE  /\ c <= Cardinality(CompleteWithout(t, k)) /\ k \subseteq dependsOn[t]
                /\ \/ HasFailed(t)
                   \/ /\ state[t] = "WaitingForDeps"
                      /\ n = 1 \/ (n = 2 /\ stack[1].fn = "Notify" /\ t \notin stack[1].left)
    BY <2>1, <2>2, <2>6, <2>10, <2>15 DEF FrameSettled, FrameOf
  <2>16. SUFFICES /\ DOMAIN stack' \subseteq 1 .. n + 1
                  /\ n \in DOMAIN stack' => FrameSettled(n)'
                  /\ n + 1 \in DOMAIN stack' => FrameSettled(n + 1)'
    BY <2>13
  <2>17. 1 .. n - 1 \subseteq 1 .. n + 1 /\ 1 .. n \subseteq 1 .. n + 1 /\ n + 1 \notin 1 .. n
         /\ n \notin 1 .. n - 1 /\ n + 1 \notin 1 .. n - 1 /\ n \in Nat /\ n + 1 \in Nat
    OBVIOUS
  <2>18. ASSUME NEW d \in TaskIDs, Told(d)
         PROVE  /\ DOMAIN stack' \subseteq 1 .. n + 1
                /\ FrameSettled(n)' /\ FrameSettled(n + 1)'
    <3>1. /\ Top.fn = "Notify" /\ d \in k /\ DOMAIN stack' = 1 .. n + 1
          /\ stack'[n] = [Top EXCEPT !.left = @ \ {d}]
          /\ stack'[n + 1] = EvaluateFrame(d, dependsOn[d])
          /\ UNCHANGED state
      BY <2>2, <2>10, <2>18 DEF Told, taskVars
    <3>2. /\ stack'[n].fn = "Notify" /\ stack'[n].task = t /\ stack'[n].left = k \ {d}
      BY <2>1, <2>10, <3>1 DEF Frames
    <3>3. /\ state[t] = "Failed" \/ (n = 1 /\ state[t] = "Completed")
          /\ \A e \in k : HasFailed(e) \/ state[e] = "WaitingForDeps"
      BY <2>3, <2>6, <2>10, <3>1 DEF FrameSettled
    <3>4. \A e \in k : HasFailed(e)' \/ state'[e] = "WaitingForDeps"
      BY <1>3, <2>1, <3>1, <3>3
    <3>5. FrameSettled(n)'
      <4>1. PICK l \in SUBSET TaskIDs : l = k \ {d}
        OBVIOUS
      <4>2. state'[t] = "Failed" \/ (n = 1 /\ state'[t] = "Completed")
        BY <3>1, <3>3
      <4>3. \A e \in l : HasFailed(e)' \/ state'[e] = "WaitingForDeps"
        BY <3>4, <4>1
      <4>4. stack'[n].fn = "Notify" /\ stack'[n].task = t /\ stack'[n].left = l
        BY <3>2, <4>1
      <4> QED BY <2>12, <2>17, <4>2, <4>3, <4>4
    <3>6. ASSUME ~HasFailed(d) PROVE n = 1
      <4>1. d \in dependedOnBy[t]
        BY <2>1, <2>10, <3>1 DEF FrameOf
      <4>2. t \in dependsOn[d]
        BY <4>1 DEF GraphInv, GraphSymmetric
      <4> QED BY <3>3, <3>6, <4>2 DEF HasFailed
    <3>7. \/ HasFailed(d)'
          \/ /\ state'[d] = "WaitingForDeps"
             /\ n + 1 = 2 /\ stack'[1].fn = "Notify" /\ d \notin stack'[1].left
      <4> SUFFICES ASSUME ~HasFailed(d)'
                   PROVE  /\ state'[d] = "WaitingForDeps"
                          /\ n + 1 = 2 /\ stack'[1].fn = "Notify"
                          /\ d \notin stack'[1].left
        OBVIOUS
      <4>1. n = 1
        BY <1>3, <2>1, <3>6
      <4>2. state'[d] = "WaitingForDeps"
        BY <3>1, <3>4
      <4> QED BY <3>2, <4>1, <4>2
    <3>8. FrameSettled(n + 1)'
      <4> DEFINE f == EvaluateFrame(d, dependsOn[d])
      <4>1. f.fn = "Evaluate" /\ f.task = d /\ f.left = dependsOn[d] /\ f.complete = 0
        BY DEF EvaluateFrame
      <4>2. dependsOn[d] \in SUBSET TaskIDs /\ 0 \in Nat /\ n + 1 \in Nat
        BY <1>1
      <4> HIDE DEF f
      <4>3. PICK l \in SUBSET TaskIDs : l = dependsOn[d]
        BY <4>2
      <4>4. Cardinality(CompleteWithout(d, l)') \in Nat
        <5>1. CompleteWithout(d, l)' \in SUBSET TaskIDs
          BY <1>1, <2>7 DEF CompleteWithout
        <5> QED BY <5>1, TasksFinite
      <4>5. 0 <= Cardinality(CompleteWithout(d, l)')
        BY <4>4
      <4> QED BY <2>11, <3>1, <3>7, <4>1, <4>2, <4>3, <4>5 DEF f
    <3> QED BY <3>1, <3>5, <3>8
  <2>19. ASSUME NEW d \in TaskIDs, Visited(d)
         PROVE  DOMAIN stack' \subseteq 1 .. n /\ FrameSettled(n)'
    <3> DEFINE m == IF state[d] = "Completed" THEN c + 1 ELSE c
    <3>1. /\ Top.fn = "Evaluate" /\ d \in k /\ DOMAIN stack' = 1 .. n
          /\ stack'[n] = [Top EXCEPT !.left = @ \ {d}, !.complete = m]
          /\ UNCHANGED state
      BY <2>2, <2>10, <2>19 DEF Visited, taskVars
    <3>2. /\ stack'[n].fn = "Evaluate" /\ stack'[n].task = t /\ stack'[n].left = k \ {d}
          /\ stack'[n].complete = m
      BY <2>1, <2>10, <3>1 DEF Frames
    <3>3. /\ c <= Cardinality(CompleteWithout(t, k)) /\ d \in dependsOn[t]
          /\ Cardinality(CompleteWithout(t, k)) \in Nat
          /\ Cardinality(CompleteWithout(t, k \ {d})') \in Nat
          /\ Cardinality(CompleteWithout(t, k)) <= Cardinality(CompleteWithout(t, k \ {d})')
          /\ state[d] = "Completed" =>
               Cardinality(CompleteWithout(t, k)) + 1
                 <= Cardinality(CompleteWithout(t, k \ {d})')
      <4>1. k \ {d} \in SUBSET k /\ d \in k \ (k \ {d}) /\ d \in dependsOn[t]
        BY <2>15, <3>1
      <4>2. PICK l \in SUBSET k : l = k \ {d}
        BY <4>1
      <4>3. /\ Cardinality(CompleteWithout(t, k)) \in Nat
            /\ Cardinality(CompleteWithout(t, l)') \in Nat
            /\ Cardinality(CompleteWithout(t, k)) <= Cardinality(CompleteWithout(t, l)')
            /\ d \in dependsOn[t] /\ state[d] = "Completed" =>
                 Cardinality(CompleteWithout(t, k)) + 1
                   <= Cardinality(CompleteWithout(t, l)')
        BY <2>14, <4>1, <4>2
      <4> QED BY <2>15, <3>1, <4>1, <4>2, <4>3
    <3>4. m \in Nat /\ m <= Cardinality(CompleteWithout(t, k \ {d})')
      BY <3>3
    <3>5. \/ HasFailed(t)'
          \/ /\ state'[t] = "WaitingForDeps"
             /\ n = 1 \/ (n = 2 /\ stack'[1].fn = "Notify" /\ t \notin stack'[1].left)
      <4>1. n = 2 => stack'[1] = stack[1]
        BY <2>3
      <4> QED BY <1>3, <2>1, <2>15, <3>1, <4>1
    <3> HIDE DEF m
    <3>6. FrameSettled(n)'
      <4>1. k \ {d} \in SUBSET TaskIDs /\ n \in Nat
        OBVIOUS
      <4> QED BY <2>11, <3>1, <3>2, <3>4, <3>5, <4>1
    <3> QED BY <3>1, <3>6
  <2>20. ASSUME NEW d \in TaskIDs, Reported(d)
         PROVE  /\ DOMAIN stack' \subseteq 1 .. n + 1 /\ FrameSettled(n)'
                /\ n + 1 \in DOMAIN stack' => FrameSettled(n + 1)'
    <3>1. /\ Top.fn = "Evaluate" /\ d \in k
          /\ stack'[n] = [Top EXCEPT !.left = @ \ {d}, !.reporting = d]
          /\ DOMAIN stack' = 1 .. n
             \/ /\ DOMAIN stack' = 1 .. n + 1
                /\ stack'[n + 1] = NotifyFrame(t, dependedOnBy[t])
                /\ state' = [state EXCEPT ![t] = "Failed"]
      BY <2>2, <2>10, <2>20 DEF Reported
    <3>2. /\ stack'[n].fn = "Evaluate" /\ stack'[n].task = t /\ stack'[n].left = k \ {d}
          /\ stack'[n].complete = c
      BY <2>1, <2>10, <3>1 DEF Frames
    <3>3. HasFailed(t)'
      <4>1. HasFailed(t)
        BY <2>10, <2>15, <2>20, <3>1 DEF Reported, NewFailure, HasFailed
      <4> QED BY <1>3, <2>1, <4>1
    <3>4. PICK l \in SUBSET k : l = k \ {d}
      OBVIOUS
    <3>5. c <= Cardinality(CompleteWithout(t, l)')
      <4>1. /\ Cardinality(CompleteWithout(t, k)) \in Nat
            /\ Cardinality(CompleteWithout(t, l)') \in Nat
            /\ Cardinality(CompleteWithout(t, k)) <= Cardinality(CompleteWithout(t, l)')
        BY <2>14, <3>4
      <4> QED BY <2>15, <3>1, <4>1
    <3>6. FrameSettled(n)'
      <4>1. l \in SUBSET TaskIDs /\ n \in Nat
        OBVIOUS
      <4> QED BY <2>11, <3>1, <3>2, <3>3, <3>4, <3>5, <4>1
    <3>7. ASSUME n + 1 \in DOMAIN stack' PROVE FrameSettled(n + 1)'
      <4>1. /\ stack'[n + 1] = NotifyFrame(t, dependedOnBy[t])
            /\ state' = [state EXCEPT ![t] = "Failed"]
        BY <2>17, <3>1, <3>7
      <4>2. state'[t] = "Failed"
        BY <1>1, <4>1
      <4>3. PICK b \in SUBSET TaskIDs : b = dependedOnBy[t]
        BY <1>1
      <4>4. /\ stack'[n + 1].fn = "Notify" /\ stack'[n + 1].task = t
            /\ stack'[n + 1].left = b
        BY <4>1, <4>3 DEF NotifyFrame
      <4>5. ASSUME NEW e \in b PROVE HasFailed(e)'
        <5>1. t \in dependsOn[e]
          BY <4>3 DEF GraphInv, GraphSymmetric
        <5> QED BY <2>7, <4>2, <5>1 DEF HasFailed
      <4> QED BY <2>12, <2>17, <4>2, <4>4, <4>5
    <3> QED BY <2>17, <3>1, <3>6, <3>7
  <2>21. CASE Returned \/ \E s \in {"Ready", "Running"} : MadeReady(s)
    <3>1. DOMAIN stack' = 1 .. n - 1
      BY <2>2, <2>21 DEF Returned, MadeReady
    <3> QED BY <2>17, <3>1
  <2>22. CASE Acknowledged
    <3>1. /\ Top.fn = "Evaluate" /\ DOMAIN stack' = 1 .. n
          /\ stack'[n] = [Top EXCEPT !.reporting = NoTask]
          /\ UNCHANGED state
      BY <2>2, <2>10, <2>22 DEF Acknowledged
    <3>2. /\ stack'[n].fn = "Evaluate" /\ stack'[n].task = t /\ stack'[n].left = k
          /\ stack'[n].complete = c
      BY <2>1, <2>10, <3>1 DEF Frames
    <3>3. c <= Cardinality(CompleteWithout(t, k)')
      <4>1. /\ Cardinality(CompleteWithout(t, k)) \in Nat
            /\ Cardinality(CompleteWithout(t, k)') \in Nat
            /\ Cardinality(CompleteWithout(t, k)) <= Cardinality(CompleteWithout(t, k)')
        BY <2>14
      <4> QED BY <2>15, <3>1, <4>1
    <3>4. \/ HasFailed(t)'
          \/ /\ state'[t] = "WaitingForDeps"
             /\ n = 1 \/ (n = 2 /\ stack'[1].fn = "Notify" /\ t \notin stack'[1].left)
      <4>1. n = 2 => stack'[1] = stack[1]
        BY <2>3
      <4> QED BY <1>3, <2>1, <2>15, <3>1, <4>1
    <3>5. FrameSettled(n)'
      BY <2>11, <2>17, <3>1, <3>2, <3>3, <3>4
    <3> QED BY <2>17, <3>1, <3>5
  <2> QED BY <1>4, <2>17, <2>18, <2>19, <2>20, <2>21, <2>22 DEF LoopOutcome, Finished
<1>5. CASE localQueue # <<>> /\ HandleDefine(Head(localQueue))
  <2>1. DOMAIN stack' = {}
    BY <1>5, EmptySeq DEF HandleDefine, Handles, Idle
  <2> QED BY <2>1
<1>6. ASSUME NEW t \in TaskIDs, NEW names \in SUBSET Names, NEW deps \in SUBSET TaskIDs,
             NEW undef \in SUBSET Names, DependenciesSet(t, names, deps, undef)
      PROVE  (\A i \in DOMAIN stack : FrameSettled(i))'
  <2>1. /\ stack' = Append(<<>>, EvaluateFrame(t, deps))
        /\ state' = [state EXCEPT ![t] = "WaitingForDeps"]
    BY <1>6 DEF DependenciesSet
  <2>2. DOMAIN stack' = {1} /\ stack'[1] = EvaluateFrame(t, deps)
    BY <2>1, FrameTypes, OnlyFrame
  <2>3. /\ stack'[1].fn = "Evaluate" /\ stack'[1].task = t /\ stack'[1].left = deps
        /\ stack'[1].complete = 0 /\ state'[t] = "WaitingForDeps"
    BY <1>1, <2>1, <2>2 DEF EvaluateFrame
  <2>4. 0 <= Cardinality(CompleteWithout(t, deps)')
    <3>1. CompleteWithout(t, deps)' \in SUBSET TaskIDs
      BY DEF CompleteWithout, TypeOK
    <3>2. Cardinality(CompleteWithout(t, deps)') \in Nat
      BY <3>1, TasksFinite
    <3> QED BY <3>2
  <2>5. FrameSettled(1)'
    BY <2>3, <2>4 DEF FrameSettled, CompleteWithout
  <2> QED BY <2>2, <2>5
<1>7. ASSUME NEW t \in TaskIDs, NEW ok \in BOOLEAN, TaskEnded(t, ok)
      PROVE  (\A i \in DOMAIN stack : FrameSettled(i))'
  <2>1. /\ stack' = Append(<<>>, NotifyFrame(t, dependedOnBy[t]))
        /\ state' = [state EXCEPT ![t] = IF ok THEN "Completed" ELSE "Failed"]
        /\ UNCHANGED graphVars
    BY <1>7 DEF TaskEnded
  <2>2. DOMAIN stack' = {1} /\ stack'[1] = NotifyFrame(t, dependedOnBy[t])
    BY <1>1, <2>1, FrameTypes, OnlyFrame
  <2>3. /\ stack'[1].fn = "Notify" /\ stack'[1].task = t
        /\ stack'[1].left = dependedOnBy[t]
        /\ state'[t] = IF ok THEN "Completed" ELSE "Failed"
    BY <1>1, <2>1, <2>2 DEF NotifyFrame
  <2>4. state[t] = "Running"
    BY <1>7 DEF TaskEnded, MayComplete, SettledInv
  <2>5. ASSUME NEW d \in dependedOnBy[t]
        PROVE  HasFailed(d)' \/ state'[d] = "WaitingForDeps"
    <3>1. d \in TaskIDs /\ t \in dependsOn[d]
      BY <1>1 DEF GraphInv, GraphSymmetric
    <3>2. CASE ~ok
      <4>1. dependsOn'[d] = dependsOn[d]
        BY <2>1 DEF graphVars
      <4> QED BY <2>3, <3>1, <3>2, <4>1 DEF HasFailed
    <3>3. CASE ok
      <4>1. ~AllMet(d)
        BY <2>4, <3>1 DEF AllMet
      <4>2. state[d] \notin {"Ready", "Running", "Completed", "Unknown", "DepsUnknown"}
        BY <3>1, <4>1 DEF SettledInv, TaskSettled, GraphInv, Exists
      <4>3. CASE state[d] = "WaitingForDeps"
        <5>1. d # t
          BY <2>4, <4>3
        <5> QED BY <1>1, <2>1, <4>3, <5>1
      <4>4. CASE state[d] = "Failed"
        <5>1. HasFailed(d)
          BY <3>1, <4>1, <4>4 DEF SettledInv, TaskSettled
        <5> QED BY <1>3, <2>1, <3>1, <5>1
      <4> QED BY <1>1, <3>1, <4>2, <4>3, <4>4 DEF TaskStates
    <3> QED BY <3>2, <3>3
  <2>6. FrameSettled(1)'
    BY <2>3, <2>5 DEF FrameSettled, HasFailed
  <2> QED BY <2>2, <2>6
<1>8. ASSUME NEW t \in TaskIDs, TaskRun(t) PROVE (\A i \in DOMAIN stack : FrameSettled(i))'
  <2>1. DOMAIN stack' = {}
    BY <1>8, EmptySeq DEF TaskRun
  <2> QED BY <2>1
<1>9. CASE Quiet
  <2>1. UNCHANGED <<stack, state, dependsOn>>
    BY <1>9 DEF Quiet, graphVars, taskVars
  <2>2. /\ \A t : HasFailed(t)' <=> HasFailed(t)
        /\ \A t, left : CompleteWithout(t, left)' = CompleteWithout(t, left)
    BY <2>1 DEF HasFailed, CompleteWithout
  <2>3. \A i \in DOMAIN stack : FrameSettled(i)
    BY DEF SettledInv
  <2> QED BY <2>1, <2>2, <2>3 DEF FrameSettled
<1> QED BY <1>4, <1>5, <1>6, <1>7, <1>8, <1>9, StepKinds


\* Before the first call no task is settled and none is counted.
LEMMA SettledInit == Init => SettledInv /\ WaitingCount
<1> SUFFICES ASSUME Init PROVE SettledInv /\ WaitingCount
  OBVIOUS
<1>1. StartupInv
  BY StartupInit
<1>2. DOMAIN stack = {}
  BY EmptySeq DEF Init
<1>3. DOMAIN calls = {}
  <2>1. <<>> \in Seq(Actions) /\ Len(<<>>) = 0
    BY EmptySeq
  <2>2. calls \in Seq(Actions) /\ Len(calls) = 0 + 0
    BY ONLY <2>1, Init, ConcatProperties DEF calls, Init
  <2> QED BY <2>2, LenProperties
<1>4. \A t \in TaskIDs : state[t] = "Unknown"
  BY DEF Init
<1>5. SettledInv
  BY <1>2, <1>3, <1>4 DEF SettledInv, TaskSettled
<1>6. {t \in TaskIDs : Exists(t) /\ ~Final(t)} = {} /\ waitingTasks = 0
  BY <1>4 DEF Exists, Init
<1> QED BY <1>5, <1>6, FS_EmptySet DEF WaitingCount

\* Every step keeps the count of open tasks, and who is still to be settled.
LEMMA SettledKept ==
  ASSUME StartupInv, SettledInv, WaitingCount, [Next]_vars,
         ~FailAnyTime, "finish" \notin ReadyReactions
  PROVE  (SettledInv /\ WaitingCount)'
<1>1. TypeOK /\ CallsInv /\ GraphInv /\ FramesInv /\ TypeOK'
  BY StartupKept DEF StartupInv
<1>2. UNCHANGED <<state, waitingTasks>> \/ \E t \in TaskIDs : Moved(t)
  BY <1>1, SettledMoves
<1>3. SettledInv'
  BY <1>1, <1>2, SettledCalls, SettledTasks, FramesSettled DEF SettledInv
<1>4. WaitingCount'
  <2>1. CASE UNCHANGED <<state, waitingTasks>>
    BY <2>1 DEF WaitingCount, Exists, Final
  <2> QED BY <1>1, <1>2, <2>1, CountKept
<1> QED BY <1>3, <1>4

\* m_waitingTasks is the number of tasks that are neither completed nor failed
\* at every moment, also inside callbacks, where clients complete only tasks
\* that run and no listener completes its task inside OnTaskReady.
THEOREM WaitingCorrect ==
  ASSUME ~FailAnyTime, "finish" \notin ReadyReactions
  PROVE  Spec => []WaitingCount
<1>1. StartupInv /\ SettledInv /\ WaitingCount /\ [Next]_vars
        => (SettledInv /\ WaitingCount)'
  BY SettledKept
<1> QED BY SettledInit, StartupCorrect, <1>1, PTL DEF Spec

\* Calls are handled while the executor runs only.
HandlesWhileRunning == stack # <<>> => exec = "running"

\* Callbacks are made by a running executor only.
LEMMA RunningKept ==
  ASSUME HandlesWhileRunning, [Next]_vars
  PROVE  HandlesWhileRunning'
<1> USE DEF HandlesWhileRunning, managerVars, execVars
<1>1. CASE Clients \/ Wake \/ TerminationRequested \/ StartRound \/ StopRound \/ EndRound
  BY <1>1 DEF Clients, DefineStartupTask, SetStartupDependencies, RunTask, CompleteTask,
              StartExecutor, Wake, TerminationRequested, StartRound, StopRound, EndRound,
              Enqueue, Idle
<1>2. CASE \/ HandleDefine(Head(localQueue))
           \/ HandleSetDeps(Head(localQueue))
           \/ HandleComplete(Head(localQueue))
           \/ HandleRun(Head(localQueue))
  BY <1>2 DEF HandleDefine, HandleSetDeps, HandleComplete, HandleRun, Handles
<1>3. CASE LoopStep
  BY <1>3 DEF LoopStep, TellDependent, EndTelling, VisitDependency, ReportFailure,
              FailureReported, EvaluatedWaiting, EvaluatedReady, FrameOnly, TopIs
<1>4. CASE UNCHANGED vars
  BY <1>4 DEF vars
<1> QED BY <1>1, <1>2, <1>3, <1>4 DEF Next, StartupThread, LoopStep

\* The executor that is not asked to stop ends only when every task is
\* completed or failed, with the same clients and listeners.
THEOREM EndsCorrect ==
  ASSUME ~FailAnyTime, "finish" \notin ReadyReactions
  PROVE  Spec => []EndsOnlyWhenResolved
<1>1. Init => HandlesWhileRunning /\ EndsOnlyWhenResolved
  BY DEF Init, HandlesWhileRunning, EndsOnlyWhenResolved
<1>2. ASSUME StartupInv, WaitingCount, HandlesWhileRunning, EndsOnlyWhenResolved, [Next]_vars
      PROVE  EndsOnlyWhenResolved'
  <2> USE DEF managerVars, taskVars, execVars
  <2>1. CASE EndRound
    <3>1. /\ exec' = IF AllDone THEN "ended" ELSE "suspended"
          /\ UNCHANGED <<state, stopRequested>>
      BY <2>1 DEF EndRound
    <3>2. ASSUME AllDone PROVE \A t \in TaskIDs : Exists(t) => Final(t)
      <4> DEFINE O == {t \in TaskIDs : Exists(t) /\ ~Final(t)}
      <4>1. Cardinality(O) = 0
        BY <1>2, <3>2 DEF AllDone, WaitingCount
      <4>2. IsFiniteSet(O)
        BY TasksFinite
      <4> HIDE DEF O
      <4>3. O = {}
        BY <4>1, <4>2, FS_EmptySet
      <4> QED BY <4>3 DEF O
    <3> QED BY <3>1, <3>2 DEF EndsOnlyWhenResolved, Exists, Final
  <2>2. CASE StopRound
    BY <2>2 DEF StopRound, EndsOnlyWhenResolved
  <2>3. CASE exec' # "ended"
    BY <2>3 DEF EndsOnlyWhenResolved
  <2>4. CASE exec = "ended" /\ UNCHANGED <<state, stopRequested>>
    BY <1>2, <2>4 DEF EndsOnlyWhenResolved, Exists, Final
  <2>5. CASE Clients \/ Wake
    <3>1. exec' = exec \/ exec' \in {"executing"}
      BY <2>5 DEF Clients, DefineStartupTask, SetStartupDependencies, RunTask, CompleteTask,
                  StartExecutor, Wake, Enqueue
    <3>2. UNCHANGED <<state, stopRequested>>
      BY <2>5 DEF Clients, DefineStartupTask, SetStartupDependencies, RunTask, CompleteTask,
                  StartExecutor, Wake, Enqueue
    <3> QED BY <2>3, <2>4, <3>1, <3>2
  <2>6. CASE TerminationRequested \/ StartRound
    BY <2>3, <2>6 DEF TerminationRequested, StartRound
  <2>7. CASE \/ localQueue # <<>> /\ HandleDefine(Head(localQueue))
             \/ localQueue # <<>> /\ HandleSetDeps(Head(localQueue))
             \/ localQueue # <<>> /\ HandleComplete(Head(localQueue))
             \/ localQueue # <<>> /\ HandleRun(Head(localQueue))
    BY <2>3, <2>7 DEF HandleDefine, HandleSetDeps, HandleComplete, HandleRun, Handles
  <2>8. CASE LoopStep
    <3>1. stack # <<>> /\ UNCHANGED exec
      BY <2>8 DEF LoopStep, TellDependent, EndTelling, VisitDependency, ReportFailure,
                  FailureReported, EvaluatedWaiting, EvaluatedReady, FrameOnly, TopIs
    <3> QED BY <1>2, <2>3, <3>1 DEF HandlesWhileRunning
  <2>9. CASE UNCHANGED vars
    BY <2>3, <2>4, <2>9 DEF vars
  <2> QED BY <1>2, <2>1, <2>2, <2>5, <2>6, <2>7, <2>8, <2>9 DEF Next, StartupThread, LoopStep
<1>3. /\ StartupInv /\ WaitingCount /\ HandlesWhileRunning /\ EndsOnlyWhenResolved
      /\ [Next]_vars
      => (HandlesWhileRunning /\ EndsOnlyWhenResolved)'
  BY <1>2, RunningKept
<1> QED BY <1>1, <1>3, StartupCorrect, WaitingCorrect, PTL DEF Spec


-----------------------------------------------------------------------------
(* Dependencies without a cycle                                            *)

\* The name of a task, on which the order of dependencies rests.
Rank(t) == defined[t + 1]

\* What a name depends on comes before it, and so do the tasks being handled
\* further down the stack: each evaluation is of a later task.
RankInv ==
  /\ \A i \in DOMAIN calls : \A n \in calls[i].deps : n < Rank(calls[i].id)
  /\ \A t \in TaskIDs :
       /\ \A d \in dependsOn[t] : Rank(d) < Rank(t)
       /\ \A n \in dependsOnUndefined[t] : n < Rank(t)
  /\ \A i, j \in DOMAIN stack : i < j =>
       /\ Rank(stack[i].task) <= Rank(stack[j].task)
       /\ stack[j].fn = "Evaluate" => Rank(stack[i].task) < Rank(stack[j].task)

\* The name of a task that exists is a number.
LEMMA RankTypes ==
  ASSUME TypeOK, GraphInv, NEW t \in TaskIDs, t < nextTaskId \/ Exists(t)
  PROVE  Rank(t) \in Nat /\ t < nextTaskId
<1>1. t < nextTaskId /\ t \in Nat /\ nextTaskId \in Nat
  BY Numbers DEF GraphInv, TypeOK
<1>2. t + 1 \in 1 .. nextTaskId
  BY <1>1
<1>3. defined \in Seq(Names) /\ Len(defined) = nextTaskId
  BY DEF TypeOK
<1>4. defined[t + 1] \in Names
  BY <1>2, <1>3, ElementOfSeq
<1> QED BY <1>1, <1>4, Numbers DEF Rank

\* Every step keeps the order of dependencies and of frames.
LEMMA RankKept ==
  ASSUME StartupInv, StartupInv', RankInv, [Next]_vars, Acyclic
  PROVE  RankInv'
<1>1. /\ TypeOK /\ CallsInv /\ GraphInv /\ FramesInv /\ TypeOK' /\ GraphInv'
  BY DEF StartupInv
<1>2. \A t \in TaskIDs : t < nextTaskId => Rank(t)' = Rank(t)
  BY <1>1, DefinedKept DEF Rank
<1>3. /\ dependsOn \in [TaskIDs -> SUBSET TaskIDs]
      /\ dependsOnUndefined \in [TaskIDs -> SUBSET Names]
  BY <1>1 DEF TypeOK
<1>4. ASSUME NEW i \in DOMAIN calls', NEW n \in calls'[i].deps
      PROVE  n < defined'[calls'[i].id + 1]
  <2>1. CASE \E j \in DOMAIN calls : calls'[i] = calls[j]
    <3>1. PICK j \in DOMAIN calls : calls'[i] = calls[j]
      BY <2>1
    <3>2. calls \in Seq(Actions)
      BY <1>1, ConcatProperties DEF calls, TypeOK
    <3>3. calls[j] \in Actions
      BY <3>2, ElementOfSeq, LenProperties
    <3>4. PICK t \in TaskIDs : t = calls[j].id
      BY <3>3 DEF Actions
    <3>5. t < nextTaskId
      BY <1>1, <3>4 DEF CallsInv, CallOf
    <3>6. n < defined[t + 1]
      BY <3>1, <3>4 DEF RankInv, Rank
    <3> QED BY <1>1, <3>1, <3>4, <3>5, <3>6, DefinedKept
  <2>2. CASE CallMade(calls'[i])
    <3>1. PICK a : a = calls'[i]
      OBVIOUS
    <3>2. /\ \A t, m : DefineAction(t, m).deps = {}
          /\ \A t : RunAction(t).deps = {}
          /\ \A t, ok : CompleteAction(t, ok).deps = {}
      BY DEF DefineAction, RunAction, CompleteAction, Action
    <3>3. a.deps # {} /\ n \in a.deps
      BY <3>1
    <3>4. CallMade(a)
      BY <2>2, <3>1
    <3>5. PICK t \in TaskIDs, deps \in SUBSET Names :
            SetStartupDependencies(t, deps) /\ a = SetDepsAction(t, deps)
      BY <3>2, <3>3, <3>4 DEF CallMade
    <3>6. a.id = t /\ n \in deps
      BY <3>3, <3>5 DEF SetDepsAction, Action
    <3>7. n < defined[t + 1] /\ t < nextTaskId
      BY <3>5, <3>6 DEF SetStartupDependencies, DependencyNames
    <3> QED BY <1>1, <3>1, <3>6, <3>7, DefinedKept
  <2> QED BY <1>1, <2>1, <2>2, CallsFrom
<1>5. ASSUME NEW t \in TaskIDs
      PROVE  /\ \A d \in dependsOn[t]' : Rank(d)' < Rank(t)'
             /\ \A n \in dependsOnUndefined[t]' : n < Rank(t)'
  <2>1. CASE UNCHANGED <<dependsOn[t], dependsOnUndefined[t]>>
    <3>1. dependsOn[t] # {} \/ dependsOnUndefined[t] # {} => Rank(t)' = Rank(t)
      BY <1>1, <1>2, RankTypes DEF GraphInv
    <3>2. ASSUME NEW d \in dependsOn[t] PROVE Rank(d)' = Rank(d)
      <4>1. d \in TaskIDs /\ Exists(d)
        BY <1>1, <1>3 DEF GraphInv
      <4> QED BY <1>1, <1>2, <4>1, RankTypes
    <3> QED BY <2>1, <3>1, <3>2 DEF RankInv
  <2>2. CASE UNCHANGED graphVars
    BY <2>1, <2>2 DEF graphVars
  <2>3. CASE localQueue # <<>> /\ HandleDefine(Head(localQueue)) /\ ~UNCHANGED graphVars
    <3>1. PICK s \in TaskIDs, n \in Names :
            /\ s < nextTaskId /\ n = defined[s + 1]
            /\ dependsOn' = [v \in TaskIDs |-> IF v \in nameDependents[n]
                                               THEN dependsOn[v] \cup {s}
                                               ELSE dependsOn[v]]
            /\ dependsOnUndefined' =
                 [v \in TaskIDs |-> IF v \in nameDependents[n]
                                    THEN dependsOnUndefined[v] \ {n}
                                    ELSE dependsOnUndefined[v]]
            /\ UNCHANGED defined
      BY <1>1, <2>3, DefineSteps
    <3>2. \A u : Rank(u)' = Rank(u)
      BY <3>1 DEF Rank
    <3>3. CASE t \notin nameDependents[n]
      <4>1. UNCHANGED <<dependsOn[t], dependsOnUndefined[t]>>
        BY <3>1, <3>3
      <4> QED BY <2>1, <4>1
    <3>4. CASE t \in nameDependents[n]
      <4>1. n \in dependsOnUndefined[t]
        BY <1>1, <3>4 DEF GraphInv, GraphSymmetric
      <4>2. Rank(s) < Rank(t)
        BY <3>1, <4>1 DEF RankInv, Rank
      <4>3. dependsOn'[t] = dependsOn[t] \cup {s} /\ dependsOnUndefined'[t] \subseteq dependsOnUndefined[t]
        BY <3>1, <3>4
      <4> QED BY <3>2, <4>2, <4>3 DEF RankInv
    <3> QED BY <3>3, <3>4
  <2>4. ASSUME NEW s \in TaskIDs, NEW names \in SUBSET Names, NEW deps \in SUBSET TaskIDs,
               NEW undef \in SUBSET Names, DependenciesSet(s, names, deps, undef)
        PROVE  /\ \A d \in dependsOn[t]' : Rank(d)' < Rank(t)'
               /\ \A n \in dependsOnUndefined[t]' : n < Rank(t)'
    <3>1. /\ dependsOn' = [dependsOn EXCEPT ![s] = deps]
          /\ dependsOnUndefined' = [dependsOnUndefined EXCEPT ![s] = undef]
          /\ UNCHANGED defined
          /\ calls[1].id = s /\ calls[1].deps = names /\ 1 \in DOMAIN calls
          /\ undef \subseteq names
          /\ \A d \in deps : \E n \in names : nameTask[n] = d /\ d # NoTask
      BY <2>4 DEF DependenciesSet
    <3>2. CASE t # s
      <4>1. UNCHANGED <<dependsOn[t], dependsOnUndefined[t]>>
        BY <3>1, <3>2
      <4> QED BY <2>1, <4>1
    <3>3. CASE t = s
      <4>1. dependsOn'[t] = deps /\ dependsOnUndefined'[t] = undef
        BY <1>3, <3>1, <3>3
      <4>2. \A u : Rank(u)' = Rank(u)
        BY <3>1 DEF Rank
      <4>3. \A n \in names : n < Rank(t)
        BY <3>1, <3>3 DEF RankInv
      <4>4. \A d \in deps : Rank(d) \in names
        BY <1>1, <3>1 DEF GraphInv, Rank
      <4> QED BY <3>1, <4>1, <4>2, <4>3, <4>4
    <3> QED BY <3>2, <3>3
  <2> QED BY <1>1, <2>2, <2>3, <2>4, StepKinds DEF LoopFrame, TaskEnded, TaskRun, Quiet
<1>6. (\A i, j \in DOMAIN stack : i < j =>
         /\ Rank(stack[i].task) <= Rank(stack[j].task)
         /\ stack[j].fn = "Evaluate" => Rank(stack[i].task) < Rank(stack[j].task))'
  <2>1. CASE LoopFrame /\ LoopOutcome
    <3>1. PICK n \in Nat \ {0} : n = Depth
      BY <2>1 DEF LoopFrame
    <3>2. /\ DOMAIN stack = 1 .. n /\ Top = stack[n] /\ Top \in Frames
          /\ FrameOf(Top, state, dependsOn, dependedOnBy)
          /\ \A i \in 1 .. n - 1 : stack'[i] = stack[i]
          /\ UNCHANGED <<defined, graphVars>> /\ Len(stack) = n
      BY <2>1, <3>1 DEF LoopFrame, Depth, clientVars
    <3>3. \A u : Rank(u)' = Rank(u)
      BY <3>2 DEF Rank
    <3>4. \A i \in 1 .. n : Rank(stack[i].task) \in Nat /\ stack[i].task \in TaskIDs
      <4>1. ASSUME NEW i \in 1 .. n
            PROVE  Rank(stack[i].task) \in Nat /\ stack[i].task \in TaskIDs
        <5>1. stack[i] \in Frames
          BY <1>1, <3>2, ElementOfSeq DEF TypeOK
        <5>2. Exists(stack[i].task)
          BY <1>1, <3>2 DEF FramesInv, FrameOf, Exists
        <5> QED BY <1>1, <5>1, <5>2, FrameTypes, RankTypes
      <4> QED BY <4>1
    <3>5. PICK t \in TaskIDs : t = Top.task
      BY <3>2, FrameTypes
    <3>6. Rank(t) \in Nat /\ n \in 1 .. n
      BY <3>2, <3>4, <3>5
    <3>7. \A i, j \in 1 .. n : i < j =>
            /\ Rank(stack[i].task) <= Rank(stack[j].task)
            /\ stack[j].fn = "Evaluate" => Rank(stack[i].task) < Rank(stack[j].task)
      BY <3>2 DEF RankInv
    <3>8. /\ DOMAIN stack' \subseteq 1 .. n + 1
          /\ n \in DOMAIN stack' => /\ stack'[n].task = t
                                    /\ stack'[n].fn = "Evaluate" => Top.fn = "Evaluate"
          /\ n + 1 \in DOMAIN stack' =>
               /\ n \in DOMAIN stack'
               /\ \/ stack'[n + 1].fn = "Notify" /\ stack'[n + 1].task = t
                  \/ stack'[n + 1].task \in TaskIDs /\ Rank(t) < Rank(stack'[n + 1].task)
                     /\ Rank(stack'[n + 1].task) \in Nat
      <4>1. /\ 1 .. n - 1 \subseteq 1 .. n + 1 /\ 1 .. n \subseteq 1 .. n + 1
            /\ n + 1 \notin 1 .. n /\ n \in 1 .. n + 1
            /\ n \notin 1 .. n - 1 /\ n + 1 \notin 1 .. n - 1
        OBVIOUS
      <4>2. ASSUME NEW d \in TaskIDs, Told(d)
            PROVE  /\ DOMAIN stack' = 1 .. n + 1
                   /\ stack'[n].task = t /\ stack'[n].fn = "Notify"
                   /\ stack'[n + 1].task \in TaskIDs
                   /\ Rank(t) < Rank(stack'[n + 1].task)
                   /\ Rank(stack'[n + 1].task) \in Nat
        <5>1. /\ DOMAIN stack' = 1 .. n + 1 /\ Top.fn = "Notify" /\ d \in Top.left
              /\ stack'[n] = [Top EXCEPT !.left = @ \ {d}]
              /\ stack'[n + 1] = EvaluateFrame(d, dependsOn[d])
          BY <3>1, <4>2 DEF Told
        <5>2. stack'[n].task = t /\ stack'[n].fn = "Notify" /\ stack'[n + 1].task = d
          BY <3>2, <3>5, <5>1 DEF Frames, EvaluateFrame
        <5>3. d \in dependedOnBy[t]
          BY <3>2, <3>5, <5>1 DEF FrameOf
        <5>4. t \in dependsOn[d]
          BY <1>1, <5>3 DEF GraphInv, GraphSymmetric
        <5>5. Rank(t) < Rank(d) /\ Exists(d)
          BY <1>1, <5>4 DEF RankInv, GraphInv
        <5> QED BY <1>1, <5>1, <5>2, <5>5, RankTypes
      <4>3. ASSUME NEW d \in TaskIDs, Visited(d) \/ Reported(d)
            PROVE  /\ stack'[n].task = t /\ stack'[n].fn = Top.fn
                   /\ \/ DOMAIN stack' = 1 .. n
                      \/ /\ DOMAIN stack' = 1 .. n + 1
                         /\ stack'[n + 1].fn = "Notify" /\ stack'[n + 1].task = t
        <5>1. PICK f : f = stack'[n]
          OBVIOUS
        <5>2. CASE Visited(d)
          <6>1. f = [Top EXCEPT !.left = @ \ {d},
                       !.complete = IF state[d] = "Completed" THEN @ + 1 ELSE @]
            BY <3>1, <5>1, <5>2 DEF Visited
          <6>2. f.task = t /\ f.fn = Top.fn
            BY <3>2, <3>5, <6>1 DEF Frames
          <6> QED BY <3>1, <5>1, <5>2, <6>2 DEF Visited
        <5>3. CASE Reported(d)
          <6>1. f = [Top EXCEPT !.left = @ \ {d}, !.reporting = d]
            BY <3>1, <5>1, <5>3 DEF Reported
          <6>2. f.task = t /\ f.fn = Top.fn
            BY <3>2, <3>5, <6>1 DEF Frames
          <6>3. \/ DOMAIN stack' = 1 .. n
                \/ /\ DOMAIN stack' = 1 .. n + 1
                   /\ stack'[n + 1] = NotifyFrame(t, dependedOnBy[t])
            BY <3>1, <3>5, <5>3 DEF Reported
          <6> QED BY <5>1, <6>2, <6>3 DEF NotifyFrame
        <5> QED BY <4>3, <5>2, <5>3
      <4>4. CASE Acknowledged
        BY <3>1, <3>2, <3>5, <4>1, <4>4 DEF Acknowledged, Frames
      <4>5. CASE Finished
        BY <3>1, <3>2, <3>5, <4>1, <4>5 DEF Finished, NotifyFrame
      <4>6. CASE Returned \/ \E s \in {"Ready", "Running"} : MadeReady(s)
        BY <3>1, <4>1, <4>6 DEF Returned, MadeReady
      <4>7. ASSUME NEW d \in TaskIDs, Told(d)
            PROVE  /\ DOMAIN stack' \subseteq 1 .. n + 1 /\ n \in DOMAIN stack'
                   /\ stack'[n].task = t /\ stack'[n].fn = "Notify"
                   /\ stack'[n + 1].task \in TaskIDs /\ Rank(t) < Rank(stack'[n + 1].task)
                   /\ Rank(stack'[n + 1].task) \in Nat
        BY <4>1, <4>2, <4>7
      <4>8. ASSUME NEW d \in TaskIDs, Visited(d) \/ Reported(d)
            PROVE  /\ DOMAIN stack' \subseteq 1 .. n + 1 /\ n \in DOMAIN stack'
                   /\ stack'[n].task = t /\ stack'[n].fn = Top.fn
                   /\ n + 1 \in DOMAIN stack' =>
                        stack'[n + 1].fn = "Notify" /\ stack'[n + 1].task = t
        BY <4>1, <4>3, <4>8
      <4> QED BY <2>1, <4>4, <4>5, <4>6, <4>7, <4>8 DEF LoopOutcome
    <3>9. ASSUME NEW i \in DOMAIN stack', NEW j \in DOMAIN stack', i < j
          PROVE  /\ Rank(stack'[i].task) <= Rank(stack'[j].task)
                 /\ stack'[j].fn = "Evaluate" =>
                      Rank(stack'[i].task) < Rank(stack'[j].task)
      <4>1. i \in 1 .. n /\ j \in 1 .. n + 1 /\ i \in Nat /\ j \in Nat
        BY <3>8, <3>9
      <4>2. CASE j \in 1 .. n - 1
        <5>1. i \in 1 .. n - 1 /\ i \in 1 .. n /\ j \in 1 .. n
          BY <3>9, <4>1, <4>2
        <5>2. stack'[i] = stack[i] /\ stack'[j] = stack[j]
          BY <3>2, <4>2, <5>1
        <5> QED BY <3>7, <3>9, <5>1, <5>2
      <4>3. CASE j = n
        <5>1. i \in 1 .. n - 1 /\ i \in 1 .. n
          BY <3>9, <4>1, <4>3
        <5>2. stack'[i] = stack[i]
          BY <3>2, <5>1
        <5>3. stack'[n].task = t /\ stack'[n].fn = "Evaluate" => Top.fn = "Evaluate"
          BY <3>8, <4>3
        <5>4. i < n /\ n \in 1 .. n /\ stack[n] = Top /\ stack[n].task = t
          BY <3>2, <3>5, <3>9, <4>3
        <5>5. /\ Rank(stack[i].task) <= Rank(t)
              /\ Top.fn = "Evaluate" => Rank(stack[i].task) < Rank(t)
          BY <3>7, <5>1, <5>4
        <5> QED BY <3>8, <4>3, <5>2, <5>3, <5>5
      <4>4. CASE j = n + 1
        <5>1. /\ n \in DOMAIN stack' /\ stack'[n].task = t
              /\ \/ stack'[j].fn = "Notify" /\ stack'[j].task = t
                 \/ stack'[j].task \in TaskIDs /\ Rank(t) < Rank(stack'[j].task)
                    /\ Rank(stack'[j].task) \in Nat
          BY <3>8, <4>4
        <5>2. Rank(stack'[i].task) <= Rank(t) /\ Rank(stack'[i].task) \in Nat
          <6>1. CASE i = n
            BY <3>6, <5>1, <6>1
          <6>2. CASE i # n
            <7>1. i \in 1 .. n - 1 /\ i < n
              BY <4>1, <6>2
            <7>2. stack'[i] = stack[i] /\ stack[n].task = t
              BY <3>2, <3>5, <7>1
            <7> QED BY <3>4, <3>6, <3>7, <4>1, <7>1, <7>2
          <6> QED BY <6>1, <6>2
        <5> QED BY <3>6, <5>1, <5>2
      <4> QED BY <4>1, <4>2, <4>3, <4>4
    <3> QED BY <3>3, <3>9
  <2>2. CASE localQueue # <<>> /\ HandleDefine(Head(localQueue))
    <3>1. stack' = <<>>
      BY <2>2 DEF HandleDefine, Handles, Idle
    <3> QED BY <3>1
  <2>3. ASSUME NEW f \in Frames, stack = <<>>, stack' = Append(stack, f)
        PROVE  \A i, j \in DOMAIN stack' : ~ i < j
    <3>1. DOMAIN stack' = {1}
      BY <2>3, OnlyFrame
    <3> QED BY <3>1
  <2>4. CASE \E s \in TaskIDs, names \in SUBSET Names, deps \in SUBSET TaskIDs,
                undef \in SUBSET Names : DependenciesSet(s, names, deps, undef)
    BY <2>3, <2>4, FrameTypes DEF DependenciesSet
  <2>5. CASE \E s \in TaskIDs, ok \in BOOLEAN : TaskEnded(s, ok)
    <3>1. dependedOnBy \in [TaskIDs -> SUBSET TaskIDs]
      BY <1>1 DEF TypeOK
    <3> QED BY <2>3, <2>5, <3>1, FrameTypes DEF TaskEnded
  <2>6. CASE \E s \in TaskIDs : TaskRun(s)
    BY <2>6 DEF TaskRun
  <2>7. CASE Quiet
    <3>1. UNCHANGED stack
      BY <2>7 DEF Quiet
    <3>2. \A i \in DOMAIN stack : Rank(stack[i].task)' = Rank(stack[i].task)
      <4>1. ASSUME NEW i \in DOMAIN stack
            PROVE  Rank(stack[i].task)' = Rank(stack[i].task)
        <5>1. stack[i] \in Frames /\ Exists(stack[i].task)
          BY <1>1, ElementOfSeq, LenProperties DEF TypeOK, FramesInv, FrameOf, Exists
        <5>2. PICK u \in TaskIDs : u = stack[i].task
          BY <5>1, FrameTypes
        <5>3. Rank(u)' = Rank(u)
          BY <1>1, <1>2, <5>1, <5>2, RankTypes
        <5> QED BY <3>1, <5>2, <5>3 DEF Rank
      <4> QED BY <4>1
    <3> QED BY <3>1, <3>2 DEF RankInv
  <2> QED BY <1>1, <2>1, <2>2, <2>4, <2>5, <2>6, <2>7, StepKinds
<1> QED BY <1>4, <1>5, <1>6 DEF RankInv, Rank

\* Where names only depend on names that come before them, a listener is not
\* called back inside its own OnDependencyFailed: every evaluation further up
\* the stack is of a task that comes later.
THEOREM ReentranceCorrect ==
  ASSUME Acyclic
  PROVE  Spec => []ListenerNotReentered
<1>1. Init => RankInv
  <2> SUFFICES ASSUME Init PROVE RankInv
    OBVIOUS
  <2>1. calls = <<>> /\ stack = <<>>
    BY ConcatProperties, EmptySeq DEF Init, calls
  <2>2. \A t \in TaskIDs : dependsOn[t] = {} /\ dependsOnUndefined[t] = {}
    BY DEF Init
  <2> QED BY <2>1, <2>2 DEF RankInv
<1>2. StartupInv /\ StartupInv' /\ RankInv /\ [Next]_vars => RankInv'
  BY RankKept
<1>3. ASSUME StartupInv, RankInv PROVE ListenerNotReentered
  <2> SUFFICES ASSUME NEW i \in DOMAIN stack, NEW j \in DOMAIN stack, i # j,
                      stack[i].reporting # NoTask, stack[j].reporting # NoTask
               PROVE  stack[i].task # stack[j].task
    BY DEF ListenerNotReentered
  <2>1. ASSUME NEW k \in DOMAIN stack, stack[k].reporting # NoTask
        PROVE  /\ k \in Nat /\ stack[k].fn = "Evaluate"
               /\ Rank(stack[k].task) \in Nat
    <3>1. stack[k] \in Frames /\ k \in Nat
      BY <1>3, ElementOfSeq, LenProperties DEF StartupInv, TypeOK
    <3>2. FrameOf(stack[k], state, dependsOn, dependedOnBy)
      BY <1>3 DEF StartupInv, FramesInv
    <3>3. stack[k].fn = "Evaluate"
      BY <2>1, <3>1, <3>2, FrameTypes DEF FrameOf
    <3>4. Exists(stack[k].task) /\ stack[k].task \in TaskIDs
      BY <3>1, <3>2, FrameTypes DEF FrameOf, Exists
    <3> QED BY <1>3, <3>1, <3>3, <3>4, RankTypes DEF StartupInv
  <2>2. CASE i < j
    <3>1. Rank(stack[i].task) < Rank(stack[j].task)
      BY <1>3, <2>1, <2>2 DEF RankInv
    <3> QED BY <2>1, <3>1
  <2>3. CASE j < i
    <3>1. Rank(stack[j].task) < Rank(stack[i].task)
      BY <1>3, <2>1, <2>3 DEF RankInv
    <3> QED BY <2>1, <3>1
  <2> QED BY <2>1, <2>2, <2>3
<1> QED BY <1>1, <1>2, <1>3, StartupCorrect, PTL DEF Spec

=============================================================================
