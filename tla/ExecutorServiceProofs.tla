------------------------ MODULE ExecutorServiceProofs -----------------------
(***************************************************************************)
(* How ExecutionManager keeps account of its executors, as long as no      *)
(* index of a table misleads: m_nActive is the number of active executors, *)
(* every executor the manager knows is found on its thread, and the        *)
(* manager with its threads implements ExecutorService.  Indexes do not    *)
(* mislead when clients keep at most one executor on a thread, which is    *)
(* proved; they may when executors leave a thread in any order.            *)
(***************************************************************************)
EXTENDS ExecutionManagerProofs

-----------------------------------------------------------------------------
(* The batch of executors to remove                                        *)

Active(table) == {i \in DOMAIN table : table[i].stateTag = "Executing"}

\* A thread builds its batch in a round: at positions it has passed, so that
\* none is suspended afterwards or named twice, and empties it before the next.
BatchOf(label, at, batch, list, table) ==
  /\ label \notin {"round", "remove"} => at = 0 /\ batch = <<>>
  /\ list # <<>> => at = 0 /\ batch = <<>>
  /\ label = "round" =>
       \A j \in DOMAIN batch :
         \E i \in Active(table) : i <= at /\ table[i].execId = batch[j]
  /\ \A j, k \in DOMAIN batch : batch[j] = batch[k] => j = k

BatchInv ==
  \A t \in ThreadIDs :
    BatchOf(pc[t], cursor[t], execsToRemove[t], localInstructionList[t], executors[t])

\* A step of a thread touches the loop and the table of no other thread.
LEMMA OtherThreads ==
  ASSUME TypeOK, NEW t \in ThreadIDs, ThreadStep(t), NEW u \in ThreadIDs, u # t
  PROVE  /\ pc'[u] = pc[u] /\ cursor'[u] = cursor[u]
         /\ execsToRemove'[u] = execsToRemove[u]
         /\ localInstructionList'[u] = localInstructionList[u]
         /\ instructionList'[u] = instructionList[u]
         /\ executors'[u] = executors[u]
         /\ signalMap'[u] = signalMap[u]
         /\ nActive'[u] = nActive[u]
<1> USE DEF managerVars, identityVars, mailboxVars, loopVars, tableVars, objectVars
<1>1. ASSUME NEW e, AddLocal(t, e)
      PROVE  UNCHANGED <<executors[u], signalMap[u], nActive[u]>>
  BY <1>1 DEF AddLocal, TypeOK
<1>2. ASSUME NEW S, NEW type, SignalIndexes(t, S, type)
      PROVE  UNCHANGED <<executors[u], nActive[u]>>
  BY <1>2 DEF SignalIndexes, TypeOK
<1>3. CASE Start(t)
  BY <1>1, <1>3 DEF Start, TypeOK
<1>4. CASE HandleInstruction(t)
  <2>1. UNCHANGED <<executors[u], signalMap[u], nActive[u]>>
    <3>1. PICK i \in DOMAIN localInstructionList[t] :
            \/ AddLocal(t, localInstructionList[t][i].execId)
            \/ /\ HandleExecutorSignal(t, localInstructionList[t][i].execId,
                                       localInstructionList[t][i].signalType)
               /\ UNCHANGED signalMap
      BY <1>4 DEF HandleInstruction
    <3> QED
      BY <1>1, <1>2, <3>1 DEF HandleExecutorSignal
  <2> QED
    BY <1>4, <2>1 DEF HandleInstruction, TypeOK
<1>5. ASSUME NEW outcome \in ExecutionStates, RunExecutor(t, outcome)
      PROVE  /\ UNCHANGED <<pc[u], cursor[u], execsToRemove[u], localInstructionList[u]>>
             /\ UNCHANGED <<instructionList[u], executors[u], signalMap[u], nActive[u]>>
  BY <1>5, SMTT(30) DEF RunExecutor, TypeOK
<1>6. CASE RemoveExecutor(t)
  BY <1>6 DEF RemoveExecutor, Unlist, TypeOK
<1>7. CASE TakeInstructions(t) \/ EndRound(t) \/ RemoveExecutors(t)
  BY <1>7 DEF TakeInstructions, EndRound, RemoveExecutors, TypeOK
<1>8. CASE GoIdle(t) \/ WakeUp(t) \/ RemoveThread(t)
  BY <1>8 DEF GoIdle, WakeUp, RemoveThread, TypeOK
<1> QED
  BY <1>3, <1>4, <1>5, <1>6, <1>7, <1>8 DEF ThreadStep

\* Batches of other threads.
LEMMA SameBatches ==
  ASSUME BatchInv, NEW t \in ThreadIDs,
         \A u \in ThreadIDs : u # t =>
           /\ pc'[u] = pc[u] /\ cursor'[u] = cursor[u]
           /\ execsToRemove'[u] = execsToRemove[u]
           /\ localInstructionList'[u] = localInstructionList[u]
           /\ executors'[u] = executors[u],
         BatchOf(pc'[t], cursor'[t], execsToRemove'[t], localInstructionList'[t],
                 executors'[t])
  PROVE  BatchInv'
<1> SUFFICES ASSUME NEW u \in ThreadIDs
             PROVE  BatchOf(pc'[u], cursor'[u], execsToRemove'[u],
                            localInstructionList'[u], executors'[u])
  BY DEF BatchInv
<1>1. BatchOf(pc[u], cursor[u], execsToRemove[u], localInstructionList[u], executors[u])
  BY DEF BatchInv
<1> QED
  BY <1>1

\* An empty batch is in order, wherever the thread is.
LEMMA EmptyBatch ==
  ASSUME NEW label, NEW list, NEW table
  PROVE  BatchOf(label, 0, <<>>, list, table)
BY DEF BatchOf

\* Running an executor lets the batch of its thread grow by it at most.
LEMMA RunBatch ==
  ASSUME TypeOK, AddsInv, BatchInv, NEW t \in ThreadIDs,
         NEW outcome \in ExecutionStates, RunExecutor(t, outcome)
  PROVE  BatchInv'
<1>1. /\ pc[t] = "top" \/ (pc[t] = "round" /\ localInstructionList[t] = <<>>)
      /\ pc' = [pc EXCEPT ![t] = "round"] /\ UNCHANGED localInstructionList
  BY DEF RunExecutor, InRound, At
<1>2. PICK i \in Executing(t) :
        /\ i > cursor[t]
        /\ cursor' = [cursor EXCEPT ![t] = i]
        /\ \/ UNCHANGED <<executors, execsToRemove>>
           \/ /\ executors' = [executors EXCEPT ![t][i].stateTag = "Suspended"]
              /\ UNCHANGED execsToRemove
           \/ /\ execsToRemove' =
                   [execsToRemove EXCEPT ![t] = Append(@, executors[t][i].execId)]
              /\ UNCHANGED executors
  BY DEF RunExecutor, IsNext
<1> DEFINE table == executors[t]
           batch == execsToRemove[t]
<1>3. i \in DOMAIN table /\ i \in Nat /\ table[i].stateTag = "Executing" /\ cursor[t] \in Nat
  <2>1. i \in DOMAIN table /\ table[i].stateTag = "Executing"
    BY <1>2 DEF Executing
  <2> QED
    BY <2>1, LenProperties DEF TypeOK
<1>4. /\ \A j \in DOMAIN batch : \E k \in Active(table) :
           k <= cursor[t] /\ k \in Nat /\ table[k].execId = batch[j]
      /\ \A j, k \in DOMAIN batch : batch[j] = batch[k] => j = k
      /\ localInstructionList[t] = <<>>
  <2>1. BatchOf(pc[t], cursor[t], batch, localInstructionList[t], table)
    BY DEF BatchInv
  <2>2. localInstructionList[t] = <<>>
    BY <1>1 DEF AddsInv, ListsInv
  <2>3. pc[t] = "top" => batch = <<>>
    BY <2>1 DEF BatchOf
  <2>4. DOMAIN table \subseteq Nat
    BY LenProperties DEF TypeOK
  <2> QED
    BY <1>1, <2>1, <2>2, <2>3, <2>4 DEF BatchOf, Active
<1>5. /\ pc'[t] = "round" /\ cursor'[t] = i /\ localInstructionList'[t] = <<>>
      /\ \A u \in ThreadIDs : u # t =>
           /\ pc'[u] = pc[u] /\ cursor'[u] = cursor[u]
           /\ localInstructionList'[u] = localInstructionList[u]
  BY <1>1, <1>2, <1>4 DEF TypeOK
<1>6. \A j \in DOMAIN batch : batch[j] # table[i].execId
  <2>1. \A k \in DOMAIN table : table[k].execId = table[i].execId => k = i
    BY <1>3 DEF AddsInv, TableInv
  <2> QED
    BY <1>2, <1>3, <1>4, <2>1 DEF Active
<1>7. \A u \in ThreadIDs : u # t =>
        /\ execsToRemove'[u] = execsToRemove[u] /\ executors'[u] = executors[u]
  BY OtherThreads DEF ThreadStep
<1>8. BatchOf("round", i, execsToRemove'[t], <<>>, executors'[t])
  <2>1. CASE UNCHANGED <<executors, execsToRemove>>
    BY <1>2, <1>3, <1>4, <2>1 DEF BatchOf, Active
  <2>2. CASE executors' = [executors EXCEPT ![t][i].stateTag = "Suspended"]
             /\ UNCHANGED execsToRemove
    <3>1. /\ DOMAIN executors'[t] = DOMAIN table
          /\ \A k \in DOMAIN table :
               /\ executors'[t][k].execId = table[k].execId
               /\ k # i => executors'[t][k].stateTag = table[k].stateTag
      BY <1>3, <2>2, SuspendedEntries
    <3>2. \A j \in DOMAIN batch : \E k \in Active(executors'[t]) :
            k <= i /\ executors'[t][k].execId = batch[j]
      BY <1>2, <1>3, <1>4, <3>1, SMTT(30) DEF Active
    <3> QED
      BY <1>4, <2>2, <3>2 DEF BatchOf
  <2>3. CASE execsToRemove' = [execsToRemove EXCEPT ![t] = Append(@, table[i].execId)]
             /\ UNCHANGED executors
    <3> DEFINE e == table[i].execId
               new == Append(batch, e)
    <3>1. e \in ExecutorIDs /\ batch \in Seq(ExecutorIDs)
      <4>1. batch \in Seq(ExecutorIDs) /\ table \in Seq(ExecutorStates)
        BY DEF TypeOK
      <4>2. table[i] \in ExecutorStates
        BY <1>3, <4>1, ElementOfSeq, LenProperties
      <4> QED
        BY <4>1, <4>2 DEF ExecutorStates
    <3>2. /\ DOMAIN new = 1 .. Len(batch) + 1 /\ DOMAIN batch = 1 .. Len(batch)
          /\ Len(batch) \in Nat
          /\ \A j \in DOMAIN batch : new[j] = batch[j]
          /\ new[Len(batch) + 1] = e
      BY <3>1, AppendProperties, LenProperties
    <3>3. \A j \in DOMAIN new : j \in DOMAIN batch \/ j = Len(batch) + 1
      BY <3>2
    <3>4. execsToRemove'[t] = new /\ executors'[t] = table
      BY <2>3 DEF TypeOK
    <3> HIDE DEF new
    <3>5. \A j \in DOMAIN new : \E k \in Active(table) : k <= i /\ table[k].execId = new[j]
      <4>1. \A j \in DOMAIN batch : \E k \in Active(table) :
               k <= i /\ table[k].execId = new[j]
        BY <1>2, <1>3, <1>4, <3>2
      <4>2. i \in Active(table) /\ i <= i /\ table[i].execId = e
        BY <1>3 DEF Active
      <4> QED
        BY <3>2, <3>3, <4>1, <4>2
    <3>6. \A j, k \in DOMAIN new : new[j] = new[k] => j = k
      BY <1>4, <1>6, <3>2, <3>3
    <3> QED
      BY <3>4, <3>5, <3>6 DEF BatchOf
  <2> QED
    BY <1>2, <2>1, <2>2, <2>3
<1> QED
  BY <1>5, <1>7, <1>8, SameBatches

\* The other steps of a thread start a batch, empty it or leave it alone.
LEMMA LoopBatch ==
  ASSUME TypeOK, AddsInv, BatchInv, NEW t \in ThreadIDs,
         \/ Start(t) \/ TakeInstructions(t) \/ HandleInstruction(t) \/ EndRound(t)
         \/ RemoveExecutor(t) \/ RemoveExecutors(t) \/ GoIdle(t) \/ WakeUp(t)
         \/ RemoveThread(t)
  PROVE  BatchInv'
<1> USE DEF managerVars, identityVars, mailboxVars, loopVars, tableVars, objectVars
<1>1. BatchOf(pc[t], cursor[t], execsToRemove[t], localInstructionList[t], executors[t])
  BY DEF BatchInv
<1>2. localInstructionList[t] # <<>> => pc[t] = "round"
  BY DEF AddsInv, ListsInv
<1>3. \A u \in ThreadIDs : u # t =>
        /\ pc'[u] = pc[u] /\ cursor'[u] = cursor[u]
        /\ execsToRemove'[u] = execsToRemove[u]
        /\ localInstructionList'[u] = localInstructionList[u]
        /\ executors'[u] = executors[u]
  BY OtherThreads DEF ThreadStep
<1>4. BatchOf(pc'[t], cursor'[t], execsToRemove'[t], localInstructionList'[t],
              executors'[t])
  <2>1. CASE cursor'[t] = 0 /\ execsToRemove'[t] = <<>>
    BY <2>1, EmptyBatch
  <2>2. CASE Start(t)
    BY <1>1, <2>1, <2>2 DEF Start, At, BatchOf
  <2>3. CASE TakeInstructions(t)
    BY <1>1, <2>1, <2>3 DEF TakeInstructions, At, BatchOf
  <2>4. CASE HandleInstruction(t)
    <3>1. localInstructionList[t] # <<>>
      BY <2>4 DEF HandleInstruction
    <3> QED
      BY <1>1, <2>1, <2>4, <3>1 DEF HandleInstruction, BatchOf
  <2>5. CASE EndRound(t)
    <3>1. /\ pc'[t] = "remove" /\ cursor'[t] = 0 /\ execsToRemove'[t] = execsToRemove[t]
          /\ localInstructionList'[t] = <<>>
      BY <1>2, <2>5 DEF EndRound, RoundOver, InRound, At, TypeOK
    <3> QED
      BY <1>1, <3>1 DEF BatchOf
  <2>6. CASE RemoveExecutor(t)
    <3>1. /\ pc'[t] = "remove" /\ execsToRemove'[t] = execsToRemove[t]
          /\ localInstructionList'[t] = <<>>
      BY <1>2, <2>6 DEF RemoveExecutor, At
    <3> QED
      BY <1>1, <3>1 DEF BatchOf
  <2>7. CASE RemoveExecutors(t)
    BY <2>1, <2>7 DEF RemoveExecutors, TypeOK
  <2>8. CASE GoIdle(t)
    <3>1. execsToRemove[t] = <<>>
      BY <1>1, <2>8 DEF GoIdle, At, BatchOf
    <3> QED
      BY <2>1, <2>8, <3>1 DEF GoIdle, TypeOK
  <2>9. CASE WakeUp(t) \/ RemoveThread(t)
    BY <1>1, <2>1, <2>9 DEF WakeUp, RemoveThread, At, BatchOf
  <2> QED
    BY <2>2, <2>3, <2>4, <2>5, <2>6, <2>7, <2>8, <2>9
<1> QED
  BY <1>3, <1>4, SameBatches

\* So do the operations of the manager.
LEMMA ManagerBatch ==
  ASSUME TypeOK, OwnershipInv, BatchInv,
         Clients \/ RunLoopReturn \/ Destroy \/ UNCHANGED vars
  PROVE  BatchInv'
<1> USE DEF managerVars, identityVars, mailboxVars, loopVars, tableVars, objectVars
<1>1. UNCHANGED <<cursor, execsToRemove, localInstructionList, executors>>
  BY DEF Clients, AddExecutor, DoomThread, SignalExecutor, LockShop, Crash,
         RunLoopReturn, Destroy, vars
<1>2. CASE UNCHANGED pc
  BY <1>1, <1>2 DEF BatchInv
<1>3. CASE pc' # pc
  <2>1. PICK n \in Names, single \in BOOLEAN : StartThread(n, single)
    BY <1>3 DEF Clients, AddExecutor, AddToThread, RejectSingleton, DoomThread,
                SignalExecutor, LockShop, Crash, RunLoopReturn, Destroy, vars
  <2> DEFINE t == nextThread
  <2>2. t \in ThreadIDs /\ pc' = [pc EXCEPT ![t] = "start"]
    BY <2>1, ConstantsAssumption DEF StartThread, ThreadIDs, TypeOK
  <2>3. pc[t] = "none"
    BY <2>2, Numbers DEF OwnershipInv, ThreadsAccountedFor
  <2>4. BatchOf(pc[t], cursor[t], execsToRemove[t], localInstructionList[t], executors[t])
    BY <2>2 DEF BatchInv
  <2>5. BatchOf(pc'[t], cursor'[t], execsToRemove'[t], localInstructionList'[t],
                executors'[t])
    BY <1>1, <2>3, <2>4, EmptyBatch DEF BatchOf
  <2>6. \A u \in ThreadIDs : u # t => pc'[u] = pc[u]
    BY <2>2 DEF TypeOK
  <2> HIDE DEF t
  <2> QED
    BY <1>1, <2>2, <2>5, <2>6, SameBatches
<1> QED
  BY <1>2, <1>3

\* The batch of a thread names each executor once, and is empty outside a round
\* and its removals.
THEOREM BatchesCorrect == Spec => []BatchInv
<1>1. Init => BatchInv
  BY DEF Init, BatchInv, BatchOf
<1>2. TypeOK /\ OwnershipInv /\ AddsInv /\ BatchInv /\ [Next]_vars => BatchInv'
  <2> SUFFICES ASSUME TypeOK, OwnershipInv, AddsInv, BatchInv, [Next]_vars PROVE BatchInv'
    OBVIOUS
  <2>1. ASSUME NEW t \in ThreadIDs, ThreadStep(t)
        PROVE  BatchInv'
    BY <2>1, RunBatch, LoopBatch DEF ThreadStep
  <2>2. CASE Clients \/ RunLoopReturn \/ Destroy \/ UNCHANGED vars
    BY <2>2, ManagerBatch
  <2> QED
    BY <2>1, <2>2 DEF Next
<1> QED
  BY <1>1, <1>2, TypeCorrect, OwnershipCorrect, AddsCorrect, PTL DEF Spec

-----------------------------------------------------------------------------
(* Counting the active executors                                           *)

\* A number below the modulus is its own remainder.
LEMMA Remainders ==
  ASSUME NEW U \in Nat, U > 0, NEW x \in Nat, x < U
  PROVE  x % U = x /\ (x + U) % U = x
<1>1. x % U = x
  BY Z3
<1>2. (x + U) % U = x
  BY SMTT(30)
<1> QED
  BY <1>1, <1>2

\* Within the range of the type, unsigned arithmetic is arithmetic.
LEMMA SmallSums ==
  ASSUME NEW n \in Nat, NEW k \in Nat
  PROVE  /\ n + k < UINT_RANGE => Plus(n, k) = n + k
         /\ k <= n /\ n < UINT_RANGE => Minus(n, k) = n - k
<1>1. UINT_RANGE \in Nat /\ UINT_RANGE > 0
  BY ConstantsAssumption
<1>2. ASSUME n + k < UINT_RANGE
      PROVE  (n + k) % UINT_RANGE = n + k
  <2>1. n + k \in Nat
    OBVIOUS
  <2> QED
    BY ONLY <1>1, <1>2, <2>1, Remainders
<1>3. ASSUME k <= n, n < UINT_RANGE
      PROVE  (n + UINT_RANGE - k) % UINT_RANGE = n - k
  <2>1. n - k \in Nat /\ n - k < UINT_RANGE
    BY <1>1, <1>3
  <2>2. n + UINT_RANGE - k = (n - k) + UINT_RANGE
    BY <1>1
  <2>3. ((n - k) + UINT_RANGE) % UINT_RANGE = n - k
    BY ONLY <1>1, <2>1, Remainders
  <2> QED
    BY <2>2, <2>3
<1> QED
  BY <1>2, <1>3 DEF Plus, Minus

\* A table that lists an executor once is smaller than the range of m_nActive:
\* IDs are of the same type, and one of them is reserved.
LEMMA TableSmall ==
  ASSUME NEW table \in Seq(ExecutorStates),
         \A i, j \in DOMAIN table : table[i].execId = table[j].execId => i = j,
         NEW S \in SUBSET DOMAIN table
  PROVE  /\ IsFiniteSet(DOMAIN table) /\ IsFiniteSet(S)
         /\ Cardinality(S) \in Nat /\ Cardinality(S) < UINT_RANGE
<1>1. DOMAIN table = 1 .. Len(table) /\ Len(table) \in Nat
  BY LenProperties
<1>2. IsFiniteSet(DOMAIN table) /\ Cardinality(DOMAIN table) = Len(table)
  <2>1. 1 \in Int /\ Len(table) \in Int
    BY <1>1
  <2>2. /\ IsFiniteSet(1 .. Len(table))
        /\ Cardinality(1 .. Len(table)) = IF 1 > Len(table) THEN 0 ELSE Len(table) - 1 + 1
    BY ONLY <2>1, FS_Interval
  <2> QED
    BY <1>1, <2>2
<1>3. IsFiniteSet(ExecutorIDs) /\ Cardinality(ExecutorIDs) = EXEC_WILDCARD - 1
  <2> DEFINE top == EXEC_WILDCARD - 2
  <2>1. 0 \in Int /\ top \in Int /\ ~(0 > top)
    BY ConstantsAssumption
  <2> HIDE DEF top
  <2>2. /\ IsFiniteSet(0 .. top)
        /\ Cardinality(0 .. top) = IF 0 > top THEN 0 ELSE top - 0 + 1
    BY ONLY <2>1, FS_Interval
  <2>3. top - 0 + 1 = EXEC_WILDCARD - 1
    BY ConstantsAssumption DEF top
  <2> QED
    BY <2>1, <2>2, <2>3 DEF ExecutorIDs, top
<1>4. Len(table) <= EXEC_WILDCARD - 1
  <2> SUFFICES ASSUME Len(table) > EXEC_WILDCARD - 1 PROVE FALSE
    BY <1>1, ConstantsAssumption
  <2> DEFINE f == [i \in DOMAIN table |-> table[i].execId]
  <2>1. f \in [DOMAIN table -> ExecutorIDs]
    <3>1. \A i \in DOMAIN table : table[i] \in ExecutorStates
      BY ElementOfSeq, LenProperties
    <3> QED
      BY <3>1 DEF ExecutorStates
  <2>2. \E x, y \in DOMAIN table : x # y /\ f[x] = f[y]
    <3> HIDE DEF f
    <3> QED
      BY <1>2, <1>3, <2>1, FS_PigeonHole
  <2> QED
    BY <2>2
<1>5. IsFiniteSet(S) /\ Cardinality(S) <= Cardinality(DOMAIN table)
  BY <1>2, FS_Subset
<1>6. Cardinality(S) \in Nat
  BY <1>5, FS_CardinalityType
<1> QED
  BY <1>1, <1>2, <1>4, <1>5, <1>6, ConstantsAssumption

-----------------------------------------------------------------------------
(* The account of a thread                                                 *)

\* The index of an entry leads nowhere else in the table.
IndexesDoNotMislead ==
  \A t \in ThreadIDs : \A i \in DOMAIN executors[t] :
    LET at == signalMap[t][executors[t][i].execId] IN
    at \in DOMAIN executors[t] => at = i

\* What a thread still has to remove is active in its table; what it removed
\* has left it.
RemovalsDue(t) ==
  pc[t] = "remove" /\ ~crashed =>
    \A j \in DOMAIN execsToRemove[t] :
      IF j > cursor[t]
      THEN \E i \in Executing(t) : executors[t][i].execId = execsToRemove[t][j]
      ELSE /\ ~Listed(t, execsToRemove[t][j])
           /\ execsToRemove[t][j] \in deInitialised

\* What is listed has an index, is on the manager's map and did not end.
ListedHere(t) ==
  \A e \in ExecutorIDs :
    Listed(t, e) => /\ signalMap[t][e] # 0
                    /\ executorMap[e] = t
                    /\ e \notin deInitialised

\* What is to be removed is on the manager's map until it is.
BatchHere(t) ==
  \A j \in DOMAIN execsToRemove[t] : executorMap[execsToRemove[t][j]] = t

Account(t) ==
  /\ RemovalsDue(t)
  /\ ListedHere(t)
  /\ BatchHere(t)
  /\ nActive[t] = Cardinality(Executing(t))

AccountInv == \A t \in ThreadIDs : Account(t)

\* The types and the invariants that hold in any case.
SteadyInv ==
  TypeOK /\ OwnershipInv /\ AddsInv /\ BatchInv

\* What a thread batched is named by an ID.
LEMMA BatchIds ==
  ASSUME TypeOK, NEW t \in ThreadIDs, NEW j \in DOMAIN execsToRemove[t]
  PROVE  execsToRemove[t][j] \in ExecutorIDs /\ j \in Nat
<1>1. execsToRemove[t] \in Seq(ExecutorIDs)
  BY DEF TypeOK
<1> QED
  BY <1>1, ElementOfSeq, LenProperties

\* The account of a thread holds while its own state stays and what is mapped
\* to it stays mapped and does not end.
LEMMA SameAccount ==
  ASSUME TypeOK, NEW t \in ThreadIDs, Account(t),
         UNCHANGED <<cursor[t], execsToRemove[t], executors[t], signalMap[t], nActive[t]>>,
         pc'[t] = "remove" => pc[t] = "remove",
         crashed => crashed', deInitialised \subseteq deInitialised',
         \A e \in ExecutorIDs : executorMap[e] = t =>
           executorMap'[e] = t /\ (e \in deInitialised' => e \in deInitialised)
  PROVE  Account(t)'
<1>1. RemovalsDue(t)'
  BY DEF Account, RemovalsDue, Executing, Listed
<1>2. ListedHere(t)'
  BY DEF Account, ListedHere, Listed
<1>3. BatchHere(t)'
  BY BatchIds DEF Account, BatchHere
<1>4. (nActive[t] = Cardinality(Executing(t)))'
  BY DEF Account, Executing
<1> QED
  BY <1>1, <1>2, <1>3, <1>4 DEF Account

\* A step of a thread after which its own account is right disturbs no other,
\* if it unmaps only what is its own and ends only what is its own.
LEMMA OtherAccounts ==
  ASSUME TypeOK, AccountInv, NEW t \in ThreadIDs, ThreadStep(t), Account(t)',
         crashed => crashed', deInitialised \subseteq deInitialised',
         \A e \in ExecutorIDs : executorMap[e] # t =>
           executorMap'[e] = executorMap[e] /\ (e \in deInitialised' => e \in deInitialised)
  PROVE  AccountInv'
<1> SUFFICES ASSUME NEW u \in ThreadIDs, u # t PROVE Account(u)'
  BY DEF AccountInv
<1>1. Account(u)
  BY DEF AccountInv
<1>2. /\ pc'[u] = pc[u]
      /\ UNCHANGED <<cursor[u], execsToRemove[u], executors[u], signalMap[u], nActive[u]>>
  BY OtherThreads
<1>3. \A e \in ExecutorIDs : executorMap[e] = u =>
        executorMap'[e] = u /\ (e \in deInitialised' => e \in deInitialised)
  OBVIOUS
<1> QED
  BY <1>1, <1>2, <1>3, SameAccount

\* Of an executor whose removal is due, the index leads to its active entry or
\* out of the table.
LEMMA RemovalDue ==
  ASSUME TypeOK, AccountInv, IndexesDoNotMislead, NEW t \in ThreadIDs,
         RemoveExecutor(t), NEW e, e = execsToRemove[t][cursor[t] + 1]
  PROVE  /\ ~crashed /\ pc[t] = "remove" /\ cursor[t] + 1 \in DOMAIN execsToRemove[t]
         /\ e \in ExecutorIDs /\ signalMap[t][e] # 0
         /\ signalMap[t][e] \in DOMAIN executors[t] =>
              /\ signalMap[t][e] \in Executing(t)
              /\ executors[t][signalMap[t][e]].execId = e
<1>1. /\ ~crashed /\ pc[t] = "remove" /\ cursor[t] < Len(execsToRemove[t])
  BY DEF RemoveExecutor, At, Alive
<1>2. execsToRemove[t] \in Seq(ExecutorIDs) /\ cursor[t] \in Nat
  BY DEF TypeOK
<1>3. cursor[t] + 1 \in DOMAIN execsToRemove[t] /\ cursor[t] + 1 > cursor[t]
  BY <1>1, <1>2, LenProperties
<1>4. e \in ExecutorIDs
  BY <1>2, <1>3, ElementOfSeq, LenProperties
<1>5. PICK i \in Executing(t) : executors[t][i].execId = e
  BY <1>1, <1>3 DEF AccountInv, Account, RemovalsDue
<1>6. i \in DOMAIN executors[t] /\ Listed(t, e)
  BY <1>5 DEF Executing, Listed
<1>7. signalMap[t][e] # 0
  BY <1>4, <1>6 DEF AccountInv, Account, ListedHere
<1>8. signalMap[t][e] \in DOMAIN executors[t] => signalMap[t][e] = i
  BY <1>5, <1>6 DEF IndexesDoNotMislead
<1> QED
  BY <1>1, <1>3, <1>4, <1>5, <1>7, <1>8

\* The active entries of a table can be counted within the range of m_nActive,
\* before a step and after it.
LEMMA ActiveSmall ==
  ASSUME TypeOK, AddsInv, TypeOK', AddsInv', NEW t \in ThreadIDs
  PROVE  /\ IsFiniteSet(Executing(t)) /\ Cardinality(Executing(t)) \in Nat
         /\ Cardinality(Executing(t)) < UINT_RANGE
         /\ IsFiniteSet(Suspended(t))
         /\ Cardinality(Executing(t)') < UINT_RANGE
<1>1. executors[t] \in Seq(ExecutorStates) /\ executors'[t] \in Seq(ExecutorStates)
  BY DEF TypeOK
<1>2. /\ \A i, j \in DOMAIN executors[t] :
           executors[t][i].execId = executors[t][j].execId => i = j
      /\ \A i, j \in DOMAIN executors'[t] :
           executors'[t][i].execId = executors'[t][j].execId => i = j
  BY DEF AddsInv, TableInv
<1>3. /\ Executing(t) \in SUBSET DOMAIN executors[t]
      /\ Suspended(t) \in SUBSET DOMAIN executors[t]
      /\ Executing(t)' \in SUBSET DOMAIN executors'[t]
  BY DEF Executing, Suspended
<1>4. /\ IsFiniteSet(Executing(t)) /\ Cardinality(Executing(t)) \in Nat
      /\ Cardinality(Executing(t)) < UINT_RANGE
  BY ONLY <1>1, <1>2, <1>3, TableSmall
<1>5. IsFiniteSet(Suspended(t))
  BY ONLY <1>1, <1>2, <1>3, TableSmall
<1>6. Cardinality(Executing(t)') < UINT_RANGE
  <2> DEFINE table == executors'[t]
             S == Executing(t)'
  <2>1. /\ table \in Seq(ExecutorStates) /\ S \in SUBSET DOMAIN table
        /\ \A i, j \in DOMAIN table : table[i].execId = table[j].execId => i = j
    BY <1>1, <1>2, <1>3
  <2> HIDE DEF table, S
  <2>2. Cardinality(S) < UINT_RANGE
    BY ONLY <2>1, TableSmall
  <2> QED
    BY <2>2 DEF S
<1> QED
  BY <1>4, <1>5, <1>6

\* The entry of an executor that begins comes last.
LEMMA BegunEntries ==
  ASSUME TypeOK, NEW t \in ThreadIDs, NEW e \in ExecutorIDs,
         executors' =
           [executors EXCEPT ![t] = Append(@, [execId |-> e, stateTag |-> "Executing"])]
  PROVE  LET last == Len(executors[t]) + 1 IN
         /\ \A u \in ThreadIDs : u # t => executors'[u] = executors[u]
         /\ last \in Nat /\ last \notin DOMAIN executors[t]
         /\ DOMAIN executors'[t] = DOMAIN executors[t] \cup {last}
         /\ \A i \in DOMAIN executors[t] : executors'[t][i] = executors[t][i]
         /\ executors'[t][last] = [execId |-> e, stateTag |-> "Executing"]
         /\ Executing(t)' = Executing(t) \cup {last}
         /\ Suspended(t)' = Suspended(t)
<1> DEFINE entry == [execId |-> e, stateTag |-> "Executing"]
           table == executors[t]
           new == Append(table, entry)
           last == Len(table) + 1
<1>1. table \in Seq(ExecutorStates) /\ entry \in ExecutorStates
  BY DEF TypeOK, ExecutorStates, ExecutorStateTags
<1>2. /\ DOMAIN new = 1 .. last /\ DOMAIN table = 1 .. Len(table) /\ Len(table) \in Nat
      /\ \A i \in DOMAIN table : new[i] = table[i]
      /\ new[last] = entry
  BY <1>1, AppendProperties, LenProperties
<1>3. executors' = [executors EXCEPT ![t] = new]
  OBVIOUS
<1> HIDE DEF new
<1>4. \A u \in ThreadIDs : executors'[u] = IF u = t THEN new ELSE executors[u]
  BY <1>3 DEF TypeOK
<1>5. last \in Nat /\ last \notin DOMAIN table /\ DOMAIN new = DOMAIN table \cup {last}
  BY <1>2
<1>6. entry.stateTag = "Executing"
  OBVIOUS
<1>7. executors'[t] = new /\ \A u \in ThreadIDs : u # t => executors'[u] = executors[u]
  BY <1>4
<1> HIDE DEF last, table
<1>8. {i \in DOMAIN new : new[i].stateTag = "Executing"}
        = {i \in DOMAIN table : table[i].stateTag = "Executing"} \cup {last}
  BY <1>2, <1>5, <1>6
<1>9. {i \in DOMAIN new : new[i].stateTag = "Suspended"}
        = {i \in DOMAIN table : table[i].stateTag = "Suspended"}
  <2>1. new[last].stateTag # "Suspended"
    BY <1>2, <1>6
  <2> QED
    BY <1>2, <1>5, <2>1
<1>10. Executing(t)' = Executing(t) \cup {last} /\ Suspended(t)' = Suspended(t)
  BY <1>7, <1>8, <1>9 DEF Executing, Suspended, table
<1> QED
  BY <1>2, <1>5, <1>7, <1>10 DEF last, table

\* An executor that begins is counted.
LEMMA BeginsAccount ==
  ASSUME TypeOK, AddsInv, TypeOK', AddsInv', NEW t \in ThreadIDs, Account(t),
         NEW e \in ExecutorIDs, executorMap[e] = t, e \notin initialised,
         Began(t, e), pc'[t] # "remove",
         UNCHANGED <<executorMap, cursor[t], execsToRemove[t]>>
  PROVE  Account(t)'
<1> DEFINE last == Len(executors[t]) + 1
<1>1. /\ last \in Nat /\ last \notin DOMAIN executors[t]
      /\ DOMAIN executors'[t] = DOMAIN executors[t] \cup {last}
      /\ \A i \in DOMAIN executors[t] : executors'[t][i] = executors[t][i]
      /\ executors'[t][last] = [execId |-> e, stateTag |-> "Executing"]
      /\ Executing(t)' = Executing(t) \cup {last}
  <2>1. executors' =
          [executors EXCEPT ![t] = Append(@, [execId |-> e, stateTag |-> "Executing"])]
    BY DEF Began
  <2> QED
    BY <2>1, BegunEntries
<1>2. \A x \in ExecutorIDs :
        /\ Listed(t, x)' => Listed(t, x) \/ x = e
        /\ x # e => signalMap'[t][x] = signalMap[t][x]
  <2>1. \A x \in ExecutorIDs : Listed(t, x)' => Listed(t, x) \/ x = e
    BY <1>1 DEF Listed
  <2> QED
    BY <2>1 DEF Began, TypeOK
<1>3. signalMap'[t][e] # 0
  <2>1. signalMap'[t][e] = IF signalMap[t][e] = 0 THEN last ELSE signalMap[t][e]
    BY DEF Began, TypeOK
  <2>2. last # 0
    <3>1. Len(executors[t]) \in Nat
      BY LenProperties DEF TypeOK
    <3> QED
      BY <3>1
  <2> QED
    BY <2>1, <2>2
<1>4. e \notin deInitialised /\ deInitialised' = deInitialised
  BY DEF AddsInv, TableInv, Began
<1>5. ListedHere(t)'
  BY <1>2, <1>3, <1>4 DEF Account, ListedHere
<1>6. RemovalsDue(t)'
  BY DEF RemovalsDue
<1>7. BatchHere(t)'
  BY DEF Account, BatchHere
<1>8. (nActive[t] = Cardinality(Executing(t)))'
  <2>1. /\ IsFiniteSet(Executing(t)) /\ Cardinality(Executing(t)) \in Nat
        /\ Cardinality(Executing(t)') < UINT_RANGE
    BY ActiveSmall
  <2>2. last \notin Executing(t)
    BY <1>1 DEF Executing
  <2>3. Cardinality(Executing(t)') = Cardinality(Executing(t)) + 1
    BY <1>1, <2>1, <2>2, FS_AddElement, ZenonT(60)
  <2>4. nActive[t] = Cardinality(Executing(t))
    BY DEF Account
  <2>5. nActive'[t] = Plus(nActive[t], 1)
    BY DEF Began, TypeOK
  <2>6. Plus(nActive[t], 1) = nActive[t] + 1
    BY <2>1, <2>3, <2>4, SmallSums
  <2> QED
    BY <2>3, <2>4, <2>5, <2>6
<1> QED
  BY <1>5, <1>6, <1>7, <1>8 DEF Account

\* So is every executor a signal wakes.
LEMMA SignalsAccount ==
  ASSUME TypeOK, AddsInv, TypeOK', AddsInv', NEW t \in ThreadIDs, Account(t),
         NEW S \in SUBSET DOMAIN executors[t], NEW type, SignalIndexes(t, S, type),
         pc'[t] # "remove",
         UNCHANGED <<executorMap, signalMap, deInitialised, cursor[t], execsToRemove[t]>>
  PROVE  Account(t)'
<1>1. /\ DOMAIN executors'[t] = DOMAIN executors[t]
      /\ \A i \in DOMAIN executors[t] :
           /\ executors'[t][i].execId = executors[t][i].execId
           /\ executors'[t][i].stateTag =
                IF i \in S THEN "Executing" ELSE executors[t][i].stateTag
  BY SignalledEntries
<1>2. ListedHere(t)'
  BY <1>1 DEF Account, ListedHere, Listed
<1>3. RemovalsDue(t)' /\ BatchHere(t)'
  BY DEF RemovalsDue, Account, BatchHere
<1>4. (nActive[t] = Cardinality(Executing(t)))'
  <2> DEFINE woken == S \cap Suspended(t)
  <2>1. \A i \in DOMAIN executors[t] :
          executors[t][i].stateTag \in {"Executing", "Suspended"}
    <3>1. executors[t] \in Seq(ExecutorStates)
      BY DEF TypeOK
    <3>2. \A i \in DOMAIN executors[t] : executors[t][i] \in ExecutorStates
      BY <3>1, ElementOfSeq, LenProperties
    <3> QED
      BY <3>2 DEF ExecutorStates, ExecutorStateTags
  <2>2. Executing(t)' = Executing(t) \cup woken /\ Executing(t) \cap woken = {}
    BY <1>1, <2>1 DEF Executing, Suspended
  <2>3. /\ IsFiniteSet(Executing(t)) /\ Cardinality(Executing(t)) \in Nat
        /\ Cardinality(Executing(t)') < UINT_RANGE /\ IsFiniteSet(Suspended(t))
    BY ActiveSmall
  <2>4. IsFiniteSet(woken) /\ Cardinality(woken) \in Nat
    BY <2>3, FS_Subset, FS_CardinalityType
  <2> HIDE DEF woken
  <2>5. Cardinality(Executing(t)') = Cardinality(Executing(t)) + Cardinality(woken)
    <3>1. Cardinality(Executing(t) \cup woken) =
            Cardinality(Executing(t)) + Cardinality(woken)
              - Cardinality(Executing(t) \cap woken)
      BY ONLY <2>3, <2>4, FS_Union
    <3>2. Cardinality(Executing(t) \cap woken) = 0
      BY <2>2, FS_EmptySet
    <3> QED
      BY <2>2, <2>3, <2>4, <3>1, <3>2
  <2>6. nActive[t] = Cardinality(Executing(t))
    BY DEF Account
  <2>7. nActive'[t] = Plus(nActive[t], Cardinality(woken))
    BY DEF SignalIndexes, WokenCount, TypeOK, woken
  <2>8. Plus(nActive[t], Cardinality(woken)) = nActive[t] + Cardinality(woken)
    BY <2>3, <2>4, <2>5, <2>6, SmallSums
  <2> QED
    BY <2>5, <2>6, <2>7, <2>8
<1> QED
  BY <1>2, <1>3, <1>4 DEF Account

\* An executor that goes to sleep is no longer counted; one that ends is
\* batched where it is mapped.
LEMMA RunsAccount ==
  ASSUME TypeOK, AddsInv, TypeOK', AddsInv', AccountInv, NEW t \in ThreadIDs,
         NEW outcome \in ExecutionStates, RunExecutor(t, outcome)
  PROVE  AccountInv'
<1> DEFINE table == executors[t]
<1>1. /\ pc' = [pc EXCEPT ![t] = "round"]
      /\ UNCHANGED <<executorMap, signalMap, deInitialised, crashed>>
  BY DEF RunExecutor, managerVars, objectVars, processVars
<1>2. PICK i \in Executing(t) :
        \/ UNCHANGED <<executors, nActive, execsToRemove>>
        \/ /\ executors' = [executors EXCEPT ![t][i].stateTag = "Suspended"]
           /\ nActive' = [nActive EXCEPT ![t] = Minus(@, 1)]
           /\ UNCHANGED execsToRemove
        \/ /\ execsToRemove' = [execsToRemove EXCEPT ![t] = Append(@, table[i].execId)]
           /\ UNCHANGED <<executors, nActive>>
  BY DEF RunExecutor
<1>3. i \in DOMAIN table /\ table[i].stateTag = "Executing"
  BY DEF Executing
<1>4. Account(t)
  BY DEF AccountInv
<1>5. table[i].execId \in ExecutorIDs
  <2>1. table \in Seq(ExecutorStates)
    BY DEF TypeOK
  <2>2. table[i] \in ExecutorStates
    BY <1>3, <2>1, ElementOfSeq, LenProperties
  <2> QED
    BY <2>2 DEF ExecutorStates
<1>6. RemovalsDue(t)'
  <2>1. pc'[t] = "round"
    BY <1>1 DEF TypeOK
  <2> QED
    BY <2>1 DEF RemovalsDue
<1>7. Account(t)'
  <2>1. CASE UNCHANGED <<executors, nActive, execsToRemove>>
    <3>1. ListedHere(t)' /\ BatchHere(t)' /\ (nActive[t] = Cardinality(Executing(t)))'
      BY <1>1, <1>4, <2>1 DEF Account, ListedHere, BatchHere, Listed, Executing
    <3> QED
      BY <1>6, <3>1 DEF Account
  <2>2. CASE /\ executors' = [executors EXCEPT ![t][i].stateTag = "Suspended"]
             /\ nActive' = [nActive EXCEPT ![t] = Minus(@, 1)]
             /\ UNCHANGED execsToRemove
    <3>1. /\ DOMAIN executors'[t] = DOMAIN table
          /\ \A k \in DOMAIN table :
               /\ executors'[t][k].execId = table[k].execId
               /\ executors'[t][k].stateTag =
                    IF k = i THEN "Suspended" ELSE table[k].stateTag
      BY <1>3, <2>2, SuspendedEntries
    <3>2. ListedHere(t)'
      BY <1>1, <1>4, <3>1 DEF Account, ListedHere, Listed
    <3>3. BatchHere(t)'
      BY <1>1, <1>4, <2>2 DEF Account, BatchHere
    <3>4. Executing(t)' = Executing(t) \ {i} /\ i \in Executing(t)
      BY <1>3, <3>1 DEF Executing
    <3>5. IsFiniteSet(Executing(t)) /\ Cardinality(Executing(t)) \in Nat
          /\ Cardinality(Executing(t)) < UINT_RANGE
      BY ActiveSmall
    <3>6. Cardinality(Executing(t)') = Cardinality(Executing(t)) - 1
      BY <3>4, <3>5, FS_RemoveElement
    <3>7. 1 <= Cardinality(Executing(t))
      BY <3>4, <3>5, FS_EmptySet
    <3>8. nActive[t] = Cardinality(Executing(t))
      BY <1>4 DEF Account
    <3>9. nActive'[t] = Minus(nActive[t], 1)
      BY <2>2 DEF TypeOK
    <3>10. Minus(nActive[t], 1) = nActive[t] - 1
      BY <3>5, <3>7, <3>8, SmallSums
    <3>11. (nActive[t] = Cardinality(Executing(t)))'
      BY <3>6, <3>8, <3>9, <3>10
    <3> QED
      BY <1>6, <3>2, <3>3, <3>11 DEF Account
  <2>3. CASE /\ execsToRemove' = [execsToRemove EXCEPT ![t] = Append(@, table[i].execId)]
             /\ UNCHANGED <<executors, nActive>>
    <3> DEFINE batch == execsToRemove[t]
               new == Append(batch, table[i].execId)
    <3>1. ListedHere(t)' /\ (nActive[t] = Cardinality(Executing(t)))'
      BY <1>1, <1>4, <2>3 DEF Account, ListedHere, Listed, Executing
    <3>2. executorMap[table[i].execId] = t
      BY <1>3, <1>4, <1>5 DEF Account, ListedHere, Listed
    <3>3. batch \in Seq(ExecutorIDs)
      BY DEF TypeOK
    <3>4. /\ DOMAIN new = 1 .. Len(batch) + 1 /\ DOMAIN batch = 1 .. Len(batch)
          /\ Len(batch) \in Nat
          /\ \A j \in DOMAIN batch : new[j] = batch[j]
          /\ new[Len(batch) + 1] = table[i].execId
      BY <1>5, <3>3, AppendProperties, LenProperties
    <3>5. \A j \in DOMAIN new : j \in DOMAIN batch \/ j = Len(batch) + 1
      BY <3>4
    <3>6. execsToRemove'[t] = new
      BY <2>3 DEF TypeOK
    <3> HIDE DEF new
    <3>7. \A j \in DOMAIN batch : executorMap[batch[j]] = t
      BY <1>4 DEF Account, BatchHere
    <3>8. \A j \in DOMAIN new : executorMap[new[j]] = t
      BY <3>2, <3>4, <3>5, <3>7
    <3>9. BatchHere(t)'
      BY <1>1, <3>6, <3>8 DEF BatchHere
    <3> QED
      BY <1>6, <3>1, <3>9 DEF Account
  <2> QED
    BY <1>2, <2>1, <2>2, <2>3
<1> QED
  BY <1>1, <1>7, OtherAccounts DEF ThreadStep

\* When a round is over, all of its batch is still to be removed.
LEMMA RoundEndsAccount ==
  ASSUME SteadyInv, AccountInv, NEW t \in ThreadIDs, EndRound(t)
  PROVE  AccountInv'
<1> USE DEF managerVars, tableVars, objectVars, processVars
<1>1. /\ pc[t] = "top" \/ (pc[t] = "round" /\ localInstructionList[t] = <<>>)
      /\ pc' = [pc EXCEPT ![t] = "remove"] /\ cursor' = [cursor EXCEPT ![t] = 0]
      /\ execsToRemove[t] # <<>>
      /\ UNCHANGED <<executorMap, executors, signalMap, nActive, deInitialised, crashed,
                     execsToRemove>>
  BY DEF EndRound, RoundOver, InRound, At
<1>2. Account(t)
  BY DEF AccountInv
<1>3. BatchOf(pc[t], cursor[t], execsToRemove[t], localInstructionList[t], executors[t])
  BY DEF SteadyInv, BatchInv
<1>4. pc[t] = "round"
  BY <1>1, <1>3 DEF BatchOf
<1>5. \A j \in DOMAIN execsToRemove[t] :
        \E i \in Executing(t) : executors[t][i].execId = execsToRemove[t][j]
  BY <1>3, <1>4 DEF BatchOf, Active, Executing
<1>6. \A j \in DOMAIN execsToRemove[t] : j > 0
  <2>1. execsToRemove[t] \in Seq(ExecutorIDs)
    BY DEF SteadyInv, TypeOK
  <2> QED
    BY <2>1, LenProperties
<1>7. cursor'[t] = 0
  BY <1>1 DEF SteadyInv, TypeOK
<1>8. RemovalsDue(t)'
  BY <1>1, <1>5, <1>6, <1>7 DEF RemovalsDue, Executing
<1>9. ListedHere(t)' /\ BatchHere(t)' /\ (nActive[t] = Cardinality(Executing(t)))'
  BY <1>1, <1>2 DEF Account, ListedHere, BatchHere, Listed, Executing
<1>10. Account(t)'
  BY <1>8, <1>9 DEF Account
<1> QED
  BY <1>1, <1>10, OtherAccounts DEF ThreadStep, SteadyInv

\* What leaves the manager's map has left the table.
LEMMA UnmapsAccount ==
  ASSUME TypeOK, AccountInv, NEW t \in ThreadIDs, RemoveExecutors(t)
  PROVE  AccountInv'
<1> USE DEF tableVars, objectVars, processVars
<1>1. /\ ~crashed /\ pc[t] = "remove" /\ cursor[t] = Len(execsToRemove[t])
      /\ pc' = [pc EXCEPT ![t] = "idle"]
      /\ execsToRemove' = [execsToRemove EXCEPT ![t] = <<>>]
      /\ executorMap' = WithoutExecutors(t)
      /\ UNCHANGED <<executors, signalMap, nActive, deInitialised, crashed>>
  BY DEF RemoveExecutors, At, Alive
<1>2. Account(t)
  BY DEF AccountInv
<1>3. \A j \in DOMAIN execsToRemove[t] :
        /\ ~Listed(t, execsToRemove[t][j])
        /\ executorMap[execsToRemove[t][j]] = t
  <2>1. \A j \in DOMAIN execsToRemove[t] : ~(j > cursor[t])
    <3>1. execsToRemove[t] \in Seq(ExecutorIDs)
      BY DEF TypeOK
    <3> QED
      BY <1>1, <3>1, LenProperties
  <2> QED
    BY <1>1, <1>2, <2>1 DEF Account, RemovalsDue, BatchHere
<1>4. \A e \in ExecutorIDs :
        /\ Listed(t, e) => executorMap'[e] = executorMap[e]
        /\ executorMap[e] # t => executorMap'[e] = executorMap[e]
  BY <1>1, <1>3 DEF WithoutExecutors
<1>5. ListedHere(t)'
  BY <1>1, <1>2, <1>4 DEF Account, ListedHere, Listed
<1>6. pc'[t] = "idle" /\ execsToRemove'[t] = <<>>
  BY <1>1 DEF TypeOK
<1>7. RemovalsDue(t)' /\ BatchHere(t)'
  BY <1>6 DEF RemovalsDue, BatchHere
<1>8. (nActive[t] = Cardinality(Executing(t)))'
  BY <1>1, <1>2 DEF Account, Executing
<1>9. Account(t)'
  BY <1>5, <1>7, <1>8 DEF Account
<1> QED
  BY <1>1, <1>4, <1>9, OtherAccounts DEF ThreadStep

\* What the removal of an executor whose index does not mislead does to the
\* table: its entry leaves, the others stay, and no index of theirs changes.
LEMMA RemovedEntries ==
  ASSUME TypeOK, AddsInv, NEW t \in ThreadIDs, NEW e \in ExecutorIDs,
         signalMap[t][e] \in Executing(t), executors[t][signalMap[t][e]].execId = e,
         Unlist(t, e)
  PROVE  /\ \A x \in ExecutorIDs :
              /\ Listed(t, x)' <=> Listed(t, x) /\ x # e
              /\ x # e => signalMap'[t][x] = signalMap[t][x]
         /\ \A i \in Executing(t) : executors[t][i].execId # e =>
              \E k \in Executing(t)' : executors'[t][k].execId = executors[t][i].execId
         /\ \A i \in Suspended(t) :
              \E k \in Suspended(t)' : executors'[t][k].execId = executors[t][i].execId
         /\ \A k \in DOMAIN executors'[t] :
              \E i \in DOMAIN executors[t] : executors'[t][k] = executors[t][i]
         /\ \E i \in Executing(t) : Executing(t)' = Executing(t) \ {i}
         /\ deInitialised' = deInitialised \cup {e}
<1> DEFINE table == executors[t]
           new == executors'[t]
           at == signalMap[t][e]
           last == Len(executors[t])
<1>1. at \in DOMAIN table /\ table[at].stateTag = "Executing" /\ table[at].execId = e
  BY DEF Executing
<1>2. /\ last \in Nat /\ at \in 1 .. last /\ DOMAIN table = 1 .. last
      /\ DOMAIN new = 1 .. last - 1
      /\ \A i \in 1 .. last - 1 : new[i] = IF i = at THEN table[last] ELSE table[i]
      /\ deInitialised' = deInitialised \cup {table[at].execId}
      /\ \A u \in ThreadIDs, x \in ExecutorIDs :
           signalMap'[u][x] =
             IF u # t THEN signalMap[u][x]
             ELSE IF x = e THEN 0
             ELSE IF at # last /\ x = table[at].execId THEN at
             ELSE signalMap[t][x]
  BY <1>1, UnlistedEntries
<1>3. \A i, j \in DOMAIN table : table[i].execId = table[j].execId => i = j
  BY DEF AddsInv, TableInv
<1>4. /\ Executing(t) = {i \in DOMAIN table : table[i].stateTag = "Executing"}
      /\ Suspended(t) = {i \in DOMAIN table : table[i].stateTag = "Suspended"}
      /\ Executing(t)' = {i \in DOMAIN new : new[i].stateTag = "Executing"}
      /\ Suspended(t)' = {i \in DOMAIN new : new[i].stateTag = "Suspended"}
  BY DEF Executing, Suspended
<1>5. \A x \in ExecutorIDs :
        /\ Listed(t, x) <=> \E i \in DOMAIN table : table[i].execId = x
        /\ Listed(t, x)' <=> \E i \in DOMAIN new : new[i].execId = x
  BY DEF Listed
<1> HIDE DEF table, new, at, last
\* Where entry i of the old table is in the new one, and the other way round.
<1> DEFINE to(i) == IF i = last THEN at ELSE i
           from(k) == IF k = at THEN last ELSE k
<1>6. \A i \in DOMAIN table : i # at => to(i) \in DOMAIN new /\ new[to(i)] = table[i]
  <2> SUFFICES ASSUME NEW i \in DOMAIN table, i # at
               PROVE  to(i) \in DOMAIN new /\ new[to(i)] = table[i]
    OBVIOUS
  <2>1. CASE i = last
    <3>1. at \in 1 .. last - 1
      BY <1>2, <2>1
    <3> QED
      BY <1>2, <2>1, <3>1
  <2>2. CASE i # last
    <3>1. i \in 1 .. last - 1
      BY <1>2, <2>2
    <3> QED
      BY <1>2, <2>2, <3>1
  <2> QED
    BY <2>1, <2>2
<1>7. \A k \in DOMAIN new :
        from(k) \in DOMAIN table /\ from(k) # at /\ new[k] = table[from(k)]
  BY <1>2
<1>8. \A i \in DOMAIN table : i # at <=> table[i].execId # e
  BY <1>1, <1>3
<1>9. Executing(t)' =
        Executing(t) \ {IF table[last].stateTag = "Executing" THEN last ELSE at}
  <2> SUFFICES ASSUME NEW k
               PROVE  k \in Executing(t)' <=>
                        /\ k \in Executing(t)
                        /\ k # IF table[last].stateTag = "Executing" THEN last ELSE at
    BY <1>4
  <2>1. last \in DOMAIN table
    BY <1>2
  <2> QED
    BY <1>1, <1>2, <1>4, <2>1
<1> HIDE DEF to, from
<1>10. \A x \in ExecutorIDs :
         /\ Listed(t, x)' <=> Listed(t, x) /\ x # e
         /\ x # e => signalMap'[t][x] = signalMap[t][x]
  <2>1. \A x \in ExecutorIDs : Listed(t, x)' <=> Listed(t, x) /\ x # e
    BY <1>5, <1>6, <1>7, <1>8
  <2>2. \A x \in ExecutorIDs : x # e => signalMap'[t][x] = signalMap[t][x]
    BY <1>1, <1>2
  <2> QED
    BY <2>1, <2>2
<1>11. /\ \A i \in Executing(t) : table[i].execId # e =>
            \E k \in Executing(t)' : new[k].execId = table[i].execId
       /\ \A i \in Suspended(t) :
            \E k \in Suspended(t)' : new[k].execId = table[i].execId
  <2>1. \A i \in Suspended(t) : i # at
    BY <1>1, <1>4
  <2> QED
    BY <1>4, <1>6, <1>8, <2>1
<1>12. \E i \in Executing(t) : Executing(t)' = Executing(t) \ {i}
  <2>1. (IF table[last].stateTag = "Executing" THEN last ELSE at) \in Executing(t)
    BY <1>1, <1>2, <1>4
  <2> QED
    BY <1>9, <2>1
<1> QED
  BY <1>1, <1>2, <1>7, <1>10, <1>11, <1>12 DEF table, new, at

\* The executor that is removed was active, and is the one that ends.
LEMMA RemovesAccount ==
  ASSUME SteadyInv, SteadyInv', AccountInv, IndexesDoNotMislead,
         NEW t \in ThreadIDs, RemoveExecutor(t)
  PROVE  AccountInv'
<1> USE DEF managerVars
<1>1. TypeOK /\ AddsInv /\ BatchInv /\ TypeOK' /\ AddsInv'
  BY DEF SteadyInv
<1> DEFINE batch == execsToRemove[t]
           e == batch[cursor[t] + 1]
           at == signalMap[t][e]
<1>2. /\ ~crashed /\ pc[t] = "remove" /\ cursor[t] + 1 \in DOMAIN batch
      /\ e \in ExecutorIDs /\ at # 0
      /\ at \in DOMAIN executors[t] =>
           at \in Executing(t) /\ executors[t][at].execId = e
  BY <1>1, RemovalDue
<1>3. /\ pc' = pc /\ UNCHANGED <<executorMap, execsToRemove>>
      /\ cursor' = [cursor EXCEPT ![t] = @ + 1]
  BY DEF RemoveExecutor
<1>4. Account(t)
  BY DEF AccountInv
<1>5. BatchHere(t)'
  BY <1>3, <1>4 DEF Account, BatchHere
<1>6. CASE at \notin DOMAIN executors[t]
  <2>1. crashed' = TRUE /\ UNCHANGED <<executors, signalMap, nActive, deInitialised>>
    BY <1>2, <1>6 DEF RemoveExecutor, tableVars
  <2>2. RemovalsDue(t)'
    BY <2>1 DEF RemovalsDue
  <2>3. ListedHere(t)' /\ (nActive[t] = Cardinality(Executing(t)))'
    BY <1>3, <1>4, <2>1 DEF Account, ListedHere, Listed, Executing
  <2>4. Account(t)'
    BY <1>5, <2>2, <2>3 DEF Account
  <2> QED
    BY <1>1, <1>3, <2>1, <2>4, OtherAccounts DEF ThreadStep
<1>7. CASE at \in DOMAIN executors[t]
  <2>1. Unlist(t, e) /\ crashed' = crashed
    BY <1>7 DEF RemoveExecutor
  <2>2. /\ \A x \in ExecutorIDs :
             /\ Listed(t, x)' <=> Listed(t, x) /\ x # e
             /\ x # e => signalMap'[t][x] = signalMap[t][x]
        /\ \A i \in Executing(t) : executors[t][i].execId # e =>
             \E k \in Executing(t)' : executors'[t][k].execId = executors[t][i].execId
        /\ \E i \in Executing(t) : Executing(t)' = Executing(t) \ {i}
        /\ deInitialised' = deInitialised \cup {e}
    <3>1. /\ e \in ExecutorIDs /\ signalMap[t][e] \in Executing(t)
          /\ executors[t][signalMap[t][e]].execId = e
      BY <1>2, <1>7
    <3> HIDE DEF at, e, batch
    <3> QED BY <1>1, <2>1, <3>1, RemovedEntries, Zenon
  <2>3. ListedHere(t)'
    BY <1>3, <1>4, <2>2 DEF Account, ListedHere
  <2>4. RemovalsDue(t)'
    <3>1. cursor'[t] = cursor[t] + 1 /\ cursor[t] \in Nat
      BY <1>1, <1>3 DEF TypeOK
    <3>2. \A j, k \in DOMAIN batch : batch[j] = batch[k] => j = k
      BY <1>1 DEF BatchInv, BatchOf
    <3>0. \A x \in ExecutorIDs :
            (\E i \in DOMAIN executors'[t] : executors'[t][i].execId = x)
              <=> Listed(t, x) /\ x # e
      BY <2>2 DEF Listed
    <3> SUFFICES ASSUME NEW j \in DOMAIN batch
                 PROVE  IF j > cursor'[t]
                        THEN \E i \in Executing(t)' : executors'[t][i].execId = batch[j]
                        ELSE /\ ~\E i \in DOMAIN executors'[t] :
                                  executors'[t][i].execId = batch[j]
                             /\ batch[j] \in deInitialised'
      BY <1>3 DEF RemovalsDue, Listed
    <3>3. batch[j] \in ExecutorIDs /\ j \in Nat
      BY <1>1, BatchIds
    <3>4. IF j > cursor[t]
          THEN \E i \in Executing(t) : executors[t][i].execId = batch[j]
          ELSE ~Listed(t, batch[j]) /\ batch[j] \in deInitialised
      BY <1>2, <1>4 DEF Account, RemovalsDue
    <3>5. CASE j > cursor[t] + 1
      <4>1. batch[j] # e
        BY <1>2, <3>1, <3>2, <3>3, <3>5
      <4>2. PICK i \in Executing(t) : executors[t][i].execId = batch[j]
        BY <3>1, <3>3, <3>4, <3>5
      <4>3. \E k \in Executing(t)' : executors'[t][k].execId = batch[j]
        BY <2>2, <4>1, <4>2
      <4> QED
        BY <3>1, <3>5, <4>3
    <3>6. CASE j = cursor[t] + 1
      BY <2>2, <3>0, <3>1, <3>3, <3>6
    <3>7. CASE j <= cursor[t]
      <4>1. ~(j > cursor[t]) /\ ~(j > cursor'[t])
        BY <3>1, <3>3, <3>7
      <4> QED
        BY <2>2, <3>0, <3>3, <3>4, <4>1
    <3> QED
      BY <3>1, <3>3, <3>5, <3>6, <3>7
  <2>5. (nActive[t] = Cardinality(Executing(t)))'
    <3>1. PICK i \in Executing(t) : Executing(t)' = Executing(t) \ {i}
      BY <2>2
    <3>2. IsFiniteSet(Executing(t)) /\ Cardinality(Executing(t)) \in Nat
          /\ Cardinality(Executing(t)) < UINT_RANGE
      BY <1>1, ActiveSmall
    <3>3. Cardinality(Executing(t)') = Cardinality(Executing(t)) - 1
      BY <3>1, <3>2, FS_RemoveElement
    <3>4. 1 <= Cardinality(Executing(t))
      BY <3>1, <3>2, FS_EmptySet
    <3>5. nActive[t] = Cardinality(Executing(t))
      BY <1>4 DEF Account
    <3>6. nActive'[t] = Minus(nActive[t], 1)
      BY <1>1, <2>1 DEF Unlist, TypeOK
    <3>7. Minus(nActive[t], 1) = nActive[t] - 1
      BY <3>2, <3>4, <3>5, SmallSums
    <3> QED
      BY <3>3, <3>5, <3>6, <3>7
  <2>6. Account(t)'
    BY <1>5, <2>3, <2>4, <2>5 DEF Account
  <2>7. executorMap[e] = t
    BY <1>2, <1>4 DEF Account, BatchHere
  <2> QED
    BY <1>1, <1>3, <2>1, <2>2, <2>6, <2>7, OtherAccounts DEF ThreadStep
<1> QED
  BY <1>6, <1>7

\* A thread begins its first executor, or none.
LEMMA StartAccount ==
  ASSUME SteadyInv, SteadyInv', AccountInv, NEW t \in ThreadIDs, Start(t)
  PROVE  AccountInv'
<1> USE DEF managerVars, tableVars, objectVars, processVars
<1>1. TypeOK /\ AddsInv /\ TypeOK' /\ AddsInv'
  BY DEF SteadyInv
<1> DEFINE e == firstExec[t]
<1>2. /\ pc[t] = "start" /\ e \in ExecutorIDs
      /\ pc' = [pc EXCEPT ![t] = IF executors'[t] = <<>> THEN "exit" ELSE "top"]
      /\ UNCHANGED <<executorMap, cursor, execsToRemove, crashed>>
      /\ Began(t, e) \/ UNCHANGED <<executors, signalMap, nActive, initialised, deInitialised>>
  BY <1>1 DEF Start, At, AddLocal, Began, TypeOK
<1>3. executorMap[e] = t /\ e \notin initialised
  BY <1>1, <1>2 DEF AddsInv, PendingInv, Pending
<1>4. Account(t)
  BY DEF AccountInv
<1>5. pc'[t] # "remove"
  BY <1>1, <1>2 DEF TypeOK
<1>6. Account(t)'
  <2>1. CASE Began(t, e)
    BY <1>1, <1>2, <1>3, <1>4, <1>5, <2>1, BeginsAccount
  <2>2. CASE UNCHANGED <<executors, signalMap, nActive, initialised, deInitialised>>
    BY <1>1, <1>2, <1>4, <1>5, <2>2, SameAccount
  <2> QED
    BY <1>2, <2>1, <2>2
<1>7. deInitialised' = deInitialised
  BY <1>2 DEF Began
<1> QED
  BY <1>1, <1>2, <1>6, <1>7, OtherAccounts DEF ThreadStep

\* A message begins an executor, wakes some, or finds none.
LEMMA HandleAccount ==
  ASSUME SteadyInv, SteadyInv', AccountInv, NEW t \in ThreadIDs, HandleInstruction(t)
  PROVE  AccountInv'
<1> USE DEF managerVars, tableVars, objectVars
<1>1. TypeOK /\ AddsInv /\ TypeOK' /\ AddsInv'
  BY DEF SteadyInv
<1> DEFINE list == localInstructionList[t]
<1>2. PICK i \in DOMAIN list :
        \/ /\ list[i].execId \in ExecutorIDs /\ list[i] = AddMessage(list[i].execId)
           /\ AddLocal(t, list[i].execId)
           /\ UNCHANGED crashed
        \/ /\ \E S \in SUBSET DOMAIN executors[t] :
                SignalIndexes(t, S, list[i].signalType)
           /\ UNCHANGED <<signalMap, initialised, deInitialised, crashed>>
        \/ UNCHANGED <<tableVars, objectVars>>
  BY <1>1, MessageHandled
<1>3. pc[t] = "round" /\ UNCHANGED <<pc, executorMap, cursor, execsToRemove>>
  BY DEF HandleInstruction, At
<1>4. Account(t) /\ pc'[t] # "remove"
  BY <1>3 DEF AccountInv
<1>5. crashed => crashed'
  BY DEF HandleInstruction, At, Alive
<1>6. CASE UNCHANGED <<tableVars, objectVars>>
  <2>1. Account(t)'
    BY <1>1, <1>3, <1>4, <1>5, <1>6, SameAccount
  <2> QED
    BY <1>1, <1>3, <1>5, <1>6, <2>1, OtherAccounts DEF ThreadStep
<1>7. CASE /\ list[i].execId \in ExecutorIDs /\ list[i] = AddMessage(list[i].execId)
           /\ AddLocal(t, list[i].execId)
  <2> DEFINE e == list[i].execId
  <2>1. e \in ExecutorIDs /\ list[i] = AddMessage(e)
        /\ (Began(t, e) \/ UNCHANGED <<tableVars, objectVars>>)
    BY <1>7 DEF AddLocal, Began
  <2> HIDE DEF e
  <2>2. CASE Began(t, e)
    <3>1. executorMap[e] = t /\ e \notin initialised
      BY <1>1, <2>1 DEF AddsInv, PendingInv, Pending, TakenAdd
    <3>2. Account(t)'
      BY <1>1, <1>3, <1>4, <2>1, <2>2, <3>1, BeginsAccount
    <3>3. deInitialised' = deInitialised
      BY <2>2 DEF Began
    <3> QED
      BY <1>1, <1>3, <1>5, <3>2, <3>3, OtherAccounts DEF ThreadStep
  <2> QED
    BY <1>6, <2>1, <2>2
<1>8. CASE /\ \E S \in SUBSET DOMAIN executors[t] :
                SignalIndexes(t, S, list[i].signalType)
           /\ UNCHANGED <<signalMap, initialised, deInitialised, crashed>>
  <2>1. Account(t)'
    BY <1>1, <1>3, <1>4, <1>8, SignalsAccount
  <2> QED
    BY <1>1, <1>3, <1>8, <2>1, OtherAccounts DEF ThreadStep
<1> QED
  BY <1>2, <1>6, <1>7, <1>8

\* The other steps of a thread change nothing its account is about.
LEMMA MovesAccount ==
  ASSUME TypeOK, AccountInv, NEW t \in ThreadIDs,
         TakeInstructions(t) \/ GoIdle(t) \/ WakeUp(t) \/ RemoveThread(t)
  PROVE  AccountInv'
<1> USE DEF managerVars, tableVars, objectVars, processVars
<1>1. /\ UNCHANGED <<execsToRemove, executors, signalMap, nActive, executorMap,
                     deInitialised, crashed>>
      /\ pc'[t] # "remove"
  BY DEF TakeInstructions, GoIdle, WakeUp, RemoveThread, TypeOK
<1>2. Account(t)
  BY DEF AccountInv
<1>3. Account(t)'
  BY <1>1, <1>2 DEF Account, RemovalsDue, ListedHere, BatchHere, Listed, Executing
<1> QED
  BY <1>1, <1>3, OtherAccounts DEF ThreadStep

\* The manager gives out IDs that are mapped nowhere.
LEMMA ManagerAccount ==
  ASSUME SteadyInv, AccountInv, Clients \/ RunLoopReturn \/ Destroy \/ UNCHANGED vars
  PROVE  AccountInv'
<1> USE DEF managerVars, identityVars, mailboxVars, loopVars, tableVars, objectVars,
            processVars
<1>1. TypeOK /\ AddsInv
  BY DEF SteadyInv
<1> SUFFICES ASSUME NEW u \in ThreadIDs PROVE Account(u)'
  BY DEF AccountInv
<1>2. Account(u)
  BY DEF AccountInv
<1>3. /\ UNCHANGED <<cursor, execsToRemove, executors, signalMap, nActive, deInitialised>>
      /\ crashed => crashed'
  BY DEF Clients, AddExecutor, DoomThread, SignalExecutor, LockShop, Crash,
         RunLoopReturn, Destroy, Alive, vars
<1>4. pc'[u] = "remove" => pc[u] = "remove"
  <2>1. pc' = pc \/ pc' = [pc EXCEPT ![nextThread] = "start"]
    BY DEF Clients, AddExecutor, AddToThread, RejectSingleton, StartThread, DoomThread,
           SignalExecutor, LockShop, Crash, RunLoopReturn, Destroy, vars
  <2> QED
    BY <1>1, <2>1 DEF TypeOK
<1>5. \A e \in ExecutorIDs : executorMap[e] # NoThread => executorMap'[e] = executorMap[e]
  <2>1. executorMap' = executorMap \/ \E v : executorMap' = [executorMap EXCEPT ![nextExec] = v]
    BY DEF Clients, AddExecutor, AddToThread, RejectSingleton, StartThread, DoomThread,
           SignalExecutor, LockShop, Crash, RunLoopReturn, Destroy, vars
  <2>2. \A e \in ExecutorIDs : executorMap[e] # NoThread => e # nextExec
    BY <1>1, Numbers DEF AddsInv, MapInv
  <2> QED
    BY <1>1, <2>1, <2>2 DEF TypeOK
<1>6. u # NoThread
  BY ConstantsAssumption
<1> QED
  BY <1>1, <1>2, <1>3, <1>4, <1>5, <1>6, SameAccount

\* While indexes do not mislead, every step keeps the accounts.
LEMMA StepAccount ==
  ASSUME SteadyInv, SteadyInv', AccountInv, IndexesDoNotMislead, [Next]_vars
  PROVE  AccountInv'
<1>1. ASSUME NEW t \in ThreadIDs, ThreadStep(t)
      PROVE  AccountInv'
  <2>1. TypeOK /\ AddsInv /\ TypeOK' /\ AddsInv'
    BY DEF SteadyInv
  <2>2. ASSUME NEW outcome \in ExecutionStates, RunExecutor(t, outcome)
        PROVE  AccountInv'
    BY <2>1, <2>2, RunsAccount
  <2>3. CASE Start(t) \/ HandleInstruction(t) \/ RemoveExecutor(t)
    BY <2>3, StartAccount, HandleAccount, RemovesAccount
  <2>4. CASE EndRound(t) \/ RemoveExecutors(t)
    BY <2>1, <2>4, RoundEndsAccount, UnmapsAccount
  <2>5. CASE TakeInstructions(t) \/ GoIdle(t) \/ WakeUp(t) \/ RemoveThread(t)
    BY <2>1, <2>5, MovesAccount
  <2> QED
    BY <1>1, <2>2, <2>3, <2>4, <2>5 DEF ThreadStep
<1>2. CASE Clients \/ RunLoopReturn \/ Destroy \/ UNCHANGED vars
  BY <1>2, ManagerAccount
<1> QED
  BY <1>1, <1>2 DEF Next

\* No executor is accounted for before the first call.
LEMMA InitAccount ==
  Init => AccountInv
<1> SUFFICES ASSUME Init, NEW t \in ThreadIDs PROVE Account(t)
  BY DEF AccountInv
<1>1. executors[t] = <<>> /\ execsToRemove[t] = <<>> /\ pc[t] = "none" /\ nActive[t] = 0
  BY DEF Init
<1>2. Executing(t) = {} /\ \A e \in ExecutorIDs : ~Listed(t, e)
  BY <1>1 DEF Executing, Listed
<1>3. nActive[t] = Cardinality(Executing(t))
  BY <1>1, <1>2, FS_EmptySet
<1> QED
  BY <1>1, <1>2, <1>3 DEF Account, RemovalsDue, ListedHere, BatchHere

\* The invariants that hold in any case, together.
LEMMA SteadyCorrect == Spec => []SteadyInv
BY TypeCorrect, OwnershipCorrect, AddsCorrect, BatchesCorrect, PTL DEF SteadyInv

\* While the indexes of the tables do not mislead, m_nActive is the number of
\* active executors.
THEOREM ActiveCountCorrect == Spec /\ []IndexesDoNotMislead => []ActiveCount
<1>1. SteadyInv /\ SteadyInv' /\ AccountInv /\ IndexesDoNotMislead /\ [Next]_vars
        => AccountInv'
  BY StepAccount
<1>2. AccountInv => ActiveCount
  BY DEF AccountInv, Account, ActiveCount
<1> QED
  BY <1>1, <1>2, InitAccount, SteadyCorrect, PTL DEF Spec

-----------------------------------------------------------------------------
(* Threads with one executor at a time                                     *)

\* The manager has no two executors on a thread.
SingleInv ==
  \A e, f \in ExecutorIDs :
    executorMap[e] # NoThread /\ executorMap[e] = executorMap[f] => e = f

\* Clients that keep at most one executor on a thread keep it so.
LEMMA StepSingle ==
  ASSUME MaxPerThread = 1, SteadyInv, SingleInv, [Next]_vars
  PROVE  SingleInv'
<1> USE DEF managerVars, identityVars, mailboxVars, loopVars, tableVars, objectVars,
            processVars
<1>1. TypeOK /\ AddsInv /\ ExecutorIDs \subseteq Nat /\ Created \subseteq ThreadIDs
  BY Numbers DEF SteadyInv
<1>2. ASSUME NEW n \in Names, NEW single \in BOOLEAN, AddExecutor(n, single)
      PROVE  SingleInv'
  <2>1. nextExec \in ExecutorIDs
    BY <1>1, <1>2, ConstantsAssumption DEF AddExecutor, IdsLeft, ExecutorIDs, TypeOK
  <2>2. CASE AddToThread(n)
    <3> DEFINE t == threadNameMap[n]
               mapped == {e \in ExecutorIDs : executorMap[e] = t}
    <3>1. Cardinality(mapped) < 1 /\ executorMap' = [executorMap EXCEPT ![nextExec] = t]
      BY <2>2 DEF AddToThread
    <3>2. IsFiniteSet(mapped)
      <4> DEFINE top == EXEC_WILDCARD - 2
      <4>1. 0 \in Int /\ top \in Int
        BY ConstantsAssumption
      <4> HIDE DEF top
      <4>2. IsFiniteSet(0 .. top)
        BY ONLY <4>1, FS_Interval
      <4>3. IsFiniteSet(ExecutorIDs) /\ mapped \in SUBSET ExecutorIDs
        BY <4>2 DEF ExecutorIDs, top
      <4> HIDE DEF mapped
      <4> QED
        BY ONLY <4>3, FS_Subset
    <3>3. mapped = {}
      <4> HIDE DEF mapped
      <4>1. Cardinality(mapped) \in Nat
        BY ONLY <3>2, FS_CardinalityType
      <4>2. Cardinality(mapped) = 0
        BY <3>1, <4>1
      <4> QED
        BY <3>2, <4>2, FS_EmptySet
    <3>4. \A e \in ExecutorIDs : executorMap[e] # t
      BY <3>3
    <3>5. \A e \in ExecutorIDs :
            executorMap'[e] = IF e = nextExec THEN t ELSE executorMap[e]
      BY <1>1, <3>1 DEF TypeOK
    <3> QED
      BY <3>4, <3>5 DEF SingleInv
  <2>3. CASE RejectSingleton(n, single)
    BY <2>3 DEF RejectSingleton, SingleInv
  <2>4. CASE StartThread(n, single)
    <3>1. \A e \in ExecutorIDs : executorMap[e] # NoThread => executorMap[e] # nextThread
      BY <1>1, Numbers DEF AddsInv, MapInv, Created
    <3>2. nextThread # NoThread
      <4>1. nextThread \in ThreadIDs
        BY <1>1, <2>4, ConstantsAssumption DEF StartThread, ThreadIDs, TypeOK
      <4> QED
        BY <4>1, ConstantsAssumption
    <3>3. \A e \in ExecutorIDs :
            executorMap'[e] = IF e = nextExec THEN nextThread ELSE executorMap[e]
      BY <1>1, <2>4 DEF StartThread, TypeOK
    <3> QED
      BY <3>1, <3>2, <3>3 DEF SingleInv
  <2> QED
    BY <1>2, <2>2, <2>3, <2>4 DEF AddExecutor
<1>3. ASSUME NEW t \in ThreadIDs, ThreadStep(t)
      PROVE  \/ UNCHANGED executorMap
             \/ \A e \in ExecutorIDs : executorMap'[e] \in {NoThread, executorMap[e]}
  BY <1>3 DEF ThreadStep, Start, TakeInstructions, HandleInstruction, RunExecutor, EndRound,
              RemoveExecutor, RemoveExecutors, WithoutExecutors, GoIdle, WakeUp, RemoveThread
<1>4. \/ \E n \in Names, single \in BOOLEAN : AddExecutor(n, single)
      \/ UNCHANGED executorMap
      \/ \A e \in ExecutorIDs : executorMap'[e] \in {NoThread, executorMap[e]}
  BY <1>3 DEF Next, Clients, DoomThread, SignalExecutor, LockShop, Crash, RunLoopReturn,
              Destroy, vars
<1> QED
  BY <1>2, <1>4 DEF SingleInv

\* Then a table has one entry at most, and its index leads to it.
LEMMA SingleEntries ==
  ASSUME SteadyInv, AccountInv, SingleInv, NEW t \in ThreadIDs
  PROVE  /\ executors[t] \in Seq(ExecutorStates)
         /\ \A e, f \in ExecutorIDs :
              Listed(t, e) /\ executorMap[f] = t => e = f
         /\ \A i, j \in DOMAIN executors[t] : i = j
<1>1. executors[t] \in Seq(ExecutorStates)
  BY DEF SteadyInv, TypeOK
<1>2. \A i \in DOMAIN executors[t] : executors[t][i].execId \in ExecutorIDs
  <2>1. \A i \in DOMAIN executors[t] : executors[t][i] \in ExecutorStates
    BY <1>1, ElementOfSeq, LenProperties
  <2> QED
    BY <2>1 DEF ExecutorStates
<1>3. t # NoThread
  BY ConstantsAssumption
<1>4. \A e \in ExecutorIDs : Listed(t, e) => executorMap[e] = t
  BY DEF AccountInv, Account, ListedHere
<1>5. \A e, f \in ExecutorIDs : Listed(t, e) /\ executorMap[f] = t => e = f
  BY <1>3, <1>4 DEF SingleInv
<1>6. \A i, j \in DOMAIN executors[t] : executors[t][i].execId = executors[t][j].execId
  BY <1>2, <1>4, <1>5 DEF Listed
<1>7. \A i, j \in DOMAIN executors[t] : i = j
  BY <1>6 DEF SteadyInv, AddsInv, TableInv
<1> QED
  BY <1>1, <1>5, <1>7

\* A sequence whose positions are all one and the same has at most one item.
LEMMA OneItem ==
  ASSUME NEW S, NEW s \in Seq(S), \A i, j \in DOMAIN s : i = j
  PROVE  Len(s) \in 0 .. 1 /\ DOMAIN s = 1 .. Len(s)
<1>1. Len(s) \in Nat /\ DOMAIN s = 1 .. Len(s)
  BY LenProperties
<1>2. ~(Len(s) > 1)
  <2> SUFFICES ASSUME Len(s) > 1 PROVE FALSE
    OBVIOUS
  <2>1. 1 \in DOMAIN s /\ 2 \in DOMAIN s
    BY <1>1
  <2> QED
    BY <2>1
<1> QED
  BY <1>1, <1>2

\* An executor that begins on such a thread is given index 1.
LEMMA BeginsIndexed ==
  ASSUME SteadyInv, AccountInv, SingleInv, NEW t \in ThreadIDs, NEW e \in ExecutorIDs,
         executorMap[e] = t, e \notin initialised, Began(t, e)
  PROVE  /\ \A i \in DOMAIN executors'[t] : i = 1 /\ executors'[t][i].execId = e
         /\ signalMap'[t][e] = 1
<1>1. ~Listed(t, e)
  BY DEF Listed, SteadyInv, AddsInv, TableInv
<1>2. \A x \in ExecutorIDs : ~Listed(t, x)
  BY <1>1, SingleEntries
<1>3. executors[t] \in Seq(ExecutorStates) /\ \A i, j \in DOMAIN executors[t] : i = j
  BY SingleEntries
<1>4. Len(executors[t]) \in 0 .. 1 /\ DOMAIN executors[t] = 1 .. Len(executors[t])
  BY <1>3, OneItem
<1>5. Len(executors[t]) # 1
  <2> SUFFICES ASSUME Len(executors[t]) = 1 PROVE FALSE
    OBVIOUS
  <2>1. 1 \in DOMAIN executors[t]
    BY <1>4
  <2>2. executors[t][1] \in ExecutorStates
    BY <1>3, <2>1, ElementOfSeq, LenProperties
  <2>3. executors[t][1].execId \in ExecutorIDs
    BY <2>2 DEF ExecutorStates
  <2> QED
    BY <1>2, <2>1, <2>3 DEF Listed
<1>6. Len(executors[t]) = 0 /\ DOMAIN executors[t] = {}
  BY <1>4, <1>5
<1>7. signalMap[t][e] = 0
  BY DEF SteadyInv, AddsInv, TableInv
<1> DEFINE last == Len(executors[t]) + 1
<1>8. /\ DOMAIN executors'[t] = DOMAIN executors[t] \cup {last}
      /\ executors'[t][last] = [execId |-> e, stateTag |-> "Executing"]
  <2>1. executors' =
          [executors EXCEPT ![t] = Append(@, [execId |-> e, stateTag |-> "Executing"])]
    BY DEF Began
  <2> QED
    BY <2>1, BegunEntries DEF SteadyInv
<1>9. last = 1
  BY <1>6
<1>10. signalMap'[t][e] = last
  BY <1>7 DEF Began, SteadyInv, TypeOK
<1> QED
  BY <1>6, <1>8, <1>9, <1>10

\* Nothing is left of a table of one entry.
LEMMA UnlistsLast ==
  ASSUME SteadyInv, AccountInv, SingleInv, NEW t \in ThreadIDs, NEW e \in ExecutorIDs,
         signalMap[t][e] \in DOMAIN executors[t], Unlist(t, e)
  PROVE  DOMAIN executors'[t] = {}
<1> DEFINE last == Len(executors[t])
<1>1. executors[t] \in Seq(ExecutorStates) /\ \A i, j \in DOMAIN executors[t] : i = j
  BY SingleEntries
<1>2. last \in 0 .. 1
  BY <1>1, OneItem
<1>3. /\ signalMap[t][e] \in 1 .. last
      /\ DOMAIN executors'[t] = 1 .. last - 1
  BY UnlistedEntries DEF SteadyInv
<1>4. last = 1
  BY <1>2, <1>3
<1> QED
  BY <1>3, <1>4

\* So no index comes to mislead.
LEMMA StepIndexed ==
  ASSUME SteadyInv, AccountInv, SingleInv, IndexesLeadToExecutors, [Next]_vars
  PROVE  IndexesLeadToExecutors'
<1> USE DEF managerVars, identityVars, mailboxVars, loopVars, tableVars, objectVars,
            processVars
<1>1. TypeOK /\ AddsInv
  BY DEF SteadyInv
<1> DEFINE led(t) == \A i \in DOMAIN executors[t] : signalMap[t][executors[t][i].execId] = i
           ledNext(t) == \A i \in DOMAIN executors'[t] :
                           signalMap'[t][executors'[t][i].execId] = i
<1>2. \A t \in ThreadIDs : led(t)
  BY DEF IndexesLeadToExecutors
<1>3. ASSUME NEW t \in ThreadIDs, ThreadStep(t)
      PROVE  ledNext(t)
  <2>1. CASE UNCHANGED <<executors, signalMap>>
    BY <1>2, <2>1
  <2>2. ASSUME NEW e \in ExecutorIDs, Began(t, e), executorMap[e] = t, e \notin initialised
        PROVE  ledNext(t)
    BY <2>2, BeginsIndexed
  <2>3. CASE Start(t)
    <3> DEFINE e == firstExec[t]
    <3>1. e \in ExecutorIDs /\ pc[t] = "start"
          /\ (Began(t, e) \/ UNCHANGED <<executors, signalMap>>)
      BY <1>1, <2>3 DEF Start, At, AddLocal, Began, TypeOK
    <3>2. executorMap[e] = t /\ e \notin initialised
      BY <1>1, <3>1 DEF AddsInv, PendingInv, Pending
    <3> HIDE DEF e
    <3> QED
      BY <2>1, <2>2, <3>1, <3>2
  <2>4. CASE HandleInstruction(t)
    <3> DEFINE list == localInstructionList[t]
    <3>1. PICK i \in DOMAIN list :
            \/ /\ list[i].execId \in ExecutorIDs /\ list[i] = AddMessage(list[i].execId)
               /\ AddLocal(t, list[i].execId)
            \/ /\ \E S \in SUBSET DOMAIN executors[t] :
                    SignalIndexes(t, S, list[i].signalType)
               /\ UNCHANGED signalMap
            \/ UNCHANGED <<executors, signalMap>>
      BY <1>1, <2>4, MessageHandled
    <3>2. CASE /\ list[i].execId \in ExecutorIDs /\ list[i] = AddMessage(list[i].execId)
               /\ AddLocal(t, list[i].execId)
      <4> DEFINE e == list[i].execId
      <4>1. e \in ExecutorIDs /\ list[i] = AddMessage(e)
            /\ (Began(t, e) \/ UNCHANGED <<executors, signalMap>>)
        BY <3>2 DEF AddLocal, Began
      <4> HIDE DEF e
      <4>2. executorMap[e] = t /\ e \notin initialised
        BY <1>1, <4>1 DEF AddsInv, PendingInv, Pending, TakenAdd
      <4> QED
        BY <2>1, <2>2, <4>1, <4>2
    <3>3. CASE /\ \E S \in SUBSET DOMAIN executors[t] :
                    SignalIndexes(t, S, list[i].signalType)
               /\ UNCHANGED signalMap
      <4>1. /\ DOMAIN executors'[t] = DOMAIN executors[t]
            /\ \A k \in DOMAIN executors[t] :
                 executors'[t][k].execId = executors[t][k].execId
        BY <1>1, <3>3, SignalledEntries
      <4> QED
        BY <1>2, <3>3, <4>1
    <3> QED
      BY <2>1, <3>1, <3>2, <3>3
  <2>5. ASSUME NEW outcome \in ExecutionStates, RunExecutor(t, outcome)
        PROVE  ledNext(t)
    <3>1. PICK i \in Executing(t) :
            \/ UNCHANGED executors
            \/ executors' = [executors EXCEPT ![t][i].stateTag = "Suspended"]
      BY <2>5 DEF RunExecutor
    <3>2. i \in DOMAIN executors[t] /\ UNCHANGED signalMap
      BY <2>5 DEF RunExecutor, Executing
    <3>3. \/ UNCHANGED executors
          \/ /\ DOMAIN executors'[t] = DOMAIN executors[t]
             /\ \A k \in DOMAIN executors[t] :
                  executors'[t][k].execId = executors[t][k].execId
      BY <1>1, <3>1, <3>2, SuspendedEntries
    <3> QED
      BY <1>2, <3>2, <3>3
  <2>6. CASE RemoveExecutor(t)
    <3> DEFINE e == execsToRemove[t][cursor[t] + 1]
    <3>1. \/ signalMap[t][e] \in DOMAIN executors[t] /\ Unlist(t, e)
          \/ UNCHANGED <<executors, signalMap>>
      BY <2>6 DEF RemoveExecutor
    <3>2. e \in ExecutorIDs
      <4>1. execsToRemove[t] \in Seq(ExecutorIDs) /\ cursor[t] \in Nat
        BY <1>1 DEF TypeOK
      <4>2. cursor[t] + 1 \in DOMAIN execsToRemove[t]
        BY <2>6, <4>1, LenProperties DEF RemoveExecutor
      <4> QED
        BY <4>1, <4>2, ElementOfSeq, LenProperties
    <3> HIDE DEF e
    <3> QED
      BY <2>1, <3>1, <3>2, UnlistsLast
  <2>7. CASE \/ TakeInstructions(t) \/ EndRound(t) \/ RemoveExecutors(t)
             \/ GoIdle(t) \/ WakeUp(t) \/ RemoveThread(t)
    BY <2>1, <2>7
    DEF TakeInstructions, EndRound, RemoveExecutors, GoIdle, WakeUp, RemoveThread
  <2> QED
    BY <1>3, <2>3, <2>4, <2>5, <2>6, <2>7 DEF ThreadStep
<1>4. ASSUME NEW t \in ThreadIDs, ThreadStep(t), NEW u \in ThreadIDs, u # t
      PROVE  ledNext(u)
  <2>1. executors'[u] = executors[u] /\ signalMap'[u] = signalMap[u]
    BY <1>1, <1>4, OtherThreads
  <2> QED
    BY <1>2, <2>1
<1>5. CASE Clients \/ RunLoopReturn \/ Destroy \/ UNCHANGED vars
  <2>1. UNCHANGED <<executors, signalMap>>
    BY <1>5 DEF Clients, AddExecutor, DoomThread, SignalExecutor, LockShop, Crash,
                RunLoopReturn, Destroy, vars
  <2> QED
    BY <2>1 DEF IndexesLeadToExecutors
<1>6. ASSUME NEW t \in ThreadIDs, ThreadStep(t)
      PROVE  IndexesLeadToExecutors'
  <2>1. \A u \in ThreadIDs : ledNext(u)
    BY <1>3, <1>4, <1>6
  <2> QED
    BY <2>1 DEF IndexesLeadToExecutors
<1> QED
  BY <1>5, <1>6 DEF Next

\* Indexes that lead to their executors mislead no removal.
LEMMA IndexesFollowed ==
  IndexesLeadToExecutors => IndexesDoNotMislead
BY DEF IndexesLeadToExecutors, IndexesDoNotMislead

\* While clients keep at most one executor on a thread, the index of every
\* executor in a table leads to it: the swap in RemoveExecutor is with itself.
THEOREM SingleIndexesCorrect ==
  ASSUME MaxPerThread = 1
  PROVE  Spec => []IndexesLeadToExecutors
<1> DEFINE SingleAccount == SingleInv /\ AccountInv /\ IndexesLeadToExecutors
<1>1. Init => SingleAccount
  <2>1. Init => SingleInv /\ IndexesLeadToExecutors
    BY DEF Init, SingleInv, IndexesLeadToExecutors
  <2> QED
    BY <2>1, InitAccount
<1>2. SteadyInv /\ SteadyInv' /\ SingleAccount /\ [Next]_vars => SingleAccount'
  BY StepSingle, StepAccount, StepIndexed, IndexesFollowed
<1>3. SingleAccount => IndexesLeadToExecutors
  OBVIOUS
<1> HIDE DEF SingleAccount
<1> QED
  BY <1>1, <1>2, <1>3, SteadyCorrect, PTL DEF Spec

\* So m_nActive is the number of active executors.
COROLLARY SingleActiveCount ==
  ASSUME MaxPerThread = 1
  PROVE  Spec => []ActiveCount
BY SingleIndexesCorrect, IndexesFollowed, ActiveCountCorrect, PTL

-----------------------------------------------------------------------------
(* Executors are found where the manager has them, if every Init succeeds  *)

Batched(t, e) == \E j \in DOMAIN execsToRemove[t] : execsToRemove[t][j] = e
Found(t, e) == Pending(t, e) \/ Listed(t, e) \/ Batched(t, e)

\* Whom the manager has on a thread is found there.
FoundInv ==
  \A e \in ExecutorIDs : executorMap[e] # NoThread => Found(executorMap[e], e)

\* A thread past its start began its first executor.
BegunInv ==
  \A t \in ThreadIDs : pc[t] \notin {"none", "start"} => firstExec[t] \in initialised

\* What begins is listed, and so is what was.
LEMMA BeginsFound ==
  ASSUME TypeOK, NEW t \in ThreadIDs, NEW e \in ExecutorIDs, Began(t, e)
  PROVE  \A x \in ExecutorIDs : Listed(t, x) \/ x = e => Listed(t, x)'
<1>1. executors' =
        [executors EXCEPT ![t] = Append(@, [execId |-> e, stateTag |-> "Executing"])]
  BY DEF Began
<1> DEFINE last == Len(executors[t]) + 1
<1>2. /\ DOMAIN executors'[t] = DOMAIN executors[t] \cup {last}
      /\ \A i \in DOMAIN executors[t] : executors'[t][i] = executors[t][i]
      /\ executors'[t][last] = [execId |-> e, stateTag |-> "Executing"]
  BY <1>1, BegunEntries
<1> HIDE DEF last
<1> QED
  BY <1>2 DEF Listed

\* A message that is handled is the only one that leaves the list taken.
LEMMA OthersStayTaken ==
  ASSUME NEW s \in Seq(Instructions), NEW i \in DOMAIN s, NEW k \in DOMAIN s, k # i
  PROVE  \E j \in DOMAIN Without(s, i) : Without(s, i)[j] = s[k]
<1>1. DOMAIN s = 1 .. Len(s) /\ Len(s) \in Nat
  BY LenProperties
<1>2. /\ DOMAIN Without(s, i) = 1 .. Len(s) - 1
      /\ \A j \in 1 .. Len(s) - 1 :
           /\ j < i => Without(s, i)[j] = s[j]
           /\ j >= i => Without(s, i)[j] = s[j + 1]
  BY ItemsLeft
<1>3. CASE k < i
  <2>1. k \in 1 .. Len(s) - 1
    BY <1>1, <1>3
  <2> QED
    BY <1>2, <1>3, <2>1
<1>4. CASE k > i
  <2>1. k - 1 \in 1 .. Len(s) - 1 /\ k - 1 >= i /\ (k - 1) + 1 = k
    BY <1>1, <1>4
  <2> QED
    BY <1>2, <2>1
<1> QED
  BY <1>1, <1>3, <1>4

\* A step of a thread leaves its executors where they are found, or moves them
\* on: from waiting to the table, from the table to those that leave.
LEMMA ThreadFound ==
  ASSUME ~InitMayFail, SteadyInv, AccountInv, IndexesDoNotMislead,
         NEW t \in ThreadIDs, ThreadStep(t), NEW x \in ExecutorIDs,
         Found(t, x), executorMap'[x] = t
  PROVE  Found(t, x)'
<1> USE DEF managerVars, identityVars, mailboxVars, loopVars, tableVars, objectVars,
            processVars
<1>1. TypeOK /\ AddsInv
  BY DEF SteadyInv
<1>2. CASE Start(t)
  <2> DEFINE e == firstExec[t]
  <2>1. /\ pc[t] = "start" /\ e \in ExecutorIDs /\ Began(t, e)
        /\ UNCHANGED <<instructionList, localInstructionList, execsToRemove>>
    BY <1>1, <1>2 DEF Start, At, AddLocal, Began, TypeOK
  <2>2. Pending(t, x) => x = e \/ PostedAdd(t, x) \/ TakenAdd(t, x)
    BY DEF Pending
  <2> HIDE DEF e
  <2>3. Listed(t, x) \/ x = e => Listed(t, x)'
    BY <1>1, <2>1, BeginsFound
  <2> QED
    BY <2>1, <2>2, <2>3 DEF Found, Pending, PostedAdd, TakenAdd, Batched
<1>3. CASE TakeInstructions(t)
  <2>1. /\ pc[t] # "start"
        /\ localInstructionList'[t] = instructionList[t]
        /\ UNCHANGED <<executors, execsToRemove>>
    BY <1>1, <1>3 DEF TakeInstructions, At, TypeOK
  <2>2. localInstructionList[t] = <<>>
    BY <1>1, <1>3 DEF TakeInstructions, At, AddsInv, ListsInv
  <2> QED
    BY <2>1, <2>2 DEF Found, Pending, PostedAdd, TakenAdd, Listed, Batched
<1>4. CASE HandleInstruction(t)
  <2> DEFINE list == localInstructionList[t]
  <2>1. PICK i \in DOMAIN list :
          /\ localInstructionList' = [localInstructionList EXCEPT ![t] = Without(list, i)]
          /\ \/ /\ list[i].execId \in ExecutorIDs /\ list[i] = AddMessage(list[i].execId)
                /\ AddLocal(t, list[i].execId)
             \/ /\ list[i].instructionTag = "SignalExecutor"
                /\ \/ \E S \in SUBSET DOMAIN executors[t] :
                        SignalIndexes(t, S, list[i].signalType)
                   \/ UNCHANGED executors
    <3>1. PICK i \in DOMAIN list :
          /\ localInstructionList' = [localInstructionList EXCEPT ![t] = Without(list, i)]
          /\ \/ /\ list[i].instructionTag = "AddExecutor"
                /\ AddLocal(t, list[i].execId)
             \/ /\ list[i].instructionTag = "SignalExecutor"
                /\ HandleExecutorSignal(t, list[i].execId, list[i].signalType)
      BY <1>4 DEF HandleInstruction, Without
    <3>2. list[i] \in Instructions
      <4>1. list \in Seq(Instructions)
        BY <1>1 DEF TypeOK
      <4> QED
        BY <4>1, ElementOfSeq, LenProperties
    <3>3. list[i].instructionTag = "AddExecutor" =>
            list[i].execId \in ExecutorIDs /\ list[i] = AddMessage(list[i].execId)
      BY <3>2 DEF Instructions, AddMessage
    <3>4. HandleExecutorSignal(t, list[i].execId, list[i].signalType) =>
            \/ \E S \in SUBSET DOMAIN executors[t] :
                 SignalIndexes(t, S, list[i].signalType)
            \/ UNCHANGED executors
      BY DEF HandleExecutorSignal
    <3> QED
      BY <3>1, <3>3, <3>4
  <2>2. pc[t] = "round" /\ pc'[t] = "round" /\ UNCHANGED <<instructionList, execsToRemove>>
    BY <1>4 DEF HandleInstruction, At
  <2>3. localInstructionList'[t] = Without(list, i) /\ list \in Seq(Instructions)
    BY <1>1, <2>1 DEF TypeOK
  <2>4. TakenAdd(t, x) => list[i] = AddMessage(x) \/ TakenAdd(t, x)'
    <3>1. \A k \in DOMAIN list : k # i =>
            \E j \in DOMAIN Without(list, i) : Without(list, i)[j] = list[k]
      BY <2>3, OthersStayTaken
    <3> QED
      BY <2>3, <3>1 DEF TakenAdd
  <2>5. Listed(t, x) \/ list[i] = AddMessage(x) => Listed(t, x)'
    <3>1. CASE /\ list[i].execId \in ExecutorIDs /\ list[i] = AddMessage(list[i].execId)
               /\ AddLocal(t, list[i].execId)
      <4> DEFINE e == list[i].execId
      <4>1. e \in ExecutorIDs /\ Began(t, e)
        BY <3>1 DEF AddLocal, Began
      <4>2. list[i] = AddMessage(x) => x = e
        BY DEF AddMessage
      <4> HIDE DEF e
      <4> QED
        BY <1>1, <4>1, <4>2, BeginsFound
    <3>2. CASE /\ list[i].instructionTag = "SignalExecutor"
               /\ \/ \E S \in SUBSET DOMAIN executors[t] :
                       SignalIndexes(t, S, list[i].signalType)
                  \/ UNCHANGED executors
      <4>1. list[i] # AddMessage(x)
        BY <3>2 DEF AddMessage
      <4>2. \/ UNCHANGED executors
            \/ /\ DOMAIN executors'[t] = DOMAIN executors[t]
               /\ \A k \in DOMAIN executors[t] :
                    executors'[t][k].execId = executors[t][k].execId
        BY <1>1, <3>2, SignalledEntries, ZenonT(60)
      <4> QED
        BY <4>1, <4>2 DEF Listed
    <3> QED
      BY <2>1, <3>1, <3>2
  <2> QED
    BY <2>2, <2>4, <2>5 DEF Found, Pending, PostedAdd, Batched
<1>5. ASSUME NEW outcome \in ExecutionStates, RunExecutor(t, outcome)
      PROVE  Found(t, x)'
  <2>1. PICK i \in Executing(t) :
          \/ UNCHANGED <<executors, execsToRemove>>
          \/ /\ executors' = [executors EXCEPT ![t][i].stateTag = "Suspended"]
             /\ UNCHANGED execsToRemove
          \/ /\ execsToRemove' =
                  [execsToRemove EXCEPT ![t] = Append(@, executors[t][i].execId)]
             /\ UNCHANGED executors
    BY <1>5 DEF RunExecutor
  <2>2. i \in DOMAIN executors[t]
    BY DEF Executing
  <2>3. /\ pc[t] # "start"
        /\ UNCHANGED <<instructionList, localInstructionList>>
    BY <1>5 DEF RunExecutor, InRound, At
  <2>4. Listed(t, x) => Listed(t, x)'
    <3>1. \/ UNCHANGED executors
          \/ /\ DOMAIN executors'[t] = DOMAIN executors[t]
             /\ \A k \in DOMAIN executors[t] :
                  executors'[t][k].execId = executors[t][k].execId
      BY <1>1, <2>1, <2>2, SuspendedEntries
    <3> QED
      BY <3>1 DEF Listed
  <2>5. Batched(t, x) => Listed(t, x)' \/ Batched(t, x)'
    <3>1. CASE UNCHANGED execsToRemove
      BY <3>1 DEF Batched
    <3>2. CASE UNCHANGED executors
      <4>1. BatchOf(pc[t], cursor[t], execsToRemove[t], localInstructionList[t], executors[t])
        BY DEF SteadyInv, BatchInv
      <4>2. pc[t] \in {"top", "round"}
        BY <1>5 DEF RunExecutor, InRound, At
      <4> QED
        BY <3>2, <4>1, <4>2 DEF BatchOf, Active, Batched, Listed
    <3> QED
      BY <2>1, <3>1, <3>2
  <2> QED
    BY <2>3, <2>4, <2>5 DEF Found, Pending, PostedAdd, TakenAdd
<1>6. CASE RemoveExecutor(t)
  <2> DEFINE e == execsToRemove[t][cursor[t] + 1]
  <2>1. /\ e \in ExecutorIDs /\ cursor[t] + 1 \in DOMAIN execsToRemove[t]
        /\ signalMap[t][e] \in DOMAIN executors[t] =>
             signalMap[t][e] \in Executing(t) /\ executors[t][signalMap[t][e]].execId = e
    BY <1>1, <1>6, RemovalDue
  <2>2. /\ pc[t] # "start"
        /\ UNCHANGED <<instructionList, localInstructionList, execsToRemove>>
        /\ \/ signalMap[t][e] \in DOMAIN executors[t] /\ Unlist(t, e)
           \/ UNCHANGED executors
    BY <1>6 DEF RemoveExecutor, At
  <2>3. Batched(t, e)
    BY <2>1 DEF Batched
  <2> HIDE DEF e
  <2>4. Listed(t, x) => Listed(t, x)' \/ Batched(t, x)
    <3>1. CASE UNCHANGED executors
      BY <3>1 DEF Listed
    <3>2. CASE signalMap[t][e] \in DOMAIN executors[t] /\ Unlist(t, e)
      <4>1. Listed(t, x)' <=> Listed(t, x) /\ x # e
        BY <1>1, <2>1, <3>2, RemovedEntries
      <4> QED
        BY <2>3, <4>1
    <3> QED
      BY <2>2, <3>1, <3>2
  <2> QED
    BY <2>2, <2>4 DEF Found, Pending, PostedAdd, TakenAdd, Batched
<1>7. CASE RemoveExecutors(t)
  <2>1. /\ pc[t] # "start" /\ ~Batched(t, x)
        /\ UNCHANGED <<instructionList, localInstructionList, executors>>
    <3>1. t # NoThread
      BY ConstantsAssumption
    <3> QED
      BY <1>7, <3>1 DEF RemoveExecutors, At, WithoutExecutors, Batched
  <2> QED
    BY <2>1 DEF Found, Pending, PostedAdd, TakenAdd, Listed
<1>8. CASE EndRound(t) \/ GoIdle(t) \/ WakeUp(t) \/ RemoveThread(t)
  <2>1. pc[t] # "start"
        /\ UNCHANGED <<instructionList, localInstructionList, executors, execsToRemove>>
    BY <1>8 DEF EndRound, GoIdle, WakeUp, RemoveThread, RoundOver, InRound, At
  <2> QED
    BY <2>1 DEF Found, Pending, PostedAdd, TakenAdd, Listed, Batched
<1> QED
  BY <1>2, <1>3, <1>4, <1>5, <1>6, <1>7, <1>8 DEF ThreadStep

\* Whom the manager has is found as long as messages only come and no thread
\* created before is touched.
LEMMA SameFound ==
  ASSUME TypeOK, AddsInv, NEW e \in ExecutorIDs, executorMap[e] # NoThread,
         Found(executorMap[e], e), executorMap'[e] = executorMap[e],
         \A t \in Created : pc'[t] = pc[t] /\ firstExec'[t] = firstExec[t],
         \A t \in ThreadIDs :
           \/ instructionList'[t] = instructionList[t]
           \/ \E msg \in Instructions :
                instructionList'[t] = Append(instructionList[t], msg),
         UNCHANGED <<localInstructionList, executors, execsToRemove>>
  PROVE  Found(executorMap[e], e)'
<1> DEFINE t == executorMap[e]
<1>1. t \in Created /\ t \in ThreadIDs
  BY Numbers DEF AddsInv, MapInv
<1>2. executorMap'[e] = t
  OBVIOUS
<1> HIDE DEF t
<1>3. PostedAdd(t, e) =>
        \E i \in DOMAIN instructionList'[t] : instructionList'[t][i] = AddMessage(e)
  <2>1. CASE instructionList'[t] = instructionList[t]
    BY <2>1 DEF PostedAdd
  <2>2. ASSUME NEW msg \in Instructions,
               instructionList'[t] = Append(instructionList[t], msg)
        PROVE  PostedAdd(t, e) =>
                 \E i \in DOMAIN instructionList'[t] : instructionList'[t][i] = AddMessage(e)
    <3>1. instructionList[t] \in Seq(Instructions)
      BY <1>1 DEF TypeOK
    <3>2. /\ DOMAIN instructionList'[t] = 1 .. Len(instructionList[t]) + 1
          /\ DOMAIN instructionList[t] = 1 .. Len(instructionList[t])
          /\ Len(instructionList[t]) \in Nat
          /\ \A j \in DOMAIN instructionList[t] :
               instructionList'[t][j] = instructionList[t][j]
      BY <2>2, <3>1, MessageAppended
    <3> QED
      BY <3>2 DEF PostedAdd
  <2> QED
    BY <1>1, <2>1, <2>2
<1>4. Found(t, e)
  BY DEF t
<1> QED
  BY <1>1, <1>2, <1>3, <1>4 DEF Found, Pending, PostedAdd, TakenAdd, Listed, Batched

\* The operations of the manager post an executor where they map it.
LEMMA ManagerFound ==
  ASSUME SteadyInv, FoundInv, Clients \/ RunLoopReturn \/ Destroy \/ UNCHANGED vars
  PROVE  FoundInv'
<1> USE DEF managerVars, identityVars, mailboxVars, loopVars, tableVars, objectVars,
            processVars
<1>1. TypeOK /\ AddsInv
  BY DEF SteadyInv
<1>2. /\ ExecutorIDs \subseteq Nat /\ Created \subseteq ThreadIDs /\ nextExec \in Nat
      /\ nextThread \notin Created
  BY <1>1, Numbers DEF Created
<1> SUFFICES ASSUME NEW e \in ExecutorIDs, executorMap'[e] # NoThread
             PROVE  Found(executorMap[e], e)'
  BY DEF FoundInv
<1>3. UNCHANGED <<localInstructionList, executors, execsToRemove>>
  BY DEF Clients, AddExecutor, DoomThread, SignalExecutor, LockShop, Crash,
         RunLoopReturn, Destroy, vars
<1>4. \A t \in Created : pc'[t] = pc[t] /\ firstExec'[t] = firstExec[t]
  <2>1. \/ UNCHANGED <<pc, firstExec>>
        \/ /\ pc' = [pc EXCEPT ![nextThread] = "start"]
           /\ firstExec' = [firstExec EXCEPT ![nextThread] = nextExec]
    BY DEF Clients, AddExecutor, AddToThread, RejectSingleton, StartThread, DoomThread,
           SignalExecutor, LockShop, Crash, RunLoopReturn, Destroy, vars
  <2> QED
    BY <1>1, <1>2, <2>1 DEF TypeOK
<1>5. \A t \in ThreadIDs :
        \/ instructionList'[t] = instructionList[t]
        \/ \E msg \in Instructions : instructionList'[t] = Append(instructionList[t], msg)
  <2>1. ASSUME NEW n \in Names, NEW single \in BOOLEAN, AddExecutor(n, single)
        PROVE  \/ UNCHANGED instructionList
               \/ \E u, msg : /\ msg \in Instructions
                              /\ instructionList' =
                                   [instructionList EXCEPT ![u] = Append(@, msg)]
    <3>1. nextExec \in ExecutorIDs
      BY <1>1, <2>1, ConstantsAssumption DEF AddExecutor, IdsLeft, ExecutorIDs, TypeOK
    <3>2. AddMessage(nextExec) \in Instructions
      BY <3>1 DEF AddMessage, Instructions
    <3> QED
      BY <2>1, <3>2 DEF AddExecutor, AddToThread, RejectSingleton, StartThread, Post
  <2>2. ASSUME NEW x \in ExecutorIDs, NEW type \in ClientSignals, SignalExecutor(x, type)
        PROVE  \/ UNCHANGED instructionList
               \/ \E u, msg : /\ msg \in Instructions
                              /\ instructionList' =
                                   [instructionList EXCEPT ![u] = Append(@, msg)]
    <3>1. SignalMessage(x, type) \in Instructions
      BY ConstantsAssumption DEF SignalMessage, Instructions
    <3> QED
      BY <2>2, <3>1 DEF SignalExecutor, Post, Crash
  <2>3. ASSUME NEW sendTermination \in BOOLEAN, LockShop(sendTermination)
        PROVE  \A t \in ThreadIDs :
                 \/ instructionList'[t] = instructionList[t]
                 \/ \E msg \in Instructions :
                      instructionList'[t] = Append(instructionList[t], msg)
    <3>1. SignalMessage(EXEC_WILDCARD, "RequestTermination") \in Instructions
      BY DEF SignalMessage, Instructions, ExecutorSignalTypes
    <3> QED
      BY <2>3, <3>1 DEF LockShop
  <2>4. CASE (\E n \in Names : DoomThread(n)) \/ RunLoopReturn \/ Destroy \/ UNCHANGED vars
    BY <2>4 DEF DoomThread, RunLoopReturn, Destroy, vars
  <2>5. ASSUME NEW u, NEW msg \in Instructions,
               instructionList' = [instructionList EXCEPT ![u] = Append(@, msg)],
               NEW t \in ThreadIDs
        PROVE  \/ instructionList'[t] = instructionList[t]
               \/ instructionList'[t] = Append(instructionList[t], msg)
    BY <1>1, <2>5 DEF TypeOK
  <2> QED
    BY <2>1, <2>2, <2>3, <2>4, <2>5 DEF Clients
<1>6. CASE executorMap'[e] = executorMap[e]
  <2>1. Found(executorMap[e], e)
    BY <1>6 DEF FoundInv
  <2> QED
    BY <1>1, <1>3, <1>4, <1>5, <1>6, <2>1, SameFound
<1>7. CASE executorMap'[e] # executorMap[e]
  <2>1. PICK n \in Names, single \in BOOLEAN : AddExecutor(n, single)
    BY <1>7 DEF Clients, DoomThread, SignalExecutor, LockShop, Crash, RunLoopReturn,
                Destroy, vars
  <2>2. CASE AddToThread(n)
    <3> DEFINE t == threadNameMap[n]
    <3>1. /\ instructionList' = [instructionList EXCEPT ![t] = Append(@, AddMessage(nextExec))]
          /\ executorMap' = [executorMap EXCEPT ![nextExec] = t]
          /\ t # NoThread
      BY <2>2 DEF AddToThread, Post
    <3>2. e = nextExec /\ executorMap'[e] = t /\ t \in ThreadIDs
      BY <1>1, <1>7, <3>1 DEF TypeOK
    <3> HIDE DEF t
    <3>3. instructionList'[t] = Append(instructionList[t], AddMessage(e))
          /\ instructionList[t] \in Seq(Instructions) /\ AddMessage(e) \in Instructions
      BY <1>1, <3>1, <3>2 DEF TypeOK, AddMessage, Instructions
    <3> DEFINE last == Len(instructionList[t]) + 1
    <3>4. last \in DOMAIN instructionList'[t] /\ instructionList'[t][last] = AddMessage(e)
      BY <3>3, MessageAppended
    <3> HIDE DEF last
    <3> QED
      BY <3>2, <3>4 DEF Found, Pending, PostedAdd
  <2>3. CASE RejectSingleton(n, single)
    BY <1>7, <2>3 DEF RejectSingleton
  <2>4. CASE StartThread(n, single)
    <3>1. nextThread \in ThreadIDs
      BY <1>1, <2>4, ConstantsAssumption DEF StartThread, ThreadIDs, TypeOK
    <3>2. e = nextExec /\ executorMap'[e] = nextThread
      BY <1>1, <1>7, <2>4 DEF StartThread, TypeOK
    <3>3. pc'[nextThread] = "start" /\ firstExec'[nextThread] = e
      BY <1>1, <2>4, <3>1, <3>2 DEF StartThread, TypeOK
    <3> QED
      BY <3>2, <3>3 DEF Found, Pending
  <2> QED
    BY <2>1, <2>2, <2>3, <2>4 DEF AddExecutor
<1> QED
  BY <1>6, <1>7

\* Every step leaves whom the manager has where it is found.
LEMMA StepFound ==
  ASSUME ~InitMayFail, SteadyInv, AccountInv, IndexesDoNotMislead, FoundInv, [Next]_vars
  PROVE  FoundInv'
<1> USE DEF managerVars, identityVars, mailboxVars, loopVars, tableVars, objectVars,
            processVars
<1>1. CASE Clients \/ RunLoopReturn \/ Destroy \/ UNCHANGED vars
  BY <1>1, ManagerFound
<1>2. ASSUME NEW t \in ThreadIDs, ThreadStep(t)
      PROVE  FoundInv'
  <2> SUFFICES ASSUME NEW e \in ExecutorIDs, executorMap'[e] # NoThread
               PROVE  Found(executorMap[e], e)'
    BY DEF FoundInv
  <2>1. UNCHANGED firstExec
        /\ \A x \in ExecutorIDs : executorMap'[x] \in {NoThread, executorMap[x]}
    BY <1>2 DEF ThreadStep, Start, TakeInstructions, HandleInstruction, RunExecutor,
                EndRound, RemoveExecutor, RemoveExecutors, WithoutExecutors, GoIdle,
                WakeUp, RemoveThread
  <2>2. executorMap'[e] = executorMap[e] /\ Found(executorMap[e], e)
    BY <2>1 DEF FoundInv
  <2> DEFINE u == executorMap[e]
  <2>3. u \in ThreadIDs /\ executorMap'[e] = u /\ Found(u, e)
    BY <2>2 DEF SteadyInv, TypeOK
  <2> HIDE DEF u
  <2>4. CASE u = t
    <3>1. Found(t, e)'
      BY <1>2, <2>3, <2>4, ThreadFound
    <3> QED
      BY <2>3, <2>4, <3>1 DEF Found, Pending, PostedAdd, TakenAdd, Listed, Batched
  <2>5. CASE u # t
    <3>1. /\ pc'[u] = pc[u] /\ execsToRemove'[u] = execsToRemove[u]
          /\ localInstructionList'[u] = localInstructionList[u]
          /\ instructionList'[u] = instructionList[u]
          /\ executors'[u] = executors[u]
      BY <1>2, <2>3, <2>5, OtherThreads DEF SteadyInv
    <3> QED
      BY <2>1, <2>3, <3>1 DEF Found, Pending, PostedAdd, TakenAdd, Listed, Batched
  <2> QED
    BY <2>4, <2>5
<1> QED
  BY <1>1, <1>2 DEF Next

\* A thread begins its first executor before anything else.
LEMMA StepBegun ==
  ASSUME ~InitMayFail, SteadyInv, BegunInv, [Next]_vars
  PROVE  BegunInv'
<1> USE DEF managerVars, identityVars, mailboxVars, loopVars, tableVars, objectVars,
            processVars
<1>1. TypeOK /\ AddsInv
  BY DEF SteadyInv
<1>2. ASSUME NEW t \in ThreadIDs, ThreadStep(t)
      PROVE  BegunInv'
  <2>1. UNCHANGED firstExec /\ initialised \subseteq initialised'
    BY <1>2 DEF ThreadStep, Start, TakeInstructions, HandleInstruction, AddLocal, RunExecutor,
                EndRound, RemoveExecutor, RemoveExecutors, GoIdle, WakeUp, RemoveThread
  <2>2. pc[t] \notin {"none", "start"} \/ firstExec[t] \in initialised'
    BY <1>2 DEF ThreadStep, Start, TakeInstructions, HandleInstruction, AddLocal, RunExecutor,
                EndRound, RemoveExecutor, RemoveExecutors, GoIdle, WakeUp, RemoveThread,
                RoundOver, InRound, At
  <2>3. \A u \in ThreadIDs : u # t => pc'[u] = pc[u]
    BY <1>1, <1>2, OtherThreads
  <2> QED
    BY <2>1, <2>2, <2>3 DEF BegunInv
<1>3. CASE Clients \/ RunLoopReturn \/ Destroy \/ UNCHANGED vars
  <2>1. UNCHANGED initialised
    BY <1>3 DEF Clients, AddExecutor, DoomThread, SignalExecutor, LockShop, Crash,
                RunLoopReturn, Destroy, vars
  <2>2. \/ UNCHANGED <<pc, firstExec>>
        \/ /\ pc' = [pc EXCEPT ![nextThread] = "start"]
           /\ firstExec' = [firstExec EXCEPT ![nextThread] = nextExec]
    BY <1>3 DEF Clients, AddExecutor, AddToThread, RejectSingleton, StartThread, DoomThread,
                SignalExecutor, LockShop, Crash, RunLoopReturn, Destroy, vars
  <2> QED
    BY <1>1, <2>1, <2>2 DEF BegunInv, TypeOK
<1> QED
  BY <1>2, <1>3 DEF Next

FoundAccount == AccountInv /\ FoundInv /\ BegunInv

\* Every step keeps the account and where executors are found.
LEMMA StepFoundAccount ==
  ASSUME ~InitMayFail
  PROVE  SteadyInv /\ SteadyInv' /\ FoundAccount /\ IndexesDoNotMislead /\ [Next]_vars
           => FoundAccount'
BY StepAccount, StepFound, StepBegun DEF FoundAccount

\* Account and places agree before the first call.
LEMMA InitFoundAccount ==
  Init => FoundAccount
<1>1. Init => FoundInv /\ BegunInv
  BY DEF Init, FoundInv, BegunInv
<1> QED
  BY <1>1, InitAccount DEF FoundAccount

\* Whom the manager has on a thread waits there, is listed there or leaves it.
LEMMA AllAccountedFor ==
  FoundAccount => ExecutorsAccountedFor
<1> SUFFICES ASSUME FoundAccount PROVE ExecutorsAccountedFor
  OBVIOUS
<1>1. ASSUME NEW e \in ExecutorIDs, executorMap[e] # NoThread
      PROVE  LET t == executorMap[e] IN
             \/ AddPending(t, e) \/ Listed(t, e)
             \/ \E i \in DOMAIN execsToRemove[t] : execsToRemove[t][i] = e
  <2> DEFINE t == executorMap[e]
  <2>1. Found(t, e)
    BY <1>1 DEF FoundAccount, FoundInv
  <2> HIDE DEF t
  <2>2. Pending(t, e) => AddPending(t, e)
    BY DEF Pending, PostedAdd, TakenAdd, AddPending, AddsTaken, AddMessage
  <2>3. AddPending(t, e) \/ Listed(t, e)
        \/ \E i \in DOMAIN execsToRemove[t] : execsToRemove[t][i] = e
    BY <2>1, <2>2 DEF Found, Batched
  <2> QED
    BY <2>3 DEF t
<1>2. \A t \in ThreadIDs, e \in ExecutorIDs :
        Listed(t, e) => executorMap[e] = t /\ e \notin deInitialised
  BY DEF FoundAccount, AccountInv, Account, ListedHere
<1> QED
  BY <1>1, <1>2 DEF ExecutorsAccountedFor

\* Nobody is found on a thread that left, so that whoever is mapped is mapped
\* to a thread the manager owns.
LEMMA AllLeadToThreads ==
  SteadyInv /\ FoundAccount => ExecutorsLeadToThreads
<1> SUFFICES ASSUME SteadyInv, FoundAccount,
                    NEW e \in ExecutorIDs, executorMap[e] # NoThread
             PROVE  executorMap[e] \in threadMap
  BY DEF ExecutorsLeadToThreads
<1> DEFINE t == executorMap[e]
<1>1. t \in Created /\ t \in ThreadIDs /\ Found(t, e)
  BY Numbers DEF SteadyInv, AddsInv, MapInv, FoundAccount, FoundInv
<1> HIDE DEF t
<1>2. pc[t] # "none"
  BY <1>1 DEF SteadyInv, OwnershipInv, ThreadsAccountedFor, Created
<1>3. pc[t] # "done"
  <2> SUFFICES ASSUME pc[t] = "done" PROVE FALSE
    OBVIOUS
  <2>1. firstExec[t] \in initialised
    BY <1>1 DEF FoundAccount, BegunInv
  <2>2. executors[t] = <<>> /\ ~PostedAdd(t, e) /\ localInstructionList[t] = <<>>
    BY <1>1, <2>1 DEF SteadyInv, AddsInv, LeftInv, ListsInv
  <2>3. execsToRemove[t] = <<>>
    BY <1>1 DEF SteadyInv, BatchInv, BatchOf
  <2> QED
    BY <1>1, <2>2, <2>3 DEF Found, Pending, TakenAdd, Listed, Batched
<1>4. t \in threadMap
  BY <1>1, <1>2, <1>3 DEF SteadyInv, OwnershipInv, ThreadsAccountedFor
<1> QED
  BY <1>4 DEF t

\* If every Init succeeds, and while no index misleads, every executor the
\* manager knows is where its thread can find it, and every executor in a table
\* is known there and was not deinitialised.
THEOREM ExecutorsFound ==
  ASSUME ~InitMayFail
  PROVE  Spec /\ []IndexesDoNotMislead => []ExecutorsAccountedFor
BY InitFoundAccount, StepFoundAccount, AllAccountedFor, SteadyCorrect, PTL DEF Spec

\* Then SignalExecutor follows no executor to a thread that is gone.
THEOREM ExecutorsOnThreads ==
  ASSUME ~InitMayFail
  PROVE  Spec /\ []IndexesDoNotMislead => []ExecutorsLeadToThreads
BY InitFoundAccount, StepFoundAccount, AllLeadToThreads, SteadyCorrect, PTL DEF Spec

\* Both hold without a condition on the indexes while clients keep at most one
\* executor on a thread.
COROLLARY SingleExecutorsFound ==
  ASSUME ~InitMayFail, MaxPerThread = 1
  PROVE  Spec => []ExecutorsAccountedFor /\ []ExecutorsLeadToThreads
BY SingleIndexesCorrect, IndexesFollowed, ExecutorsFound, ExecutorsOnThreads, PTL

-----------------------------------------------------------------------------
(* The manager implements the service                                      *)

Runs(t, e) == \E i \in Executing(t) : executors[t][i].execId = e
Sleeps(t, e) == \E i \in Suspended(t) : executors[t][i].execId = e

\* The phase of an executor, from the one thread that may have it in its table.
LEMMA PhaseHere ==
  ASSUME SteadyInv, AccountInv, NEW e \in ExecutorIDs
  PROVE  /\ e \in deInitialised => PhaseOf(e) = "ended"
         /\ \A t \in ThreadIDs : Runs(t, e) => PhaseOf(e) = "running"
         /\ \A t \in ThreadIDs : Sleeps(t, e) => PhaseOf(e) = "suspended"
         /\ (\A t \in ThreadIDs : ~Listed(t, e)) /\ e \notin deInitialised =>
              PhaseOf(e) = IF executorMap[e] # NoThread THEN "accepted" ELSE "unknown"
<1>1. \A t \in ThreadIDs : Runs(t, e) \/ Sleeps(t, e) => Listed(t, e)
  BY DEF Runs, Sleeps, Listed, Executing, Suspended
<1>2. \A t \in ThreadIDs : Listed(t, e) => executorMap[e] = t /\ e \notin deInitialised
  BY DEF AccountInv, Account, ListedHere
<1>3. \A t \in ThreadIDs : ~(Runs(t, e) /\ Sleeps(t, e))
  BY DEF Runs, Sleeps, Executing, Suspended, SteadyInv, AddsInv, TableInv
<1>4. \A t, u \in ThreadIDs : Sleeps(t, e) => ~Runs(u, e)
  BY <1>1, <1>2, <1>3
<1>5. PhaseOf(e) =
        IF e \in deInitialised THEN "ended"
        ELSE IF \E t \in ThreadIDs : Runs(t, e) THEN "running"
        ELSE IF \E t \in ThreadIDs : Sleeps(t, e) THEN "suspended"
        ELSE IF executorMap[e] # NoThread THEN "accepted" ELSE "unknown"
  BY DEF PhaseOf, Runs, Sleeps
<1>6. e \in deInitialised => PhaseOf(e) = "ended"
  BY <1>5
<1>7. \A t \in ThreadIDs : Runs(t, e) => PhaseOf(e) = "running"
  BY <1>1, <1>2, <1>5
<1>8. \A t \in ThreadIDs : Sleeps(t, e) => PhaseOf(e) = "suspended"
  BY <1>1, <1>2, <1>4, <1>5
<1>9. (\A t \in ThreadIDs : ~Listed(t, e)) /\ e \notin deInitialised =>
        PhaseOf(e) = IF executorMap[e] # NoThread THEN "accepted" ELSE "unknown"
  BY <1>1, <1>5
<1> QED
  BY <1>6, <1>7, <1>8, <1>9

\* The phase of an executor changes only with its entry, its end or its mapping.
LEMMA SamePhase ==
  ASSUME NEW e \in ExecutorIDs,
         e \in deInitialised <=> e \in deInitialised',
         \A t \in ThreadIDs : (Runs(t, e) <=> Runs(t, e)') /\ (Sleeps(t, e) <=> Sleeps(t, e)'),
         \/ executorMap'[e] = NoThread <=> executorMap[e] = NoThread
         \/ e \in deInitialised
  PROVE  PhaseOf(e)' = PhaseOf(e)
<1>1. PhaseOf(e) =
        IF e \in deInitialised THEN "ended"
        ELSE IF \E t \in ThreadIDs : Runs(t, e) THEN "running"
        ELSE IF \E t \in ThreadIDs : Sleeps(t, e) THEN "suspended"
        ELSE IF executorMap[e] # NoThread THEN "accepted" ELSE "unknown"
  BY DEF PhaseOf, Runs, Sleeps
<1>2. PhaseOf(e)' =
        IF e \in deInitialised' THEN "ended"
        ELSE IF \E t \in ThreadIDs : Runs(t, e)' THEN "running"
        ELSE IF \E t \in ThreadIDs : Sleeps(t, e)' THEN "suspended"
        ELSE IF executorMap'[e] # NoThread THEN "accepted" ELSE "unknown"
  BY DEF PhaseOf, Runs, Sleeps
<1> QED
  BY <1>1, <1>2

\* A step that touches no table, end or mapping changes no phase.
LEMMA SamePhases ==
  ASSUME UNCHANGED <<executors, deInitialised, executorMap>>
  PROVE  \A e \in ExecutorIDs : PhaseOf(e)' = PhaseOf(e)
<1>1. \A t \in ThreadIDs, e \in ExecutorIDs :
        (Runs(t, e) <=> Runs(t, e)') /\ (Sleeps(t, e) <=> Sleeps(t, e)')
  BY DEF Runs, Sleeps, Executing, Suspended
<1> QED
  BY <1>1, SamePhase

\* In a step of thread t, the entries of other threads stay.
LEMMA OthersRun ==
  ASSUME TypeOK, NEW t \in ThreadIDs, ThreadStep(t)
  PROVE  \A u \in ThreadIDs, e \in ExecutorIDs : u # t =>
           (Runs(u, e) <=> Runs(u, e)') /\ (Sleeps(u, e) <=> Sleeps(u, e)')
<1>1. \A u \in ThreadIDs : u # t => executors'[u] = executors[u]
  BY OtherThreads
<1> QED
  BY <1>1 DEF Runs, Sleeps, Executing, Suspended

\* The steps of the service, from phases before and after.
LEMMA ServiceStutters ==
  ASSUME lockedShop' = lockedShop, \A e \in ExecutorIDs : PhaseOf(e)' = PhaseOf(e)
  PROVE  UNCHANGED Service!svcVars
BY DEF Service!svcVars

\* When one executor changes its phase, that is a move of the service.
LEMMA ServiceMoves ==
  ASSUME lockedShop' = lockedShop, NEW e \in ExecutorIDs, NEW from, NEW to,
         PhaseOf(e) = from, PhaseOf(e)' = to,
         \A x \in ExecutorIDs : x # e => PhaseOf(x)' = PhaseOf(x)
  PROVE  Service!Move(e, from, to) /\ (~lockedShop)' = (~lockedShop)
BY DEF Service!Move

\* Adding an executor accepts it; a rejected one stays unknown.
LEMMA AddServes ==
  ASSUME SteadyInv, SteadyInv', AccountInv, AccountInv',
         NEW n \in Names, NEW single \in BOOLEAN, AddExecutor(n, single)
  PROVE  Service!ServiceNext \/ UNCHANGED Service!svcVars
<1> USE DEF tableVars, objectVars
<1>1. /\ ~lockedShop /\ UNCHANGED <<lockedShop, executors, deInitialised>>
      /\ nextExec \in ExecutorIDs /\ TypeOK
  <2>1. ~lockedShop /\ UNCHANGED <<lockedShop, executors, deInitialised>>
    BY DEF AddExecutor, ShopOpen
  <2>2. TypeOK
    BY DEF SteadyInv
  <2>3. nextExec \in ExecutorIDs
    BY <2>2, ConstantsAssumption DEF AddExecutor, IdsLeft, ExecutorIDs, TypeOK
  <2> QED
    BY <2>1, <2>2, <2>3
<1>2. CASE RejectSingleton(n, single)
  <2>1. UNCHANGED executorMap
    BY <1>2 DEF RejectSingleton
  <2> QED
    BY <1>1, <2>1, SamePhases, ServiceStutters
<1>3. CASE AddToThread(n) \/ StartThread(n, single)
  <2>0. PICK e \in ExecutorIDs : e = nextExec
    BY <1>1
  <2>1. e \notin deInitialised /\ executorMap[e] = NoThread /\ \A t \in ThreadIDs : ~Listed(t, e)
    <3>1. \A x \in ExecutorIDs : x \in initialised \/ executorMap[x] # NoThread => x # e
      <4>1. \A x \in ExecutorIDs :
              x \in initialised \/ executorMap[x] # NoThread => x < nextExec
        BY DEF SteadyInv, AddsInv, TableInv, MapInv
      <4>2. nextExec \in Nat
        BY <1>1, Numbers
      <4> QED
        BY <2>0, <4>1, <4>2
    <3> QED
      <4>1. e \notin initialised /\ executorMap[e] = NoThread
        BY <3>1
      <4>2. TableInv
        BY DEF SteadyInv, AddsInv
      <4> QED
        BY <4>1, <4>2 DEF TableInv, Listed
  <2>2. PhaseOf(e) = "unknown"
    BY <1>1, <2>1, PhaseHere
  <2>3. \E t \in ThreadIDs : executorMap' = [executorMap EXCEPT ![e] = t]
    <3>1. CASE AddToThread(n)
      BY <1>1, <2>0, <3>1 DEF AddToThread, TypeOK
    <3>2. CASE StartThread(n, single)
      <4>1. nextThread \in ThreadIDs
        BY <1>1, <3>2, ConstantsAssumption DEF StartThread, ThreadIDs, TypeOK
      <4> QED
        BY <2>0, <3>2, <4>1 DEF StartThread
    <3> QED
      BY <1>3, <3>1, <3>2
  <2>4. /\ executorMap'[e] # NoThread
        /\ \A x \in ExecutorIDs : x # e => executorMap'[x] = executorMap[x]
    BY <1>1, <2>3, ConstantsAssumption DEF TypeOK
  <2>5. PhaseOf(e)' = "accepted"
    <3>1. \A t \in ThreadIDs : ~Runs(t, e)' /\ ~Sleeps(t, e)'
      BY <1>1, <2>1 DEF Runs, Sleeps, Executing, Suspended, Listed
    <3>2. PhaseOf(e)' =
            IF e \in deInitialised' THEN "ended"
            ELSE IF \E t \in ThreadIDs : Runs(t, e)' THEN "running"
            ELSE IF \E t \in ThreadIDs : Sleeps(t, e)' THEN "suspended"
            ELSE IF executorMap'[e] # NoThread THEN "accepted" ELSE "unknown"
      BY DEF PhaseOf, Runs, Sleeps
    <3> QED
      BY <1>1, <2>1, <2>4, <3>1, <3>2
  <2>6. \A x \in ExecutorIDs : x # e => PhaseOf(x)' = PhaseOf(x)
    <3>1. \A t \in ThreadIDs, x \in ExecutorIDs :
            (Runs(t, x) <=> Runs(t, x)') /\ (Sleeps(t, x) <=> Sleeps(t, x)')
      BY <1>1 DEF Runs, Sleeps, Executing, Suspended
    <3> QED
      BY <1>1, <2>4, <3>1, SamePhase
  <2>7. Service!Accept(e)
    BY <1>1, <2>2, <2>5, <2>6, ServiceMoves DEF Service!Accept
  <2> QED
    BY <1>1, <2>7 DEF Service!ServiceNext
<1> QED
  BY <1>2, <1>3 DEF AddExecutor

\* An executor begins once, after it was accepted.
LEMMA BeginServes ==
  ASSUME SteadyInv, SteadyInv', AccountInv, AccountInv',
         NEW t \in ThreadIDs, ThreadStep(t), NEW e \in ExecutorIDs,
         executorMap[e] = t, e \notin initialised, Began(t, e),
         UNCHANGED <<lockedShop, executorMap>>
  PROVE  Service!ServiceNext
<1>1. TypeOK /\ TableInv /\ t # NoThread
  BY ConstantsAssumption DEF SteadyInv, AddsInv
<1> DEFINE last == Len(executors[t]) + 1
<1>2. /\ last \notin DOMAIN executors[t]
      /\ DOMAIN executors'[t] = DOMAIN executors[t] \cup {last}
      /\ \A i \in DOMAIN executors[t] : executors'[t][i] = executors[t][i]
      /\ executors'[t][last] = [execId |-> e, stateTag |-> "Executing"]
      /\ Executing(t)' = Executing(t) \cup {last}
      /\ Suspended(t)' = Suspended(t)
  <2>1. executors' =
          [executors EXCEPT ![t] = Append(@, [execId |-> e, stateTag |-> "Executing"])]
    BY DEF Began
  <2> QED
    BY <1>1, <2>1, BegunEntries
<1> HIDE DEF last
<1>3. e \notin deInitialised /\ deInitialised' = deInitialised
      /\ \A u \in ThreadIDs : ~Listed(u, e)
  BY <1>1 DEF TableInv, Listed, Began
<1>4. PhaseOf(e) = "accepted"
  BY <1>1, <1>3, PhaseHere
<1>5. Runs(t, e)'
  <2>1. executors'[t][last].execId = e /\ last \in Executing(t)'
    BY <1>2
  <2> QED
    BY <2>1 DEF Runs
<1>6. PhaseOf(e)' = "running"
  <2>1. PhaseOf(e)' =
          IF e \in deInitialised' THEN "ended"
          ELSE IF \E u \in ThreadIDs : Runs(u, e)' THEN "running"
          ELSE IF \E u \in ThreadIDs : Sleeps(u, e)' THEN "suspended"
          ELSE IF executorMap'[e] # NoThread THEN "accepted" ELSE "unknown"
    BY DEF PhaseOf, Runs, Sleeps
  <2> QED
    BY <1>3, <1>5, <2>1
<1>7. \A x \in ExecutorIDs : x # e => PhaseOf(x)' = PhaseOf(x)
  <2>1. \A x \in ExecutorIDs : x # e =>
          (Runs(t, x) <=> Runs(t, x)') /\ (Sleeps(t, x) <=> Sleeps(t, x)')
    <3>1. \A i \in Executing(t) \cup Suspended(t) : i \in DOMAIN executors[t]
      BY DEF Executing, Suspended
    <3>2. executors'[t][last].execId = e
      BY <1>2
    <3> QED
      BY <1>2, <3>1, <3>2 DEF Runs, Sleeps
  <2>2. \A u \in ThreadIDs, x \in ExecutorIDs : x # e =>
          (Runs(u, x) <=> Runs(u, x)') /\ (Sleeps(u, x) <=> Sleeps(u, x)')
    BY <1>1, <2>1, OthersRun
  <2> QED
    BY <1>3, <2>2, SamePhase
<1>8. Service!Begin(e)
  BY <1>4, <1>6, <1>7, ServiceMoves DEF Service!Begin
<1> QED
  BY <1>8 DEF Service!ServiceNext

\* A signal wakes executors that were suspended, and no other.
LEMMA SignalServes ==
  ASSUME SteadyInv, SteadyInv', AccountInv, AccountInv',
         NEW t \in ThreadIDs, ThreadStep(t), NEW S \in SUBSET DOMAIN executors[t],
         NEW type, SignalIndexes(t, S, type),
         UNCHANGED <<lockedShop, executorMap, deInitialised>>
  PROVE  Service!ServiceNext
<1>1. TypeOK /\ TableInv
  BY DEF SteadyInv, AddsInv
<1>2. /\ DOMAIN executors'[t] = DOMAIN executors[t]
      /\ \A i \in DOMAIN executors[t] :
           /\ executors'[t][i].execId = executors[t][i].execId
           /\ executors'[t][i].stateTag =
                IF i \in S THEN "Executing" ELSE executors[t][i].stateTag
  BY <1>1, SignalledEntries
<1>3. PICK woken \in SUBSET ExecutorIDs :
        woken = {e \in ExecutorIDs : \E i \in S \cap Suspended(t) : executors[t][i].execId = e}
  OBVIOUS
<1>4. \A e \in woken : PhaseOf(e) = "suspended"
  BY <1>3, PhaseHere DEF Sleeps
<1>5. \A e \in woken : PhaseOf(e)' = "running"
  <2> SUFFICES ASSUME NEW e \in woken PROVE PhaseOf(e)' = "running"
    OBVIOUS
  <2>1. PICK i \in S \cap Suspended(t) : executors[t][i].execId = e
    BY <1>3
  <2>2. i \in Executing(t)' /\ executors'[t][i].execId = e
    BY <1>2, <2>1 DEF Executing, Suspended
  <2>3. Runs(t, e)' /\ e \notin deInitialised'
    <3>1. Listed(t, e)
      BY <2>1 DEF Listed, Suspended
    <3> QED
      BY <2>2, <3>1 DEF Runs, AccountInv, Account, ListedHere
  <2>4. PhaseOf(e)' =
          IF e \in deInitialised' THEN "ended"
          ELSE IF \E u \in ThreadIDs : Runs(u, e)' THEN "running"
          ELSE IF \E u \in ThreadIDs : Sleeps(u, e)' THEN "suspended"
          ELSE IF executorMap'[e] # NoThread THEN "accepted" ELSE "unknown"
    BY DEF PhaseOf, Runs, Sleeps
  <2> QED
    BY <2>3, <2>4
<1>6. \A e \in ExecutorIDs : e \notin woken => PhaseOf(e)' = PhaseOf(e)
  <2>1. \A i \in DOMAIN executors[t] :
          executors[t][i].stateTag \in {"Executing", "Suspended"}
    <3>1. executors[t] \in Seq(ExecutorStates)
      BY <1>1 DEF TypeOK
    <3>2. \A i \in DOMAIN executors[t] : executors[t][i] \in ExecutorStates
      BY <3>1, ElementOfSeq, LenProperties
    <3> QED
      BY <3>2 DEF ExecutorStates, ExecutorStateTags
  <2>2. \A e \in ExecutorIDs : e \notin woken =>
          (Runs(t, e) <=> Runs(t, e)') /\ (Sleeps(t, e) <=> Sleeps(t, e)')
    <3> SUFFICES ASSUME NEW e \in ExecutorIDs, e \notin woken
                 PROVE  (Runs(t, e) <=> Runs(t, e)') /\ (Sleeps(t, e) <=> Sleeps(t, e)')
      OBVIOUS
    <3>1. \A i \in DOMAIN executors[t] : executors[t][i].execId = e =>
            executors'[t][i].stateTag = executors[t][i].stateTag
      BY <1>2, <1>3, <2>1 DEF Suspended
    <3>2. /\ Runs(t, e) <=> \E i \in DOMAIN executors[t] :
               executors[t][i].execId = e /\ executors[t][i].stateTag = "Executing"
          /\ Runs(t, e)' <=> \E i \in DOMAIN executors'[t] :
               executors'[t][i].execId = e /\ executors'[t][i].stateTag = "Executing"
          /\ Sleeps(t, e) <=> \E i \in DOMAIN executors[t] :
               executors[t][i].execId = e /\ executors[t][i].stateTag = "Suspended"
          /\ Sleeps(t, e)' <=> \E i \in DOMAIN executors'[t] :
               executors'[t][i].execId = e /\ executors'[t][i].stateTag = "Suspended"
      BY DEF Runs, Sleeps, Executing, Suspended
    <3> QED
      BY <1>2, <3>1, <3>2
  <2>3. \A u \in ThreadIDs, e \in ExecutorIDs : e \notin woken =>
          (Runs(u, e) <=> Runs(u, e)') /\ (Sleeps(u, e) <=> Sleeps(u, e)')
    BY <1>1, <2>2, OthersRun
  <2> QED
    BY <2>3, SamePhase
<1>7. Service!Wake(woken)
  BY <1>4, <1>5, <1>6 DEF Service!Wake
<1> QED
  BY <1>7 DEF Service!ServiceNext

\* Running an executor suspends it or leaves its phase alone: one that ends is
\* deinitialised later.
LEMMA RunServes ==
  ASSUME SteadyInv, SteadyInv', AccountInv, AccountInv',
         NEW t \in ThreadIDs, NEW outcome \in ExecutionStates, RunExecutor(t, outcome)
  PROVE  Service!ServiceNext \/ UNCHANGED Service!svcVars
<1> USE DEF managerVars, objectVars
<1>1. TypeOK /\ TableInv
  BY DEF SteadyInv, AddsInv
<1>2. UNCHANGED <<lockedShop, executorMap, deInitialised>>
  BY DEF RunExecutor
<1>3. PICK i \in Executing(t) :
        \/ UNCHANGED executors
        \/ executors' = [executors EXCEPT ![t][i].stateTag = "Suspended"]
  BY DEF RunExecutor
<1>4. CASE UNCHANGED executors
  BY <1>2, <1>4, SamePhases, ServiceStutters
<1>5. CASE executors' = [executors EXCEPT ![t][i].stateTag = "Suspended"]
  <2>1. i \in DOMAIN executors[t] /\ executors[t] \in Seq(ExecutorStates)
    BY <1>1 DEF Executing, TypeOK
  <2>2. executors[t][i] \in ExecutorStates
    BY <2>1, ElementOfSeq, LenProperties
  <2>3. PICK e \in ExecutorIDs : e = executors[t][i].execId
    BY <2>2 DEF ExecutorStates
  <2>4. /\ DOMAIN executors'[t] = DOMAIN executors[t]
        /\ \A k \in DOMAIN executors[t] :
             /\ executors'[t][k].execId = executors[t][k].execId
             /\ executors'[t][k].stateTag =
                  IF k = i THEN "Suspended" ELSE executors[t][k].stateTag
    BY <1>1, <1>5, <2>1, SuspendedEntries
  <2>5. Runs(t, e) /\ e \notin deInitialised
    <3>1. Listed(t, e)
      BY <2>1, <2>3 DEF Listed
    <3> QED
      BY <1>3, <2>3, <3>1 DEF Runs, AccountInv, Account, ListedHere
  <2>6. PhaseOf(e) = "running"
    BY <2>5, PhaseHere
  <2>7. \A u \in ThreadIDs, x \in ExecutorIDs : u # t =>
          (Runs(u, x) <=> Runs(u, x)') /\ (Sleeps(u, x) <=> Sleeps(u, x)')
    BY <1>1, OthersRun DEF ThreadStep
  <2>8. Sleeps(t, e)' /\ ~Runs(t, e)'
    <3>1. i \in Suspended(t)' /\ executors'[t][i].execId = e
      BY <2>1, <2>3, <2>4 DEF Suspended
    <3>2. \A k \in DOMAIN executors[t] : executors[t][k].execId = e => k = i
      BY <1>1, <2>1, <2>3 DEF TableInv
    <3> QED
      BY <2>4, <3>1, <3>2 DEF Sleeps, Runs, Executing
  <2>9. \A u \in ThreadIDs : ~Runs(u, e)'
    <3>1. \A u \in ThreadIDs : u # t => ~Runs(u, e)
      <4>1. \A u \in ThreadIDs : Runs(u, e) => Listed(u, e)
        BY DEF Runs, Listed, Executing
      <4> QED
        BY <2>5, <4>1 DEF AccountInv, Account, ListedHere
    <3> QED
      BY <2>7, <2>8, <3>1
  <2>10. PhaseOf(e)' = "suspended"
    <3>1. PhaseOf(e)' =
            IF e \in deInitialised' THEN "ended"
            ELSE IF \E u \in ThreadIDs : Runs(u, e)' THEN "running"
            ELSE IF \E u \in ThreadIDs : Sleeps(u, e)' THEN "suspended"
            ELSE IF executorMap'[e] # NoThread THEN "accepted" ELSE "unknown"
      BY DEF PhaseOf, Runs, Sleeps
    <3> QED
      BY <1>2, <2>5, <2>8, <2>9, <3>1
  <2>11. \A x \in ExecutorIDs : x # e => PhaseOf(x)' = PhaseOf(x)
    <3>1. \A x \in ExecutorIDs : x # e =>
            (Runs(t, x) <=> Runs(t, x)') /\ (Sleeps(t, x) <=> Sleeps(t, x)')
      BY <2>3, <2>4 DEF Runs, Sleeps, Executing, Suspended
    <3> QED
      BY <1>2, <2>7, <3>1, SamePhase
  <2>12. Service!Suspend(e)
    BY <1>2, <2>6, <2>10, <2>11, ServiceMoves DEF Service!Suspend
  <2> QED
    BY <2>12 DEF Service!ServiceNext
<1> QED
  BY <1>3, <1>4, <1>5

\* Removing an executor ends it.
LEMMA RemoveServes ==
  ASSUME SteadyInv, SteadyInv', AccountInv, AccountInv', IndexesDoNotMislead,
         NEW t \in ThreadIDs, RemoveExecutor(t)
  PROVE  Service!ServiceNext \/ UNCHANGED Service!svcVars
<1> USE DEF managerVars, tableVars
<1>1. TypeOK /\ AddsInv
  BY DEF SteadyInv
<1>2. PICK e \in ExecutorIDs :
        /\ e = execsToRemove[t][cursor[t] + 1]
        /\ signalMap[t][e] \in DOMAIN executors[t] =>
             signalMap[t][e] \in Executing(t) /\ executors[t][signalMap[t][e]].execId = e
  BY <1>1, RemovalDue
<1>3. /\ UNCHANGED <<lockedShop, executorMap>>
      /\ IF signalMap[t][e] \in DOMAIN executors[t] THEN Unlist(t, e)
         ELSE UNCHANGED <<executors, deInitialised>>
  BY <1>2 DEF RemoveExecutor
<1>4. CASE signalMap[t][e] \notin DOMAIN executors[t]
  BY <1>3, <1>4, SamePhases, ServiceStutters
<1>5. CASE signalMap[t][e] \in DOMAIN executors[t]
  <2>1. Unlist(t, e)
    BY <1>3, <1>5
  <2>2. /\ \A i \in Executing(t) : executors[t][i].execId # e =>
             \E k \in Executing(t)' : executors'[t][k].execId = executors[t][i].execId
        /\ \A i \in Suspended(t) :
             \E k \in Suspended(t)' : executors'[t][k].execId = executors[t][i].execId
        /\ \A k \in DOMAIN executors'[t] :
             \E i \in DOMAIN executors[t] : executors'[t][k] = executors[t][i]
        /\ deInitialised' = deInitialised \cup {e}
    <3>1. signalMap[t][e] \in Executing(t) /\ executors[t][signalMap[t][e]].execId = e
      BY <1>2, <1>5
    <3> QED BY <1>1, <2>1, <3>1, RemovedEntries, Zenon
  <2>3. Runs(t, e)
    BY <1>2, <1>5 DEF Runs
  <2>4. PhaseOf(e) = "running" /\ PhaseOf(e)' = "ended"
    <3>1. PhaseOf(e)' = "ended"
      BY <2>2 DEF PhaseOf
    <3> QED
      BY <2>3, <3>1, PhaseHere
  <2>5. \A x \in ExecutorIDs : x # e => PhaseOf(x)' = PhaseOf(x)
    <3>1. \A x \in ExecutorIDs : x # e =>
            (Runs(t, x) <=> Runs(t, x)') /\ (Sleeps(t, x) <=> Sleeps(t, x)')
      <4>1. \A x \in ExecutorIDs : x # e =>
              (Runs(t, x) => Runs(t, x)') /\ (Sleeps(t, x) => Sleeps(t, x)')
        BY <2>2 DEF Runs, Sleeps
      <4>2. \A x \in ExecutorIDs :
              (Runs(t, x)' => Runs(t, x)) /\ (Sleeps(t, x)' => Sleeps(t, x))
        BY <2>2 DEF Runs, Sleeps, Executing, Suspended
      <4> QED
        BY <4>1, <4>2
    <3>2. \A u \in ThreadIDs, x \in ExecutorIDs : u # t =>
            (Runs(u, x) <=> Runs(u, x)') /\ (Sleeps(u, x) <=> Sleeps(u, x)')
      BY <1>1, OthersRun DEF ThreadStep
    <3> QED
      BY <1>3, <2>2, <3>1, <3>2, SamePhase
  <2>6. Service!End(e)
    BY <1>3, <2>4, <2>5, ServiceMoves DEF Service!End
  <2> QED
    BY <2>6 DEF Service!ServiceNext
<1> QED
  BY <1>4, <1>5

\* The manager forgets only executors that ended.
LEMMA UnmapServes ==
  ASSUME SteadyInv, AccountInv, NEW t \in ThreadIDs, RemoveExecutors(t)
  PROVE  UNCHANGED Service!svcVars
<1> USE DEF tableVars, objectVars
<1>1. /\ ~crashed /\ pc[t] = "remove" /\ cursor[t] = Len(execsToRemove[t])
      /\ executorMap' = WithoutExecutors(t)
      /\ UNCHANGED <<lockedShop, executors, deInitialised>>
  BY DEF RemoveExecutors, At, Alive
<1>2. \A j \in DOMAIN execsToRemove[t] : execsToRemove[t][j] \in deInitialised
  <2>1. \A j \in DOMAIN execsToRemove[t] : ~(j > cursor[t])
    <3>1. execsToRemove[t] \in Seq(ExecutorIDs)
      BY DEF SteadyInv, TypeOK
    <3> QED
      BY <1>1, <3>1, LenProperties
  <2> QED
    BY <1>1, <2>1 DEF AccountInv, Account, RemovalsDue
<1>3. \A e \in ExecutorIDs :
        executorMap'[e] = executorMap[e] \/ e \in deInitialised
  BY <1>1, <1>2 DEF WithoutExecutors
<1>4. \A u \in ThreadIDs, e \in ExecutorIDs :
        (Runs(u, e) <=> Runs(u, e)') /\ (Sleeps(u, e) <=> Sleeps(u, e)')
  BY <1>1 DEF Runs, Sleeps, Executing, Suspended
<1>5. \A e \in ExecutorIDs : PhaseOf(e)' = PhaseOf(e)
  BY <1>1, <1>3, <1>4, SamePhase
<1> QED
  BY <1>1, <1>5, ServiceStutters

\* A message begins an executor or wakes some, or nothing happens.
LEMMA HandleServes ==
  ASSUME SteadyInv, SteadyInv', AccountInv, AccountInv',
         NEW t \in ThreadIDs, HandleInstruction(t)
  PROVE  Service!ServiceNext \/ UNCHANGED Service!svcVars
<1> USE DEF managerVars, tableVars, objectVars
<1>1. TypeOK /\ AddsInv /\ ThreadStep(t)
  BY DEF SteadyInv, ThreadStep
<1> DEFINE list == localInstructionList[t]
<1>2. PICK i \in DOMAIN list :
        \/ /\ list[i].execId \in ExecutorIDs /\ list[i] = AddMessage(list[i].execId)
           /\ AddLocal(t, list[i].execId)
        \/ /\ \E S \in SUBSET DOMAIN executors[t] :
                SignalIndexes(t, S, list[i].signalType)
           /\ UNCHANGED deInitialised
        \/ UNCHANGED <<executors, deInitialised>>
  BY <1>1, MessageHandled
<1>3. UNCHANGED <<lockedShop, executorMap>>
  BY DEF HandleInstruction
<1>4. CASE UNCHANGED <<executors, deInitialised>>
  BY <1>3, <1>4, SamePhases, ServiceStutters
<1>5. CASE /\ list[i].execId \in ExecutorIDs /\ list[i] = AddMessage(list[i].execId)
           /\ AddLocal(t, list[i].execId)
  <2>1. PICK e \in ExecutorIDs :
          /\ list[i] = AddMessage(e)
          /\ Began(t, e) \/ UNCHANGED <<executors, deInitialised>>
    BY <1>5 DEF AddLocal, Began
  <2>2. executorMap[e] = t /\ e \notin initialised
    BY <1>1, <2>1 DEF AddsInv, PendingInv, Pending, TakenAdd
  <2>3. CASE Began(t, e)
    BY <1>1, <1>3, <2>2, <2>3, BeginServes
  <2> QED
    BY <1>4, <2>1, <2>3
<1>6. CASE /\ \E S \in SUBSET DOMAIN executors[t] :
                SignalIndexes(t, S, list[i].signalType)
           /\ UNCHANGED deInitialised
  BY <1>1, <1>3, <1>6, SignalServes
<1> QED
  BY <1>2, <1>4, <1>5, <1>6

\* So does the first executor of a thread begin, if its Init succeeds.
LEMMA StartServes ==
  ASSUME SteadyInv, SteadyInv', AccountInv, AccountInv', NEW t \in ThreadIDs, Start(t)
  PROVE  Service!ServiceNext \/ UNCHANGED Service!svcVars
<1> USE DEF managerVars, tableVars, objectVars
<1>1. TypeOK /\ AddsInv /\ ThreadStep(t)
  BY DEF SteadyInv, ThreadStep
<1>2. firstExec[t] \in ExecutorIDs
  BY <1>1 DEF TypeOK
<1>3. PICK e \in ExecutorIDs :
        /\ pc[t] = "start" /\ firstExec[t] = e
        /\ Began(t, e) \/ UNCHANGED <<executors, deInitialised>>
  BY <1>2 DEF Start, At, AddLocal, Began
<1>4. UNCHANGED <<lockedShop, executorMap>>
  BY DEF Start
<1>5. executorMap[e] = t /\ e \notin initialised
  BY <1>1, <1>3 DEF AddsInv, PendingInv, Pending
<1>6. CASE Began(t, e)
  BY <1>1, <1>4, <1>5, <1>6, BeginServes
<1>7. CASE UNCHANGED <<executors, deInitialised>>
  BY <1>4, <1>7, SamePhases, ServiceStutters
<1> QED
  BY <1>3, <1>6, <1>7

\* Every step of the manager is a step of the service, or none.
LEMMA StepServes ==
  ASSUME SteadyInv, SteadyInv', AccountInv, AccountInv', IndexesDoNotMislead, [Next]_vars
  PROVE  Service!ServiceNext \/ UNCHANGED Service!svcVars
<1> USE DEF managerVars, identityVars, mailboxVars, loopVars, tableVars, objectVars,
            processVars
<1>1. lockedShop \in BOOLEAN
  BY DEF SteadyInv, TypeOK
\* The shop stays as it is or closes, and nothing happens to the executors.
<1>2. ASSUME lockedShop' = TRUE \/ lockedShop' = lockedShop,
             UNCHANGED <<executors, deInitialised, executorMap>>
      PROVE  Service!ServiceNext \/ UNCHANGED Service!svcVars
  <2>1. \A e \in ExecutorIDs : PhaseOf(e)' = PhaseOf(e)
    BY <1>2, SamePhases
  <2>2. CASE lockedShop' = lockedShop
    BY <2>1, <2>2, ServiceStutters
  <2>3. CASE lockedShop' = TRUE
    <3>1. Service!Close
      BY <2>1, <2>3 DEF Service!Close
    <3> QED
      BY <3>1 DEF Service!ServiceNext
  <2> QED
    BY <1>2, <2>2, <2>3
<1>3. ASSUME NEW t \in ThreadIDs, ThreadStep(t)
      PROVE  Service!ServiceNext \/ UNCHANGED Service!svcVars
  <2>1. CASE Start(t) \/ HandleInstruction(t)
    BY <2>1, StartServes, HandleServes
  <2>2. ASSUME NEW outcome \in ExecutionStates, RunExecutor(t, outcome)
        PROVE  Service!ServiceNext \/ UNCHANGED Service!svcVars
    BY <2>2, RunServes
  <2>3. CASE RemoveExecutor(t)
    BY <2>3, RemoveServes
  <2>4. CASE RemoveExecutors(t)
    BY <2>4, UnmapServes
  <2>5. CASE TakeInstructions(t) \/ EndRound(t) \/ GoIdle(t) \/ WakeUp(t)
    BY <1>2, <2>5 DEF TakeInstructions, EndRound, GoIdle, WakeUp
  <2>6. CASE RemoveThread(t)
    <3>1. UNCHANGED <<executors, deInitialised, executorMap>>
      BY <2>6 DEF RemoveThread
    <3>2. lockedShop' = TRUE \/ lockedShop' = lockedShop
      BY <1>1, <2>6 DEF RemoveThread, IsLastThread
    <3> QED
      BY <1>2, <3>1, <3>2
  <2> QED
    BY <1>3, <2>1, <2>2, <2>3, <2>4, <2>5, <2>6 DEF ThreadStep
<1>4. ASSUME NEW n \in Names, NEW single \in BOOLEAN, AddExecutor(n, single)
      PROVE  Service!ServiceNext \/ UNCHANGED Service!svcVars
  BY <1>4, AddServes
<1>5. CASE \/ \E n \in Names : DoomThread(n)
           \/ \E e \in ExecutorIDs, type \in ClientSignals : SignalExecutor(e, type)
           \/ \E sendTermination \in BOOLEAN : LockShop(sendTermination)
           \/ RunLoopReturn \/ Destroy \/ UNCHANGED vars
  <2>1. /\ lockedShop' = TRUE \/ lockedShop' = lockedShop
        /\ UNCHANGED <<executors, deInitialised, executorMap>>
    BY <1>5 DEF DoomThread, SignalExecutor, LockShop, Crash, RunLoopReturn, Destroy, vars
  <2> QED
    BY <1>2, <2>1
<1> QED
  BY <1>3, <1>4, <1>5 DEF Next, Clients

\* At first the shop is open and nobody is known.
LEMMA InitServes ==
  Init => Service!ServiceInit
<1> SUFFICES ASSUME Init PROVE Service!ServiceInit
  OBVIOUS
<1>1. ASSUME NEW e \in ExecutorIDs
      PROVE  PhaseOf(e) = "unknown"
  BY DEF Init, PhaseOf, Executing, Suspended
<1> QED
  BY <1>1 DEF Init, Service!ServiceInit

\* While no index misleads, the manager with its threads implements the
\* service: what runs was accepted before the shop closed, begins once and
\* never comes back after its end.
THEOREM ServiceImplemented ==
  Spec /\ []IndexesDoNotMislead => ImplementsService
<1>1. SteadyInv /\ SteadyInv' /\ AccountInv /\ IndexesDoNotMislead /\ [Next]_vars
        => AccountInv'
  BY StepAccount
<1>2. SteadyInv /\ SteadyInv' /\ AccountInv /\ AccountInv' /\ IndexesDoNotMislead
        /\ [Next]_vars
        => [Service!ServiceNext]_(Service!svcVars)
  BY StepServes
<1> QED
  BY <1>1, <1>2, InitAccount, InitServes, SteadyCorrect, PTL
  DEF Spec, ImplementsService, Service!ServiceSpec

\* So it does while clients keep at most one executor on a thread.
COROLLARY SingleServiceImplemented ==
  ASSUME MaxPerThread = 1
  PROVE  Spec => ImplementsService
BY SingleIndexesCorrect, IndexesFollowed, ServiceImplemented, PTL
=============================================================================
