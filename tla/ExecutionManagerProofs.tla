----------------------- MODULE ExecutionManagerProofs -----------------------
(***************************************************************************)
(* What ExecutionManager promises for every number of threads, names,      *)
(* executors and instructions: the types of its variables, that it owns or *)
(* has handed over every thread, that its names lead to threads, that      *)
(* every thread of a locked shop is doomed, that locking is final, and     *)
(* that RunLoop leaves only joinable threads; and of its executors, that   *)
(* none that was accepted is lost with a thread that leaves, that a table  *)
(* lists an executor once, and that a batch of removals names each         *)
(* executor once.                                                          *)
(***************************************************************************)
EXTENDS ExecutionManager, SequenceTheorems, FiniteSetTheorems, TLAPS

-----------------------------------------------------------------------------
(* Lemmas about the operators                                              *)

\* Unsigned arithmetic stays in the range of the type.
LEMMA PlusType ==
  ASSUME NEW n \in Nat, NEW k \in Nat
  PROVE  Plus(n, k) \in 0 .. UINT_RANGE - 1
<1>1. UINT_RANGE \in Nat /\ UINT_RANGE > 0
  BY ConstantsAssumption
<1>2. n + k \in Nat
  OBVIOUS
<1>3. (n + k) % UINT_RANGE \in 0 .. UINT_RANGE - 1
  BY <1>1, <1>2
<1> QED
  BY <1>3 DEF Plus

\* So does a decrement, which wraps around at zero.
LEMMA MinusType ==
  ASSUME NEW n \in Nat, NEW k \in Nat, k <= UINT_RANGE
  PROVE  Minus(n, k) \in 0 .. UINT_RANGE - 1
<1>1. UINT_RANGE \in Nat /\ UINT_RANGE > 0
  BY ConstantsAssumption
<1>2. n + UINT_RANGE - k \in Nat
  BY <1>1
<1>3. (n + UINT_RANGE - k) % UINT_RANGE \in 0 .. UINT_RANGE - 1
  BY <1>1, <1>2
<1> QED
  BY <1>3 DEF Minus

\* A list from which one item was taken is a list of the same type.
LEMMA WithoutItem ==
  ASSUME NEW S, NEW s \in Seq(S), NEW i \in DOMAIN s
  PROVE  SubSeq(s, 1, i - 1) \o SubSeq(s, i + 1, Len(s)) \in Seq(S)
<1>1. Len(s) \in Nat /\ DOMAIN s = 1 .. Len(s)
  BY LenProperties
<1>2. \A j \in 1 .. Len(s) : s[j] \in S
  BY ElementOfSeq
<1>3. SubSeq(s, 1, i - 1) \in Seq(S)
  <2>1. \A j \in 1 .. i - 1 : s[j] \in S
    BY <1>1, <1>2
  <2> QED
    BY <1>1, <2>1, SubSeqProperties
<1>4. SubSeq(s, i + 1, Len(s)) \in Seq(S)
  <2>1. \A j \in i + 1 .. Len(s) : s[j] \in S
    BY <1>1, <1>2
  <2> QED
    BY <1>1, <2>1, SubSeqProperties
<1> QED
  BY <1>3, <1>4, ConcatProperties

\* What a thread does to its executor table keeps the table's types.
LEMMA AddLocalType ==
  ASSUME TypeOK, NEW t \in ThreadIDs, NEW e \in ExecutorIDs, AddLocal(t, e)
  PROVE  /\ executors' \in [ThreadIDs -> Seq(ExecutorStates)]
         /\ signalMap' \in [ThreadIDs -> [ExecutorIDs -> Nat]]
         /\ nActive' \in [ThreadIDs -> 0 .. UINT_RANGE - 1]
         /\ initialised' \subseteq ExecutorIDs
         /\ deInitialised' = deInitialised /\ termRequested' = termRequested
<1>1. CASE UNCHANGED <<tableVars, objectVars>>
  BY <1>1 DEF TypeOK, tableVars, objectVars
<1>2. CASE
    /\ executors' =
          [executors EXCEPT ![t] = Append(@, [execId |-> e, stateTag |-> "Executing"])]
    /\ signalMap' =
          [signalMap EXCEPT ![t][e] = IF @ = 0 THEN Len(executors[t]) + 1 ELSE @]
    /\ nActive' = [nActive EXCEPT ![t] = Plus(@, 1)]
    /\ initialised' = initialised \cup {e}
    /\ UNCHANGED <<deInitialised, termRequested>>
  <2>1. [execId |-> e, stateTag |-> "Executing"] \in ExecutorStates
    BY DEF ExecutorStates, ExecutorStateTags
  <2>2. executors[t] \in Seq(ExecutorStates)
    BY DEF TypeOK
  <2>3. executors' \in [ThreadIDs -> Seq(ExecutorStates)]
    BY <1>2, <2>1, <2>2 DEF TypeOK
  <2>4. Len(executors[t]) \in Nat
    BY <2>2
  <2>5. signalMap' \in [ThreadIDs -> [ExecutorIDs -> Nat]]
    BY <1>2, <2>4 DEF TypeOK
  <2>6. Plus(nActive[t], 1) \in 0 .. UINT_RANGE - 1
    <3>1. nActive[t] \in Nat
      BY ConstantsAssumption DEF TypeOK
    <3> QED
      BY <3>1, PlusType
  <2>7. nActive' \in [ThreadIDs -> 0 .. UINT_RANGE - 1]
    BY <1>2, <2>6 DEF TypeOK
  <2> QED
    BY <1>2, <2>3, <2>5, <2>7 DEF TypeOK
<1> QED
  BY <1>1, <1>2 DEF AddLocal

\* Signals to any set of entries keep the table's types.
LEMMA SignalIndexesType ==
  ASSUME TypeOK, NEW t \in ThreadIDs, NEW S \in SUBSET DOMAIN executors[t],
         NEW type, SignalIndexes(t, S, type)
  PROVE  /\ executors' \in [ThreadIDs -> Seq(ExecutorStates)]
         /\ nActive' \in [ThreadIDs -> 0 .. UINT_RANGE - 1]
         /\ termRequested' \subseteq ExecutorIDs
<1> DEFINE table == executors[t]
           signalled(i) == IF i \in S THEN [table[i] EXCEPT !.stateTag = "Executing"]
                                      ELSE table[i]
           new == [i \in DOMAIN table |-> signalled(i)]
<1>1. table \in Seq(ExecutorStates) /\ DOMAIN table = 1 .. Len(table) /\ Len(table) \in Nat
  BY LenProperties DEF TypeOK
<1>2. \A i \in DOMAIN table : table[i] \in ExecutorStates
  BY <1>1, ElementOfSeq
<1>3. \A i \in DOMAIN table : signalled(i) \in ExecutorStates
  BY <1>2 DEF ExecutorStates, ExecutorStateTags
<1>4. new \in Seq(ExecutorStates)
  <2>1. new \in [1 .. Len(table) -> ExecutorStates]
    BY <1>1, <1>3
  <2> HIDE DEF new
  <2> QED
    BY <1>1, <2>1, SeqDef
<1>5. executors' = [executors EXCEPT ![t] = new]
  BY DEF SignalIndexes
<1>6. executors' \in [ThreadIDs -> Seq(ExecutorStates)]
  <2> HIDE DEF new
  <2> QED
    BY <1>4, <1>5 DEF TypeOK
<1>7. Cardinality(S \cap Suspended(t)) \in Nat
  <2>1. IsFiniteSet(DOMAIN table)
    BY <1>1, FS_Interval
  <2>2. IsFiniteSet(S \cap Suspended(t))
    BY <2>1, FS_Subset
  <2> QED
    BY <2>2, FS_CardinalityType
<1>8. nActive' \in [ThreadIDs -> 0 .. UINT_RANGE - 1]
  <2>1. nActive[t] \in Nat
    BY ConstantsAssumption DEF TypeOK
  <2>2. Plus(nActive[t], WokenCount(t, S)) \in 0 .. UINT_RANGE - 1
    BY <1>7, <2>1, PlusType DEF WokenCount
  <2>3. nActive' = [nActive EXCEPT ![t] = Plus(nActive[t], WokenCount(t, S))]
    BY DEF SignalIndexes
  <2> QED
    BY <2>2, <2>3 DEF TypeOK
<1>9. termRequested' \subseteq ExecutorIDs
  <2>1. {table[i].execId : i \in S} \subseteq ExecutorIDs
    BY <1>2 DEF ExecutorStates
  <2> QED
    BY <2>1 DEF SignalIndexes, TypeOK
<1> QED
  BY <1>6, <1>8, <1>9

\* So does the swap with the last entry and the drop of that entry.
LEMMA UnlistType ==
  ASSUME TypeOK, NEW t \in ThreadIDs, NEW e \in ExecutorIDs,
         signalMap[t][e] \in DOMAIN executors[t], Unlist(t, e)
  PROVE  /\ executors' \in [ThreadIDs -> Seq(ExecutorStates)]
         /\ signalMap' \in [ThreadIDs -> [ExecutorIDs -> Nat]]
         /\ nActive' \in [ThreadIDs -> 0 .. UINT_RANGE - 1]
         /\ deInitialised' \subseteq ExecutorIDs
<1> DEFINE table == executors[t]
           at == signalMap[t][e]
           last == Len(table)
           moved == [table EXCEPT ![at] = table[last]]
           new == SubSeq(moved, 1, last - 1)
<1>1. table \in Seq(ExecutorStates) /\ DOMAIN table = 1 .. last /\ last \in Nat
  BY LenProperties DEF TypeOK
<1>2. at \in 1 .. last /\ last \in 1 .. last
  BY <1>1
<1>3. table[at] \in ExecutorStates /\ table[last] \in ExecutorStates
  BY <1>1, <1>2, ElementOfSeq
<1>4. new \in Seq(ExecutorStates)
  <2>1. moved \in Seq(ExecutorStates) /\ Len(moved) = last
    BY <1>1, <1>2, <1>3, ExceptSeq
  <2>2. \A i \in 1 .. last - 1 : moved[i] \in ExecutorStates
    <3> HIDE DEF moved
    <3> QED
      BY <1>1, <2>1, ElementOfSeq
  <2> HIDE DEF moved
  <2> QED
    BY <1>1, <2>2, SubSeqProperties
<1>5. executors' = [executors EXCEPT ![t] = new]
  BY DEF Unlist
<1>6. executors' \in [ThreadIDs -> Seq(ExecutorStates)]
  <2> HIDE DEF new
  <2> QED
    BY <1>4, <1>5 DEF TypeOK
<1>7. signalMap' \in [ThreadIDs -> [ExecutorIDs -> Nat]]
  <2> DEFINE index == [x \in ExecutorIDs |->
                         IF x = e THEN 0
                         ELSE IF at # last /\ x = table[at].execId THEN at
                         ELSE signalMap[t][x]]
  <2>1. index \in [ExecutorIDs -> Nat]
    BY <1>1, <1>2 DEF TypeOK
  <2>2. signalMap' = [signalMap EXCEPT ![t] = index]
    BY DEF Unlist
  <2> HIDE DEF index
  <2> QED
    BY <2>1, <2>2 DEF TypeOK
<1>8. nActive' \in [ThreadIDs -> 0 .. UINT_RANGE - 1]
  <2>1. nActive[t] \in Nat /\ 1 <= UINT_RANGE
    BY ConstantsAssumption DEF TypeOK
  <2>2. Minus(nActive[t], 1) \in 0 .. UINT_RANGE - 1
    BY <2>1, MinusType
  <2>3. nActive' = [nActive EXCEPT ![t] = Minus(nActive[t], 1)]
    BY DEF Unlist
  <2> QED
    BY <2>2, <2>3 DEF TypeOK
<1>9. deInitialised' \subseteq ExecutorIDs
  BY <1>3 DEF Unlist, TypeOK, ExecutorStates
<1> QED
  BY <1>6, <1>7, <1>8, <1>9

-----------------------------------------------------------------------------
(* The types of the variables                                              *)

\* A message posted to a thread is an instruction, and so is what is left of
\* a list when one is handled.
LEMMA PostType ==
  ASSUME TypeOK, NEW t \in ThreadIDs, NEW msg \in Instructions, Post(t, msg)
  PROVE  instructionList' \in [ThreadIDs -> Seq(Instructions)]
<1>1. Append(instructionList[t], msg) \in Seq(Instructions)
  BY DEF TypeOK
<1> QED
  BY <1>1 DEF Post, TypeOK

\* AddExecutor keeps the types: a name leads to a thread, and an ID below the
\* reserved one is left for the new executor.
LEMMA AddExecutorType ==
  ASSUME TypeOK, NEW name \in Names, NEW single \in BOOLEAN, AddExecutor(name, single)
  PROVE  TypeOK'
<1>1. nextExec \in ExecutorIDs /\ nextExec' \in 0 .. EXEC_WILDCARD - 1
  BY ConstantsAssumption DEF AddExecutor, IdsLeft, TypeOK, ExecutorIDs
<1>2. /\ nextThread' \in 0 .. MaxThreads
      /\ threadNameMap' \in [Names -> ThreadIDs \cup {NoThread}]
      /\ threadMap' \subseteq ThreadIDs
      /\ executorMap' \in [ExecutorIDs -> ThreadIDs \cup {NoThread}]
      /\ threadName' \in [ThreadIDs -> Names]
      /\ isSingleton' \in [ThreadIDs -> BOOLEAN]
      /\ firstExec' \in [ThreadIDs -> ExecutorIDs]
      /\ instructionList' \in [ThreadIDs -> Seq(Instructions)]
      /\ pc' \in [ThreadIDs -> {"none", "start", "top", "round", "remove", "idle", "waiting", "exit", "done"}]
  <2>1. CASE AddToThread(name)
    <3>1. threadNameMap[name] \in ThreadIDs
      BY <2>1 DEF AddToThread, TypeOK
    <3>2. AddMessage(nextExec) \in Instructions
      BY <1>1 DEF AddMessage, Instructions
    <3>3. instructionList' \in [ThreadIDs -> Seq(Instructions)]
      BY <2>1, <3>1, <3>2, PostType DEF AddToThread
    <3> QED
      BY <1>1, <2>1, <3>1, <3>3 DEF AddToThread, TypeOK, identityVars
  <2>2. CASE RejectSingleton(name, single)
    BY <2>2 DEF RejectSingleton, TypeOK, identityVars
  <2>3. CASE StartThread(name, single)
    <3>1. nextThread \in ThreadIDs /\ nextThread + 1 \in 0 .. MaxThreads
      BY <2>3, ConstantsAssumption DEF StartThread, TypeOK, ThreadIDs
    <3> QED
      BY <1>1, <2>3, <3>1 DEF StartThread, TypeOK
  <2> QED
    BY <2>1, <2>2, <2>3 DEF AddExecutor
<1> QED
  BY <1>1, <1>2 DEF AddExecutor, TypeOK, tableVars, objectVars, processVars

\* The other operations of the manager keep the types.
LEMMA ManagerType ==
  ASSUME TypeOK,
         \/ \E n \in Names : DoomThread(n)
         \/ \E e \in ExecutorIDs, type \in ClientSignals : SignalExecutor(e, type)
         \/ \E sendTermination \in BOOLEAN : LockShop(sendTermination)
         \/ RunLoopReturn
         \/ Destroy
  PROVE  TypeOK'
<1> USE DEF managerVars, identityVars, mailboxVars, loopVars, tableVars,
            objectVars, processVars
<1>1. ASSUME NEW n \in Names, DoomThread(n)
      PROVE  TypeOK'
  BY <1>1 DEF DoomThread, TypeOK
<1>2. ASSUME NEW e \in ExecutorIDs, NEW type \in ClientSignals, SignalExecutor(e, type)
      PROVE  TypeOK'
  <2> DEFINE t == executorMap[e]
  <2>1. t \in ThreadIDs
    BY <1>2 DEF SignalExecutor, TypeOK
  <2>2. CASE t \notin threadMap /\ Crash
    BY <2>2 DEF Crash, TypeOK
  <2>3. CASE Post(t, SignalMessage(e, type)) /\ crashed' = crashed
    <3>1. SignalMessage(e, type) \in Instructions
      BY ConstantsAssumption DEF SignalMessage, Instructions
    <3>2. instructionList' \in [ThreadIDs -> Seq(Instructions)]
      BY <2>1, <2>3, <3>1, PostType
    <3> QED
      BY <1>2, <2>3, <3>2 DEF SignalExecutor, TypeOK, Crash
  <2> QED
    BY <1>2, <2>2, <2>3 DEF SignalExecutor
<1>3. ASSUME NEW sendTermination \in BOOLEAN, LockShop(sendTermination)
      PROVE  TypeOK'
  <2>1. SignalMessage(EXEC_WILDCARD, "RequestTermination") \in Instructions
    BY DEF SignalMessage, Instructions, ExecutorSignalTypes
  <2>2. \A t \in ThreadIDs :
          Append(instructionList[t], SignalMessage(EXEC_WILDCARD, "RequestTermination"))
            \in Seq(Instructions)
    BY <2>1 DEF TypeOK
  <2>3. instructionList' \in [ThreadIDs -> Seq(Instructions)]
    BY <1>3, <2>2 DEF LockShop, TypeOK
  <2>4. isDoomed' \in [ThreadIDs -> BOOLEAN]
    BY <1>3 DEF LockShop, DoomAll, TypeOK
  <2>5. lockCalls' \in 0 .. MaxLockCalls
    BY <1>3, ConstantsAssumption DEF LockShop, TypeOK
  <2> QED
    BY <1>3, <2>3, <2>4, <2>5 DEF LockShop, TypeOK
<1>4. ASSUME RunLoopReturn
      PROVE  TypeOK'
  BY <1>4 DEF RunLoopReturn, TypeOK
<1>5. ASSUME Destroy
      PROVE  TypeOK'
  BY <1>5 DEF Destroy, TypeOK
<1> QED
  BY <1>1, <1>2, <1>3, <1>4, <1>5

\* Handling one instruction keeps the types.
LEMMA HandleInstructionType ==
  ASSUME TypeOK, NEW t \in ThreadIDs, HandleInstruction(t)
  PROVE  TypeOK'
<1> DEFINE list == localInstructionList[t]
<1>1. list \in Seq(Instructions)
  BY DEF TypeOK
<1>2. PICK i \in DOMAIN list :
        /\ \/ /\ list[i].instructionTag = "AddExecutor"
              /\ AddLocal(t, list[i].execId)
              /\ UNCHANGED crashed
           \/ /\ list[i].instructionTag = "SignalExecutor"
              /\ HandleExecutorSignal(t, list[i].execId, list[i].signalType)
              /\ UNCHANGED <<signalMap, initialised, deInitialised>>
        /\ localInstructionList' =
             [localInstructionList EXCEPT
                ![t] = SubSeq(list, 1, i - 1) \o SubSeq(list, i + 1, Len(list))]
  BY DEF HandleInstruction
<1>3. list[i] \in Instructions
  BY <1>1, <1>2, ElementOfSeq, LenProperties
<1>4. localInstructionList' \in [ThreadIDs -> Seq(Instructions)]
  <2> DEFINE rest == SubSeq(list, 1, i - 1) \o SubSeq(list, i + 1, Len(list))
  <2>1. rest \in Seq(Instructions)
    BY <1>1, WithoutItem
  <2>2. localInstructionList' = [localInstructionList EXCEPT ![t] = rest]
    BY <1>2
  <2> HIDE DEF rest
  <2> QED
    BY <2>1, <2>2 DEF TypeOK
<1>5. /\ executors' \in [ThreadIDs -> Seq(ExecutorStates)]
      /\ signalMap' \in [ThreadIDs -> [ExecutorIDs -> Nat]]
      /\ nActive' \in [ThreadIDs -> 0 .. UINT_RANGE - 1]
      /\ initialised' \subseteq ExecutorIDs
      /\ deInitialised' \subseteq ExecutorIDs
      /\ termRequested' \subseteq ExecutorIDs
      /\ crashed' \in BOOLEAN
  <2>1. CASE list[i].instructionTag = "AddExecutor" /\ AddLocal(t, list[i].execId)
             /\ UNCHANGED crashed
    <3>1. list[i].execId \in ExecutorIDs
      BY <1>3, <2>1 DEF Instructions
    <3> QED
      BY <2>1, <3>1, AddLocalType DEF TypeOK
  <2>2. CASE /\ HandleExecutorSignal(t, list[i].execId, list[i].signalType)
             /\ UNCHANGED <<signalMap, initialised, deInitialised>>
    <3> DEFINE at == signalMap[t][list[i].execId]
    <3>1. CASE SignalIndexes(t, DOMAIN executors[t], list[i].signalType)
               /\ UNCHANGED crashed
      BY <2>2, <3>1, SignalIndexesType DEF TypeOK
    <3>2. CASE at \in DOMAIN executors[t] /\ SignalIndexes(t, {at}, list[i].signalType)
               /\ UNCHANGED crashed
      <4>1. {at} \in SUBSET DOMAIN executors[t]
        BY <3>2
      <4> QED
        BY <2>2, <3>2, <4>1, SignalIndexesType DEF TypeOK
    <3>3. CASE UNCHANGED <<executors, nActive, termRequested>>
               /\ (crashed' = TRUE \/ UNCHANGED crashed)
      BY <2>2, <3>3 DEF TypeOK
    <3> QED
      BY <2>2, <3>1, <3>2, <3>3 DEF HandleExecutorSignal
  <2> QED
    BY <1>2, <2>1, <2>2
<1> QED
  BY <1>4, <1>5 DEF HandleInstruction, TypeOK, managerVars, identityVars, mailboxVars

\* Running an executor keeps the types.
LEMMA RunExecutorType ==
  ASSUME TypeOK, NEW t \in ThreadIDs, NEW outcome \in ExecutionStates,
         RunExecutor(t, outcome)
  PROVE  TypeOK'
<1>1. PICK i \in Executing(t) :
       /\ cursor' = [cursor EXCEPT ![t] = i]
       /\ \/ outcome = "Continue" /\ UNCHANGED <<executors, nActive, execsToRemove>>
          \/ /\ outcome = "Suspend"
             /\ executors' = [executors EXCEPT ![t][i].stateTag = "Suspended"]
             /\ nActive' = [nActive EXCEPT ![t] = Minus(@, 1)]
             /\ UNCHANGED execsToRemove
          \/ /\ outcome = "End"
             /\ execsToRemove' =
                  [execsToRemove EXCEPT ![t] = Append(@, executors[t][i].execId)]
             /\ UNCHANGED <<executors, nActive>>
  BY DEF RunExecutor
<1>2. executors[t] \in Seq(ExecutorStates)
  BY DEF TypeOK
<1>3. i \in 1 .. Len(executors[t]) /\ Len(executors[t]) \in Nat
  BY <1>1, <1>2, LenProperties DEF Executing
<1>4. executors[t][i] \in ExecutorStates
  BY <1>2, <1>3, ElementOfSeq
<1>5. executors' \in [ThreadIDs -> Seq(ExecutorStates)]
  <2>1. CASE outcome = "Suspend"
    <3> DEFINE entry == [executors[t][i] EXCEPT !.stateTag = "Suspended"]
               new == [executors[t] EXCEPT ![i] = entry]
    <3>1. entry \in ExecutorStates
      BY <1>4 DEF ExecutorStates, ExecutorStateTags
    <3>2. new \in Seq(ExecutorStates)
      <4> HIDE DEF entry
      <4> QED
        BY <1>2, <1>3, <3>1, ExceptSeq
    <3>3. executors' = [executors EXCEPT ![t] = new]
      BY <1>1, <2>1
    <3> HIDE DEF new
    <3> QED
      BY <3>2, <3>3 DEF TypeOK
  <2> QED
    BY <1>1, <2>1 DEF TypeOK
<1>6. nActive' \in [ThreadIDs -> 0 .. UINT_RANGE - 1]
  <2>1. nActive[t] \in Nat /\ 1 <= UINT_RANGE
    BY ConstantsAssumption DEF TypeOK
  <2>2. Minus(nActive[t], 1) \in 0 .. UINT_RANGE - 1
    BY <2>1, MinusType
  <2> QED
    BY <1>1, <2>2, ZenonT(60) DEF TypeOK
<1>7. execsToRemove' \in [ThreadIDs -> Seq(ExecutorIDs)]
  <2>1. executors[t][i].execId \in ExecutorIDs
    BY <1>4 DEF ExecutorStates
  <2>2. Append(execsToRemove[t], executors[t][i].execId) \in Seq(ExecutorIDs)
    BY <2>1 DEF TypeOK
  <2> QED
    BY <1>1, <2>2 DEF TypeOK
<1>8. cursor' \in [ThreadIDs -> Nat]
  BY <1>1, <1>3 DEF TypeOK
<1> QED
  BY <1>5, <1>6, <1>7, <1>8
  DEF RunExecutor, TypeOK, managerVars, identityVars, mailboxVars, objectVars, processVars

\* The removal of an executor keeps the types.
LEMMA RemoveExecutorType ==
  ASSUME TypeOK, NEW t \in ThreadIDs, RemoveExecutor(t)
  PROVE  TypeOK'
<1> DEFINE e == execsToRemove[t][cursor[t] + 1]
           at == signalMap[t][e]
<1>1. e \in ExecutorIDs
  <2>1. execsToRemove[t] \in Seq(ExecutorIDs) /\ cursor[t] \in Nat
    BY DEF TypeOK
  <2>2. cursor[t] + 1 \in 1 .. Len(execsToRemove[t])
    BY <2>1 DEF RemoveExecutor
  <2> QED
    BY <2>1, <2>2, ElementOfSeq
<1>2. cursor' \in [ThreadIDs -> Nat]
  BY SMTT(30) DEF RemoveExecutor, TypeOK
<1>3. UNCHANGED <<managerVars, identityVars, mailboxVars, pc, justWaited,
                 localInstructionList, execsToRemove, initialised,
                 termRequested, mainPc, lockCalls>>
  BY DEF RemoveExecutor
<1>4. CASE at \in DOMAIN executors[t]
  <2>1. Unlist(t, e) /\ UNCHANGED crashed
    BY <1>4 DEF RemoveExecutor
  <2>2. /\ executors' \in [ThreadIDs -> Seq(ExecutorStates)]
        /\ signalMap' \in [ThreadIDs -> [ExecutorIDs -> Nat]]
        /\ nActive' \in [ThreadIDs -> 0 .. UINT_RANGE - 1]
        /\ deInitialised' \subseteq ExecutorIDs
    BY <1>1, <1>4, <2>1, UnlistType
  <2> QED
    BY <1>2, <1>3, <2>1, <2>2 DEF TypeOK, managerVars, identityVars, mailboxVars
<1>5. CASE at \notin DOMAIN executors[t]
  <2>1. crashed' = (at # 0) /\ UNCHANGED <<tableVars, deInitialised>>
    BY <1>5 DEF RemoveExecutor
  <2>2. crashed' \in BOOLEAN
    BY <2>1
  <2> QED
    BY <1>2, <1>3, <2>1, <2>2
    DEF TypeOK, managerVars, identityVars, mailboxVars, tableVars
<1> QED
  BY <1>4, <1>5

\* The other steps of a thread keep the types.
LEMMA LoopType ==
  ASSUME TypeOK, NEW t \in ThreadIDs,
         \/ Start(t) \/ TakeInstructions(t) \/ EndRound(t) \/ RemoveExecutors(t)
         \/ GoIdle(t) \/ WakeUp(t) \/ RemoveThread(t)
  PROVE  TypeOK'
<1> USE DEF managerVars, identityVars, mailboxVars, loopVars, tableVars,
            objectVars, processVars
<1>1. ASSUME Start(t)
      PROVE  TypeOK'
  <2>1. AddLocal(t, firstExec[t]) /\ firstExec[t] \in ExecutorIDs
    BY <1>1 DEF Start, TypeOK
  <2> QED
    BY <1>1, <2>1, AddLocalType DEF Start, TypeOK
<1>2. ASSUME TakeInstructions(t)
      PROVE  TypeOK'
  <2>1. << >> \in Seq(Instructions) /\ instructionList[t] \in Seq(Instructions)
    BY DEF TypeOK
  <2> QED
    BY <1>2, <2>1 DEF TakeInstructions, TypeOK
<1>3. ASSUME EndRound(t)
      PROVE  TypeOK'
  BY <1>3 DEF EndRound, TypeOK
<1>4. ASSUME RemoveExecutors(t)
      PROVE  TypeOK'
  <2>1. << >> \in Seq(ExecutorIDs)
    OBVIOUS
  <2> QED
    BY <1>4, <2>1 DEF RemoveExecutors, WithoutExecutors, TypeOK
<1>5. ASSUME GoIdle(t)
      PROVE  TypeOK'
  BY <1>5 DEF GoIdle, TypeOK
<1>6. ASSUME WakeUp(t)
      PROVE  TypeOK'
  BY <1>6 DEF WakeUp, TypeOK
<1>7. ASSUME RemoveThread(t)
      PROVE  TypeOK'
  BY <1>7 DEF RemoveThread, NameErased, HandedOver, IsLastThread, TypeOK
<1> QED
  BY <1>1, <1>2, <1>3, <1>4, <1>5, <1>6, <1>7

\* Every variable of the execution manager keeps its type, whatever the
\* threads, the executors and the instructions.
THEOREM TypeCorrect == Spec => []TypeOK
<1>1. Init => TypeOK
  <2> SUFFICES ASSUME Init PROVE TypeOK
    OBVIOUS
  <2>1. (CHOOSE n \in Names : TRUE) \in Names
    BY ConstantsAssumption
  <2>2. 0 \in ExecutorIDs /\ 0 \in 0 .. UINT_RANGE - 1 /\ 0 \in 0 .. EXEC_WILDCARD - 1
    BY ConstantsAssumption DEF ExecutorIDs
  <2>3. 0 \in 0 .. MaxThreads /\ 0 \in 0 .. MaxLockCalls
    BY ConstantsAssumption
  <2>4. threadName \in [ThreadIDs -> Names]
    BY <2>1 DEF Init
  <2>5. /\ instructionList \in [ThreadIDs -> Seq(Instructions)]
        /\ localInstructionList \in [ThreadIDs -> Seq(Instructions)]
        /\ execsToRemove \in [ThreadIDs -> Seq(ExecutorIDs)]
        /\ executors \in [ThreadIDs -> Seq(ExecutorStates)]
    BY DEF Init
  <2>6. signalMap \in [ThreadIDs -> [ExecutorIDs -> Nat]]
    BY DEF Init
  <2>7. /\ firstExec \in [ThreadIDs -> ExecutorIDs]
        /\ nActive \in [ThreadIDs -> 0 .. UINT_RANGE - 1]
        /\ nextThread \in 0 .. MaxThreads /\ nextExec \in 0 .. EXEC_WILDCARD - 1
        /\ lockCalls \in 0 .. MaxLockCalls
    BY <2>2, <2>3 DEF Init
  <2>8. /\ threadNameMap \in [Names -> ThreadIDs \cup {NoThread}]
        /\ executorMap \in [ExecutorIDs -> ThreadIDs \cup {NoThread}]
        /\ pc \in [ThreadIDs -> {"none", "start", "top", "round", "remove", "idle",
                               "waiting", "exit", "done"}]
        /\ cursor \in [ThreadIDs -> Nat]
    BY DEF Init
  <2>9. /\ isSingleton \in [ThreadIDs -> BOOLEAN]
        /\ isDoomed \in [ThreadIDs -> BOOLEAN]
        /\ newInstructions \in [ThreadIDs -> BOOLEAN]
        /\ justWaited \in [ThreadIDs -> BOOLEAN]
        /\ lockedShop \in BOOLEAN /\ crashed \in BOOLEAN
        /\ mainPc \in {"loop", "returned", "aborted", "destroyed"}
    BY DEF Init
  <2>10. /\ threadMap \subseteq ThreadIDs /\ threadsToJoin \subseteq ThreadIDs
         /\ initialised \subseteq ExecutorIDs /\ deInitialised \subseteq ExecutorIDs
         /\ termRequested \subseteq ExecutorIDs
    BY DEF Init
  <2> QED
    BY <2>4, <2>5, <2>6, <2>7, <2>8, <2>9, <2>10 DEF TypeOK
<1>2. TypeOK /\ [Next]_vars => TypeOK'
  <2> SUFFICES ASSUME TypeOK, [Next]_vars PROVE TypeOK'
    OBVIOUS
  <2>1. CASE UNCHANGED vars
    BY <2>1 DEF TypeOK, vars, managerVars, identityVars, mailboxVars, loopVars,
                tableVars, objectVars, processVars
  <2>2. CASE Clients
    BY <2>2, AddExecutorType, ManagerType DEF Clients
  <2>3. ASSUME NEW t \in ThreadIDs, ThreadStep(t)
        PROVE  TypeOK'
    BY <2>3, HandleInstructionType, RunExecutorType, RemoveExecutorType, LoopType
    DEF ThreadStep
  <2>4. CASE RunLoopReturn \/ Destroy
    BY <2>4, ManagerType
  <2> QED
    BY <2>1, <2>2, <2>3, <2>4 DEF Next
<1> QED
  BY <1>1, <1>2, PTL DEF Spec

-----------------------------------------------------------------------------
(* Who owns which thread                                                   *)

\* What the properties of ownership are about, besides pc.
ownership == <<lockedShop, nextThread, threadNameMap, threadMap, threadsToJoin,
               threadName, isDoomed, mainPc>>

LiveLabels == {"start", "top", "round", "remove", "idle", "waiting", "exit"}

\* Most steps leave all of it alone: at most a thread that runs goes on running.
QuietStep ==
  /\ UNCHANGED ownership
  /\ \/ UNCHANGED pc
     \/ \E t \in ThreadIDs, label \in LiveLabels :
          pc[t] \in LiveLabels /\ pc' = [pc EXCEPT ![t] = label]

\* The steps that do not.
OwnershipStep ==
  \/ \E n \in Names, single \in BOOLEAN :
       /\ StartThread(n, single) /\ ~lockedShop
       /\ UNCHANGED <<lockedShop, threadsToJoin, isDoomed, mainPc>>
  \/ \E n \in Names : DoomThread(n)
  \/ \E sendTermination \in BOOLEAN : LockShop(sendTermination)
  \/ \E t \in ThreadIDs : RemoveThread(t)
  \/ RunLoopReturn
  \/ Destroy

\* Every step is of one of the two kinds.
LEMMA StepKinds ==
  ASSUME TypeOK, [Next]_vars
  PROVE  QuietStep \/ OwnershipStep
<1> USE DEF managerVars, identityVars, mailboxVars, loopVars, processVars
<1>1. CASE UNCHANGED vars
  BY <1>1 DEF vars, QuietStep, ownership
<1>2. ASSUME NEW n \in Names, NEW single \in BOOLEAN, AddExecutor(n, single)
      PROVE  QuietStep \/ OwnershipStep
  <2>1. CASE StartThread(n, single)
    BY <1>2, <2>1 DEF AddExecutor, ShopOpen, OwnershipStep
  <2>2. CASE AddToThread(n) \/ RejectSingleton(n, single)
    BY <1>2, <2>2 DEF AddExecutor, AddToThread, RejectSingleton, QuietStep, ownership
  <2> QED
    BY <1>2, <2>1, <2>2 DEF AddExecutor
<1>3. ASSUME NEW e \in ExecutorIDs, NEW type \in ClientSignals, SignalExecutor(e, type)
      PROVE  QuietStep
  BY <1>3 DEF SignalExecutor, Crash, QuietStep, ownership
<1>4. ASSUME NEW t \in ThreadIDs, ThreadStep(t), ~RemoveThread(t)
      PROVE  QuietStep
  <2>1. CASE Start(t)
    BY <2>1 DEF Start, At, LiveLabels, QuietStep, ownership
  <2>2. CASE TakeInstructions(t)
    BY <2>2 DEF TakeInstructions, At, LiveLabels, QuietStep, ownership
  <2>3. CASE HandleInstruction(t)
    BY <2>3 DEF HandleInstruction, QuietStep, ownership
  <2>4. CASE \E outcome \in ExecutionStates : RunExecutor(t, outcome)
    BY <2>4 DEF RunExecutor, InRound, At, LiveLabels, QuietStep, ownership
  <2>5. CASE EndRound(t)
    BY <2>5 DEF EndRound, RoundOver, InRound, At, LiveLabels, QuietStep, ownership
  <2>6. CASE RemoveExecutor(t)
    BY <2>6 DEF RemoveExecutor, QuietStep, ownership
  <2>7. CASE RemoveExecutors(t)
    BY <2>7 DEF RemoveExecutors, At, LiveLabels, QuietStep, ownership
  <2>8. CASE GoIdle(t)
    BY <2>8 DEF GoIdle, RoundOver, InRound, At, LiveLabels, QuietStep, ownership
  <2>9. CASE WakeUp(t)
    BY <2>9 DEF WakeUp, At, LiveLabels, QuietStep, ownership
  <2> QED
    BY <1>4, <2>1, <2>2, <2>3, <2>4, <2>5, <2>6, <2>7, <2>8, <2>9 DEF ThreadStep
<1> QED
  BY <1>1, <1>2, <1>3, <1>4 DEF Next, Clients, OwnershipStep

\* The invariant of ownership: the three properties, and what they rest on.  No
\* thread is doomed before it exists, so a new one is not; and RunLoop has
\* returned, with nothing left to abort over, only when the shop was locked and
\* empty, which it stays.
OwnershipInv ==
  /\ ThreadsAccountedFor
  /\ DoomedOnceLocked
  /\ NamesLeadToThreads
  /\ \A t \in ThreadIDs : t >= nextThread => ~isDoomed[t]
  /\ mainPc # "loop" => lockedShop /\ threadMap = {}
  /\ mainPc # "aborted"

\* A quiet step keeps the invariant of ownership: what runs goes on running.
LEMMA QuietKeepsOwnership ==
  ASSUME TypeOK, OwnershipInv, QuietStep
  PROVE  OwnershipInv'
<1>1. \A t \in ThreadIDs :
        /\ pc'[t] \in {"none", "done"} <=> pc[t] \in {"none", "done"}
        /\ pc'[t] = "done" <=> pc[t] = "done"
  BY DEF QuietStep, LiveLabels, TypeOK
<1>2. ThreadsAccountedFor'
  BY <1>1 DEF OwnershipInv, ThreadsAccountedFor, QuietStep, ownership
<1> QED
  BY <1>2 DEF OwnershipInv, DoomedOnceLocked, NamesLeadToThreads, QuietStep, ownership

\* The steps that move threads between owners keep it too.
LEMMA StepKeepsOwnership ==
  ASSUME TypeOK, OwnershipInv, OwnershipStep
  PROVE  OwnershipInv'
<1> USE DEF managerVars, identityVars, mailboxVars, loopVars
<1> USE DEF OwnershipInv
<1>1. ASSUME NEW n \in Names, NEW single \in BOOLEAN, StartThread(n, single), ~lockedShop,
             UNCHANGED <<lockedShop, threadsToJoin, isDoomed, mainPc>>
      PROVE  OwnershipInv'
  <2>1. /\ nextThread \in ThreadIDs /\ nextThread' = nextThread + 1
        /\ nextThread \notin threadMap /\ nextThread \notin threadsToJoin
        /\ ~isDoomed[nextThread]
    BY <1>1, ConstantsAssumption
    DEF StartThread, TypeOK, ThreadIDs, ThreadsAccountedFor
  <2>2. ThreadsAccountedFor'
    <3>1. 0 .. nextThread' - 1 = (0 .. nextThread - 1) \cup {nextThread}
      BY <2>1 DEF TypeOK
    <3>2. pc' = [pc EXCEPT ![nextThread] = "start"]
          /\ threadMap' = threadMap \cup {nextThread}
      BY <1>1 DEF StartThread
    <3> QED
      BY <1>1, <2>1, <3>1, <3>2 DEF ThreadsAccountedFor, TypeOK
  <2>3. NamesLeadToThreads'
    <3>1. /\ threadNameMap' = [threadNameMap EXCEPT ![n] = nextThread]
          /\ threadName' = [threadName EXCEPT ![nextThread] = n]
          /\ threadMap' = threadMap \cup {nextThread}
      BY <1>1 DEF StartThread
    <3> QED
      BY <1>1, <2>1, <3>1 DEF NamesLeadToThreads, TypeOK
  <2>4. \A t \in ThreadIDs : t >= nextThread' => ~isDoomed'[t]
    BY <1>1, <2>1 DEF TypeOK, ThreadIDs
  <2> QED
    BY <1>1, <2>2, <2>3, <2>4 DEF DoomedOnceLocked
<1>2. ASSUME NEW n \in Names, DoomThread(n)
      PROVE  OwnershipInv'
  <2> DEFINE t == threadNameMap[n]
  <2>1. t \in threadMap /\ t \in ThreadIDs /\ threadName[t] = n
    BY <1>2 DEF DoomThread, NamesLeadToThreads, TypeOK
  <2>2. t < nextThread
    BY <2>1, ConstantsAssumption DEF ThreadsAccountedFor, TypeOK
  <2>3. NamesLeadToThreads'
    BY <1>2, <2>1 DEF DoomThread, NamesLeadToThreads, TypeOK
  <2>4. \A u \in ThreadIDs : u >= nextThread' => ~isDoomed'[u]
    BY <1>2, <2>1, <2>2 DEF DoomThread, TypeOK, ThreadIDs
  <2>5. DoomedOnceLocked'
    BY <1>2, <2>1 DEF DoomThread, DoomedOnceLocked, TypeOK
  <2>6. ThreadsAccountedFor'
    BY <1>2 DEF DoomThread, ThreadsAccountedFor
  <2> QED
    BY <1>2, <2>3, <2>4, <2>5, <2>6 DEF DoomThread, processVars
<1>3. ASSUME NEW sendTermination \in BOOLEAN, LockShop(sendTermination)
      PROVE  OwnershipInv'
  <2>1. isDoomed' = [t \in ThreadIDs |-> isDoomed[t] \/ t \in threadMap]
        /\ lockedShop'
    BY <1>3 DEF LockShop, DoomAll
  <2>2. UNCHANGED <<nextThread, threadNameMap, threadMap, threadsToJoin, threadName,
                    pc, mainPc>>
    BY <1>3 DEF LockShop
  <2>3. \A t \in ThreadIDs : t >= nextThread' => ~isDoomed'[t]
    BY <2>1, <2>2, ConstantsAssumption DEF ThreadsAccountedFor, ThreadIDs, TypeOK
  <2>4. DoomedOnceLocked'
    BY <2>1, <2>2 DEF DoomedOnceLocked, TypeOK
  <2>5. NamesLeadToThreads'
    BY <2>1, <2>2 DEF NamesLeadToThreads
  <2>6. ThreadsAccountedFor'
    BY <2>2 DEF ThreadsAccountedFor
  <2> QED
    BY <2>1, <2>2, <2>3, <2>4, <2>5, <2>6
<1>4. ASSUME NEW t \in ThreadIDs, RemoveThread(t)
      PROVE  OwnershipInv'
  <2>1. /\ threadMap' = threadMap \ {t}
        /\ threadNameMap' = [threadNameMap EXCEPT ![threadName[t]] = NoThread]
        /\ threadsToJoin' = threadsToJoin \cup {t}
        /\ lockedShop' = (lockedShop \/ threadMap = {t})
        /\ pc' = [pc EXCEPT ![t] = "done"]
        /\ UNCHANGED <<nextThread, threadName, isDoomed, mainPc>>
    BY <1>4 DEF RemoveThread, NameErased, HandedOver, IsLastThread, processVars
  <2>2. t \in threadMap
    BY <1>4 DEF RemoveThread, At, ThreadsAccountedFor
  <2>3. ThreadsAccountedFor'
    BY <2>1, <2>2 DEF ThreadsAccountedFor, TypeOK
  <2>4. DoomedOnceLocked'
    BY <2>1 DEF DoomedOnceLocked
  <2>5. NamesLeadToThreads'
    <3> SUFFICES ASSUME NEW n \in Names, threadNameMap'[n] # NoThread
                 PROVE  LET u == threadNameMap'[n] IN
                        /\ u \in threadMap' /\ threadName'[u] = n
                        /\ ~lockedShop' => ~isDoomed'[u]
      BY DEF NamesLeadToThreads
    <3>1. threadName[t] \in Names /\ n # threadName[t]
          /\ threadNameMap'[n] = threadNameMap[n]
      BY <2>1 DEF TypeOK
    <3>2. threadNameMap[n] # t
      BY <3>1, ConstantsAssumption DEF NamesLeadToThreads
    <3>3. /\ threadNameMap[n] \in threadMap /\ threadName[threadNameMap[n]] = n
          /\ ~lockedShop => ~isDoomed[threadNameMap[n]]
      BY <3>1 DEF NamesLeadToThreads
    <3>4. threadNameMap[n] \in threadMap' /\ (~lockedShop' => ~lockedShop)
      BY <2>1, <3>2, <3>3
    <3> QED
      BY <2>1, <3>1, <3>3, <3>4
  <2> QED
    BY <2>1, <2>3, <2>4, <2>5
<1>5. ASSUME RunLoopReturn \/ Destroy
      PROVE  OwnershipInv'
  <2>1. UNCHANGED <<lockedShop, nextThread, threadNameMap, threadMap, threadsToJoin,
                    threadName, isDoomed, pc>>
    BY <1>5 DEF RunLoopReturn, Destroy
  <2>2. mainPc' # "loop" => lockedShop /\ threadMap = {}
    BY <1>5 DEF RunLoopReturn, NothingRuns, Destroy
  <2>3. mainPc' # "aborted"
    BY <1>5 DEF RunLoopReturn, Destroy
  <2> QED
    BY <2>1, <2>2, <2>3 DEF ThreadsAccountedFor, DoomedOnceLocked, NamesLeadToThreads
<1> QED
  BY <1>1, <1>2, <1>3, <1>4, <1>5 DEF OwnershipStep

-----------------------------------------------------------------------------
(* The theorems                                                            *)

\* The invariant of ownership holds of every behaviour.
THEOREM OwnershipCorrect == Spec => []OwnershipInv
<1>1. Init => OwnershipInv
  <2> SUFFICES ASSUME Init PROVE OwnershipInv
    OBVIOUS
  <2>1. ThreadsAccountedFor
    BY DEF Init, ThreadsAccountedFor
  <2>2. DoomedOnceLocked /\ NamesLeadToThreads
    BY DEF Init, DoomedOnceLocked, NamesLeadToThreads
  <2>3. \A t \in ThreadIDs : t >= nextThread => ~isDoomed[t]
    BY DEF Init
  <2>4. mainPc = "loop"
    BY DEF Init
  <2> QED
    BY <2>1, <2>2, <2>3, <2>4 DEF OwnershipInv
<1>2. TypeOK /\ OwnershipInv /\ [Next]_vars => OwnershipInv'
  BY StepKinds, QuietKeepsOwnership, StepKeepsOwnership
<1> QED
  BY <1>1, <1>2, TypeCorrect, PTL DEF Spec

\* Every thread is owned by the manager until it hands itself over
\* (ExecutionManager.cpp:555-613, 692-716).
THEOREM ThreadsCorrect == Spec => []ThreadsAccountedFor
<1>1. OwnershipInv => ThreadsAccountedFor
  BY DEF OwnershipInv
<1> QED
  BY <1>1, OwnershipCorrect, PTL

\* Once the shop is locked every thread left is doomed, so that none waits
\* for executors that can no longer come (ExecutionManager.cpp:500-515).
THEOREM DoomCorrect == Spec => []DoomedOnceLocked
<1>1. OwnershipInv => DoomedOnceLocked
  BY DEF OwnershipInv
<1> QED
  BY <1>1, OwnershipCorrect, PTL

\* The unchecked lookups by name (ExecutionManager.cpp:584-590, 622-624) find
\* a thread that is owned, of that name, and not doomed while the shop is open.
THEOREM NamesCorrect == Spec => []NamesLeadToThreads
<1>1. OwnershipInv => NamesLeadToThreads
  BY DEF OwnershipInv
<1> QED
  BY <1>1, OwnershipCorrect, PTL

\* When RunLoop has returned every thread created is joinable, and the
\* destructor does not abort (ExecutionManager.cpp:517-552).
THEOREM RunLoopCorrect == Spec => []AllJoinableAfterRunLoop
<1>1. TypeOK /\ OwnershipInv => AllJoinableAfterRunLoop
  <2> SUFFICES ASSUME TypeOK, OwnershipInv, mainPc # "loop"
               PROVE  /\ mainPc # "aborted"
                      /\ threadsToJoin = 0 .. nextThread - 1
                      /\ \A t \in threadsToJoin : pc[t] = "done"
    BY DEF AllJoinableAfterRunLoop
  <2>1. mainPc # "aborted" /\ threadMap = {}
    BY DEF OwnershipInv
  <2>2. threadsToJoin = 0 .. nextThread - 1
    BY <2>1 DEF OwnershipInv, ThreadsAccountedFor
  <2> QED
    BY <2>1, <2>2 DEF OwnershipInv, ThreadsAccountedFor, TypeOK
<1> QED
  BY <1>1, TypeCorrect, OwnershipCorrect, PTL

\* Locking is final: no operation and no thread reopens the shop, accepts an
\* executor or creates a thread afterwards.
THEOREM LockFinal == Spec => LockIsFinal
<1>1. [Next]_vars => [lockedShop => /\ lockedShop'
                                    /\ nextExec' = nextExec
                                    /\ threadMap' \subseteq threadMap]_vars
  <2> SUFFICES ASSUME Next, lockedShop
               PROVE  /\ lockedShop' /\ nextExec' = nextExec
                      /\ threadMap' \subseteq threadMap
    OBVIOUS
  <2> USE DEF managerVars
  <2>1. CASE Clients
    BY <2>1 DEF Clients, AddExecutor, ShopOpen, DoomThread, SignalExecutor, Crash, LockShop
  <2>2. ASSUME NEW t \in ThreadIDs, ThreadStep(t)
        PROVE  /\ lockedShop' /\ nextExec' = nextExec
               /\ threadMap' \subseteq threadMap
    BY <2>2 DEF ThreadStep, Start, TakeInstructions, HandleInstruction, RunExecutor,
                EndRound, RemoveExecutor, RemoveExecutors, GoIdle, WakeUp, RemoveThread
  <2>3. CASE RunLoopReturn \/ Destroy
    BY <2>3 DEF RunLoopReturn, Destroy
  <2> QED
    BY <2>1, <2>2, <2>3 DEF Next
<1> QED
  BY <1>1, PTL DEF Spec, LockIsFinal

-----------------------------------------------------------------------------
(* The invariant of the adds                                               *)

Created == 0 .. nextThread - 1

PostedAdd(t, e) ==
  \E i \in DOMAIN instructionList[t] : instructionList[t][i] = AddMessage(e)
TakenAdd(t, e) ==
  \E i \in DOMAIN localInstructionList[t] : localInstructionList[t][i] = AddMessage(e)
Pending(t, e) ==
  \/ pc[t] = "start" /\ firstExec[t] = e
  \/ PostedAdd(t, e)
  \/ TakenAdd(t, e)

\* A list adds an executor at most once.
AddsOnce(list) ==
  \A i, j \in DOMAIN list :
    list[i].instructionTag = "AddExecutor" /\ list[i] = list[j] => i = j

\* Every thread has a first executor of its own.
FirstsInv ==
  /\ \A t \in Created : firstExec[t] < nextExec
  /\ \A t, u \in Created : firstExec[t] = firstExec[u] => t = u

\* The manager's map holds IDs given out, on threads created.
MapInv ==
  \A e \in ExecutorIDs :
    executorMap[e] # NoThread => e < nextExec /\ executorMap[e] \in Created

\* An executor waits to be added at one place only, on the thread the manager
\* has it on, and has not begun.
PendingInv ==
  \A t \in ThreadIDs, e \in ExecutorIDs :
    /\ Pending(t, e) => executorMap[e] = t /\ e \notin initialised
    /\ PostedAdd(t, e) \/ TakenAdd(t, e) => \A u \in Created : firstExec[u] # e
    /\ ~(PostedAdd(t, e) /\ TakenAdd(t, e))

ListsInv ==
  \A t \in ThreadIDs :
    /\ AddsOnce(instructionList[t])
    /\ AddsOnce(localInstructionList[t])
    /\ localInstructionList[t] # <<>> => pc[t] = "round"

\* What a table, its index and a batch of removals are about has begun; a
\* table lists an executor once.
TableInv ==
  /\ \A e \in initialised : e < nextExec
  /\ deInitialised \subseteq initialised
  /\ \A t \in ThreadIDs :
       /\ \A i \in DOMAIN executors[t] : executors[t][i].execId \in initialised
       /\ \A i, j \in DOMAIN executors[t] :
            executors[t][i].execId = executors[t][j].execId => i = j
       /\ \A i \in DOMAIN execsToRemove[t] : execsToRemove[t][i] \in initialised
       /\ \A e \in ExecutorIDs : signalMap[t][e] # 0 => e \in initialised

\* A thread that left its loop after its first executor began takes nothing
\* with it, and is doomed: no add comes after it.
LeftInv ==
  \A t \in ThreadIDs :
    pc[t] \in {"exit", "done"} /\ firstExec[t] \in initialised =>
      /\ isDoomed[t]
      /\ executors[t] = <<>>
      /\ \A e \in ExecutorIDs : ~PostedAdd(t, e)

AddsInv ==
  FirstsInv /\ MapInv /\ PendingInv /\ ListsInv /\ TableInv /\ LeftInv

-----------------------------------------------------------------------------
(* Lists and what is left of them                                          *)

\* What is left of a list once item i was taken out of it.
Without(s, i) == SubSeq(s, 1, i - 1) \o SubSeq(s, i + 1, Len(s))

\* The items left keep their order.
LEMMA ItemsLeft ==
  ASSUME NEW S, NEW s \in Seq(S), NEW i \in DOMAIN s
  PROVE  /\ Without(s, i) \in Seq(S)
         /\ DOMAIN Without(s, i) = 1 .. Len(s) - 1
         /\ \A j \in 1 .. Len(s) - 1 :
              /\ j < i => Without(s, i)[j] = s[j]
              /\ j >= i => Without(s, i)[j] = s[j + 1]
<1>1. Len(s) \in Nat /\ DOMAIN s = 1 .. Len(s) /\ i \in 1 .. Len(s)
  BY LenProperties
<1>2. \A j \in 1 .. Len(s) : s[j] \in S
  BY ElementOfSeq
<1> DEFINE front == SubSeq(s, 1, i - 1)
           back == SubSeq(s, i + 1, Len(s))
<1>3. /\ front \in Seq(S) /\ Len(front) = i - 1
      /\ \A j \in 1 .. i - 1 : front[j] = s[j]
  <2>1. \A j \in 1 .. i - 1 : s[j] \in S
    BY <1>1, <1>2
  <2> QED
    BY <1>1, <2>1, SubSeqProperties
<1>4. /\ back \in Seq(S) /\ Len(back) = Len(s) - i
      /\ \A j \in 1 .. Len(s) - i : back[j] = s[i + j]
  <2>1. \A j \in i + 1 .. Len(s) : s[j] \in S
    BY <1>1, <1>2
  <2>2. /\ back \in Seq(S)
        /\ Len(back) = IF i + 1 <= Len(s) THEN Len(s) - (i + 1) + 1 ELSE 0
        /\ \A j \in 1 .. Len(s) - (i + 1) + 1 : back[j] = s[i + 1 + j - 1]
    BY <1>1, <2>1, SubSeqProperties
  <2> QED
    BY <1>1, <2>2
<1>5. Without(s, i) = front \o back
  BY DEF Without
<1> HIDE DEF front, back
<1>6. /\ front \o back \in Seq(S)
      /\ Len(front \o back) = Len(s) - 1
      /\ \A j \in 1 .. Len(s) - 1 :
           (front \o back)[j] = IF j <= i - 1 THEN front[j] ELSE back[j - (i - 1)]
  <2>1. (i - 1) + (Len(s) - i) = Len(s) - 1
    BY <1>1
  <2>2. /\ front \o back \in Seq(S)
        /\ Len(front \o back) = Len(front) + Len(back)
        /\ \A j \in 1 .. Len(front) + Len(back) :
             (front \o back)[j] =
               IF j <= Len(front) THEN front[j] ELSE back[j - Len(front)]
    BY <1>3, <1>4, ConcatProperties
  <2> QED
    BY <1>3, <1>4, <2>1, <2>2
<1>7. ASSUME NEW j \in 1 .. Len(s) - 1
      PROVE  /\ j < i => Without(s, i)[j] = s[j]
             /\ j >= i => Without(s, i)[j] = s[j + 1]
  <2>1. CASE j < i
    BY <1>1, <1>3, <1>5, <1>6, <2>1
  <2>2. CASE j >= i
    <3> DEFINE k == j - (i - 1)
    <3>1. k \in 1 .. Len(s) - i /\ i + k = j + 1 /\ ~(j <= i - 1)
      BY <1>1, <2>2
    <3>2. (front \o back)[j] = back[k]
      BY <1>6, <3>1
    <3>3. back[k] = s[i + k]
      BY <1>4, <3>1
    <3> QED
      BY <1>1, <1>5, <2>2, <3>1, <3>2, <3>3
  <2> QED
    BY <1>1, <2>1, <2>2
<1>8. DOMAIN Without(s, i) = 1 .. Len(s) - 1
  BY <1>5, <1>6, LenProperties
<1> QED
  BY <1>5, <1>6, <1>7, <1>8

\* The messages left of a list were in it, and the one taken is not among them
\* if it is an add of a list that adds once.
LEMMA MessagesLeft ==
  ASSUME NEW s \in Seq(Instructions), NEW i \in DOMAIN s, AddsOnce(s)
  PROVE  /\ AddsOnce(Without(s, i))
         /\ \A j \in DOMAIN Without(s, i) :
              \E k \in DOMAIN s : k # i /\ Without(s, i)[j] = s[k]
         /\ s[i].instructionTag = "AddExecutor" =>
              \A j \in DOMAIN Without(s, i) : Without(s, i)[j] # s[i]
<1> DEFINE old(j) == IF j < i THEN j ELSE j + 1
<1>1. DOMAIN s = 1 .. Len(s) /\ Len(s) \in Nat /\ i \in Nat
  BY LenProperties
<1>2. DOMAIN Without(s, i) = 1 .. Len(s) - 1
  BY ItemsLeft
<1>3. ASSUME NEW j \in DOMAIN Without(s, i)
      PROVE  old(j) \in DOMAIN s /\ old(j) # i /\ Without(s, i)[j] = s[old(j)]
  <2>1. /\ j < i => Without(s, i)[j] = s[j]
        /\ j >= i => Without(s, i)[j] = s[j + 1]
    BY <1>2, ItemsLeft
  <2> QED
    BY <1>1, <1>2, <2>1
<1>4. \A j, k \in DOMAIN Without(s, i) : old(j) = old(k) => j = k
  BY <1>1, <1>2
<1> HIDE DEF old
<1> QED
  BY <1>3, <1>4 DEF AddsOnce

\* An add or a signal at the end of a list.
LEMMA MessageAppended ==
  ASSUME NEW s \in Seq(Instructions), NEW msg \in Instructions
  PROVE  /\ DOMAIN Append(s, msg) = 1 .. Len(s) + 1
         /\ DOMAIN s = 1 .. Len(s) /\ Len(s) \in Nat
         /\ \A j \in DOMAIN s : Append(s, msg)[j] = s[j]
         /\ Append(s, msg)[Len(s) + 1] = msg
  BY AppendProperties, LenProperties

-----------------------------------------------------------------------------
(* Every step keeps the invariant of the adds                              *)

\* The IDs of threads and executors are numbers.
LEMMA Numbers ==
  ASSUME TypeOK
  PROVE  /\ ExecutorIDs \subseteq Nat /\ ThreadIDs \subseteq Nat
         /\ nextExec \in Nat /\ nextThread \in Nat
         /\ Created \subseteq ThreadIDs /\ initialised \subseteq Nat
         /\ \A t \in ThreadIDs : firstExec[t] \in Nat
<1>1. ExecutorIDs \subseteq Nat /\ ThreadIDs \subseteq Nat
  BY ConstantsAssumption DEF ExecutorIDs, ThreadIDs
<1>2. nextExec \in Nat /\ nextThread \in Nat /\ nextThread <= MaxThreads
  BY ConstantsAssumption DEF TypeOK
<1>3. Created \subseteq ThreadIDs
  BY <1>2, ConstantsAssumption DEF Created, ThreadIDs
<1>4. initialised \subseteq Nat
  BY <1>1 DEF TypeOK
<1>5. \A t \in ThreadIDs : firstExec[t] \in Nat
  BY <1>1 DEF TypeOK
<1> QED
  BY <1>1, <1>2, <1>3, <1>4, <1>5

\* A pending executor has an ID given out already.
LEMMA PendingGiven ==
  ASSUME TypeOK, AddsInv, NEW t \in ThreadIDs, NEW e \in ExecutorIDs, Pending(t, e)
  PROVE  e < nextExec /\ e # nextExec /\ t \in Created
<1>1. executorMap[e] = t
  BY DEF AddsInv, PendingInv
<1>2. t # NoThread
  BY ConstantsAssumption
<1>3. e < nextExec /\ t \in Created
  BY <1>1, <1>2 DEF AddsInv, MapInv
<1> QED
  BY <1>3, Numbers

\* The adds posted to a list at whose end a message was put.
LEMMA AddAppended ==
  ASSUME NEW s \in Seq(Instructions), NEW msg \in Instructions, AddsOnce(s),
         msg.instructionTag = "AddExecutor" => \A i \in DOMAIN s : s[i] # msg
  PROVE  /\ AddsOnce(Append(s, msg))
         /\ \A m : (\E i \in DOMAIN Append(s, msg) : Append(s, msg)[i] = m)
                     <=> (\E i \in DOMAIN s : s[i] = m) \/ m = msg
<1> DEFINE new == Append(s, msg)
<1>1. /\ DOMAIN new = 1 .. Len(s) + 1
      /\ DOMAIN s = 1 .. Len(s) /\ Len(s) \in Nat
      /\ \A j \in DOMAIN s : new[j] = s[j]
      /\ new[Len(s) + 1] = msg
  BY MessageAppended
<1> HIDE DEF new
<1>2. DOMAIN new = DOMAIN s \cup {Len(s) + 1}
  BY <1>1
<1>3. AddsOnce(new)
  BY <1>1, <1>2 DEF AddsOnce
<1>4. \A m : (\E i \in DOMAIN new : new[i] = m)
               <=> (\E i \in DOMAIN s : s[i] = m) \/ m = msg
  BY <1>1, <1>2
<1> QED
  BY <1>3, <1>4 DEF new

\* AddExecutor gives out a new ID: it waits nowhere else.
LEMMA AddExecutorAdds ==
  ASSUME TypeOK, OwnershipInv, AddsInv,
         NEW name \in Names, NEW single \in BOOLEAN, AddExecutor(name, single)
  PROVE  AddsInv'
<1> DEFINE e0 == nextExec
<1>0. /\ ExecutorIDs \subseteq Nat /\ nextExec \in Nat /\ nextThread \in Nat
      /\ Created \subseteq ThreadIDs /\ initialised \subseteq Nat
      /\ \A t \in ThreadIDs : firstExec[t] \in Nat
  BY Numbers
<1>1. /\ e0 \in ExecutorIDs /\ nextExec' = nextExec + 1 /\ ~lockedShop
      /\ UNCHANGED <<localInstructionList, execsToRemove, executors, signalMap,
                     isDoomed, initialised, deInitialised>>
  BY ConstantsAssumption
  DEF AddExecutor, IdsLeft, ShopOpen, TypeOK, ExecutorIDs, tableVars, objectVars
<1>2. TableInv'
  BY <1>0, <1>1 DEF AddsInv, TableInv
<1>3. e0 \notin initialised /\ \A u \in ThreadIDs : ~Pending(u, e0)
  <2>1. e0 \notin initialised
    BY <1>0, <1>1 DEF AddsInv, TableInv
  <2>2. \A u \in ThreadIDs : ~Pending(u, e0)
    BY <1>1, PendingGiven
  <2> QED
    BY <2>1, <2>2
<1>4. Created \subseteq ThreadIDs
  BY <1>0
<1>5. CASE AddToThread(name)
  <2> DEFINE t == threadNameMap[name]
  <2>1. /\ t \in ThreadIDs /\ t # NoThread
        /\ instructionList' =
             [instructionList EXCEPT ![t] = Append(instructionList[t], AddMessage(e0))]
        /\ executorMap' = [executorMap EXCEPT ![e0] = t]
        /\ UNCHANGED <<nextThread, firstExec, pc>>
    BY <1>5 DEF AddToThread, Post, TypeOK, identityVars
  <2>2. t \in Created /\ ~isDoomed[t]
    BY <1>1, <2>1 DEF OwnershipInv, NamesLeadToThreads, ThreadsAccountedFor, Created
  <2>3. AddMessage(e0) \in Instructions /\ instructionList[t] \in Seq(Instructions)
    BY <1>1, <2>1 DEF AddMessage, Instructions, TypeOK
  <2>4. /\ AddsOnce(instructionList'[t])
        /\ \A m : (\E i \in DOMAIN instructionList'[t] : instructionList'[t][i] = m)
                <=> (\E i \in DOMAIN instructionList[t] : instructionList[t][i] = m)
                      \/ m = AddMessage(e0)
    <3>1. \A i \in DOMAIN instructionList[t] : instructionList[t][i] # AddMessage(e0)
      BY <1>3, <2>1 DEF Pending, PostedAdd
    <3>2. instructionList'[t] = Append(instructionList[t], AddMessage(e0))
      BY <2>1 DEF TypeOK
    <3> QED
      BY <2>1, <2>3, <3>1, <3>2, AddAppended DEF AddsInv, ListsInv
  <2>5. \A u \in ThreadIDs : u # t => instructionList'[u] = instructionList[u]
    BY <2>1 DEF TypeOK
  <2>6. \A u \in ThreadIDs, e \in ExecutorIDs :
          PostedAdd(u, e)' <=> PostedAdd(u, e) \/ (u = t /\ e = e0)
    BY <2>4, <2>5 DEF PostedAdd, AddMessage
  <2>7. \A u \in ThreadIDs, e \in ExecutorIDs :
          /\ TakenAdd(u, e)' <=> TakenAdd(u, e)
          /\ Pending(u, e)' <=> Pending(u, e) \/ (u = t /\ e = e0)
    BY <1>1, <2>1, <2>6 DEF TakenAdd, Pending
  <2>8. FirstsInv'
    BY <1>0, <1>1, <2>1 DEF AddsInv, FirstsInv, Created
  <2>9. MapInv'
    BY <1>1, <2>1, <2>2, Numbers DEF AddsInv, MapInv, Created, TypeOK
  <2>10. PendingInv'
    <3> SUFFICES ASSUME NEW u \in ThreadIDs, NEW e \in ExecutorIDs
                 PROVE  /\ Pending(u, e)' => executorMap'[e] = u /\ e \notin initialised'
                        /\ PostedAdd(u, e)' \/ TakenAdd(u, e)'
                             => \A v \in Created' : firstExec'[v] # e
                        /\ ~(PostedAdd(u, e)' /\ TakenAdd(u, e)')
      BY DEF PendingInv
    <3>1. Created' = Created /\ firstExec' = firstExec /\ initialised' = initialised
      BY <1>1, <2>1 DEF Created
    <3>2. CASE u = t /\ e = e0
      <4>1. \A v \in Created : firstExec[v] # e0
        BY <1>0, <1>1 DEF AddsInv, FirstsInv
      <4>2. ~TakenAdd(u, e)
        BY <1>3, <3>2 DEF Pending
      <4>3. executorMap'[e] = u
        BY <1>1, <2>1, <3>2 DEF TypeOK
      <4> QED
        BY <1>3, <2>7, <3>1, <3>2, <4>1, <4>2, <4>3
    <3>3. CASE ~(u = t /\ e = e0)
      <4>1. Pending(u, e) => e # e0
        BY <1>3
      <4>2. Pending(u, e) => executorMap'[e] = executorMap[e]
        BY <2>1, <4>1 DEF TypeOK
      <4> QED
        BY <2>6, <2>7, <3>1, <3>3, <4>2 DEF AddsInv, PendingInv
    <3> QED
      BY <3>2, <3>3
  <2>11. ListsInv'
    BY <1>1, <2>1, <2>4, <2>5 DEF AddsInv, ListsInv
  <2>12. LeftInv'
    <3> SUFFICES ASSUME NEW u \in ThreadIDs, pc[u] \in {"exit", "done"},
                        firstExec[u] \in initialised
                 PROVE  /\ isDoomed[u]
                        /\ executors[u] = <<>>
                        /\ \A e \in ExecutorIDs : ~PostedAdd(u, e)'
      BY <1>1, <2>1 DEF LeftInv
    <3>1. isDoomed[u] /\ executors[u] = <<>> /\ \A e \in ExecutorIDs : ~PostedAdd(u, e)
      BY DEF AddsInv, LeftInv
    <3> QED
      BY <2>2, <2>6, <3>1
  <2> QED
    BY <1>2, <2>8, <2>9, <2>10, <2>11, <2>12 DEF AddsInv
<1>6. CASE RejectSingleton(name, single)
  <2>1. UNCHANGED <<nextThread, firstExec, pc, instructionList, executorMap>>
    BY <1>6 DEF RejectSingleton, identityVars
  <2>2. \A u \in ThreadIDs, e \in ExecutorIDs :
          /\ PostedAdd(u, e)' <=> PostedAdd(u, e)
          /\ TakenAdd(u, e)' <=> TakenAdd(u, e)
          /\ Pending(u, e)' <=> Pending(u, e)
    BY <1>1, <2>1 DEF PostedAdd, TakenAdd, Pending
  <2>3. FirstsInv' /\ MapInv'
    <3>1. Created' = Created
      BY <2>1 DEF Created
    <3>2. FirstsInv'
      BY <1>0, <1>1, <2>1, <3>1 DEF AddsInv, FirstsInv
    <3>3. MapInv'
      BY <1>0, <1>1, <2>1, <3>1 DEF AddsInv, MapInv
    <3> QED
      BY <3>2, <3>3
  <2>4. PendingInv' /\ ListsInv' /\ LeftInv'
    BY <1>1, <2>1, <2>2 DEF AddsInv, PendingInv, ListsInv, LeftInv, Created
  <2> QED
    BY <1>2, <2>3, <2>4 DEF AddsInv
<1>7. CASE StartThread(name, single)
  <2> DEFINE t == nextThread
  <2>1. /\ t \in ThreadIDs /\ t \notin Created /\ Created' = Created \cup {t}
        /\ executorMap' = [executorMap EXCEPT ![e0] = t]
        /\ firstExec' = [firstExec EXCEPT ![t] = e0]
        /\ pc' = [pc EXCEPT ![t] = "start"]
        /\ instructionList' = instructionList
    <3>1. t \in ThreadIDs /\ nextThread' = nextThread + 1
      BY <1>0, <1>7, ConstantsAssumption DEF StartThread, ThreadIDs
    <3>2. t \notin Created /\ Created' = Created \cup {t}
      BY <1>0, <3>1 DEF Created
    <3> QED
      BY <1>7, <3>1, <3>2 DEF StartThread
  <2>2. \A u \in Created : u # t /\ u \in ThreadIDs /\ firstExec'[u] = firstExec[u]
                           /\ firstExec[u] # e0
    <3>1. \A u \in Created : u # t /\ u \in ThreadIDs /\ firstExec'[u] = firstExec[u]
      BY <1>0, <2>1 DEF TypeOK
    <3>2. \A u \in Created : firstExec[u] < nextExec /\ firstExec[u] \in Nat
      BY <1>0 DEF AddsInv, FirstsInv
    <3> QED
      BY <1>0, <3>1, <3>2
  <2>3. firstExec'[t] = e0
    BY <2>1 DEF TypeOK
  <2>4. \A u \in ThreadIDs, e \in ExecutorIDs :
          /\ PostedAdd(u, e)' <=> PostedAdd(u, e)
          /\ TakenAdd(u, e)' <=> TakenAdd(u, e)
          /\ Pending(u, e)' => Pending(u, e) \/ (u = t /\ e = e0)
    BY <1>1, <2>1 DEF PostedAdd, TakenAdd, Pending, TypeOK
  <2>5. FirstsInv'
    <3>1. \A u \in Created' : firstExec'[u] < nextExec'
      BY <1>0, <1>1, <2>1, <2>2, <2>3 DEF AddsInv, FirstsInv
    <3>2. ASSUME NEW u \in Created', NEW v \in Created', firstExec'[u] = firstExec'[v]
          PROVE  u = v
      <4>1. u \in Created /\ v \in Created => u = v
        BY <2>2, <3>2 DEF AddsInv, FirstsInv
      <4> QED
        BY <2>1, <2>2, <2>3, <3>2, <4>1
    <3> QED
      BY <3>1, <3>2 DEF FirstsInv
  <2>6. MapInv'
    BY <1>1, <2>1, Numbers DEF AddsInv, MapInv, TypeOK
  <2>7. PendingInv'
    <3> SUFFICES ASSUME NEW u \in ThreadIDs, NEW e \in ExecutorIDs
                 PROVE  /\ Pending(u, e)' => executorMap'[e] = u /\ e \notin initialised'
                        /\ PostedAdd(u, e)' \/ TakenAdd(u, e)'
                             => \A v \in Created' : firstExec'[v] # e
                        /\ ~(PostedAdd(u, e)' /\ TakenAdd(u, e)')
      BY DEF PendingInv
    <3>1. Pending(u, e)' => executorMap'[e] = u /\ e \notin initialised
      <4>1. Pending(u, e) => e # e0
        BY <1>3
      <4>2. Pending(u, e) => executorMap'[e] = executorMap[e]
        BY <2>1, <4>1 DEF TypeOK
      <4>3. executorMap'[e0] = t
        BY <1>1, <2>1 DEF TypeOK
      <4> QED
        BY <1>3, <2>4, <4>2, <4>3 DEF AddsInv, PendingInv
    <3>2. PostedAdd(u, e) \/ TakenAdd(u, e) => e # e0
      BY <1>3 DEF Pending
    <3>3. PostedAdd(u, e) \/ TakenAdd(u, e) => \A v \in Created' : firstExec'[v] # e
      BY <2>1, <2>2, <2>3, <3>2 DEF AddsInv, PendingInv
    <3> QED
      BY <1>1, <2>4, <3>1, <3>3 DEF AddsInv, PendingInv
  <2>8. ListsInv'
    <3>1. \A u \in ThreadIDs : u # t => pc'[u] = pc[u]
      BY <2>1 DEF TypeOK
    <3>2. pc[t] = "none"
      BY <2>1 DEF OwnershipInv, ThreadsAccountedFor, Created
    <3> QED
      BY <1>1, <2>1, <3>1, <3>2 DEF AddsInv, ListsInv
  <2>9. LeftInv'
    <3> SUFFICES ASSUME NEW u \in ThreadIDs, pc'[u] \in {"exit", "done"},
                        firstExec'[u] \in initialised
                 PROVE  /\ isDoomed[u]
                        /\ executors[u] = <<>>
                        /\ \A e \in ExecutorIDs : ~PostedAdd(u, e)
      BY <1>1, <2>4 DEF LeftInv
    <3>1. u # t /\ pc'[u] = pc[u] /\ firstExec'[u] = firstExec[u]
      BY <2>1 DEF TypeOK
    <3> QED
      BY <3>1 DEF AddsInv, LeftInv
  <2> QED
    BY <1>2, <2>5, <2>6, <2>7, <2>8, <2>9 DEF AddsInv
<1> QED
  BY <1>5, <1>6, <1>7 DEF AddExecutor

\* Signals in the lists, dooms, and what the controlling thread does concern no
\* add.
LEMMA SignalsAdds ==
  ASSUME TypeOK, AddsInv,
         \A t \in ThreadIDs :
           \/ instructionList'[t] = instructionList[t]
           \/ \E msg \in Instructions :
                /\ msg.instructionTag = "SignalExecutor"
                /\ instructionList'[t] = Append(instructionList[t], msg),
         \A t \in ThreadIDs : isDoomed[t] => isDoomed'[t],
         UNCHANGED <<nextThread, nextExec, firstExec, executorMap, pc,
                     localInstructionList, initialised, deInitialised, executors,
                     signalMap, execsToRemove>>
  PROVE  AddsInv'
<1>1. ASSUME NEW t \in ThreadIDs
      PROVE  /\ AddsOnce(instructionList'[t])
             /\ \A e \in ExecutorIDs : PostedAdd(t, e)' <=> PostedAdd(t, e)
  <2>1. CASE instructionList'[t] = instructionList[t]
    BY <2>1 DEF PostedAdd, AddsInv, ListsInv
  <2>2. CASE instructionList'[t] # instructionList[t]
    <3>1. PICK msg \in Instructions :
            /\ msg.instructionTag = "SignalExecutor"
            /\ instructionList'[t] = Append(instructionList[t], msg)
      BY <2>2
    <3>2. instructionList[t] \in Seq(Instructions)
      BY DEF TypeOK
    <3>3. /\ AddsOnce(instructionList'[t])
          /\ \A m : (\E i \in DOMAIN instructionList'[t] : instructionList'[t][i] = m)
                <=> (\E i \in DOMAIN instructionList[t] : instructionList[t][i] = m)
                      \/ m = msg
      BY <3>1, <3>2, AddAppended DEF AddsInv, ListsInv
    <3>4. \A e : msg # AddMessage(e)
      BY <3>1 DEF AddMessage
    <3> QED
      BY <3>3, <3>4 DEF PostedAdd
  <2> QED
    BY <2>1, <2>2
<1>2. \A t \in ThreadIDs, e \in ExecutorIDs :
        /\ TakenAdd(t, e)' <=> TakenAdd(t, e)
        /\ Pending(t, e)' <=> Pending(t, e)
  BY <1>1 DEF TakenAdd, Pending
<1>3. FirstsInv' /\ MapInv' /\ TableInv'
  BY DEF AddsInv, FirstsInv, MapInv, TableInv, Created
<1>4. PendingInv'
  BY <1>1, <1>2 DEF AddsInv, PendingInv, Created
<1>5. ListsInv'
  BY <1>1 DEF AddsInv, ListsInv
<1>6. LeftInv'
  BY <1>1 DEF AddsInv, LeftInv
<1> QED
  BY <1>3, <1>4, <1>5, <1>6 DEF AddsInv

\* So the other operations of the manager keep the invariant.
LEMMA ManagerAdds ==
  ASSUME TypeOK, AddsInv,
         \/ \E n \in Names : DoomThread(n)
         \/ \E e \in ExecutorIDs, type \in ClientSignals : SignalExecutor(e, type)
         \/ \E sendTermination \in BOOLEAN : LockShop(sendTermination)
         \/ RunLoopReturn
         \/ Destroy
         \/ UNCHANGED vars
  PROVE  AddsInv'
<1> USE DEF managerVars, identityVars, mailboxVars, loopVars, tableVars, objectVars
<1>1. ASSUME NEW n \in Names, DoomThread(n)
      PROVE  AddsInv'
  <2>1. \A t \in ThreadIDs : isDoomed[t] => isDoomed'[t]
    BY <1>1 DEF DoomThread, TypeOK
  <2> QED
    BY <1>1, <2>1, SignalsAdds DEF DoomThread
<1>2. ASSUME NEW e \in ExecutorIDs, NEW type \in ClientSignals, SignalExecutor(e, type)
      PROVE  AddsInv'
  <2> DEFINE t == executorMap[e]
             msg == SignalMessage(e, type)
  <2>1. CASE Crash
    BY <2>1, SignalsAdds DEF Crash
  <2>2. CASE ~Crash
    <3>1. msg \in Instructions /\ msg.instructionTag = "SignalExecutor"
      BY ConstantsAssumption DEF SignalMessage, Instructions
    <3>2. /\ instructionList' =
               [instructionList EXCEPT ![t] = Append(instructionList[t], msg)]
          /\ UNCHANGED <<isDoomed, nextThread, nextExec, firstExec, executorMap, pc,
                     localInstructionList, initialised, deInitialised, executors,
                     signalMap, execsToRemove>>
      BY <1>2, <2>2 DEF SignalExecutor, Post
    <3> HIDE DEF msg
    <3>3. \A u \in ThreadIDs :
             \/ instructionList'[u] = instructionList[u]
             \/ instructionList'[u] = Append(instructionList[u], msg)
      BY <3>2 DEF TypeOK
    <3> QED
      BY <3>1, <3>2, <3>3, SignalsAdds
  <2> QED
    BY <2>1, <2>2
<1>3. ASSUME NEW sendTermination \in BOOLEAN, LockShop(sendTermination)
      PROVE  AddsInv'
  <2> DEFINE msg == SignalMessage(EXEC_WILDCARD, "RequestTermination")
  <2>1. msg \in Instructions /\ msg.instructionTag = "SignalExecutor"
    BY DEF SignalMessage, Instructions, ExecutorSignalTypes
  <2>2. \A t \in ThreadIDs : isDoomed[t] => isDoomed'[t]
    BY <1>3 DEF LockShop, DoomAll
  <2>3. \A t \in ThreadIDs :
           \/ instructionList'[t] = instructionList[t]
           \/ instructionList'[t] = Append(instructionList[t], msg)
    BY <1>3 DEF LockShop
  <2>4. UNCHANGED <<nextThread, nextExec, firstExec, executorMap, pc,
                    localInstructionList, initialised, deInitialised, executors,
                    signalMap, execsToRemove>>
    BY <1>3 DEF LockShop
  <2> HIDE DEF msg
  <2> QED
    BY <2>1, <2>2, <2>3, <2>4, SignalsAdds
<1>4. ASSUME RunLoopReturn \/ Destroy \/ UNCHANGED vars
      PROVE  AddsInv'
  BY <1>4, SignalsAdds DEF RunLoopReturn, Destroy, vars
<1> QED
  BY <1>1, <1>2, <1>3, <1>4

\* A step of a thread by which no executor begins: its list may get shorter,
\* executors that began may leave the manager's map, and the thread may leave
\* its loop with nothing left to do.
LEMMA MovesAdds ==
  ASSUME TypeOK, AddsInv, NEW t \in ThreadIDs, NEW label,
         pc' = [pc EXCEPT ![t] = label], label # "start",
         label \in {"exit", "done"} =>
           \/ pc[t] \in {"exit", "done"}
           \/ isDoomed[t] /\ executors[t] = <<>> /\ instructionList[t] = <<>>
           \/ firstExec[t] \notin initialised,
         localInstructionList'[t] # <<>> => label = "round",
         \A u \in ThreadIDs : u # t => localInstructionList'[u] = localInstructionList[u],
         AddsOnce(localInstructionList'[t]),
         \A e \in ExecutorIDs : TakenAdd(t, e)' => TakenAdd(t, e),
         \A e \in ExecutorIDs :
           \/ executorMap'[e] = executorMap[e]
           \/ executorMap'[e] = NoThread /\ e \in initialised,
         \A u \in ThreadIDs : executors[u] = <<>> => executors'[u] = <<>>,
         UNCHANGED <<nextThread, nextExec, firstExec, instructionList, isDoomed,
                     initialised>>,
         TableInv'
  PROVE  AddsInv'
<1>1. \A u \in ThreadIDs : pc'[u] = IF u = t THEN label ELSE pc[u]
  BY DEF TypeOK
<1>2. \A u \in ThreadIDs, e \in ExecutorIDs :
        /\ PostedAdd(u, e)' <=> PostedAdd(u, e)
        /\ TakenAdd(u, e)' => TakenAdd(u, e)
  BY DEF PostedAdd, TakenAdd
<1>3. \A u \in ThreadIDs, e \in ExecutorIDs : Pending(u, e)' => Pending(u, e)
  BY <1>1, <1>2 DEF Pending
<1>4. FirstsInv'
  BY DEF AddsInv, FirstsInv, Created
<1>5. MapInv'
  BY DEF AddsInv, MapInv, Created
<1>6. PendingInv'
  <2> SUFFICES ASSUME NEW u \in ThreadIDs, NEW e \in ExecutorIDs
               PROVE  /\ Pending(u, e)' => executorMap'[e] = u /\ e \notin initialised'
                      /\ PostedAdd(u, e)' \/ TakenAdd(u, e)'
                           => \A v \in Created' : firstExec'[v] # e
                      /\ ~(PostedAdd(u, e)' /\ TakenAdd(u, e)')
    BY DEF PendingInv
  <2>1. Created' = Created
    BY DEF Created
  <2> QED
    BY <1>2, <1>3, <2>1 DEF AddsInv, PendingInv
<1>7. ListsInv'
  <2> SUFFICES ASSUME NEW u \in ThreadIDs
               PROVE  /\ AddsOnce(instructionList[u])
                      /\ AddsOnce(localInstructionList'[u])
                      /\ localInstructionList'[u] # <<>> => pc'[u] = "round"
    BY DEF ListsInv
  <2> QED
    BY <1>1 DEF AddsInv, ListsInv
<1>8. LeftInv'
  <2> SUFFICES ASSUME NEW u \in ThreadIDs, pc'[u] \in {"exit", "done"},
                      firstExec[u] \in initialised
               PROVE  /\ isDoomed[u]
                      /\ executors'[u] = <<>>
                      /\ \A e \in ExecutorIDs : ~PostedAdd(u, e)
    BY <1>2 DEF LeftInv
  <2>1. CASE pc[u] \in {"exit", "done"}
    BY <2>1 DEF AddsInv, LeftInv
  <2>2. CASE pc[u] \notin {"exit", "done"}
    <3>1. u = t /\ isDoomed[t] /\ executors[t] = <<>> /\ instructionList[t] = <<>>
      BY <1>1, <2>2
    <3> QED
      BY <3>1 DEF PostedAdd
  <2> QED
    BY <2>1, <2>2
<1> QED
  BY <1>4, <1>5, <1>6, <1>7, <1>8 DEF AddsInv

\* An executor begins: it was pending on this thread, and nowhere else.
LEMMA BeginsAdds ==
  ASSUME TypeOK, OwnershipInv, AddsInv,
         NEW t \in ThreadIDs, NEW e \in ExecutorIDs, NEW label,
         Pending(t, e), ~Pending(t, e)',
         executors' =
           [executors EXCEPT ![t] = Append(@, [execId |-> e, stateTag |-> "Executing"])],
         signalMap' =
           [signalMap EXCEPT ![t][e] = IF @ = 0 THEN Len(executors[t]) + 1 ELSE @],
         initialised' = initialised \cup {e},
         pc' = [pc EXCEPT ![t] = label], label \in {"top", "round"},
         localInstructionList'[t] # <<>> => label = "round",
         \A u \in ThreadIDs : u # t => localInstructionList'[u] = localInstructionList[u],
         AddsOnce(localInstructionList'[t]),
         \A f \in ExecutorIDs : TakenAdd(t, f)' => TakenAdd(t, f),
         UNCHANGED <<nextThread, nextExec, firstExec, instructionList, isDoomed,
                     executorMap, execsToRemove, deInitialised>>
  PROVE  AddsInv'
<1>1. \A u \in ThreadIDs : pc'[u] = IF u = t THEN label ELSE pc[u]
  BY DEF TypeOK
<1>2. \A u \in ThreadIDs, f \in ExecutorIDs :
        /\ PostedAdd(u, f)' <=> PostedAdd(u, f)
        /\ TakenAdd(u, f)' => TakenAdd(u, f)
  BY DEF PostedAdd, TakenAdd
<1>3. \A u \in ThreadIDs, f \in ExecutorIDs : Pending(u, f)' => Pending(u, f) /\ f # e
  <2>1. \A u \in ThreadIDs, f \in ExecutorIDs : Pending(u, f)' => Pending(u, f)
    BY <1>1, <1>2 DEF Pending
  <2>2. \A u \in ThreadIDs : Pending(u, e) => u = t
    BY DEF AddsInv, PendingInv
  <2> QED
    BY <2>1, <2>2
<1>4. FirstsInv' /\ MapInv'
  BY DEF AddsInv, FirstsInv, MapInv, Created
<1>5. PendingInv'
  <2> SUFFICES ASSUME NEW u \in ThreadIDs, NEW f \in ExecutorIDs
               PROVE  /\ Pending(u, f)' => executorMap'[f] = u /\ f \notin initialised'
                      /\ PostedAdd(u, f)' \/ TakenAdd(u, f)'
                           => \A v \in Created' : firstExec'[v] # f
                      /\ ~(PostedAdd(u, f)' /\ TakenAdd(u, f)')
    BY DEF PendingInv
  <2>1. Created' = Created
    BY DEF Created
  <2> QED
    BY <1>2, <1>3, <2>1 DEF AddsInv, PendingInv
<1>6. ListsInv'
  BY <1>1 DEF AddsInv, ListsInv
<1>7. e \notin initialised /\ e < nextExec /\ t \in Created
  BY PendingGiven DEF AddsInv, PendingInv
<1>8. TableInv'
  <2> DEFINE entry == [execId |-> e, stateTag |-> "Executing"]
             old == executors[t]
             new == Append(old, entry)
  <2>1. old \in Seq(ExecutorStates) /\ entry \in ExecutorStates
    BY DEF TypeOK, ExecutorStates, ExecutorStateTags
  <2>2. /\ DOMAIN new = 1 .. Len(old) + 1
        /\ DOMAIN old = 1 .. Len(old) /\ Len(old) \in Nat
        /\ \A i \in DOMAIN old : new[i] = old[i]
        /\ new[Len(old) + 1] = entry
    BY <2>1, AppendProperties, LenProperties
  <2>3. \A i \in DOMAIN new : i \in DOMAIN old \/ i = Len(old) + 1
    BY <2>2
  <2>4. \A i \in DOMAIN old : old[i].execId \in initialised
    BY DEF AddsInv, TableInv
  <2>5. \A i, j \in DOMAIN old : old[i].execId = old[j].execId => i = j
    BY DEF AddsInv, TableInv
  <2>6. executors' = [executors EXCEPT ![t] = new]
    OBVIOUS
  <2> HIDE DEF new
  <2>7. entry.execId = e
    OBVIOUS
  <2> HIDE DEF entry
  <2>8. \A i \in DOMAIN new : new[i].execId \in initialised'
    BY <2>2, <2>3, <2>4, <2>7
  <2>9. \A i, j \in DOMAIN new : new[i].execId = new[j].execId => i = j
    BY <1>7, <2>2, <2>3, <2>4, <2>5, <2>7
  <2>10. \A u \in ThreadIDs : executors'[u] = IF u = t THEN new ELSE executors[u]
    BY <2>6 DEF TypeOK
  <2>11. \A u \in ThreadIDs, f \in ExecutorIDs :
           signalMap'[u][f] # 0 => f \in initialised'
    <3>1. \A u \in ThreadIDs, f \in ExecutorIDs :
            f # e => signalMap'[u][f] = signalMap[u][f]
      BY DEF TypeOK
    <3> QED
      BY <3>1 DEF AddsInv, TableInv
  <2>12. \A u \in ThreadIDs :
           /\ \A i \in DOMAIN executors'[u] : executors'[u][i].execId \in initialised'
           /\ \A i, j \in DOMAIN executors'[u] :
                executors'[u][i].execId = executors'[u][j].execId => i = j
    <3> SUFFICES ASSUME NEW u \in ThreadIDs
                 PROVE  /\ \A i \in DOMAIN executors'[u] :
                             executors'[u][i].execId \in initialised'
                        /\ \A i, j \in DOMAIN executors'[u] :
                             executors'[u][i].execId = executors'[u][j].execId => i = j
      OBVIOUS
    <3>1. CASE u = t
      <4>1. executors'[u] = new
        BY <2>10, <3>1
      <4> QED
        BY <2>8, <2>9, <4>1
    <3>2. CASE u # t
      <4>1. executors'[u] = executors[u] /\ initialised \subseteq initialised'
        BY <2>10, <3>2
      <4>2. /\ \A i \in DOMAIN executors[u] : executors[u][i].execId \in initialised
            /\ \A i, j \in DOMAIN executors[u] :
                 executors[u][i].execId = executors[u][j].execId => i = j
        BY DEF AddsInv, TableInv
      <4> QED
        BY <4>1, <4>2
    <3> QED
      BY <3>1, <3>2
  <2>13. /\ \A f \in initialised' : f < nextExec'
         /\ deInitialised' \subseteq initialised'
    <3>1. (\A f \in initialised : f < nextExec) /\ deInitialised \subseteq initialised
      BY DEF AddsInv, TableInv
    <3> QED
      BY <1>7, <3>1
  <2>14. \A u \in ThreadIDs : \A i \in DOMAIN execsToRemove'[u] :
           execsToRemove'[u][i] \in initialised'
    BY DEF AddsInv, TableInv
  <2> QED
    BY <2>11, <2>12, <2>13, <2>14 DEF TableInv
<1>9. LeftInv'
  <2> SUFFICES ASSUME NEW u \in ThreadIDs, pc'[u] \in {"exit", "done"},
                      firstExec[u] \in initialised'
               PROVE  /\ isDoomed[u]
                      /\ executors'[u] = <<>>
                      /\ \A f \in ExecutorIDs : ~PostedAdd(u, f)
    BY <1>2 DEF LeftInv
  <2>1. u # t /\ pc[u] \in {"exit", "done"} /\ executors'[u] = executors[u]
    BY <1>1 DEF TypeOK
  <2>2. u \in Created
    BY <2>1 DEF OwnershipInv, ThreadsAccountedFor, Created
  <2>3. firstExec[u] # e
    <3>1. CASE firstExec[t] = e
      BY <1>7, <2>1, <2>2, <3>1 DEF AddsInv, FirstsInv
    <3>2. CASE PostedAdd(t, e) \/ TakenAdd(t, e)
      BY <2>2, <3>2 DEF AddsInv, PendingInv
    <3> QED
      BY <3>1, <3>2 DEF Pending
  <2>4. firstExec[u] \in initialised
    BY <2>3
  <2> QED
    BY <2>1, <2>4 DEF AddsInv, LeftInv
<1> QED
  BY <1>4, <1>5, <1>6, <1>8, <1>9 DEF AddsInv

-----------------------------------------------------------------------------
(* What the steps of a thread do to its table                              *)

\* Signals change no entry but its state.
LEMMA SignalledEntries ==
  ASSUME TypeOK, NEW t \in ThreadIDs, NEW S \in SUBSET DOMAIN executors[t],
         NEW type, SignalIndexes(t, S, type)
  PROVE  /\ \A u \in ThreadIDs : u # t => executors'[u] = executors[u]
         /\ DOMAIN executors'[t] = DOMAIN executors[t]
         /\ \A i \in DOMAIN executors[t] :
              /\ executors'[t][i].execId = executors[t][i].execId
              /\ executors'[t][i].stateTag =
                   IF i \in S THEN "Executing" ELSE executors[t][i].stateTag
<1> DEFINE table == executors[t]
           signalled(i) == IF i \in S THEN [table[i] EXCEPT !.stateTag = "Executing"]
                                      ELSE table[i]
           new == [i \in DOMAIN table |-> signalled(i)]
<1>1. executors' = [executors EXCEPT ![t] = new]
  BY DEF SignalIndexes
<1>2. \A i \in DOMAIN table : table[i] \in ExecutorStates
  BY ElementOfSeq, LenProperties DEF TypeOK
<1>3. \A i \in DOMAIN table :
        /\ signalled(i).execId = table[i].execId
        /\ signalled(i).stateTag = IF i \in S THEN "Executing" ELSE table[i].stateTag
  BY <1>2 DEF ExecutorStates
<1>4. DOMAIN new = DOMAIN table /\ \A i \in DOMAIN table : new[i] = signalled(i)
  OBVIOUS
<1> HIDE DEF new, signalled
<1>5. executors'[t] = new /\ \A u \in ThreadIDs : u # t => executors'[u] = executors[u]
  BY <1>1 DEF TypeOK
<1> QED
  BY <1>3, <1>4, <1>5

\* So does a suspension.
LEMMA SuspendedEntries ==
  ASSUME TypeOK, NEW t \in ThreadIDs, NEW k \in DOMAIN executors[t],
         executors' = [executors EXCEPT ![t][k].stateTag = "Suspended"]
  PROVE  /\ \A u \in ThreadIDs : u # t => executors'[u] = executors[u]
         /\ DOMAIN executors'[t] = DOMAIN executors[t]
         /\ \A i \in DOMAIN executors[t] :
              /\ executors'[t][i].execId = executors[t][i].execId
              /\ executors'[t][i].stateTag =
                   IF i = k THEN "Suspended" ELSE executors[t][i].stateTag
<1> DEFINE table == executors[t]
           entry == [table[k] EXCEPT !.stateTag = "Suspended"]
           new == [table EXCEPT ![k] = entry]
<1>1. executors' = [executors EXCEPT ![t] = new]
  OBVIOUS
<1>2. table \in Seq(ExecutorStates) /\ table[k] \in ExecutorStates
  BY ElementOfSeq, LenProperties DEF TypeOK
<1>3. entry.execId = table[k].execId /\ entry.stateTag = "Suspended"
  BY <1>2 DEF ExecutorStates
<1> HIDE DEF entry
<1>4. /\ DOMAIN new = DOMAIN table
      /\ \A i \in DOMAIN table : new[i] = IF i = k THEN entry ELSE table[i]
  BY <1>2
<1> HIDE DEF new
<1>5. executors'[t] = new /\ \A u \in ThreadIDs : u # t => executors'[u] = executors[u]
  BY <1>1 DEF TypeOK
<1> QED
  BY <1>3, <1>4, <1>5

\* A removal keeps the entries other than the one the index leads to.
LEMMA UnlistedEntries ==
  ASSUME TypeOK, NEW t \in ThreadIDs, NEW e \in ExecutorIDs,
         signalMap[t][e] \in DOMAIN executors[t], Unlist(t, e)
  PROVE  LET at == signalMap[t][e]
             last == Len(executors[t])
         IN
         /\ \A u \in ThreadIDs : u # t => executors'[u] = executors[u]
         /\ last \in Nat /\ at \in 1 .. last /\ DOMAIN executors[t] = 1 .. last
         /\ DOMAIN executors'[t] = 1 .. last - 1
         /\ \A i \in 1 .. last - 1 :
              executors'[t][i] = IF i = at THEN executors[t][last] ELSE executors[t][i]
         /\ deInitialised' = deInitialised \cup {executors[t][at].execId}
         /\ \A u \in ThreadIDs, x \in ExecutorIDs :
              signalMap'[u][x] =
                IF u # t THEN signalMap[u][x]
                ELSE IF x = e THEN 0
                ELSE IF at # last /\ x = executors[t][at].execId THEN at
                ELSE signalMap[t][x]
<1> DEFINE at == signalMap[t][e]
           last == Len(executors[t])
<1> DEFINE table == executors[t]
           moved == [table EXCEPT ![at] = table[last]]
           new == SubSeq(moved, 1, last - 1)
           index == [x \in ExecutorIDs |->
                       IF x = e THEN 0
                       ELSE IF at # last /\ x = table[at].execId THEN at
                       ELSE signalMap[t][x]]
<1>1. table \in Seq(ExecutorStates) /\ DOMAIN table = 1 .. last /\ last \in Nat
  BY LenProperties DEF TypeOK
<1>2. at \in 1 .. last /\ last \in 1 .. last
  BY <1>1
<1>3. table[last] \in ExecutorStates
  BY <1>1, <1>2, ElementOfSeq
<1>4. /\ executors' = [executors EXCEPT ![t] = new]
      /\ signalMap' = [signalMap EXCEPT ![t] = index]
      /\ deInitialised' = deInitialised \cup {table[at].execId}
  BY DEF Unlist
<1>5. /\ moved \in Seq(ExecutorStates) /\ Len(moved) = last
      /\ \A i \in 1 .. last : moved[i] = IF i = at THEN table[last] ELSE table[i]
  <2>1. moved \in Seq(ExecutorStates) /\ Len(moved) = last
    BY <1>1, <1>2, <1>3, ExceptSeq
  <2> QED
    BY <1>1, <2>1
<1> HIDE DEF moved
<1>6. /\ DOMAIN new = 1 .. last - 1
      /\ \A i \in 1 .. last - 1 : new[i] = moved[i]
  <2>1. \A i \in 1 .. last - 1 : moved[i] \in ExecutorStates
    BY <1>1, <1>5, ElementOfSeq
  <2>2. /\ new \in Seq(ExecutorStates)
        /\ Len(new) = IF 1 <= last - 1 THEN (last - 1) - 1 + 1 ELSE 0
        /\ \A i \in 1 .. (last - 1) - 1 + 1 : new[i] = moved[1 + i - 1]
    BY <1>1, <2>1, SubSeqProperties
  <2>3. Len(new) = last - 1 /\ (last - 1) - 1 + 1 = last - 1
    BY <1>1, <1>2, <2>2
  <2>4. DOMAIN new = 1 .. last - 1
    BY <2>2, <2>3, LenProperties
  <2>5. \A i \in 1 .. last - 1 : 1 + i - 1 = i
    BY <1>1
  <2> QED
    BY <2>2, <2>3, <2>4, <2>5
<1> HIDE DEF new
<1>7. executors'[t] = new /\ \A u \in ThreadIDs : u # t => executors'[u] = executors[u]
  BY <1>4 DEF TypeOK
<1>8. \A u \in ThreadIDs, x \in ExecutorIDs :
        signalMap'[u][x] = IF u # t THEN signalMap[u][x] ELSE index[x]
  <2> HIDE DEF index
  <2> QED
    BY <1>4 DEF TypeOK
<1>9. \A i \in 1 .. last - 1 : new[i] = IF i = at THEN table[last] ELSE table[i]
  BY <1>1, <1>5, <1>6
<1> QED
  BY <1>1, <1>2, <1>4, <1>6, <1>7, <1>8, <1>9

\* A table whose entries keep their executors keeps its invariant.
LEMMA SameExecutorsTable ==
  ASSUME TableInv,
         \A u \in ThreadIDs :
           /\ DOMAIN executors'[u] = DOMAIN executors[u]
           /\ \A i \in DOMAIN executors[u] :
                executors'[u][i].execId = executors[u][i].execId,
         \A u \in ThreadIDs : \A j \in DOMAIN execsToRemove'[u] :
           execsToRemove'[u][j] \in initialised,
         UNCHANGED <<nextExec, initialised, deInitialised, signalMap>>
  PROVE  TableInv'
BY DEF TableInv

\* So does one that an executor leaves.
LEMMA UnlistTable ==
  ASSUME TypeOK, TableInv, NEW t \in ThreadIDs, NEW e \in initialised,
         signalMap[t][e] \in DOMAIN executors[t], Unlist(t, e),
         UNCHANGED <<nextExec, initialised, execsToRemove>>
  PROVE  TableInv'
<1>0. e \in ExecutorIDs
  BY DEF TypeOK
<1> DEFINE at == signalMap[t][e]
           last == Len(executors[t])
<1>1.   /\ \A u \in ThreadIDs : u # t => executors'[u] = executors[u]
        /\ last \in Nat /\ at \in 1 .. last /\ DOMAIN executors[t] = 1 .. last
        /\ DOMAIN executors'[t] = 1 .. last - 1
        /\ \A i \in 1 .. last - 1 :
             executors'[t][i] = IF i = at THEN executors[t][last] ELSE executors[t][i]
        /\ deInitialised' = deInitialised \cup {executors[t][at].execId}
        /\ \A u \in ThreadIDs, x \in ExecutorIDs :
             signalMap'[u][x] =
               IF u # t THEN signalMap[u][x]
               ELSE IF x = e THEN 0
               ELSE IF at # last /\ x = executors[t][at].execId THEN at
               ELSE signalMap[t][x]
  BY <1>0, UnlistedEntries
<1> HIDE DEF at, last
<1> DEFINE old(i) == IF i = at THEN last ELSE i
<1>2. \A i \in DOMAIN executors'[t] :
        old(i) \in DOMAIN executors[t] /\ executors'[t][i] = executors[t][old(i)]
  BY <1>1
<1>3. \A i, j \in DOMAIN executors'[t] : old(i) = old(j) => i = j
  BY <1>1
<1> HIDE DEF old
<1>4. \A i \in DOMAIN executors[t] : executors[t][i].execId \in initialised
  BY DEF TableInv
<1>5. \A i, j \in DOMAIN executors[t] :
        executors[t][i].execId = executors[t][j].execId => i = j
  BY DEF TableInv
<1>6. \A u \in ThreadIDs :
        /\ \A i \in DOMAIN executors'[u] : executors'[u][i].execId \in initialised
        /\ \A i, j \in DOMAIN executors'[u] :
             executors'[u][i].execId = executors'[u][j].execId => i = j
  <2> SUFFICES ASSUME NEW u \in ThreadIDs
               PROVE  /\ \A i \in DOMAIN executors'[u] :
                           executors'[u][i].execId \in initialised
                      /\ \A i, j \in DOMAIN executors'[u] :
                           executors'[u][i].execId = executors'[u][j].execId => i = j
    OBVIOUS
  <2>1. CASE u = t
    <3>1. \A i \in DOMAIN executors'[t] : executors'[t][i].execId \in initialised
      BY <1>2, <1>4
    <3>2. \A i, j \in DOMAIN executors'[t] :
            executors'[t][i].execId = executors'[t][j].execId => i = j
      BY <1>2, <1>3, <1>5
    <3> QED
      BY <2>1, <3>1, <3>2
  <2>2. CASE u # t
    <3>1. executors'[u] = executors[u]
      BY <1>1, <2>2
    <3> QED
      BY <3>1 DEF TableInv
  <2> QED
    BY <2>1, <2>2
<1>7. \A u \in ThreadIDs, x \in ExecutorIDs : signalMap'[u][x] # 0 => x \in initialised
  BY <1>1, <1>4 DEF TableInv
<1>8. deInitialised' \subseteq initialised'
  BY <1>1, <1>4 DEF TableInv
<1>9. \A u \in ThreadIDs : \A j \in DOMAIN execsToRemove[u] :
        execsToRemove[u][j] \in initialised
  BY DEF TableInv
<1>10. \A f \in initialised : f < nextExec
  BY DEF TableInv
<1>11. /\ \A f \in initialised' : f < nextExec'
       /\ \A u \in ThreadIDs :
            /\ \A i \in DOMAIN executors'[u] : executors'[u][i].execId \in initialised'
            /\ \A j \in DOMAIN execsToRemove'[u] : execsToRemove'[u][j] \in initialised'
            /\ \A x \in ExecutorIDs : signalMap'[u][x] # 0 => x \in initialised'
  BY <1>6, <1>7, <1>9, <1>10
<1> QED
  BY <1>6, <1>8, <1>11 DEF TableInv

-----------------------------------------------------------------------------
(* The steps of a thread keep the invariant of the adds                    *)

Began(t, e) ==
  /\ executors' =
       [executors EXCEPT ![t] = Append(@, [execId |-> e, stateTag |-> "Executing"])]
  /\ signalMap' =
       [signalMap EXCEPT ![t][e] = IF @ = 0 THEN Len(executors[t]) + 1 ELSE @]
  /\ nActive' = [nActive EXCEPT ![t] = Plus(@, 1)]
  /\ initialised' = initialised \cup {e}
  /\ UNCHANGED <<deInitialised, termRequested>>

\* A thread starts: with its first executor, or it leaves at once.
LEMMA StartAdds ==
  ASSUME TypeOK, OwnershipInv, AddsInv, NEW t \in ThreadIDs, Start(t)
  PROVE  AddsInv'
<1> DEFINE e == firstExec[t]
           label == IF executors'[t] = <<>> THEN "exit" ELSE "top"
<1>1. /\ pc[t] = "start" /\ e \in ExecutorIDs
      /\ pc' = [pc EXCEPT ![t] = label]
      /\ UNCHANGED <<nextThread, nextExec, firstExec, executorMap, instructionList,
                     isDoomed, localInstructionList, execsToRemove>>
  BY DEF Start, At, TypeOK, managerVars, identityVars, mailboxVars
<1>2. /\ Pending(t, e) /\ t \in Created /\ e \notin initialised
      /\ localInstructionList[t] = <<>>
  <2>1. Pending(t, e)
    BY <1>1 DEF Pending
  <2>2. t \in Created
    BY <1>1, <2>1, PendingGiven
  <2>3. localInstructionList[t] = <<>>
    BY <1>1 DEF AddsInv, ListsInv
  <2> QED
    BY <1>1, <2>1, <2>2, <2>3 DEF AddsInv, PendingInv
<1>3. /\ AddsOnce(localInstructionList'[t])
      /\ \A f \in ExecutorIDs : TakenAdd(t, f)' => TakenAdd(t, f)
      /\ \A u \in ThreadIDs : localInstructionList'[u] = localInstructionList[u]
  BY <1>1, <1>2 DEF AddsOnce, TakenAdd
<1>4. CASE Began(t, e)
  <2>1. executors'[t] # <<>>
    BY <1>4, AppendProperties DEF Began, TypeOK, ExecutorStates, ExecutorStateTags
  <2>2. label \in {"top", "round"}
    BY <2>1
  <2>3. ~Pending(t, e)'
    <3>1. pc'[t] # "start"
      BY <1>1 DEF TypeOK
    <3>2. ~PostedAdd(t, e) /\ ~TakenAdd(t, e)
      BY <1>1, <1>2 DEF AddsInv, PendingInv
    <3>3. PostedAdd(t, e)' => PostedAdd(t, e)
      BY <1>1 DEF PostedAdd
    <3>4. firstExec'[t] = firstExec[t]
      BY <1>1
    <3> QED
      BY <1>1, <1>3, <3>1, <3>2, <3>3 DEF Pending, TakenAdd, PostedAdd
  <2> HIDE DEF label
  <2> QED
    BY <1>1, <1>2, <1>3, <1>4, <2>2, <2>3, BeginsAdds DEF Began
<1>5. CASE UNCHANGED <<tableVars, objectVars>>
  <2>1. TableInv'
    BY <1>1, <1>5 DEF AddsInv, TableInv, tableVars, objectVars
  <2>2. label # "start" /\ UNCHANGED <<executors, initialised>>
    BY <1>5 DEF tableVars, objectVars
  <2>3. localInstructionList'[t] = <<>>
    BY <1>1, <1>2
  <2> HIDE DEF label
  <2> QED
    BY <1>1, <1>2, <1>3, <2>1, <2>2, <2>3, MovesAdds
<1> QED
  BY <1>4, <1>5 DEF Start, AddLocal, Began

\* The message a thread handles is off its list.
LEMMA MessageHandled ==
  ASSUME TypeOK, NEW t \in ThreadIDs, HandleInstruction(t)
  PROVE  \E i \in DOMAIN localInstructionList[t] :
           /\ NextInstruction(t, i)
           /\ localInstructionList[t][i] \in Instructions
           /\ localInstructionList' =
                [localInstructionList EXCEPT ![t] = Without(localInstructionList[t], i)]
           /\ \/ /\ localInstructionList[t][i].execId \in ExecutorIDs
                 /\ localInstructionList[t][i] =
                      AddMessage(localInstructionList[t][i].execId)
                 /\ AddLocal(t, localInstructionList[t][i].execId)
                 /\ UNCHANGED crashed
              \/ /\ \E S \in SUBSET DOMAIN executors[t] :
                      SignalIndexes(t, S, localInstructionList[t][i].signalType)
                 /\ UNCHANGED <<signalMap, initialised, deInitialised, crashed>>
              \/ UNCHANGED <<tableVars, objectVars>>
<1>1. PICK i \in DOMAIN localInstructionList[t] :
        /\ NextInstruction(t, i)
        /\ LET msg == localInstructionList[t][i] IN
           \/ /\ msg.instructionTag = "AddExecutor"
              /\ AddLocal(t, msg.execId)
              /\ UNCHANGED crashed
           \/ /\ msg.instructionTag = "SignalExecutor"
              /\ HandleExecutorSignal(t, msg.execId, msg.signalType)
              /\ UNCHANGED <<signalMap, initialised, deInitialised>>
        /\ localInstructionList' =
             [localInstructionList EXCEPT ![t] = Without(localInstructionList[t], i)]
  BY DEF HandleInstruction, Without
<1> DEFINE msg == localInstructionList[t][i]
<1>2. msg \in Instructions
  BY ElementOfSeq, LenProperties DEF TypeOK
<1>3. CASE /\ msg.instructionTag = "AddExecutor"
           /\ AddLocal(t, msg.execId)
           /\ UNCHANGED crashed
  <2>1. msg.execId \in ExecutorIDs /\ msg = AddMessage(msg.execId)
    BY <1>2, <1>3 DEF Instructions, AddMessage
  <2> QED
    BY <1>1, <1>2, <1>3, <2>1
<1>4. CASE /\ HandleExecutorSignal(t, msg.execId, msg.signalType)
           /\ UNCHANGED <<signalMap, initialised, deInitialised>>
  <2>1. \/ /\ \E S \in SUBSET DOMAIN executors[t] : SignalIndexes(t, S, msg.signalType)
           /\ UNCHANGED crashed
        \/ UNCHANGED <<executors, nActive, termRequested>>
    <3>1. DOMAIN executors[t] \in SUBSET DOMAIN executors[t]
      OBVIOUS
    <3>2. signalMap[t][msg.execId] \in DOMAIN executors[t] =>
            {signalMap[t][msg.execId]} \in SUBSET DOMAIN executors[t]
      OBVIOUS
    <3> QED
      BY <1>4, <3>1, <3>2 DEF HandleExecutorSignal
  <2> QED
    BY <1>1, <1>2, <1>4, <2>1 DEF tableVars, objectVars
<1> QED
  BY <1>1, <1>3, <1>4

\* Handling an instruction: an add that begins its executor, one that fails, or
\* a signal.
LEMMA HandleAdds ==
  ASSUME TypeOK, OwnershipInv, AddsInv, NEW t \in ThreadIDs, HandleInstruction(t)
  PROVE  AddsInv'
<1> DEFINE list == localInstructionList[t]
<1>1. PICK i \in DOMAIN list :
        /\ list[i] \in Instructions
        /\ localInstructionList' = [localInstructionList EXCEPT ![t] = Without(list, i)]
        /\ \/ /\ list[i].execId \in ExecutorIDs /\ list[i] = AddMessage(list[i].execId)
              /\ AddLocal(t, list[i].execId)
           \/ /\ \E S \in SUBSET DOMAIN executors[t] :
                   SignalIndexes(t, S, list[i].signalType)
              /\ UNCHANGED <<signalMap, initialised, deInitialised>>
           \/ UNCHANGED <<tableVars, objectVars>>
  BY MessageHandled
<1>2. /\ pc[t] = "round" /\ pc' = pc
      /\ UNCHANGED <<nextThread, nextExec, firstExec, executorMap, instructionList,
                     isDoomed, execsToRemove>>
  BY DEF HandleInstruction, At, managerVars, identityVars, mailboxVars
<1>3. pc' = [pc EXCEPT ![t] = "round"]
  BY <1>2 DEF TypeOK
<1>4. list \in Seq(Instructions) /\ AddsOnce(list)
  BY DEF TypeOK, AddsInv, ListsInv
<1>5. /\ localInstructionList'[t] = Without(list, i)
      /\ \A u \in ThreadIDs : u # t => localInstructionList'[u] = localInstructionList[u]
  BY <1>1 DEF TypeOK
<1>6. /\ AddsOnce(localInstructionList'[t])
      /\ \A f \in ExecutorIDs : TakenAdd(t, f)' => TakenAdd(t, f)
      /\ \A f \in ExecutorIDs : list[i] = AddMessage(f) => ~TakenAdd(t, f)'
  <2>1. /\ AddsOnce(Without(list, i))
        /\ \A j \in DOMAIN Without(list, i) :
             \E k \in DOMAIN list : k # i /\ Without(list, i)[j] = list[k]
        /\ list[i].instructionTag = "AddExecutor" =>
             \A j \in DOMAIN Without(list, i) : Without(list, i)[j] # list[i]
    BY <1>4, MessagesLeft
  <2>2. \A f : list[i] = AddMessage(f) => list[i].instructionTag = "AddExecutor"
    BY DEF AddMessage
  <2> QED
    BY <1>5, <2>1, <2>2 DEF TakenAdd
<1>7. ASSUME NEW e \in ExecutorIDs, list[i] = AddMessage(e), Began(t, e)
      PROVE  AddsInv'
  <2>1. TakenAdd(t, e) /\ Pending(t, e)
    BY <1>7 DEF TakenAdd, Pending
  <2>2. ~Pending(t, e)'
    <3>1. ~PostedAdd(t, e)
      BY <2>1 DEF AddsInv, PendingInv
    <3>2. PostedAdd(t, e)' => PostedAdd(t, e)
      BY <1>2 DEF PostedAdd
    <3>3. ~TakenAdd(t, e)' /\ pc'[t] # "start"
      BY <1>2, <1>6, <1>7
    <3> QED
      BY <3>1, <3>2, <3>3 DEF Pending, PostedAdd, TakenAdd
  <2> QED
    BY <1>2, <1>3, <1>5, <1>6, <1>7, <2>1, <2>2, BeginsAdds DEF Began
<1>8. ASSUME TableInv', UNCHANGED initialised,
             \A u \in ThreadIDs : executors[u] = <<>> => executors'[u] = <<>>
      PROVE  AddsInv'
  BY <1>2, <1>3, <1>5, <1>6, <1>8, MovesAdds
<1>9. CASE UNCHANGED <<tableVars, objectVars>>
  <2>1. TableInv'
    BY <1>2, <1>9 DEF AddsInv, TableInv, tableVars, objectVars
  <2> QED
    BY <1>8, <1>9, <2>1 DEF tableVars, objectVars
<1>10. ASSUME NEW S \in SUBSET DOMAIN executors[t], NEW type, SignalIndexes(t, S, type),
              UNCHANGED <<signalMap, initialised, deInitialised>>
       PROVE  AddsInv'
  <2>1. \A u \in ThreadIDs :
          /\ DOMAIN executors'[u] = DOMAIN executors[u]
          /\ \A j \in DOMAIN executors[u] :
               executors'[u][j].execId = executors[u][j].execId
    BY <1>10, SignalledEntries
  <2>2. \A u \in ThreadIDs : \A j \in DOMAIN execsToRemove'[u] :
          execsToRemove'[u][j] \in initialised
    BY <1>2 DEF AddsInv, TableInv
  <2>3. TableInv'
    BY <1>2, <1>10, <2>1, <2>2, SameExecutorsTable DEF AddsInv
  <2>4. \A u \in ThreadIDs : executors[u] = <<>> => executors'[u] = <<>>
    <3>1. \A u \in ThreadIDs : u # t => executors'[u] = executors[u]
      BY <1>10, SignalledEntries
    <3>2. executors'[t] \in Seq(ExecutorStates) /\ executors[t] \in Seq(ExecutorStates)
      BY <1>10, SignalIndexesType DEF TypeOK
    <3>3. executors[t] = <<>> => executors'[t] = <<>>
      BY <2>1, <3>2, EmptySeq, LenProperties
    <3> QED
      BY <3>1, <3>3
  <2> QED
    BY <1>8, <1>10, <2>3, <2>4
<1> QED
  BY <1>1, <1>7, <1>9, <1>10 DEF AddLocal, Began

\* Taking the instructions moves the adds from one list to the other.
LEMMA TakeAdds ==
  ASSUME TypeOK, AddsInv, NEW t \in ThreadIDs, TakeInstructions(t)
  PROVE  AddsInv'
<1>1. /\ pc[t] = "top" /\ pc' = [pc EXCEPT ![t] = "round"]
      /\ localInstructionList' = [localInstructionList EXCEPT ![t] = instructionList[t]]
      /\ instructionList' = [instructionList EXCEPT ![t] = <<>>]
      /\ UNCHANGED <<nextThread, nextExec, firstExec, executorMap, isDoomed,
                     initialised, deInitialised, executors, signalMap, execsToRemove>>
  BY DEF TakeInstructions, At, managerVars, identityVars, tableVars, objectVars
<1>2. localInstructionList[t] = <<>>
  BY <1>1 DEF AddsInv, ListsInv
<1>3. /\ pc'[t] = "round" /\ localInstructionList'[t] = instructionList[t]
      /\ instructionList'[t] = <<>>
  BY <1>1 DEF TypeOK
<1>4. \A u \in ThreadIDs : u # t =>
        /\ pc'[u] = pc[u] /\ localInstructionList'[u] = localInstructionList[u]
        /\ instructionList'[u] = instructionList[u]
  BY <1>1 DEF TypeOK
<1>5. \A e \in ExecutorIDs :
        /\ ~TakenAdd(t, e) /\ ~PostedAdd(t, e)'
        /\ TakenAdd(t, e)' <=> PostedAdd(t, e)
        /\ Pending(t, e)' => Pending(t, e)
  BY <1>2, <1>3 DEF TakenAdd, PostedAdd, Pending
<1>6. \A u \in ThreadIDs, e \in ExecutorIDs : u # t =>
        /\ PostedAdd(u, e)' <=> PostedAdd(u, e)
        /\ TakenAdd(u, e)' <=> TakenAdd(u, e)
        /\ Pending(u, e)' <=> Pending(u, e)
  BY <1>1, <1>4 DEF TakenAdd, PostedAdd, Pending
<1>7. FirstsInv' /\ MapInv' /\ TableInv'
  BY <1>1 DEF AddsInv, FirstsInv, MapInv, TableInv, Created
<1>8. PendingInv'
  <2> SUFFICES ASSUME NEW u \in ThreadIDs, NEW e \in ExecutorIDs
               PROVE  /\ Pending(u, e)' => executorMap'[e] = u /\ e \notin initialised'
                      /\ PostedAdd(u, e)' \/ TakenAdd(u, e)'
                           => \A v \in Created' : firstExec'[v] # e
                      /\ ~(PostedAdd(u, e)' /\ TakenAdd(u, e)')
    BY DEF PendingInv
  <2>1. Created' = Created
    BY <1>1 DEF Created
  <2> QED
    BY <1>1, <1>5, <1>6, <2>1 DEF AddsInv, PendingInv
<1>9. ListsInv'
  <2> SUFFICES ASSUME NEW u \in ThreadIDs
               PROVE  /\ AddsOnce(instructionList'[u])
                      /\ AddsOnce(localInstructionList'[u])
                      /\ localInstructionList'[u] # <<>> => pc'[u] = "round"
    BY DEF ListsInv
  <2>1. AddsOnce(<<>>)
    BY DEF AddsOnce
  <2> QED
    BY <1>3, <1>4, <2>1 DEF AddsInv, ListsInv
<1>10. LeftInv'
  <2> SUFFICES ASSUME NEW u \in ThreadIDs, pc'[u] \in {"exit", "done"},
                      firstExec[u] \in initialised
               PROVE  /\ isDoomed[u]
                      /\ executors[u] = <<>>
                      /\ \A e \in ExecutorIDs : ~PostedAdd(u, e)'
    BY <1>1 DEF LeftInv
  <2>1. u # t
    BY <1>3
  <2> QED
    BY <1>4, <1>6, <2>1 DEF AddsInv, LeftInv
<1> QED
  BY <1>7, <1>8, <1>9, <1>10 DEF AddsInv

\* Running an executor changes no entry but its state, and asks at most for
\* the removal of one that began.
LEMMA RunAdds ==
  ASSUME TypeOK, AddsInv, NEW t \in ThreadIDs, NEW outcome \in ExecutionStates,
         RunExecutor(t, outcome)
  PROVE  AddsInv'
<1>1. /\ pc[t] \in {"round", "top"} /\ pc' = [pc EXCEPT ![t] = "round"]
      /\ UNCHANGED <<nextThread, nextExec, firstExec, executorMap, isDoomed,
                     instructionList, localInstructionList, initialised,
                     deInitialised, signalMap>>
  BY DEF RunExecutor, InRound, At, managerVars, identityVars, mailboxVars, objectVars
<1>2. PICK i \in DOMAIN executors[t] :
        \/ UNCHANGED <<executors, execsToRemove>>
        \/ /\ executors' = [executors EXCEPT ![t][i].stateTag = "Suspended"]
           /\ UNCHANGED execsToRemove
        \/ /\ execsToRemove' =
                [execsToRemove EXCEPT ![t] = Append(@, executors[t][i].execId)]
           /\ UNCHANGED executors
  BY DEF RunExecutor, Executing
<1>3. \A u \in ThreadIDs :
        /\ DOMAIN executors'[u] = DOMAIN executors[u]
        /\ \A j \in DOMAIN executors[u] : executors'[u][j].execId = executors[u][j].execId
  BY <1>2, SuspendedEntries
<1>4. \A u \in ThreadIDs : \A j \in DOMAIN execsToRemove'[u] :
        execsToRemove'[u][j] \in initialised
  <2>1. \A u \in ThreadIDs : \A j \in DOMAIN execsToRemove[u] :
          execsToRemove[u][j] \in initialised
    BY DEF AddsInv, TableInv
  <2>2. CASE execsToRemove' =
               [execsToRemove EXCEPT ![t] = Append(@, executors[t][i].execId)]
    <3> DEFINE e == executors[t][i].execId
               old == execsToRemove[t]
               new == Append(old, e)
    <3>1. old \in Seq(ExecutorIDs) /\ e \in ExecutorIDs /\ e \in initialised
      BY DEF TypeOK, AddsInv, TableInv
    <3>2. /\ DOMAIN new = 1 .. Len(old) + 1 /\ DOMAIN old = 1 .. Len(old)
          /\ Len(old) \in Nat
          /\ \A j \in 1 .. Len(old) : new[j] = old[j]
          /\ new[Len(old) + 1] = e
      BY <3>1, AppendProperties, LenProperties
    <3>3. \A j \in DOMAIN new : j \in DOMAIN old \/ j = Len(old) + 1
      BY <3>2
    <3>4. \A j \in DOMAIN new : new[j] \in initialised
      BY <2>1, <3>1, <3>2, <3>3
    <3>5. execsToRemove' = [execsToRemove EXCEPT ![t] = new]
      BY <2>2
    <3> HIDE DEF new
    <3> QED
      BY <2>1, <3>4, <3>5 DEF TypeOK
  <2> QED
    BY <1>2, <2>1, <2>2
<1>5. TableInv'
  BY <1>1, <1>3, <1>4, SameExecutorsTable DEF AddsInv
<1>6. \A u \in ThreadIDs : executors[u] = <<>> => executors'[u] = <<>>
  <2>1. executors[t] # <<>>
    BY <1>2
  <2>2. \A u \in ThreadIDs : u # t => executors'[u] = executors[u]
    BY <1>2, SuspendedEntries
  <2> QED
    BY <2>1, <2>2
<1>7. localInstructionList[t] # <<>> => pc[t] = "round"
  BY DEF AddsInv, ListsInv
<1>8. /\ AddsOnce(localInstructionList'[t])
      /\ \A f \in ExecutorIDs : TakenAdd(t, f)' => TakenAdd(t, f)
  BY <1>1 DEF AddsInv, ListsInv, TakenAdd
<1> QED
  BY <1>1, <1>5, <1>6, <1>7, <1>8, MovesAdds

\* The removal of an executor from the table.
LEMMA RemoveExecutorAdds ==
  ASSUME TypeOK, AddsInv, NEW t \in ThreadIDs, RemoveExecutor(t)
  PROVE  AddsInv'
<1> DEFINE e == execsToRemove[t][cursor[t] + 1]
           at == signalMap[t][e]
<1>1. /\ pc[t] = "remove" /\ pc' = pc
      /\ UNCHANGED <<nextThread, nextExec, firstExec, executorMap, isDoomed,
                     instructionList, localInstructionList, initialised, execsToRemove>>
  BY DEF RemoveExecutor, At, managerVars, identityVars, mailboxVars
<1>2. e \in initialised
  <2>1. execsToRemove[t] \in Seq(ExecutorIDs) /\ cursor[t] \in Nat
    BY DEF TypeOK
  <2>2. cursor[t] + 1 \in DOMAIN execsToRemove[t]
    BY <2>1, LenProperties DEF RemoveExecutor
  <2> QED
    BY <2>2 DEF AddsInv, TableInv
<1>3. TableInv'
  <2>1. CASE at \in DOMAIN executors[t]
    BY <1>1, <1>2, <2>1, UnlistTable DEF RemoveExecutor, AddsInv
  <2>2. CASE at \notin DOMAIN executors[t]
    BY <1>1, <2>2 DEF RemoveExecutor, AddsInv, TableInv, tableVars
  <2> QED
    BY <2>1, <2>2
<1>4. \A u \in ThreadIDs : executors[u] = <<>> => executors'[u] = <<>>
  <2>1. CASE at \in DOMAIN executors[t]
    <3>1. e \in ExecutorIDs
      BY <1>2 DEF TypeOK
    <3>2. \A u \in ThreadIDs : u # t => executors'[u] = executors[u]
      BY <2>1, <3>1, UnlistedEntries DEF RemoveExecutor
    <3>3. executors[t] # <<>>
      BY <2>1
    <3> QED
      BY <3>2, <3>3
  <2>2. CASE at \notin DOMAIN executors[t]
    BY <2>2 DEF RemoveExecutor, tableVars
  <2> QED
    BY <2>1, <2>2
<1>5. /\ AddsOnce(localInstructionList'[t])
      /\ \A f \in ExecutorIDs : TakenAdd(t, f)' => TakenAdd(t, f)
      /\ localInstructionList'[t] = <<>>
  BY <1>1 DEF AddsInv, ListsInv, TakenAdd
<1>6. pc' = [pc EXCEPT ![t] = "remove"]
  BY <1>1 DEF TypeOK
<1> QED
  BY <1>1, <1>3, <1>4, <1>5, <1>6, MovesAdds

\* The rest of the loop.
LEMMA LoopAdds ==
  ASSUME TypeOK, AddsInv, NEW t \in ThreadIDs,
         \/ EndRound(t) \/ RemoveExecutors(t) \/ GoIdle(t) \/ WakeUp(t) \/ RemoveThread(t)
  PROVE  AddsInv'
<1> USE DEF managerVars, identityVars, mailboxVars, loopVars, tableVars, objectVars
<1>1. /\ pc[t] \in {"remove", "idle", "top", "waiting", "exit"}
           \/ (pc[t] = "round" /\ localInstructionList[t] = <<>>)
      /\ UNCHANGED <<nextThread, nextExec, firstExec, instructionList, isDoomed,
                     localInstructionList, initialised, deInitialised, executors,
                     signalMap>>
  BY DEF EndRound, RemoveExecutors, GoIdle, WakeUp, RemoveThread, RoundOver, InRound, At
<1>2. localInstructionList'[t] = <<>>
  BY <1>1 DEF AddsInv, ListsInv
<1>3. /\ AddsOnce(localInstructionList'[t])
      /\ \A f \in ExecutorIDs : TakenAdd(t, f)' => TakenAdd(t, f)
  BY <1>1 DEF AddsInv, ListsInv, TakenAdd
<1>4. PICK label :
        /\ label # "start" /\ pc' = [pc EXCEPT ![t] = label]
        /\ label \in {"exit", "done"} =>
             \/ pc[t] \in {"exit", "done"}
             \/ isDoomed[t] /\ executors[t] = <<>> /\ instructionList[t] = <<>>
  <2>1. CASE EndRound(t)
    <3> DEFINE label == "remove"
    <3>1. pc' = [pc EXCEPT ![t] = label]
      BY <2>1 DEF EndRound
    <3>2. label # "start" /\ label \notin {"exit", "done"}
      OBVIOUS
    <3> HIDE DEF label
    <3> QED
      BY <3>1, <3>2
  <2>2. CASE RemoveExecutors(t)
    <3> DEFINE label == "idle"
    <3>1. pc' = [pc EXCEPT ![t] = label]
      BY <2>2 DEF RemoveExecutors
    <3>2. label # "start" /\ label \notin {"exit", "done"}
      OBVIOUS
    <3> HIDE DEF label
    <3> QED
      BY <3>1, <3>2
  <2>3. CASE GoIdle(t)
    <3> DEFINE label == IF nActive[t] # 0 THEN "top"
                        ELSE IF ShouldRun(t) THEN "waiting" ELSE "exit"
    <3>1. pc' = [pc EXCEPT ![t] = label]
      BY <2>3 DEF GoIdle
    <3>2. label # "start" /\ label # "done"
      OBVIOUS
    <3>3. label = "exit" => ~ShouldRun(t)
      OBVIOUS
    <3> HIDE DEF label
    <3> QED
      BY <3>1, <3>2, <3>3 DEF ShouldRun
  <2>4. CASE WakeUp(t)
    <3> DEFINE label == IF ShouldRun(t) THEN "top" ELSE "exit"
    <3>1. pc' = [pc EXCEPT ![t] = label]
      BY <2>4 DEF WakeUp
    <3>2. label # "start" /\ label # "done"
      OBVIOUS
    <3>3. label = "exit" => ~ShouldRun(t)
      OBVIOUS
    <3> HIDE DEF label
    <3> QED
      BY <3>1, <3>2, <3>3 DEF ShouldRun
  <2>5. CASE RemoveThread(t)
    BY <2>5 DEF RemoveThread, At
  <2> QED
    BY <2>1, <2>2, <2>3, <2>4, <2>5
<1>5. \A e \in ExecutorIDs :
        \/ executorMap'[e] = executorMap[e]
        \/ executorMap'[e] = NoThread /\ e \in initialised
  <2>1. CASE RemoveExecutors(t)
    BY <2>1 DEF RemoveExecutors, WithoutExecutors, AddsInv, TableInv
  <2>2. CASE ~RemoveExecutors(t)
    BY <2>2 DEF EndRound, GoIdle, WakeUp, RemoveThread
  <2> QED
    BY <2>1, <2>2
<1>6. TableInv'
  <2>1. \A u \in ThreadIDs : \A j \in DOMAIN execsToRemove'[u] :
          execsToRemove'[u][j] \in initialised
    <3>1. \A u \in ThreadIDs : execsToRemove'[u] = execsToRemove[u] \/ execsToRemove'[u] = <<>>
      BY DEF EndRound, RemoveExecutors, GoIdle, WakeUp, RemoveThread, TypeOK
    <3> QED
      BY <3>1 DEF AddsInv, TableInv
  <2> QED
    BY <1>1, <2>1, SameExecutorsTable DEF AddsInv
<1> QED
  BY <1>1, <1>2, <1>3, <1>4, <1>5, <1>6, MovesAdds

\* The invariant of the adds holds of every behaviour.
THEOREM AddsCorrect == Spec => []AddsInv
<1>1. Init => AddsInv
  <2> SUFFICES ASSUME Init PROVE AddsInv
    OBVIOUS
  <2>1. Created = {}
    BY DEF Init, Created
  <2>2. \A t \in ThreadIDs, e \in ExecutorIDs :
          ~PostedAdd(t, e) /\ ~TakenAdd(t, e) /\ ~Pending(t, e)
    BY DEF Init, PostedAdd, TakenAdd, Pending
  <2>3. FirstsInv /\ MapInv /\ PendingInv
    BY <2>1, <2>2 DEF Init, FirstsInv, MapInv, PendingInv
  <2>4. ListsInv
    BY DEF Init, ListsInv, AddsOnce
  <2>5. TableInv
    BY DEF Init, TableInv
  <2>6. LeftInv
    BY DEF Init, LeftInv
  <2> QED
    BY <2>3, <2>4, <2>5, <2>6 DEF AddsInv
<1>2. TypeOK /\ OwnershipInv /\ AddsInv /\ [Next]_vars => AddsInv'
  <2> SUFFICES ASSUME TypeOK, OwnershipInv, AddsInv, [Next]_vars PROVE AddsInv'
    OBVIOUS
  <2>1. ASSUME NEW t \in ThreadIDs, ThreadStep(t)
        PROVE  AddsInv'
    BY <2>1, StartAdds, TakeAdds, HandleAdds, RunAdds, RemoveExecutorAdds, LoopAdds
    DEF ThreadStep
  <2>2. CASE Clients \/ RunLoopReturn \/ Destroy \/ UNCHANGED vars
    BY <2>2, AddExecutorAdds, ManagerAdds DEF Clients
  <2> QED
    BY <2>1, <2>2 DEF Next
<1> QED
  BY <1>1, <1>2, TypeCorrect, OwnershipCorrect, PTL DEF Spec

\* A thread that served its first executor leaves with no accepted executor,
\* also if others did not start.
LEMMA ServedThreads ==
  ASSUME TypeOK, AddsInv, NEW t \in ThreadIDs, NEW e \in ExecutorIDs,
         pc[t] \in {"exit", "done"}, firstExec[t] \in initialised
  PROVE  ~AddPending(t, e) /\ ~Listed(t, e)
<1>1. executors[t] = <<>> /\ ~PostedAdd(t, e) /\ localInstructionList[t] = <<>>
  BY DEF AddsInv, LeftInv, ListsInv
<1>2. ~Listed(t, e)
  BY <1>1 DEF Listed
<1>3. ~AddPending(t, e)
  BY <1>1 DEF AddPending, AddsTaken, PostedAdd
<1> QED
  BY <1>2, <1>3

\* A thread past its start has served its first executor, if every Init succeeds.
Served ==
  \A t \in ThreadIDs : pc[t] \notin {"none", "start"} => firstExec[t] \in initialised

\* It did so in its first step; a new thread is still to take it.
LEMMA FirstServed ==
  ASSUME ~InitMayFail
  PROVE  Spec => []Served
<1>1. Init => Served
  BY DEF Init, Served
<1>2. TypeOK /\ Served /\ [Next]_vars => Served'
  <2> SUFFICES ASSUME TypeOK, Served, [Next]_vars PROVE Served'
    OBVIOUS
  <2>1. ASSUME NEW t \in ThreadIDs, Start(t)
        PROVE  Served'
    <3>1. firstExec[t] \in initialised' /\ initialised \subseteq initialised'
      BY <2>1 DEF Start, AddLocal
    <3>2. firstExec' = firstExec /\ \A u \in ThreadIDs \ {t} : pc'[u] = pc[u]
      BY <2>1 DEF Start, identityVars, TypeOK
    <3> QED
      BY <3>1, <3>2 DEF Served
  <2>2. ASSUME NEW t \in ThreadIDs, ThreadStep(t), ~Start(t)
        PROVE  Served'
    <3>1. firstExec' = firstExec /\ initialised \subseteq initialised'
      BY <2>2 DEF ThreadStep, TakeInstructions, HandleInstruction, AddLocal,
         HandleExecutorSignal, SignalIndexes, RunExecutor, EndRound, RemoveExecutor, Unlist,
         RemoveExecutors, GoIdle, WakeUp, RemoveThread, identityVars, objectVars
    <3>2. pc[t] \notin {"none", "start"}
      BY <2>2 DEF ThreadStep, TakeInstructions, HandleInstruction, RunExecutor, EndRound,
         InRound, RoundOver, RemoveExecutor, RemoveExecutors, GoIdle, WakeUp, RemoveThread, At
    <3>3. \A u \in ThreadIDs \ {t} : pc'[u] = pc[u]
      <4>1. CASE HandleInstruction(t) \/ RemoveExecutor(t)
                 \/ \E outcome \in ExecutionStates : RunExecutor(t, outcome)
        BY <4>1 DEF HandleInstruction, RunExecutor, RemoveExecutor, TypeOK
      <4>2. CASE TakeInstructions(t) \/ EndRound(t) \/ RemoveExecutors(t)
        BY <4>2 DEF TakeInstructions, EndRound, RemoveExecutors, TypeOK
      <4>3. CASE GoIdle(t) \/ WakeUp(t) \/ RemoveThread(t)
        BY <4>3 DEF GoIdle, WakeUp, RemoveThread, TypeOK
      <4> QED
        BY <2>2, <4>1, <4>2, <4>3 DEF ThreadStep
    <3> QED
      BY <3>1, <3>2, <3>3 DEF Served
  <2>3. CASE Clients
    <3>1. initialised' = initialised
      BY <2>3 DEF Clients, AddExecutor, DoomThread, SignalExecutor, Crash, LockShop,
         objectVars
    <3>2. \A u \in ThreadIDs : \/ pc'[u] = "start"
                               \/ pc'[u] = pc[u] /\ firstExec'[u] = firstExec[u]
      <4>1. ASSUME NEW name \in Names, NEW single \in BOOLEAN, AddExecutor(name, single)
            PROVE  \/ pc' = pc /\ firstExec' = firstExec
                   \/ StartThread(name, single)
        BY <4>1 DEF AddExecutor, AddToThread, RejectSingleton, identityVars
      <4>2. ASSUME NEW name \in Names, NEW single \in BOOLEAN, StartThread(name, single)
            PROVE  \A u \in ThreadIDs : \/ pc'[u] = "start"
                                        \/ pc'[u] = pc[u] /\ firstExec'[u] = firstExec[u]
        BY <4>2 DEF StartThread, TypeOK
      <4>3. CASE \E name \in Names : DoomThread(name)
        BY <4>3 DEF DoomThread, loopVars, identityVars
      <4>4. CASE \E e \in ExecutorIDs, type \in ClientSignals : SignalExecutor(e, type)
        BY <4>4 DEF SignalExecutor, Crash, loopVars, identityVars
      <4>5. CASE \E sendTermination \in BOOLEAN : LockShop(sendTermination)
        BY <4>5 DEF LockShop, loopVars, identityVars
      <4> QED
        BY <2>3, <4>1, <4>2, <4>3, <4>4, <4>5 DEF Clients
    <3> QED
      BY <3>1, <3>2 DEF Served
  <2>4. CASE RunLoopReturn \/ Destroy \/ UNCHANGED vars
    BY <2>4 DEF RunLoopReturn, Destroy, vars, loopVars, identityVars, objectVars, Served
  <2> QED
    BY <2>1, <2>2, <2>3, <2>4 DEF Next
<1> QED
  BY <1>1, <1>2, TypeCorrect, PTL DEF Spec

\* Where every Init succeeds no accepted executor is lost with a thread that
\* leaves its loop (ExecutionManager.cpp:94-109).
THEOREM AddsNeverLost ==
  ASSUME ~InitMayFail
  PROVE  Spec => []NoAddLost
<1>1. TypeOK /\ AddsInv /\ Served => NoAddLost
  <2> SUFFICES ASSUME TypeOK, AddsInv, Served, NEW t \in ThreadIDs, NEW e \in ExecutorIDs,
                      pc[t] \in {"exit", "done"}
               PROVE  ~AddPending(t, e) /\ ~Listed(t, e)
    BY DEF NoAddLost
  <2>1. firstExec[t] \in initialised
    BY DEF Served
  <2> QED
    BY <2>1, ServedThreads
<1> QED
  BY <1>1, TypeCorrect, AddsCorrect, FirstServed, PTL
=============================================================================
