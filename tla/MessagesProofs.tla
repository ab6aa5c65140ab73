---------------------------- MODULE MessagesProofs ----------------------------
(***************************************************************************)
(* What the parts that messages and time go through promise for any number *)
(* of senders, receivers, timers and calls: the timer thread, the          *)
(* dispatcher with its handler, and both next to the requests.             *)
(***************************************************************************)
EXTENDS MCMessages, RequestsProofs, FiniteSetTheorems

-----------------------------------------------------------------------------
(* The timer thread                                                        *)

TimerMessages ==
  [tag : {"Set"}, name : TimerNames \cup {Anonymous}, interval : Intervals,
   repeating : BOOLEAN]
  \cup [tag : {"CancelName"}, name : TimerNames] \cup [tag : {"CancelID"}, id : TimerIDs]

Definitions ==
  [id : Nat, name : TimerNames \cup {Anonymous}, interval : Intervals,
   repeating : BOOLEAN, recalibrate : BOOLEAN]

\* Intervals are counted in ticks.
LEMMA IntervalTypes == \A i \in Intervals : i \in Int
BY TimerAssumption

\* Every message is worth one index, which it may use up.
IndexesInv ==
  /\ messages \in Seq(TimerMessages) /\ msgs \in Seq(TimerMessages)
  /\ nextTimerIndex \in Nat /\ calls \in 0 .. MaxCalls
  /\ nextTimerIndex + Len(msgs) + Len(messages) <= calls

\* Indexes are used once; a definition has an entry, and an index at most one.
EntriesInv ==
  /\ timerStates \subseteq Definitions
  /\ timerPriorities \subseteq [index : Nat, left : Int]
  /\ \A t \in timerStates : t.id < nextTimerIndex
  /\ \A e \in timerPriorities : e.index < nextTimerIndex
  /\ \A t, u \in timerStates : t.id = u.id => t = u
  /\ \A e, f \in timerPriorities : e.index = f.index => e = f
  /\ \A t \in timerStates : \E e \in timerPriorities : e.index = t.id

PlacesInv == pcTimer \in {"loop", "process", "wait", "timedWait", "ended"}

TimerInv == IndexesInv /\ EntriesInv /\ PlacesInv

\* The invariant holds before the first call.
LEMMA TimerBegins == TimerInit => TimerInv
<1> SUFFICES ASSUME TimerInit PROVE TimerInv
  OBVIOUS
<1>1. /\ messages = <<>> /\ msgs = <<>> /\ nextTimerIndex = 0 /\ calls = 0
      /\ timerStates = {} /\ timerPriorities = {} /\ pcTimer = "loop"
  BY DEF TimerInit
<1>2. <<>> \in Seq(TimerMessages) /\ Len(<<>>) = 0
  BY EmptySeq
<1>3. 0 \in 0 .. MaxCalls
  BY TimerAssumption
<1>4. IndexesInv
  BY <1>1, <1>2, <1>3 DEF IndexesInv
<1> QED BY <1>1, <1>4 DEF TimerInv, EntriesInv, PlacesInv

\* Indexes are used up by messages only, and one call posts one message.
LEMMA IndexesKept ==
  ASSUME TimerInv, [TimerNext]_timerVars
  PROVE  IndexesInv'
<1> USE DEF sharedVars, localVars
<1>1. /\ messages \in Seq(TimerMessages) /\ msgs \in Seq(TimerMessages)
      /\ nextTimerIndex \in Nat /\ calls \in 0 .. MaxCalls /\ MaxCalls \in Nat
      /\ nextTimerIndex + Len(msgs) + Len(messages) <= calls
      /\ Len(msgs) \in Nat /\ Len(messages) \in Nat
  BY TimerAssumption, LenProperties DEF TimerInv, IndexesInv
<1>2. CASE UNCHANGED <<messages, msgs, nextTimerIndex, calls>>
  BY <1>1, <1>2 DEF IndexesInv
<1>3. ASSUME NEW m \in TimerMessages, PostTimerMessage(m) PROVE IndexesInv'
  <2>1. /\ messages' = Append(messages, m) /\ calls' = calls + 1 /\ calls < MaxCalls
        /\ UNCHANGED <<msgs, nextTimerIndex>>
    BY <1>3 DEF PostTimerMessage
  <2>2. Append(messages, m) \in Seq(TimerMessages)
        /\ Len(Append(messages, m)) = Len(messages) + 1
    BY <1>1, AppendProperties
  <2> QED BY <1>1, <2>1, <2>2 DEF IndexesInv
<1>4. CASE SwapMessages
  <2>1. CASE threadDoomed
    BY <1>2, <1>4, <2>1 DEF SwapMessages
  <2>2. CASE ~threadDoomed
    <3>1. msgs' = messages /\ messages' = <<>> /\ UNCHANGED <<nextTimerIndex, calls>>
      BY <1>4, <2>2 DEF SwapMessages
    <3>2. <<>> \in Seq(TimerMessages) /\ Len(<<>>) = 0
      BY EmptySeq
    <3> QED BY <1>1, <3>1, <3>2 DEF IndexesInv
  <2> QED BY <2>1, <2>2
<1>5. CASE ProcessTimerMessage
  <2>1. /\ msgs # <<>> /\ msgs' = Tail(msgs) /\ UNCHANGED <<messages, calls>>
        /\ nextTimerIndex' \in {nextTimerIndex, nextTimerIndex + 1}
    BY <1>5 DEF ProcessTimerMessage, ApplySet, ApplyCancel
  <2>2. Tail(msgs) \in Seq(TimerMessages) /\ Len(Tail(msgs)) = Len(msgs) - 1
    BY <1>1, <2>1, HeadTailProperties
  <2> QED BY <1>1, <2>1, <2>2 DEF IndexesInv
<1>6. CASE SetTimer \/ CancelTimer
  BY <1>3, <1>6 DEF SetTimer, CancelTimer, TimerMessages
<1>7. CASE DoomTimerThread \/ SpuriousWakeUp \/ Tick \/ StartWaiting \/ OnTimerDue \/ WakeUpInTime
  BY <1>2, <1>7 DEF DoomTimerThread, SpuriousWakeUp, Tick, StartWaiting, OnTimerDue, WakeUpInTime
<1>8. CASE UNCHANGED timerVars
  BY <1>2, <1>8 DEF timerVars
<1> QED BY <1>4, <1>5, <1>6, <1>7, <1>8 DEF TimerNext, TimerStep

\* A timer that is set keeps its entry or gets a fresh one.
LEMMA SetKeepsEntries ==
  ASSUME IndexesInv, EntriesInv, NEW m \in TimerMessages, ApplySet(m)
  PROVE  EntriesInv'
<1> DEFINE d(i) == [id |-> i, name |-> m.name, interval |-> m.interval,
                    repeating |-> m.repeating, recalibrate |-> TRUE]
<1>1. m.tag = "Set"
  BY DEF ApplySet
<1>2. m.name \in TimerNames \cup {Anonymous} /\ m.interval \in Intervals /\ m.repeating \in BOOLEAN
  BY <1>1 DEF TimerMessages
<1>3. m.interval \in Int /\ nextTimerIndex \in Nat
  BY <1>2, IntervalTypes DEF IndexesInv
<1>4. \A i \in Nat : d(i) \in Definitions /\ d(i).id = i
  BY <1>2 DEF Definitions
<1>5. CASE Named(m.name) # {}
  <2>1. PICK t \in timerStates : timerStates' = (timerStates \ {t}) \cup {d(t.id)}
    BY <1>5 DEF ApplySet, Named
  <2>2. UNCHANGED <<timerPriorities, nextTimerIndex>>
    BY <1>5 DEF ApplySet
  <2>3. t.id \in Nat
    BY DEF EntriesInv, Definitions
  <2>4. d(t.id) \in Definitions /\ d(t.id).id = t.id
    BY <1>4, <2>3
  <2> HIDE DEF d
  <2> QED BY <2>1, <2>2, <2>4 DEF EntriesInv
<1>6. CASE Named(m.name) = {}
  <2> DEFINE e == [index |-> nextTimerIndex, left |-> m.interval]
  <2>1. /\ timerStates' = timerStates \cup {d(nextTimerIndex)}
        /\ timerPriorities' = timerPriorities \cup {e}
        /\ nextTimerIndex' = nextTimerIndex + 1
    BY <1>6 DEF ApplySet, WithEntry
  <2>2. d(nextTimerIndex) \in Definitions /\ d(nextTimerIndex).id = nextTimerIndex
    BY <1>3, <1>4
  <2>3. e \in [index : Nat, left : Int] /\ e.index = nextTimerIndex
    BY <1>3
  <2> HIDE DEF d, e
  <2>4. \A t \in timerStates : t.id \in Nat /\ t.id < nextTimerIndex
    BY DEF EntriesInv, Definitions
  <2>5. \A f \in timerPriorities : f.index \in Nat /\ f.index < nextTimerIndex
    BY DEF EntriesInv
  <2>6. timerStates' \subseteq Definitions /\ timerPriorities' \subseteq [index : Nat, left : Int]
    BY <2>1, <2>2, <2>3 DEF EntriesInv
  <2>7. /\ \A t \in timerStates' : t.id < nextTimerIndex'
        /\ \A f \in timerPriorities' : f.index < nextTimerIndex'
    BY <1>3, <2>1, <2>2, <2>3, <2>4, <2>5
  <2>8. /\ \A t, u \in timerStates' : t.id = u.id => t = u
        /\ \A f, g \in timerPriorities' : f.index = g.index => f = g
    BY <1>3, <2>1, <2>2, <2>3, <2>4, <2>5 DEF EntriesInv
  <2>9. \A t \in timerStates' : \E f \in timerPriorities' : f.index = t.id
    BY <2>1, <2>2, <2>3 DEF EntriesInv
  <2> QED BY <2>6, <2>7, <2>8, <2>9 DEF EntriesInv
<1> QED BY <1>5, <1>6

\* A cancelled timer keeps its entry in the queue.
LEMMA CancelKeepsEntries ==
  ASSUME EntriesInv, NEW m, ApplyCancel(m)
  PROVE  EntriesInv'
<1>1. timerStates' \subseteq timerStates /\ UNCHANGED <<timerPriorities, nextTimerIndex>>
  BY DEF ApplyCancel
<1> QED BY <1>1 DEF EntriesInv

\* A beat puts the entry back, or removes timer and entry.
LEMMA BeatKeepsEntries ==
  ASSUME EntriesInv, OnTimerDue, nextTimerIndex \in Nat
  PROVE  EntriesInv'
<1>1. PICK e \in timerPriorities :
        LET known == {t \in timerStates : t.id = e.index} IN
        /\ timerStates' = (timerStates \ known)
             \cup {[t EXCEPT !.recalibrate = FALSE] : t \in {u \in known : BeatsAgain(u)}}
        /\ timerPriorities' = (timerPriorities \ {e})
             \cup {[e EXCEPT !.left = @ + t.interval] : t \in {u \in known : BeatsAgain(u)}}
  BY DEF OnTimerDue, Top
<1>2. UNCHANGED nextTimerIndex
  BY DEF OnTimerDue
<1>3. e \in [index : Nat, left : Int] /\ e.index < nextTimerIndex
  BY DEF EntriesInv
<1>4. CASE \A t \in timerStates : t.id = e.index => ~BeatsAgain(t)
  <2>1. /\ timerStates' = {t \in timerStates : t.id # e.index}
        /\ timerPriorities' = timerPriorities \ {e}
    BY <1>1, <1>4
  <2> QED BY <1>2, <2>1 DEF EntriesInv
<1>5. ASSUME NEW t \in timerStates, t.id = e.index, BeatsAgain(t)
      PROVE  EntriesInv'
  <2> DEFINE u == [t EXCEPT !.recalibrate = FALSE]
             f == [e EXCEPT !.left = @ + t.interval]
  <2>1. {v \in timerStates : v.id = e.index} = {t}
    BY <1>5 DEF EntriesInv
  <2>2. /\ timerStates' = (timerStates \ {t}) \cup {u}
        /\ timerPriorities' = (timerPriorities \ {e}) \cup {f}
    BY <1>1, <1>5, <2>1
  <2>3. t \in Definitions /\ t.interval \in Int
    BY IntervalTypes DEF EntriesInv, Definitions
  <2>4. u \in Definitions /\ u.id = t.id
    BY <2>3 DEF Definitions
  <2>5. f \in [index : Nat, left : Int] /\ f.index = e.index
    BY <1>3, <2>3
  <2> HIDE DEF u, f
  <2>6. /\ timerStates' \subseteq Definitions /\ timerPriorities' \subseteq [index : Nat, left : Int]
        /\ \A v \in timerStates' : v.id < nextTimerIndex'
        /\ \A g \in timerPriorities' : g.index < nextTimerIndex'
    BY <1>2, <1>3, <2>2, <2>4, <2>5 DEF EntriesInv
  <2>7. /\ \A v, w \in timerStates' : v.id = w.id => v = w
        /\ \A g, h \in timerPriorities' : g.index = h.index => g = h
    BY <2>2, <2>4, <2>5 DEF EntriesInv
  <2>8. \A v \in timerStates' : \E g \in timerPriorities' : g.index = v.id
    BY <1>5, <2>2, <2>4, <2>5 DEF EntriesInv
  <2> QED BY <2>6, <2>7, <2>8 DEF EntriesInv
<1> QED BY <1>4, <1>5

\* Time changes no index.
LEMMA TickKeepsEntries ==
  ASSUME EntriesInv, Tick
  PROVE  EntriesInv'
<1> DEFINE Later(e) == [e EXCEPT !.left = @ - 1]
<1>1. /\ timerPriorities' = {Later(e) : e \in timerPriorities}
      /\ UNCHANGED <<timerStates, nextTimerIndex>>
  BY DEF Tick
<1>2. \A e \in timerPriorities : Later(e) \in [index : Nat, left : Int] /\ Later(e).index = e.index
  BY DEF EntriesInv
<1> HIDE DEF Later
<1>3. \A f \in timerPriorities' : \E e \in timerPriorities : f = Later(e) /\ f.index = e.index
  BY <1>1, <1>2
<1>4. /\ timerPriorities' \subseteq [index : Nat, left : Int]
      /\ \A f \in timerPriorities' : f.index < nextTimerIndex'
  BY <1>1, <1>2, <1>3 DEF EntriesInv
<1>5. \A f, g \in timerPriorities' : f.index = g.index => f = g
  BY <1>3 DEF EntriesInv
<1>6. \A t \in timerStates' : \E f \in timerPriorities' : f.index = t.id
  BY <1>1, <1>2 DEF EntriesInv
<1> QED BY <1>1, <1>4, <1>5, <1>6 DEF EntriesInv

\* Every step keeps the invariant of the timer thread.
LEMMA TimerKept ==
  ASSUME TimerInv, [TimerNext]_timerVars
  PROVE  TimerInv'
<1> USE DEF sharedVars, localVars
<1>1. IndexesInv'
  BY IndexesKept
<1>2. IndexesInv /\ EntriesInv /\ PlacesInv /\ nextTimerIndex \in Nat
  BY DEF TimerInv, IndexesInv
<1>3. EntriesInv'
  <2>1. CASE UNCHANGED <<timerStates, timerPriorities, nextTimerIndex>>
    BY <1>2, <2>1 DEF EntriesInv
  <2>2. CASE ProcessTimerMessage
    <3>1. Head(msgs) \in TimerMessages
      BY <1>2, <2>2, HeadTailProperties DEF ProcessTimerMessage, IndexesInv
    <3> QED BY <1>2, <2>2, <3>1, SetKeepsEntries, CancelKeepsEntries DEF ProcessTimerMessage
  <2>3. CASE SetTimer \/ CancelTimer
    BY <2>1, <2>3 DEF SetTimer, CancelTimer, PostTimerMessage
  <2>4. CASE DoomTimerThread \/ SpuriousWakeUp \/ SwapMessages \/ StartWaiting \/ WakeUpInTime
    BY <2>1, <2>4 DEF DoomTimerThread, SpuriousWakeUp, SwapMessages, StartWaiting, WakeUpInTime
  <2>5. CASE UNCHANGED timerVars
    BY <2>1, <2>5 DEF timerVars
  <2> QED BY <1>2, <2>2, <2>3, <2>4, <2>5, BeatKeepsEntries, TickKeepsEntries
          DEF TimerNext, TimerStep
<1>4. PlacesInv'
  <2>1. CASE SetTimer \/ CancelTimer
    BY <1>2, <2>1 DEF SetTimer, CancelTimer, PostTimerMessage, Notified, PlacesInv
  <2>2. CASE DoomTimerThread \/ SpuriousWakeUp \/ Tick \/ TimerStep \/ UNCHANGED timerVars
    BY <1>2, <2>2 DEF DoomTimerThread, SpuriousWakeUp, Tick, TimerStep, SwapMessages,
       ProcessTimerMessage, StartWaiting, WaitForBeat, OnTimerDue, WakeUpInTime, timerVars,
       PlacesInv
  <2> QED BY <2>1, <2>2 DEF TimerNext
<1> QED BY <1>1, <1>3, <1>4 DEF TimerInv

\* What the runs check of the timer thread follows from the invariant.
LEMMA TimerMeans == TimerInv => TimerTypeOK /\ OneEntryPerTimer
<1> SUFFICES ASSUME TimerInv PROVE TimerTypeOK /\ OneEntryPerTimer
  OBVIOUS
<1>1. /\ nextTimerIndex \in Nat /\ calls \in 0 .. MaxCalls /\ MaxCalls \in Nat
      /\ Len(msgs) \in Nat /\ Len(messages) \in Nat
      /\ nextTimerIndex + Len(msgs) + Len(messages) <= calls
  BY TimerAssumption, LenProperties DEF TimerInv, IndexesInv
<1>2. nextTimerIndex \in 0 .. MaxCalls /\ \A n \in Nat : n < nextTimerIndex => n \in TimerIDs
  BY <1>1 DEF TimerIDs
<1>3. TimerTypeOK
  BY <1>2 DEF TimerInv, EntriesInv, PlacesInv, TimerTypeOK, Definitions
<1>4. ASSUME NEW t \in timerStates
      PROVE  Cardinality({e \in timerPriorities : e.index = t.id}) = 1
  <2>1. PICK e \in timerPriorities : e.index = t.id
    BY DEF TimerInv, EntriesInv
  <2>2. {f \in timerPriorities : f.index = t.id} = {e}
    BY <2>1 DEF TimerInv, EntriesInv
  <2> QED BY <2>2, FS_Singleton
<1> QED BY <1>3, <1>4 DEF OneEntryPerTimer, TimerInv, EntriesInv

\* Every timer that is set has one entry in the queue, whatever callers set and
\* cancel and however far the thread is behind; the indexes it gives out stay in
\* their range.
THEOREM TimersCorrect == TimerSpec => [](TimerTypeOK /\ OneEntryPerTimer)
<1>1. TimerInv /\ [TimerNext]_timerVars => TimerInv'
  BY TimerKept
<1> QED BY TimerBegins, <1>1, TimerMeans, PTL DEF TimerSpec

-----------------------------------------------------------------------------
(* Queues                                                                  *)

Items(q) == {q[i] : i \in DOMAIN q}

\* What a queue holds, when something is put in or taken out.
LEMMA ItemsOf ==
  ASSUME NEW S, NEW q \in Seq(S)
  PROVE  /\ Items(q) \subseteq S
         /\ \A x \in S : Append(q, x) \in Seq(S) /\ Items(Append(q, x)) = Items(q) \cup {x}
         /\ q # <<>> => /\ Head(q) \in S /\ Tail(q) \in Seq(S)
                        /\ Items(q) = Items(Tail(q)) \cup {Head(q)}
<1>1. DOMAIN q = 1 .. Len(q) /\ Len(q) \in Nat
  BY LenProperties
<1>2. Items(q) \subseteq S
  BY <1>1, ElementOfSeq DEF Items
<1>3. ASSUME NEW x \in S
      PROVE  Append(q, x) \in Seq(S) /\ Items(Append(q, x)) = Items(q) \cup {x}
  <2>1. /\ Append(q, x) \in Seq(S) /\ Len(Append(q, x)) = Len(q) + 1
        /\ \A i \in 1 .. Len(q) : Append(q, x)[i] = q[i]
        /\ Append(q, x)[Len(q) + 1] = x
    BY AppendProperties
  <2>2. DOMAIN Append(q, x) = 1 .. Len(q) + 1
    BY <2>1, LenProperties
  <2>3. 1 .. Len(q) + 1 = (1 .. Len(q)) \cup {Len(q) + 1}
    BY <1>1
  <2> QED BY <1>1, <2>1, <2>2, <2>3 DEF Items
<1>4. ASSUME q # <<>>
      PROVE  /\ Head(q) \in S /\ Tail(q) \in Seq(S)
             /\ Items(q) = Items(Tail(q)) \cup {Head(q)}
  <2>1. /\ 1 \in DOMAIN q /\ q[1] = Head(q) /\ Head(q) \in S /\ Tail(q) \in Seq(S)
        /\ \A k \in DOMAIN Tail(q) :
             k \in Nat /\ k > 0 /\ k + 1 \in DOMAIN q /\ Tail(q)[k] = q[k + 1]
        /\ \A l \in DOMAIN q :
             l \in Nat /\ (l # 1 => l - 1 \in DOMAIN Tail(q) /\ Tail(q)[l - 1] = q[l])
    BY <1>4, Taken
  <2> DEFINE r == Tail(q)
  <2>2. ASSUME NEW x \in Items(q) PROVE x \in Items(r) \cup {Head(q)}
    <3>1. PICK l \in DOMAIN q : x = q[l]
      BY DEF Items
    <3>2. l # 1 => x = r[l - 1] /\ l - 1 \in DOMAIN r
      BY <2>1, <3>1
    <3> QED BY <2>1, <3>1, <3>2 DEF Items
  <2>3. ASSUME NEW x \in Items(r) PROVE x \in Items(q)
    BY <2>1 DEF Items
  <2>4. Head(q) \in Items(q)
    BY <2>1 DEF Items
  <2> QED BY <2>1, <2>2, <2>3, <2>4
<1> QED BY <1>2, <1>3, <1>4

\* An empty queue holds nothing.
LEMMA NoItems == Items(<<>>) = {}
BY DEF Items

\* Two queues one behind the other, when something is put in behind.
LEMMA PutBehind ==
  ASSUME NEW S, NEW p \in Seq(S), NEW q \in Seq(S), NEW x \in S
  PROVE  /\ Len(p \o q) \in Nat /\ DOMAIN (p \o q) = 1 .. Len(p \o q)
         /\ Len(p \o q) = Len(p) + Len(q) /\ p \o q \in Seq(S)
         /\ DOMAIN (p \o Append(q, x)) = 1 .. Len(p \o q) + 1
         /\ \A i \in 1 .. Len(p \o q) : (p \o Append(q, x))[i] = (p \o q)[i]
         /\ (p \o Append(q, x))[Len(p \o q) + 1] = x
<1>1. Len(p) \in Nat /\ Len(q) \in Nat
  BY LenProperties
<1>2. /\ Append(q, x) \in Seq(S) /\ Len(Append(q, x)) = Len(q) + 1
      /\ \A i \in 1 .. Len(q) : Append(q, x)[i] = q[i]
      /\ Append(q, x)[Len(q) + 1] = x
  BY AppendProperties
<1> DEFINE r == Append(q, x)
<1> HIDE DEF r
<1>3. r \in Seq(S)
  BY <1>2 DEF r
<1>4. /\ p \o q \in Seq(S) /\ Len(p \o q) = Len(p) + Len(q)
      /\ \A i \in 1 .. Len(p) + Len(q) :
           (p \o q)[i] = IF i <= Len(p) THEN p[i] ELSE q[i - Len(p)]
  BY ConcatProperties
<1>5. /\ p \o r \in Seq(S) /\ Len(p \o r) = Len(p) + Len(r)
      /\ \A i \in 1 .. Len(p) + Len(r) :
           (p \o r)[i] = IF i <= Len(p) THEN p[i] ELSE r[i - Len(p)]
  BY <1>3, ConcatProperties
<1>6. /\ DOMAIN (p \o q) = 1 .. Len(p \o q)
      /\ DOMAIN (p \o r) = 1 .. Len(p \o r)
  BY <1>4, <1>5, LenProperties
<1>7. /\ Len(r) = Len(q) + 1 /\ \A i \in 1 .. Len(q) : r[i] = q[i]
      /\ r[Len(q) + 1] = x
  BY <1>2 DEF r
<1>8. ASSUME NEW i \in 1 .. Len(p \o q)
      PROVE  (p \o r)[i] = (p \o q)[i]
  <2>1. /\ (p \o q)[i] = IF i <= Len(p) THEN p[i] ELSE q[i - Len(p)]
        /\ (p \o r)[i] = IF i <= Len(p) THEN p[i] ELSE r[i - Len(p)]
    BY <1>1, <1>4, <1>5, <1>7
  <2>2. ~(i <= Len(p)) => i - Len(p) \in 1 .. Len(q)
    BY <1>1, <1>4
  <2> QED BY <1>7, <2>1, <2>2
<1>9. (p \o r)[Len(p \o q) + 1] = x
  BY <1>1, <1>4, <1>5, <1>7
<1> QED BY <1>1, <1>4, <1>5, <1>6, <1>7, <1>8, <1>9 DEF r

\* The same when the first is taken out.
LEMMA TakenInFront ==
  ASSUME NEW S, NEW p \in Seq(S), NEW q \in Seq(S), p # <<>>
  PROVE  /\ Len(p \o q) \in Nat \ {0} /\ DOMAIN (p \o q) = 1 .. Len(p \o q)
         /\ (p \o q)[1] = Head(p) /\ p \o q \in Seq(S)
         /\ DOMAIN (Tail(p) \o q) = 1 .. Len(p \o q) - 1
         /\ \A i \in 1 .. Len(p \o q) - 1 : (Tail(p) \o q)[i] = (p \o q)[i + 1]
<1>1. Len(p) \in Nat \ {0} /\ Len(q) \in Nat
  BY LenProperties, EmptySeq
<1>2. /\ Tail(p) \in Seq(S) /\ Len(Tail(p)) = Len(p) - 1 /\ Head(p) = p[1]
      /\ \A i \in 1 .. Len(p) - 1 : Tail(p)[i] = p[i + 1]
  BY <1>1, HeadTailProperties
<1> DEFINE r == Tail(p)
<1> HIDE DEF r
<1>3. r \in Seq(S)
  BY <1>2 DEF r
<1>4. /\ p \o q \in Seq(S) /\ Len(p \o q) = Len(p) + Len(q)
      /\ \A i \in 1 .. Len(p) + Len(q) :
           (p \o q)[i] = IF i <= Len(p) THEN p[i] ELSE q[i - Len(p)]
  BY ConcatProperties
<1>5. /\ r \o q \in Seq(S) /\ Len(r \o q) = Len(r) + Len(q)
      /\ \A i \in 1 .. Len(r) + Len(q) :
           (r \o q)[i] = IF i <= Len(r) THEN r[i] ELSE q[i - Len(r)]
  BY <1>3, ConcatProperties
<1>6. /\ DOMAIN (p \o q) = 1 .. Len(p \o q)
      /\ DOMAIN (r \o q) = 1 .. Len(r \o q)
  BY <1>4, <1>5, LenProperties
<1>7. Len(r) = Len(p) - 1 /\ \A i \in 1 .. Len(p) - 1 : r[i] = p[i + 1]
  BY <1>2 DEF r
<1>8. ASSUME NEW i \in 1 .. Len(p \o q) - 1
      PROVE  (r \o q)[i] = (p \o q)[i + 1]
  <2>1. /\ (r \o q)[i] = IF i <= Len(r) THEN r[i] ELSE q[i - Len(r)]
        /\ (p \o q)[i + 1] = IF i + 1 <= Len(p) THEN p[i + 1] ELSE q[i + 1 - Len(p)]
    BY <1>1, <1>4, <1>5, <1>7
  <2>2. i \in Nat /\ i - Len(r) = i + 1 - Len(p) /\ (i <= Len(r) <=> i + 1 <= Len(p))
    BY <1>1, <1>4, <1>7
  <2>3. i <= Len(r) => r[i] = p[i + 1]
    BY <1>1, <1>7, <2>2
  <2> QED BY <2>1, <2>2, <2>3
<1>9. (p \o q)[1] = Head(p)
  BY <1>1, <1>2, <1>4
<1> QED BY <1>1, <1>4, <1>5, <1>6, <1>7, <1>8, <1>9 DEF r

\* An empty queue in front of another, or behind it, makes no difference.
LEMMA SameQueue ==
  ASSUME NEW S, NEW q \in Seq(S)
  PROVE  /\ DOMAIN (<<>> \o q) = DOMAIN q /\ \A i \in DOMAIN q : (<<>> \o q)[i] = q[i]
         /\ DOMAIN (q \o <<>>) = DOMAIN q /\ \A i \in DOMAIN q : (q \o <<>>)[i] = q[i]
<1>1. <<>> \in Seq(S) /\ Len(<<>>) = 0 /\ Len(q) \in Nat /\ DOMAIN q = 1 .. Len(q)
  BY LenProperties, EmptySeq
<1> DEFINE e == <<>>
<1> HIDE DEF e
<1>2. e \in Seq(S) /\ Len(e) = 0
  BY <1>1 DEF e
<1>3. /\ e \o q \in Seq(S) /\ Len(e \o q) = Len(e) + Len(q)
      /\ \A i \in 1 .. Len(e) + Len(q) : (e \o q)[i] = IF i <= Len(e) THEN e[i] ELSE q[i - Len(e)]
      /\ q \o e \in Seq(S) /\ Len(q \o e) = Len(q) + Len(e)
      /\ \A i \in 1 .. Len(q) + Len(e) : (q \o e)[i] = IF i <= Len(q) THEN q[i] ELSE e[i - Len(q)]
  BY <1>2, ConcatProperties
<1>4. DOMAIN (e \o q) = 1 .. Len(q) /\ DOMAIN (q \o e) = 1 .. Len(q)
  BY <1>1, <1>2, <1>3, LenProperties
<1>5. \A i \in 1 .. Len(q) : (e \o q)[i] = q[i] /\ (q \o e)[i] = q[i]
  BY <1>1, <1>2, <1>3
<1> QED BY <1>1, <1>4, <1>5 DEF e

-----------------------------------------------------------------------------
(* The dispatcher: types and counts                                        *)

Mails == [from : Senders, n : Nat, to : ReceiverIDs, early : BOOLEAN]
Creations == [id : ReceiverIDs, dispatch : {0} \cup ClientIDs, early : BOOLEAN]
Removals == [id : ReceiverIDs, early : BOOLEAN]

\* What the queues hold; nothing taken is left between two runs.
QueuesInv ==
  /\ queue \in Seq(Mails) /\ localQueue \in Seq(Mails)
  /\ createQueue \in Seq(Creations) /\ localCreateQueue \in Seq(Creations)
  /\ removeQueue \in Seq(Removals) /\ localRemoveQueue \in Seq(Removals)
  /\ pcRun \in {"idle", "work"}
  /\ pcRun = "idle" =>
       localQueue = <<>> /\ localCreateQueue = <<>> /\ localRemoveQueue = <<>>

\* Receivers and clients are numbered on their own, a client needs a receiver.
NumbersInv ==
  /\ freeRcvId \in 0 .. MaxReceivers
  /\ freeClientID \in Nat \ {0} /\ freeClientID <= freeRcvId + 1
  /\ receiverMap \in [ReceiverIDs -> {NoDispatch, 0} \cup ClientIDs]
  /\ defaultReceiver \in ReceiverIDs \cup {NoReceiver}
  /\ clientMap \in [ClientIDs -> ReceiverIDs \cup {NoReceiver}]
  /\ removed \subseteq ReceiverIDs

\* The executor's entry, and the senders.
SendersInv ==
  /\ tag \in {"none", "executing", "suspended", "gone"}
  /\ signals \subseteq {"WakeUp", "RequestTermination"}
  /\ pcSend \in [Senders -> ReceiverIDs \cup {NoReceiver}]
  /\ posted \in [Senders -> Nat] /\ handled \in [Senders -> Nat]
  /\ baseSize \in Nat

DispatcherTypes == QueuesInv /\ NumbersInv /\ SendersInv

\* Senders between the count and the queue.
Posting == {s \in Senders : pcSend[s] # NoReceiver}

\* Finitely many senders are inside SendMessage at a time.
CountsInv == TotalSizeCounts /\ IsFiniteSet(Posting)

\* Numbers of receivers are numbers.
LEMMA ReceiverNumbers ==
  /\ MaxReceivers \in Nat \ {0}
  /\ ReceiverIDs \subseteq Nat /\ NoReceiver \notin ReceiverIDs
  /\ NoDispatch \notin {0} \cup ClientIDs /\ ClientIDs \subseteq Nat \ {0}
  /\ \A r \in 0 .. MaxReceivers : r < MaxReceivers => r \in ReceiverIDs
  /\ \A d \in Nat \ {0} : d <= MaxReceivers => d \in ClientIDs
BY DispatcherAssumption DEF ReceiverIDs, NoReceiver, NoDispatch, ClientIDs

\* The invariants hold at the start.
LEMMA DispatcherTypesInit == DispatcherInit => DispatcherTypes /\ CountsInv
<1> SUFFICES ASSUME DispatcherInit PROVE DispatcherTypes /\ CountsInv
  OBVIOUS
<1>1. <<>> \in Seq(Mails) /\ <<>> \in Seq(Creations) /\ <<>> \in Seq(Removals) /\ Len(<<>>) = 0
  BY EmptySeq
<1>2. /\ queue = <<>> /\ localQueue = <<>> /\ createQueue = <<>> /\ localCreateQueue = <<>>
      /\ removeQueue = <<>> /\ localRemoveQueue = <<>> /\ pcRun = "idle"
  BY DEF DispatcherInit
<1>3. QueuesInv
  BY <1>1, <1>2 DEF QueuesInv
<1>4. NumbersInv
  BY ReceiverNumbers DEF DispatcherInit, NumbersInv
<1>5. SendersInv
  BY DispatcherAssumption DEF DispatcherInit, SendersInv
<1>6. Posting = {}
  BY DEF DispatcherInit, Posting
<1>7. totalSize = baseSize /\ baseSize \in Nat
  BY DispatcherAssumption DEF DispatcherInit
<1>8. IsFiniteSet(Posting) /\ Cardinality(Posting) = 0
  BY <1>6, FS_EmptySet
<1>9. TotalSizeCounts
  BY <1>1, <1>2, <1>7, <1>8 DEF TotalSizeCounts, Posting
<1> QED BY <1>3, <1>4, <1>5, <1>8, <1>9 DEF DispatcherTypes, CountsInv

\* What is put into a queue has its type.
LEMMA Posted ==
  ASSUME DispatcherTypes
  PROVE  /\ \A s \in Senders : pcSend[s] # NoReceiver => Message(s, pcSend[s]) \in Mails
         /\ freeRcvId < MaxReceivers =>
              \A d \in {0} \cup ClientIDs : Creation(freeRcvId, d) \in Creations
         /\ \A r \in ReceiverIDs : Removal(r) \in Removals
<1>1. ASSUME NEW s \in Senders, pcSend[s] # NoReceiver
      PROVE  Message(s, pcSend[s]) \in Mails
  <2>1. pcSend[s] \in ReceiverIDs /\ posted[s] \in Nat
    BY <1>1 DEF DispatcherTypes, SendersInv
  <2> QED BY <2>1 DEF Message, Mails
<1>2. ASSUME freeRcvId < MaxReceivers, NEW d \in {0} \cup ClientIDs
      PROVE  Creation(freeRcvId, d) \in Creations
  <2>1. freeRcvId \in ReceiverIDs
    BY <1>2, ReceiverNumbers DEF DispatcherTypes, NumbersInv
  <2> QED BY <2>1 DEF Creation, Creations
<1>3. \A r \in ReceiverIDs : Removal(r) \in Removals
  BY DEF Removal, Removals
<1> QED BY <1>1, <1>2, <1>3

\* What CreateClient and RemoveClient find.
LEMMA ClientNumbers ==
  ASSUME DispatcherTypes
  PROVE  /\ freeRcvId < MaxReceivers => freeRcvId \in ReceiverIDs /\ freeClientID \in ClientIDs
         /\ \A d \in ClientIDs : clientMap[d] # NoReceiver => clientMap[d] \in ReceiverIDs
<1>1. freeRcvId \in 0 .. MaxReceivers /\ freeClientID \in Nat \ {0} /\ freeClientID <= freeRcvId + 1
  BY DEF DispatcherTypes, NumbersInv
<1>2. MaxReceivers \in Nat \ {0}
  BY ReceiverNumbers
<1>3. freeRcvId < MaxReceivers => freeClientID <= MaxReceivers
  BY <1>1, <1>2
<1> QED BY <1>1, <1>3, ReceiverNumbers DEF DispatcherTypes, NumbersInv

\* What a message does to its handler.
Handling == LetPass \/ CreateClient \/ \E d \in ClientIDs : RemoveClient(d)

\* A handled message leaves the rest of the state alone.
LEMMA HandlingOf ==
  ASSUME ActOnMessage
  PROVE  /\ pcRun = "work" /\ localCreateQueue = <<>> /\ localRemoveQueue = <<>>
         /\ localQueue # <<>> /\ localQueue' = Tail(localQueue)
         /\ totalSize' = totalSize - 1
         /\ handled' = [handled EXCEPT ![Head(localQueue).from] = @ + 1]
         /\ Handling
         /\ UNCHANGED <<queue, localCreateQueue, localRemoveQueue, receiverMap,
                        myExecutor, tag, endRequested, pcRun, pcSend, posted, baseSize>>
BY DEF ActOnMessage, Handling, ReceiversSettled

\* Every step keeps the types of the queues.
LEMMA QueuesKept ==
  ASSUME DispatcherTypes, [DispatcherNext]_dispatcherVars
  PROVE  QueuesInv'
<1> USE DEF dispVars, handlerVars, execVars, histVars
<1> DEFINE Queues == <<queue, createQueue, removeQueue, localQueue, localCreateQueue,
                       localRemoveQueue>>
<1>1. /\ QueuesInv /\ SendersInv
      /\ queue \in Seq(Mails) /\ localQueue \in Seq(Mails)
      /\ createQueue \in Seq(Creations) /\ localCreateQueue \in Seq(Creations)
      /\ removeQueue \in Seq(Removals) /\ localRemoveQueue \in Seq(Removals)
      /\ pcRun \in {"idle", "work"}
  BY DEF DispatcherTypes, QueuesInv
<1>2. CASE UNCHANGED <<Queues, pcRun>>
  BY <1>1, <1>2 DEF QueuesInv
<1>3. ASSUME NEW d \in {0} \cup ClientIDs, CreateReceiver(d)
      PROVE  createQueue' \in Seq(Creations)
  <2>1. Creation(freeRcvId, d) \in Creations
    BY <1>3, Posted DEF CreateReceiver
  <2> QED BY <1>1, <1>3, <2>1, ItemsOf DEF CreateReceiver, PushFront
<1>4. CASE CreateDefaultReceiver
  <2>1. createQueue' \in Seq(Creations)
    BY <1>3, <1>4 DEF CreateDefaultReceiver
  <2> QED BY <1>1, <1>4, <2>1 DEF CreateDefaultReceiver, QueuesInv
<1>5. ASSUME NEW s \in Senders, PostMessage(s) PROVE QueuesInv'
  <2>1. Message(s, pcSend[s]) \in Mails
    BY <1>5, Posted DEF PostMessage
  <2>2. queue' \in Seq(Mails)
    BY <1>1, <1>5, <2>1, ItemsOf DEF PostMessage, PushFront
  <2> QED BY <1>1, <1>5, <2>2 DEF PostMessage, QueuesInv
<1>6. CASE TakeQueues
  <2>1. localQueue = <<>> /\ localCreateQueue = <<>> /\ localRemoveQueue = <<>>
    BY <1>1, <1>6 DEF TakeQueues, QueuesInv
  <2> QED BY <1>1, <1>6, <2>1 DEF TakeQueues, QueuesInv
<1>7. CASE ActOnCreation
  <2>1. localCreateQueue' \in Seq(Creations)
    BY <1>1, <1>7, ItemsOf DEF ActOnCreation
  <2> QED BY <1>1, <1>7, <2>1 DEF ActOnCreation, QueuesInv
<1>8. CASE ActOnRemoval
  <2>1. localRemoveQueue' \in Seq(Removals)
    BY <1>1, <1>8, ItemsOf DEF ActOnRemoval
  <2> QED BY <1>1, <1>8, <2>1 DEF ActOnRemoval, QueuesInv
<1>9. CASE ActOnMessage
  <2>1. localQueue' \in Seq(Mails)
    <3>1. localQueue # <<>> /\ localQueue' = Tail(localQueue)
      BY <1>9, HandlingOf
    <3>2. Tail(localQueue) \in Seq(Mails)
      BY <1>1, <3>1, ItemsOf
    <3> QED BY <3>1, <3>2
  <2>2. createQueue' \in Seq(Creations) /\ removeQueue' \in Seq(Removals)
    <3>1. CASE LetPass
      BY <1>1, <3>1 DEF LetPass
    <3>2. CASE CreateClient
      <4>1. freeClientID \in ClientIDs
        BY <3>2, ClientNumbers DEF CreateClient, CreateReceiver
      <4> QED BY <1>1, <1>3, <3>2, <4>1 DEF CreateClient
    <3>3. ASSUME NEW d \in ClientIDs, RemoveClient(d)
          PROVE  createQueue' \in Seq(Creations) /\ removeQueue' \in Seq(Removals)
      <4>1. Removal(clientMap[d]) \in Removals
        BY <3>3, ClientNumbers, Posted DEF RemoveClient
      <4> QED BY <1>1, <3>3, <4>1, ItemsOf DEF RemoveClient, PushFront
    <3> QED BY <1>9, <3>1, <3>2, <3>3, HandlingOf DEF Handling
  <2>3. pcRun' = "work" /\ UNCHANGED <<queue, localCreateQueue, localRemoveQueue>>
    BY <1>9, HandlingOf
  <2> QED BY <1>1, <2>1, <2>2, <2>3 DEF QueuesInv
<1>10. CASE EndRun
  BY <1>1, <1>10 DEF EndRun, QueuesInv
<1>11. CASE InitExecutor \/ StoreExecutorID \/ RequestTermination \/ HandleSignals
  BY <1>2, <1>11 DEF InitExecutor, StoreExecutorID, RequestTermination, HandleSignals
<1>12. ASSUME NEW s \in Senders, NEW r \in ReceiverIDs, CountMessage(s, r) PROVE QueuesInv'
  BY <1>2, <1>12 DEF CountMessage
<1>13. CASE UNCHANGED dispatcherVars
  BY <1>2, <1>13 DEF dispatcherVars
<1> QED BY <1>4, <1>5, <1>6, <1>7, <1>8, <1>9, <1>10, <1>11, <1>12, <1>13
        DEF DispatcherNext, Dispatch

\* Every step keeps the types of numbers and maps.
LEMMA NumbersKept ==
  ASSUME DispatcherTypes, [DispatcherNext]_dispatcherVars
  PROVE  NumbersInv'
<1> USE DEF dispVars, handlerVars, execVars, histVars
<1>1. /\ QueuesInv /\ NumbersInv
      /\ localCreateQueue \in Seq(Creations) /\ localRemoveQueue \in Seq(Removals)
  BY DEF DispatcherTypes, QueuesInv
<1>2. CASE UNCHANGED <<freeRcvId, freeClientID, receiverMap, defaultReceiver, clientMap, removed>>
  BY <1>1, <1>2 DEF NumbersInv
<1>3. /\ freeRcvId \in 0 .. MaxReceivers /\ MaxReceivers \in Nat
      /\ freeClientID \in Nat \ {0} /\ freeClientID <= freeRcvId + 1
      /\ receiverMap \in [ReceiverIDs -> {NoDispatch, 0} \cup ClientIDs]
      /\ defaultReceiver \in ReceiverIDs \cup {NoReceiver}
      /\ clientMap \in [ClientIDs -> ReceiverIDs \cup {NoReceiver}]
      /\ removed \subseteq ReceiverIDs
  BY <1>1, ReceiverNumbers DEF NumbersInv
<1>4. CASE CreateDefaultReceiver
  <2>1. /\ freeRcvId < MaxReceivers /\ freeRcvId' = freeRcvId + 1 /\ defaultReceiver' = freeRcvId
        /\ UNCHANGED <<freeClientID, receiverMap, clientMap, removed>>
    BY <1>4 DEF CreateDefaultReceiver, CreateReceiver
  <2>2. freeRcvId \in ReceiverIDs
    BY <2>1, ClientNumbers
  <2> QED BY <1>3, <2>1, <2>2 DEF NumbersInv
<1>5. CASE ActOnCreation
  <2>1. Head(localCreateQueue) \in Creations
    BY <1>1, <1>5, ItemsOf DEF ActOnCreation
  <2>2. PICK r \in ReceiverIDs, d \in {0} \cup ClientIDs : receiverMap' = [receiverMap EXCEPT ![r] = d]
    BY <1>5, <2>1 DEF ActOnCreation, Creations
  <2>3. UNCHANGED <<freeRcvId, freeClientID, defaultReceiver, clientMap, removed>>
    BY <1>5 DEF ActOnCreation
  <2> QED BY <1>3, <2>2, <2>3 DEF NumbersInv
<1>6. CASE ActOnRemoval
  <2>1. Head(localRemoveQueue) \in Removals
    BY <1>1, <1>6, ItemsOf DEF ActOnRemoval
  <2>2. PICK r \in ReceiverIDs : receiverMap' = [receiverMap EXCEPT ![r] = NoDispatch]
    BY <1>6, <2>1 DEF ActOnRemoval, Removals
  <2>3. UNCHANGED <<freeRcvId, freeClientID, defaultReceiver, clientMap, removed>>
    BY <1>6 DEF ActOnRemoval
  <2> QED BY <1>3, <2>2, <2>3 DEF NumbersInv
<1>7. CASE ActOnMessage
  <2>1. UNCHANGED receiverMap
    BY <1>7, HandlingOf
  <2>2. CASE LetPass
    BY <1>3, <2>1, <2>2 DEF LetPass, NumbersInv
  <2>3. CASE CreateClient
    <3>1. /\ freeRcvId < MaxReceivers /\ freeRcvId' = freeRcvId + 1
          /\ freeClientID' = freeClientID + 1
          /\ clientMap' = [clientMap EXCEPT ![freeClientID] = freeRcvId]
          /\ UNCHANGED <<defaultReceiver, removed>>
      BY <2>3 DEF CreateClient, CreateReceiver
    <3>2. freeRcvId \in ReceiverIDs
      BY <3>1, ClientNumbers
    <3>3. clientMap' \in [ClientIDs -> ReceiverIDs \cup {NoReceiver}]
      BY <1>3, <3>1, <3>2
    <3>4. /\ freeRcvId' \in 0 .. MaxReceivers
          /\ freeClientID' \in Nat \ {0} /\ freeClientID' <= freeRcvId' + 1
      BY <1>3, <3>1
    <3> QED BY <1>3, <2>1, <3>1, <3>3, <3>4 DEF NumbersInv
  <2>4. ASSUME NEW d \in ClientIDs, RemoveClient(d) PROVE NumbersInv'
    <3>1. /\ clientMap[d] \in ReceiverIDs /\ removed' = removed \cup {clientMap[d]}
          /\ clientMap' = [clientMap EXCEPT ![d] = NoReceiver]
          /\ UNCHANGED <<freeRcvId, defaultReceiver, freeClientID>>
      BY <2>4, ClientNumbers DEF RemoveClient, WithoutClient
    <3> QED BY <1>3, <2>1, <3>1 DEF NumbersInv
  <2> QED BY <1>7, <2>2, <2>3, <2>4, HandlingOf DEF Handling
<1>8. CASE \/ InitExecutor \/ StoreExecutorID \/ RequestTermination \/ HandleSignals
           \/ TakeQueues \/ EndRun
           \/ \E s \in Senders : PostMessage(s) \/ \E r \in ReceiverIDs : CountMessage(s, r)
  BY <1>2, <1>8 DEF InitExecutor, StoreExecutorID, RequestTermination, HandleSignals,
     TakeQueues, EndRun, PostMessage, CountMessage
<1>9. CASE UNCHANGED dispatcherVars
  BY <1>2, <1>9 DEF dispatcherVars
<1> QED BY <1>4, <1>5, <1>6, <1>7, <1>8, <1>9 DEF DispatcherNext, Dispatch

\* Every step keeps the types of the executor's entry and of the senders.
LEMMA SendersKept ==
  ASSUME DispatcherTypes, [DispatcherNext]_dispatcherVars
  PROVE  SendersInv'
<1> USE DEF dispVars, handlerVars, execVars, histVars
<1>1. /\ QueuesInv /\ SendersInv /\ localQueue \in Seq(Mails)
  BY DEF DispatcherTypes, QueuesInv
<1>2. CASE UNCHANGED <<tag, signals, pcSend, posted, handled, baseSize>>
  BY <1>1, <1>2 DEF SendersInv
<1>3. DoSignal \subseteq {"WakeUp", "RequestTermination"}
  BY <1>1 DEF SendersInv, DoSignal
<1>4. CASE CreateDefaultReceiver
  BY <1>1, <1>3, <1>4 DEF CreateDefaultReceiver, SendersInv
<1>5. ASSUME NEW s \in Senders, NEW r \in ReceiverIDs, CountMessage(s, r) PROVE SendersInv'
  BY <1>1, <1>5 DEF CountMessage, SendersInv
<1>6. ASSUME NEW s \in Senders, PostMessage(s) PROVE SendersInv'
  BY <1>1, <1>3, <1>6 DEF PostMessage, SendersInv
<1>7. CASE InitExecutor \/ StoreExecutorID \/ RequestTermination \/ HandleSignals \/ EndRun
  BY <1>1, <1>7 DEF InitExecutor, StoreExecutorID, RequestTermination, HandleSignals,
     EndRun, AfterRun, SendersInv
<1>8. CASE TakeQueues \/ ActOnCreation \/ ActOnRemoval
  BY <1>2, <1>8 DEF TakeQueues, ActOnCreation, ActOnRemoval
<1>9. CASE ActOnMessage
  <2>1. /\ handled' = [handled EXCEPT ![Head(localQueue).from] = @ + 1]
        /\ localQueue # <<>> /\ UNCHANGED <<tag, pcSend, posted, baseSize>> /\ Handling
    BY <1>9, HandlingOf
  <2>2. Head(localQueue) \in Mails
    BY <1>1, <2>1, ItemsOf
  <2>3. Head(localQueue).from \in Senders
    BY <2>2 DEF Mails
  <2>4. handled' \in [Senders -> Nat]
    BY <1>1, <2>1, <2>3 DEF SendersInv
  <2>5. signals' \subseteq {"WakeUp", "RequestTermination"}
    BY <1>1, <1>3, <2>1 DEF Handling, LetPass, CreateClient, RemoveClient, SendersInv
  <2> QED BY <1>1, <2>1, <2>4, <2>5 DEF SendersInv
<1>10. CASE UNCHANGED dispatcherVars
  BY <1>2, <1>10 DEF dispatcherVars
<1> QED BY <1>4, <1>5, <1>6, <1>7, <1>8, <1>9, <1>10 DEF DispatcherNext, Dispatch

\* What a queue holds in number, when something is put in or taken out.
LEMMA LengthOf ==
  ASSUME NEW S, NEW q \in Seq(S)
  PROVE  /\ Len(q) \in Nat
         /\ \A x \in S : Len(Append(q, x)) = Len(q) + 1
         /\ q # <<>> => Len(Tail(q)) = Len(q) - 1
BY LenProperties, AppendProperties, HeadTailProperties

\* m_totalSize counts what waits and what is about to be posted.
LEMMA CountsKept ==
  ASSUME DispatcherTypes, CountsInv, [DispatcherNext]_dispatcherVars
  PROVE  CountsInv'
<1> USE DEF dispVars, handlerVars, execVars, histVars
<1>1. /\ queue \in Seq(Mails) /\ localQueue \in Seq(Mails)
      /\ Len(queue) \in Nat /\ Len(localQueue) \in Nat /\ baseSize \in Nat
      /\ pcSend \in [Senders -> ReceiverIDs \cup {NoReceiver}]
  BY LengthOf DEF DispatcherTypes, QueuesInv, SendersInv
<1>2. /\ IsFiniteSet(Posting) /\ Cardinality(Posting) \in Nat
      /\ totalSize = baseSize + Len(queue) + Len(localQueue) + Cardinality(Posting)
  BY FS_CardinalityType DEF CountsInv, TotalSizeCounts, Posting
<1>3. CountsInv' <=>
        /\ IsFiniteSet(Posting')
        /\ totalSize' = baseSize' + Len(queue') + Len(localQueue') + Cardinality(Posting')
  BY DEF CountsInv, TotalSizeCounts, Posting
<1>4. CASE UNCHANGED <<totalSize, baseSize, queue, localQueue, pcSend>>
  BY <1>2, <1>4 DEF CountsInv, TotalSizeCounts, Posting
<1>5. ASSUME NEW s \in Senders, NEW r \in ReceiverIDs, CountMessage(s, r) PROVE CountsInv'
  <2>1. s \notin Posting /\ Posting' = Posting \cup {s}
    BY <1>1, <1>5, ReceiverNumbers DEF CountMessage, Posting
  <2>2. IsFiniteSet(Posting') /\ Cardinality(Posting') = Cardinality(Posting) + 1
    BY <1>2, <2>1, FS_AddElement
  <2>3. totalSize' = totalSize + 1 /\ UNCHANGED <<baseSize, queue, localQueue>>
    BY <1>5 DEF CountMessage, OneMore
  <2> QED BY <1>1, <1>2, <1>3, <2>2, <2>3
<1>6. ASSUME NEW s \in Senders, PostMessage(s) PROVE CountsInv'
  <2>1. s \in Posting /\ Posting' = Posting \ {s}
    BY <1>1, <1>6 DEF PostMessage, Posting
  <2>2. IsFiniteSet(Posting') /\ Cardinality(Posting') = Cardinality(Posting) - 1
    BY <1>2, <2>1, FS_RemoveElement
  <2>3. Message(s, pcSend[s]) \in Mails
    BY <1>6, Posted DEF PostMessage
  <2>4. Len(queue') = Len(queue) + 1
    BY <1>1, <1>6, <2>3, LengthOf DEF PostMessage, PushFront
  <2>5. UNCHANGED <<totalSize, baseSize, localQueue>>
    BY <1>6 DEF PostMessage
  <2> QED BY <1>1, <1>2, <1>3, <2>2, <2>4, <2>5
<1>7. CASE TakeQueues
  <2>1. localQueue = <<>> /\ localQueue' = queue /\ queue' = <<>>
        /\ UNCHANGED <<totalSize, baseSize, pcSend>>
    BY <1>7 DEF TakeQueues, DispatcherTypes, QueuesInv
  <2>2. Len(<<>>) = 0
    BY EmptySeq
  <2>3. Posting' = Posting
    BY <2>1 DEF Posting
  <2> QED BY <1>1, <1>2, <1>3, <2>1, <2>2, <2>3
<1>8. CASE ActOnMessage
  <2>1. /\ localQueue # <<>> /\ localQueue' = Tail(localQueue) /\ totalSize' = totalSize - 1
        /\ UNCHANGED <<baseSize, queue, pcSend>>
    BY <1>8, HandlingOf
  <2>2. Len(localQueue') = Len(localQueue) - 1
    BY <1>1, <2>1, LengthOf
  <2>3. Posting' = Posting
    BY <2>1 DEF Posting
  <2> QED BY <1>1, <1>2, <1>3, <2>1, <2>2, <2>3
<1>9. CASE \/ CreateDefaultReceiver \/ InitExecutor \/ StoreExecutorID \/ RequestTermination
           \/ HandleSignals \/ ActOnCreation \/ ActOnRemoval \/ EndRun
  BY <1>4, <1>9 DEF CreateDefaultReceiver, InitExecutor, StoreExecutorID, RequestTermination,
     HandleSignals, ActOnCreation, ActOnRemoval, EndRun, CreateReceiver
<1>10. CASE UNCHANGED dispatcherVars
  BY <1>4, <1>10 DEF dispatcherVars
<1> QED BY <1>5, <1>6, <1>7, <1>8, <1>9, <1>10 DEF DispatcherNext, Dispatch

-----------------------------------------------------------------------------
(* The dispatcher: order                                                   *)

\* The messages of sender s in queue w are numbers h + 1 to p, in this order.
InOrder(w, s, h, p) ==
  /\ h <= p
  /\ \A i \in DOMAIN w : w[i].from = s => w[i].n \in h + 1 .. p
  /\ \A n \in h + 1 .. p : \E i \in DOMAIN w : w[i].from = s /\ w[i].n = n
  /\ \A i, j \in DOMAIN w : w[i].from = s /\ w[j].from = s /\ i < j => w[i].n < w[j].n

OrderInv == \A s \in Senders : InOrder(Waiting, s, handled[s], posted[s])

\* One message more of this sender.
LEMMA OneMoreInOrder ==
  ASSUME NEW w, NEW v, NEW len \in Nat, DOMAIN w = 1 .. len, DOMAIN v = 1 .. len + 1,
         \A i \in 1 .. len : v[i] = w[i],
         NEW s, NEW h \in Nat, NEW p \in Nat, InOrder(w, s, h, p),
         v[len + 1].from = s, v[len + 1].n = p + 1
  PROVE  InOrder(v, s, h, p + 1)
<1>1. \A i \in 1 .. len + 1 : i \in 1 .. len \/ i = len + 1
  OBVIOUS
<1>2. h <= p + 1 /\ \A n \in h + 1 .. p : n \in h + 1 .. p + 1 /\ n < p + 1
  BY DEF InOrder
<1>3. p + 1 \in h + 1 .. p + 1 /\ \A n \in h + 1 .. p + 1 : n = p + 1 \/ n \in h + 1 .. p
  BY DEF InOrder
<1>4. len + 1 \in 1 .. len + 1 /\ \A i \in 1 .. len : i \in 1 .. len + 1 /\ ~(len + 1 < i)
  OBVIOUS
<1>5. \A i \in DOMAIN v : v[i].from = s => v[i].n \in h + 1 .. p + 1
  BY <1>1, <1>2, <1>3 DEF InOrder
<1>6. \A n \in h + 1 .. p + 1 : \E i \in DOMAIN v : v[i].from = s /\ v[i].n = n
  BY <1>3, <1>4 DEF InOrder
<1>7. ASSUME NEW i \in DOMAIN v, NEW j \in DOMAIN v, v[i].from = s, v[j].from = s, i < j
      PROVE  v[i].n < v[j].n
  <2>1. i \in 1 .. len
    BY <1>7
  <2>2. CASE j \in 1 .. len
    BY <1>7, <2>1, <2>2 DEF InOrder
  <2>3. CASE j = len + 1
    BY <1>2, <1>7, <2>1, <2>3 DEF InOrder
  <2> QED BY <1>1, <2>2, <2>3
<1> QED BY <1>2, <1>5, <1>6, <1>7 DEF InOrder

\* One message more of another sender.
LEMMA OthersInOrder ==
  ASSUME NEW w, NEW v, NEW len \in Nat, DOMAIN w = 1 .. len, DOMAIN v = 1 .. len + 1,
         \A i \in 1 .. len : v[i] = w[i],
         NEW s, NEW h, NEW p, InOrder(w, s, h, p), v[len + 1].from # s
  PROVE  InOrder(v, s, h, p)
<1>1. \A i \in 1 .. len + 1 : i \in 1 .. len \/ i = len + 1
  OBVIOUS
<1>2. \A i \in 1 .. len : i \in 1 .. len + 1
  OBVIOUS
<1> QED BY <1>1, <1>2 DEF InOrder

\* The first message taken, which is the oldest of its sender.
LEMMA OldestInOrder ==
  ASSUME NEW w, NEW v, NEW len \in Nat \ {0}, DOMAIN w = 1 .. len, DOMAIN v = 1 .. len - 1,
         \A i \in 1 .. len - 1 : v[i] = w[i + 1],
         NEW s, NEW h \in Nat, NEW p \in Nat, InOrder(w, s, h, p), w[1].from = s
  PROVE  InOrder(v, s, h + 1, p)
<1>0. 1 \in 1 .. len /\ \A i \in 1 .. len : i = 1 \/ (1 < i /\ i - 1 \in 1 .. len - 1)
  OBVIOUS
<1>1. w[1].n \in h + 1 .. p
  BY <1>0 DEF InOrder
<1>2. h + 1 <= p /\ h + 1 \in h + 1 .. p
  BY <1>1
<1>3. PICK k \in 1 .. len : w[k].from = s /\ w[k].n = h + 1
  BY <1>2 DEF InOrder
<1>4. k = 1
  <2>1. k # 1 => w[1].n < w[k].n
    BY <1>0, <1>3 DEF InOrder
  <2> QED BY <1>1, <1>3, <2>1
<1>5. \A i \in 1 .. len - 1 : i + 1 \in 1 .. len /\ 1 < i + 1 /\ i \in Nat
  OBVIOUS
<1>6. ASSUME NEW i \in DOMAIN v, v[i].from = s
      PROVE  v[i].n \in h + 2 .. p
  <2>1. w[i + 1].from = s /\ w[1].n < w[i + 1].n /\ w[i + 1].n \in h + 1 .. p
    BY <1>0, <1>5, <1>6 DEF InOrder
  <2> QED BY <1>3, <1>4, <1>5, <1>6, <2>1
<1>7. ASSUME NEW n \in h + 2 .. p
      PROVE  \E i \in DOMAIN v : v[i].from = s /\ v[i].n = n
  <2>1. n \in h + 1 .. p /\ n # h + 1
    OBVIOUS
  <2>2. PICK i \in 1 .. len : w[i].from = s /\ w[i].n = n
    BY <2>1 DEF InOrder
  <2>3. i - 1 \in 1 .. len - 1 /\ i - 1 + 1 = i
    BY <1>0, <1>3, <1>4, <2>1, <2>2
  <2> QED BY <2>2, <2>3
<1>8. ASSUME NEW i \in DOMAIN v, NEW j \in DOMAIN v, v[i].from = s, v[j].from = s, i < j
      PROVE  v[i].n < v[j].n
  <2>1. i + 1 \in 1 .. len /\ j + 1 \in 1 .. len /\ i + 1 < j + 1
    BY <1>5, <1>8
  <2> QED BY <1>8, <2>1 DEF InOrder
<1>9. h + 1 + 1 = h + 2
  OBVIOUS
<1> QED BY <1>2, <1>6, <1>7, <1>8, <1>9 DEF InOrder

\* The first message taken, which is of another sender.
LEMMA NotMineInOrder ==
  ASSUME NEW w, NEW v, NEW len \in Nat \ {0}, DOMAIN w = 1 .. len, DOMAIN v = 1 .. len - 1,
         \A i \in 1 .. len - 1 : v[i] = w[i + 1],
         NEW s, NEW h, NEW p, InOrder(w, s, h, p), w[1].from # s
  PROVE  InOrder(v, s, h, p)
<1>1. \A i \in 1 .. len : i = 1 \/ (i - 1 \in 1 .. len - 1 /\ i - 1 + 1 = i)
  OBVIOUS
<1>2. \A i \in 1 .. len - 1 : i + 1 \in 1 .. len /\ i \in Nat
  OBVIOUS
<1>3. \A i \in DOMAIN v : v[i].from = s => v[i].n \in h + 1 .. p
  BY <1>2, SMTT(30) DEF InOrder
<1>4. ASSUME NEW n \in h + 1 .. p
      PROVE  \E i \in DOMAIN v : v[i].from = s /\ v[i].n = n
  <2>1. PICK i \in 1 .. len : w[i].from = s /\ w[i].n = n
    BY DEF InOrder
  <2> QED BY <1>1, <2>1
<1>5. ASSUME NEW i \in DOMAIN v, NEW j \in DOMAIN v, v[i].from = s, v[j].from = s, i < j
      PROVE  v[i].n < v[j].n
  <2>1. i + 1 \in 1 .. len /\ j + 1 \in 1 .. len /\ i + 1 < j + 1
    BY <1>2, <1>5
  <2> QED BY <1>5, <2>1 DEF InOrder
<1> QED BY <1>3, <1>4, <1>5 DEF InOrder

\* Every step keeps the order.
LEMMA OrderKept ==
  ASSUME DispatcherTypes, OrderInv, [DispatcherNext]_dispatcherVars
  PROVE  OrderInv'
<1> USE DEF dispVars, handlerVars, execVars, histVars
<1>1. /\ queue \in Seq(Mails) /\ localQueue \in Seq(Mails)
      /\ posted \in [Senders -> Nat] /\ handled \in [Senders -> Nat]
  BY DEF DispatcherTypes, QueuesInv, SendersInv
<1>2. CASE UNCHANGED <<queue, localQueue, posted, handled>>
  BY <1>2 DEF OrderInv, Waiting
<1>3. ASSUME NEW s \in Senders, PostMessage(s) PROVE OrderInv'
  <2> DEFINE m == Message(s, pcSend[s])
             len == Len(Waiting)
  <2>1. m \in Mails /\ m.from = s /\ m.n = posted[s] + 1
    BY <1>3, Posted DEF PostMessage, Message
  <2>2. /\ queue' = Append(queue, m) /\ posted' = [posted EXCEPT ![s] = @ + 1]
        /\ UNCHANGED <<localQueue, handled>>
    BY <1>3 DEF PostMessage, PushFront
  <2> HIDE DEF m
  <2>3. /\ len \in Nat /\ DOMAIN Waiting = 1 .. len /\ DOMAIN Waiting' = 1 .. len + 1
        /\ \A i \in 1 .. len : Waiting'[i] = Waiting[i]
        /\ Waiting'[len + 1] = m
    BY <1>1, <2>1, <2>2, PutBehind DEF Waiting
  <2> HIDE DEF len
  <2>4. ASSUME NEW t \in Senders PROVE InOrder(Waiting', t, handled'[t], posted'[t])
    <3>1. InOrder(Waiting, t, handled[t], posted[t]) /\ handled[t] \in Nat /\ posted[t] \in Nat
      BY <1>1 DEF OrderInv
    <3>2. CASE t = s
      <4>1. handled'[t] = handled[t] /\ posted'[t] = posted[t] + 1
        BY <1>1, <2>2, <3>2
      <4>2. InOrder(Waiting', t, handled[t], posted[t] + 1)
        BY <2>1, <2>3, <3>1, <3>2, OneMoreInOrder
      <4> QED BY <4>1, <4>2
    <3>3. CASE t # s
      <4>1. handled'[t] = handled[t] /\ posted'[t] = posted[t]
        BY <1>1, <2>2, <3>3
      <4>2. InOrder(Waiting', t, handled[t], posted[t])
        BY <2>1, <2>3, <3>1, <3>3, OthersInOrder
      <4> QED BY <4>1, <4>2
    <3> QED BY <3>2, <3>3
  <2> QED BY <2>4 DEF OrderInv
<1>4. CASE TakeQueues
  <2>1. localQueue = <<>> /\ localQueue' = queue /\ queue' = <<>>
        /\ UNCHANGED <<posted, handled>>
    BY <1>4 DEF TakeQueues, DispatcherTypes, QueuesInv
  <2>2. DOMAIN Waiting' = DOMAIN Waiting /\ \A i \in DOMAIN Waiting : Waiting'[i] = Waiting[i]
    BY <1>1, <2>1, SameQueue DEF Waiting
  <2> QED BY <2>1, <2>2 DEF OrderInv, InOrder
<1>5. CASE ActOnMessage
  <2> DEFINE m == Head(localQueue)
             len == Len(Waiting)
  <2>1. /\ localQueue # <<>> /\ localQueue' = Tail(localQueue)
        /\ handled' = [handled EXCEPT ![m.from] = @ + 1] /\ UNCHANGED <<queue, posted>>
    BY <1>5, HandlingOf
  <2>2. /\ len \in Nat \ {0} /\ DOMAIN Waiting = 1 .. len /\ DOMAIN Waiting' = 1 .. len - 1
        /\ \A i \in 1 .. len - 1 : Waiting'[i] = Waiting[i + 1]
        /\ Waiting[1] = m
    BY <1>1, <2>1, TakenInFront DEF Waiting
  <2> HIDE DEF m, len
  <2>3. ASSUME NEW t \in Senders PROVE InOrder(Waiting', t, handled'[t], posted'[t])
    <3>1. InOrder(Waiting, t, handled[t], posted[t]) /\ handled[t] \in Nat /\ posted[t] \in Nat
      BY <1>1 DEF OrderInv
    <3>2. CASE t = m.from
      <4>1. handled'[t] = handled[t] + 1 /\ posted'[t] = posted[t]
        BY <1>1, <2>1, <3>2
      <4>2. InOrder(Waiting', t, handled[t] + 1, posted[t])
        BY <2>2, <3>1, <3>2, OldestInOrder
      <4> QED BY <4>1, <4>2
    <3>3. CASE t # m.from
      <4>1. handled'[t] = handled[t] /\ posted'[t] = posted[t]
        BY <1>1, <2>1, <3>3
      <4>2. InOrder(Waiting', t, handled[t], posted[t])
        BY <2>2, <3>1, <3>3, NotMineInOrder
      <4> QED BY <4>1, <4>2
    <3> QED BY <3>2, <3>3
  <2> QED BY <2>3 DEF OrderInv
<1>6. CASE \/ CreateDefaultReceiver \/ InitExecutor \/ StoreExecutorID \/ RequestTermination
           \/ HandleSignals \/ ActOnCreation \/ ActOnRemoval \/ EndRun
           \/ \E s \in Senders : \E r \in ReceiverIDs : CountMessage(s, r)
  BY <1>2, <1>6 DEF CreateDefaultReceiver, InitExecutor, StoreExecutorID, RequestTermination,
     HandleSignals, ActOnCreation, ActOnRemoval, EndRun, CreateReceiver, CountMessage
<1>7. CASE UNCHANGED dispatcherVars
  BY <1>2, <1>7 DEF dispatcherVars
<1> QED BY <1>3, <1>4, <1>5, <1>6, <1>7 DEF DispatcherNext, Dispatch

\* The order is what the runs check.
LEMMA OrderMeans ==
  ASSUME DispatcherTypes, OrderInv
  PROVE  QueuedInOrder
<1> SUFFICES ASSUME NEW s \in Senders
             PROVE  LET mine == {i \in DOMAIN Waiting : Waiting[i].from = s} IN
                    /\ {Waiting[i].n : i \in mine} = handled[s] + 1 .. posted[s]
                    /\ \A i, j \in mine : i < j => Waiting[i].n < Waiting[j].n
  BY DEF QueuedInOrder
<1>1. InOrder(Waiting, s, handled[s], posted[s])
  BY DEF OrderInv
<1> QED BY <1>1 DEF InOrder

-----------------------------------------------------------------------------
(* The dispatcher: receivers and their clients                             *)

Pending(q) == {x.id : x \in Items(q)}
Addressed(q) == {x.to : x \in Items(q)}

\* Numbers given to receivers so far; those that are, or will be, on the map;
\* those on their way out; and those the handler has.
Given == 0 .. freeRcvId - 1
OnMap == {r \in ReceiverIDs : receiverMap[r] # NoDispatch}
Made == OnMap \cup Pending(createQueue) \cup Pending(localCreateQueue)
Leaving == Pending(removeQueue) \cup Pending(localRemoveQueue)
Held == ({defaultReceiver} \cup {clientMap[d] : d \in ClientIDs}) \ {NoReceiver}

\* What is taken was queued after the creations it needs.
TakenInv ==
  Pending(createQueue) \cap (Pending(localRemoveQueue) \cup Addressed(localQueue)) = {}

\* Every number in use was given, and was not given up unless it was removed.
GivenInv ==
  /\ Made \subseteq Given /\ Leaving \subseteq Given
  /\ Addressed(queue) \subseteq Given /\ Addressed(localQueue) \subseteq Given
  /\ \A s \in Senders : pcSend[s] # NoReceiver => pcSend[s] \in Given
  /\ Given \subseteq Held \cup removed

\* A receiver has one client.
ClientsInv ==
  /\ \A d, e \in ClientIDs : clientMap[d] = clientMap[e] /\ clientMap[d] # NoReceiver => d = e
  /\ \A d \in ClientIDs : clientMap[d] # NoReceiver =>
       clientMap[d] # defaultReceiver /\ d < freeClientID

ReceiversInv == TakenInv /\ GivenInv /\ ClientsInv /\ Made \ Leaving = Held

\* What is queued by number, when something is put in or taken out.
LEMMA PendingOf ==
  ASSUME NEW S, NEW q \in Seq(S)
  PROVE  /\ \A x \in S : /\ Pending(Append(q, x)) = Pending(q) \cup {x.id}
                         /\ Addressed(Append(q, x)) = Addressed(q) \cup {x.to}
         /\ q # <<>> => /\ Pending(q) = Pending(Tail(q)) \cup {Head(q).id}
                        /\ Addressed(q) = Addressed(Tail(q)) \cup {Head(q).to}
<1>1. \A x \in S : Items(Append(q, x)) = Items(q) \cup {x}
  BY ItemsOf
<1>2. q # <<>> => Items(q) = Items(Tail(q)) \cup {Head(q)}
  BY ItemsOf
<1> QED BY <1>1, <1>2 DEF Pending, Addressed

\* An empty queue names nobody.
LEMMA NobodyPending == Pending(<<>>) = {} /\ Addressed(<<>>) = {}
BY NoItems DEF Pending, Addressed

\* The numbers given grow by the next one.
LEMMA NextGiven ==
  ASSUME DispatcherTypes
  PROVE  /\ freeRcvId \notin Given /\ \A r \in Given : r < freeRcvId
         /\ freeRcvId' = freeRcvId + 1 => Given' = Given \cup {freeRcvId}
         /\ \A r \in ReceiverIDs : r < freeRcvId => r \in Given
BY ReceiverNumbers DEF DispatcherTypes, NumbersInv, Given

\* A receiver that is created is on its way to the map, and new to everybody.
LEMMA CreationGives ==
  ASSUME DispatcherTypes, NEW d \in {0} \cup ClientIDs, CreateReceiver(d)
  PROVE  /\ Pending(createQueue') = Pending(createQueue) \cup {freeRcvId}
         /\ Given' = Given \cup {freeRcvId} /\ freeRcvId \notin Given
         /\ freeRcvId \in ReceiverIDs
<1>1. Creation(freeRcvId, d) \in Creations /\ Creation(freeRcvId, d).id = freeRcvId
  BY Posted DEF CreateReceiver, Creation
<1>2. createQueue \in Seq(Creations) /\ createQueue' = Append(createQueue, Creation(freeRcvId, d))
  BY DEF DispatcherTypes, QueuesInv, CreateReceiver, PushFront
<1>3. Pending(createQueue') = Pending(createQueue) \cup {freeRcvId}
  BY <1>1, <1>2, PendingOf
<1> QED BY <1>3, NextGiven, ClientNumbers DEF CreateReceiver

\* Every step keeps receivers and clients together.
LEMMA ReceiversKept ==
  ASSUME DispatcherTypes, DispatcherTypes', ReceiversInv, [DispatcherNext]_dispatcherVars
  PROVE  ReceiversInv'
<1> USE DEF dispVars, handlerVars, execVars, histVars
<1>1. /\ queue \in Seq(Mails) /\ localQueue \in Seq(Mails)
      /\ createQueue \in Seq(Creations) /\ localCreateQueue \in Seq(Creations)
      /\ removeQueue \in Seq(Removals) /\ localRemoveQueue \in Seq(Removals)
      /\ pcRun = "idle" =>
           localQueue = <<>> /\ localCreateQueue = <<>> /\ localRemoveQueue = <<>>
      /\ receiverMap \in [ReceiverIDs -> {NoDispatch, 0} \cup ClientIDs]
      /\ clientMap \in [ClientIDs -> ReceiverIDs \cup {NoReceiver}]
      /\ pcSend \in [Senders -> ReceiverIDs \cup {NoReceiver}]
      /\ defaultReceiver \in ReceiverIDs \cup {NoReceiver}
  BY DEF DispatcherTypes, QueuesInv, NumbersInv, SendersInv
<1>2. CASE UNCHANGED <<dispVars, handlerVars, pcSend, removed>>
  BY <1>2 DEF ReceiversInv, TakenInv, GivenInv, ClientsInv, Made, Leaving, Held, OnMap, Given
<1>3. CASE CreateDefaultReceiver
  <2>1. /\ Pending(createQueue') = Pending(createQueue) \cup {freeRcvId}
        /\ Given' = Given \cup {freeRcvId} /\ freeRcvId \notin Given /\ freeRcvId \in ReceiverIDs
    BY <1>3, CreationGives DEF CreateDefaultReceiver
  <2>2. /\ defaultReceiver = NoReceiver /\ defaultReceiver' = freeRcvId
        /\ UNCHANGED <<queue, removeQueue, localQueue, localCreateQueue, localRemoveQueue,
                       receiverMap, clientMap, freeClientID, pcSend, removed>>
    BY <1>3 DEF CreateDefaultReceiver
  <2>3. Made' = Made \cup {freeRcvId} /\ Leaving' = Leaving /\ Held' = Held \cup {freeRcvId}
    BY <2>1, <2>2, ReceiverNumbers DEF Made, Leaving, Held, OnMap
  <2>4. TakenInv' /\ GivenInv'
    BY <2>1, <2>2, <2>3 DEF ReceiversInv, TakenInv, GivenInv, Leaving
  <2>5. ClientsInv'
    <3>1. \A d \in ClientIDs : clientMap[d] # NoReceiver => clientMap[d] \in Held
      BY DEF Held
    <3>2. Held \subseteq Given
      BY DEF ReceiversInv, GivenInv
    <3> QED BY <2>1, <2>2, <3>1, <3>2 DEF ReceiversInv, ClientsInv
  <2>6. (Made \ Leaving = Held)'
    BY <2>1, <2>3 DEF ReceiversInv, GivenInv
  <2> QED BY <2>4, <2>5, <2>6 DEF ReceiversInv
<1>4. ASSUME NEW s \in Senders, NEW r \in ReceiverIDs, CountMessage(s, r) PROVE ReceiversInv'
  <2>1. /\ pcSend' = [pcSend EXCEPT ![s] = r] /\ r < freeRcvId
        /\ UNCHANGED <<queue, createQueue, removeQueue, localQueue, localCreateQueue,
                       localRemoveQueue, freeRcvId, receiverMap, handlerVars, removed>>
    BY <1>4 DEF CountMessage
  <2>2. r \in Given
    BY <2>1, NextGiven
  <2>3. Made' = Made /\ Leaving' = Leaving /\ Held' = Held /\ Given' = Given
    BY <2>1 DEF Made, Leaving, Held, OnMap, Given
  <2>4. \A t \in Senders : pcSend'[t] # NoReceiver => pcSend'[t] \in Given
    BY <1>1, <2>1, <2>2 DEF ReceiversInv, GivenInv
  <2> QED BY <2>1, <2>3, <2>4 DEF ReceiversInv, TakenInv, GivenInv, ClientsInv
<1>5. ASSUME NEW s \in Senders, PostMessage(s) PROVE ReceiversInv'
  <2> DEFINE m == Message(s, pcSend[s])
  <2>1. m \in Mails /\ m.to = pcSend[s]
    BY <1>5, Posted DEF PostMessage, Message
  <2>2. /\ queue' = Append(queue, m) /\ pcSend' = [pcSend EXCEPT ![s] = NoReceiver]
        /\ pcSend[s] # NoReceiver
        /\ UNCHANGED <<createQueue, removeQueue, localQueue, localCreateQueue,
                       localRemoveQueue, freeRcvId, receiverMap, handlerVars, removed>>
    BY <1>5 DEF PostMessage, PushFront
  <2> HIDE DEF m
  <2>3. Addressed(queue') = Addressed(queue) \cup {pcSend[s]} /\ pcSend[s] \in Given
    BY <1>1, <2>1, <2>2, PendingOf DEF ReceiversInv, GivenInv
  <2>4. Made' = Made /\ Leaving' = Leaving /\ Held' = Held /\ Given' = Given
    BY <2>2 DEF Made, Leaving, Held, OnMap, Given
  <2>5. \A t \in Senders : pcSend'[t] # NoReceiver => pcSend'[t] \in Given
    BY <1>1, <2>2 DEF ReceiversInv, GivenInv
  <2> QED BY <2>2, <2>3, <2>4, <2>5 DEF ReceiversInv, TakenInv, GivenInv, ClientsInv
<1>6. CASE TakeQueues
  <2>1. /\ localQueue = <<>> /\ localCreateQueue = <<>> /\ localRemoveQueue = <<>>
        /\ localQueue' = queue /\ queue' = <<>>
        /\ localCreateQueue' = createQueue /\ createQueue' = <<>>
        /\ localRemoveQueue' = removeQueue /\ removeQueue' = <<>>
        /\ UNCHANGED <<freeRcvId, receiverMap, handlerVars, pcSend, removed>>
    BY <1>1, <1>6 DEF TakeQueues
  <2>2. Made' = Made /\ Leaving' = Leaving /\ Held' = Held /\ Given' = Given
    BY <2>1, NobodyPending DEF Made, Leaving, Held, OnMap, Given
  <2> QED BY <2>1, <2>2, NobodyPending DEF ReceiversInv, TakenInv, GivenInv, ClientsInv
<1>7. CASE ActOnCreation
  <2> DEFINE x == Head(localCreateQueue)
  <2>1. /\ localCreateQueue # <<>> /\ localCreateQueue' = Tail(localCreateQueue)
        /\ receiverMap' = [receiverMap EXCEPT ![x.id] = x.dispatch]
        /\ UNCHANGED <<queue, createQueue, removeQueue, localQueue, localRemoveQueue,
                       freeRcvId, handlerVars, pcSend, removed>>
    BY <1>7 DEF ActOnCreation
  <2>2. x \in Creations
    BY <1>1, <2>1, ItemsOf
  <2> HIDE DEF x
  <2>3. x.id \in ReceiverIDs /\ x.dispatch \in {0} \cup ClientIDs /\ x.dispatch # NoDispatch
    BY <2>2, ReceiverNumbers DEF Creations
  <2>4. Pending(localCreateQueue) = Pending(localCreateQueue') \cup {x.id}
    BY <1>1, <2>1, PendingOf DEF x
  <2>5. OnMap' = OnMap \cup {x.id}
    BY <1>1, <2>1, <2>3 DEF OnMap
  <2>6. Made' = Made /\ Leaving' = Leaving /\ Held' = Held /\ Given' = Given
    BY <2>1, <2>4, <2>5 DEF Made, Leaving, Held, Given
  <2> QED BY <2>1, <2>6 DEF ReceiversInv, TakenInv, GivenInv, ClientsInv
<1>8. CASE ActOnRemoval
  <2> DEFINE x == Head(localRemoveQueue)
  <2>1. /\ localCreateQueue = <<>>
        /\ localRemoveQueue # <<>> /\ localRemoveQueue' = Tail(localRemoveQueue)
        /\ receiverMap' = [receiverMap EXCEPT ![x.id] = NoDispatch]
        /\ UNCHANGED <<queue, createQueue, removeQueue, localQueue, localCreateQueue,
                       freeRcvId, handlerVars, pcSend, removed>>
    BY <1>8 DEF ActOnRemoval, CreationsDone
  <2>2. x \in Removals
    BY <1>1, <2>1, ItemsOf
  <2> HIDE DEF x
  <2>3. x.id \in ReceiverIDs
    BY <2>2 DEF Removals
  <2>4. Pending(localRemoveQueue) = Pending(localRemoveQueue') \cup {x.id}
    BY <1>1, <2>1, PendingOf DEF x
  <2>5. OnMap' = OnMap \ {x.id}
    BY <1>1, <2>1, <2>3 DEF OnMap
  <2>6. x.id \notin Pending(createQueue)
    BY <2>4 DEF ReceiversInv, TakenInv
  <2>7. /\ Made' = Made \ {x.id} /\ Leaving = Leaving' \cup {x.id}
        /\ Held' = Held /\ Given' = Given
    BY <2>1, <2>4, <2>5, <2>6, NobodyPending DEF Made, Leaving, Held, Given
  <2>8. TakenInv' /\ GivenInv' /\ ClientsInv'
    BY <2>1, <2>4, <2>7 DEF ReceiversInv, TakenInv, GivenInv, ClientsInv
  <2> QED BY <2>7, <2>8 DEF ReceiversInv
<1>9. CASE ActOnMessage
  <2>1. /\ localCreateQueue = <<>> /\ localRemoveQueue = <<>>
        /\ localQueue # <<>> /\ localQueue' = Tail(localQueue)
        /\ Handling
        /\ UNCHANGED <<queue, localCreateQueue, localRemoveQueue, receiverMap, pcSend>>
    BY <1>9, HandlingOf
  <2>2. Addressed(localQueue') \subseteq Addressed(localQueue)
    BY <1>1, <2>1, PendingOf
  <2>3. CASE LetPass
    <3>1. UNCHANGED <<createQueue, removeQueue, freeRcvId, handlerVars, removed>>
      BY <2>3 DEF LetPass
    <3>2. Made' = Made /\ Leaving' = Leaving /\ Held' = Held /\ Given' = Given
      BY <2>1, <3>1 DEF Made, Leaving, Held, OnMap, Given
    <3> QED BY <2>1, <2>2, <3>1, <3>2 DEF ReceiversInv, TakenInv, GivenInv, ClientsInv
  <2>4. CASE CreateClient
    <3>1. freeClientID \in ClientIDs /\ freeClientID \in Nat
      BY <2>4, ClientNumbers, ReceiverNumbers DEF CreateClient, CreateReceiver
    <3>2. /\ Pending(createQueue') = Pending(createQueue) \cup {freeRcvId}
          /\ Given' = Given \cup {freeRcvId} /\ freeRcvId \notin Given
          /\ freeRcvId \in ReceiverIDs
      BY <2>4, <3>1, CreationGives DEF CreateClient
    <3>3. /\ clientMap' = [clientMap EXCEPT ![freeClientID] = freeRcvId]
          /\ freeClientID' = freeClientID + 1
          /\ UNCHANGED <<removeQueue, defaultReceiver, removed>>
      BY <2>4 DEF CreateClient
    <3>4. clientMap[freeClientID] = NoReceiver
      BY <3>1 DEF ReceiversInv, ClientsInv
    <3>5. /\ freeRcvId # NoReceiver /\ freeRcvId # defaultReceiver
          /\ \A d \in ClientIDs : clientMap[d] # freeRcvId
      BY <3>2, ReceiverNumbers DEF ReceiversInv, GivenInv, Held
    <3>6. /\ clientMap'[freeClientID] = freeRcvId
          /\ \A d \in ClientIDs : d # freeClientID => clientMap'[d] = clientMap[d]
      BY <1>1, <3>1, <3>3
    <3>7. Held' = Held \cup {freeRcvId}
      BY <3>1, <3>3, <3>4, <3>5, <3>6 DEF Held
    <3>8. Made' = Made \cup {freeRcvId} /\ Leaving' = Leaving
      BY <2>1, <3>2, <3>3 DEF Made, Leaving, OnMap
    <3>9. ClientsInv'
      <4>1. \A d \in ClientIDs : d \in Nat
        BY ReceiverNumbers
      <4>2. ASSUME NEW d \in ClientIDs, NEW e \in ClientIDs, clientMap'[d] = clientMap'[e],
                   clientMap'[d] # NoReceiver
            PROVE  d = e
        <5>1. CASE d = freeClientID /\ e # freeClientID
          BY <3>5, <3>6, <4>2, <5>1
        <5>2. CASE d # freeClientID /\ e = freeClientID
          BY <3>5, <3>6, <4>2, <5>2
        <5>3. CASE d # freeClientID /\ e # freeClientID
          BY <3>6, <4>2, <5>3 DEF ReceiversInv, ClientsInv
        <5> QED BY <5>1, <5>2, <5>3
      <4>3. ASSUME NEW d \in ClientIDs, clientMap'[d] # NoReceiver
            PROVE  clientMap'[d] # defaultReceiver /\ d < freeClientID + 1
        <5>1. CASE d = freeClientID
          BY <3>1, <3>5, <3>6, <5>1
        <5>2. CASE d # freeClientID
          <6>1. clientMap[d] # defaultReceiver /\ d < freeClientID
            BY <3>6, <4>3, <5>2 DEF ReceiversInv, ClientsInv
          <6> QED BY <3>1, <3>6, <4>1, <5>2, <6>1
        <5> QED BY <5>1, <5>2
      <4> QED BY <3>3, <4>2, <4>3 DEF ClientsInv
    <3>10. TakenInv' /\ GivenInv'
      BY <2>1, <2>2, <3>2, <3>3, <3>7, <3>8, NobodyPending
      DEF ReceiversInv, TakenInv, GivenInv
    <3>11. (Made \ Leaving = Held)'
      BY <3>2, <3>7, <3>8 DEF ReceiversInv, GivenInv
    <3> QED BY <3>9, <3>10, <3>11 DEF ReceiversInv
  <2>5. ASSUME NEW d \in ClientIDs, RemoveClient(d) PROVE ReceiversInv'
    <3> DEFINE r == clientMap[d]
    <3>1. /\ r # NoReceiver /\ removeQueue' = Append(removeQueue, Removal(r))
          /\ removed' = removed \cup {r} /\ clientMap' = [clientMap EXCEPT ![d] = NoReceiver]
          /\ UNCHANGED <<createQueue, freeRcvId, defaultReceiver, freeClientID>>
      BY <2>5 DEF RemoveClient, PushFront, WithoutClient
    <3>2. Removal(r) \in Removals /\ Removal(r).id = r
      BY <3>1, ClientNumbers, Posted DEF Removal
    <3>3. Pending(removeQueue') = Pending(removeQueue) \cup {r}
      BY <1>1, <3>1, <3>2, PendingOf
    <3>4. r \in Held /\ r # defaultReceiver /\ \A e \in ClientIDs : clientMap[e] = r => e = d
      BY <3>1 DEF ReceiversInv, ClientsInv, Held
    <3>5. clientMap'[d] = NoReceiver /\ \A e \in ClientIDs : e # d => clientMap'[e] = clientMap[e]
      BY <1>1, <3>1
    <3> HIDE DEF r
    <3>6. Held' = Held \ {r}
      BY <3>1, <3>4, <3>5 DEF Held
    <3>7. Made' = Made /\ Leaving' = Leaving \cup {r} /\ Given' = Given
      BY <2>1, <3>1, <3>3 DEF Made, Leaving, OnMap, Given
    <3>8. ClientsInv'
      BY <3>1, <3>5 DEF ReceiversInv, ClientsInv
    <3>9. TakenInv' /\ GivenInv'
      BY <2>1, <2>2, <3>1, <3>4, <3>6, <3>7 DEF ReceiversInv, TakenInv, GivenInv
    <3> QED BY <3>6, <3>7, <3>8, <3>9 DEF ReceiversInv
  <2> QED BY <2>1, <2>3, <2>4, <2>5 DEF Handling
<1>10. CASE \/ InitExecutor \/ StoreExecutorID \/ RequestTermination \/ HandleSignals \/ EndRun
  BY <1>2, <1>10 DEF InitExecutor, StoreExecutorID, RequestTermination, HandleSignals, EndRun
<1>11. CASE UNCHANGED dispatcherVars
  BY <1>2, <1>11 DEF dispatcherVars
<1> QED BY <1>3, <1>4, <1>5, <1>6, <1>7, <1>8, <1>9, <1>10, <1>11 DEF DispatcherNext, Dispatch


\* The receivers and the order hold at the start.
LEMMA DispatcherBegins == DispatcherInit => OrderInv /\ ReceiversInv
<1> SUFFICES ASSUME DispatcherInit PROVE OrderInv /\ ReceiversInv
  OBVIOUS
<1>1. DispatcherTypes
  BY DispatcherTypesInit
<1>2. /\ queue = <<>> /\ localQueue = <<>> /\ createQueue = <<>> /\ localCreateQueue = <<>>
      /\ removeQueue = <<>> /\ localRemoveQueue = <<>>
      /\ freeRcvId = 0 /\ receiverMap = [r \in ReceiverIDs |-> NoDispatch]
      /\ defaultReceiver = NoReceiver /\ clientMap = [d \in ClientIDs |-> NoReceiver]
      /\ pcSend = [s \in Senders |-> NoReceiver] /\ removed = {}
      /\ \A s \in Senders : posted[s] = 0 /\ handled[s] = 0
  BY DEF DispatcherInit
<1>3. DOMAIN Waiting = {}
  <2>1. <<>> \in Seq(Mails)
    BY EmptySeq
  <2>2. DOMAIN Waiting = DOMAIN <<>>
    BY <1>2, <2>1, SameQueue DEF Waiting
  <2>3. Len(<<>>) = 0 /\ DOMAIN <<>> = 1 .. Len(<<>>)
    BY <2>1, EmptySeq, LenProperties
  <2> QED BY <2>2, <2>3
<1>4. OrderInv
  BY <1>2, <1>3 DEF OrderInv, InOrder
<1>5. /\ Given = {} /\ Held = {} /\ Leaving = {}
  BY <1>2, NobodyPending DEF Given, Held, Leaving
<1>6. Made = {}
  BY <1>2, NobodyPending DEF Made, OnMap
<1>7. ReceiversInv
  BY <1>2, <1>5, <1>6, NobodyPending DEF ReceiversInv, TakenInv, GivenInv, ClientsInv
<1> QED BY <1>4, <1>7

\* The receivers are those the runs check, and a message is lost only to one
\* that was removed.
LEMMA ReceiversMean ==
  ASSUME DispatcherTypes, ReceiversInv
  PROVE  ReceiversOfClients /\ LostOnlyIfRemoved
<1>1. \A q : Pending(q) = {q[i].id : i \in DOMAIN q}
  BY DEF Pending, Items
<1>2. ReceiversOfClients
  BY <1>1 DEF ReceiversInv, ReceiversOfClients, Made, OnMap, Leaving, Held
<1>3. LostOnlyIfRemoved
  <2> SUFFICES ASSUME ReceiversSettled, localQueue # <<>>,
                      receiverMap[Head(localQueue).to] = NoDispatch
               PROVE  Head(localQueue).to \in removed
    BY DEF LostOnlyIfRemoved
  <2> DEFINE r == Head(localQueue).to
  <2>1. localQueue \in Seq(Mails)
    BY DEF DispatcherTypes, QueuesInv
  <2>2. r \in Addressed(localQueue)
    BY <2>1, PendingOf
  <2>3. r \notin OnMap
    BY DEF OnMap
  <2>4. r \in Given /\ r \notin Pending(createQueue)
    BY <2>2 DEF ReceiversInv, TakenInv, GivenInv
  <2>5. Pending(localCreateQueue) = {}
    BY NobodyPending DEF ReceiversSettled
  <2> HIDE DEF r
  <2>6. r \notin Made
    BY <2>3, <2>4, <2>5 DEF Made
  <2> QED BY <2>4, <2>6 DEF ReceiversInv, GivenInv, r
<1> QED BY <1>2, <1>3

-----------------------------------------------------------------------------
(* The dispatcher: sleep                                                   *)

\* Whatever these hold was posted before the executor had its ID.
EarlyOnly(q, c, r) == \A x \in Items(q) \cup Items(c) \cup Items(r) : x.early

\* An executor that runs is active, and one that sleeps, or may decide to,
\* without a signal has nothing to do.
AwakeInv ==
  /\ pcRun = "work" => tag = "executing"
  /\ ((tag = "suspended" \/ pcRun = "work") /\ signals = {}) =>
       EarlyOnly(queue, createQueue, removeQueue)

\* What is put into a queue is early or comes with a signal.
LEMMA EarlyOrSignalled ==
  ASSUME NEW S, NEW q \in Seq(S), NEW x \in S, x.early = (myExecutor # "stored"),
         tag \in {"none", "executing", "suspended", "gone"},
         \A y \in Items(q) : y.early
  PROVE  \/ \A y \in Items(Append(q, x)) : y.early
         \/ DoSignal # {}
         \/ tag = "gone"
<1>1. Items(Append(q, x)) = Items(q) \cup {x}
  BY ItemsOf
<1> QED BY <1>1 DEF DoSignal

\* Every step keeps the executor awake that has something to do.
LEMMA AwakeKept ==
  ASSUME DispatcherTypes, AwakeInv, [DispatcherNext]_dispatcherVars
  PROVE  AwakeInv'
<1> USE DEF dispVars, handlerVars, execVars, histVars
<1>1. /\ queue \in Seq(Mails) /\ createQueue \in Seq(Creations) /\ removeQueue \in Seq(Removals)
      /\ tag \in {"none", "executing", "suspended", "gone"}
      /\ pcRun = "idle" =>
           localQueue = <<>> /\ localCreateQueue = <<>> /\ localRemoveQueue = <<>>
  BY DEF DispatcherTypes, QueuesInv, SendersInv
<1>2. CASE UNCHANGED <<queue, createQueue, removeQueue, tag, pcRun, signals>>
  BY <1>2 DEF AwakeInv
<1>3. ASSUME signals' = DoSignal, UNCHANGED <<tag, pcRun>>,
             EarlyOnly(queue, createQueue, removeQueue) =>
               \/ EarlyOnly(queue', createQueue', removeQueue')
               \/ DoSignal # {} \/ tag = "gone"
      PROVE  AwakeInv'
  <2>1. signals' = {} => signals = {}
    BY <1>3 DEF DoSignal
  <2> QED BY <1>3, <2>1 DEF AwakeInv
<1>4. ASSUME NEW d \in {0} \cup ClientIDs, CreateReceiver(d), UNCHANGED <<queue, removeQueue>>,
             EarlyOnly(queue, createQueue, removeQueue)
      PROVE  \/ EarlyOnly(queue', createQueue', removeQueue')
             \/ DoSignal # {} \/ tag = "gone"
  <2>1. /\ Creation(freeRcvId, d) \in Creations
        /\ Creation(freeRcvId, d).early = (myExecutor # "stored")
    BY <1>4, Posted DEF CreateReceiver, Creation
  <2>2. createQueue' = Append(createQueue, Creation(freeRcvId, d))
    BY <1>4 DEF CreateReceiver, PushFront
  <2>3. \A y \in Items(createQueue) : y.early
    BY <1>4 DEF EarlyOnly
  <2>4. (\A y \in Items(createQueue') : y.early) \/ DoSignal # {} \/ tag = "gone"
    BY <1>1, <2>1, <2>2, <2>3, EarlyOrSignalled
  <2> QED BY <1>4, <2>4 DEF EarlyOnly
<1>5. CASE CreateDefaultReceiver
  BY <1>3, <1>4, <1>5 DEF CreateDefaultReceiver
<1>6. ASSUME NEW s \in Senders, PostMessage(s) PROVE AwakeInv'
  <2> DEFINE m == Message(s, pcSend[s])
  <2>1. m \in Mails /\ m.early = (myExecutor # "stored")
    BY <1>6, Posted DEF PostMessage, Message
  <2>2. /\ queue' = Append(queue, m) /\ signals' = DoSignal
        /\ UNCHANGED <<createQueue, removeQueue, tag, pcRun>>
    BY <1>6 DEF PostMessage, PushFront
  <2> HIDE DEF m
  <2>3. ASSUME EarlyOnly(queue, createQueue, removeQueue)
        PROVE  \/ EarlyOnly(queue', createQueue', removeQueue')
               \/ DoSignal # {} \/ tag = "gone"
    <3>1. \A y \in Items(queue) : y.early
      BY <2>3 DEF EarlyOnly
    <3>2. (\A y \in Items(queue') : y.early) \/ DoSignal # {} \/ tag = "gone"
      BY <1>1, <2>1, <2>2, <3>1, EarlyOrSignalled
    <3> QED BY <2>2, <2>3, <3>2 DEF EarlyOnly
  <2> QED BY <1>3, <2>2, <2>3
<1>7. CASE InitExecutor
  BY <1>7 DEF InitExecutor, AwakeInv
<1>8. CASE RequestTermination
  BY <1>8 DEF RequestTermination, AwakeInv
<1>9. CASE HandleSignals
  BY <1>9 DEF HandleSignals, AwakeInv
<1>10. CASE TakeQueues
  <2>1. /\ queue' = <<>> /\ createQueue' = <<>> /\ removeQueue' = <<>>
        /\ tag' = "executing"
    BY <1>1, <1>10 DEF TakeQueues
  <2>2. EarlyOnly(queue', createQueue', removeQueue')
    BY <2>1, NoItems DEF EarlyOnly
  <2> QED BY <2>1, <2>2 DEF AwakeInv
<1>11. CASE ActOnMessage
  <2>1. pcRun = "work" /\ Handling /\ UNCHANGED <<queue, tag, pcRun>>
    BY <1>11, HandlingOf
  <2>2. CASE LetPass
    BY <1>2, <2>1, <2>2 DEF LetPass
  <2>3. CASE CreateClient
    <3>1. freeClientID \in ClientIDs
      BY <2>3, ClientNumbers DEF CreateClient, CreateReceiver
    <3> QED BY <1>3, <1>4, <2>1, <2>3, <3>1 DEF CreateClient
  <2>4. ASSUME NEW d \in ClientIDs, RemoveClient(d) PROVE AwakeInv'
    <3> DEFINE x == Removal(clientMap[d])
    <3>1. x \in Removals /\ x.early = (myExecutor # "stored")
      BY <2>4, ClientNumbers, Posted DEF RemoveClient, Removal
    <3>2. removeQueue' = Append(removeQueue, x) /\ signals' = DoSignal /\ UNCHANGED createQueue
      BY <2>4 DEF RemoveClient, PushFront
    <3> HIDE DEF x
    <3>3. ASSUME EarlyOnly(queue, createQueue, removeQueue)
          PROVE  \/ EarlyOnly(queue', createQueue', removeQueue')
                 \/ DoSignal # {} \/ tag = "gone"
      <4>1. \A y \in Items(removeQueue) : y.early
        BY <3>3 DEF EarlyOnly
      <4>2. (\A y \in Items(removeQueue') : y.early) \/ DoSignal # {} \/ tag = "gone"
        BY <1>1, <3>1, <3>2, <4>1, EarlyOrSignalled
      <4> QED BY <2>1, <3>2, <3>3, <4>2 DEF EarlyOnly
    <3> QED BY <1>3, <2>1, <3>2, <3>3
  <2> QED BY <2>1, <2>2, <2>3, <2>4 DEF Handling
<1>12. CASE EndRun
  BY <1>12 DEF EndRun, AwakeInv
<1>13. CASE StoreExecutorID \/ ActOnCreation \/ ActOnRemoval
  BY <1>2, <1>13 DEF StoreExecutorID, ActOnCreation, ActOnRemoval
<1>14. ASSUME NEW s \in Senders, NEW r \in ReceiverIDs, CountMessage(s, r) PROVE AwakeInv'
  BY <1>2, <1>14 DEF CountMessage
<1>15. CASE UNCHANGED dispatcherVars
  BY <1>2, <1>15 DEF dispatcherVars
<1> QED BY <1>5, <1>6, <1>7, <1>8, <1>9, <1>10, <1>11, <1>12, <1>13, <1>14, <1>15
        DEF DispatcherNext, Dispatch

\* An executor asleep without a signal has nothing to do.
LEMMA AwakeMeans ==
  ASSUME AwakeInv
  PROVE  AsleepOnlyWhenDone
<1> SUFFICES ASSUME tag = "suspended", signals = {}, NEW q \in {queue, createQueue, removeQueue},
                    NEW i \in DOMAIN q
             PROVE  q[i].early
  BY DEF AsleepOnlyWhenDone
<1>1. q[i] \in Items(q)
  BY DEF Items
<1> QED BY <1>1 DEF AwakeInv, EarlyOnly


-----------------------------------------------------------------------------
(* The dispatcher: what it promises                                        *)

DispatcherInv == DispatcherTypes /\ CountsInv /\ OrderInv /\ ReceiversInv /\ AwakeInv

\* Every step keeps the invariant, which holds at the start.
LEMMA DispatcherInvariant == DispatcherSpec => []DispatcherInv
<1>1. DispatcherInit => DispatcherInv
  <2>1. DispatcherInit => AwakeInv
    BY DEF DispatcherInit, AwakeInv
  <2> QED BY <2>1, DispatcherTypesInit, DispatcherBegins DEF DispatcherInv
<1>2. DispatcherInv /\ [DispatcherNext]_dispatcherVars => DispatcherInv'
  <2> SUFFICES ASSUME DispatcherInv, [DispatcherNext]_dispatcherVars PROVE DispatcherInv'
    OBVIOUS
  <2>1. DispatcherTypes /\ CountsInv /\ OrderInv /\ ReceiversInv /\ AwakeInv
    BY DEF DispatcherInv
  <2>2. DispatcherTypes'
    BY <2>1, QueuesKept, NumbersKept, SendersKept DEF DispatcherTypes
  <2>3. CountsInv' /\ OrderInv' /\ ReceiversInv' /\ AwakeInv'
    BY <2>1, <2>2, CountsKept, OrderKept, ReceiversKept, AwakeKept
  <2> QED BY <2>2, <2>3 DEF DispatcherInv
<1> QED BY <1>1, <1>2, PTL DEF DispatcherSpec

\* The types of the runs; m_totalSize is a count, so that it is never negative.
LEMMA TypesMean ==
  ASSUME DispatcherTypes, CountsInv
  PROVE  DispatcherTypeOK /\ TotalSizeCounts
<1>1. \A i \in DOMAIN queue : queue[i] \in Mails
  BY ItemsOf DEF DispatcherTypes, QueuesInv, Items
<1>2. totalSize \in Nat
  <2>1. Len(queue) \in Nat /\ Len(localQueue) \in Nat /\ baseSize \in Nat
    BY LengthOf DEF DispatcherTypes, QueuesInv, SendersInv
  <2>2. Cardinality(Posting) \in Nat
    BY FS_CardinalityType DEF CountsInv
  <2> QED BY <2>1, <2>2 DEF CountsInv, TotalSizeCounts, Posting
<1> QED BY <1>1, <1>2 DEF DispatcherTypeOK, DispatcherTypes, NumbersInv, SendersInv, CountsInv, Mails

\* Every variable of a dispatcher and its handler keeps its type, and m_totalSize
\* is what waits in both queues and what senders are about to post, for any number
\* of senders, although it is written outside the lock.
THEOREM TotalSizeCorrect == DispatcherSpec => [](DispatcherTypeOK /\ TotalSizeCounts)
<1>1. DispatcherInv => DispatcherTypeOK /\ TotalSizeCounts
  BY TypesMean DEF DispatcherInv
<1> QED BY <1>1, DispatcherInvariant, PTL

\* Messages are handled in the order their sender posted them, each once, none is
\* lost but to a receiver that was removed, and the executor does not sleep on
\* what was posted once its ID was stored, for any number of senders and messages.
THEOREM DeliveryCorrect == DispatcherSpec => []DeliveredInOrder
<1>1. DispatcherInv => DeliveredInOrder
  BY OrderMeans, ReceiversMean, AwakeMeans DEF DispatcherInv, DeliveredInOrder
<1> QED BY <1>1, DispatcherInvariant, PTL

\* Once what waits is acted on, the receivers on the map are those of the handler
\* and its present clients, whatever clients come and go.
THEOREM ReceiversCorrect == DispatcherSpec => []ReceiversOfClients
<1>1. DispatcherInv => ReceiversOfClients
  BY ReceiversMean DEF DispatcherInv
<1> QED BY <1>1, DispatcherInvariant, PTL

-----------------------------------------------------------------------------
(* The parts next to each other                                            *)

\* Each part of the composition behaves as its own specification says: no part
\* touches the variables of another, so that what is proved of one holds here.
THEOREM PartsAsSpecified == MessagesSpec => DispatcherSpec /\ TimerSpec /\ RequestsSpec
<1>1. MessagesInit => DispatcherInit /\ TimerInit /\ RequestsInit
  BY DEF MessagesInit
<1>2. [MessagesNext]_msgVars =>
        /\ [DispatcherNext]_dispatcherVars /\ [TimerNext]_timerVars
        /\ [RequestsNext]_requestVars
  <2> SUFFICES ASSUME [MessagesNext]_msgVars
               PROVE  /\ [DispatcherNext]_dispatcherVars /\ [TimerNext]_timerVars
                      /\ [RequestsNext]_requestVars
    OBVIOUS
  <2>1. CASE OfDispatcher(DispatcherNext)
    BY <2>1 DEF OfDispatcher
  <2>2. CASE OfTimer(TimerNext)
    BY <2>2 DEF OfTimer
  <2>3. CASE OfRequests(RequestsNext)
    BY <2>3 DEF OfRequests
  <2>4. CASE UNCHANGED msgVars
    BY <2>4 DEF msgVars
  <2> QED BY <2>1, <2>2, <2>3, <2>4 DEF MessagesNext
<1> QED BY <1>1, <1>2, PTL DEF MessagesSpec, DispatcherSpec, TimerSpec, RequestsSpec

\* All that the run of the three parts checks of a state holds of every one, for
\* any senders, receivers, timers, issuers and requests.
THEOREM MessagesCorrect ==
  MessagesSpec => []( /\ MessagesTypeOK /\ DeliveredInOrder /\ ReceiversOfClients
                      /\ OneEntryPerTimer /\ LookupsAgree /\ SidesAgree )
<1>1. DispatcherTypeOK /\ TotalSizeCounts /\ TimerTypeOK /\ RequestsTypeOK => MessagesTypeOK
  BY DEF MessagesTypeOK
<1> QED
  BY <1>1, PartsAsSpecified, TotalSizeCorrect, DeliveryCorrect, ReceiversCorrect, TimersCorrect,
     RequestsTypeCorrect, LookupsCorrect, SidesCorrect, PTL

\* Next to the other parts as well, an issuer takes nothing back that it was told.
THEOREM NotTakenBackHere == MessagesSpec => NeverTakenBack
BY PartsAsSpecified, NotTakenBack, PTL
=============================================================================
