--------------------------- MODULE LibrariesProofs ---------------------------
(***************************************************************************)
(* The libraries the services stand on, for all values of their constants. *)
(*                                                                         *)
(* Reading a number out of a data element (DataConvert): what is read is   *)
(* the nearest number of the target's type, and is reported narrowed       *)
(* exactly if it is another number, where not both types are signed and    *)
(* too wide to be negated.  The lemmas follow the branches of ConvertValue *)
(* (DTUtils.h): the limits of the narrower type are numbers of the wider   *)
(* one, so that no comparison is made with a limit that the cast has bent. *)
(*                                                                         *)
(* Task graphs and the pool of threads that runs them (AsyncTasks): a task *)
(* is in one place of the pool at most and runs after all it depends on,   *)
(* and the caller is told whether there was a cycle.  A released task lies *)
(* in one of the queues it passes through, from the list of its context to *)
(* a thread and back; the invariant says that these queues have nothing in *)
(* common, and that the counts of a context are those of the dependencies  *)
(* whose completion it has not handled yet.                                *)
(*                                                                         *)
(* The registry of services and their clients (ClientManager): the lock is *)
(* let go before the tables agree, and a call made within another may lock *)
(* its own thread out.  A thread's stack of calls may have any depth; its  *)
(* outermost call has the mutex, and the calls around the innermost one    *)
(* rely on nothing that it may change.  The tables differ only by the      *)
(* clients that the loops of a thread that writes are done with, and by    *)
(* those that were refused.                                                *)
(*                                                                         *)
(* The store of shared objects and its tree of names (SharedObjectStore,   *)
(* ObjectTree): what a walk along a path does is shown step by step, by an *)
(* induction over the numbers of its steps.  Every node has one path for a *)
(* label; an addition adds one value, or none and only dictionaries; what  *)
(* led to a node leads there until a removal.                              *)
(*                                                                         *)
(* What is proved of data trees is in a module of its own                  *)
(* (DataTreeProofs).                                                       *)
(*                                                                         *)
(* At the end the results are carried over to the libraries side by side   *)
(* (MCLibraries).                                                          *)
(***************************************************************************)
EXTENDS MCLibraries, DataTreeProofs

-----------------------------------------------------------------------------
(* Conversions                                                             *)

IntegralTypes == IntTypes \cup {Boolean}

\* What the conversion of v to a type has to give.
Nearest(v, to, c) ==
  /\ v \in ValuesOf(to) => c = Exact(v)
  /\ v > to.max => c = Narrowed(to.max)
  /\ v < MinOf(to) => c = Narrowed(MinOf(to))

-----------------------------------------------------------------------------
(* The types *)

\* An integral type is a record, and its range contains 0 and is finite.
LEMMA IntegralRange ==
  ASSUME NEW t \in IntegralTypes
  PROVE  /\ t.max \in Nat /\ MinOf(t) \in Int /\ MinOf(t) <= 0
         /\ t.kind \in {"signed", "unsigned", "bool"}
         /\ t.kind = "signed" => MinOf(t) = -t.max - 1 /\ 2 * (t.max + 1) <= WideRange
         /\ t.kind # "signed" => MinOf(t) = 0
         /\ IsIntegral(t) /\ (IsUnsigned(t) <=> t.kind # "signed")
<1>1. CASE t \in [kind : {"signed"}, max : Signeds]
  BY <1>1, DataConvertAssumption DEF MinOf, IsIntegral, IsUnsigned
<1>2. CASE t \in [kind : {"unsigned"}, max : Unsigneds]
  BY <1>2, DataConvertAssumption DEF MinOf, IsIntegral, IsUnsigned
<1>3. CASE t = Boolean
  BY <1>3 DEF Boolean, MinOf, IsIntegral, IsUnsigned
<1> QED BY <1>1, <1>2, <1>3 DEF IntegralTypes, IntTypes

\* The integral types are those with an integral kind.
LEMMA IntegralIsIntegral ==
  ASSUME NEW t \in ElementTypes, IsIntegral(t)
  PROVE  t \in IntegralTypes
BY DEF ElementTypes, FloatTypes, String, None, IsIntegral, IntegralTypes

\* A number that fits is cast to itself.
LEMMA CastOfFitting ==
  ASSUME NEW t, NEW v \in ValuesOf(t)
  PROVE  Cast(v, t) = v
BY DEF Cast

\* Every type has the number 0.
LEMMA ZeroFits ==
  ASSUME NEW t \in ElementTypes
  PROVE  0 \in ValuesOf(t) /\ MinOf(t) \in Int /\ t.max \in Int
<1>1. CASE t \in IntegralTypes
  BY <1>1, IntegralRange DEF ValuesOf
<1>2. CASE t \in FloatTypes
  BY <1>2, DataConvertAssumption DEF FloatTypes, ValuesOf, MinOf
<1>3. CASE t \in {String, None}
  BY <1>3 DEF String, None, ValuesOf, MinOf
<1> QED BY <1>1, <1>2, <1>3 DEF ElementTypes, IntegralTypes

-----------------------------------------------------------------------------
(* The branches of ConvertValue *)

\* The upper cut is right for a number that is not below the target's range,
\* if the target's greatest number fits the source.
LEMMA CutAboveNearest ==
  ASSUME NEW from \in IntegralTypes, NEW to \in IntegralTypes,
         NEW v \in ValuesOf(from), to.max <= from.max, v >= MinOf(to)
  PROVE  Nearest(v, to, CutAbove(from, to, v))
<1>1. to.max \in ValuesOf(from) /\ v \in Int
  BY IntegralRange DEF ValuesOf
<1>2. Cast(to.max, from) = to.max
  BY <1>1, CastOfFitting
<1>3. CASE v > to.max
  BY <1>1, <1>2, <1>3, IntegralRange DEF CutAbove, Nearest, ValuesOf
<1>4. CASE v <= to.max
  <2>1. v \in ValuesOf(to)
    BY <1>1, <1>4, IntegralRange DEF ValuesOf
  <2>2. Cast(v, to) = v /\ ~(v > Cast(to.max, from))
    BY <1>1, <1>2, <1>4, <2>1, CastOfFitting, IntegralRange
  <2>3. CutAbove(from, to, v) = Exact(v)
    BY <2>2 DEF CutAbove
  <2> QED BY <1>1, <1>4, <2>3, IntegralRange DEF Nearest
<1> QED BY <1>1, <1>3, <1>4, IntegralRange

\* So are both cuts, if both limits of the target fit the source.
LEMMA CutBothEndsNearest ==
  ASSUME NEW from \in IntegralTypes, NEW to \in IntegralTypes,
         NEW v \in ValuesOf(from), to.max <= from.max, MinOf(from) <= MinOf(to)
  PROVE  Nearest(v, to, CutBothEnds(from, to, v))
<1>1. MinOf(to) \in ValuesOf(from) /\ v \in Int
  BY IntegralRange DEF ValuesOf
<1>2. Cast(MinOf(to), from) = MinOf(to)
  BY <1>1, CastOfFitting
<1>3. CASE v < MinOf(to)
  BY <1>1, <1>2, <1>3, IntegralRange DEF CutBothEnds, Nearest, ValuesOf
<1>4. CASE v >= MinOf(to)
  BY <1>1, <1>2, <1>4, CutAboveNearest, IntegralRange DEF CutBothEnds
<1> QED BY <1>1, <1>3, <1>4, IntegralRange

\* A number that fits is converted without a cut.
LEMMA ExactNearest ==
  ASSUME NEW to \in IntegralTypes, NEW v \in ValuesOf(to)
  PROVE  Nearest(v, to, Exact(Cast(v, to)))
BY CastOfFitting, IntegralRange DEF Nearest, ValuesOf

\* Of two signed types the one with the greater magnitude is found, except where
\* the negation of both overflows.
LEMMA WiderIsFound ==
  ASSUME NEW from \in IntegralTypes, NEW to \in IntegralTypes,
         IsUnsigned(from) = IsUnsigned(to), ~NegationMisleads(from, to),
         WiderToMax(from, to)
  PROVE  WiderToMin(from, to)
<1>1. /\ to.max \in Nat /\ from.max \in Nat /\ to.max > from.max
      /\ IntMax \in Nat /\ WideRange \in Nat
  BY IntegralRange, DataConvertAssumption DEF WiderToMax
<1>2. CASE IsUnsigned(from)
  BY <1>2 DEF WiderToMin
<1>3. CASE ~IsUnsigned(from)
  <2>1. /\ MinOf(to) = -to.max - 1 /\ 2 * (to.max + 1) <= WideRange
        /\ from.kind = "signed" /\ to.kind = "signed"
    BY <1>3, IntegralRange
  <2>2. from.max < IntMax
    BY <1>1, <2>1 DEF NegationMisleads
  <2>3. NegatedMin(from) = from.max + 1
    BY <2>2 DEF NegatedMin
  <2>4. NegatedMin(to) = to.max + 1 \/ NegatedMin(to) = WideRange - to.max - 1
    BY <1>1, <2>1 DEF NegatedMin
  <2> QED BY <1>1, <2>1, <2>3, <2>4 DEF WiderToMin
<1> QED BY <1>2, <1>3

\* Every other integral conversion gives the nearest number.
LEMMA ConvertIntegralNearest ==
  ASSUME NEW from \in IntegralTypes, NEW to \in IntegralTypes,
         ~NegationMisleads(from, to), NEW v \in ValuesOf(from)
  PROVE  Nearest(v, to, ConvertIntegral(from, to, v))
<1>1. CASE IsUnsigned(from) = IsUnsigned(to)
  <2>1. CASE WiderToMin(from, to) /\ WiderToMax(from, to)
    <3>1. v \in ValuesOf(to)
      BY <1>1, <2>1, IntegralRange DEF ValuesOf, WiderToMax
    <3> QED BY <1>1, <2>1, <3>1, ExactNearest DEF ConvertIntegral
  <2>2. CASE ~(WiderToMin(from, to) /\ WiderToMax(from, to))
    <3>1. ~WiderToMax(from, to)
      BY <1>1, <2>2, WiderIsFound
    <3>2. to.max <= from.max /\ MinOf(from) <= MinOf(to)
      BY <1>1, <3>1, IntegralRange DEF WiderToMax
    <3> QED BY <1>1, <2>2, <3>2, CutBothEndsNearest DEF ConvertIntegral
  <2> QED BY <2>1, <2>2
<1>2. CASE IsUnsigned(from) /\ ~IsUnsigned(to)
  <2>1. v \in Int /\ v >= 0 /\ MinOf(to) <= v
    BY <1>2, IntegralRange DEF ValuesOf
  <2>2. ConvertIntegral(from, to, v)
          = IF WiderToMax(from, to) THEN Exact(Cast(v, to)) ELSE CutAbove(from, to, v)
    BY <1>2 DEF ConvertIntegral
  <2>3. CASE WiderToMax(from, to)
    BY <2>1, <2>2, <2>3, ExactNearest, IntegralRange DEF WiderToMax, ValuesOf
  <2>4. CASE ~WiderToMax(from, to)
    BY <2>1, <2>2, <2>4, CutAboveNearest, IntegralRange DEF WiderToMax
  <2> QED BY <2>3, <2>4
<1>3. CASE ~IsUnsigned(from) /\ IsUnsigned(to)
  <2>1. v \in Int /\ MinOf(to) = 0 /\ to.max >= 0
    BY <1>3, IntegralRange DEF ValuesOf
  <2>2. ConvertIntegral(from, to, v) = SignedToUnsigned(from, to, v)
    BY <1>3 DEF ConvertIntegral
  <2>3. CASE v < 0
    BY <2>1, <2>2, <2>3, IntegralRange DEF SignedToUnsigned, Nearest, ValuesOf
  <2>4. CASE v >= 0 /\ WiderToMax(from, to)
    <3>1. v \in ValuesOf(to)
      BY <2>1, <2>4, IntegralRange DEF WiderToMax, ValuesOf
    <3> QED BY <2>1, <2>2, <2>4, <3>1, ExactNearest DEF SignedToUnsigned
  <2>5. CASE v >= 0 /\ ~WiderToMax(from, to)
    BY <2>1, <2>2, <2>5, CutAboveNearest, IntegralRange
       DEF SignedToUnsigned, WiderToMax
  <2> QED BY <2>1, <2>3, <2>4, <2>5
<1> QED BY <1>1, <1>2, <1>3 DEF IsUnsigned

-----------------------------------------------------------------------------
(* The accessors *)

\* A floating point type is not an integral one, and its range is finite.
LEMMA FloatRange ==
  ASSUME NEW t \in FloatTypes
  PROVE  t.max \in Nat /\ MinOf(t) \in Int /\ ~IsIntegral(t)
BY DataConvertAssumption DEF FloatTypes, MinOf, IsIntegral

\* The numbers of a type are integers.
LEMMA ValuesAreIntegers ==
  ASSUME NEW t \in IntegralTypes \cup FloatTypes
  PROVE  ValuesOf(t) \subseteq Int
BY IntegralRange, FloatRange DEF ValuesOf

\* An integral conversion gives a number, which may be reported narrowed.
LEMMA ConvertedIntegral ==
  ASSUME NEW from \in IntegralTypes, NEW to \in IntegralTypes,
         NEW v \in ValuesOf(from)
  PROVE  /\ ConvertIntegral(from, to, v).value \in Int
         /\ ConvertIntegral(from, to, v).narrowing \in BOOLEAN
<1> DEFINE c == ConvertIntegral(from, to, v)
<1>1. v \in Int /\ to.max \in Int /\ MinOf(to) \in Int
  BY ValuesAreIntegers, IntegralRange
<1>2. Cast(v, to) \in Int
  <2>1. to.max - MinOf(to) + 1 \in Nat \ {0}
    BY IntegralRange
  <2>2. \A k \in Int, n \in Nat \ {0} : k % n \in Int
    OBVIOUS
  <2> QED BY <1>1, <2>1, <2>2 DEF Cast
<1>3. \E w \in Int : c = Exact(w) \/ c = Narrowed(w)
  <2>1. CutAbove(from, to, v) \in {Exact(Cast(v, to)), Narrowed(to.max)}
    BY DEF CutAbove
  <2>2. c \in {Exact(Cast(v, to)), Narrowed(to.max), Narrowed(MinOf(to)), Narrowed(0)}
    BY <2>1 DEF ConvertIntegral, CutBothEnds, SignedToUnsigned, IsUnsigned
  <2> QED BY <1>1, <1>2, <2>2
<1>4. PICK w \in Int : c = Exact(w) \/ c = Narrowed(w)
  BY <1>3
<1>5. /\ Exact(w).value = w /\ Exact(w).narrowing = FALSE
      /\ Narrowed(w).value = w /\ Narrowed(w).narrowing = TRUE
  BY DEF Exact, Narrowed
<1> QED BY <1>4, <1>5

\* ConvertValue is ConvertIntegral between integral types.
LEMMA BetweenIntegrals ==
  ASSUME NEW from \in IntegralTypes, NEW to \in IntegralTypes, NEW v
  PROVE  ConvertValue(from, to, v) = {ConvertIntegral(from, to, v)}
<1>1. /\ IsIntegral(from) /\ IsIntegral(to)
      /\ from \notin FloatTypes /\ to \notin FloatTypes
  BY IntegralRange, FloatRange
<1> QED BY <1>1 DEF ConvertValue

\* What is coerced and to what: an integral type to none but integral ones.
LEMMA CoercibleTargets ==
  ASSUME NEW from \in ElementTypes, NEW to \in ElementTypes \ {None},
         Coercible(from, to)
  PROVE  /\ from \in IntTypes \cup FloatTypes
         /\ to \in IntegralTypes \cup FloatTypes
         /\ from \in IntTypes => to \in IntegralTypes
<1>1. IsIntegral(to) => to \in IntegralTypes
  BY IntegralIsIntegral
<1>2. from \in IntTypes => from \notin FloatTypes
  BY FloatRange, IntegralRange DEF IntegralTypes
<1> QED BY <1>1, <1>2 DEF Coercible

\* So does every conversion that GetCoercedValue asks for.
LEMMA ConvertedIsNumber ==
  ASSUME NEW from \in ElementTypes, NEW to \in ElementTypes \ {None},
         Coercible(from, to),
         NEW v \in ValuesOf(from), NEW c \in ConvertValue(from, to, v)
  PROVE  c.value \in Int /\ c.narrowing \in BOOLEAN
<1>1. v \in Int
  BY CoercibleTargets, ValuesAreIntegers DEF IntegralTypes
<1>2. CASE from \in IntTypes /\ to \in IntegralTypes
  <2>1. from \in IntegralTypes
    BY <1>2 DEF IntegralTypes
  <2>2. c = ConvertIntegral(from, to, v)
    BY <1>2, <2>1, BetweenIntegrals
  <2> QED BY <1>2, <2>1, <2>2, ConvertedIntegral
<1>3. CASE from \in FloatTypes /\ to \in IntegralTypes
  <2>1. c \in {Narrowed(w) : w \in CastsOfFloat(v, to)}
    BY <1>3, FloatRange, IntegralRange DEF ConvertValue
  <2>2. CastsOfFloat(v, to) \subseteq Int
    BY <1>1, <1>3, ValuesAreIntegers DEF CastsOfFloat
  <2>3. PICK w \in Int : c = Narrowed(w)
    BY <2>1, <2>2
  <2> QED BY <2>3 DEF Narrowed
<1>4. CASE from \in FloatTypes /\ to \in FloatTypes
  <2>1. ~IsIntegral(from) /\ ~IsIntegral(to)
    BY <1>4, FloatRange
  <2>2. c = [value |-> v, narrowing |-> from.kind = "double"]
    BY <1>4, <2>1 DEF ConvertValue
  <2> QED BY <1>1, <2>2
<1>5. /\ from \in IntTypes => to \in IntegralTypes
      /\ from \in IntTypes \cup FloatTypes
      /\ to \in IntegralTypes \cup FloatTypes
  BY CoercibleTargets
<1> QED BY <1>2, <1>3, <1>4, <1>5

-----------------------------------------------------------------------------
(* The steps *)

ConvertInv == ConvertTypeOK /\ CoercedToNearest

\* At the beginning nothing was read.
LEMMA ConvertInitially == ConvertInit => ConvertInv
<1> SUFFICES ASSUME ConvertInit PROVE ConvertInv
  OBVIOUS
<1>1. None \in ElementTypes /\ 0 \in ValuesOf(None)
  BY ZeroFits DEF ElementTypes
<1> QED BY <1>1 DEF ConvertInit, ConvertInv, ConvertTypeOK, CoercedToNearest, NearestRead

\* Setting or clearing the element forgets what was read.
LEMMA SetKeeps ==
  ASSUME ConvertInv, NEW t \in ElementTypes, NEW v \in ValuesOf(t),
         element' = [type |-> t, value |-> v], Unread, UNCHANGED entry
  PROVE  ConvertInv'
<1>1. None \in ElementTypes
  BY DEF ElementTypes
<1>2. ConvertTypeOK'
  BY <1>1 DEF ConvertInv, ConvertTypeOK, Unread
<1>3. CoercedToNearest'
  BY DEF CoercedToNearest, NearestRead, Unread
<1> QED BY <1>2, <1>3 DEF ConvertInv

\* A read that is refused says nothing of the destination.
LEMMA RefusalKeeps ==
  ASSUME ConvertInv, NEW to \in ElementTypes, Read(to),
         NEW why \in {"NoSuchElement", "WrongTargetType", "WrongElementType"},
         Refused(why)
  PROVE  ConvertInv'
BY DEF ConvertInv, ConvertTypeOK, CoercedToNearest, NearestRead, Read, Refused

\* An element of the very type is read as it is.
LEMMA SameTypeKeeps ==
  ASSUME ConvertInv, NEW to \in ElementTypes \ {None}, GetSameType(to)
  PROVE  ConvertInv'
<1>1. /\ element' = element /\ entry' = entry /\ target' = to
      /\ dest' = element.value /\ result' = "OK"
      /\ element.type = to /\ element.value \in ValuesOf(to)
  BY DEF GetSameType, Read, ConvertInv, ConvertTypeOK
<1>2. MinOf(to) \in Int /\ to.max \in Int
  BY ZeroFits
<1>3. ConvertTypeOK'
  BY <1>1, <1>2 DEF ConvertInv, ConvertTypeOK, ValuesOf
<1>4. CoercedToNearest'
  BY <1>1, <1>2 DEF CoercedToNearest, NearestRead, ValuesOf
<1> QED BY <1>3, <1>4 DEF ConvertInv

\* An element of another type is converted or refused.
LEMMA CoercionKeeps ==
  ASSUME ConvertInv, NEW to \in ElementTypes \ {None}, GetCoercedValue(to)
  PROVE  ConvertInv'
<1> DEFINE from == element.type
<1>1. from \in ElementTypes /\ element.value \in ValuesOf(from) /\ Read(to)
  BY DEF ConvertInv, ConvertTypeOK, GetCoercedValue
<1>2. CASE ~Coercible(from, to)
  BY <1>1, <1>2, RefusalKeeps DEF GetCoercedValue
<1>3. CASE Coercible(from, to)
  <2>1. PICK c \in ConvertValue(from, to, element.value) :
          /\ dest' = c.value
          /\ result' = IF c.narrowing THEN "Narrowed" ELSE "OK"
    BY <1>3 DEF GetCoercedValue
  <2>2. c.value \in Int /\ c.narrowing \in BOOLEAN
    BY <1>1, <1>3, ConvertedIsNumber
  <2>3. element' = element /\ entry' = entry /\ target' = to
    BY <1>1 DEF Read
  <2>4. ConvertTypeOK'
    BY <2>1, <2>2, <2>3 DEF ConvertInv, ConvertTypeOK
  <2>5. CoercedToNearest'
    <3> SUFFICES ASSUME IsIntegral(from), IsIntegral(to), ~NegationMisleads(from, to)
                 PROVE  /\ element.value \in ValuesOf(to) =>
                             dest' = element.value /\ result' = "OK"
                        /\ element.value > to.max => dest' = to.max /\ result' = "Narrowed"
                        /\ element.value < MinOf(to) =>
                             dest' = MinOf(to) /\ result' = "Narrowed"
      BY <2>3 DEF CoercedToNearest, NearestRead
    <3>1. from \in IntegralTypes /\ to \in IntegralTypes
      BY <1>1, IntegralIsIntegral
    <3>2. c = ConvertIntegral(from, to, element.value)
      BY <3>1, BetweenIntegrals
    <3>3. Nearest(element.value, to, c)
      BY <1>1, <3>1, <3>2, ConvertIntegralNearest
    <3> QED BY <2>1, <3>3 DEF Nearest, Exact, Narrowed
  <2> QED BY <2>4, <2>5 DEF ConvertInv
<1> QED BY <1>2, <1>3

\* Each step of an element keeps what is known of the last read.
LEMMA ConvertStep == ConvertInv /\ [ConvertNext]_convertVars => ConvertInv'
<1> SUFFICES ASSUME ConvertInv, [ConvertNext]_convertVars PROVE ConvertInv'
  OBVIOUS
<1>1. ASSUME NEW t \in ElementTypes \ {None}, NEW v \in ValuesOf(t), Set(t, v)
      PROVE  ConvertInv'
  BY <1>1, SetKeeps DEF Set
<1>2. CASE Clear
  <2>1. None \in ElementTypes /\ 0 \in ValuesOf(None)
    BY ZeroFits DEF ElementTypes
  <2> QED BY <1>2, <2>1, SetKeeps DEF Clear
<1>3. ASSUME NEW to \in ElementTypes \ {None}, GetDictValue(to)
      PROVE  ConvertInv'
  <2>1. CASE NoElement(to)
    BY <2>1, RefusalKeeps DEF NoElement
  <2>2. CASE GetSameType(to)
    BY <2>2, SameTypeKeeps
  <2>3. CASE GetCoercedValue(to)
    BY <2>3, CoercionKeeps
  <2> QED BY <1>3, <2>1, <2>2, <2>3 DEF GetDictValue
<1>4. CASE UNCHANGED convertVars
  BY <1>4 DEF convertVars, readVars, ConvertInv, ConvertTypeOK, CoercedToNearest, NearestRead
<1> QED BY <1>1, <1>2, <1>3, <1>4 DEF ConvertNext

\* The invariant on which both results rest: an element holds a number of its
\* own type, and what was read of it is right.
LEMMA ConvertInvariant == ConvertSpec => []ConvertInv
BY ConvertInitially, ConvertStep, PTL DEF ConvertSpec

\* Every variable keeps its type: an element holds a number of its own type,
\* and what is read is a number.
THEOREM ConvertTypeCorrect == ConvertSpec => []ConvertTypeOK
<1>1. ConvertInv => ConvertTypeOK
  BY DEF ConvertInv
<1> QED BY <1>1, ConvertInvariant, PTL

\* Reading an integral element as another integral type gives the nearest number
\* of that type and tells whether it is another one, for all widths, but from int
\* or a wider signed type to one that is wider still (DTUtils.h:144).
THEOREM ConvertCorrect == ConvertSpec => []CoercedToNearest
<1>1. ConvertInv => CoercedToNearest
  BY DEF ConvertInv
<1> QED BY <1>1, ConvertInvariant, PTL

-----------------------------------------------------------------------------
(* Queues without duplicates                                               *)

Unique(q) == \A k, l \in DOMAIN q : q[k] = q[l] => k = l
Items(q) == {q[k] : k \in DOMAIN q}

\* A set of tasks can be brought in order, so InOrder gives its elements, each
\* once: the place of a task is the number of those up to it.
LEMMA InOrderLists ==
  ASSUME NEW S \in SUBSET TaskIDs
  PROVE  /\ InOrder(S) \in Seq(S) /\ Len(InOrder(S)) = Cardinality(S)
         /\ Unique(InOrder(S)) /\ Items(InOrder(S)) = S
<1> DEFINE n == Cardinality(S)
           UpTo(x) == {y \in S : y <= x}
           rank == [x \in S |-> Cardinality(UpTo(x))]
           Ordered(q) == \A k, l \in DOMAIN q : k < l => q[k] < q[l]
<1>1. MaxTasks \in Nat /\ \A x \in S : x \in Int
  BY AsyncAssumption DEF TaskIDs
<1>2. IsFiniteSet(S) /\ n \in Nat
  <2>1. IsFiniteSet(TaskIDs)
    BY <1>1, FS_Interval DEF TaskIDs
  <2> QED BY ONLY <2>1, FS_Subset, FS_CardinalityType, S \in SUBSET TaskIDs
<1>3. \A x \in S : IsFiniteSet(UpTo(x)) /\ rank[x] \in 1 .. n
  <2> SUFFICES ASSUME NEW x \in S PROVE IsFiniteSet(UpTo(x)) /\ rank[x] \in 1 .. n
    OBVIOUS
  <2>1. UpTo(x) \in SUBSET S /\ x \in UpTo(x)
    BY <1>1
  <2>2. IsFiniteSet(UpTo(x)) /\ Cardinality(UpTo(x)) <= n
    BY ONLY <1>2, <2>1, FS_Subset
  <2>3. Cardinality(UpTo(x)) \in Nat /\ Cardinality(UpTo(x)) # 0
    BY ONLY <2>1, <2>2, FS_CardinalityType, FS_EmptySet
  <2> QED BY <1>2, <2>2, <2>3
<1>4. ASSUME NEW x \in S, NEW y \in S, x < y PROVE rank[x] < rank[y]
  <2>1. UpTo(x) \in SUBSET UpTo(y)
    <3>1. ASSUME NEW z \in S, z <= x PROVE z <= y
      <4>1. x \in Int /\ y \in Int /\ z \in Int
        BY <1>1
      <4> QED BY <1>4, <3>1, <4>1
    <3> QED BY <3>1
  <2>2. UpTo(x) # UpTo(y)
    <3>1. x \in Int /\ y \in Int
      BY <1>1
    <3>2. y \in UpTo(y) /\ y \notin UpTo(x)
      BY <1>4, <3>1
    <3> QED BY <3>2
  <2>3. IsFiniteSet(UpTo(y)) /\ rank[x] \in Nat /\ rank[y] \in Nat
    BY <1>3
  <2>4. Cardinality(UpTo(x)) <= Cardinality(UpTo(y)) /\ Cardinality(UpTo(x)) # Cardinality(UpTo(y))
    BY ONLY <2>1, <2>3, <2>2, FS_Subset
  <2> QED BY <2>3, <2>4
<1>5. rank \in Injection(S, 1 .. n)
  <2>1. rank \in [S -> 1 .. n]
    BY <1>3
  <2>2. ASSUME NEW x \in S, NEW y \in S, rank[x] = rank[y] PROVE x = y
    <3>1. rank[x] \in Int /\ rank[y] \in Int /\ x \in Int /\ y \in Int
      BY <1>1, <1>3
    <3>2. ~(x < y) /\ ~(y < x)
      BY <1>4, <2>2, <3>1
    <3> QED BY <3>1, <3>2
  <2> HIDE DEF rank
  <2> QED BY <2>1, <2>2 DEF Injection, IsInjective
<1>6. rank \in Surjection(S, 1 .. n)
  <2>1. IsFiniteSet(1 .. n) /\ Cardinality(1 .. n) = n
    BY <1>2, FS_Interval
  <2> QED BY ONLY <1>5, <2>1, FS_Injection
<1>7. \E q \in [1 .. n -> S] : Ordered(q)
  <2> DEFINE q == [k \in 1 .. n |-> CHOOSE x \in S : rank[x] = k]
  <2>1. \A k \in 1 .. n : \E x \in S : rank[x] = k
    BY <1>6 DEF Surjection
  <2>2. \A k \in 1 .. n : q[k] \in S /\ rank[q[k]] = k
    BY <2>1
  <2>3. q \in [1 .. n -> S]
    BY <2>2
  <2>4. ASSUME NEW k \in 1 .. n, NEW l \in 1 .. n, k < l PROVE q[k] < q[l]
    <3>1. q[k] \in S /\ q[l] \in S /\ q[k] \in Int /\ q[l] \in Int
      BY <1>1, <2>2
    <3> HIDE DEF rank, q
    <3>2. rank[q[k]] = k /\ rank[q[l]] = l
      BY <2>2
    <3>3. rank[q[k]] < rank[q[l]] /\ rank[q[k]] \in Int /\ rank[q[l]] \in Int
      BY <1>2, <2>4, <3>2
    <3>4. ~(q[l] < q[k]) /\ q[l] # q[k]
      BY <1>4, <3>1, <3>3
    <3> QED BY <3>1, <3>4
  <2> HIDE DEF q
  <2>5. Ordered(q)
    BY <2>3, <2>4
  <2> QED BY <2>3, <2>5
<1> DEFINE o == InOrder(S)
<1> HIDE DEF rank, UpTo
<1>8. o \in [1 .. n -> S] /\ Ordered(o)
  BY <1>7 DEF InOrder
<1> HIDE DEF o
<1>9. Unique(o)
  <2> SUFFICES ASSUME NEW k \in 1 .. n, NEW l \in 1 .. n, o[k] = o[l] PROVE k = l
    BY <1>8 DEF Unique
  <2>1. k \in Int /\ l \in Int /\ o[k] \in S /\ o[l] \in S
    BY <1>2, <1>8
  <2>2. o[k] \in Int /\ o[l] \in Int
    BY <1>1, <2>1
  <2>3. ~(k < l) /\ ~(l < k)
    BY <1>8, <2>2
  <2> QED BY <2>1, <2>3
<1>10. o \in Injection(1 .. n, S)
  BY <1>8, <1>9 DEF Injection, IsInjective, Unique
<1>11. o \in Surjection(1 .. n, S)
  <2>1. IsFiniteSet(1 .. n) /\ Cardinality(1 .. n) = n
    BY <1>2, FS_Interval
  <2> QED BY ONLY <1>2, <1>10, <2>1, FS_Injection
<1>12. Items(o) = S
  BY <1>8, <1>11 DEF Items, Surjection
<1>13. o \in Seq(S) /\ Len(o) = n
  BY <1>2, <1>8
<1> QED BY <1>9, <1>12, <1>13 DEF o

\* What remains of a list without duplicates when its head is taken, ...
LEMMA OfTail ==
  ASSUME NEW S, NEW q \in Seq(S), q # <<>>
  PROVE  /\ Tail(q) \in Seq(S) /\ Head(q) \in Items(q) /\ Head(q) \in S
         /\ Len(Tail(q)) = Len(q) - 1
         /\ Unique(q) => Unique(Tail(q)) /\ Items(Tail(q)) = Items(q) \ {Head(q)}
<1>1. /\ Tail(q) \in Seq(S) /\ Head(q) \in S /\ Len(Tail(q)) = Len(q) - 1
      /\ \A i \in 1 .. Len(Tail(q)) : Tail(q)[i] = q[i + 1]
  BY HeadTailProperties
<1>2. /\ Len(q) \in Nat \ {0} /\ Head(q) = q[1]
      /\ DOMAIN q = 1 .. Len(q) /\ DOMAIN Tail(q) = 1 .. Len(q) - 1
  BY <1>1, EmptySeq
<1>3. Head(q) \in Items(q)
  BY <1>2 DEF Items
<1>4. ASSUME Unique(q) PROVE Unique(Tail(q))
  <2> SUFFICES ASSUME NEW k \in 1 .. Len(q) - 1, NEW l \in 1 .. Len(q) - 1,
                      Tail(q)[k] = Tail(q)[l]
               PROVE  k = l
    BY <1>2 DEF Unique
  <2>1. k + 1 \in DOMAIN q /\ l + 1 \in DOMAIN q /\ q[k + 1] = q[l + 1]
    BY <1>1, <1>2
  <2>2. k + 1 = l + 1
    BY <1>4, <2>1 DEF Unique
  <2> QED BY <1>2, <2>2
<1>5. ASSUME Unique(q), NEW x PROVE x \in Items(Tail(q)) <=> x \in Items(q) /\ x # Head(q)
  <2>1. ASSUME NEW k \in 1 .. Len(q) - 1, x = Tail(q)[k] PROVE x \in Items(q) /\ x # Head(q)
    <3>1. k + 1 \in DOMAIN q /\ 1 \in DOMAIN q /\ k + 1 # 1 /\ x = q[k + 1]
      BY <1>1, <1>2, <2>1
    <3> QED BY <1>2, <1>5, <3>1 DEF Unique, Items
  <2>2. ASSUME NEW k \in DOMAIN q, x = q[k], x # Head(q) PROVE x \in Items(Tail(q))
    <3>1. k - 1 \in 1 .. Len(q) - 1 /\ k - 1 + 1 = k
      BY <1>2, <2>2
    <3>2. Tail(q)[k - 1] = x
      BY <1>1, <1>2, <2>2, <3>1
    <3> QED BY <1>2, <3>1, <3>2 DEF Items
  <2> QED BY <1>2, <2>1, <2>2 DEF Items
<1> QED BY <1>1, <1>3, <1>4, <1>5

\* ... when an element is put behind it, ...
LEMMA OfAppend ==
  ASSUME NEW S, NEW q \in Seq(S), NEW e \in S
  PROVE  /\ Append(q, e) \in Seq(S) /\ Len(Append(q, e)) = Len(q) + 1
         /\ Items(Append(q, e)) = Items(q) \cup {e}
         /\ Unique(q) /\ e \notin Items(q) => Unique(Append(q, e))
<1> DEFINE a == Append(q, e)
<1>1. /\ a \in Seq(S) /\ Len(a) = Len(q) + 1
      /\ \A i \in 1 .. Len(q) : a[i] = q[i]
      /\ a[Len(q) + 1] = e
  BY AppendProperties
<1>2. Len(q) \in Nat /\ DOMAIN q = 1 .. Len(q) /\ DOMAIN a = 1 .. Len(q) + 1
  BY <1>1, LenProperties
<1> HIDE DEF a
<1>3. ASSUME NEW x PROVE x \in Items(a) <=> x \in Items(q) \/ x = e
  <2>1. ASSUME NEW k \in DOMAIN a, x = a[k] PROVE x \in Items(q) \/ x = e
    <3>1. k \in DOMAIN q \/ k = Len(q) + 1
      BY <1>2
    <3> QED BY <1>1, <1>2, <2>1, <3>1 DEF Items
  <2>2. ASSUME NEW k \in DOMAIN q, x = q[k] PROVE x \in Items(a)
    <3>1. k \in DOMAIN a /\ a[k] = x
      BY <1>1, <1>2, <2>2
    <3> QED BY <3>1 DEF Items
  <2>3. e \in Items(a)
    <3>1. Len(q) + 1 \in DOMAIN a
      BY <1>2
    <3> QED BY <1>1, <3>1 DEF Items
  <2> QED BY <2>1, <2>2, <2>3 DEF Items
<1>4. ASSUME Unique(q), e \notin Items(q) PROVE Unique(a)
  <2> SUFFICES ASSUME NEW k \in DOMAIN a, NEW l \in DOMAIN a, a[k] = a[l] PROVE k = l
    BY DEF Unique
  <2>1. (k \in DOMAIN q \/ k = Len(q) + 1) /\ (l \in DOMAIN q \/ l = Len(q) + 1)
    BY <1>2
  <2>2. \A i \in DOMAIN q : a[i] = q[i] /\ q[i] # e
    BY <1>1, <1>2, <1>4 DEF Items
  <2> QED BY <1>1, <1>4, <2>1, <2>2 DEF Unique
<1> QED BY <1>1, <1>3, <1>4 DEF a

\* ... and when another list is.
LEMMA OfConcat ==
  ASSUME NEW S, NEW q \in Seq(S), NEW r \in Seq(S)
  PROVE  /\ q \o r \in Seq(S) /\ Len(q \o r) = Len(q) + Len(r)
         /\ Items(q \o r) = Items(q) \cup Items(r)
         /\ Unique(q) /\ Unique(r) /\ Items(q) \cap Items(r) = {} => Unique(q \o r)
<1> DEFINE a == q \o r
<1>1. /\ a \in Seq(S) /\ Len(a) = Len(q) + Len(r)
      /\ \A i \in 1 .. Len(q) + Len(r) : a[i] = IF i <= Len(q) THEN q[i] ELSE r[i - Len(q)]
  BY ConcatProperties
<1>2. /\ Len(q) \in Nat /\ DOMAIN q = 1 .. Len(q) /\ Len(r) \in Nat /\ DOMAIN r = 1 .. Len(r)
      /\ DOMAIN a = 1 .. Len(q) + Len(r)
  BY <1>1, LenProperties
<1> HIDE DEF a
<1>3. \A i \in DOMAIN q : i \in DOMAIN a /\ a[i] = q[i]
  BY <1>1, <1>2
<1>4. \A i \in DOMAIN r : i + Len(q) \in DOMAIN a /\ a[i + Len(q)] = r[i]
  BY <1>1, <1>2
<1>5. \A i \in DOMAIN a : i \in DOMAIN q \/ \E j \in DOMAIN r : i = j + Len(q)
  <2> SUFFICES ASSUME NEW i \in DOMAIN a, i \notin DOMAIN q
               PROVE  \E j \in DOMAIN r : i = j + Len(q)
    OBVIOUS
  <2>1. i - Len(q) \in DOMAIN r /\ i = i - Len(q) + Len(q)
    BY <1>2
  <2> QED BY <2>1
<1>6. Items(a) = Items(q) \cup Items(r)
  BY <1>3, <1>4, <1>5 DEF Items
<1>7. ASSUME Unique(q), Unique(r), Items(q) \cap Items(r) = {} PROVE Unique(a)
  <2> SUFFICES ASSUME NEW k \in DOMAIN a, NEW l \in DOMAIN a, a[k] = a[l] PROVE k = l
    BY DEF Unique
  <2>1. \A i \in DOMAIN q, j \in DOMAIN r : q[i] # r[j]
    BY <1>7 DEF Items
  <2>2. CASE k \in DOMAIN q /\ l \in DOMAIN q
    BY <1>3, <1>7, <2>2 DEF Unique
  <2>3. CASE k \notin DOMAIN q /\ l \notin DOMAIN q
    <3>1. PICK j \in DOMAIN r : k = j + Len(q)
      BY <1>5, <2>3
    <3>2. PICK m \in DOMAIN r : l = m + Len(q)
      BY <1>5, <2>3
    <3> QED BY <1>4, <1>7, <3>1, <3>2 DEF Unique
  <2> QED BY <1>3, <1>4, <1>5, <2>1, <2>2, <2>3
<1> QED BY <1>1, <1>6, <1>7 DEF a

\* A list without duplicates is as long as it has elements.
LEMMA LengthIsCardinality ==
  ASSUME NEW S, NEW q \in Seq(S), Unique(q)
  PROVE  IsFiniteSet(Items(q)) /\ Cardinality(Items(q)) = Len(q)
<1>1. Len(q) \in Nat /\ DOMAIN q = 1 .. Len(q) /\ q \in [1 .. Len(q) -> S]
  BY LenProperties
<1>2. q \in Bijection(1 .. Len(q), Items(q))
  <2>1. q \in [1 .. Len(q) -> Items(q)]
    BY <1>1 DEF Items
  <2>2. \A x \in Items(q) : \E k \in 1 .. Len(q) : q[k] = x
    BY <1>1 DEF Items
  <2>3. \A k, l \in 1 .. Len(q) : q[k] = q[l] => k = l
    BY <1>1 DEF Unique
  <2> QED BY <2>1, <2>2, <2>3 DEF Bijection, Injection, IsInjective, Surjection
<1>3. ExistsBijection(1 .. Len(q), Items(q))
  BY <1>2 DEF ExistsBijection
<1> QED BY ONLY <1>1, <1>3, FS_NatBijection, FS_CountingElements

-----------------------------------------------------------------------------
(* The invariant of the pool                                               *)

TaskEntry(c, i) == [ctx |-> c, id |-> i]
TaskEntries == [ctx : Contexts, id : TaskIDs]
Tagged(c, q) == {TaskEntry(c, i) : i \in Items(q)}

\* Where tasks wait: to be posted, on a thread, and on their way back.
ToRun == ({"list"} \X Contexts) \cup ({"todo", "localTodo", "unfinished"} \X Threads)
HaveRun == ({"messages"} \X Threads) \cup ({"done", "local"} \X Contexts)
Spots == ToRun \cup HaveRun

Held == [s \in Spots |->
        CASE s[1] = "list" -> Tagged(s[2], taskList[s[2]])
          [] s[1] = "todo" -> Items(todoList[s[2]])
          [] s[1] = "localTodo" -> Items(localTodo[s[2]])
          [] s[1] = "unfinished" -> Items(unfinished[s[2]])
          [] s[1] = "messages" -> Items(messagesDone[s[2]])
          [] s[1] = "done" -> Tagged(s[2], completionQueue[s[2]])
          [] s[1] = "local" -> Tagged(s[2], localCompletions[s[2]])]

\* The tasks of a context that were released and are not handled yet, and
\* those that are.
Under(c) == {i \in TaskIDs : \E s \in Spots : TaskEntry(c, i) \in Held[s]}
Handled(c) == completed[c] \ Under(c)

AsyncTypes ==
  /\ numTasks \in 0 .. MaxTasks
  /\ vFrom \in [TaskIDs -> SUBSET (0 .. numTasks - 1)]
  /\ vTo \in [TaskIDs -> SUBSET (0 .. numTasks - 1)]
  /\ dependentTasks \in [Contexts -> [TaskIDs -> SUBSET TaskIDs]]
  /\ dependencyCount \in [Contexts -> [TaskIDs -> Int]]
  /\ completedTasks \in [Contexts -> Int] /\ executingTasks \in [Contexts -> Int]
  /\ pcCtx \in [Contexts -> {"new", "post", "handle", "returned"}]
  /\ pendingTasks \in [Contexts -> Int]
  /\ taskList \in [Contexts -> Seq(TaskIDs)]
  /\ completionQueue \in [Contexts -> Seq(TaskIDs)]
  /\ localCompletions \in [Contexts -> Seq(TaskIDs)]
  /\ completed \in [Contexts -> SUBSET TaskIDs]

ThreadTypes ==
  /\ pcThread \in [Threads -> {"top", "checked", "sleep", "awake", "run", "ended"}]
  /\ todoList \in [Threads -> Seq(TaskEntries)]
  /\ localTodo \in [Threads -> Seq(TaskEntries)]
  /\ unfinished \in [Threads -> Seq(TaskEntries)]
  /\ messagesDone \in [Threads -> Seq(TaskEntries)]
  /\ numToProcess \in [Threads -> Int] /\ taskLoad \in [Threads -> Int]
  /\ continued \in [Contexts -> [TaskIDs -> Int]]

\* What a thread works on is empty while it does not, and its load is what it
\* was given and has not completed.
ThreadOf(t) ==
  /\ pcThread[t] # "run" => localTodo[t] = <<>> /\ messagesDone[t] = <<>>
  /\ numToProcess[t] <= Len(unfinished[t])
  /\ taskLoad[t] = Len(todoList[t]) + Len(localTodo[t]) + Len(unfinished[t])
  /\ Unique(todoList[t]) /\ Unique(localTodo[t])
  /\ Unique(unfinished[t]) /\ Unique(messagesDone[t])

QueuesOf(c) ==
  /\ Unique(taskList[c]) /\ Unique(completionQueue[c]) /\ Unique(localCompletions[c])
  /\ pcCtx[c] \in {"new", "post"} => localCompletions[c] = <<>>
  /\ pcCtx[c] = "handle" => localCompletions[c] # <<>>

\* A task is in one place only, before it has completed or after that.
PlacesInv ==
  /\ \A s, r \in Spots : s # r => Held[s] \cap Held[r] = {}
  /\ \A s \in ToRun : \A e \in Held[s] : e.id \notin completed[e.ctx]
  /\ \A s \in HaveRun : \A e \in Held[s] : e.id \in completed[e.ctx]

\* Nothing has happened in a context that is new.  In another one the counts
\* are of the dependencies not handled, and the tasks with none were released.
CountsOf(c) ==
  IF pcCtx[c] = "new"
  THEN /\ Under(c) = {} /\ completed[c] = {} /\ completedTasks[c] = 0
       /\ executingTasks[c] = 0 /\ pendingTasks[c] = 0
       /\ \A i \in TaskIDs : dependencyCount[c][i] = 0
  ELSE /\ dependentTasks[c] = vTo
       /\ \A i \in TaskIDs : dependencyCount[c][i] = Cardinality(vFrom[i] \ Handled(c))
       /\ Under(c) \cup completed[c] = {i \in 0 .. numTasks - 1 : vFrom[i] \subseteq Handled(c)}
       /\ completedTasks[c] = Cardinality(Handled(c))
       /\ executingTasks[c] = Cardinality(Under(c))

PendingOf(c) ==
  /\ pcCtx[c] = "post" => pendingTasks[c] = executingTasks[c]
  /\ pcCtx[c] = "handle" =>
       pendingTasks[c] = executingTasks[c] - Len(taskList[c]) - Len(localCompletions[c])
  /\ pcCtx[c] = "returned" => Under(c) = {} /\ pendingTasks[c] = 0

\* No task on or behind a cycle completes.
CyclesOf(c) ==
  \A S \in SUBSET (0 .. numTasks - 1) : Stuck(S) => S \cap completed[c] = {}

AsyncInv ==
  /\ AsyncTypes /\ ThreadTypes /\ BuilderSymmetric
  /\ \A t \in Threads : ThreadOf(t)
  /\ PlacesInv
  /\ \A c \in Contexts : QueuesOf(c) /\ CountsOf(c) /\ PendingOf(c) /\ CyclesOf(c)

\* A spot is a queue of a context or of a thread.
LEMMA SpotKinds ==
  ASSUME NEW s \in Spots
  PROVE  \/ \E c \in Contexts : s = <<"list", c>> \/ s = <<"done", c>> \/ s = <<"local", c>>
         \/ \E t \in Threads : \/ s = <<"todo", t>> \/ s = <<"localTodo", t>>
                               \/ s = <<"unfinished", t>> \/ s = <<"messages", t>>
BY DEF Spots, ToRun, HaveRun

\* The spots, by name.
LEMMA SpotsThere ==
  /\ \A c \in Contexts : <<"list", c>> \in ToRun /\ <<"done", c>> \in HaveRun
                         /\ <<"local", c>> \in HaveRun
  /\ \A t \in Threads : /\ <<"todo", t>> \in ToRun /\ <<"localTodo", t>> \in ToRun
                        /\ <<"unfinished", t>> \in ToRun /\ <<"messages", t>> \in HaveRun
  /\ ToRun \cap HaveRun = {} /\ Spots = ToRun \cup HaveRun
BY DEF Spots, ToRun, HaveRun

\* What is on each.
LEMMA HeldAt ==
  /\ \A c \in Contexts :
       /\ Held[<<"list", c>>] = Tagged(c, taskList[c])
       /\ Held[<<"done", c>>] = Tagged(c, completionQueue[c])
       /\ Held[<<"local", c>>] = Tagged(c, localCompletions[c])
  /\ \A t \in Threads :
       /\ Held[<<"todo", t>>] = Items(todoList[t])
       /\ Held[<<"localTodo", t>>] = Items(localTodo[t])
       /\ Held[<<"unfinished", t>>] = Items(unfinished[t])
       /\ Held[<<"messages", t>>] = Items(messagesDone[t])
BY SpotsThere DEF Held

\* The same after a step.
LEMMA HeldAtNext ==
  /\ \A c \in Contexts :
       /\ Held'[<<"list", c>>] = Tagged(c, taskList'[c])
       /\ Held'[<<"done", c>>] = Tagged(c, completionQueue'[c])
       /\ Held'[<<"local", c>>] = Tagged(c, localCompletions'[c])
  /\ \A t \in Threads :
       /\ Held'[<<"todo", t>>] = Items(todoList'[t])
       /\ Held'[<<"localTodo", t>>] = Items(localTodo'[t])
       /\ Held'[<<"unfinished", t>>] = Items(unfinished'[t])
       /\ Held'[<<"messages", t>>] = Items(messagesDone'[t])
BY SpotsThere DEF Held

\* What is on a spot are entries of tasks, by context.
LEMMA HeldType ==
  ASSUME AsyncTypes, ThreadTypes, NEW s \in Spots
  PROVE  Held[s] \in SUBSET TaskEntries
<1>1. ASSUME NEW S, NEW q \in Seq(S) PROVE Items(q) \in SUBSET S
  BY <1>1, LenProperties DEF Items
<1>2. ASSUME NEW c \in Contexts, NEW q \in Seq(TaskIDs) PROVE Tagged(c, q) \in SUBSET TaskEntries
  BY <1>1 DEF Tagged, TaskEntries, TaskEntry
<1>3. ASSUME NEW c \in Contexts
      PROVE  /\ taskList[c] \in Seq(TaskIDs) /\ completionQueue[c] \in Seq(TaskIDs)
             /\ localCompletions[c] \in Seq(TaskIDs)
  BY DEF AsyncTypes
<1>4. ASSUME NEW t \in Threads
      PROVE  /\ todoList[t] \in Seq(TaskEntries) /\ localTodo[t] \in Seq(TaskEntries)
             /\ unfinished[t] \in Seq(TaskEntries) /\ messagesDone[t] \in Seq(TaskEntries)
  BY DEF ThreadTypes
<1>5. ASSUME NEW c \in Contexts
      PROVE  /\ Tagged(c, taskList[c]) \in SUBSET TaskEntries
             /\ Tagged(c, completionQueue[c]) \in SUBSET TaskEntries
             /\ Tagged(c, localCompletions[c]) \in SUBSET TaskEntries
  BY <1>2, <1>3
<1>6. ASSUME NEW t \in Threads
      PROVE  /\ Items(todoList[t]) \in SUBSET TaskEntries
             /\ Items(localTodo[t]) \in SUBSET TaskEntries
             /\ Items(unfinished[t]) \in SUBSET TaskEntries
             /\ Items(messagesDone[t]) \in SUBSET TaskEntries
  <2>1. \A q \in Seq(TaskEntries) : Items(q) \in SUBSET TaskEntries
    BY <1>1
  <2> QED BY <1>4, <2>1
<1> HIDE DEF Held
<1>7. \A c \in Contexts : /\ Held[<<"list", c>>] \in SUBSET TaskEntries
                         /\ Held[<<"done", c>>] \in SUBSET TaskEntries
                         /\ Held[<<"local", c>>] \in SUBSET TaskEntries
  BY <1>5, HeldAt
<1>8. \A t \in Threads : /\ Held[<<"todo", t>>] \in SUBSET TaskEntries
                        /\ Held[<<"localTodo", t>>] \in SUBSET TaskEntries
                        /\ Held[<<"unfinished", t>>] \in SUBSET TaskEntries
                        /\ Held[<<"messages", t>>] \in SUBSET TaskEntries
  BY <1>6, HeldAt
<1> QED BY <1>7, <1>8, SpotKinds

\* The entries of a queue of a context.
LEMMA TaggedEntries ==
  ASSUME NEW c, NEW q
  PROVE  /\ \A i : TaskEntry(c, i) \in Tagged(c, q) <=> i \in Items(q)
         /\ \A e \in Tagged(c, q) : e.ctx = c /\ e.id \in Items(q)
<1>1. \A i, j : TaskEntry(c, i) = TaskEntry(c, j) => i = j
  BY DEF TaskEntry
<1>2. \A i : TaskEntry(c, i).ctx = c /\ TaskEntry(c, i).id = i
  BY DEF TaskEntry
<1> QED BY <1>1, <1>2 DEF Tagged

-----------------------------------------------------------------------------
(* Tasks that move                                                         *)

\* Some entries go from one spot to another, and the rest stays.
Moves(s, r, E) ==
  /\ s \in Spots /\ r \in Spots /\ s # r /\ E \subseteq Held[s]
  /\ Held'[s] = Held[s] \ E /\ Held'[r] = Held[r] \cup E
  /\ \A x \in Spots \ {s, r} : Held'[x] = Held[x]

SameHeld == \A x \in Spots : Held'[x] = Held[x]

\* Entries that move stay in one place, and nothing else is released or handled.
LEMMA MovesKeep ==
  ASSUME PlacesInv, NEW s, NEW r, NEW E, Moves(s, r, E)
  PROVE  /\ \A x, y \in Spots : x # y => Held'[x] \cap Held'[y] = {}
         /\ \A c : Under(c)' = Under(c)
<1>1. ASSUME NEW x \in Spots, NEW y \in Spots, x # y PROVE Held'[x] \cap Held'[y] = {}
  BY <1>1 DEF Moves, PlacesInv
<1>2. ASSUME NEW e PROVE (\E x \in Spots : e \in Held'[x]) <=> (\E x \in Spots : e \in Held[x])
  BY DEF Moves
<1>3. \A c : Under(c)' = Under(c)
  BY <1>2 DEF Under
<1> QED BY <1>1, <1>3

\* A task that moves within its stage.
LEMMA MovesWithin ==
  ASSUME PlacesInv, NEW s, NEW r, NEW E, Moves(s, r, E), s \in ToRun <=> r \in ToRun,
         UNCHANGED completed
  PROVE  PlacesInv' /\ \A c : Under(c)' = Under(c) /\ Handled(c)' = Handled(c)
<1>1. /\ \A x, y \in Spots : x # y => Held'[x] \cap Held'[y] = {}
      /\ \A c : Under(c)' = Under(c)
  BY MovesKeep
<1>2. ASSUME NEW x \in Spots, NEW e \in Held'[x]
      PROVE  \E y \in Spots : e \in Held[y] /\ (x \in ToRun <=> y \in ToRun)
  BY <1>2 DEF Moves
<1>3. ASSUME NEW x \in ToRun, NEW e \in Held'[x] PROVE e.id \notin completed'[e.ctx]
  BY <1>2, <1>3, SpotsThere DEF PlacesInv
<1>4. ASSUME NEW x \in HaveRun, NEW e \in Held'[x] PROVE e.id \in completed'[e.ctx]
  <2>1. x \in Spots /\ x \notin ToRun
    BY SpotsThere
  <2>2. PICK y \in Spots : e \in Held[y] /\ y \notin ToRun
    BY <1>2, <1>4, <2>1
  <2>3. y \in HaveRun
    BY <2>2, SpotsThere
  <2> QED BY <2>2, <2>3 DEF PlacesInv
<1>5. \A c : Handled(c)' = Handled(c)
  BY <1>1 DEF Handled
<1> QED BY <1>1, <1>3, <1>4, <1>5 DEF PlacesInv

\* The same if nothing moves.
LEMMA SameHeldKeeps ==
  ASSUME PlacesInv, SameHeld, UNCHANGED completed
  PROVE  PlacesInv' /\ \A c : Under(c)' = Under(c) /\ Handled(c)' = Handled(c)
<1>1. \A c : Under(c)' = Under(c)
  BY DEF SameHeld, Under
<1>2. \A c : Handled(c)' = Handled(c)
  BY <1>1 DEF Handled
<1>3. \A x \in Spots : Held'[x] = Held[x]
  BY DEF SameHeld
<1>4. \A x : (x \in ToRun => x \in Spots) /\ (x \in HaveRun => x \in Spots)
  BY SpotsThere
<1>5. /\ \A x \in ToRun : \A e \in Held'[x] : e.id \notin completed'[e.ctx]
      /\ \A x \in HaveRun : \A e \in Held'[x] : e.id \in completed'[e.ctx]
  BY <1>3, <1>4 DEF PlacesInv
<1>6. \A x, y \in Spots : x # y => Held'[x] \cap Held'[y] = {}
  BY <1>3 DEF PlacesInv
<1> QED BY <1>1, <1>2, <1>5, <1>6 DEF PlacesInv

\* A task that completes.
LEMMA MovesOn ==
  ASSUME AsyncTypes, ThreadTypes, PlacesInv, NEW s \in ToRun, NEW r \in HaveRun,
         NEW e, Moves(s, r, {e}),
         completed' = [completed EXCEPT ![e.ctx] = @ \cup {e.id}]
  PROVE  /\ PlacesInv' /\ e \in TaskEntries /\ e.id \in Under(e.ctx)
         /\ \A c : Under(c)' = Under(c)
         /\ \A c \in Contexts : Handled(c)' = Handled(c)
<1>1. /\ \A x, y \in Spots : x # y => Held'[x] \cap Held'[y] = {}
      /\ \A c : Under(c)' = Under(c)
  BY MovesKeep
<1>2. \A x \in Spots : \A f \in Held[x] : f \in TaskEntries
  BY HeldType
<1>3. e \in Held[s] /\ e \in TaskEntries
  BY <1>2 DEF Moves
<1>4. /\ e.ctx \in Contexts /\ e.id \in TaskIDs /\ TaskEntry(e.ctx, e.id) = e
      /\ completed \in [Contexts -> SUBSET TaskIDs]
  BY <1>3 DEF TaskEntries, TaskEntry, AsyncTypes
<1>5. e.id \in Under(e.ctx)
  BY <1>3, <1>4 DEF Under, Moves
<1>6. ASSUME NEW x \in ToRun, NEW f \in Held'[x] PROVE f.id \notin completed'[f.ctx]
  <2>1. x \in Spots /\ x # r
    BY SpotsThere
  <2>2. f \in Held[x] /\ f # e /\ f \in TaskEntries
    BY <1>1, <1>2, <1>3, <1>6, <2>1 DEF Moves
  <2>3. f.id \notin completed[f.ctx] /\ f.ctx \in Contexts
    BY <2>2 DEF PlacesInv, TaskEntries
  <2>4. f.ctx # e.ctx \/ f.id # e.id
    BY <1>3, <2>2 DEF TaskEntries
  <2> QED BY <1>4, <2>3, <2>4
<1>7. ASSUME NEW x \in HaveRun, NEW f \in Held'[x] PROVE f.id \in completed'[f.ctx]
  <2>1. f \in Held[x] \/ f = e
    BY <1>7, SpotsThere DEF Moves
  <2>2. f \in Held[x] => f.id \in completed[f.ctx] /\ f.ctx \in Contexts
    BY <1>2, SpotsThere DEF PlacesInv, TaskEntries
  <2> QED BY <1>4, <2>1, <2>2
<1>8. \A c \in Contexts : Handled(c)' = Handled(c)
  BY <1>1, <1>4, <1>5 DEF Handled
<1> QED BY <1>1, <1>3, <1>5, <1>6, <1>7, <1>8 DEF PlacesInv

-----------------------------------------------------------------------------
(* Steps that release nothing                                              *)

\* Counts and cycles look at what is released and handled only, and at what has
\* completed: a task that completes was released, so that all it depends on had
\* completed.
LEMMA StageKept ==
  ASSUME AsyncInv, UNCHANGED <<numTasks, vFrom, vTo, orderVars>>,
         \A c : Under(c)' = Under(c),
         \A c \in Contexts : Handled(c)' = Handled(c),
         \A c \in Contexts : \/ completed'[c] = completed[c]
                             \/ \E i \in Under(c) : completed'[c] = completed[c] \cup {i},
         \A c \in Contexts : pcCtx'[c] = "new" <=> pcCtx[c] = "new",
         \A c \in Contexts : pcCtx[c] = "new" => pendingTasks'[c] = pendingTasks[c]
  PROVE  BuilderSymmetric' /\ \A c \in Contexts : CountsOf(c)' /\ CyclesOf(c)'
<1>1. BuilderSymmetric'
  BY DEF AsyncInv, BuilderSymmetric
<1>2. ASSUME NEW c \in Contexts PROVE CountsOf(c)' /\ CyclesOf(c)'
  <2>1. /\ CountsOf(c) /\ CyclesOf(c) /\ Under(c)' = Under(c) /\ Handled(c)' = Handled(c)
        /\ pcCtx'[c] = "new" <=> pcCtx[c] = "new"
    BY DEF AsyncInv
  <2>2. UNCHANGED <<dependentTasks, dependencyCount, completedTasks, executingTasks>>
    BY DEF orderVars
  <2>3. CASE pcCtx[c] = "new"
    <3>1. completed'[c] = completed[c] /\ completed[c] = {} /\ pendingTasks'[c] = pendingTasks[c]
      BY <2>1, <2>3 DEF CountsOf
    <3> QED BY <2>1, <2>2, <2>3, <3>1 DEF CountsOf, CyclesOf
  <2>4. CASE pcCtx[c] # "new"
    <3>1. (Under(c) \cup completed[c])' = Under(c) \cup completed[c]
      BY <2>1
    <3>2. CountsOf(c)'
      BY <2>1, <2>2, <2>4, <3>1 DEF CountsOf
    <3>3. ASSUME NEW S \in SUBSET (0 .. numTasks - 1), Stuck(S) PROVE S \cap completed'[c] = {}
      <4>1. S \cap completed[c] = {}
        BY <2>1, <3>3 DEF CyclesOf
      <4>2. ASSUME NEW i \in Under(c), i \in S PROVE FALSE
        <5>1. vFrom[i] \subseteq completed[c]
          BY <2>1, <2>4, <4>2 DEF CountsOf, Handled
        <5> QED BY <3>3, <4>1, <4>2, <5>1 DEF Stuck
      <4> QED BY <4>1, <4>2
    <3>4. CyclesOf(c)'
      BY <3>3 DEF CyclesOf, Stuck
    <3> QED BY <3>2, <3>4
  <2> QED BY <2>3, <2>4
<1> QED BY <1>1, <1>2

\* What a step of a thread has to keep.
LEMMA ThreadStepKept ==
  ASSUME AsyncInv, UNCHANGED <<builderVars, orderVars, contextVars>>,
         \A c : Under(c)' = Under(c),
         \A c \in Contexts : Handled(c)' = Handled(c),
         \A c \in Contexts : \/ completed'[c] = completed[c]
                             \/ \E i \in Under(c) : completed'[c] = completed[c] \cup {i},
         completionQueue' \in [Contexts -> Seq(TaskIDs)],
         \A c \in Contexts : Unique(completionQueue[c])',
         completed' \in [Contexts -> SUBSET TaskIDs],
         ThreadTypes', \A t \in Threads : ThreadOf(t)', PlacesInv'
  PROVE  AsyncInv'
<1>1. UNCHANGED <<numTasks, vFrom, vTo, dependentTasks, dependencyCount, completedTasks,
                  executingTasks, pcCtx, taskList, pendingTasks, localCompletions>>
  BY DEF builderVars, orderVars, contextVars
<1>2. BuilderSymmetric' /\ \A c \in Contexts : CountsOf(c)' /\ CyclesOf(c)'
  BY <1>1, StageKept
<1>3. AsyncTypes'
  BY <1>1 DEF AsyncInv, AsyncTypes
<1>4. \A c \in Contexts : QueuesOf(c)' /\ PendingOf(c)'
  BY <1>1 DEF AsyncInv, QueuesOf, PendingOf
<1> QED BY <1>2, <1>3, <1>4 DEF AsyncInv

\* The queues of a thread have no entry twice, nor one in common.
LEMMA QueueMoves ==
  ASSUME AsyncInv, NEW t \in Threads
  PROVE  /\ todoList[t] \in Seq(TaskEntries) /\ localTodo[t] \in Seq(TaskEntries)
         /\ unfinished[t] \in Seq(TaskEntries) /\ messagesDone[t] \in Seq(TaskEntries)
         /\ Unique(todoList[t]) /\ Unique(localTodo[t])
         /\ Unique(unfinished[t]) /\ Unique(messagesDone[t])
         /\ Items(todoList[t]) \cap Items(localTodo[t]) = {}
         /\ Items(todoList[t]) \cap Items(unfinished[t]) = {}
         /\ Items(todoList[t]) \cap Items(messagesDone[t]) = {}
         /\ Items(localTodo[t]) \cap Items(unfinished[t]) = {}
         /\ Items(localTodo[t]) \cap Items(messagesDone[t]) = {}
         /\ Items(unfinished[t]) \cap Items(messagesDone[t]) = {}
<1>1. /\ todoList[t] \in Seq(TaskEntries) /\ localTodo[t] \in Seq(TaskEntries)
      /\ unfinished[t] \in Seq(TaskEntries) /\ messagesDone[t] \in Seq(TaskEntries)
      /\ ThreadOf(t)
  BY DEF AsyncInv, ThreadTypes
<1>2. \A s, r \in Spots : s # r => Held[s] \cap Held[r] = {}
  BY DEF AsyncInv, PlacesInv
<1>3. /\ <<"todo", t>> \in Spots /\ <<"localTodo", t>> \in Spots
      /\ <<"unfinished", t>> \in Spots /\ <<"messages", t>> \in Spots
  BY SpotsThere
<1>4. /\ Items(todoList[t]) = Held[<<"todo", t>>] /\ Items(localTodo[t]) = Held[<<"localTodo", t>>]
      /\ Items(unfinished[t]) = Held[<<"unfinished", t>>]
      /\ Items(messagesDone[t]) = Held[<<"messages", t>>]
  BY HeldAt
<1>5. /\ <<"todo", t>> # <<"localTodo", t>> /\ <<"todo", t>> # <<"unfinished", t>>
      /\ <<"todo", t>> # <<"messages", t>> /\ <<"localTodo", t>> # <<"unfinished", t>>
      /\ <<"localTodo", t>> # <<"messages", t>> /\ <<"unfinished", t>> # <<"messages", t>>
  OBVIOUS
<1> HIDE DEF Spots
<1>6. /\ Unique(todoList[t]) /\ Unique(localTodo[t])
      /\ Unique(unfinished[t]) /\ Unique(messagesDone[t])
  BY <1>1 DEF ThreadOf
<1> QED BY <1>1, <1>2, <1>3, <1>4, <1>5, <1>6

\* A spot whose queue is as it was holds what it held.
LEMMA SpotsKept ==
  ASSUME NEW X,
         \A c \in Contexts :
           /\ <<"list", c>> \notin X => taskList'[c] = taskList[c]
           /\ <<"done", c>> \notin X => completionQueue'[c] = completionQueue[c]
           /\ <<"local", c>> \notin X => localCompletions'[c] = localCompletions[c],
         \A t \in Threads :
           /\ <<"todo", t>> \notin X => todoList'[t] = todoList[t]
           /\ <<"localTodo", t>> \notin X => localTodo'[t] = localTodo[t]
           /\ <<"unfinished", t>> \notin X => unfinished'[t] = unfinished[t]
           /\ <<"messages", t>> \notin X => messagesDone'[t] = messagesDone[t]
  PROVE  \A x \in Spots \ X : Held'[x] = Held[x]
<1>1. ASSUME NEW c \in Contexts
      PROVE  /\ <<"list", c>> \notin X => Held'[<<"list", c>>] = Held[<<"list", c>>]
             /\ <<"done", c>> \notin X => Held'[<<"done", c>>] = Held[<<"done", c>>]
             /\ <<"local", c>> \notin X => Held'[<<"local", c>>] = Held[<<"local", c>>]
  BY HeldAt, HeldAtNext
<1>2. ASSUME NEW t \in Threads
      PROVE  /\ <<"todo", t>> \notin X => Held'[<<"todo", t>>] = Held[<<"todo", t>>]
             /\ <<"localTodo", t>> \notin X => Held'[<<"localTodo", t>>] = Held[<<"localTodo", t>>]
             /\ <<"unfinished", t>> \notin X => Held'[<<"unfinished", t>>] = Held[<<"unfinished", t>>]
             /\ <<"messages", t>> \notin X => Held'[<<"messages", t>>] = Held[<<"messages", t>>]
  BY HeldAt, HeldAtNext
<1>3. ASSUME NEW x \in Spots \ X PROVE Held'[x] = Held[x]
  <2>1. CASE \E c \in Contexts : x = <<"list", c>> \/ x = <<"done", c>> \/ x = <<"local", c>>
    <3>1. PICK c \in Contexts : x = <<"list", c>> \/ x = <<"done", c>> \/ x = <<"local", c>>
      BY <2>1
    <3>2. CASE x = <<"list", c>>
      BY <1>1, <1>3, <3>2
    <3>3. CASE x = <<"done", c>>
      BY <1>1, <1>3, <3>3
    <3>4. CASE x = <<"local", c>>
      BY <1>1, <1>3, <3>4
    <3> QED BY <3>1, <3>2, <3>3, <3>4
  <2>2. CASE \E t \in Threads : \/ x = <<"todo", t>> \/ x = <<"localTodo", t>>
                                \/ x = <<"unfinished", t>> \/ x = <<"messages", t>>
    <3>1. PICK t \in Threads : \/ x = <<"todo", t>> \/ x = <<"localTodo", t>>
                               \/ x = <<"unfinished", t>> \/ x = <<"messages", t>>
      BY <2>2
    <3>2. CASE x = <<"todo", t>>
      BY <1>2, <1>3, <3>2
    <3>3. CASE x = <<"localTodo", t>>
      BY <1>2, <1>3, <3>3
    <3>4. CASE x = <<"unfinished", t>>
      BY <1>2, <1>3, <3>4
    <3>5. CASE x = <<"messages", t>>
      BY <1>2, <1>3, <3>5
    <3> QED BY <3>1, <3>2, <3>3, <3>4, <3>5
  <2> QED BY <1>3, <2>1, <2>2, SpotKinds
<1> QED BY <1>3

\* If the queues are as they were, so are the spots.
LEMMA SameQueues ==
  ASSUME UNCHANGED <<taskList, completionQueue, localCompletions, todoList, localTodo,
                     unfinished, messagesDone>>
  PROVE  SameHeld
BY DEF SameHeld, Held

\* A thread goes on, to sleep or to its end, and its queues stay as they are.
LEMMA GoingOnKeeps ==
  ASSUME AsyncInv, UNCHANGED <<builderVars, orderVars, contextVars>>,
         UNCHANGED <<completionQueue, todoList, localTodo, unfinished, messagesDone,
                     completed, numToProcess, taskLoad, continued>>,
         pcThread' \in [Threads -> {"top", "checked", "sleep", "awake", "run", "ended"}],
         \A u \in Threads : \/ pcThread'[u] = "run"
                            \/ localTodo[u] = <<>> /\ messagesDone[u] = <<>>
  PROVE  AsyncInv'
<1>1. SameHeld
  BY SameQueues DEF contextVars
<1>2. PlacesInv' /\ \A c : Under(c)' = Under(c) /\ Handled(c)' = Handled(c)
  BY <1>1, SameHeldKeeps DEF AsyncInv
<1>3. ThreadTypes'
  BY DEF AsyncInv, ThreadTypes
<1>4. \A u \in Threads : ThreadOf(u)'
  BY DEF AsyncInv, ThreadOf
<1>5. /\ completionQueue' \in [Contexts -> Seq(TaskIDs)] /\ completed' \in [Contexts -> SUBSET TaskIDs]
      /\ \A c \in Contexts : Unique(completionQueue[c])'
  BY DEF AsyncInv, AsyncTypes, QueuesOf
<1> QED BY <1>2, <1>3, <1>4, <1>5, ThreadStepKept

\* A thread falls asleep.
LEMMA FallAsleepKeeps ==
  ASSUME AsyncInv, NEW t \in Threads, FallAsleep(t)
  PROVE  AsyncInv'
<1>1. /\ UNCHANGED <<builderVars, orderVars, contextVars>>
      /\ UNCHANGED <<completionQueue, todoList, localTodo, unfinished, messagesDone,
                     completed, numToProcess, taskLoad, continued>>
      /\ pcThread[t] = "checked" /\ pcThread' = [pcThread EXCEPT ![t] = "sleep"]
  BY DEF FallAsleep, NotThread, At, Goto, postVars
<1>2. /\ pcThread' \in [Threads -> {"top", "checked", "sleep", "awake", "run", "ended"}]
      /\ \A u \in Threads : pcThread'[u] = pcThread[u] \/ pcThread[u] # "run"
  BY <1>1 DEF AsyncInv, ThreadTypes
<1>3. \A u \in Threads : pcThread[u] # "run" => localTodo[u] = <<>> /\ messagesDone[u] = <<>>
  BY DEF AsyncInv, ThreadOf
<1> QED BY <1>1, <1>2, <1>3, GoingOnKeeps

\* A thread is asked to stop.
LEMMA JoinKeeps ==
  ASSUME AsyncInv, NEW t \in Threads, Join(t)
  PROVE  AsyncInv'
<1>1. /\ UNCHANGED <<builderVars, orderVars, contextVars>>
      /\ UNCHANGED <<completionQueue, todoList, localTodo, unfinished, messagesDone,
                     completed, numToProcess, taskLoad, continued>>
      /\ pcThread' = Woken(t)
  BY DEF Join, postVars
<1>2. /\ pcThread' \in [Threads -> {"top", "checked", "sleep", "awake", "run", "ended"}]
      /\ \A u \in Threads : pcThread'[u] = pcThread[u] \/ pcThread[u] # "run"
  BY <1>1 DEF AsyncInv, ThreadTypes, Woken
<1>3. \A u \in Threads : pcThread[u] # "run" => localTodo[u] = <<>> /\ messagesDone[u] = <<>>
  BY DEF AsyncInv, ThreadOf
<1> QED BY <1>1, <1>2, <1>3, GoingOnKeeps

\* A thread takes what it was given.
LEMMA CheckTodoKeeps ==
  ASSUME AsyncInv, NEW t \in Threads, CheckTodo(t)
  PROVE  AsyncInv'
<1>1. /\ UNCHANGED <<builderVars, orderVars, contextVars>>
      /\ UNCHANGED <<completionQueue, unfinished, messagesDone,
                     completed, numToProcess, taskLoad, continued>>
      /\ pcThread[t] # "run"
      /\ \/ /\ UNCHANGED <<todoList, localTodo>>
            /\ \E pc \in {"ended", "checked"} : pcThread' = [pcThread EXCEPT ![t] = pc]
         \/ /\ localTodo' = [localTodo EXCEPT ![t] = todoList[t]]
            /\ todoList' = [todoList EXCEPT ![t] = <<>>]
            /\ pcThread' = [pcThread EXCEPT ![t] = "run"]
  BY DEF CheckTodo, NotThread, At, Goto
<1>2. \A u \in Threads : pcThread[u] # "run" => localTodo[u] = <<>> /\ messagesDone[u] = <<>>
  BY DEF AsyncInv, ThreadOf
<1>3. CASE /\ UNCHANGED <<todoList, localTodo>>
           /\ \E pc \in {"ended", "checked"} : pcThread' = [pcThread EXCEPT ![t] = pc]
  <2>1. /\ pcThread' \in [Threads -> {"top", "checked", "sleep", "awake", "run", "ended"}]
        /\ \A u \in Threads : pcThread'[u] = pcThread[u] \/ pcThread[u] # "run"
    BY <1>1, <1>3 DEF AsyncInv, ThreadTypes
  <2> QED BY <1>1, <1>2, <1>3, <2>1, GoingOnKeeps
<1>4. CASE /\ localTodo' = [localTodo EXCEPT ![t] = todoList[t]]
           /\ todoList' = [todoList EXCEPT ![t] = <<>>]
           /\ pcThread' = [pcThread EXCEPT ![t] = "run"]
  <2>1. /\ localTodo \in [Threads -> Seq(TaskEntries)] /\ todoList \in [Threads -> Seq(TaskEntries)]
        /\ localTodo[t] = <<>>
    BY <1>1, <1>2 DEF AsyncInv, ThreadTypes
  <2>2. /\ todoList'[t] = <<>> /\ localTodo'[t] = todoList[t]
        /\ \A u \in Threads \ {t} : todoList'[u] = todoList[u] /\ localTodo'[u] = localTodo[u]
    BY <1>4, <2>1
  <2>3. Moves(<<"todo", t>>, <<"localTodo", t>>, Items(todoList[t]))
    <3>1. UNCHANGED <<taskList, localCompletions>>
      BY <1>1 DEF contextVars
    <3>2. Items(<<>>) = {}
      BY DEF Items
    <3>3. /\ Held'[<<"todo", t>>] = {} /\ Held[<<"todo", t>>] = Items(todoList[t])
          /\ Held'[<<"localTodo", t>>] = Items(todoList[t]) /\ Held[<<"localTodo", t>>] = {}
      BY <2>1, <2>2, <3>2, HeldAt, HeldAtNext
    <3>4. \A x \in Spots \ {<<"todo", t>>, <<"localTodo", t>>} : Held'[x] = Held[x]
      <4> DEFINE X == {<<"todo", t>>, <<"localTodo", t>>}
      <4>1. \A u \in Threads : <<"todo", u>> \notin X \/ <<"localTodo", u>> \notin X => u # t
        OBVIOUS
      <4> HIDE DEF X
      <4>2. \A x \in Spots \ X : Held'[x] = Held[x]
        BY <1>1, <2>2, <3>1, <4>1, SpotsKept
      <4> QED BY <4>2 DEF X
    <3>5. <<"todo", t>> \in Spots /\ <<"localTodo", t>> \in Spots /\ <<"todo", t>> # <<"localTodo", t>>
      BY SpotsThere
    <3> QED BY <3>3, <3>4, <3>5 DEF Moves
  <2>4. PlacesInv' /\ \A c : Under(c)' = Under(c) /\ Handled(c)' = Handled(c)
    <3>1. <<"todo", t>> \in ToRun /\ <<"localTodo", t>> \in ToRun
      BY SpotsThere
    <3> QED BY <1>1, <2>3, <3>1, MovesWithin DEF AsyncInv
  <2>5. ThreadTypes'
    <3>1. <<>> \in Seq(TaskEntries) /\ todoList[t] \in Seq(TaskEntries)
      BY <2>1, EmptySeq
    <3> QED BY <1>1, <1>4, <3>1 DEF AsyncInv, ThreadTypes
  <2>6. ASSUME NEW u \in Threads PROVE ThreadOf(u)'
    <3>1. ThreadOf(u)
      BY DEF AsyncInv
    <3>2. CASE u = t
      <4>1. pcThread'[t] = "run" /\ Unique(<<>>) /\ Len(<<>>) = 0
        BY <1>4, EmptySeq DEF AsyncInv, ThreadTypes, Unique
      <4>2. Len(todoList[t]) \in Nat /\ Len(unfinished[t]) \in Nat
        BY LenProperties DEF AsyncInv, ThreadTypes
      <4>3. UNCHANGED <<numToProcess, taskLoad, unfinished, messagesDone>>
        BY <1>1
      <4>4. Len(todoList'[t]) = 0 /\ Len(localTodo'[t]) = Len(todoList[t]) /\ Len(localTodo[t]) = 0
        <5>1. \A q \in Seq(TaskEntries) : q = <<>> => Len(q) = 0
          BY EmptySeq
        <5>2. todoList'[t] \in Seq(TaskEntries) /\ localTodo[t] \in Seq(TaskEntries)
          BY <2>1, <2>2, EmptySeq
        <5> QED BY <2>1, <2>2, <5>1, <5>2
      <4>5. taskLoad'[t] = Len(todoList'[t]) + Len(localTodo'[t]) + Len(unfinished'[t])
        <5>1. taskLoad[t] = Len(todoList[t]) + Len(localTodo[t]) + Len(unfinished[t])
          BY <3>1, <3>2 DEF ThreadOf
        <5>2. taskLoad'[t] = taskLoad[t] /\ unfinished'[t] = unfinished[t]
          BY <4>3
        <5>3. taskLoad[t] = Len(todoList[t]) + Len(unfinished[t])
          BY <4>2, <4>4, <5>1
        <5> QED BY <4>2, <4>4, <5>2, <5>3
      <4>6. Unique(todoList'[t]) /\ Unique(localTodo'[t])
        BY <2>2, <3>1, <3>2, <4>1 DEF ThreadOf
      <4> QED BY <3>1, <3>2, <4>1, <4>3, <4>5, <4>6 DEF ThreadOf
    <3>3. CASE u # t
      <4>1. pcThread'[u] = pcThread[u]
        BY <1>4, <3>3 DEF AsyncInv, ThreadTypes
      <4> QED BY <1>1, <2>2, <3>1, <3>3, <4>1 DEF ThreadOf
    <3> QED BY <3>2, <3>3
  <2>7. /\ completionQueue' \in [Contexts -> Seq(TaskIDs)] /\ completed' \in [Contexts -> SUBSET TaskIDs]
        /\ \A c \in Contexts : Unique(completionQueue[c])'
    BY <1>1 DEF AsyncInv, AsyncTypes, QueuesOf
  <2>8. \A c \in Contexts : completed'[c] = completed[c]
    BY <1>1
  <2> QED BY <1>1, <2>4, <2>5, <2>6, <2>7, <2>8, ThreadStepKept
<1> QED BY <1>1, <1>3, <1>4

\* One call of a task that was taken from a queue of the thread: it goes to the
\* messages, with the load less by one, ...
LEMMA CompletionKeeps ==
  ASSUME AsyncInv, NEW t \in Threads, NEW p, NEW s \in {"localTodo", "unfinished"},
         UNCHANGED <<builderVars, orderVars, contextVars, completionQueue, continued>>,
         Moves(<<s, t>>, <<"messages", t>>, {p}),
         completed' = [completed EXCEPT ![p.ctx] = @ \cup {p.id}],
         ThreadTypes', \A u \in Threads : ThreadOf(u)'
  PROVE  AsyncInv'
<1>1. <<s, t>> \in ToRun /\ <<"messages", t>> \in HaveRun
  BY SpotsThere
<1>2. AsyncTypes /\ ThreadTypes /\ PlacesInv
  BY DEF AsyncInv
<1>3. /\ PlacesInv' /\ p \in TaskEntries /\ p.id \in Under(p.ctx)
      /\ \A c : Under(c)' = Under(c)
      /\ \A c \in Contexts : Handled(c)' = Handled(c)
  BY <1>1, <1>2, MovesOn
<1>4. completed \in [Contexts -> SUBSET TaskIDs] /\ p.ctx \in Contexts /\ p.id \in TaskIDs
  BY <1>2, <1>3 DEF AsyncTypes, TaskEntries
<1>5. /\ completed' \in [Contexts -> SUBSET TaskIDs]
      /\ \A c \in Contexts : \/ completed'[c] = completed[c]
                             \/ c = p.ctx /\ completed'[c] = completed[c] \cup {p.id}
  BY <1>4
<1>6. \A c \in Contexts : \/ completed'[c] = completed[c]
                          \/ \E i \in Under(c) : completed'[c] = completed[c] \cup {i}
  BY <1>3, <1>5
<1>7. /\ completionQueue' \in [Contexts -> Seq(TaskIDs)]
      /\ \A c \in Contexts : Unique(completionQueue[c])'
  BY DEF AsyncInv, AsyncTypes, QueuesOf
<1> QED BY <1>3, <1>5, <1>6, <1>7, ThreadStepKept

\* ... or to the unfinished ones.
LEMMA WithinThreadKeeps ==
  ASSUME AsyncInv, NEW t \in Threads, NEW s, NEW r, NEW E,
         UNCHANGED <<builderVars, orderVars, contextVars, completionQueue, completed>>,
         SameHeld \/ (Moves(s, r, E) /\ (s \in ToRun <=> r \in ToRun)),
         ThreadTypes', \A u \in Threads : ThreadOf(u)'
  PROVE  AsyncInv'
<1>1. PlacesInv' /\ \A c : Under(c)' = Under(c) /\ Handled(c)' = Handled(c)
  BY MovesWithin, SameHeldKeeps DEF AsyncInv
<1>2. /\ completionQueue' \in [Contexts -> Seq(TaskIDs)] /\ completed' \in [Contexts -> SUBSET TaskIDs]
      /\ \A c \in Contexts : Unique(completionQueue[c])'
  BY DEF AsyncInv, AsyncTypes, QueuesOf
<1>3. \A c \in Contexts : completed'[c] = completed[c]
  OBVIOUS
<1> QED BY <1>1, <1>2, <1>3, ThreadStepKept

\* The queues of a thread after a step on one of its tasks.
LEMMA ThreadAfter ==
  ASSUME AsyncInv, NEW t \in Threads, UNCHANGED <<todoList, pcThread>>,
         pcThread[t] = "run",
         localTodo' = [localTodo EXCEPT ![t] = localTodo'[t]],
         unfinished' = [unfinished EXCEPT ![t] = unfinished'[t]],
         messagesDone' = [messagesDone EXCEPT ![t] = messagesDone'[t]],
         numToProcess' = [numToProcess EXCEPT ![t] = numToProcess'[t]],
         taskLoad' = [taskLoad EXCEPT ![t] = taskLoad'[t]],
         localTodo'[t] \in Seq(TaskEntries), unfinished'[t] \in Seq(TaskEntries),
         messagesDone'[t] \in Seq(TaskEntries), numToProcess'[t] \in Int, taskLoad'[t] \in Int,
         Unique(localTodo'[t]), Unique(unfinished'[t]), Unique(messagesDone'[t]),
         numToProcess'[t] <= Len(unfinished'[t]),
         taskLoad'[t] = Len(todoList[t]) + Len(localTodo'[t]) + Len(unfinished'[t]),
         continued' \in [Contexts -> [TaskIDs -> Int]]
  PROVE  ThreadTypes' /\ \A u \in Threads : ThreadOf(u)'
<1>1. ThreadTypes /\ \A u \in Threads : ThreadOf(u)
  BY DEF AsyncInv
<1>2. ThreadTypes'
  BY <1>1 DEF ThreadTypes
<1>3. ASSUME NEW u \in Threads, u # t PROVE ThreadOf(u)'
  <2>1. /\ localTodo'[u] = localTodo[u] /\ unfinished'[u] = unfinished[u]
        /\ messagesDone'[u] = messagesDone[u] /\ numToProcess'[u] = numToProcess[u]
        /\ taskLoad'[u] = taskLoad[u]
    BY <1>1, <1>3 DEF ThreadTypes
  <2> QED BY <1>1, <2>1 DEF ThreadOf
<1>4. ThreadOf(t)'
  <2>1. Unique(todoList'[t]) /\ todoList'[t] = todoList[t] /\ pcThread'[t] = "run"
    BY <1>1 DEF ThreadOf
  <2> QED BY <2>1 DEF ThreadOf
<1> QED BY <1>2, <1>3, <1>4

\* The queues of a thread before it.
LEMMA ThreadBefore ==
  ASSUME AsyncInv, NEW t \in Threads
  PROVE  /\ Len(todoList[t]) \in Nat /\ Len(localTodo[t]) \in Nat /\ Len(unfinished[t]) \in Nat
         /\ taskLoad[t] = Len(todoList[t]) + Len(localTodo[t]) + Len(unfinished[t])
         /\ numToProcess[t] \in Int /\ numToProcess[t] <= Len(unfinished[t])
         /\ taskLoad[t] \in Int
<1>1. ThreadOf(t)
  BY DEF AsyncInv
<1>2. Len(todoList[t]) \in Nat /\ Len(localTodo[t]) \in Nat /\ Len(unfinished[t]) \in Nat
  BY QueueMoves, LenProperties
<1>3. numToProcess[t] \in Int /\ taskLoad[t] \in Int
  BY DEF AsyncInv, ThreadTypes
<1> QED BY <1>1, <1>2, <1>3 DEF ThreadOf

\* A queue of a thread after it has lost, got or exchanged an entry.
LEMMA QueueAfter ==
  ASSUME AsyncInv, NEW t \in Threads, NEW p \in TaskEntries,
         NEW q \in Seq(TaskEntries), Unique(q), p \notin Items(q)
  PROVE  /\ Append(q, p) \in Seq(TaskEntries) /\ Unique(Append(q, p))
         /\ Items(Append(q, p)) = Items(q) \cup {p} /\ Len(Append(q, p)) = Len(q) + 1
BY OfAppend

\* A thread calls the first of its new tasks.
LEMMA RunTodoKeeps ==
  ASSUME AsyncInv, NEW t \in Threads, RunTodo(t)
  PROVE  AsyncInv'
<1> DEFINE p == Head(localTodo[t])
           rest == Tail(localTodo[t])
<1>1. /\ UNCHANGED <<builderVars, orderVars, contextVars>>
      /\ UNCHANGED <<pcThread, todoList, stopFlag, completionQueue>>
      /\ pcThread[t] = "run" /\ localTodo[t] # <<>>
      /\ localTodo' = [localTodo EXCEPT ![t] = rest]
      /\ numToProcess' = [numToProcess EXCEPT ![t] = Len(unfinished'[t])]
      /\ \/ Complete(t, p) /\ UNCHANGED unfinished
         \/ Continue(p) /\ unfinished' = [unfinished EXCEPT ![t] = Append(@, p)]
  BY DEF RunTodo, NotThread, At, ToTryAgain
<1>2. /\ localTodo[t] \in Seq(TaskEntries) /\ Unique(localTodo[t])
      /\ unfinished[t] \in Seq(TaskEntries) /\ Unique(unfinished[t])
      /\ messagesDone[t] \in Seq(TaskEntries) /\ Unique(messagesDone[t])
      /\ Items(localTodo[t]) \cap Items(unfinished[t]) = {}
      /\ Items(localTodo[t]) \cap Items(messagesDone[t]) = {}
  BY QueueMoves
<1>3. /\ p \in TaskEntries /\ p \in Items(localTodo[t]) /\ rest \in Seq(TaskEntries)
      /\ Len(rest) = Len(localTodo[t]) - 1
      /\ Unique(rest) /\ Items(rest) = Items(localTodo[t]) \ {p}
  BY <1>1, <1>2, OfTail
<1>4. UNCHANGED <<taskList, localCompletions>>
  BY <1>1 DEF contextVars
<1>5. /\ localTodo \in [Threads -> Seq(TaskEntries)] /\ unfinished \in [Threads -> Seq(TaskEntries)]
      /\ messagesDone \in [Threads -> Seq(TaskEntries)] /\ taskLoad \in [Threads -> Int]
      /\ continued \in [Contexts -> [TaskIDs -> Int]] /\ numToProcess \in [Threads -> Int]
  BY DEF AsyncInv, ThreadTypes
<1>6. /\ <<"localTodo", t>> \in ToRun /\ <<"unfinished", t>> \in ToRun
      /\ <<"localTodo", t>> \in Spots /\ <<"unfinished", t>> \in Spots
      /\ <<"messages", t>> \in Spots
  BY SpotsThere
<1> HIDE DEF p, rest
<1>7. /\ Held[<<"localTodo", t>>] = Items(localTodo[t])
      /\ Held'[<<"localTodo", t>>] = Items(localTodo[t]) \ {p}
      /\ localTodo'[t] = rest /\ \A u \in Threads \ {t} : localTodo'[u] = localTodo[u]
  BY <1>1, <1>3, <1>5, HeldAt, HeldAtNext
<1>8. /\ Len(todoList[t]) \in Nat /\ Len(localTodo[t]) \in Nat /\ Len(unfinished[t]) \in Nat
      /\ taskLoad[t] = Len(todoList[t]) + Len(localTodo[t]) + Len(unfinished[t])
  BY ThreadBefore
<1>9. CASE Complete(t, p) /\ UNCHANGED unfinished
  <2> DEFINE m == Append(messagesDone[t], p)
             X == {<<"localTodo", t>>, <<"messages", t>>}
  <2>1. /\ messagesDone' = [messagesDone EXCEPT ![t] = m]
        /\ taskLoad' = [taskLoad EXCEPT ![t] = @ - 1] /\ UNCHANGED <<continued, unfinished>>
        /\ completed' = [completed EXCEPT ![p.ctx] = @ \cup {p.id}]
    BY <1>9 DEF Complete
  <2>2. /\ m \in Seq(TaskEntries) /\ Items(m) = Items(messagesDone[t]) \cup {p}
        /\ Unique(m)
    <3>1. p \notin Items(messagesDone[t])
      BY <1>3, <1>2
    <3> QED BY <1>3, <1>2, <3>1, QueueAfter
  <2> HIDE DEF m
  <2>3. /\ messagesDone'[t] = m /\ \A u \in Threads \ {t} : messagesDone'[u] = messagesDone[u]
        /\ numToProcess'[t] = Len(unfinished[t]) /\ taskLoad'[t] = taskLoad[t] - 1
    BY <1>1, <1>5, <2>1
  <2>4. Held'[<<"messages", t>>] = Held[<<"messages", t>>] \cup {p}
    <3>1. /\ Held'[<<"messages", t>>] = Items(messagesDone'[t])
          /\ Held[<<"messages", t>>] = Items(messagesDone[t])
      BY HeldAt, HeldAtNext
    <3> QED BY <2>2, <2>3, <3>1
  <2>5. \A x \in Spots \ X : Held'[x] = Held[x]
    <3>1. \A u \in Threads : <<"messages", u>> \notin X \/ <<"localTodo", u>> \notin X => u # t
      OBVIOUS
    <3> HIDE DEF X
    <3> QED BY <1>1, <1>4, <1>7, <2>1, <2>3, <3>1, SpotsKept
  <2>6. Moves(<<"localTodo", t>>, <<"messages", t>>, {p})
    BY <1>3, <1>6, <1>7, <2>4, <2>5 DEF Moves
  <2>7. ThreadTypes' /\ \A u \in Threads : ThreadOf(u)'
    <3>1. /\ numToProcess'[t] \in Int /\ taskLoad'[t] \in Int
          /\ numToProcess'[t] <= Len(unfinished'[t])
          /\ taskLoad'[t] = Len(todoList[t]) + Len(localTodo'[t]) + Len(unfinished'[t])
      <4>1. /\ Len(unfinished'[t]) = Len(unfinished[t]) /\ Len(localTodo'[t]) = Len(localTodo[t]) - 1
            /\ numToProcess'[t] = Len(unfinished[t]) /\ taskLoad'[t] = taskLoad[t] - 1
        BY <1>3, <1>7, <2>1, <2>3
      <4> QED BY <1>8, <4>1
    <3>2. /\ localTodo' = [localTodo EXCEPT ![t] = localTodo'[t]]
          /\ unfinished' = [unfinished EXCEPT ![t] = unfinished'[t]]
          /\ messagesDone' = [messagesDone EXCEPT ![t] = messagesDone'[t]]
          /\ numToProcess' = [numToProcess EXCEPT ![t] = numToProcess'[t]]
          /\ taskLoad' = [taskLoad EXCEPT ![t] = taskLoad'[t]]
      BY <1>1, <1>5, <2>1
    <3>3. /\ unfinished'[t] \in Seq(TaskEntries) /\ Unique(unfinished'[t])
          /\ localTodo'[t] \in Seq(TaskEntries) /\ Unique(localTodo'[t])
          /\ messagesDone'[t] \in Seq(TaskEntries) /\ Unique(messagesDone'[t])
      BY <1>3, <1>7, <1>2, <2>1, <2>2, <2>3
    <3>4. continued' \in [Contexts -> [TaskIDs -> Int]]
      BY <1>5, <2>1
    <3> QED BY <1>1, <3>1, <3>2, <3>3, <3>4, ThreadAfter
  <2> QED BY <1>1, <2>1, <2>6, <2>7, CompletionKeeps
<1>10. CASE Continue(p) /\ unfinished' = [unfinished EXCEPT ![t] = Append(@, p)]
  <2> DEFINE again == Append(unfinished[t], p)
             X == {<<"localTodo", t>>, <<"unfinished", t>>}
  <2>1. /\ unfinished' = [unfinished EXCEPT ![t] = again]
        /\ UNCHANGED <<messagesDone, taskLoad, completed>>
        /\ continued' = [continued EXCEPT ![p.ctx][p.id] = @ + 1]
    BY <1>10 DEF Continue
  <2>2. /\ again \in Seq(TaskEntries) /\ Items(again) = Items(unfinished[t]) \cup {p}
        /\ Unique(again) /\ Len(again) = Len(unfinished[t]) + 1
    <3>1. p \notin Items(unfinished[t])
      BY <1>3, <1>2
    <3> QED BY <1>3, <1>2, <3>1, QueueAfter
  <2> HIDE DEF again
  <2>3. /\ unfinished'[t] = again /\ \A u \in Threads \ {t} : unfinished'[u] = unfinished[u]
        /\ numToProcess'[t] = Len(again)
    BY <1>1, <1>5, <2>1
  <2>4. Held'[<<"unfinished", t>>] = Held[<<"unfinished", t>>] \cup {p}
    <3>1. /\ Held'[<<"unfinished", t>>] = Items(unfinished'[t])
          /\ Held[<<"unfinished", t>>] = Items(unfinished[t])
      BY HeldAt, HeldAtNext
    <3> QED BY <2>2, <2>3, <3>1
  <2>5. \A x \in Spots \ X : Held'[x] = Held[x]
    <3>1. \A u \in Threads : <<"unfinished", u>> \notin X \/ <<"localTodo", u>> \notin X => u # t
      OBVIOUS
    <3> HIDE DEF X
    <3> QED BY <1>1, <1>4, <1>7, <2>1, <2>3, <3>1, SpotsKept
  <2>6. Moves(<<"localTodo", t>>, <<"unfinished", t>>, {p})
    BY <1>3, <1>6, <1>7, <2>4, <2>5 DEF Moves
  <2>7. ThreadTypes' /\ \A u \in Threads : ThreadOf(u)'
    <3>1. /\ numToProcess'[t] \in Int /\ taskLoad'[t] \in Int
          /\ numToProcess'[t] <= Len(unfinished'[t])
          /\ taskLoad'[t] = Len(todoList[t]) + Len(localTodo'[t]) + Len(unfinished'[t])
      <4>1. /\ Len(unfinished'[t]) = Len(unfinished[t]) + 1 /\ Len(localTodo'[t]) = Len(localTodo[t]) - 1
            /\ numToProcess'[t] = Len(unfinished'[t]) /\ taskLoad'[t] = taskLoad[t]
        BY <1>3, <1>7, <2>1, <2>2, <2>3
      <4>2. taskLoad'[t] \in Int
        BY <1>5, <4>1
      <4>3. Len(unfinished'[t]) \in Int /\ Len(localTodo'[t]) \in Int
        BY <1>8, <4>1
      <4>4. Len(todoList[t]) + Len(localTodo[t]) + Len(unfinished[t])
            = Len(todoList[t]) + Len(localTodo'[t]) + Len(unfinished'[t])
        <5> DEFINE a == Len(todoList[t])
                   b == Len(localTodo[t])
                   c == Len(unfinished[t])
                   x == Len(localTodo'[t])
                   y == Len(unfinished'[t])
        <5>1. a \in Nat /\ b \in Nat /\ c \in Nat /\ x = b - 1 /\ y = c + 1
          BY <1>8, <4>1
        <5> HIDE DEF a, b, c, x, y
        <5>2. a + b + c = a + x + y
          BY <5>1
        <5> QED BY <5>2 DEF a, b, c, x, y
      <4>5. taskLoad'[t] = Len(todoList[t]) + Len(localTodo'[t]) + Len(unfinished'[t])
        BY <1>8, <4>1, <4>4
      <4> QED BY <4>1, <4>2, <4>3, <4>5
    <3>2. /\ localTodo' = [localTodo EXCEPT ![t] = localTodo'[t]]
          /\ unfinished' = [unfinished EXCEPT ![t] = unfinished'[t]]
          /\ messagesDone' = [messagesDone EXCEPT ![t] = messagesDone'[t]]
          /\ numToProcess' = [numToProcess EXCEPT ![t] = numToProcess'[t]]
          /\ taskLoad' = [taskLoad EXCEPT ![t] = taskLoad'[t]]
      BY <1>1, <1>5, <2>1
    <3>3. /\ unfinished'[t] \in Seq(TaskEntries) /\ Unique(unfinished'[t])
          /\ localTodo'[t] \in Seq(TaskEntries) /\ Unique(localTodo'[t])
          /\ messagesDone'[t] \in Seq(TaskEntries) /\ Unique(messagesDone'[t])
      BY <1>3, <1>7, <1>2, <2>1, <2>2, <2>3
    <3>4. continued' \in [Contexts -> [TaskIDs -> Int]]
      <4>1. p.ctx \in Contexts /\ p.id \in TaskIDs
        BY <1>3 DEF TaskEntries
      <4>2. continued \in [Contexts -> [TaskIDs -> Int]]
        BY <1>5
      <4> QED BY <2>1, <4>1, <4>2
    <3> QED BY <1>1, <3>1, <3>2, <3>3, <3>4, ThreadAfter
  <2> QED BY <1>1, <1>6, <2>1, <2>6, <2>7, WithinThreadKeeps
<1> QED BY <1>1, <1>9, <1>10

\* A thread calls an unfinished task again.
LEMMA RunUnfinishedKeeps ==
  ASSUME AsyncInv, NEW t \in Threads, RunUnfinished(t)
  PROVE  AsyncInv'
<1> DEFINE p == Head(unfinished[t])
           rest == Tail(unfinished[t])
<1>1. /\ UNCHANGED <<builderVars, orderVars, contextVars>>
      /\ UNCHANGED <<pcThread, localTodo, todoList, stopFlag, completionQueue>>
      /\ pcThread[t] = "run" /\ numToProcess[t] > 0
      /\ numToProcess' = [numToProcess EXCEPT ![t] = @ - 1]
      /\ \/ Complete(t, p) /\ unfinished' = [unfinished EXCEPT ![t] = rest]
         \/ Continue(p) /\ unfinished' = [unfinished EXCEPT ![t] = Append(rest, p)]
  BY DEF RunUnfinished, NotThread, At
<1>2. /\ Len(todoList[t]) \in Nat /\ Len(localTodo[t]) \in Nat /\ Len(unfinished[t]) \in Nat
      /\ taskLoad[t] = Len(todoList[t]) + Len(localTodo[t]) + Len(unfinished[t])
      /\ numToProcess[t] \in Int /\ numToProcess[t] <= Len(unfinished[t])
  BY ThreadBefore
<1>3. /\ localTodo[t] \in Seq(TaskEntries) /\ Unique(localTodo[t])
      /\ unfinished[t] \in Seq(TaskEntries) /\ Unique(unfinished[t])
      /\ messagesDone[t] \in Seq(TaskEntries) /\ Unique(messagesDone[t])
      /\ Items(unfinished[t]) \cap Items(messagesDone[t]) = {}
  BY QueueMoves
<1>4. /\ p \in TaskEntries /\ p \in Items(unfinished[t]) /\ rest \in Seq(TaskEntries)
      /\ Len(rest) = Len(unfinished[t]) - 1
      /\ Unique(rest) /\ Items(rest) = Items(unfinished[t]) \ {p}
  <2>1. Len(unfinished[t]) # 0
    BY <1>1, <1>2
  <2>2. unfinished[t] # <<>>
    BY <1>3, <2>1, EmptySeq
  <2> QED BY <2>2, <1>3, OfTail
<1>5. UNCHANGED <<taskList, localCompletions>>
  BY <1>1 DEF contextVars
<1>6. /\ localTodo \in [Threads -> Seq(TaskEntries)] /\ unfinished \in [Threads -> Seq(TaskEntries)]
      /\ messagesDone \in [Threads -> Seq(TaskEntries)] /\ taskLoad \in [Threads -> Int]
      /\ continued \in [Contexts -> [TaskIDs -> Int]] /\ numToProcess \in [Threads -> Int]
  BY DEF AsyncInv, ThreadTypes
<1>7. /\ <<"unfinished", t>> \in ToRun
      /\ <<"unfinished", t>> \in Spots /\ <<"messages", t>> \in Spots
  BY SpotsThere
<1> HIDE DEF p, rest
<1>8. Held[<<"unfinished", t>>] = Items(unfinished[t])
  BY HeldAt
<1>9. numToProcess'[t] = numToProcess[t] - 1
  BY <1>1, <1>6
<1>10. CASE Complete(t, p) /\ unfinished' = [unfinished EXCEPT ![t] = rest]
  <2> DEFINE m == Append(messagesDone[t], p)
             X == {<<"unfinished", t>>, <<"messages", t>>}
  <2>1. /\ messagesDone' = [messagesDone EXCEPT ![t] = m]
        /\ taskLoad' = [taskLoad EXCEPT ![t] = @ - 1] /\ UNCHANGED continued
        /\ completed' = [completed EXCEPT ![p.ctx] = @ \cup {p.id}]
    BY <1>10 DEF Complete
  <2>2. /\ m \in Seq(TaskEntries) /\ Items(m) = Items(messagesDone[t]) \cup {p}
        /\ Unique(m)
    <3>1. p \notin Items(messagesDone[t])
      BY <1>4, <1>3
    <3> QED BY <1>4, <1>3, <3>1, QueueAfter
  <2> HIDE DEF m
  <2>3. /\ messagesDone'[t] = m /\ \A u \in Threads \ {t} : messagesDone'[u] = messagesDone[u]
        /\ unfinished'[t] = rest /\ \A u \in Threads \ {t} : unfinished'[u] = unfinished[u]
        /\ taskLoad'[t] = taskLoad[t] - 1
    BY <1>1, <1>6, <1>10, <2>1
  <2>4. /\ Held'[<<"messages", t>>] = Held[<<"messages", t>>] \cup {p}
        /\ Held'[<<"unfinished", t>>] = Held[<<"unfinished", t>>] \ {p}
    <3>1. /\ Held'[<<"messages", t>>] = Items(messagesDone'[t])
          /\ Held[<<"messages", t>>] = Items(messagesDone[t])
          /\ Held'[<<"unfinished", t>>] = Items(unfinished'[t])
      BY HeldAt, HeldAtNext
    <3> QED BY <1>4, <1>8, <2>2, <2>3, <3>1
  <2>5. \A x \in Spots \ X : Held'[x] = Held[x]
    <3>1. \A u \in Threads : <<"messages", u>> \notin X \/ <<"unfinished", u>> \notin X => u # t
      OBVIOUS
    <3> HIDE DEF X
    <3> QED BY <1>1, <1>5, <2>3, <3>1, SpotsKept
  <2>6. Moves(<<"unfinished", t>>, <<"messages", t>>, {p})
    BY <1>4, <1>7, <1>8, <2>4, <2>5 DEF Moves
  <2>7. ThreadTypes' /\ \A u \in Threads : ThreadOf(u)'
    <3>1. /\ numToProcess'[t] \in Int /\ taskLoad'[t] \in Int
          /\ numToProcess'[t] <= Len(unfinished'[t])
          /\ taskLoad'[t] = Len(todoList[t]) + Len(localTodo'[t]) + Len(unfinished'[t])
      <4> DEFINE a == Len(todoList[t])
                 b == Len(localTodo[t])
                 c == Len(unfinished[t])
                 x == Len(localTodo'[t])
                 y == Len(unfinished'[t])
      <4>1. /\ a \in Nat /\ b \in Nat /\ c \in Nat /\ x = b /\ y = c - 1
            /\ taskLoad'[t] = a + b + c - 1
            /\ numToProcess[t] \in Int /\ numToProcess[t] <= c
        BY <1>1, <1>4, <1>2, <2>3
      <4> HIDE DEF a, b, c, x, y
      <4>2. numToProcess'[t] <= y /\ numToProcess'[t] \in Int
        BY <1>9, <4>1
      <4>3. taskLoad'[t] = a + x + y /\ taskLoad'[t] \in Int
        BY <4>1
      <4> QED BY <4>2, <4>3 DEF a, b, c, x, y
    <3>2. /\ localTodo' = [localTodo EXCEPT ![t] = localTodo'[t]]
          /\ unfinished' = [unfinished EXCEPT ![t] = unfinished'[t]]
          /\ messagesDone' = [messagesDone EXCEPT ![t] = messagesDone'[t]]
          /\ numToProcess' = [numToProcess EXCEPT ![t] = numToProcess'[t]]
          /\ taskLoad' = [taskLoad EXCEPT ![t] = taskLoad'[t]]
      BY <1>1, <1>6, <1>10, <2>1
    <3>3. /\ unfinished'[t] \in Seq(TaskEntries) /\ Unique(unfinished'[t])
          /\ localTodo'[t] \in Seq(TaskEntries) /\ Unique(localTodo'[t])
          /\ messagesDone'[t] \in Seq(TaskEntries) /\ Unique(messagesDone'[t])
      BY <1>1, <1>4, <1>3, <2>2, <2>3
    <3>4. continued' \in [Contexts -> [TaskIDs -> Int]]
      BY <1>6, <2>1
    <3> QED BY <1>1, <3>1, <3>2, <3>3, <3>4, ThreadAfter
  <2> QED BY <1>1, <2>1, <2>6, <2>7, CompletionKeeps
<1>11. CASE Continue(p) /\ unfinished' = [unfinished EXCEPT ![t] = Append(rest, p)]
  <2> DEFINE again == Append(rest, p)
  <2>1. /\ unfinished' = [unfinished EXCEPT ![t] = again]
        /\ UNCHANGED <<messagesDone, taskLoad, completed>>
        /\ continued' = [continued EXCEPT ![p.ctx][p.id] = @ + 1]
    BY <1>11 DEF Continue
  <2>2. /\ again \in Seq(TaskEntries) /\ Items(again) = Items(unfinished[t])
        /\ Unique(again) /\ Len(again) = Len(rest) + 1
    <3>1. p \notin Items(rest)
      BY <1>4
    <3>2. /\ again \in Seq(TaskEntries) /\ Items(again) = Items(rest) \cup {p}
          /\ Unique(again) /\ Len(again) = Len(rest) + 1
      BY <1>4, <1>3, <3>1, QueueAfter
    <3> QED BY <1>4, <3>2
  <2> HIDE DEF again
  <2>3. unfinished'[t] = again /\ \A u \in Threads \ {t} : unfinished'[u] = unfinished[u]
    BY <1>1, <1>6, <2>1
  <2>4. SameHeld
    <3> DEFINE X == {<<"unfinished", t>>}
    <3>1. \A u \in Threads : <<"unfinished", u>> \notin X => u # t
      OBVIOUS
    <3> HIDE DEF X
    <3>2. \A x \in Spots \ X : Held'[x] = Held[x]
      BY <1>1, <1>5, <2>1, <2>3, <3>1, SpotsKept
    <3>3. Held'[<<"unfinished", t>>] = Items(unfinished'[t])
      BY HeldAtNext
    <3>4. Held'[<<"unfinished", t>>] = Held[<<"unfinished", t>>]
      BY <1>8, <2>2, <2>3, <3>3
    <3> QED BY <3>2, <3>4 DEF SameHeld, X
  <2>5. ThreadTypes' /\ \A u \in Threads : ThreadOf(u)'
    <3>1. /\ numToProcess'[t] \in Int /\ taskLoad'[t] \in Int
          /\ numToProcess'[t] <= Len(unfinished'[t])
          /\ taskLoad'[t] = Len(todoList[t]) + Len(localTodo'[t]) + Len(unfinished'[t])
      <4> DEFINE a == Len(todoList[t])
                 b == Len(localTodo[t])
                 c == Len(unfinished[t])
                 x == Len(localTodo'[t])
                 y == Len(unfinished'[t])
                 r == Len(rest)
      <4>1. /\ a \in Nat /\ b \in Nat /\ c \in Nat /\ x = b /\ y = r + 1 /\ r = c - 1
            /\ taskLoad'[t] = a + b + c
            /\ numToProcess[t] \in Int /\ numToProcess[t] <= c
        BY <1>1, <1>4, <1>2, <2>1, <2>2, <2>3
      <4> HIDE DEF a, b, c, x, y, r
      <4>2. numToProcess'[t] <= y /\ numToProcess'[t] \in Int
        BY <1>9, <4>1
      <4>3. taskLoad'[t] = a + x + y /\ taskLoad'[t] \in Int
        BY <4>1
      <4> QED BY <4>2, <4>3 DEF a, b, c, x, y
    <3>2. /\ localTodo' = [localTodo EXCEPT ![t] = localTodo'[t]]
          /\ unfinished' = [unfinished EXCEPT ![t] = unfinished'[t]]
          /\ messagesDone' = [messagesDone EXCEPT ![t] = messagesDone'[t]]
          /\ numToProcess' = [numToProcess EXCEPT ![t] = numToProcess'[t]]
          /\ taskLoad' = [taskLoad EXCEPT ![t] = taskLoad'[t]]
      BY <1>1, <1>6, <2>1
    <3>3. /\ unfinished'[t] \in Seq(TaskEntries) /\ Unique(unfinished'[t])
          /\ localTodo'[t] \in Seq(TaskEntries) /\ Unique(localTodo'[t])
          /\ messagesDone'[t] \in Seq(TaskEntries) /\ Unique(messagesDone'[t])
      BY <1>1, <1>3, <2>1, <2>2, <2>3
    <3>4. continued' \in [Contexts -> [TaskIDs -> Int]]
      <4>1. p.ctx \in Contexts /\ p.id \in TaskIDs
        BY <1>4 DEF TaskEntries
      <4>2. continued \in [Contexts -> [TaskIDs -> Int]]
        BY <1>6
      <4> QED BY <2>1, <4>1, <4>2
    <3> QED BY <1>1, <3>1, <3>2, <3>3, <3>4, ThreadAfter
  <2> QED BY <1>1, <1>7, <2>1, <2>4, <2>5, WithinThreadKeeps
<1> QED BY <1>1, <1>10, <1>11

\* A thread posts a completion to the context of the task, or is through.
LEMMA PostCompletionKeeps ==
  ASSUME AsyncInv, NEW t \in Threads, PostCompletion(t)
  PROVE  AsyncInv'
<1> DEFINE m == Head(messagesDone[t])
           rest == Tail(messagesDone[t])
<1>1. /\ UNCHANGED <<builderVars, orderVars, contextVars>>
      /\ UNCHANGED <<localTodo, unfinished, numToProcess, taskLoad, todoList, continued, completed>>
      /\ pcThread[t] = "run" /\ localTodo[t] = <<>>
      /\ \/ /\ messagesDone[t] = <<>> /\ UNCHANGED <<messagesDone, completionQueue>>
            /\ pcThread' = [pcThread EXCEPT ![t] = "top"]
         \/ /\ messagesDone[t] # <<>> /\ UNCHANGED pcThread
            /\ completionQueue' = [completionQueue EXCEPT ![m.ctx] = Append(@, m.id)]
            /\ messagesDone' = [messagesDone EXCEPT ![t] = rest]
  BY DEF PostCompletion, NotThread, At, Goto, postVars
<1>2. CASE /\ messagesDone[t] = <<>> /\ UNCHANGED <<messagesDone, completionQueue>>
           /\ pcThread' = [pcThread EXCEPT ![t] = "top"]
  <2>1. /\ pcThread' \in [Threads -> {"top", "checked", "sleep", "awake", "run", "ended"}]
        /\ \A u \in Threads : u # t => pcThread'[u] = pcThread[u]
    BY <1>2 DEF AsyncInv, ThreadTypes
  <2>2. \A u \in Threads : pcThread[u] # "run" => localTodo[u] = <<>> /\ messagesDone[u] = <<>>
    BY DEF AsyncInv, ThreadOf
  <2>3. ASSUME NEW u \in Threads
        PROVE  pcThread'[u] = "run" \/ (localTodo[u] = <<>> /\ messagesDone[u] = <<>>)
    BY <1>1, <1>2, <2>1, <2>2
  <2> QED BY <1>1, <1>2, <2>1, <2>3, GoingOnKeeps
<1>3. CASE /\ messagesDone[t] # <<>> /\ UNCHANGED pcThread
           /\ completionQueue' = [completionQueue EXCEPT ![m.ctx] = Append(@, m.id)]
           /\ messagesDone' = [messagesDone EXCEPT ![t] = rest]
  <2>1. messagesDone[t] \in Seq(TaskEntries) /\ Unique(messagesDone[t])
    BY QueueMoves
  <2>2. /\ m \in TaskEntries /\ m \in Items(messagesDone[t]) /\ rest \in Seq(TaskEntries)
        /\ Unique(rest) /\ Items(rest) = Items(messagesDone[t]) \ {m}
    BY <1>3, <2>1, OfTail
  <2> HIDE DEF rest, m
  <2> DEFINE c == m.ctx
             i == m.id
             q == Append(completionQueue[c], i)
             X == {<<"messages", t>>, <<"done", c>>}
  <2>3. c \in Contexts /\ i \in TaskIDs /\ m = TaskEntry(c, i)
    BY <2>2 DEF TaskEntries, TaskEntry
  <2>4. /\ completionQueue \in [Contexts -> Seq(TaskIDs)] /\ messagesDone \in [Threads -> Seq(TaskEntries)]
        /\ completionQueue[c] \in Seq(TaskIDs) /\ Unique(completionQueue[c])
        /\ \A d \in Contexts : Unique(completionQueue[d])
    BY <2>3 DEF AsyncInv, AsyncTypes, ThreadTypes, QueuesOf
  <2>5. /\ Held[<<"messages", t>>] = Items(messagesDone[t])
        /\ Held[<<"done", c>>] = Tagged(c, completionQueue[c])
        /\ Held'[<<"messages", t>>] = Items(messagesDone'[t])
        /\ Held'[<<"done", c>>] = Tagged(c, completionQueue'[c])
    BY <2>3, HeldAt, HeldAtNext
  <2>6. <<"messages", t>> \in HaveRun /\ <<"done", c>> \in HaveRun
    BY <2>3, SpotsThere
  <2>7. i \notin Items(completionQueue[c])
    <3>1. <<"messages", t>> # <<"done", c>>
      OBVIOUS
    <3>2. Held[<<"messages", t>>] \cap Held[<<"done", c>>] = {}
      BY <2>6, <3>1, SpotsThere DEF AsyncInv, PlacesInv
    <3>3. m \notin Tagged(c, completionQueue[c])
      BY <2>2, <2>5, <3>2
    <3> HIDE DEF c, i
    <3> QED BY <2>3, <3>3, TaggedEntries
  <2>8. /\ q \in Seq(TaskIDs) /\ Unique(q) /\ Items(q) = Items(completionQueue[c]) \cup {i}
    BY <2>3, <2>4, <2>7, OfAppend
  <2> HIDE DEF q
  <2>9. /\ completionQueue' = [completionQueue EXCEPT ![c] = q]
        /\ completionQueue'[c] = q /\ \A d \in Contexts \ {c} : completionQueue'[d] = completionQueue[d]
        /\ messagesDone'[t] = rest /\ \A u \in Threads \ {t} : messagesDone'[u] = messagesDone[u]
    BY <1>3, <2>3, <2>4 DEF q
  <2>10. Tagged(c, q) = Tagged(c, completionQueue[c]) \cup {m}
    BY <2>3, <2>8 DEF Tagged
  <2> HIDE DEF c, i
  <2>11. \A x \in Spots \ X : Held'[x] = Held[x]
    <3>1. /\ \A u \in Threads : <<"messages", u>> \notin X => u # t
          /\ \A d \in Contexts : <<"done", d>> \notin X => d # c
      OBVIOUS
    <3>2. UNCHANGED <<taskList, localCompletions>>
      BY <1>1 DEF contextVars
    <3> HIDE DEF X
    <3> QED BY <1>1, <2>9, <3>1, <3>2, SpotsKept
  <2>12. Moves(<<"messages", t>>, <<"done", c>>, {m})
    <3>1. <<"messages", t>> # <<"done", c>>
      OBVIOUS
    <3> QED BY <2>2, <2>5, <2>6, <2>9, <2>10, <2>11, <3>1, SpotsThere DEF Moves
  <2>13. PlacesInv' /\ \A d : Under(d)' = Under(d) /\ Handled(d)' = Handled(d)
    <3>1. <<"messages", t>> \notin ToRun /\ <<"done", c>> \notin ToRun
      BY <2>6, SpotsThere
    <3> QED BY <1>1, <2>12, <3>1, MovesWithin DEF AsyncInv
  <2>14. ThreadTypes' /\ \A u \in Threads : ThreadOf(u)'
    <3>1. ThreadTypes'
      BY <1>1, <1>3, <2>2 DEF AsyncInv, ThreadTypes
    <3>2. ASSUME NEW u \in Threads PROVE ThreadOf(u)'
      <4>1. ThreadOf(u) /\ pcThread'[u] = pcThread[u]
        BY <1>3 DEF AsyncInv
      <4>2. Unique(messagesDone'[u]) /\ (u # t => messagesDone'[u] = messagesDone[u])
        BY <2>2, <2>9, <4>1 DEF ThreadOf
      <4> QED BY <1>1, <4>1, <4>2 DEF ThreadOf
    <3> QED BY <3>1, <3>2
  <2>15. /\ completionQueue' \in [Contexts -> Seq(TaskIDs)] /\ completed' \in [Contexts -> SUBSET TaskIDs]
         /\ \A d \in Contexts : Unique(completionQueue[d])'
    BY <1>1, <2>4, <2>8, <2>9 DEF AsyncInv, AsyncTypes
  <2>16. \A d \in Contexts : completed'[d] = completed[d]
    BY <1>1
  <2> QED BY <1>1, <2>13, <2>14, <2>15, <2>16, ThreadStepKept
<1> QED BY <1>1, <1>2, <1>3

\* A context hands the first of its tasks to a thread.
LEMMA PostTaskKeeps ==
  ASSUME AsyncInv, NEW c \in Contexts, NEW t \in Threads, PostTaskToThread(c, t)
  PROVE  AsyncInv'
<1> DEFINE i == Head(taskList[c])
           e == TaskEntry(c, i)
           rest == Tail(taskList[c])
           q == Append(todoList[t], e)
           X == {<<"list", c>>, <<"todo", t>>}
<1>1. /\ UNCHANGED <<builderVars, orderVars, pcCtx, pendingTasks, localCompletions>>
      /\ UNCHANGED <<completionQueue, localTodo, unfinished, numToProcess, messagesDone,
                     continued, completed>>
      /\ pcCtx[c] = "post" /\ taskList[c] # <<>>
      /\ todoList' = [todoList EXCEPT ![t] = q]
      /\ taskLoad' = [taskLoad EXCEPT ![t] = @ + 1]
      /\ taskList' = [taskList EXCEPT ![c] = rest]
      /\ pcThread' = [pcThread EXCEPT ![t] = IF @ = "sleep" THEN "awake" ELSE @]
  BY DEF PostTaskToThread, TaskEntry
<1>2. /\ taskList \in [Contexts -> Seq(TaskIDs)] /\ todoList \in [Threads -> Seq(TaskEntries)]
      /\ taskLoad \in [Threads -> Int]
      /\ pcThread \in [Threads -> {"top", "checked", "sleep", "awake", "run", "ended"}]
      /\ \A d \in Contexts : Unique(taskList[d])
  BY DEF AsyncInv, AsyncTypes, ThreadTypes, QueuesOf
<1>3. /\ i \in TaskIDs /\ i \in Items(taskList[c]) /\ rest \in Seq(TaskIDs) /\ Unique(rest)
      /\ Items(rest) = Items(taskList[c]) \ {i}
  <2>1. taskList[c] \in Seq(TaskIDs) /\ Unique(taskList[c])
    BY <1>2
  <2> QED BY <1>1, <2>1, OfTail
<1> HIDE DEF i, rest
<1>4. e \in TaskEntries
  BY <1>3 DEF TaskEntries, TaskEntry
<1>5. /\ Held[<<"list", c>>] = Tagged(c, taskList[c]) /\ Held[<<"todo", t>>] = Items(todoList[t])
      /\ Held'[<<"list", c>>] = Tagged(c, taskList'[c]) /\ Held'[<<"todo", t>>] = Items(todoList'[t])
  BY HeldAt, HeldAtNext
<1>6. <<"list", c>> \in ToRun /\ <<"todo", t>> \in ToRun /\ <<"list", c>> # <<"todo", t>>
  BY SpotsThere
<1>7. e \in Held[<<"list", c>>] /\ e \notin Items(todoList[t])
  <2>1. e \in Tagged(c, taskList[c])
    BY <1>3 DEF Tagged
  <2>2. Held[<<"list", c>>] \cap Held[<<"todo", t>>] = {}
    BY <1>6, SpotsThere DEF AsyncInv, PlacesInv
  <2> QED BY <1>5, <2>1, <2>2
<1>8. /\ todoList[t] \in Seq(TaskEntries) /\ Unique(todoList[t])
      /\ Len(todoList[t]) \in Nat /\ Len(localTodo[t]) \in Nat /\ Len(unfinished[t]) \in Nat
      /\ taskLoad[t] = Len(todoList[t]) + Len(localTodo[t]) + Len(unfinished[t])
  BY QueueMoves, ThreadBefore
<1>9. /\ q \in Seq(TaskEntries) /\ Unique(q) /\ Items(q) = Items(todoList[t]) \cup {e}
      /\ Len(q) = Len(todoList[t]) + 1
  BY <1>4, <1>7, <1>8, QueueAfter
<1> HIDE DEF q
<1>10. /\ taskList'[c] = rest /\ \A d \in Contexts \ {c} : taskList'[d] = taskList[d]
       /\ todoList'[t] = q /\ \A u \in Threads \ {t} : todoList'[u] = todoList[u]
       /\ taskLoad'[t] = taskLoad[t] + 1 /\ \A u \in Threads \ {t} : taskLoad'[u] = taskLoad[u]
       /\ \A u \in Threads : pcThread'[u] = "run" <=> pcThread[u] = "run"
  BY <1>1, <1>2
<1>11. Tagged(c, rest) = Tagged(c, taskList[c]) \ {e}
  <2>1. ASSUME NEW x PROVE x \in Tagged(c, rest) <=> x \in Tagged(c, taskList[c]) /\ x # e
    <3>1. \A j, k : TaskEntry(c, j) = TaskEntry(c, k) => j = k
      BY DEF TaskEntry
    <3> QED BY <1>3, <3>1 DEF Tagged
  <2> QED BY <2>1
<1>12. \A x \in Spots \ X : Held'[x] = Held[x]
  <2>1. /\ \A u \in Threads : <<"todo", u>> \notin X => u # t
        /\ \A d \in Contexts : <<"list", d>> \notin X => d # c
    OBVIOUS
  <2> HIDE DEF X
  <2> QED BY <1>1, <1>10, <2>1, SpotsKept
<1>13. Moves(<<"list", c>>, <<"todo", t>>, {e})
  BY <1>5, <1>6, <1>7, <1>9, <1>10, <1>11, <1>12, SpotsThere DEF Moves
<1> HIDE DEF e, X
<1>14. PlacesInv' /\ \A d : Under(d)' = Under(d) /\ Handled(d)' = Handled(d)
  BY <1>1, <1>6, <1>13, MovesWithin DEF AsyncInv
<1>15. AsyncTypes' /\ ThreadTypes'
  <2>1. AsyncTypes'
    BY <1>1, <1>3 DEF AsyncInv, AsyncTypes, builderVars, orderVars
  <2>2. pcThread' \in [Threads -> {"top", "checked", "sleep", "awake", "run", "ended"}]
    BY <1>1, <1>2
  <2>3. todoList' \in [Threads -> Seq(TaskEntries)] /\ taskLoad' \in [Threads -> Int]
    BY <1>1, <1>2, <1>9
  <2>4. ThreadTypes'
    BY <1>1, <2>2, <2>3 DEF AsyncInv, ThreadTypes
  <2> QED BY <2>1, <2>4
<1>16. ASSUME NEW u \in Threads PROVE ThreadOf(u)'
  <2>1. ThreadOf(u) /\ localTodo'[u] = localTodo[u] /\ unfinished'[u] = unfinished[u]
        /\ messagesDone'[u] = messagesDone[u] /\ numToProcess'[u] = numToProcess[u]
    BY <1>1 DEF AsyncInv
  <2>2. CASE u = t
    <3> DEFINE a == Len(todoList[t])
               b == Len(localTodo[t])
               d == Len(unfinished[t])
               x == Len(todoList'[t])
    <3>1. a \in Nat /\ b \in Nat /\ d \in Nat /\ x = a + 1 /\ taskLoad'[t] = a + b + d + 1
      BY <1>8, <1>9, <1>10
    <3> HIDE DEF a, b, d, x
    <3>2. taskLoad'[t] = x + b + d
      BY <3>1
    <3>3. taskLoad'[t] = Len(todoList'[t]) + Len(localTodo'[t]) + Len(unfinished'[t])
      BY <2>1, <2>2, <3>2 DEF x, b, d
    <3>4. Unique(todoList'[t])
      BY <1>9, <1>10
    <3> QED BY <1>10, <2>1, <2>2, <3>3, <3>4 DEF ThreadOf
  <2>3. CASE u # t
    BY <1>10, <2>1, <2>3 DEF ThreadOf
  <2> QED BY <2>2, <2>3
<1>17. BuilderSymmetric' /\ \A d \in Contexts : CountsOf(d)' /\ CyclesOf(d)'
  BY <1>1, <1>14, StageKept DEF builderVars
<1>18. ASSUME NEW d \in Contexts PROVE QueuesOf(d)' /\ PendingOf(d)'
  <2>1. QueuesOf(d) /\ PendingOf(d)
    BY DEF AsyncInv
  <2>2. UNCHANGED <<pcCtx, pendingTasks, executingTasks, completionQueue, localCompletions>>
    BY <1>1 DEF orderVars
  <2>3. Under(d)' = Under(d) /\ Unique(taskList'[d])
    BY <1>2, <1>3, <1>10, <1>14
  <2>4. QueuesOf(d)'
    BY <2>1, <2>2, <2>3 DEF QueuesOf
  <2>5. taskList'[d] = taskList[d] \/ pcCtx'[d] = "post"
    BY <1>1, <1>10
  <2>6. PendingOf(d)'
    BY <2>1, <2>2, <2>3, <2>5 DEF PendingOf
  <2> QED BY <2>4, <2>6
<1> QED BY <1>14, <1>15, <1>16, <1>17, <1>18 DEF AsyncInv

\* A context takes its completions.
LEMMA TakeCompletionsKeeps ==
  ASSUME AsyncInv, NEW c \in Contexts, TakeCompletions(c)
  PROVE  AsyncInv'
<1> DEFINE q == completionQueue[c]
           X == {<<"done", c>>, <<"local", c>>}
<1>1. /\ UNCHANGED <<builderVars, orderVars, taskList, todoList, localTodo, unfinished,
                     numToProcess, messagesDone, taskLoad, pcThread, continued, completed>>
      /\ pcCtx[c] = "post" /\ taskList[c] = <<>> /\ q # <<>>
      /\ localCompletions' = [localCompletions EXCEPT ![c] = q]
      /\ completionQueue' = [completionQueue EXCEPT ![c] = <<>>]
      /\ pendingTasks' = [pendingTasks EXCEPT ![c] = @ - Len(q)]
      /\ pcCtx' = [pcCtx EXCEPT ![c] = "handle"]
  BY DEF TakeCompletions, threadVars, postVars
<1>2. /\ completionQueue \in [Contexts -> Seq(TaskIDs)] /\ localCompletions \in [Contexts -> Seq(TaskIDs)]
      /\ pendingTasks \in [Contexts -> Int] /\ executingTasks \in [Contexts -> Int]
      /\ pcCtx \in [Contexts -> {"new", "post", "handle", "returned"}]
      /\ q \in Seq(TaskIDs) /\ taskList[c] \in Seq(TaskIDs)
      /\ \A d \in Contexts : QueuesOf(d)
  BY DEF AsyncInv, AsyncTypes
<1>3. /\ localCompletions[c] = <<>> /\ Unique(q) /\ Unique(<<>>)
  BY <1>1, <1>2 DEF QueuesOf, Unique
<1>4. Len(q) \in Nat /\ Len(taskList[c]) = 0
  BY <1>1, <1>2, EmptySeq, LenProperties
<1> HIDE DEF q
<1>5. /\ localCompletions'[c] = q /\ completionQueue'[c] = <<>>
      /\ pendingTasks'[c] = pendingTasks[c] - Len(q) /\ pcCtx'[c] = "handle"
      /\ \A d \in Contexts \ {c} :
           /\ localCompletions'[d] = localCompletions[d] /\ completionQueue'[d] = completionQueue[d]
           /\ pendingTasks'[d] = pendingTasks[d] /\ pcCtx'[d] = pcCtx[d]
  BY <1>1, <1>2
<1>6. Moves(<<"done", c>>, <<"local", c>>, Tagged(c, q))
  <2>1. /\ <<"done", c>> \in Spots /\ <<"local", c>> \in Spots /\ <<"done", c>> # <<"local", c>>
    BY SpotsThere
  <2>2. Tagged(c, <<>>) = {}
    BY DEF Tagged, Items
  <2>3. /\ Held[<<"done", c>>] = Tagged(c, q) /\ Held'[<<"done", c>>] = {}
        /\ Held[<<"local", c>>] = {} /\ Held'[<<"local", c>>] = Tagged(c, q)
    BY <1>3, <1>5, <2>2, HeldAt, HeldAtNext DEF q
  <2>4. \A x \in Spots \ X : Held'[x] = Held[x]
    <3>1. \A d \in Contexts : <<"done", d>> \notin X \/ <<"local", d>> \notin X => d # c
      OBVIOUS
    <3> HIDE DEF X
    <3> QED BY <1>1, <1>5, <3>1, SpotsKept
  <2> QED BY <2>1, <2>3, <2>4 DEF Moves
<1>7. PlacesInv' /\ \A d : Under(d)' = Under(d) /\ Handled(d)' = Handled(d)
  <2>1. <<"done", c>> \notin ToRun /\ <<"local", c>> \notin ToRun
    BY SpotsThere
  <2> QED BY <1>1, <1>6, <2>1, MovesWithin DEF AsyncInv
<1>8. AsyncTypes' /\ ThreadTypes'
  <2>1. /\ completionQueue' \in [Contexts -> Seq(TaskIDs)] /\ localCompletions' \in [Contexts -> Seq(TaskIDs)]
        /\ pendingTasks' \in [Contexts -> Int]
        /\ pcCtx' \in [Contexts -> {"new", "post", "handle", "returned"}]
    <3>1. <<>> \in Seq(TaskIDs)
      BY EmptySeq
    <3>2. q \in Seq(TaskIDs)
      BY <1>2
    <3> QED BY <1>1, <1>2, <1>4, <3>1, <3>2
  <2>2. AsyncTypes'
    BY <1>1, <2>1 DEF AsyncInv, AsyncTypes, builderVars, orderVars
  <2>3. ThreadTypes'
    BY <1>1 DEF AsyncInv, ThreadTypes
  <2> QED BY <2>2, <2>3
<1>9. \A u \in Threads : ThreadOf(u)'
  BY <1>1 DEF AsyncInv, ThreadOf
<1>10. BuilderSymmetric' /\ \A d \in Contexts : CountsOf(d)' /\ CyclesOf(d)'
  <2>1. /\ \A d \in Contexts : pcCtx'[d] = "new" <=> pcCtx[d] = "new"
        /\ \A d \in Contexts : pcCtx[d] = "new" => pendingTasks'[d] = pendingTasks[d]
    BY <1>1, <1>5
  <2> QED BY <1>1, <1>7, <2>1, StageKept DEF builderVars
<1>11. ASSUME NEW d \in Contexts PROVE QueuesOf(d)' /\ PendingOf(d)'
  <2>1. QueuesOf(d) /\ PendingOf(d) /\ Under(d)' = Under(d)
        /\ UNCHANGED <<executingTasks, taskList>>
    BY <1>1, <1>7 DEF AsyncInv, orderVars
  <2>2. CASE d = c
    <3>1. QueuesOf(c)'
      BY <1>1, <1>3, <1>5, <2>1, <2>2 DEF QueuesOf
    <3>2. pendingTasks[c] = executingTasks[c] /\ executingTasks[c] \in Int
      BY <1>1, <1>2, <2>1, <2>2 DEF PendingOf
    <3>3. pendingTasks'[c] = executingTasks'[c] - Len(taskList'[c]) - Len(localCompletions'[c])
      <4>1. /\ executingTasks'[c] = executingTasks[c] /\ Len(taskList'[c]) = 0
            /\ Len(localCompletions'[c]) = Len(q)
        BY <1>4, <1>5, <2>1
      <4> QED BY <1>4, <1>5, <3>2, <4>1
    <3> QED BY <1>5, <2>2, <3>1, <3>3 DEF PendingOf
  <2>3. CASE d # c
    BY <1>5, <2>1, <2>3 DEF QueuesOf, PendingOf
  <2> QED BY <2>2, <2>3
<1> QED BY <1>7, <1>8, <1>9, <1>10, <1>11 DEF AsyncInv

\* Sets of tasks are finite.
LEMMA TasksFinite ==
  ASSUME NEW S \in SUBSET TaskIDs
  PROVE  IsFiniteSet(S) /\ Cardinality(S) \in Nat
<1>1. MaxTasks \in Nat
  BY AsyncAssumption
<1>2. IsFiniteSet(TaskIDs)
  BY <1>1, FS_Interval DEF TaskIDs
<1> QED BY ONLY <1>2, FS_Subset, FS_CardinalityType, S \in SUBSET TaskIDs

\* The first of the completions was released and has completed; the tasks it
\* releases are those that waited for it alone, and none of them was released
\* before.
LEMMA ReleasedTasks ==
  ASSUME AsyncInv, NEW c \in Contexts, pcCtx[c] = "handle", NEW h, h = Head(localCompletions[c]),
         NEW R, R = Released(c, dependentTasks[c][h])
  PROVE  /\ h \in TaskIDs /\ h \in Under(c) /\ h \in completed[c]
         /\ TaskEntry(c, h) \in Held[<<"local", c>>]
         /\ R \in SUBSET (0 .. numTasks - 1) /\ R \in SUBSET TaskIDs
         /\ R \cap (Under(c) \cup completed[c]) = {}
         /\ {i \in 0 .. numTasks - 1 : vFrom[i] \subseteq Handled(c) \cup {h}}
              = Under(c) \cup completed[c] \cup R
         /\ \A j \in TaskIDs :
              (IF j \in dependentTasks[c][h] THEN dependencyCount[c][j] - 1 ELSE dependencyCount[c][j])
                = Cardinality(vFrom[j] \ (Handled(c) \cup {h}))
<1> DEFINE H == Handled(c)
           dep == dependentTasks[c][h]
           Wait(j) == vFrom[j] \ H
<1>1. /\ localCompletions[c] \in Seq(TaskIDs) /\ localCompletions[c] # <<>>
      /\ completed[c] \in SUBSET TaskIDs
      /\ numTasks \in 0 .. MaxTasks /\ MaxTasks \in Nat
      /\ vFrom \in [TaskIDs -> SUBSET (0 .. numTasks - 1)]
      /\ vTo \in [TaskIDs -> SUBSET (0 .. numTasks - 1)]
      /\ dependencyCount[c] \in [TaskIDs -> Int]
  BY AsyncAssumption DEF AsyncInv, AsyncTypes, QueuesOf
<1>2. /\ dependentTasks[c] = vTo
      /\ \A i \in TaskIDs : dependencyCount[c][i] = Cardinality(Wait(i))
      /\ Under(c) \cup completed[c] = {i \in 0 .. numTasks - 1 : vFrom[i] \subseteq H}
  BY DEF AsyncInv, CountsOf
<1>3. h \in Items(localCompletions[c]) /\ h \in TaskIDs
  BY <1>1, OfTail
<1>4. TaskEntry(c, h) \in Held[<<"local", c>>] /\ <<"local", c>> \in HaveRun /\ <<"local", c>> \in Spots
  BY <1>3, HeldAt, SpotsThere DEF Tagged
<1>5. h \in completed[c] /\ h \in Under(c) /\ h \notin H
  <2>1. TaskEntry(c, h).id = h /\ TaskEntry(c, h).ctx = c
    BY DEF TaskEntry
  <2>2. h \in completed[c]
    BY <1>4, <2>1 DEF AsyncInv, PlacesInv
  <2>3. h \in Under(c)
    BY <1>3, <1>4 DEF Under
  <2> QED BY <2>2, <2>3 DEF Handled
<1>6. \A j \in TaskIDs : j \in dep <=> h \in vFrom[j]
  BY <1>2, <1>3 DEF AsyncInv, BuilderSymmetric
<1>7. dep \in SUBSET (0 .. numTasks - 1) /\ 0 .. numTasks - 1 \in SUBSET TaskIDs
  BY <1>1, <1>2, <1>3 DEF TaskIDs
<1>8. \A j \in TaskIDs : IsFiniteSet(Wait(j)) /\ Cardinality(Wait(j)) \in Nat
  <2>1. \A j \in TaskIDs : Wait(j) \in SUBSET TaskIDs
    BY <1>1, <1>7
  <2> HIDE DEF Wait
  <2> QED BY <2>1, TasksFinite
<1> HIDE DEF H
<1>9. ASSUME NEW j \in TaskIDs, j \in dep
      PROVE  /\ Wait(j) # {} /\ Cardinality(Wait(j) \ {h}) = Cardinality(Wait(j)) - 1
             /\ dependencyCount[c][j] = 1 <=> Wait(j) = {h}
  <2>1. h \in Wait(j)
    BY <1>5, <1>6, <1>9 DEF H
  <2>2. IsFiniteSet(Wait(j)) /\ Cardinality(Wait(j)) \in Nat /\ dependencyCount[c][j] = Cardinality(Wait(j))
    BY <1>2, <1>8 DEF H
  <2> HIDE DEF Wait
  <2>3. /\ IsFiniteSet(Wait(j) \ {h})
        /\ Cardinality(Wait(j) \ {h}) = Cardinality(Wait(j)) - 1
    BY ONLY <2>1, <2>2, FS_RemoveElement
  <2>4. Cardinality(Wait(j)) = 1 <=> Wait(j) = {h}
    <3>1. Cardinality(Wait(j)) = 1 <=> Cardinality(Wait(j) \ {h}) = 0
      BY <2>2, <2>3
    <3>2. Cardinality(Wait(j) \ {h}) = 0 <=> Wait(j) \ {h} = {}
      BY ONLY <2>3, FS_EmptySet
    <3> QED BY <2>1, <3>1, <3>2
  <2> QED BY <2>1, <2>2, <2>3, <2>4
<1>10. R = {j \in dep : Wait(j) = {h}}
  BY <1>7, <1>9 DEF Released
<1>11. R \in SUBSET (0 .. numTasks - 1) /\ R \in SUBSET TaskIDs
  BY <1>7, <1>10
<1>12. R \cap (Under(c) \cup completed[c]) = {}
  <2>1. \A j \in R : ~(vFrom[j] \subseteq H)
    BY <1>10
  <2> QED BY <1>2, <2>1
<1>13. ASSUME NEW i \in 0 .. numTasks - 1
       PROVE  vFrom[i] \subseteq H \cup {h} <=> (vFrom[i] \subseteq H \/ i \in R)
  <2>1. i \in TaskIDs
    BY <1>7
  <2>2. CASE h \in vFrom[i]
    BY <1>5, <1>6, <1>10, <2>1, <2>2 DEF H
  <2>3. CASE h \notin vFrom[i]
    BY <1>6, <1>10, <2>1, <2>3
  <2> QED BY <2>2, <2>3
<1>14. {i \in 0 .. numTasks - 1 : vFrom[i] \subseteq H \cup {h}} = Under(c) \cup completed[c] \cup R
  BY <1>2, <1>11, <1>13
<1>15. ASSUME NEW j \in TaskIDs
       PROVE  (IF j \in dep THEN dependencyCount[c][j] - 1 ELSE dependencyCount[c][j])
                = Cardinality(vFrom[j] \ (H \cup {h}))
  <2>1. vFrom[j] \ (H \cup {h}) = Wait(j) \ {h}
    OBVIOUS
  <2>2. CASE j \in dep
    <3>1. Cardinality(Wait(j) \ {h}) = Cardinality(Wait(j)) - 1 /\ dependencyCount[c][j] = Cardinality(Wait(j))
      BY <1>2, <1>9, <2>2 DEF H
    <3> QED BY <2>1, <2>2, <3>1
  <2>3. CASE j \notin dep
    <3>1. Wait(j) \ {h} = Wait(j)
      BY <1>6, <2>3
    <3>2. dependencyCount[c][j] = Cardinality(Wait(j))
      BY <1>2 DEF H
    <3> QED BY <2>1, <2>3, <3>1, <3>2
  <2> QED BY <2>2, <2>3
<1> QED BY <1>3, <1>4, <1>5, <1>11, <1>12, <1>14, <1>15 DEF H

\* Where the tasks are after a completion was handled.
LEMMA AfterHandling ==
  ASSUME AsyncInv, NEW c \in Contexts, NEW h \in TaskIDs, NEW R \in SUBSET TaskIDs,
         h \in completed[c], h \in Under(c), TaskEntry(c, h) \in Held[<<"local", c>>],
         R \cap (Under(c) \cup completed[c]) = {}, UNCHANGED completed,
         Held'[<<"local", c>>] = Held[<<"local", c>>] \ {TaskEntry(c, h)},
         Held'[<<"list", c>>] = Held[<<"list", c>>] \cup {TaskEntry(c, i) : i \in R},
         \A x \in Spots \ {<<"list", c>>, <<"local", c>>} : Held'[x] = Held[x]
  PROVE  /\ PlacesInv'
         /\ Under(c)' = (Under(c) \ {h}) \cup R /\ Handled(c)' = Handled(c) \cup {h}
         /\ \A d \in Contexts \ {c} : Under(d)' = Under(d) /\ Handled(d)' = Handled(d)
<1> DEFINE list == <<"list", c>>
           local == <<"local", c>>
           e == TaskEntry(c, h)
           new == {TaskEntry(c, i) : i \in R}
<1>1. /\ list \in Spots /\ local \in Spots /\ list # local /\ list \in ToRun /\ local \in HaveRun
      /\ list \notin HaveRun /\ local \notin ToRun
  BY SpotsThere
<1>2. \A x \in Spots : Held[x] \in SUBSET TaskEntries
  BY HeldType DEF AsyncInv
<1>3. \A d, e2, i, j : TaskEntry(d, i) = TaskEntry(e2, j) => d = e2 /\ i = j
  BY DEF TaskEntry
<1>4. \A i : TaskEntry(c, i).ctx = c /\ TaskEntry(c, i).id = i
  BY DEF TaskEntry
<1>5. ASSUME NEW f \in new, NEW x \in Spots PROVE f \notin Held[x]
  <2>1. PICK i \in R : f = TaskEntry(c, i)
    BY <1>5
  <2>2. i \in TaskIDs /\ i \notin Under(c)
    BY <2>1
  <2> QED BY <2>1, <2>2 DEF Under
<1>6. \A x, y \in Spots : x # y => Held[x] \cap Held[y] = {}
  BY DEF AsyncInv, PlacesInv
<1>7. e \in Held[local]
  OBVIOUS
<1> HIDE DEF list, local, e, new
<1>8. /\ Held'[local] = Held[local] \ {e} /\ Held'[list] = Held[list] \cup new
      /\ \A x \in Spots : x # list /\ x # local => Held'[x] = Held[x]
  BY DEF list, local, e, new
<1>9. \A x \in Spots : Held'[x] \subseteq Held[x] \cup new
  BY <1>8
<1>10. \A x \in Spots : x # list => Held'[x] \subseteq Held[x]
  BY <1>8
<1>11. \A x, y \in Spots : x # y => Held'[x] \cap Held'[y] = {}
  BY <1>5, <1>6, <1>9, <1>10
<1>12. ASSUME NEW x \in ToRun, NEW f \in Held'[x] PROVE f.id \notin completed'[f.ctx]
  <2>1. x \in Spots
    BY SpotsThere
  <2>2. CASE f \in Held[x]
    BY <2>2 DEF AsyncInv, PlacesInv
  <2>3. CASE f \in new
    BY <1>4, <2>3 DEF new
  <2> QED BY <1>9, <1>12, <2>1, <2>2, <2>3
<1>13. ASSUME NEW x \in HaveRun, NEW f \in Held'[x] PROVE f.id \in completed'[f.ctx]
  <2>1. x \in Spots /\ x # list
    BY <1>1, SpotsThere
  <2>2. f \in Held[x]
    BY <1>10, <1>13, <2>1
  <2> QED BY <2>2 DEF AsyncInv, PlacesInv
<1>14. PlacesInv'
  BY <1>11, <1>12, <1>13 DEF PlacesInv
<1>15. ASSUME NEW f PROVE (\E x \in Spots : f \in Held'[x]) <=> ((\E x \in Spots : f \in Held[x]) /\ f # e) \/ f \in new
  <2>1. e \notin new
    BY <1>1, <1>5, <1>7
  <2>2. ASSUME NEW x \in Spots, f \in Held'[x] PROVE (f \in Held[x] /\ f # e) \/ f \in new
    BY <1>1, <1>6, <1>7, <1>8, <2>2
  <2>3. ASSUME NEW x \in Spots, f \in Held[x], f # e PROVE f \in Held'[x]
    BY <1>8, <2>3
  <2>4. f \in new => f \in Held'[list]
    BY <1>8
  <2> QED BY <1>1, <2>2, <2>3, <2>4
<1>16. ASSUME NEW i PROVE i \in Under(c)' <=> (i \in Under(c) /\ i # h) \/ i \in R
  <2>1. TaskEntry(c, i) = e <=> i = h
    BY <1>3 DEF e
  <2>2. TaskEntry(c, i) \in new <=> i \in R
    BY <1>3 DEF new
  <2>3. (\E x \in Spots : TaskEntry(c, i) \in Held'[x])
          <=> ((\E x \in Spots : TaskEntry(c, i) \in Held[x]) /\ i # h) \/ i \in R
    BY <1>15, <2>1, <2>2
  <2> QED BY <2>3 DEF Under
<1>17. Under(c)' = (Under(c) \ {h}) \cup R
  BY <1>16
<1>18. Handled(c)' = Handled(c) \cup {h}
  BY <1>17 DEF Handled
<1>19. ASSUME NEW d \in Contexts \ {c} PROVE Under(d)' = Under(d) /\ Handled(d)' = Handled(d)
  <2>1. \A i : TaskEntry(d, i) # e /\ TaskEntry(d, i) \notin new
    BY <1>3 DEF e, new
  <2>2. \A i : (\E x \in Spots : TaskEntry(d, i) \in Held'[x]) <=> (\E x \in Spots : TaskEntry(d, i) \in Held[x])
    BY <1>15, <2>1
  <2>3. Under(d)' = Under(d)
    BY <2>2 DEF Under
  <2> QED BY <2>3 DEF Handled
<1> QED BY <1>14, <1>17, <1>18, <1>19

\* What the counts of a context become: a released task for one handled.
LEMMA CountsAfter ==
  ASSUME AsyncInv, NEW c \in Contexts, NEW h \in TaskIDs, NEW R \in SUBSET TaskIDs,
         h \in completed[c], h \in Under(c), R \cap (Under(c) \cup completed[c]) = {}
  PROVE  /\ Cardinality(Handled(c) \cup {h}) = Cardinality(Handled(c)) + 1
         /\ Cardinality((Under(c) \ {h}) \cup R) = Cardinality(Under(c)) - 1 + Cardinality(R)
<1>1. /\ Under(c) \in SUBSET TaskIDs /\ Handled(c) \in SUBSET TaskIDs
      /\ Under(c) \ {h} \in SUBSET TaskIDs
  BY DEF AsyncInv, AsyncTypes, Under, Handled
<1>2. /\ IsFiniteSet(Under(c)) /\ Cardinality(Under(c)) \in Nat
      /\ IsFiniteSet(Handled(c)) /\ Cardinality(Handled(c)) \in Nat
      /\ IsFiniteSet(R) /\ Cardinality(R) \in Nat
      /\ IsFiniteSet(Under(c) \ {h}) /\ Cardinality(Under(c) \ {h}) \in Nat
  BY <1>1, TasksFinite
<1>3. Cardinality(Under(c) \ {h}) = Cardinality(Under(c)) - 1
  BY <1>2, FS_RemoveElement
<1>4. Cardinality(Handled(c) \cup {h}) = Cardinality(Handled(c)) + 1
  <2>1. h \notin Handled(c)
    BY DEF Handled
  <2> QED BY <1>2, <2>1, FS_AddElement
<1>5. Cardinality((Under(c) \ {h}) \cup R) = Cardinality(Under(c) \ {h}) + Cardinality(R)
  <2> DEFINE U == Under(c) \ {h}
  <2>1. U \cap R = {}
    OBVIOUS
  <2>2. Cardinality(U \cap R) = 0
    BY ONLY <2>1, FS_EmptySet
  <2>3. IsFiniteSet(U) /\ IsFiniteSet(R) /\ Cardinality(U) \in Nat /\ Cardinality(R) \in Nat
    BY <1>2
  <2> HIDE DEF U
  <2>4. Cardinality(U \cup R) = Cardinality(U) + Cardinality(R) - Cardinality(U \cap R)
    BY ONLY <2>3, FS_Union
  <2>5. Cardinality(U \cup R) = Cardinality(U) + Cardinality(R)
    BY ONLY <2>2, <2>3, <2>4
  <2> QED BY <2>5 DEF U
<1> QED BY <1>2, <1>3, <1>4, <1>5

\* A context handles the first of its completions.
LEMMA HandleCompletionKeeps ==
  ASSUME AsyncInv, NEW c \in Contexts, HandleCompletion(c)
  PROVE  AsyncInv'
<1> DEFINE h == Head(localCompletions[c])
           dep == dependentTasks[c][h]
           R == Released(c, dep)
           rest == Tail(localCompletions[c])
           list == taskList[c] \o InOrder(R)
           pending == pendingTasks[c] + Len(list)
           last == Len(localCompletions[c]) = 1
           counts == [j \in TaskIDs |-> IF j \in dep THEN dependencyCount[c][j] - 1
                                        ELSE dependencyCount[c][j]]
           X == {<<"list", c>>, <<"local", c>>}
<1>1. /\ pcCtx[c] = "handle"
      /\ localCompletions' = [localCompletions EXCEPT ![c] = rest]
      /\ completedTasks' = [completedTasks EXCEPT ![c] = @ + 1]
      /\ executingTasks' = [executingTasks EXCEPT ![c] = @ - 1 + Cardinality(R)]
      /\ dependencyCount' = [dependencyCount EXCEPT ![c] = counts]
      /\ taskList' = [taskList EXCEPT ![c] = list]
      /\ \/ /\ last
            /\ pendingTasks' = [pendingTasks EXCEPT ![c] = pending]
            /\ pcCtx' = [pcCtx EXCEPT ![c] = IF pending = 0 THEN "returned" ELSE "post"]
         \/ ~last /\ UNCHANGED <<pendingTasks, pcCtx>>
      /\ UNCHANGED <<numTasks, vFrom, vTo, dependentTasks, completionQueue, completed>>
      /\ UNCHANGED <<pcThread, localTodo, unfinished, numToProcess, messagesDone, todoList,
                     taskLoad, continued>>
  BY DEF HandleCompletion, builderVars, threadVars, postVars
<1>2. /\ localCompletions \in [Contexts -> Seq(TaskIDs)] /\ taskList \in [Contexts -> Seq(TaskIDs)]
      /\ completedTasks \in [Contexts -> Int] /\ executingTasks \in [Contexts -> Int]
      /\ pendingTasks \in [Contexts -> Int]
      /\ pcCtx \in [Contexts -> {"new", "post", "handle", "returned"}]
      /\ dependencyCount \in [Contexts -> [TaskIDs -> Int]]
  BY DEF AsyncInv, AsyncTypes
<1>3. /\ localCompletions[c] \in Seq(TaskIDs) /\ localCompletions[c] # <<>>
      /\ Unique(localCompletions[c]) /\ taskList[c] \in Seq(TaskIDs) /\ Unique(taskList[c])
  BY <1>1, <1>2 DEF AsyncInv, QueuesOf
<1>4. /\ h \in TaskIDs /\ h \in Under(c) /\ h \in completed[c]
      /\ TaskEntry(c, h) \in Held[<<"local", c>>]
      /\ R \in SUBSET (0 .. numTasks - 1) /\ R \in SUBSET TaskIDs
      /\ R \cap (Under(c) \cup completed[c]) = {}
      /\ {i \in 0 .. numTasks - 1 : vFrom[i] \subseteq Handled(c) \cup {h}}
           = Under(c) \cup completed[c] \cup R
      /\ \A j \in TaskIDs :
           (IF j \in dep THEN dependencyCount[c][j] - 1 ELSE dependencyCount[c][j])
             = Cardinality(vFrom[j] \ (Handled(c) \cup {h}))
  BY <1>1, ReleasedTasks
<1>5. counts \in [TaskIDs -> Int] /\ \A j \in TaskIDs : counts[j] = Cardinality(vFrom[j] \ (Handled(c) \cup {h}))
  <2>1. dependencyCount[c] \in [TaskIDs -> Int]
    BY <1>2
  <2> QED BY <1>4, <2>1
<1>6. /\ rest \in Seq(TaskIDs) /\ Len(rest) = Len(localCompletions[c]) - 1 /\ Unique(rest)
      /\ Items(rest) = Items(localCompletions[c]) \ {h}
  BY <1>3, OfTail
<1>7. /\ InOrder(R) \in Seq(TaskIDs) /\ Len(InOrder(R)) = Cardinality(R)
      /\ Unique(InOrder(R)) /\ Items(InOrder(R)) = R
  <2>1. /\ InOrder(R) \in Seq(R) /\ Len(InOrder(R)) = Cardinality(R)
        /\ Unique(InOrder(R)) /\ Items(InOrder(R)) = R
    BY <1>4, InOrderLists
  <2>2. Seq(R) \subseteq Seq(TaskIDs)
    BY <1>4
  <2> QED BY <2>1, <2>2
<1> HIDE DEF R, h, dep, counts, rest, pending
<1>8. /\ list \in Seq(TaskIDs) /\ Len(list) = Len(taskList[c]) + Cardinality(R)
      /\ Items(list) = Items(taskList[c]) \cup R /\ Unique(list)
  <2>1. Items(taskList[c]) \subseteq Under(c)
    <3>1. \A i \in Items(taskList[c]) : TaskEntry(c, i) \in Held[<<"list", c>>] /\ i \in TaskIDs
      <4>1. Items(taskList[c]) \subseteq TaskIDs
        BY <1>3, LenProperties DEF Items
      <4> QED BY <4>1, HeldAt DEF Tagged
    <3>2. <<"list", c>> \in Spots
      BY SpotsThere
    <3> QED BY <3>1, <3>2 DEF Under
  <2>2. Items(taskList[c]) \cap Items(InOrder(R)) = {}
    BY <1>4, <1>7, <2>1
  <2>3. /\ list \in Seq(TaskIDs) /\ Len(list) = Len(taskList[c]) + Len(InOrder(R))
        /\ Items(list) = Items(taskList[c]) \cup Items(InOrder(R)) /\ Unique(list)
    BY <1>3, <1>7, <2>2, OfConcat, SMTT(30)
  <2> QED BY <1>7, <2>3
<1> HIDE DEF list
<1>9. /\ localCompletions'[c] = rest /\ taskList'[c] = list
      /\ completedTasks'[c] = completedTasks[c] + 1
      /\ executingTasks'[c] = executingTasks[c] - 1 + Cardinality(R)
      /\ dependencyCount'[c] = counts
      /\ last => pendingTasks'[c] = pending /\ pcCtx'[c] = IF pending = 0 THEN "returned" ELSE "post"
      /\ ~last => pendingTasks'[c] = pendingTasks[c] /\ pcCtx'[c] = "handle"
  BY <1>1, <1>2
<1>10. ASSUME NEW d \in Contexts, d # c
       PROVE  /\ localCompletions'[d] = localCompletions[d] /\ taskList'[d] = taskList[d]
              /\ completedTasks'[d] = completedTasks[d] /\ executingTasks'[d] = executingTasks[d]
              /\ dependencyCount'[d] = dependencyCount[d] /\ pendingTasks'[d] = pendingTasks[d]
              /\ pcCtx'[d] = pcCtx[d]
  BY <1>1, <1>2, <1>10
<1> HIDE DEF last
<1>11. /\ PlacesInv'
       /\ Under(c)' = (Under(c) \ {h}) \cup R /\ Handled(c)' = Handled(c) \cup {h}
       /\ \A d \in Contexts \ {c} : Under(d)' = Under(d) /\ Handled(d)' = Handled(d)
  <2>1. /\ Held[<<"local", c>>] = Tagged(c, localCompletions[c]) /\ Held'[<<"local", c>>] = Tagged(c, rest)
        /\ Held[<<"list", c>>] = Tagged(c, taskList[c]) /\ Held'[<<"list", c>>] = Tagged(c, list)
    BY <1>9, HeldAt, HeldAtNext
  <2>2. \A i, j : TaskEntry(c, i) = TaskEntry(c, j) => i = j
    BY DEF TaskEntry
  <2>3. Tagged(c, rest) = Tagged(c, localCompletions[c]) \ {TaskEntry(c, h)}
    <3>1. ASSUME NEW x PROVE x \in Tagged(c, rest) <=> x \in Tagged(c, localCompletions[c]) /\ x # TaskEntry(c, h)
      BY <1>6, <2>2 DEF Tagged
    <3> QED BY <3>1
  <2>4. Tagged(c, list) = Tagged(c, taskList[c]) \cup {TaskEntry(c, i) : i \in R}
    BY <1>8 DEF Tagged
  <2>5. \A x \in Spots \ X : Held'[x] = Held[x]
    <3>1. /\ \A d \in Contexts : <<"list", d>> \notin X \/ <<"local", d>> \notin X => d # c
      OBVIOUS
    <3> HIDE DEF X
    <3> QED BY <1>1, <1>10, <3>1, SpotsKept
  <2> QED BY <1>1, <1>4, <2>1, <2>3, <2>4, <2>5, AfterHandling
<1>12. /\ Cardinality(Handled(c)') = Cardinality(Handled(c)) + 1
       /\ Cardinality(Under(c)') = Cardinality(Under(c)) - 1 + Cardinality(R)
  <2>1. /\ Cardinality(Handled(c) \cup {h}) = Cardinality(Handled(c)) + 1
        /\ Cardinality((Under(c) \ {h}) \cup R) = Cardinality(Under(c)) - 1 + Cardinality(R)
    BY <1>4, CountsAfter
  <2> QED BY <1>11, <2>1
<1>13. AsyncTypes' /\ ThreadTypes'
  <2>1. Cardinality(R) \in Nat /\ Len(list) \in Nat
    BY <1>4, <1>8, TasksFinite, LenProperties
  <2>2. /\ localCompletions' \in [Contexts -> Seq(TaskIDs)] /\ taskList' \in [Contexts -> Seq(TaskIDs)]
        /\ completedTasks' \in [Contexts -> Int] /\ executingTasks' \in [Contexts -> Int]
        /\ dependencyCount' \in [Contexts -> [TaskIDs -> Int]]
    <3>1. /\ rest \in Seq(TaskIDs) /\ list \in Seq(TaskIDs) /\ counts \in [TaskIDs -> Int]
          /\ completedTasks[c] + 1 \in Int /\ executingTasks[c] - 1 + Cardinality(R) \in Int
      BY <1>2, <1>5, <1>6, <1>8, <2>1
    <3> QED BY <1>1, <1>2, <3>1
  <2>3. pending \in Int
    BY <1>2, <2>1 DEF pending
  <2>4. /\ pendingTasks' \in [Contexts -> Int]
        /\ pcCtx' \in [Contexts -> {"new", "post", "handle", "returned"}]
    BY <1>1, <1>2, <2>3
  <2>5. AsyncTypes'
    BY <1>1, <2>2, <2>4 DEF AsyncInv, AsyncTypes
  <2>6. ThreadTypes'
    BY <1>1 DEF AsyncInv, ThreadTypes
  <2> QED BY <2>5, <2>6
<1>14. \A u \in Threads : ThreadOf(u)'
  BY <1>1 DEF AsyncInv, ThreadOf
<1>15. BuilderSymmetric'
  BY <1>1 DEF AsyncInv, BuilderSymmetric
<1>16. \A d \in Contexts : CyclesOf(d)'
  BY <1>1 DEF AsyncInv, CyclesOf, Stuck
<1>17. CountsOf(c)'
  <2>1. /\ dependentTasks[c] = vTo /\ completedTasks[c] = Cardinality(Handled(c))
        /\ executingTasks[c] = Cardinality(Under(c))
    BY <1>1 DEF AsyncInv, CountsOf
  <2>2. completedTasks'[c] = Cardinality(Handled(c)') /\ executingTasks'[c] = Cardinality(Under(c)')
    BY <1>9, <1>12, <2>1
  <2>3. \A i \in TaskIDs : dependencyCount'[c][i] = Cardinality(vFrom[i] \ Handled(c)')
    BY <1>5, <1>9, <1>11
  <2>4. Under(c)' \cup completed[c] = {i \in 0 .. numTasks - 1 : vFrom[i] \subseteq Handled(c)'}
    <3>1. Under(c)' \cup completed[c] = Under(c) \cup completed[c] \cup R
      BY <1>4, <1>11
    <3> QED BY <1>4, <1>11, <3>1
  <2>5. pcCtx'[c] # "new"
    BY <1>9
  <2> QED BY <1>1, <2>1, <2>2, <2>3, <2>4, <2>5 DEF CountsOf
<1>18. ASSUME NEW d \in Contexts, d # c PROVE CountsOf(d)' /\ QueuesOf(d)' /\ PendingOf(d)'
  <2>1. CountsOf(d) /\ QueuesOf(d) /\ PendingOf(d) /\ Under(d)' = Under(d) /\ Handled(d)' = Handled(d)
    BY <1>11, <1>18 DEF AsyncInv
  <2>2. CountsOf(d)'
    BY <1>1, <1>10, <1>18, <2>1 DEF CountsOf
  <2>3. QueuesOf(d)' /\ PendingOf(d)'
    BY <1>1, <1>10, <1>18, <2>1 DEF QueuesOf, PendingOf
  <2> QED BY <2>2, <2>3
<1>19. QueuesOf(c)' /\ PendingOf(c)'
  <2> DEFINE a == Len(taskList[c])
             b == Len(localCompletions[c])
             n == Cardinality(R)
             x == Len(list)
             y == Len(rest)
  <2>1. /\ a \in Nat /\ b \in Nat \ {0} /\ n \in Nat /\ x = a + n /\ y = b - 1
        /\ pending = pendingTasks[c] + x
        /\ executingTasks[c] \in Int /\ pendingTasks[c] = executingTasks[c] - a - b
        /\ executingTasks'[c] = executingTasks[c] - 1 + n
        /\ last <=> b = 1
    <3>1. a \in Nat /\ b \in Nat /\ n \in Nat
      BY <1>3, <1>4, TasksFinite, LenProperties
    <3>2. b # 0
      BY <1>3, EmptySeq
    <3>3. pendingTasks[c] = executingTasks[c] - a - b /\ executingTasks[c] \in Int
      BY <1>1, <1>2 DEF AsyncInv, PendingOf
    <3> QED BY <1>6, <1>8, <1>9, <3>1, <3>2, <3>3 DEF pending, last
  <2>2. /\ Unique(taskList'[c]) /\ Unique(localCompletions'[c])
        /\ completionQueue'[c] = completionQueue[c] /\ Unique(completionQueue[c])
    BY <1>1, <1>6, <1>8, <1>9 DEF AsyncInv, QueuesOf
  <2>3. taskList'[c] = list /\ localCompletions'[c] = rest
    BY <1>9
  <2>4. rest = <<>> <=> y = 0
    BY <1>6, EmptySeq
  <2>5. executingTasks'[c] = Cardinality(Under(c)') /\ IsFiniteSet(Under(c)')
    <3>1. Under(c)' \in SUBSET TaskIDs
      BY <1>4, <1>11 DEF Under
    <3>2. pcCtx'[c] # "new"
      BY <1>9
    <3> QED BY <1>17, <3>1, <3>2, TasksFinite DEF CountsOf
  <2> HIDE DEF a, b, n, x, y
  <2>6. CASE last
    <3>1. y = 0 /\ pending = executingTasks'[c]
      BY <2>1, <2>6
    <3>2. pendingTasks'[c] = pending /\ pcCtx'[c] = IF pending = 0 THEN "returned" ELSE "post"
      BY <1>9, <2>6
    <3>3. localCompletions'[c] = <<>>
      BY <2>3, <2>4, <3>1
    <3>4. pending = 0 => Under(c)' = {}
      BY <2>5, <3>1, FS_EmptySet
    <3>5. QueuesOf(c)'
      BY <2>2, <3>2, <3>3 DEF QueuesOf
    <3> QED BY <3>1, <3>2, <3>4, <3>5 DEF PendingOf
  <2>7. CASE ~last
    <3>1. y # 0 /\ pendingTasks[c] = executingTasks'[c] - x - y
      BY <2>1, <2>7
    <3>2. pendingTasks'[c] = pendingTasks[c] /\ pcCtx'[c] = "handle"
      BY <1>9, <2>7
    <3>3. localCompletions'[c] # <<>>
      BY <2>3, <2>4, <3>1
    <3>4. QueuesOf(c)'
      BY <2>2, <3>2, <3>3 DEF QueuesOf
    <3>5. pendingTasks'[c] = executingTasks'[c] - Len(taskList'[c]) - Len(localCompletions'[c])
      BY <2>3, <3>1, <3>2 DEF x, y
    <3> QED BY <3>2, <3>4, <3>5 DEF PendingOf
  <2> QED BY <2>6, <2>7
<1> QED BY <1>11, <1>13, <1>14, <1>15, <1>16, <1>17, <1>18, <1>19 DEF AsyncInv

\* Nothing of a new context is anywhere.
LEMMA NewContext ==
  ASSUME AsyncInv, NEW c \in Contexts, pcCtx[c] = "new"
  PROVE  /\ \A s \in Spots : \A e \in Held[s] : e.ctx # c
         /\ Under(c) = {} /\ completed[c] = {} /\ completedTasks[c] = 0
         /\ localCompletions[c] = <<>> /\ Items(taskList[c]) = {}
<1>1. /\ Under(c) = {} /\ completed[c] = {} /\ completedTasks[c] = 0
      /\ localCompletions[c] = <<>>
  BY DEF AsyncInv, CountsOf, QueuesOf
<1>2. ASSUME NEW s \in Spots, NEW e \in Held[s], e.ctx = c PROVE FALSE
  <2>1. e \in TaskEntries
    BY <1>2, HeldType DEF AsyncInv
  <2>2. e.id \in TaskIDs /\ e = TaskEntry(c, e.id)
    BY <1>2, <2>1 DEF TaskEntries, TaskEntry
  <2>3. e.id \in Under(c)
    BY <1>2, <2>2 DEF Under
  <2> QED BY <1>1, <2>3
<1>3. Items(taskList[c]) = {}
  <2>1. <<"list", c>> \in Spots /\ Held[<<"list", c>>] = Tagged(c, taskList[c])
    BY SpotsThere, HeldAt
  <2>2. ASSUME NEW i \in Items(taskList[c]) PROVE FALSE
    <3>1. TaskEntry(c, i) \in Held[<<"list", c>>] /\ TaskEntry(c, i).ctx = c
      BY <2>1 DEF Tagged, TaskEntry
    <3> QED BY <1>2, <2>1, <3>1
  <2> QED BY <2>2
<1> QED BY <1>1, <1>2, <1>3

\* A context starts with the tasks that depend on nothing.
LEMMA StartContextKeeps ==
  ASSUME AsyncInv, NEW c \in Contexts, StartContext(c)
  PROVE  AsyncInv'
<1> DEFINE initial == {i \in 0 .. numTasks - 1 : vFrom[i] = {}}
           list == InOrder(initial)
           n == Cardinality(initial)
           counts == [i \in TaskIDs |-> Cardinality(vFrom[i])]
           new == {TaskEntry(c, i) : i \in initial}
           X == {<<"list", c>>}
<1>1. /\ pcCtx[c] = "new"
      /\ dependentTasks' = [dependentTasks EXCEPT ![c] = vTo]
      /\ dependencyCount' = [dependencyCount EXCEPT ![c] = counts]
      /\ taskList' = [taskList EXCEPT ![c] = list]
      /\ executingTasks' = [executingTasks EXCEPT ![c] = n]
      /\ pendingTasks' = [pendingTasks EXCEPT ![c] = n]
      /\ pcCtx' = [pcCtx EXCEPT ![c] = IF initial = {} THEN "returned" ELSE "post"]
      /\ UNCHANGED <<numTasks, vFrom, vTo, completedTasks, localCompletions, completionQueue,
                     pcThread, localTodo, unfinished, numToProcess, messagesDone, todoList,
                     taskLoad, continued, completed>>
  BY DEF StartContext, threadVars, postVars
<1>2. /\ taskList \in [Contexts -> Seq(TaskIDs)] /\ executingTasks \in [Contexts -> Int]
      /\ pendingTasks \in [Contexts -> Int]
      /\ pcCtx \in [Contexts -> {"new", "post", "handle", "returned"}]
      /\ dependencyCount \in [Contexts -> [TaskIDs -> Int]]
      /\ dependentTasks \in [Contexts -> [TaskIDs -> SUBSET TaskIDs]]
      /\ vFrom \in [TaskIDs -> SUBSET (0 .. numTasks - 1)]
      /\ vTo \in [TaskIDs -> SUBSET (0 .. numTasks - 1)]
      /\ numTasks \in 0 .. MaxTasks /\ MaxTasks \in Nat
  BY AsyncAssumption DEF AsyncInv, AsyncTypes
<1>3. /\ 0 .. numTasks - 1 \in SUBSET TaskIDs /\ initial \in SUBSET TaskIDs
  BY <1>2 DEF TaskIDs
<1>4. IsFiniteSet(initial) /\ n \in Nat
  BY <1>3, TasksFinite
<1>5. \A i \in TaskIDs : Cardinality(vFrom[i]) \in Nat
  <2>1. \A i \in TaskIDs : vFrom[i] \in SUBSET TaskIDs
    BY <1>2, <1>3
  <2> QED BY <2>1, TasksFinite
<1>6. /\ list \in Seq(TaskIDs) /\ Unique(list) /\ Items(list) = initial
  <2>1. list \in Seq(initial) /\ Unique(list) /\ Items(list) = initial
    BY <1>3, InOrderLists
  <2>2. Seq(initial) \subseteq Seq(TaskIDs)
    BY <1>3
  <2> QED BY <2>1, <2>2
<1>7. counts \in [TaskIDs -> Int] /\ vTo \in [TaskIDs -> SUBSET TaskIDs]
  BY <1>2, <1>3, <1>5
<1>8. /\ \A s \in Spots : \A e \in Held[s] : e.ctx # c
      /\ Under(c) = {} /\ completed[c] = {} /\ completedTasks[c] = 0
      /\ localCompletions[c] = <<>> /\ Items(taskList[c]) = {}
  BY <1>1, NewContext
<1>9. initial = {} <=> n = 0
  BY <1>4, FS_EmptySet
<1>10. \A i \in 0 .. numTasks - 1 : i \in initial <=> vFrom[i] = {}
  OBVIOUS
<1>11. counts = [i \in TaskIDs |-> Cardinality(vFrom[i])]
  OBVIOUS
<1> HIDE DEF initial, list, n, counts
<1>12. /\ dependentTasks'[c] = vTo /\ dependencyCount'[c] = counts /\ taskList'[c] = list
       /\ executingTasks'[c] = n /\ pendingTasks'[c] = n
       /\ pcCtx'[c] = IF initial = {} THEN "returned" ELSE "post"
  BY <1>1, <1>2
<1>13. ASSUME NEW d \in Contexts, d # c
       PROVE  /\ dependentTasks'[d] = dependentTasks[d] /\ dependencyCount'[d] = dependencyCount[d]
              /\ taskList'[d] = taskList[d] /\ executingTasks'[d] = executingTasks[d]
              /\ pendingTasks'[d] = pendingTasks[d] /\ pcCtx'[d] = pcCtx[d]
  BY <1>1, <1>2, <1>13
<1>14. /\ Held'[<<"list", c>>] = new /\ Held[<<"list", c>>] = {}
       /\ <<"list", c>> \in Spots /\ <<"list", c>> \in ToRun /\ <<"list", c>> \notin HaveRun
       /\ \A x \in Spots \ X : Held'[x] = Held[x]
  <2>1. Held'[<<"list", c>>] = Tagged(c, list) /\ Held[<<"list", c>>] = Tagged(c, taskList[c])
    BY <1>12, HeldAt, HeldAtNext
  <2>2. Tagged(c, list) = new /\ Tagged(c, taskList[c]) = {}
    BY <1>6, <1>8 DEF Tagged
  <2>3. \A x \in Spots \ X : Held'[x] = Held[x]
    <3>1. \A d \in Contexts : <<"list", d>> \notin X => d # c
      OBVIOUS
    <3> HIDE DEF X
    <3> QED BY <1>1, <1>13, <3>1, SpotsKept
  <2> QED BY <2>1, <2>2, <2>3, SpotsThere
<1>15. \A e \in new : e.ctx = c
  BY DEF TaskEntry
<1>16. \A d, i : TaskEntry(d, i) \in new <=> d = c /\ i \in initial
  BY DEF TaskEntry
<1>17. \A x \in Spots : x # <<"list", c>> => Held'[x] = Held[x]
  BY <1>14
<1> HIDE DEF new, X
<1>18. PlacesInv'
  <2>1. ASSUME NEW x \in Spots, NEW y \in Spots, x # y PROVE Held'[x] \cap Held'[y] = {}
    <3>1. Held[x] \cap Held[y] = {}
      BY <2>1 DEF AsyncInv, PlacesInv
    <3>2. CASE x = <<"list", c>>
      BY <1>8, <1>14, <1>15, <1>17, <2>1, <3>2
    <3>3. CASE y = <<"list", c>>
      BY <1>8, <1>14, <1>15, <1>17, <2>1, <3>3
    <3> QED BY <1>17, <3>1, <3>2, <3>3
  <2>2. ASSUME NEW x \in ToRun, NEW e \in Held'[x] PROVE e.id \notin completed'[e.ctx]
    <3>1. CASE x = <<"list", c>>
      BY <1>1, <1>8, <1>14, <1>15, <2>2, <3>1
    <3>2. CASE x # <<"list", c>>
      BY <1>1, <1>17, <2>2, <3>2, SpotsThere DEF AsyncInv, PlacesInv
    <3> QED BY <3>1, <3>2
  <2>3. ASSUME NEW x \in HaveRun, NEW e \in Held'[x] PROVE e.id \in completed'[e.ctx]
    BY <1>1, <1>14, <1>17, <2>3, SpotsThere DEF AsyncInv, PlacesInv
  <2> QED BY <2>1, <2>2, <2>3 DEF PlacesInv
<1>19. Under(c)' = initial /\ Handled(c)' = {}
  <2>1. \A i : (\E x \in Spots : TaskEntry(c, i) \in Held'[x]) <=> i \in initial
    <3>1. \A i : \A x \in Spots : TaskEntry(c, i) \notin Held[x]
      BY <1>8 DEF TaskEntry
    <3> QED BY <1>14, <1>17, <1>16, <3>1
  <2>2. Under(c)' = initial
    BY <1>3, <2>1 DEF Under
  <2> QED BY <1>1, <1>8, <2>2 DEF Handled
<1>20. ASSUME NEW d \in Contexts, d # c PROVE Under(d)' = Under(d) /\ Handled(d)' = Handled(d)
  <2>1. \A i : (\E x \in Spots : TaskEntry(d, i) \in Held'[x]) <=> (\E x \in Spots : TaskEntry(d, i) \in Held[x])
    BY <1>14, <1>17, <1>16, <1>20
  <2>2. Under(d)' = Under(d)
    BY <2>1 DEF Under
  <2> QED BY <1>1, <2>2 DEF Handled
<1>21. AsyncTypes' /\ ThreadTypes'
  <2>1. /\ taskList' \in [Contexts -> Seq(TaskIDs)] /\ executingTasks' \in [Contexts -> Int]
        /\ pendingTasks' \in [Contexts -> Int]
        /\ pcCtx' \in [Contexts -> {"new", "post", "handle", "returned"}]
        /\ dependencyCount' \in [Contexts -> [TaskIDs -> Int]]
        /\ dependentTasks' \in [Contexts -> [TaskIDs -> SUBSET TaskIDs]]
    BY <1>1, <1>2, <1>4, <1>6, <1>7
  <2>2. AsyncTypes'
    BY <1>1, <2>1 DEF AsyncInv, AsyncTypes
  <2>3. ThreadTypes'
    BY <1>1 DEF AsyncInv, ThreadTypes
  <2> QED BY <2>2, <2>3
<1>22. \A u \in Threads : ThreadOf(u)'
  BY <1>1 DEF AsyncInv, ThreadOf
<1>23. BuilderSymmetric' /\ \A d \in Contexts : CyclesOf(d)'
  BY <1>1 DEF AsyncInv, BuilderSymmetric, CyclesOf, Stuck
<1>24. ASSUME NEW d \in Contexts, d # c PROVE CountsOf(d)' /\ QueuesOf(d)' /\ PendingOf(d)'
  <2>1. CountsOf(d) /\ QueuesOf(d) /\ PendingOf(d) /\ Under(d)' = Under(d) /\ Handled(d)' = Handled(d)
    BY <1>20, <1>24 DEF AsyncInv
  <2>2. CountsOf(d)'
    BY <1>1, <1>13, <1>24, <2>1 DEF CountsOf
  <2>3. QueuesOf(d)' /\ PendingOf(d)'
    BY <1>1, <1>13, <1>24, <2>1 DEF QueuesOf, PendingOf
  <2> QED BY <2>2, <2>3
<1>25. CountsOf(c)'
  <2>1. pcCtx'[c] # "new"
    BY <1>12
  <2>2. completedTasks'[c] = Cardinality(Handled(c)')
    <3>1. Cardinality({}) = 0
      BY FS_EmptySet
    <3> QED BY <1>1, <1>8, <1>19, <3>1
  <2>3. \A i \in TaskIDs : dependencyCount'[c][i] = Cardinality(vFrom[i] \ Handled(c)')
    BY <1>12, <1>19, <1>11
  <2>4. Under(c)' \cup completed[c] = {i \in 0 .. numTasks - 1 : vFrom[i] \subseteq Handled(c)'}
    <3>1. \A i \in 0 .. numTasks - 1 : vFrom[i] \subseteq {} <=> i \in initial
      BY <1>10
    <3>2. initial \in SUBSET (0 .. numTasks - 1)
      BY DEF initial
    <3> QED BY <1>8, <1>19, <3>1, <3>2
  <2>5. executingTasks'[c] = Cardinality(Under(c)')
    BY <1>12, <1>19 DEF n
  <2> QED BY <1>1, <1>12, <2>1, <2>2, <2>3, <2>4, <2>5 DEF CountsOf
<1>26. QueuesOf(c)' /\ PendingOf(c)'
  <2>1. Unique(completionQueue[c]) /\ Unique(localCompletions[c])
    BY DEF AsyncInv, QueuesOf
  <2>2. QueuesOf(c)'
    BY <1>1, <1>6, <1>8, <1>12, <2>1 DEF QueuesOf
  <2> QED BY <1>9, <1>12, <1>19, <2>2 DEF PendingOf
<1> QED BY <1>18, <1>21, <1>22, <1>23, <1>24, <1>25, <1>26 DEF AsyncInv

\* The builder changes the graph before any context has its copy.
LEMMA BuildingKeeps ==
  ASSUME AsyncInv, Building, NotBuilder,
         numTasks' \in 0 .. MaxTasks,
         vFrom' \in [TaskIDs -> SUBSET (0 .. numTasks' - 1)],
         vTo' \in [TaskIDs -> SUBSET (0 .. numTasks' - 1)],
         BuilderSymmetric'
  PROVE  AsyncInv'
<1>1. UNCHANGED <<dependentTasks, dependencyCount, completedTasks, executingTasks, pcCtx,
                  taskList, pendingTasks, localCompletions, completionQueue, pcThread, localTodo,
                  unfinished, numToProcess, messagesDone, todoList, taskLoad, continued,
                  completed>>
  BY DEF NotBuilder, orderVars, contextVars, threadVars, postVars
<1>2. PlacesInv' /\ \A c : Under(c)' = Under(c)
  <2>1. SameHeld
    BY <1>1, SameQueues
  <2> QED BY <1>1, <2>1, SameHeldKeeps DEF AsyncInv
<1>3. AsyncTypes' /\ ThreadTypes'
  <2>1. AsyncTypes'
    BY <1>1 DEF AsyncInv, AsyncTypes
  <2>2. ThreadTypes'
    BY <1>1 DEF AsyncInv, ThreadTypes
  <2> QED BY <2>1, <2>2
<1>4. \A t \in Threads : ThreadOf(t)'
  BY <1>1 DEF AsyncInv, ThreadOf
<1>5. ASSUME NEW c \in Contexts PROVE QueuesOf(c)' /\ CountsOf(c)' /\ PendingOf(c)' /\ CyclesOf(c)'
  <2>1. QueuesOf(c) /\ CountsOf(c) /\ pcCtx[c] = "new" /\ Under(c)' = Under(c)
    BY <1>2 DEF AsyncInv, Building
  <2>2. QueuesOf(c)' /\ PendingOf(c)'
    BY <1>1, <2>1 DEF QueuesOf, PendingOf
  <2>3. CountsOf(c)' /\ completed'[c] = {}
    BY <1>1, <2>1 DEF CountsOf
  <2>4. CyclesOf(c)'
    BY <2>3 DEF CyclesOf
  <2> QED BY <2>2, <2>3, <2>4
<1> QED BY <1>2, <1>3, <1>4, <1>5 DEF AsyncInv

\* The operations of the builder.
LEMMA BuilderKeeps ==
  ASSUME AsyncInv,
         \/ AddTask
         \/ \E i, j \in TaskIDs : AddDependency(i, j)
         \/ \E i \in TaskIDs : ClearDependencies(i)
  PROVE  AsyncInv'
<1>1. /\ numTasks \in 0 .. MaxTasks /\ MaxTasks \in Nat
      /\ vFrom \in [TaskIDs -> SUBSET (0 .. numTasks - 1)]
      /\ vTo \in [TaskIDs -> SUBSET (0 .. numTasks - 1)]
      /\ BuilderSymmetric
  BY AsyncAssumption DEF AsyncInv, AsyncTypes
<1>2. CASE AddTask
  <2>1. /\ Building /\ NotBuilder /\ numTasks < MaxTasks /\ numTasks' = numTasks + 1
        /\ UNCHANGED <<vFrom, vTo>>
    BY <1>2 DEF AddTask
  <2>2. numTasks' \in 0 .. MaxTasks /\ 0 .. numTasks - 1 \subseteq 0 .. numTasks' - 1
    BY <1>1, <2>1
  <2>3. /\ vFrom' \in [TaskIDs -> SUBSET (0 .. numTasks' - 1)]
        /\ vTo' \in [TaskIDs -> SUBSET (0 .. numTasks' - 1)]
    BY <1>1, <2>1, <2>2
  <2>4. BuilderSymmetric'
    BY <1>1, <2>1 DEF BuilderSymmetric
  <2> QED BY <2>1, <2>2, <2>3, <2>4, BuildingKeeps
<1>3. ASSUME NEW i \in TaskIDs, NEW j \in TaskIDs, AddDependency(i, j) PROVE AsyncInv'
  <2>1. /\ Building /\ NotBuilder /\ i < numTasks /\ j < numTasks
        /\ numTasks' = numTasks
        /\ vFrom' = [vFrom EXCEPT ![i] = @ \cup {j}]
        /\ vTo' = [vTo EXCEPT ![j] = @ \cup {i}]
    BY <1>3 DEF AddDependency, Edit
  <2>2. i \in 0 .. numTasks - 1 /\ j \in 0 .. numTasks - 1
    BY <1>1, <2>1 DEF TaskIDs
  <2>3. /\ vFrom' \in [TaskIDs -> SUBSET (0 .. numTasks' - 1)]
        /\ vTo' \in [TaskIDs -> SUBSET (0 .. numTasks' - 1)]
    BY <1>1, <2>1, <2>2
  <2>4. BuilderSymmetric'
    BY <1>1, <2>1 DEF BuilderSymmetric
  <2> QED BY <1>1, <2>1, <2>3, <2>4, BuildingKeeps
<1>4. ASSUME NEW i \in TaskIDs, ClearDependencies(i) PROVE AsyncInv'
  <2>1. /\ Building /\ NotBuilder
        /\ numTasks' = numTasks
        /\ vTo' = [j \in TaskIDs |-> IF j \in vFrom[i] THEN vTo[j] \ {i} ELSE vTo[j]]
        /\ vFrom' = [vFrom EXCEPT ![i] = {}]
    BY <1>4 DEF ClearDependencies, Edit, LeftDependents
  <2>2. /\ vFrom' \in [TaskIDs -> SUBSET (0 .. numTasks' - 1)]
        /\ vTo' \in [TaskIDs -> SUBSET (0 .. numTasks' - 1)]
    BY <1>1, <2>1
  <2>3. BuilderSymmetric'
    BY <1>1, <2>1 DEF BuilderSymmetric
  <2> QED BY <1>1, <2>1, <2>2, <2>3, BuildingKeeps
<1> QED BY <1>2, <1>3, <1>4

\* The invariant holds initially ...
LEMMA AsyncInvInit ==
  AsyncInit => AsyncInv
<1> SUFFICES ASSUME AsyncInit PROVE AsyncInv
  OBVIOUS
<1>1. MaxTasks \in Nat /\ MaxTasks # 0
  BY AsyncAssumption
<1>2. /\ vFrom = [i \in TaskIDs |-> {}] /\ vTo = [i \in TaskIDs |-> {}] /\ numTasks = 0
      /\ dependentTasks = [c \in Contexts |-> vTo]
      /\ \A c \in Contexts :
           /\ dependencyCount[c] = [i \in TaskIDs |-> 0]
           /\ completedTasks[c] = 0 /\ executingTasks[c] = 0
           /\ pcCtx[c] = "new" /\ taskList[c] = <<>> /\ pendingTasks[c] = 0
           /\ completionQueue[c] = <<>> /\ localCompletions[c] = <<>> /\ completed[c] = {}
      /\ \A t \in Threads :
           /\ pcThread[t] = "top" /\ todoList[t] = <<>> /\ localTodo[t] = <<>>
           /\ unfinished[t] = <<>> /\ numToProcess[t] = 0 /\ messagesDone[t] = <<>>
           /\ taskLoad[t] = 0
  BY DEF AsyncInit
<1>3. AsyncTypes
  <2>1. <<>> \in Seq(TaskIDs)
    BY EmptySeq
  <2> QED BY <1>1, <2>1 DEF AsyncInit, AsyncTypes
<1>4. ThreadTypes
  <2>1. <<>> \in Seq(TaskEntries)
    BY EmptySeq
  <2> QED BY <2>1 DEF AsyncInit, ThreadTypes
<1>5. BuilderSymmetric
  BY <1>2 DEF BuilderSymmetric
<1>6. Unique(<<>>) /\ Items(<<>>) = {} /\ \A c : Tagged(c, <<>>) = {}
  BY DEF Unique, Items, Tagged
<1>7. \A s \in Spots : Held[s] = {}
  <2>1. ASSUME NEW c \in Contexts
        PROVE  Held[<<"list", c>>] = {} /\ Held[<<"done", c>>] = {} /\ Held[<<"local", c>>] = {}
    <3>1. /\ Held[<<"list", c>>] = Tagged(c, taskList[c])
          /\ Held[<<"done", c>>] = Tagged(c, completionQueue[c])
          /\ Held[<<"local", c>>] = Tagged(c, localCompletions[c])
      BY HeldAt
    <3>2. taskList[c] = <<>> /\ completionQueue[c] = <<>> /\ localCompletions[c] = <<>>
      BY <1>2
    <3> QED BY <1>6, <3>1, <3>2
  <2>2. ASSUME NEW t \in Threads
        PROVE  /\ Held[<<"todo", t>>] = {} /\ Held[<<"localTodo", t>>] = {}
               /\ Held[<<"unfinished", t>>] = {} /\ Held[<<"messages", t>>] = {}
    <3>1. /\ Held[<<"todo", t>>] = Items(todoList[t])
          /\ Held[<<"localTodo", t>>] = Items(localTodo[t])
          /\ Held[<<"unfinished", t>>] = Items(unfinished[t])
          /\ Held[<<"messages", t>>] = Items(messagesDone[t])
      BY HeldAt
    <3>2. /\ todoList[t] = <<>> /\ localTodo[t] = <<>>
          /\ unfinished[t] = <<>> /\ messagesDone[t] = <<>>
      BY <1>2
    <3> QED BY <1>6, <3>1, <3>2
  <2> QED BY <2>1, <2>2, SpotKinds
<1>8. PlacesInv
  BY <1>7, SpotsThere DEF PlacesInv
<1>9. ASSUME NEW t \in Threads PROVE ThreadOf(t)
  <2>1. \A q \in Seq(TaskEntries) : q = <<>> => Len(q) = 0
    BY EmptySeq
  <2>2. todoList[t] \in Seq(TaskEntries) /\ localTodo[t] \in Seq(TaskEntries)
        /\ unfinished[t] \in Seq(TaskEntries)
    BY <1>4 DEF ThreadTypes
  <2>3. Len(todoList[t]) = 0 /\ Len(localTodo[t]) = 0 /\ Len(unfinished[t]) = 0
    BY <1>2, <2>1, <2>2
  <2> QED BY <1>2, <1>6, <2>3 DEF ThreadOf
<1>10. ASSUME NEW c \in Contexts PROVE QueuesOf(c) /\ CountsOf(c) /\ PendingOf(c) /\ CyclesOf(c)
  <2>1. Under(c) = {}
    BY <1>7 DEF Under
  <2>2. QueuesOf(c)
    BY <1>2, <1>6 DEF QueuesOf
  <2>3. CountsOf(c)
    BY <1>2, <2>1 DEF CountsOf
  <2>4. PendingOf(c) /\ CyclesOf(c)
    BY <1>2 DEF PendingOf, CyclesOf
  <2> QED BY <2>2, <2>3, <2>4
<1> QED BY <1>3, <1>4, <1>5, <1>8, <1>9, <1>10 DEF AsyncInv

\* ... and every step keeps it.
LEMMA AsyncInvStep ==
  AsyncInv /\ [AsyncNext]_asyncVars => AsyncInv'
<1> SUFFICES ASSUME AsyncInv, [AsyncNext]_asyncVars PROVE AsyncInv'
  OBVIOUS
<1>1. CASE UNCHANGED asyncVars
  <2>1. /\ UNCHANGED <<builderVars, orderVars, contextVars>>
        /\ UNCHANGED <<completionQueue, todoList, localTodo, unfinished, messagesDone,
                       completed, numToProcess, taskLoad, continued, pcThread>>
    BY <1>1 DEF asyncVars, threadVars, postVars
  <2>2. pcThread' \in [Threads -> {"top", "checked", "sleep", "awake", "run", "ended"}]
    BY <2>1 DEF AsyncInv, ThreadTypes
  <2>3. \A u \in Threads : pcThread'[u] = "run" \/ (localTodo[u] = <<>> /\ messagesDone[u] = <<>>)
    BY <2>1 DEF AsyncInv, ThreadOf
  <2> QED BY <2>1, <2>2, <2>3, GoingOnKeeps
<1>2. ASSUME NEW c \in Contexts, StartContext(c) \/ ContextStep(c) PROVE AsyncInv'
  BY <1>2, StartContextKeeps, PostTaskKeeps, TakeCompletionsKeeps, HandleCompletionKeeps
  DEF ContextStep
<1>3. ASSUME NEW t \in Threads, ThreadStep(t) \/ Join(t) PROVE AsyncInv'
  BY <1>3, CheckTodoKeeps, FallAsleepKeeps, RunTodoKeeps, RunUnfinishedKeeps,
     PostCompletionKeeps, JoinKeeps DEF ThreadStep
<1> QED BY <1>1, <1>2, <1>3, BuilderKeeps DEF AsyncNext

\* The invariant holds of every state, for any contexts, threads and tasks.
THEOREM AsyncInvariant ==
  AsyncSpec => []AsyncInv
BY AsyncInvInit, AsyncInvStep, PTL DEF AsyncSpec

-----------------------------------------------------------------------------
(* What follows                                                            *)

\* The counts are in range: what is posted and not taken, and what is taken
\* and not handled, was released.
LEMMA InvTypes == AsyncInv => AsyncTypeOK
<1> SUFFICES ASSUME AsyncInv PROVE AsyncTypeOK
  OBVIOUS
<1>1. AsyncTypes /\ ThreadTypes
  BY DEF AsyncInv
<1>2. MaxTasks \in Nat /\ numTasks \in 0 .. MaxTasks
  BY <1>1, AsyncAssumption DEF AsyncTypes
<1>3. ASSUME NEW S \in SUBSET TaskIDs PROVE Cardinality(S) \in 0 .. MaxTasks
  <2>1. IsFiniteSet(TaskIDs) /\ Cardinality(TaskIDs) = MaxTasks
    <3>1. 0 \in Int /\ MaxTasks - 1 \in Int
      BY <1>2
    <3>2. IsFiniteSet(0 .. MaxTasks - 1)
          /\ Cardinality(0 .. MaxTasks - 1) = IF 0 > MaxTasks - 1 THEN 0 ELSE MaxTasks - 1 - 0 + 1
      BY ONLY <3>1, FS_Interval
    <3> QED BY <1>2, <3>2 DEF TaskIDs
  <2>2. Cardinality(S) <= Cardinality(TaskIDs)
    BY ONLY <2>1, FS_Subset, S \in SUBSET TaskIDs
  <2>3. Cardinality(S) \in Nat
    BY TasksFinite
  <2> QED BY <1>2, <2>1, <2>2, <2>3
<1>4. 0 .. numTasks - 1 \in SUBSET TaskIDs
  BY <1>2 DEF TaskIDs
<1>5. vFrom \in [TaskIDs -> SUBSET TaskIDs] /\ vTo \in [TaskIDs -> SUBSET TaskIDs]
  BY <1>1, <1>4 DEF AsyncTypes
<1>6. ASSUME NEW c \in Contexts, NEW i \in TaskIDs PROVE dependencyCount[c][i] \in 0 .. MaxTasks
  <2>1. vFrom[i] \ Handled(c) \in SUBSET TaskIDs
    BY <1>5
  <2>2. dependencyCount[c][i] = 0 \/ dependencyCount[c][i] = Cardinality(vFrom[i] \ Handled(c))
    BY DEF AsyncInv, CountsOf
  <2>3. Cardinality(vFrom[i] \ Handled(c)) \in 0 .. MaxTasks
    BY <1>3, <2>1
  <2> QED BY <1>2, <2>2, <2>3
<1>7. ASSUME NEW c \in Contexts
      PROVE  executingTasks[c] \in 0 .. MaxTasks /\ pendingTasks[c] \in 0 .. MaxTasks
  <2>1. Under(c) \in SUBSET TaskIDs
    BY DEF Under
  <2>2. CountsOf(c) /\ PendingOf(c) /\ QueuesOf(c)
    BY DEF AsyncInv
  <2>3. Cardinality(Under(c)) \in 0 .. MaxTasks
    BY <1>3, <2>1
  <2>4. executingTasks[c] = 0 \/ executingTasks[c] = Cardinality(Under(c))
    BY <2>2 DEF CountsOf
  <2>5. executingTasks[c] \in 0 .. MaxTasks
    BY <1>2, <2>3, <2>4
  <2>6. CASE pcCtx[c] = "new"
    <3>1. pendingTasks[c] = 0
      BY <2>2, <2>6 DEF CountsOf
    <3> QED BY <1>2, <2>5, <3>1
  <2>7. CASE pcCtx[c] = "post"
    BY <2>2, <2>5, <2>7 DEF PendingOf
  <2>8. CASE pcCtx[c] = "returned"
    <3>1. pendingTasks[c] = 0
      BY <2>2, <2>8 DEF PendingOf
    <3> QED BY <1>2, <2>5, <3>1
  <2>9. CASE pcCtx[c] = "handle"
    <3> DEFINE A == Items(taskList[c])
               B == Items(localCompletions[c])
    <3>1. /\ taskList[c] \in Seq(TaskIDs) /\ localCompletions[c] \in Seq(TaskIDs)
          /\ Unique(taskList[c]) /\ Unique(localCompletions[c])
      BY <1>1, <2>2 DEF AsyncTypes, QueuesOf
    <3>2. /\ A \in SUBSET TaskIDs /\ B \in SUBSET TaskIDs
      BY <3>1, LenProperties DEF Items
    <3>3. /\ Cardinality(A) = Len(taskList[c]) /\ Cardinality(B) = Len(localCompletions[c])
          /\ IsFiniteSet(A) /\ IsFiniteSet(B)
      BY <3>1, LengthIsCardinality
    <3>4. /\ <<"list", c>> \in Spots /\ <<"local", c>> \in Spots /\ <<"list", c>> # <<"local", c>>
          /\ Held[<<"list", c>>] = Tagged(c, taskList[c])
          /\ Held[<<"local", c>>] = Tagged(c, localCompletions[c])
      BY SpotsThere, HeldAt
    <3>5. A \subseteq Under(c) /\ B \subseteq Under(c)
      BY <3>2, <3>4 DEF Under, Tagged
    <3>6. A \cap B = {}
      <4>1. Held[<<"list", c>>] \cap Held[<<"local", c>>] = {}
        BY <3>4 DEF AsyncInv, PlacesInv
      <4> QED BY <3>4, <4>1 DEF Tagged
    <3> HIDE DEF A, B
    <3>7. Cardinality(A \cup B) = Cardinality(A) + Cardinality(B)
      <4>1. Cardinality(A \cap B) = 0
        BY ONLY <3>6, FS_EmptySet
      <4>2. Cardinality(A \cup B) = Cardinality(A) + Cardinality(B) - Cardinality(A \cap B)
        BY ONLY <3>3, FS_Union
      <4>3. Cardinality(A) \in Nat /\ Cardinality(B) \in Nat
        BY <3>2, TasksFinite
      <4> QED BY ONLY <4>1, <4>2, <4>3
    <3>8. Cardinality(A \cup B) <= Cardinality(Under(c))
      <4>1. IsFiniteSet(Under(c)) /\ A \cup B \in SUBSET Under(c)
        BY <2>1, <3>5, TasksFinite
      <4> QED BY ONLY <4>1, FS_Subset
    <3>9. Cardinality(A) \in Nat /\ Cardinality(B) \in Nat
      BY <3>2, TasksFinite
    <3>10. pendingTasks[c] = Cardinality(Under(c)) - Cardinality(A) - Cardinality(B)
      BY <2>2, <2>9, <3>3 DEF CountsOf, PendingOf
    <3> QED BY <1>2, <2>3, <2>5, <3>7, <3>8, <3>9, <3>10
  <2> QED BY <1>1, <2>6, <2>7, <2>8, <2>9 DEF AsyncTypes
<1>8. ASSUME NEW t \in Threads PROVE taskLoad[t] \in Nat
  <2> DEFINE a == Len(todoList[t])
             b == Len(localTodo[t])
             d == Len(unfinished[t])
  <2>1. a \in Nat /\ b \in Nat /\ d \in Nat /\ taskLoad[t] = a + b + d
    BY ThreadBefore
  <2> HIDE DEF a, b, d
  <2> QED BY <2>1
<1>9. dependencyCount \in [Contexts -> [TaskIDs -> 0 .. MaxTasks]]
  <2>1. dependencyCount \in [Contexts -> [TaskIDs -> Int]]
    BY <1>1 DEF AsyncTypes
  <2> QED BY <1>6, <2>1
<1>10. /\ pendingTasks \in [Contexts -> 0 .. MaxTasks] /\ executingTasks \in [Contexts -> 0 .. MaxTasks]
  <2>1. pendingTasks \in [Contexts -> Int] /\ executingTasks \in [Contexts -> Int]
    BY <1>1 DEF AsyncTypes
  <2> QED BY <1>7, <2>1
<1>11. taskLoad \in [Threads -> Nat]
  BY <1>1, <1>8 DEF ThreadTypes
<1> QED BY <1>1, <1>2, <1>5, <1>9, <1>10, <1>11 DEF AsyncTypeOK, ThreadTypes

\* A task is in one place of the pool at most, and in none once it completed.
LEMMA InvRunsOnce == AsyncInv => RunsOnceAfterDependencies
<1> SUFFICES ASSUME AsyncInv, NEW c \in Contexts, NEW i \in TaskIDs
             PROVE  /\ Cardinality(Places(c, i)) <= IF i \in completed[c] THEN 0 ELSE 1
                    /\ Places(c, i) # {} => vFrom[i] \subseteq completed[c]
  BY DEF RunsOnceAfterDependencies
<1> DEFINE e == TaskEntry(c, i)
           name == <<"todo", "localTodo", "unfinished">>
<1>1. ASSUME NEW x \in Places(c, i)
      PROVE  \E t \in Threads, n \in 1 .. 3 : \E k \in DOMAIN Queues(t)[n] :
               x = <<t, n, k>> /\ Queues(t)[n][k] = e
  BY DEF Places, TaskEntry
<1>2. ASSUME NEW t \in Threads, NEW n \in 1 .. 3
      PROVE  /\ <<name[n], t>> \in ToRun /\ <<name[n], t>> \in Spots
             /\ Held[<<name[n], t>>] = Items(Queues(t)[n]) /\ Unique(Queues(t)[n])
  <2>1. n = 1 \/ n = 2 \/ n = 3
    OBVIOUS
  <2>2. Unique(todoList[t]) /\ Unique(localTodo[t]) /\ Unique(unfinished[t])
    BY QueueMoves
  <2>3. CASE n = 1
    BY <2>2, <2>3, SpotsThere, HeldAt DEF Queues
  <2>4. CASE n = 2
    BY <2>2, <2>4, SpotsThere, HeldAt DEF Queues
  <2>5. CASE n = 3
    BY <2>2, <2>5, SpotsThere, HeldAt DEF Queues
  <2> QED BY <2>1, <2>3, <2>4, <2>5
<1>3. \A n, m \in 1 .. 3 : name[n] = name[m] => n = m
  OBVIOUS
<1> HIDE DEF name
<1>4. ASSUME NEW t \in Threads, NEW n \in 1 .. 3, NEW k \in DOMAIN Queues(t)[n], Queues(t)[n][k] = e
      PROVE  e \in Held[<<name[n], t>>]
  <2> DEFINE q == Queues(t)[n]
  <2>1. k \in DOMAIN q /\ q[k] = e
    BY <1>4
  <2>2. Held[<<name[n], t>>] = Items(q)
    BY <1>2
  <2> HIDE DEF q, e
  <2>3. e \in Items(q)
    BY <2>1 DEF Items
  <2> QED BY <2>2, <2>3
<1>5. ASSUME NEW x \in Places(c, i), NEW y \in Places(c, i) PROVE x = y
  <2>1. PICK t \in Threads, n \in 1 .. 3 : \E k \in DOMAIN Queues(t)[n] : x = <<t, n, k>> /\ Queues(t)[n][k] = e
    BY <1>1
  <2>2. PICK u \in Threads, m \in 1 .. 3 : \E l \in DOMAIN Queues(u)[m] : y = <<u, m, l>> /\ Queues(u)[m][l] = e
    BY <1>1
  <2>3. e \in Held[<<name[n], t>>] /\ e \in Held[<<name[m], u>>]
    <3>1. PICK k \in DOMAIN Queues(t)[n] : Queues(t)[n][k] = e
      BY <2>1
    <3>2. PICK l \in DOMAIN Queues(u)[m] : Queues(u)[m][l] = e
      BY <2>2
    <3> QED BY <1>4, <3>1, <3>2
  <2>4. <<name[n], t>> = <<name[m], u>>
    <3>1. <<name[n], t>> \in Spots /\ <<name[m], u>> \in Spots
      BY <1>2
    <3>2. \A s, r \in Spots : s # r => Held[s] \cap Held[r] = {}
      BY DEF AsyncInv, PlacesInv
    <3>3. <<name[n], t>> # <<name[m], u>> => Held[<<name[n], t>>] \cap Held[<<name[m], u>>] = {}
      BY ONLY <3>1, <3>2
    <3> QED BY <2>3, <3>3
  <2>5. n = m /\ t = u
    BY <1>3, <2>4
  <2>6. Unique(Queues(t)[n])
    BY <1>2
  <2> QED BY <2>1, <2>2, <2>5, <2>6 DEF Unique
<1>6. ASSUME NEW x \in Places(c, i) PROVE i \notin completed[c] /\ i \in Under(c)
  <2>1. PICK t \in Threads, n \in 1 .. 3 : \E k \in DOMAIN Queues(t)[n] : Queues(t)[n][k] = e
    BY <1>1
  <2>2. e \in Held[<<name[n], t>>] /\ <<name[n], t>> \in ToRun /\ <<name[n], t>> \in Spots
    BY <1>2, <1>4, <2>1
  <2>3. e.ctx = c /\ e.id = i
    BY DEF TaskEntry
  <2>4. i \notin completed[c]
    BY <2>2, <2>3 DEF AsyncInv, PlacesInv
  <2>5. i \in Under(c)
    BY <2>2 DEF Under
  <2> QED BY <2>4, <2>5
<1>7. Cardinality(Places(c, i)) <= IF i \in completed[c] THEN 0 ELSE 1
  <2>1. CASE Places(c, i) = {}
    <3>1. Cardinality(Places(c, i)) = 0
      BY <2>1, FS_EmptySet
    <3> QED BY <3>1
  <2>2. CASE Places(c, i) # {}
    <3>1. PICK x : Places(c, i) = {x}
      BY <1>5, <2>2
    <3>2. Cardinality(Places(c, i)) = 1
      BY <3>1, FS_Singleton
    <3> QED BY <1>6, <2>2, <3>2
  <2> QED BY <2>1, <2>2
<1>8. ASSUME Places(c, i) # {} PROVE vFrom[i] \subseteq completed[c]
  <2>1. i \in Under(c)
    BY <1>6, <1>8
  <2>2. i \in Under(c) \cup completed[c] /\ CountsOf(c)
    BY <2>1 DEF AsyncInv
  <2>3. vFrom[i] \subseteq Handled(c)
    BY <2>1, <2>2 DEF CountsOf
  <2> QED BY <2>3 DEF Handled
<1> QED BY <1>7, <1>8

\* When a context has returned, the tasks that did not complete depend on one
\* another, so that some lie on a cycle; and no such set ever completes.
LEMMA InvTellsCycle == AsyncInv => ResultTellsCycle
<1> SUFFICES ASSUME AsyncInv, NEW c \in Contexts, pcCtx[c] = "returned"
             PROVE  TaskResult(c) = "UnableToProgress"
                      <=> \E S \in SUBSET (0 .. numTasks - 1) : Stuck(S)
  BY DEF ResultTellsCycle
<1> DEFINE all == 0 .. numTasks - 1
           left == all \ completed[c]
<1>1. /\ numTasks \in 0 .. MaxTasks /\ MaxTasks \in Nat
      /\ vFrom \in [TaskIDs -> SUBSET all]
      /\ Under(c) = {} /\ CountsOf(c) /\ CyclesOf(c)
  BY AsyncAssumption DEF AsyncInv, AsyncTypes, PendingOf
<1>2. /\ Handled(c) = completed[c] /\ completedTasks[c] = Cardinality(completed[c])
      /\ completed[c] = {i \in all : vFrom[i] \subseteq completed[c]}
  BY <1>1 DEF CountsOf, Handled
<1>3. all \in SUBSET TaskIDs /\ IsFiniteSet(all) /\ Cardinality(all) = numTasks
  <2>1. 0 \in Int /\ numTasks - 1 \in Int
    BY <1>1
  <2>2. IsFiniteSet(all) /\ Cardinality(all) = IF 0 > numTasks - 1 THEN 0 ELSE numTasks - 1 - 0 + 1
    BY ONLY <2>1, FS_Interval
  <2> QED BY <1>1, <2>2 DEF TaskIDs
<1>4. completed[c] \in SUBSET all
  BY <1>2
<1> HIDE DEF all
<1>5. Cardinality(completed[c]) < numTasks <=> left # {}
  <2>1. /\ Cardinality(completed[c]) <= numTasks
        /\ Cardinality(completed[c]) = numTasks => completed[c] = all
    BY ONLY <1>3, <1>4, FS_Subset
  <2>2. Cardinality(completed[c]) \in Nat
    <3>1. completed[c] \in SUBSET TaskIDs
      BY <1>3, <1>4
    <3> QED BY <3>1, TasksFinite
  <2>3. left = {} <=> completed[c] = all
    BY <1>4
  <2> QED BY <1>1, <1>3, <2>1, <2>2, <2>3
<1>6. TaskResult(c) = "UnableToProgress" <=> left # {}
  BY <1>2, <1>5 DEF TaskResult, HasUnexecutedTasks
<1>7. ASSUME left # {} PROVE Stuck(left)
  <2>1. ASSUME NEW i \in left PROVE vFrom[i] \cap left # {}
    <3>1. ~(vFrom[i] \subseteq completed[c])
      BY <1>2
    <3>2. vFrom[i] \in SUBSET all
      BY <1>1, <1>3
    <3> QED BY <3>1, <3>2
  <2> QED BY <1>7, <2>1 DEF Stuck
<1>8. ASSUME NEW S \in SUBSET all, Stuck(S) PROVE left # {}
  <2>1. S \cap completed[c] = {} /\ S # {}
    BY <1>1, <1>8 DEF CyclesOf, Stuck, all
  <2> QED BY <2>1
<1>9. left \in SUBSET all
  OBVIOUS
<1>10. left # {} <=> \E S \in SUBSET all : Stuck(S)
  BY <1>7, <1>8, <1>9
<1> QED BY <1>6, <1>10 DEF all

\* The counts of a context and the loads of the threads are in range, for any
\* number of contexts, threads and tasks: no pending task is taken twice.
THEOREM AsyncTypeCorrect == AsyncSpec => []AsyncTypeOK
BY AsyncInvariant, InvTypes, PTL

\* The two sides of the graph agree (AddDependency, ClearDependencies).
THEOREM BuilderCorrect == AsyncSpec => []BuilderSymmetric
<1>1. AsyncInv => BuilderSymmetric
  BY DEF AsyncInv
<1> QED BY <1>1, AsyncInvariant, PTL

\* No task is handed to two threads, to one of them twice, or again after it
\* completed, and none before all it depends on have completed.
THEOREM RunsOnceCorrect == AsyncSpec => []RunsOnceAfterDependencies
BY AsyncInvariant, InvRunsOnce, PTL

\* ExecuteGraph answers UnableToProgress exactly for a graph with a cycle.
THEOREM ResultCorrect == AsyncSpec => []ResultTellsCycle
BY AsyncInvariant, InvTellsCycle, PTL

-----------------------------------------------------------------------------
(* Clients and the lock                                                    *)
(*                                                                         *)
(* A thread's stack of calls may be of any depth.  Its outermost call has  *)
(* the mutex; the calls around the innermost one are at steps at which     *)
(* they rely on nothing that the innermost one could change; and once a    *)
(* call within a call has ended, the next one locks the thread out.        *)

IsCall(a) == a = [op |-> a.op, step |-> a.step, on |-> a.on, owns |-> a.owns]

\* A stack of calls
IsStack(q) ==
  /\ \E S : q \in Seq(S)
  /\ \A i \in 1 .. Len(q) : IsCall(q[i])

Reading == {"FindService", "SendMessage", "DispatchMessageToProxy"}
ModeOf(op) == IF op \in Reading THEN "ReadLocked" ELSE "WriteLocked"

\* What RemoveService has of its loop, in the service that goes.
IsRemoval(r) ==
  /\ r = [service |-> r.service, told |-> r.told, now |-> r.now]
  /\ \A e \in r.told : e[1] = r.service

\* What a call relies on.
Sound(a) ==
  /\ a.step \in {"pass", "tell"} => a.on \in Entries
  /\ a.op = "RemoveService" => IsRemoval(a.on)

\* A call in which a method is called, and which looks at nothing afterwards.
Waits(a) ==
  <<a.op, a.step>> \in {<<"AddMethod", "add">>, <<"CreateClient", "find">>,
                        <<"RemoveService", "told">>, <<"OnProxyDestroyed", "told">>}

\* What the innermost call of a thread that writes relies on.
SoundHead(t, a) ==
  /\ a.op = "AddService" => freeServiceID < MaxServices
  /\ a.step = "create" => a.on \in DOMAIN serviceMap
  /\ a.op = "CreateClient" /\ a.step # "find" => t \in nestedEnded

\* A thread in no call
Idle(t) ==
  /\ calls[t] = <<>> /\ lockState[t] = "Unlocked"
  /\ writer # t /\ t \notin readers /\ t \notin nestedEnded /\ t \notin relocked

\* A thread whose outermost call shares the mutex
ReadsIn(t) ==
  /\ t \in readers
  /\ t \notin relocked =>
       /\ lockState[t] # "WriteLocked"
       /\ \A i \in 1 .. Len(calls[t]) : calls[t][i].op \in Reading

\* A thread whose outermost call has the mutex alone
WritesIn(t) ==
  /\ writer = t /\ calls[t][Len(calls[t])].op \notin Reading
  /\ t \notin relocked =>
       /\ lockState[t] = IF t \in nestedEnded THEN "Unlocked" ELSE "WriteLocked"
       /\ \A i \in 2 .. Len(calls[t]) : Waits(calls[t][i])
       /\ SoundHead(t, calls[t][1])

\* What holds of every stack
CallsInv(t) ==
  LET q == calls[t] IN
  /\ q[Len(q)].owns = TRUE
  /\ \A i \in 1 .. Len(q) - 1 : q[i].op \notin {"SendMessage", "CreateClient"}
  /\ \A i \in 1 .. Len(q) : Sound(q[i])

\* A thread in a call
Busy(t) ==
  /\ calls[t] # <<>> /\ CallsInv(t)
  /\ t \in nestedEnded \/ lockState[t] # "Unlocked"
  /\ t \in relocked => t \in nestedEnded
  /\ ReadsIn(t) \/ WritesIn(t)

CMServices == [methodID : Nat, nextClientID : Nat, clients : SUBSET CMClientIDs]

LockTypes ==
  /\ DOMAIN calls = CMThreads /\ \A t \in CMThreads : IsStack(calls[t])
  /\ lockState \in [CMThreads -> {"Unlocked", "ReadLocked", "WriteLocked"}]
  /\ writer \in CMThreads \cup {NoCMThread} /\ readers \subseteq CMThreads
  /\ writer # NoCMThread => readers = {}
  /\ relocked \subseteq CMThreads

\* A client has an ID that was given out by its service, also if it was refused.
GivenOut(e) ==
  /\ e \in CMClients /\ e[1] < freeServiceID
  /\ e[1] \in DOMAIN serviceMap => e[2] < serviceMap[e[1]].nextClientID

RegistryTypes ==
  /\ methods \in Nat /\ freeServiceID \in 0 .. MaxServices
  /\ DOMAIN serviceMap \subseteq 0 .. freeServiceID - 1
  /\ serviceMap \in [DOMAIN serviceMap -> CMServices]
  /\ \A e \in Entries \cup refused : GivenOut(e)
  /\ proxies \subseteq CMClients

CMTypes == LockTypes /\ RegistryTypes

\* The clients that the loops of a stack are done with, but that are there yet.
ToldOf(q) ==
  {e \in CMClients : \E i \in 1 .. Len(q) : q[i].op = "RemoveService" /\ e \in q[i].on.told}

\* The receivers and the methods' clients lag behind the registry by those.
AgreeBut(L) ==
  receivers = Entries \ L /\ methodClients = (Entries \ L) \ refused

RegistryInv ==
  /\ writer = NoCMThread => AgreeBut({})
  /\ \A t \in CMThreads : writer = t => AgreeBut(ToldOf(calls[t]))

CMInv == CMTypes /\ RegistryInv /\ \A t \in CMThreads : Idle(t) \/ Busy(t)

-----------------------------------------------------------------------------
(* Stacks *)

\* r is q with a call a more, or less, or in the place of the innermost one.
Pushed(q, a, r) ==
  /\ IsStack(r) /\ r # <<>> /\ Len(q) \in Nat /\ Len(r) = Len(q) + 1
  /\ r[1] = a
  /\ \A i \in 1 .. Len(q) : r[i + 1] = q[i]
  /\ \A i \in 2 .. Len(r) : i - 1 \in 1 .. Len(q) /\ r[i] = q[i - 1]

Popped(q, r) ==
  /\ IsStack(r) /\ Len(q) \in Nat /\ Len(q) >= 1 /\ Len(r) = Len(q) - 1
  /\ r = <<>> <=> Len(q) = 1
  /\ Head(q) = q[1] /\ IsCall(q[1])
  /\ \A i \in 1 .. Len(r) : i + 1 \in 2 .. Len(q) /\ r[i] = q[i + 1]

CallReplaced(q, a, r) ==
  /\ IsStack(r) /\ r # <<>> /\ Len(q) \in Nat /\ Len(q) >= 1 /\ Len(r) = Len(q)
  /\ r[1] = a
  /\ \A i \in 2 .. Len(q) : r[i] = q[i]

\* A stack with a call more.
LEMMA StackPushed ==
  ASSUME NEW q, IsStack(q), NEW a, IsCall(a)
  PROVE  Pushed(q, a, <<a>> \o q)
<1> DEFINE r == <<a>> \o q
<1> HIDE DEF r
<1>1. PICK S : q \in Seq(S)
  BY DEF IsStack
<1>2. PICK T : T = S \cup {a}
  OBVIOUS
<1>3. q \in Seq(T) /\ <<a>> \in Seq(T) /\ Len(<<a>>) = 1 /\ <<a>>[1] = a
  <2>1. \A i \in 1 .. Len(q) : q[i] \in T
    BY <1>1, <1>2
  <2>2. q = [i \in 1 .. Len(q) |-> q[i]] /\ Len(q) \in Nat
    BY <1>1
  <2>3. q \in Seq(T)
    BY <2>1, <2>2
  <2> QED BY <1>2, <2>3
<1>4. /\ r \in Seq(T) /\ Len(r) = 1 + Len(q)
      /\ \A i \in 1 .. Len(r) : r[i] = IF i <= 1 THEN <<a>>[i] ELSE q[i - 1]
  BY <1>3, ConcatProperties DEF r
<1>5. Len(q) \in Nat /\ Len(r) = Len(q) + 1 /\ r[1] = a
  BY <1>3, <1>4
<1>6. ASSUME NEW i \in 2 .. Len(r) PROVE i - 1 \in 1 .. Len(q) /\ r[i] = q[i - 1]
  BY <1>4, <1>5
<1>7. ASSUME NEW i \in 1 .. Len(q) PROVE r[i + 1] = q[i]
  <2>1. i + 1 \in 2 .. Len(r) /\ (i + 1) - 1 = i
    BY <1>5
  <2> QED BY <1>6, <2>1
<1>8. ASSUME NEW i \in 1 .. Len(r) PROVE IsCall(r[i])
  <2>1. CASE i = 1
    BY <1>5, <2>1
  <2>2. CASE i # 1
    <3>1. i \in 2 .. Len(r)
      BY <1>5, <2>2
    <3> QED BY <1>6, <3>1 DEF IsStack
  <2> QED BY <2>1, <2>2
<1>9. r # <<>>
  BY <1>5
<1>10. IsStack(r)
  BY <1>4, <1>8 DEF IsStack
<1>11. Pushed(q, a, r)
  BY <1>5, <1>6, <1>7, <1>9, <1>10 DEF Pushed
<1> QED BY <1>11 DEF r

\* A stack with a call less.
LEMMA StackPopped ==
  ASSUME NEW q, IsStack(q), q # <<>>
  PROVE  Popped(q, Tail(q))
<1> DEFINE r == Tail(q)
<1>1. PICK S : q \in Seq(S)
  BY DEF IsStack
<1>2. /\ r \in Seq(S) /\ Len(q) \in Nat /\ Len(q) >= 1 /\ Len(r) = Len(q) - 1
      /\ Head(q) = q[1]
  BY <1>1
<1>3. ASSUME NEW i \in 1 .. Len(r) PROVE i + 1 \in 2 .. Len(q) /\ r[i] = q[i + 1]
  BY <1>1, <1>2
<1>4. IsStack(r) /\ IsCall(q[1])
  <2>1. \A i \in 1 .. Len(r) : IsCall(r[i])
    <3>1. \A i \in 2 .. Len(q) : i \in 1 .. Len(q)
      BY <1>2
    <3> QED BY <1>3, <3>1 DEF IsStack
  <2>2. 1 \in 1 .. Len(q)
    BY <1>2
  <2> QED BY <1>2, <2>1, <2>2 DEF IsStack
<1>5. r = <<>> <=> Len(q) = 1
  <2>1. r \in Seq(S) /\ Len(r) = Len(q) - 1 /\ Len(q) \in Nat
    BY <1>2
  <2>2. r = <<>> <=> Len(r) = 0
    BY <2>1, EmptySeq
  <2> QED BY <2>1, <2>2
<1>6. Popped(q, r)
  <2> HIDE DEF r
  <2> QED BY <1>2, <1>3, <1>4, <1>5 DEF Popped
<1> QED BY <1>6

\* A stack whose innermost call is replaced.
LEMMA StackReplaced ==
  ASSUME NEW q, IsStack(q), q # <<>>, NEW a, IsCall(a)
  PROVE  CallReplaced(q, a, <<a>> \o Tail(q))
<1>1. PICK p : p = Tail(q)
  OBVIOUS
<1>2. PICK r : r = <<a>> \o p
  OBVIOUS
<1>3. Popped(q, p) /\ IsStack(p)
  BY <1>1, StackPopped DEF Popped
<1>4. Pushed(p, a, r)
  BY <1>2, <1>3, StackPushed
<1>5. /\ IsStack(r) /\ r # <<>> /\ Len(q) \in Nat /\ Len(q) >= 1
      /\ Len(r) = Len(q) /\ r[1] = a
  BY <1>3, <1>4 DEF Pushed, Popped
<1>6. ASSUME NEW i \in 2 .. Len(q) PROVE r[i] = q[i]
  <2>1. i - 1 \in 1 .. Len(p) /\ r[i] = p[i - 1]
    BY <1>4, <1>5 DEF Pushed
  <2>2. p[i - 1] = q[(i - 1) + 1] /\ (i - 1) + 1 = i
    BY <1>3, <2>1 DEF Popped
  <2> QED BY <2>1, <2>2
<1>7. CallReplaced(q, a, r)
  BY <1>5, <1>6 DEF CallReplaced
<1> QED BY <1>1, <1>2, <1>7

\* The call that a wrapper starts, which owns the lock if it took it.
NewCall(t, op, step, on) == Put(Call(op, step, on), "owns", lockState[t] = "Unlocked")

\* Its fields.
IsNewCall(a, t, op, step, on) ==
  /\ IsCall(a) /\ a.op = op /\ a.step = step /\ a.on = on
  /\ lockState[t] = "Unlocked" => a.owns = TRUE

\* The call that Enter puts on a stack is a new one.
LEMMA NewCallIs ==
  ASSUME NEW t, NEW op, NEW step, NEW on
  PROVE  IsNewCall(NewCall(t, op, step, on), t, op, step, on)
<1> DEFINE a == NewCall(t, op, step, on)
<1>1. ASSUME NEW b
      PROVE  Put(Call(op, step, on), "owns", b)
               = [op |-> op, step |-> step, on |-> on, owns |-> b]
  BY DEF Put, Call
<1> DEFINE w == (lockState[t] = "Unlocked")
<1>2. a = [op |-> op, step |-> step, on |-> on, owns |-> w]
  BY <1>1 DEF NewCall
<1>3. lockState[t] = "Unlocked" => w = TRUE
  OBVIOUS
<1> HIDE DEF w
<1>4. a.op = op /\ a.step = step /\ a.on = on /\ a.owns = w
  BY <1>2
<1>5. IsCall(a)
  BY <1>2, <1>4 DEF IsCall
<1> QED BY <1>3, <1>4, <1>5 DEF IsNewCall

\* A call at another step is a call.
IsMoved(b, a, step, on) ==
  IsCall(b) /\ b.op = a.op /\ b.step = step /\ b.on = on /\ b.owns = a.owns

\* So is one of which only step and argument changed.
LEMMA MovedOn ==
  ASSUME NEW a, IsCall(a), NEW step, NEW on
  PROVE  IsMoved([a EXCEPT !.step = step, !.on = on], a, step, on)
<1> DEFINE b == [a EXCEPT !.step = step, !.on = on]
<1>1. DOMAIN a = {"op", "step", "on", "owns"}
  <2> DEFINE d == [op |-> a.op, step |-> a.step, on |-> a.on, owns |-> a.owns]
  <2>1. DOMAIN d = {"op", "step", "on", "owns"} /\ a = d
    BY DEF IsCall
  <2> HIDE DEF d
  <2> QED BY <2>1
<1>2. b = [x \in {"op", "step", "on", "owns"} |->
             IF x = "on" THEN on ELSE IF x = "step" THEN step ELSE a[x]]
  BY <1>1
<1>3. b = [op |-> a.op, step |-> step, on |-> on, owns |-> a.owns]
  BY <1>2
<1> HIDE DEF b
<1>4. b.op = a.op /\ b.step = step /\ b.on = on /\ b.owns = a.owns
  BY <1>3
<1>5. IsMoved(b, a, step, on)
  BY <1>3, <1>4 DEF IsCall, IsMoved
<1> QED BY <1>5 DEF b

\* What loops are done with, in a stack with a call more, less, or replaced.
ToldBy(op, on) == {e \in CMClients : op = "RemoveService" /\ e \in on.told}
ToldIn(a) == ToldBy(a.op, a.on)

\* A call more adds what it is done with.
LEMMA ToldPushed ==
  ASSUME NEW q, NEW a, NEW r, Pushed(q, a, r)
  PROVE  ToldOf(r) = ToldOf(q) \cup ToldIn(a)
<1>1. /\ Len(q) \in Nat /\ Len(r) = Len(q) + 1 /\ r[1] = a
      /\ \A i \in 1 .. Len(q) : r[i + 1] = q[i]
      /\ \A i \in 2 .. Len(r) : i - 1 \in 1 .. Len(q) /\ r[i] = q[i - 1]
  BY DEF Pushed
<1>2. ASSUME NEW e, NEW i \in 1 .. Len(r), r[i].op = "RemoveService" /\ e \in r[i].on.told
      PROVE  \/ \E j \in 1 .. Len(q) : q[j].op = "RemoveService" /\ e \in q[j].on.told
             \/ a.op = "RemoveService" /\ e \in a.on.told
  <2>1. CASE i = 1
    BY <1>1, <1>2, <2>1
  <2>2. CASE i # 1
    <3>1. i \in 2 .. Len(r)
      BY <1>1, <2>2
    <3> QED BY <1>1, <1>2, <3>1
  <2> QED BY <2>1, <2>2
<1>3. ASSUME NEW e, NEW i \in 1 .. Len(q), q[i].op = "RemoveService" /\ e \in q[i].on.told
      PROVE  \E j \in 1 .. Len(r) : r[j].op = "RemoveService" /\ e \in r[j].on.told
  <2>1. i + 1 \in 1 .. Len(r) /\ r[i + 1] = q[i]
    BY <1>1
  <2> QED BY <1>3, <2>1
<1>4. 1 \in 1 .. Len(r)
  BY <1>1
<1> QED BY <1>1, <1>2, <1>3, <1>4 DEF ToldOf, ToldIn, ToldBy

\* A call less takes away what it was done with.
LEMMA ToldPopped ==
  ASSUME NEW q, NEW r, Popped(q, r)
  PROVE  ToldOf(q) = ToldOf(r) \cup ToldIn(q[1])
<1>1. /\ Len(q) \in Nat /\ Len(q) >= 1 /\ Len(r) = Len(q) - 1
      /\ \A i \in 1 .. Len(r) : i + 1 \in 2 .. Len(q) /\ r[i] = q[i + 1]
  BY DEF Popped
<1>2. ASSUME NEW e, NEW i \in 1 .. Len(r), r[i].op = "RemoveService" /\ e \in r[i].on.told
      PROVE  \E j \in 1 .. Len(q) : q[j].op = "RemoveService" /\ e \in q[j].on.told
  <2>1. i + 1 \in 1 .. Len(q) /\ r[i] = q[i + 1]
    BY <1>1
  <2> QED BY <1>2, <2>1
<1>3. ASSUME NEW e, NEW i \in 1 .. Len(q), q[i].op = "RemoveService" /\ e \in q[i].on.told
      PROVE  \/ q[1].op = "RemoveService" /\ e \in q[1].on.told
             \/ \E j \in 1 .. Len(r) : r[j].op = "RemoveService" /\ e \in r[j].on.told
  <2>1. CASE i = 1
    BY <1>3, <2>1
  <2>2. CASE i # 1
    <3>1. i - 1 \in 1 .. Len(r) /\ (i - 1) + 1 = i
      BY <1>1, <2>2
    <3>2. r[i - 1] = q[i]
      BY <1>1, <3>1
    <3> QED BY <1>3, <3>1, <3>2
  <2> QED BY <2>1, <2>2
<1>4. 1 \in 1 .. Len(q)
  BY <1>1
<1> QED BY <1>2, <1>3, <1>4 DEF ToldOf, ToldIn, ToldBy

\* A call in the place of another counts for it.
LEMMA ToldReplaced ==
  ASSUME NEW q, IsStack(q), q # <<>>, NEW a, IsCall(a)
  PROVE  ToldOf(<<a>> \o Tail(q)) = ToldOf(Tail(q)) \cup ToldIn(a)
<1>1. IsStack(Tail(q))
  BY StackPopped DEF Popped
<1>2. Pushed(Tail(q), a, <<a>> \o Tail(q))
  BY <1>1, StackPushed
<1> QED BY <1>2, ToldPushed

-----------------------------------------------------------------------------
(* The steps of one thread *)

\* A step of one thread leaves alone what the manager keeps of the others.
OthersLeft(t) ==
  \A u \in CMThreads \ {t} :
    /\ calls'[u] = calls[u] /\ lockState'[u] = lockState[u]
    /\ writer' = u <=> writer = u
    /\ u \in readers' <=> u \in readers
    /\ u \in relocked' <=> u \in relocked
    /\ u \in nestedEnded' <=> u \in nestedEnded

\* What the clients and services are, but for their names.
ClientsLeft == UNCHANGED <<serviceMap, freeServiceID, receivers, methodClients, refused>>

\* What a step leaves alone that makes or ends no service and no client.
RegistryLeft ==
  UNCHANGED <<registryVars, receivers, methodClients, refused>> /\ proxies' \subseteq proxies

\* Such a step leaves the registry in order.
LEMMA RegistryStays ==
  ASSUME CMInv, RegistryLeft
  PROVE  /\ ClientsLeft /\ RegistryTypes' /\ Entries' = Entries
<1>1. ClientsLeft /\ methods' = methods /\ proxies' \subseteq CMClients /\ Entries' = Entries
  BY DEF RegistryLeft, ClientsLeft, registryVars, Entries, CMInv, CMTypes, RegistryTypes
<1>2. \A e : GivenOut(e) <=> GivenOut(e)'
  BY <1>1 DEF GivenOut, ClientsLeft
<1>3. RegistryTypes
  BY DEF CMInv, CMTypes
<1>4. RegistryTypes'
  BY <1>1, <1>2, <1>3 DEF RegistryTypes, ClientsLeft
<1> QED BY <1>1, <1>4

\* While a thread writes, no other is in a call.
LEMMA WriterAlone ==
  ASSUME CMInv, NEW t \in CMThreads, writer = t, NEW u \in CMThreads \ {t}
  PROVE  Idle(u)
<1>1. writer # u /\ u \notin readers
  BY ClientManagerAssumption DEF CMInv, CMTypes, LockTypes
<1> QED BY <1>1 DEF CMInv, Busy, ReadsIn, WritesIn

\* The one that writes is not one that reads.
LEMMA WritesOnly ==
  ASSUME CMInv, NEW t \in CMThreads, writer = t
  PROVE  WritesIn(t) /\ Busy(t)
<1>1. t \notin readers /\ ~Idle(t)
  BY ClientManagerAssumption DEF CMInv, CMTypes, LockTypes, Idle
<1> QED BY <1>1 DEF CMInv, Busy, ReadsIn

\* What the step of a thread has to show: that its own stack and, while it
\* writes, the registry are in order.
LEMMA CMStepKeeps ==
  ASSUME CMInv, NEW t \in CMThreads, OthersLeft(t), CMTypes', Idle(t)' \/ Busy(t)',
         ClientsLeft \/ writer = t,
         writer' = t => AgreeBut(ToldOf(calls[t]))',
         writer' = NoCMThread => AgreeBut({})'
  PROVE  CMInv'
<1>1. ASSUME NEW u \in CMThreads \ {t} PROVE Idle(u)' \/ Busy(u)'
  <2>1. /\ calls'[u] = calls[u] /\ lockState'[u] = lockState[u]
        /\ writer' = u <=> writer = u
        /\ u \in readers' <=> u \in readers
        /\ u \in relocked' <=> u \in relocked
        /\ u \in nestedEnded' <=> u \in nestedEnded
    BY DEF OthersLeft
  <2>2. Idle(u) => Idle(u)'
    BY <2>1 DEF Idle
  <2>3. CASE writer = t
    BY <2>2, <2>3, WriterAlone
  <2>4. CASE writer # t
    <3>1. UNCHANGED <<serviceMap, freeServiceID>> /\ Entries' = Entries
      BY <2>4 DEF Entries, ClientsLeft
    <3>2. ASSUME Busy(u) PROVE Busy(u)'
      <4>1. ASSUME NEW a, Sound(a) PROVE Sound(a)'
        BY <3>1, <4>1 DEF Sound
      <4>2. CallsInv(u)'
        BY <2>1, <3>2, <4>1 DEF Busy, CallsInv
      <4>3. ReadsIn(u) => ReadsIn(u)'
        BY <2>1 DEF ReadsIn
      <4>4. WritesIn(u) => WritesIn(u)'
        BY <2>1, <3>1 DEF WritesIn, SoundHead
      <4> QED BY <2>1, <3>2, <4>2, <4>3, <4>4 DEF Busy
    <3> QED BY <2>2, <3>2 DEF CMInv
  <2> QED BY <2>3, <2>4
<1>2. ASSUME NEW u \in CMThreads, writer' = u PROVE AgreeBut(ToldOf(calls[u]))'
  <2>1. CASE u = t
    BY <1>2, <2>1
  <2>2. CASE u # t
    <3>1. writer = u /\ calls'[u] = calls[u]
      BY <1>2, <2>2 DEF OthersLeft
    <3>2. ClientsLeft /\ Entries' = Entries
      BY <2>2, <3>1 DEF Entries, ClientsLeft
    <3>3. AgreeBut(ToldOf(calls[u])) /\ ToldOf(calls[u])' = ToldOf(calls[u])
      BY <3>1 DEF CMInv, RegistryInv, ToldOf
    <3> QED BY <3>2, <3>3 DEF AgreeBut, ClientsLeft
  <2> QED BY <2>1, <2>2
<1>3. RegistryInv'
  BY <1>2 DEF RegistryInv
<1> QED BY <1>1, <1>3 DEF CMInv

-----------------------------------------------------------------------------
(* Entering a call *)

\* What the constructor of a wrapper does to the lock and the stack.
LEMMA Entering ==
  ASSUME CMInv, NEW t \in CMThreads, NEW mode \in {"ReadLocked", "WriteLocked"},
         NEW op, NEW step, NEW on, Enter(t, mode, Call(op, step, on)),
         NEW a, a = NewCall(t, op, step, on)
  PROVE  /\ OthersLeft(t) /\ nestedEnded' = nestedEnded /\ LockTypes'
         /\ Pushed(calls[t], a, calls'[t])
         /\ lockState[t] # "Unlocked" => UNCHANGED <<writer, readers, relocked, lockState>>
         /\ lockState[t] = "Unlocked" => lockState'[t] = mode /\ Lock(t, mode)
<1>1. /\ LockTypes /\ NoCMThread \notin CMThreads
  BY ClientManagerAssumption DEF CMInv, CMTypes
<1>2. /\ nestedEnded' = nestedEnded
      /\ calls' = [calls EXCEPT ![t] = <<a>> \o @]
  BY DEF Enter, NewCall
<1>3. /\ DOMAIN calls' = CMThreads /\ \A u \in CMThreads \ {t} : calls'[u] = calls[u]
      /\ calls'[t] = <<a>> \o calls[t]
  BY <1>1, <1>2 DEF LockTypes
<1>4. Pushed(calls[t], a, calls'[t])
  <2>1. IsCall(a) /\ IsStack(calls[t])
    BY <1>1, NewCallIs DEF LockTypes, IsNewCall
  <2> QED BY <1>3, <2>1, StackPushed
<1>5. \A u \in CMThreads : IsStack(calls'[u])
  <2>1. ASSUME NEW u \in CMThreads PROVE IsStack(calls'[u])
    <3>1. CASE u = t
      BY <1>4, <3>1 DEF Pushed
    <3>2. CASE u # t
      BY <1>1, <1>3, <3>2 DEF LockTypes
    <3> QED BY <3>1, <3>2
  <2> QED BY <2>1
<1>6. CASE lockState[t] # "Unlocked"
  <2>1. UNCHANGED <<writer, readers, relocked, lockState>>
    BY <1>6 DEF Enter
  <2> QED BY <1>1, <1>2, <1>3, <1>4, <1>5, <1>6, <2>1 DEF OthersLeft, LockTypes
<1>7. CASE lockState[t] = "Unlocked"
  <2>1. Lock(t, mode) /\ lockState' = [lockState EXCEPT ![t] = mode]
    BY <1>7 DEF Enter
  <2>2. /\ lockState' \in [CMThreads -> {"Unlocked", "ReadLocked", "WriteLocked"}]
        /\ lockState'[t] = mode
        /\ \A u \in CMThreads \ {t} : lockState'[u] = lockState[u]
    BY <1>1, <2>1 DEF LockTypes
  <2>3. /\ writer' \in CMThreads \cup {NoCMThread} /\ readers' \subseteq CMThreads
        /\ writer' # NoCMThread => readers' = {}
        /\ relocked' \subseteq CMThreads
        /\ \A u \in CMThreads \ {t} :
             /\ writer' = u <=> writer = u
             /\ u \in readers' <=> u \in readers
             /\ u \in relocked' <=> u \in relocked
    BY <1>1, <2>1 DEF LockTypes, Lock
  <2>4. LockTypes'
    BY <1>3, <1>5, <2>2, <2>3 DEF LockTypes
  <2> QED BY <1>2, <1>3, <1>4, <1>7, <2>1, <2>2, <2>3, <2>4 DEF OthersLeft
<1> QED BY <1>6, <1>7

\* A call as it begins, with what it asks for.
Begins(op, step, on) ==
  /\ step \in {"add", "destroy", "find", "lookup"}
  /\ op = "AddService" => freeServiceID < MaxServices
  /\ op = "RemoveService" => IsRemoval(on) /\ on.told = {}
  /\ op = "CreateClient" => step = "find"

\* The first call of a thread takes the lock.
LEMMA EntersFirst ==
  ASSUME CMInv, NEW t \in CMThreads, calls[t] = <<>>, RegistryLeft,
         NEW op, NEW step, NEW on, Begins(op, step, on),
         Enter(t, ModeOf(op), Call(op, step, on))
  PROVE  CMInv'
<1>1. Idle(t)
  BY DEF CMInv, Busy
<1>2. ModeOf(op) \in {"ReadLocked", "WriteLocked"} /\ NoCMThread \notin CMThreads
  BY ClientManagerAssumption DEF ModeOf
<1>3. PICK a : a = NewCall(t, op, step, on)
  OBVIOUS
<1>4. PICK q : q = calls'[t]
  OBVIOUS
<1>5. /\ OthersLeft(t) /\ nestedEnded' = nestedEnded /\ LockTypes'
      /\ Pushed(calls[t], a, q) /\ lockState'[t] = ModeOf(op) /\ Lock(t, ModeOf(op))
  BY <1>1, <1>2, <1>3, <1>4, Entering DEF Idle
<1>6. ClientsLeft /\ RegistryTypes' /\ Entries' = Entries
  BY RegistryStays
<1>7. a.op = op /\ Sound(a)' /\ SoundHead(t, a)' /\ ToldIn(a) = {} /\ a.owns = TRUE
  <2>1. IsNewCall(a, t, op, step, on) /\ lockState[t] = "Unlocked"
    BY <1>1, <1>3, NewCallIs DEF Idle
  <2>2. /\ IsCall(a) /\ a.op = op /\ a.step = step /\ a.on = on
    BY <2>1 DEF IsNewCall
  <2>3. Sound(a)'
    BY <2>2 DEF Sound, Begins
  <2>4. SoundHead(t, a)'
    BY <1>6, <2>2 DEF SoundHead, Begins, ClientsLeft
  <2>5. ToldIn(a) = {}
    BY <2>2 DEF ToldIn, ToldBy, Begins
  <2>6. a.owns = TRUE
    BY <2>1 DEF IsNewCall
  <2> QED BY <2>2, <2>3, <2>4, <2>5, <2>6
<1>8. q # <<>> /\ Len(q) = 1 /\ q[1] = a
  <2>1. Len(calls[t]) = 0
    OBVIOUS
  <2> QED BY <1>5, <2>1 DEF Pushed
<1>9. /\ writer = NoCMThread /\ t \notin relocked'
      /\ op \in Reading => t \in readers' /\ writer' = writer
      /\ op \notin Reading => writer' = t
  BY <1>1, <1>5 DEF Lock, Holds, Idle, ModeOf
<1>10. CallsInv(t)'
  BY <1>4, <1>7, <1>8 DEF CallsInv
<1>11. ReadsIn(t)' \/ WritesIn(t)'
  <2>1. CASE op \in Reading
    <3>1. lockState'[t] = "ReadLocked"
      BY <1>5, <2>1 DEF ModeOf
    <3> QED BY <1>4, <1>7, <1>8, <1>9, <2>1, <3>1 DEF ReadsIn
  <2>2. CASE op \notin Reading
    <3>1. lockState'[t] = "WriteLocked" /\ t \notin nestedEnded'
      BY <1>1, <1>5, <2>2 DEF ModeOf, Idle
    <3>2. \A i \in 2 .. Len(q) : Waits(q[i])
      BY <1>8
    <3>3. /\ writer' = t /\ calls'[t] = q /\ q[Len(q)].op \notin Reading
          /\ SoundHead(t, q[1])'
      BY <1>4, <1>7, <1>8, <1>9, <2>2
    <3> QED BY <3>1, <3>2, <3>3 DEF WritesIn, SoundHead, Waits
  <2> QED BY <2>1, <2>2
<1>12. Busy(t)'
  <2>1. lockState'[t] # "Unlocked"
    BY <1>2, <1>5
  <2> QED BY <1>4, <1>8, <1>9, <1>10, <1>11, <2>1 DEF Busy
<1>13. AgreeBut({})'
  BY <1>6, <1>9 DEF CMInv, RegistryInv, AgreeBut, ClientsLeft
<1>14. ToldOf(calls[t])' = {}
  <2>1. ToldOf(<<>>) = {}
    BY DEF ToldOf
  <2>2. ToldOf(q) = ToldOf(calls[t]) \cup ToldIn(a)
    BY <1>5, ToldPushed
  <2>3. ToldOf(q) = {}
    BY <1>7, <2>1, <2>2
  <2> QED BY <1>4, <2>3 DEF ToldOf
<1>15. CMTypes'
  BY <1>5, <1>6 DEF CMTypes
<1> QED BY <1>5, <1>6, <1>12, <1>13, <1>14, <1>15, CMStepKeeps

\* Where a call is begun within a call.
CallsBack(a) ==
  Waits(a) \/ a.op = "SendMessage" \/ (a.op = "CreateClient" /\ a.step # "find")

\* A call within a call finds the lock taken, and m_lockState telling so; or it
\* locks the thread out; or a reader shares the lock once more.
LEMMA EntersWithin ==
  ASSUME CMInv, NEW t \in CMThreads, t \notin relocked, calls[t] # <<>>,
         CallsBack(calls[t][1]), RegistryLeft,
         NEW op, NEW step, NEW on, Begins(op, step, on), op \notin {"SendMessage", "CreateClient"},
         Enter(t, ModeOf(op), Call(op, step, on))
  PROVE  CMInv'
<1>1. Busy(t) /\ CallsInv(t) /\ IsStack(calls[t])
  BY DEF CMInv, Idle, Busy, CMTypes, LockTypes
<1>2. ModeOf(op) \in {"ReadLocked", "WriteLocked"} /\ NoCMThread \notin CMThreads
  BY ClientManagerAssumption DEF ModeOf
<1>3. PICK a : a = NewCall(t, op, step, on)
  OBVIOUS
<1>4. PICK q, r : q = calls[t] /\ r = calls'[t]
  OBVIOUS
<1>5. /\ OthersLeft(t) /\ nestedEnded' = nestedEnded /\ LockTypes' /\ Pushed(q, a, r)
      /\ lockState[t] # "Unlocked" => UNCHANGED <<writer, readers, relocked, lockState>>
      /\ lockState[t] = "Unlocked" => lockState'[t] = ModeOf(op) /\ Lock(t, ModeOf(op))
  BY <1>2, <1>3, <1>4, Entering
<1>6. ClientsLeft /\ RegistryTypes' /\ Entries' = Entries
  BY RegistryStays
<1>7. a.op = op /\ Sound(a)' /\ SoundHead(t, a)' /\ ToldIn(a) = {}
  <2>1. IsNewCall(a, t, op, step, on)
    BY <1>3, NewCallIs
  <2>2. /\ IsCall(a) /\ a.op = op /\ a.step = step /\ a.on = on
    BY <2>1 DEF IsNewCall
  <2>3. Sound(a)'
    BY <2>2 DEF Sound, Begins
  <2>4. SoundHead(t, a)'
    BY <1>6, <2>2 DEF SoundHead, Begins, ClientsLeft
  <2>5. ToldIn(a) = {}
    BY <2>2 DEF ToldIn, ToldBy, Begins
  <2> QED BY <2>2, <2>3, <2>4, <2>5
<1>8. /\ r # <<>> /\ Len(q) \in Nat /\ Len(q) >= 1 /\ Len(r) = Len(q) + 1 /\ r[1] = a
      /\ r[Len(r)] = q[Len(q)]
      /\ \A i \in 2 .. Len(r) : i - 1 \in 1 .. Len(q) /\ r[i] = q[i - 1]
  <2>1. Len(q) >= 1
    BY <1>1, <1>4, StackPopped DEF Popped
  <2>2. /\ r # <<>> /\ Len(q) \in Nat /\ Len(r) = Len(q) + 1 /\ r[1] = a
        /\ \A i \in 2 .. Len(r) : i - 1 \in 1 .. Len(q) /\ r[i] = q[i - 1]
    BY <1>5 DEF Pushed
  <2>3. \A n \in Nat : n >= 1 => n + 1 \in 2 .. n + 1 /\ (n + 1) - 1 = n
    OBVIOUS
  <2>4. Len(r) \in 2 .. Len(r) /\ Len(r) - 1 = Len(q)
    BY <2>1, <2>2, <2>3
  <2>5. r[Len(r)] = q[Len(q)]
    BY <2>2, <2>4
  <2> QED BY <2>1, <2>2, <2>5
<1>9. CallsInv(t)'
  <2>1. \A i \in 1 .. Len(r) - 1 : r[i].op \notin {"SendMessage", "CreateClient"}
    <3>1. ASSUME NEW i \in 2 .. Len(r) - 1
          PROVE  r[i].op \notin {"SendMessage", "CreateClient"}
      <4>1. i - 1 \in 1 .. Len(q) - 1 /\ r[i] = q[i - 1]
        BY <1>8
      <4> QED BY <1>1, <1>4, <4>1 DEF CallsInv
    <3>2. \A i \in 1 .. Len(r) - 1 : i = 1 \/ i \in 2 .. Len(r) - 1
      BY <1>8
    <3> QED BY <1>7, <1>8, <3>1, <3>2
  <2>2. \A i \in 1 .. Len(r) : Sound(r[i])'
    <3>1. ASSUME NEW i \in 2 .. Len(r) PROVE Sound(r[i])'
      <4>1. i - 1 \in 1 .. Len(q) /\ r[i] = q[i - 1]
        BY <1>8
      <4>2. Sound(q[i - 1])
        BY <1>1, <1>4, <4>1 DEF CallsInv
      <4> QED BY <1>6, <4>1, <4>2 DEF Sound
    <3>2. \A i \in 1 .. Len(r) : i = 1 \/ i \in 2 .. Len(r)
      BY <1>8
    <3> QED BY <1>7, <1>8, <3>1, <3>2
  <2>3. r[Len(r)].owns = TRUE
    BY <1>1, <1>4, <1>8 DEF CallsInv
  <2> QED BY <1>4, <2>1, <2>2, <2>3 DEF CallsInv, Sound
<1>10. ASSUME t \in relocked', writer' = writer, readers' = readers
       PROVE  ReadsIn(t)' \/ WritesIn(t)'
  <2>1. CASE ReadsIn(t)
    BY <1>10, <2>1 DEF ReadsIn
  <2>2. CASE WritesIn(t)
    BY <1>4, <1>8, <1>10, <2>2 DEF WritesIn
  <2> QED BY <1>1, <2>1, <2>2 DEF Busy
<1>11. /\ Busy(t)' /\ writer' = writer
  <2>1. CASE lockState[t] = "Unlocked"
    <3>1. t \in nestedEnded' /\ lockState'[t] # "Unlocked"
      BY <1>1, <1>2, <1>5, <2>1 DEF Busy
    <3>2. CASE Holds(t) /\ relocked' = relocked \cup {t} /\ UNCHANGED <<writer, readers>>
      BY <1>4, <1>8, <1>9, <1>10, <3>1, <3>2 DEF Busy
    <3>3. CASE /\ writer = NoCMThread /\ relocked' = relocked
               /\ ModeOf(op) = "WriteLocked" => readers = {}
               /\ writer' = IF ModeOf(op) = "WriteLocked" THEN t ELSE writer
               /\ readers' = IF ModeOf(op) = "ReadLocked" THEN readers \cup {t} ELSE readers
      <4>1. ReadsIn(t)
        BY <1>1, <1>2, <3>3 DEF Busy, WritesIn
      <4>2. op \in Reading /\ ModeOf(op) = "ReadLocked" /\ writer' = writer /\ readers' = readers \cup {t}
        BY <3>3, <4>1 DEF ReadsIn, ModeOf
      <4>3. lockState'[t] = "ReadLocked"
        BY <1>5, <2>1, <4>2
      <4>4. \A i \in 1 .. Len(r) : r[i].op \in Reading
        <5>1. ASSUME NEW i \in 2 .. Len(r) PROVE r[i].op \in Reading
          BY <1>4, <1>8, <4>1 DEF ReadsIn
        <5>2. \A i \in 1 .. Len(r) : i = 1 \/ i \in 2 .. Len(r)
          BY <1>8
        <5> QED BY <1>7, <1>8, <4>2, <5>1, <5>2
      <4>5. ReadsIn(t)'
        BY <1>4, <4>2, <4>3, <4>4 DEF ReadsIn
      <4> QED BY <1>4, <1>8, <1>9, <3>1, <4>2, <4>5 DEF Busy
    <3> QED BY <1>5, <2>1, <3>2, <3>3 DEF Lock
  <2>2. CASE lockState[t] # "Unlocked"
    <3>1. UNCHANGED <<writer, readers, relocked, lockState>>
      BY <1>5, <2>2
    <3>2. CASE ReadsIn(t)
      <4>1. lockState[t] = "ReadLocked"
        BY <2>2, <3>2 DEF ReadsIn, CMInv, CMTypes, LockTypes
      <4>2. op \in Reading
        BY <4>1 DEF Enter, TooStrong, ModeOf
      <4>3. \A i \in 1 .. Len(r) : r[i].op \in Reading
        <5>1. ASSUME NEW i \in 2 .. Len(r) PROVE r[i].op \in Reading
          BY <1>4, <1>8, <3>2 DEF ReadsIn
        <5>2. \A i \in 1 .. Len(r) : i = 1 \/ i \in 2 .. Len(r)
          BY <1>8
        <5> QED BY <1>7, <1>8, <4>2, <5>1, <5>2
      <4>4. ReadsIn(t)'
        BY <1>4, <3>1, <3>2, <4>1, <4>3 DEF ReadsIn
      <4> QED BY <1>4, <1>8, <1>9, <2>2, <3>1, <4>4 DEF Busy
    <3>3. CASE WritesIn(t)
      <4>1. t \notin nestedEnded /\ lockState[t] = "WriteLocked"
        BY <2>2, <3>3 DEF WritesIn
      <4>2. Waits(q[1])
        <5>1. q[1].op # "SendMessage"
          <6>1. CASE Len(q) = 1
            <7>1. q[1].op \notin Reading
              BY <1>4, <3>3, <6>1 DEF WritesIn
            <7> QED BY <7>1 DEF Reading
          <6>2. CASE Len(q) # 1
            <7>1. Len(q) \in Nat /\ Len(q) >= 1
              BY <1>8
            <7>2. \A n \in Nat : n >= 1 /\ n # 1 => 1 \in 1 .. n - 1
              OBVIOUS
            <7>3. 1 \in 1 .. Len(q) - 1
              BY <6>2, <7>1, <7>2
            <7> QED BY <1>1, <1>4, <7>3 DEF CallsInv
          <6> QED BY <6>1, <6>2
        <5>2. ~(q[1].op = "CreateClient" /\ q[1].step # "find")
          BY <1>4, <3>3, <4>1 DEF WritesIn, SoundHead
        <5> QED BY <1>4, <5>1, <5>2 DEF CallsBack
      <4>3. \A i \in 2 .. Len(r) : Waits(r[i])
        <5>1. ASSUME NEW i \in 2 .. Len(r) PROVE Waits(r[i])
          <6>1. i - 1 \in 1 .. Len(q) /\ r[i] = q[i - 1]
            BY <1>8
          <6>2. i - 1 = 1 \/ i - 1 \in 2 .. Len(q)
            BY <6>1
          <6> QED BY <1>4, <3>3, <4>2, <6>1, <6>2 DEF WritesIn
        <5> QED BY <5>1
      <4>4. WritesIn(t)'
        <5>1. /\ writer' = t /\ calls'[t] = r /\ r[Len(r)].op \notin Reading
              /\ lockState'[t] = "WriteLocked" /\ t \notin nestedEnded'
              /\ SoundHead(t, r[1])'
          BY <1>4, <1>5, <1>7, <1>8, <3>1, <3>3, <4>1 DEF WritesIn
        <5> QED BY <4>3, <5>1 DEF WritesIn, SoundHead, Waits
      <4> QED BY <1>4, <1>8, <1>9, <2>2, <3>1, <4>4 DEF Busy
    <3> QED BY <1>1, <3>2, <3>3 DEF Busy
  <2> QED BY <2>1, <2>2
<1>12. ToldOf(r) = ToldOf(q)
  BY <1>5, <1>7, ToldPushed
<1>13. writer' = t => AgreeBut(ToldOf(calls[t]))'
  <2>1. ToldOf(calls[t])' = ToldOf(q)
    BY <1>4, <1>12 DEF ToldOf
  <2> QED BY <1>4, <1>6, <1>11, <2>1 DEF CMInv, RegistryInv, AgreeBut, ClientsLeft
<1>14. writer' = NoCMThread => AgreeBut({})'
  BY <1>6, <1>11 DEF CMInv, RegistryInv, AgreeBut, ClientsLeft
<1>15. CMTypes'
  BY <1>5, <1>6 DEF CMTypes
<1> QED BY <1>5, <1>6, <1>11, <1>13, <1>14, <1>15, CMStepKeeps

-----------------------------------------------------------------------------
(* Going on and leaving *)

\* A thread that goes on is in a call; one that changes something has the mutex
\* alone, and the calls around rely on no client.
LEMMA InCall ==
  ASSUME CMInv, NEW t \in CMThreads, NEW op, NEW step, In(t, op, step)
  PROVE  /\ t \notin relocked /\ calls[t] # <<>> /\ IsStack(calls[t]) /\ Busy(t)
         /\ Len(calls[t]) \in Nat /\ Len(calls[t]) >= 1
         /\ IsCall(calls[t][1]) /\ calls[t][1].op = op /\ calls[t][1].step = step
         /\ On(t) = calls[t][1].on /\ Sound(calls[t][1])
<1>1. t \notin relocked /\ calls[t] # <<>> /\ Head(calls[t]).op = op /\ Head(calls[t]).step = step
  BY DEF In
<1>2. IsStack(calls[t]) /\ Busy(t)
  BY <1>1 DEF CMInv, CMTypes, LockTypes, Idle
<1>3. Popped(calls[t], Tail(calls[t]))
  BY <1>1, <1>2, StackPopped
<1>4. /\ Len(calls[t]) \in Nat /\ Len(calls[t]) >= 1
      /\ Head(calls[t]) = calls[t][1] /\ IsCall(calls[t][1])
  BY <1>3 DEF Popped
<1>5. Sound(calls[t][1])
  <2>1. \A n \in Nat : n >= 1 => 1 \in 1 .. n
    OBVIOUS
  <2>2. 1 \in 1 .. Len(calls[t])
    BY <1>4, <2>1
  <2> QED BY <1>2, <2>2 DEF Busy, CallsInv
<1> QED BY <1>1, <1>2, <1>4, <1>5 DEF On

\* One whose call writes has the mutex, and its loops say what is behind.
LEMMA InWriting ==
  ASSUME CMInv, NEW t \in CMThreads, NEW op, NEW step, In(t, op, step), op \notin Reading
  PROVE  /\ writer = t /\ WritesIn(t) /\ SoundHead(t, calls[t][1])
         /\ AgreeBut(ToldOf(calls[t]))
<1>1. /\ t \notin relocked /\ Busy(t) /\ Len(calls[t]) \in Nat /\ Len(calls[t]) >= 1
      /\ calls[t][1].op = op
  BY InCall
<1>2. ~ReadsIn(t)
  <2>1. \A n \in Nat : n >= 1 => 1 \in 1 .. n
    OBVIOUS
  <2>2. 1 \in 1 .. Len(calls[t])
    BY <1>1, <2>1
  <2> QED BY <1>1, <2>2 DEF ReadsIn
<1>3. WritesIn(t)
  BY <1>1, <1>2 DEF Busy
<1> QED BY <1>1, <1>3 DEF WritesIn, CMInv, RegistryInv

\* CreateClient is nobody's inner call.
LEMMA InCreateClient ==
  ASSUME CMInv, NEW t \in CMThreads, NEW step, In(t, "CreateClient", step)
  PROVE  Tail(calls[t]) = <<>> /\ ToldOf(calls[t]) = {} /\ ToldOf(Tail(calls[t])) = {}
<1>1. /\ calls[t] # <<>> /\ IsStack(calls[t]) /\ Busy(t)
      /\ Len(calls[t]) \in Nat /\ Len(calls[t]) >= 1
      /\ calls[t][1].op = "CreateClient"
  BY InCall
<1>2. Len(calls[t]) = 1
  <2>1. \A n \in Nat : n >= 1 /\ n # 1 => 1 \in 1 .. n - 1
    OBVIOUS
  <2>2. 1 \notin 1 .. Len(calls[t]) - 1
    BY <1>1 DEF Busy, CallsInv
  <2> QED BY <1>1, <2>1, <2>2
<1>3. Popped(calls[t], Tail(calls[t]))
  BY <1>1, StackPopped
<1>4. Tail(calls[t]) = <<>>
  BY <1>2, <1>3 DEF Popped
<1>5. ToldOf(<<>>) = {}
  BY DEF ToldOf
<1>6. ToldIn(calls[t][1]) = {}
  BY <1>1 DEF ToldIn, ToldBy
<1> QED BY <1>3, <1>4, <1>5, <1>6, ToldPopped

\* What the destructor of a wrapper does: a first call gives the mutex back; the
\* calls around an inner one go on, with the mutex and m_lockState "Unlocked".
LEMMA Leaves ==
  ASSUME CMInv, NEW t \in CMThreads, t \notin relocked, calls[t] # <<>>, Leave(t),
         RegistryTypes', ClientsLeft \/ writer = t,
         NEW L, L = ToldOf(Tail(calls[t])), writer = t => AgreeBut(L)'
  PROVE  CMInv'
<1>1. /\ Busy(t) /\ CallsInv(t) /\ IsStack(calls[t]) /\ NoCMThread \notin CMThreads /\ LockTypes
  BY ClientManagerAssumption DEF CMInv, Idle, Busy, CMTypes, LockTypes
<1>2. PICK q, r : q = calls[t] /\ r = Tail(calls[t])
  OBVIOUS
<1>3. Popped(q, r)
  BY <1>1, <1>2, StackPopped
<1>4. /\ calls' = [calls EXCEPT ![t] = r]
      /\ lockState' = [lockState EXCEPT ![t] = "Unlocked"] /\ relocked' = relocked
      /\ nestedEnded' = IF Len(q) > 1 THEN nestedEnded \cup {t} ELSE nestedEnded \ {t}
  BY <1>2 DEF Leave
<1>5. /\ calls'[t] = r /\ lockState'[t] = "Unlocked"
      /\ \A u \in CMThreads : IsStack(calls'[u])
  <2>1. IsStack(r)
    BY <1>3 DEF Popped
  <2> QED BY <1>1, <1>4, <2>1 DEF LockTypes
<1>6. IF Len(q) = 1 THEN GivenBack(t) ELSE UNCHANGED <<writer, readers>>
  <2>1. Len(q) \in Nat /\ Len(q) >= 1 /\ Len(r) = Len(q) - 1 /\ Head(q) = q[1]
    BY <1>3 DEF Popped
  <2>2. q[Len(q)].owns = TRUE
    BY <1>1, <1>2 DEF CallsInv
  <2>3. CASE Len(q) = 1
    <3>1. r = <<>>
      BY <1>3, <2>3 DEF Popped
    <3>2. Head(calls[t]).owns /\ ~ShareLeft(t)
      BY <1>2, <2>1, <2>2, <2>3, <3>1 DEF ShareLeft
    <3> QED BY <2>3, <3>2 DEF Leave
  <2>4. CASE Len(q) # 1
    <3>1. \A n \in Nat : n >= 1 /\ n # 1 => n - 1 \in 1 .. n - 1 /\ (n - 1) + 1 = n
      OBVIOUS
    <3>2. Len(r) \in 1 .. Len(r) /\ Len(r) + 1 = Len(q)
      BY <2>1, <2>4, <3>1
    <3>3. r[Len(r)].owns = TRUE
      BY <1>3, <2>2, <3>2 DEF Popped
    <3>4. DOMAIN r = 1 .. Len(r)
      <4>1. PICK S : r \in Seq(S)
        BY <1>3 DEF Popped, IsStack
      <4> QED BY <4>1
    <3>5. ShareLeft(t)
      BY <1>2, <3>2, <3>3, <3>4 DEF ShareLeft
    <3> QED BY <2>4, <3>5 DEF Leave
  <2> QED BY <2>3, <2>4
<1>7. LockTypes' /\ OthersLeft(t)
  <2>1. CASE Len(q) = 1
    BY <1>1, <1>4, <1>5, <1>6, <2>1 DEF LockTypes, OthersLeft, GivenBack
  <2>2. CASE Len(q) # 1
    BY <1>1, <1>4, <1>5, <1>6, <2>2 DEF LockTypes, OthersLeft
  <2> QED BY <2>1, <2>2
<1>8. Idle(t)' \/ Busy(t)'
  <2>1. CASE Len(q) = 1
    <3>1. r = <<>>
      BY <1>3, <2>1 DEF Popped
    <3>2. t \notin nestedEnded'
      BY <1>4, <2>1
    <3> QED BY <1>1, <1>4, <1>5, <1>6, <2>1, <3>1, <3>2 DEF Idle, GivenBack
  <2>2. CASE Len(q) # 1
    <3>1. /\ Len(q) \in Nat /\ Len(q) > 1 /\ Len(r) = Len(q) - 1 /\ r # <<>>
          /\ \A i \in 1 .. Len(r) : i + 1 \in 2 .. Len(q) /\ r[i] = q[i + 1]
      BY <1>3, <2>2 DEF Popped
    <3>2. writer' = writer /\ readers' = readers /\ t \in nestedEnded'
      BY <1>4, <1>6, <2>2, <3>1
    <3>3. \A n \in Nat : n > 1 => /\ 1 \in 1 .. n - 1 /\ n - 1 \in 1 .. n - 1 /\ (n - 1) + 1 = n
                                  /\ \A i \in 1 .. (n - 1) - 1 : i \in 1 .. n - 1 /\ i + 1 \in 1 .. n - 1
                                  /\ \A i \in 2 .. n - 1 : i \in 1 .. n - 1 /\ i + 1 \in 2 .. n
                                  /\ \A i \in 2 .. n : i \in 1 .. n
      OBVIOUS
    <3>4. r[Len(r)].owns = TRUE /\ r[Len(r)] = q[Len(q)] /\ r[1] = q[2] /\ 2 \in 2 .. Len(q)
      BY <1>1, <1>2, <3>1, <3>3 DEF CallsInv
    <3>5. \A i \in 1 .. Len(r) - 1 : r[i].op \notin {"SendMessage", "CreateClient"}
      BY <1>1, <1>2, <3>1, <3>3 DEF CallsInv
    <3>6. CASE ReadsIn(t)
      <4>1. ClientsLeft /\ Entries' = Entries
        BY <1>1, <3>6 DEF LockTypes, ReadsIn, ClientsLeft, Entries
      <4>2. ASSUME NEW i \in 1 .. Len(r) PROVE Sound(r[i])' /\ r[i].op \in Reading
        <5>1. r[i] = q[i + 1] /\ i + 1 \in 1 .. Len(q)
          BY <3>1, <3>3
        <5>2. Sound(q[i + 1]) /\ q[i + 1].op \in Reading
          BY <1>1, <1>2, <3>6, <5>1 DEF CallsInv, ReadsIn
        <5> QED BY <4>1, <5>1, <5>2 DEF Sound
      <4>3. CallsInv(t)'
        BY <1>5, <3>4, <3>5, <4>2 DEF CallsInv, Sound
      <4>4. ReadsIn(t)'
        BY <1>5, <3>2, <3>6, <4>2 DEF ReadsIn
      <4> QED BY <1>4, <1>5, <3>1, <3>2, <4>3, <4>4 DEF Busy
    <3>7. CASE WritesIn(t)
      <4>1. ASSUME NEW i \in 1 .. Len(r) PROVE Sound(r[i])' /\ Waits(r[i])
        <5>1. r[i] = q[i + 1] /\ i + 1 \in 1 .. Len(q) /\ i + 1 \in 2 .. Len(q)
          BY <3>1, <3>3
        <5>2. Sound(q[i + 1]) /\ Waits(q[i + 1])
          BY <1>1, <1>2, <3>7, <5>1 DEF CallsInv, WritesIn
        <5> QED BY <5>1, <5>2 DEF Sound, Waits
      <4>2. CallsInv(t)'
        BY <1>5, <3>4, <3>5, <4>1 DEF CallsInv, Sound
      <4>3. /\ writer' = t /\ r[Len(r)].op \notin Reading /\ lockState'[t] = "Unlocked"
            /\ SoundHead(t, r[1])'
        <5>1. Waits(r[1])
          BY <3>1, <3>3, <4>1
        <5>2. SoundHead(t, r[1])'
          BY <5>1 DEF Waits, SoundHead
        <5> QED BY <1>2, <1>5, <3>2, <3>4, <3>7, <5>2 DEF WritesIn
      <4>4. \A i \in 2 .. Len(r) : Waits(r[i])
        BY <3>1, <3>3, <4>1
      <4>5. WritesIn(t)'
        BY <1>5, <3>2, <4>3, <4>4 DEF WritesIn, SoundHead, Waits
      <4> QED BY <1>4, <1>5, <3>1, <3>2, <4>2, <4>5 DEF Busy
    <3> QED BY <1>1, <3>6, <3>7 DEF Busy
  <2> QED BY <2>1, <2>2
<1>9. writer' = t => AgreeBut(ToldOf(calls[t]))'
  <2>1. ToldOf(calls[t])' = L
    BY <1>2, <1>5 DEF ToldOf
  <2>2. writer' = t => writer = t
    BY <1>6 DEF GivenBack
  <2> QED BY <2>1, <2>2 DEF AgreeBut
<1>10. writer' = NoCMThread => AgreeBut({})'
  <2>1. CASE writer = NoCMThread
    <3>1. ClientsLeft /\ Entries' = Entries
      BY <1>1, <2>1 DEF ClientsLeft, Entries
    <3> QED BY <2>1, <3>1 DEF CMInv, RegistryInv, AgreeBut, ClientsLeft
  <2>2. CASE writer # NoCMThread
    <3>1. ASSUME writer' = NoCMThread PROVE writer = t /\ Len(q) = 1
      BY <1>6, <2>2, <3>1 DEF GivenBack
    <3>2. ASSUME Len(q) = 1 PROVE L = {}
      <4>1. r = <<>>
        BY <1>3, <3>2 DEF Popped
      <4>2. ToldOf(<<>>) = {}
        BY DEF ToldOf
      <4> QED BY <1>2, <4>1, <4>2
    <3> QED BY <3>1, <3>2 DEF AgreeBut
  <2> QED BY <2>1, <2>2
<1>11. CMTypes'
  BY <1>7 DEF CMTypes
<1> QED BY <1>7, <1>8, <1>9, <1>10, <1>11, CMStepKeeps

\* A call goes on.
LEMMA GoesOn ==
  ASSUME CMInv, NEW t \in CMThreads, t \notin relocked, calls[t] # <<>>,
         NEW step, NEW on, Goes(t, step, on),
         RegistryTypes', ClientsLeft \/ writer = t,
         NEW op, op = calls[t][1].op, op # "AddService",
         step \in {"pass", "tell"} => on \in Entries',
         step = "create" => on \in DOMAIN serviceMap',
         op = "RemoveService" => IsRemoval(on),
         op = "CreateClient" => t \in nestedEnded,
         NEW L, L = ToldOf(Tail(calls[t])) \cup ToldBy(op, on),
         writer = t => AgreeBut(L)'
  PROVE  CMInv'
<1>1. /\ Busy(t) /\ CallsInv(t) /\ IsStack(calls[t]) /\ NoCMThread \notin CMThreads /\ LockTypes
  BY ClientManagerAssumption DEF CMInv, Idle, Busy, CMTypes, LockTypes
<1>2. PICK q, a : q = calls[t] /\ a = [q[1] EXCEPT !.step = step, !.on = on]
  OBVIOUS
<1>3. PICK r : r = <<a>> \o Tail(q)
  OBVIOUS
<1>4. /\ IsCall(a) /\ a.op = op /\ a.step = step /\ a.on = on /\ a.owns = q[1].owns
      /\ Head(q) = q[1]
  <2>1. Popped(q, Tail(q))
    BY <1>1, <1>2, StackPopped
  <2>2. IsCall(q[1])
    BY <2>1 DEF Popped
  <2>3. IsMoved(a, q[1], step, on)
    BY <1>2, <2>2, MovedOn
  <2> QED BY <1>2, <2>1, <2>3 DEF Popped, IsMoved
<1>5. CallReplaced(q, a, r)
  BY <1>1, <1>2, <1>3, <1>4, StackReplaced
<1>6. /\ IsStack(r) /\ r # <<>> /\ Len(q) \in Nat /\ Len(q) >= 1 /\ Len(r) = Len(q)
      /\ r[1] = a /\ \A i \in 2 .. Len(q) : r[i] = q[i]
  BY <1>5 DEF CallReplaced
<1>7. /\ calls' = [calls EXCEPT ![t] = r]
      /\ UNCHANGED <<writer, readers, lockState, nestedEnded, relocked>>
  <2>1. calls' = [calls EXCEPT ![t] = <<[Head(@) EXCEPT !.step = step, !.on = on]>> \o Tail(@)]
        /\ UNCHANGED <<writer, readers, lockState, nestedEnded, relocked>>
    BY DEF Goes, lockVars
  <2>2. r = <<[Head(calls[t]) EXCEPT !.step = step, !.on = on]>> \o Tail(calls[t])
    BY <1>2, <1>3, <1>4
  <2> QED BY <2>1, <2>2
<1>8. calls'[t] = r /\ LockTypes' /\ OthersLeft(t)
  BY <1>1, <1>6, <1>7 DEF LockTypes, OthersLeft
<1>9. \A n \in Nat : n >= 1 => /\ n = 1 \/ n \in 2 .. n
                               /\ \A i \in 1 .. n : i = 1 \/ i \in 2 .. n
                               /\ \A i \in 1 .. n - 1 : i = 1 \/ i \in 2 .. n
                               /\ \A i \in 2 .. n : i \in 1 .. n
                               /\ 1 \in 1 .. n
  OBVIOUS
<1>10. r[Len(r)].owns = q[Len(q)].owns /\ r[Len(r)].op = q[Len(q)].op
  <2>1. CASE Len(q) = 1
    <3>1. r[Len(r)] = a /\ q[Len(q)] = q[1]
      BY <1>6, <2>1
    <3> QED BY <1>2, <1>4, <3>1
  <2>2. CASE Len(q) # 1
    BY <1>6, <1>9, <2>2
  <2> QED BY <2>1, <2>2
<1>11. \A i \in 1 .. Len(r) - 1 : r[i].op \notin {"SendMessage", "CreateClient"}
  <2>1. ASSUME NEW i \in 1 .. Len(r) - 1 PROVE r[i].op = q[i].op
    BY <1>2, <1>4, <1>6, <1>9
  <2> QED BY <1>1, <1>2, <1>6, <2>1 DEF CallsInv
<1>12. Sound(a)'
  BY <1>4 DEF Sound
<1>13. CASE ReadsIn(t)
  <2>1. ClientsLeft /\ Entries' = Entries
    BY <1>1, <1>13 DEF LockTypes, ReadsIn, ClientsLeft, Entries
  <2>2. ASSUME NEW i \in 1 .. Len(r) PROVE Sound(r[i])' /\ r[i].op \in Reading
    <3>1. CASE i = 1
      <4>1. 1 \in 1 .. Len(q)
        BY <1>6, <1>9
      <4>2. q[1].op \in Reading
        BY <1>2, <1>13, <4>1 DEF ReadsIn
      <4> QED BY <1>2, <1>4, <1>6, <1>12, <3>1, <4>2
    <3>2. CASE i # 1
      <4>1. i \in 2 .. Len(q) /\ i \in 1 .. Len(q) /\ r[i] = q[i]
        BY <1>6, <1>9, <3>2
      <4>2. Sound(q[i]) /\ q[i].op \in Reading
        BY <1>1, <1>2, <1>13, <4>1 DEF CallsInv, ReadsIn
      <4> QED BY <2>1, <4>1, <4>2 DEF Sound
    <3> QED BY <3>1, <3>2
  <2>3. CallsInv(t)'
    BY <1>1, <1>2, <1>8, <1>10, <1>11, <2>2 DEF CallsInv, Sound
  <2>4. ReadsIn(t)'
    BY <1>7, <1>8, <1>13, <2>2 DEF ReadsIn
  <2>5. Busy(t)'
    BY <1>1, <1>6, <1>7, <1>8, <2>3, <2>4 DEF Busy
  <2>6. writer # t
    BY <1>1, <1>13 DEF LockTypes, ReadsIn
  <2>7. writer' = NoCMThread => AgreeBut({})'
    BY <1>7, <2>1 DEF CMInv, RegistryInv, AgreeBut, ClientsLeft
  <2>8. CMTypes' /\ writer' # t
    BY <1>7, <1>8, <2>6 DEF CMTypes
  <2> QED BY <1>8, <2>1, <2>5, <2>7, <2>8, CMStepKeeps
<1>14. CASE WritesIn(t)
  <2>1. ASSUME NEW i \in 2 .. Len(r) PROVE Sound(r[i])' /\ Waits(r[i])
    <3>1. i \in 2 .. Len(q) /\ i \in 1 .. Len(q) /\ r[i] = q[i]
      BY <1>6, <1>9
    <3>2. Sound(q[i]) /\ Waits(q[i])
      BY <1>1, <1>2, <1>14, <3>1 DEF CallsInv, WritesIn
    <3> QED BY <3>1, <3>2 DEF Sound, Waits
  <2>2. \A i \in 1 .. Len(r) : Sound(r[i])'
    BY <1>6, <1>9, <1>12, <2>1
  <2>3. CallsInv(t)'
    BY <1>1, <1>2, <1>8, <1>10, <1>11, <2>2 DEF CallsInv, Sound
  <2>4. SoundHead(t, r[1])'
    BY <1>4, <1>6, <1>7 DEF SoundHead
  <2>5. WritesIn(t)'
    BY <1>2, <1>7, <1>8, <1>10, <1>14, <2>1, <2>4 DEF WritesIn, SoundHead, Waits
  <2>6. Busy(t)'
    BY <1>1, <1>6, <1>7, <1>8, <2>3, <2>5 DEF Busy
  <2>7. AgreeBut(ToldOf(calls[t]))'
    <3>1. ToldOf(r) = ToldOf(Tail(q)) \cup ToldIn(a)
      BY <1>1, <1>2, <1>3, <1>4, ToldReplaced
    <3>2. ToldOf(r) = L
      BY <1>2, <1>4, <3>1 DEF ToldIn
    <3>3. ToldOf(calls[t])' = L
      BY <1>8, <3>2 DEF ToldOf
    <3> QED BY <1>14, <3>3 DEF AgreeBut, WritesIn
  <2>8. CMTypes' /\ writer' # NoCMThread /\ writer = t
    BY <1>1, <1>7, <1>8, <1>14 DEF CMTypes, WritesIn
  <2> QED BY <1>8, <2>6, <2>7, <2>8, CMStepKeeps
<1> QED BY <1>1, <1>13, <1>14 DEF Busy

-----------------------------------------------------------------------------
(* The calls *)

\* What loops are done with, the innermost call apart.
LEMMA ToldAround ==
  ASSUME CMInv, NEW t \in CMThreads, NEW op, NEW step, In(t, op, step)
  PROVE  /\ ToldOf(calls[t]) = ToldOf(Tail(calls[t])) \cup ToldBy(op, On(t))
         /\ op # "RemoveService" => ToldBy(op, On(t)) = {}
<1>1. /\ calls[t] # <<>> /\ IsStack(calls[t]) /\ calls[t][1].op = op /\ On(t) = calls[t][1].on
  BY InCall
<1>2. Popped(calls[t], Tail(calls[t]))
  BY <1>1, StackPopped
<1>3. ToldOf(calls[t]) = ToldOf(Tail(calls[t])) \cup ToldIn(calls[t][1])
  BY <1>2, ToldPopped
<1>4. op # "RemoveService" => ToldBy(op, On(t)) = {}
  BY DEF ToldBy
<1> QED BY <1>1, <1>3, <1>4 DEF ToldIn

\* A call that changes nothing ends, or goes on.
LEMMA EndsAsItIsKeeps ==
  ASSUME CMInv, NEW t \in CMThreads, NEW op, NEW step, In(t, op, step), EndsAsItIs(t),
         op # "RemoveService"
  PROVE  CMInv'
<1>1. t \notin relocked /\ calls[t] # <<>>
  BY InCall
<1>2. Leave(t) /\ RegistryLeft
  BY DEF EndsAsItIs, Ends, RegistryLeft, cmOutside
<1>3. ClientsLeft /\ RegistryTypes' /\ Entries' = Entries
  BY <1>2, RegistryStays
<1>4. PICK L : L = ToldOf(Tail(calls[t]))
  OBVIOUS
<1>5. writer = t => AgreeBut(L)'
  <2>1. ToldOf(calls[t]) = L
    BY <1>4, ToldAround
  <2> QED BY <1>3, <2>1 DEF CMInv, RegistryInv, AgreeBut, ClientsLeft
<1> QED BY <1>1, <1>2, <1>3, <1>4, <1>5, Leaves

\* A call that goes on to another step, with the registry as it was.
LEMMA GoesAsItIsKeeps ==
  ASSUME CMInv, NEW t \in CMThreads, NEW op, NEW at, In(t, op, at), RegistryLeft,
         NEW step, NEW on, Goes(t, step, on), op \notin {"AddService", "RemoveService"},
         step \in {"pass", "tell"} => on \in Entries,
         step = "create" => on \in DOMAIN serviceMap,
         op = "CreateClient" => t \in nestedEnded
  PROVE  CMInv'
<1>1. t \notin relocked /\ calls[t] # <<>> /\ op = calls[t][1].op
  BY InCall
<1>2. ClientsLeft /\ RegistryTypes' /\ Entries' = Entries
  BY RegistryStays
<1>3. PICK L : L = ToldOf(Tail(calls[t])) \cup ToldBy(op, on)
  OBVIOUS
<1>4. writer = t => AgreeBut(L)'
  <2>1. ToldOf(calls[t]) = L
    <3>1. ToldOf(calls[t]) = ToldOf(Tail(calls[t])) /\ ToldBy(op, on) = {}
      BY ToldAround DEF ToldBy
    <3> QED BY <1>3, <3>1
  <2> QED BY <1>2, <2>1 DEF CMInv, RegistryInv, AgreeBut, ClientsLeft
<1>5. /\ step = "create" => on \in DOMAIN serviceMap'
      /\ step \in {"pass", "tell"} => on \in Entries'
  BY <1>2 DEF ClientsLeft
<1>6. op # "AddService" /\ op # "RemoveService"
  OBVIOUS
<1>7. ClientsLeft /\ RegistryTypes'
  BY <1>2
<1> QED BY <1>1, <1>3, <1>4, <1>5, <1>6, <1>7, GoesOn

\* A thread stays where it is, the registry too.
LEMMA StaysKeeps ==
  ASSUME CMInv, RegistryLeft, UNCHANGED <<lockVars, calls>>, NEW t \in CMThreads, calls[t] # <<>>
  PROVE  CMInv'
<1>1. /\ ClientsLeft /\ RegistryTypes' /\ Entries' = Entries
      /\ UNCHANGED <<writer, readers, lockState, nestedEnded, relocked, calls>>
  BY RegistryStays DEF lockVars
<1>2. CMTypes' /\ OthersLeft(t)
  BY <1>1 DEF CMInv, CMTypes, LockTypes, OthersLeft
<1>3. Busy(t)'
  <2>1. Busy(t)
    BY DEF CMInv, Idle
  <2>2. \A a : Sound(a) => Sound(a)'
    BY <1>1 DEF Sound
  <2>3. CallsInv(t)'
    BY <1>1, <2>1, <2>2 DEF Busy, CallsInv
  <2>4. ReadsIn(t) => ReadsIn(t)'
    BY <1>1 DEF ReadsIn
  <2>5. WritesIn(t) => WritesIn(t)'
    BY <1>1 DEF WritesIn, SoundHead, ClientsLeft
  <2> QED BY <1>1, <2>1, <2>3, <2>4, <2>5 DEF Busy
<1>4. writer' = t => AgreeBut(ToldOf(calls[t]))'
  <2>1. ToldOf(calls[t])' = ToldOf(calls[t])
    BY <1>1 DEF ToldOf
  <2> QED BY <1>1, <2>1 DEF CMInv, RegistryInv, AgreeBut, ClientsLeft
<1>5. writer' = NoCMThread => AgreeBut({})'
  BY <1>1 DEF CMInv, RegistryInv, AgreeBut, ClientsLeft
<1> QED BY <1>1, <1>2, <1>3, <1>4, <1>5, CMStepKeeps

-----------------------------------------------------------------------------
\* One of some calls begins.
Starts(t, ops) ==
  \E op \in ops : \E step, on :
    Begins(op, step, on) /\ Enter(t, ModeOf(op), Call(op, step, on))

OuterCalls == {"AddMethod", "CreateClient", "SendMessage"}
InnerCalls ==
  {"AddService", "FindService", "RemoveService", "DispatchMessageToProxy", "OnProxyDestroyed"}

\* What begins, and that it asks for the mutex in the mode that its name has.
LEMMA Beginning ==
  ASSUME NEW t \in CMThreads
  PROVE  /\ \/ MethodCalls(t)
            \/ \E e : BeginDestroy(t, e)
            \/ \E n : Begin(t, "ReadLocked", Call("FindService", "find", n))
            => RegistryLeft /\ Starts(t, InnerCalls)
         /\ \/ Begin(t, "WriteLocked", Call("AddMethod", "add", 0))
            \/ \E n : Begin(t, "WriteLocked", Call("CreateClient", "find", n))
            \/ \E e : Begin(t, "ReadLocked", Call("SendMessage", "lookup", e))
            => RegistryLeft /\ Starts(t, OuterCalls)
<1>1. ASSUME NEW ops, NEW op \in ops, NEW step, NEW on, NEW mode, mode = ModeOf(op),
             Begins(op, step, on), Begin(t, mode, Call(op, step, on))
      PROVE  RegistryLeft /\ Starts(t, ops)
  BY <1>1 DEF Begin, RegistryLeft, cmOutside, Starts
<1>2. /\ ModeOf("AddMethod") = "WriteLocked" /\ ModeOf("AddService") = "WriteLocked"
      /\ ModeOf("CreateClient") = "WriteLocked" /\ ModeOf("RemoveService") = "WriteLocked"
      /\ ModeOf("OnProxyDestroyed") = "WriteLocked"
      /\ ModeOf("FindService") = "ReadLocked" /\ ModeOf("SendMessage") = "ReadLocked"
      /\ ModeOf("DispatchMessageToProxy") = "ReadLocked"
  BY DEF ModeOf, Reading
<1>3. ASSUME NEW n
      PROVE  /\ Begins("AddMethod", "add", n) /\ Begins("CreateClient", "find", n)
             /\ Begins("FindService", "find", n) /\ Begins("SendMessage", "lookup", n)
             /\ Begins("DispatchMessageToProxy", "lookup", n)
             /\ Begins("OnProxyDestroyed", "destroy", n)
             /\ freeServiceID < MaxServices => Begins("AddService", "add", n)
  BY DEF Begins
<1>4. ASSUME NEW n, freeServiceID < MaxServices,
             Begin(t, "WriteLocked", Call("AddService", "add", n))
      PROVE  RegistryLeft /\ Starts(t, InnerCalls)
  <2>1. "AddService" \in InnerCalls
    BY DEF InnerCalls
  <2> QED BY <1>1, <1>2, <1>3, <1>4, <2>1
<1>5. ASSUME NEW n,
             \/ Begin(t, "ReadLocked", Call("FindService", "find", n))
             \/ Begin(t, "ReadLocked", Call("DispatchMessageToProxy", "lookup", n))
      PROVE  RegistryLeft /\ Starts(t, InnerCalls)
  <2>1. "FindService" \in InnerCalls /\ "DispatchMessageToProxy" \in InnerCalls
    BY DEF InnerCalls
  <2> QED BY <1>1, <1>2, <1>3, <1>5, <2>1
<1>6. ASSUME NEW s,
             Begin(t, "WriteLocked", Call("RemoveService", "destroy",
                                          [service |-> s, told |-> {}, now |-> <<>>]))
      PROVE  RegistryLeft /\ Starts(t, InnerCalls)
  <2>1. PICK on : on = [service |-> s, told |-> {}, now |-> <<>>]
    OBVIOUS
  <2>2. on.told = {} /\ on.service = s /\ on.now = <<>>
    BY <2>1
  <2>3. Begins("RemoveService", "destroy", on)
    BY <2>1, <2>2 DEF Begins, IsRemoval
  <2>4. "RemoveService" \in InnerCalls
    BY DEF InnerCalls
  <2> QED BY <1>1, <1>2, <1>6, <2>1, <2>3, <2>4
<1>7. ASSUME NEW e, BeginDestroy(t, e)
      PROVE  RegistryLeft /\ Starts(t, InnerCalls)
  <2>1. RegistryLeft /\ Enter(t, "WriteLocked", Call("OnProxyDestroyed", "destroy", e))
    BY <1>7 DEF BeginDestroy, RegistryLeft
  <2>2. "OnProxyDestroyed" \in InnerCalls
    BY DEF InnerCalls
  <2> QED BY <1>2, <1>3, <2>1, <2>2 DEF Starts
<1>8. ASSUME MethodCalls(t) PROVE RegistryLeft /\ Starts(t, InnerCalls)
  BY <1>4, <1>5, <1>6, <1>8 DEF MethodCalls
<1>9. ASSUME NEW n,
             \/ Begin(t, "ReadLocked", Call("SendMessage", "lookup", n))
             \/ Begin(t, "WriteLocked", Call("CreateClient", "find", n))
             \/ Begin(t, "WriteLocked", Call("AddMethod", "add", n))
      PROVE  RegistryLeft /\ Starts(t, OuterCalls)
  <2>1. /\ "SendMessage" \in OuterCalls /\ "CreateClient" \in OuterCalls
        /\ "AddMethod" \in OuterCalls
    BY DEF OuterCalls
  <2> QED BY <1>1, <1>2, <1>3, <1>9, <2>1
<1> QED BY <1>5, <1>7, <1>8, <1>9

\* From outside.
LEMMA OutsideKeeps ==
  ASSUME CMInv, NEW t \in CMThreads, Outside(t)
  PROVE  CMInv'
<1>1. calls[t] = <<>>
  BY DEF Outside
<1>2. RegistryLeft /\ \E ops : Starts(t, ops)
  BY Beginning DEF Outside
<1> QED BY <1>1, <1>2, EntersFirst DEF Starts

\* From within another call.
LEMMA WithinKeeps ==
  ASSUME CMInv, NEW t \in CMThreads, Within(t)
  PROVE  CMInv'
<1>1. RegistryLeft /\ Starts(t, InnerCalls)
  BY Beginning DEF Within
<1>2. PICK op, step : In(t, op, step) /\
        <<op, step>> \in {<<"CreateClient", "find">>, <<"AddMethod", "add">>,
                         <<"CreateClient", "connect">>, <<"CreateClient", "tell">>,
                         <<"SendMessage", "pass">>, <<"RemoveService", "told">>,
                         <<"OnProxyDestroyed", "told">>}
  BY DEF Within, InMethod
<1>3. /\ t \notin relocked /\ calls[t] # <<>>
      /\ calls[t][1].op = op /\ calls[t][1].step = step
  BY <1>2, InCall
<1>4. CallsBack(calls[t][1])
  BY <1>2, <1>3 DEF CallsBack, Waits
<1>5. "SendMessage" \notin InnerCalls /\ "CreateClient" \notin InnerCalls
  BY DEF InnerCalls
<1> QED BY <1>1, <1>3, <1>4, <1>5, EntersWithin DEF Starts

\* A reader whose method calls what would write leaves all its calls, or ends
\* the process.
LEMMA ThrowKeeps ==
  ASSUME CMInv, NEW t \in CMThreads, ThrowWithin(t)
  PROVE  CMInv'
<1>1. /\ TooStrong(t, "WriteLocked") /\ RegistryLeft
      /\ Throw(t, "WriteLocked") \/ UNCHANGED <<lockVars, calls>>
  BY DEF ThrowWithin, Throw, RegistryLeft, Crashes
<1>2. t \notin relocked /\ calls[t] # <<>> /\ Busy(t)
  <2>1. PICK op, step : In(t, op, step)
    BY DEF ThrowWithin, InMethod
  <2> QED BY <2>1, InCall
<1>3. CASE UNCHANGED <<lockVars, calls>>
  BY <1>1, <1>2, <1>3, StaysKeeps
<1>4. CASE Throw(t, "WriteLocked")
  <2>1. lockState[t] = "ReadLocked"
    BY <1>1 DEF TooStrong
  <2>2. t \in readers /\ NoCMThread \notin CMThreads /\ LockTypes
    BY <1>2, <2>1, ClientManagerAssumption DEF Busy, ReadsIn, WritesIn, CMInv, CMTypes
  <2>3. writer # t /\ writer = NoCMThread
    BY <2>2 DEF LockTypes
  <2>4. /\ calls' = [calls EXCEPT ![t] = <<>>]
        /\ lockState' = [lockState EXCEPT ![t] = "Unlocked"]
        /\ nestedEnded' = nestedEnded \ {t} /\ relocked' = relocked
        /\ writer' = writer /\ readers' = readers \ {t}
    BY <1>4, <2>3 DEF Throw, GivenBack
  <2>5. ClientsLeft /\ RegistryTypes' /\ Entries' = Entries
    BY <1>1, RegistryStays
  <2>6. IsStack(<<>>)
    BY DEF IsStack
  <2>7. LockTypes' /\ OthersLeft(t)
    BY <2>2, <2>4, <2>6 DEF LockTypes, OthersLeft
  <2>8. Idle(t)'
    BY <1>2, <2>2, <2>3, <2>4 DEF LockTypes, Idle
  <2>9. AgreeBut({})' /\ writer' # t
    BY <2>3, <2>4, <2>5 DEF CMInv, RegistryInv, AgreeBut, ClientsLeft
  <2>10. CMTypes'
    BY <2>5, <2>7 DEF CMTypes
  <2> QED BY <2>5, <2>7, <2>8, <2>9, <2>10, CMStepKeeps
<1> QED BY <1>1, <1>3, <1>4

\* AddMethod.
LEMMA AddMethodKeeps ==
  ASSUME CMInv, NEW t \in CMThreads, AddMethod(t)
  PROVE  CMInv'
<1>1. In(t, "AddMethod", "add") /\ "AddMethod" \notin Reading
  BY DEF AddMethod, Reading
<1>2. writer = t /\ AgreeBut(ToldOf(calls[t])) /\ t \notin relocked /\ calls[t] # <<>>
  BY <1>1, InWriting, InCall
<1>3. /\ Leave(t) /\ methods' = methods + 1
      /\ UNCHANGED <<serviceMap, freeServiceID, receivers, methodClients, refused, proxies>>
      /\ Entries' = Entries
  BY DEF AddMethod, Ends, cmOutside, Entries
<1>4. RegistryTypes'
  <2>1. \A e : GivenOut(e) <=> GivenOut(e)'
    BY <1>3 DEF GivenOut
  <2> QED BY <1>3, <2>1 DEF CMInv, CMTypes, RegistryTypes
<1>5. PICK L : L = ToldOf(Tail(calls[t]))
  OBVIOUS
<1>6. ToldOf(calls[t]) = L
  <2>1. ToldOf(calls[t]) = ToldOf(Tail(calls[t])) \cup ToldBy("AddMethod", On(t))
    BY <1>1, ToldAround
  <2> QED BY <1>5, <2>1 DEF ToldBy
<1>7. AgreeBut(L)'
  BY <1>2, <1>3, <1>6 DEF AgreeBut
<1> QED BY <1>2, <1>3, <1>4, <1>5, <1>7, Leaves

\* AddService: its ID is new, so that no client has it.
LEMMA AddServiceKeeps ==
  ASSUME CMInv, NEW t \in CMThreads, AddService(t)
  PROVE  CMInv'
<1>1. In(t, "AddService", "add") /\ "AddService" \notin Reading
  BY DEF AddService, Reading
<1>2. writer = t /\ AgreeBut(ToldOf(calls[t])) /\ t \notin relocked /\ calls[t] # <<>>
  BY <1>1, InWriting, InCall
<1>3. freeServiceID < MaxServices
  <2>1. SoundHead(t, calls[t][1]) /\ calls[t][1].op = "AddService"
    BY <1>1, InWriting, InCall
  <2> QED BY <2>1 DEF SoundHead
<1>4. Leave(t) /\ UNCHANGED <<methods, receivers, methodClients, refused, proxies>>
  BY DEF AddService, Ends, cmOutside
<1>5. RegistryTypes /\ MaxServices \in Nat /\ MaxCMClients \in Nat
  BY ClientManagerAssumption DEF CMInv, CMTypes
<1>6. RegistryTypes' /\ Entries' = Entries
  <2>1. CASE UNCHANGED <<serviceMap, freeServiceID>>
    <3>1. Entries' = Entries /\ \A e : GivenOut(e) <=> GivenOut(e)'
      BY <2>1 DEF Entries, GivenOut
    <3> QED BY <1>4, <1>5, <2>1, <3>1 DEF RegistryTypes
  <2>2. CASE \E m \in KnownMethods(t) :
               /\ serviceMap' = Put(serviceMap, freeServiceID, CMService(m))
               /\ freeServiceID' = freeServiceID + 1
    <3>1. PICK m \in KnownMethods(t) :
               /\ serviceMap' = Put(serviceMap, freeServiceID, CMService(m))
               /\ freeServiceID' = freeServiceID + 1
      BY <2>2
    <3>2. CMService(m) \in CMServices /\ CMService(m).clients = {}
      <4>1. m \in Nat
        <5>1. methods \in Nat /\ methods + 1 \in Nat
          BY <1>5 DEF RegistryTypes
        <5>2. \A n \in Nat : 1 .. n \subseteq Nat
          OBVIOUS
        <5>3. KnownMethods(t) \in {1 .. methods, 1 .. (methods + 1)}
          BY DEF KnownMethods
        <5> QED BY <3>1, <5>1, <5>2, <5>3
      <4> QED BY <1>5, <4>1 DEF CMService, CMServices
    <3>3. /\ DOMAIN serviceMap' = DOMAIN serviceMap \cup {freeServiceID}
          /\ serviceMap' = [x \in DOMAIN serviceMap' |-> serviceMap'[x]]
          /\ serviceMap'[freeServiceID] = CMService(m)
          /\ \A x \in DOMAIN serviceMap : x # freeServiceID /\ serviceMap'[x] = serviceMap[x]
      BY <1>5, <3>1 DEF Put, RegistryTypes
    <3>4. \A x \in DOMAIN serviceMap' : serviceMap'[x] \in CMServices
      BY <1>5, <3>2, <3>3 DEF RegistryTypes
    <3>5. DOMAIN serviceMap' \subseteq 0 .. freeServiceID' - 1 /\ freeServiceID' \in 0 .. MaxServices
      BY <1>3, <1>5, <3>1, <3>3 DEF RegistryTypes
    <3>6. Entries' = Entries
      BY <3>2, <3>3 DEF Entries
    <3>7. ASSUME NEW e, GivenOut(e) PROVE GivenOut(e)'
      <4>1. e \in CMClients /\ e[1] \in Nat /\ freeServiceID \in Nat
        BY <1>5, <3>7 DEF GivenOut, CMClients, CMServiceIDs, RegistryTypes
      <4>2. e[1] < freeServiceID' /\ e[1] # freeServiceID
        BY <3>1, <3>7, <4>1 DEF GivenOut
      <4>3. e[1] \in DOMAIN serviceMap' => e[1] \in DOMAIN serviceMap
        BY <3>3, <4>2
      <4> QED BY <3>3, <3>7, <4>1, <4>2, <4>3 DEF GivenOut
    <3>8. \A e \in Entries' \cup refused' : GivenOut(e)'
      BY <1>4, <1>5, <3>6, <3>7 DEF RegistryTypes
    <3>9. RegistryTypes'
      BY <1>4, <1>5, <3>3, <3>4, <3>5, <3>8 DEF RegistryTypes
    <3> QED BY <3>6, <3>9
  <2> QED BY <2>1, <2>2 DEF AddService
<1>7. PICK L : L = ToldOf(Tail(calls[t]))
  OBVIOUS
<1>8. ToldOf(calls[t]) = L
  <2>1. ToldOf(calls[t]) = ToldOf(Tail(calls[t])) \cup ToldBy("AddService", On(t))
    BY <1>1, ToldAround
  <2> QED BY <1>7, <2>1 DEF ToldBy
<1>9. AgreeBut(L)'
  BY <1>2, <1>4, <1>6, <1>8 DEF AgreeBut
<1> QED BY <1>2, <1>4, <1>6, <1>7, <1>9, Leaves

\* The loop of RemoveService: a client's method is told ...
LEMMA DestroyClientKeeps ==
  ASSUME CMInv, NEW t \in CMThreads, DestroyClient(t)
  PROVE  CMInv'
<1>1. In(t, "RemoveService", "destroy") /\ "RemoveService" \notin Reading
  BY DEF DestroyClient, Reading
<1>2. /\ writer = t /\ AgreeBut(ToldOf(calls[t])) /\ t \notin relocked /\ calls[t] # <<>>
      /\ calls[t][1].op = "RemoveService" /\ On(t) = calls[t][1].on /\ Sound(calls[t][1])
  BY <1>1, InWriting, InCall
<1>3. IsRemoval(On(t))
  BY <1>2 DEF Sound
<1>4. PICK on : on = On(t)
  OBVIOUS
<1>5. PICK e \in Entries :
        /\ e[1] = on.service
        /\ receivers' = receivers \ {e} /\ methodClients' = methodClients \ {e}
        /\ Goes(t, "told", [on EXCEPT !.told = @ \cup {e}, !.now = e])
  BY <1>4 DEF DestroyClient
<1>6. PICK next : next = [on EXCEPT !.told = @ \cup {e}, !.now = e]
  OBVIOUS
<1>7. next = [service |-> on.service, told |-> on.told \cup {e}, now |-> e]
  <2>1. on = [service |-> on.service, told |-> on.told, now |-> on.now]
    BY <1>3, <1>4 DEF IsRemoval
  <2>2. DOMAIN on = {"service", "told", "now"}
    <3> DEFINE d == [service |-> on.service, told |-> on.told, now |-> on.now]
    <3>1. DOMAIN d = {"service", "told", "now"} /\ on = d
      BY <2>1
    <3> HIDE DEF d
    <3> QED BY <3>1
  <2>3. next = [x \in {"service", "told", "now"} |->
                  IF x = "now" THEN e ELSE IF x = "told" THEN on.told \cup {e} ELSE on[x]]
    BY <1>6, <2>2
  <2> QED BY <2>3
<1>8. next.service = on.service /\ next.told = on.told \cup {e} /\ next.now = e
  BY <1>7
<1>9. IsRemoval(next)
  BY <1>3, <1>4, <1>5, <1>7, <1>8 DEF IsRemoval
<1>10. UNCHANGED <<methods, serviceMap, freeServiceID, refused, proxies>> /\ Entries' = Entries
  BY DEF DestroyClient, registryVars, Entries
<1>11. RegistryTypes'
  <2>1. \A f : GivenOut(f) <=> GivenOut(f)'
    BY <1>10 DEF GivenOut
  <2> QED BY <1>10, <2>1 DEF CMInv, CMTypes, RegistryTypes
<1>12. PICK L : L = ToldOf(Tail(calls[t])) \cup ToldBy("RemoveService", next)
  OBVIOUS
<1>13. L = ToldOf(calls[t]) \cup {e}
  <2>1. ToldOf(calls[t]) = ToldOf(Tail(calls[t])) \cup ToldBy("RemoveService", on)
    BY <1>1, <1>4, ToldAround
  <2>2. ToldBy("RemoveService", next) = ToldBy("RemoveService", on) \cup {e}
    BY <1>5, <1>8 DEF ToldBy, Entries
  <2> QED BY <1>12, <2>1, <2>2
<1>14. AgreeBut(L)'
  BY <1>2, <1>5, <1>10, <1>13 DEF AgreeBut
<1>15. Goes(t, "told", next)
  BY <1>5, <1>6
<1> QED BY <1>2, <1>9, <1>11, <1>12, <1>14, <1>15, GoesOn

\* ... and returns, with the client there or gone ...
LEMMA NextClientKeeps ==
  ASSUME CMInv, NEW t \in CMThreads, NextClient(t)
  PROVE  CMInv'
<1>1. In(t, "RemoveService", "told") /\ "RemoveService" \notin Reading
  BY DEF NextClient, Reading
<1>2. /\ writer = t /\ AgreeBut(ToldOf(calls[t])) /\ t \notin relocked /\ calls[t] # <<>>
      /\ calls[t][1].op = "RemoveService" /\ On(t) = calls[t][1].on /\ Sound(calls[t][1])
  BY <1>1, InWriting, InCall
<1>3. PICK on : on = On(t)
  OBVIOUS
<1>4. IsRemoval(on)
  BY <1>2, <1>3 DEF Sound
<1>5. RegistryLeft
  BY DEF NextClient, RegistryLeft, cmOutside
<1>6. ClientsLeft /\ RegistryTypes' /\ Entries' = Entries
  BY <1>5, RegistryStays
<1>7. CASE Goes(t, "destroy", on)
  <2>1. PICK L : L = ToldOf(Tail(calls[t])) \cup ToldBy("RemoveService", on)
    OBVIOUS
  <2>2. L = ToldOf(calls[t])
    BY <1>1, <1>3, <2>1, ToldAround
  <2>3. AgreeBut(L)'
    BY <1>2, <1>6, <2>2 DEF AgreeBut, ClientsLeft
  <2> QED BY <1>2, <1>4, <1>6, <1>7, <2>1, <2>3, GoesOn
<1>8. CASE Crashes
  BY <1>2, <1>5, <1>8, StaysKeeps DEF Crashes
<1> QED BY <1>3, <1>7, <1>8 DEF NextClient

\* ... until the service goes itself.
LEMMA RemoveServiceKeeps ==
  ASSUME CMInv, NEW t \in CMThreads, RemoveService(t)
  PROVE  CMInv'
<1>1. In(t, "RemoveService", "destroy") /\ "RemoveService" \notin Reading
  BY DEF RemoveService, Reading
<1>2. /\ writer = t /\ AgreeBut(ToldOf(calls[t])) /\ t \notin relocked /\ calls[t] # <<>>
      /\ calls[t][1].op = "RemoveService" /\ On(t) = calls[t][1].on /\ Sound(calls[t][1])
  BY <1>1, InWriting, InCall
<1>3. PICK on, s : on = On(t) /\ s = on.service
  OBVIOUS
<1>4. \A e \in on.told : e[1] = s
  BY <1>2, <1>3 DEF Sound, IsRemoval
<1>5. /\ \A e \in Entries : e[1] = s => e \in on.told
      /\ serviceMap' = Without(serviceMap, {s}) /\ Leave(t)
      /\ UNCHANGED <<methods, freeServiceID, receivers, methodClients, refused, proxies>>
  BY <1>3 DEF RemoveService, Ends, cmOutside
<1>6. /\ DOMAIN serviceMap' = DOMAIN serviceMap \ {s}
      /\ \A x \in DOMAIN serviceMap' : serviceMap'[x] = serviceMap[x]
      /\ serviceMap' = [x \in DOMAIN serviceMap' |-> serviceMap'[x]]
  BY <1>5 DEF Without
<1>7. RegistryTypes
  BY DEF CMInv, CMTypes
<1>8. Entries' = {e \in Entries : e[1] # s}
  BY <1>6 DEF Entries
<1>9. RegistryTypes'
  <2>1. \A e : GivenOut(e) => GivenOut(e)'
    BY <1>5, <1>6 DEF GivenOut
  <2>2. \A e \in Entries' \cup refused' : GivenOut(e)'
    BY <1>5, <1>7, <1>8, <2>1 DEF RegistryTypes
  <2> QED BY <1>5, <1>6, <1>7, <2>2 DEF RegistryTypes
<1>10. PICK L : L = ToldOf(Tail(calls[t]))
  OBVIOUS
<1>11. ToldOf(calls[t]) = L \cup {e \in CMClients : e \in on.told}
  <2>1. ToldOf(calls[t]) = ToldOf(Tail(calls[t])) \cup ToldBy("RemoveService", on)
    BY <1>1, <1>3, ToldAround
  <2> QED BY <1>10, <2>1 DEF ToldBy
<1>12. Entries \ ToldOf(calls[t]) = Entries' \ L
  <2>1. Entries \subseteq CMClients
    BY DEF Entries
  <2> QED BY <1>4, <1>5, <1>8, <1>11, <2>1
<1>13. AgreeBut(L)'
  BY <1>2, <1>5, <1>12 DEF AgreeBut
<1> QED BY <1>2, <1>5, <1>9, <1>10, <1>13, Leaves

\* Up to the point where a service is chosen, CreateClient changes nothing.
LEMMA ConnectKeeps ==
  ASSUME CMInv, NEW t \in CMThreads, UseService(t) \/ Connected(t)
  PROVE  CMInv'
<1>1. PICK step \in {"find", "connect"} :
        In(t, "CreateClient", step) /\ (step = "find" => t \in nestedEnded)
  BY DEF UseService, Connected
<1>2. "CreateClient" \notin Reading
  BY DEF Reading
<1>3. /\ SoundHead(t, calls[t][1]) /\ calls[t] # <<>>
      /\ calls[t][1].op = "CreateClient" /\ calls[t][1].step = step
  BY <1>1, <1>2, InWriting, InCall
<1>4. t \in nestedEnded
  BY <1>1, <1>3 DEF SoundHead
<1>5. RegistryLeft
  BY DEF UseService, Connected, RegistryLeft, cmOutside
<1>6. CASE Crashes
  BY <1>3, <1>5, <1>6, StaysKeeps DEF Crashes
<1>7. CASE \E on : \/ Goes(t, "connect", on)
                   \/ Goes(t, "create", on) /\ on \in DOMAIN serviceMap
  BY <1>1, <1>4, <1>5, <1>7, GoesAsItIsKeeps
<1> QED BY <1>6, <1>7 DEF UseService, Connected

\* The client gets its receiver, its entry and its method's notice.
LEMMA CreateClientKeeps ==
  ASSUME CMInv, NEW t \in CMThreads, CreateClient(t)
  PROVE  CMInv'
<1>1. In(t, "CreateClient", "create") /\ "CreateClient" \notin Reading
  BY DEF CreateClient, Reading
<1>2. /\ writer = t /\ AgreeBut(ToldOf(calls[t])) /\ t \notin relocked /\ calls[t] # <<>>
      /\ calls[t][1].op = "CreateClient" /\ calls[t][1].step = "create"
      /\ On(t) = calls[t][1].on /\ SoundHead(t, calls[t][1])
  BY <1>1, InWriting, InCall
<1>3. PICK s : s = On(t)
  OBVIOUS
<1>4. PICK c : c = serviceMap[s].nextClientID
  OBVIOUS
<1>5. /\ c < MaxCMClients
      /\ receivers' = receivers \cup {<<s, c>>}
      /\ serviceMap' = [serviceMap EXCEPT ![s].nextClientID = @ + 1,
                                          ![s].clients = @ \cup {c}]
      /\ methodClients' = methodClients \cup {<<s, c>>}
      /\ Goes(t, "tell", <<s, c>>)
      /\ UNCHANGED <<methods, serviceTree, freeServiceID, proxies, refused>>
  BY <1>3, <1>4 DEF CreateClient
<1>6. /\ s \in DOMAIN serviceMap /\ t \in nestedEnded /\ RegistryTypes
      /\ MaxServices \in Nat /\ MaxCMClients \in Nat
  BY <1>2, <1>3, ClientManagerAssumption DEF SoundHead, CMInv, CMTypes
<1>7. serviceMap[s] \in CMServices /\ c \in CMClientIDs /\ s \in CMServiceIDs /\ c \in Nat
  BY <1>4, <1>5, <1>6 DEF RegistryTypes, CMServices, CMClientIDs, CMServiceIDs
<1>8. /\ DOMAIN serviceMap' = DOMAIN serviceMap
      /\ serviceMap' = [x \in DOMAIN serviceMap |-> serviceMap'[x]]
      /\ \A x \in DOMAIN serviceMap \ {s} : serviceMap'[x] = serviceMap[x]
      /\ serviceMap'[s] = [methodID |-> serviceMap[s].methodID,
                           nextClientID |-> serviceMap[s].nextClientID + 1,
                           clients |-> serviceMap[s].clients \cup {c}]
  BY <1>5, <1>6, <1>7 DEF RegistryTypes, CMServices
<1>9. /\ serviceMap'[s] \in CMServices /\ serviceMap'[s].clients = serviceMap[s].clients \cup {c}
      /\ serviceMap'[s].nextClientID = c + 1
  BY <1>4, <1>7, <1>8 DEF CMServices
<1>10. <<s, c>> \in CMClients /\ <<s, c>>[1] = s /\ <<s, c>>[2] = c
  BY <1>7 DEF CMClients
<1>11. \A e \in CMClients : e = <<e[1], e[2]>> /\ e[2] \in Nat
  BY <1>6 DEF CMClients, CMClientIDs
<1>12. Entries' = Entries \cup {<<s, c>>}
  <2>1. ASSUME NEW e \in CMClients
        PROVE  e \in Entries' <=> e \in Entries \/ e = <<s, c>>
    <3>1. CASE e[1] = s
      BY <1>6, <1>8, <1>9, <1>10, <1>11, <3>1 DEF Entries
    <3>2. CASE e[1] # s
      BY <1>6, <1>8, <1>10, <3>2 DEF Entries
    <3> QED BY <3>1, <3>2
  <2>2. Entries \subseteq CMClients /\ Entries' \subseteq CMClients
    BY DEF Entries
  <2> QED BY <1>10, <2>1, <2>2
<1>13. RegistryTypes'
  <2>1. ASSUME NEW e, GivenOut(e) PROVE GivenOut(e)'
    <3>1. e \in CMClients /\ e[1] < freeServiceID'
      BY <1>5, <2>1 DEF GivenOut
    <3>2. CASE e[1] = s
      <4>1. e[2] < c
        BY <1>4, <1>6, <2>1, <3>2 DEF GivenOut
      <4>2. e[2] \in Nat
        BY <1>11, <3>1
      <4>3. e[2] < c + 1
        BY <1>7, <4>1, <4>2
      <4> QED BY <1>9, <3>1, <3>2, <4>3 DEF GivenOut
    <3>3. CASE e[1] # s
      BY <1>8, <2>1, <3>1, <3>3 DEF GivenOut
    <3> QED BY <3>2, <3>3
  <2>2. GivenOut(<<s, c>>)'
    <3>1. s < freeServiceID'
      BY <1>5, <1>6 DEF RegistryTypes
    <3>2. c < c + 1
      BY <1>7
    <3> QED BY <1>9, <1>10, <3>1, <3>2 DEF GivenOut
  <2>3. \A e \in Entries' \cup refused' : GivenOut(e)'
    BY <1>5, <1>6, <1>12, <2>1, <2>2 DEF RegistryTypes
  <2>4. \A x \in DOMAIN serviceMap' : serviceMap'[x] \in CMServices
    BY <1>6, <1>8, <1>9 DEF RegistryTypes
  <2> QED BY <1>5, <1>6, <1>8, <2>3, <2>4 DEF RegistryTypes
<1>14. PICK L : L = ToldOf(Tail(calls[t])) \cup ToldBy("CreateClient", <<s, c>>)
  OBVIOUS
<1>15. L = {} /\ ToldOf(calls[t]) = {}
  BY <1>1, <1>14, InCreateClient DEF ToldBy
<1>16. <<s, c>> \notin refused
  BY <1>4, <1>6, <1>7, <1>10 DEF RegistryTypes, GivenOut
<1>17. AgreeBut(L)'
  BY <1>2, <1>5, <1>12, <1>15, <1>16 DEF AgreeBut
<1>18. <<s, c>> \in Entries'
  BY <1>12
<1> QED BY <1>2, <1>5, <1>6, <1>13, <1>14, <1>17, <1>18, GoesOn

\* The method takes the client, or refuses it, which leaves it behind.
LEMMA TellMethodKeeps ==
  ASSUME CMInv, NEW t \in CMThreads, TellMethod(t) \/ RefuseClient(t)
  PROVE  CMInv'
<1>1. In(t, "CreateClient", "tell") /\ "CreateClient" \notin Reading
  BY DEF TellMethod, RefuseClient, Reading
<1>2. /\ writer = t /\ AgreeBut(ToldOf(calls[t])) /\ t \notin relocked /\ calls[t] # <<>>
      /\ calls[t][1].step = "tell" /\ On(t) = calls[t][1].on /\ Sound(calls[t][1])
  BY <1>1, InWriting, InCall
<1>3. PICK e : e = On(t)
  OBVIOUS
<1>4. e \in Entries /\ RegistryTypes
  BY <1>2, <1>3 DEF Sound, CMInv, CMTypes
<1>5. /\ Leave(t) /\ UNCHANGED <<methods, serviceMap, freeServiceID, receivers>>
      /\ Entries' = Entries
      /\ \/ UNCHANGED <<methodClients, refused>> /\ proxies' = proxies \cup {e}
         \/ /\ methodClients' = methodClients \ {e} /\ refused' = refused \cup {e}
            /\ proxies' = proxies
  BY <1>3 DEF TellMethod, RefuseClient, Ends, registryVars, Entries
<1>6. RegistryTypes'
  <2>1. \A f : GivenOut(f) <=> GivenOut(f)'
    BY <1>5 DEF GivenOut
  <2>2. e \in CMClients
    BY <1>4 DEF Entries
  <2>3. \A f \in Entries' \cup refused' : GivenOut(f)'
    BY <1>4, <1>5, <2>1 DEF RegistryTypes
  <2> QED BY <1>4, <1>5, <2>2, <2>3 DEF RegistryTypes
<1>7. PICK L : L = ToldOf(Tail(calls[t]))
  OBVIOUS
<1>8. L = {} /\ ToldOf(calls[t]) = {}
  BY <1>1, <1>7, InCreateClient
<1>9. AgreeBut(L)'
  BY <1>2, <1>5, <1>8 DEF AgreeBut
<1> QED BY <1>2, <1>5, <1>6, <1>7, <1>9, Leaves

\* A client goes from the registry and the queue, and its method is told.
LEMMA ProxyDestroyedKeeps ==
  ASSUME CMInv, NEW t \in CMThreads, OnProxyDestroyed(t)
  PROVE  CMInv'
<1>1. In(t, "OnProxyDestroyed", "destroy") /\ "OnProxyDestroyed" \notin Reading
  BY DEF OnProxyDestroyed, Reading
<1>2. /\ writer = t /\ AgreeBut(ToldOf(calls[t])) /\ t \notin relocked /\ calls[t] # <<>>
      /\ calls[t][1].op = "OnProxyDestroyed"
  BY <1>1, InWriting, InCall
<1>3. PICK e : e = On(t)
  OBVIOUS
<1>4. CASE e \notin Entries
  <2>1. EndsAsItIs(t)
    BY <1>3, <1>4 DEF OnProxyDestroyed, EndsAsItIs, registryVars, cmOutside
  <2> QED BY <1>1, <2>1, EndsAsItIsKeeps
<1>5. CASE e \in Entries
  <2>1. /\ receivers' = receivers \ {e} /\ methodClients' = methodClients \ {e}
        /\ serviceMap' = [serviceMap EXCEPT ![e[1]].clients = @ \ {e[2]}]
        /\ Goes(t, "told", e) /\ UNCHANGED <<methods, freeServiceID, proxies, refused>>
    BY <1>3, <1>5 DEF OnProxyDestroyed
  <2>2. PICK s : s = e[1]
    OBVIOUS
  <2>3. RegistryTypes
    BY DEF CMInv, CMTypes
  <2>4. s \in DOMAIN serviceMap /\ serviceMap[s] \in CMServices /\ e \in CMClients
    BY <1>5, <2>2, <2>3 DEF Entries, RegistryTypes
  <2>5. /\ DOMAIN serviceMap' = DOMAIN serviceMap
        /\ serviceMap' = [x \in DOMAIN serviceMap |-> serviceMap'[x]]
        /\ \A x \in DOMAIN serviceMap \ {s} : serviceMap'[x] = serviceMap[x]
        /\ serviceMap'[s] = [methodID |-> serviceMap[s].methodID,
                             nextClientID |-> serviceMap[s].nextClientID,
                             clients |-> serviceMap[s].clients \ {e[2]}]
    BY <2>1, <2>2, <2>3, <2>4 DEF RegistryTypes, CMServices
  <2>6. /\ serviceMap'[s] \in CMServices
        /\ serviceMap'[s].clients = serviceMap[s].clients \ {e[2]}
        /\ serviceMap'[s].nextClientID = serviceMap[s].nextClientID
    BY <2>4, <2>5 DEF CMServices
  <2>7. Entries' = Entries \ {e}
    <3>1. \A f \in CMClients : f = <<f[1], f[2]>>
      BY DEF CMClients
    <3>2. ASSUME NEW f \in CMClients
          PROVE  f \in Entries' <=> f \in Entries /\ f # e
      <4>1. CASE f[1] = s
        BY <2>2, <2>4, <2>5, <2>6, <3>1, <4>1 DEF Entries
      <4>2. CASE f[1] # s
        BY <2>2, <2>5, <4>2 DEF Entries
      <4> QED BY <4>1, <4>2
    <3>3. Entries \subseteq CMClients /\ Entries' \subseteq CMClients
      BY DEF Entries
    <3> QED BY <3>2, <3>3
  <2>8. RegistryTypes'
    <3>1. ASSUME NEW f, GivenOut(f) PROVE GivenOut(f)'
      <4>1. f[1] = s \/ f[1] # s
        OBVIOUS
      <4> QED BY <2>1, <2>5, <2>6, <3>1, <4>1 DEF GivenOut
    <3>2. \A f \in Entries' \cup refused' : GivenOut(f)'
      BY <2>1, <2>3, <2>7, <3>1 DEF RegistryTypes
    <3>3. \A x \in DOMAIN serviceMap' : serviceMap'[x] \in CMServices
      BY <2>3, <2>5, <2>6 DEF RegistryTypes
    <3> QED BY <2>1, <2>3, <2>5, <3>2, <3>3 DEF RegistryTypes
  <2>9. PICK L : L = ToldOf(Tail(calls[t])) \cup ToldBy("OnProxyDestroyed", e)
    OBVIOUS
  <2>10. ToldOf(calls[t]) = L
    <3>1. ToldOf(calls[t]) = ToldOf(Tail(calls[t])) \cup ToldBy("OnProxyDestroyed", On(t))
      BY <1>1, ToldAround
    <3> QED BY <1>3, <2>9, <3>1
  <2>11. AgreeBut(L)'
    BY <1>2, <2>1, <2>7, <2>10 DEF AgreeBut
  <2> QED BY <1>2, <2>1, <2>8, <2>9, <2>11, GoesOn
<1> QED BY <1>4, <1>5

\* A message finds its client, or the call ends.
LEMMA LookUpKeeps ==
  ASSUME CMInv, NEW t \in CMThreads, NEW op \in {"SendMessage", "DispatchMessageToProxy"},
         LookUpClient(t, op)
  PROVE  CMInv'
<1>1. In(t, op, "lookup") /\ RegistryLeft
  BY DEF LookUpClient, RegistryLeft, cmOutside
<1>2. CASE On(t) \notin Entries
  <2>1. EndsAsItIs(t)
    BY <1>2 DEF LookUpClient, EndsAsItIs
  <2> QED BY <1>1, <2>1, EndsAsItIsKeeps
<1>3. CASE On(t) \in Entries
  <2>1. PICK on : on = On(t)
    OBVIOUS
  <2>2. on \in Entries /\ Goes(t, "pass", on)
    BY <1>3, <2>1 DEF LookUpClient
  <2> QED BY <1>1, <2>2, GoesAsItIsKeeps
<1> QED BY <1>2, <1>3

-----------------------------------------------------------------------------
\* The invariant holds initially, and every step keeps it.
LEMMA CMInvInit ==
  ClientManagerInit => CMInv
<1> SUFFICES ASSUME ClientManagerInit PROVE CMInv
  OBVIOUS
<1>1. DOMAIN EmptyMap = {}
  BY DEF EmptyMap
<1>2. Entries = {} /\ refused = {}
  BY <1>1 DEF ClientManagerInit, Entries
<1>3. LockTypes
  BY ClientManagerAssumption DEF ClientManagerInit, LockTypes, IsStack
<1>4. RegistryTypes
  BY <1>1, <1>2, ClientManagerAssumption DEF ClientManagerInit, RegistryTypes
<1>5. ASSUME NEW t \in CMThreads PROVE Idle(t)
  BY ClientManagerAssumption DEF ClientManagerInit, Idle
<1>6. RegistryInv
  BY <1>2, ClientManagerAssumption DEF ClientManagerInit, RegistryInv, AgreeBut
<1> QED BY <1>3, <1>4, <1>5, <1>6 DEF CMInv, CMTypes

\* No step of any thread breaks it.
LEMMA CMInvStep ==
  CMInv /\ [ClientManagerNext]_clientManagerVars => CMInv'
<1> SUFFICES ASSUME CMInv, [ClientManagerNext]_clientManagerVars PROVE CMInv'
  OBVIOUS
<1>1. CASE UNCHANGED clientManagerVars
  <2>1. /\ UNCHANGED <<writer, readers, lockState, nestedEnded, relocked, calls>>
        /\ UNCHANGED <<methods, serviceMap, freeServiceID, receivers, methodClients,
                       refused, proxies>>
        /\ Entries' = Entries
    BY <1>1 DEF clientManagerVars, lockVars, registryVars, cmOutside, Entries
  <2>2. \A e : GivenOut(e) <=> GivenOut(e)'
    BY <2>1 DEF GivenOut
  <2>3. LockTypes' /\ RegistryTypes'
    BY <2>1, <2>2 DEF CMInv, CMTypes, LockTypes, RegistryTypes
  <2>4. RegistryInv'
    BY <2>1 DEF CMInv, RegistryInv, AgreeBut, ToldOf
  <2>5. ASSUME NEW t \in CMThreads PROVE Idle(t)' \/ Busy(t)'
    <3>1. Idle(t) => Idle(t)'
      BY <2>1 DEF Idle
    <3>2. ASSUME Busy(t) PROVE Busy(t)'
      <4>1. \A a : Sound(a) => Sound(a)'
        BY <2>1 DEF Sound
      <4>2. CallsInv(t)'
        BY <2>1, <3>2, <4>1 DEF Busy, CallsInv
      <4>3. (ReadsIn(t) => ReadsIn(t)') /\ (WritesIn(t) => WritesIn(t)')
        BY <2>1 DEF ReadsIn, WritesIn, SoundHead
      <4> QED BY <2>1, <3>2, <4>2, <4>3 DEF Busy
    <3> QED BY <3>1, <3>2 DEF CMInv
  <2> QED BY <2>3, <2>4, <2>5 DEF CMInv, CMTypes
<1>2. ASSUME NEW t \in CMThreads,
             \/ FindService(t) \/ NotCreated(t) \/ ProxyDestroyed(t)
             \/ \E op \in {"SendMessage", "DispatchMessageToProxy"} : PassedOn(t, op)
      PROVE  CMInv'
  BY <1>2, EndsAsItIsKeeps DEF FindService, NotCreated, ProxyDestroyed, PassedOn
<1>3. ASSUME NEW t \in CMThreads, NEW op \in {"SendMessage", "DispatchMessageToProxy"},
             LookUpClient(t, op)
      PROVE  CMInv'
  BY <1>3, LookUpKeeps
<1> QED BY <1>1, <1>2, <1>3, OutsideKeeps, WithinKeeps, ThrowKeeps, AddMethodKeeps,
           AddServiceKeeps, DestroyClientKeeps, NextClientKeeps, RemoveServiceKeeps,
           ConnectKeeps, CreateClientKeeps, TellMethodKeeps, ProxyDestroyedKeeps
           DEF ClientManagerNext

\* The invariant holds of every state, for any threads, services, clients and
\* depth of calls.
THEOREM ClientManagerInvariant ==
  ClientManagerSpec => []CMInv
BY CMInvInit, CMInvStep, PTL DEF ClientManagerSpec

\* Every variable of the client manager keeps its type.
THEOREM ClientManagerTypeCorrect ==
  ClientManagerSpec => []ClientManagerTypeOK
<1>1. CMInv => ClientManagerTypeOK
  <2> SUFFICES ASSUME CMInv PROVE ClientManagerTypeOK
    OBVIOUS
  <2>1. LockTypes /\ RegistryTypes /\ MaxServices \in Nat
    BY ClientManagerAssumption DEF CMInv, CMTypes
  <2>2. /\ writer \in CMThreads \cup {NoCMThread} /\ readers \subseteq CMThreads
        /\ \A t \in CMThreads : lockState[t] \in {"Unlocked", "ReadLocked", "WriteLocked"}
        /\ freeServiceID \in 0 .. MaxServices /\ proxies \subseteq CMClients
    BY <2>1 DEF LockTypes, RegistryTypes
  <2>3. DOMAIN serviceMap \subseteq CMServiceIDs
    BY <2>1 DEF RegistryTypes, CMServiceIDs
  <2>4. \A s \in DOMAIN serviceMap : serviceMap[s].clients \subseteq CMClientIDs
    BY <2>1 DEF RegistryTypes, CMServices
  <2>5. \E L : AgreeBut(L)
    BY <2>2 DEF CMInv, RegistryInv
  <2>6. receivers \subseteq Entries /\ methodClients \subseteq Entries
    BY <2>5 DEF AgreeBut
  <2>7. Entries \subseteq CMClients /\ refused \subseteq CMClients
    BY <2>1 DEF Entries, RegistryTypes, GivenOut
  <2> QED BY <2>2, <2>3, <2>4, <2>6, <2>7 DEF ClientManagerTypeOK
<1> QED BY <1>1, ClientManagerInvariant, PTL

\* Where nobody writes, the registry and the queues' receivers are the same, and
\* the methods' clients too, but for those that methods refused, also if methods
\* called back while clients came and went (CreateClient, OnProxyDestroyed,
\* RemoveService).
THEOREM RegistriesCorrect ==
  ClientManagerSpec => []RegistriesAgree
<1>1. CMInv => RegistriesAgree
  BY DEF CMInv, RegistryInv, RegistriesAgree, AgreeBut
<1> QED BY <1>1, ClientManagerInvariant, PTL

\* A client stays in the registry while a message is passed on to it or its
\* method is told of it, also when calls of the same thread come in between.
THEOREM UsedClientsCorrect ==
  ClientManagerSpec => []UsedClientsStay
<1>1. CMInv => UsedClientsStay
  <2> SUFFICES ASSUME CMInv, NEW t \in CMThreads, NEW i \in DOMAIN calls[t],
                      calls[t][i].step \in {"pass", "tell"}
               PROVE  calls[t][i].on \in Entries
    BY DEF UsedClientsStay
  <2>1. PICK q : q = calls[t]
    OBVIOUS
  <2>2. IsStack(q)
    BY <2>1 DEF CMInv, CMTypes, LockTypes
  <2>3. Len(q) \in Nat /\ DOMAIN q = 1 .. Len(q)
    <3>1. PICK S : q \in Seq(S)
      BY <2>2 DEF IsStack
    <3> QED BY <3>1
  <2>4. i \in 1 .. Len(q)
    BY <2>1, <2>3
  <2>5. Busy(t)
    <3>1. q # <<>>
      BY <2>4
    <3> QED BY <2>1, <3>1 DEF CMInv, Idle
  <2>6. Sound(q[i])
    BY <2>1, <2>4, <2>5 DEF Busy, CallsInv
  <2> QED BY <2>1, <2>6 DEF Sound
<1> QED BY <1>1, ClientManagerInvariant, PTL

\* A thread waits for the lock that it has only after a call within a call has
\* ended: the destructor of the inner wrapper is the one cause (RWLockWrapper).
THEOREM LockedOutCorrect ==
  ClientManagerSpec => []LocksItselfOutOnlyAfterNested
<1>1. CMInv => LocksItselfOutOnlyAfterNested
  <2> SUFFICES ASSUME CMInv, NEW t \in relocked PROVE t \in nestedEnded
    BY DEF LocksItselfOutOnlyAfterNested
  <2>1. t \in CMThreads
    BY DEF CMInv, CMTypes, LockTypes
  <2> QED BY <2>1 DEF CMInv, Idle, Busy
<1> QED BY <1>1, ClientManagerInvariant, PTL

-----------------------------------------------------------------------------
(* The walks as sequences of steps                                         *)

IsReading(read, chars, n) ==
  read = [i \in 0 .. n |-> IF i = 0 THEN <<<<>>>> ELSE ReadChar(read[i - 1], chars[i])]

IsAdding(at, tree, path, n) ==
  at = [i \in 0 .. n |->
          IF i = 0 THEN [tree |-> tree, id |-> NODE_ROOT, result |-> "OK"]
          ELSE AddAlong(at[i - 1], path, i)]

IsFinding(at, tree, path, n) ==
  at = [i \in 0 .. n |-> IF i = 0 THEN [id |-> NODE_ROOT, result |-> "OK"]
                         ELSE FindAlong(tree, at[i - 1], path[i])]

\* Every path is the last of the paths read after each character.
LEMMA ReadingSteps ==
  ASSUME NEW chars, Len(chars) \in Nat
  PROVE  \E read : /\ IsReading(read, chars, Len(chars))
                   /\ PathFromString(chars) = read[Len(chars)]
<1> DEFINE P == {n \in Nat : \E read : IsReading(read, chars, n)}
<1>1. 0 \in P
  <2>1. IsReading([i \in 0 .. 0 |-> <<<<>>>>], chars, 0)
    BY DEF IsReading
  <2> QED BY <2>1
<1>2. ASSUME NEW k \in 0 .. Len(chars) - 1, k \in P
      PROVE  k + 1 \in P
  <2>1. PICK read : IsReading(read, chars, k)
    BY <1>2
  <2> DEFINE more == [i \in 0 .. k + 1 |-> IF i = k + 1 THEN ReadChar(read[k], chars[k + 1])
                                           ELSE read[i]]
  <2>2. IsReading(more, chars, k + 1)
    BY <2>1 DEF IsReading
  <2> QED BY <2>2
<1>3. Len(chars) \in P
  <2> DEFINE n == Len(chars)
  <2> HIDE DEF P
  <2>1. n \in Nat /\ \A k \in 0 .. n - 1 : k \in P => k + 1 \in P
    BY <1>2
  <2> HIDE DEF n
  <2>2. \A k \in 0 .. n : k \in P
    BY <1>1, <2>1, AllUpTo
  <2>3. n \in P
    BY <2>1, <2>2
  <2> QED BY <2>3 DEF n
<1>4. PICK read : IsReading(read, chars, Len(chars))
  BY <1>3
<1> DEFINE it == CHOOSE r : r = [i \in 0 .. Len(chars) |->
                   IF i = 0 THEN <<<<>>>> ELSE ReadChar(r[i - 1], chars[i])]
<1>5. IsReading(it, chars, Len(chars))
  BY <1>4, Zenon DEF IsReading
<1>6. PathFromString(chars) = it[Len(chars)]
  BY Zenon DEF PathFromString
<1> QED BY <1>5, <1>6

\* The walk of an addition ...
LEMMA AddingSteps ==
  ASSUME NEW tree, NEW path, Len(path) \in Nat
  PROVE  \E at : /\ IsAdding(at, tree, path, Len(path))
                 /\ TraceAdd(tree, path) = at[Len(path)]
<1> DEFINE n == Len(path)
           P == {m \in Nat : \E at : IsAdding(at, tree, path, m)}
           start == [tree |-> tree, id |-> NODE_ROOT, result |-> "OK"]
<1>1. 0 \in P
  <2>1. IsAdding([i \in 0 .. 0 |-> start], tree, path, 0)
    BY DEF IsAdding
  <2> QED BY <2>1
<1>2. ASSUME NEW k \in 0 .. n - 1, k \in P
      PROVE  k + 1 \in P
  <2>1. PICK at : IsAdding(at, tree, path, k)
    BY <1>2
  <2> DEFINE more == [i \in 0 .. k + 1 |->
                        IF i = k + 1 THEN AddAlong(at[k], path, k + 1) ELSE at[i]]
  <2>2. IsAdding(more, tree, path, k + 1)
    BY <2>1 DEF IsAdding
  <2> QED BY <2>2
<1>3. n \in P
  <2>1. n \in Nat
    OBVIOUS
  <2> HIDE DEF n, P
  <2>2. \A k \in 0 .. n : k \in P
    BY <1>1, <1>2, <2>1, AllUpTo
  <2> QED BY <2>1, <2>2
<1>4. PICK at : IsAdding(at, tree, path, n)
  BY <1>3
<1> DEFINE it == CHOOSE a : a = [i \in 0 .. Len(path) |->
                   IF i = 0 THEN start ELSE AddAlong(a[i - 1], path, i)]
<1>5. IsAdding(it, tree, path, Len(path))
  BY <1>4, Zenon DEF IsAdding
<1>6. TraceAdd(tree, path) = it[Len(path)]
  BY Zenon DEF TraceAdd
<1> QED BY <1>5, <1>6

\* ... and that of a search.
LEMMA FindingSteps ==
  ASSUME NEW tree, NEW path, Len(path) \in Nat
  PROVE  \E at : /\ IsFinding(at, tree, path, Len(path))
                 /\ TraceFind(tree, path) = at[Len(path)]
<1> DEFINE n == Len(path)
           P == {m \in Nat : \E at : IsFinding(at, tree, path, m)}
           start == [id |-> NODE_ROOT, result |-> "OK"]
<1>1. 0 \in P
  <2>1. IsFinding([i \in 0 .. 0 |-> start], tree, path, 0)
    BY DEF IsFinding
  <2> QED BY <2>1
<1>2. ASSUME NEW k \in 0 .. n - 1, k \in P
      PROVE  k + 1 \in P
  <2>1. PICK at : IsFinding(at, tree, path, k)
    BY <1>2
  <2> DEFINE more == [i \in 0 .. k + 1 |->
                        IF i = k + 1 THEN FindAlong(tree, at[k], path[k + 1]) ELSE at[i]]
  <2>2. IsFinding(more, tree, path, k + 1)
    BY <2>1 DEF IsFinding
  <2> QED BY <2>2
<1>3. n \in P
  <2>1. n \in Nat
    OBVIOUS
  <2> HIDE DEF n, P
  <2>2. \A k \in 0 .. n : k \in P
    BY <1>1, <1>2, <2>1, AllUpTo
  <2> QED BY <2>1, <2>2
<1>4. PICK at : IsFinding(at, tree, path, n)
  BY <1>3
<1> DEFINE it == CHOOSE a : a = [i \in 0 .. Len(path) |->
                   IF i = 0 THEN start ELSE FindAlong(tree, a[i - 1], path[i])]
<1>5. IsFinding(it, tree, path, Len(path))
  BY <1>4, Zenon DEF IsFinding
<1>6. TraceFind(tree, path) = it[Len(path)]
  BY Zenon DEF TraceFind
<1> QED BY <1>5, <1>6

-----------------------------------------------------------------------------
(* What paths are                                                          *)

Characters == UNION {{s[i] : i \in DOMAIN s} : s \in Strings}
Names == Seq(Characters)

\* A path is a sequence of one name at least.
LEMMA Paths ==
  ASSUME NEW s \in Strings
  PROVE  PathFromString(s) \in Seq(Names) /\ Len(PathFromString(s)) \in Nat \ {0}
<1>1. s \in Seq(Characters)
  <2> DEFINE C == {s[i] : i \in DOMAIN s}
  <2>1. s \in Seq(C)
    BY StoreAssumption
  <2>2. C \subseteq Characters
    BY DEF Characters
  <2> HIDE DEF C
  <2> QED BY <2>1, <2>2, SeqMonotonic
<1> DEFINE n == Len(s)
<1>2. n \in Nat /\ \A i \in 1 .. n : s[i] \in Characters
  BY <1>1
<1>3. PICK read : IsReading(read, s, n) /\ PathFromString(s) = read[n]
  BY <1>2, ReadingSteps
<1> DEFINE Good(q) == q \in Seq(Names) /\ Len(q) \in Nat \ {0}
           P == {k \in 0 .. n : Good(read[k])}
<1>4. ASSUME NEW q, Good(q), NEW c \in Characters
      PROVE  Good(ReadChar(q, c))
  <2>1. CASE c = Separator
    <3>1. <<>> \in Names
      BY DEF Names
    <3> QED BY <1>4, <2>1, <3>1, AppendProperties DEF ReadChar
  <2>2. CASE c # Separator
    <3>1. ReadChar(q, c) = [q EXCEPT ![Len(q)] = Append(q[Len(q)], c)]
      BY <2>2 DEF ReadChar
    <3>2. q[Len(q)] \in Names
      BY <1>4
    <3>3. Append(q[Len(q)], c) \in Names
      BY <3>2, <1>4, AppendProperties DEF Names
    <3> QED BY <1>4, <3>1, <3>3
  <2> QED BY <2>1, <2>2
<1>5. 0 \in P
  <2>1. read[0] = <<<<>>>>
    BY <1>2, <1>3 DEF IsReading
  <2>2. <<>> \in Names
    BY DEF Names
  <2>3. ASSUME NEW e \in Names
        PROVE  <<e>> \in Seq(Names) /\ Len(<<e>>) = 1
    OBVIOUS
  <2>4. Good(read[0])
    BY <2>1, <2>2, <2>3
  <2> HIDE DEF Good
  <2> QED BY <1>2, <2>4
<1>6. ASSUME NEW k \in 0 .. n - 1, k \in P
      PROVE  k + 1 \in P
  <2>1. k + 1 \in 0 .. n /\ s[k + 1] \in Characters
    BY <1>2
  <2>2. read[k + 1] = ReadChar(read[k], s[k + 1])
    BY <1>2, <1>3, <2>1 DEF IsReading
  <2>3. Good(read[k])
    BY <1>6
  <2> HIDE DEF Good
  <2> QED BY <1>4, <2>1, <2>2, <2>3
<1>7. n \in P
  <2> HIDE DEF n, P
  <2>1. \A k \in 0 .. n : k \in P
    BY <1>2, <1>5, <1>6, AllUpTo
  <2> QED BY <1>2, <2>1
<1> QED BY <1>3, <1>7

-----------------------------------------------------------------------------
(* Trees                                                                   *)

IsDictionary(d) ==
  /\ d = [parent |-> d.parent, children |-> d.children]
  /\ d.children = [n \in DOMAIN d.children |-> d.children[n]]

IsTree(tree) ==
  tree = [dict |-> tree.dict, val |-> tree.val,
          nextDict |-> tree.nextDict, nextVal |-> tree.nextVal]

\* A tree whose numbers are below those of the values; the value at an index is
\* that index.
TreeShape(tree) ==
  /\ IsTree(tree)
  /\ tree.nextDict \in 1 .. ValueBit /\ tree.nextVal \in Nat
  /\ tree.dict = [d \in 0 .. tree.nextDict - 1 |-> tree.dict[d]]
  /\ \A d \in 0 .. tree.nextDict - 1 : IsDictionary(tree.dict[d])
  /\ tree.val = [v \in DOMAIN tree.val |-> tree.val[v]]
  /\ DOMAIN tree.val \subseteq 0 .. tree.nextVal - 1
  /\ \A v \in DOMAIN tree.val :
       /\ tree.val[v].parent \in 0 .. tree.nextDict - 1
       /\ tree.val[v] = [parent |-> tree.val[v].parent, value |-> v]

\* Node c is at path p: lab has the paths of dictionaries, named those of values,
\* the removed ones included.
IsAt(tree, lab, named, c, p) ==
  \/ c \in 1 .. tree.nextDict - 1 /\ lab[c] = p
  \/ c - ValueBit \in 0 .. tree.nextVal - 1 /\ c \in Int /\ named[c - ValueBit] = p

Labelled(tree, lab, named) ==
  /\ lab = [d \in 0 .. tree.nextDict - 1 |-> lab[d]] /\ lab[NODE_ROOT] = <<>>
  /\ named = [v \in 0 .. tree.nextVal - 1 |-> named[v]]
  /\ \A d \in 0 .. tree.nextDict - 1 :
       /\ lab[d] \in Seq(Names)
       /\ \A n \in DOMAIN tree.dict[d].children :
            /\ n \in Names
            /\ IsAt(tree, lab, named, tree.dict[d].children[n], Append(lab[d], n))

\* The dictionaries once name leads from d to node id.
Linked(dict, d, name, id) ==
  [dict EXCEPT ![d] = [parent |-> dict[d].parent,
                       children |-> Put(dict[d].children, name, id)]]

\* A new dictionary ...
LEMMA NewDictionary ==
  ASSUME NEW tree, TreeShape(tree), tree.nextDict < ValueBit,
         NEW d \in 0 .. tree.nextDict - 1,
         NEW name, name \notin DOMAIN tree.dict[d].children
  PROVE  AddNode(tree, d, name, "Dictionary") =
           [tree |-> [dict |-> Linked(Put(tree.dict, tree.nextDict, Dictionary(d)),
                                      d, name, tree.nextDict),
                      val |-> tree.val,
                      nextDict |-> tree.nextDict + 1, nextVal |-> tree.nextVal],
            id |-> tree.nextDict, result |-> "OK"]
<1> DEFINE D == Put(tree.dict, tree.nextDict, Dictionary(d))
           made == [dict |-> D, val |-> tree.val,
                    nextDict |-> tree.nextDict + 1, nextVal |-> tree.nextVal]
<1>1. CreateNode(tree, d, "Dictionary") = [tree |-> made, id |-> tree.nextDict]
  <2> DEFINE x == Put(tree.dict, tree.nextDict, Dictionary(d))  n == tree.nextDict + 1
  <2>1. [[tree EXCEPT !.dict = x] EXCEPT !.nextDict = n] = made
    <3> HIDE DEF x, n
    <3> DEFINE u == [tree EXCEPT !.dict = x]
    <3> IsTree(tree)
      BY DEF TreeShape
    <3>1. u = [dict |-> x, val |-> tree.val,
                 nextDict |-> tree.nextDict, nextVal |-> tree.nextVal]
      BY DEF IsTree
    <3> HIDE DEF u
    <3>2. [u EXCEPT !.nextDict = n]
            = [dict |-> x, val |-> tree.val, nextDict |-> n, nextVal |-> tree.nextVal]
      BY <3>1
    <3> QED BY <3>2 DEF u, x, n
  <2>2. SynthesizeID("Dictionary", tree.nextDict) = tree.nextDict
    BY DEF SynthesizeID
  <2> QED BY <2>1, <2>2 DEF CreateNode
<1>2. HasNode(tree, d) /\ ~IsValueID(d)
  BY TreeAssumption DEF TreeShape, HasNode, IsValueID
<1>3. D[d] = tree.dict[d] /\ d \in DOMAIN D /\ D = [x \in DOMAIN D |-> D[x]]
  BY DEF Put, TreeShape
<1>4. [made EXCEPT !.dict[d].children = Put(@, name, tree.nextDict)]
        = [made EXCEPT !.dict = Linked(D, d, name, tree.nextDict)]
  <2>1. IsDictionary(D[d])
    BY <1>3 DEF TreeShape
  <2>2. [D[d] EXCEPT !.children = Put(@, name, tree.nextDict)]
          = [parent |-> D[d].parent, children |-> Put(D[d].children, name, tree.nextDict)]
    BY <2>1 DEF IsDictionary
  <2> HIDE DEF D
  <2> QED BY <1>3, <2>2 DEF Linked
<1> QED BY <1>1, <1>2, <1>4 DEF AddNode

\* ... and a new value.
LEMMA NewValue ==
  ASSUME NEW tree, TreeShape(tree), NEW d \in 0 .. tree.nextDict - 1,
         NEW name, name \notin DOMAIN tree.dict[d].children
  PROVE  AddNode(tree, d, name, "Value") =
           [tree |-> [dict |-> Linked(tree.dict, d, name, ValueBit + tree.nextVal),
                      val |-> Put(tree.val, tree.nextVal, ValueNode(d)),
                      nextDict |-> tree.nextDict, nextVal |-> tree.nextVal + 1],
            id |-> ValueBit + tree.nextVal, result |-> "OK"]
<1> DEFINE D == tree.dict  id == ValueBit + tree.nextVal
           made == [dict |-> D, val |-> Put(tree.val, tree.nextVal, ValueNode(d)),
                    nextDict |-> tree.nextDict, nextVal |-> tree.nextVal + 1]
<1>1. CreateNode(tree, d, "Value") = [tree |-> made, id |-> id]
  <2> DEFINE x == Put(tree.val, tree.nextVal, ValueNode(d))  n == tree.nextVal + 1
  <2>1. [[tree EXCEPT !.val = x] EXCEPT !.nextVal = n] = made
    <3> HIDE DEF x, n
    <3> DEFINE u == [tree EXCEPT !.val = x]
    <3> IsTree(tree)
      BY DEF TreeShape
    <3>1. u = [dict |-> tree.dict, val |-> x,
                 nextDict |-> tree.nextDict, nextVal |-> tree.nextVal]
      BY DEF IsTree
    <3> HIDE DEF u
    <3>2. [u EXCEPT !.nextVal = n]
            = [dict |-> tree.dict, val |-> x, nextDict |-> tree.nextDict, nextVal |-> n]
      BY <3>1
    <3> QED BY <3>2 DEF u, x, n
  <2>2. SynthesizeID("Value", tree.nextVal) = id
    BY DEF SynthesizeID
  <2> QED BY <2>1, <2>2 DEF CreateNode
<1>2. HasNode(tree, d) /\ ~IsValueID(d)
  BY TreeAssumption DEF TreeShape, HasNode, IsValueID
<1>3. d \in DOMAIN D /\ D = [x \in DOMAIN D |-> D[x]]
  BY DEF TreeShape
<1>4. [made EXCEPT !.dict[d].children = Put(@, name, id)]
        = [made EXCEPT !.dict = Linked(D, d, name, id)]
  <2>1. IsDictionary(D[d])
    BY <1>3 DEF TreeShape
  <2>2. [D[d] EXCEPT !.children = Put(@, name, id)]
          = [parent |-> D[d].parent, children |-> Put(D[d].children, name, id)]
    BY <2>1 DEF IsDictionary
  <2> HIDE DEF D, id
  <2> QED BY <1>3, <2>2 DEF Linked
<1> QED BY <1>1, <1>2, <1>4 DEF AddNode

\* In the tree name leads from dictionary d to node c.
Link(tree, d, name, c) ==
  /\ d \in 0 .. tree.nextDict - 1
  /\ name \in DOMAIN tree.dict[d].children
  /\ tree.dict[d].children[name] = c

\* What led to a node still does.
Grows(t, u) == \A d, name, c : Link(t, d, name, c) => Link(u, d, name, c)

\* E is D, dictionaries up to m, with one link more, where no name was taken.
HasMore(E, D, m, d, name, id) ==
  /\ E = [x \in 0 .. m |-> E[x]]
  /\ \A x \in 0 .. m : IsDictionary(E[x])
  /\ \A x \in 0 .. m : x # d => E[x] = D[x]
  /\ DOMAIN E[d].children = DOMAIN D[d].children \cup {name}
  /\ E[d].children[name] = id
  /\ \A n \in DOMAIN D[d].children : E[d].children[n] = D[d].children[n]

\* A link under a name that was free is such a link.
LEMMA LinkedIs ==
  ASSUME NEW D, NEW m \in Nat, NEW d \in 0 .. m, NEW name, NEW id,
         D = [x \in 0 .. m |-> D[x]], \A x \in 0 .. m : IsDictionary(D[x]),
         name \notin DOMAIN D[d].children
  PROVE  HasMore(Linked(D, d, name, id), D, m, d, name, id)
<1> DEFINE E == Linked(D, d, name, id)
           kids == Put(D[d].children, name, id)
           own == [parent |-> D[d].parent, children |-> kids]
<1>1. /\ DOMAIN kids = DOMAIN D[d].children \cup {name}
      /\ kids = [n \in DOMAIN kids |-> kids[n]]
      /\ kids[name] = id
      /\ \A n \in DOMAIN D[d].children : kids[n] = D[d].children[n]
  BY DEF Put
<1>2. E = [D EXCEPT ![d] = own]
  BY DEF Linked
<1> HIDE DEF kids, E
<1>3. own.children = kids /\ own.parent = D[d].parent
  OBVIOUS
<1>4. IsDictionary(own)
  BY <1>1, <1>3 DEF IsDictionary
<1> HIDE DEF own
<1>5. /\ E = [x \in 0 .. m |-> E[x]] /\ E[d] = own
      /\ \A x \in 0 .. m : x # d => E[x] = D[x]
  BY <1>2
<1>6. \A x \in 0 .. m : IsDictionary(E[x])
  BY <1>4, <1>5
<1>7. E[d].children = kids
  BY <1>3, <1>5
<1> QED BY <1>1, <1>5, <1>6, <1>7 DEF E, HasMore

\* A dictionary was added: the tree has grown by a link, and has its label.
LEMMA DictionaryAdded ==
  ASSUME NEW tree, NEW lab, NEW named, TreeShape(tree), Labelled(tree, lab, named),
         tree.nextDict < ValueBit, NEW d \in 0 .. tree.nextDict - 1,
         NEW name \in Names, name \notin DOMAIN tree.dict[d].children,
         NEW t, t = AddNode(tree, d, name, "Dictionary").tree
  PROVE  /\ TreeShape(t)
         /\ Labelled(t, Put(lab, tree.nextDict, Append(lab[d], name)), named)
         /\ t.nextDict = tree.nextDict + 1 /\ t.val = tree.val /\ t.nextVal = tree.nextVal
         /\ Grows(tree, t) /\ Link(t, d, name, tree.nextDict)
<1> DEFINE m == tree.nextDict
           D == Put(tree.dict, m, Dictionary(d))
           E == Linked(D, d, name, m)
           more == Put(lab, m, Append(lab[d], name))
<1>1. t = [dict |-> E, val |-> tree.val, nextDict |-> m + 1, nextVal |-> tree.nextVal]
  BY NewDictionary
<1>2. /\ t.dict = E /\ t.val = tree.val /\ t.nextDict = m + 1 /\ t.nextVal = tree.nextVal
      /\ IsTree(t)
  BY <1>1 DEF IsTree
<1>3. /\ m \in 1 .. ValueBit - 1 /\ m \in Nat /\ ValueBit \in Nat
      /\ d \in 0 .. m /\ d # m /\ (m + 1) - 1 = m /\ d \in 0 .. m - 1
      /\ \A x \in 0 .. m - 1 : x \in 0 .. m /\ x # m
      /\ \A x \in 0 .. m : x \in 0 .. m - 1 \/ x = m
  BY TreeAssumption DEF TreeShape
<1>4. /\ D = [x \in 0 .. m |-> D[x]] /\ D[m] = Dictionary(d)
      /\ \A x \in 0 .. m - 1 : D[x] = tree.dict[x]
  BY <1>3 DEF Put, TreeShape
<1>5. IsDictionary(Dictionary(d)) /\ DOMAIN Dictionary(d).children = {}
  BY DEF IsDictionary, Dictionary, EmptyMap
<1>6. \A x \in 0 .. m : IsDictionary(D[x])
  <2>1. \A x \in 0 .. m - 1 : IsDictionary(tree.dict[x])
    BY DEF TreeShape
  <2> QED BY <1>3, <1>4, <1>5, <2>1
<1>7. D[d] = tree.dict[d]
  BY <1>4
<1> HIDE DEF m, D
<1>0. m = tree.nextDict
  BY DEF m
<1>8. HasMore(E, D, m, d, name, m)
  BY <1>3, <1>4, <1>6, <1>7, LinkedIs
<1> HIDE DEF E
<1>9. TreeShape(t)
  <2>1. /\ t.nextDict \in 1 .. ValueBit /\ t.nextVal \in Nat
    BY <1>2, <1>3 DEF TreeShape
  <2>2. /\ t.dict = [x \in 0 .. t.nextDict - 1 |-> t.dict[x]]
        /\ \A x \in 0 .. t.nextDict - 1 : IsDictionary(t.dict[x])
    <3>1. t.nextDict - 1 = m /\ t.dict = E
      BY <1>2, <1>3
    <3>2. E = [x \in 0 .. m |-> E[x]] /\ \A x \in 0 .. m : IsDictionary(E[x])
      BY <1>8 DEF HasMore
    <3> QED BY <3>1, <3>2
  <2>3. \A v \in DOMAIN t.val : t.val[v].parent \in 0 .. t.nextDict - 1
    <3>1. \A v \in DOMAIN tree.val : tree.val[v].parent \in 0 .. m - 1
      BY <1>0 DEF TreeShape
    <3> QED BY <1>2, <1>3, <3>1
  <2> QED BY <1>2, <2>1, <2>2, <2>3 DEF TreeShape
<1>10. Grows(tree, t)
  <2> SUFFICES ASSUME NEW x, NEW n, NEW c, Link(tree, x, n, c)
               PROVE  Link(t, x, n, c)
    BY DEF Grows
  <2>1. x \in 0 .. m - 1
    BY <1>0 DEF Link
  <2>2. x \in 0 .. m /\ x # m /\ D[x] = tree.dict[x]
    BY <1>3, <1>4, <2>1
  <2>3. x \in 0 .. t.nextDict - 1
    BY <1>2, <1>3, <2>2
  <2>4. n \in DOMAIN D[x].children /\ D[x].children[n] = c
    BY <2>2 DEF Link
  <2>5. n \in DOMAIN E[x].children /\ E[x].children[n] = c
    BY <1>8, <2>2, <2>4 DEF HasMore
  <2> QED BY <1>2, <2>3, <2>5 DEF Link
<1>11. Link(t, d, name, m)
  BY <1>2, <1>3, <1>8 DEF Link, HasMore
<1>12. /\ t.nextDict - 1 = m
       /\ \A c \in 1 .. m - 1 : c \in 0 .. m - 1 /\ c \in 1 .. m
       /\ m \in 1 .. m
  BY <1>2, <1>3
<1>13. Labelled(t, more, named)
  <2>1. /\ lab = [x \in 0 .. m - 1 |-> lab[x]] /\ lab[NODE_ROOT] = <<>>
        /\ named = [v \in 0 .. t.nextVal - 1 |-> named[v]]
        /\ \A x \in 0 .. m - 1 : lab[x] \in Seq(Names)
    BY <1>0, <1>2 DEF Labelled
  <2>2. /\ more = [x \in 0 .. m |-> more[x]] /\ more[m] = Append(lab[d], name)
        /\ \A x \in 0 .. m - 1 : more[x] = lab[x]
    BY <1>3, <2>1 DEF Put
  <2> HIDE DEF more
  <2>3. more[NODE_ROOT] = <<>>
    <3>1. NODE_ROOT \in 0 .. m - 1
      BY <1>3 DEF NODE_ROOT
    <3> QED BY <2>1, <2>2, <3>1
  <2>4. \A x \in 0 .. m : more[x] \in Seq(Names)
    <3>1. Append(lab[d], name) \in Seq(Names)
      BY <1>3, <2>1, AppendProperties
    <3> QED BY <1>3, <2>1, <2>2, <3>1
  <2>5. ASSUME NEW x \in 0 .. m, NEW n \in DOMAIN E[x].children
        PROVE  n \in Names /\ IsAt(t, more, named, E[x].children[n], Append(more[x], n))
    <3>1. CASE x \in 0 .. m - 1 /\ n \in DOMAIN tree.dict[x].children
      <4>1. n \in Names /\ IsAt(tree, lab, named, tree.dict[x].children[n], Append(lab[x], n))
        BY <1>0, <3>1 DEF Labelled
      <4>2. E[x].children[n] = tree.dict[x].children[n] /\ more[x] = lab[x]
        <5>1. D[x] = tree.dict[x] /\ more[x] = lab[x]
          BY <1>4, <2>2, <3>1
        <5>2. CASE x = d
          BY <1>8, <3>1, <5>1, <5>2 DEF HasMore
        <5>3. CASE x # d
          BY <1>8, <3>1, <5>1, <5>3 DEF HasMore
        <5> QED BY <5>1, <5>2, <5>3
      <4>3. \A c, q : IsAt(tree, lab, named, c, q) => IsAt(t, more, named, c, q)
        <5>1. \A c \in 1 .. m - 1 : c \in 1 .. t.nextDict - 1 /\ more[c] = lab[c]
          BY <1>12, <2>2
        <5> QED BY <1>0, <1>2, <5>1 DEF IsAt
      <4> QED BY <4>1, <4>2, <4>3
    <3>2. CASE x = d /\ n = name
      <4>1. E[x].children[n] = m /\ m \in 1 .. t.nextDict - 1
        BY <1>8, <1>12, <3>2 DEF HasMore
      <4>2. more[m] = Append(more[x], n)
        BY <1>3, <2>2, <3>2
      <4> QED BY <4>1, <4>2, <3>2 DEF IsAt
    <3>3. \/ x \in 0 .. m - 1 /\ n \in DOMAIN tree.dict[x].children
          \/ x = d /\ n = name
      <4>1. CASE x = m
        <5>1. x # d /\ E[x] = D[x]
          BY <1>3, <1>8, <4>1 DEF HasMore
        <5>2. DOMAIN E[x].children = {}
          BY <1>4, <1>5, <4>1, <5>1
        <5> QED BY <2>5, <5>2
      <4>2. CASE x = d
        BY <4>2, <1>3, <1>4, <1>7, <1>8 DEF HasMore
      <4>3. CASE x # m /\ x # d
        <5>1. x \in 0 .. m - 1 /\ E[x] = D[x] /\ D[x] = tree.dict[x]
          BY <1>3, <1>4, <1>8, <4>3 DEF HasMore
        <5> QED BY <5>1
      <4> QED BY <4>1, <4>2, <4>3
    <3> QED BY <3>1, <3>2, <3>3
  <2> QED BY <1>2, <1>12, <2>1, <2>2, <2>3, <2>4, <2>5 DEF Labelled
<1> QED BY <1>0, <1>2, <1>9, <1>10, <1>11, <1>13 DEF more

\* A value was added and set: the tree has grown by a link, and the value has a
\* label.
LEMMA ValueAdded ==
  ASSUME NEW tree, NEW lab, NEW named, TreeShape(tree), Labelled(tree, lab, named),
         NEW d \in 0 .. tree.nextDict - 1,
         NEW name \in Names, name \notin DOMAIN tree.dict[d].children,
         NEW a, a = AddNode(tree, d, name, "Value"),
         NEW t, t = SetValue(a.tree, a.id, tree.nextVal)
  PROVE  /\ a.result = "OK" /\ a.id = ValueBit + tree.nextVal
         /\ TreeShape(t)
         /\ Labelled(t, lab, Put(named, tree.nextVal, Append(lab[d], name)))
         /\ t.nextDict = tree.nextDict /\ t.nextVal = tree.nextVal + 1
         /\ DOMAIN t.val = DOMAIN tree.val \cup {tree.nextVal}
         /\ Grows(tree, t) /\ Link(t, d, name, ValueBit + tree.nextVal)
<1> DEFINE m == tree.nextDict - 1
           k == tree.nextVal
           id == ValueBit + k
           D == tree.dict
           E == Linked(D, d, name, id)
           V == Put(tree.val, k, ValueNode(d))
           W == [V EXCEPT ![k] = [parent |-> d, value |-> k]]
           more == Put(named, k, Append(lab[d], name))
<1>1. /\ m \in Nat /\ m + 1 = tree.nextDict /\ d \in 0 .. m
      /\ k \in Nat /\ k \notin 0 .. k - 1 /\ k + 1 - 1 = k
      /\ \A v \in 0 .. k - 1 : v \in 0 .. k
      /\ \A v \in 0 .. k : v \in 0 .. k - 1 \/ v = k
      /\ id \in Int /\ id - ValueBit = k
  BY TreeAssumption DEF TreeShape
<1>2. a = [tree |-> [dict |-> E, val |-> V,
                     nextDict |-> tree.nextDict, nextVal |-> k + 1],
           id |-> id, result |-> "OK"]
  BY NewValue
<1>3. Index(id) = k
  BY TreeAssumption, <1>1 DEF Index, IsValueID
<1>4. /\ tree.val = [v \in DOMAIN tree.val |-> tree.val[v]]
      /\ DOMAIN tree.val \subseteq 0 .. k - 1
      /\ \A v \in DOMAIN tree.val :
           /\ tree.val[v].parent \in 0 .. m
           /\ tree.val[v] = [parent |-> tree.val[v].parent, value |-> v]
  BY DEF TreeShape
<1>5. /\ V = [v \in DOMAIN tree.val \cup {k} |-> V[v]] /\ V[k] = [parent |-> d, value |-> 0]
      /\ \A v \in DOMAIN tree.val : V[v] = tree.val[v]
  BY <1>1, <1>4 DEF Put, ValueNode
<1>6. HasMore(E, D, m, d, name, id)
  <2>1. D = [x \in 0 .. m |-> D[x]] /\ \A x \in 0 .. m : IsDictionary(D[x])
    BY DEF TreeShape
  <2> HIDE DEF D, m
  <2>2. name \notin DOMAIN D[d].children
    BY DEF D
  <2> QED BY <1>1, <2>1, <2>2, LinkedIs
<1>7. /\ \A x \in 0 .. m : lab[x] \in Seq(Names)
      /\ lab = [x \in 0 .. m |-> lab[x]] /\ lab[NODE_ROOT] = <<>>
      /\ named = [v \in 0 .. k - 1 |-> named[v]]
  BY DEF Labelled
<1>8. /\ more = [v \in 0 .. k |-> more[v]] /\ more[k] = Append(lab[d], name)
      /\ \A v \in 0 .. k - 1 : more[v] = named[v]
  BY <1>1, <1>7 DEF Put
<1>9. tree.nextDict \in 1 .. ValueBit
  BY DEF TreeShape
<1>10. \A x, n, c : Link(tree, x, n, c) <=>
         x \in 0 .. m /\ n \in DOMAIN D[x].children /\ D[x].children[n] = c
  BY DEF Link
<1>11. \A x \in 0 .. m : \A n \in DOMAIN D[x].children :
         n \in Names /\ IsAt(tree, lab, named, D[x].children[n], Append(lab[x], n))
  BY DEF Labelled
<1> HIDE DEF E, V, D, m, id, more
<1>12. /\ W = [v \in DOMAIN tree.val \cup {k} |-> W[v]] /\ W[k] = [parent |-> d, value |-> k]
       /\ \A v \in DOMAIN tree.val : W[v] = tree.val[v]
  <2> DEFINE w == [parent |-> d, value |-> k]
  <2>1. k \notin DOMAIN tree.val
    BY <1>1, <1>4
  <2> HIDE DEF w, k
  <2> QED BY <1>5, <2>1
<1>13. t = [dict |-> E, val |-> W, nextDict |-> tree.nextDict, nextVal |-> k + 1]
  <2> DEFINE u == [dict |-> E, val |-> V, nextDict |-> tree.nextDict, nextVal |-> k + 1]
  <2>1. t = [u EXCEPT !.val[k].value = k]
    BY <1>2, <1>3 DEF SetValue
  <2>2. [V[k] EXCEPT !.value = k] = [parent |-> d, value |-> k]
    BY <1>5
  <2>3. [V EXCEPT ![k].value = k] = W
    BY <2>2
  <2> HIDE DEF W
  <2> QED BY <2>1, <2>3
<1> HIDE DEF W, k
<1>0. k = tree.nextVal /\ k \in Nat
  BY <1>1 DEF k
<1>14. /\ t.dict = E /\ t.val = W /\ t.nextDict = tree.nextDict /\ t.nextDict - 1 = m
       /\ t.nextVal = k + 1 /\ t.nextVal - 1 = k /\ IsTree(t)
  BY <1>0, <1>1, <1>13 DEF IsTree, m
<1>15. DOMAIN t.val = DOMAIN tree.val \cup {k}
  BY <1>12, <1>14
<1>16. TreeShape(t)
  <2>1. /\ t.dict = [x \in 0 .. t.nextDict - 1 |-> t.dict[x]]
        /\ \A x \in 0 .. t.nextDict - 1 : IsDictionary(t.dict[x])
    BY <1>6, <1>14 DEF HasMore
  <2>2. /\ t.val = [v \in DOMAIN t.val |-> t.val[v]]
        /\ DOMAIN t.val \subseteq 0 .. k
    BY <1>1, <1>4, <1>12, <1>14, <1>15
  <2>3. \A v \in DOMAIN t.val :
          /\ t.val[v].parent \in 0 .. m
          /\ t.val[v] = [parent |-> t.val[v].parent, value |-> v]
    <3> TAKE v \in DOMAIN t.val
    <3>1. CASE v = k
      BY <1>1, <1>12, <1>14, <3>1
    <3>2. CASE v \in DOMAIN tree.val
      <4>1. /\ tree.val[v].parent \in 0 .. m
            /\ tree.val[v] = [parent |-> tree.val[v].parent, value |-> v]
        BY <1>4, <3>2
      <4>2. t.val[v] = tree.val[v]
        BY <1>12, <1>14, <3>2
      <4> QED BY <4>1, <4>2
    <3> QED BY <1>15, <3>1, <3>2
  <2>4. t.nextDict \in 1 .. ValueBit /\ t.nextVal \in Nat
    BY <1>0, <1>9, <1>14
  <2> QED BY <1>14, <2>1, <2>2, <2>3, <2>4 DEF TreeShape
<1>17. Grows(tree, t)
  <2> SUFFICES ASSUME NEW x, NEW n, NEW c, Link(tree, x, n, c)
               PROVE  Link(t, x, n, c)
    BY DEF Grows
  <2>1. x \in 0 .. m /\ n \in DOMAIN D[x].children /\ D[x].children[n] = c
    BY <1>10
  <2>2. n \in DOMAIN E[x].children /\ E[x].children[n] = c
    BY <1>6, <2>1 DEF HasMore
  <2> QED BY <1>14, <2>1, <2>2 DEF Link
<1>18. Link(t, d, name, id)
  BY <1>1, <1>6, <1>14 DEF Link, HasMore
<1>19. Labelled(t, lab, more)
  <2>1. ASSUME NEW x \in 0 .. m, NEW n \in DOMAIN E[x].children
        PROVE  n \in Names /\ IsAt(t, lab, more, E[x].children[n], Append(lab[x], n))
    <3>1. CASE n \in DOMAIN D[x].children
      <4>1. n \in Names /\ IsAt(tree, lab, named, D[x].children[n], Append(lab[x], n))
        BY <1>11, <3>1
      <4>2. E[x].children[n] = D[x].children[n]
        BY <1>6, <3>1 DEF HasMore
      <4>3. ASSUME NEW c, NEW q, IsAt(tree, lab, named, c, q)
            PROVE  IsAt(t, lab, more, c, q)
        <5>1. CASE c \in 1 .. tree.nextDict - 1 /\ lab[c] = q
          BY <1>14, <5>1 DEF IsAt
        <5>2. CASE c - ValueBit \in 0 .. k - 1 /\ c \in Int /\ named[c - ValueBit] = q
          BY <1>1, <1>8, <1>14, <5>2 DEF IsAt
        <5> QED BY <1>0, <4>3, <5>1, <5>2 DEF IsAt
      <4> QED BY <4>1, <4>2, <4>3
    <3>2. CASE n \notin DOMAIN D[x].children
      <4>1. x = d /\ n = name /\ E[x].children[n] = id
        BY <1>6, <3>2, <2>1 DEF HasMore
      <4>2. k \in 0 .. t.nextVal - 1
        BY <1>0, <1>14
      <4>3. IsAt(t, lab, more, id, Append(lab[d], name))
        BY <1>1, <1>8, <4>2 DEF IsAt
      <4> QED BY <4>1, <4>3
    <3> QED BY <3>1, <3>2
  <2>2. \A x \in 0 .. m : /\ lab[x] \in Seq(Names)
                          /\ \A n \in DOMAIN E[x].children :
                               /\ n \in Names
                               /\ IsAt(t, lab, more, E[x].children[n], Append(lab[x], n))
    BY <1>7, <2>1
  <2>3. /\ t.nextDict - 1 = m /\ t.nextVal - 1 = k /\ t.dict = E
        /\ lab = [x \in 0 .. m |-> lab[x]] /\ lab[NODE_ROOT] = <<>>
        /\ more = [v \in 0 .. k |-> more[v]]
    BY <1>7, <1>8, <1>14
  <2>4. /\ lab = [x \in 0 .. t.nextDict - 1 |-> lab[x]]
        /\ more = [v \in 0 .. t.nextVal - 1 |-> more[v]]
    BY <2>3
  <2>5. \A x \in 0 .. t.nextDict - 1 :
          /\ lab[x] \in Seq(Names)
          /\ \A n \in DOMAIN t.dict[x].children :
               /\ n \in Names
               /\ IsAt(t, lab, more, t.dict[x].children[n], Append(lab[x], n))
    <3> TAKE x \in 0 .. t.nextDict - 1
    <3>1. x \in 0 .. m /\ t.dict[x] = E[x]
      BY <2>3
    <3> QED BY <2>2, <3>1
  <2> QED BY <2>3, <2>4, <2>5, Zenon DEF Labelled
<1>20. a.result = "OK" /\ a.id = id
  BY <1>2
<1> QED BY <1>0, <1>14, <1>15, <1>16, <1>17, <1>18, <1>19, <1>20 DEF id, more

-----------------------------------------------------------------------------
(* The walk of an addition                                                 *)

\* Node c, or the root, is at path p.
IsNode(tree, lab, named, c, p) ==
  (c = NODE_ROOT /\ p = <<>>) \/ IsAt(tree, lab, named, c, p)

Fine(r) == r \in {"OK", "DuplicateName"}

\* What a step of the walk finds where it is: an error, the name, or a place for
\* a new node.
LEMMA NodeAdded ==
  ASSUME NEW u, NEW lab, NEW named, TreeShape(u), Labelled(u, lab, named),
         NEW c, NEW p, IsNode(u, lab, named, c, p),
         NEW name, NEW type \in {"Dictionary", "Value"},
         NEW a, a = AddNode(u, c, name, type)
  PROVE  \/ ~Fine(a.result) /\ a.tree = u
         \/ /\ a.result = "DuplicateName" /\ a.tree = u
            /\ Link(u, c, name, a.id) /\ IsAt(u, lab, named, a.id, Append(p, name))
         \/ /\ c \in 0 .. u.nextDict - 1 /\ lab[c] = p
            /\ name \notin DOMAIN u.dict[c].children
<1>1. /\ u.nextDict \in 1 .. ValueBit /\ u.nextVal \in Nat /\ ValueBit \in Nat
      /\ DOMAIN u.dict = 0 .. u.nextDict - 1
  BY TreeAssumption DEF TreeShape
<1>2. CASE c \in 0 .. u.nextDict - 1 /\ lab[c] = p
  <2>1. HasNode(u, c) /\ ~IsValueID(c)
    BY <1>1, <1>2 DEF HasNode, IsValueID
  <2>2. CASE name \in DOMAIN u.dict[c].children
    <3>1. a = [tree |-> u, id |-> u.dict[c].children[name], result |-> "DuplicateName"]
      BY <2>1, <2>2 DEF AddNode
    <3>2. /\ a.result = "DuplicateName" /\ a.tree = u /\ a.id = u.dict[c].children[name]
      BY <3>1
    <3>3. IsAt(u, lab, named, u.dict[c].children[name], Append(lab[c], name))
      BY <1>2, <2>2 DEF Labelled
    <3> QED BY <1>2, <2>2, <3>2, <3>3 DEF Link
  <2> QED BY <1>2, <2>2
<1>3. CASE c - ValueBit \in 0 .. u.nextVal - 1 /\ c \in Int
  <2>1. IsValueID(c)
    BY <1>1, <1>3 DEF IsValueID
  <2>2. \/ a = [tree |-> u, id |-> c, result |-> "InvalidNodeID"]
        \/ a = [tree |-> u, id |-> c, result |-> "NeedDictionary"]
    BY <2>1 DEF AddNode
  <2> QED BY <2>2 DEF Fine
<1>4. \/ c \in 0 .. u.nextDict - 1 /\ lab[c] = p
      \/ c - ValueBit \in 0 .. u.nextVal - 1 /\ c \in Int
  <2>1. CASE c = NODE_ROOT /\ p = <<>>
    BY <1>1, <2>1 DEF Labelled, NODE_ROOT
  <2>2. CASE c \in 1 .. u.nextDict - 1 /\ lab[c] = p
    BY <1>1, <2>2
  <2> QED BY <2>1, <2>2 DEF IsNode, IsAt
<1> QED BY <1>2, <1>3, <1>4

\* Growth adds up.
LEMMA GrowsFurther ==
  ASSUME NEW t, NEW u, NEW v, Grows(t, u), Grows(u, v)
  PROVE  Grows(t, v)
BY DEF Grows

\* The tree u that a walk which began with tree has made of it: values are what
\* they were.
Walked(u, tree, made) ==
  /\ TreeShape(u) /\ Grows(tree, u)
  /\ u.val = tree.val /\ u.nextVal = tree.nextVal
  /\ u.nextDict <= tree.nextDict + made

\* How far the walk got along the path.
AlongTo(at, u, lab, named, path, k) ==
  Fine(at[k].result) =>
    /\ IsNode(u, lab, named, at[k].id, SubSeq(path, 1, k))
    /\ \A j \in 1 .. k : Link(u, at[j - 1].id, path[j], at[j].id)

\* The path so far, and one name more.
LEMMA OneNameMore ==
  ASSUME NEW path \in Seq(Names), NEW k \in 0 .. Len(path) - 1
  PROVE  /\ path[k + 1] \in Names
         /\ SubSeq(path, 1, k) \in Seq(Names)
         /\ Append(SubSeq(path, 1, k), path[k + 1]) = SubSeq(path, 1, k + 1)
<1>1. /\ Len(path) \in Nat /\ k + 1 \in 1 .. Len(path) /\ (k + 1) - 1 = k
      /\ \A i \in 1 .. Len(path) : path[i] \in Names
      /\ \A i \in 1 .. k : i \in 1 .. Len(path)
  OBVIOUS
<1>2. SubSeq(path, 1, k) \in Seq(Names)
  <2>1. \A i \in 1 .. k : path[i] \in Names
    BY <1>1
  <2> QED BY <2>1, SubSeqProperties
<1>3. SubSeq(path, 1, k + 1) = SubSeq(path, 1, (k + 1) - 1) \o <<path[k + 1]>>
  BY <1>1, SubSeqRecursiveSecond
<1>4. Append(SubSeq(path, 1, k), path[k + 1]) = SubSeq(path, 1, k) \o <<path[k + 1]>>
  BY <1>1, <1>2, AppendIsConcat
<1> QED BY <1>1, <1>2, <1>3, <1>4

\* The walk up to the last name but one adds dictionaries.
LEMMA WalkStep ==
  ASSUME NEW tree, NEW named, NEW path \in Seq(Names),
         tree.nextDict \in Nat, tree.nextDict + Len(path) <= ValueBit,
         NEW at, IsAdding(at, tree, path, Len(path)),
         NEW k \in 0 .. Len(path) - 2,
         Walked(at[k].tree, tree, k),
         NEW lab, Labelled(at[k].tree, lab, named),
         AlongTo(at, at[k].tree, lab, named, path, k)
  PROVE  /\ Walked(at[k + 1].tree, tree, k + 1)
         /\ \E more : /\ Labelled(at[k + 1].tree, more, named)
                      /\ AlongTo(at, at[k + 1].tree, more, named, path, k + 1)
<1> DEFINE u == at[k].tree
           a == AddNode(u, at[k].id, path[k + 1], "Dictionary")
           p == SubSeq(path, 1, k)
<1>1. /\ Len(path) \in Nat /\ k \in Nat /\ k \in 0 .. Len(path) - 1
      /\ k + 1 \in 0 .. Len(path) /\ k + 1 # 0 /\ (k + 1) - 1 = k /\ k + 1 < Len(path)
      /\ \A j \in 1 .. k + 1 : j \in 1 .. k \/ j = k + 1
      /\ ValueBit \in Nat
  BY TreeAssumption
<1>2. at[k + 1] = AddAlong(at[k], path, k + 1)
  BY <1>1 DEF IsAdding
<1>3. /\ path[k + 1] \in Names /\ p \in Seq(Names)
      /\ Append(p, path[k + 1]) = SubSeq(path, 1, k + 1)
  BY <1>1, OneNameMore
<1>4. /\ TreeShape(u) /\ Grows(tree, u) /\ u.val = tree.val /\ u.nextVal = tree.nextVal
      /\ u.nextDict <= tree.nextDict + k /\ u.nextDict \in Nat
  <2>1. /\ TreeShape(u) /\ Grows(tree, u) /\ u.val = tree.val /\ u.nextVal = tree.nextVal
        /\ u.nextDict <= tree.nextDict + k
    BY DEF Walked
  <2> HIDE DEF u
  <2>2. u.nextDict \in 1 .. ValueBit
    BY <2>1 DEF TreeShape
  <2> QED BY <1>1, <2>1, <2>2
<1>5. u.nextDict <= tree.nextDict + (k + 1) /\ u.nextDict < ValueBit
  <2> DEFINE r == u.nextDict
             w == tree.nextDict
             n == Len(path)
  <2>1. /\ r \in Nat /\ w \in Nat /\ n \in Nat /\ k \in Nat /\ ValueBit \in Nat
        /\ r <= w + k /\ k + 2 <= n /\ w + n <= ValueBit
    <3> HIDE DEF u, a, p
    <3> QED BY <1>1, <1>4
  <2> HIDE DEF r, w, n
  <2>2. r <= w + (k + 1) /\ r < ValueBit
    BY <2>1
  <2> QED BY <2>2 DEF r, w
<1> HIDE DEF p
<1>6. CASE ~Fine(at[k].result)
  <2>1. at[k + 1] = at[k]
    BY <1>2, <1>6 DEF AddAlong, Fine
  <2>2. Walked(u, tree, k + 1)
    BY <1>4, <1>5 DEF Walked
  <2>3. AlongTo(at, u, lab, named, path, k + 1)
    BY <1>6, <2>1 DEF AlongTo
  <2> QED BY <2>1, <2>2, <2>3
<1>7. CASE Fine(at[k].result)
  <2>1. at[k + 1] = a
    BY <1>1, <1>2, <1>7 DEF AddAlong, Fine
  <2>2. /\ IsNode(u, lab, named, at[k].id, p)
        /\ \A j \in 1 .. k : Link(u, at[j - 1].id, path[j], at[j].id)
    BY <1>7 DEF AlongTo, p
  <2> HIDE DEF a
  <2>3. \/ ~Fine(a.result) /\ a.tree = u
        \/ /\ a.result = "DuplicateName" /\ a.tree = u
           /\ Link(u, at[k].id, path[k + 1], a.id)
           /\ IsAt(u, lab, named, a.id, Append(p, path[k + 1]))
        \/ /\ at[k].id \in 0 .. u.nextDict - 1 /\ lab[at[k].id] = p
           /\ path[k + 1] \notin DOMAIN u.dict[at[k].id].children
    BY <1>4, <2>2, NodeAdded DEF a
  <2>4. CASE ~Fine(a.result) /\ a.tree = u
    <3>1. Walked(u, tree, k + 1)
      BY <1>4, <1>5 DEF Walked
    <3>2. AlongTo(at, u, lab, named, path, k + 1)
      BY <2>1, <2>4 DEF AlongTo
    <3> QED BY <2>1, <2>4, <3>1, <3>2
  <2>5. CASE /\ a.result = "DuplicateName" /\ a.tree = u
             /\ Link(u, at[k].id, path[k + 1], a.id)
             /\ IsAt(u, lab, named, a.id, Append(p, path[k + 1]))
    <3>1. Walked(u, tree, k + 1)
      BY <1>4, <1>5 DEF Walked
    <3>2. IsNode(u, lab, named, at[k + 1].id, SubSeq(path, 1, k + 1))
      BY <1>3, <2>1, <2>5 DEF IsNode
    <3>3. \A j \in 1 .. k + 1 : Link(u, at[j - 1].id, path[j], at[j].id)
      BY <1>1, <2>1, <2>2, <2>5
    <3>4. AlongTo(at, u, lab, named, path, k + 1)
      BY <3>2, <3>3 DEF AlongTo
    <3> QED BY <2>1, <2>5, <3>1, <3>4
  <2>6. CASE /\ at[k].id \in 0 .. u.nextDict - 1 /\ lab[at[k].id] = p
             /\ path[k + 1] \notin DOMAIN u.dict[at[k].id].children
    <3> DEFINE t == a.tree
               more == Put(lab, u.nextDict, Append(lab[at[k].id], path[k + 1]))
    <3>1. /\ TreeShape(t) /\ Labelled(t, more, named)
          /\ t.nextDict = u.nextDict + 1 /\ t.val = u.val /\ t.nextVal = u.nextVal
          /\ Grows(u, t) /\ Link(t, at[k].id, path[k + 1], u.nextDict)
      <4> DEFINE d == at[k].id  name == path[k + 1]
      <4>1. /\ t = AddNode(u, d, name, "Dictionary").tree
            /\ d \in 0 .. u.nextDict - 1 /\ name \in Names
            /\ name \notin DOMAIN u.dict[d].children
            /\ more = Put(lab, u.nextDict, Append(lab[d], name))
            /\ TreeShape(u) /\ Labelled(u, lab, named)
        BY <1>3, <1>4, <2>6 DEF a
      <4> HIDE DEF u, d, name, t, more
      <4>2. /\ TreeShape(t) /\ Labelled(t, more, named)
            /\ t.nextDict = u.nextDict + 1 /\ t.val = u.val /\ t.nextVal = u.nextVal
            /\ Grows(u, t) /\ Link(t, d, name, u.nextDict)
        BY <1>5, <4>1, DictionaryAdded
      <4> QED BY <4>2 DEF d, name
    <3>2. a.id = u.nextDict
      BY <1>4, <1>5, <2>6, NewDictionary DEF a
    <3>3. more[u.nextDict] = SubSeq(path, 1, k + 1)
      BY <1>3, <2>6 DEF Put
    <3> HIDE DEF t, more
    <3>4. Grows(tree, t)
      BY <1>4, <3>1, GrowsFurther
    <3>5. t.nextDict <= tree.nextDict + (k + 1)
      BY <1>1, <1>4, <3>1
    <3>6. Walked(t, tree, k + 1)
      BY <1>4, <3>1, <3>4, <3>5 DEF Walked
    <3>7. u.nextDict \in 1 .. t.nextDict - 1
      BY <1>4, <3>1 DEF TreeShape
    <3>8. IsNode(t, more, named, u.nextDict, SubSeq(path, 1, k + 1))
      BY <3>3, <3>7 DEF IsNode, IsAt
    <3>9. \A j \in 1 .. k + 1 : Link(t, at[j - 1].id, path[j], at[j].id)
      <4>1. \A j \in 1 .. k : Link(t, at[j - 1].id, path[j], at[j].id)
        BY <2>2, <3>1 DEF Grows
      <4>2. Link(t, at[k].id, path[k + 1], at[k + 1].id)
        BY <2>1, <3>1, <3>2
      <4> QED BY <1>1, <4>1, <4>2
    <3>10. AlongTo(at, t, more, named, path, k + 1)
      BY <2>1, <3>2, <3>8, <3>9 DEF AlongTo
    <3>11. at[k + 1].tree = t
      BY <2>1 DEF t
    <3> QED BY <3>1, <3>6, <3>10, <3>11
  <2> QED BY <2>3, <2>4, <2>5, <2>6
<1> QED BY <1>6, <1>7

\* All names of the path lead on, to the node at its end.
Leads(tree, path, id) ==
  \E nodes : /\ nodes[0] = NODE_ROOT /\ nodes[Len(path)] = id
             /\ \A j \in 1 .. Len(path) : Link(tree, nodes[j - 1], path[j], nodes[j])

\* A walk that makes no value leaves a tree with the same values.
SameValues(u, tree, named) ==
  /\ TreeShape(u) /\ Grows(tree, u) /\ (\E lab : Labelled(u, lab, named))
  /\ u.val = tree.val /\ u.nextVal = tree.nextVal

\* One that does, a tree with one more, to which the path leads.
OneValueMore(t, tree, named, path) ==
  /\ TreeShape(t) /\ Grows(tree, t)
  /\ \E lab : Labelled(t, lab, Put(named, tree.nextVal, path))
  /\ t.nextVal = tree.nextVal + 1
  /\ DOMAIN t.val = DOMAIN tree.val \cup {tree.nextVal}
  /\ Leads(t, path, ValueBit + tree.nextVal)

\* The last name gets a value, if it can.
LEMMA WalkLast ==
  ASSUME NEW tree, NEW named, NEW path \in Seq(Names), Len(path) # 0,
         NEW at, IsAdding(at, tree, path, Len(path)),
         Walked(at[Len(path) - 1].tree, tree, Len(path) - 1),
         NEW lab, Labelled(at[Len(path) - 1].tree, lab, named),
         AlongTo(at, at[Len(path) - 1].tree, lab, named, path, Len(path) - 1),
         NEW end, end = at[Len(path)]
  PROVE  /\ end.result # "OK" => SameValues(end.tree, tree, named)
         /\ end.result = "OK" =>
              /\ end.id = ValueBit + tree.nextVal
              /\ OneValueMore(SetValue(end.tree, end.id, tree.nextVal), tree, named, path)
<1> DEFINE k == Len(path) - 1
           n == Len(path)
           u == at[k].tree
           d == at[k].id
           name == path[n]
           p == SubSeq(path, 1, k)
<1>1. /\ n \in Nat /\ k \in Nat /\ k \in 0 .. n - 1 /\ k + 1 = n
      /\ n \in 0 .. n /\ n # 0 /\ n - 1 = k /\ ~(n < n)
      /\ \A j \in 1 .. n : j \in 1 .. k \/ j = n
  OBVIOUS
<1>2. end = AddAlong(at[k], path, n)
  BY <1>1 DEF IsAdding
<1>3. /\ name \in Names /\ p \in Seq(Names) /\ Append(p, name) = path
  <2>1. /\ path[k + 1] \in Names /\ p \in Seq(Names)
        /\ Append(p, path[k + 1]) = SubSeq(path, 1, k + 1)
    BY <1>1, OneNameMore
  <2>2. SubSeq(path, 1, n) = path
    BY SubSeqFull
  <2>3. k + 1 = n
    BY <1>1
  <2> HIDE DEF k, n, p
  <2>4. path[n] \in Names /\ Append(p, path[n]) = path
    BY <2>1, <2>2, <2>3
  <2> QED BY <2>1, <2>4 DEF n
<1>4. at[0].id = NODE_ROOT
  <2>1. 0 \in 0 .. Len(path)
    <3>1. Len(path) \in Nat
      OBVIOUS
    <3> QED BY <3>1
  <2>2. at[0] = [tree |-> tree, id |-> NODE_ROOT, result |-> "OK"]
    BY <2>1 DEF IsAdding
  <2> QED BY <2>2
<1>5. /\ TreeShape(u) /\ Grows(tree, u) /\ u.val = tree.val /\ u.nextVal = tree.nextVal
  BY DEF Walked
<1>6. /\ Labelled(u, lab, named) /\ AlongTo(at, u, lab, named, path, k)
      /\ at[k].tree = u /\ at[k].id = d /\ path[n] = name
  OBVIOUS
<1>7. SameValues(u, tree, named)
  BY <1>5, <1>6 DEF SameValues
<1>8. CASE ~Fine(at[k].result)
  <2>1. end = at[k]
    BY <1>2, <1>8 DEF AddAlong, Fine
  <2>2. end.result # "OK" /\ end.tree = u
    BY <1>8, <2>1 DEF Fine
  <2> QED BY <1>7, <2>2
<1>9. CASE Fine(at[k].result)
  <2>1. end = AddNode(u, d, name, "Value")
    BY <1>1, <1>2, <1>9 DEF AddAlong, Fine
  <2>2. /\ IsNode(u, lab, named, d, p)
        /\ \A j \in 1 .. k : Link(u, at[j - 1].id, path[j], at[j].id)
    BY <1>9 DEF AlongTo
  <2> HIDE DEF u, d, name, k, n, p
  <2>3. \/ ~Fine(end.result) /\ end.tree = u
        \/ end.result = "DuplicateName" /\ end.tree = u
        \/ /\ d \in 0 .. u.nextDict - 1 /\ lab[d] = p
           /\ name \notin DOMAIN u.dict[d].children
    BY <1>5, <1>6, <2>1, <2>2, NodeAdded
  <2>4. CASE end.tree = u /\ end.result # "OK"
    BY <1>7, <2>4
  <2>5. CASE /\ d \in 0 .. u.nextDict - 1 /\ lab[d] = p
             /\ name \notin DOMAIN u.dict[d].children
    <3> DEFINE t == SetValue(end.tree, end.id, u.nextVal)
    <3>1. /\ end.result = "OK" /\ end.id = ValueBit + u.nextVal
          /\ TreeShape(t)
          /\ Labelled(t, lab, Put(named, u.nextVal, Append(lab[d], name)))
          /\ t.nextVal = u.nextVal + 1
          /\ DOMAIN t.val = DOMAIN u.val \cup {u.nextVal}
          /\ Grows(u, t) /\ Link(t, d, name, ValueBit + u.nextVal)
      <4>1. /\ t = SetValue(end.tree, end.id, u.nextVal)
            /\ end = AddNode(u, d, name, "Value")
            /\ d \in 0 .. u.nextDict - 1 /\ name \in Names
            /\ name \notin DOMAIN u.dict[d].children
            /\ TreeShape(u) /\ Labelled(u, lab, named)
        BY <1>3, <1>5, <1>6, <2>1, <2>5
      <4> HIDE DEF t
      <4> QED BY <4>1, ValueAdded
    <3> HIDE DEF t
    <3>2. Labelled(t, lab, Put(named, tree.nextVal, path))
      BY <1>3, <1>5, <2>5, <3>1
    <3>3. Leads(t, path, ValueBit + tree.nextVal)
      <4> DEFINE nodes == [j \in 0 .. n |-> IF j = n THEN ValueBit + tree.nextVal
                                            ELSE at[j].id]
      <4>1. nodes[0] = NODE_ROOT /\ nodes[n] = ValueBit + tree.nextVal
        BY <1>1, <1>4
      <4>2. \A j \in 1 .. n : Link(t, nodes[j - 1], path[j], nodes[j])
        <5>1. ASSUME NEW j \in 1 .. k
              PROVE  Link(t, nodes[j - 1], path[j], nodes[j])
          <6>1. j \in 0 .. n /\ j - 1 \in 0 .. n /\ j # n /\ j - 1 # n
            BY <1>1
          <6>2. Link(t, at[j - 1].id, path[j], at[j].id)
            BY <2>2, <3>1 DEF Grows
          <6> QED BY <6>1, <6>2
        <5>2. Link(t, nodes[n - 1], path[n], nodes[n])
          <6>1. nodes[n - 1] = d
            BY <1>1, <1>6
          <6> QED BY <1>5, <1>6, <3>1, <4>1, <6>1
        <5> QED BY <1>1, <5>1, <5>2
      <4> HIDE DEF nodes
      <4>3. Len(path) = n
        BY DEF n
      <4> QED BY <4>1, <4>2, <4>3 DEF Leads
    <3>4. Grows(tree, t)
      BY <1>5, <3>1, GrowsFurther
    <3>5. OneValueMore(t, tree, named, path)
      BY <1>5, <3>1, <3>2, <3>3, <3>4 DEF OneValueMore
    <3> QED BY <1>5, <3>1, <3>5 DEF t
  <2> QED BY <2>3, <2>4, <2>5 DEF Fine
<1> QED BY <1>8, <1>9

\* A walk adds a value at the path or none.
LEMMA PathAdded ==
  ASSUME NEW tree, NEW lab, NEW named, TreeShape(tree), Labelled(tree, lab, named),
         NEW path \in Seq(Names), Len(path) # 0,
         tree.nextDict + Len(path) <= ValueBit,
         NEW end, end = TraceAdd(tree, path)
  PROVE  /\ end.result # "OK" => SameValues(end.tree, tree, named)
         /\ end.result = "OK" =>
              /\ end.id = ValueBit + tree.nextVal
              /\ OneValueMore(SetValue(end.tree, end.id, tree.nextVal), tree, named, path)
<1> DEFINE n == Len(path)
<1>1. n \in Nat /\ n - 1 \in Nat /\ 0 \in 0 .. n
  OBVIOUS
<1>2. PICK at : IsAdding(at, tree, path, n) /\ end = at[n]
  BY <1>1, AddingSteps
<1> DEFINE Good(k) == /\ Walked(at[k].tree, tree, k)
                      /\ \E more : /\ Labelled(at[k].tree, more, named)
                                   /\ AlongTo(at, at[k].tree, more, named, path, k)
           P == {k \in 0 .. n - 1 : Good(k)}
<1>3. 0 \in P
  <2>1. at[0] = [tree |-> tree, id |-> NODE_ROOT, result |-> "OK"]
    BY <1>1, <1>2 DEF IsAdding
  <2>2. at[0].tree = tree /\ at[0].id = NODE_ROOT
    BY <2>1
  <2>3. Walked(tree, tree, 0)
    <3>1. tree.nextDict <= tree.nextDict + 0
      BY DEF TreeShape
    <3>2. Grows(tree, tree)
      BY DEF Grows
    <3> QED BY <3>1, <3>2 DEF Walked
  <2>4. AlongTo(at, tree, lab, named, path, 0)
    <3>1. SubSeq(path, 1, 0) = <<>>
      BY SubSeqEmpty
    <3>2. \A j \in 1 .. 0 : FALSE
      OBVIOUS
    <3> QED BY <2>2, <3>1, <3>2 DEF AlongTo, IsNode
  <2>5. 0 \in 0 .. n - 1
    BY <1>1
  <2> QED BY <2>2, <2>3, <2>4, <2>5
<1>4. ASSUME NEW k \in 0 .. n - 1 - 1, k \in P
      PROVE  k + 1 \in P
  <2>1. k \in 0 .. n - 2 /\ k + 1 \in 0 .. n - 1
    BY <1>1
  <2>2. Walked(at[k].tree, tree, k)
    BY <1>4
  <2>3. PICK more : /\ Labelled(at[k].tree, more, named)
                    /\ AlongTo(at, at[k].tree, more, named, path, k)
    BY <1>4
  <2>4. tree.nextDict \in Nat
    BY DEF TreeShape
  <2>5. Good(k + 1)
    BY <1>2, <2>1, <2>2, <2>3, <2>4, WalkStep
  <2> QED BY <2>1, <2>5
<1>5. Good(n - 1)
  <2> DEFINE m == n - 1
  <2>1. m \in Nat
    BY <1>1
  <2>2. \A k \in 0 .. m - 1 : k \in P => k + 1 \in P
    BY <1>4
  <2>3. \A k \in P : Good(k)
    OBVIOUS
  <2>4. m = n - 1
    OBVIOUS
  <2> HIDE DEF m, n, P, Good
  <2>5. \A k \in 0 .. m : k \in P
    BY <1>3, <2>1, <2>2, AllUpTo
  <2> QED BY <2>1, <2>3, <2>4, <2>5
<1>6. PICK more : /\ Labelled(at[n - 1].tree, more, named)
                  /\ AlongTo(at, at[n - 1].tree, more, named, path, n - 1)
  BY <1>5
<1> QED BY <1>2, <1>5, <1>6, WalkLast

-----------------------------------------------------------------------------
(* The walk of a search                                                    *)

\* A search that succeeds follows the names.
LEMMA FoundLeads ==
  ASSUME NEW tree, TreeShape(tree), NEW path, Len(path) \in Nat,
         NEW found, found = TraceFind(tree, path), found.result = "OK"
  PROVE  Leads(tree, path, found.id)
<1> DEFINE n == Len(path)
<1>1. PICK at : IsFinding(at, tree, path, n) /\ found = at[n]
  BY FindingSteps
<1>2. at[0].id = NODE_ROOT
  <2>1. 0 \in 0 .. Len(path)
    OBVIOUS
  <2>2. at[0] = [id |-> NODE_ROOT, result |-> "OK"]
    BY <1>1, <2>1 DEF IsFinding
  <2> QED BY <2>2
<1>3. ASSUME NEW j \in 1 .. n
      PROVE  at[j] = FindAlong(tree, at[j - 1], path[j])
  <2>1. j \in 0 .. Len(path) /\ j # 0
    OBVIOUS
  <2> QED BY <1>1, <2>1 DEF IsFinding
<1>4. ASSUME NEW j \in 1 .. n, at[j].result = "OK"
      PROVE  at[j - 1].result = "OK" /\ Link(tree, at[j - 1].id, path[j], at[j].id)
  <2> DEFINE a == at[j - 1]  b == at[j]  name == path[j]
  <2>1. b = FindAlong(tree, a, name)
    BY <1>3
  <2> HIDE DEF a, b, name
  <2>2. b.result = "OK"
    BY <1>4 DEF b
  <2>3. a.result = "OK" /\ b = FindChild(tree, a.id, name)
    BY <2>1, <2>2 DEF FindAlong
  <2>4. HasNode(tree, a.id) /\ ~IsValueID(a.id) /\ name \in DOMAIN tree.dict[a.id].children
    BY <2>2, <2>3 DEF FindChild
  <2>5. b = [id |-> tree.dict[a.id].children[name], result |-> "OK"]
    BY <2>3, <2>4 DEF FindChild
  <2>6. a.id \in 0 .. tree.nextDict - 1
    BY <2>4 DEF HasNode, TreeShape
  <2>7. Link(tree, a.id, name, b.id)
    BY <2>4, <2>5, <2>6 DEF Link
  <2> QED BY <2>3, <2>7 DEF a, b, name
<1>5. \A j \in 0 .. n : at[j].result = "OK"
  <2> DEFINE P == {k \in 0 .. n : at[n - k].result = "OK"}
             m == n
  <2>1. 0 \in P
    BY <1>1
  <2>2. ASSUME NEW k \in 0 .. m - 1, k \in P
        PROVE  k + 1 \in P
    <3>1. m - k \in 1 .. n /\ m - (k + 1) = (m - k) - 1 /\ k + 1 \in 0 .. n
      OBVIOUS
    <3>2. at[m - k].result = "OK"
      BY <2>2
    <3>3. at[(m - k) - 1].result = "OK"
      BY <1>4, <3>1, <3>2
    <3> QED BY <3>1, <3>3
  <2>3. \A k \in 0 .. m : k \in P
    <3>1. m \in Nat
      OBVIOUS
    <3> HIDE DEF m, P
    <3> QED BY <2>1, <2>2, <3>1, AllUpTo
  <2> TAKE j \in 0 .. n
  <2>4. n - j \in P /\ n - (n - j) = j
    BY <2>3
  <2>5. at[n - (n - j)].result = "OK"
    BY <2>4
  <2> QED BY <2>4, <2>5
<1> DEFINE nodes == [j \in 0 .. n |-> at[j].id]
<1>6. nodes[0] = NODE_ROOT /\ nodes[n] = found.id
  BY <1>1, <1>2
<1>7. \A j \in 1 .. n : Link(tree, nodes[j - 1], path[j], nodes[j])
  <2> TAKE j \in 1 .. n
  <2>1. j \in 0 .. n /\ j - 1 \in 0 .. n
    OBVIOUS
  <2> QED BY <1>4, <1>5, <2>1
<1> HIDE DEF nodes
<1> QED BY <1>6, <1>7 DEF Leads

\* A search along names that lead on finds the node at their end.
LEMMA LeadsFound ==
  ASSUME NEW tree, TreeShape(tree), NEW path, Len(path) \in Nat,
         NEW id, Leads(tree, path, id)
  PROVE  TraceFind(tree, path) = [id |-> id, result |-> "OK"]
<1> DEFINE n == Len(path)
<1>1. PICK at : IsFinding(at, tree, path, n) /\ TraceFind(tree, path) = at[n]
  BY FindingSteps
<1>2. PICK nodes : /\ nodes[0] = NODE_ROOT /\ nodes[n] = id
                   /\ \A j \in 1 .. n : Link(tree, nodes[j - 1], path[j], nodes[j])
  BY DEF Leads
<1> DEFINE P == {k \in 0 .. n : at[k] = [id |-> nodes[k], result |-> "OK"]}
           m == n
<1>3. 0 \in P
  <2>1. 0 \in 0 .. Len(path)
    OBVIOUS
  <2> QED BY <1>1, <1>2, <2>1 DEF IsFinding
<1>4. ASSUME NEW k \in 0 .. m - 1, k \in P
      PROVE  k + 1 \in P
  <2>1. k + 1 \in 0 .. Len(path) /\ k + 1 # 0 /\ (k + 1) - 1 = k /\ k + 1 \in 1 .. n
    OBVIOUS
  <2>2. at[k + 1] = FindAlong(tree, at[k], path[k + 1])
    BY <1>1, <2>1 DEF IsFinding
  <2>3. at[k].id = nodes[k] /\ at[k].result = "OK"
    BY <1>4
  <2>4. Link(tree, nodes[k], path[k + 1], nodes[k + 1])
    <3>1. Link(tree, nodes[(k + 1) - 1], path[k + 1], nodes[k + 1])
      BY <1>2, <2>1
    <3> QED BY <2>1, <3>1
  <2>5. at[k + 1] = FindChild(tree, nodes[k], path[k + 1])
    BY <2>2, <2>3 DEF FindAlong
  <2>6. HasNode(tree, nodes[k]) /\ ~IsValueID(nodes[k])
    <3>1. nodes[k] \in 0 .. tree.nextDict - 1
      BY <2>4 DEF Link
    <3>2. tree.nextDict \in 1 .. ValueBit /\ ValueBit \in Nat
          /\ DOMAIN tree.dict = 0 .. tree.nextDict - 1
      BY TreeAssumption DEF TreeShape
    <3>3. ~IsValueID(nodes[k])
      BY <3>1, <3>2 DEF IsValueID
    <3> QED BY <3>1, <3>2, <3>3 DEF HasNode
  <2>7. at[k + 1] = [id |-> nodes[k + 1], result |-> "OK"]
    BY <2>4, <2>5, <2>6 DEF FindChild, Link
  <2> QED BY <2>1, <2>7
<1>5. n \in P
  <2>1. m \in Nat
    OBVIOUS
  <2>2. m = n
    OBVIOUS
  <2> HIDE DEF m, n, P
  <2>3. \A k \in 0 .. m : k \in P
    BY <1>3, <1>4, <2>1, AllUpTo
  <2> QED BY <2>1, <2>2, <2>3
<1> QED BY <1>1, <1>2, <1>5

\* What a path leads to has the path for a label.
LEMMA LedToLabel ==
  ASSUME NEW tree, NEW lab, NEW named, TreeShape(tree), Labelled(tree, lab, named),
         NEW path \in Seq(Names), NEW id, Leads(tree, path, id)
  PROVE  IsNode(tree, lab, named, id, path)
<1> DEFINE n == Len(path)
           m == n
<1>0. n \in Nat
  OBVIOUS
<1>1. PICK nodes : /\ nodes[0] = NODE_ROOT /\ nodes[n] = id
                   /\ \A j \in 1 .. n : Link(tree, nodes[j - 1], path[j], nodes[j])
  BY DEF Leads
<1> DEFINE P == {k \in 0 .. n : IsNode(tree, lab, named, nodes[k], SubSeq(path, 1, k))}
<1>2. 0 \in P
  <2>1. SubSeq(path, 1, 0) = <<>>
    BY SubSeqEmpty
  <2>2. IsNode(tree, lab, named, nodes[0], SubSeq(path, 1, 0))
    BY <1>1, <2>1 DEF IsNode
  <2> QED BY <1>0, <2>2
<1>3. ASSUME NEW k \in 0 .. m - 1, k \in P
      PROVE  k + 1 \in P
  <2>1. k \in 0 .. Len(path) - 1 /\ k + 1 \in 1 .. n /\ (k + 1) - 1 = k /\ k + 1 \in 0 .. n
    BY <1>0
  <2>2. Append(SubSeq(path, 1, k), path[k + 1]) = SubSeq(path, 1, k + 1)
    BY <2>1, OneNameMore
  <2>3. Link(tree, nodes[k], path[k + 1], nodes[k + 1])
    <3>1. Link(tree, nodes[(k + 1) - 1], path[k + 1], nodes[k + 1])
      BY <1>1, <2>1
    <3> QED BY <2>1, <3>1
  <2> DEFINE c == nodes[k]  b == nodes[k + 1]  p == SubSeq(path, 1, k)  name == path[k + 1]
  <2>4. IsNode(tree, lab, named, c, p)
    BY <1>3
  <2>5. Link(tree, c, name, b)
    BY <2>3
  <2> HIDE DEF c, b, p, name
  <2>6. c \in 0 .. tree.nextDict - 1 /\ IsAt(tree, lab, named, b, Append(lab[c], name))
    BY <2>5 DEF Link, Labelled
  <2>7. lab[c] = p
    <3>1. tree.nextDict \in 1 .. ValueBit /\ ValueBit \in Nat /\ tree.nextVal \in Nat
      BY TreeAssumption DEF TreeShape
    <3>2. ~(c - ValueBit \in 0 .. tree.nextVal - 1 /\ c \in Int)
      BY <2>6, <3>1
    <3> QED BY <2>4, <3>2 DEF IsNode, IsAt, Labelled
  <2>8. IsNode(tree, lab, named, b, Append(p, name))
    BY <2>6, <2>7 DEF IsNode
  <2> QED BY <2>1, <2>2, <2>8 DEF b, p, name
<1>4. n \in P
  <2>1. m \in Nat /\ m = n
    OBVIOUS
  <2> HIDE DEF m, n, P
  <2>2. \A k \in 0 .. m : k \in P
    BY <1>2, <1>3, <2>1, AllUpTo
  <2> QED BY <2>1, <2>2
<1>5. SubSeq(path, 1, n) = path
  BY SubSeqFull
<1>6. IsNode(tree, lab, named, nodes[n], SubSeq(path, 1, n))
  BY <1>4
<1> QED BY <1>1, <1>5, <1>6

-----------------------------------------------------------------------------
(* A value is removed                                                      *)

\* Links may go with it, but none changes and no label.
LEMMA ValueRemoved ==
  ASSUME NEW tree, NEW lab, NEW named, TreeShape(tree), Labelled(tree, lab, named),
         NEW v \in DOMAIN tree.val,
         NEW t, t = RemoveValue(tree, ValueBit + v)
  PROVE  /\ TreeShape(t) /\ Labelled(t, lab, named)
         /\ t.nextVal = tree.nextVal /\ DOMAIN t.val = DOMAIN tree.val \ {v}
<1> DEFINE m == tree.nextDict - 1
           d == tree.val[v].parent
           D == tree.dict
           kids == RemoveChild(D[d].children, v)
           own == [parent |-> D[d].parent, children |-> kids]
           E == [D EXCEPT ![d] = own]
           V == Without(tree.val, {v})
<1>1. /\ IsTree(tree) /\ tree.nextDict \in 1 .. ValueBit /\ tree.nextVal \in Nat
      /\ D = [x \in 0 .. m |-> D[x]] /\ \A x \in 0 .. m : IsDictionary(D[x])
      /\ tree.val = [w \in DOMAIN tree.val |-> tree.val[w]]
      /\ DOMAIN tree.val \subseteq 0 .. tree.nextVal - 1
      /\ \A w \in DOMAIN tree.val :
           /\ tree.val[w].parent \in 0 .. m
           /\ tree.val[w] = [parent |-> tree.val[w].parent, value |-> w]
  BY DEF TreeShape
<1>2. d \in 0 .. m /\ v \in Nat
  <2>1. \A w \in DOMAIN tree.val : tree.val[w].parent \in 0 .. m
    BY <1>1
  <2>2. DOMAIN tree.val \subseteq 0 .. tree.nextVal - 1
    BY <1>1
  <2> QED BY <2>1, <2>2
<1>3. Index(ValueBit + v) = v
  <2> HIDE DEF d, m
  <2> QED BY TreeAssumption, <1>2 DEF Index, IsValueID
<1>4. /\ lab = [x \in 0 .. m |-> lab[x]] /\ lab[NODE_ROOT] = <<>>
      /\ named = [w \in 0 .. tree.nextVal - 1 |-> named[w]]
      /\ \A x \in 0 .. m :
           /\ lab[x] \in Seq(Names)
           /\ \A n \in DOMAIN D[x].children :
                n \in Names /\ IsAt(tree, lab, named, D[x].children[n], Append(lab[x], n))
  BY DEF Labelled
<1>5. /\ V = [w \in DOMAIN tree.val \ {v} |-> V[w]]
      /\ \A w \in DOMAIN tree.val \ {v} : V[w] = tree.val[w]
  BY <1>1 DEF Without
<1>6. /\ kids = [n \in DOMAIN kids |-> kids[n]] /\ DOMAIN kids \subseteq DOMAIN D[d].children
      /\ \A n \in DOMAIN kids : kids[n] = D[d].children[n]
  BY DEF RemoveChild, Without
<1>7. t = [[tree EXCEPT !.dict = E] EXCEPT !.val = V]
  <2>1. t = [[tree EXCEPT !.dict[d].children = kids] EXCEPT !.val = V]
    BY <1>3 DEF RemoveValue
  <2>2. IsDictionary(D[d])
    BY <1>1, <1>2
  <2>3. [D[d] EXCEPT !.children = kids] = own
    <3> HIDE DEF kids, D, d
    <3> QED BY <2>2 DEF IsDictionary
  <2>4. [tree EXCEPT !.dict[d].children = kids] = [tree EXCEPT !.dict = E]
    <3> HIDE DEF kids
    <3> QED BY <2>3
  <2> QED BY <2>1, <2>4
<1> HIDE DEF kids
<1>8. own.parent = D[d].parent /\ own.children = kids
  OBVIOUS
<1> HIDE DEF own, d, D, m, V
<1>9. IsDictionary(own)
  BY <1>6, <1>8 DEF IsDictionary, own
<1>10. /\ E = [x \in 0 .. m |-> E[x]] /\ \A x \in 0 .. m : IsDictionary(E[x])
       /\ E[d] = own /\ \A x \in 0 .. m : x # d => E[x] = D[x]
  BY <1>1, <1>2, <1>9
<1> HIDE DEF E
<1>11. t = [dict |-> E, val |-> V, nextDict |-> tree.nextDict, nextVal |-> tree.nextVal]
  <2> DEFINE u == [tree EXCEPT !.dict = E]
  <2>1. u = [dict |-> E, val |-> tree.val,
             nextDict |-> tree.nextDict, nextVal |-> tree.nextVal]
    BY <1>1 DEF IsTree
  <2> HIDE DEF u
  <2>2. [u EXCEPT !.val = V] = [dict |-> E, val |-> V, nextDict |-> tree.nextDict,
                                nextVal |-> tree.nextVal]
    BY <2>1
  <2> QED BY <1>7, <2>2 DEF u
<1>12. /\ t.dict = E /\ t.val = V /\ t.nextDict = tree.nextDict /\ t.nextVal = tree.nextVal
       /\ IsTree(t) /\ t.nextDict - 1 = m
  BY <1>11 DEF IsTree, m
<1>13. DOMAIN t.val = DOMAIN tree.val \ {v}
  BY <1>5, <1>12
<1>14. TreeShape(t)
  <2>1. /\ t.dict = [x \in 0 .. t.nextDict - 1 |-> t.dict[x]]
        /\ \A x \in 0 .. t.nextDict - 1 : IsDictionary(t.dict[x])
    BY <1>10, <1>12
  <2>2. t.val = [w \in DOMAIN t.val |-> t.val[w]]
    BY <1>5, <1>12, <1>13
  <2>3. DOMAIN t.val \subseteq 0 .. t.nextVal - 1
    BY <1>1, <1>12, <1>13
  <2>4. \A w \in DOMAIN t.val :
          /\ t.val[w].parent \in 0 .. t.nextDict - 1
          /\ t.val[w] = [parent |-> t.val[w].parent, value |-> w]
    <3> TAKE w \in DOMAIN t.val
    <3>1. /\ tree.val[w].parent \in 0 .. m
          /\ tree.val[w] = [parent |-> tree.val[w].parent, value |-> w]
      BY <1>1, <1>13
    <3>2. t.val[w] = tree.val[w]
      BY <1>5, <1>12, <1>13
    <3> QED BY <1>12, <3>1, <3>2
  <2>5. t.nextDict \in 1 .. ValueBit /\ t.nextVal \in Nat
    BY <1>1, <1>12
  <2> QED BY <1>12, <2>1, <2>2, <2>3, <2>4, <2>5 DEF TreeShape
<1>15. Labelled(t, lab, named)
  <2>1. ASSUME NEW x \in 0 .. m, NEW n \in DOMAIN E[x].children
        PROVE  n \in Names /\ IsAt(t, lab, named, E[x].children[n], Append(lab[x], n))
    <3>1. n \in DOMAIN D[x].children /\ E[x].children[n] = D[x].children[n]
      <4>1. CASE x = d
        BY <1>6, <1>8, <1>10, <2>1, <4>1
      <4>2. CASE x # d
        BY <1>10, <2>1, <4>2
      <4> QED BY <4>1, <4>2
    <3>2. n \in Names /\ IsAt(tree, lab, named, D[x].children[n], Append(lab[x], n))
      BY <1>4, <3>1
    <3>3. \A c, q : IsAt(tree, lab, named, c, q) => IsAt(t, lab, named, c, q)
      BY <1>12 DEF IsAt
    <3> QED BY <3>1, <3>2, <3>3
  <2>2. \A x \in 0 .. t.nextDict - 1 :
          /\ lab[x] \in Seq(Names)
          /\ \A n \in DOMAIN t.dict[x].children :
               /\ n \in Names
               /\ IsAt(t, lab, named, t.dict[x].children[n], Append(lab[x], n))
    <3> TAKE x \in 0 .. t.nextDict - 1
    <3>1. x \in 0 .. m /\ t.dict[x] = E[x]
      BY <1>12
    <3> QED BY <1>4, <2>1, <3>1
  <2>3. /\ lab = [x \in 0 .. t.nextDict - 1 |-> lab[x]] /\ lab[NODE_ROOT] = <<>>
        /\ named = [w \in 0 .. t.nextVal - 1 |-> named[w]]
    BY <1>4, <1>12
  <2> QED BY <2>2, <2>3, Zenon DEF Labelled
<1> QED BY <1>12, <1>13, <1>14, <1>15

-----------------------------------------------------------------------------
(* The invariant of the store                                              *)

\* The tree's nodes have the paths they were added under for labels.
PathsInv ==
  /\ TreeShape(objTree) /\ \E lab : Labelled(objTree, lab, addedAs)
  /\ \A id \in 0 .. nextId - 1 : addedAs[id] \in Seq(Names)

\* Objects, tokens and values.
ObjectsInv ==
  /\ nextId \in 0 .. MaxObjects /\ objTree.nextVal = nextId
  /\ DOMAIN objStore = DOMAIN objTree.val
  /\ \A id \in DOMAIN objStore :
       /\ objStore[id].node = ValueBit + id
       /\ objStore[id].token \in DOMAIN objTokenMap
       /\ objTokenMap[objStore[id].token] = id
  /\ DOMAIN objTokenMap \subseteq Tokens
  /\ \A tok \in DOMAIN objTokenMap :
       objTokenMap[tok] \in DOMAIN objStore /\ objStore[objTokenMap[tok]].token = tok

\* As long as no object was removed, each is where its path leads.
LinksInv ==
  DOMAIN objStore = 0 .. nextId - 1 =>
    \A id \in 0 .. nextId - 1 : Leads(objTree, addedAs[id], ValueBit + id)

StoreInv == PathsInv /\ ObjectsInv /\ LinksInv

\* It holds at the beginning ...
LEMMA StoreInvInit ==
  ASSUME StoreInit
  PROVE  StoreInv
<1> DEFINE D == Put(EmptyMap, NODE_ROOT, Dictionary(NODE_ROOT))
<1>1. /\ objTree = [dict |-> D, val |-> EmptyMap, nextDict |-> 1, nextVal |-> 0]
      /\ objStore = EmptyMap /\ nextId = 0 /\ objTokenMap = EmptyMap /\ addedAs = EmptyMap
  BY DEF StoreInit, NewTree
<1>2. DOMAIN EmptyMap = {}
  BY DEF EmptyMap
<1>3. D = [x \in {0} |-> D[x]] /\ D[0] = Dictionary(0)
  BY <1>2 DEF Put, NODE_ROOT
<1>4. IsDictionary(Dictionary(0)) /\ DOMAIN Dictionary(0).children = {}
  BY DEF IsDictionary, Dictionary, EmptyMap
<1>5. 0 .. 1 - 1 = {0} /\ 0 .. 0 - 1 = {}
  OBVIOUS
<1>6. EmptyMap = [w \in {} |-> EmptyMap[w]]
  BY DEF EmptyMap
<1> HIDE DEF D
<1>7. /\ objTree.dict = D /\ objTree.val = EmptyMap
      /\ objTree.nextDict = 1 /\ objTree.nextVal = 0 /\ IsTree(objTree)
  BY <1>1 DEF IsTree
<1>8. TreeShape(objTree)
  <2>1. /\ objTree.dict = [x \in 0 .. objTree.nextDict - 1 |-> objTree.dict[x]]
        /\ \A x \in 0 .. objTree.nextDict - 1 : IsDictionary(objTree.dict[x])
    BY <1>3, <1>4, <1>5, <1>7
  <2>2. /\ objTree.val = [w \in DOMAIN objTree.val |-> objTree.val[w]]
        /\ DOMAIN objTree.val = {}
    BY <1>2, <1>6, <1>7
  <2>3. objTree.nextDict \in 1 .. ValueBit /\ objTree.nextVal \in Nat
    BY <1>7, TreeAssumption
  <2> QED BY <1>7, <2>1, <2>2, <2>3 DEF TreeShape
<1>9. Labelled(objTree, [x \in {0} |-> <<>>], addedAs)
  <2> DEFINE lab == [x \in {0} |-> <<>>]
  <2>1. lab = [x \in {0} |-> lab[x]] /\ lab[0] = <<>> /\ <<>> \in Seq(Names)
    OBVIOUS
  <2> HIDE DEF lab
  <2>2. /\ lab = [x \in 0 .. objTree.nextDict - 1 |-> lab[x]] /\ lab[NODE_ROOT] = <<>>
        /\ addedAs = [w \in 0 .. objTree.nextVal - 1 |-> addedAs[w]]
    BY <1>1, <1>5, <1>6, <1>7, <2>1 DEF NODE_ROOT
  <2>3. \A x \in 0 .. objTree.nextDict - 1 :
          lab[x] \in Seq(Names) /\ DOMAIN objTree.dict[x].children = {}
    BY <1>3, <1>4, <1>5, <1>7, <2>1
  <2>4. Labelled(objTree, lab, addedAs)
    BY <2>2, <2>3 DEF Labelled
  <2> QED BY <2>4 DEF lab
<1>10. PathsInv
  BY <1>1, <1>5, <1>8, <1>9 DEF PathsInv
<1>11. ObjectsInv
  BY <1>1, <1>2, <1>7, StoreAssumption DEF ObjectsInv
<1>12. LinksInv
  BY <1>1, <1>5 DEF LinksInv
<1> QED BY <1>10, <1>11, <1>12 DEF StoreInv

\* ... and every step keeps it.  An addition that fails half way leaves a tree
\* with the same values; one that does not adds one, to which its path leads.
LEMMA AddObjectKeeps ==
  ASSUME StoreInv, NEW s \in Strings, AddObject(s)
  PROVE  StoreInv'
<1> DEFINE path == PathFromString(s)
           end == TraceAdd(objTree, path)
<1>1. path \in Seq(Names) /\ Len(path) # 0
  BY Paths
<1>2. PICK lab : TreeShape(objTree) /\ Labelled(objTree, lab, addedAs)
  BY DEF StoreInv, PathsInv
<1>3. /\ nextId \in 0 .. MaxObjects /\ nextId < MaxObjects /\ objTree.nextVal = nextId
      /\ objTree.nextDict + Len(path) <= ValueBit
      /\ MaxObjects \in Nat
  BY StoreAssumption DEF StoreInv, ObjectsInv, AddObject
<1>4. /\ end.result # "OK" => SameValues(end.tree, objTree, addedAs)
      /\ end.result = "OK" =>
           /\ end.id = ValueBit + nextId
           /\ OneValueMore(SetValue(end.tree, end.id, nextId), objTree, addedAs, path)
  <2> HIDE DEF path
  <2> QED BY <1>1, <1>2, <1>3, PathAdded
<1>5. CASE end.result # "OK"
  <2>1. objTree' = end.tree /\ UNCHANGED <<objStore, nextId, objTokenMap, addedAs>>
    BY <1>5 DEF AddObject, Made
  <2>2. /\ TreeShape(objTree') /\ Grows(objTree, objTree')
        /\ \E l : Labelled(objTree', l, addedAs)
        /\ objTree'.val = objTree.val /\ objTree'.nextVal = objTree.nextVal
    BY <1>4, <1>5, <2>1 DEF SameValues
  <2>3. PathsInv'
    BY <2>1, <2>2 DEF StoreInv, PathsInv
  <2>4. ObjectsInv'
    BY <2>1, <2>2 DEF StoreInv, ObjectsInv
  <2>5. LinksInv'
    <3>1. ASSUME NEW p, NEW id, Leads(objTree, p, id)
          PROVE  Leads(objTree', p, id)
      BY <2>2, <3>1 DEF Leads, Grows
    <3> QED BY <2>1, <3>1 DEF StoreInv, LinksInv
  <2> QED BY <2>3, <2>4, <2>5 DEF StoreInv
<1>6. CASE end.result = "OK"
  <2>1. PICK tok \in Tokens \ DOMAIN objTokenMap :
          /\ objTree' = SetValue(end.tree, end.id, nextId)
          /\ objTokenMap' = Put(objTokenMap, tok, nextId)
          /\ objStore' = Put(objStore, nextId, [token |-> tok, node |-> end.id])
          /\ nextId' = nextId + 1
          /\ addedAs' = Put(addedAs, nextId, path)
    BY <1>6 DEF AddObject, Made, Stored
  <2> HIDE DEF path, end
  <2>2. /\ TreeShape(objTree') /\ Grows(objTree, objTree')
        /\ \E l : Labelled(objTree', l, addedAs')
        /\ objTree'.nextVal = nextId + 1
        /\ DOMAIN objTree'.val = DOMAIN objTree.val \cup {nextId}
        /\ Leads(objTree', path, ValueBit + nextId)
    BY <1>3, <1>4, <1>6, <2>1 DEF OneValueMore
  <2>3. /\ nextId' \in 0 .. MaxObjects /\ nextId \notin 0 .. nextId - 1 /\ nextId' - 1 = nextId
        /\ \A id \in 0 .. nextId - 1 : id \in 0 .. nextId
        /\ \A id \in 0 .. nextId : id \in 0 .. nextId - 1 \/ id = nextId
        /\ nextId \in 0 .. nextId
    BY <1>3, <2>1
  <2>4. addedAs'[nextId] = path /\ \A id \in 0 .. nextId - 1 : addedAs'[id] = addedAs[id]
    <3>1. addedAs = [w \in 0 .. nextId - 1 |-> addedAs[w]]
      BY <1>2, <1>3 DEF Labelled
    <3> QED BY <2>1, <2>3, <3>1 DEF Put
  <2>5. PathsInv'
    <3>1. \A id \in 0 .. nextId : addedAs'[id] \in Seq(Names)
      BY <1>1, <2>3, <2>4 DEF StoreInv, PathsInv
    <3> QED BY <2>2, <2>3, <3>1 DEF PathsInv
  <2>6. /\ DOMAIN objStore = DOMAIN objTree.val /\ DOMAIN objTree.val \subseteq 0 .. nextId - 1
        /\ nextId \notin DOMAIN objStore
    BY <1>2, <1>3, <2>3 DEF TreeShape, StoreInv, ObjectsInv
  <2> DEFINE object == [token |-> tok, node |-> end.id]
  <2>7. object.token = tok /\ object.node = ValueBit + nextId
    BY <1>4, <1>6
  <2> HIDE DEF object
  <2>8. /\ DOMAIN objStore' = DOMAIN objStore \cup {nextId} /\ objStore'[nextId] = object
        /\ \A id \in DOMAIN objStore : objStore'[id] = objStore[id]
    BY <2>1, <2>6 DEF Put, object
  <2>9. /\ DOMAIN objTokenMap' = DOMAIN objTokenMap \cup {tok} /\ objTokenMap'[tok] = nextId
        /\ \A k \in DOMAIN objTokenMap : k # tok /\ objTokenMap'[k] = objTokenMap[k]
    BY <2>1 DEF Put
  <2>10. ObjectsInv'
    <3>1. \A id \in DOMAIN objStore :
            /\ objStore[id].node = ValueBit + id
            /\ objStore[id].token \in DOMAIN objTokenMap
            /\ objTokenMap[objStore[id].token] = id
      BY DEF StoreInv, ObjectsInv
    <3>2. \A k \in DOMAIN objTokenMap :
            objTokenMap[k] \in DOMAIN objStore /\ objStore[objTokenMap[k]].token = k
      BY DEF StoreInv, ObjectsInv
    <3>3. DOMAIN objTokenMap' \subseteq Tokens
      BY <2>1, <2>9 DEF StoreInv, ObjectsInv
    <3>4. \A id \in DOMAIN objStore' :
            /\ objStore'[id].node = ValueBit + id
            /\ objStore'[id].token \in DOMAIN objTokenMap'
            /\ objTokenMap'[objStore'[id].token] = id
      BY <2>7, <2>8, <2>9, <3>1
    <3>5. \A k \in DOMAIN objTokenMap' :
            objTokenMap'[k] \in DOMAIN objStore' /\ objStore'[objTokenMap'[k]].token = k
      BY <2>7, <2>8, <2>9, <3>2
    <3>6. DOMAIN objStore' = DOMAIN objTree'.val
      BY <2>2, <2>6, <2>8
    <3>7. objTree'.nextVal = nextId'
      BY <2>1, <2>2
    <3> QED BY <2>3, <3>3, <3>4, <3>5, <3>6, <3>7 DEF ObjectsInv
  <2>11. LinksInv'
    <3> SUFFICES ASSUME DOMAIN objStore' = 0 .. nextId, NEW id \in 0 .. nextId
                 PROVE  Leads(objTree', addedAs'[id], ValueBit + id)
      BY <2>3 DEF LinksInv
    <3>1. CASE id = nextId
      BY <2>2, <2>4, <3>1
    <3>2. CASE id \in 0 .. nextId - 1
      <4>1. DOMAIN objStore = 0 .. nextId - 1
        BY <2>3, <2>6, <2>8
      <4>2. Leads(objTree, addedAs[id], ValueBit + id)
        BY <3>2, <4>1 DEF StoreInv, LinksInv
      <4>3. Leads(objTree', addedAs[id], ValueBit + id)
        BY <2>2, <4>2 DEF Leads, Grows
      <4> QED BY <2>4, <3>2, <4>3
    <3> QED BY <2>3, <3>1, <3>2
  <2> QED BY <2>5, <2>10, <2>11 DEF StoreInv
<1> QED BY <1>5, <1>6

\* A removal takes the object, its token and its value.
LEMMA RemoveObjectKeeps ==
  ASSUME StoreInv, NEW tok \in Tokens, RemoveObject(tok)
  PROVE  StoreInv'
<1> DEFINE v == objTokenMap[tok]
<1>1. PICK lab : TreeShape(objTree) /\ Labelled(objTree, lab, addedAs)
  BY DEF StoreInv, PathsInv
<1>2. /\ tok \in DOMAIN objTokenMap /\ objTree' = RemoveValue(objTree, objStore[v].node)
      /\ objStore' = Without(objStore, {v}) /\ objTokenMap' = Without(objTokenMap, {tok})
      /\ nextId' = nextId /\ addedAs' = addedAs
  BY DEF RemoveObject, TokenErased
<1>3. /\ DOMAIN objStore = DOMAIN objTree.val /\ objTree.nextVal = nextId
      /\ \A id \in DOMAIN objStore :
           /\ objStore[id].node = ValueBit + id
           /\ objStore[id].token \in DOMAIN objTokenMap
           /\ objTokenMap[objStore[id].token] = id
      /\ \A k \in DOMAIN objTokenMap :
           objTokenMap[k] \in DOMAIN objStore /\ objStore[objTokenMap[k]].token = k
  BY DEF StoreInv, ObjectsInv
<1>4. v \in DOMAIN objTree.val /\ objStore[v].node = ValueBit + v /\ objStore[v].token = tok
  BY <1>2, <1>3
<1> HIDE DEF v
<1>5. /\ TreeShape(objTree') /\ Labelled(objTree', lab, addedAs)
      /\ objTree'.nextVal = objTree.nextVal /\ DOMAIN objTree'.val = DOMAIN objTree.val \ {v}
  BY <1>1, <1>2, <1>4, ValueRemoved
<1>6. /\ DOMAIN objStore' = DOMAIN objStore \ {v}
      /\ \A id \in DOMAIN objStore \ {v} : objStore'[id] = objStore[id]
  BY <1>2 DEF Without
<1>7. /\ DOMAIN objTokenMap' = DOMAIN objTokenMap \ {tok}
      /\ \A k \in DOMAIN objTokenMap \ {tok} : objTokenMap'[k] = objTokenMap[k]
  BY <1>2 DEF Without
<1>8. PathsInv'
  BY <1>2, <1>5 DEF StoreInv, PathsInv
<1>9. ObjectsInv'
  <2>1. \A id \in DOMAIN objStore \ {v} : objStore[id].token # tok
    BY <1>3 DEF v
  <2>2. \A k \in DOMAIN objTokenMap \ {tok} : objTokenMap[k] # v
    BY <1>3, <1>4
  <2>3. \A id \in DOMAIN objStore' :
          /\ objStore'[id].node = ValueBit + id
          /\ objStore'[id].token \in DOMAIN objTokenMap'
          /\ objTokenMap'[objStore'[id].token] = id
    BY <1>3, <1>6, <1>7, <2>1
  <2>4. \A k \in DOMAIN objTokenMap' :
          objTokenMap'[k] \in DOMAIN objStore' /\ objStore'[objTokenMap'[k]].token = k
    BY <1>3, <1>6, <1>7, <2>2
  <2>5. DOMAIN objStore' = DOMAIN objTree'.val /\ objTree'.nextVal = nextId'
    BY <1>2, <1>3, <1>5, <1>6
  <2>6. nextId' \in 0 .. MaxObjects /\ DOMAIN objTokenMap' \subseteq Tokens
    BY <1>2, <1>7 DEF StoreInv, ObjectsInv
  <2> QED BY <2>3, <2>4, <2>5, <2>6 DEF ObjectsInv
<1>10. LinksInv'
  <2>1. DOMAIN objTree.val \subseteq 0 .. objTree.nextVal - 1
    BY <1>1 DEF TreeShape
  <2>2. v \in 0 .. nextId' - 1
    BY <1>2, <1>3, <1>4, <2>1
  <2>3. DOMAIN objStore' # 0 .. nextId' - 1
    BY <1>6, <2>2
  <2> QED BY <2>3 DEF LinksInv
<1> QED BY <1>8, <1>9, <1>10 DEF StoreInv

\* Tokens, objects and values correspond, and nodes are where their labels say.
THEOREM StoreInvariant == StoreSpec => []StoreInv
<1>1. StoreInv /\ [StoreNext]_storeVars => StoreInv'
  <2> SUFFICES ASSUME StoreInv, [StoreNext]_storeVars
               PROVE  StoreInv'
    OBVIOUS
  <2>1. CASE UNCHANGED storeVars
    BY <2>1 DEF storeVars, StoreInv, PathsInv, ObjectsInv, LinksInv
  <2>2. CASE StoreNext
    BY <2>2, AddObjectKeeps, RemoveObjectKeeps DEF StoreNext
  <2> QED BY <2>1, <2>2
<1> QED BY <1>1, StoreInvInit, PTL DEF StoreSpec

\* The tables of the store name only what it gave out, and the tree has a value
\* for every number given.
THEOREM StoreTypeCorrect == StoreSpec => []StoreTypeOK
<1>1. StoreInv => StoreTypeOK
  <2> SUFFICES ASSUME StoreInv PROVE StoreTypeOK
    OBVIOUS
  <2>1. PICK lab : TreeShape(objTree) /\ Labelled(objTree, lab, addedAs)
    BY DEF StoreInv, PathsInv
  <2>2. /\ objTree.nextVal = nextId /\ DOMAIN objStore = DOMAIN objTree.val
        /\ DOMAIN objTokenMap \subseteq Tokens
    BY DEF StoreInv, ObjectsInv
  <2>3. DOMAIN addedAs = 0 .. nextId - 1
    BY <2>1, <2>2 DEF Labelled
  <2>4. DOMAIN objTree.val \subseteq 0 .. nextId - 1
    BY <2>1, <2>2 DEF TreeShape
  <2> QED BY <2>2, <2>3, <2>4 DEF StoreTypeOK
<1> QED BY <1>1, StoreInvariant, PTL

\* Every token leads to its object, every object to a node of its own that is in
\* the tree and holds its ID, and there are no other value nodes.
THEOREM NodesCorrect == StoreSpec => []OneNodePerObject
<1>1. StoreInv => OneNodePerObject
  <2> SUFFICES ASSUME StoreInv PROVE OneNodePerObject
    OBVIOUS
  <2>1. /\ DOMAIN objStore = DOMAIN objTree.val
        /\ \A id \in DOMAIN objStore :
             /\ objStore[id].node = ValueBit + id
             /\ objStore[id].token \in DOMAIN objTokenMap
             /\ objTokenMap[objStore[id].token] = id
        /\ \A k \in DOMAIN objTokenMap :
             objTokenMap[k] \in DOMAIN objStore /\ objStore[objTokenMap[k]].token = k
    BY DEF StoreInv, ObjectsInv
  <2>2. TreeShape(objTree)
    BY DEF StoreInv, PathsInv
  <2>3. ASSUME NEW id \in DOMAIN objStore
        PROVE  /\ IsValue(objTree, objStore[id].node)
               /\ GetValue(objTree, objStore[id].node) = id
    <3>1. id \in DOMAIN objTree.val /\ objTree.val[id] = [parent |-> objTree.val[id].parent,
                                                          value |-> id]
      BY <2>1, <2>2 DEF TreeShape
    <3>2. id \in Nat
      BY <2>2, <3>1 DEF TreeShape
    <3>3. IsValueID(ValueBit + id) /\ Index(ValueBit + id) = id
      BY <3>2, TreeAssumption DEF IsValueID, Index
    <3>4. objTree.val[id].value = id
      BY <3>1
    <3> QED BY <2>1, <3>1, <3>3, <3>4 DEF IsValue, HasNode, GetValue
  <2> QED BY <2>1, <2>3 DEF OneNodePerObject
<1> QED BY <1>1, StoreInvariant, PTL

\* A path leads only to the object that was added under that path.
THEOREM FindsCorrect == StoreSpec => []FindsOnlyWhatWasAdded
<1>1. StoreInv => FindsOnlyWhatWasAdded
  <2> SUFFICES ASSUME StoreInv, NEW s \in Strings, NEW id \in FindObject(PathFromString(s))
               PROVE  addedAs[id] = PathFromString(s)
    BY DEF FindsOnlyWhatWasAdded
  <2> DEFINE path == PathFromString(s)
             found == TraceFind(objTree, path)
  <2>1. path \in Seq(Names) /\ Len(path) \in Nat
    BY Paths
  <2>2. PICK lab : TreeShape(objTree) /\ Labelled(objTree, lab, addedAs)
    BY DEF StoreInv, PathsInv
  <2>3. found.result = "OK" /\ IsValue(objTree, found.id) /\ id = GetValue(objTree, found.id)
    BY DEF FindObject
  <2> HIDE DEF path, found
  <2>4. Leads(objTree, path, found.id)
    BY <2>1, <2>2, <2>3, FoundLeads DEF found
  <2>5. IsNode(objTree, lab, addedAs, found.id, path)
    BY <2>1, <2>2, <2>4, LedToLabel
  <2>6. /\ found.id >= ValueBit /\ Index(found.id) = found.id - ValueBit
        /\ Index(found.id) \in DOMAIN objTree.val
    BY <2>3 DEF IsValue, IsValueID, HasNode, Index
  <2>7. addedAs[Index(found.id)] = path
    <3>1. /\ objTree.nextDict \in 1 .. ValueBit /\ ValueBit \in Nat \ {0}
      BY <2>2, TreeAssumption DEF TreeShape
    <3>2. found.id # NODE_ROOT /\ found.id \notin 1 .. objTree.nextDict - 1
      BY <2>6, <3>1 DEF NODE_ROOT
    <3> QED BY <2>5, <2>6, <3>2 DEF IsNode, IsAt
  <2>8. id = Index(found.id)
    <3> DEFINE w == Index(found.id)
    <3>1. w \in DOMAIN objTree.val /\ id = objTree.val[w].value
      BY <2>3, <2>6 DEF GetValue
    <3> HIDE DEF w
    <3>2. objTree.val[w] = [parent |-> objTree.val[w].parent, value |-> w]
      BY <2>2, <3>1 DEF TreeShape
    <3>3. objTree.val[w].value = w
      BY <3>2
    <3> QED BY <3>1, <3>3 DEF w
  <2> QED BY <2>7, <2>8 DEF path
<1> QED BY <1>1, StoreInvariant, PTL

\* Until the first removal every object is found at its path.
THEOREM FoundCorrect == StoreSpec => []FoundUntilRemoval
<1>1. StoreInv => FoundUntilRemoval
  <2> SUFFICES ASSUME StoreInv, DOMAIN objStore = 0 .. nextId - 1, NEW id \in DOMAIN objStore
               PROVE  FindObject(addedAs[id]) = {id}
    BY DEF FoundUntilRemoval
  <2>1. TreeShape(objTree) /\ addedAs[id] \in Seq(Names)
    BY DEF StoreInv, PathsInv
  <2>2. Leads(objTree, addedAs[id], ValueBit + id)
    BY DEF StoreInv, LinksInv
  <2>3. Len(addedAs[id]) \in Nat
    BY <2>1
  <2>4. TraceFind(objTree, addedAs[id]) = [id |-> ValueBit + id, result |-> "OK"]
    BY <2>1, <2>2, <2>3, LeadsFound
  <2>5. id \in DOMAIN objTree.val
    BY DEF StoreInv, ObjectsInv
  <2>6. id \in Nat /\ objTree.val[id] = [parent |-> objTree.val[id].parent, value |-> id]
    BY <2>1, <2>5 DEF TreeShape
  <2>7. objTree.val[id].value = id
    BY <2>6
  <2>8. IsValueID(ValueBit + id) /\ Index(ValueBit + id) = id
    BY <2>6, TreeAssumption DEF IsValueID, Index
  <2>9. IsValue(objTree, ValueBit + id) /\ GetValue(objTree, ValueBit + id) = id
    BY <2>5, <2>7, <2>8 DEF IsValue, HasNode, GetValue
  <2> DEFINE found == TraceFind(objTree, addedAs[id])
  <2>10. found.id = ValueBit + id /\ found.result = "OK"
    BY <2>4
  <2> HIDE DEF found
  <2> QED BY <2>9, <2>10 DEF FindObject, found
<1> QED BY <1>1, StoreInvariant, PTL

-----------------------------------------------------------------------------
(* The libraries side by side                                              *)

\* Each library behaves next to the others as its own specification says: no part
\* touches the variables of another.
THEOREM LibrariesAsSpecified ==
  LibrariesSpec => /\ AsyncSpec /\ StoreSpec /\ ClientManagerSpec
                   /\ DataSpec /\ ConvertSpec
<1> DEFINE Steps == /\ [AsyncNext]_asyncVars /\ [StoreNext]_storeVars
                    /\ [ClientManagerNext]_clientManagerVars
                    /\ [DataNext]_dataVars /\ [ConvertNext]_convertVars
<1>1. LibrariesInit => /\ AsyncInit /\ StoreInit /\ ClientManagerInit
                       /\ DataInit /\ ConvertInit
  BY DEF LibrariesInit
<1>2. [LibrariesNext]_libVars => Steps
  <2> SUFFICES ASSUME [LibrariesNext]_libVars
               PROVE  Steps
    OBVIOUS
  <2>1. CASE OfAsync(AsyncNext)
    BY <2>1 DEF OfAsync
  <2>2. CASE OfStore(StoreNext)
    BY <2>2 DEF OfStore
  <2>3. CASE OfClients(ClientManagerNext)
    BY <2>3 DEF OfClients
  <2>4. CASE OfData(DataNext)
    BY <2>4 DEF OfData
  <2>5. CASE OfConvert(ConvertNext)
    BY <2>5 DEF OfConvert
  <2>6. CASE UNCHANGED libVars
    BY <2>6 DEF libVars
  <2> QED BY <2>1, <2>2, <2>3, <2>4, <2>5, <2>6 DEF LibrariesNext
<1> QED BY <1>1, <1>2, PTL DEF LibrariesSpec, AsyncSpec, StoreSpec,
     ClientManagerSpec, DataSpec, ConvertSpec

\* Every task of a graph that can run runs once, after those it depends on, and
\* the caller is told whether all did.
THEOREM GraphsRunRight == LibrariesSpec => []GraphRunsRight
<1>1. RunsOnceAfterDependencies /\ ResultTellsCycle => GraphRunsRight
  BY DEF GraphRunsRight
<1> QED BY <1>1, LibrariesAsSpecified, RunsOnceCorrect, ResultCorrect, PTL

\* A path leads to the object that was added under it, as long as nothing was
\* removed, and never to another one.
THEOREM PathsCorrect == LibrariesSpec => []PathsLeadToObjects
<1>1. OneNodePerObject /\ FindsOnlyWhatWasAdded /\ FoundUntilRemoval => PathsLeadToObjects
  BY DEF PathsLeadToObjects
<1> QED BY <1>1, LibrariesAsSpecified, NodesCorrect, FindsCorrect, FoundCorrect, PTL

\* Registry, queues and methods agree on the clients there are, a client in use
\* stays, and a thread locks itself out only after a call within a call.
THEOREM ClientsCorrect == LibrariesSpec => []ClientsAgree
<1>1. RegistriesAgree /\ UsedClientsStay /\ LocksItselfOutOnlyAfterNested => ClientsAgree
  BY DEF ClientsAgree
<1> QED BY <1>1, LibrariesAsSpecified, RegistriesCorrect, UsedClientsCorrect,
     LockedOutCorrect, PTL

\* What is printed of a tree are the tokens that spell it, broken into lines and
\* indented as the tree is nested.
THEOREM TreesCorrect == LibrariesSpec => []PrintsTheTree
<1>1. TokensSpellTree /\ PrintedAsNested => PrintsTheTree
  BY DEF PrintsTheTree
<1> QED BY <1>1, LibrariesAsSpecified, TreesPrinted, PTL

\* The types of the five parts.
THEOREM LibrariesTypeCorrect == LibrariesSpec => []LibrariesTypeOK
<1>1. /\ AsyncTypeOK /\ StoreTypeOK /\ ClientManagerTypeOK /\ DataTypeOK /\ ConvertTypeOK
      => LibrariesTypeOK
  BY DEF LibrariesTypeOK
<1> QED BY <1>1, LibrariesAsSpecified, AsyncTypeCorrect, StoreTypeCorrect,
     ClientManagerTypeCorrect, DataTypeCorrect, ConvertTypeCorrect, PTL
=============================================================================
