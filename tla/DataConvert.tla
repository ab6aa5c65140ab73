---------------------------- MODULE DataConvert ----------------------------
(***************************************************************************)
(* Reading a number of one type out of a data element of another: the      *)
(* variant behind an Element (DTSimpleElement) and the accessors that      *)
(* convert (GetDictValue, GetValue, ConvertValue of DTUtils.h).            *)
(*                                                                         *)
(* An integral type is its signedness and its greatest value.  Floating    *)
(* point numbers are their integral parts: precision is not modelled.      *)
(***************************************************************************)
EXTENDS Integers

CONSTANTS
  Signeds,   \* greatest values of the signed types
  Unsigneds, \* greatest values of the unsigned types
  FloatMax,  \* greatest magnitude of a floating point number
  IntMax,    \* greatest value of int, to which smaller types are promoted
  WideRange  \* number of values of uint64_t

ASSUME DataConvertAssumption ==
  /\ Signeds \subseteq Nat /\ Unsigneds \subseteq Nat /\ FloatMax \in Nat
  /\ IntMax \in Nat /\ WideRange \in Nat
  /\ \A max \in Signeds : 2 * (max + 1) <= WideRange

IntTypes == [kind : {"signed"}, max : Signeds] \cup [kind : {"unsigned"}, max : Unsigneds]
Boolean == [kind |-> "bool", max |-> 1]
FloatTypes == [kind : {"float", "double"}, max : {FloatMax}]
String == [kind |-> "string", max |-> 0]
None == [kind |-> "none", max |-> 0]
ElementTypes == IntTypes \cup FloatTypes \cup {Boolean, String, None}

MinOf(t) ==
  CASE t.kind = "signed" -> -t.max - 1
    [] t.kind \in {"float", "double"} -> -t.max
    [] OTHER -> 0

ValuesOf(t) == MinOf(t) .. t.max

VARIABLES
  entry,   \* what the dictionary has under the key: "missing", "Element", "List"
  element, \* the element: [type, value]
  \* the reads since the element was last set
  target,  \* the type of the last
  dest,    \* the variable it read into
  result   \* AccessResult

readVars == <<target, dest, result>>
convertVars == <<entry, element, readVars>>

ConvertInit ==
  /\ entry \in {"missing", "Element", "List"}
  /\ element = [type |-> None, value |-> 0]
  /\ target = None /\ dest = 0 /\ result = "unread"

-----------------------------------------------------------------------------
(* Element: one alternative of the variant at a time *)

Unread == target' = None /\ dest' = 0 /\ result' = "unread"

Set(t, v) ==
  /\ entry = "Element"
  /\ element' = [type |-> t, value |-> v]
  /\ Unread /\ UNCHANGED entry

Clear ==
  /\ element' = [type |-> None, value |-> 0]
  /\ Unread /\ UNCHANGED entry

-----------------------------------------------------------------------------
(* ConvertValue.  Each answers the destination's value and whether the
   conversion is narrowing.                                                *)

IsIntegral(t) == t.kind \in {"signed", "unsigned", "bool"}
IsUnsigned(t) == t.kind # "signed"

\* A cast between integral types keeps the low bits.
Cast(v, t) ==
  IF v \in ValuesOf(t) THEN v
  ELSE ((v - MinOf(t)) % (t.max - MinOf(t) + 1)) + MinOf(t)

Exact(v) == [value |-> v, narrowing |-> FALSE]
Narrowed(v) == [value |-> v, narrowing |-> TRUE]

WiderToMax(from, to) == to.max > from.max

\* (uint64_t)(-min()) of a signed type: of one that is promoted to int the
\* magnitude; of int and those beyond it the negation overflows, to min() itself
\* where it wraps around, which the cast takes to the upper half.
NegatedMin(t) == IF t.max < IntMax THEN t.max + 1 ELSE WideRange + MinOf(t)

WiderToMin(from, to) == IsUnsigned(from) \/ NegatedMin(to) > NegatedMin(from)

CutAbove(from, to, v) ==
  IF v > Cast(to.max, from) THEN Narrowed(to.max) ELSE Exact(Cast(v, to))

\* A fault: the lower end is forgotten.
CutUpperEnd(from, to, v) == CutAbove(from, to, v)

CutBothEnds(from, to, v) ==
  IF v < Cast(MinOf(to), from) THEN Narrowed(MinOf(to)) ELSE CutAbove(from, to, v)

SignedToUnsigned(from, to, v) ==
  IF v < 0 THEN Narrowed(0)
  ELSE IF WiderToMax(from, to) THEN Exact(Cast(v, to)) ELSE CutAbove(from, to, v)

ConvertIntegral(from, to, v) ==
  CASE IsUnsigned(from) = IsUnsigned(to) ->
         IF WiderToMin(from, to) /\ WiderToMax(from, to) THEN Exact(Cast(v, to))
         ELSE CutBothEnds(from, to, v)
    [] IsUnsigned(from) /\ ~IsUnsigned(to) ->
         IF WiderToMax(from, to) THEN Exact(Cast(v, to)) ELSE CutAbove(from, to, v)
    [] ~IsUnsigned(from) /\ IsUnsigned(to) -> SignedToUnsigned(from, to, v)

\* What a floating point number may be cast to: true unless it is zero, its
\* integral part, and if that does not fit any number: the cast is undefined.
CastsOfFloat(v, to) ==
  IF to = Boolean THEN IF v = 0 THEN {0, 1} ELSE {1}
  ELSE IF v \in ValuesOf(to) THEN {v} ELSE ValuesOf(to)

\* The conversions the function knows.
ConvertValue(from, to, v) ==
  CASE IsIntegral(from) /\ IsIntegral(to) -> {ConvertIntegral(from, to, v)}
    [] from \in FloatTypes /\ IsIntegral(to) -> {Narrowed(w) : w \in CastsOfFloat(v, to)}
    [] from \in FloatTypes /\ to \in FloatTypes ->
         {[value |-> v, narrowing |-> from.kind = "double"]}

-----------------------------------------------------------------------------
(* GetDictValue<B>: the key's entry, then GetValue and GetCoercedValue *)

Read(to) == target' = to /\ UNCHANGED <<entry, element>>
Refused(why) == result' = why /\ UNCHANGED dest

NoElement(to) ==
  /\ entry # "Element"
  /\ Refused(IF entry = "missing" THEN "NoSuchElement" ELSE "WrongTargetType")
  /\ Read(to)

\* No coercions from booleans, strings or nothing, nor to strings; nor from an
\* integral type to floating point, as the branch meant for it asks for the
\* opposite and is never taken.
Coercible(from, to) ==
  \/ from \in IntTypes /\ IsIntegral(to)
  \/ from \in FloatTypes /\ (IsIntegral(to) \/ to \in FloatTypes)

GetSameType(to) ==
  /\ entry = "Element" /\ element.type = to
  /\ dest' = element.value /\ result' = "OK"
  /\ Read(to)

GetCoercedValue(to) ==
  /\ entry = "Element" /\ element.type # to
  /\ IF Coercible(element.type, to)
     THEN \E c \in ConvertValue(element.type, to, element.value) :
            /\ dest' = c.value
            /\ result' = IF c.narrowing THEN "Narrowed" ELSE "OK"
     ELSE Refused("WrongElementType")
  /\ Read(to)

GetDictValue(to) == NoElement(to) \/ GetSameType(to) \/ GetCoercedValue(to)

ConvertNext ==
  \/ \E t \in ElementTypes \ {None} : \E v \in ValuesOf(t) : Set(t, v)
  \/ Clear
  \/ \E to \in ElementTypes \ {None} : GetDictValue(to)

ConvertSpec == ConvertInit /\ [][ConvertNext]_convertVars

-----------------------------------------------------------------------------
(* Properties *)

ConvertTypeOK ==
  /\ entry \in {"missing", "Element", "List"}
  /\ element.type \in ElementTypes /\ element.value \in ValuesOf(element.type)
  /\ target \in ElementTypes
  /\ dest \in Int
  /\ result \in {"unread", "OK", "Narrowed", "NoSuchElement", "WrongTargetType",
                 "WrongElementType"}

\* An integral element that was read as another integral type gave the nearest
\* number of that type, and was reported narrowed exactly if it did not fit
\* (DTUtils.h:128, 164: "Safe (always widening) conversion").
NearestRead ==
  (/\ result \in {"OK", "Narrowed"}
   /\ IsIntegral(element.type) /\ IsIntegral(target)) =>
     /\ element.value \in ValuesOf(target) => dest = element.value /\ result = "OK"
     /\ element.value > target.max => dest = target.max /\ result = "Narrowed"
     /\ element.value < MinOf(target) => dest = MinOf(target) /\ result = "Narrowed"

\* From a signed type of the width of int, or wider, to a wider one both
\* negations overflow and compare the other way round.
NegationMisleads(from, to) ==
  /\ from.kind = "signed" /\ to.kind = "signed"
  /\ from.max >= IntMax /\ to.max > from.max

\* Every other pair of integral types is read as it should be: the limits that
\* are cast for a comparison (DTUtils.h:149-161) are not bent by the cast.
CoercedToNearest == ~NegationMisleads(element.type, target) => NearestRead
=============================================================================
