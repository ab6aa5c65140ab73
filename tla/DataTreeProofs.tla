--------------------------- MODULE DataTreeProofs ---------------------------
(***************************************************************************)
(* What is serialized and printed of a data tree (DataTree), for every     *)
(* number of datums and entries and every set of keys: once the walk is    *)
(* over, the tokens spell the tree, every opener knows its closer and they *)
(* are nested; the printer is never out of place, and indents a line by    *)
(* the lists and dictionaries around it.                                   *)
(*                                                                         *)
(* The argument follows the data.  What the generator does to its tokens   *)
(* keeps them nested, with those open that its stack says (Brackets,       *)
(* Opened).  The stack of the walk is a chain from the root to the datum   *)
(* it stands at; what it has made so far are the texts of the entries it   *)
(* has done, level by level (WalkInv), and the text of an entry is what    *)
(* the reference function says, which is well defined because an entry     *)
(* was created before what it is in.  The stack of the printer is the list *)
(* of the compounds around the token it is at, and its indentation the     *)
(* number of those that have their elements on lines of their own          *)
(* (PrintInv).                                                             *)
(***************************************************************************)
EXTENDS DataTree, FiniteSetTheorems, SequenceTheorems, TLAPS

-----------------------------------------------------------------------------
(* Data trees: what is built and walked                                    *)

\* A sequence, of whatever.
IsSequence(s) == Len(s) \in Nat /\ s = [i \in 1 .. Len(s) |-> s[i]]

\* What may be in the datum d of a type.
KeysOf(type) ==
  IF type = "List" THEN {NoKey} ELSE IF type = "Dictionary" THEN Keys ELSE {}
EntriesOf(type, d) == [key : KeysOf(type), value : 1 .. d - 1]

\* The types of datums.
KindOf == LeafTypes \cup CompoundTypes

\* Entries were created before what they are in.
DatumsInv ==
  /\ IsSequence(datums) /\ Len(datums) <= MaxDatums
  /\ \A d \in 1 .. Len(datums) :
       /\ datums[d] = [type |-> datums[d].type, children |-> datums[d].children]
       /\ datums[d].type \in KindOf
       /\ datums[d].children \in Seq(EntriesOf(datums[d].type, d))

\* The tokens so far; the compounds that are open among them.
GenInv(g) ==
  /\ g = [tokens |-> g.tokens, openers |-> g.openers, first |-> g.first]
  /\ IsSequence(g.tokens)
  /\ IsSequence(g.openers) /\ \A i \in 1 .. Len(g.openers) : g.openers[i] \in 1 .. Len(g.tokens)

StackInv ==
  /\ IsSequence(dfsStack)
  /\ \A i \in 1 .. Len(dfsStack) :
       /\ dfsStack[i].datum \in 1 .. Len(datums) /\ dfsStack[i].curIdx \in Nat
       /\ dfsStack[i] = [datum |-> dfsStack[i].datum, curIdx |-> dfsStack[i].curIdx]

PrinterInv ==
  /\ pr = [i |-> pr.i, indent |-> pr.indent, compounds |-> pr.compounds,
           breaks |-> pr.breaks, sameLine |-> pr.sameLine]
  /\ pr.i \in Nat \ {0} /\ pr.indent \in Int /\ IsSequence(pr.compounds)
  /\ \A i \in 1 .. Len(pr.compounds) : pr.compounds[i] \in 1 .. Len(gen.tokens)

DataInv ==
  /\ phase \in {"build", "serialize", "print", "done", "thrown"}
  /\ DatumsInv /\ root \in 0 .. Len(datums)
  /\ StackInv
  /\ GenInv(gen) /\ PrinterInv

-----------------------------------------------------------------------------
(* Sequences                                                               *)

\* A sequence of some set is one.
LEMMA SequenceOf ==
  ASSUME NEW S, NEW s \in Seq(S)
  PROVE  IsSequence(s)
  BY DEF IsSequence

\* A sequence of a set is one of a larger set.
LEMMA SequenceOfMore ==
  ASSUME NEW S, NEW T, S \subseteq T, NEW s \in Seq(S)
  PROVE  s \in Seq(T)
<1>1. Len(s) \in Nat /\ s = [i \in 1 .. Len(s) |-> s[i]] /\ \A i \in 1 .. Len(s) : s[i] \in T
  OBVIOUS
<1>2. [i \in 1 .. Len(s) |-> s[i]] \in Seq(T)
  BY <1>1, IsASeq
<1> QED BY <1>1, <1>2

\* A sequence with one element more ...
LEMMA OneMore ==
  ASSUME NEW s, IsSequence(s), NEW e
  PROVE  /\ IsSequence(Append(s, e)) /\ Len(Append(s, e)) = Len(s) + 1
         /\ \A i \in 1 .. Len(s) : Append(s, e)[i] = s[i]
         /\ Append(s, e)[Len(s) + 1] = e
<1> DEFINE S == {s[i] : i \in 1 .. Len(s)} \cup {e}
           n == Len(s)
<1>1. n \in Nat /\ s = [i \in 1 .. n |-> s[i]] /\ \A i \in 1 .. n : s[i] \in S
  BY DEF IsSequence
<1>2. s \in Seq(S) /\ e \in S
  <2>1. e \in S
    OBVIOUS
  <2> HIDE DEF S, n
  <2>2. [i \in 1 .. n |-> s[i]] \in Seq(S)
    BY <1>1, IsASeq
  <2> QED BY <1>1, <2>1, <2>2
<1> DEFINE t == Append(s, e)
<1>3. /\ t \in Seq(S) /\ Len(t) = Len(s) + 1
      /\ \A i \in 1 .. Len(s) : t[i] = s[i]
      /\ t[Len(s) + 1] = e
  <2> HIDE DEF S
  <2> QED BY <1>2, AppendProperties
<1>4. IsSequence(t)
  <2> HIDE DEF S, t
  <2> QED BY <1>3 DEF IsSequence
<1> QED BY <1>3, <1>4

\* ... without its last, if it has one ...
LEMMA AllButLast ==
  ASSUME NEW s, IsSequence(s)
  PROVE  /\ IsSequence(Front(s)) /\ Len(Front(s)) = IF Len(s) = 0 THEN 0 ELSE Len(s) - 1
         /\ \A i \in 1 .. Len(s) - 1 : Front(s)[i] = s[i]
<1> DEFINE S == {s[i] : i \in 1 .. Len(s)}
           n == Len(s)
           t == SubSeq(s, 1, n - 1)
<1>1. n \in Nat /\ \A i \in 1 .. n - 1 : s[i] \in S
  BY DEF IsSequence
<1>2. /\ t \in Seq(S)
      /\ Len(t) = IF 1 <= n - 1 THEN (n - 1) - 1 + 1 ELSE 0
      /\ \A i \in 1 .. (n - 1) - 1 + 1 : t[i] = s[1 + i - 1]
  <2> HIDE DEF S, n
  <2> QED BY <1>1, SubSeqProperties
<1>3. \A i \in 1 .. n - 1 : t[i] = s[i]
  <2> TAKE i \in 1 .. n - 1
  <2>1. i \in 1 .. (n - 1) - 1 + 1 /\ 1 + i - 1 = i
    BY <1>1
  <2>2. t[i] = s[1 + i - 1]
    <3> HIDE DEF t
    <3> QED BY <1>2, <2>1
  <2> HIDE DEF t
  <2> QED BY <2>1, <2>2
<1> HIDE DEF t, S
<1>4. IsSequence(t)
  BY <1>2, SequenceOf
<1> HIDE DEF n
<1>5. Len(t) = IF n = 0 THEN 0 ELSE n - 1
  BY <1>1, <1>2
<1> QED BY <1>3, <1>4, <1>5 DEF Front, t, n

\* ... and with another in its place.
LEMMA OtherAt ==
  ASSUME NEW s, IsSequence(s), NEW k, NEW e
  PROVE  /\ IsSequence([s EXCEPT ![k] = e]) /\ Len([s EXCEPT ![k] = e]) = Len(s)
         /\ \A i \in 1 .. Len(s) : [s EXCEPT ![k] = e][i] = IF i = k THEN e ELSE s[i]
<1> DEFINE S == {s[i] : i \in 1 .. Len(s)} \cup {e}
           n == Len(s)
           t == [s EXCEPT ![k] = e]
<1>1. n \in Nat /\ s = [i \in 1 .. n |-> s[i]]
  BY DEF IsSequence
<1>2. /\ t = [i \in 1 .. n |-> t[i]]
      /\ \A i \in 1 .. n : t[i] = IF i = k THEN e ELSE s[i]
  <2> HIDE DEF n
  <2> QED BY <1>1
<1>3. \A i \in 1 .. n : t[i] \in S
  BY <1>2
<1> HIDE DEF t, S
<1>4. [i \in 1 .. n |-> t[i]] \in Seq(S)
  BY <1>1, <1>3, IsASeq
<1>5. Len(t) = n
  BY <1>1, <1>2, <1>4
<1>6. IsSequence(t)
  BY <1>1, <1>2, <1>5 DEF IsSequence
<1> QED BY <1>2, <1>5, <1>6 DEF t

-----------------------------------------------------------------------------
(* The token generator                                                     *)

\* h is what the generator is after g: tokens are only added.
After(g, h) == GenInv(h) /\ Len(h.tokens) >= Len(g.tokens)

\* What comes after something that comes after it comes after it.
LEMMA AfterAfter ==
  ASSUME NEW g, NEW h, NEW k, GenInv(g), After(g, h), After(h, k)
  PROVE  After(g, k)
<1> DEFINE a == Len(g.tokens)
           b == Len(h.tokens)
           c == Len(k.tokens)
<1>1. a \in Nat /\ b \in Nat /\ c \in Nat /\ b >= a /\ c >= b
  BY DEF After, GenInv, IsSequence
<1>2. GenInv(k)
  BY DEF After
<1>3. c >= a
  <2> HIDE DEF a, b, c
  <2> QED BY <1>1
<1> QED BY <1>2, <1>3 DEF After

\* Other tokens in a generator, not fewer, and any state of the first flag.
LEMMA OtherTokens ==
  ASSUME NEW g, GenInv(g), NEW t, IsSequence(t), Len(t) >= Len(g.tokens), NEW f
  PROVE  After(g, [tokens |-> t, openers |-> g.openers, first |-> f])
<1> DEFINE h == [tokens |-> t, openers |-> g.openers, first |-> f]
           n == Len(g.openers)
           a == Len(g.tokens)
           b == Len(t)
<1>1. h.tokens = t /\ h.openers = g.openers /\ h.first = f
  OBVIOUS
<1>2. \A i \in 1 .. n : g.openers[i] \in 1 .. b
  <2>1. a \in Nat /\ b \in Nat /\ b >= a /\ \A i \in 1 .. n : g.openers[i] \in 1 .. a
    BY DEF GenInv, IsSequence
  <2> HIDE DEF a, b, n
  <2> QED BY <2>1
<1> HIDE DEF h
<1>3. IsSequence(h.tokens) /\ IsSequence(h.openers)
  BY <1>1 DEF GenInv
<1>4. h = [tokens |-> h.tokens, openers |-> h.openers, first |-> h.first]
  BY <1>1 DEF h
<1> QED BY <1>1, <1>2, <1>3, <1>4 DEF GenInv, After, h

\* A token is added at the end.
LEMMA AddedAfter ==
  ASSUME NEW g, GenInv(g), NEW token
  PROVE  /\ After(g, Added(g, token)) /\ Added(g, token).openers = g.openers
         /\ Added(g, token).tokens = Append(g.tokens, token)
         /\ Len(Added(g, token).tokens) = Len(g.tokens) + 1
<1> DEFINE t == Append(g.tokens, token)
<1>1. g = [tokens |-> g.tokens, openers |-> g.openers, first |-> g.first] /\ IsSequence(g.tokens)
  BY DEF GenInv
<1>2. IsSequence(t) /\ Len(t) = Len(g.tokens) + 1 /\ Len(t) >= Len(g.tokens)
  <2>1. IsSequence(t) /\ Len(t) = Len(g.tokens) + 1 /\ Len(g.tokens) \in Nat
    BY <1>1, OneMore DEF IsSequence
  <2> HIDE DEF t
  <2> QED BY <2>1
<1>3. Added(g, token) = [tokens |-> t, openers |-> g.openers, first |-> g.first]
  <2>1. Added(g, token) = [g EXCEPT !.tokens = t]
    BY DEF Added
  <2> HIDE DEF t
  <2> QED BY <1>1, <2>1
<1> HIDE DEF t
<1>4. After(g, [tokens |-> t, openers |-> g.openers, first |-> g.first])
  BY <1>1, <1>2, OtherTokens
<1> QED BY <1>2, <1>3, <1>4 DEF t

\* The flag of the first element says nothing of the tokens.
LEMMA FirstAfter ==
  ASSUME NEW g, GenInv(g), NEW f
  PROVE  /\ After(g, [g EXCEPT !.first = f]) /\ [g EXCEPT !.first = f].tokens = g.tokens
         /\ [g EXCEPT !.first = f].openers = g.openers
<1>1. /\ g = [tokens |-> g.tokens, openers |-> g.openers, first |-> g.first]
      /\ IsSequence(g.tokens) /\ Len(g.tokens) >= Len(g.tokens)
  BY DEF GenInv, IsSequence
<1>2. [g EXCEPT !.first = f] = [tokens |-> g.tokens, openers |-> g.openers, first |-> f]
  BY <1>1
<1>3. After(g, [tokens |-> g.tokens, openers |-> g.openers, first |-> f])
  BY <1>1, OtherTokens
<1> QED BY <1>2, <1>3

\* A separator is added, or none.
LEMMA SeparatedAfter ==
  ASSUME NEW g, GenInv(g)
  PROVE  After(g, Separated(g)) /\ Separated(g).openers = g.openers
<1>1. CASE g.first
  BY <1>1, FirstAfter DEF Separated
<1>2. CASE ~g.first
  BY <1>2, AddedAfter DEF Separated
<1> QED BY <1>1, <1>2

\* Closing a compound adds its closer.
LEMMA ClosedAfter ==
  ASSUME NEW g, GenInv(g), NEW opener
  PROVE  After(g, Closed(g, opener)) /\ Closed(g, opener).openers = g.openers
<1> DEFINE e == [g.tokens[opener] EXCEPT !.idxComplement = Len(g.tokens) + 1]
           t == [g.tokens EXCEPT ![opener] = e]
           h == [g EXCEPT !.tokens = t]
           token == [JsonToken("Closer", Closing(g.tokens[opener].tokenType))
                       EXCEPT !.idxComplement = opener]
<1>1. Closed(g, opener) = Added(h, token)
  BY DEF Closed
<1>2. g = [tokens |-> g.tokens, openers |-> g.openers, first |-> g.first] /\ IsSequence(g.tokens)
  BY DEF GenInv
<1>3. IsSequence(t) /\ Len(t) >= Len(g.tokens)
  <2>1. IsSequence(t) /\ Len(t) = Len(g.tokens) /\ Len(g.tokens) \in Nat
    <3> HIDE DEF e
    <3> QED BY <1>2, OtherAt DEF IsSequence
  <2> HIDE DEF t
  <2> QED BY <2>1
<1>4. h = [tokens |-> t, openers |-> g.openers, first |-> g.first]
  <2> HIDE DEF t
  <2> QED BY <1>2
<1>5. After(g, h) /\ h.openers = g.openers
  <2> HIDE DEF t, h
  <2>1. After(g, h)
    BY <1>3, <1>4, OtherTokens
  <2> QED BY <1>4, <2>1
<1> HIDE DEF h, token
<1>6. GenInv(h)
  BY <1>5 DEF After
<1>7. After(h, Added(h, token)) /\ Added(h, token).openers = h.openers
  BY <1>6, AddedAfter
<1>8. After(g, Added(h, token))
  BY <1>5, <1>7, AfterAfter
<1> QED BY <1>1, <1>5, <1>7, <1>8

\* A compound opens at the last token ...
LEMMA PushLevelAfter ==
  ASSUME NEW g, GenInv(g), Len(g.tokens) > 0
  PROVE  After(g, PushLevel(g))
<1> DEFINE t == IF g.openers = <<>> THEN g.tokens
                ELSE [g.tokens EXCEPT ![Last(g.openers)] =
                        [g.tokens[Last(g.openers)] EXCEPT !.hasCompounds = TRUE]]
           o == Append(g.openers, Len(g.tokens))
           h == PushLevel(g)
           n == Len(g.tokens)
           m == Len(g.openers)
<1>1. h = [tokens |-> t, openers |-> o, first |-> TRUE]
  BY DEF PushLevel
<1>2. IsSequence(t) /\ Len(t) = n
  <2> DEFINE e == [g.tokens[Last(g.openers)] EXCEPT !.hasCompounds = TRUE]
             w == [g.tokens EXCEPT ![Last(g.openers)] = e]
  <2>1. IsSequence(g.tokens)
    BY DEF GenInv
  <2>2. IsSequence(w) /\ Len(w) = n
    <3> HIDE DEF e
    <3> QED BY <2>1, OtherAt
  <2>3. t = IF g.openers = <<>> THEN g.tokens ELSE w
    OBVIOUS
  <2> HIDE DEF t, w
  <2> QED BY <2>1, <2>2, <2>3
<1>3. /\ IsSequence(o) /\ Len(o) = m + 1
      /\ \A i \in 1 .. m : o[i] = g.openers[i]
      /\ o[m + 1] = n
  BY OneMore DEF GenInv
<1>4. n \in Nat /\ n > 0 /\ m \in Nat /\ \A i \in 1 .. m : g.openers[i] \in 1 .. n
  BY DEF GenInv, IsSequence
<1> HIDE DEF t, o, n, m, h
<1>5. \A i \in 1 .. Len(o) : o[i] \in 1 .. n
  <2> TAKE i \in 1 .. Len(o)
  <2>1. CASE i = m + 1
    BY <1>3, <1>4, <2>1
  <2>2. CASE i # m + 1
    <3>1. i \in 1 .. m
      BY <1>3, <1>4, <2>2
    <3> QED BY <1>3, <1>4, <3>1
  <2> QED BY <2>1, <2>2
<1>6. h.tokens = t /\ h.openers = o
  BY <1>1
<1>7. h = [tokens |-> h.tokens, openers |-> h.openers, first |-> h.first]
  BY <1>1
<1>8. GenInv(h)
  BY <1>2, <1>3, <1>5, <1>6, <1>7 DEF GenInv
<1>9. Len(h.tokens) >= n
  BY <1>2, <1>4, <1>6
<1> QED BY <1>8, <1>9 DEF After, h, n

\* ... and the innermost one closes.
LEMMA PopLevelAfter ==
  ASSUME NEW g, GenInv(g)
  PROVE  After(g, PopLevel(g))
<1> DEFINE k == Closed(g, Last(g.openers))
           o == Front(k.openers)
           h == PopLevel(g)
           m == Len(k.openers)
           n == Len(k.tokens)
<1>1. After(g, k) /\ GenInv(k)
  BY ClosedAfter DEF After
<1>2. h = [k EXCEPT !.openers = Front(@), !.first = FALSE]
  BY DEF PopLevel
<1>3. k = [tokens |-> k.tokens, openers |-> k.openers, first |-> k.first]
  BY <1>1 DEF GenInv
<1>4. h.tokens = k.tokens /\ h.openers = o
      /\ h = [tokens |-> h.tokens, openers |-> h.openers, first |-> h.first]
  <2> HIDE DEF k, h
  <2> QED BY <1>2, <1>3
<1>5. /\ IsSequence(o) /\ Len(o) = IF m = 0 THEN 0 ELSE m - 1
      /\ \A i \in 1 .. m - 1 : o[i] = k.openers[i]
  <2> HIDE DEF k
  <2> QED BY <1>1, AllButLast DEF GenInv
<1>6. m \in Nat /\ \A i \in 1 .. m : k.openers[i] \in 1 .. n
  <2> HIDE DEF k
  <2> QED BY <1>1 DEF GenInv, IsSequence
<1> HIDE DEF k, o, h, m, n
<1>7. \A i \in 1 .. Len(o) : o[i] \in 1 .. n
  <2> TAKE i \in 1 .. Len(o)
  <2>1. i \in 1 .. m - 1 /\ i \in 1 .. m
    BY <1>5, <1>6
  <2> QED BY <1>5, <1>6, <2>1
<1>8. GenInv(h)
  BY <1>1, <1>4, <1>5, <1>7 DEF GenInv, n
<1>9. After(k, h)
  <2>1. n \in Nat /\ n >= n
    BY <1>1 DEF GenInv, IsSequence, n
  <2> QED BY <1>4, <1>8, <2>1 DEF After, n
<1>10. After(g, h)
  BY <1>1, <1>9, AfterAfter
<1> QED BY <1>10 DEF h

\* What the serializer is told only adds tokens.
LEMMA OnCompoundAfter ==
  ASSUME NEW g, GenInv(g), NEW d
  PROVE  After(g, OnCompound(g, d))
<1> DEFINE s == Separated(g)
           token == IF datums[d].type = "List" THEN JsonToken("ListOpener", "[")
                    ELSE JsonToken("DictOpener", "{")
           opened == Added(s, token)
<1>1. After(g, s) /\ GenInv(s)
  BY SeparatedAfter DEF After
<1>2. After(s, opened) /\ GenInv(opened) /\ Len(opened.tokens) = Len(s.tokens) + 1
  <2> HIDE DEF s, token
  <2> QED BY <1>1, AddedAfter DEF After
<1>3. Len(opened.tokens) > 0
  <2> HIDE DEF s, opened
  <2>1. Len(s.tokens) \in Nat
    BY <1>1 DEF GenInv, IsSequence
  <2> QED BY <1>2, <2>1
<1>4. OnCompound(g, d) = IF datums[d].children # <<>> THEN PushLevel(opened)
                         ELSE Closed(opened, Len(opened.tokens))
  BY DEF OnCompound
<1> HIDE DEF s, token, opened
<1>5. After(opened, OnCompound(g, d))
  BY <1>2, <1>3, <1>4, PushLevelAfter, ClosedAfter
<1>6. After(s, OnCompound(g, d))
  BY <1>1, <1>2, <1>5, AfterAfter
<1> QED BY <1>1, <1>6, AfterAfter

\* A leaf adds its value ...
LEMMA OnLeafAfter ==
  ASSUME NEW g, GenInv(g), NEW d
  PROVE  After(g, OnLeaf(g, d))
<1> DEFINE s == Separated(g)
           token == JsonToken("Value", ToString(d))
<1>1. After(g, s) /\ GenInv(s)
  BY SeparatedAfter DEF After
<1>2. OnLeaf(g, d) = Added(s, token)
  BY DEF OnLeaf
<1> HIDE DEF s, token
<1>3. After(s, OnLeaf(g, d))
  BY <1>1, <1>2, AddedAfter
<1> QED BY <1>1, <1>3, AfterAfter

\* ... and a key of a dictionary itself and what separates it from its value.
LEMMA OnDictKeyAfter ==
  ASSUME NEW g, GenInv(g), NEW k
  PROVE  After(g, OnDictKey(g, k))
<1> DEFINE s == Separated(g)
           a == Added(s, JsonToken("Value", k))
           b == Added(a, JsonToken("DictSeparator", ":"))
<1>1. After(g, s) /\ GenInv(s)
  BY SeparatedAfter DEF After
<1>2. After(s, a) /\ GenInv(a)
  <2> HIDE DEF s
  <2> QED BY <1>1, AddedAfter DEF After
<1>3. After(a, b) /\ GenInv(b)
  <2> HIDE DEF a
  <2> QED BY <1>2, AddedAfter DEF After
<1>4. OnDictKey(g, k) = [b EXCEPT !.first = TRUE]
  BY DEF OnDictKey
<1> HIDE DEF s, a, b
<1>5. After(b, OnDictKey(g, k))
  BY <1>3, <1>4, FirstAfter
<1>6. After(a, OnDictKey(g, k))
  BY <1>2, <1>3, <1>5, AfterAfter
<1>7. After(s, OnDictKey(g, k))
  BY <1>1, <1>2, <1>6, AfterAfter
<1> QED BY <1>1, <1>7, AfterAfter

-----------------------------------------------------------------------------
(* Building                                                                *)

\* An entry goes in before another, or at the end.
LEMMA Inserted ==
  ASSUME NEW S, NEW s \in Seq(S), NEW i \in 1 .. Len(s) + 1, NEW e \in S
  PROVE  InsertAt(s, i, e) \in Seq(S)
<1> DEFINE a == SubSeq(s, 1, i - 1)
           b == SubSeq(s, i, Len(s))
<1>1. Len(s) \in Nat /\ i \in Int /\ \A j \in 1 .. Len(s) : s[j] \in S
  OBVIOUS
<1>2. /\ \A j \in 1 .. i - 1 : s[j] \in S
      /\ \A j \in i .. Len(s) : s[j] \in S
  BY <1>1
<1>3. a \in Seq(S)
  BY <1>1, <1>2, SubSeqProperties
<1>4. b \in Seq(S)
  BY <1>1, <1>2, SubSeqProperties
<1>5. <<e>> \in Seq(S)
  OBVIOUS
<1> HIDE DEF a, b
<1>6. a \o <<e>> \in Seq(S)
  BY <1>3, <1>5, ConcatProperties
<1>7. (a \o <<e>>) \o b \in Seq(S)
  <2> DEFINE c == a \o <<e>>
  <2>1. c \in Seq(S)
    BY <1>6
  <2> HIDE DEF c
  <2>2. c \o b \in Seq(S)
    BY <1>4, <2>1, ConcatProperties
  <2> QED BY <2>2 DEF c
<1> QED BY <1>7 DEF InsertAt, a, b

\* An entry takes the place of another.
LEMMA Replaced ==
  ASSUME NEW S, NEW s \in Seq(S), NEW i, NEW e \in S
  PROVE  ReplaceAt(s, i, e) \in Seq(S)
<1> DEFINE t == [s EXCEPT ![i] = e]
<1>1. t = [j \in 1 .. Len(s) |-> IF j = i THEN e ELSE s[j]] /\ Len(s) \in Nat
  OBVIOUS
<1>2. \A j \in 1 .. Len(s) : (IF j = i THEN e ELSE s[j]) \in S
  OBVIOUS
<1>3. [j \in 1 .. Len(s) |-> IF j = i THEN e ELSE s[j]] \in Seq(S)
  BY <1>1, <1>2, IsASeq
<1> QED BY <1>1, <1>3 DEF ReplaceAt

\* Children are set that were created before.
LEMMA ChildrenSet ==
  ASSUME DatumsInv, NEW d \in 1 .. Len(datums), NEW type,
         NEW kids \in Seq(EntriesOf(type, d)), SetChildren(d, type, kids)
  PROVE  DatumsInv' /\ Len(datums') = Len(datums)
<1> DEFINE e == [datums[d] EXCEPT !.children = kids]
<1>1. datums' = [datums EXCEPT ![d] = e]
  BY DEF SetChildren
<1>2. IsSequence(datums) /\ Len(datums) <= MaxDatums
  BY DEF DatumsInv
<1>3. /\ datums[d] = [type |-> datums[d].type, children |-> datums[d].children]
      /\ datums[d].type \in KindOf /\ datums[d].type = type
  BY DEF DatumsInv, SetChildren
<1>4. /\ e = [type |-> e.type, children |-> e.children]
      /\ e.type \in KindOf /\ e.type = type /\ e.children = kids
  BY <1>3
<1> HIDE DEF e
<1>5. /\ IsSequence(datums') /\ Len(datums') = Len(datums)
      /\ \A i \in 1 .. Len(datums) : datums'[i] = IF i = d THEN e ELSE datums[i]
  <2> DEFINE t == [datums EXCEPT ![d] = e]
  <2>1. IsSequence(t) /\ Len(t) = Len(datums)
    BY <1>2, OtherAt
  <2>2. \A i \in 1 .. Len(datums) : t[i] = IF i = d THEN e ELSE datums[i]
    BY <1>2 DEF IsSequence
  <2>3. datums' = t
    BY <1>1
  <2> HIDE DEF t
  <2> QED BY <2>1, <2>2, <2>3
<1>6. ASSUME NEW i \in 1 .. Len(datums')
      PROVE  /\ datums'[i] = [type |-> datums'[i].type, children |-> datums'[i].children]
             /\ datums'[i].type \in KindOf
             /\ datums'[i].children \in Seq(EntriesOf(datums'[i].type, i))
  <2>1. CASE i = d
    BY <1>4, <1>5, <2>1
  <2>2. CASE i # d
    <3>1. i \in 1 .. Len(datums) /\ datums'[i] = datums[i]
      BY <1>5, <1>6, <2>2
    <3> QED BY <3>1 DEF DatumsInv
  <2> QED BY <2>1, <2>2
<1> QED BY <1>2, <1>5, <1>6 DEF DatumsInv

\* Building makes data trees.
LEMMA BuildKeeps ==
  ASSUME DataInv, Build
  PROVE  DataInv'
<1> USE DataTreeAssumption
<1>1. /\ phase' = phase /\ root' = root /\ dfsStack' = dfsStack /\ gen' = gen /\ pr' = pr
  BY DEF Build, Create, List_InsertEntry, List_SetEntry, Dictionary_SetEntry, SetChildren
<1>2. DatumsInv /\ IsSequence(datums) /\ Len(datums) \in Nat
  BY DEF DataInv, DatumsInv, IsSequence
<1>3. DOMAIN datums = 1 .. Len(datums)
  BY <1>2 DEF IsSequence
<1>4. DatumsInv' /\ Len(datums') >= Len(datums) /\ Len(datums') \in Nat
  <2>1. ASSUME NEW type \in KindOf, Create(type)
        PROVE  DatumsInv' /\ Len(datums') >= Len(datums) /\ Len(datums') \in Nat
    <3> DEFINE e == [type |-> type, children |-> <<>>]
    <3>1. datums' = Append(datums, e) /\ Len(datums) < MaxDatums
      BY <2>1 DEF Create
    <3>2. /\ e = [type |-> e.type, children |-> e.children]
          /\ e.type \in KindOf /\ \A i : e.children \in Seq(EntriesOf(e.type, i))
      OBVIOUS
    <3> HIDE DEF e
    <3>3. /\ IsSequence(datums') /\ Len(datums') = Len(datums) + 1
          /\ \A i \in 1 .. Len(datums) : datums'[i] = datums[i]
          /\ datums'[Len(datums) + 1] = e
      BY <1>2, <3>1, OneMore
    <3>4. ASSUME NEW i \in 1 .. Len(datums')
          PROVE  /\ datums'[i] = [type |-> datums'[i].type, children |-> datums'[i].children]
                 /\ datums'[i].type \in KindOf
                 /\ datums'[i].children \in Seq(EntriesOf(datums'[i].type, i))
      <4>1. CASE i = Len(datums) + 1
        BY <3>2, <3>3, <4>1
      <4>2. CASE i # Len(datums) + 1
        <5>1. i \in 1 .. Len(datums) /\ datums'[i] = datums[i]
          BY <1>2, <3>3, <3>4, <4>2
        <5> QED BY <1>2, <5>1 DEF DatumsInv
      <4> QED BY <4>1, <4>2
    <3>5. Len(datums') <= MaxDatums /\ Len(datums') >= Len(datums) /\ Len(datums') \in Nat
      BY <1>2, <3>1, <3>3
    <3> QED BY <3>3, <3>4, <3>5 DEF DatumsInv
  <2>2. ASSUME NEW d \in 1 .. Len(datums), NEW type,
               NEW kids \in Seq(EntriesOf(type, d)), SetChildren(d, type, kids)
        PROVE  DatumsInv' /\ Len(datums') >= Len(datums) /\ Len(datums') \in Nat
    <3>1. DatumsInv' /\ Len(datums') = Len(datums)
      BY <1>2, <2>2, ChildrenSet
    <3> QED BY <1>2, <3>1
  <2>3. ASSUME NEW d \in 1 .. Len(datums), NEW e \in 1 .. d - 1,
               NEW type, datums[d].type = type, NEW k \in KeysOf(type)
        PROVE  Entry(k, e) \in EntriesOf(type, d) /\ datums[d].children \in Seq(EntriesOf(type, d))
    <3>1. datums[d].children \in Seq(EntriesOf(type, d))
      BY <1>2, <2>3 DEF DatumsInv
    <3> QED BY <3>1 DEF Entry, EntriesOf
  <2>4. ASSUME NEW d \in 1 .. Len(datums), NEW e \in 1 .. d - 1,
               NEW i \in 1 .. Len(datums[d].children) + 1, List_InsertEntry(d, e, i)
        PROVE  DatumsInv' /\ Len(datums') >= Len(datums) /\ Len(datums') \in Nat
    <3> DEFINE kids == InsertAt(datums[d].children, i, Entry(NoKey, e))
    <3>0. datums[d].type = "List" /\ NoKey \in KeysOf("List")
      BY <2>4 DEF List_InsertEntry, SetChildren, KeysOf
    <3>1. kids \in Seq(EntriesOf("List", d))
      <4>1. /\ Entry(NoKey, e) \in EntriesOf("List", d)
            /\ datums[d].children \in Seq(EntriesOf("List", d))
        BY <2>3, <3>0
      <4> QED BY <4>1, Inserted
    <3>2. SetChildren(d, "List", kids)
      BY <2>4 DEF List_InsertEntry
    <3> QED BY <2>2, <3>1, <3>2
  <2>5. ASSUME NEW d \in 1 .. Len(datums), NEW e \in 1 .. d - 1,
               NEW i, List_SetEntry(d, e, i)
        PROVE  DatumsInv' /\ Len(datums') >= Len(datums) /\ Len(datums') \in Nat
    <3> DEFINE kids == ReplaceAt(datums[d].children, i, Entry(NoKey, e))
    <3>0. datums[d].type = "List" /\ NoKey \in KeysOf("List")
      BY <2>5 DEF List_SetEntry, SetChildren, KeysOf
    <3>1. kids \in Seq(EntriesOf("List", d))
      <4>1. /\ Entry(NoKey, e) \in EntriesOf("List", d)
            /\ datums[d].children \in Seq(EntriesOf("List", d))
        BY <2>3, <3>0
      <4> QED BY <4>1, Replaced
    <3>2. SetChildren(d, "List", kids)
      BY <2>5 DEF List_SetEntry
    <3> QED BY <2>2, <3>1, <3>2
  <2>6. ASSUME NEW d \in 1 .. Len(datums), NEW e \in 1 .. d - 1,
               NEW k \in Keys, Dictionary_SetEntry(d, k, e)
        PROVE  DatumsInv' /\ Len(datums') >= Len(datums) /\ Len(datums') \in Nat
    <3>1. PICK kids \in Seq(EntriesOf("Dictionary", d)) : SetChildren(d, "Dictionary", kids)
      <4>1. /\ Entry(k, e) \in EntriesOf("Dictionary", d)
            /\ datums[d].children \in Seq(EntriesOf("Dictionary", d))
        <5>1. datums[d].type = "Dictionary" /\ k \in KeysOf("Dictionary")
          BY <2>6 DEF Dictionary_SetEntry, SetChildren, KeysOf
        <5> QED BY <2>3, <5>1
      <4>2. \A i : ReplaceAt(datums[d].children, i, Entry(k, e)) \in Seq(EntriesOf("Dictionary", d))
        BY <4>1, Replaced
      <4>3. \A i \in 1 .. Len(datums[d].children) + 1 :
              InsertAt(datums[d].children, i, Entry(k, e)) \in Seq(EntriesOf("Dictionary", d))
        BY <4>1, Inserted
      <4>4. CASE IndexOfKey(d, k) # {}
        <5>1. PICK i : SetChildren(d, "Dictionary",
                                   ReplaceAt(datums[d].children, i, Entry(k, e)))
          BY <2>6, <4>4 DEF Dictionary_SetEntry
        <5> QED BY <4>2, <5>1
      <4>5. CASE IndexOfKey(d, k) = {}
        <5>1. PICK i \in 1 .. Len(datums[d].children) + 1 :
                SetChildren(d, "Dictionary", InsertAt(datums[d].children, i, Entry(k, e)))
          BY <2>6, <4>5 DEF Dictionary_SetEntry
        <5> QED BY <4>3, <5>1
      <4> QED BY <4>4, <4>5
    <3> QED BY <2>2, <3>1
  <2> QED BY <1>3, <2>1, <2>4, <2>5, <2>6 DEF Build, KindOf
<1>5. StackInv' /\ root' \in 0 .. Len(datums')
  <2>1. StackInv /\ root \in 0 .. Len(datums)
    BY DEF DataInv
  <2> QED BY <1>1, <1>2, <1>4, <2>1 DEF StackInv
<1>6. GenInv(gen)' /\ PrinterInv' /\ phase' \in {"build", "serialize", "print", "done", "thrown"}
  BY <1>1 DEF DataInv, PrinterInv
<1> QED BY <1>4, <1>5, <1>6 DEF DataInv

-----------------------------------------------------------------------------
(* Walking and printing                                                    *)

\* A sequence that is not empty has a last element.
LEMMA HasLast ==
  ASSUME NEW s, IsSequence(s), s # <<>>
  PROVE  Len(s) \in Nat /\ Len(s) \in 1 .. Len(s)
<1> DEFINE S == {s[i] : i \in 1 .. Len(s)}
<1>1. Len(s) \in Nat /\ s = [i \in 1 .. Len(s) |-> s[i]] /\ \A i \in 1 .. Len(s) : s[i] \in S
  BY DEF IsSequence
<1>2. s \in Seq(S)
  <2> HIDE DEF S
  <2>1. [i \in 1 .. Len(s) |-> s[i]] \in Seq(S)
    BY <1>1, IsASeq
  <2> QED BY <1>1, <2>1
<1> HIDE DEF S
<1>3. Len(s) # 0
  BY <1>2, EmptySeq
<1> QED BY <1>1, <1>3

\* A level of the walk, and the level inside it.
LEMMA LevelsInv ==
  ASSUME StackInv, DatumsInv, dfsStack # <<>>
  PROVE  /\ Len(dfsStack) \in Nat /\ Len(dfsStack) \in 1 .. Len(dfsStack)
         /\ Top.datum \in 1 .. Len(datums) /\ Top.curIdx \in Nat
         /\ Top = [datum |-> Top.datum, curIdx |-> Top.curIdx]
         /\ TopChildren \in Seq(EntriesOf(datums[Top.datum].type, Top.datum))
<1>1. IsSequence(dfsStack)
  BY DEF StackInv
<1>2. Len(dfsStack) \in Nat /\ Len(dfsStack) \in 1 .. Len(dfsStack)
  BY <1>1, HasLast
<1>3. /\ Top.datum \in 1 .. Len(datums) /\ Top.curIdx \in Nat
      /\ Top = [datum |-> Top.datum, curIdx |-> Top.curIdx]
  BY <1>2 DEF StackInv, Top, Last
<1>4. TopChildren \in Seq(EntriesOf(datums[Top.datum].type, Top.datum))
  BY <1>3 DEF DatumsInv, TopChildren
<1> QED BY <1>2, <1>3, <1>4

\* A level that is met tells the serializer.
LEMMA VisitedAfter ==
  ASSUME GenInv(gen)
  PROVE  After(gen, Visited) /\ GenInv(Visited)
<1>1. After(gen, gen)
  BY DEF After, GenInv, IsSequence
<1>2. After(gen, Visited)
  BY <1>1, OnLeafAfter, OnCompoundAfter DEF Visited
<1> QED BY <1>2 DEF After

\* While tokens are added, the printer waits.
LEMMA PrinterWaits ==
  ASSUME DataInv, After(gen, gen'), pr' = pr
  PROVE  PrinterInv'
<1>1. Len(gen.tokens) \in Nat /\ Len(gen'.tokens) \in Nat /\ Len(gen'.tokens) >= Len(gen.tokens)
  BY DEF DataInv, GenInv, After, IsSequence
<1>2. PrinterInv
  BY DEF DataInv
<1> QED BY <1>1, <1>2 DEF PrinterInv

\* The walk goes down to a child, which is a datum ...
LEMMA NextChildKeeps ==
  ASSUME DataInv, NextChild
  PROVE  DataInv'
<1> DEFINE n == Len(dfsStack)
           child == TopChildren[Top.curIdx + 1]
           key == OnDictKey(Visited, child.key)
           level == [Top EXCEPT !.curIdx = Top.curIdx + 1]
           s == [dfsStack EXCEPT ![n] = level]
           more == DFSLevel(child.value)
<1>1. StackInv /\ DatumsInv /\ dfsStack # <<>> /\ GenInv(gen) /\ IsSequence(dfsStack)
  BY DEF DataInv, NextChild, StackInv
<1>2. /\ n \in Nat /\ n \in 1 .. n
      /\ Top.datum \in 1 .. Len(datums) /\ Top.curIdx \in Nat
      /\ Top = [datum |-> Top.datum, curIdx |-> Top.curIdx]
      /\ TopChildren \in Seq(EntriesOf(datums[Top.datum].type, Top.datum)) /\ Len(datums) \in Nat
  BY <1>1, LevelsInv DEF DatumsInv, IsSequence
<1>3. /\ Top.curIdx < Len(TopChildren)
      /\ gen' = IF datums[Top.datum].type = "Dictionary" THEN key ELSE Visited
      /\ dfsStack' = Append([dfsStack EXCEPT ![n].curIdx = @ + 1], more)
      /\ phase' = phase /\ phase = "serialize" /\ datums' = datums /\ root' = root /\ pr' = pr
  BY DEF NextChild
<1>4. After(gen, gen')
  <2>1. After(gen, Visited) /\ GenInv(Visited)
    BY <1>1, VisitedAfter
  <2>2. After(Visited, key)
    BY <2>1, OnDictKeyAfter
  <2> HIDE DEF key
  <2>3. After(gen, key)
    BY <1>1, <2>1, <2>2, AfterAfter
  <2> QED BY <1>3, <2>1, <2>3
<1>5. child.value \in 1 .. Len(datums)
  <2>1. Top.curIdx + 1 \in 1 .. Len(TopChildren)
    BY <1>2, <1>3
  <2>2. child \in EntriesOf(datums[Top.datum].type, Top.datum)
    BY <1>2, <2>1
  <2>3. child.value \in 1 .. Top.datum - 1
    BY <2>2 DEF EntriesOf
  <2> HIDE DEF child
  <2> QED BY <1>2, <2>3
<1>6. dfsStack' = Append(s, more)
  <2>1. dfsStack[n] = Top
    BY DEF Top, Last
  <2> HIDE DEF more
  <2> QED BY <1>2, <1>3, <2>1
<1>7. /\ level.datum \in 1 .. Len(datums) /\ level.curIdx \in Nat
      /\ level = [datum |-> level.datum, curIdx |-> level.curIdx]
  BY <1>2
<1>8. /\ more.datum \in 1 .. Len(datums) /\ more.curIdx \in Nat
      /\ more = [datum |-> more.datum, curIdx |-> more.curIdx]
  <2> HIDE DEF child
  <2> QED BY <1>5 DEF DFSLevel
<1> HIDE DEF level, more, child, key
<1>9. /\ IsSequence(s) /\ Len(s) = n
      /\ \A i \in 1 .. n : s[i] = IF i = n THEN level ELSE dfsStack[i]
  <2>1. IsSequence(s) /\ Len(s) = n
    BY <1>1, OtherAt
  <2>2. \A i \in 1 .. n : s[i] = IF i = n THEN level ELSE dfsStack[i]
    BY <1>1 DEF IsSequence
  <2> QED BY <2>1, <2>2
<1> HIDE DEF s
<1>10. /\ IsSequence(dfsStack') /\ Len(dfsStack') = n + 1
       /\ \A i \in 1 .. n : dfsStack'[i] = s[i]
       /\ dfsStack'[n + 1] = more
  BY <1>6, <1>9, OneMore
<1>11. ASSUME NEW i \in 1 .. Len(dfsStack')
       PROVE  /\ dfsStack'[i].datum \in 1 .. Len(datums) /\ dfsStack'[i].curIdx \in Nat
              /\ dfsStack'[i] = [datum |-> dfsStack'[i].datum, curIdx |-> dfsStack'[i].curIdx]
  <2> HIDE DEF n
  <2>1. CASE i = n + 1
    BY <1>8, <1>10, <2>1
  <2>2. CASE i = n
    <3>1. dfsStack'[i] = level
      BY <1>2, <1>9, <1>10, <2>2
    <3> QED BY <1>7, <3>1
  <2>3. CASE i # n /\ i # n + 1
    <3>1. i \in 1 .. n /\ dfsStack'[i] = dfsStack[i]
      BY <1>2, <1>9, <1>10, <1>11, <2>3
    <3> QED BY <1>1, <3>1 DEF StackInv, n
  <2> QED BY <2>1, <2>2, <2>3
<1>12. StackInv'
  BY <1>3, <1>10, <1>11 DEF StackInv
<1>13. PrinterInv'
  BY <1>3, <1>4, PrinterWaits
<1>14. GenInv(gen)'
  BY <1>4 DEF After, GenInv
<1>15. DatumsInv' /\ root' \in 0 .. Len(datums')
  BY <1>3 DEF DataInv, DatumsInv
<1> QED BY <1>3, <1>12, <1>13, <1>14, <1>15 DEF DataInv

\* ... and back up.
LEMMA PopDFSKeeps ==
  ASSUME DataInv, PopDFS
  PROVE  DataInv'
<1> DEFINE n == Len(dfsStack)
<1>1. StackInv /\ DatumsInv /\ dfsStack # <<>> /\ GenInv(gen) /\ IsSequence(dfsStack)
  BY DEF DataInv, PopDFS, StackInv
<1>2. /\ gen' = IF TopChildren # <<>> THEN PopLevel(Visited) ELSE Visited
      /\ dfsStack' = Front(dfsStack)
      /\ phase' = phase /\ phase = "serialize" /\ datums' = datums /\ root' = root /\ pr' = pr
  BY DEF PopDFS
<1>3. After(gen, gen')
  <2>1. After(gen, Visited) /\ GenInv(Visited)
    BY <1>1, VisitedAfter
  <2>2. After(Visited, PopLevel(Visited))
    BY <2>1, PopLevelAfter
  <2>3. After(gen, PopLevel(Visited))
    BY <1>1, <2>1, <2>2, AfterAfter
  <2> QED BY <1>2, <2>1, <2>3
<1>4. /\ IsSequence(dfsStack') /\ Len(dfsStack') = IF n = 0 THEN 0 ELSE n - 1
      /\ \A i \in 1 .. n - 1 : dfsStack'[i] = dfsStack[i]
  BY <1>1, <1>2, AllButLast
<1>5. ASSUME NEW i \in 1 .. Len(dfsStack')
      PROVE  i \in 1 .. n /\ dfsStack'[i] = dfsStack[i]
  <2>1. n \in Nat
    BY <1>1 DEF IsSequence
  <2> HIDE DEF n
  <2> QED BY <1>4, <1>5, <2>1
<1>6. StackInv'
  <2>1. ASSUME NEW i \in 1 .. Len(dfsStack')
        PROVE  /\ dfsStack'[i].datum \in 1 .. Len(datums) /\ dfsStack'[i].curIdx \in Nat
               /\ dfsStack'[i] = [datum |-> dfsStack'[i].datum, curIdx |-> dfsStack'[i].curIdx]
    BY <1>1, <1>5, <2>1 DEF StackInv
  <2> QED BY <1>2, <1>4, <2>1 DEF StackInv
<1>7. PrinterInv'
  BY <1>2, <1>3, PrinterWaits
<1>8. GenInv(gen)'
  BY <1>3 DEF After, GenInv
<1>9. DatumsInv' /\ root' \in 0 .. Len(datums')
  BY <1>2 DEF DataInv, DatumsInv
<1> QED BY <1>2, <1>6, <1>7, <1>8, <1>9 DEF DataInv

\* The printer knows the tokens whose compounds are open.
LEMMA PrintTokenKeeps ==
  ASSUME DataInv, PrintToken
  PROVE  DataInv'
<1> DEFINE n == Len(gen.tokens)
           c == Compounds(pr.i)
<1>1. /\ PrinterInv /\ pr.i <= n /\ n \in Nat /\ pr.i \in Nat \ {0}
      /\ IsSequence(pr.compounds) /\ \A j \in 1 .. Len(pr.compounds) : pr.compounds[j] \in 1 .. n
  BY DEF DataInv, PrintToken, PrinterInv, GenInv, IsSequence
<1>2. datums' = datums /\ root' = root /\ dfsStack' = dfsStack /\ gen' = gen
  BY DEF PrintToken
<1>3. phase' \in {"build", "serialize", "print", "done", "thrown"}
  BY DEF PrintToken
<1>4. CASE OutOfPlace(pr.i)
  <2>1. pr' = pr
    BY <1>4 DEF PrintToken
  <2> QED BY <1>2, <1>3, <2>1 DEF DataInv, DatumsInv, StackInv, PrinterInv
<1>5. CASE ~OutOfPlace(pr.i)
  <2> DEFINE delta == IF AddNewline(pr.i) THEN IndentDelta(pr.i) ELSE 0
             s == IF Token(pr.i).tokenType = "Closer" THEN Front(pr.compounds) ELSE c
             b == IF AddNewline(pr.i)
                  THEN pr.breaks \cup {[after |-> pr.i, indent |-> pr.indent + delta]}
                  ELSE pr.breaks
  <2>1. pr' = [i |-> pr.i + 1, indent |-> pr.indent + delta, compounds |-> s,
               breaks |-> b, sameLine |-> pr.sameLine]
    BY <1>1, <1>5 DEF PrintToken, PrinterInv
  <2>2. delta \in Int
    BY DEF IndentDelta
  <2>3. /\ IsSequence(c) /\ \A j \in 1 .. Len(c) : c[j] \in 1 .. n
    <3>1. CASE Token(pr.i).tokenType \in Openers
      <4> DEFINE m == Len(pr.compounds)
      <4>1. c = Append(pr.compounds, pr.i)
        BY <3>1 DEF Compounds
      <4>2. /\ IsSequence(c) /\ Len(c) = m + 1 /\ c[m + 1] = pr.i
            /\ \A j \in 1 .. m : c[j] = pr.compounds[j]
        BY <1>1, <4>1, OneMore
      <4>3. m \in Nat
        BY <1>1 DEF IsSequence
      <4> HIDE DEF c, m, n
      <4>4. ASSUME NEW j \in 1 .. Len(c)
            PROVE  c[j] \in 1 .. n
        <5>1. CASE j = m + 1
          BY <1>1, <4>2, <5>1
        <5>2. CASE j # m + 1
          <6>1. j \in 1 .. m
            BY <4>2, <4>3, <4>4, <5>2
          <6> QED BY <1>1, <4>2, <6>1 DEF m
        <5> QED BY <5>1, <5>2
      <4> QED BY <4>2, <4>4
    <3>2. CASE Token(pr.i).tokenType \notin Openers
      BY <1>1, <3>2 DEF Compounds
    <3> QED BY <3>1, <3>2
  <2>4. /\ IsSequence(s) /\ \A j \in 1 .. Len(s) : s[j] \in 1 .. n
    <3>1. CASE Token(pr.i).tokenType = "Closer"
      <4> DEFINE t == Front(pr.compounds)
                 m == Len(pr.compounds)
      <4>1. /\ IsSequence(t) /\ Len(t) = IF m = 0 THEN 0 ELSE m - 1
            /\ \A j \in 1 .. m - 1 : t[j] = pr.compounds[j]
        BY <1>1, AllButLast
      <4>2. m \in Nat
        BY <1>1 DEF IsSequence
      <4> HIDE DEF t, m, n
      <4>3. ASSUME NEW j \in 1 .. Len(t)
            PROVE  t[j] \in 1 .. n
        <5>1. j \in 1 .. m - 1 /\ j \in 1 .. m
          BY <4>1, <4>2
        <5> QED BY <1>1, <4>1, <5>1 DEF m
      <4> QED BY <3>1, <4>1, <4>3 DEF t
    <3>2. CASE Token(pr.i).tokenType # "Closer"
      <4> HIDE DEF c
      <4> QED BY <2>3, <3>2
    <3> QED BY <3>1, <3>2
  <2> HIDE DEF delta, s, b, c
  <2>5. PrinterInv'
    <3>1. /\ pr'.i = pr.i + 1 /\ pr'.indent = pr.indent + delta /\ pr'.compounds = s
          /\ pr' = [i |-> pr'.i, indent |-> pr'.indent, compounds |-> pr'.compounds,
                    breaks |-> pr'.breaks, sameLine |-> pr'.sameLine]
      BY <2>1
    <3>2. pr'.i \in Nat \ {0} /\ pr'.indent \in Int
      BY <1>1, <2>2, <3>1 DEF PrinterInv
    <3> QED BY <1>2, <2>4, <3>1, <3>2 DEF PrinterInv
  <2> QED BY <1>2, <1>3, <2>5 DEF DataInv, DatumsInv, StackInv
<1> QED BY <1>4, <1>5

\* Datums hold what was created before them, the walk is at datums, and the
\* generator and the printer have tokens open that exist.
THEOREM DataInvariant == DataSpec => []DataInv
<1>1. DataInit => DataInv
  <2> SUFFICES ASSUME DataInit PROVE DataInv
    OBVIOUS
  <2>1. IsSequence(<<>>) /\ Len(<<>>) = 0
    <3>1. <<>> \in Seq({})
      OBVIOUS
    <3> QED BY <3>1, SequenceOf
  <2>2. DatumsInv /\ root \in 0 .. Len(datums)
    BY <2>1, DataTreeAssumption DEF DataInit, DatumsInv
  <2>3. StackInv
    BY <2>1 DEF DataInit, StackInv
  <2>4. GenInv(gen)
    BY <2>1 DEF DataInit, GenInv
  <2>5. PrinterInv
    BY <2>1 DEF DataInit, PrinterInv
  <2> QED BY <2>2, <2>3, <2>4, <2>5 DEF DataInit, DataInv
<1>2. DataInv /\ [DataNext]_dataVars => DataInv'
  <2> SUFFICES ASSUME DataInv, [DataNext]_dataVars PROVE DataInv'
    OBVIOUS
  <2>1. CASE Build
    BY <2>1, BuildKeeps
  <2>2. ASSUME NEW d \in DOMAIN datums, SerializeDataTree(d)
        PROVE  DataInv'
    <3>1. d \in 1 .. Len(datums) /\ Len(datums) \in Nat
      BY DEF DataInv, DatumsInv, IsSequence
    <3>2. /\ phase' = "serialize" /\ root' = d /\ dfsStack' = <<DFSLevel(d)>>
          /\ datums' = datums /\ gen' = gen /\ pr' = pr
      BY <2>2 DEF SerializeDataTree
    <3>3. IsSequence(dfsStack') /\ Len(dfsStack') = 1 /\ dfsStack'[1] = DFSLevel(d)
      <4> DEFINE l == DFSLevel(d)
      <4> HIDE DEF l
      <4>1. <<l>> \in Seq({l}) /\ Len(<<l>>) = 1 /\ <<l>>[1] = l
        OBVIOUS
      <4>2. IsSequence(<<l>>)
        BY <4>1, SequenceOf
      <4> QED BY <3>2, <4>1, <4>2 DEF l
    <3>4. StackInv'
      BY <3>1, <3>2, <3>3 DEF StackInv, DFSLevel
    <3>5. root' \in 0 .. Len(datums')
      BY <3>1, <3>2
    <3> QED BY <3>2, <3>4, <3>5 DEF DataInv, DatumsInv, PrinterInv
  <2>3. CASE NextChild
    BY <2>3, NextChildKeeps
  <2>4. CASE PopDFS
    BY <2>4, PopDFSKeeps
  <2>5. ASSUME NEW sameLineElements \in BOOLEAN, PrintJsonIndented(sameLineElements)
        PROVE  DataInv'
    <3>1. /\ phase' = "print" /\ pr' = [pr EXCEPT !.sameLine = sameLineElements]
          /\ datums' = datums /\ root' = root /\ dfsStack' = dfsStack /\ gen' = gen
      BY <2>5 DEF PrintJsonIndented
    <3>2. PrinterInv'
      BY <3>1 DEF DataInv, PrinterInv
    <3> QED BY <3>1, <3>2 DEF DataInv, DatumsInv, StackInv
  <2>6. CASE PrintToken
    BY <2>6, PrintTokenKeeps
  <2>7. CASE UNCHANGED dataVars
    BY <2>7 DEF DataInv, DatumsInv, StackInv, PrinterInv, dataVars
  <2> QED BY <2>1, <2>2, <2>3, <2>4, <2>5, <2>6, <2>7 DEF DataNext
<1> QED BY <1>1, <1>2, PTL DEF DataSpec

\* The types of what is built, walked, made into tokens and printed.
THEOREM DataTypeCorrect == DataSpec => []DataTypeOK
<1>1. DataInv => DataTypeOK
  <2> SUFFICES ASSUME DataInv PROVE DataTypeOK
    OBVIOUS
  <2> DEFINE AnyEntry == [key : Keys \cup {NoKey}, value : DatumIDs]
             Children == Seq(AnyEntry)
             Datums == [type : LeafTypes \cup CompoundTypes, children : Children]
             n == Len(datums)
  <2>1. IsSequence(datums) /\ n \in Nat /\ n <= MaxDatums /\ MaxDatums \in Nat
    BY DataTreeAssumption DEF DataInv, DatumsInv, IsSequence
  <2>2. ASSUME NEW d \in 1 .. n
        PROVE  datums[d] \in Datums
    <3>1. /\ datums[d] = [type |-> datums[d].type, children |-> datums[d].children]
          /\ datums[d].type \in KindOf /\ datums[d].children \in Seq(EntriesOf(datums[d].type, d))
      BY DEF DataInv, DatumsInv
    <3>2. EntriesOf(datums[d].type, d) \subseteq AnyEntry
      <4>1. 1 .. d - 1 \subseteq DatumIDs
        <5> HIDE DEF n
        <5> QED BY <2>1 DEF DatumIDs
      <4>2. KeysOf(datums[d].type) \subseteq Keys \cup {NoKey}
        BY DEF KeysOf
      <4> QED BY <4>1, <4>2 DEF EntriesOf
    <3>3. datums[d].children \in Children
      <4> HIDE DEF AnyEntry
      <4> QED BY <3>1, <3>2, SequenceOfMore
    <3> HIDE DEF Children
    <3> QED BY <3>1, <3>3 DEF KindOf
  <2>3. datums \in Seq(Datums)
    <3> HIDE DEF Datums, n
    <3>1. [d \in 1 .. n |-> datums[d]] \in Seq(Datums)
      BY <2>1, <2>2, IsASeq
    <3> QED BY <2>1, <3>1 DEF IsSequence, n
  <2>4. \A l \in ToSet(dfsStack) : l.datum \in DOMAIN datums /\ l.curIdx \in Nat
    <3>1. DOMAIN datums = 1 .. n /\ DOMAIN dfsStack = 1 .. Len(dfsStack)
      BY <2>1 DEF IsSequence, DataInv, StackInv
    <3> QED BY <3>1 DEF DataInv, StackInv, ToSet
  <2>5. /\ DOMAIN gen.tokens = 1 .. Len(gen.tokens)
        /\ DOMAIN gen.openers = 1 .. Len(gen.openers)
        /\ DOMAIN pr.compounds = 1 .. Len(pr.compounds)
    BY DEF DataInv, GenInv, PrinterInv, IsSequence
  <2>6. /\ ToSet(gen.openers) \subseteq DOMAIN gen.tokens
        /\ pr.indent \in Int /\ ToSet(pr.compounds) \subseteq DOMAIN gen.tokens
    BY <2>5 DEF DataInv, GenInv, PrinterInv, ToSet
  <2> QED BY <2>3, <2>4, <2>6 DEF DataInv, DataTypeOK
<1> QED BY <1>1, DataInvariant, PTL

-----------------------------------------------------------------------------
(* Data trees: openers and closers                                         *)

TokenTypes == Openers \cup {"Closer", "ListSeparator", "DictSeparator", "Value"}
Separators == {"ListSeparator", "DictSeparator"}

OpensAt(T) == {i \in 1 .. Len(T) : T[i].tokenType \in Openers}

\* What opens at i is open still, or has something in it.
IsOpen(T, i) == T[i].idxComplement = 0
IsFull(T, i) == IsOpen(T, i) \/ T[i].idxComplement > i + 1

\* Token j lies between the opener i and its closer.
Between(T, i, j) == i < j /\ (IsOpen(T, i) \/ j < T[i].idxComplement)

\* What opens at j is directly inside what opens at i.
Directly(T, i, j) ==
  Between(T, i, j) /\ ~\E k \in OpensAt(T) : Between(T, i, k) /\ Between(T, k, j)

TokensTyped(T) ==
  /\ IsSequence(T)
  /\ \A i \in 1 .. Len(T) :
       /\ T[i] = [tokenType |-> T[i].tokenType, sToken |-> T[i].sToken,
                  hasCompounds |-> T[i].hasCompounds, idxComplement |-> T[i].idxComplement]
       /\ T[i].tokenType \in TokenTypes /\ T[i].hasCompounds \in BOOLEAN
       /\ T[i].idxComplement \in 0 .. Len(T)

\* Openers and closers know each other, and are nested.
Paired(T) ==
  /\ \A i \in OpensAt(T) : ~IsOpen(T, i) =>
       LET e == T[i].idxComplement IN
       i < e /\ T[e].tokenType = "Closer" /\ T[e].idxComplement = i
  /\ \A e \in 1 .. Len(T) : T[e].tokenType = "Closer" =>
       LET i == T[e].idxComplement IN i \in OpensAt(T) /\ T[i].idxComplement = e
  /\ \A i, j \in OpensAt(T) : ~IsOpen(T, i) /\ Between(T, i, j) =>
       ~IsOpen(T, j) /\ T[j].idxComplement < T[i].idxComplement

\* An opener tells whether something that has something in it is directly in it.
Flagged(T) ==
  \A i \in OpensAt(T) :
    T[i].hasCompounds <=> \E j \in OpensAt(T) : Directly(T, i, j) /\ IsFull(T, j)

\* A separator of elements is inside something, and none comes before a closer.
Separate(T) ==
  /\ \A i \in 1 .. Len(T) : T[i].tokenType = "ListSeparator" =>
       \E j \in OpensAt(T) : Between(T, j, i)
  /\ \A i \in 1 .. Len(T) - 1 :
       T[i].tokenType \in Separators => T[i + 1].tokenType # "Closer"

Brackets(T) == TokensTyped(T) /\ Paired(T) /\ Flagged(T) /\ Separate(T)

\* The openers of what is open, from the outermost to the innermost.
Opened(T, openers) ==
  /\ IsSequence(openers)
  /\ \A k \in 1 .. Len(openers) : openers[k] \in OpensAt(T) /\ IsOpen(T, openers[k])
  /\ \A k, l \in 1 .. Len(openers) : k < l => openers[k] < openers[l]
  /\ \A i \in OpensAt(T) : IsOpen(T, i) => \E k \in 1 .. Len(openers) : openers[k] = i

\* The last token is one after which something may be closed or separated.
Ended(T) == Len(T) > 0 /\ T[Len(T)].tokenType \notin Separators

-----------------------------------------------------------------------------
\* A token that neither opens nor closes changes nothing.
LEMMA PlainToken ==
  ASSUME NEW T, Brackets(T), NEW openers, Opened(T, openers), NEW token,
         token = [tokenType |-> token.tokenType, sToken |-> token.sToken,
                  hasCompounds |-> token.hasCompounds, idxComplement |-> token.idxComplement],
         token.tokenType \in Separators \cup {"Value"}, token.hasCompounds \in BOOLEAN,
         token.idxComplement = 0,
         token.tokenType = "ListSeparator" => openers # <<>>
  PROVE  Brackets(Append(T, token)) /\ Opened(Append(T, token), openers)
<1> DEFINE U == Append(T, token)
           n == Len(T)
<1>1. IsSequence(T) /\ n \in Nat
  BY DEF Brackets, TokensTyped, IsSequence
<1>2. /\ IsSequence(U) /\ Len(U) = n + 1
      /\ \A i \in 1 .. n : U[i] = T[i]
      /\ U[n + 1] = token
  BY <1>1, OneMore
<1> HIDE DEF U, n
<1>3. /\ token.tokenType \notin Openers /\ token.tokenType # "Closer"
      /\ token.tokenType \in TokenTypes
  BY DEF Openers, Separators, TokenTypes
<1>4. OpensAt(U) = OpensAt(T) /\ OpensAt(T) \subseteq 1 .. n
  <2>1. \A i \in 1 .. n + 1 : i \in 1 .. n \/ i = n + 1
    BY <1>1
  <2> QED BY <1>1, <1>2, <1>3, <2>1 DEF OpensAt, n
<1>5. /\ \A i \in OpensAt(T) : IsOpen(U, i) <=> IsOpen(T, i)
      /\ \A i \in OpensAt(T) : IsFull(U, i) <=> IsFull(T, i)
      /\ \A i \in OpensAt(T) : \A j : Between(U, i, j) <=> Between(T, i, j)
      /\ \A i, j \in OpensAt(T) : Directly(U, i, j) <=> Directly(T, i, j)
  BY <1>2, <1>4 DEF IsOpen, IsFull, Between, Directly
<1>6. TokensTyped(U)
  <2>1. ASSUME NEW i \in 1 .. n + 1
        PROVE  /\ U[i] = [tokenType |-> U[i].tokenType, sToken |-> U[i].sToken,
                          hasCompounds |-> U[i].hasCompounds,
                          idxComplement |-> U[i].idxComplement]
               /\ U[i].tokenType \in TokenTypes /\ U[i].hasCompounds \in BOOLEAN
               /\ U[i].idxComplement \in 0 .. n + 1
    <3>1. CASE i = n + 1
      BY <1>1, <1>2, <1>3, <3>1
    <3>2. CASE i # n + 1
      <4>1. i \in 1 .. n /\ U[i] = T[i]
        BY <1>1, <1>2, <3>2
      <4>2. \A x \in 0 .. n : x \in 0 .. n + 1
        BY <1>1
      <4> QED BY <4>1, <4>2 DEF Brackets, TokensTyped, n
    <3> QED BY <3>1, <3>2
  <2> QED BY <1>2, <2>1 DEF TokensTyped
<1>7. Paired(U)
  <2>1. ASSUME NEW i \in OpensAt(U), ~IsOpen(U, i)
        PROVE  /\ i < U[i].idxComplement /\ U[U[i].idxComplement].tokenType = "Closer"
               /\ U[U[i].idxComplement].idxComplement = i
    <3>1. i \in OpensAt(T) /\ ~IsOpen(T, i) /\ U[i] = T[i]
      BY <1>2, <1>4, <1>5, <2>1
    <3>2. T[i].idxComplement \in 1 .. n
      <4>1. T[i].idxComplement \in 0 .. n
        BY <1>4, <3>1 DEF Brackets, TokensTyped, n
      <4> QED BY <1>1, <3>1, <4>1 DEF IsOpen
    <3> QED BY <1>2, <3>1, <3>2 DEF Brackets, Paired
  <2>2. ASSUME NEW e \in 1 .. Len(U), U[e].tokenType = "Closer"
        PROVE  /\ U[e].idxComplement \in OpensAt(U)
               /\ U[U[e].idxComplement].idxComplement = e
    <3>1. e \in 1 .. n
      BY <1>1, <1>2, <1>3, <2>2
    <3> QED BY <1>2, <1>4, <2>2, <3>1 DEF Brackets, Paired, n
  <2>3. ASSUME NEW i \in OpensAt(U), NEW j \in OpensAt(U), ~IsOpen(U, i), Between(U, i, j)
        PROVE  ~IsOpen(U, j) /\ U[j].idxComplement < U[i].idxComplement
    BY <1>2, <1>4, <1>5, <2>3 DEF Brackets, Paired
  <2> QED BY <2>1, <2>2, <2>3 DEF Paired
<1>8. Flagged(U)
  BY <1>2, <1>4, <1>5 DEF Brackets, Flagged
<1>9. Separate(U)
  <2>1. ASSUME NEW i \in 1 .. Len(U), U[i].tokenType = "ListSeparator"
        PROVE  \E j \in OpensAt(U) : Between(U, j, i)
    <3>1. CASE i = n + 1
      <4>1. openers # <<>> /\ IsSequence(openers)
        BY <1>2, <2>1, <3>1 DEF Opened
      <4>2. PICK k \in 1 .. Len(openers) : TRUE
        BY <4>1, HasLast
      <4>3. openers[k] \in OpensAt(T) /\ IsOpen(T, openers[k]) /\ openers[k] < n + 1
        BY <1>1, <1>4 DEF Opened
      <4> QED BY <1>4, <1>5, <3>1, <4>3 DEF Between
    <3>2. CASE i # n + 1
      <4>1. i \in 1 .. n /\ U[i] = T[i]
        BY <1>1, <1>2, <3>2
      <4> QED BY <1>4, <1>5, <2>1, <4>1 DEF Brackets, Separate, n
    <3> QED BY <3>1, <3>2
  <2>2. ASSUME NEW i \in 1 .. Len(U) - 1, U[i].tokenType \in Separators
        PROVE  U[i + 1].tokenType # "Closer"
    <3>1. CASE i = n
      BY <1>2, <1>3, <3>1
    <3>2. CASE i # n
      <4>1. i \in 1 .. n - 1 /\ i \in 1 .. n /\ i + 1 \in 1 .. n
        BY <1>1, <1>2, <3>2
      <4> QED BY <1>2, <2>2, <4>1 DEF Brackets, Separate, n
    <3> QED BY <3>1, <3>2
  <2> QED BY <2>1, <2>2 DEF Separate
<1>10. Opened(U, openers)
  BY <1>4, <1>5 DEF Opened
<1> QED BY <1>6, <1>7, <1>8, <1>9, <1>10 DEF Brackets, U

\* The closed ones have their closers among the tokens.
LEMMA ClosedWithin ==
  ASSUME NEW T, Brackets(T), NEW i \in OpensAt(T)
  PROVE  /\ Len(T) \in Nat /\ i \in 1 .. Len(T)
         /\ T[i].idxComplement \in 0 .. Len(T)
         /\ ~IsOpen(T, i) => T[i].idxComplement \in 1 .. Len(T)
<1> DEFINE n == Len(T)
<1>1. n \in Nat /\ i \in 1 .. n
  BY DEF Brackets, TokensTyped, IsSequence, OpensAt
<1>2. T[i].idxComplement \in 0 .. n
  BY <1>1 DEF Brackets, TokensTyped
<1> HIDE DEF n
<1>3. ~IsOpen(T, i) => T[i].idxComplement \in 1 .. n
  BY <1>1, <1>2 DEF IsOpen
<1> QED BY <1>1, <1>2, <1>3 DEF n

\* A compound with nothing in it changes nothing around it.
LEMMA EmptyCompound ==
  ASSUME NEW T, Brackets(T), NEW openers, Opened(T, openers),
         NEW V, IsSequence(V), Len(V) = Len(T) + 2,
         \A i \in 1 .. Len(T) : V[i] = T[i],
         NEW type \in Openers, NEW text, NEW closing,
         V[Len(T) + 1] = [tokenType |-> type, sToken |-> text, hasCompounds |-> FALSE,
                          idxComplement |-> Len(T) + 2],
         V[Len(T) + 2] = [tokenType |-> "Closer", sToken |-> closing, hasCompounds |-> FALSE,
                          idxComplement |-> Len(T) + 1]
  PROVE  Brackets(V) /\ Opened(V, openers) /\ Ended(V)
<1> DEFINE n == Len(T)
<1>1. n \in Nat /\ Len(V) = n + 2
  BY DEF Brackets, TokensTyped, IsSequence
<1>2. /\ \A i \in 1 .. n : V[i] = T[i]
      /\ \A i \in 1 .. n + 2 : i \in 1 .. n \/ i = n + 1 \/ i = n + 2
  BY <1>1
<1>3. /\ V[n + 1].tokenType = type /\ V[n + 1].idxComplement = n + 2
      /\ V[n + 1].hasCompounds = FALSE
      /\ V[n + 2].tokenType = "Closer" /\ V[n + 2].idxComplement = n + 1
      /\ V[n + 2].hasCompounds = FALSE
      /\ type \in TokenTypes /\ "Closer" \in TokenTypes
      /\ "Closer" \notin Openers /\ type # "Closer" /\ "Closer" \notin Separators
      /\ type # "ListSeparator" /\ type \notin Separators
  BY DEF Openers, TokenTypes, Separators
<1>4. OpensAt(T) \subseteq 1 .. n /\ OpensAt(V) = OpensAt(T) \cup {n + 1}
  <2>1. OpensAt(T) \subseteq 1 .. n
    BY DEF OpensAt
  <2>2. n + 1 \in 1 .. n + 2
    BY <1>1
  <2>3. \A i \in 1 .. n : i \in 1 .. n + 2
    BY <1>1
  <2> HIDE DEF n
  <2> QED BY <1>1, <1>2, <1>3, <2>1, <2>2, <2>3 DEF OpensAt, n
<1>5. \A i \in OpensAt(T) : i \in 1 .. n /\ T[i].idxComplement \in 0 .. n /\ V[i] = T[i]
  BY <1>2, <1>4, ClosedWithin
<1>6. /\ \A i \in OpensAt(T) : IsOpen(V, i) <=> IsOpen(T, i)
      /\ \A i \in OpensAt(T) : IsFull(V, i) <=> IsFull(T, i)
      /\ \A i \in OpensAt(T) : \A j : Between(V, i, j) <=> Between(T, i, j)
      /\ ~IsOpen(V, n + 1) /\ ~IsFull(V, n + 1)
      /\ \A j \in 1 .. n + 2 : ~Between(V, n + 1, j)
  <2> HIDE DEF n
  <2> QED BY <1>1, <1>3, <1>5 DEF IsOpen, IsFull, Between
<1>7. \A i \in OpensAt(T) : ~IsOpen(T, i) => ~Between(V, i, n + 1)
  <2> HIDE DEF n
  <2> QED BY <1>1, <1>5, <1>6 DEF Between
<1>8. \A i, j \in OpensAt(T) : Directly(V, i, j) <=> Directly(T, i, j)
  <2>1. \A j \in OpensAt(T) : ~Between(V, n + 1, j)
    <3> HIDE DEF n
    <3> QED BY <1>1, <1>5, <1>6
  <2> HIDE DEF n
  <2> QED BY <1>4, <1>6, <2>1 DEF Directly
<1> HIDE DEF n
<1>9. TokensTyped(V)
  <2>1. ASSUME NEW i \in 1 .. n + 2
        PROVE  /\ V[i] = [tokenType |-> V[i].tokenType, sToken |-> V[i].sToken,
                          hasCompounds |-> V[i].hasCompounds,
                          idxComplement |-> V[i].idxComplement]
               /\ V[i].tokenType \in TokenTypes /\ V[i].hasCompounds \in BOOLEAN
               /\ V[i].idxComplement \in 0 .. n + 2
    <3>1. CASE i = n + 1
      <4>1. V[i] = [tokenType |-> type, sToken |-> text, hasCompounds |-> FALSE,
                    idxComplement |-> n + 2]
        BY <3>1 DEF n
      <4>2. n + 2 \in 0 .. n + 2
        BY <1>1
      <4> QED BY <1>3, <4>1, <4>2
    <3>3. CASE i = n + 2
      <4>1. V[i] = [tokenType |-> "Closer", sToken |-> closing, hasCompounds |-> FALSE,
                    idxComplement |-> n + 1]
        BY <3>3 DEF n
      <4>2. n + 1 \in 0 .. n + 2
        BY <1>1
      <4> QED BY <1>3, <4>1, <4>2
    <3>2. CASE i \in 1 .. n
      <4>1. V[i] = T[i]
        BY <1>2, <3>2
      <4>2. \A x \in 0 .. n : x \in 0 .. n + 2
        BY <1>1
      <4> QED BY <3>2, <4>1, <4>2 DEF Brackets, TokensTyped, n
    <3> QED BY <1>2, <3>1, <3>2, <3>3
  <2> QED BY <1>1, <2>1 DEF TokensTyped
<1>10. Paired(V)
  <2>1. ASSUME NEW i \in OpensAt(V), ~IsOpen(V, i)
        PROVE  /\ i < V[i].idxComplement /\ V[V[i].idxComplement].tokenType = "Closer"
               /\ V[V[i].idxComplement].idxComplement = i
    <3>1. CASE i = n + 1
      BY <1>1, <1>3, <3>1
    <3>2. CASE i \in OpensAt(T)
      <4>1. ~IsOpen(T, i) /\ V[i] = T[i] /\ T[i].idxComplement \in 1 .. n
        BY <1>5, <1>6, <2>1, <3>2, ClosedWithin DEF n
      <4> QED BY <1>2, <3>2, <4>1 DEF Brackets, Paired
    <3> QED BY <1>4, <3>1, <3>2
  <2>2. ASSUME NEW e \in 1 .. Len(V), V[e].tokenType = "Closer"
        PROVE  /\ V[e].idxComplement \in OpensAt(V)
               /\ V[V[e].idxComplement].idxComplement = e
    <3>1. CASE e = n + 2
      BY <1>3, <1>4, <3>1
    <3>2. CASE e \in 1 .. n
      <4>1. /\ T[e].idxComplement \in OpensAt(T)
            /\ T[T[e].idxComplement].idxComplement = e /\ V[e] = T[e]
        BY <1>2, <2>2, <3>2 DEF Brackets, Paired, n
      <4> QED BY <1>4, <1>5, <4>1
    <3>3. e # n + 1
      BY <1>3, <2>2
    <3> QED BY <1>1, <1>2, <3>1, <3>2, <3>3
  <2>3. ASSUME NEW i \in OpensAt(V), NEW j \in OpensAt(V), ~IsOpen(V, i), Between(V, i, j)
        PROVE  ~IsOpen(V, j) /\ V[j].idxComplement < V[i].idxComplement
    <3>1. i \in OpensAt(T)
      <4>1. j \in 1 .. n + 2
        BY <1>1 DEF OpensAt
      <4> QED BY <1>4, <1>6, <2>3, <4>1
    <3>2. j \in OpensAt(T)
      BY <1>4, <1>6, <1>7, <2>3, <3>1
    <3> QED BY <1>5, <1>6, <2>3, <3>1, <3>2 DEF Brackets, Paired
  <2> QED BY <2>1, <2>2, <2>3 DEF Paired
<1>11. Flagged(V)
  <2>1. ASSUME NEW i \in OpensAt(V)
        PROVE  V[i].hasCompounds <=> \E j \in OpensAt(V) : Directly(V, i, j) /\ IsFull(V, j)
    <3>1. CASE i = n + 1
      <4>1. \A j \in OpensAt(V) : ~Between(V, i, j)
        <5>1. \A j \in OpensAt(V) : j \in 1 .. n + 2
          BY <1>1 DEF OpensAt
        <5> QED BY <1>6, <3>1, <5>1
      <4> QED BY <1>3, <3>1, <4>1 DEF Directly
    <3>2. CASE i \in OpensAt(T)
      <4>1. T[i].hasCompounds <=> \E j \in OpensAt(T) : Directly(T, i, j) /\ IsFull(T, j)
        BY <3>2 DEF Brackets, Flagged
      <4> QED BY <1>4, <1>5, <1>6, <1>8, <3>2, <4>1
    <3> QED BY <1>4, <3>1, <3>2
  <2> QED BY <2>1 DEF Flagged
<1>12. Separate(V)
  <2>1. ASSUME NEW i \in 1 .. Len(V), V[i].tokenType = "ListSeparator"
        PROVE  \E j \in OpensAt(V) : Between(V, j, i)
    <3>1. i \in 1 .. n
      BY <1>1, <1>2, <1>3, <2>1
    <3>2. V[i] = T[i]
      BY <1>2, <3>1
    <3> QED BY <1>4, <1>6, <2>1, <3>1, <3>2 DEF Brackets, Separate, n
  <2>2. ASSUME NEW i \in 1 .. Len(V) - 1, V[i].tokenType \in Separators
        PROVE  V[i + 1].tokenType # "Closer"
    <3>1. i # n + 1
      BY <1>3, <2>2
    <3>2. CASE i = n
      BY <1>3, <3>2
    <3>3. CASE i # n
      <4>1. i \in 1 .. n - 1 /\ i \in 1 .. n /\ i + 1 \in 1 .. n
        BY <1>1, <3>1, <3>3
      <4> QED BY <1>2, <2>2, <4>1 DEF Brackets, Separate, n
    <3> QED BY <3>2, <3>3
  <2> QED BY <2>1, <2>2 DEF Separate
<1>13. Opened(V, openers)
  <2>1. \A i \in OpensAt(V) : IsOpen(V, i) => i \in OpensAt(T) /\ IsOpen(T, i)
    BY <1>4, <1>6
  <2> QED BY <1>4, <1>6, <2>1 DEF Opened
<1>14. Ended(V)
  BY <1>1, <1>3 DEF Ended
<1> QED BY <1>9, <1>10, <1>11, <1>12, <1>13, <1>14 DEF Brackets

\* The innermost of what is open.
LEMMA Innermost1 ==
  ASSUME NEW T, Brackets(T), NEW openers, Opened(T, openers), openers # <<>>
  PROVE  /\ Last(openers) \in OpensAt(T) /\ IsOpen(T, Last(openers))
         /\ \A i \in OpensAt(T) : IsOpen(T, i) => i <= Last(openers)
<1> DEFINE m == Len(openers)
<1>1. IsSequence(openers)
  BY DEF Opened
<1>2. m \in Nat /\ m \in 1 .. m
  BY <1>1, HasLast
<1>3. ASSUME NEW i \in OpensAt(T), IsOpen(T, i)
      PROVE  i <= openers[m]
  <2>1. PICK k \in 1 .. m : openers[k] = i
    BY <1>3 DEF Opened
  <2>2. k = m \/ k < m
    BY <1>2
  <2>3. k < m => openers[k] < openers[m]
    BY <1>2 DEF Opened
  <2>4. i \in Int /\ openers[m] \in Int
    <3>1. openers[m] \in OpensAt(T)
      BY <1>2 DEF Opened
    <3> QED BY <3>1, ClosedWithin
  <2> HIDE DEF m
  <2> QED BY <2>1, <2>2, <2>3, <2>4
<1>4. openers[m] \in OpensAt(T) /\ IsOpen(T, openers[m])
  BY <1>2 DEF Opened
<1>5. Last(openers) = openers[m]
  BY DEF Last
<1> HIDE DEF m
<1> QED BY <1>3, <1>4, <1>5

\* A compound that opens with something to come is shown to what is around it.
LEMMA FullCompound ==
  ASSUME NEW T, Brackets(T), NEW openers, Opened(T, openers),
         NEW V, IsSequence(V), Len(V) = Len(T) + 1,
         \A i \in 1 .. Len(T) : openers # <<>> /\ i = Last(openers) =>
           V[i] = [tokenType |-> T[i].tokenType, sToken |-> T[i].sToken,
                   hasCompounds |-> TRUE, idxComplement |-> T[i].idxComplement],
         \A i \in 1 .. Len(T) : ~(openers # <<>> /\ i = Last(openers)) => V[i] = T[i],
         NEW type \in Openers, NEW text,
         V[Len(T) + 1] = [tokenType |-> type, sToken |-> text, hasCompounds |-> FALSE,
                          idxComplement |-> 0]
  PROVE  Brackets(V) /\ Opened(V, Append(openers, Len(T) + 1))
<1> DEFINE n == Len(T)
           isLast(i) == openers # <<>> /\ i = Last(openers)
<1>1. n \in Nat /\ Len(V) = n + 1
  BY DEF Brackets, TokensTyped, IsSequence
<1>2. /\ \A i \in 1 .. n : /\ V[i].tokenType = T[i].tokenType
                           /\ V[i].idxComplement = T[i].idxComplement
                           /\ V[i].hasCompounds = IF isLast(i) THEN TRUE ELSE T[i].hasCompounds
                           /\ V[i].sToken = T[i].sToken
      /\ \A i \in 1 .. n + 1 : i \in 1 .. n \/ i = n + 1
  <2>1. ASSUME NEW i \in 1 .. n
        PROVE  /\ V[i].tokenType = T[i].tokenType
               /\ V[i].idxComplement = T[i].idxComplement
               /\ V[i].hasCompounds = IF isLast(i) THEN TRUE ELSE T[i].hasCompounds
               /\ V[i].sToken = T[i].sToken
    <3>1. CASE isLast(i)
      <4>1. V[i] = [tokenType |-> T[i].tokenType, sToken |-> T[i].sToken,
                    hasCompounds |-> TRUE, idxComplement |-> T[i].idxComplement]
        BY <3>1
      <4> HIDE DEF isLast
      <4> QED BY <3>1, <4>1
    <3>2. CASE ~isLast(i)
      <4>1. V[i] = T[i]
        BY <3>2
      <4> HIDE DEF isLast
      <4> QED BY <3>2, <4>1
    <3> QED BY <3>1, <3>2
  <2> HIDE DEF isLast, n
  <2>2. \A i \in 1 .. n + 1 : i \in 1 .. n \/ i = n + 1
    BY <1>1
  <2> QED BY <2>1, <2>2
<1>3. /\ V[n + 1].tokenType = type /\ V[n + 1].idxComplement = 0
      /\ V[n + 1].hasCompounds = FALSE
      /\ type \in TokenTypes /\ type # "Closer" /\ type # "ListSeparator"
      /\ type \notin Separators
  BY DEF Openers, TokenTypes, Separators
<1>4. /\ OpensAt(T) \subseteq 1 .. n /\ OpensAt(V) = OpensAt(T) \cup {n + 1}
      /\ n + 1 \notin OpensAt(T)
  <2>1. OpensAt(T) \subseteq 1 .. n
    BY DEF OpensAt
  <2>2. n + 1 \in 1 .. n + 1
    BY <1>1
  <2>3. \A i \in 1 .. n : i \in 1 .. n + 1 /\ i # n + 1
    BY <1>1
  <2> HIDE DEF n, isLast
  <2> QED BY <1>1, <1>2, <1>3, <2>1, <2>2, <2>3 DEF OpensAt, n
<1>5. \A i \in OpensAt(T) : /\ i \in 1 .. n /\ T[i].idxComplement \in 0 .. n
                            /\ V[i].idxComplement = T[i].idxComplement
  BY <1>2, <1>4, ClosedWithin
<1> HIDE DEF isLast
<1>6. /\ \A i \in OpensAt(T) : IsOpen(V, i) <=> IsOpen(T, i)
      /\ \A i \in OpensAt(T) : IsFull(V, i) <=> IsFull(T, i)
      /\ \A i \in OpensAt(T) : \A j : Between(V, i, j) <=> Between(T, i, j)
      /\ IsOpen(V, n + 1) /\ IsFull(V, n + 1)
      /\ \A j \in 1 .. n + 1 : ~Between(V, n + 1, j)
  <2> HIDE DEF n
  <2> QED BY <1>1, <1>3, <1>5 DEF IsOpen, IsFull, Between
<1>7. \A i \in OpensAt(T) : Between(V, i, n + 1) <=> IsOpen(T, i)
  <2> HIDE DEF n
  <2> QED BY <1>1, <1>5, <1>6 DEF Between, IsOpen
<1>8. \A i, j \in OpensAt(T) : Directly(V, i, j) <=> Directly(T, i, j)
  <2>1. \A j \in OpensAt(T) : ~Between(V, n + 1, j)
    <3> HIDE DEF n
    <3> QED BY <1>1, <1>5, <1>6
  <2> HIDE DEF n
  <2> QED BY <1>4, <1>6, <2>1 DEF Directly
<1>9. ASSUME NEW i \in OpensAt(T)
      PROVE  Directly(V, i, n + 1) <=> isLast(i)
  <2>1. CASE isLast(i)
    <3>1. IsOpen(T, i) /\ \A k \in OpensAt(T) : IsOpen(T, k) => k <= i
      BY <2>1, Innermost1 DEF isLast
    <3>2. ~\E k \in OpensAt(V) : Between(V, i, k) /\ Between(V, k, n + 1)
      <4> SUFFICES ASSUME NEW k \in OpensAt(V), Between(V, i, k), Between(V, k, n + 1)
                   PROVE  FALSE
        OBVIOUS
      <4>1. k \in OpensAt(T)
        <5>1. n + 1 \in 1 .. n + 1
          BY <1>1
        <5> QED BY <1>4, <1>6, <5>1
      <4>2. IsOpen(T, k) /\ k <= i /\ i < k
        BY <1>7, <3>1, <4>1 DEF Between
      <4> QED BY <1>4, <4>1, <4>2
    <3> QED BY <1>7, <2>1, <3>1, <3>2 DEF Directly
  <2>2. CASE ~isLast(i) /\ IsOpen(T, i)
    <3>1. openers # <<>>
      <4>1. PICK k \in 1 .. Len(openers) : openers[k] = i
        BY <2>2 DEF Opened
      <4>2. openers # <<>> \/ Len(openers) = 0
        OBVIOUS
      <4> QED BY <4>1, <4>2
    <3> DEFINE q == Last(openers)
    <3>2. q \in OpensAt(T) /\ IsOpen(T, q) /\ i <= q /\ i # q
      BY <2>2, <3>1, Innermost1 DEF isLast
    <3> HIDE DEF q
    <3>3. Between(V, i, q) /\ Between(V, q, n + 1)
      <4>1. i < q
        BY <1>4, <3>2
      <4> QED BY <1>6, <1>7, <2>2, <3>2, <4>1 DEF Between
    <3> QED BY <1>4, <2>2, <3>2, <3>3 DEF Directly
  <2>3. CASE ~isLast(i) /\ ~IsOpen(T, i)
    BY <1>7, <2>3 DEF Directly
  <2> QED BY <2>1, <2>2, <2>3
<1> HIDE DEF n
<1>10. TokensTyped(V)
  <2>1. ASSUME NEW i \in 1 .. n + 1
        PROVE  /\ V[i] = [tokenType |-> V[i].tokenType, sToken |-> V[i].sToken,
                          hasCompounds |-> V[i].hasCompounds,
                          idxComplement |-> V[i].idxComplement]
               /\ V[i].tokenType \in TokenTypes /\ V[i].hasCompounds \in BOOLEAN
               /\ V[i].idxComplement \in 0 .. n + 1
    <3>1. CASE i = n + 1
      <4>1. V[i] = [tokenType |-> type, sToken |-> text, hasCompounds |-> FALSE,
                    idxComplement |-> 0]
        BY <3>1 DEF n
      <4>2. 0 \in 0 .. n + 1
        BY <1>1
      <4> QED BY <1>3, <4>1, <4>2
    <3>2. CASE i \in 1 .. n /\ isLast(i)
      <4>1. V[i] = [tokenType |-> T[i].tokenType, sToken |-> T[i].sToken,
                    hasCompounds |-> TRUE, idxComplement |-> T[i].idxComplement]
        BY <3>2 DEF isLast, n
      <4>2. T[i].tokenType \in TokenTypes /\ T[i].idxComplement \in 0 .. n
        BY <3>2 DEF Brackets, TokensTyped, n
      <4>3. \A x \in 0 .. n : x \in 0 .. n + 1
        BY <1>1
      <4> QED BY <4>1, <4>2, <4>3
    <3>3. CASE i \in 1 .. n /\ ~isLast(i)
      <4>1. V[i] = T[i]
        BY <3>3 DEF isLast, n
      <4>2. \A x \in 0 .. n : x \in 0 .. n + 1
        BY <1>1
      <4> QED BY <3>3, <4>1, <4>2 DEF Brackets, TokensTyped, n
    <3> QED BY <1>2, <3>1, <3>2, <3>3
  <2> QED BY <1>1, <2>1 DEF TokensTyped
<1>11. Paired(V)
  <2>1. ASSUME NEW i \in OpensAt(V), ~IsOpen(V, i)
        PROVE  /\ i < V[i].idxComplement /\ V[V[i].idxComplement].tokenType = "Closer"
               /\ V[V[i].idxComplement].idxComplement = i
    <3>1. i \in OpensAt(T)
      BY <1>4, <1>6, <2>1
    <3> DEFINE e == T[i].idxComplement
    <3>2. ~IsOpen(T, i) /\ e \in 1 .. n
      BY <1>6, <2>1, <3>1, ClosedWithin DEF n
    <3>3. i < e /\ T[e].tokenType = "Closer" /\ T[e].idxComplement = i
      BY <3>1, <3>2 DEF Brackets, Paired
    <3>4. V[e].tokenType = T[e].tokenType /\ V[e].idxComplement = T[e].idxComplement
      BY <1>2, <3>2
    <3>5. V[i].idxComplement = e
      BY <1>5, <3>1
    <3> HIDE DEF e
    <3> QED BY <3>3, <3>4, <3>5
  <2>2. ASSUME NEW e \in 1 .. Len(V), V[e].tokenType = "Closer"
        PROVE  /\ V[e].idxComplement \in OpensAt(V)
               /\ V[V[e].idxComplement].idxComplement = e
    <3>1. e \in 1 .. n
      BY <1>1, <1>2, <1>3, <2>2
    <3>2. /\ T[e].idxComplement \in OpensAt(T)
          /\ T[T[e].idxComplement].idxComplement = e
      BY <1>2, <2>2, <3>1 DEF Brackets, Paired, n
    <3> QED BY <1>2, <1>4, <1>5, <3>1, <3>2
  <2>3. ASSUME NEW i \in OpensAt(V), NEW j \in OpensAt(V), ~IsOpen(V, i), Between(V, i, j)
        PROVE  ~IsOpen(V, j) /\ V[j].idxComplement < V[i].idxComplement
    <3>1. i \in OpensAt(T)
      BY <1>4, <1>6, <2>3
    <3>2. j \in OpensAt(T)
      BY <1>4, <1>6, <1>7, <2>3, <3>1
    <3> QED BY <1>5, <1>6, <2>3, <3>1, <3>2 DEF Brackets, Paired
  <2> QED BY <2>1, <2>2, <2>3 DEF Paired
<1>12. Flagged(V)
  <2>1. ASSUME NEW i \in OpensAt(V)
        PROVE  V[i].hasCompounds <=> \E j \in OpensAt(V) : Directly(V, i, j) /\ IsFull(V, j)
    <3>1. CASE i = n + 1
      <4>1. \A j \in OpensAt(V) : ~Between(V, i, j)
        <5>1. \A j \in OpensAt(V) : j \in 1 .. n + 1
          BY <1>1 DEF OpensAt
        <5> QED BY <1>6, <3>1, <5>1
      <4> QED BY <1>3, <3>1, <4>1 DEF Directly
    <3>2. CASE i \in OpensAt(T) /\ isLast(i)
      <4>1. V[i].hasCompounds = TRUE
        BY <1>2, <1>4, <3>2
      <4> QED BY <1>4, <1>6, <1>9, <3>2, <4>1
    <3>3. CASE i \in OpensAt(T) /\ ~isLast(i)
      <4>1. T[i].hasCompounds <=> \E j \in OpensAt(T) : Directly(T, i, j) /\ IsFull(T, j)
        BY <3>3 DEF Brackets, Flagged
      <4>2. V[i].hasCompounds = T[i].hasCompounds
        BY <1>2, <1>4, <3>3
      <4> QED BY <1>4, <1>6, <1>8, <1>9, <3>3, <4>1, <4>2
    <3> QED BY <1>4, <3>1, <3>2, <3>3
  <2> QED BY <2>1 DEF Flagged
<1>13. Separate(V)
  <2>1. ASSUME NEW i \in 1 .. Len(V), V[i].tokenType = "ListSeparator"
        PROVE  \E j \in OpensAt(V) : Between(V, j, i)
    <3>1. i \in 1 .. n
      BY <1>1, <1>2, <1>3, <2>1
    <3>2. V[i].tokenType = T[i].tokenType
      BY <1>2, <3>1
    <3> QED BY <1>4, <1>6, <2>1, <3>1, <3>2 DEF Brackets, Separate, n
  <2>2. ASSUME NEW i \in 1 .. Len(V) - 1, V[i].tokenType \in Separators
        PROVE  V[i + 1].tokenType # "Closer"
    <3>2. CASE i = n
      BY <1>3, <3>2
    <3>3. CASE i # n
      <4>1. i \in 1 .. n - 1 /\ i \in 1 .. n /\ i + 1 \in 1 .. n
        BY <1>1, <3>3
      <4> QED BY <1>2, <2>2, <4>1 DEF Brackets, Separate, n
    <3> QED BY <3>2, <3>3
  <2> QED BY <2>1, <2>2 DEF Separate
<1>14. Opened(V, Append(openers, n + 1))
  <2> DEFINE o == Append(openers, n + 1)
             m == Len(openers)
  <2>1. IsSequence(openers) /\ m \in Nat
    BY DEF Opened, IsSequence
  <2>2. /\ IsSequence(o) /\ Len(o) = m + 1
        /\ \A k \in 1 .. m : o[k] = openers[k]
        /\ o[m + 1] = n + 1
    BY <2>1, OneMore
  <2> HIDE DEF o
  <2>3. /\ \A k \in 1 .. m : openers[k] \in OpensAt(T) /\ IsOpen(T, openers[k])
        /\ \A k, l \in 1 .. m : k < l => openers[k] < openers[l]
        /\ \A i \in OpensAt(T) : IsOpen(T, i) => \E k \in 1 .. m : openers[k] = i
    BY DEF Opened
  <2> HIDE DEF m
  <2>4. \A k \in 1 .. m + 1 : k \in 1 .. m \/ k = m + 1
    BY <2>1
  <2>5. ASSUME NEW k \in 1 .. m + 1
        PROVE  o[k] \in OpensAt(V) /\ IsOpen(V, o[k])
    BY <1>4, <1>6, <2>2, <2>3, <2>4
  <2>6. ASSUME NEW k \in 1 .. m + 1, NEW l \in 1 .. m + 1, k < l
        PROVE  o[k] < o[l]
    <3>1. k \in 1 .. m
      BY <2>1, <2>6
    <3>2. CASE l = m + 1
      <4>1. openers[k] \in 1 .. n
        BY <1>4, <2>3, <3>1
      <4> QED BY <1>1, <2>2, <3>1, <3>2, <4>1
    <3>3. CASE l # m + 1
      BY <2>2, <2>3, <2>4, <2>6, <3>1, <3>3
    <3> QED BY <3>2, <3>3
  <2>7. ASSUME NEW i \in OpensAt(V), IsOpen(V, i)
        PROVE  \E k \in 1 .. m + 1 : o[k] = i
    <3>1. CASE i = n + 1
      <4>1. m + 1 \in 1 .. m + 1
        BY <2>1
      <4> QED BY <2>2, <3>1, <4>1
    <3>2. CASE i \in OpensAt(T)
      <4>1. PICK k \in 1 .. m : openers[k] = i
        BY <1>6, <2>3, <2>7, <3>2
      <4>2. k \in 1 .. m + 1
        BY <2>1
      <4> QED BY <2>2, <4>1, <4>2
    <3> QED BY <1>4, <3>1, <3>2
  <2>8. Opened(V, o)
    BY <2>2, <2>5, <2>6, <2>7 DEF Opened
  <2> QED BY <2>8 DEF o
<1> QED BY <1>10, <1>11, <1>12, <1>13, <1>14 DEF Brackets, n

\* The innermost compound is closed.
LEMMA ClosedCompound ==
  ASSUME NEW T, Brackets(T), Ended(T), NEW openers, Opened(T, openers), openers # <<>>,
         Last(openers) < Len(T),
         NEW V, IsSequence(V), Len(V) = Len(T) + 1,
         \A i \in 1 .. Len(T) : i # Last(openers) => V[i] = T[i],
         V[Last(openers)] = [tokenType |-> T[Last(openers)].tokenType,
                             sToken |-> T[Last(openers)].sToken,
                             hasCompounds |-> T[Last(openers)].hasCompounds,
                             idxComplement |-> Len(T) + 1],
         NEW closing,
         V[Len(T) + 1] = [tokenType |-> "Closer", sToken |-> closing, hasCompounds |-> FALSE,
                          idxComplement |-> Last(openers)]
  PROVE  Brackets(V) /\ Opened(V, Front(openers)) /\ Ended(V)
<1> DEFINE n == Len(T)
           q == Last(openers)
<1>1. n \in Nat /\ Len(V) = n + 1
  BY DEF Brackets, TokensTyped, IsSequence
<1>2. /\ q \in OpensAt(T) /\ IsOpen(T, q) /\ q \in 1 .. n /\ q < n
      /\ \A i \in OpensAt(T) : IsOpen(T, i) => i <= q
  BY Innermost1 DEF OpensAt
<1>3. /\ V[q].tokenType = T[q].tokenType /\ V[q].hasCompounds = T[q].hasCompounds
      /\ V[q].idxComplement = n + 1
      /\ V[n + 1].tokenType = "Closer" /\ V[n + 1].idxComplement = q
      /\ V[n + 1].hasCompounds = FALSE
      /\ "Closer" \in TokenTypes /\ "Closer" \notin Openers /\ "Closer" \notin Separators
  BY DEF Openers, TokenTypes, Separators
<1>4. /\ \A i \in 1 .. n : i # q => V[i] = T[i]
      /\ \A i \in 1 .. n : V[i].tokenType = T[i].tokenType
      /\ \A i \in 1 .. n : V[i].hasCompounds = T[i].hasCompounds
      /\ \A i \in 1 .. n + 1 : i \in 1 .. n \/ i = n + 1
  <2>1. \A i \in 1 .. n : i # q => V[i] = T[i]
    OBVIOUS
  <2> HIDE DEF n, q
  <2> QED BY <1>1, <1>3, <2>1
<1>5. OpensAt(T) \subseteq 1 .. n /\ OpensAt(V) = OpensAt(T)
  <2>1. OpensAt(T) \subseteq 1 .. n
    BY DEF OpensAt
  <2>2. \A i \in 1 .. n : i \in 1 .. n + 1
    BY <1>1
  <2> HIDE DEF n, q
  <2> QED BY <1>1, <1>3, <1>4, <2>1, <2>2 DEF OpensAt, n
<1>6. \A i \in OpensAt(T) : i \in 1 .. n /\ T[i].idxComplement \in 0 .. n
  BY ClosedWithin
<1>7. T[n].tokenType \notin Separators
  BY DEF Ended
<1>8. IsSequence(openers)
  BY DEF Opened
<1> HIDE DEF n, q
<1>9. /\ \A i \in OpensAt(T) : IsOpen(V, i) <=> IsOpen(T, i) /\ i # q
      /\ \A i \in OpensAt(T) : IsFull(V, i) <=> IsFull(T, i)
      /\ \A i \in OpensAt(T) : \A j \in 1 .. n : Between(V, i, j) <=> Between(T, i, j)
  <2>1. ASSUME NEW i \in OpensAt(T), i # q
        PROVE  /\ IsOpen(V, i) <=> IsOpen(T, i)
               /\ IsFull(V, i) <=> IsFull(T, i)
               /\ \A j \in 1 .. n : Between(V, i, j) <=> Between(T, i, j)
    BY <1>4, <1>6, <2>1 DEF IsOpen, IsFull, Between
  <2>2. ~IsOpen(V, q) /\ IsFull(V, q) /\ IsFull(T, q)
    BY <1>1, <1>2, <1>3 DEF IsOpen, IsFull
  <2>3. \A j \in 1 .. n : Between(V, q, j) <=> Between(T, q, j)
    <3>1. \A j \in 1 .. n : j < n + 1
      BY <1>1
    <3> QED BY <1>2, <1>3, <3>1 DEF Between
  <2> QED BY <1>2, <2>1, <2>2, <2>3
<1>10. \A i, j \in OpensAt(T) : Directly(V, i, j) <=> Directly(T, i, j)
  BY <1>5, <1>9 DEF Directly
<1>11. TokensTyped(V)
  <2>1. ASSUME NEW i \in 1 .. n + 1
        PROVE  /\ V[i] = [tokenType |-> V[i].tokenType, sToken |-> V[i].sToken,
                          hasCompounds |-> V[i].hasCompounds,
                          idxComplement |-> V[i].idxComplement]
               /\ V[i].tokenType \in TokenTypes /\ V[i].hasCompounds \in BOOLEAN
               /\ V[i].idxComplement \in 0 .. n + 1
    <3>1. CASE i = n + 1
      <4>1. q \in 0 .. n + 1
        BY <1>1, <1>2
      <4> QED BY <1>3, <3>1, <4>1 DEF n
    <3>2. CASE i = q
      <4>1. n + 1 \in 0 .. n + 1
        BY <1>1
      <4>2. T[q].tokenType \in TokenTypes /\ T[q].hasCompounds \in BOOLEAN
        BY <1>2 DEF Brackets, TokensTyped, n
      <4> QED BY <1>3, <3>2, <4>1, <4>2 DEF q
    <3>3. CASE i \in 1 .. n /\ i # q
      <4>1. V[i] = T[i]
        BY <1>4, <3>3
      <4>2. \A x \in 0 .. n : x \in 0 .. n + 1
        BY <1>1
      <4> QED BY <3>3, <4>1, <4>2 DEF Brackets, TokensTyped, n
    <3> QED BY <1>4, <3>1, <3>2, <3>3
  <2> QED BY <1>1, <2>1 DEF TokensTyped
<1>12. Paired(V)
  <2>1. ASSUME NEW i \in OpensAt(V), ~IsOpen(V, i)
        PROVE  /\ i < V[i].idxComplement /\ V[V[i].idxComplement].tokenType = "Closer"
               /\ V[V[i].idxComplement].idxComplement = i
    <3>1. CASE i = q
      BY <1>1, <1>2, <1>3, <3>1
    <3>2. CASE i # q
      <4>1. i \in OpensAt(T) /\ ~IsOpen(T, i) /\ V[i] = T[i]
        BY <1>4, <1>5, <1>9, <2>1, <3>2
      <4> DEFINE e == T[i].idxComplement
      <4>2. /\ e \in 1 .. n /\ i < e /\ T[e].tokenType = "Closer" /\ T[e].idxComplement = i
        BY <4>1, ClosedWithin DEF Brackets, Paired, n
      <4>3. e # q
        BY <1>2, <1>3, <4>2 DEF OpensAt
      <4>4. V[e] = T[e]
        BY <1>4, <4>2, <4>3
      <4> QED BY <4>1, <4>2, <4>4
    <3> QED BY <3>1, <3>2
  <2>2. ASSUME NEW e \in 1 .. Len(V), V[e].tokenType = "Closer"
        PROVE  /\ V[e].idxComplement \in OpensAt(V)
               /\ V[V[e].idxComplement].idxComplement = e
    <3>1. CASE e = n + 1
      BY <1>2, <1>3, <1>5, <3>1
    <3>2. CASE e \in 1 .. n
      <4> DEFINE i == T[e].idxComplement
      <4>1. e # q
        BY <1>2, <1>3, <2>2 DEF OpensAt
      <4>2. V[e] = T[e]
        BY <1>4, <3>2, <4>1
      <4>3. i \in OpensAt(T) /\ T[i].idxComplement = e
        BY <2>2, <3>2, <4>2 DEF Brackets, Paired, n
      <4>4. i # q
        BY <1>2, <3>2, <4>3 DEF IsOpen
      <4>5. V[i] = T[i]
        BY <1>4, <1>5, <4>3, <4>4
      <4> QED BY <1>5, <4>2, <4>3, <4>5
    <3> QED BY <1>1, <1>4, <3>1, <3>2
  <2>3. ASSUME NEW i \in OpensAt(V), NEW j \in OpensAt(V), ~IsOpen(V, i), Between(V, i, j)
        PROVE  ~IsOpen(V, j) /\ V[j].idxComplement < V[i].idxComplement
    <3>1. i \in OpensAt(T) /\ j \in OpensAt(T) /\ j \in 1 .. n /\ Between(T, i, j)
      BY <1>5, <1>9, <2>3
    <3>2. CASE i = q
      <4>1. j # q /\ ~IsOpen(T, j)
        <5>1. q < j
          BY <3>1, <3>2 DEF Between
        <5> QED BY <1>2, <3>1, <5>1
      <4>2. V[j] = T[j] /\ T[j].idxComplement \in 0 .. n
        BY <1>4, <1>6, <3>1, <4>1
      <4> QED BY <1>1, <1>3, <1>9, <3>1, <3>2, <4>1, <4>2
    <3>3. CASE i # q
      <4>1. ~IsOpen(T, i)
        BY <1>9, <2>3, <3>1, <3>3
      <4>2. ~IsOpen(T, j) /\ T[j].idxComplement < T[i].idxComplement
        BY <3>1, <4>1 DEF Brackets, Paired
      <4>3. j # q
        BY <1>2, <4>2
      <4> QED BY <1>4, <1>9, <3>1, <3>3, <4>2, <4>3, <1>5
    <3> QED BY <3>2, <3>3
  <2> QED BY <2>1, <2>2, <2>3 DEF Paired
<1>13. Flagged(V)
  <2>1. ASSUME NEW i \in OpensAt(V)
        PROVE  V[i].hasCompounds <=> \E j \in OpensAt(V) : Directly(V, i, j) /\ IsFull(V, j)
    <3>1. T[i].hasCompounds <=> \E j \in OpensAt(T) : Directly(T, i, j) /\ IsFull(T, j)
      BY <1>5 DEF Brackets, Flagged
    <3>2. V[i].hasCompounds = T[i].hasCompounds
      BY <1>4, <1>5
    <3> QED BY <1>5, <1>9, <1>10, <3>1, <3>2
  <2> QED BY <2>1 DEF Flagged
<1>14. Separate(V)
  <2>1. ASSUME NEW i \in 1 .. Len(V), V[i].tokenType = "ListSeparator"
        PROVE  \E j \in OpensAt(V) : Between(V, j, i)
    <3>1. i \in 1 .. n
      <4>1. "ListSeparator" # "Closer"
        OBVIOUS
      <4> QED BY <1>1, <1>3, <1>4, <2>1, <4>1
    <3>2. V[i].tokenType = T[i].tokenType
      BY <1>4, <3>1
    <3> QED BY <1>5, <1>9, <2>1, <3>1, <3>2 DEF Brackets, Separate, n
  <2>2. ASSUME NEW i \in 1 .. Len(V) - 1, V[i].tokenType \in Separators
        PROVE  V[i + 1].tokenType # "Closer"
    <3>1. V[i].tokenType = T[i].tokenType /\ i \in 1 .. n
      BY <1>1, <1>4
    <3>2. i # n
      BY <1>7, <2>2, <3>1
    <3>3. i \in 1 .. n - 1 /\ i + 1 \in 1 .. n
      BY <1>1, <3>1, <3>2
    <3>4. V[i + 1].tokenType = T[i + 1].tokenType
      BY <1>4, <3>3
    <3> QED BY <2>2, <3>1, <3>3, <3>4 DEF Brackets, Separate, n
  <2> QED BY <2>1, <2>2 DEF Separate
<1>15. Opened(V, Front(openers))
  <2> DEFINE o == Front(openers)
             m == Len(openers)
  <2>1. m \in Nat /\ m \in 1 .. m
    BY <1>8, HasLast
  <2>2. /\ IsSequence(o) /\ Len(o) = IF m = 0 THEN 0 ELSE m - 1
        /\ \A k \in 1 .. m - 1 : o[k] = openers[k]
    BY <1>8, AllButLast
  <2>3. openers[m] = q
    BY DEF q, Last
  <2>4. /\ \A k \in 1 .. m : openers[k] \in OpensAt(T) /\ IsOpen(T, openers[k])
        /\ \A k, l \in 1 .. m : k < l => openers[k] < openers[l]
        /\ \A i \in OpensAt(T) : IsOpen(T, i) => \E k \in 1 .. m : openers[k] = i
    BY DEF Opened
  <2> HIDE DEF o, m
  <2>5. Len(o) = m - 1 /\ \A k \in 1 .. m - 1 : k \in 1 .. m /\ k < m
    BY <2>1, <2>2
  <2>6. ASSUME NEW k \in 1 .. m - 1
        PROVE  o[k] \in OpensAt(V) /\ IsOpen(V, o[k])
    <3>1. openers[k] \in OpensAt(T) /\ IsOpen(T, openers[k]) /\ openers[k] < q
      BY <2>1, <2>3, <2>4, <2>5
    <3>2. openers[k] # q
      BY <1>6, <3>1
    <3> QED BY <1>5, <1>9, <2>2, <3>1, <3>2
  <2>7. ASSUME NEW k \in 1 .. m - 1, NEW l \in 1 .. m - 1, k < l
        PROVE  o[k] < o[l]
    BY <2>2, <2>4, <2>5, <2>7
  <2>8. ASSUME NEW i \in OpensAt(V), IsOpen(V, i)
        PROVE  \E k \in 1 .. m - 1 : o[k] = i
    <3>1. i \in OpensAt(T) /\ IsOpen(T, i) /\ i # q
      BY <1>5, <1>9, <2>8
    <3>2. PICK k \in 1 .. m : openers[k] = i
      BY <2>4, <3>1
    <3>3. k \in 1 .. m - 1
      BY <2>1, <2>3, <3>1, <3>2
    <3> QED BY <2>2, <3>2, <3>3
  <2>9. Opened(V, o)
    BY <2>2, <2>5, <2>6, <2>7, <2>8 DEF Opened
  <2> QED BY <2>9 DEF o
<1>16. Ended(V)
  BY <1>1, <1>3 DEF Ended
<1> QED BY <1>11, <1>12, <1>13, <1>14, <1>15, <1>16 DEF Brackets

-----------------------------------------------------------------------------
(* Data trees: texts                                                       *)

\* A sequence whose elements are in a set is one of that set.
LEMMA InSeq ==
  ASSUME NEW s, IsSequence(s), NEW S, \A i \in 1 .. Len(s) : s[i] \in S
  PROVE  s \in Seq(S)
<1>1. Len(s) \in Nat /\ s = [i \in 1 .. Len(s) |-> s[i]]
  BY DEF IsSequence
<1>2. [i \in 1 .. Len(s) |-> s[i]] \in Seq(S)
  BY <1>1, IsASeq
<1> QED BY <1>1, <1>2

\* What is in either of three sequences.
Elements(s) == {s[i] : i \in 1 .. Len(s)}

\* Three sequences are sequences of one set.
LEMMA Together ==
  ASSUME NEW s, IsSequence(s), NEW t, IsSequence(t), NEW u, IsSequence(u)
  PROVE  \E S : s \in Seq(S) /\ t \in Seq(S) /\ u \in Seq(S)
<1> DEFINE S == Elements(s) \cup Elements(t) \cup Elements(u)
<1>1. /\ \A i \in 1 .. Len(s) : s[i] \in S
      /\ \A i \in 1 .. Len(t) : t[i] \in S
      /\ \A i \in 1 .. Len(u) : u[i] \in S
  BY DEF Elements
<1> HIDE DEF S
<1> QED BY <1>1, InSeq

\* Sequences joined are a sequence, in any grouping.
LEMMA Joined ==
  ASSUME NEW s, IsSequence(s), NEW t, IsSequence(t)
  PROVE  /\ IsSequence(s \o t) /\ Len(s \o t) = Len(s) + Len(t)
         /\ \A i \in 1 .. Len(s) : (s \o t)[i] = s[i]
         /\ \A i \in 1 .. Len(t) : (s \o t)[Len(s) + i] = t[i]
<1>1. PICK S : s \in Seq(S) /\ t \in Seq(S)
  BY Together
<1> DEFINE w == s \o t
           a == Len(s)
           b == Len(t)
<1>2. /\ w \in Seq(S) /\ Len(w) = a + b /\ a \in Nat /\ b \in Nat
      /\ \A i \in 1 .. a + b : w[i] = IF i <= a THEN s[i] ELSE t[i - a]
  BY <1>1, ConcatProperties
<1> HIDE DEF w, a, b
<1>3. IsSequence(w)
  BY <1>2, SequenceOf
<1>4. \A i \in 1 .. a : w[i] = s[i]
  BY <1>2
<1>5. ASSUME NEW i \in 1 .. b PROVE w[a + i] = t[i]
  <2>1. a + i \in 1 .. a + b /\ ~(a + i <= a) /\ (a + i) - a = i
    BY <1>2
  <2> QED BY <1>2, <2>1
<1> QED BY <1>2, <1>3, <1>4, <1>5 DEF w, a, b

\* It does not matter which of two joints is made first.
LEMMA JoinedTwice ==
  ASSUME NEW s, IsSequence(s), NEW t, IsSequence(t), NEW u, IsSequence(u)
  PROVE  (s \o t) \o u = s \o (t \o u)
<1>1. PICK S : s \in Seq(S) /\ t \in Seq(S) /\ u \in Seq(S)
  BY Together
<1> QED BY <1>1, ConcatAssociative

\* Joining, where only its laws matter.
Joining(s, t) == s \o t

\* What is joined is a sequence ...
LEMMA JoinIs ==
  ASSUME NEW s, IsSequence(s), NEW t, IsSequence(t)
  PROVE  IsSequence(Joining(s, t))
  BY Joined DEF Joining

\* ... whichever two are joined first.
LEMMA JoinTwice ==
  ASSUME NEW s, IsSequence(s), NEW t, IsSequence(t), NEW u, IsSequence(u)
  PROVE  Joining(Joining(s, t), u) = Joining(s, Joining(t, u))
<1>1. (s \o t) \o u = s \o (t \o u)
  BY JoinedTwice
<1> QED BY <1>1 DEF Joining

\* A sequence of one or of nothing.
LEMMA OneIs ==
  ASSUME NEW e
  PROVE  IsSequence(<<e>>) /\ Len(<<e>>) = 1 /\ <<e>>[1] = e
<1>1. <<e>> \in Seq({e}) /\ Len(<<e>>) = 1 /\ <<e>>[1] = e
  OBVIOUS
<1> QED BY <1>1, SequenceOf

\* The empty sequence is one ...
LEMMA NoneIs ==
  IsSequence(<<>>) /\ Len(<<>>) = 0
<1>1. <<>> \in Seq({})
  OBVIOUS
<1> QED BY <1>1, SequenceOf

\* ... and adds nothing.
LEMMA JoinedNone ==
  ASSUME NEW s, IsSequence(s)
  PROVE  s \o <<>> = s /\ <<>> \o s = s
<1>1. PICK S : s \in Seq(S)
  BY Together
<1> QED BY <1>1, ConcatEmptySeq

\* Appending is joining with a sequence of one.
LEMMA JoinedOne ==
  ASSUME NEW s, IsSequence(s), NEW e
  PROVE  Append(s, e) = s \o <<e>>
<1>1. PICK S : s \in Seq(S) /\ <<e>> \in Seq(S)
  BY OneIs, Together
<1>2. e \in S
  <2>1. <<e>>[1] \in S
    BY <1>1, OneIs, ElementOfSeq
  <2> QED BY <2>1
<1> QED BY <1>1, <1>2, AppendIsConcat

\* Sequences with the same elements are the same.
LEMMA SameSequence ==
  ASSUME NEW s, IsSequence(s), NEW t, IsSequence(t), Len(s) = Len(t),
         \A i \in 1 .. Len(s) : s[i] = t[i]
  PROVE  s = t
<1>1. s = [i \in 1 .. Len(s) |-> s[i]] /\ t = [i \in 1 .. Len(t) |-> t[i]]
  BY DEF IsSequence
<1>2. [i \in 1 .. Len(s) |-> s[i]] = [i \in 1 .. Len(s) |-> t[i]]
  OBVIOUS
<1> QED BY <1>1, <1>2

\* Two sequences of one are a sequence of two.
LEMMA TwoIs ==
  ASSUME NEW a, NEW b
  PROVE  <<a>> \o <<b>> = <<a, b>>
<1> DEFINE s == <<a>>
           t == <<b>>
           u == s \o t
           v == <<a, b>>
<1>1. IsSequence(s) /\ Len(s) = 1 /\ s[1] = a /\ IsSequence(t) /\ Len(t) = 1 /\ t[1] = b
  BY OneIs
<1>2. Len(v) = 2 /\ v[1] = a /\ v[2] = b
  OBVIOUS
<1>3. IsSequence(v)
  <2>1. v = [i \in 1 .. 2 |-> v[i]]
    OBVIOUS
  <2> HIDE DEF v
  <2> QED BY <1>2, <2>1 DEF IsSequence
<1> HIDE DEF s, t, v
<1>4. /\ IsSequence(u) /\ Len(u) = 1 + 1
      /\ \A i \in 1 .. 1 : u[i] = s[i]
      /\ \A i \in 1 .. 1 : u[1 + i] = t[i]
  <2>1. IsSequence(s) /\ IsSequence(t)
    BY <1>1
  <2>2. /\ IsSequence(u) /\ Len(u) = Len(s) + Len(t)
        /\ \A i \in 1 .. Len(s) : u[i] = s[i]
        /\ \A i \in 1 .. Len(t) : u[Len(s) + i] = t[i]
    BY ONLY <2>1, Joined
  <2> QED BY <1>1, <2>2
<1> HIDE DEF u
<1>5. Len(u) = 2 /\ u[1] = a /\ u[2] = b
  BY <1>1, <1>4
<1>6. \A i \in 1 .. 2 : u[i] = v[i]
  <2>1. \A i \in 1 .. 2 : i = 1 \/ i = 2
    OBVIOUS
  <2> QED BY <1>2, <1>5, <2>1
<1>7. u = v
  BY <1>2, <1>3, <1>4, <1>5, <1>6, SameSequence
<1> QED BY <1>7 DEF u, s, t, v

\* A function on numbers from 1 is a sequence.
LEMMA FunctionIs ==
  ASSUME NEW n \in Nat, NEW f, f = [i \in 1 .. n |-> f[i]]
  PROVE  IsSequence(f) /\ Len(f) = n
<1> DEFINE S == {f[i] : i \in 1 .. n}
<1>1. \A i \in 1 .. n : f[i] \in S
  OBVIOUS
<1> HIDE DEF S
<1>2. [i \in 1 .. n |-> f[i]] \in Seq(S) 
  BY <1>1, IsASeq
<1>3. f \in Seq(S) /\ DOMAIN f = 1 .. n
  BY <1>2
<1>4. Len(f) = n
  BY <1>3
<1> QED BY <1>3, <1>4, SequenceOf

\* A set of numbers that has 0 and with every number below n the next one has
\* all numbers up to n.  What is not in it would be mapped into less of itself
\* by going one down, though no two numbers have the same predecessor.
LEMMA AllUpTo ==
  ASSUME NEW n \in Nat, NEW P, 0 \in P,
         \A k \in 0 .. n - 1 : k \in P => k + 1 \in P
  PROVE  \A k \in 0 .. n : k \in P
<1> SUFFICES ASSUME NEW m \in 0 .. n, m \notin P
             PROVE  FALSE
  OBVIOUS
<1> DEFINE S == {k \in 0 .. m : k \notin P}
           T == S \ {m}
           f == [k \in S |-> k - 1]
<1>1. IsFiniteSet(S)
  <2>1. IsFiniteSet(0 .. m) /\ S \in SUBSET (0 .. m)
    BY FS_Interval
  <2> QED BY <2>1, FS_Subset
<1>2. IsFiniteSet(T) /\ Cardinality(T) < Cardinality(S)
  <2>1. IsFiniteSet(T) /\ Cardinality(T) = Cardinality(S) - 1
    <3>1. m \in S
      OBVIOUS
    <3> QED BY <1>1, <3>1, FS_RemoveElement
  <2>2. Cardinality(S) \in Nat
    BY <1>1, FS_CardinalityType
  <2> QED BY <2>1, <2>2
<1>3. f \in [S -> T]
  OBVIOUS
<1>4. \E x, y \in S : x # y /\ f[x] = f[y]
  <2> HIDE DEF S, T, f
  <2> QED BY <1>1, <1>2, <1>3, FS_PigeonHole
<1> QED BY <1>4

-----------------------------------------------------------------------------
(* Data trees: what a tree is in JSON                                      *)

\* The sequences of s joined, up to each of them.
Running(s) ==
  CHOOSE f : f = [i \in 1 .. Len(s) |-> IF i = 1 THEN s[i] ELSE f[i - 1] \o s[i]]

\* The recursion that joins sequences is well defined.
LEMMA RunningIs ==
  ASSUME NEW s, IsSequence(s)
  PROVE  /\ Running(s) = [i \in 1 .. Len(s) |->
                           IF i = 1 THEN s[i] ELSE Running(s)[i - 1] \o s[i]]
         /\ Len(s) > 0 => FlattenSeq(s) = Running(s)[Len(s)]
<1> DEFINE n == Len(s)
           P == {k \in 0 .. n :
                   \E f : f = [i \in 1 .. k |-> IF i = 1 THEN s[i] ELSE f[i - 1] \o s[i]]}
<1>1. n \in Nat
  BY DEF IsSequence
<1>2. 0 \in P
  <2> DEFINE f == [i \in 1 .. 0 |-> s[i]]
  <2>1. f = [i \in 1 .. 0 |-> IF i = 1 THEN s[i] ELSE f[i - 1] \o s[i]]
    OBVIOUS
  <2> HIDE DEF f
  <2>2. \E h : h = [i \in 1 .. 0 |-> IF i = 1 THEN s[i] ELSE h[i - 1] \o s[i]]
    BY <2>1
  <2>3. 0 \in 0 .. n
    BY <1>1
  <2> HIDE DEF n
  <2> QED BY <2>2, <2>3
<1>3. ASSUME NEW k \in 0 .. n - 1, k \in P PROVE k + 1 \in P
  <2>1. PICK f : f = [i \in 1 .. k |-> IF i = 1 THEN s[i] ELSE f[i - 1] \o s[i]]
    BY <1>3
  <2> DEFINE g == [i \in 1 .. k + 1 |-> IF i <= k THEN f[i]
                                        ELSE IF i = 1 THEN s[i] ELSE f[i - 1] \o s[i]]
  <2> HIDE DEF n
  <2>2. \A i \in 1 .. k + 1 : g[i] = IF i = 1 THEN s[i] ELSE g[i - 1] \o s[i]
    <3> SUFFICES ASSUME NEW i \in 1 .. k + 1
                 PROVE  g[i] = IF i = 1 THEN s[i] ELSE g[i - 1] \o s[i]
      OBVIOUS
    <3>1. i # 1 => i - 1 \in 1 .. k /\ i - 1 \in 1 .. k + 1
      BY <1>1
    <3>2. i # 1 => g[i - 1] = f[i - 1]
      BY <3>1
    <3>3. CASE i <= k
      <4>1. i \in 1 .. k
        BY <1>1, <3>3
      <4>2. f[i] = IF i = 1 THEN s[i] ELSE f[i - 1] \o s[i]
        BY <2>1, <4>1
      <4>3. g[i] = f[i]
        BY <3>3
      <4> HIDE DEF g
      <4> QED BY <3>2, <4>2, <4>3
    <3>4. CASE ~(i <= k)
      <4>1. g[i] = IF i = 1 THEN s[i] ELSE f[i - 1] \o s[i]
        BY <3>4
      <4> HIDE DEF g
      <4> QED BY <3>2, <4>1
    <3> QED BY <3>3, <3>4
  <2>3. g = [i \in 1 .. k + 1 |-> g[i]]
    OBVIOUS
  <2> HIDE DEF g
  <2>4. g = [i \in 1 .. k + 1 |-> IF i = 1 THEN s[i] ELSE g[i - 1] \o s[i]]
    BY <2>2, <2>3
  <2>5. k + 1 \in 0 .. n
    BY <1>1
  <2> QED BY <2>4, <2>5
<1>4. n \in P
  <2> HIDE DEF P, n
  <2>1. \A k \in 0 .. n : k \in P
    BY <1>1, <1>2, <1>3, AllUpTo
  <2> QED BY <1>1, <2>1
<1>5. Running(s) = [i \in 1 .. Len(s) |-> IF i = 1 THEN s[i] ELSE Running(s)[i - 1] \o s[i]]
  BY <1>4 DEF Running
<1>6. ASSUME n > 0 PROVE FlattenSeq(s) = Running(s)[n]
  <2>1. n # 0
    BY <1>6
  <2> QED BY <2>1 DEF FlattenSeq, Running
<1> QED BY <1>5, <1>6

\* What stands for an entry in the text, if the text of its value is spelling[value].
KeyText(D, d, i) ==
  IF D[d].children[i].key = NoKey THEN <<>> ELSE <<D[d].children[i].key, ":">>
PartOf(D, spelling, d, i) == KeyText(D, d, i) \o spelling[D[d].children[i].value]
PieceOf(D, spelling, d, i) ==
  IF i = 1 THEN PartOf(D, spelling, d, i) ELSE <<",">> \o PartOf(D, spelling, d, i)
PiecesOf(D, spelling, d) == [i \in DOMAIN D[d].children |-> PieceOf(D, spelling, d, i)]
SpellingOf(D, spelling, d) ==
  CASE D[d].type \in LeafTypes -> <<ToString(d)>>
    [] D[d].type = "List" -> <<"[">> \o FlattenSeq(PiecesOf(D, spelling, d)) \o <<"]">>
    [] D[d].type = "Dictionary" -> <<"{">> \o FlattenSeq(PiecesOf(D, spelling, d)) \o <<"}">>
Spellings(D) == CHOOSE spelling : spelling = [d \in DOMAIN D |-> SpellingOf(D, spelling, d)]

\* The reference spells every datum, as the datums are.
LEMMA SpelledIs ==
  Spelled = Spellings(datums)
  BY DEF Spelled, Spellings, SpellingOf, PiecesOf, PieceOf, PartOf, KeyText

\* What an entry spells depends on the datums before only.
LEMMA SameSpelling ==
  ASSUME DatumsInv, NEW d \in 1 .. Len(datums), NEW f, NEW g,
         \A e \in 1 .. d - 1 : f[e] = g[e]
  PROVE  SpellingOf(datums, f, d) = SpellingOf(datums, g, d)
<1> DEFINE kids == datums[d].children
<1>1. kids \in Seq(EntriesOf(datums[d].type, d))
  BY DEF DatumsInv
<1>2. ASSUME NEW i \in DOMAIN kids PROVE PieceOf(datums, f, d, i) = PieceOf(datums, g, d, i)
  <2>1. kids[i] \in EntriesOf(datums[d].type, d)
    <3>1. i \in 1 .. Len(kids)
      BY <1>1, <1>2
    <3> HIDE DEF kids
    <3> QED BY <1>1, <3>1
  <2>2. kids[i].value \in 1 .. d - 1
    BY <2>1 DEF EntriesOf
  <2>3. f[kids[i].value] = g[kids[i].value]
    BY <2>2
  <2> QED BY <2>3 DEF PieceOf, PartOf
<1>3. PiecesOf(datums, f, d) = PiecesOf(datums, g, d)
  BY <1>2 DEF PiecesOf
<1> QED BY <1>3 DEF SpellingOf

\* The reference is well defined: it says of every datum what it means to.
LEMMA SpelledEach ==
  ASSUME DatumsInv
  PROVE  /\ Spelled = [d \in 1 .. Len(datums) |-> SpellingOf(datums, Spelled, d)]
         /\ \A d \in 1 .. Len(datums) : Spelled[d] = SpellingOf(datums, Spelled, d)
<1> DEFINE n == Len(datums)
           P == {k \in 0 .. n : \E f : f = [d \in 1 .. k |-> SpellingOf(datums, f, d)]}
<1>1. n \in Nat /\ DOMAIN datums = 1 .. n
  BY DEF DatumsInv, IsSequence
<1>2. 0 \in P
  <2> DEFINE f == [d \in 1 .. 0 |-> 0]
  <2>1. f = [d \in 1 .. 0 |-> SpellingOf(datums, f, d)]
    OBVIOUS
  <2> HIDE DEF f
  <2>2. \E h : h = [d \in 1 .. 0 |-> SpellingOf(datums, h, d)]
    BY <2>1
  <2>3. 0 \in 0 .. n
    BY <1>1
  <2> HIDE DEF n
  <2> QED BY <2>2, <2>3
<1>3. ASSUME NEW k \in 0 .. n - 1, k \in P PROVE k + 1 \in P
  <2>1. PICK f : f = [d \in 1 .. k |-> SpellingOf(datums, f, d)]
    BY <1>3
  <2> DEFINE g == [d \in 1 .. k + 1 |-> IF d <= k THEN f[d] ELSE SpellingOf(datums, f, d)]
  <2>2. ASSUME NEW d \in 1 .. k + 1 PROVE g[d] = SpellingOf(datums, g, d)
    <3>1. d \in 1 .. n
      BY <1>1
    <3>2. \A e \in 1 .. d - 1 : f[e] = g[e]
      <4> HIDE DEF n
      <4>1. \A e \in 1 .. d - 1 : e \in 1 .. k + 1 /\ e <= k
        BY <1>1
      <4> QED BY <4>1
    <3>3. SpellingOf(datums, f, d) = SpellingOf(datums, g, d)
      <4> HIDE DEF g
      <4> QED BY <3>1, <3>2, SameSpelling
    <3>4. CASE d <= k
      <4>1. d \in 1 .. k
        BY <3>4
      <4>2. f[d] = SpellingOf(datums, f, d)
        BY <2>1, <4>1
      <4>3. g[d] = f[d]
        BY <3>4
      <4> HIDE DEF g
      <4> QED BY <3>3, <4>2, <4>3
    <3>5. CASE ~(d <= k)
      <4>1. g[d] = SpellingOf(datums, f, d)
        BY <3>5
      <4> HIDE DEF g
      <4> QED BY <3>3, <4>1
    <3> QED BY <3>4, <3>5
  <2>3. g = [d \in 1 .. k + 1 |-> g[d]]
    OBVIOUS
  <2> HIDE DEF g
  <2>4. g = [d \in 1 .. k + 1 |-> SpellingOf(datums, g, d)]
    BY <2>2, <2>3
  <2>5. k + 1 \in 0 .. n
    BY <1>1
  <2> HIDE DEF n
  <2> QED BY <2>4, <2>5
<1>4. n \in P
  <2> HIDE DEF P, n
  <2>1. \A k \in 0 .. n : k \in P
    BY <1>1, <1>2, <1>3, AllUpTo
  <2> QED BY <1>1, <2>1
<1> DEFINE S == Spellings(datums)
<1>5. S = [d \in 1 .. n |-> SpellingOf(datums, S, d)]
  BY <1>1, <1>4 DEF Spellings
<1>6. Spelled = S
  BY SpelledIs
<1> HIDE DEF S, n
<1>7. Spelled = [d \in 1 .. n |-> SpellingOf(datums, Spelled, d)]
  BY <1>5, <1>6
<1> QED BY <1>7 DEF n

\* The compound d opens and closes ...
OpeningText(d) == IF datums[d].type = "List" THEN "[" ELSE "{"
ClosingText(d) == IF datums[d].type = "List" THEN "]" ELSE "}"

\* ... and has a text after its first c entries, and before the value of the next.
Inner(d) == Running(PiecesOf(datums, Spelled, d))
DoneText(d, c) == <<OpeningText(d)>> \o Inner(d)[c]
BeforeText(d, c) ==
  (IF c = 1 THEN <<OpeningText(d)>> ELSE DoneText(d, c - 1) \o <<",">>) \o KeyText(datums, d, c)

\* The entries of a datum.
LEMMA EntryIs ==
  ASSUME DatumsInv, NEW d \in 1 .. Len(datums)
  PROVE  /\ Len(datums[d].children) \in Nat
         /\ DOMAIN datums[d].children = 1 .. Len(datums[d].children)
         /\ \A i \in 1 .. Len(datums[d].children) :
              /\ datums[d].children[i].value \in 1 .. d - 1
              /\ datums[d].children[i].key \in KeysOf(datums[d].type)
              /\ IsSequence(KeyText(datums, d, i))
<1> DEFINE kids == datums[d].children
<1>1. kids \in Seq(EntriesOf(datums[d].type, d))
  BY DEF DatumsInv
<1>2. ASSUME NEW i \in 1 .. Len(kids)
      PROVE  kids[i].value \in 1 .. d - 1 /\ kids[i].key \in KeysOf(datums[d].type)
  <2>1. kids[i] \in EntriesOf(datums[d].type, d)
    <3> HIDE DEF kids
    <3> QED BY <1>1
  <2> QED BY <2>1 DEF EntriesOf
<1>3. ASSUME NEW i \in 1 .. Len(kids)
      PROVE  IsSequence(KeyText(datums, d, i))
  <2> DEFINE k == kids[i].key
  <2>1. IsSequence(<<>>)
    BY NoneIs
  <2>2. IsSequence(<<k, ":">>)
    <3>1. <<k, ":">> \in Seq({k, ":"})
      OBVIOUS
    <3> HIDE DEF k
    <3> QED BY <3>1, SequenceOf
  <2> QED BY <2>1, <2>2 DEF KeyText
<1> QED BY <1>1, <1>2, <1>3

\* The pieces of a compound are sequences if what its entries spell are.
LEMMA PiecesAre ==
  ASSUME DatumsInv, NEW d \in 1 .. Len(datums),
         \A e \in 1 .. d - 1 : IsSequence(Spelled[e])
  PROVE  /\ IsSequence(PiecesOf(datums, Spelled, d))
         /\ Len(PiecesOf(datums, Spelled, d)) = Len(datums[d].children)
         /\ \A i \in 1 .. Len(datums[d].children) :
              /\ PiecesOf(datums, Spelled, d)[i] = PieceOf(datums, Spelled, d, i)
              /\ IsSequence(PartOf(datums, Spelled, d, i))
              /\ IsSequence(PieceOf(datums, Spelled, d, i))
<1> DEFINE n == Len(datums[d].children)
           p == PiecesOf(datums, Spelled, d)
<1>1. n \in Nat /\ DOMAIN datums[d].children = 1 .. n
  BY EntryIs
<1>2. p = [i \in 1 .. n |-> PieceOf(datums, Spelled, d, i)]
  BY <1>1 DEF PiecesOf
<1>3. IsSequence(p) /\ Len(p) = n
  <2> HIDE DEF p, n
  <2>1. p = [i \in 1 .. n |-> p[i]]
    BY <1>2
  <2> QED BY <1>1, <2>1, FunctionIs
<1>4. ASSUME NEW i \in 1 .. n
      PROVE  /\ p[i] = PieceOf(datums, Spelled, d, i)
             /\ IsSequence(PartOf(datums, Spelled, d, i))
             /\ IsSequence(PieceOf(datums, Spelled, d, i))
  <2>1. p[i] = PieceOf(datums, Spelled, d, i)
    <3> HIDE DEF p
    <3> QED BY <1>2
  <2>2. IsSequence(PartOf(datums, Spelled, d, i))
    BY EntryIs, Joined DEF PartOf
  <2>3. IsSequence(<<",">> \o PartOf(datums, Spelled, d, i))
    BY <2>2, OneIs, Joined
  <2> QED BY <2>1, <2>2, <2>3 DEF PieceOf
<1> QED BY <1>3, <1>4

\* What is inside a compound, up to every entry, is a sequence.
LEMMA InnerAre ==
  ASSUME DatumsInv, NEW d \in 1 .. Len(datums),
         \A e \in 1 .. d - 1 : IsSequence(Spelled[e])
  PROVE  \A c \in 1 .. Len(datums[d].children) :
           /\ IsSequence(Inner(d)[c])
           /\ c = 1 => Inner(d)[c] = PieceOf(datums, Spelled, d, c)
           /\ c # 1 => Inner(d)[c] = Inner(d)[c - 1] \o PieceOf(datums, Spelled, d, c)
<1> DEFINE n == Len(datums[d].children)
           p == PiecesOf(datums, Spelled, d)
           P == {0} \cup {k \in 1 .. n : IsSequence(Inner(d)[k])}
<1>1. n \in Nat
  BY EntryIs
<1>2. /\ IsSequence(p) /\ Len(p) = n
      /\ \A i \in 1 .. n : p[i] = PieceOf(datums, Spelled, d, i) /\ IsSequence(p[i])
  BY PiecesAre
<1>3. Inner(d) = [i \in 1 .. n |-> IF i = 1 THEN p[i] ELSE Inner(d)[i - 1] \o p[i]]
  <2> HIDE DEF p, n
  <2> QED BY <1>2, RunningIs DEF Inner, p
<1> HIDE DEF p, n
<1>4. \A c \in 1 .. n : /\ c = 1 => Inner(d)[c] = p[c]
                        /\ c # 1 => Inner(d)[c] = Inner(d)[c - 1] \o p[c]
  BY <1>3
<1>5. 0 \in P
  OBVIOUS
<1>6. ASSUME NEW k \in 0 .. n - 1, k \in P PROVE k + 1 \in P
  <2>1. k + 1 \in 1 .. n
    BY <1>1
  <2>2. CASE k = 0
    BY <1>2, <1>4, <2>1, <2>2
  <2>3. CASE k # 0
    <3>1. IsSequence(Inner(d)[k]) /\ (k + 1) - 1 = k /\ k + 1 # 1
      BY <1>1, <1>6, <2>3
    <3>2. Inner(d)[k + 1] = Inner(d)[k] \o p[k + 1]
      BY <1>4, <2>1, <3>1
    <3>3. IsSequence(Inner(d)[k + 1])
      BY <1>2, <2>1, <3>1, <3>2, Joined
    <3> QED BY <2>1, <3>3
  <2> QED BY <2>2, <2>3
<1>7. \A k \in 0 .. n : k \in P
  <2> HIDE DEF P
  <2> QED BY <1>1, <1>5, <1>6, AllUpTo
<1>8. \A c \in 1 .. n : IsSequence(Inner(d)[c])
  <2>1. \A c \in 1 .. n : c \in 0 .. n /\ c # 0
    BY <1>1
  <2> QED BY <1>7, <2>1
<1> QED BY <1>2, <1>4, <1>8 DEF n

\* The text of a leaf.
LEMMA SpelledLeaf ==
  ASSUME DatumsInv, NEW d \in 1 .. Len(datums), datums[d].type \in LeafTypes
  PROVE  Spelled[d] = <<ToString(d)>>
<1>1. Spelled[d] = SpellingOf(datums, Spelled, d)
  BY SpelledEach
<1>2. datums[d].type # "List" /\ datums[d].type # "Dictionary"
  BY DEF LeafTypes
<1>3. SpellingOf(datums, Spelled, d) = <<ToString(d)>>
  BY <1>2, Zenon DEF SpellingOf
<1> QED BY <1>1, <1>3

\* A compound's text, as far as its entries are made.
LEMMA SpelledCompound ==
  ASSUME DatumsInv, NEW d \in 1 .. Len(datums), datums[d].type \in CompoundTypes,
         \A e \in 1 .. d - 1 : IsSequence(Spelled[e])
  PROVE  /\ datums[d].children = <<>> =>
              Spelled[d] = <<OpeningText(d)>> \o <<ClosingText(d)>>
         /\ datums[d].children # <<>> =>
              Spelled[d] = <<OpeningText(d)>> \o Inner(d)[Len(datums[d].children)]
                             \o <<ClosingText(d)>>
<1> DEFINE p == PiecesOf(datums, Spelled, d)
<1>1. Spelled[d] = <<OpeningText(d)>> \o FlattenSeq(p) \o <<ClosingText(d)>>
  BY SpelledEach DEF SpellingOf, OpeningText, ClosingText, CompoundTypes, LeafTypes
<1>2. ASSUME datums[d].children = <<>>
      PROVE  Spelled[d] = <<OpeningText(d)>> \o <<ClosingText(d)>>
  <2>1. p = <<>>
    BY <1>2 DEF PiecesOf
  <2>2. FlattenSeq(<<>>) = <<>>
    BY DEF FlattenSeq
  <2>3. <<OpeningText(d)>> \o <<>> = <<OpeningText(d)>>
    BY OneIs, JoinedNone
  <2> HIDE DEF p
  <2> QED BY <1>1, <2>1, <2>2, <2>3
<1>3. ASSUME datums[d].children # <<>>
      PROVE  FlattenSeq(p) = Inner(d)[Len(datums[d].children)]
  <2>1. IsSequence(p) /\ Len(p) = Len(datums[d].children)
    BY PiecesAre
  <2>2. Len(p) > 0
    <3>1. Len(p) \in Nat
      BY <2>1 DEF IsSequence
    <3>2. datums[d].children \in Seq(EntriesOf(datums[d].type, d))
      BY DEF DatumsInv
    <3>3. Len(datums[d].children) # 0
      BY <1>3, <3>2, EmptySeq
    <3> HIDE DEF p
    <3> QED BY <2>1, <3>1, <3>3
  <2> QED BY <2>1, <2>2, RunningIs DEF Inner
<1> QED BY <1>1, <1>2, <1>3

\* Every datum spells a sequence.
LEMMA SpelledSequences ==
  ASSUME DatumsInv
  PROVE  \A d \in 1 .. Len(datums) : IsSequence(Spelled[d])
<1> DEFINE n == Len(datums)
           P == {k \in 0 .. n : \A d \in 1 .. k : IsSequence(Spelled[d])}
<1>1. n \in Nat
  BY DEF DatumsInv, IsSequence
<1>2. 0 \in P
  BY <1>1
<1>3. ASSUME NEW k \in 0 .. n - 1, k \in P PROVE k + 1 \in P
  <2> DEFINE d == k + 1
  <2>1. d \in 1 .. n /\ k + 1 \in 0 .. n /\ (k + 1) - 1 = k
    BY <1>1
  <2>2. \A e \in 1 .. d - 1 : IsSequence(Spelled[e])
    BY <1>1, <1>3
  <2>3. datums[d].type \in LeafTypes \cup CompoundTypes
    BY <2>1 DEF DatumsInv, KindOf
  <2> HIDE DEF d
  <2>9. IsSequence(<<OpeningText(d)>>) /\ IsSequence(<<ClosingText(d)>>)
    BY OneIs
  <2>4. IsSequence(Spelled[d])
    <3>1. CASE datums[d].type \in LeafTypes
      <4>1. Spelled[d] = <<ToString(d)>>
        BY <2>1, <3>1, SpelledLeaf
      <4> DEFINE text == ToString(d)
      <4>2. IsSequence(<<text>>)
        <5> HIDE DEF text
        <5> QED BY OneIs
      <4> QED BY <4>1, <4>2
    <3>2. CASE datums[d].type \in CompoundTypes
      <4>1. CASE datums[d].children = <<>>
        <5>1. Spelled[d] = <<OpeningText(d)>> \o <<ClosingText(d)>>
          BY <2>1, <2>2, <3>2, <4>1, SpelledCompound
        <5> QED BY <2>9, <5>1, Joined
      <4>2. CASE datums[d].children # <<>>
        <5> DEFINE m == Len(datums[d].children)
        <5>1. Spelled[d] = <<OpeningText(d)>> \o Inner(d)[m] \o <<ClosingText(d)>>
          BY <2>1, <2>2, <3>2, <4>2, SpelledCompound
        <5>2. m \in 1 .. m
          <6>1. IsSequence(datums[d].children)
            BY <2>1, SequenceOf DEF DatumsInv
          <6> QED BY <4>2, <6>1, HasLast
        <5>3. IsSequence(Inner(d)[m])
          BY <2>1, <2>2, <5>2, InnerAre
        <5>4. IsSequence(<<OpeningText(d)>> \o Inner(d)[m])
          BY <2>9, <5>3, Joined
        <5> HIDE DEF m
        <5>5. IsSequence((<<OpeningText(d)>> \o Inner(d)[m]) \o <<ClosingText(d)>>)
          BY <2>9, <5>4, Joined
        <5> QED BY <5>1, <5>5
      <4> QED BY <4>1, <4>2
    <3> QED BY <2>3, <3>1, <3>2
  <2>6. IsSequence(Spelled[k + 1])
    BY <2>4 DEF d
  <2>7. \A e \in 1 .. k + 1 : e \in 1 .. k \/ e = k + 1
    BY <1>1
  <2>8. k + 1 \in 0 .. n
    BY <2>1
  <2> HIDE DEF n
  <2> QED BY <1>3, <2>6, <2>7, <2>8
<1>4. n \in P
  <2> HIDE DEF P, n
  <2>1. \A k \in 0 .. n : k \in P
    BY <1>1, <1>2, <1>3, AllUpTo
  <2> QED BY <1>1, <2>1
<1> QED BY <1>4

\* A leaf is its value, an empty compound opens and closes.
LEMMA SpelledSmall ==
  ASSUME DatumsInv, NEW d \in 1 .. Len(datums)
  PROVE  /\ datums[d].type \in LeafTypes => Spelled[d] = <<ToString(d)>>
         /\ datums[d].type \in CompoundTypes /\ datums[d].children = <<>> =>
              Spelled[d] = <<OpeningText(d)>> \o <<ClosingText(d)>>
<1>1. \A e \in 1 .. d - 1 : IsSequence(Spelled[e])
  <2>1. Len(datums) \in Nat
    BY DEF DatumsInv, IsSequence
  <2>2. \A e \in 1 .. d - 1 : e \in 1 .. Len(datums)
    BY <2>1
  <2> QED BY <2>2, SpelledSequences
<1>2. datums[d].type \in LeafTypes => Spelled[d] = <<ToString(d)>>
  BY SpelledLeaf
<1> QED BY <1>1, <1>2, SpelledCompound

\* A compound that is not empty is made entry by entry.
LEMMA SpelledFull ==
  ASSUME DatumsInv, NEW d \in 1 .. Len(datums), datums[d].type \in CompoundTypes,
         NEW c \in 1 .. Len(datums[d].children)
  PROVE  /\ IsSequence(DoneText(d, c)) /\ IsSequence(BeforeText(d, c))
         /\ DoneText(d, c) = BeforeText(d, c) \o Spelled[datums[d].children[c].value]
         /\ c = Len(datums[d].children) => Spelled[d] = DoneText(d, c) \o <<ClosingText(d)>>
<1> DEFINE n == Len(datums[d].children)
           e == datums[d].children[c].value
           key == KeyText(datums, d, c)
           value == Spelled[e]
           opening == <<OpeningText(d)>>
           comma == <<",">>
<1>1. \A x \in 1 .. d - 1 : x \in 1 .. Len(datums) /\ IsSequence(Spelled[x])
  <2>1. Len(datums) \in Nat
    BY DEF DatumsInv, IsSequence
  <2>2. \A x \in 1 .. d - 1 : x \in 1 .. Len(datums)
    BY <2>1
  <2> QED BY <2>2, SpelledSequences
<1>2. n \in Nat /\ e \in 1 .. d - 1 /\ IsSequence(key)
  BY EntryIs
<1>3. IsSequence(value) /\ IsSequence(opening) /\ IsSequence(comma)
  BY <1>1, <1>2, OneIs
<1>4. PartOf(datums, Spelled, d, c) = Joining(key, value)
  BY DEF PartOf, Joining
<1>5. /\ IsSequence(Inner(d)[c])
      /\ c = 1 => Inner(d)[c] = Joining(key, value)
      /\ c # 1 => Inner(d)[c] = Joining(Inner(d)[c - 1], Joining(comma, Joining(key, value)))
  BY <1>1, <1>4, InnerAre DEF PieceOf, Joining
<1>6. c # 1 => c - 1 \in 1 .. n /\ IsSequence(Inner(d)[c - 1])
  <2>1. c # 1 => c - 1 \in 1 .. n
    BY <1>2
  <2> QED BY <1>1, <2>1, InnerAre
<1> DEFINE done == DoneText(d, c)
           before == BeforeText(d, c)
<1>7. /\ done = Joining(opening, Inner(d)[c])
      /\ c = 1 => before = Joining(opening, key)
      /\ c # 1 => before = Joining(Joining(Joining(opening, Inner(d)[c - 1]), comma), key)
  BY DEF DoneText, BeforeText, Joining
<1> HIDE DEF key, value, opening, comma, done, before
<1>8. IsSequence(done) /\ IsSequence(before) /\ done = Joining(before, value)
  <2>1. CASE c = 1
    <3>1. done = Joining(opening, Joining(key, value)) /\ before = Joining(opening, key)
      BY <1>5, <1>7, <2>1
    <3>2. IsSequence(Joining(opening, key)) /\ IsSequence(Joining(key, value))
      BY <1>2, <1>3, JoinIs
    <3>3. IsSequence(Joining(opening, Joining(key, value)))
      BY <1>3, <3>2, JoinIs
    <3>4. Joining(Joining(opening, key), value) = Joining(opening, Joining(key, value))
      BY <1>2, <1>3, JoinTwice
    <3> QED BY <3>1, <3>2, <3>3, <3>4
  <2>2. CASE c # 1
    <3> DEFINE inner == Inner(d)[c - 1]
               kv == Joining(key, value)
               oi == Joining(opening, inner)
               oic == Joining(oi, comma)
    <3>1. IsSequence(inner)
      BY <1>6, <2>2
    <3>2. done = Joining(opening, Joining(inner, Joining(comma, kv))) /\ before = Joining(oic, key)
      BY <1>5, <1>7, <2>2
    <3> HIDE DEF inner
    <3>3. IsSequence(kv) /\ IsSequence(oi)
      BY <1>2, <1>3, <3>1, JoinIs
    <3>4. Joining(oic, kv) = Joining(Joining(oic, key), value) /\ IsSequence(oic)
      <4>1. IsSequence(oic)
        <5> HIDE DEF oi
        <5> QED BY <1>3, <3>3, JoinIs
      <4> HIDE DEF oic
      <4> QED BY <1>2, <1>3, <4>1, JoinTwice
    <3> HIDE DEF kv
    <3>5. IsSequence(Joining(comma, kv))
      BY <1>3, <3>3, JoinIs
    <3>6. Joining(opening, Joining(inner, Joining(comma, kv))) = Joining(oi, Joining(comma, kv))
      <4> DEFINE ck == Joining(comma, kv)
      <4>1. IsSequence(ck)
        BY <3>5
      <4> HIDE DEF ck
      <4>2. IsSequence(opening)
        BY <1>3
      <4>3. Joining(Joining(opening, inner), ck) = Joining(opening, Joining(inner, ck))
        BY ONLY <3>1, <4>1, <4>2, JoinTwice
      <4> QED BY <4>3 DEF ck
    <3> HIDE DEF oi
    <3>7. Joining(oi, Joining(comma, kv)) = Joining(oic, kv)
      BY <1>3, <3>3, JoinTwice
    <3> HIDE DEF oic
    <3>8. IsSequence(Joining(oic, key))
      BY <1>2, <3>4, JoinIs
    <3>9. IsSequence(Joining(Joining(oic, key), value))
      BY <1>3, <3>8, JoinIs
    <3> QED BY <3>2, <3>4, <3>6, <3>7, <3>8, <3>9
  <2> QED BY <2>1, <2>2
<1>9. ASSUME c = n PROVE Spelled[d] = DoneText(d, c) \o <<ClosingText(d)>>
  <2>1. datums[d].children # <<>>
    <3>1. n # 0
      BY <1>2
    <3> QED BY <3>1
  <2> QED BY <1>1, <1>9, <2>1, SpelledCompound DEF DoneText
<1> QED BY <1>8, <1>9 DEF done, before, value, Joining

-----------------------------------------------------------------------------
(* The token generator: what its operations do                             *)

\* The texts of tokens.
Texts(T) == [i \in 1 .. Len(T) |-> T[i].sToken]

\* V has the tokens of T, but for what they know of each other, and maybe more.
Kept(T, V) ==
  /\ Len(V) >= Len(T)
  /\ \A i \in 1 .. Len(T) : V[i].tokenType = T[i].tokenType /\ V[i].sToken = T[i].sToken

\* The tokens are in order, and after the first element of a compound something
\* may be closed or separated.
GenTokens(g) ==
  /\ GenInv(g) /\ g.first \in BOOLEAN
  /\ Brackets(g.tokens) /\ Opened(g.tokens, g.openers)
Ready(g) ==
  ~g.first => /\ Len(g.tokens) > 0
              /\ g.tokens[Len(g.tokens)].tokenType \in {"Value", "Closer"}

\* The texts with the separator that comes before the next element.
SeparatedTexts(g) == IF g.first THEN Texts(g.tokens) ELSE Append(Texts(g.tokens), ",")

\* The texts of tokens are as many as they.
LEMMA TextsAre ==
  ASSUME NEW T, IsSequence(T)
  PROVE  IsSequence(Texts(T)) /\ Len(Texts(T)) = Len(T)
<1> DEFINE t == Texts(T)
<1>1. Len(T) \in Nat /\ t = [i \in 1 .. Len(T) |-> t[i]]
  BY DEF IsSequence, Texts
<1> HIDE DEF t
<1> QED BY <1>1, FunctionIs DEF t

\* A token more is a text more ...
LEMMA TextsOneMore ==
  ASSUME NEW T, IsSequence(T), NEW V, IsSequence(V), Len(V) = Len(T) + 1, Kept(T, V)
  PROVE  Texts(V) = Append(Texts(T), V[Len(T) + 1].sToken)
<1> DEFINE n == Len(T)
           e == V[n + 1].sToken
           a == Texts(V)
           t == Texts(T)
           b == Append(t, e)
<1>1. n \in Nat /\ IsSequence(t) /\ Len(t) = n /\ IsSequence(a) /\ Len(a) = n + 1
  BY TextsAre DEF IsSequence
<1>2. \A i \in 1 .. n : t[i] = T[i].sToken
  BY DEF Texts
<1>3. /\ \A i \in 1 .. n : a[i] = T[i].sToken
      /\ a[n + 1] = e
  <2>1. \A i \in 1 .. n + 1 : a[i] = V[i].sToken
    BY DEF Texts
  <2>2. \A i \in 1 .. n : i \in 1 .. n + 1
    BY <1>1
  <2>3. n + 1 \in 1 .. n + 1
    BY <1>1
  <2>4. \A i \in 1 .. n : V[i].sToken = T[i].sToken
    BY DEF Kept
  <2> HIDE DEF a, n
  <2> QED BY <2>1, <2>2, <2>3, <2>4 DEF n
<1> HIDE DEF t, e, a, n
<1>4. /\ IsSequence(b) /\ Len(b) = n + 1 /\ b[n + 1] = e
      /\ \A i \in 1 .. n : b[i] = t[i]
  BY <1>1, OneMore
<1> HIDE DEF b
<1>5. \A i \in 1 .. n + 1 : a[i] = b[i]
  <2>1. \A i \in 1 .. n + 1 : i \in 1 .. n \/ i = n + 1
    BY <1>1
  <2> QED BY <1>2, <1>3, <1>4, <2>1
<1>6. a = b
  BY <1>1, <1>4, <1>5, SameSequence
<1> QED BY <1>6 DEF a, b, e, t, n

\* ... and the same tokens have the same texts.
LEMMA TextsSame ==
  ASSUME NEW T, NEW V, Len(V) = Len(T), Kept(T, V)
  PROVE  Texts(V) = Texts(T)
  BY DEF Texts, Kept

\* Tokens that are kept twice are kept.
LEMMA KeptTwice ==
  ASSUME NEW T, IsSequence(T), NEW V, IsSequence(V), NEW W, IsSequence(W),
         Kept(T, V), Kept(V, W)
  PROVE  Kept(T, W)
<1> DEFINE a == Len(T)
           b == Len(V)
           c == Len(W)
<1>1. a \in Nat /\ b \in Nat /\ c \in Nat /\ b >= a /\ c >= b
  BY DEF Kept, IsSequence
<1>2. /\ \A i \in 1 .. a : V[i].tokenType = T[i].tokenType /\ V[i].sToken = T[i].sToken
      /\ \A i \in 1 .. b : W[i].tokenType = V[i].tokenType /\ W[i].sToken = V[i].sToken
  BY DEF Kept
<1>3. c >= a /\ \A i \in 1 .. a : i \in 1 .. b
  <2> HIDE DEF a, b, c
  <2> QED BY <1>1
<1> QED BY <1>2, <1>3 DEF Kept

\* A token that neither opens nor closes, in the generator.
LEMMA AddedPlain ==
  ASSUME NEW g, GenTokens(g), NEW type \in Separators \cup {"Value"}, NEW text,
         type = "ListSeparator" => g.openers # <<>>
  PROVE  LET h == Added(g, JsonToken(type, text)) IN
           /\ GenTokens(h) /\ h.openers = g.openers /\ h.first = g.first
           /\ Kept(g.tokens, h.tokens) /\ Len(h.tokens) = Len(g.tokens) + 1
           /\ h.tokens[Len(g.tokens) + 1].tokenType = type
           /\ Texts(h.tokens) = Append(Texts(g.tokens), text)
<1> DEFINE token == JsonToken(type, text)
           h == Added(g, token)
           T == g.tokens
           V == h.tokens
           n == Len(T)
<1>1. /\ token = [tokenType |-> token.tokenType, sToken |-> token.sToken,
                  hasCompounds |-> token.hasCompounds, idxComplement |-> token.idxComplement]
      /\ token.tokenType = type /\ token.sToken = text
      /\ token.hasCompounds = FALSE /\ token.idxComplement = 0
  BY DEF JsonToken
<1>2. GenInv(g) /\ IsSequence(T) /\ Brackets(T) /\ Opened(T, g.openers) /\ g.first \in BOOLEAN
  BY DEF GenTokens, GenInv
<1> HIDE DEF token
<1>3. GenInv(h) /\ h.openers = g.openers /\ h.first = g.first /\ V = Append(T, token)
  <2>1. After(g, h) /\ h.openers = g.openers /\ V = Append(T, token)
    BY <1>2, AddedAfter
  <2>2. h.first = g.first
    <3>1. g = [tokens |-> g.tokens, openers |-> g.openers, first |-> g.first]
      BY <1>2 DEF GenInv
    <3> QED BY <3>1 DEF Added
  <2> QED BY <2>1, <2>2 DEF After
<1>4. Brackets(V) /\ Opened(V, g.openers)
  <2> HIDE DEF T, V, h
  <2> QED BY <1>1, <1>2, <1>3, PlainToken
<1>5. /\ IsSequence(V) /\ Len(V) = n + 1 /\ V[n + 1] = token
      /\ \A i \in 1 .. n : V[i] = T[i]
  <2> HIDE DEF T, V
  <2> QED BY <1>2, <1>3, OneMore
<1>6. Kept(T, V)
  <2>1. n \in Nat
    BY <1>2 DEF IsSequence
  <2>2. Len(V) >= n
    <3> HIDE DEF V, n
    <3> QED BY <1>5, <2>1
  <2> HIDE DEF T, V
  <2> QED BY <1>5, <2>2 DEF Kept
<1>7. Texts(V) = Append(Texts(T), text)
  <2> HIDE DEF T, V
  <2>1. Texts(V) = Append(Texts(T), V[n + 1].sToken)
    BY <1>2, <1>5, <1>6, TextsOneMore
  <2> QED BY <1>1, <1>5, <2>1
<1>8. GenTokens(h)
  <2> HIDE DEF h
  <2> QED BY <1>2, <1>3, <1>4 DEF GenTokens
<1> QED BY <1>1, <1>3, <1>5, <1>6, <1>7, <1>8 DEF token

\* The flag of the first element alone.
LEMMA FirstTokens ==
  ASSUME NEW g, GenTokens(g), NEW f \in BOOLEAN
  PROVE  LET h == [g EXCEPT !.first = f] IN
           GenTokens(h) /\ h.openers = g.openers /\ h.tokens = g.tokens /\ h.first = f
<1> DEFINE h == [g EXCEPT !.first = f]
<1>1. GenInv(g)
  BY DEF GenTokens
<1>2. GenInv(h) /\ h.tokens = g.tokens /\ h.openers = g.openers
  BY <1>1, FirstAfter DEF After
<1>3. h.first = f
  <2>1. g = [tokens |-> g.tokens, openers |-> g.openers, first |-> g.first]
    BY <1>1 DEF GenInv
  <2> QED BY <2>1
<1> HIDE DEF h
<1>4. GenTokens(h)
  BY <1>2, <1>3 DEF GenTokens
<1> QED BY <1>2, <1>3, <1>4 DEF h

\* The same tokens are kept.
LEMMA KeptItself ==
  ASSUME NEW T, IsSequence(T)
  PROVE  Kept(T, T)
  BY DEF Kept, IsSequence

\* The separator is between what is there and the next element.
LEMMA SeparatedTokens ==
  ASSUME NEW g, GenTokens(g), ~g.first => g.openers # <<>>
  PROVE  LET s == Separated(g) IN
           /\ GenTokens(s) /\ s.openers = g.openers /\ s.first = FALSE
           /\ Kept(g.tokens, s.tokens) /\ Texts(s.tokens) = SeparatedTexts(g)
<1>1. IsSequence(g.tokens)
  BY DEF GenTokens, GenInv
<1>2. CASE g.first
  <2> DEFINE s == [g EXCEPT !.first = FALSE]
  <2>1. Separated(g) = s
    BY <1>2 DEF Separated
  <2>2. GenTokens(s) /\ s.openers = g.openers /\ s.tokens = g.tokens /\ s.first = FALSE
    BY FirstTokens
  <2> HIDE DEF s
  <2>3. Kept(g.tokens, s.tokens)
    BY <1>1, <2>2, KeptItself
  <2> QED BY <1>2, <2>1, <2>2, <2>3 DEF SeparatedTexts
<1>3. CASE ~g.first
  <2> DEFINE comma == ","
             s == Added(g, JsonToken("ListSeparator", comma))
  <2>1. Separated(g) = s
    BY <1>3 DEF Separated
  <2>2. SeparatedTexts(g) = Append(Texts(g.tokens), comma)
    BY <1>3 DEF SeparatedTexts
  <2>3. "ListSeparator" \in Separators \cup {"Value"}
    BY DEF Separators
  <2>4. g.openers # <<>>
    BY <1>3
  <2>5. g.first = FALSE
    BY <1>3 DEF GenTokens
  <2> HIDE DEF comma
  <2>6. /\ GenTokens(s) /\ s.openers = g.openers /\ s.first = g.first
        /\ Kept(g.tokens, s.tokens) /\ Texts(s.tokens) = Append(Texts(g.tokens), comma)
    BY <2>3, <2>4, AddedPlain
  <2> HIDE DEF s
  <2> QED BY <2>1, <2>2, <2>5, <2>6
<1> QED BY <1>2, <1>3

\* A leaf adds its value ...
LEMMA OnLeafTokens ==
  ASSUME NEW g, GenTokens(g), ~g.first => g.openers # <<>>, NEW d
  PROVE  LET h == OnLeaf(g, d) IN
           /\ GenTokens(h) /\ Ready(h) /\ h.openers = g.openers /\ h.first = FALSE
           /\ Kept(g.tokens, h.tokens)
           /\ Texts(h.tokens) = Append(SeparatedTexts(g), ToString(d))
<1> DEFINE s == Separated(g)
           text == ToString(d)
           h == Added(s, JsonToken("Value", text))
<1>1. /\ GenTokens(s) /\ s.openers = g.openers /\ s.first = FALSE
      /\ Kept(g.tokens, s.tokens) /\ Texts(s.tokens) = SeparatedTexts(g)
  BY SeparatedTokens
<1>2. OnLeaf(g, d) = h
  BY DEF OnLeaf
<1> HIDE DEF s, text
<1>3. /\ GenTokens(h) /\ h.openers = s.openers /\ h.first = s.first
      /\ Kept(s.tokens, h.tokens) /\ Len(h.tokens) = Len(s.tokens) + 1
      /\ h.tokens[Len(s.tokens) + 1].tokenType = "Value"
      /\ Texts(h.tokens) = Append(Texts(s.tokens), text)
  BY <1>1, AddedPlain
<1> HIDE DEF h
<1>4. IsSequence(g.tokens) /\ IsSequence(s.tokens) /\ IsSequence(h.tokens)
  BY <1>1, <1>3 DEF GenTokens, GenInv
<1>5. Kept(g.tokens, h.tokens)
  BY <1>1, <1>3, <1>4, KeptTwice
<1>6. Ready(h)
  <2>1. Len(s.tokens) \in Nat
    BY <1>4 DEF IsSequence
  <2> QED BY <1>3, <2>1 DEF Ready
<1> QED BY <1>1, <1>2, <1>3, <1>5, <1>6 DEF text

\* ... and a key of a dictionary itself and what separates it from its value.
LEMMA OnDictKeyTokens ==
  ASSUME NEW g, GenTokens(g), ~g.first => g.openers # <<>>, NEW k
  PROVE  LET h == OnDictKey(g, k) IN
           /\ GenTokens(h) /\ h.openers = g.openers /\ h.first = TRUE
           /\ Kept(g.tokens, h.tokens)
           /\ Texts(h.tokens) = Append(Append(SeparatedTexts(g), k), ":")
<1> DEFINE s == Separated(g)
           a == Added(s, JsonToken("Value", k))
           colon == ":"
           b == Added(a, JsonToken("DictSeparator", colon))
           h == [b EXCEPT !.first = TRUE]
<1>1. /\ GenTokens(s) /\ s.openers = g.openers /\ s.first = FALSE
      /\ Kept(g.tokens, s.tokens) /\ Texts(s.tokens) = SeparatedTexts(g)
  BY SeparatedTokens
<1>2. OnDictKey(g, k) = h
  BY DEF OnDictKey
<1>3. /\ "DictSeparator" \in Separators \cup {"Value"} /\ "DictSeparator" # "ListSeparator"
      /\ "Value" \in Separators \cup {"Value"} /\ "Value" # "ListSeparator"
  BY DEF Separators
<1> DEFINE value == "Value"
<1> HIDE DEF s, colon
<1>4. /\ GenTokens(a) /\ a.openers = s.openers
      /\ Kept(s.tokens, a.tokens)
      /\ Texts(a.tokens) = Append(Texts(s.tokens), k)
  <2>1. value \in Separators \cup {"Value"} /\ (value = "ListSeparator" => s.openers # <<>>)
    BY <1>3
  <2> DEFINE b1 == Added(s, JsonToken(value, k))
  <2> HIDE DEF value
  <2>2. /\ GenTokens(b1) /\ b1.openers = s.openers
        /\ Kept(s.tokens, b1.tokens)
        /\ Texts(b1.tokens) = Append(Texts(s.tokens), k)
    BY <1>1, <2>1, AddedPlain
  <2> QED BY <2>2 DEF value
<1> HIDE DEF a
<1>5. /\ GenTokens(b) /\ b.openers = a.openers
      /\ Kept(a.tokens, b.tokens)
      /\ Texts(b.tokens) = Append(Texts(a.tokens), colon)
  BY <1>3, <1>4, AddedPlain
<1> HIDE DEF b
<1>6. GenTokens(h) /\ h.openers = b.openers /\ h.tokens = b.tokens /\ h.first = TRUE
  BY <1>5, FirstTokens
<1> HIDE DEF h
<1>7. IsSequence(g.tokens) /\ IsSequence(s.tokens) /\ IsSequence(a.tokens) /\ IsSequence(b.tokens)
  BY <1>1, <1>4, <1>5 DEF GenTokens, GenInv
<1>8. Kept(g.tokens, b.tokens)
  <2>1. Kept(g.tokens, a.tokens)
    BY <1>1, <1>4, <1>7, KeptTwice
  <2> QED BY <1>5, <1>7, <2>1, KeptTwice
<1> QED BY <1>1, <1>2, <1>4, <1>5, <1>6, <1>8 DEF colon

\* What a compound starts with.
OpenerType(d) == IF datums[d].type = "List" THEN "ListOpener" ELSE "DictOpener"

\* A compound that is not empty opens inside what is open ...
LEMMA OnFullTokens ==
  ASSUME NEW g, GenTokens(g), ~g.first => g.openers # <<>>, NEW d, datums[d].children # <<>>
  PROVE  LET h == OnCompound(g, d) IN
           /\ GenTokens(h) /\ h.first = TRUE
           /\ h.openers = Append(g.openers, Len(h.tokens))
           /\ h.tokens[Len(h.tokens)].tokenType = OpenerType(d)
           /\ Kept(g.tokens, h.tokens)
           /\ Texts(h.tokens) = Append(SeparatedTexts(g), OpeningText(d))
<1> DEFINE s == Separated(g)
           type == OpenerType(d)
           text == OpeningText(d)
           token == JsonToken(type, text)
           a == Added(s, token)
           h == PushLevel(a)
           T == s.tokens
           A == a.tokens
           V == h.tokens
           n == Len(T)
           q == Last(g.openers)
           inner == g.openers # <<>>
<1>1. /\ GenTokens(s) /\ s.openers = g.openers /\ s.first = FALSE
      /\ Kept(g.tokens, T) /\ Texts(T) = SeparatedTexts(g)
  BY SeparatedTokens
<1>2. OnCompound(g, d) = h
  <2>1. token = IF datums[d].type = "List" THEN JsonToken("ListOpener", "[")
                ELSE JsonToken("DictOpener", "{")
    BY Zenon DEF OpenerType, OpeningText
  <2> HIDE DEF token
  <2> QED BY <2>1, Zenon DEF OnCompound
<1>3. type \in Openers
  BY DEF OpenerType, Openers
<1>4. token = [tokenType |-> type, sToken |-> text, hasCompounds |-> FALSE, idxComplement |-> 0]
  BY DEF JsonToken
<1> HIDE DEF s, type, text, token
<1>5. GenInv(s) /\ IsSequence(T) /\ Brackets(T) /\ Opened(T, g.openers) /\ n \in Nat
  BY <1>1 DEF GenTokens, GenInv, IsSequence
<1>6. GenInv(a) /\ a.openers = g.openers /\ A = Append(T, token) /\ Len(A) = n + 1
  BY <1>1, <1>5, AddedAfter DEF After
<1> HIDE DEF a
<1>7. /\ IsSequence(A) /\ A[n + 1] = token
      /\ \A i \in 1 .. n : A[i] = T[i]
  BY <1>5, <1>6, OneMore
<1>8. /\ GenInv(h) /\ h.first = TRUE /\ h.openers = Append(g.openers, n + 1)
      /\ ~inner => V = A
      /\ inner => V = [A EXCEPT ![q].hasCompounds = TRUE]
  <2>1. GenInv(h)
    <3>1. Len(A) > 0
      BY <1>5, <1>6
    <3> QED BY <1>6, <3>1, PushLevelAfter DEF After
  <2>2. h = [tokens |-> IF a.openers = <<>> THEN A
                        ELSE [A EXCEPT ![Last(a.openers)].hasCompounds = TRUE],
             openers |-> Append(a.openers, Len(A)), first |-> TRUE]
    BY DEF PushLevel
  <2> DEFINE t == IF inner THEN [A EXCEPT ![q].hasCompounds = TRUE] ELSE A
  <2>3. h = [tokens |-> t, openers |-> Append(g.openers, n + 1), first |-> TRUE]
    BY <1>6, <2>2
  <2>4. /\ ~inner => t = A
        /\ inner => t = [A EXCEPT ![q].hasCompounds = TRUE]
    BY Zenon
  <2> HIDE DEF t, h, n, inner, q
  <2>5. V = t /\ h.openers = Append(g.openers, n + 1) /\ h.first = TRUE
    BY <2>3
  <2> QED BY <2>1, <2>4, <2>5
<1> HIDE DEF h
<1>9. inner => q \in 1 .. n /\ IsOpen(T, q) /\ q \in OpensAt(T)
  BY <1>5, Innermost1, ClosedWithin
<1> DEFINE e == [T[q] EXCEPT !.hasCompounds = TRUE]
<1>10. /\ IsSequence(V) /\ Len(V) = n + 1 /\ V[n + 1] = token
       /\ \A i \in 1 .. n : V[i] = IF inner /\ i = q THEN e ELSE T[i]
  <2>1. CASE ~inner
    BY <1>6, <1>7, <1>8, <2>1
  <2>2. CASE inner
    <3> DEFINE W == [A EXCEPT ![q] = e]
    <3>1. V = W
      <4>1. A[q] = T[q]
        BY <1>7, <1>9, <2>2
      <4> QED BY <1>8, <2>2, <4>1
    <3> HIDE DEF e, q
    <3>2. /\ IsSequence(W) /\ Len(W) = n + 1
          /\ \A i \in 1 .. n + 1 : W[i] = IF i = q THEN e ELSE A[i]
      <4> HIDE DEF A, n
      <4>1. /\ IsSequence(W) /\ Len(W) = Len(A)
            /\ \A i \in 1 .. Len(A) : W[i] = IF i = q THEN e ELSE A[i]
        BY <1>7, OtherAt
      <4> QED BY <1>6, <4>1
    <3> HIDE DEF W
    <3>3. n + 1 \in 1 .. n + 1 /\ n + 1 # q /\ \A i \in 1 .. n : i \in 1 .. n + 1
      BY <1>5, <1>9, <2>2
    <3> QED BY <1>7, <2>2, <3>1, <3>2, <3>3
  <2> QED BY <2>1, <2>2
<1>11. inner => e = [tokenType |-> T[q].tokenType, sToken |-> T[q].sToken,
                     hasCompounds |-> TRUE, idxComplement |-> T[q].idxComplement]
  <2> SUFFICES ASSUME inner
               PROVE  e = [tokenType |-> T[q].tokenType, sToken |-> T[q].sToken,
                           hasCompounds |-> TRUE, idxComplement |-> T[q].idxComplement]
    OBVIOUS
  <2>1. T[q] = [tokenType |-> T[q].tokenType, sToken |-> T[q].sToken,
                hasCompounds |-> T[q].hasCompounds, idxComplement |-> T[q].idxComplement]
    BY <1>5, <1>9 DEF Brackets, TokensTyped
  <2> DEFINE x == T[q]
  <2>2. x = [tokenType |-> x.tokenType, sToken |-> x.sToken,
             hasCompounds |-> x.hasCompounds, idxComplement |-> x.idxComplement]
    BY <2>1
  <2>3. e = [x EXCEPT !.hasCompounds = TRUE]
    OBVIOUS
  <2> HIDE DEF x, e
  <2>4. e = [tokenType |-> x.tokenType, sToken |-> x.sToken,
             hasCompounds |-> TRUE, idxComplement |-> x.idxComplement]
    BY <2>2, <2>3
  <2> QED BY <2>4 DEF x
<1> HIDE DEF e
<1>12. Brackets(V) /\ Opened(V, Append(g.openers, n + 1))
  <2> HIDE DEF T, V
  <2>1. /\ \A i \in 1 .. n : inner /\ i = q =>
             V[i] = [tokenType |-> T[i].tokenType, sToken |-> T[i].sToken,
                     hasCompounds |-> TRUE, idxComplement |-> T[i].idxComplement]
        /\ \A i \in 1 .. n : ~(inner /\ i = q) => V[i] = T[i]
    BY <1>10, <1>11
  <2> QED BY <1>3, <1>4, <1>5, <1>10, <2>1, FullCompound
<1>13. Kept(T, V)
  <2>1. Len(V) >= Len(T)
    <3> HIDE DEF T, V
    <3> QED BY <1>5, <1>10
  <2>2. ASSUME NEW i \in 1 .. n
        PROVE  V[i].tokenType = T[i].tokenType /\ V[i].sToken = T[i].sToken
    <3> HIDE DEF T, V
    <3> QED BY <1>10, <1>11
  <2> QED BY <2>1, <2>2 DEF Kept
<1>14. Texts(V) = Append(Texts(T), text)
  <2> HIDE DEF T, V
  <2>1. Texts(V) = Append(Texts(T), V[n + 1].sToken)
    BY <1>5, <1>10, <1>13, TextsOneMore
  <2>2. V[n + 1].sToken = text
    BY <1>4, <1>10
  <2> QED BY <2>1, <2>2
<1>15. Kept(g.tokens, V)
  <2>1. IsSequence(g.tokens)
    BY DEF GenTokens, GenInv
  <2> HIDE DEF T, V
  <2> QED BY <1>1, <1>5, <1>10, <1>13, <2>1, KeptTwice
<1>16. GenTokens(h)
  BY <1>8, <1>12 DEF GenTokens
<1>17. V[Len(V)].tokenType = type /\ Len(V) = n + 1
  <2> HIDE DEF V
  <2> QED BY <1>4, <1>10
<1> QED BY <1>1, <1>2, <1>8, <1>14, <1>15, <1>16, <1>17 DEF type, text

\* A closer is added for the token at q, and each knows the other.
LEMMA ClosedTokens ==
  ASSUME NEW g, GenInv(g), NEW q \in 1 .. Len(g.tokens),
         g.tokens[q] = [tokenType |-> g.tokens[q].tokenType, sToken |-> g.tokens[q].sToken,
                        hasCompounds |-> g.tokens[q].hasCompounds,
                        idxComplement |-> g.tokens[q].idxComplement]
  PROVE  LET h == Closed(g, q)
             T == g.tokens
             V == h.tokens
             n == Len(g.tokens) IN
           /\ GenInv(h) /\ h.openers = g.openers /\ h.first = g.first
           /\ IsSequence(V) /\ Len(V) = n + 1
           /\ \A i \in 1 .. n : i # q => V[i] = T[i]
           /\ V[q] = [tokenType |-> T[q].tokenType, sToken |-> T[q].sToken,
                      hasCompounds |-> T[q].hasCompounds, idxComplement |-> n + 1]
           /\ V[n + 1] = [tokenType |-> "Closer", sToken |-> Closing(T[q].tokenType),
                          hasCompounds |-> FALSE, idxComplement |-> q]
           /\ Kept(T, V)
           /\ Texts(V) = Append(Texts(T), Closing(T[q].tokenType))
<1> DEFINE T == g.tokens
           n == Len(T)
           x == T[q]
           e == [x EXCEPT !.idxComplement = n + 1]
           W == [T EXCEPT ![q] = e]
           k == [g EXCEPT !.tokens = W]
           text == Closing(x.tokenType)
           closer == [tokenType |-> "Closer", sToken |-> text, hasCompounds |-> FALSE,
                      idxComplement |-> q]
           h == Closed(g, q)
           V == h.tokens
<1>1. n \in Nat /\ IsSequence(T) /\ q \in 1 .. n
  BY DEF GenInv, IsSequence
<1>2. e = [tokenType |-> x.tokenType, sToken |-> x.sToken,
           hasCompounds |-> x.hasCompounds, idxComplement |-> n + 1]
  <2>1. x = [tokenType |-> x.tokenType, sToken |-> x.sToken,
             hasCompounds |-> x.hasCompounds, idxComplement |-> x.idxComplement]
    OBVIOUS
  <2> HIDE DEF x, n
  <2> QED BY <2>1
<1>3. h = Added(k, closer)
  <2>1. [JsonToken("Closer", text) EXCEPT !.idxComplement = q] = closer
    <3> DEFINE b == JsonToken("Closer", text)
    <3>1. b = [tokenType |-> "Closer", sToken |-> text, hasCompounds |-> FALSE, idxComplement |-> 0]
      BY DEF JsonToken
    <3> HIDE DEF text, b
    <3>2. b = [tokenType |-> b.tokenType, sToken |-> b.sToken,
               hasCompounds |-> b.hasCompounds, idxComplement |-> b.idxComplement]
      BY ONLY <3>1
    <3>3. b.tokenType = "Closer" /\ b.sToken = text /\ b.hasCompounds = FALSE
      BY ONLY <3>1
    <3>4. \A p : [b EXCEPT !.idxComplement = p] =
            [tokenType |-> b.tokenType, sToken |-> b.sToken,
             hasCompounds |-> b.hasCompounds, idxComplement |-> p]
      BY ONLY <3>2
    <3> QED BY <3>3, <3>4 DEF b
  <2>2. [g EXCEPT !.tokens[q].idxComplement = Len(g.tokens) + 1] = k
    OBVIOUS
  <2>3. h = Added([g EXCEPT !.tokens[q].idxComplement = Len(g.tokens) + 1],
                  [JsonToken("Closer", text) EXCEPT !.idxComplement = q])
    BY DEF Closed
  <2> HIDE DEF h, k, closer, text
  <2> QED BY <2>1, <2>2, <2>3
<1> HIDE DEF h
<1>4. /\ IsSequence(W) /\ Len(W) = n
      /\ \A i \in 1 .. n : W[i] = IF i = q THEN e ELSE T[i]
  <2> HIDE DEF T, e
  <2>1. IsSequence(T)
    BY <1>1
  <2> DEFINE p == q
  <2> HIDE DEF p
  <2>2. /\ IsSequence([T EXCEPT ![p] = e]) /\ Len([T EXCEPT ![p] = e]) = n
        /\ \A i \in 1 .. n : [T EXCEPT ![p] = e][i] = IF i = p THEN e ELSE T[i]
    BY ONLY <2>1, OtherAt
  <2> QED BY <2>2, Zenon DEF p
<1> HIDE DEF e, W
<1>5. GenInv(k) /\ k.tokens = W /\ k.openers = g.openers /\ k.first = g.first
  <2>1. g = [tokens |-> T, openers |-> g.openers, first |-> g.first]
    BY DEF GenInv
  <2>2. k = [tokens |-> W, openers |-> g.openers, first |-> g.first]
    <3> HIDE DEF T
    <3> QED BY <2>1
  <2> HIDE DEF k
  <2>3. Len(W) >= Len(g.tokens)
    BY <1>1, <1>4
  <2>4. After(g, [tokens |-> W, openers |-> g.openers, first |-> g.first])
    BY <1>4, <2>3, OtherTokens
  <2> QED BY <2>2, <2>4 DEF After
<1> HIDE DEF k, closer
<1>6. /\ GenInv(h) /\ h.openers = g.openers /\ h.first = g.first
      /\ V = Append(W, closer)
  <2>1. After(k, h) /\ h.openers = k.openers /\ V = Append(W, closer)
    BY <1>3, <1>5, AddedAfter
  <2>2. k = [tokens |-> k.tokens, openers |-> k.openers, first |-> k.first]
    BY <1>5 DEF GenInv
  <2>3. h.first = k.first
    BY <1>3, <2>2 DEF Added
  <2> QED BY <1>5, <2>1, <2>3 DEF After
<1> HIDE DEF h
<1>7. /\ IsSequence(V) /\ Len(V) = n + 1 /\ V[n + 1] = closer
      /\ \A i \in 1 .. n : V[i] = IF i = q THEN e ELSE T[i]
  <2> HIDE DEF V, T
  <2>1. /\ IsSequence(V) /\ Len(V) = Len(W) + 1 /\ V[Len(W) + 1] = closer
        /\ \A i \in 1 .. Len(W) : V[i] = W[i]
    BY <1>4, <1>6, OneMore
  <2> QED BY <1>4, <2>1
<1>8. Kept(T, V)
  <2>1. Len(V) >= Len(T)
    <3> HIDE DEF V
    <3> QED BY <1>1, <1>7
  <2>2. ASSUME NEW i \in 1 .. n
        PROVE  V[i].tokenType = T[i].tokenType /\ V[i].sToken = T[i].sToken
    <3> HIDE DEF V, T
    <3> QED BY <1>2, <1>7
  <2> QED BY <2>1, <2>2 DEF Kept
<1>9. closer.sToken = text
  BY DEF closer
<1>10. Texts(V) = Append(Texts(T), text)
  <2> HIDE DEF V, T, text
  <2> QED BY <1>1, <1>7, <1>8, <1>9, TextsOneMore
<1>11. V[q] = e /\ \A i \in 1 .. n : i # q => V[i] = T[i]
  <2> HIDE DEF V, T
  <2> QED BY <1>1, <1>7
<1> HIDE DEF V
<1> QED BY <1>2, <1>6, <1>7, <1>8, <1>10, <1>11 DEF V, T, closer, text, n, x, h

\* ... and one that is empty opens and closes.
LEMMA OnEmptyTokens ==
  ASSUME NEW g, GenTokens(g), ~g.first => g.openers # <<>>, NEW d, datums[d].children = <<>>
  PROVE  LET h == OnCompound(g, d) IN
           /\ GenTokens(h) /\ Ready(h) /\ h.openers = g.openers /\ h.first = FALSE
           /\ Kept(g.tokens, h.tokens)
           /\ Texts(h.tokens) =
                Append(Append(SeparatedTexts(g), OpeningText(d)), ClosingText(d))
<1> DEFINE s == Separated(g)
           type == OpenerType(d)
           text == OpeningText(d)
           end == ClosingText(d)
           token == JsonToken(type, text)
           a == Added(s, token)
           T == s.tokens
           n == Len(T)
           A == a.tokens
           h == Closed(a, n + 1)
           V == h.tokens
<1>1. /\ GenTokens(s) /\ s.openers = g.openers /\ s.first = FALSE
      /\ Kept(g.tokens, T) /\ Texts(T) = SeparatedTexts(g)
  BY SeparatedTokens
<1>2. OnCompound(g, d) = Closed(a, Len(A))
  <2>1. token = IF datums[d].type = "List" THEN JsonToken("ListOpener", "[")
                ELSE JsonToken("DictOpener", "{")
    BY Zenon DEF OpenerType, OpeningText
  <2> HIDE DEF token
  <2> QED BY <2>1, Zenon DEF OnCompound
<1>3. type \in Openers /\ Closing(type) = end
  <2>1. Closing(type) = end
    BY Zenon DEF OpenerType, ClosingText, Closing
  <2> QED BY <2>1 DEF OpenerType, Openers
<1>4. token = [tokenType |-> type, sToken |-> text, hasCompounds |-> FALSE, idxComplement |-> 0]
  BY DEF JsonToken
<1> HIDE DEF s, type, text, token, end
<1>5. GenInv(s) /\ IsSequence(T) /\ Brackets(T) /\ Opened(T, g.openers) /\ n \in Nat
  BY <1>1 DEF GenTokens, GenInv, IsSequence
<1>6. GenInv(a) /\ a.openers = g.openers /\ A = Append(T, token) /\ Len(A) = n + 1
  BY <1>1, <1>5, AddedAfter DEF After
<1>7. a.first = FALSE
  <2>1. s = [tokens |-> s.tokens, openers |-> s.openers, first |-> s.first]
    BY <1>5 DEF GenInv
  <2> QED BY <1>1, <2>1 DEF Added
<1> HIDE DEF a
<1>8. /\ IsSequence(A) /\ A[n + 1] = token
      /\ \A i \in 1 .. n : A[i] = T[i]
  BY <1>5, <1>6, OneMore
<1> DEFINE q == n + 1
<1>9. /\ q \in 1 .. Len(A)
      /\ A[q] = [tokenType |-> A[q].tokenType, sToken |-> A[q].sToken,
                 hasCompounds |-> A[q].hasCompounds, idxComplement |-> A[q].idxComplement]
      /\ A[q].tokenType = type /\ A[q].sToken = text /\ A[q].hasCompounds = FALSE
  <2>1. /\ token.tokenType = type /\ token.sToken = text /\ token.hasCompounds = FALSE
        /\ token.idxComplement = 0
    BY <1>4
  <2> HIDE DEF A, n
  <2>2. A[q] = token
    BY <1>8
  <2>3. q \in 1 .. Len(A)
    BY <1>5, <1>6
  <2> HIDE DEF q
  <2> QED BY <1>4, <2>1, <2>2, <2>3
<1>10. /\ GenInv(h) /\ h.openers = a.openers /\ h.first = a.first
       /\ IsSequence(V) /\ Len(V) = Len(A) + 1
       /\ \A i \in 1 .. Len(A) : i # q => V[i] = A[i]
       /\ V[q] = [tokenType |-> A[q].tokenType, sToken |-> A[q].sToken,
                  hasCompounds |-> A[q].hasCompounds, idxComplement |-> Len(A) + 1]
       /\ V[Len(A) + 1] = [tokenType |-> "Closer", sToken |-> Closing(A[q].tokenType),
                           hasCompounds |-> FALSE, idxComplement |-> q]
       /\ Kept(A, V)
       /\ Texts(V) = Append(Texts(A), Closing(A[q].tokenType))
  <2> HIDE DEF q
  <2> QED BY <1>6, <1>9, ClosedTokens DEF q
<1> HIDE DEF h
<1>11. /\ Len(V) = n + 2 /\ \A i \in 1 .. n : V[i] = T[i]
       /\ V[n + 1] = [tokenType |-> type, sToken |-> text, hasCompounds |-> FALSE,
                      idxComplement |-> n + 2]
       /\ V[n + 2] = [tokenType |-> "Closer", sToken |-> end, hasCompounds |-> FALSE,
                      idxComplement |-> n + 1]
  <2> HIDE DEF V, A, T, n
  <2>1. Len(A) + 1 = n + 2
    BY <1>5, <1>6
  <2>2. \A i \in 1 .. n : i \in 1 .. Len(A) /\ i # n + 1
    BY <1>5, <1>6
  <2>3. \A i \in 1 .. n : V[i] = T[i]
    BY <1>8, <1>10, <2>2
  <2> QED BY <1>3, <1>9, <1>10, <2>1, <2>3
<1>12. Brackets(V) /\ Opened(V, g.openers) /\ Ended(V)
  <2> HIDE DEF V, T
  <2> QED BY <1>3, <1>5, <1>10, <1>11, EmptyCompound
<1>13. GenTokens(h) /\ h.first = FALSE /\ h.openers = g.openers
  BY <1>6, <1>7, <1>10, <1>12 DEF GenTokens
<1>14. Ready(h)
  <2>1. n + 2 > 0
    BY <1>5
  <2> QED BY <1>11, <2>1 DEF Ready
<1>15. Kept(T, A)
  <2>1. Len(A) >= n
    <3> HIDE DEF A, n
    <3> QED BY <1>5, <1>6
  <2> HIDE DEF A, T
  <2> QED BY <1>8, <2>1 DEF Kept
<1>16. Kept(g.tokens, V)
  <2>1. IsSequence(g.tokens)
    BY DEF GenTokens, GenInv
  <2>2. Kept(g.tokens, A)
    <3> HIDE DEF A, T
    <3> QED BY <1>1, <1>5, <1>8, <1>15, <2>1, KeptTwice
  <2> HIDE DEF A, V
  <2> QED BY <1>8, <1>10, <2>1, <2>2, KeptTwice
<1>17. Texts(V) = Append(Append(SeparatedTexts(g), text), end)
  <2> HIDE DEF A, V, T
  <2>1. Texts(A) = Append(Texts(T), A[n + 1].sToken)
    BY <1>5, <1>6, <1>8, <1>15, TextsOneMore
  <2> QED BY <1>1, <1>3, <1>9, <1>10, <2>1
<1>18. OnCompound(g, d) = h
  <2> HIDE DEF A
  <2> QED BY <1>2, <1>6 DEF h
<1> HIDE DEF V
<1> QED BY <1>13, <1>14, <1>16, <1>17, <1>18 DEF V, text, end

\* The innermost compound is closed.
LEMMA PopLevelTokens ==
  ASSUME NEW g, GenTokens(g), Ready(g), ~g.first, g.openers # <<>>
  PROVE  LET h == PopLevel(g) IN
           /\ GenTokens(h) /\ Ready(h) /\ h.openers = Front(g.openers) /\ h.first = FALSE
           /\ Kept(g.tokens, h.tokens)
           /\ Texts(h.tokens) =
                Append(Texts(g.tokens), Closing(g.tokens[Last(g.openers)].tokenType))
<1> DEFINE T == g.tokens
           n == Len(T)
           q == Last(g.openers)
           k == Closed(g, q)
           V == k.tokens
           h == PopLevel(g)
           end == Closing(T[q].tokenType)
<1>1. GenInv(g) /\ IsSequence(T) /\ Brackets(T) /\ Opened(T, g.openers) /\ n \in Nat
  BY DEF GenTokens, GenInv, IsSequence
<1>2. n > 0 /\ T[n].tokenType \in {"Value", "Closer"}
  BY DEF Ready
<1>3. q \in OpensAt(T) /\ IsOpen(T, q) /\ q \in 1 .. n /\ T[q].tokenType \in Openers
  <2>1. q \in OpensAt(T) /\ IsOpen(T, q)
    BY <1>1, Innermost1
  <2> HIDE DEF q
  <2> QED BY <2>1 DEF OpensAt
<1>4. q # n
  BY <1>2, <1>3 DEF Openers
<1>5. Ended(T)
  BY <1>2 DEF Ended, Separators
<1>6. T[q] = [tokenType |-> T[q].tokenType, sToken |-> T[q].sToken,
              hasCompounds |-> T[q].hasCompounds, idxComplement |-> T[q].idxComplement]
  <2> HIDE DEF q
  <2> QED BY <1>1, <1>3 DEF Brackets, TokensTyped
<1>7. /\ GenInv(k) /\ k.openers = g.openers
      /\ IsSequence(V) /\ Len(V) = n + 1
      /\ \A i \in 1 .. n : i # q => V[i] = T[i]
      /\ V[q] = [tokenType |-> T[q].tokenType, sToken |-> T[q].sToken,
                 hasCompounds |-> T[q].hasCompounds, idxComplement |-> n + 1]
      /\ V[n + 1] = [tokenType |-> "Closer", sToken |-> end, hasCompounds |-> FALSE,
                     idxComplement |-> q]
      /\ Kept(T, V)
      /\ Texts(V) = Append(Texts(T), end)
  <2> HIDE DEF q
  <2> QED BY <1>1, <1>3, <1>6, ClosedTokens
<1>8. h = [tokens |-> V, openers |-> Front(g.openers), first |-> FALSE]
  <2>1. h = [k EXCEPT !.openers = Front(@), !.first = FALSE]
    BY DEF PopLevel
  <2>2. k = [tokens |-> k.tokens, openers |-> k.openers, first |-> k.first]
    BY <1>7 DEF GenInv
  <2> HIDE DEF k, h
  <2>3. h = [tokens |-> k.tokens, openers |-> Front(k.openers), first |-> FALSE]
    BY <2>1, <2>2
  <2> QED BY <1>7, <2>3
<1> HIDE DEF h, k
<1>9. Brackets(V) /\ Opened(V, Front(g.openers)) /\ Ended(V)
  <2>1. q < n
    <3> HIDE DEF n, q
    <3> QED BY <1>1, <1>3, <1>4
  <2> HIDE DEF V, T, end
  <2> QED BY <1>1, <1>5, <1>7, <2>1, ClosedCompound
<1>10. GenInv(h) /\ h.tokens = V /\ h.openers = Front(g.openers) /\ h.first = FALSE
  <2>1. h.tokens = V /\ h.openers = Front(g.openers) /\ h.first = FALSE
    BY <1>8
  <2>2. GenInv(h)
    BY <1>1, PopLevelAfter DEF After, h
  <2> QED BY <2>1, <2>2
<1>11. GenTokens(h)
  BY <1>9, <1>10 DEF GenTokens
<1>12. Ready(h)
  <2>1. n + 1 > 0
    BY <1>1
  <2> HIDE DEF V, T, n
  <2>2. Len(V) > 0 /\ V[Len(V)].tokenType \in {"Value", "Closer"}
    BY <1>7, <2>1
  <2> QED BY <1>10, <2>2 DEF Ready
<1> HIDE DEF V
<1> QED BY <1>7, <1>10, <1>11, <1>12 DEF h, end

-----------------------------------------------------------------------------
(* The walk: what its stack says of the tokens                             *)

Kids(d) == datums[d].children

\* Each level is at an entry, the next level is that entry's datum, and the
\* first level is the root.
Chain(st) ==
  /\ \A k \in 1 .. Len(st) : st[k].curIdx <= Len(Kids(st[k].datum))
  /\ \A k \in 1 .. Len(st) - 1 :
       st[k].curIdx > 0 /\ Kids(st[k].datum)[st[k].curIdx].value = st[k + 1].datum
  /\ st[1].datum = root

\* The levels that were shown to the serializer, all but a new one at the top,
\* are the compounds that are open.
OpenLevels(st) == IF st[Len(st)].curIdx = 0 THEN Len(st) - 1 ELSE Len(st)
OpenersOf(st, g) ==
  /\ Len(g.openers) = OpenLevels(st)
  /\ \A k \in 1 .. OpenLevels(st) :
       g.tokens[g.openers[k]].tokenType = OpenerType(st[k].datum)
  /\ st[Len(st)].curIdx > 0 => ~g.first
  /\ ~g.first => g.openers # <<>>

\* t has the texts before each level's datum; the tokens spell what comes
\* before the top's datum and the entries of it that are done.
TextsBefore(st, t) ==
  /\ t[0] = <<>>
  /\ \A k \in 0 .. Len(st) - 1 : IsSequence(t[k])
  /\ \A k \in 1 .. Len(st) - 1 :
       t[k] = t[k - 1] \o BeforeText(st[k].datum, st[k].curIdx)
TextsDone(st, g, t) ==
  IF st[Len(st)].curIdx = 0 THEN SeparatedTexts(g) = t[Len(st) - 1]
  ELSE Texts(g.tokens) =
         t[Len(st) - 1] \o DoneText(st[Len(st)].datum, st[Len(st)].curIdx)
TextsOf(st, g) == \E t : TextsBefore(st, t) /\ TextsDone(st, g, t)

\* The root is spelled when the walk is over.
Spells(g) ==
  root \in 1 .. Len(datums) /\ g.openers = <<>> /\ Texts(g.tokens) = Spelled[root]

Walking(st, g) ==
  /\ GenTokens(g) /\ Ready(g)
  /\ st = <<>> => Spells(g)
  /\ st # <<>> => Chain(st) /\ OpenersOf(st, g) /\ TextsOf(st, g)

NoTokens == [tokens |-> <<>>, openers |-> <<>>, first |-> TRUE]
NotPrinting ==
  pr.i = 1 /\ pr.indent = 0 /\ pr.compounds = <<>> /\ pr.breaks = {}

\* The walk begins with no tokens, and is over before anything is printed.
WalkInv ==
  /\ phase = "build" => dfsStack = <<>> /\ gen = NoTokens
  /\ phase = "serialize" => Walking(dfsStack, gen)
  /\ phase \in {"build", "serialize"} => NotPrinting
  /\ phase \in {"print", "done", "thrown"} =>
       GenTokens(gen) /\ Spells(gen)

\* What comes before an entry but for its key.
HeadText(d, c) ==
  IF c = 1 THEN <<OpeningText(d)>> ELSE DoneText(d, c - 1) \o <<",">>

-----------------------------------------------------------------------------
\* Only a compound has entries, and keys tell lists from dictionaries.
LEMMA OnlyCompounds ==
  ASSUME DatumsInv, NEW d \in 1 .. Len(datums), NEW i \in 1 .. Len(datums[d].children)
  PROVE  /\ datums[d].type \in CompoundTypes
         /\ datums[d].type = "Dictionary" =>
              KeyText(datums, d, i) = <<datums[d].children[i].key, ":">>
         /\ datums[d].type # "Dictionary" => KeyText(datums, d, i) = <<>>
<1> DEFINE key == datums[d].children[i].key
           type == datums[d].type
           colon == ":"
<1>1. key \in KeysOf(type) /\ type \in LeafTypes \cup CompoundTypes
  BY EntryIs DEF DatumsInv, KindOf
<1>2. KeyText(datums, d, i) = IF key = NoKey THEN <<>> ELSE <<key, colon>>
  BY Zenon DEF KeyText
<1> HIDE DEF key, type, colon
<1>3. type \in CompoundTypes
  BY <1>1 DEF KeysOf, LeafTypes, CompoundTypes
<1>4. type = "Dictionary" => key # NoKey
  BY <1>1, DataTreeAssumption DEF KeysOf
<1>5. type # "Dictionary" => key = NoKey
  BY <1>1, <1>3 DEF KeysOf, CompoundTypes
<1> QED BY <1>2, <1>3, <1>4, <1>5 DEF key, type, colon

\* What comes before an entry is what comes before its key and the key.
LEMMA BeforeIs ==
  ASSUME DatumsInv, NEW d \in 1 .. Len(datums), NEW c \in 1 .. Len(datums[d].children)
  PROVE  /\ IsSequence(HeadText(d, c)) /\ IsSequence(KeyText(datums, d, c))
         /\ BeforeText(d, c) = HeadText(d, c) \o KeyText(datums, d, c)
<1> DEFINE comma == ","
           done == DoneText(d, c - 1)
           head == HeadText(d, c)
           opening == OpeningText(d)
<1>1. BeforeText(d, c) = HeadText(d, c) \o KeyText(datums, d, c)
  BY Zenon DEF BeforeText, HeadText
<1>2. IsSequence(KeyText(datums, d, c)) /\ Len(datums[d].children) \in Nat
  BY EntryIs
<1>3. head = IF c = 1 THEN <<opening>> ELSE done \o <<comma>>
  BY Zenon DEF HeadText
<1>4. c # 1 => IsSequence(done)
  <2> SUFFICES ASSUME c # 1 PROVE IsSequence(DoneText(d, c - 1))
    OBVIOUS
  <2>1. c - 1 \in 1 .. Len(datums[d].children)
    BY <1>2
  <2>2. datums[d].type \in CompoundTypes
    BY OnlyCompounds
  <2> QED BY <2>1, <2>2, SpelledFull
<1> HIDE DEF done, comma, head, opening
<1>5. IsSequence(<<comma>>) /\ IsSequence(<<opening>>)
  BY OneIs
<1>6. IsSequence(head)
  <2>1. CASE c = 1
    BY <1>3, <1>5, <2>1
  <2>2. CASE c # 1
    <3>1. IsSequence(done \o <<comma>>)
      BY <1>4, <1>5, <2>2, Joined
    <3> QED BY <1>3, <2>2, <3>1
  <2> QED BY <2>1, <2>2
<1> QED BY <1>1, <1>2, <1>6 DEF head

\* The top of the stack.
LEMMA TopIs ==
  ASSUME DataInv, dfsStack # <<>>
  PROVE  LET n == Len(dfsStack) IN
           /\ DatumsInv /\ GenInv(gen) /\ IsSequence(dfsStack)
           /\ n \in Nat \ {0} /\ n \in 1 .. n
           /\ Top = dfsStack[n] /\ TopChildren = Kids(Top.datum)
           /\ Top.datum \in 1 .. Len(datums) /\ Top.curIdx \in Nat
           /\ Len(Kids(Top.datum)) \in Nat
           /\ \A k \in 1 .. n :
                dfsStack[k].datum \in 1 .. Len(datums) /\ dfsStack[k].curIdx \in Nat
<1>1. StackInv /\ DatumsInv /\ GenInv(gen)
  BY DEF DataInv
<1>2. /\ Len(dfsStack) \in Nat /\ Len(dfsStack) \in 1 .. Len(dfsStack)
      /\ Top.datum \in 1 .. Len(datums) /\ Top.curIdx \in Nat
  BY <1>1, LevelsInv
<1>3. Top = dfsStack[Len(dfsStack)] /\ TopChildren = Kids(Top.datum)
  BY DEF Top, TopChildren, Last, Kids
<1>4. Len(Kids(Top.datum)) \in Nat
  BY <1>1, <1>2, EntryIs DEF Kids
<1>5. /\ IsSequence(dfsStack)
      /\ \A k \in 1 .. Len(dfsStack) :
           dfsStack[k].datum \in 1 .. Len(datums) /\ dfsStack[k].curIdx \in Nat
  BY <1>1 DEF StackInv
<1>6. Len(dfsStack) # 0
  BY <1>2
<1> QED BY <1>1, <1>2, <1>3, <1>4, <1>5, <1>6

\* What an opener is stays what it is when tokens are kept.
LEMMA KeptTypes ==
  ASSUME NEW g, GenInv(g), NEW V, Kept(g.tokens, V), NEW k \in 1 .. Len(g.openers)
  PROVE  V[g.openers[k]].tokenType = g.tokens[g.openers[k]].tokenType
  BY DEF GenInv, Kept

\* After its datum was shown, the top's compound is open, and the tokens spell
\* what comes before the next entry but for its key.
LEMMA VisitedTokens ==
  ASSUME DataInv, Walking(dfsStack, gen), dfsStack # <<>>,
         Top.curIdx < Len(Kids(Top.datum)),
         NEW t, TextsBefore(dfsStack, t), TextsDone(dfsStack, gen, t)
  PROVE  LET n == Len(dfsStack) IN
           /\ GenTokens(Visited) /\ Ready(Visited)
           /\ Len(Visited.openers) = n
           /\ \A k \in 1 .. n :
                Visited.tokens[Visited.openers[k]].tokenType = OpenerType(dfsStack[k].datum)
           /\ SeparatedTexts(Visited) = t[n - 1] \o HeadText(Top.datum, Top.curIdx + 1)
<1> DEFINE n == Len(dfsStack)
           d == Top.datum
           c == Top.curIdx
           m == Len(Kids(d))
           b == t[n - 1]
           U == Visited
<1>1. /\ DatumsInv /\ GenInv(gen) /\ n \in Nat \ {0} /\ n \in 1 .. n /\ Top = dfsStack[n]
      /\ d \in 1 .. Len(datums) /\ c \in Nat /\ m \in Nat
  BY TopIs
<1>2. /\ GenTokens(gen) /\ Ready(gen) /\ Chain(dfsStack) /\ OpenersOf(dfsStack, gen)
  BY DEF Walking
<1>3. c < m
  OBVIOUS
<1>4. IsSequence(b)
  <2>1. n - 1 \in 0 .. n - 1
    BY <1>1
  <2> QED BY <2>1 DEF TextsBefore
<1>7. /\ dfsStack[n].curIdx = c /\ dfsStack[n].datum = d
      /\ IF dfsStack[n].curIdx = 0 THEN SeparatedTexts(gen) = b
         ELSE Texts(gen.tokens) = b \o DoneText(dfsStack[n].datum, dfsStack[n].curIdx)
  <2>1. dfsStack[n].curIdx = c /\ dfsStack[n].datum = d
    BY <1>1
  <2>2. IF dfsStack[n].curIdx = 0 THEN SeparatedTexts(gen) = b
        ELSE Texts(gen.tokens) = b \o DoneText(dfsStack[n].datum, dfsStack[n].curIdx)
    BY Zenon DEF TextsDone
  <2> QED BY <2>1, <2>2
<1> HIDE DEF n, d, c, m, U, b
<1>5. c + 1 \in 1 .. m
  BY <1>1, <1>3
<1>6. datums[d].type \in CompoundTypes
  BY <1>1, <1>5, OnlyCompounds DEF m, Kids
<1>8. CASE c > 0
  <2>1. U = gen
    BY <1>8 DEF U, Visited, c
  <2>2. OpenLevels(dfsStack) = n
    BY <1>1, <1>8 DEF OpenLevels, n, c
  <2>3. Len(gen.openers) = n /\ ~gen.first
    BY <1>1, <1>2, <1>8, <2>2 DEF OpenersOf, n, c
  <2>4. \A k \in 1 .. n : gen.tokens[gen.openers[k]].tokenType = OpenerType(dfsStack[k].datum)
    BY <1>2, <2>2 DEF OpenersOf
  <2>5. Texts(gen.tokens) = b \o DoneText(d, c)
    <3>1. c # 0
      BY <1>1, <1>8
    <3> QED BY <1>7, <3>1
  <2>6. IsSequence(DoneText(d, c))
    <3>1. c \in 1 .. m
      BY <1>1, <1>5, <1>8
    <3> QED BY <1>1, <1>6, <3>1, SpelledFull DEF m, Kids
  <2> DEFINE comma == ","
             done == DoneText(d, c)
             head == HeadText(d, c + 1)
  <2>7. SeparatedTexts(gen) = Append(Texts(gen.tokens), comma)
    BY <2>3 DEF SeparatedTexts
  <2>8. head = done \o <<comma>>
    <3>1. c + 1 # 1 /\ (c + 1) - 1 = c
      BY <1>1, <1>8
    <3> QED BY <3>1, Zenon DEF HeadText
  <2> HIDE DEF comma, done, head
  <2>9. Append(b \o done, comma) = b \o (done \o <<comma>>)
    <3>0. IsSequence(done)
      BY <2>6 DEF done
    <3>1. IsSequence(b \o done) /\ IsSequence(<<comma>>)
      BY <1>4, <3>0, Joined, OneIs
    <3>2. Append(b \o done, comma) = (b \o done) \o <<comma>>
      BY <3>1, JoinedOne
    <3>3. (b \o done) \o <<comma>> = b \o (done \o <<comma>>)
      BY ONLY <1>4, <3>0, <3>1, JoinedTwice
    <3> QED BY <3>2, <3>3
  <2>10. SeparatedTexts(gen) = b \o head
    BY <2>5, <2>7, <2>8, <2>9 DEF done
  <2> QED BY <1>2, <2>1, <2>3, <2>4, <2>10 DEF U, n, d, c, head, b
<1>9. CASE c = 0
  <2>1. U = OnCompound(gen, d)
    <3>1. datums[d].type \notin LeafTypes
      BY <1>6 DEF LeafTypes, CompoundTypes
    <3> QED BY <1>9, <3>1 DEF U, Visited, c, d
  <2>2. OpenLevels(dfsStack) = n - 1
    BY <1>1, <1>9 DEF OpenLevels, n, c
  <2>3. Len(gen.openers) = n - 1 /\ (~gen.first => gen.openers # <<>>)
    BY <1>2, <2>2 DEF OpenersOf
  <2>4. \A k \in 1 .. n - 1 : gen.tokens[gen.openers[k]].tokenType = OpenerType(dfsStack[k].datum)
    BY <1>2, <2>2 DEF OpenersOf
  <2>5. SeparatedTexts(gen) = b
    BY <1>7, <1>9
  <2>6. datums[d].children # <<>>
    <3>1. m # 0
      BY <1>1, <1>3
    <3> QED BY <3>1 DEF m, Kids
  <2> DEFINE opening == OpeningText(d)
             type == OpenerType(d)
             last == Len(U.tokens)
  <2>7. /\ GenTokens(U) /\ U.first = TRUE
        /\ U.openers = Append(gen.openers, last)
        /\ U.tokens[last].tokenType = type
        /\ Kept(gen.tokens, U.tokens)
        /\ Texts(U.tokens) = Append(SeparatedTexts(gen), opening)
    BY <1>2, <2>1, <2>3, <2>6, OnFullTokens
  <2> HIDE DEF opening, type, last
  <2>8. SeparatedTexts(U) = b \o HeadText(d, c + 1)
    <3>1. SeparatedTexts(U) = Append(b, opening)
      BY <2>5, <2>7 DEF SeparatedTexts
    <3>2. Append(b, opening) = b \o <<opening>>
      BY <1>4, JoinedOne
    <3>3. HeadText(d, c + 1) = <<opening>>
      <4>1. c + 1 = 1
        BY <1>9
      <4> QED BY <4>1, Zenon DEF HeadText, opening
    <3> QED BY <3>1, <3>2, <3>3
  <2>9. /\ IsSequence(gen.openers) /\ Len(U.openers) = n /\ U.openers[n] = last
        /\ \A k \in 1 .. n - 1 : U.openers[k] = gen.openers[k]
    <3>1. IsSequence(gen.openers)
      BY <1>1 DEF GenInv
    <3>2. /\ Len(U.openers) = Len(gen.openers) + 1 /\ U.openers[Len(gen.openers) + 1] = last
          /\ \A k \in 1 .. Len(gen.openers) : U.openers[k] = gen.openers[k]
      BY <2>7, <3>1, OneMore
    <3> QED BY <1>1, <2>3, <3>1, <3>2
  <2>10. ASSUME NEW k \in 1 .. n
         PROVE  U.tokens[U.openers[k]].tokenType = OpenerType(dfsStack[k].datum)
    <3>1. CASE k = n
      BY <1>1, <2>7, <2>9, <3>1 DEF type, d
    <3>2. CASE k # n
      <4>1. k \in 1 .. n - 1
        BY <1>1, <3>2
      <4>2. U.tokens[gen.openers[k]].tokenType = gen.tokens[gen.openers[k]].tokenType
        BY <1>1, <2>3, <2>7, <4>1, KeptTypes
      <4> QED BY <2>4, <2>9, <4>1, <4>2
    <3> QED BY <3>1, <3>2
  <2>11. Ready(U)
    BY <2>7 DEF Ready
  <2> QED BY <2>7, <2>8, <2>9, <2>10, <2>11 DEF U, n, d, c, b
<1>10. c = 0 \/ c > 0
  BY <1>1
<1> QED BY <1>8, <1>9, <1>10

\* Entering a child, the top counts one entry more, and the child is on top.
LEMMA ChildLevels ==
  ASSUME DataInv, NextChild
  PROVE  LET n == Len(dfsStack)
             d == Top.datum
             c == Top.curIdx IN
           /\ dfsStack # <<>> /\ c < Len(Kids(d))
           /\ IsSequence(dfsStack') /\ Len(dfsStack') = n + 1 /\ dfsStack' # <<>>
           /\ \A k \in 1 .. n - 1 : dfsStack'[k] = dfsStack[k]
           /\ dfsStack'[n].datum = d /\ dfsStack'[n].curIdx = c + 1
           /\ dfsStack'[n + 1].datum = Kids(d)[c + 1].value /\ dfsStack'[n + 1].curIdx = 0
           /\ gen' = IF datums[d].type = "Dictionary" THEN OnDictKey(Visited, Kids(d)[c + 1].key)
                     ELSE Visited
<1> DEFINE n == Len(dfsStack)
           d == Top.datum
           c == Top.curIdx
           child == Kids(d)[c + 1]
           key == OnDictKey(Visited, child.key)
           level == [Top EXCEPT !.curIdx = c + 1]
           s == [dfsStack EXCEPT ![n] = level]
           more == DFSLevel(child.value)
<1>1. dfsStack # <<>> /\ c < Len(Kids(d)) /\ TopChildren = Kids(d)
  BY DEF NextChild, TopChildren, Kids
<1>2. /\ IsSequence(dfsStack) /\ n \in Nat \ {0} /\ n \in 1 .. n /\ Top = dfsStack[n]
      /\ d \in 1 .. Len(datums) /\ c \in Nat
  BY <1>1, TopIs
<1>3. Top = [datum |-> d, curIdx |-> c]
  BY <1>1, LevelsInv DEF DataInv
<1>4. /\ gen' = IF datums[d].type = "Dictionary" THEN key ELSE Visited
      /\ dfsStack' = Append(s, more)
  <2>1. /\ gen' = IF datums[d].type = "Dictionary" THEN key ELSE Visited
        /\ dfsStack' = Append([dfsStack EXCEPT ![n].curIdx = @ + 1], more)
    BY <1>1 DEF NextChild
  <2> HIDE DEF more, key
  <2>2. [dfsStack EXCEPT ![n].curIdx = @ + 1] = s
    BY <1>2
  <2> QED BY <2>1, <2>2
<1>5. level.datum = d /\ level.curIdx = c + 1
  <2>1. level = [datum |-> d, curIdx |-> c + 1]
    <3> HIDE DEF d, c
    <3> QED BY <1>3
  <2> HIDE DEF level
  <2> QED BY <2>1
<1>6. more.datum = child.value /\ more.curIdx = 0
  BY DEF DFSLevel
<1> HIDE DEF level, more, child, key
<1>7. /\ IsSequence(s) /\ Len(s) = n
      /\ \A i \in 1 .. n : s[i] = IF i = n THEN level ELSE dfsStack[i]
  <2>1. IsSequence(s) /\ Len(s) = n
    BY <1>2, OtherAt
  <2>2. \A i \in 1 .. n : s[i] = IF i = n THEN level ELSE dfsStack[i]
    BY <1>2 DEF IsSequence
  <2> QED BY <2>1, <2>2
<1> HIDE DEF s
<1>8. /\ IsSequence(dfsStack') /\ Len(dfsStack') = n + 1
      /\ \A i \in 1 .. n : dfsStack'[i] = s[i]
      /\ dfsStack'[n + 1] = more
  BY <1>4, <1>7, OneMore
<1>9. ASSUME NEW k \in 1 .. n - 1
      PROVE  dfsStack'[k] = dfsStack[k]
  <2>1. k \in 1 .. n /\ k # n
    BY <1>2
  <2> QED BY <1>7, <1>8, <2>1
<1>10. dfsStack'[n] = level
  BY <1>2, <1>7, <1>8
<1>11. dfsStack' # <<>>
  BY <1>2, <1>8
<1> QED BY <1>1, <1>4, <1>5, <1>6, <1>8, <1>9, <1>10, <1>11 DEF child, key

\* The walk goes on with a child ...
LEMMA ChildTokens ==
  ASSUME DataInv, Walking(dfsStack, gen), NextChild
  PROVE  Walking(dfsStack', gen')
<1> DEFINE n == Len(dfsStack)
           d == Top.datum
           c == Top.curIdx
           m == Len(Kids(d))
           st == dfsStack'
           g == gen'
           U == Visited
           key == Kids(d)[c + 1].key
<1>1. /\ dfsStack # <<>> /\ c < m
      /\ IsSequence(st) /\ Len(st) = n + 1 /\ st # <<>>
      /\ \A k \in 1 .. n - 1 : st[k] = dfsStack[k]
      /\ st[n].datum = d /\ st[n].curIdx = c + 1
      /\ st[n + 1].datum = Kids(d)[c + 1].value /\ st[n + 1].curIdx = 0
      /\ g = IF datums[d].type = "Dictionary" THEN OnDictKey(U, key) ELSE U
  BY ChildLevels
<1>2. /\ DatumsInv /\ n \in Nat \ {0} /\ n \in 1 .. n /\ Top = dfsStack[n]
      /\ d \in 1 .. Len(datums) /\ c \in Nat /\ m \in Nat
  BY <1>1, TopIs
<1>3. Chain(dfsStack) /\ TextsOf(dfsStack, gen)
  BY <1>1 DEF Walking
<1>4. PICK t : TextsBefore(dfsStack, t) /\ TextsDone(dfsStack, gen, t)
  BY <1>3 DEF TextsOf
<1> DEFINE b == t[n - 1]
           head == HeadText(d, c + 1)
           keyText == KeyText(datums, d, c + 1)
           here == BeforeText(d, c + 1)
<1>5. /\ GenTokens(U) /\ Ready(U)
      /\ Len(U.openers) = n
      /\ \A k \in 1 .. n : U.tokens[U.openers[k]].tokenType = OpenerType(dfsStack[k].datum)
      /\ SeparatedTexts(U) = b \o head
  BY <1>1, <1>4, VisitedTokens
<1>6. c + 1 \in 1 .. m
  BY <1>1, <1>2
<1>7. /\ datums[d].type = "Dictionary" => keyText = <<key, ":">>
      /\ datums[d].type # "Dictionary" => keyText = <<>>
  BY <1>2, <1>6, OnlyCompounds DEF Kids
<1>8. /\ IsSequence(head) /\ IsSequence(keyText) /\ here = head \o keyText
  BY <1>2, <1>6, BeforeIs DEF Kids
<1>9. IsSequence(b) /\ t[0] = <<>>
  <2>1. n - 1 \in 0 .. n - 1
    BY <1>2
  <2> QED BY <1>4, <2>1 DEF TextsBefore
<1>10. U.openers # <<>>
  BY <1>2, <1>5
<1> DEFINE type == datums[d].type
<1> HIDE DEF n, d, c, m, U, b, head, keyText, here, key, st, g, type
<1>11. /\ GenTokens(g) /\ Ready(g) /\ g.openers = U.openers
       /\ Kept(U.tokens, g.tokens)
       /\ SeparatedTexts(g) = b \o here
  <2>1. CASE type = "Dictionary"
    <3> DEFINE colon == ":"
               h == OnDictKey(U, key)
    <3>1. g = h
      BY <1>1, <2>1 DEF type
    <3> HIDE DEF colon, h
    <3>2. keyText = <<key, colon>>
      BY <1>7, <2>1, Zenon DEF type, colon
    <3>3. /\ GenTokens(h) /\ h.openers = U.openers /\ h.first = TRUE
          /\ Kept(U.tokens, h.tokens)
          /\ Texts(h.tokens) = Append(Append(SeparatedTexts(U), key), colon)
      BY <1>5, <1>10, OnDictKeyTokens DEF h, colon
    <3>4. SeparatedTexts(h) = Append(Append(b \o head, key), colon) /\ Ready(h)
      BY <1>5, <3>3 DEF SeparatedTexts, Ready
    <3>5. Append(Append(b \o head, key), colon) = b \o here
      <4>1. IsSequence(b \o head) /\ IsSequence(<<key>>) /\ IsSequence(<<colon>>)
        BY <1>8, <1>9, Joined, OneIs
      <4>2. Append(b \o head, key) = (b \o head) \o <<key>> /\ IsSequence((b \o head) \o <<key>>)
        BY <4>1, JoinedOne, Joined
      <4>3. Append((b \o head) \o <<key>>, colon) = ((b \o head) \o <<key>>) \o <<colon>>
        BY <4>2, JoinedOne
      <4>4. ((b \o head) \o <<key>>) \o <<colon>> = (b \o head) \o (<<key>> \o <<colon>>)
        BY ONLY <4>1, JoinedTwice
      <4>5. <<key>> \o <<colon>> = keyText
        BY <3>2, TwoIs
      <4>6. (b \o head) \o keyText = b \o (head \o keyText)
        BY ONLY <1>8, <1>9, JoinedTwice
      <4> QED BY <1>8, <4>2, <4>3, <4>4, <4>5, <4>6
    <3> QED BY <3>1, <3>3, <3>4, <3>5
  <2>2. CASE type # "Dictionary"
    <3>1. g = U
      BY <1>1, <2>2 DEF type
    <3>2. here = head
      BY <1>7, <1>8, <2>2, JoinedNone DEF type
    <3>3. IsSequence(U.tokens)
      BY <1>5 DEF GenTokens, GenInv
    <3> QED BY <1>5, <3>1, <3>2, <3>3, KeptItself
  <2> QED BY <2>1, <2>2
<1>12. Chain(st)
  <2>1. ASSUME NEW k \in 1 .. Len(st)
        PROVE  st[k].curIdx <= Len(Kids(st[k].datum))
    <3>1. CASE k = n + 1
      <4>1. Kids(d)[c + 1].value \in 1 .. Len(datums)
        <5>1. Kids(d)[c + 1].value \in 1 .. d - 1
          BY <1>2, <1>6, EntryIs DEF Kids, m
        <5>2. Len(datums) \in Nat
          BY <1>2 DEF DatumsInv, IsSequence
        <5> QED BY <1>2, <5>1, <5>2
      <4>2. Len(Kids(Kids(d)[c + 1].value)) \in Nat
        BY <1>2, <4>1, EntryIs DEF Kids
      <4> QED BY <1>1, <3>1, <4>2
    <3>2. CASE k = n
      BY <1>1, <1>6, <3>2 DEF m
    <3>3. CASE k # n /\ k # n + 1
      <4>1. k \in 1 .. n - 1 /\ k \in 1 .. n
        BY <1>1, <1>2, <3>3
      <4> QED BY <1>1, <1>3, <4>1 DEF Chain, n
    <3> QED BY <3>1, <3>2, <3>3
  <2>2. ASSUME NEW k \in 1 .. Len(st) - 1
        PROVE  st[k].curIdx > 0 /\ Kids(st[k].datum)[st[k].curIdx].value = st[k + 1].datum
    <3>1. CASE k = n
      BY <1>1, <1>2, <3>1
    <3>2. CASE k # n
      <4>1. k \in 1 .. n - 1
        BY <1>1, <1>2, <3>2
      <4>2. st[k + 1].datum = dfsStack[k + 1].datum
        <5>1. CASE k + 1 = n
          BY <1>1, <1>2, <5>1 DEF d
        <5>2. CASE k + 1 # n
          <6>1. k + 1 \in 1 .. n - 1
            BY <1>2, <4>1, <5>2
          <6> QED BY <1>1, <6>1
        <5> QED BY <5>1, <5>2
      <4>3. dfsStack[k].curIdx > 0
            /\ Kids(dfsStack[k].datum)[dfsStack[k].curIdx].value = dfsStack[k + 1].datum
        BY <1>3, <4>1 DEF Chain, n
      <4> QED BY <1>1, <4>1, <4>2, <4>3
    <3> QED BY <3>1, <3>2
  <2>3. st[1].datum = root
    <3>1. dfsStack[1].datum = root
      BY <1>3 DEF Chain
    <3>2. CASE n = 1
      BY <1>1, <1>2, <3>1, <3>2 DEF d
    <3>3. CASE n # 1
      <4>1. 1 \in 1 .. n - 1
        BY <1>2, <3>3
      <4> QED BY <1>1, <3>1, <4>1
    <3> QED BY <3>2, <3>3
  <2> QED BY <2>1, <2>2, <2>3 DEF Chain
<1>13. OpenLevels(st) = n
  <2>1. (n + 1) - 1 = n
    BY <1>2
  <2> QED BY <1>1, <2>1 DEF OpenLevels
<1>14. OpenersOf(st, g)
  <2>1. Len(g.openers) = OpenLevels(st) /\ (~g.first => g.openers # <<>>)
    BY <1>5, <1>10, <1>11, <1>13
  <2>2. ~(st[Len(st)].curIdx > 0)
    BY <1>1
  <2>3. ASSUME NEW k \in 1 .. OpenLevels(st)
        PROVE  g.tokens[g.openers[k]].tokenType = OpenerType(st[k].datum)
    <3>1. k \in 1 .. n
      BY <1>13
    <3>2. st[k].datum = dfsStack[k].datum
      <4>1. CASE k = n
        BY <1>1, <1>2, <4>1 DEF d
      <4>2. CASE k # n
        <5>1. k \in 1 .. n - 1
          BY <1>2, <3>1, <4>2
        <5> QED BY <1>1, <5>1
      <4> QED BY <4>1, <4>2
    <3>3. g.tokens[g.openers[k]].tokenType = U.tokens[U.openers[k]].tokenType
      <4>1. GenInv(U)
        BY <1>5 DEF GenTokens
      <4>2. k \in 1 .. Len(U.openers)
        BY <1>5, <3>1
      <4> QED BY <1>11, <4>1, <4>2, KeptTypes
    <3> QED BY <1>5, <3>1, <3>2, <3>3
  <2> QED BY <2>1, <2>2, <2>3 DEF OpenersOf
<1>15. TextsOf(st, g)
  <2> DEFINE u == [k \in 0 .. n |-> IF k = n THEN b \o here ELSE t[k]]
  <2>1. /\ u[n] = b \o here
        /\ \A k \in 0 .. n - 1 : u[k] = t[k]
    <3> HIDE DEF b, here
    <3> QED BY <1>2
  <2>2. IsSequence(here) /\ IsSequence(b \o here)
    <3>1. IsSequence(here)
      BY <1>8, Joined
    <3> QED BY <1>9, <3>1, Joined
  <2> HIDE DEF u
  <2>3. u[0] = <<>>
    <3>1. 0 \in 0 .. n - 1
      BY <1>2
    <3> QED BY <1>9, <2>1, <3>1
  <2>4. ASSUME NEW k \in 0 .. Len(st) - 1
        PROVE  IsSequence(u[k])
    <3>1. CASE k = n
      BY <2>1, <2>2, <3>1
    <3>2. CASE k # n
      <4>1. k \in 0 .. n - 1
        BY <1>1, <1>2, <3>2
      <4> QED BY <1>4, <2>1, <4>1 DEF TextsBefore, n
    <3> QED BY <3>1, <3>2
  <2>5. ASSUME NEW k \in 1 .. Len(st) - 1
        PROVE  u[k] = u[k - 1] \o BeforeText(st[k].datum, st[k].curIdx)
    <3>1. CASE k = n
      <4>1. n - 1 \in 0 .. n - 1
        BY <1>2
      <4>2. u[n - 1] = b
        BY <2>1, <4>1 DEF b
      <4>3. BeforeText(st[n].datum, st[n].curIdx) = here
        BY <1>1, Zenon DEF here
      <4> QED BY <2>1, <3>1, <4>2, <4>3
    <3>2. CASE k # n
      <4>1. k \in 1 .. n - 1 /\ k \in 0 .. n - 1 /\ k - 1 \in 0 .. n - 1
        BY <1>1, <1>2, <3>2
      <4>2. t[k] = t[k - 1] \o BeforeText(dfsStack[k].datum, dfsStack[k].curIdx)
        BY <1>4, <4>1 DEF TextsBefore, n
      <4>3. st[k] = dfsStack[k] /\ u[k] = t[k] /\ u[k - 1] = t[k - 1]
        BY <1>1, <2>1, <4>1
      <4> QED BY <4>2, <4>3
    <3> QED BY <3>1, <3>2
  <2>6. TextsBefore(st, u)
    BY <2>3, <2>4, <2>5 DEF TextsBefore
  <2>7. TextsDone(st, g, u)
    <3>1. Len(st) - 1 = n /\ st[Len(st)].curIdx = 0
      BY <1>1, <1>2
    <3>2. SeparatedTexts(g) = u[Len(st) - 1]
      BY <1>11, <2>1, <3>1
    <3> QED BY <3>1, <3>2, Zenon DEF TextsDone
  <2> QED BY <2>6, <2>7 DEF TextsOf
<1> QED BY <1>1, <1>11, <1>12, <1>14, <1>15 DEF Walking, st, g

\* A level that is done leaves the text of its datum.
LEMMA DoneTokens ==
  ASSUME DataInv, Walking(dfsStack, gen), PopDFS,
         NEW t, TextsBefore(dfsStack, t), TextsDone(dfsStack, gen, t)
  PROVE  LET n == Len(dfsStack)
             g == gen' IN
           /\ GenTokens(g) /\ Ready(g) /\ g.first = FALSE
           /\ Len(g.openers) = n - 1
           /\ \A k \in 1 .. n - 1 :
                g.tokens[g.openers[k]].tokenType = OpenerType(dfsStack[k].datum)
           /\ Texts(g.tokens) = t[n - 1] \o Spelled[Top.datum]
<1> DEFINE n == Len(dfsStack)
           d == Top.datum
           c == Top.curIdx
           m == Len(Kids(d))
           b == t[n - 1]
           g == gen'
           spelled == Spelled[d]
<1>1. /\ dfsStack # <<>> /\ c = m
      /\ g = IF Kids(d) # <<>> THEN PopLevel(Visited) ELSE Visited
  BY DEF PopDFS, TopChildren, Kids
<1>2. /\ DatumsInv /\ GenInv(gen) /\ n \in Nat \ {0} /\ n \in 1 .. n /\ Top = dfsStack[n]
      /\ d \in 1 .. Len(datums) /\ c \in Nat /\ m \in Nat
  BY <1>1, TopIs
<1>3. GenTokens(gen) /\ Ready(gen) /\ OpenersOf(dfsStack, gen)
  BY <1>1 DEF Walking
<1>4. IsSequence(b)
  <2>1. n - 1 \in 0 .. n - 1
    BY <1>2
  <2> QED BY <2>1 DEF TextsBefore
<1>5. /\ dfsStack[n].curIdx = c /\ dfsStack[n].datum = d
      /\ IF dfsStack[n].curIdx = 0 THEN SeparatedTexts(gen) = b
         ELSE Texts(gen.tokens) = b \o DoneText(dfsStack[n].datum, dfsStack[n].curIdx)
  <2>1. dfsStack[n].curIdx = c /\ dfsStack[n].datum = d
    BY <1>2
  <2>2. IF dfsStack[n].curIdx = 0 THEN SeparatedTexts(gen) = b
        ELSE Texts(gen.tokens) = b \o DoneText(dfsStack[n].datum, dfsStack[n].curIdx)
    BY Zenon DEF TextsDone
  <2> QED BY <2>1, <2>2
<1>6. IsSequence(gen.openers)
  BY <1>2 DEF GenInv
<1> HIDE DEF n, d, c, m, b, g, spelled
<1>7. CASE m = 0
  <2>1. Kids(d) = <<>>
    <3>1. IsSequence(Kids(d))
      BY <1>2, SequenceOf DEF DatumsInv, Kids
    <3> QED BY <1>7, <3>1 DEF IsSequence, m
  <2>2. c = 0 /\ g = Visited
    BY <1>1, <1>7, <2>1
  <2>3. OpenLevels(dfsStack) = n - 1
    BY <1>5, <2>2 DEF OpenLevels, n
  <2>4. /\ Len(gen.openers) = n - 1 /\ (~gen.first => gen.openers # <<>>)
        /\ \A k \in 1 .. n - 1 :
             gen.tokens[gen.openers[k]].tokenType = OpenerType(dfsStack[k].datum)
    BY <1>3, <2>3 DEF OpenersOf
  <2>5. SeparatedTexts(gen) = b
    BY <1>5, <2>2
  <2>6. /\ GenTokens(g) /\ Ready(g) /\ g.openers = gen.openers /\ g.first = FALSE
        /\ Kept(gen.tokens, g.tokens) /\ Texts(g.tokens) = b \o spelled
    <3>1. CASE datums[d].type \in LeafTypes
      <4> DEFINE h == OnLeaf(gen, d)
                 text == ToString(d)
      <4>1. g = h
        BY <2>2, <3>1 DEF Visited, c, d
      <4>2. spelled = <<text>>
        BY <1>2, <3>1, SpelledSmall DEF spelled
      <4>3. /\ GenTokens(h) /\ Ready(h) /\ h.openers = gen.openers /\ h.first = FALSE
            /\ Kept(gen.tokens, h.tokens)
            /\ Texts(h.tokens) = Append(SeparatedTexts(gen), text)
        BY <1>3, <2>4, OnLeafTokens
      <4> HIDE DEF h, text
      <4>4. Append(b, text) = b \o <<text>>
        BY <1>4, JoinedOne
      <4> QED BY <2>5, <4>1, <4>2, <4>3, <4>4
    <3>2. CASE datums[d].type \notin LeafTypes
      <4> DEFINE h == OnCompound(gen, d)
                 opening == OpeningText(d)
                 closing == ClosingText(d)
      <4>1. g = h
        BY <2>2, <3>2 DEF Visited, c, d
      <4>2. datums[d].type \in CompoundTypes
        BY <1>2, <3>2 DEF DatumsInv, KindOf
      <4>3. spelled = <<opening>> \o <<closing>>
        BY <1>2, <2>1, <4>2, SpelledSmall DEF spelled, Kids
      <4>4. /\ GenTokens(h) /\ Ready(h) /\ h.openers = gen.openers /\ h.first = FALSE
            /\ Kept(gen.tokens, h.tokens)
            /\ Texts(h.tokens) = Append(Append(SeparatedTexts(gen), opening), closing)
        BY <1>3, <2>1, <2>4, OnEmptyTokens DEF Kids
      <4> HIDE DEF h, opening, closing
      <4>5. Append(Append(b, opening), closing) = b \o (<<opening>> \o <<closing>>)
        <5>1. IsSequence(<<opening>>) /\ IsSequence(<<closing>>)
          BY OneIs
        <5>2. Append(b, opening) = b \o <<opening>> /\ IsSequence(b \o <<opening>>)
          BY <1>4, <5>1, JoinedOne, Joined
        <5>3. Append(b \o <<opening>>, closing) = (b \o <<opening>>) \o <<closing>>
          BY <5>2, JoinedOne
        <5>4. (b \o <<opening>>) \o <<closing>> = b \o (<<opening>> \o <<closing>>)
          BY ONLY <1>4, <5>1, JoinedTwice
        <5> QED BY <5>2, <5>3, <5>4
      <4> QED BY <2>5, <4>1, <4>3, <4>4, <4>5
    <3> QED BY <3>1, <3>2
  <2>7. ASSUME NEW k \in 1 .. n - 1
        PROVE  g.tokens[g.openers[k]].tokenType = OpenerType(dfsStack[k].datum)
    <3>1. g.tokens[gen.openers[k]].tokenType = gen.tokens[gen.openers[k]].tokenType
      BY <1>2, <2>4, <2>6, KeptTypes
    <3> QED BY <2>4, <2>6, <3>1
  <2> QED BY <2>4, <2>6, <2>7 DEF n, d, b, g, spelled
<1>8. CASE m # 0
  <2>1. Kids(d) # <<>>
    BY <1>8 DEF m
  <2>2. c > 0 /\ c \in 1 .. m /\ g = PopLevel(gen)
    <3>1. c > 0 /\ c \in 1 .. m
      BY <1>1, <1>2, <1>8
    <3>2. Visited = gen
      BY <3>1 DEF Visited, c
    <3> QED BY <1>1, <2>1, <3>1, <3>2
  <2>3. OpenLevels(dfsStack) = n
    <3>1. c # 0
      BY <2>2
    <3> QED BY <1>5, <3>1 DEF OpenLevels, n
  <2>4. /\ Len(gen.openers) = n /\ ~gen.first
        /\ \A k \in 1 .. n :
             gen.tokens[gen.openers[k]].tokenType = OpenerType(dfsStack[k].datum)
    <3>1. dfsStack[Len(dfsStack)].curIdx > 0
      BY <1>5, <2>2 DEF n
    <3> QED BY <1>3, <2>3, <3>1 DEF OpenersOf
  <2>5. gen.openers # <<>>
    BY <1>2, <2>4
  <2> DEFINE done == DoneText(d, c)
             closing == ClosingText(d)
             end == Closing(gen.tokens[Last(gen.openers)].tokenType)
             front == Front(gen.openers)
  <2>6. Texts(gen.tokens) = b \o done
    <3>1. c # 0
      BY <2>2
    <3> QED BY <1>5, <3>1
  <2>7. IsSequence(done) /\ spelled = done \o <<closing>>
    <3>1. datums[d].type \in CompoundTypes
      BY <1>2, <2>2, OnlyCompounds DEF m, Kids
    <3> QED BY <1>1, <1>2, <2>2, <3>1, SpelledFull DEF m, Kids, spelled
  <2>8. end = closing
    <3>1. gen.tokens[Last(gen.openers)].tokenType = OpenerType(d)
      <4>1. Last(gen.openers) = gen.openers[n]
        BY <2>4 DEF Last
      <4> QED BY <1>2, <1>5, <2>4, <4>1
    <3>2. Closing(OpenerType(d)) = closing
      BY Zenon DEF OpenerType, ClosingText, Closing
    <3> QED BY <3>1, <3>2
  <2>9. /\ GenTokens(g) /\ Ready(g) /\ g.openers = front /\ g.first = FALSE
        /\ Kept(gen.tokens, g.tokens)
        /\ Texts(g.tokens) = Append(Texts(gen.tokens), end)
    BY <1>3, <2>2, <2>4, <2>5, PopLevelTokens
  <2> HIDE DEF done, closing, end, front
  <2>10. Texts(g.tokens) = b \o spelled
    <3>1. Append(b \o done, closing) = b \o (done \o <<closing>>)
      <4>1. IsSequence(<<closing>>) /\ IsSequence(b \o done)
        BY <1>4, <2>7, OneIs, Joined
      <4>2. Append(b \o done, closing) = (b \o done) \o <<closing>>
        BY <4>1, JoinedOne
      <4>3. (b \o done) \o <<closing>> = b \o (done \o <<closing>>)
        BY ONLY <1>4, <2>7, <4>1, JoinedTwice
      <4> QED BY <4>2, <4>3
    <3> QED BY <2>6, <2>7, <2>8, <2>9, <3>1
  <2>11. /\ Len(front) = n - 1
         /\ \A k \in 1 .. n - 1 : front[k] = gen.openers[k]
    <3>1. /\ Len(front) = IF Len(gen.openers) = 0 THEN 0 ELSE Len(gen.openers) - 1
          /\ \A k \in 1 .. Len(gen.openers) - 1 : front[k] = gen.openers[k]
      BY <1>6, AllButLast DEF front
    <3> QED BY <1>2, <2>4, <3>1
  <2>12. ASSUME NEW k \in 1 .. n - 1
         PROVE  g.tokens[g.openers[k]].tokenType = OpenerType(dfsStack[k].datum)
    <3>1. k \in 1 .. n
      BY <1>2
    <3>2. g.tokens[gen.openers[k]].tokenType = gen.tokens[gen.openers[k]].tokenType
      BY <1>2, <2>4, <2>9, <3>1, KeptTypes
    <3> QED BY <2>4, <2>9, <2>11, <3>1, <3>2
  <2> QED BY <2>9, <2>10, <2>11, <2>12 DEF n, d, b, g, spelled
<1> QED BY <1>7, <1>8

\* ... or goes back to the level below, if there is one.
LEMMA PopTokens ==
  ASSUME DataInv, Walking(dfsStack, gen), PopDFS
  PROVE  Walking(dfsStack', gen')
<1> DEFINE n == Len(dfsStack)
           d == Top.datum
           st == dfsStack'
           g == gen'
           spelled == Spelled[d]
<1>1. dfsStack # <<>> /\ st = Front(dfsStack)
  BY DEF PopDFS
<1>2. /\ DatumsInv /\ IsSequence(dfsStack) /\ n \in Nat \ {0} /\ n \in 1 .. n /\ Top = dfsStack[n]
      /\ d \in 1 .. Len(datums)
      /\ \A k \in 1 .. n :
           dfsStack[k].datum \in 1 .. Len(datums) /\ dfsStack[k].curIdx \in Nat
  BY <1>1, TopIs
<1>3. Chain(dfsStack) /\ TextsOf(dfsStack, gen)
  BY <1>1 DEF Walking
<1>4. PICK t : TextsBefore(dfsStack, t) /\ TextsDone(dfsStack, gen, t)
  BY <1>3 DEF TextsOf
<1> DEFINE b == t[n - 1]
<1>5. /\ GenTokens(g) /\ Ready(g) /\ g.first = FALSE
      /\ Len(g.openers) = n - 1
      /\ \A k \in 1 .. n - 1 :
           g.tokens[g.openers[k]].tokenType = OpenerType(dfsStack[k].datum)
      /\ Texts(g.tokens) = b \o spelled
  BY <1>4, DoneTokens
<1>6. /\ IsSequence(st) /\ Len(st) = n - 1
      /\ \A k \in 1 .. n - 1 : st[k] = dfsStack[k]
  <2>1. /\ IsSequence(st) /\ Len(st) = IF n = 0 THEN 0 ELSE n - 1
        /\ \A k \in 1 .. n - 1 : st[k] = dfsStack[k]
    BY <1>1, <1>2, AllButLast
  <2> QED BY <1>2, <2>1
<1>7. IsSequence(spelled)
  BY <1>2, SpelledSequences
<1> HIDE DEF n, d, st, g, spelled, b
<1>8. CASE n = 1
  <2>1. st = <<>>
    BY <1>6, <1>8, NoneIs, SameSequence
  <2>2. b = <<>>
    BY <1>4, <1>8 DEF TextsBefore, b
  <2>3. d = root
    BY <1>2, <1>3, <1>8 DEF Chain, d
  <2>4. Texts(g.tokens) = spelled
    BY <1>5, <1>7, <2>2, JoinedNone
  <2>5. g.openers = <<>>
    <3>1. IsSequence(g.openers) /\ Len(g.openers) = 0
      BY <1>5, <1>8 DEF GenTokens, GenInv
    <3> QED BY <3>1, NoneIs, SameSequence
  <2>6. Spells(g)
    BY <1>2, <2>3, <2>4, <2>5 DEF Spells, spelled
  <2> QED BY <1>5, <2>1, <2>6 DEF Walking, st, g
<1>9. CASE n # 1
  <2> DEFINE k == n - 1
             e == dfsStack[k].datum
             c == dfsStack[k].curIdx
             before == BeforeText(e, c)
             done == DoneText(e, c)
             a == t[k - 1]
  <2>1. k \in 1 .. n - 1 /\ k \in 1 .. n /\ k \in 1 .. k /\ k + 1 = n /\ k \in Nat
    BY <1>2, <1>9
  <2>2. e \in 1 .. Len(datums) /\ c \in Nat
    BY <1>2, <2>1
  <2>3. c > 0 /\ Kids(e)[c].value = d /\ c <= Len(Kids(e))
    <3>1. /\ c > 0 /\ Kids(e)[c].value = dfsStack[k + 1].datum
          /\ c <= Len(Kids(e))
      BY <1>3, <2>1 DEF Chain, n
    <3> QED BY <1>2, <2>1, <3>1 DEF d
  <2>4. Len(Kids(e)) \in Nat
    BY <1>2, <2>2, EntryIs DEF Kids
  <2>5. b = a \o before /\ IsSequence(a)
    <3>1. t[k] = t[k - 1] \o BeforeText(dfsStack[k].datum, dfsStack[k].curIdx)
      BY <1>4, <2>1 DEF TextsBefore, n
    <3>2. k - 1 \in 0 .. n - 1
      BY <1>2, <2>1
    <3>3. IsSequence(t[k - 1])
      BY <1>4, <3>2 DEF TextsBefore, n
    <3> QED BY <3>1, <3>3 DEF b
  <2> HIDE DEF k, e, c, before, done, a
  <2>6. c \in 1 .. Len(Kids(e))
    BY <2>2, <2>3, <2>4
  <2>7. IsSequence(before) /\ done = before \o spelled
    <3>1. datums[e].type \in CompoundTypes
      BY <1>2, <2>2, <2>6, OnlyCompounds DEF Kids
    <3> QED BY <1>2, <2>2, <2>3, <2>6, <3>1, SpelledFull DEF Kids, before, done, spelled
  <2>8. Texts(g.tokens) = a \o done
    <3>1. (a \o before) \o spelled = a \o (before \o spelled)
      BY ONLY <1>7, <2>5, <2>7, JoinedTwice
    <3> QED BY <1>5, <2>5, <2>7, <3>1
  <2>9. Len(st) = k /\ st[k] = dfsStack[k] /\ st # <<>>
    <3>1. Len(st) = k /\ st[k] = dfsStack[k]
      BY <1>6, <2>1 DEF k
    <3>2. k # 0
      BY <2>1
    <3> QED BY <3>1, <3>2
  <2>10. Chain(st)
    <3>1. ASSUME NEW i \in 1 .. Len(st)
          PROVE  st[i].curIdx <= Len(Kids(st[i].datum))
      <4>1. i \in 1 .. n - 1 /\ i \in 1 .. n
        BY <1>2, <1>6
      <4> QED BY <1>3, <1>6, <4>1 DEF Chain, n
    <3>2. ASSUME NEW i \in 1 .. Len(st) - 1
          PROVE  st[i].curIdx > 0 /\ Kids(st[i].datum)[st[i].curIdx].value = st[i + 1].datum
      <4>1. i \in 1 .. n - 1 /\ i + 1 \in 1 .. n - 1
        BY <1>2, <1>6
      <4>2. st[i] = dfsStack[i] /\ st[i + 1] = dfsStack[i + 1]
        BY <1>6, <4>1
      <4>3. dfsStack[i].curIdx > 0
            /\ Kids(dfsStack[i].datum)[dfsStack[i].curIdx].value = dfsStack[i + 1].datum
        BY <1>3, <4>1 DEF Chain, n
      <4> QED BY <4>2, <4>3
    <3>3. st[1].datum = root
      <4>1. 1 \in 1 .. n - 1
        BY <1>2, <1>9
      <4>2. dfsStack[1].datum = root
        BY <1>3 DEF Chain
      <4> QED BY <1>6, <4>1, <4>2
    <3> QED BY <3>1, <3>2, <3>3 DEF Chain
  <2>11. st[Len(st)].curIdx = c /\ st[Len(st)].datum = e /\ c # 0 /\ Len(st) - 1 = k - 1
    BY <2>3, <2>9, <2>2 DEF c, e
  <2>12. OpenLevels(st) = k
    BY <2>9, <2>11 DEF OpenLevels
  <2>13. OpenersOf(st, g)
    <3>1. Len(g.openers) = k /\ g.openers # <<>>
      <4>1. Len(g.openers) = k
        BY <1>5 DEF k
      <4>2. k # 0
        BY <2>1
      <4> QED BY <4>1, <4>2
    <3>2. ASSUME NEW i \in 1 .. k
          PROVE  g.tokens[g.openers[i]].tokenType = OpenerType(st[i].datum)
      <4>1. i \in 1 .. n - 1
        BY DEF k
      <4> QED BY <1>5, <1>6, <4>1
    <3> QED BY <1>5, <2>12, <3>1, <3>2 DEF OpenersOf
  <2>14. TextsOf(st, g)
    <3>1. TextsBefore(st, t)
      <4>1. ASSUME NEW i \in 0 .. Len(st) - 1
            PROVE  IsSequence(t[i])
        <5>1. i \in 0 .. n - 1
          BY <1>2, <1>6
        <5> QED BY <1>4, <5>1 DEF TextsBefore, n
      <4>2. ASSUME NEW i \in 1 .. Len(st) - 1
            PROVE  t[i] = t[i - 1] \o BeforeText(st[i].datum, st[i].curIdx)
        <5>1. i \in 1 .. n - 1
          BY <1>2, <1>6
        <5>2. t[i] = t[i - 1] \o BeforeText(dfsStack[i].datum, dfsStack[i].curIdx)
          BY <1>4, <5>1 DEF TextsBefore, n
        <5> QED BY <1>6, <5>1, <5>2
      <4>3. t[0] = <<>>
        BY <1>4 DEF TextsBefore
      <4> QED BY <4>1, <4>2, <4>3 DEF TextsBefore
    <3>2. TextsDone(st, g, t)
      <4>1. Texts(g.tokens) = t[Len(st) - 1] \o DoneText(st[Len(st)].datum, st[Len(st)].curIdx)
        BY <2>8, <2>11 DEF a, done
      <4>2. ~(st[Len(st)].curIdx = 0)
        BY <2>11
      <4> QED BY <4>1, <4>2, Zenon DEF TextsDone
    <3> QED BY <3>1, <3>2 DEF TextsOf
  <2> QED BY <1>5, <2>9, <2>10, <2>13, <2>14 DEF Walking, st, g
<1> QED BY <1>8, <1>9

-----------------------------------------------------------------------------
\* While the datums stay, so do the texts and what they say of a stack and of
\* tokens ...
LEMMA SameTexts ==
  ASSUME datums' = datums
  PROVE  /\ Spelled' = Spelled /\ \A d : Kids(d)' = Kids(d)
         /\ \A st, g : OpenersOf(st, g)' <=> OpenersOf(st, g)
         /\ \A st, g : TextsOf(st, g)' <=> TextsOf(st, g)
<1>1. Spelled' = Spelled
  <2>1. Spelled' = Spellings(datums')
    BY DEF Spelled, Spellings, SpellingOf, PiecesOf, PieceOf, PartOf, KeyText
  <2> QED BY <2>1, SpelledIs
<1>2. \A d : OpeningText(d)' = OpeningText(d) /\ OpenerType(d)' = OpenerType(d)
             /\ Kids(d)' = Kids(d)
  BY Zenon DEF OpeningText, OpenerType, Kids
<1>3. \A d, c : DoneText(d, c)' = DoneText(d, c)
  BY <1>1, <1>2 DEF DoneText, Inner
<1>4. \A d, c : BeforeText(d, c)' = BeforeText(d, c)
  BY <1>2, <1>3, Zenon DEF BeforeText
<1>5. \A st, g : OpenersOf(st, g)' <=> OpenersOf(st, g)
  BY <1>2 DEF OpenersOf
<1>6. \A st, g : TextsOf(st, g)' <=> TextsOf(st, g)
  <2>1. \A st, t : TextsBefore(st, t)' <=> TextsBefore(st, t)
    BY <1>4 DEF TextsBefore
  <2>2. \A st, g, t : TextsDone(st, g, t)' <=> TextsDone(st, g, t)
    BY <1>3 DEF TextsDone
  <2> QED BY <2>1, <2>2 DEF TextsOf
<1> QED BY <1>1, <1>2, <1>5, <1>6

\* ... and with the root, what the walk says of them.
LEMMA SameWalking ==
  ASSUME datums' = datums, root' = root
  PROVE  /\ \A st, g : Walking(st, g)' <=> Walking(st, g)
         /\ \A g : Spells(g)' <=> Spells(g)
<1>1. /\ Spelled' = Spelled /\ \A d : Kids(d)' = Kids(d)
      /\ \A st, g : OpenersOf(st, g)' <=> OpenersOf(st, g)
      /\ \A st, g : TextsOf(st, g)' <=> TextsOf(st, g)
  BY SameTexts
<1>2. \A st : Chain(st)' <=> Chain(st)
  BY <1>1 DEF Chain
<1>3. \A g : Spells(g)' <=> Spells(g)
  BY <1>1 DEF Spells
<1> QED BY <1>1, <1>2, <1>3 DEF Walking

\* No tokens are in order.
LEMMA NoTokensAre ==
  GenTokens(NoTokens) /\ Ready(NoTokens) /\ Texts(NoTokens.tokens) = <<>>
<1> DEFINE T == NoTokens.tokens
<1>1. /\ NoTokens = [tokens |-> T, openers |-> NoTokens.openers, first |-> NoTokens.first]
      /\ T = <<>> /\ NoTokens.openers = <<>> /\ NoTokens.first = TRUE
  BY DEF NoTokens
<1>2. IsSequence(T) /\ Len(T) = 0 /\ IsSequence(<<>>) /\ Len(<<>>) = 0
  BY <1>1, NoneIs
<1>3. (\A i \in 1 .. 0 : FALSE) /\ (\A i \in 1 .. 0 - 1 : FALSE)
  OBVIOUS
<1> HIDE DEF T
<1>4. OpensAt(T) = {}
  BY <1>2, <1>3 DEF OpensAt
<1>5. Brackets(T)
  <2>1. TokensTyped(T)
    BY <1>2, <1>3 DEF TokensTyped
  <2>2. Paired(T) /\ Flagged(T)
    BY <1>2, <1>3, <1>4 DEF Paired, Flagged
  <2>3. Separate(T)
    BY <1>2, <1>3 DEF Separate
  <2> QED BY <2>1, <2>2, <2>3 DEF Brackets
<1>6. Opened(T, <<>>)
  BY <1>2, <1>3, <1>4 DEF Opened
<1>7. GenTokens(NoTokens)
  BY <1>1, <1>2, <1>3, <1>5, <1>6 DEF GenTokens, GenInv, T
<1>8. Texts(T) = <<>>
  BY <1>2, TextsAre, NoneIs, SameSequence
<1> QED BY <1>1, <1>7, <1>8 DEF Ready, T

\* The walk begins at the root, before any token.
LEMMA WalkBegins ==
  ASSUME DataInv, WalkInv, NEW d \in 1 .. Len(datums), SerializeDataTree(d)
  PROVE  WalkInv'
<1> DEFINE st == <<DFSLevel(d)>>
           l == DFSLevel(d)
<1>1. /\ phase = "build" /\ NotPrinting /\ phase' = "serialize" /\ root' = d
      /\ dfsStack' = st /\ datums' = datums /\ gen' = NoTokens /\ pr' = pr
  BY DEF WalkInv, SerializeDataTree
<1>2. Len(st) = 1 /\ st[1] = l /\ st # <<>>
  <2> HIDE DEF l
  <2>1. Len(<<l>>) = 1 /\ <<l>>[1] = l /\ <<l>> # <<>>
    OBVIOUS
  <2> QED BY <2>1 DEF l
<1>3. l.datum = d /\ l.curIdx = 0
  BY DEF DFSLevel
<1>4. NoTokens.openers = <<>> /\ NoTokens.first = TRUE
  BY DEF NoTokens
<1> HIDE DEF st, l
<1>5. /\ \A e : Kids(e)' = Kids(e)
      /\ \A s, g : OpenersOf(s, g)' <=> OpenersOf(s, g)
      /\ \A s, g : TextsOf(s, g)' <=> TextsOf(s, g)
  BY <1>1, SameTexts
<1>6. \A i \in 1 .. 0 : FALSE
  OBVIOUS
<1>7. Chain(dfsStack)'
  <2>1. Len(Kids(d)) \in Nat
    BY EntryIs DEF Kids, DataInv
  <2>2. ASSUME NEW k \in 1 .. Len(dfsStack')
        PROVE  dfsStack'[k].curIdx <= Len(Kids(dfsStack[k].datum)')
    <3>1. k = 1
      BY <1>1, <1>2
    <3>2. dfsStack'[k].datum = d /\ dfsStack'[k].curIdx = 0
      BY <1>1, <1>2, <1>3, <3>1
    <3>3. Kids(dfsStack[k].datum)' = Kids(d)
      BY <1>1, <3>2 DEF Kids
    <3> QED BY <2>1, <3>2, <3>3
  <2>3. \A k \in 1 .. Len(dfsStack') - 1 : FALSE
    BY <1>1, <1>2
  <2>4. dfsStack'[1].datum = root'
    BY <1>1, <1>2, <1>3
  <2> QED BY <2>2, <2>3, <2>4 DEF Chain
<1>8. OpenersOf(st, NoTokens)
  <2>1. OpenLevels(st) = 0
    BY <1>2, <1>3 DEF OpenLevels
  <2>2. Len(NoTokens.openers) = 0
    BY <1>4, NoneIs
  <2> QED BY <1>2, <1>3, <1>4, <1>6, <2>1, <2>2 DEF OpenersOf
<1>9. TextsOf(st, NoTokens)
  <2> DEFINE t == [k \in 0 .. 0 |-> <<>>]
  <2>1. t[0] = <<>>
    OBVIOUS
  <2> HIDE DEF t
  <2>2. TextsBefore(st, t)
    <3>1. \A k \in 0 .. Len(st) - 1 : k = 0
      BY <1>2
    <3>2. \A k \in 1 .. Len(st) - 1 : FALSE
      BY <1>2
    <3> QED BY <2>1, <3>1, <3>2, NoneIs DEF TextsBefore
  <2>3. TextsDone(st, NoTokens, t)
    <3>1. st[Len(st)].curIdx = 0 /\ Len(st) - 1 = 0
      BY <1>2, <1>3
    <3>2. SeparatedTexts(NoTokens) = <<>>
      BY <1>4, NoTokensAre, Zenon DEF SeparatedTexts
    <3> QED BY <2>1, <3>1, <3>2, Zenon DEF TextsDone
  <2> QED BY <2>2, <2>3 DEF TextsOf
<1>10. OpenersOf(dfsStack, gen)' /\ TextsOf(dfsStack, gen)'
  BY <1>1, <1>5, <1>8, <1>9
<1>11. Walking(dfsStack, gen)'
  <2>1. dfsStack' # <<>>
    BY <1>1, <1>2
  <2>2. GenTokens(gen)' /\ Ready(gen)'
    BY <1>1, NoTokensAre DEF GenTokens, Ready
  <2> QED BY <1>7, <1>10, <2>1, <2>2 DEF Walking
<1> QED BY <1>1, <1>11 DEF WalkInv, NotPrinting

\* What the walk has made says what is done of the tree: the tokens are nested,
\* the levels are the compounds that are open, and at the end the tokens spell
\* the root.
THEOREM WalkInvariant == DataSpec => []WalkInv
<1>1. DataInit => WalkInv
  BY DEF DataInit, WalkInv, NoTokens, NotPrinting
<1>2. DataInv /\ WalkInv /\ [DataNext]_dataVars => WalkInv'
  <2> SUFFICES ASSUME DataInv, WalkInv, [DataNext]_dataVars PROVE WalkInv'
    OBVIOUS
  <2>1. CASE Build
    <3>1. phase' = "build" /\ phase = "build" /\ dfsStack' = dfsStack /\ gen' = gen /\ pr' = pr
      BY <2>1 DEF Build, Create, List_InsertEntry, List_SetEntry, Dictionary_SetEntry, SetChildren
    <3> QED BY <3>1 DEF WalkInv, NotPrinting
  <2>2. ASSUME NEW d \in DOMAIN datums, SerializeDataTree(d)
        PROVE  WalkInv'
    <3>1. d \in 1 .. Len(datums)
      BY DEF DataInv, DatumsInv, IsSequence
    <3> QED BY <2>2, <3>1, WalkBegins
  <2>3. CASE NextChild
    <3>1. /\ phase = "serialize" /\ phase' = "serialize" /\ datums' = datums /\ root' = root
          /\ pr' = pr
      BY <2>3 DEF NextChild
    <3>2. Walking(dfsStack, gen) /\ NotPrinting
      BY <3>1 DEF WalkInv
    <3>3. Walking(dfsStack', gen')
      BY <2>3, <3>2, ChildTokens
    <3>4. Walking(dfsStack, gen)'
      BY <3>1, <3>3, SameWalking
    <3> QED BY <3>1, <3>2, <3>4 DEF WalkInv, NotPrinting
  <2>4. CASE PopDFS
    <3>1. /\ phase = "serialize" /\ phase' = "serialize" /\ datums' = datums /\ root' = root
          /\ pr' = pr
      BY <2>4 DEF PopDFS
    <3>2. Walking(dfsStack, gen) /\ NotPrinting
      BY <3>1 DEF WalkInv
    <3>3. Walking(dfsStack', gen')
      BY <2>4, <3>2, PopTokens
    <3>4. Walking(dfsStack, gen)'
      BY <3>1, <3>3, SameWalking
    <3> QED BY <3>1, <3>2, <3>4 DEF WalkInv, NotPrinting
  <2>5. ASSUME NEW sameLineElements \in BOOLEAN, PrintJsonIndented(sameLineElements)
        PROVE  WalkInv'
    <3>1. /\ phase = "serialize" /\ phase' = "print" /\ datums' = datums /\ root' = root
          /\ gen' = gen /\ dfsStack = <<>>
      BY <2>5 DEF PrintJsonIndented
    <3>2. GenTokens(gen) /\ Spells(gen)
      BY <3>1 DEF WalkInv, Walking
    <3>3. Spells(gen)'
      BY <3>1, <3>2, SameWalking
    <3>4. GenTokens(gen)'
      BY <3>1, <3>2 DEF GenTokens
    <3> QED BY <3>1, <3>3, <3>4 DEF WalkInv
  <2>6. CASE PrintToken
    <3>1. /\ phase = "print" /\ phase' \in {"print", "done", "thrown"}
          /\ datums' = datums /\ root' = root /\ gen' = gen
      BY <2>6 DEF PrintToken
    <3>2. GenTokens(gen) /\ Spells(gen)
      BY <3>1 DEF WalkInv
    <3>3. Spells(gen)'
      BY <3>1, <3>2, SameWalking
    <3>4. GenTokens(gen)'
      BY <3>1, <3>2 DEF GenTokens
    <3> QED BY <3>1, <3>3, <3>4 DEF WalkInv
  <2>7. CASE UNCHANGED dataVars
    <3>1. /\ phase' = phase /\ datums' = datums /\ root' = root /\ gen' = gen /\ pr' = pr
          /\ dfsStack' = dfsStack
      BY <2>7 DEF dataVars
    <3>2. \A st, g : Walking(st, g)' <=> Walking(st, g)
      BY <3>1, SameWalking
    <3>3. \A g : Spells(g)' <=> Spells(g)
      BY <3>1, SameWalking
    <3>4. Walking(dfsStack, gen)' <=> Walking(dfsStack, gen)
      BY <3>1, <3>2
    <3>5. Spells(gen)' <=> Spells(gen)
      BY <3>1, <3>3
    <3>6. GenTokens(gen)' <=> GenTokens(gen)
      BY <3>1 DEF GenTokens
    <3> QED BY <3>1, <3>4, <3>5, <3>6 DEF WalkInv, NotPrinting
  <2> QED BY <2>1, <2>2, <2>3, <2>4, <2>5, <2>6, <2>7 DEF DataNext
<1> QED BY <1>1, <1>2, DataInvariant, PTL DEF DataSpec

-----------------------------------------------------------------------------
(* Tokens of which none is open any more                                   *)

NoneOpen(T) == \A i \in OpensAt(T) : ~IsOpen(T, i)

\* Every opener has its closer, every closer its opener, and they are nested.
LEMMA ClosersAre ==
  ASSUME NEW T, Brackets(T), NoneOpen(T)
  PROVE  /\ Len(T) \in Nat
         /\ \A i \in OpensAt(T) :
              /\ i \in 1 .. Len(T) /\ T[i].idxComplement \in 1 .. Len(T)
              /\ T[i].tokenType \in Openers
              /\ i < T[i].idxComplement
              /\ T[T[i].idxComplement].tokenType = "Closer"
              /\ T[T[i].idxComplement].idxComplement = i
         /\ \A e \in 1 .. Len(T) : T[e].tokenType = "Closer" =>
              T[e].idxComplement \in OpensAt(T) /\ T[T[e].idxComplement].idxComplement = e
         /\ \A i, j \in OpensAt(T) : Between(T, i, j) <=> i < j /\ j < T[i].idxComplement
         /\ \A i, j \in OpensAt(T) : i < j /\ j < T[i].idxComplement =>
              T[j].idxComplement < T[i].idxComplement
<1>1. Paired(T)
  BY DEF Brackets
<1>2. \A i \in OpensAt(T) :
        /\ Len(T) \in Nat /\ i \in 1 .. Len(T) /\ T[i].idxComplement \in 1 .. Len(T)
  BY ClosedWithin DEF NoneOpen
<1>3. Len(T) \in Nat
  BY DEF Brackets, TokensTyped, IsSequence
<1>4. \A i \in OpensAt(T) :
        /\ T[i].tokenType \in Openers
        /\ i < T[i].idxComplement
        /\ T[T[i].idxComplement].tokenType = "Closer"
        /\ T[T[i].idxComplement].idxComplement = i
  BY <1>1 DEF Paired, NoneOpen, OpensAt
<1>5. \A e \in 1 .. Len(T) : T[e].tokenType = "Closer" =>
        T[e].idxComplement \in OpensAt(T) /\ T[T[e].idxComplement].idxComplement = e
  BY <1>1 DEF Paired
<1>6. \A i, j \in OpensAt(T) : Between(T, i, j) <=> i < j /\ j < T[i].idxComplement
  BY DEF Between, NoneOpen
<1>7. \A i, j \in OpensAt(T) : i < j /\ j < T[i].idxComplement =>
        T[j].idxComplement < T[i].idxComplement
  BY <1>1, <1>6 DEF Paired, NoneOpen
<1> QED BY <1>2, <1>3, <1>4, <1>5, <1>6, <1>7

\* What has something in it is full.
LEMMA FullHas ==
  ASSUME NEW T, Brackets(T), NoneOpen(T), NEW i \in OpensAt(T), T[i].hasCompounds
  PROVE  T[i].idxComplement > i + 1
<1>1. PICK k \in OpensAt(T) : Directly(T, i, k)
  BY DEF Brackets, Flagged
<1>2. i < k /\ k < T[i].idxComplement
  BY <1>1, ClosersAre DEF Directly
<1>3. i \in Nat /\ k \in Nat /\ T[i].idxComplement \in Nat
  <2>1. /\ Len(T) \in Nat /\ i \in 1 .. Len(T) /\ k \in 1 .. Len(T)
        /\ T[i].idxComplement \in 1 .. Len(T)
    BY ClosersAre
  <2> QED BY <2>1
<1> QED BY <1>2, <1>3

\* A set of numbers that is not empty has a least one.
LEMMA LeastOf ==
  ASSUME NEW n \in Nat, NEW S, S \subseteq 1 .. n, S # {}
  PROVE  \E k \in S : \A l \in S : k <= l
<1> SUFFICES ASSUME ~\E k \in S : \A l \in S : k <= l
             PROVE  FALSE
  OBVIOUS
<1> DEFINE P == {k \in 0 .. n : \A l \in S : l > k}
<1>1. 0 \in P
  OBVIOUS
<1>2. ASSUME NEW k \in 0 .. n - 1, k \in P
      PROVE  k + 1 \in P
  <2>1. \A l \in S : l \in 1 .. n /\ l > k
    BY <1>2
  <2>2. \A l \in S : l >= k + 1
    BY <2>1
  <2>3. k + 1 \notin S
    BY <2>2
  <2>4. \A l \in S : l > k + 1
    BY <2>1, <2>2, <2>3
  <2> QED BY <2>4
<1> HIDE DEF P
<1>3. \A k \in 0 .. n : k \in P
  BY <1>1, <1>2, AllUpTo
<1>4. n \in P
  BY <1>3
<1>5. \A l \in S : l > n /\ l \in 1 .. n
  BY <1>4 DEF P
<1>6. PICK l \in S : TRUE
  OBVIOUS
<1> QED BY <1>5, <1>6

\* What has something full in it, not only directly, has compounds: the
\* outermost full one is directly in it.
LEMMA HasFull ==
  ASSUME NEW T, Brackets(T), NoneOpen(T), NEW i \in OpensAt(T), NEW j \in OpensAt(T),
         i < j, j < T[i].idxComplement, T[j].idxComplement > j + 1
  PROVE  T[i].hasCompounds
<1> DEFINE O == OpensAt(T)
           end(k) == T[k].idxComplement
           within(k, l) == k < l /\ l < end(k)
           S == {k \in O : within(i, k) /\ (k = j \/ within(k, j))}
           n == Len(T)
<1>1. n \in Nat /\ \A k \in O : k \in 1 .. n /\ end(k) \in 1 .. n
  BY ClosersAre
<1>2. \A k, l \in O : within(k, l) => end(l) < end(k)
  BY ClosersAre
<1> HIDE DEF O, end, n
<1>3. PICK k \in S : \A l \in S : k <= l
  <2>1. j \in S
    BY DEF O, end
  <2>2. S \subseteq 1 .. n
    BY <1>1
  <2> HIDE DEF S
  <2> QED BY <1>1, <2>1, <2>2, LeastOf
<1>4. k \in O /\ within(i, k) /\ (k = j \/ within(k, j))
  BY <1>3
<1>5. i \in O /\ j \in O /\ end(j) > j + 1
  BY DEF O, end
<1>6. ASSUME NEW l \in O, within(i, l), within(l, k)
      PROVE  FALSE
  <2>1. within(l, j)
    <3>1. CASE k = j
      BY <1>6, <3>1
    <3>2. CASE within(k, j)
      <4>1. end(k) < end(l)
        BY <1>2, <1>4, <1>6
      <4>2. j \in Nat /\ k \in Nat /\ l \in Nat /\ end(k) \in Nat /\ end(l) \in Nat
        BY <1>1, <1>4, <1>5
      <4> QED BY <1>6, <3>2, <4>1, <4>2
    <3> QED BY <1>4, <3>1, <3>2
  <2>2. l \in S
    BY <1>6, <2>1
  <2>3. k <= l
    BY <1>3, <2>2
  <2>4. k \in Nat /\ l \in Nat
    BY <1>1, <1>4
  <2> QED BY <1>6, <2>3, <2>4
<1>7. end(k) > k + 1
  <2>1. CASE k = j
    BY <1>5, <2>1
  <2>2. CASE within(k, j)
    <3>1. j \in Nat /\ k \in Nat /\ end(k) \in Nat
      BY <1>1, <1>4, <1>5
    <3> QED BY <2>2, <3>1
  <2> QED BY <1>4, <2>1, <2>2
<1> HIDE DEF S
<1>8. Directly(T, i, k) /\ IsFull(T, k)
  <2>1. \A a, b \in OpensAt(T) : Between(T, a, b) <=> a < b /\ b < T[a].idxComplement
    BY ClosersAre
  <2> QED BY <1>4, <1>5, <1>6, <1>7, <2>1 DEF Directly, IsFull, O, end
<1> QED BY <1>4, <1>8 DEF Brackets, Flagged, O

\* The tokens spell the tree that was serialized, and know each other.
LEMMA SpellsTree ==
  ASSUME DataInv, WalkInv
  PROVE  TokensSpellTree
<1> SUFFICES ASSUME phase \in {"print", "done", "thrown"}
             PROVE  TokensSpellTree
  BY DEF TokensSpellTree
<1> DEFINE T == gen.tokens
           end(i) == T[i].idxComplement
           inside(i, j) == i < j /\ end(j) < end(i)
<1>1. GenTokens(gen) /\ Spells(gen)
  BY DEF WalkInv
<1>2. IsSequence(T) /\ Brackets(T) /\ Opened(T, <<>>)
  BY <1>1 DEF GenTokens, GenInv, Spells
<1>3. NoneOpen(T)
  <2>1. \A k \in 1 .. 0 : FALSE
    OBVIOUS
  <2> QED BY <1>2, <2>1, NoneIs DEF NoneOpen, Opened
<1>4. DOMAIN T = 1 .. Len(T)
  BY <1>2 DEF IsSequence
<1>5. [i \in DOMAIN T |-> T[i].sToken] = Spelled[root]
  BY <1>1, <1>4 DEF Spells, Texts
<1>6. OpensAt(T) = {i \in DOMAIN T : T[i].tokenType \in Openers}
  BY <1>4 DEF OpensAt
<1> HIDE DEF T
<1>7. \A i \in OpensAt(T) : i \in Nat /\ end(i) \in Nat
  <2>1. Len(T) \in Nat /\ \A i \in OpensAt(T) : i \in 1 .. Len(T) /\ end(i) \in 1 .. Len(T)
    BY <1>2, <1>3, ClosersAre
  <2> QED BY <2>1
<1>8. \A i, j \in OpensAt(T) : Between(T, i, j) <=> inside(i, j)
  <2>1. /\ \A i, j \in OpensAt(T) : Between(T, i, j) <=> i < j /\ j < end(i)
        /\ \A i, j \in OpensAt(T) : i < j /\ j < end(i) => end(j) < end(i)
        /\ \A j \in OpensAt(T) : j < end(j)
    BY <1>2, <1>3, ClosersAre
  <2> HIDE DEF end
  <2> QED BY <1>7, <2>1
<1>9. ASSUME NEW i \in OpensAt(T)
      PROVE  /\ i < end(i) /\ T[end(i)].tokenType = "Closer"
             /\ T[end(i)].idxComplement = i
             /\ \A j \in OpensAt(T) : i < j => end(j) < end(i) \/ end(i) < j
             /\ T[i].hasCompounds <=>
                  \E j \in OpensAt(T) :
                    /\ inside(i, j) /\ end(j) > j + 1
                    /\ ~\E k \in OpensAt(T) : inside(i, k) /\ inside(k, j)
  <2>1. i < end(i) /\ T[end(i)].tokenType = "Closer" /\ T[end(i)].idxComplement = i
    BY <1>2, <1>3, ClosersAre
  <2>2. ASSUME NEW j \in OpensAt(T), i < j
        PROVE  end(j) < end(i) \/ end(i) < j
    <3>1. T[j].tokenType \in Openers
      BY DEF OpensAt
    <3>2. end(i) # j
      BY <2>1, <3>1 DEF Openers
    <3>3. j < end(i) => end(j) < end(i)
      BY <1>2, <1>3, <2>2, ClosersAre
    <3>4. end(i) \in Nat /\ j \in Nat
      BY <1>7
    <3> HIDE DEF end
    <3> QED BY <3>2, <3>3, <3>4
  <2>3. \A j \in OpensAt(T) : IsFull(T, j) <=> end(j) > j + 1
    BY <1>3 DEF IsFull, NoneOpen
  <2>4. \A j \in OpensAt(T) :
          Directly(T, i, j) <=> /\ inside(i, j)
                                /\ ~\E k \in OpensAt(T) : inside(i, k) /\ inside(k, j)
    <3> HIDE DEF inside
    <3> QED BY <1>8 DEF Directly
  <2>5. T[i].hasCompounds <=> \E j \in OpensAt(T) : Directly(T, i, j) /\ IsFull(T, j)
    BY <1>2 DEF Brackets, Flagged
  <2> HIDE DEF inside
  <2>6. T[i].hasCompounds <=>
          \E j \in OpensAt(T) :
            /\ inside(i, j) /\ end(j) > j + 1
            /\ ~\E k \in OpensAt(T) : inside(i, k) /\ inside(k, j)
    <3> HIDE DEF end
    <3> QED BY <2>3, <2>4, <2>5
  <2> QED BY <2>1, <2>2, <2>6
<1>10. gen.openers = <<>>
  BY <1>1 DEF Spells
<1> DEFINE openers == {i \in DOMAIN T : T[i].tokenType \in Openers}
           known(i) ==
             /\ i < end(i) /\ T[end(i)].tokenType = "Closer"
             /\ T[end(i)].idxComplement = i
             /\ \A j \in openers : i < j => end(j) < end(i) \/ end(i) < j
             /\ T[i].hasCompounds <=>
                  \E j \in openers :
                    /\ inside(i, j) /\ end(j) > j + 1
                    /\ ~\E k \in openers : inside(i, k) /\ inside(k, j)
<1>11. \A i \in openers : known(i)
  <2>1. OpensAt(T) = openers
    BY <1>6
  <2> HIDE DEF openers, inside, end
  <2> QED BY <1>9, <2>1
<1> QED BY <1>5, <1>10, <1>11, Zenon DEF TokensSpellTree, T

-----------------------------------------------------------------------------
(* The printer: the compounds around a token, and the lines                *)

\* Elements of the compound that opened at j are on lines of their own.
OwnLines(T, same, j) == ~same \/ T[j].hasCompounds

\* The compounds that are open where token p is printed ...
Around(T, p) == {j \in OpensAt(T) : j < p /\ p <= T[j].idxComplement}

\* ... those of them that indent it, if it is not their closer ...
Shown(T, same, p) ==
  {j \in OpensAt(T) : j < p /\ p < T[j].idxComplement /\ OwnLines(T, same, j)}

\* ... and those that are open where the line after it begins.
Nested(T, p) == {j \in OpensAt(T) : j <= p /\ p + 1 < T[j].idxComplement}

\* The stack of the printer has the compounds around, from the outermost to the
\* innermost.
Stacked(T, s, p) ==
  /\ IsSequence(s)
  /\ \A k \in 1 .. Len(s) : s[k] \in Around(T, p)
  /\ \A k, l \in 1 .. Len(s) : k < l => s[k] < s[l]
  /\ \A j \in Around(T, p) : \E k \in 1 .. Len(s) : s[k] = j

\* Indentation is told of layouts in which an empty compound does not indent.
Regular(T, same) == same \/ \A i \in OpensAt(T) : T[i].idxComplement > i + 1

Follows(T, p) == p < Len(T) /\ T[p + 1].tokenType = "Closer"

\* Where the innermost compound is on the stack ...
LEMMA StackLast ==
  ASSUME NEW T, Brackets(T), NoneOpen(T), NEW p \in Nat, NEW s, Stacked(T, s, p),
         NEW o, o \in Around(T, p), \A j \in Around(T, p) : j <= o
  PROVE  s # <<>> /\ Last(s) = o /\ Len(s) \in Nat /\ Len(s) \in 1 .. Len(s)
<1> DEFINE n == Len(s)
<1>1. IsSequence(s) /\ n \in Nat
  BY DEF Stacked, IsSequence
<1>2. PICK k \in 1 .. n : s[k] = o
  BY DEF Stacked
<1>3. n # 0 /\ n \in 1 .. n
  BY <1>1, <1>2
<1>4. s # <<>>
  BY <1>3
<1>5. s[n] \in Around(T, p) /\ (k < n => s[k] < s[n])
  BY <1>3 DEF Stacked
<1>6. \A j \in Around(T, p) : j \in Nat
  <2>1. Len(T) \in Nat /\ \A i \in OpensAt(T) : i \in 1 .. Len(T)
    BY ClosersAre
  <2> QED BY <2>1 DEF Around
<1>7. s[n] = o
  <2>1. s[n] <= o /\ s[n] \in Nat /\ o \in Nat
    BY <1>5, <1>6
  <2>2. k = n \/ k < n
    BY <1>1
  <2>3. CASE k = n
    BY <1>2, <2>3
  <2>4. CASE k < n
    BY <1>2, <1>5, <2>1, <2>4
  <2> QED BY <2>2, <2>3, <2>4
<1> QED BY <1>1, <1>3, <1>4, <1>7 DEF Last

\* ... and the one around it.
LEMMA StackOuter ==
  ASSUME NEW T, Brackets(T), NoneOpen(T), NEW p \in Nat, NEW s, Stacked(T, s, p),
         NEW o, o \in Around(T, p), \A j \in Around(T, p) : j <= o,
         NEW q, q \in Around(T, p), q < o, \A j \in Around(T, p) : j <= q \/ j = o
  PROVE  Len(s) >= 2 /\ s[Len(s) - 1] = q
<1> DEFINE n == Len(s)
<1>1. n \in Nat /\ n \in 1 .. n /\ s[n] = o
  BY StackLast DEF Last
<1>2. PICK k \in 1 .. n : s[k] = q
  BY DEF Stacked
<1>3. \A j \in Around(T, p) : j \in Nat
  <2>1. Len(T) \in Nat /\ \A i \in OpensAt(T) : i \in 1 .. Len(T)
    BY ClosersAre
  <2> QED BY <2>1 DEF Around
<1>4. k # n /\ q \in Nat /\ o \in Nat
  BY <1>1, <1>2, <1>3
<1>5. n >= 2 /\ n - 1 \in 1 .. n /\ k <= n - 1 /\ n - 1 < n
  BY <1>1, <1>4
<1>6. s[n - 1] \in Around(T, p) /\ s[n - 1] < s[n] /\ (k < n - 1 => s[k] < s[n - 1])
  BY <1>1, <1>5 DEF Stacked
<1>7. s[n - 1] \in Nat /\ (s[n - 1] <= q \/ s[n - 1] = o)
  BY <1>3, <1>6
<1>8. s[n - 1] <= q
  BY <1>1, <1>4, <1>6, <1>7
<1>9. s[n - 1] = q
  <2>1. k = n - 1 \/ k < n - 1
    BY <1>1, <1>5
  <2>2. CASE k = n - 1
    BY <1>2, <2>2
  <2>3. CASE k < n - 1
    BY <1>2, <1>4, <1>6, <1>7, <1>8, <2>3
  <2> QED BY <2>1, <2>2, <2>3
<1> QED BY <1>5, <1>9

\* A closer is that of the innermost compound.
LEMMA CloserHas ==
  ASSUME NEW T, Brackets(T), NoneOpen(T), NEW p \in 1 .. Len(T), T[p].tokenType = "Closer"
  PROVE  LET o == T[p].idxComplement IN
           /\ o \in Around(T, p) /\ o \in OpensAt(T) /\ T[o].idxComplement = p
           /\ \A j \in Around(T, p) : j <= o
           /\ Around(T, p + 1) = Around(T, p) \ {o}
<1> DEFINE o == T[p].idxComplement
           end(j) == T[j].idxComplement
           O == OpensAt(T)
<1>1. Len(T) \in Nat /\ p \in Nat
  BY ClosersAre
<1>2. o \in O /\ end(o) = p
  BY ClosersAre
<1>3. \A j \in O : /\ j \in Nat /\ end(j) \in Nat /\ j < end(j)
                   /\ T[j].tokenType \in Openers /\ T[end(j)].idxComplement = j
  <2>1. \A j \in O : /\ j \in 1 .. Len(T) /\ end(j) \in 1 .. Len(T) /\ j < end(j)
                     /\ T[j].tokenType \in Openers /\ T[end(j)].idxComplement = j
    BY ClosersAre
  <2> QED BY <1>1, <2>1
<1>4. \A j \in O : o < j /\ j < p => end(j) < p
  <2>1. \A j \in O : o < j /\ j < end(o) => end(j) < end(o)
    BY <1>2, ClosersAre
  <2> QED BY <1>2, <2>1
<1>5. \A j \in O : end(j) = p => j = o
  BY <1>3
<1>6. p \notin O
  BY DEF OpensAt, Openers
<1> HIDE DEF O, end, o
<1>7. Around(T, p) = {j \in O : j < p /\ p <= end(j)}
  BY DEF Around, O, end
<1>8. Around(T, p + 1) = {j \in O : j < p + 1 /\ p + 1 <= end(j)}
  BY DEF Around, O, end
<1>9. o \in Around(T, p)
  BY <1>1, <1>2, <1>3, <1>7
<1>10. \A j \in Around(T, p) : j <= o
  <2>1. ASSUME NEW j \in O, j < p, p <= end(j), ~(j <= o)
        PROVE  FALSE
    <3>1. o < j
      BY <1>2, <1>3, <2>1
    <3> QED BY <1>1, <1>3, <1>4, <2>1, <3>1
  <2> QED BY <1>7, <2>1
<1>11. Around(T, p + 1) = Around(T, p) \ {o}
  <2>1. ASSUME NEW j \in O
        PROVE  j < p + 1 /\ p + 1 <= end(j) <=> j < p /\ p <= end(j) /\ j # o
    <3>1. j # p
      BY <1>6
    <3> QED BY <1>1, <1>2, <1>3, <1>5, <3>1
  <2> QED BY <1>7, <1>8, <2>1
<1> QED BY <1>2, <1>9, <1>10, <1>11 DEF o, O, end

\* An opener is around what comes after it, another token changes nothing.
LEMMA OpenerHas ==
  ASSUME NEW T, Brackets(T), NoneOpen(T), NEW p \in 1 .. Len(T), T[p].tokenType # "Closer"
  PROVE  Around(T, p + 1) = IF p \in OpensAt(T) THEN Around(T, p) \cup {p} ELSE Around(T, p)
<1> DEFINE end(j) == T[j].idxComplement
           O == OpensAt(T)
<1>1. Len(T) \in Nat /\ p \in Nat
  BY ClosersAre
<1>2. \A j \in O : /\ j \in Nat /\ end(j) \in Nat /\ j < end(j)
                   /\ T[end(j)].tokenType = "Closer"
  <2>1. \A j \in O : /\ j \in 1 .. Len(T) /\ end(j) \in 1 .. Len(T) /\ j < end(j)
                     /\ T[end(j)].tokenType = "Closer"
    BY ClosersAre
  <2> QED BY <1>1, <2>1
<1>3. \A j \in O : end(j) # p
  BY <1>2
<1> HIDE DEF O, end
<1>4. Around(T, p) = {j \in O : j < p /\ p <= end(j)}
  BY DEF Around, O, end
<1>5. Around(T, p + 1) = {j \in O : j < p + 1 /\ p + 1 <= end(j)}
  BY DEF Around, O, end
<1>6. ASSUME NEW j \in O
      PROVE  j < p + 1 /\ p + 1 <= end(j) <=> (j < p /\ p <= end(j)) \/ j = p
  BY <1>1, <1>2, <1>3
<1>7. Around(T, p + 1) = IF p \in O THEN Around(T, p) \cup {p} ELSE Around(T, p)
  <2>1. CASE p \in O
    BY <1>4, <1>5, <1>6, <2>1
  <2>2. CASE p \notin O
    BY <1>4, <1>5, <1>6, <2>2
  <2> QED BY <2>1, <2>2
<1> QED BY <1>7 DEF O

\* The stack after a token.
LEMMA StackNext ==
  ASSUME NEW T, Brackets(T), NoneOpen(T), NEW p \in 1 .. Len(T), NEW s, Stacked(T, s, p)
  PROVE  /\ T[p].tokenType \in Openers => Stacked(T, Append(s, p), p + 1)
         /\ T[p].tokenType = "Closer" => s # <<>> /\ Stacked(T, Front(s), p + 1)
         /\ T[p].tokenType \notin Openers \cup {"Closer"} => Stacked(T, s, p + 1)
<1> DEFINE n == Len(s)
<1>1. IsSequence(s) /\ n \in Nat /\ p \in Nat
  BY ClosersAre DEF Stacked, IsSequence
<1>2. \A j \in Around(T, p) : j < p /\ j \in Nat
  <2>1. Len(T) \in Nat /\ \A i \in OpensAt(T) : i \in 1 .. Len(T)
    BY ClosersAre
  <2> QED BY <2>1 DEF Around
<1>3. /\ \A k \in 1 .. n : s[k] \in Around(T, p)
      /\ \A k, l \in 1 .. n : k < l => s[k] < s[l]
      /\ \A j \in Around(T, p) : \E k \in 1 .. n : s[k] = j
  BY DEF Stacked
<1>4. ASSUME T[p].tokenType \in Openers
      PROVE  Stacked(T, Append(s, p), p + 1)
  <2> DEFINE t == Append(s, p)
  <2>1. Around(T, p + 1) = Around(T, p) \cup {p}
    <3>1. T[p].tokenType # "Closer" /\ p \in OpensAt(T)
      BY <1>4 DEF Openers, OpensAt
    <3> QED BY <3>1, OpenerHas
  <2>2. /\ IsSequence(t) /\ Len(t) = n + 1 /\ t[n + 1] = p
        /\ \A k \in 1 .. n : t[k] = s[k]
    BY <1>1, OneMore
  <2> HIDE DEF t, n
  <2>3. \A k \in 1 .. n + 1 : k \in 1 .. n \/ k = n + 1
    BY <1>1
  <2>4. \A k \in 1 .. Len(t) : t[k] \in Around(T, p + 1)
    BY <1>3, <2>1, <2>2, <2>3
  <2>5. ASSUME NEW k \in 1 .. Len(t), NEW l \in 1 .. Len(t), k < l
        PROVE  t[k] < t[l]
    <3>1. k \in 1 .. n
      BY <1>1, <2>2, <2>5
    <3>2. CASE l = n + 1
      BY <1>2, <1>3, <2>2, <3>1, <3>2
    <3>3. CASE l # n + 1
      <4>1. l \in 1 .. n
        BY <2>2, <2>3, <3>3
      <4> QED BY <1>3, <2>2, <2>5, <3>1, <4>1
    <3> QED BY <3>2, <3>3
  <2>6. ASSUME NEW j \in Around(T, p + 1)
        PROVE  \E k \in 1 .. Len(t) : t[k] = j
    <3>1. CASE j = p
      <4>1. n + 1 \in 1 .. n + 1
        BY <1>1
      <4> QED BY <2>2, <3>1, <4>1
    <3>2. CASE j # p
      <4>1. PICK k \in 1 .. n : s[k] = j
        BY <1>3, <2>1, <2>6, <3>2
      <4>2. k \in 1 .. n + 1
        BY <1>1
      <4> QED BY <2>2, <4>1, <4>2
    <3> QED BY <3>1, <3>2
  <2> QED BY <2>2, <2>4, <2>5, <2>6 DEF Stacked, t
<1>5. ASSUME T[p].tokenType = "Closer"
      PROVE  s # <<>> /\ Stacked(T, Front(s), p + 1)
  <2> DEFINE t == Front(s)
             o == T[p].idxComplement
  <2>1. /\ o \in Around(T, p) /\ \A j \in Around(T, p) : j <= o
        /\ Around(T, p + 1) = Around(T, p) \ {o}
    BY <1>5, CloserHas
  <2> HIDE DEF o
  <2>2. s # <<>> /\ s[n] = o /\ n \in 1 .. n
    <3>1. s # <<>> /\ Last(s) = o /\ n \in 1 .. n
      BY <1>1, <2>1, StackLast
    <3> QED BY <3>1 DEF Last
  <2>3. /\ IsSequence(t) /\ Len(t) = n - 1
        /\ \A k \in 1 .. n - 1 : t[k] = s[k]
    <3>1. /\ IsSequence(t) /\ Len(t) = IF n = 0 THEN 0 ELSE n - 1
          /\ \A k \in 1 .. n - 1 : t[k] = s[k]
      BY <1>1, AllButLast
    <3>2. n # 0
      BY <2>2
    <3> QED BY <3>1, <3>2
  <2> HIDE DEF t, n
  <2>4. \A k \in 1 .. n - 1 : k \in 1 .. n /\ k < n
    BY <1>1
  <2>5. ASSUME NEW k \in 1 .. n - 1
        PROVE  t[k] \in Around(T, p + 1)
    <3>1. s[k] \in Around(T, p) /\ s[k] < s[n]
      BY <1>3, <2>2, <2>4
    <3>2. s[k] # o
      BY <1>2, <2>1, <2>2, <3>1
    <3> QED BY <2>1, <2>3, <3>1, <3>2
  <2>6. \A k, l \in 1 .. n - 1 : k < l => t[k] < t[l]
    BY <1>3, <2>3, <2>4
  <2>7. ASSUME NEW j \in Around(T, p + 1)
        PROVE  \E k \in 1 .. n - 1 : t[k] = j
    <3>1. j # o /\ j \in Around(T, p)
      BY <2>1
    <3>2. PICK k \in 1 .. n : s[k] = j
      BY <1>3, <3>1
    <3>3. k # n
      BY <2>2, <3>1, <3>2
    <3>4. k \in 1 .. n - 1
      BY <1>1, <3>3
    <3> QED BY <2>3, <3>2, <3>4
  <2>8. Stacked(T, t, p + 1)
    BY <2>3, <2>5, <2>6, <2>7 DEF Stacked
  <2> QED BY <2>2, <2>8 DEF t
<1>6. ASSUME T[p].tokenType \notin Openers \cup {"Closer"}
      PROVE  Stacked(T, s, p + 1)
  <2>1. Around(T, p + 1) = Around(T, p)
    <3>1. T[p].tokenType # "Closer" /\ p \notin OpensAt(T)
      BY <1>6 DEF OpensAt
    <3> QED BY <3>1, OpenerHas
  <2> QED BY <1>1, <1>3, <2>1 DEF Stacked
<1> QED BY <1>4, <1>5, <1>6

\* What indents after a token.
LEMMA ShownNext ==
  ASSUME NEW T, Brackets(T), NoneOpen(T), NEW p \in 1 .. Len(T), NEW same, Regular(T, same)
  PROVE  /\ p \in OpensAt(T) =>
              /\ p \notin Shown(T, same, p)
              /\ OwnLines(T, same, p) =>
                   T[p].idxComplement > p + 1 /\ Shown(T, same, p + 1) = Shown(T, same, p) \cup {p}
              /\ ~OwnLines(T, same, p) => Shown(T, same, p + 1) = Shown(T, same, p)
         /\ p \notin OpensAt(T) /\ Follows(T, p) =>
              /\ Shown(T, same, p + 1) = Shown(T, same, p) \ {T[p + 1].idxComplement}
              /\ T[p + 1].idxComplement \in Shown(T, same, p)
                   <=> OwnLines(T, same, T[p + 1].idxComplement)
         /\ p \notin OpensAt(T) /\ ~Follows(T, p) =>
              Shown(T, same, p + 1) = Shown(T, same, p)
<1> DEFINE end(j) == T[j].idxComplement
           O == OpensAt(T)
           own(j) == OwnLines(T, same, j)
           n == Len(T)
           q == T[p + 1].idxComplement
<1>1. n \in Nat /\ p \in Nat /\ p <= n
  BY ClosersAre
<1>2. \A j \in O : /\ j \in Nat /\ end(j) \in Nat /\ j < end(j) /\ end(j) <= n
                   /\ T[end(j)].tokenType = "Closer" /\ T[end(j)].idxComplement = j
  <2>1. \A j \in O : /\ j \in 1 .. n /\ end(j) \in 1 .. n /\ j < end(j)
                     /\ T[end(j)].tokenType = "Closer" /\ T[end(j)].idxComplement = j
    BY ClosersAre
  <2> QED BY <1>1, <2>1
<1>3. \A i, j \in O : i < j /\ j < end(i) => end(j) < end(i)
  BY ClosersAre
<1>4. \A j \in O : own(j) => end(j) > j + 1
  <2>1. ASSUME NEW j \in O, own(j) PROVE end(j) > j + 1
    <3>1. CASE T[j].hasCompounds
      BY <3>1, FullHas
    <3>2. CASE ~T[j].hasCompounds
      <4>1. ~same
        BY <2>1, <3>2 DEF OwnLines
      <4> QED BY <4>1 DEF Regular
    <3> QED BY <3>1, <3>2
  <2> QED BY <2>1
<1> HIDE DEF O, end, own, n
<1>5. /\ Shown(T, same, p) = {j \in O : j < p /\ p < end(j) /\ own(j)}
      /\ Shown(T, same, p + 1) = {j \in O : j < p + 1 /\ p + 1 < end(j) /\ own(j)}
  BY DEF Shown, O, end, own
<1>6. ASSUME p \in O
      PROVE  /\ p \notin Shown(T, same, p)
             /\ own(p) => end(p) > p + 1 /\ Shown(T, same, p + 1) = Shown(T, same, p) \cup {p}
             /\ ~own(p) => Shown(T, same, p + 1) = Shown(T, same, p)
  <2>1. ASSUME NEW j \in O
        PROVE  j < p + 1 /\ p + 1 < end(j) /\ own(j) <=>
                 (j < p /\ p < end(j) /\ own(j)) \/ (j = p /\ own(j))
    <3>1. CASE j = p
      BY <1>1, <1>4, <3>1
    <3>2. CASE j # p
      <4>1. j < p /\ p < end(j) => p + 1 < end(j)
        BY <1>1, <1>2, <1>3, <1>6
      <4> QED BY <1>1, <1>2, <3>2, <4>1
    <3> QED BY <3>1, <3>2
  <2>2. p \notin Shown(T, same, p)
    BY <1>1, <1>5
  <2>3. own(p) => Shown(T, same, p + 1) = Shown(T, same, p) \cup {p}
    BY <1>5, <1>6, <2>1
  <2>4. ~own(p) => Shown(T, same, p + 1) = Shown(T, same, p)
    BY <1>5, <2>1
  <2> QED BY <1>4, <1>6, <2>2, <2>3, <2>4
<1>7. ASSUME p \notin O
      PROVE  /\ Follows(T, p) =>
                  /\ Shown(T, same, p + 1) = Shown(T, same, p) \ {q}
                  /\ q \in Shown(T, same, p) <=> own(q)
             /\ ~Follows(T, p) => Shown(T, same, p + 1) = Shown(T, same, p)
  <2>1. \A j \in O : j # p
    BY <1>7
  <2>2. CASE Follows(T, p)
    <3>1. p + 1 \in 1 .. n /\ T[p + 1].tokenType = "Closer"
      BY <1>1, <2>2 DEF Follows, n
    <3>2. q \in O /\ end(q) = p + 1
      BY <3>1, ClosersAre DEF O, end, n
    <3>3. \A j \in O : end(j) = p + 1 <=> j = q
      BY <1>2, <3>2
    <3> HIDE DEF q
    <3>4. ASSUME NEW j \in O
          PROVE  j < p + 1 /\ p + 1 < end(j) /\ own(j) <=>
                   (j < p /\ p < end(j) /\ own(j)) /\ j # q
      BY <1>1, <1>2, <2>1, <3>3
    <3>5. Shown(T, same, p + 1) = Shown(T, same, p) \ {q}
      BY <1>5, <3>4
    <3>6. q \in Shown(T, same, p) <=> own(q)
      <4>1. q < p /\ p < end(q)
        BY <1>1, <1>2, <2>1, <3>2
      <4> QED BY <1>5, <3>2, <4>1
    <3> QED BY <2>2, <3>5, <3>6 DEF q
  <2>3. CASE ~Follows(T, p)
    <3>1. \A j \in O : end(j) # p + 1
      <4>1. ASSUME NEW j \in O, end(j) = p + 1 PROVE FALSE
        <5>1. T[p + 1].tokenType = "Closer" /\ p < n
          BY <1>1, <1>2, <4>1
        <5> QED BY <2>3, <5>1 DEF Follows, n
      <4> QED BY <4>1
    <3>2. ASSUME NEW j \in O
          PROVE  j < p + 1 /\ p + 1 < end(j) /\ own(j) <=> j < p /\ p < end(j) /\ own(j)
      BY <1>1, <1>2, <2>1, <3>1
    <3> QED BY <1>5, <2>3, <3>2
  <2> QED BY <2>2, <2>3
<1> QED BY <1>6, <1>7 DEF O, own, end

\* Where a line of a compound of their own begins, all compounds around it have
\* lines of their own: the lines after it are indented by all of them.
LEMMA AllShown ==
  ASSUME NEW T, Brackets(T), NoneOpen(T), NEW p \in 1 .. Len(T), NEW same,
         NEW k \in OpensAt(T), OwnLines(T, same, k),
         \A j \in Nested(T, p) : j = k \/ (j < k /\ k < T[j].idxComplement)
  PROVE  Shown(T, same, p + 1) = Nested(T, p)
<1>1. ASSUME NEW j \in Nested(T, p) PROVE OwnLines(T, same, j)
  <2>1. CASE j = k
    BY <2>1
  <2>2. CASE ~same
    BY <2>2 DEF OwnLines
  <2>3. CASE j < k /\ k < T[j].idxComplement /\ same
    <3>1. T[k].hasCompounds
      BY <2>3 DEF OwnLines
    <3>2. T[k].idxComplement > k + 1
      BY <3>1, FullHas
    <3>3. j \in OpensAt(T)
      BY DEF Nested
    <3>4. T[j].hasCompounds
      BY <2>3, <3>2, <3>3, HasFull
    <3> QED BY <3>4 DEF OwnLines
  <2> QED BY <2>1, <2>2, <2>3
<1>2. Len(T) \in Nat /\ p \in Nat /\ \A j \in OpensAt(T) : j \in 1 .. Len(T)
  BY ClosersAre
<1>3. \A j \in OpensAt(T) : j < p + 1 <=> j <= p
  BY <1>2
<1> QED BY <1>1, <1>3 DEF Shown, Nested

\* The innermost compound is the last on the stack.
LEMMA StackMax ==
  ASSUME NEW T, NEW p, NEW s, Stacked(T, s, p), Brackets(T), NoneOpen(T), s # <<>>
  PROVE  Last(s) \in Around(T, p) /\ \A j \in Around(T, p) : j <= Last(s)
<1> DEFINE n == Len(s)
<1>1. IsSequence(s)
  BY DEF Stacked
<1>2. n \in Nat /\ n \in 1 .. n
  BY <1>1, HasLast
<1>3. s[n] \in Around(T, p)
  BY <1>2 DEF Stacked
<1>4. \A j \in Around(T, p) : j \in Nat
  <2>1. Len(T) \in Nat /\ \A i \in OpensAt(T) : i \in 1 .. Len(T)
    BY ClosersAre
  <2> QED BY <2>1 DEF Around
<1>5. ASSUME NEW j \in Around(T, p) PROVE j <= s[n]
  <2>1. PICK k \in 1 .. n : s[k] = j
    BY DEF Stacked
  <2>2. k = n \/ k < n
    BY <1>2
  <2>3. k < n => s[k] < s[n]
    BY <1>2 DEF Stacked
  <2>4. j \in Nat /\ s[n] \in Nat
    BY <1>3, <1>4
  <2> QED BY <2>1, <2>2, <2>3, <2>4
<1> QED BY <1>3, <1>5 DEF Last

\* The closer that follows a token that is no opener is of the innermost
\* compound, or of the one around it if the token closes that.
LEMMA FollowerHas ==
  ASSUME NEW T, Brackets(T), NoneOpen(T), NEW p \in 1 .. Len(T), p \notin OpensAt(T),
         Follows(T, p)
  PROVE  LET q == T[p + 1].idxComplement IN
           /\ q \in OpensAt(T) /\ q \in Around(T, p)
           /\ T[p].tokenType # "Closer" => \A j \in Around(T, p) : j <= q
           /\ T[p].tokenType = "Closer" =>
                /\ q < T[p].idxComplement
                /\ \A j \in Around(T, p) : j <= q \/ j = T[p].idxComplement
           /\ \A j \in Nested(T, p) : j < q /\ q < T[j].idxComplement
<1> DEFINE end(j) == T[j].idxComplement
           O == OpensAt(T)
           n == Len(T)
           q == T[p + 1].idxComplement
           o == T[p].idxComplement
<1>1. n \in Nat /\ p \in Nat /\ p <= n
  BY ClosersAre
<1>2. \A j \in O : /\ j \in Nat /\ end(j) \in Nat /\ j < end(j)
                   /\ T[end(j)].tokenType = "Closer" /\ T[end(j)].idxComplement = j
  <2>1. \A j \in O : /\ j \in 1 .. n /\ end(j) \in 1 .. n /\ j < end(j)
                     /\ T[end(j)].tokenType = "Closer" /\ T[end(j)].idxComplement = j
    BY ClosersAre
  <2> QED BY <1>1, <2>1
<1>3. \A i, j \in O : i < j /\ j < end(i) => end(j) < end(i)
  BY ClosersAre
<1>4. q \in O /\ end(q) = p + 1
  <2>1. p + 1 \in 1 .. n /\ T[p + 1].tokenType = "Closer"
    BY <1>1 DEF Follows
  <2> QED BY <2>1, ClosersAre
<1>5. p \notin O
  OBVIOUS
<1>6. T[p].tokenType = "Closer" => o \in O /\ end(o) = p
  BY ClosersAre
<1>7. \A j \in O : end(j) = p => T[p].tokenType = "Closer" /\ j = o
  BY <1>2
<1> HIDE DEF O, end, n, q, o
<1>8. /\ Around(T, p) = {j \in O : j < p /\ p <= end(j)}
      /\ Nested(T, p) = {j \in O : j <= p /\ p + 1 < end(j)}
  BY DEF Around, Nested, O, end
<1>9. q < p /\ q \in Nat
  <2>1. q \in Nat /\ q < p + 1 /\ q # p
    BY <1>2, <1>4, <1>5
  <2> QED BY <1>1, <2>1
<1>10. q \in Around(T, p)
  BY <1>1, <1>4, <1>8, <1>9
<1>11. ASSUME NEW j \in O, q < j, j < p, p <= end(j)
       PROVE  T[p].tokenType = "Closer" /\ j = o
  <2>1. j < end(q)
    BY <1>1, <1>2, <1>4, <1>11
  <2>2. end(j) < p + 1
    BY <1>3, <1>4, <1>11, <2>1
  <2>3. end(j) = p
    BY <1>1, <1>2, <1>11, <2>2
  <2> QED BY <1>7, <2>3
<1>12. ASSUME NEW j \in Around(T, p)
       PROVE  j <= q \/ (T[p].tokenType = "Closer" /\ j = o)
  <2>1. j \in O /\ j < p /\ p <= end(j) /\ j \in Nat
    BY <1>2, <1>8
  <2> QED BY <1>9, <1>11, <2>1
<1>13. T[p].tokenType = "Closer" => q < o
  <2>1. SUFFICES ASSUME T[p].tokenType = "Closer" PROVE q < o
    OBVIOUS
  <2>2. o \in O /\ end(o) = p /\ o \in Nat
    BY <1>2, <1>6, <2>1
  <2>3. o # q
    BY <1>1, <1>4, <2>2
  <2>4. o < q => FALSE
    <3>1. o < q /\ q < end(o) => end(q) < end(o)
      BY <1>3, <1>4, <2>2
    <3> QED BY <1>1, <1>4, <1>9, <2>2, <3>1
  <2> QED BY <1>9, <2>2, <2>3, <2>4
<1>14. ASSUME NEW j \in Nested(T, p)
       PROVE  j < q /\ q < end(j)
  <2>1. j \in O /\ j <= p /\ p + 1 < end(j) /\ j \in Nat /\ end(j) \in Nat
    BY <1>2, <1>8
  <2>2. j < p
    BY <1>1, <1>5, <2>1
  <2>3. ~(q < j)
    <3>1. q < j /\ j < end(q) => end(j) < end(q)
      BY <1>3, <1>4, <2>1
    <3> QED BY <1>1, <1>4, <2>1, <2>2, <3>1
  <2>4. j # q
    BY <1>1, <1>4, <2>1
  <2> QED BY <1>1, <1>9, <2>1, <2>2, <2>3, <2>4
<1> QED BY <1>4, <1>10, <1>12, <1>13, <1>14 DEF O, end, q, o

-----------------------------------------------------------------------------
(* The printer's steps                                                     *)

\* The printer is where its stack says, nothing is out of place, and what it has
\* laid out is indented as it is nested.
Printing ==
  /\ pr.i \in 1 .. Len(gen.tokens) + 1
  /\ Stacked(gen.tokens, pr.compounds, pr.i)
  /\ Regular(gen.tokens, pr.sameLine) =>
       /\ pr.indent = Cardinality(Shown(gen.tokens, pr.sameLine, pr.i))
       /\ \A b \in pr.breaks : /\ b.after \in 1 .. Len(gen.tokens)
                               /\ b.indent = Cardinality(Nested(gen.tokens, b.after))
PrintInv ==
  /\ phase # "thrown"
  /\ phase \in {"print", "done"} => Printing
  /\ phase = "done" => pr.i = Len(gen.tokens) + 1

\* The tokens are those of a tree that is serialized.
LEMMA PrintedTokens ==
  ASSUME DataInv, WalkInv, phase \in {"print", "done"}
  PROVE  Brackets(gen.tokens) /\ NoneOpen(gen.tokens)
<1>1. GenTokens(gen) /\ Spells(gen)
  BY DEF WalkInv
<1>2. Brackets(gen.tokens) /\ Opened(gen.tokens, <<>>)
  BY <1>1 DEF GenTokens, Spells
<1>3. \A k \in 1 .. 0 : FALSE
  OBVIOUS
<1> QED BY <1>2, <1>3, NoneIs DEF NoneOpen, Opened

\* What a token does to the layout: what breaks changes the indentation by what
\* it says and has the compounds around it on lines of their own; what does not
\* changes nothing.
LEMMA LaidOut ==
  ASSUME NEW T, T = gen.tokens, Brackets(T), NoneOpen(T), NEW p \in 1 .. Len(T),
         NEW same, same = pr.sameLine, Stacked(T, pr.compounds, p)
  PROVE  /\ ~OutOfPlace(p)
         /\ Stacked(T, IF T[p].tokenType = "Closer" THEN Front(pr.compounds) ELSE Compounds(p),
                    p + 1)
         /\ AddNewline(p) => Shown(T, same, p + 1) = Nested(T, p)
         /\ Regular(T, same) =>
              LET delta == IF AddNewline(p) THEN IndentDelta(p) ELSE 0
                  now == Shown(T, same, p)
                  next == Shown(T, same, p + 1) IN
              \/ delta = 1 /\ \E j : j \notin now /\ next = now \cup {j}
              \/ delta = 0 /\ next = now
              \/ delta = -1 /\ \E j : j \in now /\ next = now \ {j}
<1> DEFINE O == OpensAt(T)
           c == pr.compounds
           s == Compounds(p)
           type == T[p].tokenType
           own(j) == OwnLines(T, same, j)
           n == Len(T)
           now == Shown(T, same, p)
           next == Shown(T, same, p + 1)
<1>1. /\ n \in Nat /\ p \in Nat /\ p <= n /\ Token(p) = T[p] /\ \A j : OnOwnLines(j) <=> own(j)
      /\ CloserFollows(p) <=> Follows(T, p)
  BY ClosersAre DEF Token, OnOwnLines, OwnLines, CloserFollows, Follows
<1>2. type \in TokenTypes /\ (p \in O <=> type \in Openers)
  BY DEF Brackets, TokensTyped, OpensAt
<1>3. s = IF type \in Openers THEN Append(c, p) ELSE c
  BY <1>1 DEF Compounds
<1>4. /\ type \in Openers => Stacked(T, Append(c, p), p + 1)
      /\ type = "Closer" => c # <<>> /\ Stacked(T, Front(c), p + 1)
      /\ type \notin Openers \cup {"Closer"} => Stacked(T, c, p + 1)
  BY StackNext
<1>5. \A q \in O : own(q) /\ (\A j \in Nested(T, p) : j = q \/ (j < q /\ q < T[j].idxComplement)) =>
        next = Nested(T, p)
  BY AllShown
<1>6. Regular(T, same) =>
        /\ p \in O =>
             /\ p \notin now
             /\ own(p) => T[p].idxComplement > p + 1 /\ next = now \cup {p}
             /\ ~own(p) => next = now
        /\ p \notin O /\ Follows(T, p) =>
             /\ next = now \ {T[p + 1].idxComplement}
             /\ T[p + 1].idxComplement \in now <=> own(T[p + 1].idxComplement)
        /\ p \notin O /\ ~Follows(T, p) => next = now
  BY ShownNext
<1>7. Stacked(T, IF type = "Closer" THEN Front(c) ELSE s, p + 1)
  <2> HIDE DEF s, c
  <2>1. CASE type = "Closer"
    BY <1>4, <2>1
  <2>2. CASE type # "Closer"
    BY <1>2, <1>3, <1>4, <2>2 DEF TokenTypes, Separators
  <2> QED BY <2>1, <2>2
<1>8. Separate(T)
  BY DEF Brackets
<1>9. type \in Separators => ~Follows(T, p)
  <2>1. p < n => p \in 1 .. n - 1
    BY <1>1
  <2> QED BY <1>8, <2>1 DEF Separate, Follows
<1>10. type = "ListSeparator" =>
         c # <<>> /\ Last(c) \in Around(T, p) /\ \A j \in Around(T, p) : j <= Last(c)
  <2> SUFFICES ASSUME type = "ListSeparator"
               PROVE  c # <<>> /\ Last(c) \in Around(T, p) /\ \A j \in Around(T, p) : j <= Last(c)
    OBVIOUS
  <2>1. PICK j \in O : Between(T, j, p)
    BY <1>8 DEF Separate
  <2>2. j \in Around(T, p)
    <3>1. T[j].idxComplement \in Nat
      <4>1. T[j].idxComplement \in 1 .. n
        BY ClosersAre
      <4> QED BY <1>1, <4>1
    <3> QED BY <1>1, <2>1, <3>1 DEF Between, NoneOpen, Around
  <2>3. c # <<>>
    <3>1. PICK k \in 1 .. Len(c) : c[k] = j
      BY <2>2 DEF Stacked
    <3> HIDE DEF c
    <3> QED BY <3>1, NoneIs
  <2> QED BY <2>3, StackMax
<1>11. p \notin O /\ Follows(T, p) =>
         LET q == T[p + 1].idxComplement IN
           /\ q \in O /\ q \in Around(T, p)
           /\ type # "Closer" => c # <<>> /\ Last(c) = q
           /\ type = "Closer" => Len(c) >= 2 /\ c[Len(c) - 1] = q
           /\ \A j \in Nested(T, p) : j < q /\ q < T[j].idxComplement
  <2> DEFINE q == T[p + 1].idxComplement
             o == T[p].idxComplement
  <2> SUFFICES ASSUME p \notin O, Follows(T, p)
               PROVE  /\ q \in O /\ q \in Around(T, p)
                      /\ type # "Closer" => c # <<>> /\ Last(c) = q
                      /\ type = "Closer" => Len(c) >= 2 /\ c[Len(c) - 1] = q
                      /\ \A j \in Nested(T, p) : j < q /\ q < T[j].idxComplement
    OBVIOUS
  <2>1. /\ q \in O /\ q \in Around(T, p)
        /\ type # "Closer" => \A j \in Around(T, p) : j <= q
        /\ type = "Closer" => q < o /\ \A j \in Around(T, p) : j <= q \/ j = o
        /\ \A j \in Nested(T, p) : j < q /\ q < T[j].idxComplement
    BY FollowerHas
  <2>2. type = "Closer" => o \in Around(T, p) /\ \A j \in Around(T, p) : j <= o
    BY CloserHas
  <2> HIDE DEF q, o, c, type
  <2>3. Stacked(T, c, p)
    BY DEF c
  <2>4. type # "Closer" => c # <<>> /\ Last(c) = q
    BY <1>1, <2>1, <2>3, StackLast
  <2>5. type = "Closer" => Len(c) >= 2 /\ c[Len(c) - 1] = q
    BY <1>1, <2>1, <2>2, <2>3, StackOuter
  <2> QED BY <2>1, <2>4, <2>5
<1>12. ASSUME type \in Openers
       PROVE  /\ ~OutOfPlace(p) /\ AddNewline(p) = OnOwnLines(p) /\ IndentDelta(p) = 1
  <2>1. Token(p).tokenType \in {"ListOpener", "DictOpener"}
    BY <1>1, <1>12 DEF Openers
  <2>2. ~OutOfPlace(p)
    BY <2>1 DEF OutOfPlace
  <2>3. AddNewline(p) = OnOwnLines(p)
    BY <2>1 DEF AddNewline, Openers
  <2> QED BY <2>1, <2>2, <2>3 DEF IndentDelta, Openers
<1>13. ASSUME type = "ListSeparator"
       PROVE  /\ ~OutOfPlace(p) /\ AddNewline(p) = OnOwnLines(Last(c)) /\ IndentDelta(p) = 0
  <2>1. s = c /\ c # <<>> /\ Token(p).tokenType = "ListSeparator"
    BY <1>1, <1>3, <1>10, <1>13 DEF Openers
  <2>2. ~OutOfPlace(p)
    BY <2>1 DEF OutOfPlace
  <2>3. AddNewline(p) = OnOwnLines(Last(c))
    BY <2>1 DEF AddNewline, Openers, Innermost
  <2> QED BY <2>1, <2>2, <2>3 DEF IndentDelta, Openers
<1>14. ASSUME type = "DictSeparator"
       PROVE  /\ ~OutOfPlace(p) /\ AddNewline(p) = FALSE
  <2>1. Token(p).tokenType = "DictSeparator"
    BY <1>1, <1>14
  <2>2. ~OutOfPlace(p)
    BY <2>1 DEF OutOfPlace
  <2>3. AddNewline(p) = FALSE
    BY <2>1 DEF AddNewline, Openers
  <2> QED BY <2>2, <2>3
<1>15. ASSUME type = "Value"
       PROVE  /\ ~OutOfPlace(p) /\ IndentDelta(p) = -1
              /\ AddNewline(p) = (c # <<>> /\ CloserFollows(p) /\ OnOwnLines(Last(c)))
  <2>1. s = c /\ Token(p).tokenType = "Value"
    BY <1>1, <1>3, <1>15 DEF Openers
  <2>2. ASSUME c # <<>>, p = n PROVE FALSE
    <3>1. PICK j : j \in Around(T, p)
      BY <2>2, StackMax
    <3>2. /\ j \in O /\ p <= T[j].idxComplement /\ T[j].idxComplement \in 1 .. n
          /\ T[T[j].idxComplement].tokenType = "Closer"
      BY <3>1, ClosersAre DEF Around
    <3>3. T[j].idxComplement = n
      BY <1>1, <2>2, <3>2
    <3> QED BY <1>15, <2>2, <3>2, <3>3
  <2>3. ~OutOfPlace(p)
    BY <2>1, <2>2 DEF OutOfPlace
  <2>4. AddNewline(p) = (c # <<>> /\ CloserFollows(p) /\ OnOwnLines(Last(c)))
    BY <2>1 DEF AddNewline, Openers, Innermost
  <2> QED BY <2>1, <2>3, <2>4 DEF IndentDelta, Openers
<1>16. ASSUME type = "Closer"
       PROVE  /\ ~OutOfPlace(p) /\ IndentDelta(p) = -1
              /\ AddNewline(p) = (CloserFollows(p) /\ OnOwnLines(c[Len(c) - 1]))
  <2>1. s = c /\ Token(p).tokenType = "Closer" /\ c # <<>>
    BY <1>1, <1>3, <1>4, <1>16 DEF Openers
  <2>2. Follows(T, p) => ~(Len(c) < 2)
    <3>1. Follows(T, p) => Len(c) >= 2
      BY <1>2, <1>11, <1>16 DEF Openers
    <3>2. Len(c) \in Nat
      BY DEF Stacked, IsSequence
    <3> QED BY <3>1, <3>2
  <2>3. ~OutOfPlace(p)
    BY <1>1, <2>1, <2>2 DEF OutOfPlace
  <2>4. AddNewline(p) = (CloserFollows(p) /\ OnOwnLines(c[Len(c) - 1]))
    BY <2>1 DEF AddNewline, Openers, Outer
  <2> QED BY <2>1, <2>3, <2>4 DEF IndentDelta, Openers
<1> DEFINE delta == IF AddNewline(p) THEN IndentDelta(p) ELSE 0
           Steps == \/ delta = 1 /\ \E j : j \notin now /\ next = now \cup {j}
                    \/ delta = 0 /\ next = now
                    \/ delta = -1 /\ \E j : j \in now /\ next = now \ {j}
           Done == /\ AddNewline(p) => next = Nested(T, p)
                   /\ Regular(T, same) => Steps
<1>17. CASE type \in Openers
  <2>1. /\ p \in O /\ (AddNewline(p) <=> own(p))
        /\ (AddNewline(p) => delta = 1) /\ (~AddNewline(p) => delta = 0)
    BY <1>1, <1>2, <1>12, <1>17
  <2>2. AddNewline(p) => next = Nested(T, p)
    <3>1. \A j \in Nested(T, p) : j = p \/ (j < p /\ p < T[j].idxComplement)
      <4>1. ASSUME NEW j \in Nested(T, p) PROVE j = p \/ (j < p /\ p < T[j].idxComplement)
        <5>1. j \in O /\ j <= p /\ p + 1 < T[j].idxComplement
          BY DEF Nested
        <5>2. j \in 1 .. n /\ T[j].idxComplement \in 1 .. n
          BY <5>1, ClosersAre
        <5> QED BY <1>1, <5>1, <5>2
      <4> QED BY <4>1
    <3> QED BY <1>5, <2>1, <3>1
  <2>3. Regular(T, same) => Steps
    <3> HIDE DEF delta, now, next, own, O
    <3>1. Regular(T, same) /\ AddNewline(p) => delta = 1 /\ p \notin now /\ next = now \cup {p}
      BY <1>6, <2>1
    <3>2. Regular(T, same) /\ ~AddNewline(p) => delta = 0 /\ next = now
      BY <1>6, <2>1
    <3> QED BY <3>1, <3>2
  <2> HIDE DEF Steps, next
  <2>4. Done
    BY <2>2, <2>3
  <2>5. ~OutOfPlace(p)
    BY <1>12, <1>17
  <2> QED BY <1>7, <2>4, <2>5 DEF Steps, next
<1>18. CASE type \in Separators
  <2>1. /\ p \notin O /\ (AddNewline(p) => own(Last(c)) /\ type = "ListSeparator") /\ delta = 0
        /\ ~OutOfPlace(p)
    BY <1>1, <1>2, <1>13, <1>14, <1>18 DEF Separators, Openers
  <2>2. AddNewline(p) => next = Nested(T, p)
    <3>1. ASSUME type = "ListSeparator", NEW j \in Nested(T, p)
          PROVE  j = Last(c) \/ (j < Last(c) /\ Last(c) < T[j].idxComplement)
      <4>1. j \in O /\ j <= p /\ p + 1 < T[j].idxComplement
        BY DEF Nested
      <4>2. j \in 1 .. n /\ T[j].idxComplement \in 1 .. n
        BY <4>1, ClosersAre
      <4>3. j \in Around(T, p)
        BY <1>1, <2>1, <4>1, <4>2 DEF Around
      <4>4. j <= Last(c) /\ Last(c) < p /\ Last(c) \in 1 .. n
        BY <1>10, <3>1, <4>3, ClosersAre DEF Around
      <4> QED BY <1>1, <4>1, <4>2, <4>4
    <3>2. type = "ListSeparator" => Last(c) \in O
      BY <1>10 DEF Around
    <3> QED BY <1>5, <2>1, <3>1, <3>2
  <2>3. Regular(T, same) => Steps
    <3> HIDE DEF delta, now, next, own, O
    <3> QED BY <1>6, <1>9, <1>18, <2>1
  <2> HIDE DEF Steps, next
  <2>4. Done
    BY <2>2, <2>3
  <2> QED BY <1>7, <2>1, <2>4 DEF Steps, next
<1>19. CASE type \in {"Value", "Closer"}
  <2> DEFINE q == T[p + 1].idxComplement
  <2>1. p \notin O /\ ~OutOfPlace(p) /\ IndentDelta(p) = -1
    BY <1>2, <1>15, <1>16, <1>19 DEF Openers
  <2>2. AddNewline(p) <=> Follows(T, p) /\ own(q)
    <3>1. CASE type = "Value"
      BY <1>1, <1>11, <1>15, <2>1, <3>1
    <3>2. CASE type = "Closer"
      BY <1>1, <1>11, <1>16, <2>1, <3>2
    <3> QED BY <1>19, <3>1, <3>2
  <2>3. AddNewline(p) => next = Nested(T, p)
    BY <1>5, <1>11, <2>1, <2>2
  <2>4. Regular(T, same) => Steps
    <3>1. (AddNewline(p) => delta = -1) /\ (~AddNewline(p) => delta = 0)
      BY <2>1
    <3> HIDE DEF delta, now, next, own, O, q
    <3>2. Regular(T, same) /\ Follows(T, p) => next = now \ {q} /\ (q \in now <=> own(q))
      BY <1>6, <2>1 DEF q
    <3>3. Regular(T, same) /\ ~Follows(T, p) => next = now
      BY <1>6, <2>1
    <3>4. Regular(T, same) /\ AddNewline(p) => delta = -1 /\ q \in now /\ next = now \ {q}
      BY <2>2, <3>1, <3>2
    <3>5. Regular(T, same) /\ ~AddNewline(p) => delta = 0 /\ next = now
      BY <2>2, <3>1, <3>2, <3>3
    <3> QED BY <3>4, <3>5
  <2> HIDE DEF Steps, next
  <2>5. Done
    BY <2>3, <2>4
  <2> QED BY <1>7, <2>1, <2>5 DEF Steps, next
<1>20. type \in Openers \/ type \in Separators \/ type \in {"Value", "Closer"}
  BY <1>2 DEF TokenTypes, Separators
<1> QED BY <1>17, <1>18, <1>19, <1>20

\* One more, one less, or none.
ChangesBy(now, next, delta) ==
  \/ delta = 1 /\ \E j : j \notin now /\ next = now \cup {j}
  \/ delta = 0 /\ next = now
  \/ delta = -1 /\ \E j : j \in now /\ next = now \ {j}

\* What is laid out is counted: a break changes the indentation as the number
\* of compounds that indent.
LEMMA Counted ==
  ASSUME NEW n \in Nat, NEW now, now \subseteq 1 .. n, NEW next, next \subseteq 1 .. n,
         NEW delta, ChangesBy(now, next, delta)
  PROVE  Cardinality(next) = Cardinality(now) + delta
<1>1. IsFiniteSet(now) /\ Cardinality(now) \in Nat
  <2>1. IsFiniteSet(1 .. n)
    BY FS_Interval
  <2>2. IsFiniteSet(now)
    BY <2>1, FS_Subset
  <2> QED BY <2>2, FS_CardinalityType
<1>2. CASE delta = 1
  <2>1. PICK j : j \notin now /\ next = now \cup {j}
    BY <1>2 DEF ChangesBy
  <2>2. Cardinality(next) = Cardinality(now) + 1
    BY <1>1, <2>1, FS_AddElement
  <2> QED BY <1>2, <2>2
<1>3. CASE delta = 0
  BY <1>1, <1>3 DEF ChangesBy
<1>4. CASE delta = -1
  <2>1. PICK j : j \in now /\ next = now \ {j}
    BY <1>4 DEF ChangesBy
  <2>2. Cardinality(next) = Cardinality(now) - 1
    BY <1>1, <2>1, FS_RemoveElement
  <2> QED BY <1>1, <1>4, <2>2
<1> QED BY <1>2, <1>3, <1>4 DEF ChangesBy

\* Nothing is printed yet.
LEMMA PrintBegins ==
  ASSUME DataInv, WalkInv, NEW same \in BOOLEAN, PrintJsonIndented(same)
  PROVE  PrintInv'
<1> DEFINE T == gen.tokens
<1>1. /\ phase = "serialize" /\ phase' = "print" /\ gen' = gen
      /\ pr' = [pr EXCEPT !.sameLine = same] /\ dfsStack = <<>>
  BY DEF PrintJsonIndented
<1>2. /\ pr.i = 1 /\ pr.indent = 0 /\ pr.compounds = <<>> /\ pr.breaks = {}
  BY <1>1 DEF WalkInv, NotPrinting
<1>3. /\ pr'.i = 1 /\ pr'.indent = 0 /\ pr'.compounds = <<>> /\ pr'.breaks = {}
  BY <1>1, <1>2 DEF DataInv, PrinterInv
<1>4. Brackets(T) /\ Len(T) \in Nat
  BY <1>1 DEF WalkInv, Walking, GenTokens, Brackets, TokensTyped, IsSequence
<1>5. \A j \in OpensAt(T) : ~(j < 1)
  BY <1>4 DEF OpensAt
<1>6. Around(T, 1) = {} /\ \A s : Shown(T, s, 1) = {}
  BY <1>5 DEF Around, Shown
<1>7. Stacked(T, <<>>, 1)
  <2>1. \A k \in 1 .. 0 : FALSE
    OBVIOUS
  <2> QED BY <1>6, <2>1, NoneIs DEF Stacked
<1>8. Cardinality({}) = 0
  BY FS_EmptySet
<1>9. 1 \in 1 .. Len(T) + 1
  BY <1>4
<1>10. Printing'
  BY <1>1, <1>3, <1>6, <1>7, <1>8, <1>9 DEF Printing
<1> QED BY <1>1, <1>10 DEF PrintInv

\* A token is laid out as the tokens around it say.
LEMMA TokenPrinted ==
  ASSUME DataInv, WalkInv, PrintInv, PrintToken
  PROVE  PrintInv'
<1> DEFINE T == gen.tokens
           n == Len(T)
           p == pr.i
           c == pr.compounds
           same == pr.sameLine
           breaks == AddNewline(p)
           delta == IF breaks THEN IndentDelta(p) ELSE 0
           level == pr.indent + delta
           now == Shown(T, same, p)
           next == Shown(T, same, p + 1)
           after == IF T[p].tokenType = "Closer" THEN Front(c) ELSE Compounds(p)
           made == IF breaks THEN pr.breaks \cup {[after |-> p, indent |-> level]} ELSE pr.breaks
<1>1. phase = "print" /\ gen' = gen /\ p <= n
  BY DEF PrintToken
<1>2. Brackets(T) /\ NoneOpen(T) /\ n \in Nat /\ Printing
  BY <1>1, PrintedTokens, ClosersAre DEF PrintInv
<1>3. p \in 1 .. n /\ p \in Nat /\ Stacked(T, c, p)
  BY <1>1, <1>2 DEF Printing
<1>4. /\ ~OutOfPlace(p) /\ Stacked(T, after, p + 1)
      /\ breaks => next = Nested(T, p)
      /\ Regular(T, same) =>
           \/ delta = 1 /\ \E j : j \notin now /\ next = now \cup {j}
           \/ delta = 0 /\ next = now
           \/ delta = -1 /\ \E j : j \in now /\ next = now \ {j}
  <2> HIDE DEF p, T
  <2> QED BY <1>2, <1>3, LaidOut DEF T
<1>5. now \subseteq 1 .. n /\ next \subseteq 1 .. n
  BY DEF Shown, OpensAt
<1>6. Regular(T, same) => Cardinality(next) = Cardinality(now) + delta
  <2> HIDE DEF now, next, delta, n
  <2>1. SUFFICES ASSUME Regular(T, same)
                 PROVE  Cardinality(next) = Cardinality(now) + delta
    OBVIOUS
  <2>2. ChangesBy(now, next, delta)
    BY <1>4, <2>1 DEF ChangesBy
  <2>3. n \in Nat /\ now \subseteq 1 .. n /\ next \subseteq 1 .. n
    BY <1>2, <1>5
  <2> QED BY ONLY <2>2, <2>3, Counted
<1>7. /\ phase' = IF p = n THEN "done" ELSE "print"
      /\ pr' = [i |-> p + 1, indent |-> level, compounds |-> after, breaks |-> made,
                sameLine |-> same]
  <2>1. pr = [i |-> pr.i, indent |-> pr.indent, compounds |-> pr.compounds,
              breaks |-> pr.breaks, sameLine |-> pr.sameLine]
    BY DEF DataInv, PrinterInv
  <2>2. /\ phase' = IF p = n THEN "done" ELSE "print"
        /\ pr' = [pr EXCEPT !.i = @ + 1, !.indent = level, !.breaks = made, !.compounds = after]
    BY <1>4 DEF PrintToken, Token
  <2> HIDE DEF level, made, after
  <2> QED BY <2>1, <2>2
<1>8. pr.indent = Cardinality(now) /\ Regular(T, same) => level = Cardinality(next)
  BY <1>6
<1> HIDE DEF level, after, T, n, p, same
<1>9. /\ pr'.i = p + 1 /\ pr'.indent = level /\ pr'.compounds = after /\ pr'.breaks = made
      /\ pr'.sameLine = same
  BY <1>7
<1>10. Regular(T, same) =>
         \A b \in made : b.after \in 1 .. n /\ b.indent = Cardinality(Nested(T, b.after))
  <2>1. SUFFICES ASSUME Regular(T, same), NEW b \in made
                 PROVE  b.after \in 1 .. n /\ b.indent = Cardinality(Nested(T, b.after))
    OBVIOUS
  <2>2. CASE b \in pr.breaks
    BY <1>2, <2>1, <2>2 DEF Printing, T, n, same
  <2>3. CASE b \notin pr.breaks
    <3>1. breaks /\ b = [after |-> p, indent |-> level]
      BY <2>1, <2>3
    <3>2. b.after = p /\ b.indent = level
      BY <3>1
    <3>3. level = Cardinality(Nested(T, p))
      <4>1. pr.indent = Cardinality(now)
        BY <1>2, <2>1 DEF Printing, T, same, p
      <4> QED BY <1>4, <1>8, <2>1, <3>1, <4>1
    <3> QED BY <1>3, <3>2, <3>3
  <2> QED BY <2>2, <2>3
<1>11. Regular(T, same) => level = Cardinality(next)
  BY <1>2, <1>8 DEF Printing, T, same, p
<1>12. gen'.tokens = T
  BY <1>1 DEF T
<1> HIDE DEF made
<1>13. Printing'
  <2>1. p + 1 \in 1 .. n + 1
    BY <1>2, <1>3
  <2> QED BY <1>4, <1>9, <1>10, <1>11, <1>12, <2>1 DEF Printing, n
<1>14. phase' # "thrown" /\ (phase' = "done" => pr'.i = Len(gen'.tokens) + 1)
  BY <1>7, <1>9, <1>12 DEF n
<1> QED BY <1>13, <1>14 DEF PrintInv

\* The printer is never out of place, and lays out what it has printed as it is
\* nested.
THEOREM PrintInvariant == DataSpec => []PrintInv
<1>1. DataInit => PrintInv
  BY DEF DataInit, PrintInv
<1>2. DataInv /\ WalkInv /\ PrintInv /\ [DataNext]_dataVars => PrintInv'
  <2> SUFFICES ASSUME DataInv, WalkInv, PrintInv, [DataNext]_dataVars PROVE PrintInv'
    OBVIOUS
  <2>1. CASE Build
    <3>1. phase' = "build" /\ phase = "build"
      BY <2>1 DEF Build, Create, List_InsertEntry, List_SetEntry, Dictionary_SetEntry, SetChildren
    <3> QED BY <3>1 DEF PrintInv
  <2>2. ASSUME NEW d \in DOMAIN datums, SerializeDataTree(d)
        PROVE  PrintInv'
    BY <2>2 DEF SerializeDataTree, PrintInv
  <2>3. CASE NextChild \/ PopDFS
    BY <2>3 DEF NextChild, PopDFS, PrintInv
  <2>4. ASSUME NEW sameLineElements \in BOOLEAN, PrintJsonIndented(sameLineElements)
        PROVE  PrintInv'
    BY <2>4, PrintBegins
  <2>5. CASE PrintToken
    BY <2>5, TokenPrinted
  <2>6. CASE UNCHANGED dataVars
    <3>1. phase' = phase /\ gen' = gen /\ pr' = pr
      BY <2>6 DEF dataVars
    <3> QED BY <3>1 DEF PrintInv, Printing
  <2> QED BY <2>1, <2>2, <2>3, <2>4, <2>5, <2>6 DEF DataNext
<1> QED BY <1>1, <1>2, DataInvariant, WalkInvariant, PTL DEF DataSpec

\* What the printer has laid out is laid out as PrintedAsNested says.
LEMMA LaidOutAsNested ==
  ASSUME DataInv, WalkInv, PrintInv
  PROVE  PrintedAsNested
<1> DEFINE T == gen.tokens
           n == Len(T)
<1>1. phase # "thrown"
  BY DEF PrintInv
<1>2. ASSUME phase \in {"print", "done"}, pr.sameLine \/ ~HasEmptyCompound
      PROVE  /\ \A b \in pr.breaks : b.indent = NestingAfter(b.after)
             /\ phase = "done" => pr.indent = 0 /\ pr.compounds = <<>>
  <2>1. Brackets(T) /\ NoneOpen(T) /\ n \in Nat /\ Printing /\ IsSequence(T)
    BY <1>2, PrintedTokens, ClosersAre DEF PrintInv, Brackets, TokensTyped
  <2>2. \A i \in OpensAt(T) : /\ i \in 1 .. n /\ T[i].idxComplement \in 1 .. n
                              /\ i < T[i].idxComplement /\ T[i].tokenType \in Openers
    BY <2>1, ClosersAre
  <2>3. Regular(T, pr.sameLine)
    <3>1. SUFFICES ASSUME ~pr.sameLine, NEW i \in OpensAt(T)
                   PROVE  T[i].idxComplement > i + 1
      BY DEF Regular
    <3>2. i \in DOMAIN T
      BY <2>1, <2>2 DEF IsSequence
    <3>3. T[i].idxComplement # i + 1
      BY <1>2, <2>2, <3>1, <3>2 DEF HasEmptyCompound, Token
    <3> HIDE DEF T
    <3> QED BY <2>1, <2>2, <3>3
  <2>4. ASSUME NEW i \in 1 .. n
        PROVE  NestingAfter(i) = Cardinality(Nested(T, i))
    <3>1. Nested(T, i) = {j \in 1 .. i : T[j].tokenType \in Openers /\ T[j].idxComplement > i + 1}
      <4>1. ASSUME NEW j, j \in OpensAt(T), j <= i, i + 1 < T[j].idxComplement
            PROVE  j \in 1 .. i /\ T[j].tokenType \in Openers /\ T[j].idxComplement > i + 1
        <5> HIDE DEF T
        <5> QED BY <2>1, <2>2, <4>1
      <4>2. ASSUME NEW j \in 1 .. i, T[j].tokenType \in Openers, T[j].idxComplement > i + 1
            PROVE  j \in OpensAt(T) /\ j <= i /\ i + 1 < T[j].idxComplement
        <5>1. j \in 1 .. n /\ j <= i
          BY <2>1
        <5>2. j \in OpensAt(T)
          BY <4>2, <5>1 DEF OpensAt
        <5>3. T[j].idxComplement \in 1 .. n
          BY <2>2, <5>2
        <5> HIDE DEF T
        <5> QED BY <2>1, <4>2, <5>1, <5>2, <5>3
      <4> HIDE DEF T
      <4> QED BY <4>1, <4>2 DEF Nested
    <3> QED BY <3>1 DEF NestingAfter, Token
  <2>5. \A b \in pr.breaks : b.indent = NestingAfter(b.after)
    BY <2>1, <2>3, <2>4 DEF Printing
  <2>6. ASSUME phase = "done"
        PROVE  pr.indent = 0 /\ pr.compounds = <<>>
    <3>1. pr.i = n + 1
      BY <2>6 DEF PrintInv
    <3>2. \A j \in OpensAt(T) : ~(n + 1 <= T[j].idxComplement) /\ ~(n + 1 < T[j].idxComplement)
      <4> HIDE DEF T
      <4> QED BY <2>1, <2>2
    <3>3. Around(T, n + 1) = {} /\ Shown(T, pr.sameLine, n + 1) = {}
      BY <3>2 DEF Around, Shown
    <3>4. pr.indent = 0
      BY <2>1, <2>3, <3>1, <3>3, FS_EmptySet DEF Printing
    <3>5. pr.compounds = <<>>
      <4> DEFINE c == pr.compounds
      <4>1. IsSequence(c) /\ \A k \in 1 .. Len(c) : FALSE
        BY <2>1, <3>1, <3>3 DEF Printing, Stacked
      <4> HIDE DEF c
      <4>2. c # <<>> => Len(c) \in 1 .. Len(c)
        BY <4>1, HasLast
      <4> QED BY <4>1, <4>2 DEF c
    <3> QED BY <3>4, <3>5
  <2> QED BY <2>5, <2>6
<1> QED BY <1>1, <1>2 DEF PrintedAsNested

\* What is serialized is spelled by its tokens, and printed as it is nested, for
\* every number of datums and entries and every set of keys.
THEOREM TreesPrinted == DataSpec => [](TokensSpellTree /\ PrintedAsNested)
<1>1. DataInv /\ WalkInv /\ PrintInv => TokensSpellTree /\ PrintedAsNested
  BY SpellsTree, LaidOutAsNested
<1> QED BY <1>1, DataInvariant, WalkInvariant, PrintInvariant, PTL
=============================================================================
