------------------------------ MODULE DataTree ------------------------------
(***************************************************************************)
(* Data trees: the simple lists and dictionaries (DTSimpleList,            *)
(* DTSimpleDict), the depth-first walk SerializeDataTree, the serializer   *)
(* that makes JSON tokens of it (DTJsonTokenGenerator) and their indented  *)
(* printing (PrintJsonIndented).                                           *)
(*                                                                         *)
(* Trees are built first, entry by entry, then one of them is serialized,  *)
(* then printed; the serialization takes one iteration of the walk's loop  *)
(* a step, the printing one token.  The value of a leaf is the leaf        *)
(* itself, a token's text is what it stands for; what is printed is known  *)
(* by its line breaks.  Indices count from 1.                              *)
(***************************************************************************)
EXTENDS Integers, Sequences, SequencesExt, FiniteSets, TLC

CONSTANTS
  MaxDatums,  \* datums created
  MaxEntries, \* entries made in lists and dictionaries
  Keys        \* keys of dictionaries

DatumIDs == 1 .. MaxDatums
LeafTypes == {"Element", "Object"}
CompoundTypes == {"List", "Dictionary"}
NoKey == "no key"

ASSUME DataTreeAssumption ==
  MaxDatums \in Nat \ {0} /\ MaxEntries \in Nat /\ NoKey \notin Keys

VARIABLES
  phase,      \* "build", "serialize", "print", "done" or "thrown"
  datums,     \* created so far; an entry is [key, value]
  entries,    \* entries made
  root,       \* the datum that is serialized
  dfsStack,   \* of SerializeDataTree
  gen,        \* the token generator: tokens, openers (m_openerStack), first
  pr          \* the printer: i, indentLevel, compoundStack, the breaks made

dataVars == <<phase, datums, entries, root, dfsStack, gen, pr>>

DataInit ==
  /\ phase = "build"
  /\ datums = <<>> /\ entries = 0 /\ root = 0
  /\ dfsStack = <<>>
  /\ gen = [tokens |-> <<>>, openers |-> <<>>, first |-> TRUE]
  /\ pr = [i |-> 1, indent |-> 0, compounds |-> <<>>, breaks |-> {}, sameLine |-> TRUE]

-----------------------------------------------------------------------------
(* Building: DTElem, DTList, DTDict and the operations they call.  An entry
   is a datum created before its list or dictionary: a tree has no cycle.  *)

Create(type) ==
  /\ phase = "build" /\ Len(datums) < MaxDatums
  /\ datums' = Append(datums, [type |-> type, children |-> <<>>])
  /\ UNCHANGED <<phase, entries, root, dfsStack, gen, pr>>

Entry(key, d) == [key |-> key, value |-> d]

SetChildren(d, type, children) ==
  /\ phase = "build" /\ entries < MaxEntries
  /\ datums[d].type = type
  /\ datums' = [datums EXCEPT ![d].children = children]
  /\ entries' = entries + 1
  /\ UNCHANGED <<phase, root, dfsStack, gen, pr>>

\* Before the entry at index i, or at the end.
List_InsertEntry(d, e, i) ==
  SetChildren(d, "List", InsertAt(datums[d].children, i, Entry(NoKey, e)))

List_SetEntry(d, e, i) ==
  SetChildren(d, "List", ReplaceAt(datums[d].children, i, Entry(NoKey, e)))

IndexOfKey(d, k) ==
  {i \in DOMAIN datums[d].children : datums[d].children[i].key = k}

\* A new key comes anywhere in the order of iteration of an unordered map.
Dictionary_SetEntry(d, k, e) ==
  LET kids == datums[d].children IN
  IF IndexOfKey(d, k) # {}
  THEN \E i \in IndexOfKey(d, k) :
         SetChildren(d, "Dictionary", ReplaceAt(kids, i, Entry(k, e)))
  ELSE \E i \in 1 .. Len(kids) + 1 :
         SetChildren(d, "Dictionary", InsertAt(kids, i, Entry(k, e)))

Build ==
  \/ \E type \in LeafTypes \cup CompoundTypes : Create(type)
  \/ \E d \in DOMAIN datums : \E e \in 1 .. d - 1 :
       \/ \E i \in 1 .. Len(datums[d].children) + 1 : List_InsertEntry(d, e, i)
       \/ \E i \in DOMAIN datums[d].children : List_SetEntry(d, e, i)
       \/ \E k \in Keys : Dictionary_SetEntry(d, k, e)

-----------------------------------------------------------------------------
(* DTJsonTokenGenerator *)

Openers == {"ListOpener", "DictOpener"}
Closing(opener) == IF opener = "ListOpener" THEN "]" ELSE "}"

JsonToken(type, text) ==
  [tokenType |-> type, sToken |-> text, hasCompounds |-> FALSE, idxComplement |-> 0]

Added(g, token) == [g EXCEPT !.tokens = Append(@, token)]

\* A separator, unless this is the first element.
Separated(g) ==
  IF g.first THEN [g EXCEPT !.first = FALSE]
  ELSE Added(g, JsonToken("ListSeparator", ","))

\* The compound around becomes one that has compounds; only a list or a
\* dictionary that is not empty counts.
PushLevel(g) ==
  [tokens |-> IF g.openers = <<>> THEN g.tokens
              ELSE [g.tokens EXCEPT ![Last(g.openers)].hasCompounds = TRUE],
   openers |-> Append(g.openers, Len(g.tokens)),
   first |-> TRUE]

\* The token at opener is closed by the one that is added.
Closed(g, opener) ==
  Added([g EXCEPT !.tokens[opener].idxComplement = Len(g.tokens) + 1],
        [JsonToken("Closer", Closing(g.tokens[opener].tokenType))
           EXCEPT !.idxComplement = opener])

PopLevel(g) ==
  [Closed(g, Last(g.openers)) EXCEPT !.openers = Front(@), !.first = FALSE]

\* OnList and OnDict.
OnCompound(g, d) ==
  LET opened == Added(Separated(g),
        IF datums[d].type = "List" THEN JsonToken("ListOpener", "[")
        ELSE JsonToken("DictOpener", "{")) IN
  IF datums[d].children # <<>> THEN PushLevel(opened)
  ELSE Closed(opened, Len(opened.tokens))

\* OnElement and OnObject.
OnLeaf(g, d) == Added(Separated(g), JsonToken("Value", ToString(d)))

OnDictKey(g, k) ==
  [Added(Added(Separated(g), JsonToken("Value", k)), JsonToken("DictSeparator", ":"))
     EXCEPT !.first = TRUE]

-----------------------------------------------------------------------------
(* SerializeDataTree *)

DFSLevel(d) == [datum |-> d, curIdx |-> 0]

SerializeDataTree(d) ==
  /\ phase = "build"
  /\ phase' = "serialize" /\ root' = d /\ dfsStack' = <<DFSLevel(d)>>
  /\ UNCHANGED <<datums, entries, gen, pr>>

Top == Last(dfsStack)
TopChildren == datums[Top.datum].children

\* A level is shown to the serializer when it is met first.
Visited ==
  IF Top.curIdx > 0 THEN gen
  ELSE IF datums[Top.datum].type \in LeafTypes THEN OnLeaf(gen, Top.datum)
  ELSE OnCompound(gen, Top.datum)

NextChild ==
  /\ phase = "serialize" /\ dfsStack # <<>>
  /\ Top.curIdx < Len(TopChildren)
  /\ LET child == TopChildren[Top.curIdx + 1] IN
       /\ gen' = IF datums[Top.datum].type = "Dictionary"
                 THEN OnDictKey(Visited, child.key) ELSE Visited
       /\ dfsStack' = Append([dfsStack EXCEPT ![Len(dfsStack)].curIdx = @ + 1],
                             DFSLevel(child.value))
  /\ UNCHANGED <<phase, datums, entries, root, pr>>

PopDFS ==
  /\ phase = "serialize" /\ dfsStack # <<>>
  /\ Top.curIdx = Len(TopChildren)
  /\ gen' = IF TopChildren # <<>> THEN PopLevel(Visited) ELSE Visited
  /\ dfsStack' = Front(dfsStack)
  /\ UNCHANGED <<phase, datums, entries, root, pr>>

-----------------------------------------------------------------------------
(* PrintJsonIndented *)

PrintJsonIndented(sameLineElements) ==
  /\ phase = "serialize" /\ dfsStack = <<>>
  /\ phase' = "print" /\ pr' = [pr EXCEPT !.sameLine = sameLineElements]
  /\ UNCHANGED <<datums, entries, root, dfsStack, gen>>

Token(i) == gen.tokens[i]
CloserFollows(i) == i < Len(gen.tokens) /\ Token(i + 1).tokenType = "Closer"

\* Elements of the compound that opened at i are on lines of their own.
OnOwnLines(i) == ~pr.sameLine \/ Token(i).hasCompounds

\* The stack after the token's opener was pushed.
Compounds(i) ==
  IF Token(i).tokenType \in Openers THEN Append(pr.compounds, i) ELSE pr.compounds
Innermost(s) == Last(s)

\* A fault: a closer is laid out as the compound it closes says.
Own(s) == Last(s)

\* A closer that comes before another is laid out as its parent says.
Outer(s) == s[Len(s) - 1]

AddNewline(i) ==
  LET s == Compounds(i) IN
  CASE Token(i).tokenType \in Openers -> OnOwnLines(i)
    [] Token(i).tokenType = "ListSeparator" -> OnOwnLines(Innermost(s))
    [] Token(i).tokenType = "Closer" -> CloserFollows(i) /\ OnOwnLines(Outer(s))
    [] Token(i).tokenType = "Value" ->
         s # <<>> /\ CloserFollows(i) /\ OnOwnLines(Innermost(s))
    [] Token(i).tokenType = "DictSeparator" -> FALSE

IndentDelta(i) ==
  IF Token(i).tokenType \in Openers THEN 1
  ELSE IF Token(i).tokenType = "ListSeparator" THEN 0 ELSE -1

\* The states for which DataStateException is thrown.
OutOfPlace(i) ==
  LET s == Compounds(i) IN
  \/ Token(i).tokenType \in {"ListSeparator", "Closer"} /\ s = <<>>
  \/ Token(i).tokenType = "Closer" /\ CloserFollows(i) /\ Len(s) < 2
  \/ Token(i).tokenType = "Value" /\ s # <<>> /\ i = Len(gen.tokens)

\* indentLevel is unsigned: a delta of -1 at zero would wrap; the invariant
\* PrintedAsNested excludes it.
PrintToken ==
  /\ phase = "print" /\ pr.i <= Len(gen.tokens)
  /\ IF OutOfPlace(pr.i) THEN phase' = "thrown" /\ pr' = pr
     ELSE LET breaks == AddNewline(pr.i)
              level == pr.indent + IF breaks THEN IndentDelta(pr.i) ELSE 0 IN
          /\ phase' = IF pr.i = Len(gen.tokens) THEN "done" ELSE "print"
          /\ pr' = [pr EXCEPT
               !.i = @ + 1, !.indent = level,
               !.breaks = IF breaks THEN @ \cup {[after |-> pr.i, indent |-> level]} ELSE @,
               !.compounds = IF Token(pr.i).tokenType = "Closer"
                             THEN Front(@) ELSE Compounds(pr.i)]
  /\ UNCHANGED <<datums, entries, root, dfsStack, gen>>

DataNext ==
  \/ Build
  \/ \E d \in DOMAIN datums : SerializeDataTree(d)
  \/ NextChild \/ PopDFS
  \/ \E sameLineElements \in BOOLEAN : PrintJsonIndented(sameLineElements)
  \/ PrintToken

DataSpec == DataInit /\ [][DataNext]_dataVars

-----------------------------------------------------------------------------
(* Properties *)

DataTypeOK ==
  /\ phase \in {"build", "serialize", "print", "done", "thrown"}
  /\ datums \in Seq([type : LeafTypes \cup CompoundTypes,
                     children : Seq([key : Keys \cup {NoKey}, value : DatumIDs])])
  /\ root \in 0 .. Len(datums)
  /\ \A l \in ToSet(dfsStack) : l.datum \in DOMAIN datums /\ l.curIdx \in Nat
  /\ ToSet(gen.openers) \subseteq DOMAIN gen.tokens
  /\ pr.indent \in Int /\ ToSet(pr.compounds) \subseteq DOMAIN gen.tokens

\* The reference: what a tree is in JSON.  A datum's entries were created
\* before it, so the function is defined on smaller datums first.
Spelled[d \in DOMAIN datums] ==
  LET kids == datums[d].children
      Part(i) == (IF kids[i].key = NoKey THEN <<>> ELSE <<kids[i].key, ":">>)
                   \o Spelled[kids[i].value]
      inside == FlattenSeq([i \in DOMAIN kids |->
                  IF i = 1 THEN Part(i) ELSE <<",">> \o Part(i)]) IN
  CASE datums[d].type \in LeafTypes -> <<ToString(d)>>
    [] datums[d].type = "List" -> <<"[">> \o inside \o <<"]">>
    [] datums[d].type = "Dictionary" -> <<"{">> \o inside \o <<"}">>

\* Once the walk is over, the tokens spell the tree that was serialized, shared
\* and empty parts included, every opener knows its closer and the other way
\* round, they are nested, and an opener has compounds exactly if a list or a
\* dictionary with entries opens directly inside it.
TokensSpellTree ==
  phase \in {"print", "done", "thrown"} =>
    LET tokens == gen.tokens
        openers == {i \in DOMAIN tokens : tokens[i].tokenType \in Openers}
        end(i) == tokens[i].idxComplement
        inside(i, j) == i < j /\ end(j) < end(i) IN
    /\ [i \in DOMAIN tokens |-> tokens[i].sToken] = Spelled[root]
    /\ \A i \in openers :
         /\ i < end(i) /\ tokens[end(i)].tokenType = "Closer"
         /\ tokens[end(i)].idxComplement = i
         /\ \A j \in openers : i < j => end(j) < end(i) \/ end(i) < j
         /\ tokens[i].hasCompounds <=>
              \E j \in openers : /\ inside(i, j) /\ end(j) > j + 1
                                 /\ ~\E k \in openers : inside(i, k) /\ inside(k, j)
    /\ gen.openers = <<>>

\* The compounds that are open where the line after token i begins.
NestingAfter(i) ==
  Cardinality({j \in 1 .. i : /\ Token(j).tokenType \in Openers
                              /\ Token(j).idxComplement > i + 1})

HasEmptyCompound ==
  \E i \in DOMAIN gen.tokens :
    Token(i).tokenType \in Openers /\ Token(i).idxComplement = i + 1

\* The printer never throws and every line is indented by the number of lists
\* and dictionaries around it, back to none at the end.  An empty list or
\* dictionary breaks this when elements get lines of their own: its opener
\* indents and nothing takes the indentation back.
PrintedAsNested ==
  /\ phase # "thrown"
  /\ (phase \in {"print", "done"} /\ (pr.sameLine \/ ~HasEmptyCompound)) =>
       /\ \A b \in pr.breaks : b.indent = NestingAfter(b.after)
       /\ phase = "done" => pr.indent = 0 /\ pr.compounds = <<>>
=============================================================================
