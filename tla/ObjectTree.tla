------------------------------ MODULE ObjectTree ------------------------------
(***************************************************************************)
(* The tree of named nodes (ObjectTree) and the walks along a path         *)
(* (PathLib, PathFromString), as operators on a tree: a record of the      *)
(* dictionary nodes and the value nodes by index, with the next indexes.   *)
(*                                                                         *)
(* A node's ID is its index, with one bit more when it is a value.         *)
(* ValueBit stands for that bit.                                           *)
(***************************************************************************)
EXTENDS Integers, Sequences, SequencesExt, FiniteSets

CONSTANTS
  ValueBit,   \* 2^32
  Separator   \* the character between names

ASSUME TreeAssumption == ValueBit \in Nat \ {0}

NODE_ROOT == 0
EmptyMap == <<>>

\* AnalyzeID and SynthesizeID.
IsValueID(id) == id >= ValueBit
Index(id) == IF IsValueID(id) THEN id - ValueBit ELSE id
SynthesizeID(type, idx) == IF type = "Value" THEN ValueBit + idx ELSE idx

\* Partial maps as functions.
Put(map, k, v) == [x \in DOMAIN map \cup {k} |-> IF x = k THEN v ELSE map[x]]
Without(map, S) == [x \in DOMAIN map \ S |-> map[x]]

Dictionary(parent) == [parent |-> parent, children |-> EmptyMap]
ValueNode(parent) == [parent |-> parent, value |-> 0]

NewTree == [dict |-> Put(EmptyMap, NODE_ROOT, Dictionary(NODE_ROOT)),
            val |-> EmptyMap, nextDict |-> 1, nextVal |-> 0]

\* GetNode, by the kind that the ID itself tells.
HasNode(tree, id) ==
  IF IsValueID(id) THEN Index(id) \in DOMAIN tree.val ELSE id \in DOMAIN tree.dict

\* CreateNode: the tree with a new node, and the node's ID.
CreateNode(tree, parent, type) ==
  IF type = "Dictionary"
  THEN [tree |-> [tree EXCEPT !.dict = Put(@, tree.nextDict, Dictionary(parent)),
                              !.nextDict = @ + 1],
        id |-> SynthesizeID(type, tree.nextDict)]
  ELSE [tree |-> [tree EXCEPT !.val = Put(@, tree.nextVal, ValueNode(parent)),
                              !.nextVal = @ + 1],
        id |-> SynthesizeID(type, tree.nextVal)]

\* AddNode: a name that is taken gives the node that has it.
AddNode(tree, parent, name, type) ==
  IF ~HasNode(tree, parent)
  THEN [tree |-> tree, id |-> parent, result |-> "InvalidNodeID"]
  ELSE IF IsValueID(parent)
  THEN [tree |-> tree, id |-> parent, result |-> "NeedDictionary"]
  ELSE IF name \in DOMAIN tree.dict[parent].children
  THEN [tree |-> tree, id |-> tree.dict[parent].children[name],
        result |-> "DuplicateName"]
  ELSE LET made == CreateNode(tree, parent, type) IN
       [tree |-> [made.tree EXCEPT !.dict[parent].children = Put(@, name, made.id)],
        id |-> made.id, result |-> "OK"]

FindChild(tree, parent, name) ==
  IF ~HasNode(tree, parent) THEN [id |-> parent, result |-> "InvalidNodeID"]
  ELSE IF IsValueID(parent) THEN [id |-> parent, result |-> "NeedDictionary"]
  ELSE IF name \notin DOMAIN tree.dict[parent].children
  THEN [id |-> parent, result |-> "NameNotFound"]
  ELSE [id |-> tree.dict[parent].children[name], result |-> "OK"]

\* SetValue and GetValue, for nodes that are known to be values.
SetValue(tree, id, v) == [tree EXCEPT !.val[Index(id)].value = v]
GetValue(tree, id) == tree.val[Index(id)].value
IsValue(tree, id) == IsValueID(id) /\ HasNode(tree, id)

\* RemoveChild: at most one name leads to an ID.
RemoveChild(children, id) ==
  Without(children, {n \in DOMAIN children : children[n] = id})

\* RemoveNode(id, true) of a value.  What is taken off the parent is the child
\* whose ID is the index of the value: not the value, whose ID has the bit, but
\* a dictionary if one has that number.
RemoveValue(tree, id) ==
  LET parent == tree.val[Index(id)].parent IN
  [tree EXCEPT
     !.dict[parent].children = RemoveChild(@, Index(id)),
     !.val = Without(@, {Index(id)})]

-----------------------------------------------------------------------------
(* Paths                                                                   *)

\* PathFromString: the names between separators.  A leading separator gives an
\* empty first name.
ReadChar(path, ch) ==
  IF ch = Separator THEN Append(path, <<>>)
  ELSE [path EXCEPT ![Len(path)] = Append(@, ch)]

PathFromString(chars) ==
  LET read[i \in 0 .. Len(chars)] ==
        IF i = 0 THEN <<<<>>>> ELSE ReadChar(read[i - 1], chars[i])
  IN read[Len(chars)]

\* TracePath with a NodeAdder that creates dictionaries: nodes are made on the
\* way, a node that is there is entered whatever it is, and an error ends the
\* walk with what was made so far left in the tree.
AddAlong(at, path, i) ==
  IF at.result \notin {"OK", "DuplicateName"} THEN at
  ELSE AddNode(at.tree, at.id, path[i], IF i < Len(path) THEN "Dictionary" ELSE "Value")

TraceAdd(tree, path) ==
  LET at[i \in 0 .. Len(path)] ==
        IF i = 0 THEN [tree |-> tree, id |-> NODE_ROOT, result |-> "OK"]
        ELSE AddAlong(at[i - 1], path, i)
  IN at[Len(path)]

\* TracePath with a NodeFinder.
FindAlong(tree, at, name) ==
  IF at.result = "OK" THEN FindChild(tree, at.id, name) ELSE at

TraceFind(tree, path) ==
  LET at[i \in 0 .. Len(path)] ==
        IF i = 0 THEN [id |-> NODE_ROOT, result |-> "OK"]
        ELSE FindAlong(tree, at[i - 1], path[i])
  IN at[Len(path)]
=============================================================================
