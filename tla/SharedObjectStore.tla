--------------------------- MODULE SharedObjectStore ---------------------------
(***************************************************************************)
(* The store of shared objects (SharedObjectStore): objects by ID, tokens  *)
(* that name them to those who added them, and the tree that leads from a  *)
(* path to an ID.  Every operation holds the store's mutex from its first  *)
(* line to its last, so it is one step; what FindObject and GetObject      *)
(* answer changes nothing and is an operator.                              *)
(***************************************************************************)
EXTENDS ObjectTree

CONSTANTS
  Strings,      \* paths as clients write them: sequences of characters
  Tokens,       \* the numbers a token may have
  MaxObjects    \* objects ever added

ASSUME StoreAssumption ==
  /\ MaxObjects \in Nat /\ MaxObjects < ValueBit
  /\ \A s \in Strings : s \in Seq({s[i] : i \in DOMAIN s})

VARIABLES
  objTree,       \* m_objTree
  objStore,      \* m_objStore: the token and the node of each object, by ID
  nextId,        \* m_nextId
  objTokenMap,   \* m_objTokenMap
  addedAs        \* the path each ID was added under

storeVars == <<objTree, objStore, nextId, objTokenMap, addedAs>>

StoreInit ==
  /\ objTree = NewTree
  /\ objStore = EmptyMap /\ nextId = 0
  /\ objTokenMap = EmptyMap
  /\ addedAs = EmptyMap

\* Fault: it does not matter whether the node was made by this walk.
Reached(traced) == IsValueID(traced.id)
Made(traced) == traced.result = "OK"

Stored(tree, id, v) == SetValue(tree, id, v)

\* No index reaches the bit of the values.
\* The dictionaries of a path stay even if the name at its end was taken.
AddObject(string) ==
  LET path == PathFromString(string)
      traced == TraceAdd(objTree, path)
  IN
  /\ nextId < MaxObjects /\ objTree.nextDict + Len(path) <= ValueBit
  /\ DOMAIN objTokenMap # Tokens
  /\ IF Made(traced)
     THEN \E tok \in Tokens \ DOMAIN objTokenMap :
            /\ objTree' = Stored(traced.tree, traced.id, nextId)
            /\ objTokenMap' = Put(objTokenMap, tok, nextId)
            /\ objStore' = Put(objStore, nextId, [token |-> tok, node |-> traced.id])
            /\ nextId' = nextId + 1
            /\ addedAs' = Put(addedAs, nextId, path)
     ELSE /\ objTree' = traced.tree
          /\ UNCHANGED <<objStore, nextId, objTokenMap, addedAs>>

\* Fault: the token outlives its object.
TokenKept(tok) == objTokenMap
TokenErased(tok) == Without(objTokenMap, {tok})

RemoveObject(tok) ==
  LET id == objTokenMap[tok] IN
  /\ tok \in DOMAIN objTokenMap
  /\ objTree' = RemoveValue(objTree, objStore[id].node)
  /\ objStore' = Without(objStore, {id})
  /\ objTokenMap' = TokenErased(tok)
  /\ UNCHANGED <<nextId, addedAs>>

StoreNext ==
  \/ \E s \in Strings : AddObject(s)
  \/ \E tok \in Tokens : RemoveObject(tok)

StoreSpec == StoreInit /\ [][StoreNext]_storeVars

\* FindObject, then GetObject: the ID of the object at a path, or none.
FindObject(path) ==
  LET found == TraceFind(objTree, path) IN
  IF found.result = "OK" /\ IsValue(objTree, found.id)
     /\ GetValue(objTree, found.id) \in DOMAIN objStore
  THEN {GetValue(objTree, found.id)} ELSE {}

-----------------------------------------------------------------------------
(* Properties                                                              *)

StoreTypeOK ==
  /\ DOMAIN objStore \subseteq 0 .. nextId - 1
  /\ DOMAIN objTokenMap \subseteq Tokens
  /\ DOMAIN addedAs = 0 .. nextId - 1
  /\ objTree.nextVal = nextId

\* Tokens, objects and value nodes correspond one to one, through additions
\* that fail half way and removals: every token leads to its object, and every
\* object to a node of its own that is in the tree and holds its ID.
OneNodePerObject ==
  /\ \A tok \in DOMAIN objTokenMap :
       objTokenMap[tok] \in DOMAIN objStore /\ objStore[objTokenMap[tok]].token = tok
  /\ \A id \in DOMAIN objStore :
       /\ objStore[id].token \in DOMAIN objTokenMap
       /\ IsValue(objTree, objStore[id].node)
       /\ GetValue(objTree, objStore[id].node) = id
  /\ Cardinality(DOMAIN objTree.val) = Cardinality(DOMAIN objStore)

\* A path leads to an object only if that very object was added under that
\* path: after removals a stale name leads nowhere, never to another object.
FindsOnlyWhatWasAdded ==
  \A s \in Strings : \A id \in FindObject(PathFromString(s)) :
    addedAs[id] = PathFromString(s)

\* Until the first removal every object in the store is found at its path,
\* whatever additions failed half way.
FoundUntilRemoval ==
  DOMAIN objStore = 0 .. nextId - 1 =>
    \A id \in DOMAIN objStore : FindObject(addedAs[id]) = {id}

\* Every name in a dictionary leads to a node that is there: a removal updates
\* the parent directory (SharedObjectStore.cpp:78).
ChildrenExist ==
  \A d \in DOMAIN objTree.dict : \A name \in DOMAIN objTree.dict[d].children :
    HasNode(objTree, objTree.dict[d].children[name])
=============================================================================
