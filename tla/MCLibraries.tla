---------------------------- MODULE MCLibraries ----------------------------
(***************************************************************************)
(* The libraries the services stand on, each on its own: asynchronous      *)
(* tasks, the store of shared objects with its tree, the registry of       *)
(* clients with its lock and a tree of its own, data trees and their       *)
(* printing, and the conversion of their elements.  They share no          *)
(* variable; `part' says which of them moves.                              *)
(***************************************************************************)
EXTENDS AsyncTasks, SharedObjectStore, ClientManager, DataTree, DataConvert

VARIABLE part

libVars == <<asyncVars, storeVars, clientManagerVars, dataVars, convertVars, part>>

\* Paths, written with the separator: among them one that runs through a name
\* another ends at, and two that share a dictionary.
MCStrings == {<<"a">>, <<"a", "/", "b">>, <<"/", "a">>, <<"b">>, <<"b", "/", "a">>,
              <<"b", "/", "a", "/", "a">>}

\* One service below a name, and one with that name or another.
MCServiceNames == {<<"a", "/", "b">>, <<"a">>, <<"b">>}

LibrariesInit ==
  /\ AsyncInit /\ StoreInit /\ ClientManagerInit /\ DataInit /\ ConvertInit
  /\ part \in {"async", "store", "clients", "data", "convert"}
  /\ part # "convert" => entry = "missing"

\* A step of one part
OfAsync(A) == part = "async" /\ A /\ UNCHANGED <<storeVars, clientManagerVars, dataVars, convertVars, part>>
OfStore(A) == part = "store" /\ A /\ UNCHANGED <<asyncVars, clientManagerVars, dataVars, convertVars, part>>
OfClients(A) == part = "clients" /\ A /\ UNCHANGED <<asyncVars, storeVars, dataVars, convertVars, part>>
OfData(A) == part = "data" /\ A /\ UNCHANGED <<asyncVars, storeVars, clientManagerVars, convertVars, part>>
OfConvert(A) == part = "convert" /\ A /\ UNCHANGED <<asyncVars, storeVars, clientManagerVars, dataVars, part>>

LibrariesNext ==
  \/ OfAsync(AsyncNext)
  \/ OfStore(StoreNext)
  \/ OfClients(ClientManagerNext)
  \/ OfData(DataNext)
  \/ OfConvert(ConvertNext)

\* AsyncFairness, where the tasks move
LibrariesFairness ==
  /\ \A c \in Contexts : WF_libVars(OfAsync(ContextStep(c)))
  /\ \A t \in Threads : WF_libVars(OfAsync(ThreadStep(t)))

LibrariesSpec == LibrariesInit /\ [][LibrariesNext]_libVars /\ LibrariesFairness

-----------------------------------------------------------------------------
\* The types of the five parts.
LibrariesTypeOK == AsyncTypeOK /\ StoreTypeOK /\ ClientManagerTypeOK
                   /\ DataTypeOK /\ ConvertTypeOK

\* Every task of a graph that can run runs, once and after those it depends on,
\* and the caller is told whether all did.
GraphRunsRight == RunsOnceAfterDependencies /\ ResultTellsCycle

\* A path leads to the object that was added under it, as long as nothing was
\* removed, and never to another one.
PathsLeadToObjects == OneNodePerObject /\ FindsOnlyWhatWasAdded /\ FoundUntilRemoval

\* Registry, queues and methods agree on the clients there are, a client in use
\* stays, and a thread locks itself out only after a call within a call.
ClientsAgree == RegistriesAgree /\ UsedClientsStay /\ LocksItselfOutOnlyAfterNested

\* What is printed of a tree are the tokens that spell it, broken into lines and
\* indented as the tree is nested.
PrintsTheTree == TokensSpellTree /\ PrintedAsNested

\* Every graph that is executed returns, as long as no task asks to continue
\* twice, and every thread that is asked to end in time does.
PoolFinishes == ExecuteGraphReturns /\ JoinReturns
=============================================================================
