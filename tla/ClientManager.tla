---------------------------- MODULE ClientManager ----------------------------
(***************************************************************************)
(* The registry of services and their clients (SOClientManager), and the   *)
(* lock around it (RWLockWrapper): a shared mutex, which a call takes only *)
(* if the thread's own record, m_lockState, says that no call around it    *)
(* has it.                                                                 *)
(*                                                                         *)
(* calls[t] is the thread's stack of calls into the manager, the innermost *)
(* first; each has its wrapper, whose `owns' says that it locked the       *)
(* mutex.  What methods, proxies and queues do is outside: they may fail   *)
(* or refuse, and methods call back whenever they are called.  The code    *)
(* lacks a return and some `mutable'; what it is meant to do there is      *)
(* clear.                                                                  *)
(***************************************************************************)
EXTENDS ObjectTree

CONSTANTS
  CMThreads, NoCMThread,
  ServiceNames,  \* paths: sequences of characters
  MaxMethods,    \* methods added
  MaxServices,   \* services ever added
  MaxCMClients,  \* clients ever created of a service
  MaxDepth       \* calls of a thread within each other

ASSUME ClientManagerAssumption ==
  /\ NoCMThread \notin CMThreads
  /\ MaxMethods \in Nat /\ MaxServices \in Nat /\ MaxCMClients \in Nat
  /\ MaxDepth \in Nat

VARIABLES
  writer, readers,           \* m_mutex: who holds it alone, who shares it
  lockState,                 \* m_lockState of each thread
  calls,
  methods,                   \* size of m_methods
  serviceTree,               \* m_serviceTree
  serviceMap, freeServiceID, \* m_serviceMap, m_freeServiceID
  receivers,                 \* of clients, in the queues of their proxies
  methodClients,             \* clients methods were told of, and not of their end
  proxies,                   \* clients whose proxy somebody has
  refused,                   \* clients their methods refused
  nestedEnded,               \* threads in which a call within a call ended
  relocked,                  \* threads that lock a mutex they hold
  cmCrashed                  \* an iterator of nothing was followed, or an
                             \* exception left a destructor

lockVars == <<writer, readers, lockState, nestedEnded, relocked>>
registryVars == <<methods, serviceTree, serviceMap, freeServiceID>>
cmOutside == <<receivers, methodClients, proxies, refused>>
clientManagerVars == <<lockVars, calls, registryVars, cmOutside, cmCrashed>>

CMServiceIDs == 0 .. MaxServices - 1
CMClientIDs == 0 .. MaxCMClients - 1
CMClients == CMServiceIDs \X CMClientIDs

CMService(m) == [methodID |-> m, nextClientID |-> 0, clients |-> {}]

ClientManagerInit ==
  /\ writer = NoCMThread /\ readers = {}
  /\ lockState = [t \in CMThreads |-> "Unlocked"]
  /\ calls = [t \in CMThreads |-> <<>>]
  /\ methods = 0
  /\ serviceTree = NewTree /\ serviceMap = EmptyMap /\ freeServiceID = 0
  /\ receivers = {} /\ methodClients = {} /\ proxies = {} /\ refused = {}
  /\ nestedEnded = {} /\ relocked = {} /\ cmCrashed = FALSE

-----------------------------------------------------------------------------
(* RWLockWrapper                                                           *)

Holds(t) == writer = t \/ t \in readers

\* To lock what the thread holds is undefined: it waits for itself for ever,
\* unless it shares the mutex and is let in once more.
Lock(t, mode) ==
  \/ /\ Holds(t)
     /\ relocked' = relocked \cup {t}
     /\ UNCHANGED <<writer, readers>>
  \/ /\ writer = NoCMThread
     /\ mode = "WriteLocked" => readers = {}
     /\ writer' = IF mode = "WriteLocked" THEN t ELSE writer
     /\ readers' = IF mode = "ReadLocked" THEN readers \cup {t} ELSE readers
     /\ UNCHANGED relocked

\* Fault: a reader that wants to write goes on as if it had the lock.
NeverTooStrong(t, mode) == FALSE

\* A call around this one reads, and this one would write.
TooStrong(t, mode) == mode = "WriteLocked" /\ lockState[t] = "ReadLocked"

\* The constructor of a wrapper, at the head of a call.
Enter(t, mode, call) ==
  /\ ~TooStrong(t, mode)
  /\ calls' = [calls EXCEPT ![t] = <<Put(call, "owns", lockState[t] = "Unlocked")>> \o @]
  /\ IF lockState[t] = "Unlocked"
     THEN Lock(t, mode) /\ lockState' = [lockState EXCEPT ![t] = mode]
     ELSE UNCHANGED <<writer, readers, relocked, lockState>>
  /\ UNCHANGED nestedEnded

GivenBack(t) ==
  /\ writer' = IF writer = t THEN NoCMThread ELSE writer
  /\ readers' = readers \ {t}

\* A share of the mutex is left to the thread as long as a call around has one.
ShareLeft(t) == \E i \in DOMAIN Tail(calls[t]) : Tail(calls[t])[i].owns

\* The destructor, at the end of a call.
Leave(t) ==
  /\ calls' = [calls EXCEPT ![t] = Tail(@)]
  /\ lockState' = [lockState EXCEPT ![t] = "Unlocked"]
  /\ nestedEnded' = IF Len(calls[t]) > 1 THEN nestedEnded \cup {t} ELSE nestedEnded \ {t}
  /\ IF Head(calls[t]).owns /\ ~ShareLeft(t) THEN GivenBack(t)
                                             ELSE UNCHANGED <<writer, readers>>
  /\ UNCHANGED relocked

\* SharedRecursionException leaves all the calls of its thread.
Throw(t, mode) ==
  /\ TooStrong(t, mode)
  /\ calls' = [calls EXCEPT ![t] = <<>>]
  /\ lockState' = [lockState EXCEPT ![t] = "Unlocked"]
  /\ nestedEnded' = nestedEnded \ {t}
  /\ GivenBack(t)
  /\ UNCHANGED relocked

-----------------------------------------------------------------------------
Call(op, step, on) == [op |-> op, step |-> step, on |-> on]

\* The call the thread is in, and where it is.
In(t, op, step) ==
  /\ t \notin relocked /\ ~cmCrashed
  /\ calls[t] # <<>> /\ Head(calls[t]).op = op /\ Head(calls[t]).step = step
On(t) == Head(calls[t]).on

\* A client's call, or one made by what a call around it is out in.
Begin(t, mode, call) ==
  /\ t \notin relocked /\ ~cmCrashed
  /\ Enter(t, mode, call)
  /\ UNCHANGED <<registryVars, cmOutside, cmCrashed>>

\* The destructor of a proxy, whose last reference the thread had.
BeginDestroy(t, e) ==
  /\ t \notin relocked /\ ~cmCrashed
  /\ Enter(t, "WriteLocked", Call("OnProxyDestroyed", "destroy", e))
  /\ proxies' = proxies \ {e}
  /\ UNCHANGED <<registryVars, receivers, methodClients, refused, cmCrashed>>

Goes(t, step, on) ==
  /\ calls' = [calls EXCEPT ![t] = <<[Head(@) EXCEPT !.step = step, !.on = on]>> \o Tail(@)]
  /\ UNCHANGED <<lockVars, cmCrashed>>

Ends(t) == Leave(t) /\ UNCHANGED cmCrashed
EndsAsItIs(t) == Ends(t) /\ UNCHANGED <<registryVars, cmOutside>>
Crashes == cmCrashed' = TRUE /\ UNCHANGED <<lockVars, calls>>

\* Clients as <<service, client>>.
Entries == {e \in CMClients : e[1] \in DOMAIN serviceMap /\ e[2] \in serviceMap[e[1]].clients}

-----------------------------------------------------------------------------
(* Methods and services                                                    *)

\* A method that is there already is not added again; another is told of its ID,
\* then it is added.
AddMethod(t) ==
  /\ In(t, "AddMethod", "add")
  /\ methods' = methods + 1
  /\ Ends(t) /\ UNCHANGED <<serviceTree, serviceMap, freeServiceID, cmOutside>>

\* The methods there are, and one that is told of its ID.
KnownMethods(t) ==
  1 .. IF \E i \in DOMAIN calls[t] : calls[t][i].op = "AddMethod" THEN methods + 1
                                                             ELSE methods

\* The name is taken for good.
AddService(t) ==
  LET traced == TraceAdd(serviceTree, PathFromString(On(t))) IN
  /\ In(t, "AddService", "add")
  /\ IF traced.result = "OK"
     THEN \E m \in KnownMethods(t) :
            /\ serviceTree' = SetValue(traced.tree, traced.id, freeServiceID)
            /\ serviceMap' = Put(serviceMap, freeServiceID, CMService(m))
            /\ freeServiceID' = freeServiceID + 1
     ELSE serviceTree' = traced.tree /\ UNCHANGED <<serviceMap, freeServiceID>>
  /\ Ends(t) /\ UNCHANGED <<methods, cmOutside>>

\* The loop over the clients of a service: one after the other loses its
\* receiver, and its method is told.
DestroyClient(t) ==
  /\ In(t, "RemoveService", "destroy")
  /\ \E e \in Entries \ On(t).told :
       /\ e[1] = On(t).service
       /\ receivers' = receivers \ {e}
       /\ methodClients' = methodClients \ {e}
       /\ Goes(t, "told", [On(t) EXCEPT !.told = @ \cup {e}, !.now = e])
  /\ UNCHANGED <<registryVars, proxies, refused>>

\* The method returned.  If it had the client or the service removed the loop
\* goes on from an iterator of nothing.
NextClient(t) ==
  /\ In(t, "RemoveService", "told")
  /\ IF On(t).now \in Entries THEN Goes(t, "destroy", On(t)) ELSE Crashes
  /\ UNCHANGED <<registryVars, cmOutside>>

\* Then the service goes; not its name.
RemoveService(t) ==
  LET s == On(t).service IN
  /\ In(t, "RemoveService", "destroy")
  /\ \A e \in Entries : e[1] = s => e \in On(t).told
  /\ serviceMap' = Without(serviceMap, {s})
  /\ Ends(t) /\ UNCHANGED <<methods, serviceTree, freeServiceID, cmOutside>>

-----------------------------------------------------------------------------
(* Clients                                                                 *)

\* FindService, of its own or within CreateClient.
FindService(t) == In(t, "FindService", "find") /\ EndsAsItIs(t)

\* After FindService returned.  What it found is the ID of the node, not of the
\* service: it leads past the end of the map, or to the service that happens to
\* have the number of a dictionary.
UseService(t) ==
  LET n == On(t)
      found == TraceFind(serviceTree, PathFromString(n))
  IN
  /\ In(t, "CreateClient", "find") /\ t \in nestedEnded
  /\ IF found.result # "OK" THEN Goes(t, "connect", n)
     ELSE IF found.id \in DOMAIN serviceMap THEN Goes(t, "create", found.id)
     ELSE Crashes
  /\ UNCHANGED <<registryVars, cmOutside>>

\* A method knows the service already, under the name it has at its place.
Connected(t) ==
  /\ In(t, "CreateClient", "connect")
  /\ \E s \in DOMAIN serviceMap : Goes(t, "create", s)
  /\ UNCHANGED <<registryVars, cmOutside>>

\* No method connects, or the factory of the proxy fails.
NotCreated(t) ==
  /\ In(t, "CreateClient", "connect") \/ In(t, "CreateClient", "create")
  /\ EndsAsItIs(t)

\* The client gets a receiver and an entry, and its method is told.
CreateClient(t) ==
  LET s == On(t)  c == serviceMap[s].nextClientID IN
  /\ In(t, "CreateClient", "create")
  /\ c < MaxCMClients
  /\ receivers' = receivers \cup {<<s, c>>}
  /\ serviceMap' = [serviceMap EXCEPT ![s].nextClientID = @ + 1,
                                      ![s].clients = @ \cup {c}]
  /\ methodClients' = methodClients \cup {<<s, c>>}
  /\ Goes(t, "tell", <<s, c>>)
  /\ UNCHANGED <<methods, serviceTree, freeServiceID, proxies, refused>>

\* The method takes the client: the caller gets the proxy.
TellMethod(t) ==
  /\ In(t, "CreateClient", "tell")
  /\ proxies' = proxies \cup {On(t)}
  /\ Ends(t) /\ UNCHANGED <<registryVars, receivers, methodClients, refused>>

\* It refuses: ClientCreateException leaves the call, and the entry and the
\* receiver behind.  A proxy whose destructor calls OnProxyDestroyed does so
\* first (Within).
RefuseClient(t) ==
  /\ In(t, "CreateClient", "tell")
  /\ methodClients' = methodClients \ {On(t)}
  /\ refused' = refused \cup {On(t)}
  /\ Ends(t) /\ UNCHANGED <<registryVars, receivers, proxies>>

OnProxyDestroyed(t) ==
  LET e == On(t) IN
  /\ In(t, "OnProxyDestroyed", "destroy")
  /\ IF e \in Entries
     THEN /\ receivers' = receivers \ {e}
          /\ serviceMap' = [serviceMap EXCEPT ![e[1]].clients = @ \ {e[2]}]
          /\ methodClients' = methodClients \ {e}
          /\ Goes(t, "told", e)
     ELSE UNCHANGED <<serviceMap, receivers, methodClients>> /\ Ends(t)
  /\ UNCHANGED <<methods, serviceTree, freeServiceID, proxies, refused>>

\* The method was told of the end of its client.
ProxyDestroyed(t) == In(t, "OnProxyDestroyed", "told") /\ EndsAsItIs(t)

\* SendMessage and DispatchMessageToProxy: the message is passed on, to the
\* method or the queue, if the client is there.
LookUpClient(t, op) ==
  /\ In(t, op, "lookup")
  /\ IF On(t) \in Entries THEN Goes(t, "pass", On(t)) ELSE Ends(t)
  /\ UNCHANGED <<registryVars, cmOutside>>

PassedOn(t, op) == In(t, op, "pass") /\ EndsAsItIs(t)

-----------------------------------------------------------------------------
\* The functions for the use of methods
MethodCalls(t) ==
  \/ \E n \in ServiceNames :
       \/ KnownMethods(t) # {} /\ freeServiceID < MaxServices
          /\ Begin(t, "WriteLocked", Call("AddService", "add", n))
       \/ Begin(t, "ReadLocked", Call("FindService", "find", n))
  \/ \E s \in CMServiceIDs :
       Begin(t, "WriteLocked", Call("RemoveService", "destroy",
                                    [service |-> s, told |-> {}, now |-> <<>>]))
  \/ \E e \in CMClients :
       Begin(t, "ReadLocked", Call("DispatchMessageToProxy", "lookup", e))

\* Calls from outside.
Outside(t) ==
  /\ calls[t] = <<>>
  /\ \/ MethodCalls(t)
     \/ methods < MaxMethods /\ Begin(t, "WriteLocked", Call("AddMethod", "add", 0))
     \/ \E n \in ServiceNames : Begin(t, "WriteLocked", Call("CreateClient", "find", n))
     \/ \E e \in proxies :
          BeginDestroy(t, e) \/ Begin(t, "ReadLocked", Call("SendMessage", "lookup", e))

\* A method is called: OnAdded, ConnectService, OnNewClient, SendMessage,
\* OnClientDestroyed.
InMethod(t) ==
  \/ In(t, "AddMethod", "add")
  \/ In(t, "CreateClient", "connect") \/ In(t, "CreateClient", "tell")
  \/ In(t, "SendMessage", "pass")
  \/ In(t, "RemoveService", "told") \/ In(t, "OnProxyDestroyed", "told")

\* Calls within calls: FindService at the head of CreateClient; what a method
\* calls, or a proxy whose last reference goes there; the proxy that goes with
\* the exception when its method refuses the client.
Within(t) ==
  \/ /\ In(t, "CreateClient", "find") /\ t \notin nestedEnded
     /\ Begin(t, "ReadLocked", Call("FindService", "find", On(t)))
  \/ /\ InMethod(t) /\ Len(calls[t]) < MaxDepth
     /\ MethodCalls(t) \/ \E e \in proxies : BeginDestroy(t, e)
  \/ In(t, "CreateClient", "tell") /\ BeginDestroy(t, On(t))

\* Under a reader a method calls what has to write: the exception leaves all
\* calls, or ends the process where it would leave the destructor of a proxy.
ThrowWithin(t) ==
  /\ InMethod(t)
  /\ \/ Throw(t, "WriteLocked") /\ UNCHANGED <<proxies, cmCrashed>>
     \/ /\ TooStrong(t, "WriteLocked")
        /\ \E e \in proxies : proxies' = proxies \ {e}
        /\ Crashes
  /\ UNCHANGED <<registryVars, receivers, methodClients, refused>>

ClientManagerNext ==
  \E t \in CMThreads :
    \/ Outside(t) \/ Within(t) \/ ThrowWithin(t)
    \/ AddMethod(t) \/ AddService(t)
    \/ DestroyClient(t) \/ NextClient(t) \/ RemoveService(t)
    \/ FindService(t) \/ UseService(t) \/ Connected(t) \/ NotCreated(t)
    \/ CreateClient(t) \/ TellMethod(t) \/ RefuseClient(t)
    \/ OnProxyDestroyed(t) \/ ProxyDestroyed(t)
    \/ \E op \in {"SendMessage", "DispatchMessageToProxy"} :
         LookUpClient(t, op) \/ PassedOn(t, op)

ClientManagerSpec == ClientManagerInit /\ [][ClientManagerNext]_clientManagerVars

-----------------------------------------------------------------------------
(* Properties                                                              *)

ClientManagerTypeOK ==
  /\ writer \in CMThreads \cup {NoCMThread} /\ readers \subseteq CMThreads
  /\ \A t \in CMThreads : lockState[t] \in {"Unlocked", "ReadLocked", "WriteLocked"}
  /\ DOMAIN serviceMap \subseteq CMServiceIDs /\ freeServiceID \in 0 .. MaxServices
  /\ \A s \in DOMAIN serviceMap : serviceMap[s].clients \subseteq CMClientIDs
  /\ receivers \subseteq CMClients /\ methodClients \subseteq CMClients
  /\ proxies \subseteq CMClients /\ refused \subseteq CMClients

\* A client that is used, to pass on a message or to be told of to its method,
\* stays in the registry as long, although some calls take no lock of their own.
UsedClientsStay ==
  \A t \in CMThreads : \A i \in DOMAIN calls[t] :
    calls[t][i].step \in {"pass", "tell"} => calls[t][i].on \in Entries

\* Where nobody writes, the registry, the queues' receivers and the methods'
\* clients are the same, but for the clients that methods refused: whatever
\* calls back meanwhile, none is left behind by a client or service that went.
RegistriesAgree ==
  writer = NoCMThread => receivers = Entries /\ methodClients = Entries \ refused

\* With no call in progress every client represents a proxy that somebody has
\* (SOClientManager.h:35): a client whose creation failed is not kept.
ClientsHaveProxies ==
  (\A t \in CMThreads : calls[t] = <<>>) => Entries \subseteq proxies

\* A thread waits for the lock that it has only after a call within a call has
\* ended, which leaves m_lockState "Unlocked" while the call around it goes on.
LocksItselfOutOnlyAfterNested == relocked \subseteq nestedEnded

\* A thread never waits for the lock that it has: m_lockState is there to
\* prevent relocking (SOClientManager.h:99), so that a method may call back
\* (SOClientManager.cpp:73-75).
NeverLocksItselfOut == relocked = {}
=============================================================================
