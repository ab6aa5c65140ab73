------------------------------ MODULE Requests ------------------------------
(***************************************************************************)
(* Requests between issuers (BaseRequestIssuer, BaseRequestInfo) and one   *)
(* request handler (BaseRequestHandler), a client of the handler for each  *)
(* issuer.  Each side is a message handler: its calls are made on its own  *)
(* dispatching thread, and its messages arrive in the order they were sent *)
(* (MessageDispatcher.QueuedInOrder).  A timeout is a one-shot timer of    *)
(* the execution manager, whose thread posts to the issuer's own receiver; *)
(* such a timer fires twice (TimerThread), hence Firings.                  *)
(*                                                                         *)
(* The repository holds no service that issues requests: the calls of such *)
(* a service (IssueRequest, PurgeRequest, CompleteRequest, AddClient,      *)
(* RemoveClient) are made here in every order.                             *)
(***************************************************************************)
EXTENDS Integers, Sequences

CONSTANTS
  Clients,     \* the issuers, and the handler's clients
  MaxRequests, \* requests an issuer issues, fewer than RequestID has values
  Firings      \* times a one-shot timer fires

ASSUME RequestsAssumption ==
  MaxRequests \in Nat \ {0} /\ Firings \in Nat

RequestIDs == 0 .. MaxRequests - 1
NoInfo == 0

RequestState == {"Issued", "Completed", "Failed", "CanceledTimeout",
                 "CanceledUser", "CancelAcknowledged"}
NoRequest == "none"
HandlerRequestState == {"Active", "Cancelled", "Complete"}

VARIABLES
  \* the issuers: m_requestMap, m_nextRequestID, their dispatchers, the timers
  requestMap, nextRequestID, incoming, timers,
  \* the handler: m_requestClients, m_requestInfos, m_freeID, its dispatcher
  clientMaps, requestInfos, freeID, outgoing,
  \* what became of each request at the handler
  fate

issuerVars == <<requestMap, nextRequestID, incoming, timers>>
reqHandlerVars == <<clientMaps, requestInfos, freeID, fate>>
requestVars == <<issuerVars, reqHandlerVars, outgoing>>

NoMap == [r \in RequestIDs |-> NoInfo]
NoClient == [r \in {} |-> NoInfo]      \* no entry in m_requestClients
IsClient(c) == clientMaps[c] # NoClient

RequestsInit ==
  /\ requestMap = [c \in Clients |-> [r \in RequestIDs |-> NoRequest]]
  /\ nextRequestID = [c \in Clients |-> 0]
  /\ incoming = [c \in Clients |-> <<>>]
  /\ timers = [c \in Clients |-> [r \in RequestIDs |-> 0]]
  /\ clientMaps = [c \in Clients |-> NoClient]
  /\ requestInfos = [i \in {} |-> 0]
  /\ freeID = 1
  /\ outgoing = <<>>
  /\ fate = [c \in Clients |-> [r \in RequestIDs |-> "unknown"]]

-----------------------------------------------------------------------------
(* BaseRequestInfo::Updater *)

\* A fault: any end is a valid next state.
AnyEnd(now, stateToBe, hasResult) ==
  stateToBe # "Issued" /\ (stateToBe \in {"Completed", "Failed"} => hasResult)

\* stateToBe is a valid next state of a request in state now.
IsValid(now, stateToBe, hasResult) ==
  CASE stateToBe \in {"Completed", "Failed"} -> hasResult /\ now = "Issued"
    [] stateToBe \in {"CanceledTimeout", "CanceledUser"} -> now = "Issued"
    [] stateToBe = "CancelAcknowledged" ->
         now \in {"CanceledTimeout", "CanceledUser"}
    [] OTHER -> FALSE

\* The Updater's operator() on a request in state now.
Updated(now, delta) ==
  IF IsValid(now, delta.state, delta.hasResult) THEN delta.state ELSE now

\* A fault: a request that is still waited for is purged without a cancel.
OnlyCancelled(s) == s \in {"CancelAcknowledged", "CanceledTimeout", "CanceledUser"}

IsCancelableState(s) ==
  s \in {"Issued", "CancelAcknowledged", "CanceledTimeout", "CanceledUser"}

RequestSetStateDelta(r, s) == [id |-> r, state |-> s, hasResult |-> FALSE]

\* A fault: the completion is sent as a cancellation is.
CompletedAsCancelled(r) ==
  [id |-> r, state |-> "CancelAcknowledged", hasResult |-> FALSE]

\* The constructor takes a result and keeps nothing of it.
RequestCompleteDelta(r) == [id |-> r, state |-> "Completed", hasResult |-> FALSE]

-----------------------------------------------------------------------------
(* BaseRequestIssuer *)

RequestIssueMessage(c, r) == [kind |-> "issue", id |-> r, client |-> c]
RequestCancelMessage(c, r) == [kind |-> "cancel", id |-> r, client |-> c]

IssueRequest(c) ==
  /\ nextRequestID[c] < MaxRequests
  /\ LET r == nextRequestID[c] IN
       /\ requestMap' = [requestMap EXCEPT ![c][r] = "Issued"]
       /\ nextRequestID' = [nextRequestID EXCEPT ![c] = r + 1]
       /\ outgoing' = Append(outgoing, RequestIssueMessage(c, r))
       /\ \E n \in {0, Firings} : timers' = [timers EXCEPT ![c][r] = n]
  /\ UNCHANGED <<incoming, reqHandlerVars>>

\* TimeoutSender::OnTimer, on the timer thread.
OnTimer(c, r) ==
  /\ timers[c][r] > 0
  /\ timers' = [timers EXCEPT ![c][r] = @ - 1]
  /\ incoming' = [incoming EXCEPT
       ![c] = Append(@, RequestSetStateDelta(r, "CanceledTimeout"))]
  /\ UNCHANGED <<requestMap, nextRequestID, reqHandlerVars, outgoing>>

\* The handler is told when the request it may be working on goes away.
CancelsOnPurge(c, r) ==
  IF IsCancelableState(requestMap[c][r]) THEN <<RequestCancelMessage(c, r)>>
  ELSE <<>>

IssuerPurgeRequest(c, r) ==
  /\ requestMap[c][r] # NoRequest
  /\ outgoing' = outgoing \o CancelsOnPurge(c, r)
  /\ requestMap' = [requestMap EXCEPT ![c][r] = NoRequest]
  /\ UNCHANGED <<nextRequestID, incoming, timers, reqHandlerVars>>

\* The cancel that goes to the handler when a request has just timed out.
CancelsOnChange(c, r, before, after) ==
  IF before # after /\ after = "CanceledTimeout"
  THEN <<RequestCancelMessage(c, r)>> ELSE <<>>

\* m_purgeOnCancelAck is never set, so an acknowledged request stays.
OnIncomingRequestMessage(c) ==
  /\ incoming[c] # <<>>
  /\ incoming' = [incoming EXCEPT ![c] = Tail(@)]
  /\ LET delta == Head(incoming[c])
         before == requestMap[c][delta.id]
         after == IF before = NoRequest THEN before ELSE Updated(before, delta) IN
       /\ requestMap' = [requestMap EXCEPT ![c][delta.id] = after]
       /\ outgoing' = outgoing \o CancelsOnChange(c, delta.id, before, after)
  /\ UNCHANGED <<nextRequestID, timers, reqHandlerVars>>

-----------------------------------------------------------------------------
(* BaseRequestHandler *)

AddClient(c) ==
  /\ ~IsClient(c) /\ nextRequestID[c] = 0
  /\ clientMaps' = [clientMaps EXCEPT ![c] = NoMap]
  /\ UNCHANGED <<issuerVars, requestInfos, freeID, fate, outgoing>>

WithoutInfos(S) == [i \in DOMAIN requestInfos \ S |-> requestInfos[i]]

\* A fault: the entry stays in the client's map.
EntryKept(i) == clientMaps

\* PurgeRequest: the entry in the client's map goes with the information.
EntryDropped(i) ==
  LET info == requestInfos[i] IN
  IF IsClient(info.client) THEN [clientMaps EXCEPT ![info.client][info.id] = NoInfo]
  ELSE clientMaps

\* A request is answered, once, and forgotten.
Answer(i, outcome, delta) ==
  LET info == requestInfos[i] IN
  /\ info.state = "Active"
  /\ incoming' = [incoming EXCEPT ![info.client] = Append(@, delta)]
  /\ fate' = [fate EXCEPT ![info.client][info.id] = outcome]
  /\ clientMaps' = EntryDropped(i)
  /\ requestInfos' = WithoutInfos({i})

\* CompleteRequest, called by the service that owns the handler.
CompleteRequest(i) ==
  /\ Answer(i, "Complete", RequestCompleteDelta(requestInfos[i].id))
  /\ UNCHANGED <<requestMap, nextRequestID, timers, freeID, outgoing>>

\* The client's requests; a client's map holds one per identifier.
RequestsOf(c) == {clientMaps[c][r] : r \in DOMAIN clientMaps[c]} \ {NoInfo}

\* Nothing is sent: the requests of the client are orphaned.
ReqRemoveClient(c) ==
  /\ IsClient(c)
  /\ requestInfos' = WithoutInfos(RequestsOf(c))
  /\ fate' = [fate EXCEPT ![c] = [r \in RequestIDs |->
       IF clientMaps[c][r] # NoInfo THEN "orphaned" ELSE @[r]]]
  /\ clientMaps' = [clientMaps EXCEPT ![c] = NoClient]
  /\ UNCHANGED <<issuerVars, freeID, outgoing>>

\* OnRequestOutgoingMessage dispatches to CreateRequest or CancelRequest.
NextOutgoing(kind) ==
  /\ outgoing # <<>> /\ Head(outgoing).kind = kind
  /\ outgoing' = Tail(outgoing)

CreateRequest ==
  /\ NextOutgoing("issue")
  /\ LET c == Head(outgoing).client
         r == Head(outgoing).id IN
       IF IsClient(c)
       THEN /\ clientMaps' = [clientMaps EXCEPT ![c][r] = freeID]
            /\ requestInfos' = [i \in DOMAIN requestInfos \cup {freeID} |->
                 IF i = freeID THEN [client |-> c, id |-> r, state |-> "Active"]
                 ELSE requestInfos[i]]
            /\ freeID' = freeID + 1
            /\ fate' = [fate EXCEPT ![c][r] = "Active"]
       ELSE UNCHANGED reqHandlerVars
  /\ UNCHANGED issuerVars

GetRequestInfoID(c, r) == IF IsClient(c) THEN clientMaps[c][r] ELSE NoInfo

CancelRequest ==
  /\ NextOutgoing("cancel")
  /\ LET r == Head(outgoing).id
         i == GetRequestInfoID(Head(outgoing).client, r) IN
       IF i \in DOMAIN requestInfos
       THEN Answer(i, "Cancelled", RequestSetStateDelta(r, "CancelAcknowledged"))
       ELSE UNCHANGED <<incoming, clientMaps, requestInfos, fate>>
  /\ UNCHANGED <<requestMap, nextRequestID, timers, freeID>>

-----------------------------------------------------------------------------
IssuerDispatches == \E c \in Clients : OnIncomingRequestMessage(c)
HandlerDispatches == CreateRequest \/ CancelRequest

RequestsNext ==
  \/ \E c \in Clients : IssueRequest(c) \/ AddClient(c) \/ ReqRemoveClient(c)
  \/ \E c \in Clients, r \in RequestIDs : OnTimer(c, r) \/ IssuerPurgeRequest(c, r)
  \/ \E i \in DOMAIN requestInfos : CompleteRequest(i)
  \/ IssuerDispatches
  \/ HandlerDispatches

RequestsSpec == RequestsInit /\ [][RequestsNext]_requestVars

\* The handler's dispatching thread handles what is queued.  Nothing obliges an
\* issuer to read its answers, nor a service to complete, purge or issue.
RequestsFairness == WF_requestVars(HandlerDispatches)

-----------------------------------------------------------------------------
(* Properties *)

\* Deltas are delivered as records of RequestDeltas.h; the handler keeps one
\* piece of information per identifier it has handed out.
RequestsTypeOK ==
  /\ requestMap \in [Clients -> [RequestIDs -> RequestState \cup {NoRequest}]]
  /\ nextRequestID \in [Clients -> 0 .. MaxRequests]
  /\ incoming \in [Clients -> Seq([id : RequestIDs,
        state : {"Completed", "CanceledTimeout", "CancelAcknowledged"},
        hasResult : BOOLEAN])]
  /\ timers \in [Clients -> [RequestIDs -> 0 .. Firings]]
  /\ clientMaps \in [Clients -> {NoClient} \cup [RequestIDs -> 0 .. freeID - 1]]
  /\ DOMAIN requestInfos \subseteq 1 .. freeID - 1
  /\ \A i \in DOMAIN requestInfos : requestInfos[i] \in
        [client : Clients, id : RequestIDs, state : HandlerRequestState]
  /\ freeID \in Nat \ {0}
  /\ fate \in [Clients -> [RequestIDs ->
       {"unknown", "Active", "Complete", "Cancelled", "orphaned"}]]
  /\ outgoing \in Seq([kind : {"issue", "cancel"}, id : RequestIDs, client : Clients])

\* The two ways to look up a request (BaseRequestHandler.h:267) agree: an entry
\* of a client's map leads to the information of that very request, and every
\* piece of information is found again by its coordinates and still active.
LookupsAgree ==
  /\ \A c \in Clients : \A r \in DOMAIN clientMaps[c] :
       clientMaps[c][r] # NoInfo =>
         /\ clientMaps[c][r] \in DOMAIN requestInfos
         /\ requestInfos[clientMaps[c][r]].client = c
         /\ requestInfos[clientMaps[c][r]].id = r
  /\ \A i \in DOMAIN requestInfos :
       /\ GetRequestInfoID(requestInfos[i].client, requestInfos[i].id) = i
       /\ requestInfos[i].state = "Active"

\* An issuer that was told of a cancellation has given the request up before,
\* and the handler did cancel it: a completed request is never acknowledged as
\* cancelled, whatever order the completion, the timeout and the purge come in.
AcknowledgedWasCancelled ==
  \A c \in Clients, r \in RequestIDs :
    requestMap[c][r] = "CancelAcknowledged" => fate[c][r] = "Cancelled"

\* When no message is on its way the handler works only on requests their issuer
\* still waits for: a purge or a timeout reached it, in time or not.
NoWorkForNobody ==
  (outgoing = <<>> /\ \A c \in Clients : incoming[c] = <<>>) =>
    \A i \in DOMAIN requestInfos :
      requestMap[requestInfos[i].client][requestInfos[i].id] = "Issued"

\* The two sides agree on cancellations: one that is acknowledged did happen, and
\* with nothing on its way the handler works only on requests that are waited
\* for.  Of completions this says nothing (CompletionsReported does).
SidesAgree == AcknowledgedWasCancelled /\ NoWorkForNobody

\* With nothing on its way an issuer does not wait for a request the handler has
\* completed: the completion took it out of the state a timeout cancels
\* (BaseRequestIssuer.h:39-40), and its listener was told (IRequestResponse.h:70).
CompletionsReported ==
  (outgoing = <<>> /\ \A c \in Clients : incoming[c] = <<>>) =>
    \A c \in Clients, r \in RequestIDs :
      fate[c][r] = "Complete" => requestMap[c][r] # "Issued"

\* What an issuer has been told stays: a late or second timeout does not undo an
\* acknowledgement, a request that was given up is never taken up again.
NeverTakenBack ==
  [][\A c \in Clients, r \in RequestIDs :
       /\ requestMap[c][r] = "CancelAcknowledged" =>
            requestMap'[c][r] \in {"CancelAcknowledged", NoRequest}
       /\ requestMap[c][r] = "CanceledTimeout" => requestMap'[c][r] # "Issued"
     ]_requestVars

\* The handler still works on a request its issuer has given up.
WorksInVain ==
  \E i \in DOMAIN requestInfos :
    requestMap[requestInfos[i].client][requestInfos[i].id] # "Issued"

\* Requests their issuers have given up, by a timeout or a purge, are in the end
\* no longer worked on by the handler, nor waiting to be.
GivenUpIsDropped ==
  WorksInVain ~> (outgoing = <<>> /\ ~WorksInVain)
=============================================================================
