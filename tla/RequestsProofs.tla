---------------------------- MODULE RequestsProofs ----------------------------
(***************************************************************************)
(* What Requests promises for any number of issuers and requests: the two  *)
(* ways to look up a request agree, what an issuer believes of a request   *)
(* is what became of it, and what it was told is not taken back.           *)
(***************************************************************************)
EXTENDS Requests, SequenceTheorems, TLAPS

Deltas == [id : RequestIDs, state : {"Completed", "CanceledTimeout", "CancelAcknowledged"},
           hasResult : BOOLEAN]
Messages == [kind : {"issue", "cancel"}, id : RequestIDs, client : Clients]
Infos == [client : Clients, id : RequestIDs, state : HandlerRequestState]

-----------------------------------------------------------------------------
(* Types *)

\* A request has an identifier, so that an entry in m_requestClients is not the
\* lack of one.
LEMMA SomeRequest ==
  /\ 0 \in RequestIDs /\ RequestIDs \subseteq Nat
  /\ \A m \in [RequestIDs -> Nat] : m # NoClient
<1>1. 0 \in RequestIDs /\ RequestIDs \subseteq Nat
  BY RequestsAssumption DEF RequestIDs
<1>2. ASSUME NEW m \in [RequestIDs -> Nat] PROVE m # NoClient
  <2>1. DOMAIN m = RequestIDs /\ DOMAIN NoClient = {}
    BY DEF NoClient
  <2> QED BY <1>1, <2>1
<1> QED BY <1>1, <1>2

\* The entries of a client are those of a map of its own.
LEMMA ClientMapType ==
  ASSUME RequestsTypeOK, NEW c \in Clients, IsClient(c)
  PROVE  clientMaps[c] \in [RequestIDs -> 0 .. freeID - 1]
BY DEF RequestsTypeOK, IsClient

\* The messages of an issuer and of the handler have the types of the queues.
LEMMA MessageTypes ==
  ASSUME NEW c \in Clients, NEW r \in RequestIDs
  PROVE  /\ RequestIssueMessage(c, r) \in Messages
         /\ RequestCancelMessage(c, r) \in Messages
         /\ RequestCompleteDelta(r) \in Deltas
         /\ \A s \in {"CanceledTimeout", "CancelAcknowledged"} :
              RequestSetStateDelta(r, s) \in Deltas
BY DEF RequestIssueMessage, RequestCancelMessage, RequestCompleteDelta,
       RequestSetStateDelta, Messages, Deltas

\* An answer is one more delta for its issuer, and the information goes.
LEMMA AnswerType ==
  ASSUME RequestsTypeOK, NEW i \in DOMAIN requestInfos,
         NEW outcome \in {"Complete", "Cancelled"},
         NEW delta \in Deltas, Answer(i, outcome, delta),
         UNCHANGED <<requestMap, nextRequestID, timers, freeID>>,
         outgoing' \in Seq(Messages)
  PROVE  RequestsTypeOK'
<1> DEFINE info == requestInfos[i]
<1>1. info \in Infos
  BY DEF RequestsTypeOK, Infos
<1>2. incoming' \in [Clients -> Seq(Deltas)]
  <2>1. incoming \in [Clients -> Seq(Deltas)]
    BY DEF RequestsTypeOK, Deltas
  <2>2. Append(incoming[info.client], delta) \in Seq(Deltas)
    BY <1>1, <2>1, AppendProperties DEF Infos
  <2> QED BY <2>1, <2>2 DEF Answer
<1>3. clientMaps' \in [Clients -> {NoClient} \cup [RequestIDs -> 0 .. freeID - 1]]
  <2>1. CASE IsClient(info.client)
    <3>1. clientMaps[info.client] \in [RequestIDs -> 0 .. freeID - 1]
      BY <1>1, <2>1, ClientMapType DEF Infos
    <3>2. NoInfo \in 0 .. freeID - 1
      BY DEF RequestsTypeOK, NoInfo
    <3>3. [clientMaps[info.client] EXCEPT ![info.id] = NoInfo] \in [RequestIDs -> 0 .. freeID - 1]
      BY <3>1, <3>2
    <3>4. clientMaps' = [clientMaps EXCEPT ![info.client] =
                           [clientMaps[info.client] EXCEPT ![info.id] = NoInfo]]
      BY <2>1 DEF Answer, EntryDropped
    <3> QED BY <3>3, <3>4 DEF RequestsTypeOK
  <2>2. CASE ~IsClient(info.client)
    BY <2>2 DEF Answer, EntryDropped, RequestsTypeOK
  <2> QED BY <2>1, <2>2
<1>4. /\ DOMAIN requestInfos' \subseteq 1 .. freeID - 1
      /\ \A j \in DOMAIN requestInfos' : requestInfos'[j] \in Infos
  BY DEF Answer, WithoutInfos, RequestsTypeOK, Infos
<1>5. fate' \in [Clients -> [RequestIDs ->
         {"unknown", "Active", "Complete", "Cancelled", "orphaned"}]]
  BY <1>1 DEF Answer, RequestsTypeOK, Infos
<1> QED
  BY <1>2, <1>3, <1>4, <1>5 DEF RequestsTypeOK, Deltas, Messages, Infos

\* The issuers keep the types.
LEMMA IssuerType ==
  ASSUME RequestsTypeOK, NEW c \in Clients, NEW r \in RequestIDs,
         \/ IssueRequest(c) \/ OnTimer(c, r) \/ IssuerPurgeRequest(c, r)
         \/ OnIncomingRequestMessage(c)
  PROVE  RequestsTypeOK'
<1>0. /\ incoming \in [Clients -> Seq(Deltas)] /\ outgoing \in Seq(Messages)
      /\ requestMap \in [Clients -> [RequestIDs -> RequestState \cup {NoRequest}]]
  BY DEF RequestsTypeOK, Deltas, Messages
<1>1. CASE IssueRequest(c)
  <2> DEFINE n == nextRequestID[c]
  <2>1. n \in RequestIDs /\ n + 1 \in 0 .. MaxRequests
    BY <1>1, RequestsAssumption DEF IssueRequest, RequestsTypeOK, RequestIDs
  <2>2. outgoing' \in Seq(Messages)
    BY <1>0, <1>1, <2>1, MessageTypes, AppendProperties DEF IssueRequest
  <2>3. timers' \in [Clients -> [RequestIDs -> 0 .. Firings]]
    BY <1>1, <2>1, RequestsAssumption DEF IssueRequest, RequestsTypeOK
  <2>4. requestMap' \in [Clients -> [RequestIDs -> RequestState \cup {NoRequest}]]
    BY <1>0, <1>1, <2>1 DEF IssueRequest, RequestState
  <2>5. nextRequestID' \in [Clients -> 0 .. MaxRequests]
    BY <1>1, <2>1 DEF IssueRequest, RequestsTypeOK
  <2> QED
    BY <1>1, <2>2, <2>3, <2>4, <2>5 DEF IssueRequest, RequestsTypeOK, reqHandlerVars, Messages
<1>2. CASE OnTimer(c, r)
  <2>1. incoming' \in [Clients -> Seq(Deltas)]
    BY <1>0, <1>2, MessageTypes, AppendProperties DEF OnTimer
  <2>2. timers' \in [Clients -> [RequestIDs -> 0 .. Firings]]
    BY <1>2, RequestsAssumption DEF OnTimer, RequestsTypeOK
  <2> QED
    BY <1>2, <2>1, <2>2 DEF OnTimer, RequestsTypeOK, reqHandlerVars, Deltas
<1>3. CASE IssuerPurgeRequest(c, r)
  <2>1. CancelsOnPurge(c, r) \in Seq(Messages)
    BY MessageTypes DEF CancelsOnPurge
  <2>2. outgoing' \in Seq(Messages)
    BY <1>0, <1>3, <2>1, ConcatProperties DEF IssuerPurgeRequest
  <2>3. requestMap' \in [Clients -> [RequestIDs -> RequestState \cup {NoRequest}]]
    BY <1>0, <1>3 DEF IssuerPurgeRequest
  <2> QED
    BY <1>3, <2>2, <2>3 DEF IssuerPurgeRequest, RequestsTypeOK, reqHandlerVars, Messages
<1>4. CASE OnIncomingRequestMessage(c)
  <2> DEFINE delta == Head(incoming[c])
             before == requestMap[c][delta.id]
             after == IF before = NoRequest THEN before ELSE Updated(before, delta)
  <2>1. delta \in Deltas /\ Tail(incoming[c]) \in Seq(Deltas)
    BY <1>0, <1>4, HeadTailProperties DEF OnIncomingRequestMessage
  <2>2. delta.id \in RequestIDs /\ delta.state \in RequestState
    BY <2>1 DEF Deltas, RequestState
  <2>3. after \in RequestState \cup {NoRequest}
    BY <1>0, <2>2 DEF Updated
  <2>4. CancelsOnChange(c, delta.id, before, after) \in Seq(Messages)
    BY <2>2, MessageTypes DEF CancelsOnChange
  <2>5. outgoing' \in Seq(Messages)
    BY <1>0, <1>4, <2>4, ConcatProperties DEF OnIncomingRequestMessage
  <2>6. requestMap' \in [Clients -> [RequestIDs -> RequestState \cup {NoRequest}]]
    BY <1>0, <1>4, <2>2, <2>3 DEF OnIncomingRequestMessage
  <2>7. incoming' \in [Clients -> Seq(Deltas)]
    BY <1>0, <1>4, <2>1 DEF OnIncomingRequestMessage
  <2> QED
    BY <1>4, <2>5, <2>6, <2>7
    DEF OnIncomingRequestMessage, RequestsTypeOK, reqHandlerVars, Messages, Deltas
<1> QED BY <1>1, <1>2, <1>3, <1>4

\* So does the handler.
LEMMA HandlerType ==
  ASSUME RequestsTypeOK,
         \/ (\E c \in Clients : AddClient(c) \/ ReqRemoveClient(c))
         \/ (\E i \in DOMAIN requestInfos : CompleteRequest(i))
         \/ CreateRequest \/ CancelRequest
  PROVE  RequestsTypeOK'
<1>0. /\ incoming \in [Clients -> Seq(Deltas)] /\ outgoing \in Seq(Messages)
      /\ freeID \in Nat \ {0}
      /\ clientMaps \in [Clients -> {NoClient} \cup [RequestIDs -> 0 .. freeID - 1]]
      /\ \A i \in DOMAIN requestInfos : requestInfos[i] \in Infos
  BY DEF RequestsTypeOK, Deltas, Messages, Infos
<1>1. ASSUME NEW c \in Clients, AddClient(c) PROVE RequestsTypeOK'
  <2>1. NoMap \in [RequestIDs -> 0 .. freeID - 1]
    BY <1>0 DEF NoMap, NoInfo
  <2> QED
    BY <1>1, <2>1 DEF AddClient, RequestsTypeOK, issuerVars
<1>2. ASSUME NEW c \in Clients, ReqRemoveClient(c) PROVE RequestsTypeOK'
  <2>1. /\ DOMAIN requestInfos' \subseteq 1 .. freeID - 1
        /\ \A j \in DOMAIN requestInfos' : requestInfos'[j] \in Infos
    BY <1>0, <1>2 DEF ReqRemoveClient, WithoutInfos, RequestsTypeOK
  <2>2. fate' \in [Clients -> [RequestIDs ->
           {"unknown", "Active", "Complete", "Cancelled", "orphaned"}]]
    BY <1>2 DEF ReqRemoveClient, RequestsTypeOK
  <2> QED
    BY <1>2, <2>1, <2>2 DEF ReqRemoveClient, RequestsTypeOK, issuerVars, Infos
<1>3. CASE \E i \in DOMAIN requestInfos : CompleteRequest(i)
  <2>1. PICK i \in DOMAIN requestInfos : CompleteRequest(i)
    BY <1>3
  <2>2. RequestCompleteDelta(requestInfos[i].id) \in Deltas
    BY <1>0, MessageTypes DEF Infos
  <2> QED
    BY <1>0, <2>1, <2>2, AnswerType DEF CompleteRequest
<1>4. ASSUME outgoing # <<>>
      PROVE  /\ Head(outgoing) \in Messages /\ Tail(outgoing) \in Seq(Messages)
             /\ Head(outgoing).client \in Clients /\ Head(outgoing).id \in RequestIDs
  <2>1. Head(outgoing) \in Messages /\ Tail(outgoing) \in Seq(Messages)
    BY <1>0, <1>4, HeadTailProperties
  <2> QED BY <2>1 DEF Messages
<1>5. CASE CreateRequest
  <2> DEFINE d == Head(outgoing).client
             r == Head(outgoing).id
  <2>1. /\ d \in Clients /\ r \in RequestIDs /\ outgoing' \in Seq(Messages)
    BY <1>4, <1>5 DEF CreateRequest, NextOutgoing
  <2>2. CASE IsClient(d)
    <3>1. /\ clientMaps' = [clientMaps EXCEPT ![d][r] = freeID]
          /\ requestInfos' = [i \in DOMAIN requestInfos \cup {freeID} |->
               IF i = freeID THEN [client |-> d, id |-> r, state |-> "Active"]
               ELSE requestInfos[i]]
          /\ freeID' = freeID + 1
          /\ fate' = [fate EXCEPT ![d][r] = "Active"]
          /\ UNCHANGED issuerVars
      BY <1>5, <2>2 DEF CreateRequest
    <3>2. clientMaps[d] \in [RequestIDs -> 0 .. freeID - 1]
      BY <2>1, <2>2, ClientMapType
    <3>3. \A m \in [RequestIDs -> 0 .. freeID - 1] : m \in [RequestIDs -> 0 .. freeID]
      BY <1>0
    <3>4. [clientMaps[d] EXCEPT ![r] = freeID] \in [RequestIDs -> 0 .. freeID]
      <4>1. clientMaps[d] \in [RequestIDs -> 0 .. freeID] /\ freeID \in 0 .. freeID
        BY <1>0, <3>2, <3>3
      <4> QED BY <4>1
    <3>5. clientMaps' \in [Clients -> {NoClient} \cup [RequestIDs -> 0 .. freeID' - 1]]
      BY <1>0, <2>1, <3>1, <3>3, <3>4
    <3>6. [client |-> d, id |-> r, state |-> "Active"] \in Infos
      BY <2>1 DEF Infos, HandlerRequestState
    <3>7. /\ DOMAIN requestInfos' \subseteq 1 .. freeID' - 1
          /\ \A j \in DOMAIN requestInfos' : requestInfos'[j] \in Infos
      BY <1>0, <3>1, <3>6 DEF RequestsTypeOK
    <3>8. fate' \in [Clients -> [RequestIDs ->
             {"unknown", "Active", "Complete", "Cancelled", "orphaned"}]]
      BY <2>1, <3>1 DEF RequestsTypeOK
    <3>9. /\ UNCHANGED <<requestMap, nextRequestID, incoming, timers>>
          /\ freeID' \in Nat \ {0}
      BY <1>0, <3>1 DEF issuerVars
    <3> QED
      BY <2>1, <3>5, <3>7, <3>8, <3>9 DEF RequestsTypeOK, Messages, Infos
  <2>3. CASE ~IsClient(d)
    BY <1>5, <2>1, <2>3 DEF CreateRequest, RequestsTypeOK, issuerVars, reqHandlerVars, Messages
  <2> QED BY <2>2, <2>3
<1>6. CASE CancelRequest
  <2> DEFINE r == Head(outgoing).id
             i == GetRequestInfoID(Head(outgoing).client, r)
  <2>1. /\ Head(outgoing).client \in Clients /\ r \in RequestIDs
        /\ outgoing' \in Seq(Messages)
    BY <1>4, <1>6 DEF CancelRequest, NextOutgoing
  <2>2. CASE i \in DOMAIN requestInfos
    <3>1. RequestSetStateDelta(r, "CancelAcknowledged") \in Deltas
      BY <2>1, MessageTypes
    <3> QED
      BY <1>6, <2>1, <2>2, <3>1, AnswerType DEF CancelRequest
  <2>3. CASE i \notin DOMAIN requestInfos
    BY <1>6, <2>1, <2>3 DEF CancelRequest, RequestsTypeOK, Messages
  <2> QED BY <2>2, <2>3
<1> QED BY <1>1, <1>2, <1>3, <1>5, <1>6

\* Every variable of a request keeps its type, at its issuer, its handler and
\* between them.
THEOREM RequestsTypeCorrect == RequestsSpec => []RequestsTypeOK
<1>1. RequestsInit => RequestsTypeOK
  <2> SUFFICES ASSUME RequestsInit PROVE RequestsTypeOK
    OBVIOUS
  <2>1. 0 \in 0 .. MaxRequests /\ 0 \in 0 .. Firings
    BY RequestsAssumption
  <2>2. <<>> \in Seq(Deltas) /\ <<>> \in Seq(Messages)
    BY EmptySeq
  <2> QED
    BY <2>1, <2>2 DEF RequestsInit, RequestsTypeOK, Deltas, Messages
<1>2. RequestsTypeOK /\ [RequestsNext]_requestVars => RequestsTypeOK'
  <2> SUFFICES ASSUME RequestsTypeOK, [RequestsNext]_requestVars PROVE RequestsTypeOK'
    OBVIOUS
  <2>1. CASE RequestsNext
    BY <2>1, IssuerType, HandlerType, SomeRequest
    DEF RequestsNext, IssuerDispatches, HandlerDispatches
  <2>2. CASE UNCHANGED requestVars
    BY <2>2 DEF requestVars, issuerVars, reqHandlerVars, RequestsTypeOK
  <2> QED BY <2>1, <2>2
<1> QED
  BY <1>1, <1>2, PTL DEF RequestsSpec

-----------------------------------------------------------------------------
(* The inductive invariant *)

\* A cancel of the request is on its way to the handler, behind place k.
CancelledAfter(c, r, k) ==
  \E l \in DOMAIN outgoing : l > k /\ outgoing[l] = RequestCancelMessage(c, r)

\* A request on its way to the handler was issued, is unknown there and on its
\* way only once; if its issuer has given it up a cancel follows it.
IssuesInv ==
  \A c \in Clients, r \in RequestIDs : \A k \in DOMAIN outgoing :
    outgoing[k] = RequestIssueMessage(c, r) =>
      /\ r < nextRequestID[c] /\ fate[c][r] = "unknown"
      /\ \A l \in DOMAIN outgoing : outgoing[l] = RequestIssueMessage(c, r) => l = k
      /\ requestMap[c][r] = "Issued" \/ CancelledAfter(c, r, k)

\* What was not issued is known to nobody.
FreshInv ==
  \A c \in Clients, r \in RequestIDs :
    r >= nextRequestID[c] => requestMap[c][r] = NoRequest /\ fate[c][r] = "unknown"

\* A request the handler works on is active; if its issuer has given it up a
\* cancel is on its way.
InfosInv ==
  \A i \in DOMAIN requestInfos :
    LET c == requestInfos[i].client
        r == requestInfos[i].id IN
    /\ fate[c][r] = "Active"
    /\ requestMap[c][r] = "Issued" \/ CancelledAfter(c, r, 0)

\* Deltas come without a result, and acknowledge only what was cancelled.
AnswersInv ==
  \A c \in Clients : \A k \in DOMAIN incoming[c] :
    LET delta == incoming[c][k] IN
    /\ ~delta.hasResult
    /\ delta.state = "CancelAcknowledged" => fate[c][delta.id] = "Cancelled"

RequestsInv ==
  /\ RequestsTypeOK
  /\ LookupsAgree /\ AcknowledgedWasCancelled
  /\ IssuesInv /\ FreshInv /\ InfosInv /\ AnswersInv

-----------------------------------------------------------------------------
(* Queues *)

\* The types of the two queues, by name.
LEMMA QueueTypes ==
  ASSUME RequestsTypeOK
  PROVE  /\ outgoing \in Seq(Messages) /\ incoming \in [Clients -> Seq(Deltas)]
         /\ \A i \in DOMAIN requestInfos : requestInfos[i] \in Infos /\ i \in Nat \ {0}
         /\ \A i \in DOMAIN requestInfos : i # freeID
         /\ \A c \in Clients, q \in RequestIDs : nextRequestID[c] \in Nat /\ q \in Nat
<1>1. outgoing \in Seq(Messages) /\ incoming \in [Clients -> Seq(Deltas)]
  BY DEF RequestsTypeOK, Messages, Deltas
<1>2. \A i \in DOMAIN requestInfos : requestInfos[i] \in Infos /\ i \in 1 .. freeID - 1
  BY DEF RequestsTypeOK, Infos
<1>3. freeID \in Nat
  BY DEF RequestsTypeOK
<1>4. \A c \in Clients : nextRequestID[c] \in 0 .. MaxRequests
  BY DEF RequestsTypeOK
<1> QED BY <1>1, <1>2, <1>3, <1>4, SomeRequest

\* One message more, or none.
LEMMA Extended ==
  ASSUME NEW S, NEW s \in Seq(S), NEW t \in Seq(S), Len(t) <= 1
  PROVE  /\ \A k \in DOMAIN s : k \in DOMAIN (s \o t) /\ (s \o t)[k] = s[k]
         /\ \A k \in DOMAIN (s \o t) :
              k \in DOMAIN s \/ (k > Len(s) /\ t # <<>> /\ (s \o t)[k] = t[1])
         /\ t # <<>> => Len(s) + 1 \in DOMAIN (s \o t) /\ (s \o t)[Len(s) + 1] = t[1]
         /\ \A k \in DOMAIN s : k \in Nat /\ k < Len(s) + 1
<1>0. /\ Len(s) \in Nat /\ DOMAIN s = 1 .. Len(s)
      /\ Len(t) \in Nat /\ DOMAIN t = 1 .. Len(t)
  BY LenProperties
<1>1. /\ Len(s) \in Nat /\ DOMAIN s = 1 .. Len(s)
      /\ Len(t) \in Nat /\ DOMAIN t = 1 .. Len(t)
      /\ t # <<>> => Len(t) = 1
  BY <1>0, EmptySeq
<1>2. /\ s \o t \in Seq(S) /\ Len(s \o t) = Len(s) + Len(t)
      /\ \A i \in 1 .. Len(s) + Len(t) :
           (s \o t)[i] = IF i <= Len(s) THEN s[i] ELSE t[i - Len(s)]
  BY ConcatProperties
<1>3. DOMAIN (s \o t) = 1 .. Len(s) + Len(t)
  BY <1>2, LenProperties
<1>4. t = <<>> => Len(t) = 0
  BY EmptySeq
<1> QED BY <1>1, <1>2, <1>3, <1>4

\* The first message is taken.
LEMMA Taken ==
  ASSUME NEW S, NEW s \in Seq(S), s # <<>>
  PROVE  /\ 1 \in DOMAIN s /\ s[1] = Head(s) /\ Head(s) \in S /\ Tail(s) \in Seq(S)
         /\ \A k \in DOMAIN Tail(s) :
              k \in Nat /\ k > 0 /\ k + 1 \in DOMAIN s /\ Tail(s)[k] = s[k + 1]
         /\ \A l \in DOMAIN s :
              l \in Nat /\ (l # 1 => l - 1 \in DOMAIN Tail(s) /\ Tail(s)[l - 1] = s[l])
<1>1. /\ Head(s) \in S /\ Tail(s) \in Seq(S) /\ Len(Tail(s)) = Len(s) - 1
      /\ \A i \in 1 .. Len(Tail(s)) : Tail(s)[i] = s[i + 1]
  BY HeadTailProperties
<1>2. /\ Len(s) \in Nat \ {0} /\ DOMAIN s = 1 .. Len(s)
      /\ DOMAIN Tail(s) = 1 .. Len(s) - 1
  BY <1>1, LenProperties, EmptySeq
<1>3. s[1] = Head(s)
  BY <1>2
<1> QED BY <1>1, <1>2, <1>3

\* What is queued for an issuer is a delta.
LEMMA DeltasQueued ==
  ASSUME RequestsTypeOK, NEW c \in Clients, NEW k \in DOMAIN incoming[c]
  PROVE  incoming[c][k] \in Deltas
<1>1. incoming[c] \in Seq(Deltas)
  BY QueueTypes
<1>2. k \in 1 .. Len(incoming[c])
  BY <1>1, LenProperties
<1> QED BY <1>1, <1>2, ElementOfSeq

\* A message tells what it is about.
LEMMA MessagesDiffer ==
  ASSUME NEW c, NEW d, NEW r, NEW q
  PROVE  /\ RequestIssueMessage(c, r) = RequestIssueMessage(d, q) => c = d /\ r = q
         /\ RequestCancelMessage(c, r) = RequestCancelMessage(d, q) => c = d /\ r = q
         /\ RequestIssueMessage(c, r) # RequestCancelMessage(d, q)
<1>1. /\ RequestIssueMessage(c, r).kind = "issue" /\ RequestIssueMessage(c, r).id = r
      /\ RequestIssueMessage(c, r).client = c
      /\ RequestIssueMessage(d, q).kind = "issue" /\ RequestIssueMessage(d, q).id = q
      /\ RequestIssueMessage(d, q).client = d
      /\ RequestCancelMessage(c, r).kind = "cancel" /\ RequestCancelMessage(c, r).id = r
      /\ RequestCancelMessage(c, r).client = c
      /\ RequestCancelMessage(d, q).kind = "cancel" /\ RequestCancelMessage(d, q).id = q
      /\ RequestCancelMessage(d, q).client = d
  BY DEF RequestIssueMessage, RequestCancelMessage
<1> QED BY <1>1

-----------------------------------------------------------------------------
(* The issuers *)

\* An issuer that gives a request up, if it was waited for, says so: what is
\* known of the requests on their way and at the handler is kept.
LEMMA GivingUpKeeps ==
  ASSUME RequestsInv, NEW c \in Clients, NEW r \in RequestIDs, NEW state,
         NEW t \in Seq(Messages), t = <<>> \/ t = <<RequestCancelMessage(c, r)>>,
         requestMap[c][r] = "Issued" => state = "Issued" \/ t # <<>>,
         requestMap' = [requestMap EXCEPT ![c][r] = state],
         outgoing' = outgoing \o t,
         UNCHANGED <<nextRequestID, requestInfos, fate>>
  PROVE  IssuesInv' /\ InfosInv'
<1>1. /\ outgoing \in Seq(Messages)
      /\ requestMap \in [Clients -> [RequestIDs -> RequestState \cup {NoRequest}]]
  BY QueueTypes DEF RequestsInv, RequestsTypeOK
<1>2. /\ t # <<>> => t[1] = RequestCancelMessage(c, r)
      /\ Len(t) <= 1
  OBVIOUS
<1>3. /\ \A k \in DOMAIN outgoing : k \in DOMAIN outgoing' /\ outgoing'[k] = outgoing[k]
      /\ \A k \in DOMAIN outgoing' :
           k \in DOMAIN outgoing \/ outgoing'[k] = RequestCancelMessage(c, r)
      /\ t # <<>> => /\ Len(outgoing) + 1 \in DOMAIN outgoing'
                     /\ outgoing'[Len(outgoing) + 1] = RequestCancelMessage(c, r)
      /\ \A k \in DOMAIN outgoing : k < Len(outgoing) + 1
      /\ 0 < Len(outgoing) + 1
  BY <1>1, <1>2, Extended, LenProperties
<1>4. \A d \in Clients, q \in RequestIDs : \A k :
        CancelledAfter(d, q, k) => CancelledAfter(d, q, k)'
  BY <1>3 DEF CancelledAfter
<1>5. \A d \in Clients, q \in RequestIDs : \A k \in DOMAIN outgoing \cup {0} :
        (requestMap[d][q] = "Issued" \/ CancelledAfter(d, q, k)) =>
          (requestMap'[d][q] = "Issued" \/ CancelledAfter(d, q, k)')
  <2> SUFFICES ASSUME NEW d \in Clients, NEW q \in RequestIDs,
                      NEW k \in DOMAIN outgoing \cup {0},
                      requestMap[d][q] = "Issued" \/ CancelledAfter(d, q, k)
               PROVE  requestMap'[d][q] = "Issued" \/ CancelledAfter(d, q, k)'
    OBVIOUS
  <2>1. CASE CancelledAfter(d, q, k)
    BY <1>4, <2>1
  <2>2. CASE requestMap[d][q] = "Issued" /\ d = c /\ q = r
    <3>1. requestMap'[c][r] = state
      BY <1>1
    <3>2. ASSUME t # <<>> PROVE CancelledAfter(c, r, k)'
      BY <1>3, <3>2 DEF CancelledAfter
    <3> QED BY <2>2, <3>1, <3>2
  <2>3. CASE requestMap[d][q] = "Issued" /\ ~(d = c /\ q = r)
    <3>1. requestMap'[d][q] = requestMap[d][q]
      BY <1>1, <2>3
    <3> QED BY <2>3, <3>1
  <2> QED BY <2>1, <2>2, <2>3
<1>6. IssuesInv'
  <2> SUFFICES ASSUME NEW d \in Clients, NEW q \in RequestIDs, NEW k \in DOMAIN outgoing',
                      outgoing'[k] = RequestIssueMessage(d, q)
               PROVE  /\ q < nextRequestID[d] /\ fate[d][q] = "unknown"
                      /\ \A l \in DOMAIN outgoing' :
                           outgoing'[l] = RequestIssueMessage(d, q) => l = k
                      /\ requestMap'[d][q] = "Issued" \/ CancelledAfter(d, q, k)'
    BY DEF IssuesInv
  <2>1. k \in DOMAIN outgoing /\ outgoing[k] = RequestIssueMessage(d, q)
    BY <1>3, MessagesDiffer
  <2>2. \A l \in DOMAIN outgoing' : outgoing'[l] = RequestIssueMessage(d, q) =>
          l \in DOMAIN outgoing /\ outgoing[l] = RequestIssueMessage(d, q)
    BY <1>3, MessagesDiffer
  <2> QED BY <1>5, <2>1, <2>2 DEF RequestsInv, IssuesInv
<1>7. InfosInv'
  <2>1. \A i \in DOMAIN requestInfos :
          requestInfos[i].client \in Clients /\ requestInfos[i].id \in RequestIDs
    BY QueueTypes DEF RequestsInv, Infos
  <2> QED BY <1>5, <2>1 DEF RequestsInv, InfosInv
<1> QED BY <1>6, <1>7

\* What of the lookups depends on the handler's maps alone.
LEMMA LookupsKept ==
  ASSUME LookupsAgree, UNCHANGED <<clientMaps, requestInfos>>
  PROVE  LookupsAgree'
BY DEF LookupsAgree, GetRequestInfoID, IsClient

\* An issuer keeps the invariant when it issues a request,
LEMMA IssueKeeps ==
  ASSUME RequestsInv, RequestsTypeOK', NEW c \in Clients, IssueRequest(c)
  PROVE  RequestsInv'
<1> DEFINE n == nextRequestID[c]
<1>1. /\ outgoing \in Seq(Messages) /\ n \in RequestIDs
      /\ requestMap \in [Clients -> [RequestIDs -> RequestState \cup {NoRequest}]]
      /\ nextRequestID \in [Clients -> 0 .. MaxRequests]
  <2>1. nextRequestID \in [Clients -> 0 .. MaxRequests] /\ n < MaxRequests
    BY DEF RequestsInv, RequestsTypeOK, IssueRequest
  <2>2. n \in RequestIDs
    BY <2>1, RequestsAssumption DEF RequestIDs
  <2> QED BY <2>1, <2>2, QueueTypes DEF RequestsInv, RequestsTypeOK
<1>2. /\ UNCHANGED <<incoming, clientMaps, requestInfos, freeID, fate>>
      /\ requestMap' = [requestMap EXCEPT ![c][n] = "Issued"]
      /\ nextRequestID' = [nextRequestID EXCEPT ![c] = n + 1]
      /\ outgoing' = Append(outgoing, RequestIssueMessage(c, n))
  BY DEF IssueRequest, reqHandlerVars
<1>3. /\ \A k \in DOMAIN outgoing : k \in DOMAIN outgoing' /\ outgoing'[k] = outgoing[k]
      /\ \A k \in DOMAIN outgoing' : k \in DOMAIN outgoing \/ k = Len(outgoing) + 1
      /\ outgoing'[Len(outgoing) + 1] = RequestIssueMessage(c, n)
  <2>1. /\ Append(outgoing, RequestIssueMessage(c, n)) \in Seq(Messages)
        /\ Len(Append(outgoing, RequestIssueMessage(c, n))) = Len(outgoing) + 1
        /\ \A k \in 1 .. Len(outgoing) :
             Append(outgoing, RequestIssueMessage(c, n))[k] = outgoing[k]
        /\ Append(outgoing, RequestIssueMessage(c, n))[Len(outgoing) + 1]
             = RequestIssueMessage(c, n)
    BY <1>1, MessageTypes, AppendProperties
  <2> QED BY <1>1, <1>2, <2>1, LenProperties
<1>4. \A d \in Clients, q \in RequestIDs :
        /\ requestMap'[d][q] = IF d = c /\ q = n THEN "Issued" ELSE requestMap[d][q]
        /\ nextRequestID'[d] = IF d = c THEN n + 1 ELSE nextRequestID[d]
        /\ nextRequestID[d] \in Nat /\ q \in Nat
  BY <1>1, <1>2, SomeRequest
<1>5. \A d \in Clients, q \in RequestIDs : \A k :
        (requestMap[d][q] = "Issued" \/ CancelledAfter(d, q, k)) =>
          (requestMap'[d][q] = "Issued" \/ CancelledAfter(d, q, k)')
  BY <1>3, <1>4 DEF CancelledAfter
<1>6. fate[c][n] = "unknown" /\ requestMap[c][n] = NoRequest
  BY <1>1, <1>4 DEF RequestsInv, FreshInv
<1>7. IssuesInv'
  <2> SUFFICES ASSUME NEW d \in Clients, NEW q \in RequestIDs, NEW k \in DOMAIN outgoing',
                      outgoing'[k] = RequestIssueMessage(d, q)
               PROVE  /\ q < nextRequestID'[d] /\ fate[d][q] = "unknown"
                      /\ \A l \in DOMAIN outgoing' :
                           outgoing'[l] = RequestIssueMessage(d, q) => l = k
                      /\ requestMap'[d][q] = "Issued" \/ CancelledAfter(d, q, k)'
    BY <1>2 DEF IssuesInv
  <2>1. ASSUME NEW l \in DOMAIN outgoing, outgoing[l] = RequestIssueMessage(d, q)
        PROVE  ~(d = c /\ q = n)
    BY <1>1, <1>4, <2>1 DEF RequestsInv, IssuesInv
  <2>2. CASE d = c /\ q = n
    <3>1. \A l \in DOMAIN outgoing' :
            outgoing'[l] = RequestIssueMessage(d, q) => l = Len(outgoing) + 1
      BY <1>3, <2>1, <2>2
    <3> QED BY <1>4, <1>6, <2>2, <3>1
  <2>3. CASE ~(d = c /\ q = n)
    <3>1. \A l \in DOMAIN outgoing' : outgoing'[l] = RequestIssueMessage(d, q) =>
            l \in DOMAIN outgoing /\ outgoing[l] = RequestIssueMessage(d, q)
      BY <1>3, <2>3, MessagesDiffer
    <3>2. q < nextRequestID[d] /\ fate[d][q] = "unknown"
          /\ (requestMap[d][q] = "Issued" \/ CancelledAfter(d, q, k))
      BY <3>1 DEF RequestsInv, IssuesInv
    <3>3. q < nextRequestID'[d]
      <4>1. q \in Nat /\ n \in Nat /\ nextRequestID[d] \in Nat
        BY <1>4
      <4>2. CASE d = c
        BY <1>4, <3>2, <4>1, <4>2
      <4>3. CASE d # c
        BY <1>4, <3>2, <4>3
      <4> QED BY <4>2, <4>3
    <3>4. \A l \in DOMAIN outgoing' : outgoing'[l] = RequestIssueMessage(d, q) => l = k
      BY <3>1 DEF RequestsInv, IssuesInv
    <3> QED BY <1>5, <3>2, <3>3, <3>4
  <2> QED BY <2>2, <2>3
<1>8. FreshInv'
  BY <1>1, <1>2, <1>4 DEF RequestsInv, FreshInv
<1>9. InfosInv'
  <2>1. \A i \in DOMAIN requestInfos :
          requestInfos[i].client \in Clients /\ requestInfos[i].id \in RequestIDs
    BY QueueTypes DEF RequestsInv, Infos
  <2> QED BY <1>2, <1>5, <2>1 DEF RequestsInv, InfosInv
<1>10. AcknowledgedWasCancelled' /\ AnswersInv'
  BY <1>2, <1>4 DEF RequestsInv, AcknowledgedWasCancelled, AnswersInv
<1> QED
  BY <1>2, <1>7, <1>8, <1>9, <1>10, LookupsKept DEF RequestsInv

\* when a timeout is on its way,
LEMMA TimeoutKeeps ==
  ASSUME RequestsInv, RequestsTypeOK', NEW c \in Clients, NEW r \in RequestIDs,
         OnTimer(c, r)
  PROVE  RequestsInv'
<1> DEFINE delta == RequestSetStateDelta(r, "CanceledTimeout")
<1>1. incoming \in [Clients -> Seq(Deltas)] /\ delta \in Deltas
  BY QueueTypes, MessageTypes DEF RequestsInv
<1>2. ~delta.hasResult /\ delta.state # "CancelAcknowledged"
  BY DEF RequestSetStateDelta
<1>3. /\ UNCHANGED <<requestMap, nextRequestID, clientMaps, requestInfos, freeID, fate, outgoing>>
      /\ incoming' = [incoming EXCEPT ![c] = Append(@, delta)]
  BY DEF OnTimer, reqHandlerVars
<1>4. AnswersInv'
  <2>1. \A k \in DOMAIN Append(incoming[c], delta) :
          \/ k \in DOMAIN incoming[c] /\ Append(incoming[c], delta)[k] = incoming[c][k]
          \/ Append(incoming[c], delta)[k] = delta
    <3>1. /\ Append(incoming[c], delta) \in Seq(Deltas)
          /\ Len(Append(incoming[c], delta)) = Len(incoming[c]) + 1
          /\ \A k \in 1 .. Len(incoming[c]) : Append(incoming[c], delta)[k] = incoming[c][k]
          /\ Append(incoming[c], delta)[Len(incoming[c]) + 1] = delta
      BY <1>1, AppendProperties
    <3> QED BY <1>1, <3>1, LenProperties
  <2>2. \A d \in Clients :
          incoming'[d] = IF d = c THEN Append(incoming[c], delta) ELSE incoming[d]
    BY <1>1, <1>3
  <2> QED BY <1>2, <1>3, <2>1, <2>2 DEF RequestsInv, AnswersInv
<1>5. IssuesInv' /\ FreshInv' /\ InfosInv' /\ AcknowledgedWasCancelled'
  BY <1>3 DEF RequestsInv, IssuesInv, FreshInv, InfosInv, AcknowledgedWasCancelled,
              CancelledAfter
<1> QED
  BY <1>3, <1>4, <1>5, LookupsKept DEF RequestsInv

\* when it purges a request,
LEMMA PurgeKeeps ==
  ASSUME RequestsInv, RequestsTypeOK', NEW c \in Clients, NEW r \in RequestIDs,
         IssuerPurgeRequest(c, r)
  PROVE  RequestsInv'
<1> DEFINE t == CancelsOnPurge(c, r)
<1>1. /\ t \in Seq(Messages)
      /\ t = <<>> \/ t = <<RequestCancelMessage(c, r)>>
      /\ requestMap[c][r] = "Issued" => t # <<>>
  BY MessageTypes DEF CancelsOnPurge, IsCancelableState
<1>2. /\ UNCHANGED <<nextRequestID, incoming, clientMaps, requestInfos, freeID, fate>>
      /\ requestMap' = [requestMap EXCEPT ![c][r] = NoRequest]
      /\ outgoing' = outgoing \o t
  BY DEF IssuerPurgeRequest, reqHandlerVars
<1>3. IssuesInv' /\ InfosInv'
  BY <1>1, <1>2, GivingUpKeeps
<1>4. requestMap \in [Clients -> [RequestIDs -> RequestState \cup {NoRequest}]]
  BY DEF RequestsInv, RequestsTypeOK
<1>5. \A d \in Clients, q \in RequestIDs :
        requestMap'[d][q] = IF d = c /\ q = r THEN NoRequest ELSE requestMap[d][q]
  BY <1>2, <1>4
<1>6. FreshInv' /\ AcknowledgedWasCancelled' /\ AnswersInv'
  BY <1>2, <1>5 DEF RequestsInv, FreshInv, AcknowledgedWasCancelled, AnswersInv, NoRequest
<1> QED
  BY <1>2, <1>3, <1>6, LookupsKept DEF RequestsInv

\* What becomes of a request when a delta without a result arrives.
LEMMA AfterDelta ==
  ASSUME NEW before \in RequestState \cup {NoRequest}, NEW delta \in Deltas,
         ~delta.hasResult, before # NoRequest
  PROVE  LET after == Updated(before, delta) IN
         /\ after \in {before, "CanceledTimeout", "CancelAcknowledged"}
         /\ after = "Issued" <=> before = "Issued" /\ delta.state # "CanceledTimeout"
         /\ before = "Issued" /\ after # before => after = "CanceledTimeout"
         /\ after = "CancelAcknowledged" /\ after # before =>
              delta.state = "CancelAcknowledged"
         /\ before = "CancelAcknowledged" => after = before
<1>1. delta.state \in {"Completed", "CanceledTimeout", "CancelAcknowledged"}
  BY DEF Deltas
<1> QED
  BY <1>1 DEF Updated, IsValid, RequestState

\* and when it reads what was posted to it.
LEMMA ReadingKeeps ==
  ASSUME RequestsInv, RequestsTypeOK', NEW c \in Clients, OnIncomingRequestMessage(c)
  PROVE  RequestsInv'
<1> DEFINE delta == Head(incoming[c])
           r == delta.id
           before == requestMap[c][r]
           after == IF before = NoRequest THEN before ELSE Updated(before, delta)
           t == CancelsOnChange(c, r, before, after)
<1>1. /\ UNCHANGED <<nextRequestID, clientMaps, requestInfos, freeID, fate>>
      /\ incoming' = [incoming EXCEPT ![c] = Tail(@)]
      /\ requestMap' = [requestMap EXCEPT ![c][r] = after]
      /\ outgoing' = outgoing \o t
      /\ incoming[c] # <<>>
  BY DEF OnIncomingRequestMessage, reqHandlerVars
<1>2. /\ incoming \in [Clients -> Seq(Deltas)]
      /\ requestMap \in [Clients -> [RequestIDs -> RequestState \cup {NoRequest}]]
  BY QueueTypes DEF RequestsInv, RequestsTypeOK
<1>3. /\ 1 \in DOMAIN incoming[c] /\ incoming[c][1] = delta /\ delta \in Deltas
      /\ \A k \in DOMAIN Tail(incoming[c]) :
           k + 1 \in DOMAIN incoming[c] /\ Tail(incoming[c])[k] = incoming[c][k + 1]
  <2>1. incoming[c] \in Seq(Deltas) /\ incoming[c] # <<>>
    BY <1>1, <1>2
  <2> QED BY <2>1, Taken
<1>4. r \in RequestIDs /\ before \in RequestState \cup {NoRequest}
  BY <1>2, <1>3 DEF Deltas
<1>5. /\ ~delta.hasResult
      /\ delta.state = "CancelAcknowledged" => fate[c][r] = "Cancelled"
  BY <1>3 DEF RequestsInv, AnswersInv
<1>6. /\ t \in Seq(Messages)
      /\ t = <<>> \/ t = <<RequestCancelMessage(c, r)>>
  BY <1>4, MessageTypes DEF CancelsOnChange
<1>7. before = "Issued" => after = "Issued" \/ t # <<>>
  <2>1. ASSUME before = "Issued", after # "Issued"
        PROVE  after = "CanceledTimeout" /\ before # after
    BY <1>3, <1>4, <1>5, <2>1, AfterDelta DEF NoRequest
  <2> QED BY <2>1 DEF CancelsOnChange
<1>8. before = NoRequest => after = NoRequest
  OBVIOUS
<1>9. ASSUME after = "CancelAcknowledged" PROVE fate[c][r] = "Cancelled"
  <2>1. CASE before = "CancelAcknowledged"
    BY <1>4, <2>1 DEF RequestsInv, AcknowledgedWasCancelled
  <2>2. CASE before # "CancelAcknowledged"
    BY <1>3, <1>4, <1>5, <1>9, <2>2, AfterDelta DEF NoRequest
  <2> QED BY <2>1, <2>2
<1>10. IssuesInv' /\ InfosInv'
  BY <1>1, <1>4, <1>6, <1>7, GivingUpKeeps
<1>11. \A d \in Clients, q \in RequestIDs :
        requestMap'[d][q] = IF d = c /\ q = r THEN after ELSE requestMap[d][q]
  BY <1>1, <1>2, <1>4
<1> HIDE DEF after, delta
<1>12. FreshInv'
  BY <1>1, <1>11, <1>8 DEF RequestsInv, FreshInv
<1>13. AcknowledgedWasCancelled'
  BY <1>1, <1>11, <1>9 DEF RequestsInv, AcknowledgedWasCancelled
<1>14. AnswersInv'
  <2>1. \A d \in Clients : incoming'[d] = IF d = c THEN Tail(incoming[c]) ELSE incoming[d]
    BY <1>1, <1>2
  <2> QED BY <1>1, <1>3, <2>1 DEF RequestsInv, AnswersInv
<1> QED
  BY <1>1, <1>10, <1>12, <1>13, <1>14, LookupsKept DEF RequestsInv

-----------------------------------------------------------------------------
(* The handler *)

\* An entry in a client's map leads to information about an active request, and
\* there is one piece of information about a request.
LEMMA EntryOf ==
  ASSUME RequestsInv
  PROVE  /\ \A c \in Clients, r \in RequestIDs :
              IsClient(c) /\ clientMaps[c][r] # NoInfo =>
                /\ clientMaps[c][r] \in DOMAIN requestInfos
                /\ requestInfos[clientMaps[c][r]].client = c
                /\ requestInfos[clientMaps[c][r]].id = r
                /\ fate[c][r] = "Active"
         /\ \A i \in DOMAIN requestInfos :
              LET c == requestInfos[i].client
                  r == requestInfos[i].id IN
              /\ c \in Clients /\ r \in RequestIDs /\ i # NoInfo
              /\ IsClient(c) /\ clientMaps[c][r] = i
<1>1. \A i \in DOMAIN requestInfos :
        /\ requestInfos[i].client \in Clients /\ requestInfos[i].id \in RequestIDs
        /\ i # NoInfo
  BY QueueTypes DEF RequestsInv, Infos, NoInfo
<1>2. \A c \in Clients, r \in RequestIDs : IsClient(c) => r \in DOMAIN clientMaps[c]
  BY ClientMapType DEF RequestsInv
<1> QED
  BY <1>1, <1>2 DEF RequestsInv, LookupsAgree, InfosInv, GetRequestInfoID

\* A new client has no requests.
LEMMA AddClientKeeps ==
  ASSUME RequestsInv, RequestsTypeOK', NEW c \in Clients, AddClient(c)
  PROVE  RequestsInv'
<1>1. /\ UNCHANGED <<requestMap, nextRequestID, incoming, requestInfos, freeID, fate, outgoing>>
      /\ clientMaps' = [clientMaps EXCEPT ![c] = NoMap]
      /\ ~IsClient(c)
  BY DEF AddClient, issuerVars
<1>2. \A d \in Clients : clientMaps'[d] = IF d = c THEN NoMap ELSE clientMaps[d]
  BY <1>1 DEF RequestsInv, RequestsTypeOK
<1>3. LookupsAgree'
  <2>1. ASSUME NEW d \in Clients, NEW r \in DOMAIN clientMaps'[d], clientMaps'[d][r] # NoInfo
        PROVE  /\ clientMaps'[d][r] \in DOMAIN requestInfos
               /\ requestInfos[clientMaps'[d][r]].client = d
               /\ requestInfos[clientMaps'[d][r]].id = r
    BY <1>2, <2>1 DEF RequestsInv, LookupsAgree, NoMap
  <2>2. ASSUME NEW i \in DOMAIN requestInfos
        PROVE  /\ GetRequestInfoID(requestInfos[i].client, requestInfos[i].id)' = i
               /\ requestInfos[i].state = "Active"
    <3>1. /\ requestInfos[i].client \in Clients /\ requestInfos[i].client # c
          /\ requestInfos[i].state = "Active"
          /\ GetRequestInfoID(requestInfos[i].client, requestInfos[i].id) = i
      BY <1>1, EntryOf DEF RequestsInv, LookupsAgree
    <3> QED BY <1>1, <1>2, <3>1 DEF GetRequestInfoID, IsClient
  <2> QED BY <1>1, <2>1, <2>2 DEF LookupsAgree, GetRequestInfoID, IsClient
<1>4. IssuesInv' /\ FreshInv' /\ InfosInv' /\ AcknowledgedWasCancelled' /\ AnswersInv'
  BY <1>1 DEF RequestsInv, IssuesInv, FreshInv, InfosInv, AcknowledgedWasCancelled,
              AnswersInv, CancelledAfter
<1> QED BY <1>3, <1>4 DEF RequestsInv

\* A client that goes takes its requests with it.
LEMMA RemoveClientKeeps ==
  ASSUME RequestsInv, RequestsTypeOK', NEW c \in Clients, ReqRemoveClient(c)
  PROVE  RequestsInv'
<1>1. /\ UNCHANGED <<requestMap, nextRequestID, incoming, freeID, outgoing>>
      /\ IsClient(c)
      /\ requestInfos' = WithoutInfos(RequestsOf(c))
      /\ clientMaps' = [clientMaps EXCEPT ![c] = NoClient]
  BY DEF ReqRemoveClient, issuerVars
<1>2. \A d \in Clients : clientMaps'[d] = IF d = c THEN NoClient ELSE clientMaps[d]
  BY <1>1 DEF RequestsInv, RequestsTypeOK
<1>3. \A d \in Clients, r \in RequestIDs :
        fate'[d][r] = fate[d][r] \/ (fate[d][r] = "Active" /\ fate'[d][r] = "orphaned" /\ d = c)
  <2>1. \A d \in Clients, r \in RequestIDs :
          fate'[d][r] = IF d = c /\ clientMaps[c][r] # NoInfo THEN "orphaned" ELSE fate[d][r]
    BY DEF RequestsInv, RequestsTypeOK, ReqRemoveClient
  <2> QED BY <1>1, <2>1, EntryOf
<1>4. \A i \in DOMAIN requestInfos :
        i \in RequestsOf(c) <=> requestInfos[i].client = c
  <2>1. DOMAIN clientMaps[c] = RequestIDs
    BY <1>1, ClientMapType DEF RequestsInv
  <2> QED BY <1>1, <2>1, EntryOf DEF RequestsOf
<1>5. /\ DOMAIN requestInfos' = {i \in DOMAIN requestInfos : requestInfos[i].client # c}
      /\ \A i \in DOMAIN requestInfos' : requestInfos'[i] = requestInfos[i]
  BY <1>1, <1>4 DEF WithoutInfos
<1>6. LookupsAgree'
  <2>1. ASSUME NEW d \in Clients, NEW r \in DOMAIN clientMaps'[d], clientMaps'[d][r] # NoInfo
        PROVE  /\ clientMaps'[d][r] \in DOMAIN requestInfos'
               /\ requestInfos'[clientMaps'[d][r]].client = d
               /\ requestInfos'[clientMaps'[d][r]].id = r
    <3>1. d # c
      BY <1>2, <2>1 DEF NoClient
    <3> QED BY <1>2, <1>5, <2>1, <3>1 DEF RequestsInv, LookupsAgree
  <2>2. ASSUME NEW i \in DOMAIN requestInfos'
        PROVE  /\ GetRequestInfoID(requestInfos[i].client, requestInfos[i].id)' = i
               /\ requestInfos'[i].state = "Active"
    <3>1. /\ i \in DOMAIN requestInfos /\ requestInfos'[i] = requestInfos[i]
          /\ requestInfos[i].client \in Clients /\ requestInfos[i].client # c
      BY <1>5, EntryOf
    <3>2. /\ requestInfos[i].state = "Active"
          /\ GetRequestInfoID(requestInfos[i].client, requestInfos[i].id) = i
      BY <3>1 DEF RequestsInv, LookupsAgree
    <3> QED BY <1>2, <3>1, <3>2 DEF GetRequestInfoID, IsClient
  <2> QED BY <1>5, <2>1, <2>2 DEF LookupsAgree, GetRequestInfoID, IsClient
<1>7. InfosInv'
  <2>1. ASSUME NEW i \in DOMAIN requestInfos'
        PROVE  /\ i \in DOMAIN requestInfos /\ requestInfos'[i] = requestInfos[i]
               /\ fate'[requestInfos[i].client][requestInfos[i].id] = "Active"
    BY <1>3, <1>5, EntryOf DEF RequestsInv, InfosInv
  <2> QED BY <1>1, <2>1 DEF RequestsInv, InfosInv, CancelledAfter
<1>8. IssuesInv' /\ FreshInv' /\ AcknowledgedWasCancelled'
  BY <1>1, <1>3 DEF RequestsInv, IssuesInv, FreshInv, AcknowledgedWasCancelled, CancelledAfter
<1>9. AnswersInv'
  <2> SUFFICES ASSUME NEW d \in Clients, NEW k \in DOMAIN incoming[d]
               PROVE  /\ ~incoming[d][k].hasResult
                      /\ incoming[d][k].state = "CancelAcknowledged" =>
                           fate'[d][incoming[d][k].id] = "Cancelled"
    BY <1>1 DEF AnswersInv
  <2>1. incoming[d][k].id \in RequestIDs
    BY DeltasQueued DEF RequestsInv, Deltas
  <2> QED BY <1>3, <2>1 DEF RequestsInv, AnswersInv
<1> QED BY <1>6, <1>7, <1>8, <1>9 DEF RequestsInv

\* The handler takes the first message: what is known of the others is kept.
LEMMA TakingKeeps ==
  ASSUME RequestsInv, outgoing # <<>>, outgoing' = Tail(outgoing),
         UNCHANGED <<requestMap, nextRequestID>>,
         \A c \in Clients, r \in RequestIDs :
           fate[c][r] = "unknown" /\ Head(outgoing) # RequestIssueMessage(c, r) =>
             fate'[c][r] = "unknown"
  PROVE  /\ IssuesInv'
         /\ \A c \in Clients, r \in RequestIDs :
              /\ CancelledAfter(c, r, 1) => CancelledAfter(c, r, 0)'
              /\ CancelledAfter(c, r, 0) /\ Head(outgoing) # RequestCancelMessage(c, r) =>
                   CancelledAfter(c, r, 0)'
<1>1. outgoing \in Seq(Messages)
  BY QueueTypes DEF RequestsInv
<1>2. /\ 1 \in DOMAIN outgoing /\ outgoing[1] = Head(outgoing)
      /\ \A k \in DOMAIN outgoing' :
           k \in Nat /\ k > 0 /\ k + 1 \in DOMAIN outgoing /\ outgoing'[k] = outgoing[k + 1]
      /\ \A l \in DOMAIN outgoing :
           l \in Nat /\ (l # 1 => l - 1 \in DOMAIN outgoing' /\ outgoing'[l - 1] = outgoing[l])
  BY <1>1, Taken
<1>3. ASSUME NEW c \in Clients, NEW r \in RequestIDs, NEW k \in Nat,
             CancelledAfter(c, r, k + 1)
      PROVE  CancelledAfter(c, r, k)'
  <2>1. PICK l \in DOMAIN outgoing : l > k + 1 /\ outgoing[l] = RequestCancelMessage(c, r)
    BY <1>3 DEF CancelledAfter
  <2>2. l \in Nat /\ l # 1 /\ l - 1 > k
    BY <1>2, <2>1
  <2> QED BY <1>2, <2>1, <2>2 DEF CancelledAfter
<1>4. ASSUME NEW c \in Clients, NEW r \in RequestIDs, CancelledAfter(c, r, 0),
             Head(outgoing) # RequestCancelMessage(c, r)
      PROVE  CancelledAfter(c, r, 0)'
  <2>1. PICK l \in DOMAIN outgoing : l > 0 /\ outgoing[l] = RequestCancelMessage(c, r)
    BY <1>4 DEF CancelledAfter
  <2>2. l \in Nat /\ l # 1 /\ l - 1 > 0
    BY <1>2, <1>4, <2>1
  <2> QED BY <1>2, <2>1, <2>2 DEF CancelledAfter
<1>5. IssuesInv'
  <2> SUFFICES ASSUME NEW c \in Clients, NEW r \in RequestIDs, NEW k \in DOMAIN outgoing',
                      outgoing'[k] = RequestIssueMessage(c, r)
               PROVE  /\ r < nextRequestID[c] /\ fate'[c][r] = "unknown"
                      /\ \A l \in DOMAIN outgoing' :
                           outgoing'[l] = RequestIssueMessage(c, r) => l = k
                      /\ requestMap[c][r] = "Issued" \/ CancelledAfter(c, r, k)'
    BY DEF IssuesInv
  <2>1. k \in Nat /\ k > 0 /\ k + 1 \in DOMAIN outgoing
        /\ outgoing[k + 1] = RequestIssueMessage(c, r)
    BY <1>2
  <2>2. /\ r < nextRequestID[c] /\ fate[c][r] = "unknown"
        /\ \A l \in DOMAIN outgoing : outgoing[l] = RequestIssueMessage(c, r) => l = k + 1
        /\ requestMap[c][r] = "Issued" \/ CancelledAfter(c, r, k + 1)
    BY <2>1 DEF RequestsInv, IssuesInv
  <2>3. Head(outgoing) # RequestIssueMessage(c, r)
    BY <1>2, <2>1, <2>2
  <2>4. \A l \in DOMAIN outgoing' : outgoing'[l] = RequestIssueMessage(c, r) => l = k
    BY <1>2, <2>1, <2>2
  <2>5. CancelledAfter(c, r, k + 1) => CancelledAfter(c, r, k)'
    BY <1>3, <2>1
  <2> QED BY <2>2, <2>3, <2>4, <2>5
<1>6. \A c \in Clients, r \in RequestIDs :
        CancelledAfter(c, r, 1) => CancelledAfter(c, r, 0)'
  <2> SUFFICES ASSUME NEW c \in Clients, NEW r \in RequestIDs, CancelledAfter(c, r, 1)
               PROVE  CancelledAfter(c, r, 0)'
    OBVIOUS
  <2>1. CancelledAfter(c, r, 0 + 1)
    OBVIOUS
  <2> QED BY <1>3, <2>1
<1> QED BY <1>4, <1>5, <1>6

\* An answer ends the request at the handler.
LEMMA AnswerKeeps ==
  ASSUME RequestsInv, RequestsTypeOK', NEW i \in DOMAIN requestInfos,
         NEW outcome \in {"Complete", "Cancelled"}, NEW delta \in Deltas,
         Answer(i, outcome, delta), ~delta.hasResult,
         delta.id = requestInfos[i].id,
         delta.state = "CancelAcknowledged" => outcome = "Cancelled",
         UNCHANGED <<requestMap, nextRequestID, freeID>>,
         \/ outgoing' = outgoing
         \/ /\ outgoing # <<>> /\ outgoing' = Tail(outgoing)
            /\ Head(outgoing) = RequestCancelMessage(requestInfos[i].client, requestInfos[i].id)
  PROVE  RequestsInv'
<1> DEFINE c == requestInfos[i].client
           r == requestInfos[i].id
<1>1. /\ c \in Clients /\ r \in RequestIDs /\ i # NoInfo
      /\ IsClient(c) /\ clientMaps[c][r] = i /\ fate[c][r] = "Active"
  BY EntryOf DEF RequestsInv, InfosInv
<1>2. /\ incoming' = [incoming EXCEPT ![c] = Append(@, delta)]
      /\ fate' = [fate EXCEPT ![c][r] = outcome]
      /\ clientMaps' = [clientMaps EXCEPT ![c][r] = NoInfo]
      /\ requestInfos' = WithoutInfos({i})
  BY <1>1 DEF Answer, EntryDropped
<1>3. /\ DOMAIN requestInfos' = DOMAIN requestInfos \ {i}
      /\ \A j \in DOMAIN requestInfos' : requestInfos'[j] = requestInfos[j]
  BY <1>2 DEF WithoutInfos
<1>4. \A d \in Clients, q \in RequestIDs :
        fate'[d][q] = IF d = c /\ q = r THEN outcome ELSE fate[d][q]
  <2>1. fate \in [Clients -> [RequestIDs ->
          {"unknown", "Active", "Complete", "Cancelled", "orphaned"}]]
    BY DEF RequestsInv, RequestsTypeOK
  <2> HIDE DEF c, r
  <2> QED BY <1>1, <1>2, <2>1
<1>5. \A d \in Clients : clientMaps'[d] =
        IF d = c THEN [clientMaps[c] EXCEPT ![r] = NoInfo] ELSE clientMaps[d]
  BY <1>2 DEF RequestsInv, RequestsTypeOK
<1>6. /\ DOMAIN clientMaps[c] = RequestIDs
      /\ clientMaps'[c] = [clientMaps[c] EXCEPT ![r] = NoInfo]
      /\ clientMaps'[c] # NoClient
  <2>1. clientMaps[c] \in [RequestIDs -> 0 .. freeID - 1]
    BY <1>1, ClientMapType DEF RequestsInv
  <2>2. clientMaps'[c] = [clientMaps[c] EXCEPT ![r] = NoInfo]
    BY <1>1, <1>5
  <2>3. DOMAIN clientMaps'[c] = RequestIDs /\ DOMAIN NoClient = {}
    BY <2>1, <2>2 DEF NoClient
  <2> QED BY <1>1, <2>1, <2>2, <2>3
<1>7. \A j \in DOMAIN requestInfos' :
        LET d == requestInfos[j].client
            q == requestInfos[j].id IN
        /\ j \in DOMAIN requestInfos /\ d \in Clients /\ q \in RequestIDs /\ ~(d = c /\ q = r)
        /\ IsClient(d) /\ clientMaps[d][q] = j
  BY <1>1, <1>3, EntryOf
<1> HIDE DEF c, r
<1>8. LookupsAgree'
  <2>1. ASSUME NEW d \in Clients, NEW q \in DOMAIN clientMaps'[d], clientMaps'[d][q] # NoInfo
        PROVE  /\ clientMaps'[d][q] \in DOMAIN requestInfos'
               /\ requestInfos'[clientMaps'[d][q]].client = d
               /\ requestInfos'[clientMaps'[d][q]].id = q
    <3>1. /\ q \in DOMAIN clientMaps[d] /\ clientMaps'[d][q] = clientMaps[d][q]
          /\ ~(d = c /\ q = r)
      BY <1>1, <1>5, <1>6, <2>1
    <3>2. /\ clientMaps[d][q] \in DOMAIN requestInfos
          /\ requestInfos[clientMaps[d][q]].client = d
          /\ requestInfos[clientMaps[d][q]].id = q
      BY <2>1, <3>1 DEF RequestsInv, LookupsAgree
    <3>3. clientMaps[d][q] # i
      BY <3>1, <3>2 DEF c, r
    <3> QED BY <1>3, <3>1, <3>2, <3>3
  <2>2. ASSUME NEW j \in DOMAIN requestInfos'
        PROVE  /\ GetRequestInfoID(requestInfos[j].client, requestInfos[j].id)' = j
               /\ requestInfos'[j].state = "Active"
    <3> DEFINE d == requestInfos[j].client
               q == requestInfos[j].id
    <3>1. /\ j \in DOMAIN requestInfos /\ requestInfos'[j] = requestInfos[j]
          /\ d \in Clients /\ q \in RequestIDs /\ ~(d = c /\ q = r)
          /\ IsClient(d) /\ clientMaps[d][q] = j
      BY <1>3, <1>7
    <3>2. requestInfos[j].state = "Active"
      BY <3>1 DEF RequestsInv, LookupsAgree
    <3>3. IsClient(d)' /\ clientMaps'[d][q] = j
      <4>1. CASE d = c
        BY <1>6, <3>1, <4>1 DEF IsClient
      <4>2. CASE d # c
        BY <1>5, <3>1, <4>2 DEF IsClient
      <4> QED BY <4>1, <4>2
    <3> QED BY <3>1, <3>2, <3>3 DEF GetRequestInfoID, IsClient
  <2> QED BY <1>3, <2>1, <2>2 DEF LookupsAgree, GetRequestInfoID, IsClient
<1>9. \A d \in Clients, q \in RequestIDs :
        fate[d][q] # "Active" => fate'[d][q] = fate[d][q]
  BY <1>1, <1>4
<1>10. /\ IssuesInv'
       /\ \A d \in Clients, q \in RequestIDs :
            CancelledAfter(d, q, 0) /\ ~(d = c /\ q = r) => CancelledAfter(d, q, 0)'
  <2>1. CASE outgoing' = outgoing
    BY <1>9, <2>1 DEF RequestsInv, IssuesInv, CancelledAfter
  <2>2. CASE /\ outgoing # <<>> /\ outgoing' = Tail(outgoing)
             /\ Head(outgoing) = RequestCancelMessage(c, r)
    <3>1. UNCHANGED <<requestMap, nextRequestID>>
      OBVIOUS
    <3>2. \A d \in Clients, q \in RequestIDs :
            fate[d][q] = "unknown" => fate'[d][q] = "unknown"
      BY <1>9
    <3>3. \A d \in Clients, q \in RequestIDs :
            Head(outgoing) = RequestCancelMessage(d, q) => d = c /\ q = r
      BY <2>2, MessagesDiffer
    <3> QED BY <2>2, <3>1, <3>2, <3>3, TakingKeeps
  <2> QED BY <2>1, <2>2 DEF c, r
<1>11. InfosInv'
  <2> SUFFICES ASSUME NEW j \in DOMAIN requestInfos', NEW d, NEW q,
                      d = requestInfos'[j].client, q = requestInfos'[j].id
               PROVE  /\ fate'[d][q] = "Active"
                      /\ requestMap'[d][q] = "Issued" \/ CancelledAfter(d, q, 0)'
    BY DEF InfosInv, CancelledAfter
  <2>1. /\ j \in DOMAIN requestInfos /\ d \in Clients /\ q \in RequestIDs
        /\ d = requestInfos[j].client /\ q = requestInfos[j].id /\ ~(d = c /\ q = r)
    BY <1>3, <1>7
  <2>2. /\ fate[d][q] = "Active"
        /\ requestMap[d][q] = "Issued" \/ CancelledAfter(d, q, 0)
    BY <2>1 DEF RequestsInv, InfosInv
  <2>3. fate'[d][q] = "Active"
    BY <1>4, <2>1, <2>2
  <2>4. requestMap[d][q] = "Issued" \/ CancelledAfter(d, q, 0)'
    BY <1>10, <2>1, <2>2
  <2> QED BY <2>3, <2>4
<1>12. FreshInv' /\ AcknowledgedWasCancelled'
  BY <1>9 DEF RequestsInv, FreshInv, AcknowledgedWasCancelled
<1>13. AnswersInv'
  <2> SUFFICES ASSUME NEW d \in Clients, NEW k \in DOMAIN incoming'[d]
               PROVE  /\ ~incoming'[d][k].hasResult
                      /\ incoming'[d][k].state = "CancelAcknowledged" =>
                           fate'[d][incoming'[d][k].id] = "Cancelled"
    BY DEF AnswersInv
  <2>1. incoming \in [Clients -> Seq(Deltas)]
    BY QueueTypes DEF RequestsInv
  <2>2. /\ Append(incoming[c], delta) \in Seq(Deltas)
        /\ Len(Append(incoming[c], delta)) = Len(incoming[c]) + 1
        /\ \A l \in 1 .. Len(incoming[c]) : Append(incoming[c], delta)[l] = incoming[c][l]
        /\ Append(incoming[c], delta)[Len(incoming[c]) + 1] = delta
    BY <1>1, <2>1, AppendProperties
  <2>3. \/ k \in DOMAIN incoming[d] /\ incoming'[d][k] = incoming[d][k]
        \/ d = c /\ incoming'[d][k] = delta
    <3>1. CASE d = c
      BY <1>1, <1>2, <2>1, <2>2, <3>1, LenProperties
    <3>2. CASE d # c
      BY <1>1, <1>2, <2>1, <3>2
    <3> QED BY <3>1, <3>2
  <2>4. CASE k \in DOMAIN incoming[d] /\ incoming'[d][k] = incoming[d][k]
    <3>1. incoming[d][k].id \in RequestIDs
      BY <2>4, DeltasQueued DEF RequestsInv, Deltas
    <3> QED BY <1>9, <2>4, <3>1 DEF RequestsInv, AnswersInv
  <2>5. CASE d = c /\ incoming'[d][k] = delta
    BY <1>1, <1>4, <2>5 DEF r
  <2> QED BY <2>3, <2>4, <2>5
<1> QED BY <1>8, <1>10, <1>11, <1>12, <1>13 DEF RequestsInv

\* The service completes a request,
LEMMA CompleteKeeps ==
  ASSUME RequestsInv, RequestsTypeOK', NEW i \in DOMAIN requestInfos, CompleteRequest(i)
  PROVE  RequestsInv'
<1> DEFINE delta == RequestCompleteDelta(requestInfos[i].id)
<1>1. delta \in Deltas
  BY MessageTypes, EntryOf
<1>2. /\ ~delta.hasResult /\ delta.id = requestInfos[i].id
      /\ delta.state # "CancelAcknowledged"
  BY DEF RequestCompleteDelta
<1>3. Answer(i, "Complete", delta)
      /\ UNCHANGED <<requestMap, nextRequestID, freeID>> /\ outgoing' = outgoing
  BY DEF CompleteRequest
<1> HIDE DEF delta
<1> QED BY <1>1, <1>2, <1>3, AnswerKeeps

\* the handler cancels one, if it still works on it,
LEMMA CancelKeeps ==
  ASSUME RequestsInv, RequestsTypeOK', CancelRequest
  PROVE  RequestsInv'
<1> DEFINE c == Head(outgoing).client
           r == Head(outgoing).id
           i == GetRequestInfoID(c, r)
           delta == RequestSetStateDelta(r, "CancelAcknowledged")
<1>1. outgoing # <<>> /\ outgoing' = Tail(outgoing) /\ Head(outgoing).kind = "cancel"
  BY DEF CancelRequest, NextOutgoing
<1>2. Head(outgoing) \in Messages
  BY <1>1, QueueTypes, Taken DEF RequestsInv
<1>3. /\ c \in Clients /\ r \in RequestIDs
      /\ Head(outgoing) = RequestCancelMessage(c, r)
  BY <1>1, <1>2 DEF Messages, RequestCancelMessage
<1>4. UNCHANGED <<requestMap, nextRequestID, timers, freeID>>
  BY DEF CancelRequest
<1>5. CASE i \in DOMAIN requestInfos
  <2>1. Answer(i, "Cancelled", delta)
    BY <1>5 DEF CancelRequest
  <2>2. IsClient(c) /\ clientMaps[c][r] = i /\ i # NoInfo
    BY <1>5, EntryOf DEF GetRequestInfoID
  <2>3. requestInfos[i].client = c /\ requestInfos[i].id = r
    BY <1>3, <2>2, EntryOf
  <2>4. delta \in Deltas /\ ~delta.hasResult /\ delta.id = r
    BY <1>3, MessageTypes DEF RequestSetStateDelta
  <2> HIDE DEF delta, i, c, r
  <2> QED BY <1>1, <1>3, <1>4, <1>5, <2>1, <2>3, <2>4, AnswerKeeps
<1>6. CASE i \notin DOMAIN requestInfos
  <2>1. UNCHANGED <<incoming, clientMaps, requestInfos, fate>>
    BY <1>6 DEF CancelRequest
  <2>2. /\ IssuesInv'
        /\ \A d \in Clients, q \in RequestIDs :
             CancelledAfter(d, q, 0) /\ Head(outgoing) # RequestCancelMessage(d, q) =>
               CancelledAfter(d, q, 0)'
    BY <1>1, <1>4, <2>1, TakingKeeps
  <2>3. ASSUME NEW j \in DOMAIN requestInfos
        PROVE  LET d == requestInfos[j].client
                   q == requestInfos[j].id IN
               /\ d \in Clients /\ q \in RequestIDs
               /\ Head(outgoing) # RequestCancelMessage(d, q)
    <3> DEFINE d == requestInfos[j].client
               q == requestInfos[j].id
    <3>1. d \in Clients /\ q \in RequestIDs /\ GetRequestInfoID(d, q) = j
      BY EntryOf DEF GetRequestInfoID
    <3>2. ~(d = c /\ q = r)
      BY <1>6, <3>1
    <3> QED BY <1>3, <3>1, <3>2, MessagesDiffer
  <2>4. InfosInv'
    BY <1>4, <2>1, <2>2, <2>3 DEF RequestsInv, InfosInv
  <2>5. FreshInv' /\ AcknowledgedWasCancelled' /\ AnswersInv'
    BY <1>4, <2>1 DEF RequestsInv, FreshInv, AcknowledgedWasCancelled, AnswersInv
  <2> QED BY <2>1, <2>2, <2>4, <2>5, LookupsKept DEF RequestsInv
<1> QED BY <1>5, <1>6

\* and it takes up one that has arrived.
LEMMA CreateKeeps ==
  ASSUME RequestsInv, RequestsTypeOK', CreateRequest
  PROVE  RequestsInv'
<1> DEFINE c == Head(outgoing).client
           r == Head(outgoing).id
<1>1. outgoing # <<>> /\ outgoing' = Tail(outgoing) /\ Head(outgoing).kind = "issue"
  BY DEF CreateRequest, NextOutgoing
<1>2. /\ Head(outgoing) \in Messages
      /\ 1 \in DOMAIN outgoing /\ outgoing[1] = Head(outgoing)
  BY <1>1, QueueTypes, Taken DEF RequestsInv
<1>3. /\ c \in Clients /\ r \in RequestIDs
      /\ Head(outgoing) = RequestIssueMessage(c, r)
  BY <1>1, <1>2 DEF Messages, RequestIssueMessage
<1>4. UNCHANGED <<requestMap, nextRequestID, incoming, timers>>
  BY DEF CreateRequest, issuerVars
<1>5. /\ r < nextRequestID[c] /\ fate[c][r] = "unknown"
      /\ requestMap[c][r] = "Issued" \/ CancelledAfter(c, r, 1)
  BY <1>2, <1>3 DEF RequestsInv, IssuesInv
<1>6. \A d \in Clients, q \in RequestIDs :
        Head(outgoing) # RequestCancelMessage(d, q)
  BY <1>3, MessagesDiffer
<1>7. CASE ~IsClient(c)
  <2>1. UNCHANGED <<clientMaps, requestInfos, freeID, fate>>
    BY <1>7 DEF CreateRequest, reqHandlerVars
  <2>2. /\ IssuesInv'
        /\ \A d \in Clients, q \in RequestIDs :
             CancelledAfter(d, q, 0) => CancelledAfter(d, q, 0)'
    BY <1>1, <1>4, <1>6, <2>1, TakingKeeps
  <2>3. InfosInv'
    BY <1>4, <2>1, <2>2, EntryOf DEF RequestsInv, InfosInv
  <2>4. FreshInv' /\ AcknowledgedWasCancelled' /\ AnswersInv'
    BY <1>4, <2>1 DEF RequestsInv, FreshInv, AcknowledgedWasCancelled, AnswersInv
  <2> QED BY <2>1, <2>2, <2>3, <2>4, LookupsKept DEF RequestsInv
<1>8. CASE IsClient(c)
  <2>1. /\ clientMaps' = [clientMaps EXCEPT ![c][r] = freeID]
        /\ requestInfos' = [j \in DOMAIN requestInfos \cup {freeID} |->
             IF j = freeID THEN [client |-> c, id |-> r, state |-> "Active"]
             ELSE requestInfos[j]]
        /\ fate' = [fate EXCEPT ![c][r] = "Active"]
    BY <1>8 DEF CreateRequest
  <2>2. /\ \A j \in DOMAIN requestInfos : j # freeID
        /\ freeID # NoInfo
    BY QueueTypes DEF RequestsInv, RequestsTypeOK, NoInfo
  <2>3. /\ DOMAIN requestInfos' = DOMAIN requestInfos \cup {freeID}
        /\ \A j \in DOMAIN requestInfos : requestInfos'[j] = requestInfos[j]
        /\ requestInfos'[freeID].client = c /\ requestInfos'[freeID].id = r
        /\ requestInfos'[freeID].state = "Active"
    BY <2>1, <2>2
  <2> HIDE DEF c, r
  <2>4. \A d \in Clients, q \in RequestIDs :
          fate'[d][q] = IF d = c /\ q = r THEN "Active" ELSE fate[d][q]
    <3>1. fate \in [Clients -> [RequestIDs ->
            {"unknown", "Active", "Complete", "Cancelled", "orphaned"}]]
      BY DEF RequestsInv, RequestsTypeOK
    <3> QED BY <1>3, <2>1, <3>1
  <2>5. /\ \A d \in Clients :
             clientMaps'[d] = IF d = c THEN [clientMaps[c] EXCEPT ![r] = freeID]
                              ELSE clientMaps[d]
        /\ clientMaps[c] \in [RequestIDs -> 0 .. freeID - 1]
    BY <1>3, <1>8, <2>1, ClientMapType DEF RequestsInv, RequestsTypeOK
  <2>6. /\ DOMAIN clientMaps[c] = RequestIDs /\ clientMaps'[c] # NoClient
        /\ \A q \in RequestIDs :
             clientMaps'[c][q] = IF q = r THEN freeID ELSE clientMaps[c][q]
        /\ DOMAIN clientMaps'[c] = RequestIDs
    <3>1. DOMAIN clientMaps'[c] = RequestIDs /\ DOMAIN NoClient = {}
      BY <1>3, <2>5 DEF NoClient
    <3> QED BY <1>3, <2>5, <3>1
  <2>7. clientMaps[c][r] = NoInfo
    BY <1>3, <1>5, <1>8, EntryOf
  <2>8. \A j \in DOMAIN requestInfos :
          LET d == requestInfos[j].client
              q == requestInfos[j].id IN
          /\ d \in Clients /\ q \in RequestIDs /\ ~(d = c /\ q = r)
          /\ IsClient(d) /\ clientMaps[d][q] = j
    BY <2>7, EntryOf
  <2>9. LookupsAgree'
    <3>1. ASSUME NEW d \in Clients, NEW q \in DOMAIN clientMaps'[d], clientMaps'[d][q] # NoInfo
          PROVE  /\ clientMaps'[d][q] \in DOMAIN requestInfos'
                 /\ requestInfos'[clientMaps'[d][q]].client = d
                 /\ requestInfos'[clientMaps'[d][q]].id = q
      <4>1. CASE d = c /\ q = r
        BY <1>3, <2>3, <2>6, <4>1
      <4>2. CASE ~(d = c /\ q = r)
        <5>1. q \in DOMAIN clientMaps[d] /\ clientMaps'[d][q] = clientMaps[d][q]
          BY <2>5, <2>6, <3>1, <4>2
        <5>2. /\ clientMaps[d][q] \in DOMAIN requestInfos
              /\ requestInfos[clientMaps[d][q]].client = d
              /\ requestInfos[clientMaps[d][q]].id = q
          BY <3>1, <5>1 DEF RequestsInv, LookupsAgree
        <5> QED BY <2>3, <5>1, <5>2
      <4> QED BY <4>1, <4>2
    <3>2. ASSUME NEW j \in DOMAIN requestInfos'
          PROVE  LET d == requestInfos'[j].client
                     q == requestInfos'[j].id IN
                 clientMaps'[d] # NoClient /\ clientMaps'[d][q] = j
                 /\ requestInfos'[j].state = "Active"
      <4>1. CASE j = freeID
        BY <1>3, <2>3, <2>6, <4>1
      <4>2. CASE j # freeID
        <5> DEFINE d == requestInfos[j].client
                   q == requestInfos[j].id
        <5>1. /\ j \in DOMAIN requestInfos /\ requestInfos'[j] = requestInfos[j]
              /\ d \in Clients /\ q \in RequestIDs /\ ~(d = c /\ q = r)
              /\ clientMaps[d] # NoClient /\ clientMaps[d][q] = j
          BY <2>3, <2>8, <4>2 DEF IsClient
        <5>2. requestInfos[j].state = "Active"
          BY <5>1 DEF RequestsInv, LookupsAgree
        <5>3. clientMaps'[d] # NoClient /\ clientMaps'[d][q] = j
          BY <2>5, <2>6, <5>1
        <5> QED BY <5>1, <5>2, <5>3
      <4> QED BY <4>1, <4>2
    <3> QED BY <3>1, <3>2 DEF LookupsAgree, GetRequestInfoID, IsClient
  <2>10. /\ IssuesInv'
         /\ \A d \in Clients, q \in RequestIDs :
              /\ CancelledAfter(d, q, 1) => CancelledAfter(d, q, 0)'
              /\ CancelledAfter(d, q, 0) => CancelledAfter(d, q, 0)'
    <3>1. \A d \in Clients, q \in RequestIDs :
            fate[d][q] = "unknown" /\ Head(outgoing) # RequestIssueMessage(d, q) =>
              fate'[d][q] = "unknown"
      BY <1>3, <2>4
    <3> QED BY <1>1, <1>4, <1>6, <3>1, TakingKeeps
  <2>11. InfosInv'
    <3> SUFFICES ASSUME NEW j \in DOMAIN requestInfos', NEW d, NEW q,
                        d = requestInfos'[j].client, q = requestInfos'[j].id
                 PROVE  /\ fate'[d][q] = "Active"
                        /\ requestMap'[d][q] = "Issued" \/ CancelledAfter(d, q, 0)'
      BY DEF InfosInv, CancelledAfter
    <3>1. CASE j = freeID
      <4>1. d = c /\ q = r
        BY <2>3, <3>1
      <4>2. fate'[d][q] = "Active"
        BY <1>3, <2>4, <4>1
      <4>3. requestMap[d][q] = "Issued" \/ CancelledAfter(d, q, 1)
        BY <1>5, <4>1 DEF c, r
      <4>4. d \in Clients /\ q \in RequestIDs
        BY <1>3, <4>1
      <4> QED BY <1>4, <2>10, <4>2, <4>3, <4>4
    <3>2. CASE j # freeID
      <4>1. /\ j \in DOMAIN requestInfos /\ d \in Clients /\ q \in RequestIDs
            /\ d = requestInfos[j].client /\ q = requestInfos[j].id /\ ~(d = c /\ q = r)
        BY <2>3, <2>8, <3>2
      <4>2. /\ fate[d][q] = "Active"
            /\ requestMap[d][q] = "Issued" \/ CancelledAfter(d, q, 0)
        BY <4>1 DEF RequestsInv, InfosInv
      <4>3. fate'[d][q] = "Active"
        BY <2>4, <4>1, <4>2
      <4> QED BY <1>4, <2>10, <4>1, <4>2, <4>3
    <3> QED BY <3>1, <3>2
  <2>12. \A d \in Clients, q \in RequestIDs :
           fate'[d][q] = fate[d][q] \/ (fate[d][q] = "unknown" /\ d = c /\ q = r)
    BY <1>5, <2>4 DEF c, r
  <2>13. FreshInv'
    <3>1. r \in Nat /\ nextRequestID[c] \in Nat
      BY <1>3, QueueTypes DEF RequestsInv
    <3>2. ~(r >= nextRequestID[c])
      BY <1>5, <3>1 DEF c, r
    <3> QED BY <1>4, <2>12, <3>2 DEF RequestsInv, FreshInv
  <2>14. AcknowledgedWasCancelled'
    BY <1>4, <2>12 DEF RequestsInv, AcknowledgedWasCancelled
  <2>15. AnswersInv'
    <3> SUFFICES ASSUME NEW d \in Clients, NEW k \in DOMAIN incoming[d]
                 PROVE  /\ ~incoming[d][k].hasResult
                        /\ incoming[d][k].state = "CancelAcknowledged" =>
                             fate'[d][incoming[d][k].id] = "Cancelled"
      BY <1>4 DEF AnswersInv
    <3>1. incoming[d][k].id \in RequestIDs
      BY DeltasQueued DEF RequestsInv, Deltas
    <3> QED BY <2>12, <3>1 DEF RequestsInv, AnswersInv
  <2> QED BY <2>9, <2>10, <2>11, <2>13, <2>14, <2>15 DEF RequestsInv
<1> QED BY <1>7, <1>8

-----------------------------------------------------------------------------
(* The theorems *)

\* The invariant holds at the start,
LEMMA InvInit == RequestsInit => RequestsInv
<1> SUFFICES ASSUME RequestsInit PROVE RequestsInv
  OBVIOUS
<1>1. RequestsTypeOK
  <2>1. 0 \in 0 .. MaxRequests /\ 0 \in 0 .. Firings
    BY RequestsAssumption
  <2>2. <<>> \in Seq(Deltas) /\ <<>> \in Seq(Messages)
    BY EmptySeq
  <2> QED
    BY <2>1, <2>2 DEF RequestsInit, RequestsTypeOK, Deltas, Messages
<1>2. LookupsAgree /\ InfosInv
  BY DEF RequestsInit, LookupsAgree, InfosInv, NoClient
<1>3. AcknowledgedWasCancelled /\ FreshInv
  BY DEF RequestsInit, AcknowledgedWasCancelled, FreshInv, NoRequest
<1>4. IssuesInv /\ AnswersInv
  <2>1. DOMAIN outgoing = {} /\ \A c \in Clients : DOMAIN incoming[c] = {}
    BY DEF RequestsInit
  <2> QED BY <2>1 DEF IssuesInv, AnswersInv
<1> QED BY <1>1, <1>2, <1>3, <1>4 DEF RequestsInv

\* every step keeps it,
LEMMA InvNext == RequestsInv /\ [RequestsNext]_requestVars => RequestsInv'
<1> SUFFICES ASSUME RequestsInv, [RequestsNext]_requestVars PROVE RequestsInv'
  OBVIOUS
<1>1. RequestsTypeOK
  BY DEF RequestsInv
<1>2. ASSUME NEW c \in Clients, IssueRequest(c) PROVE RequestsInv'
  <2>1. RequestsTypeOK'
    BY <1>1, <1>2, IssuerType, SomeRequest
  <2> QED BY <1>2, <2>1, IssueKeeps
<1>3. ASSUME NEW c \in Clients, NEW r \in RequestIDs, OnTimer(c, r) PROVE RequestsInv'
  <2>1. RequestsTypeOK'
    BY <1>1, <1>3, IssuerType
  <2> QED BY <1>3, <2>1, TimeoutKeeps
<1>4. ASSUME NEW c \in Clients, NEW r \in RequestIDs, IssuerPurgeRequest(c, r)
      PROVE  RequestsInv'
  <2>1. RequestsTypeOK'
    BY <1>1, <1>4, IssuerType
  <2> QED BY <1>4, <2>1, PurgeKeeps
<1>5. ASSUME NEW c \in Clients, OnIncomingRequestMessage(c) PROVE RequestsInv'
  <2>1. RequestsTypeOK'
    BY <1>1, <1>5, IssuerType, SomeRequest
  <2> QED BY <1>5, <2>1, ReadingKeeps
<1>6. ASSUME NEW c \in Clients, AddClient(c) PROVE RequestsInv'
  BY <1>1, <1>6, HandlerType, AddClientKeeps
<1>7. ASSUME NEW c \in Clients, ReqRemoveClient(c) PROVE RequestsInv'
  BY <1>1, <1>7, HandlerType, RemoveClientKeeps
<1>8. ASSUME NEW i \in DOMAIN requestInfos, CompleteRequest(i) PROVE RequestsInv'
  BY <1>1, <1>8, HandlerType, CompleteKeeps
<1>9. ASSUME CreateRequest PROVE RequestsInv'
  BY <1>1, <1>9, HandlerType, CreateKeeps
<1>10. ASSUME CancelRequest PROVE RequestsInv'
  BY <1>1, <1>10, HandlerType, CancelKeeps
<1>11. CASE UNCHANGED requestVars
  <2>1. UNCHANGED <<requestMap, nextRequestID, incoming, timers, clientMaps, requestInfos,
                    freeID, fate, outgoing>>
    BY <1>11 DEF requestVars, issuerVars, reqHandlerVars
  <2>2. RequestsTypeOK'
    BY <1>1, <2>1 DEF RequestsTypeOK
  <2>3. IssuesInv' /\ FreshInv' /\ InfosInv'
    BY <2>1 DEF RequestsInv, IssuesInv, FreshInv, InfosInv, CancelledAfter
  <2>4. AcknowledgedWasCancelled' /\ AnswersInv'
    BY <2>1 DEF RequestsInv, AcknowledgedWasCancelled, AnswersInv
  <2>5. LookupsAgree'
    BY <2>1, LookupsKept DEF RequestsInv
  <2> QED BY <2>2, <2>3, <2>4, <2>5 DEF RequestsInv
<1> QED
  BY <1>2, <1>3, <1>4, <1>5, <1>6, <1>7, <1>8, <1>9, <1>10, <1>11
  DEF RequestsNext, IssuerDispatches, HandlerDispatches

\* so it always holds.
LEMMA RequestsInvariant == RequestsSpec => []RequestsInv
BY InvInit, InvNext, PTL DEF RequestsSpec

\* A request is found by its number and by its client and identifier, or by
\* neither (BaseRequestHandler.h:267), for any issuers and requests.
THEOREM LookupsCorrect == RequestsSpec => []LookupsAgree
<1>1. RequestsInv => LookupsAgree
  BY DEF RequestsInv
<1> QED BY <1>1, RequestsInvariant, PTL

\* What an issuer believes of a request is what became of it at the handler, for
\* any issuers and requests, whatever answers, timeouts and purges cross.
THEOREM SidesCorrect == RequestsSpec => []SidesAgree
<1>1. RequestsInv => SidesAgree
  <2> SUFFICES ASSUME RequestsInv, outgoing = <<>>, NEW i \in DOMAIN requestInfos
               PROVE  requestMap[requestInfos[i].client][requestInfos[i].id] = "Issued"
    BY DEF RequestsInv, SidesAgree, NoWorkForNobody
  <2>1. DOMAIN outgoing = {}
    OBVIOUS
  <2> QED BY <2>1 DEF RequestsInv, InfosInv, CancelledAfter
<1> QED BY <1>1, RequestsInvariant, PTL

\* An issuer takes nothing back that it was told of a request: an acknowledged
\* cancellation stays or is purged, a request it gave up is not taken up again.
THEOREM NotTakenBack == RequestsSpec => NeverTakenBack
<1> DEFINE Step(c, r) ==
      /\ requestMap[c][r] = "CancelAcknowledged" =>
           requestMap'[c][r] \in {"CancelAcknowledged", NoRequest}
      /\ requestMap[c][r] = "CanceledTimeout" => requestMap'[c][r] # "Issued"
<1>1. RequestsInv /\ [RequestsNext]_requestVars =>
        [\A c \in Clients, r \in RequestIDs : Step(c, r)]_requestVars
  <2> SUFFICES ASSUME RequestsInv, RequestsNext, NEW c \in Clients, NEW r \in RequestIDs
               PROVE  Step(c, r)
    OBVIOUS
  <2>1. requestMap \in [Clients -> [RequestIDs -> RequestState \cup {NoRequest}]]
    BY DEF RequestsInv, RequestsTypeOK
  <2>2. ASSUME requestMap' = requestMap PROVE Step(c, r)
    BY <2>2
  <2>3. ASSUME NEW d \in Clients, IssueRequest(d) PROVE Step(c, r)
    <3> DEFINE n == nextRequestID[d]
    <3>1. n \in RequestIDs /\ n >= nextRequestID[d]
      BY <2>3, RequestsAssumption, SMTT(30) DEF RequestsInv, RequestsTypeOK, IssueRequest, RequestIDs
    <3>2. requestMap[d][n] = NoRequest
      BY <3>1 DEF RequestsInv, FreshInv
    <3>3. requestMap'[c][r] = IF c = d /\ r = n THEN "Issued" ELSE requestMap[c][r]
      BY <2>1, <2>3, <3>1 DEF IssueRequest
    <3> QED BY <3>2, <3>3 DEF NoRequest
  <2>4. ASSUME NEW d \in Clients, NEW q \in RequestIDs, IssuerPurgeRequest(d, q)
        PROVE  Step(c, r)
    <3>1. requestMap'[c][r] = IF c = d /\ r = q THEN NoRequest ELSE requestMap[c][r]
      BY <2>1, <2>4 DEF IssuerPurgeRequest
    <3> QED BY <3>1 DEF NoRequest
  <2>5. ASSUME NEW d \in Clients, OnIncomingRequestMessage(d) PROVE Step(c, r)
    <3> DEFINE delta == Head(incoming[d])
               before == requestMap[d][delta.id]
               after == IF before = NoRequest THEN before ELSE Updated(before, delta)
    <3>1. /\ incoming[d] # <<>>
          /\ requestMap' = [requestMap EXCEPT ![d][delta.id] = after]
      BY <2>5 DEF OnIncomingRequestMessage
    <3>2. incoming[d] \in Seq(Deltas)
      BY QueueTypes DEF RequestsInv
    <3>3. 1 \in DOMAIN incoming[d] /\ incoming[d][1] = delta /\ delta \in Deltas
      BY <3>1, <3>2, Taken
    <3>4. ~delta.hasResult /\ delta.id \in RequestIDs
      BY <3>3 DEF RequestsInv, AnswersInv, Deltas
    <3>5. before \in RequestState \cup {NoRequest}
      BY <2>1, <3>4
    <3>6. /\ before = "CancelAcknowledged" => after = before
          /\ before = "CanceledTimeout" => after # "Issued"
      BY <3>3, <3>4, <3>5, AfterDelta DEF NoRequest
    <3> HIDE DEF after
    <3>7. requestMap'[c][r] = IF c = d /\ r = delta.id THEN after ELSE requestMap[c][r]
      BY <2>1, <3>1, <3>4
    <3> QED BY <3>6, <3>7
  <2>6. \/ requestMap' = requestMap
        \/ \E d \in Clients : IssueRequest(d) \/ OnIncomingRequestMessage(d)
        \/ \E d \in Clients, q \in RequestIDs : IssuerPurgeRequest(d, q)
    BY DEF RequestsNext, IssuerDispatches, HandlerDispatches, OnTimer, AddClient,
           ReqRemoveClient, CompleteRequest, CreateRequest, CancelRequest, issuerVars
  <2> QED BY <2>2, <2>3, <2>4, <2>5, <2>6
<1> QED BY <1>1, RequestsInvariant, PTL DEF RequestsSpec, NeverTakenBack
=============================================================================
