----------------------------- MODULE NetworkManager -----------------------------
(*****************************************************************************)
(* sdk/NetworkManager.js: the dispatchers make the events of the Network     *)
(* domain into NetworkRequests.  The hops of a redirected load share an id;  *)
(* the load of a document may go on in another target than the one it began  *)
(* in, whose dispatcher then adopts the request; and what the network stack  *)
(* adds to requests and responses comes in a stream of its own, which        *)
(* RedirectExtraInfoBuilder matches to the hops by counting.                 *)
(*                                                                           *)
(* The browser is external: a load follows a plan that the front-end does    *)
(* not know.  Of a NetworkRequest the model keeps what tells requests apart; *)
(* sizes, times, headers, signed exchanges and trust tokens are left out.    *)
(* NetworkLog listens to the events, and completes the next-state relation.  *)
(*****************************************************************************)
EXTENDS Naturals, Sequences, FiniteSets

CONSTANTS Ids,          \* the loads: ids that the browser gives to requests
          Documents,    \* those of documents, whose loaderId is their id
          Managers,     \* a NetworkManager with its dispatcher for each target
          Urls,
          UrlOf,        \* the URLs of the hops that a load can have at most
          Rewritten,    \* bound: other URLs that the responses to each load may have
          OriginsOf,    \* bound: the managers whose target a load can begin in
          Reporting,    \* bound: the loads that the network stack may report on
          MaxRemovals   \* bound: targets that go

ASSUME NetworkAssumption ==
    /\ Documents \subseteq Ids /\ Reporting \subseteq Ids
    /\ Rewritten \in [Ids -> SUBSET Urls]
    /\ UrlOf \in [Ids -> Seq(Urls) \ {<<>>}]
    /\ OriginsOf \in [Ids -> SUBSET Managers]
    /\ MaxRemovals \in Nat
    /\ "none" \notin Ids

VARIABLES
    requests,       \* the NetworkRequests of each id, in the order they were made
    inflightById,   \* _inflightRequestsById of each dispatcher: place in requests, or 0
    inflightByURL,  \* _inflightRequestsByURL of each dispatcher
    builders,       \* _requestIdToRedirectExtraInfoBuilder of each dispatcher
    inflightMain,   \* _inflightMainResourceRequests of MultitargetNetworkManager
    models,         \* the managers whose target is there
    plan,           \* browser: the hops a load will have, and those that the
                    \* network stack reports on
    phase, hop,     \* browser: how far the load is
    origin, home,   \* browser: where the load began, and where its events go now
    requestInfos,   \* browser: the last hop that an extra info was sent on, or 0
    responseInfos,  \* browser: the last hop that one was sent on the response of
    missed, astray, early  \* history of the loads: see Missed and Ended

modelVars == <<requests, inflightById, inflightByURL, builders, inflightMain>>
infoVars == <<requestInfos, responseInfos>>
loadVars == <<phase, hop, home, missed, astray, early>>
networkVars == <<modelVars, models, plan, origin, infoVars, loadVars>>

MaxHops(id) == Len(UrlOf[id])

NoRequest == [id |-> "none", place |-> 0]
NewBuilder == [requests |-> <<>>, requestInfos |-> <<>>, responseInfos |-> <<>>,
               finished |-> FALSE, hasExtraInfo |-> FALSE]
NoBuilder == [requests |-> <<0>>, requestInfos |-> <<>>, responseInfos |-> <<>>,
              finished |-> FALSE, hasExtraInfo |-> FALSE]

Plans(id) == {p \in [hops: 1 .. MaxHops(id), reported: SUBSET (1 .. MaxHops(id))] :
                p.reported \subseteq (IF id \in Reporting THEN 1 .. p.hops ELSE {})}

NetworkInit ==
    /\ requests = [id \in Ids |-> <<>>]
    /\ inflightById = [m \in Managers |-> [id \in Ids |-> 0]]
    /\ inflightByURL = [m \in Managers |-> [u \in Urls |-> NoRequest]]
    /\ builders = [m \in Managers |-> [id \in Ids |-> NoBuilder]]
    /\ inflightMain = [id \in Ids |-> 0]
    /\ models = Managers
    /\ plan \in [Ids -> UNION {Plans(id) : id \in Ids}] /\ \A id \in Ids : plan[id] \in Plans(id)
    /\ phase = [id \in Ids |-> "new"] /\ hop = [id \in Ids |-> 0]
    /\ origin \in [Ids -> Managers] /\ (\A id \in Ids : origin[id] \in OriginsOf[id]) /\ home = origin
    /\ requestInfos = [id \in Ids |-> 0] /\ responseInfos = requestInfos
    /\ missed = {} /\ astray = {} /\ early = {}

--------------------------------------------------------------------------------
(* RedirectExtraInfoBuilder. *)

\* _getExtraInfoBuilder.
Builder(m, id) == IF builders[m][id] = NoBuilder THEN NewBuilder ELSE builders[m][id]

Get(infos, i) == IF i \in DOMAIN infos THEN infos[i] ELSE 0

Cleared(infos, i) == IF i \in DOMAIN infos THEN [infos EXCEPT ![i] = 0] ELSE infos

\* What _sync(i) gives to the request r, and leaves in the builder.
Synced(b, i) == [b EXCEPT !.requestInfos = Cleared(@, i), !.responseInfos = Cleared(@, i)]

Given(r, b, i) ==
    [r EXCEPT !.requestInfo = IF Get(b.requestInfos, i) # 0 THEN Get(b.requestInfos, i) ELSE @,
              !.responseInfo = IF Get(b.responseInfos, i) # 0 THEN Get(b.responseInfos, i) ELSE @]

\* _deleteIfComplete of a builder of requests among rs: what is left of it.
Kept(b, rs) ==
    IF /\ b.finished
       /\ b.hasExtraInfo /\ b.requests # <<>> =>
              rs[b.requests[Len(b.requests)]].responseInfo # 0
    THEN NoBuilder ELSE b

\* Variant: an info is given to the request that was sent last.
SyncLast(m, id, b, i) ==
    IF b.requests = <<>>
    THEN /\ builders' = [builders EXCEPT ![m][id] = b]
         /\ UNCHANGED requests
    ELSE LET rs == [requests[id] EXCEPT ![b.requests[Len(b.requests)]] = Given(@, b, i)]
         IN  /\ requests' = [requests EXCEPT ![id] = rs]
             /\ builders' = [builders EXCEPT ![m][id] = Kept(Synced(b, i), rs)]

\* An info has been put at i in the builder b: _sync(i).
Sync(m, id, b, i) ==
    IF i > Len(b.requests)
    THEN /\ builders' = [builders EXCEPT ![m][id] = b]
         /\ UNCHANGED requests
    ELSE LET rs == [requests[id] EXCEPT ![b.requests[i]] = Given(@, b, i)]
         IN  /\ requests' = [requests EXCEPT ![id] = rs]
             /\ builders' = [builders EXCEPT ![m][id] = Kept(Synced(b, i), rs)]

\* finished().
BuilderFinished(id) ==
    builders' = [builders EXCEPT ![home[id]][id] =
                    Kept([Builder(home[id], id) EXCEPT !.finished = TRUE], requests[id])]

--------------------------------------------------------------------------------
(* The maps of requests in flight. *)

Ref(id, k) == [id |-> id, place |-> k]

\* _maybeAdoptMainResourceRequest, for events at the home of the load.
Adopts(id) == inflightById[home[id]][id] = 0 /\ inflightMain[id] # 0

Adopted(id) == requests[id][inflightMain[id]]

\* Variant: the other dispatcher is not told.
AdoptedByBoth(id) ==
    IF ~Adopts(id) THEN inflightById
    ELSE [inflightById EXCEPT ![home[id]][id] = inflightMain[id]]

AdoptedById(id) ==
    IF ~Adopts(id) THEN inflightById
    ELSE [inflightById EXCEPT ![Adopted(id).manager][id] = 0, ![home[id]][id] = inflightMain[id]]

AdoptedByURL(id) ==
    IF ~Adopts(id) THEN inflightByURL
    ELSE [inflightByURL EXCEPT ![Adopted(id).manager][Adopted(id).url] = NoRequest,
                               ![home[id]][Adopted(id).url] = Ref(id, inflightMain[id])]

AdoptedRequests(id) ==
    IF ~Adopts(id) THEN requests
    ELSE [requests EXCEPT ![id][inflightMain[id]].manager = home[id]]

Known(id) == AdoptedById(id)[home[id]][id]

\* _finishNetworkRequest, after the adoption if there was one.
Finish(id) ==
    /\ requests' = [AdoptedRequests(id) EXCEPT ![id][Known(id)].finished = TRUE]
    /\ inflightById' = [AdoptedById(id) EXCEPT ![home[id]][id] = 0]
    /\ inflightByURL' = [AdoptedByURL(id) EXCEPT ![home[id]][requests[id][Known(id)].url] = NoRequest]
    /\ inflightMain' = [inflightMain EXCEPT ![id] = 0]

\* _createNetworkRequest and _startNetworkRequest, given what its builder has for
\* it and what of the requests and URLs is left by the hop before.
Start(id, r, rs, byURL) ==
    LET k == Len(rs) + 1
    IN  /\ requests' = [requests EXCEPT ![id] = Append(rs, r)]
        /\ inflightById' = [inflightById EXCEPT ![home[id]][id] = k]
        /\ inflightByURL' = [byURL EXCEPT ![home[id]][r.url] = Ref(id, k)]
        /\ inflightMain' = IF id \in Documents THEN [inflightMain EXCEPT ![id] = k] ELSE inflightMain

Request(id) ==
    [hop |-> hop[id] + 1, url |-> UrlOf[id][hop[id] + 1], manager |-> home[id], finished |-> FALSE,
     requestInfo |-> 0, responseInfo |-> 0]

\* The rest of requestWillBeSent: the request is added to the builder and synced.
Sent(id, rs, byURL) ==
    LET b == [Builder(home[id], id) EXCEPT !.requests = Append(@, Len(rs) + 1)]
        i == Len(b.requests)
        r == Given(Request(id), b, i)
    IN  /\ Start(id, r, rs, byURL)
        /\ builders' = [builders EXCEPT ![home[id]][id] = Kept(Synced(b, i), Append(rs, r))]
        /\ phase' = [phase EXCEPT ![id] = "sent"]
        /\ hop' = [hop EXCEPT ![id] = @ + 1]
        /\ UNCHANGED <<models, plan, origin, home, infoVars, missed, astray, early>>

--------------------------------------------------------------------------------
(* The handlers of NetworkDispatcher. *)

\* The URLs that the response to the request of id at k can have.
ResponseUrls(id, k) == Rewritten[id] \cup {requests[id][k].url}

\* _updateNetworkRequestWithResponse: the request takes the URL of its response,
\* and the maps are not told.
Updated(id, k, url) == [requests[id] EXCEPT ![k].url = url]

\* requestWillBeSent of the first hop.
RequestWillBeSent(id) ==
    /\ phase[id] = "new" /\ home[id] \in models
    /\ Sent(id, requests[id], inflightByURL)

\* requestWillBeSent with a redirectResponse, which is first received as the response
\* to the hop before.  _appendRedirect gives the request of that hop another id before
\* it finishes it, so that only its URL goes from the maps, the one it has now; when
\* that request was missed, the new one is the first.
Redirected(id) ==
    /\ phase[id] = "sent" /\ hop[id] < plan[id].hops
    /\ LET k == inflightById[home[id]][id]
       IN  \/ k = 0 /\ Sent(id, requests[id], inflightByURL)
           \/ k # 0 /\ \E url \in ResponseUrls(id, k) :
                 Sent(id, [Updated(id, k, url) EXCEPT ![k].finished = TRUE],
                      [inflightByURL EXCEPT ![home[id]][url] = NoRequest])

\* External: the first hop was sent before the domain was enabled.
Missed(id) ==
    /\ phase[id] = "new" /\ home[id] \in models
    /\ phase' = [phase EXCEPT ![id] = "sent"]
    /\ hop' = [hop EXCEPT ![id] = 1]
    /\ missed' = missed \cup {id}
    /\ UNCHANGED <<modelVars, models, plan, origin, home, infoVars, astray, early>>

\* responseReceived; a document may then go on in another target.
ResponseReceived(id, m) ==
    /\ phase[id] = "sent" /\ hop[id] = plan[id].hops
    /\ m \in models /\ (m = home[id] \/ id \in Documents)
    /\ LET k == inflightById[home[id]][id]
       IN  \/ k = 0 /\ UNCHANGED requests
           \/ k # 0 /\ \E url \in ResponseUrls(id, k) :
                 requests' = [requests EXCEPT ![id] = Updated(id, k, url)]
    /\ phase' = [phase EXCEPT ![id] = "answered"]
    /\ home' = [home EXCEPT ![id] = m]
    /\ UNCHANGED <<inflightById, inflightByURL, builders, inflightMain, models, plan, origin, hop,
                   infoVars, missed, astray, early>>

DataReceived(id) ==
    /\ phase[id] = "answered"
    /\ phase' = [phase EXCEPT ![id] = "received"]
    /\ requests' = AdoptedRequests(id)
    /\ inflightById' = AdoptedById(id)
    /\ inflightByURL' = AdoptedByURL(id)
    /\ astray' = IF home[id] # origin[id] /\ origin[id] \notin models THEN astray \cup {id} ELSE astray
    /\ UNCHANGED <<builders, inflightMain, models, plan, origin, hop, home, infoVars, missed, early>>

\* The load ends: did the stack report before, and can the dispatcher that is told
\* know the request?  Not if the load moved there, its data did not come before,
\* and nobody is asked for it (adopting) or it left with its target.
Ended(id, adopting) ==
    /\ phase' = [phase EXCEPT ![id] = "ended"]
    /\ early' = IF requestInfos[id] > 0 /\ phase[id] # "open" THEN early \cup {id} ELSE early
    /\ astray' = IF /\ home[id] # origin[id] /\ phase[id] # "received"
                    /\ ~adopting \/ origin[id] \notin models
                 THEN astray \cup {id} ELSE astray
    /\ UNCHANGED <<models, plan, origin, hop, home, infoVars, missed>>

\* Variant: it does not ask for the request of another dispatcher.
LoadingFinishedUnasked(id) ==
    /\ phase[id] \in {"answered", "received"}
    /\ IF inflightById[home[id]][id] = 0 THEN UNCHANGED modelVars ELSE Finish(id) /\ BuilderFinished(id)
    /\ Ended(id, TRUE)

LoadingFinished(id) ==
    /\ phase[id] \in {"answered", "received"}
    /\ IF Known(id) = 0 THEN UNCHANGED modelVars ELSE Finish(id) /\ BuilderFinished(id)
    /\ Ended(id, TRUE)

\* loadingFailed does not ask for the request of another dispatcher.
LoadingFailed(id) ==
    /\ phase[id] \in {"sent", "answered", "received"} /\ hop[id] = plan[id].hops
    /\ IF inflightById[home[id]][id] = 0 THEN UNCHANGED modelVars ELSE Finish(id) /\ BuilderFinished(id)
    /\ Ended(id, FALSE)

\* webSocketCreated makes a request without a builder or a loader.
WebSocketCreated(id) ==
    /\ phase[id] = "new" /\ home[id] \in models /\ id \notin Documents
    /\ Start(id, Request(id), requests[id], inflightByURL)
    /\ phase' = [phase EXCEPT ![id] = "open"]
    /\ hop' = [hop EXCEPT ![id] = 1]
    /\ UNCHANGED <<builders, models, plan, origin, home, infoVars, missed, astray, early>>

WebSocketClosed(id) ==
    /\ phase[id] = "open"
    /\ Finish(id)
    /\ Ended(id, FALSE)
    /\ UNCHANGED builders

--------------------------------------------------------------------------------
(* What the network stack adds, in its own time. *)

\* The stack reports on the request of h after that of the hop before.
NextReport(id, h) ==
    /\ h \in plan[id].reported /\ requestInfos[id] < h
    /\ \A g \in plan[id].reported : g <= requestInfos[id] \/ h <= g

RequestWillBeSentExtraInfo(id, m) ==
    /\ m \in {origin[id], home[id]} \cap models
    /\ requestInfos[id] = responseInfos[id]
    /\ \E h \in plan[id].reported :
          /\ NextReport(id, h)
          /\ requestInfos' = [requestInfos EXCEPT ![id] = h]
          /\ LET b == [Builder(m, id) EXCEPT !.hasExtraInfo = TRUE, !.requestInfos = Append(@, h)]
             IN  Sync(m, id, b, Len(b.requestInfos))
    /\ UNCHANGED <<inflightById, inflightByURL, inflightMain, models, plan, origin, responseInfos, loadVars>>

ResponseReceivedExtraInfo(id, m) ==
    /\ m \in {origin[id], home[id]} \cap models
    /\ responseInfos[id] # requestInfos[id]
    /\ responseInfos' = [responseInfos EXCEPT ![id] = requestInfos[id]]
    /\ LET b == [Builder(m, id) EXCEPT !.responseInfos = Append(@, requestInfos[id])]
       IN  Sync(m, id, b, Len(b.responseInfos))
    /\ UNCHANGED <<inflightById, inflightByURL, inflightMain, models, plan, origin, requestInfos, loadVars>>

\* modelRemoved of MultitargetNetworkManager: a target goes, and with it the loads
\* that are at home there.
ModelRemoved(m) ==
    /\ m \in models /\ Cardinality(Managers \ models) < MaxRemovals
    /\ models' = models \ {m}
    /\ inflightMain' = [id \in Ids |-> IF inflightMain[id] # 0 /\ Adopted(id).manager = m
                                       THEN 0 ELSE inflightMain[id]]
    /\ phase' = [id \in Ids |-> IF home[id] = m /\ phase[id] \notin {"ended", "new"}
                                THEN "cut" ELSE phase[id]]
    /\ UNCHANGED <<requests, inflightById, inflightByURL, builders, plan, origin, infoVars,
                   hop, home, missed, astray, early>>

--------------------------------------------------------------------------------
(* Properties, checked of NetworkLog. *)

Places(id) == DOMAIN requests[id]

\* Every variable has its shape.
NetworkTypeOK ==
    /\ \A id \in Ids :
          /\ Len(requests[id]) <= MaxHops(id)
          /\ \A k \in Places(id) : requests[id][k] \in
                [hop: 1 .. MaxHops(id), url: Urls, manager: Managers, finished: BOOLEAN,
                 requestInfo: 0 .. MaxHops(id), responseInfo: 0 .. MaxHops(id)]
          /\ inflightMain[id] \in Places(id) \cup {0}
          /\ \A m \in Managers : inflightById[m][id] \in Places(id) \cup {0}
          /\ \A m \in Managers : builders[m][id] = NoBuilder
                                 \/ \A i \in DOMAIN builders[m][id].requests :
                                       builders[m][id].requests[i] \in Places(id)
    /\ models \subseteq Managers
    /\ phase \in [Ids -> {"new", "sent", "open", "answered", "received", "ended", "cut"}]

\* The response to r had another URL than r was made with.
Renamed(r, id) == r.url # UrlOf[id][r.hop]

\* The maps agree: a request in flight is known by its id to the dispatcher of the
\* manager it belongs to and to no other, and the main requests are in flight.  What
\* is known by a URL has that URL and is in flight there, but for what stays under the
\* URL that a request was made with when its response has another.
InFlightAgrees ==
    \A id \in Ids :
        /\ \A m \in Managers, k \in Places(id) :
              inflightById[m][id] = k <=>
                  ~requests[id][k].finished /\ requests[id][k].manager = m
        /\ inflightMain[id] # 0 => ~Adopted(id).finished /\ Adopted(id).manager \in models
        /\ \A m \in Managers, u \in Urls :
              inflightByURL[m][u].id = id =>
                  LET k == inflightByURL[m][u].place
                      r == requests[id][k]
                  IN  \/ inflightById[m][id] = k /\ r.url = u
                      \/ Renamed(r, id) /\ u = UrlOf[id][r.hop]

\* A load that ended leaves no request in flight, unless it ended where its
\* request is not known.
LoadedMeansFinished ==
    \A id \in Ids : phase[id] = "ended" /\ id \notin astray =>
        \A k \in Places(id) : requests[id][k].finished

\* The stack reports on the first hops, to one dispatcher that saw them all.
Regular(id) ==
    /\ \E n \in 0 .. plan[id].hops : plan[id].reported = 1 .. n
    /\ id \notin missed /\ home[id] = origin[id]

\* An extra info is given to the request of the hop that it is about, if there is
\* one for every hop up to it.
InfoOfOwnHop ==
    \A id \in Ids : Regular(id) =>
        \A k \in Places(id) : {requests[id][k].requestInfo, requests[id][k].responseInfo}
                                  \subseteq {0, requests[id][k].hop}

\* No info is lost and no builder is left: when a load ended and the stack has
\* reported on all its hops, every request has its infos and the builder is gone,
\* if the end of the load did not come before the first report.
InfosDelivered ==
    \A id \in early :
        /\ Regular(id) /\ plan[id].reported = 1 .. plan[id].hops
        /\ responseInfos[id] = plan[id].hops
        => /\ \A k \in Places(id) : requests[id][k].requestInfo # 0 /\ requests[id][k].responseInfo # 0
           /\ builders[home[id]][id] = NoBuilder

\* What the stack reports on a hop reaches the request of that hop.
InfosReachTheirHops == InfoOfOwnHop /\ InfosDelivered
================================================================================
