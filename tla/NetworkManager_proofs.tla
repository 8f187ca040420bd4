-------------------------- MODULE NetworkManager_proofs --------------------------
(*****************************************************************************)
(* Proofs about NetworkManager under NetworkLog, for any loads, targets and  *)
(* redirects:                                                                *)
(*  - the maps of the dispatchers agree on what is in flight, and a load     *)
(*    that ended leaves nothing in flight (IInv);                            *)
(*  - what the network stack reports on a hop reaches the request of that    *)
(*    hop, whichever of the two comes first (InfoInv);                       *)
(*  - the log has each request once, and shows those of a document with its  *)
(*    page load (LogInv).                                                    *)
(*                                                                           *)
(* The first two arguments are made for one load at a time.  What happens to *)
(* another load changes nothing of it but the URLs, from which it can only   *)
(* go.  A response may rename a request, and then what was known by its old  *)
(* URL stays behind.                                                         *)
(*****************************************************************************)
EXTENDS NetworkLog, FiniteSetTheorems, TLAPS

Requests == [hop : Nat, url : Urls, manager : Managers, finished : BOOLEAN,
             requestInfo : Nat, responseInfo : Nat]
Builders == [requests : Seq(Nat), requestInfos : Seq(Nat), responseInfos : Seq(Nat),
             finished : BOOLEAN, hasExtraInfo : BOOLEAN]
Refs == [id : Ids \cup {"none"}, place : Nat]
Phases == {"new", "sent", "open", "answered", "received", "ended", "cut"}

MapsShape ==
    /\ requests \in [Ids -> Seq(Requests)]
    /\ inflightById \in [Managers -> [Ids -> Nat]]
    /\ inflightByURL \in [Managers -> [Urls -> Refs]]
    /\ inflightMain \in [Ids -> Nat]

BuildersShape == builders \in [Managers -> [Ids -> Builders]]

BrowserShape ==
    /\ models \subseteq Managers
    /\ phase \in [Ids -> Phases] /\ hop \in [Ids -> Nat]
    /\ origin \in [Ids -> Managers] /\ home \in [Ids -> Managers]
    /\ requestInfos \in [Ids -> Nat]
    /\ DOMAIN plan = Ids
    /\ \A id \in Ids : /\ plan[id].hops \in 1 .. MaxHops(id) /\ plan[id].reported \subseteq Nat
                       /\ hop[id] \in 0 .. plan[id].hops

Shape == MapsShape /\ BuildersShape /\ BrowserShape

\* What stays under the URL u when the response to request k of rs has another.
Stale(id, rs, k, u) ==
    k \in 1 .. Len(rs) /\ Renamed(rs[k], id) /\ u = UrlOf[id][rs[k].hop]

\* Of a load with the requests rs, whose home is h, the maps know the last request,
\* if it is in flight, and no other; that of a document is the main one.
MapsFit(id, h, rs, byId, byURL, main) ==
    /\ \A m \in Managers : byId[m][id] \in 0 .. Len(rs)
    /\ \A m \in Managers, k \in 1 .. Len(rs) :
          byId[m][id] = k <=> ~rs[k].finished /\ rs[k].manager = m
    /\ main # 0 => main \in 1 .. Len(rs) /\ ~rs[main].finished /\ rs[main].manager \in models
    /\ \A m \in Managers, u \in Urls :
          byURL[m][u].id = id => \/ /\ byURL[m][u].place = byId[m][id] /\ byId[m][id] # 0
                                    /\ rs[byId[m][id]].url = u
                                 \/ Stale(id, rs, byURL[m][u].place, u)
    /\ \A k \in 1 .. Len(rs) :
          /\ rs[k].manager \in {origin[id], h}
          /\ ~rs[k].finished => /\ k = Len(rs)
                                /\ id \in Documents => main = k \/ rs[k].manager \notin models
    /\ id \notin Documents => main = 0

Maps(id) == MapsFit(id, home[id], requests[id], inflightById, inflightByURL, inflightMain[id])

\* What the phase of a load says of its requests and its home.
Course(id) ==
    /\ phase[id] = "new" => requests[id] = <<>> /\ hop[id] = 0
    /\ phase[id] = "sent" => \A k \in 1 .. Len(requests[id]) :
                                requests[id][k].finished \/ ~Renamed(requests[id][k], id)
    /\ phase[id] \in {"new", "sent", "open"} \/ id \notin Documents => home[id] = origin[id]
    /\ phase[id] \in {"sent", "open", "answered", "received"} => home[id] \in models
    /\ phase[id] = "open" => inflightById[home[id]][id] # 0 /\ id \notin Documents
    /\ id \notin astray =>
          \A k \in 1 .. Len(requests[id]) :
              /\ phase[id] = "received" /\ ~requests[id][k].finished
                    => requests[id][k].manager = home[id]
              /\ phase[id] = "ended" => requests[id][k].finished

IInv == Shape /\ \A id \in Ids : Maps(id) /\ Course(id)

--------------------------------------------------------------------------------
(* Helpers. *)

(* At the start nothing is in flight. *)
LEMMA InvInit == Init => IInv
<1> SUFFICES ASSUME Init PROVE IInv
  OBVIOUS
<1> USE NetworkAssumption
<1>1. NetworkInit
  BY DEF Init
<1>2. MapsShape
  <2>1. <<>> \in Seq(Requests) /\ NoRequest \in Refs
    BY DEF NoRequest, Refs
  <2> QED
    BY <1>1, <2>1 DEF NetworkInit, MapsShape
<1>3. BuildersShape
  <2>1. NoBuilder \in Builders
    BY DEF NoBuilder, Builders
  <2> QED
    BY <1>1, <2>1 DEF NetworkInit, BuildersShape
<1>4. BrowserShape
  <2>1. \A id \in Ids : plan[id] \in Plans(id) /\ MaxHops(id) \in Nat
    BY <1>1 DEF NetworkInit, MaxHops
  <2>2. \A id \in Ids : plan[id].hops \in 1 .. MaxHops(id) /\ plan[id].reported \subseteq Nat
    BY <2>1 DEF Plans
  <2>3. \A id \in Ids : 0 \in 0 .. plan[id].hops
    BY <2>1, <2>2
  <2>4. /\ models = Managers /\ DOMAIN plan = Ids
        /\ phase = [id \in Ids |-> "new"] /\ hop = [id \in Ids |-> 0]
        /\ origin \in [Ids -> Managers] /\ home = origin /\ requestInfos = [id \in Ids |-> 0]
    BY <1>1 DEF NetworkInit
  <2>5. phase \in [Ids -> Phases] /\ hop \in [Ids -> Nat] /\ requestInfos \in [Ids -> Nat]
    BY <2>4 DEF Phases
  <2> QED
    BY <2>2, <2>3, <2>4, <2>5 DEF BrowserShape
<1>5. ASSUME NEW id \in Ids
      PROVE  Maps(id) /\ Course(id)
  BY <1>1 DEF NetworkInit, Maps, MapsFit, Course, NoRequest
<1> QED
  BY <1>2, <1>3, <1>4, <1>5 DEF IInv, Shape

(* What is stale stays so while the requests keep their names. *)
LEMMA StaleStays ==
    ASSUME NEW id \in Ids, NEW rs \in Seq(Requests), NEW q \in Seq(Requests), Len(rs) <= Len(q),
           \A k \in 1 .. Len(rs) : q[k].url = rs[k].url /\ q[k].hop = rs[k].hop
    PROVE  \A k, u : Stale(id, rs, k, u) => Stale(id, q, k, u)
<1>1. \A k : k \in 1 .. Len(rs) => k \in 1 .. Len(q)
  OBVIOUS
<1> QED
  BY <1>1 DEF Stale, Renamed

(* A load of which nothing changes, and that no URL is given to, stays as it is. *)
LEMMA OthersStay ==
    ASSUME NEW j \in Ids, Maps(j), Course(j),
           UNCHANGED <<requests[j], inflightMain[j], home[j], hop[j], phase[j], models, origin>>,
           \A m \in Managers : inflightById'[m][j] = inflightById[m][j],
           \A m \in Managers, u \in Urls :
               inflightByURL'[m][u].id = j => inflightByURL'[m][u] = inflightByURL[m][u],
           j \in astray' <=> j \in astray, home[j] \in Managers
    PROVE  Maps(j)' /\ Course(j)'
<1>1. Maps(j)'
  <2>1. /\ requests'[j] = requests[j] /\ inflightMain'[j] = inflightMain[j] /\ home'[j] = home[j]
        /\ models' = models /\ origin' = origin
    OBVIOUS
  <2>2. ASSUME NEW m \in Managers, NEW u \in Urls, inflightByURL'[m][u].id = j
        PROVE  \/ /\ inflightByURL'[m][u].place = inflightById'[m][j] /\ inflightById'[m][j] # 0
                  /\ requests'[j][inflightById'[m][j]].url = u
               \/ Stale(j, requests'[j], inflightByURL'[m][u].place, u)
    <3>1. inflightByURL'[m][u] = inflightByURL[m][u] /\ inflightById'[m][j] = inflightById[m][j]
      BY <2>2
    <3>2. \/ /\ inflightByURL[m][u].place = inflightById[m][j] /\ inflightById[m][j] # 0
             /\ requests[j][inflightById[m][j]].url = u
          \/ Stale(j, requests[j], inflightByURL[m][u].place, u)
      BY <2>2, <3>1 DEF Maps, MapsFit
    <3> QED
      BY <2>1, <3>1, <3>2
  <2>3. /\ \A m \in Managers : inflightById'[m][j] \in 0 .. Len(requests[j])
        /\ \A m \in Managers, k \in 1 .. Len(requests[j]) :
              inflightById'[m][j] = k <=> ~requests[j][k].finished /\ requests[j][k].manager = m
    BY DEF Maps, MapsFit
  <2> QED
    BY <2>1, <2>2, <2>3 DEF Maps, MapsFit
<1>2. Course(j)'
  BY DEF Course, Renamed
<1> QED
  BY <1>1, <1>2

(* Adoption gives the request in flight to the dispatcher at home, and keeps the maps. *)
LEMMA Adoption ==
    ASSUME IInv, NEW id \in Ids, home[id] \in models
    PROVE  /\ AdoptedRequests(id) \in [Ids -> Seq(Requests)]
           /\ AdoptedById(id) \in [Managers -> [Ids -> Nat]]
           /\ AdoptedByURL(id) \in [Managers -> [Urls -> Refs]]
           /\ \A j \in Ids \ {id} : AdoptedRequests(id)[j] = requests[j]
           /\ \A j \in Ids \ {id}, m \in Managers : AdoptedById(id)[m][j] = inflightById[m][j]
           /\ \A m \in Managers, u \in Urls :
                 AdoptedByURL(id)[m][u] = inflightByURL[m][u] \/ AdoptedByURL(id)[m][u].id \in {id, "none"}
           /\ MapsFit(id, home[id], AdoptedRequests(id)[id], AdoptedById(id), AdoptedByURL(id),
                      inflightMain[id])
           /\ Len(AdoptedRequests(id)[id]) = Len(requests[id])
           /\ \A k \in 1 .. Len(requests[id]) :
                 /\ AdoptedRequests(id)[id][k].finished = requests[id][k].finished
                 /\ AdoptedRequests(id)[id][k].url = requests[id][k].url
                 /\ AdoptedRequests(id)[id][k].hop = requests[id][k].hop
                 /\ ~requests[id][k].finished /\ (home[id] = origin[id] \/ origin[id] \in models)
                       => AdoptedRequests(id)[id][k].manager = home[id]
<1> DEFINE R == AdoptedRequests(id)
           B == AdoptedById(id)
           U == AdoptedByURL(id)
           h == home[id]
           j == inflightMain[id]
           o == requests[id][j].manager
<1>1. /\ requests \in [Ids -> Seq(Requests)] /\ requests[id] \in Seq(Requests)
      /\ inflightById \in [Managers -> [Ids -> Nat]]
      /\ inflightByURL \in [Managers -> [Urls -> Refs]]
      /\ j \in Nat /\ h \in Managers
      /\ Maps(id) /\ Course(id)
  BY DEF IInv, Shape, MapsShape, BrowserShape
<1>2. CASE ~Adopts(id)
  <2>1. R = requests /\ B = inflightById /\ U = inflightByURL
    BY <1>2 DEF AdoptedRequests, AdoptedById, AdoptedByURL
  <2>2. ASSUME NEW k \in 1 .. Len(requests[id]), ~requests[id][k].finished,
               home[id] = origin[id] \/ origin[id] \in models
        PROVE  requests[id][k].manager = home[id]
    <3>1. CASE requests[id][k].manager = h
      BY <3>1
    <3>2. CASE requests[id][k].manager # h
      <4>1. requests[id][k].manager = origin[id] /\ home[id] # origin[id]
        BY <1>1, <3>2 DEF Maps, MapsFit
      <4>2. id \in Documents
        BY <1>1, <4>1 DEF Course
      <4>3. inflightMain[id] = k /\ k # 0
        BY <1>1, <2>2, <4>1, <4>2 DEF Maps, MapsFit
      <4>4. inflightById[h][id] # 0
        BY <1>2, <4>3 DEF Adopts
      <4>5. inflightById[h][id] \in 1 .. Len(requests[id])
        BY <1>1, <4>4 DEF Maps, MapsFit
      <4>6. /\ ~requests[id][inflightById[h][id]].finished
            /\ requests[id][inflightById[h][id]].manager = h
        BY <1>1, <4>5 DEF Maps, MapsFit
      <4>7. inflightById[h][id] = k
        BY <1>1, <2>2, <4>5, <4>6 DEF Maps, MapsFit
      <4> QED
        BY <3>2, <4>6, <4>7
    <3> QED
      BY <3>1, <3>2
  <2> QED
    BY <1>1, <2>1, <2>2 DEF Maps
<1>3. CASE Adopts(id)
  <2>1. /\ inflightById[h][id] = 0 /\ j # 0
        /\ R = [requests EXCEPT ![id][j].manager = h]
        /\ B = [inflightById EXCEPT ![o][id] = 0, ![h][id] = j]
        /\ U = [inflightByURL EXCEPT ![o][requests[id][j].url] = NoRequest,
                                     ![h][requests[id][j].url] = Ref(id, j)]
    BY <1>3 DEF Adopts, AdoptedRequests, AdoptedById, AdoptedByURL, Adopted
  <2>2. /\ j \in 1 .. Len(requests[id]) /\ requests[id][j] \in Requests
        /\ ~requests[id][j].finished /\ o \in models /\ o \in {origin[id], h}
        /\ o \in Managers
    <3>1. j \in 1 .. Len(requests[id]) /\ ~requests[id][j].finished /\ o \in models
      BY <1>1, <2>1 DEF Maps, MapsFit
    <3>2. o \in {origin[id], h}
      BY <1>1, <3>1 DEF Maps, MapsFit
    <3>3. requests[id][j] \in Requests
      BY <1>1, <3>1
    <3>4. o \in Managers
      BY <3>3 DEF Requests
    <3> QED
      BY <3>1, <3>2, <3>3, <3>4
  <2>3. /\ o # h /\ inflightById[o][id] = j
    <3>1. \A m \in Managers, k \in 1 .. Len(requests[id]) :
              inflightById[m][id] = k <=> ~requests[id][k].finished /\ requests[id][k].manager = m
      BY <1>1 DEF Maps, MapsFit
    <3>2. inflightById[o][id] = j
      BY <2>2, <3>1
    <3> HIDE DEF o, j, h
    <3> QED
      BY <2>1, <3>2
  <2>4. /\ R \in [Ids -> Seq(Requests)]
        /\ R[id] = [requests[id] EXCEPT ![j].manager = h]
        /\ \A i \in Ids \ {id} : R[i] = requests[i]
    <3>1. [requests[id][j] EXCEPT !.manager = h] \in Requests
      BY <1>1, <2>2 DEF Requests
    <3> DEFINE q == [requests[id] EXCEPT ![j].manager = h]
    <3>2. q \in Seq(Requests)
      <4> HIDE DEF j, h
      <4> QED
        BY <1>1, <2>2, <3>1
    <3>3. R = [requests EXCEPT ![id] = q]
      BY <2>1
    <3> HIDE DEF q, R
    <3>4. /\ R \in [Ids -> Seq(Requests)] /\ R[id] = q
          /\ \A i \in Ids \ {id} : R[i] = requests[i]
      BY <1>1, <3>2, <3>3
    <3> QED
      BY <3>4 DEF q
  <2> DEFINE rs == R[id]
  <2>5. /\ Len(rs) = Len(requests[id])
        /\ rs[j].manager = h /\ rs[j].finished = requests[id][j].finished
        /\ rs[j].url = requests[id][j].url /\ rs[j].hop = requests[id][j].hop
        /\ \A k \in 1 .. Len(requests[id]) : k # j => rs[k] = requests[id][k]
    BY <1>1, <2>2, <2>4 DEF Requests
  <2>6. /\ B \in [Managers -> [Ids -> Nat]]
        /\ \A i \in Ids \ {id}, m \in Managers : B[m][i] = inflightById[m][i]
        /\ \A m \in Managers : B[m][id] = IF m = h THEN j ELSE IF m = o THEN 0 ELSE inflightById[m][id]
    <3>1. /\ inflightById \in [Managers -> [Ids -> Nat]] /\ o \in Managers /\ h \in Managers
          /\ o # h /\ 0 \in Nat /\ j \in Nat
      BY <1>1, <2>2, <2>3
    <3> HIDE DEF B, o, h, j
    <3> DEFINE g == [inflightById EXCEPT ![o][id] = 0]
    <3>2. /\ g \in [Managers -> [Ids -> Nat]]
          /\ \A m \in Managers, i \in Ids : g[m][i] = IF i = id /\ m = o THEN 0 ELSE inflightById[m][i]
      BY <3>1
    <3>3. B = [g EXCEPT ![h][id] = j]
      BY <2>1
    <3> HIDE DEF g
    <3>4. /\ B \in [Managers -> [Ids -> Nat]]
          /\ \A m \in Managers, i \in Ids : B[m][i] = IF i = id /\ m = h THEN j ELSE g[m][i]
      BY <3>1, <3>2, <3>3
    <3> QED
      BY <3>1, <3>2, <3>4
  <2>7. /\ U \in [Managers -> [Urls -> Refs]]
        /\ \A m \in Managers, u \in Urls :
              U[m][u] = IF u = requests[id][j].url /\ m = h THEN Ref(id, j)
                        ELSE IF u = requests[id][j].url /\ m = o THEN NoRequest
                        ELSE inflightByURL[m][u]
    <3>1. Ref(id, j) \in Refs /\ NoRequest \in Refs
      BY <1>1 DEF Ref, Refs, NoRequest
    <3>2. requests[id][j].url \in Urls
      BY <2>2 DEF Requests
    <3> QED
      <4>1. /\ inflightByURL \in [Managers -> [Urls -> Refs]] /\ o \in Managers /\ h \in Managers
            /\ o # h
        BY <1>1, <2>2, <2>3
      <4> DEFINE u0 == requests[id][j].url
                 r0 == Ref(id, j)
      <4>2. /\ u0 \in Urls /\ r0 \in Refs /\ NoRequest \in Refs
            /\ U = [inflightByURL EXCEPT ![o][u0] = NoRequest, ![h][u0] = r0]
        BY <2>1, <3>1, <3>2
      <4> HIDE DEF U, o, h, u0, r0
      <4> DEFINE g == [inflightByURL EXCEPT ![o][u0] = NoRequest]
      <4>3. /\ g \in [Managers -> [Urls -> Refs]]
            /\ \A m \in Managers, u \in Urls :
                  g[m][u] = IF u = u0 /\ m = o THEN NoRequest ELSE inflightByURL[m][u]
        BY <4>1, <4>2
      <4>4. U = [g EXCEPT ![h][u0] = r0]
        BY <4>2
      <4> HIDE DEF g
      <4>5. /\ U \in [Managers -> [Urls -> Refs]]
            /\ \A m \in Managers, u \in Urls : U[m][u] = IF u = u0 /\ m = h THEN r0 ELSE g[m][u]
        <5>1. g \in [Managers -> [Urls -> Refs]] /\ u0 \in Urls /\ r0 \in Refs /\ h \in Managers
          BY <4>1, <4>2, <4>3
        <5>2. U \in [Managers -> [Urls -> Refs]]
          BY <4>4, <5>1
        <5>3. ASSUME NEW m \in Managers, NEW u \in Urls
              PROVE  U[m][u] = IF u = u0 /\ m = h THEN r0 ELSE g[m][u]
          BY <4>4, <5>1
        <5> QED
          BY <5>2, <5>3
      <4> QED
        BY <4>3, <4>5 DEF u0, r0
  <2> HIDE DEF R, B, U
  <2>8. /\ \A k \in 1 .. Len(requests[id]) : ~requests[id][k].finished => k = j
        /\ \A k, u : Stale(id, requests[id], k, u) => Stale(id, rs, k, u)
    <3>1. rs \in Seq(Requests) /\ requests[id] \in Seq(Requests) /\ Len(requests[id]) <= Len(rs)
      <4>1. rs \in Seq(Requests) /\ Len(rs) = Len(requests[id])
        BY <2>4, <2>5
      <4> HIDE DEF rs
      <4>2. Len(rs) \in Nat
        BY <4>1
      <4> QED
        BY <1>1, <4>1, <4>2
    <3>2. \A k \in 1 .. Len(requests[id]) : ~requests[id][k].finished => k = Len(requests[id])
      BY <1>1 DEF Maps, MapsFit
    <3> HIDE DEF rs, j
    <3>3. \A k \in 1 .. Len(requests[id]) : ~requests[id][k].finished => k = j
      BY <2>2, <3>2
    <3>4. \A k \in 1 .. Len(requests[id]) : rs[k].url = requests[id][k].url
                                             /\ rs[k].hop = requests[id][k].hop
      BY <2>5
    <3> QED
      BY <3>1, <3>3, <3>4, StaleStays
  <2>9. MapsFit(id, h, rs, B, U, j)
    <3>1. \A m \in Managers : B[m][id] \in 0 .. Len(rs)
      <4> SUFFICES ASSUME NEW m \in Managers PROVE B[m][id] \in 0 .. Len(rs)
        OBVIOUS
      <4>1. inflightById[m][id] \in 0 .. Len(rs) /\ j \in 0 .. Len(rs) /\ 0 \in 0 .. Len(rs)
        BY <1>1, <2>2, <2>5 DEF Maps, MapsFit
      <4> QED
        BY <2>6, <4>1
    <3>2. ASSUME NEW m \in Managers, NEW k \in 1 .. Len(rs)
          PROVE  B[m][id] = k <=> ~rs[k].finished /\ rs[k].manager = m
      <4>1. CASE k = j
        <5>1. inflightById[m][id] = j <=> ~requests[id][j].finished /\ o = m
          BY <1>1, <2>2 DEF Maps, MapsFit
        <5>2. ~requests[id][j].finished /\ j # 0
          BY <2>2
        <5>3. /\ B[m][id] = IF m = h THEN j ELSE IF m = o THEN 0 ELSE inflightById[m][id]
              /\ rs[j].manager = h /\ ~rs[j].finished /\ o # h
          BY <2>3, <2>5, <2>6, <5>2
        <5> HIDE DEF o, j, h, rs
        <5> QED
          BY ONLY <4>1, <5>1, <5>2, <5>3
      <4>2. CASE k # j
        <5>1. inflightById[m][id] = k <=> ~rs[k].finished /\ rs[k].manager = m
          <6>1. k \in 1 .. Len(requests[id]) /\ rs[k] = requests[id][k]
            BY <2>5, <4>2
          <6>2. inflightById[m][id] = k
                   <=> ~requests[id][k].finished /\ requests[id][k].manager = m
            BY <1>1, <6>1 DEF Maps, MapsFit
          <6> QED
            BY <6>1, <6>2
        <5>2. rs[k].finished
          BY <2>5, <2>8, <4>2
        <5>3. B[m][id] \in {j, 0, inflightById[m][id]} /\ k # 0
          BY <2>6
        <5> QED
          BY <4>2, <5>1, <5>2, <5>3
      <4> QED
        BY <4>1, <4>2
    <3>3. j \in 1 .. Len(rs) /\ ~rs[j].finished /\ rs[j].manager \in models
      BY <2>2, <2>5
    <3>4. ASSUME NEW m \in Managers, NEW u \in Urls, U[m][u].id = id
          PROVE  \/ U[m][u].place = B[m][id] /\ B[m][id] # 0 /\ rs[B[m][id]].url = u
                 \/ Stale(id, rs, U[m][u].place, u)
      <4>1. CASE u = requests[id][j].url /\ m = h
        <5>1. U[m][u] = [id |-> id, place |-> j] /\ B[m][id] = j
          BY <2>6, <2>7, <4>1 DEF Ref
        <5>2. U[m][u].place = j /\ j # 0 /\ rs[j].url = u
          <6>1. U[m][u].place = j
            BY <5>1
          <6>2. j # 0 /\ rs[j].url = u
            BY <2>1, <2>5, <4>1
          <6> QED
            BY <6>1, <6>2
        <5> QED
          BY <5>1, <5>2
      <4>2. CASE u = requests[id][j].url /\ m = o /\ m # h
        <5>1. U[m][u] = NoRequest
          BY <2>7, <4>2
        <5> QED
          BY <3>4, <5>1, NetworkAssumption DEF NoRequest
      <4>3. CASE ~(u = requests[id][j].url /\ m \in {h, o})
        <5>1. U[m][u] = inflightByURL[m][u]
          BY <2>7, <4>3
        <5>2. CASE Stale(id, requests[id], inflightByURL[m][u].place, u)
          BY <2>8, <5>1, <5>2
        <5>3. CASE /\ inflightByURL[m][u].place = inflightById[m][id] /\ inflightById[m][id] # 0
                   /\ requests[id][inflightById[m][id]].url = u
          <6>1. m \notin {h, o}
            BY <2>1, <2>3, <4>3, <5>3
          <6>2. inflightById[m][id] \in 1 .. Len(requests[id]) /\ inflightById[m][id] # j
            BY <1>1, <2>2, <5>3, <6>1 DEF Maps, MapsFit
          <6> QED
            BY <2>5, <2>6, <5>1, <5>3, <6>1, <6>2
        <5> QED
          BY <1>1, <3>4, <5>1, <5>2, <5>3 DEF Maps, MapsFit
      <4> QED
        BY <4>1, <4>2, <4>3
    <3>5. ASSUME NEW k \in 1 .. Len(rs)
          PROVE  /\ rs[k].manager \in {origin[id], h}
                 /\ ~rs[k].finished => /\ k = Len(rs)
                                       /\ id \in Documents => j = k \/ rs[k].manager \notin models
      BY <1>1, <2>2, <2>5, <2>8 DEF Maps, MapsFit
    <3>6. id \notin Documents => j = 0
      BY <1>1 DEF Maps, MapsFit
    <3> QED
      BY <3>1, <3>2, <3>3, <3>4, <3>5, <3>6 DEF MapsFit
  <2>10. \A m \in Managers, u \in Urls : U[m][u] = inflightByURL[m][u] \/ U[m][u].id \in {id, "none"}
    BY <2>7 DEF Ref, NoRequest
  <2> QED
    BY <2>4, <2>5, <2>6, <2>7, <2>8, <2>9, <2>10 DEF R, B, U
<1> QED
  BY <1>2, <1>3

\* A step changes nothing of the requests of other loads, and takes at most their URLs.
OthersKept(id) ==
    \A j \in Ids \ {id} :
        /\ requests'[j] = requests[j] /\ inflightMain'[j] = inflightMain[j]
        /\ \A m \in Managers : inflightById'[m][j] = inflightById[m][j]
        /\ \A m \in Managers, u \in Urls :
              inflightByURL'[m][u].id = j => inflightByURL'[m][u] = inflightByURL[m][u]

(* When a request is finished, its load has none in flight, and the maps know at *)
(* most a URL that it had.                                                       *)
LEMMA Finishing ==
    ASSUME IInv, NEW id \in Ids, home[id] \in models, Known(id) # 0, Finish(id),
           UNCHANGED <<home, models, origin>>
    PROVE  /\ MapsShape' /\ Maps(id)' /\ OthersKept(id)
           /\ \A k \in 1 .. Len(requests'[id]) : requests'[id][k].finished
<1> DEFINE R == AdoptedRequests(id)
           B == AdoptedById(id)
           U == AdoptedByURL(id)
           h == home[id]
           n == Known(id)
           v == requests[id][n].url
           rs == R[id]
<1>1. /\ R \in [Ids -> Seq(Requests)] /\ B \in [Managers -> [Ids -> Nat]]
      /\ U \in [Managers -> [Urls -> Refs]]
      /\ \A j \in Ids \ {id} : R[j] = requests[j]
      /\ \A j \in Ids \ {id}, m \in Managers : B[m][j] = inflightById[m][j]
      /\ \A m \in Managers, u \in Urls : U[m][u] = inflightByURL[m][u] \/ U[m][u].id \in {id, "none"}
      /\ MapsFit(id, h, rs, B, U, inflightMain[id])
      /\ Len(rs) = Len(requests[id])
      /\ \A k \in 1 .. Len(requests[id]) : rs[k].url = requests[id][k].url
  BY ONLY IInv, id \in Ids, home[id] \in models, Adoption
<1>2. /\ h \in Managers /\ inflightMain \in [Ids -> Nat] /\ n = B[h][id]
      /\ inflightByURL \in [Managers -> [Urls -> Refs]] /\ NoRequest \in Refs
  BY DEF IInv, Shape, MapsShape, BrowserShape, Known, NoRequest, Refs
<1>3. /\ requests' = [R EXCEPT ![id][n].finished = TRUE]
      /\ inflightById' = [B EXCEPT ![h][id] = 0]
      /\ inflightByURL' = [U EXCEPT ![h][v] = NoRequest]
      /\ inflightMain' = [inflightMain EXCEPT ![id] = 0]
      /\ home'[id] = h /\ models' = models /\ origin'[id] = origin[id] /\ n # 0
  BY DEF Finish
<1> HIDE DEF R, B, U, n
<1>4. /\ n \in 1 .. Len(rs) /\ ~rs[n].finished /\ rs[n].manager = h /\ n = Len(rs) /\ rs \in Seq(Requests)
      /\ v = rs[n].url
  <2>1. /\ B[h][id] \in 0 .. Len(rs)
        /\ \A k \in 1 .. Len(rs) : B[h][id] = k <=> ~rs[k].finished /\ rs[k].manager = h
        /\ \A k \in 1 .. Len(rs) : ~rs[k].finished => k = Len(rs)
    BY <1>1, <1>2 DEF MapsFit
  <2>2. rs \in Seq(Requests)
    BY <1>1
  <2>3. n \in 1 .. Len(rs)
    <3>1. n \in 0 .. Len(rs) /\ n # 0
      BY <1>2, <1>3, <2>1
    <3> HIDE DEF rs
    <3> QED
      BY <2>2, <3>1
  <2>4. ~rs[n].finished /\ rs[n].manager = h
    BY <1>2, <2>1, <2>3
  <2>5. v = rs[n].url
    BY <1>1, <2>3
  <2> QED
    BY <2>1, <2>2, <2>3, <2>4, <2>5
<1>4a. rs[n] \in Requests
  BY <1>4
<1>5. \A k \in 1 .. Len(rs) : k # n => rs[k].finished
  BY <1>1, <1>4 DEF MapsFit
<1>6. /\ requests' \in [Ids -> Seq(Requests)]
      /\ requests'[id] = [rs EXCEPT ![n].finished = TRUE]
      /\ \A j \in Ids \ {id} : requests'[j] = requests[j]
  <2>1. [rs[n] EXCEPT !.finished = TRUE] \in Requests
    BY <1>4a DEF Requests
  <2>2. [rs EXCEPT ![n].finished = TRUE] \in Seq(Requests)
    BY <1>4, <2>1
  <2> QED
    BY <1>1, <1>3, <2>2
<1>7. /\ Len(requests'[id]) = Len(rs)
      /\ \A k \in 1 .. Len(rs) :
            /\ requests'[id][k].finished /\ requests'[id][k].manager = rs[k].manager
            /\ requests'[id][k].url = rs[k].url /\ requests'[id][k].hop = rs[k].hop
  <2>1. /\ Len(requests'[id]) = Len(rs)
        /\ \A k \in 1 .. Len(rs) : k # n => requests'[id][k] = rs[k]
        /\ requests'[id][n] = [rs[n] EXCEPT !.finished = TRUE]
    BY <1>4, <1>6
  <2>2. /\ requests'[id][n].finished /\ requests'[id][n].manager = rs[n].manager
        /\ requests'[id][n].url = rs[n].url /\ requests'[id][n].hop = rs[n].hop
    BY <1>4a, <2>1 DEF Requests
  <2> QED
    BY <1>5, <2>1, <2>2
<1>8. /\ inflightById' \in [Managers -> [Ids -> Nat]]
      /\ \A m \in Managers, j \in Ids : inflightById'[m][j] = IF m = h /\ j = id THEN 0 ELSE B[m][j]
  BY <1>1, <1>2, <1>3
<1>9. \A m \in Managers : inflightById'[m][id] = 0
  <2> SUFFICES ASSUME NEW m \in Managers, m # h, B[m][id] # 0 PROVE FALSE
    BY <1>8
  <2>1. B[m][id] \in 1 .. Len(rs)
    BY <1>1 DEF MapsFit
  <2>2. ~rs[B[m][id]].finished /\ rs[B[m][id]].manager = m
    BY <1>1, <2>1 DEF MapsFit
  <2> QED
    BY <1>4, <1>5, <2>1, <2>2
<1>10. /\ inflightByURL' \in [Managers -> [Urls -> Refs]]
       /\ \A m \in Managers, u \in Urls :
             inflightByURL'[m][u] = IF m = h /\ u = v THEN NoRequest ELSE U[m][u]
  <2>1. v \in Urls
    BY <1>4, <1>4a DEF Requests
  <2> HIDE DEF v
  <2> QED
    BY <1>1, <1>2, <1>3, <2>1
<1>11. \A m \in Managers, u \in Urls :
           inflightByURL'[m][u].id = id => Stale(id, requests'[id], inflightByURL'[m][u].place, u)
  <2> SUFFICES ASSUME NEW m \in Managers, NEW u \in Urls, inflightByURL'[m][u].id = id
               PROVE  Stale(id, requests'[id], inflightByURL'[m][u].place, u)
    OBVIOUS
  <2>1. /\ ~(m = h /\ u = v) /\ U[m][u].id = id
        /\ inflightByURL'[m][u] = U[m][u]
    BY <1>10, NetworkAssumption DEF NoRequest
  <2>2. ~(B[m][id] # 0 /\ rs[B[m][id]].url = u)
    <3> SUFFICES ASSUME B[m][id] # 0, rs[B[m][id]].url = u PROVE FALSE
      OBVIOUS
    <3>1. m = h
      BY <1>8, <1>9
    <3> QED
      BY <1>2, <1>4, <2>1, <3>1
  <2>3. Stale(id, rs, U[m][u].place, u)
    BY <1>1, <2>1, <2>2 DEF MapsFit
  <2>4. \A k, w : Stale(id, rs, k, w) => Stale(id, requests'[id], k, w)
    <3>1. requests'[id] \in Seq(Requests) /\ Len(rs) <= Len(requests'[id])
      BY <1>4, <1>6, <1>7
    <3>2. \A k \in 1 .. Len(rs) :
             requests'[id][k].url = rs[k].url /\ requests'[id][k].hop = rs[k].hop
      BY <1>7
    <3>3. rs \in Seq(Requests)
      BY <1>4
    <3> HIDE DEF rs
    <3> QED
      BY ONLY id \in Ids, <3>1, <3>2, <3>3, StaleStays
  <2> QED
    BY <2>1, <2>3, <2>4
<1>12. inflightMain' \in [Ids -> Nat] /\ inflightMain'[id] = 0
       /\ \A j \in Ids \ {id} : inflightMain'[j] = inflightMain[j]
  BY <1>2, <1>3
<1>13. OthersKept(id)
  <2>1. ASSUME NEW j \in Ids \ {id}, NEW m \in Managers, NEW u \in Urls, inflightByURL'[m][u].id = j
        PROVE  inflightByURL'[m][u] = inflightByURL[m][u]
    <3>1. j # id /\ j # "none"
      BY NetworkAssumption
    <3>2. ~(m = h /\ u = v)
      BY <1>10, <2>1, <3>1 DEF NoRequest
    <3>3. inflightByURL'[m][u] = U[m][u]
      BY <1>10, <3>2
    <3> QED
      BY <1>1, <2>1, <3>1, <3>3
  <2> QED
    BY <1>1, <1>6, <1>8, <1>12, <2>1 DEF OthersKept
<1>14. Maps(id)'
  <2>1. \A k \in 1 .. Len(rs) : rs[k].manager \in {origin[id], h}
    BY <1>1 DEF MapsFit
  <2>2. /\ \A k \in 1 .. Len(rs) : k # 0
        /\ 0 \in 0 .. Len(rs)
    BY <1>4
  <2> DEFINE q == requests'[id]
  <2>3. /\ Len(q) = Len(rs)
        /\ \A k \in 1 .. Len(rs) : q[k].finished /\ q[k].manager \in {origin[id], h}
    BY <1>7, <2>1
  <2>4. \A m \in Managers, u \in Urls :
            inflightByURL'[m][u].id = id => Stale(id, q, inflightByURL'[m][u].place, u)
    BY <1>11
  <2> HIDE DEF q, rs
  <2>5. \A m \in Managers, k \in 1 .. Len(q) :
            inflightById'[m][id] = k <=> ~q[k].finished /\ q[k].manager = m
    BY <1>9, <2>2, <2>3
  <2>6. \A m \in Managers : inflightById'[m][id] \in 0 .. Len(q)
    BY <1>9, <2>2, <2>3
  <2> QED
    BY <1>3, <1>12, <2>3, <2>4, <2>5, <2>6 DEF Maps, MapsFit, q
<1> QED
  BY <1>6, <1>7, <1>8, <1>10, <1>12, <1>13, <1>14 DEF MapsShape

(* A request that starts is the one in flight of its load. *)
LEMMA Starting ==
    ASSUME IInv, NEW id \in Ids, NEW r \in Requests, NEW rs \in Seq(Requests),
           NEW byURL \in [Managers -> [Urls -> Refs]],
           ~r.finished, r.manager = home[id], home[id] \in models,
           \A k \in 1 .. Len(rs) : rs[k].finished /\ rs[k].manager \in {origin[id], home[id]},
           \A m \in Managers : m # home[id] => inflightById[m][id] = 0,
           \A m \in Managers, u \in Urls :
               /\ byURL[m][u].id = id => Stale(id, rs, byURL[m][u].place, u)
               /\ byURL[m][u] = inflightByURL[m][u] \/ byURL[m][u] = NoRequest,
           Start(id, r, rs, byURL), UNCHANGED <<home, models, origin>>
    PROVE  /\ MapsShape' /\ Maps(id)' /\ OthersKept(id)
           /\ requests'[id] = Append(rs, r) /\ inflightById'[home[id]][id] # 0
<1> DEFINE h == home[id]
           n == Len(rs) + 1
           u0 == r.url
<1>1. /\ requests \in [Ids -> Seq(Requests)] /\ inflightById \in [Managers -> [Ids -> Nat]]
      /\ inflightMain \in [Ids -> Nat] /\ h \in Managers /\ n \in Nat /\ n # 0
      /\ u0 \in Urls /\ Ref(id, n) \in Refs
      /\ id \notin Documents => inflightMain[id] = 0
  <2>1. /\ requests \in [Ids -> Seq(Requests)] /\ inflightById \in [Managers -> [Ids -> Nat]]
        /\ inflightMain \in [Ids -> Nat] /\ h \in Managers
    BY DEF IInv, Shape, MapsShape, BrowserShape
  <2>2. n \in Nat /\ n # 0
    OBVIOUS
  <2>3. u0 \in Urls
    BY DEF Requests
  <2>4. Ref(id, n) \in Refs
    BY <2>2 DEF Ref, Refs
  <2>5. id \notin Documents => inflightMain[id] = 0
    BY DEF IInv, Maps, MapsFit
  <2> QED
    BY <2>1, <2>2, <2>3, <2>4, <2>5
<1>2. /\ requests' = [requests EXCEPT ![id] = Append(rs, r)]
      /\ inflightById' = [inflightById EXCEPT ![h][id] = n]
      /\ inflightByURL' = [byURL EXCEPT ![h][u0] = Ref(id, n)]
      /\ inflightMain' = IF id \in Documents THEN [inflightMain EXCEPT ![id] = n] ELSE inflightMain
      /\ home' = home /\ models' = models /\ origin' = origin
  BY DEF Start
<1>3. /\ Append(rs, r) \in Seq(Requests) /\ Len(Append(rs, r)) = n /\ Append(rs, r)[n] = r
      /\ \A k \in 1 .. n : k # n => k \in 1 .. Len(rs) /\ Append(rs, r)[k] = rs[k]
  OBVIOUS
<1> HIDE DEF n, u0, h
<1>4. /\ requests' \in [Ids -> Seq(Requests)] /\ requests'[id] = Append(rs, r)
      /\ \A j \in Ids \ {id} : requests'[j] = requests[j]
  BY <1>1, <1>2, <1>3
<1>5. /\ inflightById' \in [Managers -> [Ids -> Nat]]
      /\ \A m \in Managers, j \in Ids :
            inflightById'[m][j] = IF m = h /\ j = id THEN n ELSE inflightById[m][j]
  BY <1>1, <1>2
<1>6. /\ inflightByURL' \in [Managers -> [Urls -> Refs]]
      /\ \A m \in Managers, u \in Urls :
            inflightByURL'[m][u] = IF m = h /\ u = u0 THEN Ref(id, n) ELSE byURL[m][u]
  BY <1>1, <1>2
<1>7. /\ inflightMain' \in [Ids -> Nat]
      /\ inflightMain'[id] = IF id \in Documents THEN n ELSE 0
      /\ \A j \in Ids \ {id} : inflightMain'[j] = inflightMain[j]
  BY <1>1, <1>2
<1>8. OthersKept(id)
  <2>1. ASSUME NEW j \in Ids \ {id}, NEW m \in Managers, NEW u \in Urls, inflightByURL'[m][u].id = j
        PROVE  inflightByURL'[m][u] = inflightByURL[m][u]
    <3>1. j # id /\ j # "none"
      BY NetworkAssumption
    <3>2. ~(m = h /\ u = u0)
      BY <1>6, <2>1, <3>1 DEF Ref
    <3>3. inflightByURL'[m][u] = byURL[m][u]
      BY <1>6, <3>2
    <3> QED
      BY <2>1, <3>1, <3>3 DEF NoRequest
  <2> QED
    BY <1>4, <1>5, <1>7, <2>1 DEF OthersKept
<1>9. \A m \in Managers : inflightById'[m][id] = IF m = h THEN n ELSE 0
  BY <1>5 DEF h
<1>10. \A m \in Managers, u \in Urls :
           inflightByURL'[m][u].id = id =>
               \/ m = h /\ u = u0 /\ inflightByURL'[m][u].place = n
               \/ Stale(id, requests'[id], inflightByURL'[m][u].place, u)
  <2>1. \A k, w : Stale(id, rs, k, w) => Stale(id, requests'[id], k, w)
    <3>1. /\ requests'[id] \in Seq(Requests) /\ Len(requests'[id]) = n /\ n = Len(rs) + 1
          /\ \A k \in 1 .. n : k # n => requests'[id][k] = rs[k]
      BY <1>3, <1>4 DEF n
    <3>2. \A k \in 1 .. Len(rs) : k \in 1 .. n /\ k # n
      BY <3>1
    <3>3. Len(rs) <= Len(requests'[id])
      BY <3>1
    <3>4. \A k \in 1 .. Len(rs) : requests'[id][k].url = rs[k].url /\ requests'[id][k].hop = rs[k].hop
      BY <3>1, <3>2
    <3> QED
      BY ONLY id \in Ids, rs \in Seq(Requests), <3>1, <3>3, <3>4, StaleStays
  <2> SUFFICES ASSUME NEW m \in Managers, NEW u \in Urls, inflightByURL'[m][u].id = id,
                      ~(m = h /\ u = u0)
               PROVE  Stale(id, requests'[id], inflightByURL'[m][u].place, u)
    BY <1>6 DEF Ref
  <2>2. inflightByURL'[m][u] = byURL[m][u]
    BY <1>6
  <2> QED
    BY <2>1, <2>2
<1>11. Maps(id)'
  <2> DEFINE q == requests'[id]
  <2>1. /\ Len(q) = n /\ ~q[n].finished /\ q[n].manager = h /\ q[n].url = u0
        /\ \A k \in 1 .. n : k # n => q[k].finished /\ q[k].manager \in {origin[id], h}
    BY <1>3, <1>4 DEF h, u0
  <2> HIDE DEF q
  <2>2. \A m \in Managers : inflightById'[m][id] \in 0 .. Len(q)
    BY <1>1, <1>9, <2>1
  <2>3. \A m \in Managers, k \in 1 .. Len(q) :
            inflightById'[m][id] = k <=> ~q[k].finished /\ q[k].manager = m
    BY <1>1, <1>9, <2>1
  <2>4. inflightMain'[id] # 0 => /\ inflightMain'[id] \in 1 .. Len(q) /\ ~q[inflightMain'[id]].finished
                                 /\ q[inflightMain'[id]].manager \in models'
    BY <1>1, <1>2, <1>7, <2>1 DEF h
  <2>5. \A m \in Managers, u \in Urls : inflightByURL'[m][u].id = id =>
            \/ /\ inflightByURL'[m][u].place = inflightById'[m][id] /\ inflightById'[m][id] # 0
               /\ q[inflightById'[m][id]].url = u
            \/ Stale(id, q, inflightByURL'[m][u].place, u)
    BY <1>1, <1>9, <1>10, <2>1 DEF q
  <2>6. \A k \in 1 .. Len(q) :
            /\ q[k].manager \in {origin'[id], home'[id]}
            /\ ~q[k].finished => /\ k = Len(q)
                                 /\ id \in Documents => inflightMain'[id] = k \/ q[k].manager \notin models'
    BY <1>2, <1>7, <2>1 DEF h
  <2>7. id \notin Documents => inflightMain'[id] = 0
    BY <1>7
  <2> QED
    BY <2>2, <2>3, <2>4, <2>5, <2>6, <2>7 DEF Maps, MapsFit, q
<1> QED
  BY <1>1, <1>4, <1>5, <1>6, <1>7, <1>8, <1>9, <1>11 DEF MapsShape, h

\* Only the infos of the requests of a load change.
InfosOnly(id) ==
    /\ \A j \in Ids \ {id} : requests'[j] = requests[j]
    /\ Len(requests'[id]) = Len(requests[id])
    /\ \A k \in 1 .. Len(requests[id]) :
          /\ requests'[id][k].manager = requests[id][k].manager
          /\ requests'[id][k].finished = requests[id][k].finished
          /\ requests'[id][k].url = requests[id][k].url
          /\ requests'[id][k].hop = requests[id][k].hop

(* Infos are given without regard to what is in flight. *)
LEMMA InfosStay ==
    ASSUME NEW id \in Ids, Maps(id), Course(id), InfosOnly(id), home[id] \in Managers,
           requests[id] \in Seq(Requests), requests'[id] \in Seq(Requests),
           UNCHANGED <<inflightById, inflightByURL, inflightMain, models, origin, loadVars>>
    PROVE  Maps(id)' /\ Course(id)'
<1>1. /\ Len(requests'[id]) = Len(requests[id]) /\ Len(requests[id]) \in Nat
      /\ \A k \in 1 .. Len(requests[id]) :
          /\ requests'[id][k].manager = requests[id][k].manager
          /\ requests'[id][k].finished = requests[id][k].finished
          /\ requests'[id][k].url = requests[id][k].url
          /\ requests'[id][k].hop = requests[id][k].hop
  BY DEF InfosOnly
<1>2. /\ home' = home /\ phase' = phase /\ hop' = hop /\ astray' = astray
  BY DEF loadVars
<1>3. Maps(id)'
  <2> DEFINE rs == requests[id]
             q == requests'[id]
             main == inflightMain[id]
  <2>1. MapsFit(id, home[id], rs, inflightById, inflightByURL, main)
    BY DEF Maps
  <2>2. /\ Len(q) = Len(rs)
        /\ \A k \in 1 .. Len(rs) : /\ q[k].manager = rs[k].manager
                                    /\ q[k].finished = rs[k].finished /\ q[k].url = rs[k].url
                                    /\ q[k].hop = rs[k].hop
        /\ rs \in Seq(Requests) /\ q \in Seq(Requests) /\ Len(rs) <= Len(q)
    BY <1>1
  <2> HIDE DEF rs, q, main
  <2>3. \A m \in Managers, u \in Urls : inflightByURL[m][u].id = id =>
            \/ /\ inflightByURL[m][u].place = inflightById[m][id] /\ inflightById[m][id] # 0
               /\ q[inflightById[m][id]].url = u
            \/ Stale(id, q, inflightByURL[m][u].place, u)
    <3> SUFFICES ASSUME NEW m \in Managers, NEW u \in Urls, inflightByURL[m][u].id = id,
                        ~Stale(id, q, inflightByURL[m][u].place, u)
                 PROVE  /\ inflightByURL[m][u].place = inflightById[m][id] /\ inflightById[m][id] # 0
                        /\ q[inflightById[m][id]].url = u
      OBVIOUS
    <3>1. ~Stale(id, rs, inflightByURL[m][u].place, u)
      BY <2>2, StaleStays
    <3>2. /\ inflightByURL[m][u].place = inflightById[m][id] /\ inflightById[m][id] # 0
          /\ rs[inflightById[m][id]].url = u /\ inflightById[m][id] \in 0 .. Len(rs)
      BY <2>1, <3>1 DEF MapsFit
    <3>3. inflightById[m][id] \in 1 .. Len(rs)
      BY <1>1, <3>2 DEF rs
    <3> QED
      BY <2>2, <3>2, <3>3
  <2>4. /\ \A m \in Managers, k \in 1 .. Len(q) :
              inflightById[m][id] = k <=> ~q[k].finished /\ q[k].manager = m
        /\ main # 0 => main \in 1 .. Len(q) /\ ~q[main].finished /\ q[main].manager \in models
        /\ \A k \in 1 .. Len(q) :
              /\ q[k].manager \in {origin[id], home[id]}
              /\ ~q[k].finished => /\ k = Len(q)
                                   /\ id \in Documents => main = k \/ q[k].manager \notin models
    BY <2>1, <2>2 DEF MapsFit
  <2>5. /\ \A m \in Managers : inflightById[m][id] \in 0 .. Len(q)
        /\ id \notin Documents => main = 0
    BY <2>1, <2>2 DEF MapsFit
  <2> QED
    BY <1>2, <2>3, <2>4, <2>5 DEF Maps, MapsFit, q, main
<1>4. Course(id)'
  <2>1. requests[id] = <<>> => requests'[id] = <<>>
    BY <1>1
  <2> QED
    BY <1>1, <1>2, <2>1 DEF Course, Renamed
<1> QED
  BY <1>3, <1>4
--------------------------------------------------------------------------------
(* Builders. *)

(* What is made of builders and requests is of the same kind. *)
LEMMA BuilderTypes ==
    ASSUME BuildersShape, NEW m \in Managers, NEW id \in Ids
    PROVE  /\ Builder(m, id) \in Builders
           /\ \A b \in Builders, rs \in Seq(Requests) : Kept(b, rs) \in Builders
           /\ \A b \in Builders, i \in Nat : Synced(b, i) \in Builders
           /\ \A b \in Builders :
                 builders' = [builders EXCEPT ![m][id] = b] => BuildersShape'
<1>1. NewBuilder \in Builders /\ NoBuilder \in Builders
  BY DEF NewBuilder, NoBuilder, Builders
<1>2. Builder(m, id) \in Builders
  BY <1>1 DEF Builder, BuildersShape
<1>3. \A b \in Builders, rs \in Seq(Requests) : Kept(b, rs) \in Builders
  BY <1>1 DEF Kept
<1>4. ASSUME NEW b \in Builders, NEW i \in Nat
      PROVE  Synced(b, i) \in Builders
  <2>1. \A infos \in Seq(Nat) : Cleared(infos, i) \in Seq(Nat)
    BY DEF Cleared
  <2>2. b.requestInfos \in Seq(Nat) /\ b.responseInfos \in Seq(Nat)
    BY DEF Builders
  <2>3. Cleared(b.requestInfos, i) \in Seq(Nat) /\ Cleared(b.responseInfos, i) \in Seq(Nat)
    BY <2>1, <2>2
  <2> QED
    BY <2>3 DEF Synced, Builders
<1>5. ASSUME NEW b \in Builders, builders' = [builders EXCEPT ![m][id] = b]
      PROVE  BuildersShape'
  BY <1>5 DEF BuildersShape
<1> QED
  BY <1>2, <1>3, <1>4, <1>5

(* A builder gives a request infos, and nothing else. *)
LEMMA GivenKeeps ==
    ASSUME NEW r \in Requests, NEW b \in Builders, NEW i \in Nat
    PROVE  /\ Given(r, b, i) \in Requests
           /\ Given(r, b, i).manager = r.manager
           /\ Given(r, b, i).finished = r.finished
           /\ Given(r, b, i).url = r.url
           /\ Given(r, b, i).hop = r.hop
<1>1. \A infos \in Seq(Nat) : Get(infos, i) \in Nat
  BY DEF Get
<1>2. b.requestInfos \in Seq(Nat) /\ b.responseInfos \in Seq(Nat)
  BY DEF Builders
<1>3. Get(b.requestInfos, i) \in Nat /\ Get(b.responseInfos, i) \in Nat
  BY <1>1, <1>2
<1> QED
  BY <1>3 DEF Given, Requests

(* Syncing gives infos to one request of the load and changes its builder. *)
LEMMA Syncing ==
    ASSUME Shape, NEW m \in Managers, NEW id \in Ids, NEW b \in Builders, NEW i \in Nat \ {0},
           Sync(m, id, b, i)
    PROVE  BuildersShape' /\ InfosOnly(id) /\ requests' \in [Ids -> Seq(Requests)]
<1> DEFINE k == b.requests[i]
           rs == [requests[id] EXCEPT ![k] = Given(@, b, i)]
<1>1. requests \in [Ids -> Seq(Requests)] /\ BuildersShape /\ b.requests \in Seq(Nat)
  BY DEF Shape, MapsShape, Builders
<1>2. CASE i > Len(b.requests)
  <2>1. builders' = [builders EXCEPT ![m][id] = b] /\ requests' = requests
    BY <1>2 DEF Sync
  <2>2. BuildersShape'
    BY <1>1, <2>1, BuilderTypes
  <2> QED
    BY <1>1, <2>1, <2>2 DEF InfosOnly
<1>3. CASE ~(i > Len(b.requests))
  <2>1. /\ requests' = [requests EXCEPT ![id] = rs]
        /\ builders' = [builders EXCEPT ![m][id] = Kept(Synced(b, i), rs)]
    BY <1>3 DEF Sync
  <2>2. /\ rs \in Seq(Requests) /\ Len(rs) = Len(requests[id])
        /\ \A l \in 1 .. Len(requests[id]) : /\ rs[l].manager = requests[id][l].manager
                                             /\ rs[l].finished = requests[id][l].finished
                                             /\ rs[l].url = requests[id][l].url
                                             /\ rs[l].hop = requests[id][l].hop
    <3>1. requests[id] \in Seq(Requests)
      BY <1>1
    <3>2. CASE k \in 1 .. Len(requests[id])
      <4>1. requests[id][k] \in Requests
        BY <3>1, <3>2
      <4>2. /\ Given(requests[id][k], b, i) \in Requests
            /\ Given(requests[id][k], b, i).manager = requests[id][k].manager
            /\ Given(requests[id][k], b, i).finished = requests[id][k].finished
            /\ Given(requests[id][k], b, i).url = requests[id][k].url
            /\ Given(requests[id][k], b, i).hop = requests[id][k].hop
        BY <4>1, GivenKeeps
      <4> HIDE DEF k
      <4> QED
        BY <3>1, <3>2, <4>2
    <3>3. CASE k \notin 1 .. Len(requests[id])
      <4> HIDE DEF k
      <4>1. rs = requests[id]
        BY <3>1, <3>3
      <4> QED
        BY <3>1, <4>1
    <3> QED
      BY <3>2, <3>3
  <2> HIDE DEF rs
  <2>3. BuildersShape'
    <3>1. Synced(b, i) \in Builders
      BY <1>1, BuilderTypes
    <3>2. Kept(Synced(b, i), rs) \in Builders
      BY <1>1, <2>2, <3>1, BuilderTypes
    <3> QED
      BY <1>1, <2>1, <3>2, BuilderTypes
  <2>4. /\ requests'[id] = rs /\ requests' \in [Ids -> Seq(Requests)]
        /\ \A j \in Ids \ {id} : requests'[j] = requests[j]
    BY <1>1, <2>1, <2>2
  <2> QED
    BY <2>2, <2>3, <2>4 DEF InfosOnly
<1> QED
  BY <1>2, <1>3

--------------------------------------------------------------------------------
(* The steps. *)

(* A step of one load that leaves the browser's part of the others alone. *)
LEMMA OneLoad ==
    ASSUME IInv, NEW id \in Ids, Shape', Maps(id)', Course(id)', OthersKept(id),
           UNCHANGED <<models, origin>>,
           \A j \in Ids \ {id} : /\ home'[j] = home[j] /\ hop'[j] = hop[j] /\ phase'[j] = phase[j]
                                 /\ j \in astray' <=> j \in astray
    PROVE  IInv'
<1>1. ASSUME NEW j \in Ids, j # id
      PROVE  Maps(j)' /\ Course(j)'
  <2>1. Maps(j) /\ Course(j) /\ home[j] \in Managers
    BY DEF IInv, Shape, BrowserShape
  <2>2. /\ UNCHANGED <<requests[j], inflightMain[j], home[j], hop[j], phase[j], models, origin>>
        /\ \A m \in Managers : inflightById'[m][j] = inflightById[m][j]
        /\ \A m \in Managers, u \in Urls :
               inflightByURL'[m][u].id = j => inflightByURL'[m][u] = inflightByURL[m][u]
        /\ j \in astray' <=> j \in astray
    BY <1>1 DEF OthersKept
  <2> QED
    BY <2>1, <2>2, OthersStay
<1> QED
  BY <1>1 DEF IInv

(* The maps are not touched: the requests of every load stay as they are. *)
LEMMA NothingOfOthers ==
    ASSUME NEW id \in Ids, UNCHANGED <<requests, inflightById, inflightByURL, inflightMain>>
    PROVE  OthersKept(id)
BY DEF OthersKept

LEMMA MissedInv ==
    ASSUME IInv, NEW id \in Ids, Missed(id)
    PROVE  IInv'
<1>1. /\ phase[id] = "new" /\ home[id] \in models
      /\ phase' = [phase EXCEPT ![id] = "sent"] /\ hop' = [hop EXCEPT ![id] = 1]
      /\ UNCHANGED <<requests, inflightById, inflightByURL, builders, inflightMain,
                     models, plan, origin, home, requestInfos, astray>>
  BY DEF Missed, modelVars, infoVars
<1>2. Shape /\ Maps(id) /\ Course(id)
  BY DEF IInv
<1>3. Shape'
  <2>1. MapsShape' /\ BuildersShape'
    BY <1>1, <1>2 DEF Shape, MapsShape, BuildersShape
  <2>2. BrowserShape'
    BY <1>1, <1>2 DEF Shape, BrowserShape, Phases
  <2> QED
    BY <2>1, <2>2 DEF Shape
<1>4. Maps(id)'
  BY <1>1, <1>2 DEF Maps, MapsFit
<1>5. Course(id)'
  BY <1>1, <1>2 DEF Course, Shape, BrowserShape
<1>6. \A j \in Ids \ {id} : /\ home'[j] = home[j] /\ hop'[j] = hop[j] /\ phase'[j] = phase[j]
                            /\ j \in astray' <=> j \in astray
  BY <1>1, <1>2 DEF Shape, BrowserShape
<1> QED
  BY <1>1, <1>3, <1>4, <1>5, <1>6, OneLoad, NothingOfOthers

\* q is rs, with the URL url given to request n.
SameButUrl(rs, q, n, url) ==
    /\ q \in Seq(Requests) /\ Len(q) = Len(rs) /\ q[n].url = url
    /\ \A k \in 1 .. Len(rs) :
          /\ k # n => q[k] = rs[k]
          /\ q[k].manager = rs[k].manager /\ q[k].finished = rs[k].finished /\ q[k].hop = rs[k].hop
          /\ q[k].requestInfo = rs[k].requestInfo /\ q[k].responseInfo = rs[k].responseInfo

\* The URLs know request n of the load id by url only, and the rest of what they know is stale.
KnownAs(id, q, n, url) ==
    \A m \in Managers, u \in Urls :
        inflightByURL[m][u].id = id => \/ m = home[id] /\ u = url /\ inflightByURL[m][u].place = n
                                       \/ Stale(id, q, inflightByURL[m][u].place, u)

(* A response renames at most the request in flight, once: what was known by its old *)
(* URL is stale then.                                                                 *)
LEMMA Renaming ==
    ASSUME IInv, NEW id \in Ids, phase[id] = "sent", NEW n \in Nat \ {0},
           n = inflightById[home[id]][id], NEW url \in ResponseUrls(id, n)
    PROVE  /\ n \in 1 .. Len(requests[id]) /\ ~requests[id][n].finished /\ url \in Urls
           /\ requests[id][n].manager = home[id]
           /\ SameButUrl(requests[id], Updated(id, n, url), n, url)
           /\ KnownAs(id, Updated(id, n, url), n, url)
<1> DEFINE rs == requests[id]
           q == Updated(id, n, url)
<1>1. /\ rs \in Seq(Requests) /\ home[id] \in Managers /\ Course(id)
      /\ MapsFit(id, home[id], rs, inflightById, inflightByURL, inflightMain[id])
  BY DEF IInv, Shape, MapsShape, BrowserShape, Maps
<1>2. n \in 1 .. Len(rs) /\ ~rs[n].finished /\ rs[n].manager = home[id]
  <2>1. n \in 0 .. Len(rs)
    BY <1>1 DEF MapsFit
  <2>2. n \in 1 .. Len(rs)
    BY <1>1, <2>1
  <2> QED
    BY <1>1, <2>2 DEF MapsFit
<1>3. rs[n] \in Requests
  BY <1>1, <1>2
<1>4. url \in Urls
  BY <1>3, NetworkAssumption DEF ResponseUrls, Requests
<1> DEFINE r == [rs[n] EXCEPT !.url = url]
<1>5. /\ r \in Requests /\ r.url = url
      /\ r.manager = rs[n].manager /\ r.finished = rs[n].finished /\ r.hop = rs[n].hop
      /\ r.requestInfo = rs[n].requestInfo /\ r.responseInfo = rs[n].responseInfo
  BY <1>3, <1>4 DEF Requests
<1>6. q = [rs EXCEPT ![n] = r]
  BY DEF Updated
<1> HIDE DEF rs, q, r
<1>7. /\ q \in Seq(Requests) /\ Len(q) = Len(rs) /\ q[n] = r
      /\ \A k \in 1 .. Len(rs) : k # n => q[k] = rs[k]
  BY <1>1, <1>2, <1>5, <1>6
<1>8. \A k \in 1 .. Len(rs) :
          /\ q[k].manager = rs[k].manager /\ q[k].finished = rs[k].finished /\ q[k].hop = rs[k].hop
          /\ q[k].requestInfo = rs[k].requestInfo /\ q[k].responseInfo = rs[k].responseInfo
  BY <1>5, <1>7
<1>9. ~Renamed(rs[n], id)
  BY <1>1, <1>2 DEF Course, rs
<1>10. ASSUME NEW m \in Managers, NEW u \in Urls, inflightByURL[m][u].id = id
       PROVE  \/ m = home[id] /\ u = url /\ inflightByURL[m][u].place = n
              \/ Stale(id, q, inflightByURL[m][u].place, u)
  <2>1. CASE Stale(id, rs, inflightByURL[m][u].place, u)
    <3>1. inflightByURL[m][u].place # n
      BY <1>9, <2>1 DEF Stale
    <3> QED
      BY <1>7, <2>1, <3>1 DEF Stale
  <2>2. CASE /\ inflightByURL[m][u].place = inflightById[m][id] /\ inflightById[m][id] # 0
             /\ rs[inflightById[m][id]].url = u
    <3>1. inflightById[m][id] \in 1 .. Len(rs)
      <4>1. inflightById[m][id] \in 0 .. Len(rs)
        BY <1>1 DEF MapsFit
      <4> QED
        BY <1>1, <2>2, <4>1
    <3>2. ~rs[inflightById[m][id]].finished /\ rs[inflightById[m][id]].manager = m
      BY <1>1, <3>1 DEF MapsFit
    <3>3. inflightById[m][id] = n
      BY <1>1, <1>2, <3>1, <3>2 DEF MapsFit
    <3>4. m = home[id] /\ u = UrlOf[id][rs[n].hop] /\ inflightByURL[m][u].place = n
      BY <1>2, <1>9, <2>2, <3>2, <3>3 DEF Renamed
    <3>5. CASE u # url
      <4>1. q[n].url = url /\ q[n].hop = rs[n].hop /\ n \in 1 .. Len(q)
        BY <1>2, <1>5, <1>7
      <4> QED
        BY <3>4, <3>5, <4>1 DEF Stale, Renamed
    <3> QED
      BY <3>4, <3>5
  <2> QED
    BY <1>1, <1>10, <2>1, <2>2 DEF MapsFit
<1>11. q[n].url = url
  BY <1>5, <1>7
<1>12. SameButUrl(rs, q, n, url) /\ KnownAs(id, q, n, url)
  <2>1. SameButUrl(rs, q, n, url)
    BY <1>7, <1>8, <1>11 DEF SameButUrl
  <2>2. KnownAs(id, q, n, url)
    BY <1>10 DEF KnownAs
  <2> QED
    BY <2>1, <2>2
<1> QED
  BY <1>2, <1>4, <1>12 DEF rs, q

(* What responseReceived changes of the requests: a URL at most. *)
LEMMA Receiving ==
    ASSUME IInv, NEW id \in Ids, NEW m \in Managers, ResponseReceived(id, m)
    PROVE  /\ requests' \in [Ids -> Seq(Requests)] /\ Len(requests'[id]) = Len(requests[id])
           /\ \A j \in Ids \ {id} : requests'[j] = requests[j]
           /\ \A k \in 1 .. Len(requests[id]) :
                 /\ requests'[id][k].manager = requests[id][k].manager
                 /\ requests'[id][k].finished = requests[id][k].finished
                 /\ requests'[id][k].hop = requests[id][k].hop
                 /\ requests'[id][k].requestInfo = requests[id][k].requestInfo
                 /\ requests'[id][k].responseInfo = requests[id][k].responseInfo
           /\ \A o \in Managers, u \in Urls :
                 inflightByURL[o][u].id = id =>
                     \/ /\ inflightByURL[o][u].place = inflightById[o][id] /\ inflightById[o][id] # 0
                        /\ requests'[id][inflightById[o][id]].url = u
                     \/ Stale(id, requests'[id], inflightByURL[o][u].place, u)
<1> DEFINE n == inflightById[home[id]][id]
           rs == requests[id]
           q == requests'[id]
<1>1. /\ phase[id] = "sent"
      /\ \/ n = 0 /\ requests' = requests
         \/ n # 0 /\ \E url \in ResponseUrls(id, n) :
               requests' = [requests EXCEPT ![id] = Updated(id, n, url)]
  BY DEF ResponseReceived
<1>2. Maps(id) /\ requests \in [Ids -> Seq(Requests)] /\ rs \in Seq(Requests) /\ n \in Nat
  BY DEF IInv, Shape, MapsShape, BrowserShape
<1>3. CASE n = 0 /\ requests' = requests
  BY <1>2, <1>3 DEF Maps, MapsFit
<1>4. CASE n # 0 /\ \E url \in ResponseUrls(id, n) :
               requests' = [requests EXCEPT ![id] = Updated(id, n, url)]
  <2>1. PICK url \in ResponseUrls(id, n) : requests' = [requests EXCEPT ![id] = Updated(id, n, url)]
    BY <1>4
  <2> DEFINE p == Updated(id, n, url)
  <2>2. /\ p \in Seq(Requests) /\ Len(p) = Len(rs) /\ p[n].url = url
        /\ \A k \in 1 .. Len(rs) :
               /\ p[k].manager = rs[k].manager /\ p[k].finished = rs[k].finished
               /\ p[k].hop = rs[k].hop
               /\ p[k].requestInfo = rs[k].requestInfo /\ p[k].responseInfo = rs[k].responseInfo
        /\ \A o \in Managers, u \in Urls :
               inflightByURL[o][u].id = id =>
                   \/ o = home[id] /\ u = url /\ inflightByURL[o][u].place = n
                   \/ Stale(id, p, inflightByURL[o][u].place, u)
    <3>1. phase[id] = "sent" /\ n \in Nat \ {0} /\ n = inflightById[home[id]][id]
      BY <1>1, <1>2, <1>4
    <3>2. IInv /\ url \in ResponseUrls(id, n)
      OBVIOUS
    <3> HIDE DEF n, q, rs
    <3>3. /\ n \in 1 .. Len(requests[id]) /\ ~requests[id][n].finished /\ url \in Urls
          /\ SameButUrl(requests[id], Updated(id, n, url), n, url)
          /\ KnownAs(id, Updated(id, n, url), n, url)
      BY ONLY id \in Ids, <3>1, <3>2, Renaming
    <3> QED
      BY ONLY <3>3 DEF SameButUrl, KnownAs, rs
  <2> HIDE DEF p
  <2>3. /\ requests' \in [Ids -> Seq(Requests)] /\ q = p
        /\ \A j \in Ids \ {id} : requests'[j] = requests[j]
    BY <1>2, <2>1, <2>2 DEF p
  <2> QED
    BY <1>4, <2>2, <2>3
<1> QED
  BY <1>1, <1>3, <1>4

LEMMA ResponseReceivedInv ==
    ASSUME IInv, NEW id \in Ids, NEW m \in Managers, ResponseReceived(id, m)
    PROVE  IInv'
<1>1. /\ phase[id] = "sent" /\ m \in models /\ (m = home[id] \/ id \in Documents)
      /\ phase' = [phase EXCEPT ![id] = "answered"] /\ home' = [home EXCEPT ![id] = m]
      /\ UNCHANGED <<inflightById, inflightByURL, builders, inflightMain,
                     models, plan, origin, hop, requestInfos, astray>>
  BY DEF ResponseReceived, infoVars
<1>2. /\ Shape /\ Maps(id) /\ Course(id) /\ requests \in [Ids -> Seq(Requests)]
      /\ requests[id] \in Seq(Requests)
  BY DEF IInv, Shape, MapsShape, BrowserShape
<1> DEFINE rs == requests[id]
           q == requests'[id]
<1>3. /\ requests' \in [Ids -> Seq(Requests)] /\ Len(q) = Len(rs)
      /\ \A j \in Ids \ {id} : requests'[j] = requests[j]
      /\ \A k \in 1 .. Len(rs) : q[k].manager = rs[k].manager /\ q[k].finished = rs[k].finished
      /\ \A o \in Managers, u \in Urls :
            inflightByURL[o][u].id = id =>
                \/ /\ inflightByURL[o][u].place = inflightById[o][id] /\ inflightById[o][id] # 0
                   /\ q[inflightById[o][id]].url = u
                \/ Stale(id, q, inflightByURL[o][u].place, u)
  BY Receiving
<1>4. Shape'
  <2>1. MapsShape' /\ BuildersShape'
    BY <1>1, <1>2, <1>3 DEF Shape, MapsShape, BuildersShape
  <2>2. BrowserShape'
    BY <1>1, <1>2 DEF Shape, BrowserShape, Phases
  <2> QED
    BY <2>1, <2>2 DEF Shape
<1>5. home[id] = origin[id] /\ home'[id] = m /\ phase'[id] = "answered" /\ hop'[id] = hop[id]
  <2>1. home[id] = origin[id]
    BY <1>1, <1>2 DEF Course
  <2>2. home'[id] = m /\ phase'[id] = "answered" /\ hop'[id] = hop[id]
    BY <1>1, <1>2 DEF Shape, BrowserShape
  <2> QED
    BY <2>1, <2>2
<1> HIDE DEF q, rs
<1>6. Maps(id)'
  <2>1. MapsFit(id, home[id], rs, inflightById, inflightByURL, inflightMain[id])
    BY <1>2 DEF Maps, rs
  <2>2. /\ \A o \in Managers : inflightById[o][id] \in 0 .. Len(q)
        /\ \A o \in Managers, k \in 1 .. Len(q) :
              inflightById[o][id] = k <=> ~q[k].finished /\ q[k].manager = o
        /\ inflightMain[id] # 0 => /\ inflightMain[id] \in 1 .. Len(q) /\ ~q[inflightMain[id]].finished
                                   /\ q[inflightMain[id]].manager \in models
    BY <1>3, <2>1 DEF MapsFit
  <2>3. \A k \in 1 .. Len(q) :
            /\ q[k].manager \in {origin[id], m}
            /\ ~q[k].finished => /\ k = Len(q)
                                 /\ id \in Documents => inflightMain[id] = k \/ q[k].manager \notin models
    BY <1>3, <1>5, <2>1 DEF MapsFit
  <2>4. id \notin Documents => inflightMain[id] = 0
    BY <2>1 DEF MapsFit
  <2> QED
    BY <1>1, <1>3, <1>5, <2>2, <2>3, <2>4 DEF Maps, MapsFit, q
<1>7. Course(id)'
  <2>1. models' = models /\ origin' = origin /\ astray' = astray
    BY <1>1
  <2>2. id \in Documents \/ home'[id] = origin[id]
    BY <1>1, <1>5
  <2>3. home'[id] \in models
    BY <1>1, <1>5
  <2> QED
    BY <1>5, <2>1, <2>2, <2>3 DEF Course
<1>8. OthersKept(id)
  BY <1>1, <1>3 DEF OthersKept
<1>9. \A j \in Ids \ {id} : /\ home'[j] = home[j] /\ hop'[j] = hop[j] /\ phase'[j] = phase[j]
                            /\ j \in astray' <=> j \in astray
  BY <1>1, <1>2 DEF Shape, BrowserShape
<1> QED
  BY <1>1, <1>4, <1>6, <1>7, <1>8, <1>9, OneLoad

LEMMA DataReceivedInv ==
    ASSUME IInv, NEW id \in Ids, DataReceived(id)
    PROVE  IInv'
<1>1. /\ phase[id] = "answered" /\ phase' = [phase EXCEPT ![id] = "received"]
      /\ requests' = AdoptedRequests(id) /\ inflightById' = AdoptedById(id)
      /\ inflightByURL' = AdoptedByURL(id)
      /\ astray' = IF home[id] # origin[id] /\ origin[id] \notin models THEN astray \cup {id} ELSE astray
      /\ UNCHANGED <<builders, inflightMain, models, plan, origin, hop, home, requestInfos>>
  BY DEF DataReceived, infoVars
<1>2. Shape /\ Maps(id) /\ Course(id)
  BY DEF IInv
<1>3. home[id] \in models
  BY <1>1, <1>2 DEF Course
<1>4. /\ requests' \in [Ids -> Seq(Requests)]
      /\ inflightById' \in [Managers -> [Ids -> Nat]]
      /\ inflightByURL' \in [Managers -> [Urls -> Refs]]
      /\ \A j \in Ids \ {id} : requests'[j] = requests[j]
      /\ \A j \in Ids \ {id}, m \in Managers : inflightById'[m][j] = inflightById[m][j]
      /\ \A m \in Managers, u \in Urls :
            inflightByURL'[m][u] = inflightByURL[m][u] \/ inflightByURL'[m][u].id \in {id, "none"}
      /\ MapsFit(id, home[id], requests'[id], inflightById', inflightByURL', inflightMain[id])
      /\ Len(requests'[id]) = Len(requests[id])
      /\ \A k \in 1 .. Len(requests[id]) :
            /\ requests'[id][k].finished = requests[id][k].finished
            /\ ~requests[id][k].finished /\ (home[id] = origin[id] \/ origin[id] \in models)
                  => requests'[id][k].manager = home[id]
  BY <1>1, <1>3, Adoption
<1>5. Shape'
  <2>1. MapsShape' /\ BuildersShape'
    BY <1>1, <1>2, <1>4 DEF Shape, MapsShape, BuildersShape
  <2>2. BrowserShape'
    BY <1>1, <1>2 DEF Shape, BrowserShape, Phases
  <2> QED
    BY <2>1, <2>2 DEF Shape
<1>6. OthersKept(id)
  <2>1. ASSUME NEW j \in Ids \ {id}, NEW m \in Managers, NEW u \in Urls, inflightByURL'[m][u].id = j
        PROVE  inflightByURL'[m][u] = inflightByURL[m][u]
    BY <1>4, <2>1, NetworkAssumption
  <2>2. inflightMain' = inflightMain
    BY <1>1
  <2> QED
    BY <1>4, <2>1, <2>2 DEF OthersKept
<1>7. Maps(id)'
  BY <1>1, <1>4 DEF Maps, MapsFit
<1>8. phase'[id] = "received" /\ home'[id] = home[id]
  BY <1>1, <1>2 DEF Shape, BrowserShape
<1>9. Course(id)'
  <2>1. id \notin astray' => /\ home[id] = origin[id] \/ origin[id] \in models
                             /\ id \notin astray
    BY <1>1
  <2> QED
    BY <1>1, <1>2, <1>3, <1>4, <1>8, <2>1 DEF Course
<1>10. \A j \in Ids \ {id} : /\ home'[j] = home[j] /\ hop'[j] = hop[j] /\ phase'[j] = phase[j]
                             /\ j \in astray' <=> j \in astray
  BY <1>1, <1>2 DEF Shape, BrowserShape
<1> QED
  BY <1>1, <1>5, <1>6, <1>7, <1>9, <1>10, OneLoad

(* What the end of a load changes of the browser's part. *)
LEMMA Ending ==
    ASSUME Shape, NEW id \in Ids, NEW adopting \in BOOLEAN, Ended(id, adopting)
    PROVE  /\ BrowserShape' /\ phase'[id] = "ended"
           /\ home' = home /\ hop' = hop /\ models' = models /\ origin' = origin
           /\ \A j \in Ids \ {id} : phase'[j] = phase[j] /\ (j \in astray' <=> j \in astray)
           /\ id \notin astray' =>
                 /\ id \notin astray
                 /\ home[id] = origin[id] \/ phase[id] = "received" \/ (adopting /\ origin[id] \in models)
<1>1. /\ phase' = [phase EXCEPT ![id] = "ended"]
      /\ astray' = IF /\ home[id] # origin[id] /\ phase[id] # "received"
                      /\ ~adopting \/ origin[id] \notin models
                   THEN astray \cup {id} ELSE astray
      /\ UNCHANGED <<models, plan, origin, hop, home, requestInfos>>
  BY DEF Ended, infoVars
<1>2. BrowserShape'
  BY <1>1 DEF Shape, BrowserShape, Phases
<1>3. phase'[id] = "ended" /\ \A j \in Ids \ {id} : phase'[j] = phase[j]
  BY <1>1 DEF Shape, BrowserShape
<1> QED
  BY <1>1, <1>2, <1>3

(* A load that ended keeps its course if its requests are finished, or it went astray. *)
LEMMA EndedCourse ==
    ASSUME NEW id \in Ids, Course(id), phase'[id] = "ended", phase[id] \notin {"new"},
           UNCHANGED <<home, origin>>, phase[id] # "sent" \/ home[id] = origin[id],
           id \notin astray' => \A k \in 1 .. Len(requests'[id]) : requests'[id][k].finished
    PROVE  Course(id)'
<1>1. id \in Documents \/ home'[id] = origin'[id]
  BY DEF Course
<1> QED
  BY <1>1 DEF Course

(* The builder of a load that ended. *)
LEMMA BuilderFinishing ==
    ASSUME Shape, NEW id \in Ids, BuilderFinished(id)
    PROVE  BuildersShape'
<1>1. home[id] \in Managers /\ BuildersShape /\ requests[id] \in Seq(Requests)
  BY DEF Shape, MapsShape, BrowserShape
<1>2. Builder(home[id], id) \in Builders
  BY <1>1, BuilderTypes
<1>3. [Builder(home[id], id) EXCEPT !.finished = TRUE] \in Builders
  BY <1>2 DEF Builders
<1>4. Kept([Builder(home[id], id) EXCEPT !.finished = TRUE], requests[id]) \in Builders
  BY <1>1, <1>3, BuilderTypes
<1> QED
  BY <1>1, <1>4, BuilderTypes DEF BuilderFinished

(* The step that ends a load: it finishes the request in flight, or it changes no    *)
(* map, and then none was in flight if the load did not go astray.                   *)
LEMMA EndInv ==
    ASSUME IInv, NEW id \in Ids, NEW adopting \in BOOLEAN, Ended(id, adopting),
           phase[id] \in {"sent", "open", "answered", "received"},
           \/ /\ Finish(id) /\ Known(id) # 0
              /\ BuildersShape'
           \/ /\ UNCHANGED modelVars
              /\ id \notin astray' => \A k \in 1 .. Len(requests[id]) : requests[id][k].finished
    PROVE  IInv'
<1>1. Shape /\ Maps(id) /\ Course(id) /\ requests[id] \in Seq(Requests)
  BY DEF IInv, Shape, MapsShape
<1>2. /\ BrowserShape' /\ phase'[id] = "ended"
      /\ home' = home /\ hop' = hop /\ models' = models /\ origin' = origin
      /\ \A j \in Ids \ {id} : phase'[j] = phase[j] /\ (j \in astray' <=> j \in astray)
  BY <1>1, Ending
<1>3. home[id] \in models /\ (phase[id] # "sent" \/ home[id] = origin[id])
  BY <1>1 DEF Course
<1>4. CASE Finish(id) /\ Known(id) # 0 /\ BuildersShape'
  <2>1. /\ MapsShape' /\ Maps(id)' /\ OthersKept(id)
        /\ \A k \in 1 .. Len(requests'[id]) : requests'[id][k].finished
    BY <1>2, <1>3, <1>4, Finishing
  <2>2. Course(id)'
    BY <1>1, <1>2, <1>3, <2>1, EndedCourse
  <2>3. Shape'
    BY <1>2, <1>4, <2>1 DEF Shape
  <2> QED
    BY <1>2, <2>1, <2>2, <2>3, OneLoad
<1>5. CASE /\ UNCHANGED modelVars
           /\ id \notin astray' => \A k \in 1 .. Len(requests[id]) : requests[id][k].finished
  <2>1. UNCHANGED <<requests, inflightById, inflightByURL, builders, inflightMain>>
    BY <1>5 DEF modelVars
  <2>2. Shape'
    BY <1>1, <1>2, <2>1 DEF Shape, MapsShape, BuildersShape
  <2>3. Maps(id)'
    BY <1>1, <1>2, <2>1 DEF Maps, MapsFit
  <2>4. Course(id)'
    BY <1>1, <1>2, <1>3, <1>5, <2>1, EndedCourse
  <2>5. OthersKept(id)
    BY <2>1, NothingOfOthers
  <2> QED
    BY <1>2, <2>2, <2>3, <2>4, <2>5, OneLoad
<1> QED
  BY <1>4, <1>5

LEMMA LoadingFinishedInv ==
    ASSUME IInv, NEW id \in Ids, LoadingFinished(id)
    PROVE  IInv'
<1>1. /\ phase[id] \in {"answered", "received"} /\ Ended(id, TRUE)
      /\ IF Known(id) = 0 THEN UNCHANGED modelVars ELSE Finish(id) /\ BuilderFinished(id)
  BY DEF LoadingFinished
<1>2. Shape /\ Maps(id) /\ Course(id) /\ requests[id] \in Seq(Requests) /\ home[id] \in Managers
  BY DEF IInv, Shape, MapsShape, BrowserShape
<1>3. home[id] \in models
  BY <1>1, <1>2 DEF Course
<1>4. CASE Known(id) # 0
  BY <1>1, <1>2, <1>4, BuilderFinishing, EndInv
<1>5. CASE Known(id) = 0
  <2>1. ASSUME id \notin astray', NEW k \in 1 .. Len(requests[id]), ~requests[id][k].finished
        PROVE  FALSE
    <3>1. /\ id \notin astray
          /\ home[id] = origin[id] \/ phase[id] = "received" \/ origin[id] \in models
      BY <1>1, <1>2, <2>1, Ending
    <3>2. CASE phase[id] = "received"
      <4>1. requests[id][k].manager = home[id]
        BY <1>2, <2>1, <3>1, <3>2 DEF Course
      <4>2. inflightById[home[id]][id] = k
        BY <1>2, <2>1, <4>1 DEF Maps, MapsFit
      <4>3. Known(id) = k
        BY <4>2 DEF Known, AdoptedById, Adopts
      <4> QED
        BY <1>5, <4>3
    <3>3. CASE phase[id] # "received"
      <4>1. /\ MapsFit(id, home[id], AdoptedRequests(id)[id], AdoptedById(id), AdoptedByURL(id),
                      inflightMain[id])
            /\ Len(AdoptedRequests(id)[id]) = Len(requests[id])
            /\ AdoptedRequests(id)[id][k].finished = requests[id][k].finished
            /\ AdoptedRequests(id)[id][k].manager = home[id]
        BY <1>3, <2>1, <3>1, <3>3, Adoption
      <4>2. AdoptedById(id)[home[id]][id] = k
        BY <1>2, <2>1, <4>1 DEF MapsFit
      <4> QED
        BY <1>5, <4>2 DEF Known
    <3> QED
      BY <3>2, <3>3
  <2> QED
    BY <1>1, <1>5, <2>1, EndInv
<1> QED
  BY <1>4, <1>5

LEMMA LoadingFailedInv ==
    ASSUME IInv, NEW id \in Ids, LoadingFailed(id)
    PROVE  IInv'
<1>1. /\ phase[id] \in {"sent", "answered", "received"} /\ Ended(id, FALSE)
      /\ IF inflightById[home[id]][id] = 0 THEN UNCHANGED modelVars
                                           ELSE Finish(id) /\ BuilderFinished(id)
  BY DEF LoadingFailed
<1>2. Shape /\ Maps(id) /\ Course(id) /\ requests[id] \in Seq(Requests) /\ home[id] \in Managers
  BY DEF IInv, Shape, MapsShape, BrowserShape
<1>3. CASE inflightById[home[id]][id] # 0
  <2>1. Known(id) # 0
    BY <1>3 DEF Known, AdoptedById, Adopts
  <2> QED
    BY <1>1, <1>2, <1>3, <2>1, BuilderFinishing, EndInv
<1>4. CASE inflightById[home[id]][id] = 0
  <2>1. ASSUME id \notin astray', NEW k \in 1 .. Len(requests[id]), ~requests[id][k].finished
        PROVE  FALSE
    <3>1. id \notin astray /\ (home[id] = origin[id] \/ phase[id] = "received")
      BY <1>1, <1>2, <2>1, Ending
    <3>2. requests[id][k].manager = home[id]
      <4>1. requests[id][k].manager \in {origin[id], home[id]}
        BY <1>2 DEF Maps, MapsFit
      <4>2. phase[id] = "received" => requests[id][k].manager = home[id]
        BY <1>2, <2>1, <3>1 DEF Course
      <4> QED
        BY <3>1, <4>1, <4>2
    <3>3. inflightById[home[id]][id] = k
      BY <1>2, <2>1, <3>2 DEF Maps, MapsFit
    <3> QED
      BY <1>4, <3>3
  <2> QED
    BY <1>1, <1>4, <2>1, EndInv
<1> QED
  BY <1>3, <1>4

LEMMA WebSocketClosedInv ==
    ASSUME IInv, NEW id \in Ids, WebSocketClosed(id)
    PROVE  IInv'
<1>1. phase[id] = "open" /\ Finish(id) /\ Ended(id, FALSE) /\ builders' = builders
  BY DEF WebSocketClosed
<1>2. BuildersShape /\ Course(id)
  BY DEF IInv, Shape
<1>3. BuildersShape'
  BY <1>1, <1>2 DEF BuildersShape
<1>4. inflightById[home[id]][id] # 0
  BY <1>1, <1>2 DEF Course
<1>5. Known(id) # 0
  BY <1>4 DEF Known, AdoptedById, Adopts
<1> QED
  BY <1>1, <1>3, <1>5, EndInv

(* The request of the next hop belongs to the load. *)
LEMMA RequestType ==
    ASSUME Shape, NEW id \in Ids, hop[id] < plan[id].hops
    PROVE  /\ Request(id) \in Requests /\ Request(id).manager = home[id] /\ ~Request(id).finished
           /\ ~Renamed(Request(id), id)
           /\ hop[id] + 1 \in 0 .. plan[id].hops
<1>1. UrlOf[id] \in Seq(Urls) /\ MaxHops(id) = Len(UrlOf[id])
  BY NetworkAssumption DEF MaxHops
<1>2. /\ hop[id] \in Nat /\ plan[id].hops \in 1 .. MaxHops(id) /\ home[id] \in Managers
      /\ hop[id] \in 0 .. plan[id].hops
  BY DEF Shape, BrowserShape
<1>3. hop[id] + 1 \in 1 .. Len(UrlOf[id]) /\ hop[id] + 1 \in 0 .. plan[id].hops
  BY <1>1, <1>2
<1>4. UrlOf[id][hop[id] + 1] \in Urls
  BY <1>1, <1>3
<1> QED
  BY <1>2, <1>3, <1>4 DEF Request, Requests, Renamed

(* A request is sent when the load has none in flight but the one that ends with it. *)
LEMMA SentInv ==
    ASSUME IInv, NEW id \in Ids, NEW rs \in Seq(Requests),
           NEW byURL \in [Managers -> [Urls -> Refs]],
           phase[id] \in {"new", "sent"}, home[id] \in models, hop[id] < plan[id].hops,
           \A k \in 1 .. Len(rs) : rs[k].finished /\ rs[k].manager \in {origin[id], home[id]},
           \A m \in Managers : m # home[id] => inflightById[m][id] = 0,
           \A m \in Managers, u \in Urls :
               /\ byURL[m][u].id = id => Stale(id, rs, byURL[m][u].place, u)
               /\ byURL[m][u] = inflightByURL[m][u] \/ byURL[m][u] = NoRequest,
           Sent(id, rs, byURL)
    PROVE  IInv'
<1> DEFINE b == [Builder(home[id], id) EXCEPT !.requests = Append(@, Len(rs) + 1)]
           i == Len(b.requests)
           r == Given(Request(id), b, i)
<1>1. /\ Start(id, r, rs, byURL)
      /\ builders' = [builders EXCEPT ![home[id]][id] = Kept(Synced(b, i), Append(rs, r))]
      /\ phase' = [phase EXCEPT ![id] = "sent"]
      /\ hop' = [hop EXCEPT ![id] = @ + 1]
      /\ UNCHANGED <<models, plan, origin, home, requestInfos, astray>>
  BY DEF Sent, infoVars
<1>2. Shape /\ BuildersShape /\ BrowserShape /\ Course(id) /\ home[id] \in Managers
  BY DEF IInv, Shape, BrowserShape
<1>3. b \in Builders /\ i \in Nat
  <2>1. Builder(home[id], id) \in Builders
    BY <1>2, BuilderTypes
  <2>2. Len(rs) + 1 \in Nat /\ Builder(home[id], id).requests \in Seq(Nat)
    BY <2>1 DEF Builders
  <2>3. Append(Builder(home[id], id).requests, Len(rs) + 1) \in Seq(Nat)
    BY <2>2
  <2>4. b \in Builders
    BY <2>1, <2>3 DEF Builders
  <2>5. b.requests \in Seq(Nat)
    BY <2>4 DEF Builders
  <2> QED
    BY <2>4, <2>5
<1> HIDE DEF b, i
<1>4. /\ Request(id) \in Requests /\ Request(id).manager = home[id] /\ ~Request(id).finished
      /\ ~Renamed(Request(id), id)
      /\ hop[id] + 1 \in 0 .. plan[id].hops
  BY <1>2, RequestType
<1>5. r \in Requests /\ r.manager = home[id] /\ ~r.finished /\ ~Renamed(r, id)
  <2>1. Request(id) \in Requests /\ b \in Builders /\ i \in Nat
    BY <1>3, <1>4
  <2>2. /\ r \in Requests /\ r.manager = Request(id).manager
        /\ r.finished = Request(id).finished /\ r.url = Request(id).url
        /\ r.hop = Request(id).hop
    BY ONLY <2>1, GivenKeeps
  <2> QED
    BY <1>4, <2>2 DEF Renamed
<1> HIDE DEF r
<1>6. /\ MapsShape' /\ Maps(id)' /\ OthersKept(id) /\ requests'[id] = Append(rs, r)
  BY <1>1, <1>5, Starting
<1>7. BuildersShape'
  <2>1. Synced(b, i) \in Builders /\ Append(rs, r) \in Seq(Requests)
    BY <1>2, <1>3, <1>5, BuilderTypes
  <2>2. Kept(Synced(b, i), Append(rs, r)) \in Builders
    BY <1>2, <2>1, BuilderTypes
  <2> QED
    BY <1>1, <1>2, <2>2, BuilderTypes
<1>8. /\ phase'[id] = "sent" /\ hop'[id] = hop[id] + 1
      /\ \A j \in Ids \ {id} : phase'[j] = phase[j] /\ hop'[j] = hop[j]
  BY <1>1, <1>2 DEF BrowserShape
<1>9. BrowserShape'
  <2>1. hop' \in [Ids -> Nat] /\ phase' \in [Ids -> Phases]
    BY <1>1, <1>2 DEF BrowserShape, Phases
  <2>2. \A j \in Ids : hop'[j] \in 0 .. plan[j].hops
    BY <1>2, <1>4, <1>8 DEF BrowserShape
  <2> QED
    BY <1>1, <1>2, <2>1, <2>2 DEF BrowserShape
<1>10. home[id] = origin[id]
  BY <1>2 DEF Course
<1>11. Course(id)'
  <2>1. \A k \in 1 .. Len(requests'[id]) : requests'[id][k].finished \/ ~Renamed(requests'[id][k], id)
    <3>1. /\ requests'[id] = Append(rs, r) /\ \A k \in 1 .. Len(rs) : rs[k].finished
      BY <1>6
    <3>2. \A k \in 1 .. Len(Append(rs, r)) :
              IF k \in 1 .. Len(rs) THEN Append(rs, r)[k] = rs[k] ELSE Append(rs, r)[k] = r
      OBVIOUS
    <3>3. ASSUME NEW k \in 1 .. Len(Append(rs, r))
          PROVE  Append(rs, r)[k].finished \/ ~Renamed(Append(rs, r)[k], id)
      <4>1. CASE k \in 1 .. Len(rs)
        BY <3>1, <3>2, <4>1
      <4>2. CASE k \notin 1 .. Len(rs)
        BY <1>5, <3>2, <4>2
      <4> QED
        BY <4>1, <4>2
    <3> QED
      BY <3>1, <3>3
  <2>2. (\A k \in 1 .. Len(requests[id]) : requests[id][k].finished \/ ~Renamed(requests[id][k], id))'
    BY <2>1 DEF Renamed
  <2> QED
    BY <1>1, <1>8, <1>10, <2>2 DEF Course
<1> QED
  BY <1>1, <1>6, <1>7, <1>8, <1>9, <1>11, OneLoad DEF Shape

(* A load that has no request in flight is known by no id, and by no URL but old ones. *)
LEMMA NotInFlight ==
    ASSUME NEW id \in Ids, Maps(id), requests[id] \in Seq(Requests),
           \A k \in 1 .. Len(requests[id]) : requests[id][k].finished
    PROVE  /\ \A m \in Managers : inflightById[m][id] = 0
           /\ \A m \in Managers, u \in Urls :
                 inflightByURL[m][u].id = id => Stale(id, requests[id], inflightByURL[m][u].place, u)
<1>1. ASSUME NEW m \in Managers, inflightById[m][id] # 0
      PROVE  FALSE
  <2>1. inflightById[m][id] \in 1 .. Len(requests[id])
    BY <1>1 DEF Maps, MapsFit
  <2> QED
    BY <2>1 DEF Maps, MapsFit
<1> QED
  BY <1>1 DEF Maps, MapsFit

LEMMA RequestWillBeSentInv ==
    ASSUME IInv, NEW id \in Ids, RequestWillBeSent(id)
    PROVE  IInv'
<1>1. phase[id] = "new" /\ home[id] \in models /\ Sent(id, requests[id], inflightByURL)
  BY DEF RequestWillBeSent
<1>2. /\ requests[id] \in Seq(Requests) /\ inflightByURL \in [Managers -> [Urls -> Refs]]
      /\ Maps(id) /\ Course(id) /\ plan[id].hops \in 1 .. MaxHops(id)
  BY DEF IInv, Shape, MapsShape, BrowserShape
<1>3. requests[id] = <<>> /\ hop[id] = 0
  BY <1>1, <1>2 DEF Course
<1>4. hop[id] < plan[id].hops /\ \A k \in 1 .. Len(requests[id]) : FALSE
  BY <1>2, <1>3
<1> QED
  BY <1>1, <1>2, <1>4, NotInFlight, SentInv

LEMMA WebSocketCreatedInv ==
    ASSUME IInv, NEW id \in Ids, WebSocketCreated(id)
    PROVE  IInv'
<1>1. /\ phase[id] = "new" /\ home[id] \in models /\ id \notin Documents
      /\ Start(id, Request(id), requests[id], inflightByURL)
      /\ phase' = [phase EXCEPT ![id] = "open"] /\ hop' = [hop EXCEPT ![id] = 1]
      /\ UNCHANGED <<builders, models, plan, origin, home, requestInfos, astray>>
  BY DEF WebSocketCreated, infoVars
<1>2. /\ requests[id] \in Seq(Requests) /\ inflightByURL \in [Managers -> [Urls -> Refs]]
      /\ Shape /\ BuildersShape /\ BrowserShape /\ Maps(id) /\ Course(id) /\ plan[id].hops \in 1 .. MaxHops(id)
  BY DEF IInv, Shape, MapsShape, BrowserShape
<1>3. requests[id] = <<>> /\ hop[id] = 0 /\ home[id] = origin[id]
  BY <1>1, <1>2 DEF Course
<1>4. hop[id] < plan[id].hops /\ \A k \in 1 .. Len(requests[id]) : FALSE
  BY <1>2, <1>3
<1>5. Request(id) \in Requests /\ Request(id).manager = home[id] /\ ~Request(id).finished
  BY <1>2, <1>4, RequestType
<1>6. MapsShape' /\ Maps(id)' /\ OthersKept(id) /\ inflightById'[home[id]][id] # 0
  BY <1>1, <1>2, <1>4, <1>5, NotInFlight, Starting
<1>7. /\ phase'[id] = "open" /\ hop'[id] = 1
      /\ \A j \in Ids \ {id} : phase'[j] = phase[j] /\ hop'[j] = hop[j]
  BY <1>1, <1>2 DEF BrowserShape
<1>8. BrowserShape'
  <2>1. hop' \in [Ids -> Nat] /\ phase' \in [Ids -> Phases]
    BY <1>1, <1>2 DEF BrowserShape, Phases
  <2>2. \A j \in Ids : hop'[j] \in 0 .. plan[j].hops
    <3>1. hop[id] + 1 \in 0 .. plan[id].hops
      BY <1>2, <1>4, RequestType
    <3>2. hop'[id] \in 0 .. plan[id].hops
      BY <1>3, <1>7, <3>1
    <3>3. \A j \in Ids \ {id} : hop[j] \in 0 .. plan[j].hops
      BY <1>2 DEF BrowserShape
    <3> QED
      BY <1>7, <3>2, <3>3
  <2> QED
    BY <1>1, <1>2, <2>1, <2>2 DEF BrowserShape
<1>9. BuildersShape'
  BY <1>1, <1>2 DEF BuildersShape
<1>10. Course(id)'
  BY <1>1, <1>3, <1>6, <1>7 DEF Course
<1> QED
  BY <1>1, <1>6, <1>7, <1>8, <1>9, <1>10, OneLoad DEF Shape

LEMMA RedirectedInv ==
    ASSUME IInv, NEW id \in Ids, Redirected(id)
    PROVE  IInv'
<1> DEFINE n == inflightById[home[id]][id]
           h == home[id]
<1>1. /\ phase[id] = "sent" /\ hop[id] < plan[id].hops
      /\ \/ n = 0 /\ Sent(id, requests[id], inflightByURL)
         \/ n # 0 /\ \E url \in ResponseUrls(id, n) :
               Sent(id, [Updated(id, n, url) EXCEPT ![n].finished = TRUE],
                    [inflightByURL EXCEPT ![h][url] = NoRequest])
  BY DEF Redirected
<1>2. /\ requests[id] \in Seq(Requests) /\ inflightByURL \in [Managers -> [Urls -> Refs]]
      /\ h \in Managers /\ Maps(id) /\ Course(id) /\ NoRequest \in Refs /\ n \in Nat
  BY DEF IInv, Shape, MapsShape, BrowserShape, NoRequest, Refs
<1>3. h = origin[id] /\ h \in models
  BY <1>1, <1>2 DEF Course
<1>4. \A k \in 1 .. Len(requests[id]) : requests[id][k].manager = h
  BY <1>2, <1>3 DEF Maps, MapsFit
<1>5. CASE n = 0
  <2>1. \A k \in 1 .. Len(requests[id]) : requests[id][k].finished
    <3> SUFFICES ASSUME NEW k \in 1 .. Len(requests[id]), ~requests[id][k].finished PROVE FALSE
      OBVIOUS
    <3>1. inflightById[h][id] = k
      BY <1>2, <1>4 DEF Maps, MapsFit
    <3> QED
      BY <1>5, <3>1
  <2>2. /\ \A m \in Managers : inflightById[m][id] = 0
        /\ \A m \in Managers, u \in Urls :
              inflightByURL[m][u].id = id => Stale(id, requests[id], inflightByURL[m][u].place, u)
    BY <1>2, <2>1, NotInFlight
  <2>3. \A k \in 1 .. Len(requests[id]) :
            requests[id][k].finished /\ requests[id][k].manager \in {origin[id], h}
    BY <1>4, <2>1
  <2>4. Sent(id, requests[id], inflightByURL)
    BY <1>1, <1>5
  <2> QED
    BY <1>1, <1>2, <1>3, <2>2, <2>3, <2>4, SentInv
<1>6. CASE n # 0
  <2>1. PICK url \in ResponseUrls(id, n) :
            Sent(id, [Updated(id, n, url) EXCEPT ![n].finished = TRUE],
                 [inflightByURL EXCEPT ![h][url] = NoRequest])
    BY <1>1, <1>6
  <2> DEFINE q == Updated(id, n, url)
             rs == [q EXCEPT ![n].finished = TRUE]
             byURL == [inflightByURL EXCEPT ![h][url] = NoRequest]
  <2>2. /\ n \in 1 .. Len(requests[id]) /\ url \in Urls
        /\ q \in Seq(Requests) /\ Len(q) = Len(requests[id])
        /\ \A k \in 1 .. Len(requests[id]) :
               /\ q[k].manager = requests[id][k].manager
               /\ q[k].finished = requests[id][k].finished
        /\ \A m \in Managers, u \in Urls :
               inflightByURL[m][u].id = id =>
                   \/ m = home[id] /\ u = url /\ inflightByURL[m][u].place = n
                   \/ Stale(id, q, inflightByURL[m][u].place, u)
        /\ ~requests[id][n].finished
    <3>1. phase[id] = "sent" /\ n \in Nat \ {0} /\ n = inflightById[home[id]][id]
      BY <1>1, <1>2, <1>6
    <3>2. IInv /\ url \in ResponseUrls(id, n)
      OBVIOUS
    <3> HIDE DEF n
    <3>3. /\ n \in 1 .. Len(requests[id]) /\ ~requests[id][n].finished /\ url \in Urls
          /\ SameButUrl(requests[id], Updated(id, n, url), n, url)
          /\ KnownAs(id, Updated(id, n, url), n, url)
      BY ONLY id \in Ids, <3>1, <3>2, Renaming
    <3> QED
      BY ONLY <3>3 DEF SameButUrl, KnownAs
  <2>3. \A k \in 1 .. Len(requests[id]) : k # n => requests[id][k].finished
    <3>1. \A k \in 1 .. Len(requests[id]) : ~requests[id][k].finished => k = Len(requests[id])
      BY <1>2 DEF Maps, MapsFit
    <3> HIDE DEF n
    <3>2. n \in 1 .. Len(requests[id]) /\ ~requests[id][n].finished
      BY <2>2
    <3> QED
      BY ONLY <3>1, <3>2
  <2>4. \A m \in Managers : m # h => inflightById[m][id] = 0
    <3> SUFFICES ASSUME NEW m \in Managers, m # h, inflightById[m][id] # 0 PROVE FALSE
      OBVIOUS
    <3>1. inflightById[m][id] \in 1 .. Len(requests[id])
      BY <1>2 DEF Maps, MapsFit
    <3>2. requests[id][inflightById[m][id]].manager = m
      BY <1>2, <3>1 DEF Maps, MapsFit
    <3> QED
      BY <1>4, <3>1, <3>2
  <2> HIDE DEF n, q, h
  <2>5. q[n] \in Requests /\ [q[n] EXCEPT !.finished = TRUE] \in Requests
    <3>1. q[n] \in Requests
      BY <2>2
    <3> QED
      BY <3>1 DEF Requests
  <2>6. /\ rs \in Seq(Requests) /\ Len(rs) = Len(q)
        /\ rs[n] = [q[n] EXCEPT !.finished = TRUE]
        /\ \A k \in 1 .. Len(q) : k # n => rs[k] = q[k]
    <3> DEFINE x == [q[n] EXCEPT !.finished = TRUE]
    <3>1. q \in Seq(Requests) /\ n \in 1 .. Len(q) /\ x \in Requests /\ rs = [q EXCEPT ![n] = x]
      BY <2>2, <2>5
    <3> HIDE DEF x, rs
    <3>2. /\ rs \in Seq(Requests) /\ Len(rs) = Len(q) /\ rs[n] = x
          /\ \A k \in 1 .. Len(q) : k # n => rs[k] = q[k]
      BY ONLY <3>1
    <3> QED
      BY <3>2 DEF x
  <2>7. rs[n].finished /\ rs[n].manager = q[n].manager /\ rs[n].url = q[n].url /\ rs[n].hop = q[n].hop
    BY <2>5, <2>6 DEF Requests
  <2> HIDE DEF rs
  <2>8. \A k \in 1 .. Len(rs) : rs[k].finished /\ rs[k].manager \in {origin[id], home[id]}
    <3>1. ASSUME NEW k \in 1 .. Len(rs)
          PROVE  rs[k].finished /\ rs[k].manager = h
      <4>1. k \in 1 .. Len(requests[id]) /\ q[k].manager = h
        BY <1>4, <2>2, <2>6
      <4>2. CASE k = n
        BY <2>7, <4>1, <4>2
      <4>3. CASE k # n
        BY <2>2, <2>3, <2>6, <4>1, <4>3
      <4> QED
        BY <4>2, <4>3
    <3> QED
      BY <3>1 DEF h
  <2>9. \A k, u : Stale(id, q, k, u) => Stale(id, rs, k, u)
    <3>1. \A k \in 1 .. Len(q) : rs[k].url = q[k].url /\ rs[k].hop = q[k].hop
      BY <2>6, <2>7
    <3>2. Len(q) <= Len(rs)
      BY <2>2, <2>6
    <3> QED
      BY <2>2, <2>6, <3>1, <3>2, StaleStays
  <2>10. /\ byURL \in [Managers -> [Urls -> Refs]]
         /\ \A m \in Managers, u \in Urls :
               byURL[m][u] = IF m = h /\ u = url THEN NoRequest ELSE inflightByURL[m][u]
    BY <1>2, <2>2
  <2> HIDE DEF byURL
  <2>11. \A m \in Managers, u \in Urls :
             /\ byURL[m][u].id = id => Stale(id, rs, byURL[m][u].place, u)
             /\ byURL[m][u] = inflightByURL[m][u] \/ byURL[m][u] = NoRequest
    <3> SUFFICES ASSUME NEW m \in Managers, NEW u \in Urls
                 PROVE  /\ byURL[m][u].id = id => Stale(id, rs, byURL[m][u].place, u)
                        /\ byURL[m][u] = inflightByURL[m][u] \/ byURL[m][u] = NoRequest
      OBVIOUS
    <3>1. CASE m = h /\ u = url
      BY <2>10, <3>1, NetworkAssumption DEF NoRequest
    <3>2. CASE ~(m = h /\ u = url)
      <4>1. byURL[m][u] = inflightByURL[m][u]
        BY <2>10, <3>2
      <4> QED
        BY <2>2, <2>9, <3>2, <4>1 DEF h
    <3> QED
      BY <3>1, <3>2
  <2>12. Sent(id, rs, byURL)
    BY <2>1 DEF rs, byURL, q
  <2>13. home[id] \in models /\ \A m \in Managers : m # home[id] => inflightById[m][id] = 0
    BY <1>3, <2>4 DEF h
  <2> QED
    BY <1>1, <2>6, <2>8, <2>10, <2>11, <2>12, <2>13, SentInv
<1> QED
  BY <1>5, <1>6

(* The reports of the stack change infos only. *)
LEMMA ReportInv ==
    ASSUME IInv, NEW id \in Ids, NEW m \in Managers, NEW b \in Builders, NEW i \in Nat \ {0},
           Sync(m, id, b, i), requestInfos' \in [Ids -> Nat],
           UNCHANGED <<inflightById, inflightByURL, inflightMain, models, plan, origin, loadVars>>
    PROVE  IInv'
<1>1. Shape /\ Maps(id) /\ Course(id) /\ home[id] \in Managers /\ requests \in [Ids -> Seq(Requests)]
  BY DEF IInv, Shape, MapsShape, BrowserShape
<1>2. BuildersShape' /\ InfosOnly(id) /\ requests' \in [Ids -> Seq(Requests)]
  BY <1>1, Syncing
<1>3. /\ UNCHANGED <<inflightById, inflightByURL, inflightMain, models, plan, origin,
                     phase, hop, home, astray>>
  BY DEF loadVars
<1>4. Shape'
  <2>1. MapsShape'
    BY <1>1, <1>2, <1>3 DEF Shape, MapsShape
  <2>2. BrowserShape'
    BY <1>1, <1>3 DEF Shape, BrowserShape
  <2> QED
    BY <1>2, <2>1, <2>2 DEF Shape
<1>5. Maps(id)' /\ Course(id)'
  BY <1>1, <1>2, InfosStay
<1>6. OthersKept(id)
  BY <1>2, <1>3 DEF OthersKept, InfosOnly
<1> QED
  BY <1>3, <1>4, <1>5, <1>6, OneLoad

LEMMA RequestWillBeSentExtraInfoInv ==
    ASSUME IInv, NEW id \in Ids, NEW m \in Managers, RequestWillBeSentExtraInfo(id, m)
    PROVE  IInv'
<1>1. PICK h \in plan[id].reported :
          /\ requestInfos' = [requestInfos EXCEPT ![id] = h]
          /\ LET b == [Builder(m, id) EXCEPT !.hasExtraInfo = TRUE, !.requestInfos = Append(@, h)]
             IN  Sync(m, id, b, Len(b.requestInfos))
  BY DEF RequestWillBeSentExtraInfo
<1>2. BuildersShape /\ h \in Nat /\ requestInfos \in [Ids -> Nat]
  BY DEF IInv, Shape, BrowserShape
<1> DEFINE b == [Builder(m, id) EXCEPT !.hasExtraInfo = TRUE, !.requestInfos = Append(@, h)]
<1>3. Builder(m, id) \in Builders
  BY <1>2, BuilderTypes
<1>4. Builder(m, id).requestInfos \in Seq(Nat)
  BY <1>3 DEF Builders
<1>5. /\ Append(Builder(m, id).requestInfos, h) \in Seq(Nat)
      /\ Len(Append(Builder(m, id).requestInfos, h)) \in Nat \ {0}
  BY <1>2, <1>4
<1>6. b \in Builders /\ b.requestInfos = Append(Builder(m, id).requestInfos, h)
  BY <1>3, <1>5 DEF Builders
<1>7. requestInfos' \in [Ids -> Nat]
  BY <1>1, <1>2
<1>8. Sync(m, id, b, Len(b.requestInfos))
  BY <1>1
<1>9. UNCHANGED <<inflightById, inflightByURL, inflightMain, models, plan, origin, loadVars>>
  BY DEF RequestWillBeSentExtraInfo
<1> HIDE DEF b
<1> QED
  BY <1>5, <1>6, <1>7, <1>8, <1>9, ReportInv

LEMMA ResponseReceivedExtraInfoInv ==
    ASSUME IInv, NEW id \in Ids, NEW m \in Managers, ResponseReceivedExtraInfo(id, m)
    PROVE  IInv'
<1> DEFINE h == requestInfos[id]
           b == [Builder(m, id) EXCEPT !.responseInfos = Append(@, h)]
<1>1. /\ Sync(m, id, b, Len(b.responseInfos)) /\ requestInfos' = requestInfos
      /\ UNCHANGED <<inflightById, inflightByURL, inflightMain, models, plan, origin, loadVars>>
  BY DEF ResponseReceivedExtraInfo
<1>2. BuildersShape /\ h \in Nat /\ requestInfos \in [Ids -> Nat]
  BY DEF IInv, Shape, BrowserShape
<1>3. Builder(m, id) \in Builders
  BY <1>2, BuilderTypes
<1>4. Builder(m, id).responseInfos \in Seq(Nat)
  BY <1>3 DEF Builders
<1> HIDE DEF h
<1>5. /\ Append(Builder(m, id).responseInfos, h) \in Seq(Nat)
      /\ Len(Append(Builder(m, id).responseInfos, h)) \in Nat \ {0}
  BY <1>2, <1>4
<1>6. b \in Builders /\ b.responseInfos = Append(Builder(m, id).responseInfos, h)
  BY <1>3, <1>5 DEF Builders
<1> HIDE DEF b
<1> QED
  BY <1>1, <1>2, <1>5, <1>6, ReportInv

(* When a target goes, no document has its main request there any more. *)
LEMMA ModelRemovedInv ==
    ASSUME IInv, NEW m \in Managers, ModelRemoved(m)
    PROVE  IInv'
<1>1. /\ models' = models \ {m}
      /\ inflightMain' = [id \in Ids |-> IF inflightMain[id] # 0 /\ Adopted(id).manager = m
                                         THEN 0 ELSE inflightMain[id]]
      /\ phase' = [id \in Ids |-> IF home[id] = m /\ phase[id] \notin {"ended", "new"}
                                  THEN "cut" ELSE phase[id]]
      /\ UNCHANGED <<requests, inflightById, inflightByURL, builders, plan, origin, requestInfos,
                     hop, home, astray>>
  BY DEF ModelRemoved, infoVars
<1>2. Shape
  BY DEF IInv
<1>3. Shape'
  <2>1. MapsShape' /\ BuildersShape'
    BY <1>1, <1>2 DEF Shape, MapsShape, BuildersShape
  <2>2. phase' \in [Ids -> Phases]
    BY <1>1, <1>2 DEF Shape, BrowserShape, Phases
  <2>3. BrowserShape'
    BY <1>1, <1>2, <2>2 DEF Shape, BrowserShape
  <2> QED
    BY <2>1, <2>3 DEF Shape
<1>4. ASSUME NEW id \in Ids
      PROVE  Maps(id)' /\ Course(id)'
  <2>1. Maps(id) /\ Course(id)
    BY DEF IInv
  <2>2. /\ inflightMain'[id] = IF inflightMain[id] # 0 /\ requests[id][inflightMain[id]].manager = m
                               THEN 0 ELSE inflightMain[id]
        /\ phase'[id] = IF home[id] = m /\ phase[id] \notin {"ended", "new"} THEN "cut" ELSE phase[id]
    BY <1>1 DEF Adopted
  <2>3. Maps(id)'
    BY <1>1, <2>1, <2>2 DEF Maps, MapsFit
  <2>4. Course(id)'
    BY <1>1, <2>1, <2>2 DEF Course, Renamed
  <2> QED
    BY <2>3, <2>4
<1> QED
  BY <1>3, <1>4 DEF IInv

(* The steps of the log change nothing of the network. *)
LEMMA NoNetworkStep ==
    ASSUME IInv, UNCHANGED networkVars
    PROVE  IInv'
<1>1. UNCHANGED <<requests, inflightById, inflightByURL, builders, inflightMain, models, plan, origin,
                  requestInfos, phase, hop, home, astray>>
  BY DEF networkVars, modelVars, infoVars, loadVars
<1>2. Shape'
  <2>1. Shape
    BY DEF IInv
  <2>2. MapsShape' /\ BuildersShape'
    BY <1>1, <2>1 DEF Shape, MapsShape, BuildersShape
  <2>3. BrowserShape'
    BY <1>1, <2>1 DEF Shape, BrowserShape
  <2> QED
    BY <2>2, <2>3 DEF Shape
<1>3. ASSUME NEW j \in Ids
      PROVE  Maps(j)' /\ Course(j)'
  <2>1. Maps(j) /\ Course(j) /\ home[j] \in Managers
    BY DEF IInv, Shape, BrowserShape
  <2> QED
    BY <1>1, <2>1, OthersStay
<1> QED
  BY <1>2, <1>3 DEF IInv

--------------------------------------------------------------------------------
(* The theorems. *)

(* NetworkManager.js: whatever the loads do, the maps fit the requests in flight, *)
(* and the home of each load says which dispatcher that is.                       *)
THEOREM Invariance == Spec => []IInv
<1>1. ASSUME IInv, Next
      PROVE  IInv'
  <2>1. ASSUME NEW id \in Ids, \/ RequestWillBeSent(id) \/ Redirected(id) \/ WebSocketCreated(id)
                               \/ Missed(id) \/ DataReceived(id) \/ LoadingFinished(id)
                               \/ LoadingFailed(id) \/ WebSocketClosed(id)
        PROVE  IInv'
    BY <1>1, <2>1, RequestWillBeSentInv, RedirectedInv, WebSocketCreatedInv, MissedInv,
       DataReceivedInv, LoadingFinishedInv, LoadingFailedInv, WebSocketClosedInv
  <2>2. ASSUME NEW id \in Ids, NEW m \in Managers,
               \/ ResponseReceived(id, m) \/ RequestWillBeSentExtraInfo(id, m)
               \/ ResponseReceivedExtraInfo(id, m)
        PROVE  IInv'
    BY <1>1, <2>2, ResponseReceivedInv, RequestWillBeSentExtraInfoInv, ResponseReceivedExtraInfoInv
  <2>3. ASSUME NEW m \in Managers, ModelRemoved(m)
        PROVE  IInv'
    BY <1>1, <2>3, ModelRemovedInv
  <2>4. ASSUME \/ \E d \in Documents, preserve \in BOOLEAN : MainFrameNavigated(d, preserve)
               \/ Reset
               \/ \E preserve \in BOOLEAN : SetIsRecording(preserve)
               \/ \E d \in Documents : ErrorPageNavigated(d)
        PROVE  UNCHANGED networkVars
    BY <2>4 DEF MainFrameNavigated, Reset, SetIsRecording, ErrorPageNavigated
  <2>5. ASSUME UNCHANGED networkVars
        PROVE  IInv'
    BY <1>1, <2>5, NoNetworkStep
  <2> QED
    BY <1>1, <2>1, <2>2, <2>3, <2>4, <2>5 DEF Next
<1>2. ASSUME IInv, UNCHANGED vars
      PROVE  IInv'
  BY <1>2, NoNetworkStep DEF vars
<1> QED
  BY <1>1, <1>2, InvInit, PTL DEF Spec

(* NetworkManager.js:_maybeAdoptMainResourceRequest, _finishNetworkRequest,           *)
(* _updateNetworkRequestWithResponse: every request in flight is known by its id to   *)
(* the dispatcher of its manager and to no other, the main requests are in flight,    *)
(* and what is known by a URL is in flight there under that URL, or had it before its *)
(* response came with another.                                                        *)
THEOREM MapsAgree == Spec => []InFlightAgrees
<1>1. IInv => InFlightAgrees
  <2> SUFFICES ASSUME IInv, NEW id \in Ids
               PROVE  /\ \A m \in Managers, k \in Places(id) :
                            inflightById[m][id] = k <=>
                                ~requests[id][k].finished /\ requests[id][k].manager = m
                      /\ inflightMain[id] # 0 => ~Adopted(id).finished /\ Adopted(id).manager \in models
                      /\ \A m \in Managers, u \in Urls :
                            inflightByURL[m][u].id = id =>
                                LET k == inflightByURL[m][u].place
                                    r == requests[id][k]
                                IN  \/ inflightById[m][id] = k /\ r.url = u
                                    \/ Renamed(r, id) /\ u = UrlOf[id][r.hop]
    BY DEF InFlightAgrees
  <2>1. Maps(id) /\ Places(id) = 1 .. Len(requests[id])
    BY DEF IInv, Shape, MapsShape, Places
  <2>2. ASSUME NEW m \in Managers, NEW u \in Urls, inflightByURL[m][u].id = id
        PROVE  \/ /\ inflightById[m][id] = inflightByURL[m][u].place
                  /\ requests[id][inflightByURL[m][u].place].url = u
               \/ /\ Renamed(requests[id][inflightByURL[m][u].place], id)
                  /\ u = UrlOf[id][requests[id][inflightByURL[m][u].place].hop]
    <3>1. \/ /\ inflightByURL[m][u].place = inflightById[m][id] /\ inflightById[m][id] # 0
             /\ requests[id][inflightById[m][id]].url = u
          \/ Stale(id, requests[id], inflightByURL[m][u].place, u)
      BY <2>1, <2>2 DEF Maps, MapsFit
    <3> QED
      BY <3>1 DEF Stale
  <2> QED
    BY <2>1, <2>2 DEF Maps, MapsFit, Adopted
<1> QED
  BY <1>1, Invariance, PTL

(* NetworkManager.js:_finishNetworkRequest: a load that ended leaves no request in     *)
(* flight, unless it ended in a target that does not know its request.                 *)
THEOREM LoadsLeaveNothing == Spec => []LoadedMeansFinished
<1>1. IInv => LoadedMeansFinished
  <2> SUFFICES ASSUME IInv, NEW id \in Ids, phase[id] = "ended", id \notin astray, NEW k \in Places(id)
               PROVE  requests[id][k].finished
    BY DEF LoadedMeansFinished
  <2>1. Course(id) /\ Places(id) = 1 .. Len(requests[id])
    BY DEF IInv, Shape, MapsShape, Places
  <2> QED
    BY <2>1 DEF Course
<1> QED
  BY <1>1, Invariance, PTL

--------------------------------------------------------------------------------
(* What the stack reports: definitions. *)

\* How many hops a load has had, and which hop each request is.
Counted(id) ==
    /\ plan[id] \in Plans(id) /\ hop[id] \in 0 .. plan[id].hops
    /\ Len(requests[id]) <= hop[id]
    /\ \A k \in 1 .. Len(requests[id]) : requests[id][k].hop \in 1 .. hop[id]
    /\ phase[id] \in {"answered", "received"} => hop[id] = plan[id].hops
    /\ id \notin missed =>
          /\ Len(requests[id]) = hop[id]
          /\ \A k \in 1 .. Len(requests[id]) : requests[id][k].hop = k
          /\ phase[id] \in {"sent", "open", "answered", "received"} =>
                 hop[id] # 0 /\ ~requests[id][hop[id]].finished

\* A builder of n requests, for a load of at most h hops.
BuilderFits(b, n, h) ==
    /\ \A i \in 1 .. Len(b.requests) : b.requests[i] \in 1 .. n
    /\ \A i \in 1 .. Len(b.requestInfos) : b.requestInfos[i] \in 0 .. h
    /\ \A i \in 1 .. Len(b.responseInfos) : b.responseInfos[i] \in 0 .. h

\* Infos are of hops that the load has.
Bounded(id) ==
    /\ requestInfos[id] \in {0} \cup plan[id].reported
    /\ responseInfos[id] \in {0} \cup plan[id].reported
    /\ \A k \in 1 .. Len(requests[id]) : /\ requests[id][k].requestInfo \in 0 .. MaxHops(id)
                                         /\ requests[id][k].responseInfo \in 0 .. MaxHops(id)
    /\ \A m \in Managers : BuilderFits(Builder(m, id), Len(requests[id]), MaxHops(id))

\* Of the n infos that came, those of the first p hops have been given away.
Waiting(infos, n, p) == Len(infos) = n /\ \A i \in 1 .. n : infos[i] = IF i <= p THEN 0 ELSE i

\* A builder b that has seen all the requests rs of a load and all that was reported.
Matching(b, rs, asked, answered) ==
    /\ Len(b.requests) = Len(rs) /\ \A i \in 1 .. Len(rs) : b.requests[i] = i
    /\ Waiting(b.requestInfos, asked, Len(rs)) /\ Waiting(b.responseInfos, answered, Len(rs))
    /\ b.hasExtraInfo <=> asked # 0
    /\ \A k \in 1 .. Len(rs) : /\ rs[k].requestInfo = IF k <= asked THEN k ELSE 0
                               /\ rs[k].responseInfo = IF k <= answered THEN k ELSE 0

\* The requests rs of a load, of which one is given what the builder b has at i.
Gave(rs, b, i) == [rs EXCEPT ![b.requests[i]] = Given(@, b, i)]

Home(id) == Builder(home[id], id)

\* The load has the builder that it began with ...
Attended(id) ==
    /\ phase[id] # "open"
    /\ Matching(Home(id), requests[id], requestInfos[id], responseInfos[id])
    /\ phase[id] # "ended" => ~Home(id).finished

\* ... or none, and gets no more requests and infos.
Unattended(id) ==
    /\ phase[id] \in {"open", "ended", "cut"}
    /\ Home(id).requests = <<>>
    /\ \A k \in 1 .. Len(requests[id]) : /\ requests[id][k].requestInfo \in {0, k}
                                         /\ requests[id][k].responseInfo \in {0, k}

Reported(id) ==
    /\ responseInfos[id] <= requestInfos[id] /\ requestInfos[id] <= responseInfos[id] + 1
    /\ Attended(id) \/ Unattended(id)

\* All that there is to tell has been told.
AllTold(id) ==
    /\ builders[home[id]][id] = NoBuilder
    /\ requestInfos[id] = plan[id].hops /\ responseInfos[id] = plan[id].hops
    /\ \A k \in 1 .. Len(requests[id]) :
          requests[id][k].requestInfo # 0 /\ requests[id][k].responseInfo # 0

Reaching(id) ==
    id \in early =>
        /\ phase[id] = "ended" /\ hop[id] = plan[id].hops
        /\ \/ /\ Attended(id) /\ Home(id).finished
              /\ requestInfos[id] # 0 /\ responseInfos[id] < hop[id]
           \/ AllTold(id)

InfosOf(id) == Counted(id) /\ Bounded(id) /\ (Regular(id) => Reported(id) /\ Reaching(id))

InfoInv == \A id \in Ids : InfosOf(id)

--------------------------------------------------------------------------------
(* What the stack reports: helpers. *)

\* The number of a load's hops is a positive number.
LEMMA Hops ==
    ASSUME NEW id \in Ids
    PROVE  MaxHops(id) \in Nat
BY NetworkAssumption DEF MaxHops

\* Clearing an info leaves the others.
LEMMA ClearedInfos ==
    ASSUME NEW infos \in Seq(Nat), NEW i \in Nat \ {0}
    PROVE  /\ Cleared(infos, i) \in Seq(Nat) /\ Len(Cleared(infos, i)) = Len(infos)
           /\ \A j \in 1 .. Len(infos) : Cleared(infos, i)[j] = IF j = i THEN 0 ELSE infos[j]
<1>1. CASE i \in DOMAIN infos
  <2>1. Cleared(infos, i) = [infos EXCEPT ![i] = 0] /\ i \in 1 .. Len(infos)
    BY <1>1 DEF Cleared
  <2> QED
    BY <2>1
<1>2. CASE i \notin DOMAIN infos
  <2>1. Cleared(infos, i) = infos /\ i \notin 1 .. Len(infos)
    BY <1>2 DEF Cleared
  <2> QED
    BY <2>1
<1> QED
  BY <1>1, <1>2

\* The infos that wait, when one more comes, and when one more request does.
LEMMA WaitingMore ==
    ASSUME NEW infos \in Seq(Nat), NEW n \in Nat, NEW p \in Nat, Waiting(infos, n, p)
    PROVE  /\ Append(infos, n + 1) \in Seq(Nat) /\ Len(Append(infos, n + 1)) = n + 1
           /\ Get(Append(infos, n + 1), n + 1) = n + 1
           /\ n + 1 > p => Waiting(Append(infos, n + 1), n + 1, p)
           /\ n + 1 <= p => Waiting(Cleared(Append(infos, n + 1), n + 1), n + 1, p)
           /\ Waiting(Cleared(infos, p + 1), n, p + 1)
           /\ Get(infos, p + 1) = IF p + 1 <= n THEN p + 1 ELSE 0
           /\ \A i \in 1 .. p : Waiting(Cleared(infos, i), n, p) /\ Get(infos, i) = 0
<1> DEFINE more == Append(infos, n + 1)
<1>1. /\ more \in Seq(Nat) /\ Len(more) = n + 1 /\ more[n + 1] = n + 1
      /\ \A i \in 1 .. n : more[i] = infos[i]
  BY DEF Waiting
<1> HIDE DEF more
<1>2. Get(more, n + 1) = n + 1
  BY <1>1 DEF Get
<1>3. n + 1 > p => Waiting(more, n + 1, p)
  BY <1>1 DEF Waiting
<1>4. ASSUME n + 1 <= p
      PROVE  Waiting(Cleared(more, n + 1), n + 1, p)
  <2>1. /\ Len(Cleared(more, n + 1)) = n + 1
        /\ \A j \in 1 .. n + 1 : Cleared(more, n + 1)[j] = IF j = n + 1 THEN 0 ELSE more[j]
    <3>1. n + 1 \in Nat \ {0} /\ more \in Seq(Nat) /\ Len(more) = n + 1
      BY <1>1
    <3>2. /\ Len(Cleared(more, n + 1)) = Len(more)
          /\ \A j \in 1 .. Len(more) : Cleared(more, n + 1)[j] = IF j = n + 1 THEN 0 ELSE more[j]
      BY <3>1, ClearedInfos
    <3> QED
      BY <3>1, <3>2
  <2> QED
    BY <1>1, <1>4, <2>1 DEF Waiting
<1>5. Waiting(Cleared(infos, p + 1), n, p + 1)
  <2>1. /\ Len(Cleared(infos, p + 1)) = n
        /\ \A j \in 1 .. n : Cleared(infos, p + 1)[j] = IF j = p + 1 THEN 0 ELSE infos[j]
    BY ClearedInfos DEF Waiting
  <2> QED
    BY <2>1 DEF Waiting
<1>6. Get(infos, p + 1) = IF p + 1 <= n THEN p + 1 ELSE 0
  BY DEF Get, Waiting
<1>7. ASSUME NEW i \in 1 .. p
      PROVE  Waiting(Cleared(infos, i), n, p) /\ Get(infos, i) = 0
  <2>1. /\ Len(Cleared(infos, i)) = n
        /\ \A j \in 1 .. n : Cleared(infos, i)[j] = IF j = i THEN 0 ELSE infos[j]
    BY ClearedInfos DEF Waiting
  <2> QED
    BY <2>1 DEF Waiting, Get
<1> QED
  BY <1>1, <1>2, <1>3, <1>4, <1>5, <1>6, <1>7 DEF more

\* What a builder gives to a request.
LEMMA GivenInfos ==
    ASSUME NEW r \in Requests, NEW b \in Builders, NEW i \in Nat
    PROVE  /\ Given(r, b, i).hop = r.hop
           /\ Given(r, b, i).requestInfo = IF Get(b.requestInfos, i) # 0 THEN Get(b.requestInfos, i)
                                           ELSE r.requestInfo
           /\ Given(r, b, i).responseInfo = IF Get(b.responseInfos, i) # 0 THEN Get(b.responseInfos, i)
                                            ELSE r.responseInfo
BY DEF Given, Requests

\* A builder that fits keeps fitting when it syncs, and what it gives is bounded.
LEMMA FittingSync ==
    ASSUME NEW b \in Builders, NEW n \in Nat, NEW h \in Nat, BuilderFits(b, n, h), NEW i \in Nat \ {0}
    PROVE  /\ BuilderFits(Synced(b, i), n, h)
           /\ Get(b.requestInfos, i) \in 0 .. h /\ Get(b.responseInfos, i) \in 0 .. h
           /\ Synced(b, i).requests = b.requests
           /\ Synced(b, i).finished = b.finished
           /\ Synced(b, i).hasExtraInfo = b.hasExtraInfo
           /\ Synced(b, i).requestInfos = Cleared(b.requestInfos, i)
           /\ Synced(b, i).responseInfos = Cleared(b.responseInfos, i)
<1>1. ASSUME NEW infos \in Seq(Nat), \A j \in 1 .. Len(infos) : infos[j] \in 0 .. h
      PROVE  /\ \A j \in 1 .. Len(Cleared(infos, i)) : Cleared(infos, i)[j] \in 0 .. h
             /\ Get(infos, i) \in 0 .. h
  <2>1. \A j \in 1 .. Len(infos) : Cleared(infos, i)[j] = IF j = i THEN 0 ELSE infos[j]
    BY ClearedInfos
  <2>2. Len(Cleared(infos, i)) = Len(infos) /\ 0 \in 0 .. h
    BY ClearedInfos
  <2>3. Get(infos, i) \in 0 .. h
    BY <1>1, <2>2 DEF Get
  <2> QED
    BY <1>1, <2>1, <2>2, <2>3
<1>2. b.requestInfos \in Seq(Nat) /\ b.responseInfos \in Seq(Nat)
  BY DEF Builders
<1>3. /\ Synced(b, i).requests = b.requests
      /\ Synced(b, i).finished = b.finished
      /\ Synced(b, i).hasExtraInfo = b.hasExtraInfo
      /\ Synced(b, i).requestInfos = Cleared(b.requestInfos, i)
      /\ Synced(b, i).responseInfos = Cleared(b.responseInfos, i)
  BY DEF Synced, Builders
<1> QED
  BY <1>1, <1>2, <1>3 DEF BuilderFits

\* Of a load, nothing changes that infos depend on ...
SameInfos(id) ==
    /\ Len(requests'[id]) = Len(requests[id])
    /\ \A k \in 1 .. Len(requests[id]) :
          /\ requests'[id][k].hop = requests[id][k].hop
          /\ requests'[id][k].requestInfo = requests[id][k].requestInfo
          /\ requests'[id][k].responseInfo = requests[id][k].responseInfo

\* ... of its builders ...
SameBuilders(id) == \A m \in Managers : builders'[m][id] = builders[m][id]

\* ... and of the browser's part, but for the phase and the home.
SameLoad(id) ==
    /\ plan'[id] = plan[id] /\ origin'[id] = origin[id] /\ hop'[id] = hop[id]
    /\ requestInfos'[id] = requestInfos[id] /\ responseInfos'[id] = responseInfos[id]
    /\ id \in missed => id \in missed'

\* A load of which nothing changes but its phase or its home.
LEMMA Unreported ==
    ASSUME NEW id \in Ids, IInv, IInv', InfosOf(id), SameInfos(id), SameBuilders(id), SameLoad(id),
           phase'[id] \in {"answered", "received"} => hop[id] = plan[id].hops,
           /\ phase'[id] = "open" => phase[id] = "open"
           /\ phase[id] = "ended" => phase'[id] = "ended"
           /\ phase[id] \in {"open", "ended", "cut"} => phase'[id] \in {"open", "ended", "cut"},
           phase'[id] \in {"sent", "open", "answered", "received"} =>
               /\ phase[id] \in {"sent", "open", "answered", "received"}
               /\ \A k \in 1 .. Len(requests[id]) :
                     requests'[id][k].finished = requests[id][k].finished,
           home'[id] = home[id] \/ home'[id] # origin[id],
           id \in early' /\ Regular(id)' => id \in early
    PROVE  InfosOf(id)'
<1>1. /\ requests \in [Ids -> Seq(Requests)] /\ requests' \in [Ids -> Seq(Requests)]
      /\ home[id] \in Managers /\ home'[id] \in Managers
      /\ hop[id] \in Nat
  BY DEF IInv, Shape, MapsShape, BrowserShape
<1>2. /\ Len(requests'[id]) = Len(requests[id]) /\ Len(requests[id]) \in Nat
      /\ \A k \in 1 .. Len(requests[id]) :
          /\ requests'[id][k].hop = requests[id][k].hop
          /\ requests'[id][k].requestInfo = requests[id][k].requestInfo
          /\ requests'[id][k].responseInfo = requests[id][k].responseInfo
  BY <1>1 DEF SameInfos
<1>3. \A m \in Managers : Builder(m, id)' = Builder(m, id)
  BY DEF SameBuilders, Builder
<1>4. Counted(id)'
  <2>1. Counted(id)
    BY DEF InfosOf
  <2>2. ASSUME id \notin missed', phase'[id] \in {"sent", "open", "answered", "received"}
        PROVE  hop[id] # 0 /\ ~requests'[id][hop[id]].finished
    <3>1. hop[id] # 0 /\ ~requests[id][hop[id]].finished /\ Len(requests[id]) = hop[id]
      BY <2>1, <2>2 DEF Counted, SameLoad
    <3> QED
      BY <1>1, <2>2, <3>1
  <2>3. Plans(id)' = Plans(id)
    BY DEF Plans
  <2> QED
    BY <1>2, <2>1, <2>2, <2>3 DEF Counted, SameLoad
<1>5. Bounded(id)'
  <2>1. Bounded(id)
    BY DEF InfosOf
  <2>2. /\ \A k \in 1 .. Len(requests'[id]) : /\ requests'[id][k].requestInfo \in 0 .. MaxHops(id)
                                              /\ requests'[id][k].responseInfo \in 0 .. MaxHops(id)
        /\ \A m \in Managers : BuilderFits(Builder(m, id)', Len(requests'[id]), MaxHops(id))
    BY <1>2, <1>3, <2>1 DEF Bounded
  <2> QED
    BY <2>1, <2>2 DEF Bounded, BuilderFits, SameLoad
<1>6. ASSUME Regular(id)'
      PROVE  Reported(id)' /\ Reaching(id)'
  <2>1. home'[id] = home[id] /\ Regular(id)
    BY <1>6 DEF Regular, SameLoad
  <2>2. Reported(id) /\ Reaching(id)
    BY <2>1 DEF InfosOf
  <2>3. Home(id)' = Home(id) /\ builders'[home'[id]][id] = builders[home[id]][id]
    BY <1>1, <2>1, <1>3 DEF Home, Builder, SameBuilders
  <2>4. Attended(id) => Attended(id)'
    <3> SUFFICES ASSUME Attended(id) PROVE Attended(id)'
      OBVIOUS
    <3>1. Matching(Home(id), requests[id], requestInfos[id], responseInfos[id])
      BY DEF Attended
    <3>2. Matching(Home(id), requests'[id], requestInfos[id], responseInfos[id])
      BY <1>2, <3>1 DEF Matching
    <3>3. Matching(Home(id), requests[id], requestInfos[id], responseInfos[id])'
      BY <2>3, <3>2 DEF Matching, Waiting, SameLoad
    <3> QED
      BY <2>3, <3>3 DEF Attended
  <2>5. Unattended(id) => Unattended(id)'
    BY <1>2, <2>3 DEF Unattended
  <2>6. AllTold(id) => AllTold(id)'
    BY <1>2, <2>3 DEF AllTold, SameLoad
  <2>7. Reported(id)'
    BY <2>2, <2>4, <2>5 DEF Reported, SameLoad
  <2>8. Reaching(id)'
    BY <1>6, <2>2, <2>3, <2>4, <2>6 DEF Reaching, SameLoad
  <2> QED
    BY <2>7, <2>8
<1> QED
  BY <1>4, <1>5, <1>6 DEF InfosOf

\* What a load's dispatchers know as its builders, when one of them changes.
LEMMA BuilderPut ==
    ASSUME BuildersShape, NEW m \in Managers, NEW id \in Ids, NEW b \in Builders,
           builders' = [builders EXCEPT ![m][id] = b]
    PROVE  /\ Builder(m, id)' = IF b = NoBuilder THEN NewBuilder ELSE b
           /\ builders'[m][id] = b
           /\ \A n \in Managers : n # m => Builder(n, id)' = Builder(n, id)
           /\ \A j \in Ids \ {id} : SameBuilders(j)
<1>1. builders'[m][id] = b
  BY DEF BuildersShape
<1>2. \A n \in Managers : n # m => builders'[n][id] = builders[n][id]
  BY DEF BuildersShape
<1>3. \A j \in Ids \ {id}, n \in Managers : builders'[n][j] = builders[n][j]
  BY DEF BuildersShape
<1> QED
  BY <1>1, <1>2, <1>3 DEF Builder, SameBuilders

\* A builder fits more requests as it fits less; a new one always fits.
LEMMA FittingMore ==
    ASSUME NEW b, NEW n \in Nat, NEW h \in Nat
    PROVE  /\ BuilderFits(b, n, h) => BuilderFits(b, n + 1, h)
           /\ BuilderFits(NewBuilder, n, h)
BY DEF BuilderFits, NewBuilder

\* What is kept of a builder that fits.
LEMMA FittingKept ==
    ASSUME NEW b, NEW n \in Nat, NEW h \in Nat, BuilderFits(b, n, h), NEW rs
    PROVE  BuilderFits(IF Kept(b, rs) = NoBuilder THEN NewBuilder ELSE Kept(b, rs), n, h)
BY FittingMore DEF Kept

\* One more request: it is given what has come for it.
LEMMA MatchingMore ==
    ASSUME NEW b \in Builders, NEW rs \in Seq(Requests), NEW asked \in Nat, NEW answered \in Nat,
           Matching(b, rs, asked, answered), NEW q \in Requests, q.requestInfo = 0, q.responseInfo = 0
    PROVE  LET c == [b EXCEPT !.requests = Append(@, Len(rs) + 1)]
               r == Given(q, c, Len(rs) + 1)
           IN  Len(c.requests) = Len(rs) + 1
               /\ Matching(Synced(c, Len(rs) + 1), Append(rs, r), asked, answered)
<1> DEFINE p == Len(rs)
           c == [b EXCEPT !.requests = Append(@, p + 1)]
           r == Given(q, c, p + 1)
<1>1. /\ b.requests \in Seq(Nat) /\ b.requestInfos \in Seq(Nat) /\ b.responseInfos \in Seq(Nat)
      /\ p \in Nat /\ p + 1 \in Nat \ {0}
  BY DEF Builders
<1>2. /\ Append(b.requests, p + 1) \in Seq(Nat) /\ Len(Append(b.requests, p + 1)) = p + 1
      /\ \A i \in 1 .. p + 1 : Append(b.requests, p + 1)[i] = i
  BY <1>1 DEF Matching
<1>3. /\ c \in Builders /\ c.requests = Append(b.requests, p + 1)
      /\ c.requestInfos = b.requestInfos /\ c.responseInfos = b.responseInfos
      /\ c.hasExtraInfo = b.hasExtraInfo
  BY <1>2 DEF Builders
<1>4. /\ Waiting(Cleared(b.requestInfos, p + 1), asked, p + 1)
      /\ Get(b.requestInfos, p + 1) = IF p + 1 <= asked THEN p + 1 ELSE 0
      /\ Waiting(Cleared(b.responseInfos, p + 1), answered, p + 1)
      /\ Get(b.responseInfos, p + 1) = IF p + 1 <= answered THEN p + 1 ELSE 0
  <2>1. Waiting(b.requestInfos, asked, p) /\ Waiting(b.responseInfos, answered, p)
    BY DEF Matching
  <2> HIDE DEF p
  <2> QED
    BY <1>1, <2>1, WaitingMore
<1> HIDE DEF c
<1>5. /\ r.requestInfo = IF p + 1 <= asked THEN p + 1 ELSE 0
      /\ r.responseInfo = IF p + 1 <= answered THEN p + 1 ELSE 0
  BY <1>1, <1>3, <1>4, GivenInfos
<1>6. /\ Synced(c, p + 1).requests = c.requests
      /\ Synced(c, p + 1).hasExtraInfo = c.hasExtraInfo
      /\ Synced(c, p + 1).requestInfos = Cleared(b.requestInfos, p + 1)
      /\ Synced(c, p + 1).responseInfos = Cleared(b.responseInfos, p + 1)
  BY <1>3 DEF Synced, Builders
<1> HIDE DEF r
<1>7. /\ Len(Append(rs, r)) = p + 1
      /\ \A k \in 1 .. p + 1 : Append(rs, r)[k] = IF k = p + 1 THEN r ELSE rs[k]
  OBVIOUS
<1>8. Len(c.requests) = p + 1
  BY <1>2, <1>3
<1>9. \A k \in 1 .. p + 1 : /\ Append(rs, r)[k].requestInfo = IF k <= asked THEN k ELSE 0
                            /\ Append(rs, r)[k].responseInfo = IF k <= answered THEN k ELSE 0
  BY <1>1, <1>5, <1>7 DEF Matching
<1>10. Matching(Synced(c, p + 1), Append(rs, r), asked, answered)
  <2>1. b.hasExtraInfo <=> asked # 0
    BY DEF Matching
  <2> HIDE DEF p
  <2> DEFINE d == Synced(c, p + 1)
             qs == Append(rs, r)
  <2>2. Len(d.requests) = Len(qs) /\ Len(qs) = p + 1 /\ \A k \in 1 .. Len(qs) : d.requests[k] = k
    BY <1>2, <1>3, <1>6, <1>7
  <2>3. Waiting(d.requestInfos, asked, Len(qs)) /\ Waiting(d.responseInfos, answered, Len(qs))
    BY <1>4, <1>6, <2>2
  <2>4. d.hasExtraInfo <=> asked # 0
    BY <1>3, <1>6, <2>1
  <2> HIDE DEF d, qs
  <2>5. \A k \in 1 .. Len(qs) : /\ qs[k].requestInfo = IF k <= asked THEN k ELSE 0
                                /\ qs[k].responseInfo = IF k <= answered THEN k ELSE 0
    BY <1>9, <2>2 DEF qs
  <2>6. Matching(d, qs, asked, answered)
    BY ONLY <2>2, <2>3, <2>4, <2>5 DEF Matching
  <2> QED
    BY <2>6 DEF d, qs
<1> QED
  BY <1>8, <1>10 DEF c, r

\* How many infos came is a number, and none of them is on a hop that the load has not.
LEMMA InfoCounts ==
    ASSUME NEW id \in Ids, IInv, InfosOf(id)
    PROVE  /\ requestInfos[id] \in 0 .. MaxHops(id) /\ responseInfos[id] \in 0 .. MaxHops(id)
           /\ plan[id].reported \subseteq 1 .. plan[id].hops /\ plan[id].hops \in 1 .. MaxHops(id)
           /\ hop[id] \in 0 .. plan[id].hops
<1>1. plan[id] \in Plans(id) /\ hop[id] \in 0 .. plan[id].hops /\ MaxHops(id) \in Nat
  BY Hops DEF InfosOf, Counted
<1>2. plan[id].reported \subseteq 1 .. plan[id].hops /\ plan[id].hops \in 1 .. MaxHops(id)
  BY <1>1 DEF Plans
<1> QED
  BY <1>1, <1>2 DEF InfosOf, Bounded

\* A request is sent, after the hops rs, of which the last may just have been finished.
LEMMA SentInfos ==
    ASSUME IInv, IInv', NEW id \in Ids, InfosOf(id), NEW rs \in Seq(Requests), NEW byURL,
           phase[id] \in {"new", "sent"}, hop[id] < plan[id].hops,
           Len(rs) = Len(requests[id]),
           \A k \in 1 .. Len(rs) : /\ rs[k].hop = requests[id][k].hop
                                   /\ rs[k].requestInfo = requests[id][k].requestInfo
                                   /\ rs[k].responseInfo = requests[id][k].responseInfo,
           Sent(id, rs, byURL)
    PROVE  InfosOf(id)'
<1> DEFINE B == Home(id)
           p == Len(rs)
           b == [B EXCEPT !.requests = Append(@, p + 1)]
           i == Len(b.requests)
           r == Given(Request(id), b, i)
<1>1. /\ Start(id, r, rs, byURL)
      /\ builders' = [builders EXCEPT ![home[id]][id] = Kept(Synced(b, i), Append(rs, r))]
      /\ phase' = [phase EXCEPT ![id] = "sent"]
      /\ hop' = [hop EXCEPT ![id] = @ + 1]
      /\ UNCHANGED <<plan, origin, home, requestInfos, responseInfos, missed, early>>
  BY DEF Sent, infoVars, Home
<1>2. /\ BuildersShape /\ home[id] \in Managers /\ hop \in [Ids -> Nat] /\ phase \in [Ids -> Phases]
      /\ Shape /\ requests \in [Ids -> Seq(Requests)]
  BY DEF IInv, Shape, MapsShape, BrowserShape
<1>3. /\ Request(id) \in Requests /\ ~Request(id).finished /\ Request(id).hop = hop[id] + 1
      /\ Request(id).requestInfo = 0 /\ Request(id).responseInfo = 0
  BY <1>2, RequestType DEF Request
<1>4. /\ requestInfos[id] \in 0 .. MaxHops(id) /\ responseInfos[id] \in 0 .. MaxHops(id)
      /\ plan[id].hops \in 1 .. MaxHops(id) /\ MaxHops(id) \in Nat
      /\ Counted(id) /\ Bounded(id)
  BY InfoCounts, Hops DEF InfosOf
<1>5. B \in Builders /\ p \in Nat
  BY <1>2, BuilderTypes DEF Home
<1>6. BuilderFits(B, p, MaxHops(id))
  BY <1>2, <1>4 DEF Bounded, Home
<1>7. b \in Builders /\ b.requests \in Seq(Nat) /\ i \in Nat \ {0}
      /\ BuilderFits(b, p + 1, MaxHops(id)) /\ b.finished = B.finished
  <2>1. B.requests \in Seq(Nat)
    BY <1>5 DEF Builders
  <2>2. /\ Append(B.requests, p + 1) \in Seq(Nat) /\ Len(Append(B.requests, p + 1)) = Len(B.requests) + 1
        /\ \A j \in 1 .. Len(B.requests) : Append(B.requests, p + 1)[j] = B.requests[j]
        /\ Append(B.requests, p + 1)[Len(B.requests) + 1] = p + 1
    BY <1>5, <2>1
  <2>3. /\ b \in Builders /\ b.requests = Append(B.requests, p + 1)
        /\ b.requestInfos = B.requestInfos /\ b.responseInfos = B.responseInfos
        /\ b.finished = B.finished
    BY <1>5, <2>2 DEF Builders
  <2>4. \A j \in 1 .. Len(b.requests) : b.requests[j] \in 1 .. p + 1
    <3> HIDE DEF B, p, b
    <3> SUFFICES ASSUME NEW j \in 1 .. Len(b.requests) PROVE b.requests[j] \in 1 .. p + 1
      OBVIOUS
    <3>1. CASE j = Len(B.requests) + 1
      BY <1>5, <2>2, <2>3, <3>1
    <3>2. CASE j \in 1 .. Len(B.requests)
      <4>1. B.requests[j] \in 1 .. p
        BY <1>6, <3>2 DEF BuilderFits
      <4> QED
        BY <1>5, <2>2, <2>3, <3>2, <4>1
    <3>3. Len(B.requests) \in Nat /\ Len(b.requests) = Len(B.requests) + 1
      BY <2>1, <2>2, <2>3
    <3> QED
      BY <3>1, <3>2, <3>3
  <2> QED
    BY <1>6, <2>1, <2>2, <2>3, <2>4 DEF BuilderFits
<1> HIDE DEF b, i
<1>8. /\ BuilderFits(Synced(b, i), p + 1, MaxHops(id)) /\ Synced(b, i) \in Builders
      /\ Get(b.requestInfos, i) \in 0 .. MaxHops(id) /\ Get(b.responseInfos, i) \in 0 .. MaxHops(id)
      /\ Synced(b, i).finished = B.finished
  <2>1. /\ BuilderFits(Synced(b, i), p + 1, MaxHops(id))
        /\ Get(b.requestInfos, i) \in 0 .. MaxHops(id) /\ Get(b.responseInfos, i) \in 0 .. MaxHops(id)
        /\ Synced(b, i).finished = b.finished
    <3>1. p + 1 \in Nat
      BY <1>5
    <3> QED
      BY <1>4, <1>7, <3>1, FittingSync
  <2>2. Synced(b, i) \in Builders
    BY <1>2, <1>7, BuilderTypes
  <2> QED
    BY <1>7, <2>1, <2>2
<1>9. /\ r \in Requests /\ ~r.finished /\ r.hop = hop[id] + 1
      /\ r.requestInfo \in 0 .. MaxHops(id) /\ r.responseInfo \in 0 .. MaxHops(id)
  <2>1. /\ r \in Requests /\ r.finished = Request(id).finished
    BY <1>3, <1>7, GivenKeeps
  <2>2. /\ r.hop = Request(id).hop
        /\ r.requestInfo = IF Get(b.requestInfos, i) # 0 THEN Get(b.requestInfos, i) ELSE 0
        /\ r.responseInfo = IF Get(b.responseInfos, i) # 0 THEN Get(b.responseInfos, i) ELSE 0
    BY <1>3, <1>7, GivenInfos
  <2> QED
    BY <1>3, <1>4, <1>8, <2>1, <2>2
<1> HIDE DEF r
<1>10. /\ requests'[id] = Append(rs, r) /\ Len(Append(rs, r)) = p + 1
       /\ \A k \in 1 .. p + 1 : Append(rs, r)[k] = IF k = p + 1 THEN r ELSE rs[k]
       /\ phase'[id] = "sent" /\ hop'[id] = hop[id] + 1
       /\ Append(rs, r) \in Seq(Requests)
  BY <1>1, <1>2, <1>9 DEF Start
<1> DEFINE K == Kept(Synced(b, i), Append(rs, r))
<1>11. /\ Builder(home[id], id)' = IF K = NoBuilder THEN NewBuilder ELSE K
       /\ \A m \in Managers : m # home[id] => Builder(m, id)' = Builder(m, id)
  <2>1. K \in Builders
    BY <1>2, <1>8, <1>10, BuilderTypes
  <2>2. builders' = [builders EXCEPT ![home[id]][id] = K]
    BY <1>1
  <2> HIDE DEF K
  <2>3. PICK m \in Managers : m = home[id]
    BY <1>2
  <2>4. builders' = [builders EXCEPT ![m][id] = K]
    BY <2>2, <2>3
  <2> HIDE DEF K
  <2>5. /\ Builder(m, id)' = IF K = NoBuilder THEN NewBuilder ELSE K
        /\ \A n \in Managers : n # m => Builder(n, id)' = Builder(n, id)
    <3>1. \A c \in Builders : builders' = [builders EXCEPT ![m][id] = c] =>
              /\ Builder(m, id)' = IF c = NoBuilder THEN NewBuilder ELSE c
              /\ \A n \in Managers : n # m => Builder(n, id)' = Builder(n, id)
      <4> SUFFICES ASSUME NEW c \in Builders, builders' = [builders EXCEPT ![m][id] = c]
                   PROVE  /\ Builder(m, id)' = IF c = NoBuilder THEN NewBuilder ELSE c
                          /\ \A n \in Managers : n # m => Builder(n, id)' = Builder(n, id)
        OBVIOUS
      <4>1. BuildersShape
        BY <1>2
      <4> QED
        BY ONLY <4>1, BuilderPut, m \in Managers, id \in Ids, c \in Builders, builders' = [builders EXCEPT ![m][id] = c]
    <3> QED
      BY <2>1, <2>4, <3>1
  <2> QED
    BY <1>1, <2>3, <2>5
<1>12. Counted(id)'
  <2>1. Plans(id)' = Plans(id)
    BY DEF Plans
  <2>2. hop[id] \in Nat /\ hop[id] + 1 \in 0 .. plan[id].hops /\ p = Len(requests[id]) /\ p <= hop[id]
    BY <1>2, <1>4 DEF Counted
  <2>5. \A k \in 1 .. p : rs[k].hop \in 1 .. hop[id] /\ (id \notin missed => rs[k].hop = k)
    BY <1>4, <2>2 DEF Counted
  <2>6. \A k \in 1 .. p : requests'[id][k] = rs[k]
    BY <1>5, <1>10
  <2>7. requests'[id][p + 1] = r
    BY <1>5, <1>10
  <2> HIDE DEF p
  <2>3. ASSUME NEW k \in 1 .. p + 1
        PROVE  requests'[id][k].hop \in 1 .. hop[id] + 1
    <3>1. CASE k = p + 1
      BY <1>9, <2>2, <2>7, <3>1
    <3>2. CASE k \in 1 .. p
      <4>1. requests'[id][k].hop \in 1 .. hop[id]
        BY <2>5, <2>6, <3>2
      <4> QED
        BY <2>2, <4>1
    <3> QED
      BY <1>5, <3>1, <3>2
  <2>4. ASSUME id \notin missed
        PROVE  /\ p + 1 = hop[id] + 1 /\ \A k \in 1 .. p + 1 : requests'[id][k].hop = k
               /\ ~requests'[id][hop[id] + 1].finished
    <3>1. p = hop[id]
      BY <1>4, <2>2, <2>4 DEF Counted
    <3>2. ASSUME NEW k \in 1 .. p + 1
          PROVE  requests'[id][k].hop = k
      <4>1. CASE k = p + 1
        BY <1>9, <2>7, <3>1, <4>1
      <4>2. CASE k \in 1 .. p
        BY <2>4, <2>5, <2>6, <4>2
      <4> QED
        BY <1>5, <4>1, <4>2
    <3>3. ~requests'[id][p + 1].finished
      BY <1>9, <2>7
    <3> QED
      BY <3>1, <3>2, <3>3
  <2>8. /\ plan'[id] \in Plans(id)' /\ hop'[id] = hop[id] + 1 /\ hop'[id] \in 0 .. plan'[id].hops
        /\ Len(requests'[id]) = p + 1 /\ phase'[id] = "sent" /\ missed' = missed
    BY <1>1, <1>2, <1>4, <1>5, <1>10, <2>1, <2>2 DEF Counted
  <2>9. Len(requests'[id]) <= hop'[id]
    BY <1>5, <2>2, <2>8
  <2>10. hop'[id] # 0
    BY <2>2, <2>8
  <2> QED
    BY <2>3, <2>4, <2>8, <2>9, <2>10 DEF Counted
<1>13. Bounded(id)'
  <2>1. \A k \in 1 .. p + 1 : /\ requests'[id][k].requestInfo \in 0 .. MaxHops(id)
                              /\ requests'[id][k].responseInfo \in 0 .. MaxHops(id)
    <3> SUFFICES ASSUME NEW k \in 1 .. p + 1
                 PROVE  /\ requests'[id][k].requestInfo \in 0 .. MaxHops(id)
                        /\ requests'[id][k].responseInfo \in 0 .. MaxHops(id)
      OBVIOUS
    <3>1. CASE k = p + 1
      <4>1. requests'[id][k] = r
        BY <1>5, <1>10, <3>1
      <4> QED
        BY <1>9, <4>1
    <3>2. CASE k \in 1 .. p
      <4>1. requests'[id][k] = rs[k]
        BY <1>5, <1>10, <3>2
      <4>2. /\ rs[k].requestInfo = requests[id][k].requestInfo
            /\ rs[k].responseInfo = requests[id][k].responseInfo
        BY <3>2
      <4>3. k \in 1 .. Len(requests[id])
        BY <3>2
      <4> QED
        BY <1>4, <4>1, <4>2, <4>3 DEF Bounded
    <3> QED
      BY <1>5, <3>1, <3>2
  <2>2. BuilderFits(Builder(home[id], id)', p + 1, MaxHops(id))
    BY <1>4, <1>5, <1>8, <1>11, FittingKept
  <2>3. ASSUME NEW m \in Managers, m # home[id]
        PROVE  BuilderFits(Builder(m, id)', p + 1, MaxHops(id))
    <3>1. BuilderFits(Builder(m, id), p, MaxHops(id))
      BY <1>4 DEF Bounded
    <3> QED
      BY <1>4, <1>5, <1>11, <2>3, <3>1, FittingMore
  <2>4. \A m \in Managers : BuilderFits(Builder(m, id), Len(requests[id]), MaxHops(id))'
    <3>1. \A m \in Managers : BuilderFits(Builder(m, id)', p + 1, MaxHops(id))
      BY <1>1, <2>2, <2>3
    <3> QED
      BY <1>10, <3>1 DEF BuilderFits
  <2> QED
    BY <1>1, <1>4, <1>10, <2>1, <2>4 DEF Bounded
<1>14. ASSUME Regular(id)'
       PROVE  Reported(id)' /\ Reaching(id)'
  <2>1. Regular(id)
    BY <1>1, <1>14 DEF Regular
  <2>2. Reported(id) /\ id \notin early /\ Attended(id)
    BY <2>1, <1>4 DEF InfosOf, Reported, Unattended, Reaching
  <2>3. Matching(B, rs, requestInfos[id], responseInfos[id]) /\ ~B.finished
    <3>1. Matching(B, requests[id], requestInfos[id], responseInfos[id]) /\ ~B.finished
      BY <2>2 DEF Attended
    <3> QED
      BY <3>1 DEF Matching
  <2>4. i = p + 1 /\ Matching(Synced(b, p + 1), Append(rs, r), requestInfos[id], responseInfos[id])
    <3> DEFINE c == [B EXCEPT !.requests = Append(@, p + 1)]
    <3>1. b = c
      BY DEF b
    <3> HIDE DEF c
    <3>2. requestInfos[id] \in Nat /\ responseInfos[id] \in Nat
      BY <1>4
    <3>3. /\ Len(c.requests) = p + 1
          /\ Matching(Synced(c, p + 1), Append(rs, Given(Request(id), c, p + 1)),
                      requestInfos[id], responseInfos[id])
      <4> HIDE DEF B
      <4> QED
        BY <1>3, <1>5, <2>3, <3>2, MatchingMore DEF c
    <3> QED
      BY <3>1, <3>3 DEF i, r
  <2>5. K = Synced(b, i) /\ ~Synced(b, i).finished
    BY <1>8, <2>3 DEF Kept
  <2>6. Synced(b, i) # NoBuilder
    BY <1>5, <1>10, <2>4 DEF Matching, NoBuilder
  <2>7. Home(id)' = Synced(b, i)
    BY <1>1, <1>11, <2>5, <2>6 DEF Home
  <2>8. Matching(Home(id), requests[id], requestInfos[id], responseInfos[id])'
    <3>1. Matching(Home(id)', requests'[id], requestInfos[id], responseInfos[id])
      BY <1>10, <2>4, <2>7
    <3> QED
      BY <1>1, <3>1 DEF Matching, Waiting
  <2>9. Attended(id)'
    BY <1>10, <2>5, <2>7, <2>8 DEF Attended
  <2> QED
    BY <1>1, <2>2, <2>9 DEF Reported, Reaching
<1> QED
  BY <1>12, <1>13, <1>14 DEF InfosOf

\* One more info on a request: the builder keeps it, or gives it to the request.
LEMMA AskedMore ==
    ASSUME NEW b \in Builders, NEW rs \in Seq(Requests), NEW n \in Nat, Matching(b, rs, n, n)
    PROVE  LET c == [b EXCEPT !.hasExtraInfo = TRUE, !.requestInfos = Append(@, n + 1)]
           IN  /\ c \in Builders /\ c.requests = b.requests /\ c.finished = b.finished
               /\ Len(c.requestInfos) = n + 1 /\ c.hasExtraInfo
               /\ n + 1 > Len(rs) => Matching(c, rs, n + 1, n)
               /\ n + 1 <= Len(rs) =>
                     Matching(Synced(c, n + 1), Gave(rs, c, n + 1), n + 1, n)
<1> DEFINE p == Len(rs)
           c == [b EXCEPT !.hasExtraInfo = TRUE, !.requestInfos = Append(@, n + 1)]
           asks == Append(b.requestInfos, n + 1)
<1>1. /\ b.requests \in Seq(Nat) /\ b.requestInfos \in Seq(Nat) /\ b.responseInfos \in Seq(Nat)
      /\ p \in Nat /\ n + 1 \in Nat \ {0}
      /\ Waiting(b.requestInfos, n, p) /\ Waiting(b.responseInfos, n, p)
  BY DEF Builders, Matching
<1> HIDE DEF p
<1>2. /\ asks \in Seq(Nat) /\ Len(asks) = n + 1 /\ Get(asks, n + 1) = n + 1
      /\ n + 1 > p => Waiting(asks, n + 1, p)
      /\ n + 1 <= p => Waiting(Cleared(asks, n + 1), n + 1, p)
  BY <1>1, WaitingMore
<1>3. ASSUME n + 1 <= p
      PROVE  Waiting(Cleared(b.responseInfos, n + 1), n, p) /\ Get(b.responseInfos, n + 1) = 0
  <2>1. n + 1 \in 1 .. p
    BY <1>1, <1>3
  <2>2. b.responseInfos \in Seq(Nat) /\ p \in Nat /\ n \in Nat /\ Waiting(b.responseInfos, n, p)
    BY <1>1
  <2>3. \A i \in 1 .. p : Waiting(Cleared(b.responseInfos, i), n, p) /\ Get(b.responseInfos, i) = 0
    BY ONLY <2>2, WaitingMore
  <2> QED
    BY <2>1, <2>3
<1> HIDE DEF asks
<1>4. /\ c \in Builders /\ c.requests = b.requests /\ c.finished = b.finished /\ c.hasExtraInfo
      /\ c.requestInfos = asks /\ c.responseInfos = b.responseInfos
  BY <1>1, <1>2 DEF Builders, asks
<1> HIDE DEF c
<1>5. ASSUME n + 1 > p
      PROVE  Matching(c, rs, n + 1, n)
  <2>1. \A k \in 1 .. p : (k <= n <=> k <= n + 1)
    BY <1>1, <1>5
  <2> QED
    BY <1>1, <1>2, <1>4, <1>5, <2>1 DEF Matching, p
<1>6. ASSUME n + 1 <= p
      PROVE  Matching(Synced(c, n + 1), Gave(rs, c, n + 1), n + 1, n)
  <2> DEFINE r == Given(rs[n + 1], c, n + 1)
             qs == [rs EXCEPT ![n + 1] = r]
  <2>1. rs[n + 1] \in Requests /\ n + 1 \in 1 .. Len(rs)
    BY <1>1, <1>6 DEF p
  <2>2. /\ r.requestInfo = n + 1 /\ r.responseInfo = rs[n + 1].responseInfo /\ r \in Requests
    <3>1. r \in Requests
      BY <1>1, <1>4, <2>1, GivenKeeps
    <3>2. /\ r.requestInfo = IF Get(c.requestInfos, n + 1) # 0 THEN Get(c.requestInfos, n + 1)
                             ELSE rs[n + 1].requestInfo
          /\ r.responseInfo = IF Get(c.responseInfos, n + 1) # 0 THEN Get(c.responseInfos, n + 1)
                              ELSE rs[n + 1].responseInfo
      BY <1>1, <1>4, <2>1, GivenInfos
    <3> QED
      BY <1>1, <1>2, <1>3, <1>4, <1>6, <3>1, <3>2
  <2> HIDE DEF r
  <2>3. /\ Len(qs) = p /\ \A k \in 1 .. p : qs[k] = IF k = n + 1 THEN r ELSE rs[k]
    BY <2>1, <2>2 DEF p
  <2>4. /\ Synced(c, n + 1).requests = c.requests
        /\ Synced(c, n + 1).hasExtraInfo = c.hasExtraInfo
        /\ Synced(c, n + 1).requestInfos = Cleared(asks, n + 1)
        /\ Synced(c, n + 1).responseInfos = Cleared(b.responseInfos, n + 1)
    BY <1>4 DEF Synced, Builders
  <2>5. \A k \in 1 .. p : /\ rs[k].requestInfo = IF k <= n THEN k ELSE 0
                          /\ rs[k].responseInfo = IF k <= n THEN k ELSE 0
                          /\ b.requests[k] = k /\ Len(b.requests) = p
    BY DEF Matching, p
  <2>6. ASSUME NEW k \in 1 .. p
        PROVE  /\ qs[k].requestInfo = IF k <= n + 1 THEN k ELSE 0
               /\ qs[k].responseInfo = IF k <= n THEN k ELSE 0
    <3>1. CASE k = n + 1
      BY <2>2, <2>3, <2>5, <3>1
    <3>2. CASE k # n + 1
      BY <1>1, <2>3, <2>5, <3>2
    <3> QED
      BY <3>1, <3>2
  <2> HIDE DEF qs
  <2>7. Matching(Synced(c, n + 1), qs, n + 1, n)
    <3> DEFINE s == Synced(c, n + 1)
    <3>1. Len(s.requests) = p /\ \A k \in 1 .. p : s.requests[k] = k
      <4>1. b.requests = s.requests
        BY <1>4, <2>4
      <4>2. Len(b.requests) = p
        BY DEF Matching, p
      <4> QED
        BY <2>5, <4>1, <4>2
    <3>2. Waiting(s.requestInfos, n + 1, p) /\ Waiting(s.responseInfos, n, p)
      BY <1>2, <1>3, <1>6, <2>4
    <3>3. s.hasExtraInfo /\ n + 1 # 0
      BY <1>1, <1>4, <2>4
    <3> HIDE DEF s
    <3>4. Matching(s, qs, n + 1, n)
      BY <2>3, <2>6, <3>1, <3>2, <3>3 DEF Matching
    <3> QED
      BY <3>4 DEF s
  <2>8. c.requests[n + 1] = n + 1
    BY <1>1, <1>4, <1>6, <2>5
  <2>9. Gave(rs, c, n + 1) = qs
    BY <2>8 DEF Gave, qs, r
  <2> QED
    BY <2>7, <2>9
<1> QED
  BY <1>2, <1>4, <1>5, <1>6 DEF c, p

\* One more info on a response, the same way.
LEMMA AnsweredMore ==
    ASSUME NEW b \in Builders, NEW rs \in Seq(Requests), NEW n \in Nat, Matching(b, rs, n + 1, n)
    PROVE  LET c == [b EXCEPT !.responseInfos = Append(@, n + 1)]
           IN  /\ c \in Builders /\ c.requests = b.requests /\ c.finished = b.finished
               /\ Len(c.responseInfos) = n + 1 /\ c.hasExtraInfo
               /\ n + 1 > Len(rs) => Matching(c, rs, n + 1, n + 1)
               /\ n + 1 <= Len(rs) =>
                     Matching(Synced(c, n + 1), Gave(rs, c, n + 1), n + 1, n + 1)
<1> DEFINE p == Len(rs)
           c == [b EXCEPT !.responseInfos = Append(@, n + 1)]
           tells == Append(b.responseInfos, n + 1)
<1>1. /\ b.requests \in Seq(Nat) /\ b.requestInfos \in Seq(Nat) /\ b.responseInfos \in Seq(Nat)
      /\ p \in Nat /\ n + 1 \in Nat \ {0}
      /\ Waiting(b.requestInfos, n + 1, p) /\ Waiting(b.responseInfos, n, p) /\ b.hasExtraInfo
  BY DEF Builders, Matching
<1> HIDE DEF p
<1>2. /\ tells \in Seq(Nat) /\ Len(tells) = n + 1 /\ Get(tells, n + 1) = n + 1
      /\ n + 1 > p => Waiting(tells, n + 1, p)
      /\ n + 1 <= p => Waiting(Cleared(tells, n + 1), n + 1, p)
  BY <1>1, WaitingMore
<1>3. ASSUME n + 1 <= p
      PROVE  Waiting(Cleared(b.requestInfos, n + 1), n + 1, p) /\ Get(b.requestInfos, n + 1) = 0
  <2>1. n + 1 \in 1 .. p
    BY <1>1, <1>3
  <2>2. PICK q \in Nat : q = n + 1
    BY <1>1
  <2>3. Waiting(b.requestInfos, q, p)
    BY <1>1, <2>2
  <2>4. \A i \in 1 .. p : Waiting(Cleared(b.requestInfos, i), q, p) /\ Get(b.requestInfos, i) = 0
    BY <1>1, <2>3, WaitingMore
  <2> QED
    BY <2>1, <2>2, <2>4
<1> HIDE DEF tells
<1>4. /\ c \in Builders /\ c.requests = b.requests /\ c.finished = b.finished /\ c.hasExtraInfo
      /\ c.requestInfos = b.requestInfos /\ c.responseInfos = tells
  BY <1>1, <1>2 DEF Builders, tells
<1> HIDE DEF c
<1>5. ASSUME n + 1 > p
      PROVE  Matching(c, rs, n + 1, n + 1)
  <2>1. \A k \in 1 .. p : (k <= n <=> k <= n + 1)
    BY <1>1, <1>5
  <2> QED
    BY <1>1, <1>2, <1>4, <1>5, <2>1 DEF Matching, p
<1>6. ASSUME n + 1 <= p
      PROVE  Matching(Synced(c, n + 1), Gave(rs, c, n + 1), n + 1, n + 1)
  <2> DEFINE r == Given(rs[n + 1], c, n + 1)
             qs == [rs EXCEPT ![n + 1] = r]
  <2>1. rs[n + 1] \in Requests /\ n + 1 \in 1 .. Len(rs)
    BY <1>1, <1>6 DEF p
  <2>2. /\ r.responseInfo = n + 1 /\ r.requestInfo = rs[n + 1].requestInfo /\ r \in Requests
    <3>1. r \in Requests
      BY <1>1, <1>4, <2>1, GivenKeeps
    <3>2. /\ r.requestInfo = IF Get(c.requestInfos, n + 1) # 0 THEN Get(c.requestInfos, n + 1)
                             ELSE rs[n + 1].requestInfo
          /\ r.responseInfo = IF Get(c.responseInfos, n + 1) # 0 THEN Get(c.responseInfos, n + 1)
                              ELSE rs[n + 1].responseInfo
      BY <1>1, <1>4, <2>1, GivenInfos
    <3> QED
      BY <1>1, <1>2, <1>3, <1>4, <1>6, <3>1, <3>2
  <2> HIDE DEF r
  <2>3. /\ Len(qs) = p /\ \A k \in 1 .. p : qs[k] = IF k = n + 1 THEN r ELSE rs[k]
    BY <2>1, <2>2 DEF p
  <2>4. /\ Synced(c, n + 1).requests = c.requests
        /\ Synced(c, n + 1).hasExtraInfo = c.hasExtraInfo
        /\ Synced(c, n + 1).responseInfos = Cleared(tells, n + 1)
        /\ Synced(c, n + 1).requestInfos = Cleared(b.requestInfos, n + 1)
    BY <1>4 DEF Synced, Builders
  <2>5. \A k \in 1 .. p : /\ rs[k].requestInfo = IF k <= n + 1 THEN k ELSE 0
                          /\ rs[k].responseInfo = IF k <= n THEN k ELSE 0
                          /\ b.requests[k] = k /\ Len(b.requests) = p
    BY DEF Matching, p
  <2>6. ASSUME NEW k \in 1 .. p
        PROVE  /\ qs[k].requestInfo = IF k <= n + 1 THEN k ELSE 0
               /\ qs[k].responseInfo = IF k <= n + 1 THEN k ELSE 0
    <3>1. CASE k = n + 1
      BY <2>2, <2>3, <2>5, <3>1
    <3>2. CASE k # n + 1
      BY <1>1, <2>3, <2>5, <3>2
    <3> QED
      BY <3>1, <3>2
  <2> HIDE DEF qs
  <2>7. Matching(Synced(c, n + 1), qs, n + 1, n + 1)
    <3> DEFINE s == Synced(c, n + 1)
    <3>1. Len(s.requests) = p /\ \A k \in 1 .. p : s.requests[k] = k
      <4>1. b.requests = s.requests
        BY <1>4, <2>4
      <4>2. Len(b.requests) = p
        BY DEF Matching, p
      <4> QED
        BY <2>5, <4>1, <4>2
    <3>2. Waiting(s.requestInfos, n + 1, p) /\ Waiting(s.responseInfos, n + 1, p)
      BY <1>2, <1>3, <1>6, <2>4
    <3>3. s.hasExtraInfo /\ n + 1 # 0
      BY <1>1, <1>4, <2>4
    <3> HIDE DEF s
    <3>4. Matching(s, qs, n + 1, n + 1)
      BY <2>3, <2>6, <3>1, <3>2, <3>3 DEF Matching
    <3> QED
      BY <3>4 DEF s
  <2>8. c.requests[n + 1] = n + 1
    BY <1>1, <1>4, <1>6, <2>5
  <2>9. Gave(rs, c, n + 1) = qs
    BY <2>8 DEF Gave, qs, r
  <2> QED
    BY <2>7, <2>9
<1> QED
  BY <1>2, <1>4, <1>5, <1>6 DEF c, p

\* What _sync changes.
LEMMA SyncChanges ==
    ASSUME Shape, NEW m \in Managers, NEW id \in Ids, NEW c \in Builders, NEW i \in Nat \ {0},
           Sync(m, id, c, i)
    PROVE  /\ \A j \in Ids \ {id} : SameBuilders(j) /\ requests'[j] = requests[j]
           /\ \A n \in Managers : n # m => Builder(n, id)' = Builder(n, id)
           /\ Builder(m, id)' = IF builders'[m][id] = NoBuilder THEN NewBuilder ELSE builders'[m][id]
           /\ i > Len(c.requests) => requests'[id] = requests[id] /\ builders'[m][id] = c
           /\ i <= Len(c.requests) =>
                 /\ requests'[id] = Gave(requests[id], c, i)
                 /\ builders'[m][id] = Kept(Synced(c, i), Gave(requests[id], c, i))
<1>1. /\ requests \in [Ids -> Seq(Requests)] /\ BuildersShape
      /\ c.requests \in Seq(Nat) /\ Len(c.requests) \in Nat
  BY DEF Shape, MapsShape, Builders
<1> DEFINE rs == [requests[id] EXCEPT ![c.requests[i]] = Given(@, c, i)]
<1>2. \E b \in Builders : builders' = [builders EXCEPT ![m][id] = b]
  <2>1. CASE i > Len(c.requests)
    BY <2>1 DEF Sync
  <2>2. CASE ~(i > Len(c.requests))
    <3>1. builders' = [builders EXCEPT ![m][id] = Kept(Synced(c, i), rs)]
      BY <2>2 DEF Sync
    <3>2. Synced(c, i) \in Builders
      BY <1>1, BuilderTypes
    <3>3. Kept(Synced(c, i), rs) \in Builders
      BY <3>2 DEF Kept, NoBuilder, Builders
    <3> QED
      BY <3>1, <3>3
  <2> QED
    BY <2>1, <2>2
<1>3. PICK b \in Builders : builders' = [builders EXCEPT ![m][id] = b]
  BY <1>2
<1>4. /\ Builder(m, id)' = IF b = NoBuilder THEN NewBuilder ELSE b
      /\ builders'[m][id] = b
      /\ \A n \in Managers : n # m => Builder(n, id)' = Builder(n, id)
      /\ \A j \in Ids \ {id} : SameBuilders(j)
  BY ONLY <1>1, <1>3, BuilderPut, m \in Managers, id \in Ids, b \in Builders
<1>5. ASSUME i > Len(c.requests)
      PROVE  requests' = requests /\ builders'[m][id] = c
  BY <1>1, <1>5 DEF Sync, BuildersShape
<1>6. ASSUME i <= Len(c.requests)
      PROVE  requests' = [requests EXCEPT ![id] = rs] /\ builders'[m][id] = Kept(Synced(c, i), rs)
  BY <1>1, <1>6 DEF Sync, BuildersShape
<1> HIDE DEF rs
<1>7. /\ \A j \in Ids \ {id} : requests'[j] = requests[j]
      /\ i <= Len(c.requests) => requests'[id] = rs
  BY <1>1, <1>5, <1>6
<1> QED
  BY <1>4, <1>5, <1>6, <1>7 DEF rs, Gave

\* An info for a load: it stays counted and bounded.
LEMMA SyncCounted ==
    ASSUME IInv, IInv', NEW m \in Managers, NEW id \in Ids, NEW c \in Builders, NEW i \in Nat \ {0},
           Sync(m, id, c, i), Counted(id), Bounded(id),
           BuilderFits(c, Len(requests[id]), MaxHops(id)),
           plan' = plan, hop' = hop, phase' = phase, missed' = missed,
           requestInfos'[id] \in {0} \cup plan[id].reported,
           responseInfos'[id] \in {0} \cup plan[id].reported
    PROVE  Counted(id)' /\ Bounded(id)'
<1> DEFINE p == Len(requests[id])
           k == c.requests[i]
           h == MaxHops(id)
<1>1. /\ Shape /\ requests \in [Ids -> Seq(Requests)] /\ c.requests \in Seq(Nat)
      /\ requests[id] \in Seq(Requests) /\ p \in Nat /\ h \in Nat
  BY Hops DEF IInv, Shape, MapsShape, Builders
<1>2. /\ \A n \in Managers : n # m => Builder(n, id)' = Builder(n, id)
      /\ Builder(m, id)' = IF builders'[m][id] = NoBuilder THEN NewBuilder ELSE builders'[m][id]
      /\ i > Len(c.requests) => requests'[id] = requests[id] /\ builders'[m][id] = c
      /\ i <= Len(c.requests) =>
            /\ requests'[id] = Gave(requests[id], c, i)
            /\ builders'[m][id] = Kept(Synced(c, i), Gave(requests[id], c, i))
  BY <1>1, SyncChanges
<1>3. /\ Len(requests'[id]) = p
      /\ \A l \in 1 .. p : /\ requests'[id][l].hop = requests[id][l].hop
                           /\ requests'[id][l].finished = requests[id][l].finished
                           /\ requests'[id][l].requestInfo \in 0 .. h
                           /\ requests'[id][l].responseInfo \in 0 .. h
      /\ BuilderFits(Builder(m, id)', p, h)
  <2>1. CASE i > Len(c.requests)
    <3>1. requests'[id] = requests[id] /\ builders'[m][id] = c
      BY <1>2, <2>1
    <3>2. BuilderFits(Builder(m, id)', p, h)
      <4>1. BuilderFits(c, p, h) /\ BuilderFits(NewBuilder, p, h)
        BY <1>1, FittingMore
      <4>2. Builder(m, id)' = NewBuilder \/ Builder(m, id)' = c
        BY <1>2, <3>1
      <4> HIDE DEF p, h
      <4> QED
        BY <4>1, <4>2
    <3> QED
      BY <3>1, <3>2 DEF Bounded
  <2>2. CASE i <= Len(c.requests)
    <3> DEFINE r == Given(requests[id][k], c, i)
               rs == Gave(requests[id], c, i)
    <3>1. k \in 1 .. p
      BY <1>1, <2>2 DEF BuilderFits
    <3>2. requests[id][k] \in Requests
      BY <1>1, <3>1
    <3>3. /\ BuilderFits(Synced(c, i), p, h)
          /\ Get(c.requestInfos, i) \in 0 .. h /\ Get(c.responseInfos, i) \in 0 .. h
      BY <1>1, FittingSync
    <3>4. /\ r.hop = requests[id][k].hop /\ r.finished = requests[id][k].finished /\ r \in Requests
      <4>1. PICK s \in Requests : s = requests[id][k]
        BY <3>2
      <4>2. /\ Given(s, c, i).hop = s.hop /\ Given(s, c, i).finished = s.finished
            /\ Given(s, c, i) \in Requests
        BY ONLY s \in Requests, c \in Builders, i \in Nat, GivenKeeps
      <4> QED
        BY <4>1, <4>2
    <3>5. r.requestInfo \in 0 .. h /\ r.responseInfo \in 0 .. h
      <4>1. /\ r.requestInfo = IF Get(c.requestInfos, i) # 0 THEN Get(c.requestInfos, i)
                               ELSE requests[id][k].requestInfo
            /\ r.responseInfo = IF Get(c.responseInfos, i) # 0 THEN Get(c.responseInfos, i)
                                ELSE requests[id][k].responseInfo
        BY <3>2, GivenInfos
      <4>2. requests[id][k].requestInfo \in 0 .. h /\ requests[id][k].responseInfo \in 0 .. h
        BY <3>1 DEF Bounded
      <4> QED
        BY <3>3, <4>1, <4>2
    <3>6. requests'[id] = rs /\ builders'[m][id] = Kept(Synced(c, i), rs)
      BY <1>2, <2>2
    <3>7. BuilderFits(Builder(m, id)', p, h)
      BY <1>1, <1>2, <3>3, <3>6, FittingKept
    <3>8. rs = [requests[id] EXCEPT ![k] = r]
      BY DEF Gave
    <3> HIDE DEF k, r, rs
    <3>9. /\ Len(rs) = p /\ \A l \in 1 .. p : rs[l] = IF l = k THEN r ELSE requests[id][l]
      BY <1>1, <3>1, <3>4, <3>8
    <3> QED
      BY <3>1, <3>4, <3>5, <3>6, <3>7, <3>9 DEF Bounded
  <2> QED
    BY <1>1, <2>1, <2>2
<1>4. Counted(id)'
  <2>1. Plans(id)' = Plans(id)
    BY DEF Plans
  <2>2. ASSUME id \notin missed, phase[id] \in {"sent", "open", "answered", "received"}
        PROVE  hop[id] # 0 /\ ~requests'[id][hop[id]].finished
    <3>1. hop[id] # 0 /\ ~requests[id][hop[id]].finished /\ p = hop[id]
      BY <2>2 DEF Counted
    <3> QED
      BY <1>1, <1>3, <3>1
  <2> QED
    BY <1>3, <2>1, <2>2 DEF Counted
<1>5. Bounded(id)'
  <2>1. ASSUME NEW n \in Managers
        PROVE  BuilderFits(Builder(n, id)', p, h)
    <3>1. CASE n = m
      BY <1>3, <3>1
    <3>2. CASE n # m
      <4>1. BuilderFits(Builder(n, id), p, h)
        BY DEF Bounded
      <4> QED
        BY <1>2, <3>2, <4>1
    <3> QED
      BY <3>1, <3>2
  <2>2. \A n \in Managers : BuilderFits(Builder(n, id), Len(requests[id]), MaxHops(id))'
    BY <1>3, <2>1 DEF BuilderFits
  <2> QED
    BY <1>3, <2>2 DEF Bounded
<1> QED
  BY <1>4, <1>5

\* An info reaches the one dispatcher of a regular load.
LEMMA ReportReaches ==
    ASSUME NEW id \in Ids, Counted(id), Reported(id), Reaching(id), id \notin missed,
           NEW c \in Builders, NEW i \in Nat \ {0}, requests[id] \in Seq(Requests),
           c.requests = Home(id).requests, c.finished = Home(id).finished,
           Attended(id) => c.hasExtraInfo,
           plan' = plan, hop' = hop, phase' = phase, missed' = missed, home' = home, early' = early,
           Home(id)' = IF builders'[home[id]][id] = NoBuilder THEN NewBuilder
                       ELSE builders'[home[id]][id],
           i > Len(c.requests) => requests'[id] = requests[id] /\ builders'[home[id]][id] = c,
           i <= Len(c.requests) =>
               /\ requests'[id] = Gave(requests[id], c, i)
               /\ builders'[home[id]][id] = Kept(Synced(c, i), Gave(requests[id], c, i)),
           NEW asked \in Nat, NEW answered \in Nat,
           requestInfos'[id] = asked, responseInfos'[id] = answered,
           answered <= asked, asked <= answered + 1, asked <= plan[id].hops,
           answered = asked \/ answered = responseInfos[id],
           ~AllTold(id), Attended(id) => i = asked,
           Attended(id) /\ i > Len(requests[id]) => Matching(c, requests[id], asked, answered),
           Attended(id) /\ i <= Len(requests[id]) =>
               Matching(Synced(c, i), Gave(requests[id], c, i), asked, answered)
    PROVE  Reported(id)' /\ Reaching(id)'
<1> DEFINE p == Len(requests[id])
           h == plan[id].hops
           b == builders'[home[id]][id]
<1>1. /\ p \in Nat /\ h \in Nat \ {0} /\ p = hop[id] /\ hop[id] \in Nat
      /\ c.requests \in Seq(Nat) /\ Len(c.requests) \in Nat
  <2>1. plan[id].hops \in 1 .. MaxHops(id) /\ hop[id] \in 0 .. plan[id].hops
    BY DEF Counted, Plans
  <2>2. MaxHops(id) \in Nat
    BY Hops
  <2>3. p \in Nat /\ h \in Nat \ {0} /\ hop[id] \in Nat
    BY <2>1, <2>2
  <2>4. p = hop[id]
    BY DEF Counted
  <2>5. c.requests \in Seq(Nat)
    BY DEF Builders
  <2> QED
    BY <2>3, <2>4, <2>5
<1>2. Home(id)' = IF b = NoBuilder THEN NewBuilder ELSE b
  OBVIOUS
<1>3. /\ c # NoBuilder
      /\ Attended(id) => Synced(c, i) # NoBuilder /\ Synced(c, i).hasExtraInfo
      /\ Synced(c, i).requests = c.requests /\ Synced(c, i).finished = c.finished
  <2>1. /\ Synced(c, i).hasExtraInfo = c.hasExtraInfo
        /\ Synced(c, i).requests = c.requests /\ Synced(c, i).finished = c.finished
    BY DEF Synced, Builders
  <2>2. ~NoBuilder.hasExtraInfo /\ NoBuilder.requests # <<>>
    BY DEF NoBuilder
  <2>3. ~Attended(id) => c.requests = <<>>
    BY DEF Reported, Unattended
  <2> QED
    BY <2>1, <2>2, <2>3
<1>4. id \in early => phase[id] = "ended" /\ hop[id] = h /\ Attended(id) /\ Home(id).finished
                      /\ responseInfos[id] < hop[id]
  BY DEF Reaching
<1>5. CASE Attended(id)
  <2>1. Len(c.requests) = p /\ phase[id] # "open" /\ (phase[id] # "ended" => ~c.finished)
    BY <1>5 DEF Attended, Matching
  <2>2. CASE i > p
    <3>1. requests'[id] = requests[id] /\ Home(id)' = c
      BY <1>2, <1>3, <2>1, <2>2
    <3>2. Matching(c, requests[id], asked, answered)
      BY <1>5, <2>2
    <3>3. Matching(Home(id), requests[id], requestInfos[id], responseInfos[id])'
      BY <3>1, <3>2
    <3>4. Attended(id)'
      BY <2>1, <3>1, <3>3 DEF Attended
    <3>5. id \in early => FALSE
      BY <1>1, <1>4, <2>2
    <3> QED
      BY <3>4, <3>5 DEF Reported, Reaching
  <2>3. CASE i <= p
    <3> DEFINE s == Synced(c, i)
               qs == Gave(requests[id], c, i)
    <3>1. requests'[id] = qs /\ b = Kept(s, qs)
      BY <2>1, <2>3
    <3>2. Matching(s, qs, asked, answered)
      BY <1>5, <2>3
    <3>3. Len(s.requests) = p /\ Len(qs) = p /\ s.requests[p] = p /\ p # 0
      <4>1. p \in 1 .. p
        BY <1>1, <2>3
      <4> QED
        BY <1>3, <2>1, <3>2, <4>1 DEF Matching
    <3>4. qs[p].responseInfo = IF p <= answered THEN p ELSE 0
      <4>1. p \in 1 .. Len(qs)
        BY <1>1, <2>3, <3>3
      <4> QED
        BY <3>2, <4>1 DEF Matching
    <3>5. b = IF s.finished /\ qs[p].responseInfo # 0 THEN NoBuilder ELSE s
      <4>1. s.requests # <<>> /\ s.hasExtraInfo
        BY <1>1, <1>3, <1>5, <3>3
      <4> QED
        BY <3>1, <3>3, <4>1 DEF Kept
    <3> HIDE DEF s, qs, b
    <3>6. CASE s.finished /\ p <= answered
      <4>1. b = NoBuilder /\ Home(id)' = NewBuilder /\ phase[id] = "ended"
        BY <1>1, <1>2, <1>3, <1>5, <2>1, <3>3, <3>4, <3>5, <3>6 DEF s
      <4>2. ASSUME NEW k \in 1 .. p
            PROVE  /\ qs[k].requestInfo = k /\ qs[k].responseInfo = k
        <5>1. k <= asked /\ k <= answered /\ k \in 1 .. Len(qs)
          BY <1>1, <3>3, <3>6
        <5> QED
          BY <3>2, <5>1 DEF Matching
      <4>3. Unattended(id)'
        BY <3>1, <3>3, <4>1, <4>2 DEF Unattended, NewBuilder
      <4>4. ASSUME id \in early
            PROVE  AllTold(id)'
        <5>1. asked = h /\ answered = h
          BY <1>1, <1>4, <3>6, <4>4
        <5>2. \A k \in 1 .. Len(requests'[id]) :
                  requests'[id][k].requestInfo # 0 /\ requests'[id][k].responseInfo # 0
          BY <1>1, <3>1, <3>3, <4>2
        <5> QED
          BY <4>1, <5>1, <5>2 DEF AllTold, b
      <4> QED
        BY <1>4, <4>3, <4>4 DEF Reported, Reaching
    <3>7. CASE ~(s.finished /\ p <= answered)
      <4>1. Home(id)' = s
        BY <1>2, <1>3, <1>5, <3>4, <3>5, <3>7 DEF s
      <4>2. Matching(Home(id), requests[id], requestInfos[id], responseInfos[id])'
        BY <3>1, <3>2, <4>1
      <4>3. Attended(id)'
        BY <1>3, <2>1, <4>1, <4>2 DEF Attended, s
      <4>4. id \in early => Home(id)'.finished /\ answered < hop[id]
        BY <1>1, <1>3, <1>4, <3>7, <4>1 DEF s
      <4> QED
        BY <1>4, <4>3, <4>4 DEF Reported, Reaching
    <3> QED
      BY <3>6, <3>7
  <2> QED
    BY <1>1, <2>2, <2>3
<1>6. CASE ~Attended(id)
  <2>1. Unattended(id) /\ Len(c.requests) = 0 /\ c.requests = <<>>
    BY <1>6 DEF Reported, Unattended
  <2>2. requests'[id] = requests[id] /\ Home(id)' = c
    BY <1>2, <1>3, <2>1
  <2>3. Unattended(id)'
    BY <2>1, <2>2 DEF Unattended
  <2> QED
    BY <1>4, <1>6, <2>3 DEF Reported, Reaching
<1> QED
  BY <1>5, <1>6

--------------------------------------------------------------------------------
(* What the stack reports: the steps. *)

\* A load of which nothing at all changes.
SameCourse(j) ==
    /\ requests'[j] = requests[j] /\ SameBuilders(j) /\ SameLoad(j)
    /\ home'[j] = home[j] /\ phase'[j] = phase[j]
    /\ j \in early' => j \in early

LEMMA SameReported ==
    ASSUME IInv, IInv', NEW j \in Ids, InfosOf(j), SameCourse(j)
    PROVE  InfosOf(j)'
<1>1. /\ requests'[j] = requests[j] /\ SameBuilders(j) /\ SameLoad(j)
      /\ home'[j] = home[j] /\ phase'[j] = phase[j]
      /\ j \in early' => j \in early
  BY DEF SameCourse
<1>2. Counted(j)
  BY DEF InfosOf
<1>3. SameInfos(j)
  BY <1>1 DEF SameInfos
<1>4. phase'[j] \in {"answered", "received"} => hop[j] = plan[j].hops
  BY <1>1, <1>2 DEF Counted
<1> QED
  BY <1>1, <1>3, <1>4, Unreported

\* A step of one load that leaves the others alone.
LEMMA OneReported ==
    ASSUME IInv, IInv', InfoInv, NEW id \in Ids, InfosOf(id)',
           \A j \in Ids \ {id} : SameCourse(j)
    PROVE  InfoInv'
<1>1. ASSUME NEW j \in Ids \ {id}
      PROVE  InfosOf(j)'
  BY SameReported DEF InfoInv
<1> QED
  BY <1>1 DEF InfoInv

\* A report on a request.
LEMMA RequestWillBeSentExtraInfoTold ==
    ASSUME IInv, IInv', InfoInv, NEW id \in Ids, NEW m \in Managers, RequestWillBeSentExtraInfo(id, m)
    PROVE  InfoInv'
<1>1. PICK g \in plan[id].reported :
          /\ NextReport(id, g) /\ requestInfos' = [requestInfos EXCEPT ![id] = g]
          /\ LET b == [Builder(m, id) EXCEPT !.hasExtraInfo = TRUE, !.requestInfos = Append(@, g)]
             IN  Sync(m, id, b, Len(b.requestInfos))
  BY DEF RequestWillBeSentExtraInfo
<1>2. /\ m \in {origin[id], home[id]} /\ requestInfos[id] = responseInfos[id]
      /\ UNCHANGED <<plan, origin, responseInfos, phase, hop, home, missed, early>>
  BY DEF RequestWillBeSentExtraInfo, loadVars
<1>3. /\ Shape /\ BuildersShape /\ requestInfos \in [Ids -> Nat] /\ home[id] \in Managers
      /\ requests \in [Ids -> Seq(Requests)] /\ requests[id] \in Seq(Requests)
  BY DEF IInv, Shape, MapsShape, BrowserShape
<1>4. /\ InfosOf(id) /\ Counted(id) /\ Bounded(id) /\ MaxHops(id) \in Nat
      /\ plan[id].hops \in 1 .. MaxHops(id) /\ g \in 1 .. plan[id].hops
      /\ requestInfos[id] \in 0 .. MaxHops(id)
  BY InfoCounts, Hops DEF InfoInv, InfosOf
<1> DEFINE B == Builder(m, id)
           c == [B EXCEPT !.hasExtraInfo = TRUE, !.requestInfos = Append(@, g)]
           i == Len(c.requestInfos)
<1>5. B \in Builders /\ BuilderFits(B, Len(requests[id]), MaxHops(id))
  BY <1>3, <1>4, BuilderTypes DEF Bounded
<1>6. /\ c \in Builders /\ i \in Nat \ {0} /\ c.requests = B.requests /\ c.finished = B.finished
      /\ c.hasExtraInfo /\ BuilderFits(c, Len(requests[id]), MaxHops(id))
  <2> HIDE DEF B
  <2>1. B.requestInfos \in Seq(Nat) /\ g \in Nat /\ g \in 0 .. MaxHops(id)
    BY <1>4, <1>5 DEF Builders
  <2>2. /\ Append(B.requestInfos, g) \in Seq(Nat)
        /\ Len(Append(B.requestInfos, g)) = Len(B.requestInfos) + 1
        /\ \A j \in 1 .. Len(B.requestInfos) : Append(B.requestInfos, g)[j] = B.requestInfos[j]
        /\ Append(B.requestInfos, g)[Len(B.requestInfos) + 1] = g
    BY <2>1
  <2>3. /\ c \in Builders /\ c.requestInfos = Append(B.requestInfos, g)
        /\ c.requests = B.requests /\ c.finished = B.finished /\ c.hasExtraInfo
        /\ c.responseInfos = B.responseInfos
    BY <1>5, <2>2 DEF Builders
  <2>4. \A j \in 1 .. Len(c.requestInfos) : c.requestInfos[j] \in 0 .. MaxHops(id)
    BY <1>5, <2>1, <2>2, <2>3 DEF BuilderFits
  <2> QED
    BY <1>5, <2>1, <2>2, <2>3, <2>4 DEF BuilderFits
<1>7. Sync(m, id, c, i)
  BY <1>1
<1> HIDE DEF c, i, B
<1>8. requestInfos'[id] = g /\ \A j \in Ids \ {id} : requestInfos'[j] = requestInfos[j]
  BY <1>1, <1>3
<1>9. /\ \A j \in Ids \ {id} : SameBuilders(j) /\ requests'[j] = requests[j]
      /\ Builder(m, id)' = IF builders'[m][id] = NoBuilder THEN NewBuilder ELSE builders'[m][id]
      /\ i > Len(c.requests) => requests'[id] = requests[id] /\ builders'[m][id] = c
      /\ i <= Len(c.requests) =>
            /\ requests'[id] = Gave(requests[id], c, i)
            /\ builders'[m][id] = Kept(Synced(c, i), Gave(requests[id], c, i))
  BY <1>3, <1>6, <1>7, SyncChanges
<1>10. Counted(id)' /\ Bounded(id)'
  <2>1. requestInfos'[id] \in {0} \cup plan[id].reported /\ responseInfos'[id] \in {0} \cup plan[id].reported
    BY <1>2, <1>4, <1>8 DEF Bounded
  <2> QED
    BY <1>2, <1>4, <1>6, <1>7, <2>1, SyncCounted
<1>11. ASSUME Regular(id)'
       PROVE  Reported(id)' /\ Reaching(id)'
  <2> DEFINE n == requestInfos[id]
  <2>1. Regular(id) /\ m = home[id] /\ id \notin missed
    BY <1>2, <1>11 DEF Regular
  <2>2. Reported(id) /\ Reaching(id)
    BY <1>4, <2>1 DEF InfosOf
  <2>3. g = n + 1 /\ n \in Nat
    <3>1. PICK l \in 0 .. plan[id].hops : plan[id].reported = 1 .. l
      BY <2>1 DEF Regular
    <3>2. n < g /\ n + 1 \in plan[id].reported
      BY <1>1, <1>4, <3>1 DEF NextReport
    <3>3. n + 1 <= n \/ g <= n + 1
      BY <1>1, <3>2 DEF NextReport
    <3> QED
      BY <1>4, <3>2, <3>3
  <2>4. ASSUME Attended(id)
        PROVE  /\ i = n + 1
               /\ i > Len(requests[id]) => Matching(c, requests[id], n + 1, n)
               /\ i <= Len(requests[id]) => Matching(Synced(c, i), Gave(requests[id], c, i), n + 1, n)
    <3>1. Matching(B, requests[id], n, n)
      BY <1>2, <2>1, <2>4 DEF Attended, Home, B
    <3>2. c = [B EXCEPT !.hasExtraInfo = TRUE, !.requestInfos = Append(@, n + 1)]
      BY <2>3 DEF c
    <3> HIDE DEF n
    <3>3. /\ Len(c.requestInfos) = n + 1
          /\ n + 1 > Len(requests[id]) => Matching(c, requests[id], n + 1, n)
          /\ n + 1 <= Len(requests[id]) =>
                Matching(Synced(c, n + 1), Gave(requests[id], c, n + 1), n + 1, n)
      BY <1>3, <1>5, <2>3, <3>1, <3>2, AskedMore
    <3> QED
      BY <3>3 DEF i
  <2>5. ~AllTold(id) /\ responseInfos'[id] = n
    BY <1>1, <1>2, <1>4, <2>3 DEF AllTold
  <2>6. /\ Home(id) = B
        /\ Home(id)' = IF builders'[home[id]][id] = NoBuilder THEN NewBuilder
                       ELSE builders'[home[id]][id]
    BY <1>2, <1>9, <2>1 DEF Home, B
  <2> HIDE DEF n
  <2>7. PICK asked \in Nat : asked = n + 1
    BY <2>3
  <2>8. PICK answered \in Nat : answered = n
    BY <2>3
  <2>9. /\ requestInfos'[id] = asked /\ responseInfos'[id] = answered
        /\ answered <= asked /\ asked <= answered + 1 /\ asked <= plan[id].hops
        /\ answered = asked \/ answered = responseInfos[id]
        /\ Attended(id) => i = asked
        /\ Attended(id) /\ i > Len(requests[id]) => Matching(c, requests[id], asked, answered)
        /\ Attended(id) /\ i <= Len(requests[id]) =>
               Matching(Synced(c, i), Gave(requests[id], c, i), asked, answered)
    BY <1>2, <1>4, <1>8, <2>3, <2>4, <2>5, <2>7, <2>8 DEF n
  <2>10. /\ c.requests = Home(id).requests /\ c.finished = Home(id).finished
         /\ i > Len(c.requests) => requests'[id] = requests[id] /\ builders'[home[id]][id] = c
         /\ i <= Len(c.requests) =>
               /\ requests'[id] = Gave(requests[id], c, i)
               /\ builders'[home[id]][id] = Kept(Synced(c, i), Gave(requests[id], c, i))
    BY <1>6, <1>9, <2>1, <2>6
  <2>11. /\ plan' = plan /\ hop' = hop /\ phase' = phase /\ missed' = missed /\ home' = home
         /\ early' = early
    BY <1>2
  <2>12. /\ Counted(id) /\ Reported(id) /\ Reaching(id) /\ id \notin missed /\ ~AllTold(id)
         /\ c \in Builders /\ i \in Nat \ {0} /\ requests[id] \in Seq(Requests)
         /\ Attended(id) => c.hasExtraInfo
    BY <1>3, <1>4, <1>6, <2>1, <2>2, <2>5
  <2>13. Home(id)' = IF builders'[home[id]][id] = NoBuilder THEN NewBuilder
                     ELSE builders'[home[id]][id]
    BY <2>6
  <2> QED
    BY ONLY <2>9, <2>10, <2>11, <2>12, <2>13, id \in Ids, asked \in Nat, answered \in Nat, ReportReaches
<1>12. \A j \in Ids \ {id} : SameCourse(j)
  BY <1>2, <1>8, <1>9 DEF SameCourse, SameLoad
<1>13. InfosOf(id)'
  BY <1>10, <1>11 DEF InfosOf
<1> QED
  BY <1>12, <1>13, OneReported

\* A report on a response.
LEMMA ResponseReceivedExtraInfoTold ==
    ASSUME IInv, IInv', InfoInv, responseInfos \in [Ids -> Nat], NEW id \in Ids, NEW m \in Managers,
           ResponseReceivedExtraInfo(id, m)
    PROVE  InfoInv'
<1>1. PICK g \in Nat :
          /\ g = requestInfos[id] /\ responseInfos' = [responseInfos EXCEPT ![id] = g]
          /\ LET b == [Builder(m, id) EXCEPT !.responseInfos = Append(@, g)]
             IN  Sync(m, id, b, Len(b.responseInfos))
  <2>1. requestInfos[id] \in Nat
    BY DEF IInv, Shape, BrowserShape
  <2> QED
    BY <2>1 DEF ResponseReceivedExtraInfo
<1>2. /\ m \in {origin[id], home[id]} /\ responseInfos[id] # requestInfos[id]
      /\ UNCHANGED <<plan, origin, requestInfos, phase, hop, home, missed, early>>
  BY DEF ResponseReceivedExtraInfo, loadVars
<1>3. /\ Shape /\ BuildersShape /\ home[id] \in Managers
      /\ requests \in [Ids -> Seq(Requests)] /\ requests[id] \in Seq(Requests)
  BY DEF IInv, Shape, MapsShape, BrowserShape
<1>4. /\ InfosOf(id) /\ Counted(id) /\ Bounded(id) /\ MaxHops(id) \in Nat
      /\ plan[id].hops \in 1 .. MaxHops(id) /\ g \in {0} \cup plan[id].reported
      /\ g \in 0 .. MaxHops(id) /\ g <= plan[id].hops
      /\ responseInfos[id] \in 0 .. MaxHops(id)
  BY <1>1, InfoCounts, Hops DEF InfoInv, InfosOf, Bounded
<1> DEFINE B == Builder(m, id)
           c == [B EXCEPT !.responseInfos = Append(@, g)]
           i == Len(c.responseInfos)
<1>5. B \in Builders /\ BuilderFits(B, Len(requests[id]), MaxHops(id))
  BY <1>3, <1>4, BuilderTypes DEF Bounded
<1>6. /\ c \in Builders /\ i \in Nat \ {0} /\ c.requests = B.requests /\ c.finished = B.finished
      /\ c.hasExtraInfo = B.hasExtraInfo /\ BuilderFits(c, Len(requests[id]), MaxHops(id))
  <2> HIDE DEF B
  <2>1. B.responseInfos \in Seq(Nat) /\ g \in Nat /\ g \in 0 .. MaxHops(id)
    BY <1>4, <1>5 DEF Builders
  <2>2. /\ Append(B.responseInfos, g) \in Seq(Nat)
        /\ Len(Append(B.responseInfos, g)) = Len(B.responseInfos) + 1
        /\ \A j \in 1 .. Len(B.responseInfos) : Append(B.responseInfos, g)[j] = B.responseInfos[j]
        /\ Append(B.responseInfos, g)[Len(B.responseInfos) + 1] = g
    BY <2>1
  <2>3. /\ c \in Builders /\ c.responseInfos = Append(B.responseInfos, g)
        /\ c.requests = B.requests /\ c.finished = B.finished /\ c.hasExtraInfo = B.hasExtraInfo
        /\ c.requestInfos = B.requestInfos
    BY <1>5, <2>2 DEF Builders
  <2>4. \A j \in 1 .. Len(c.responseInfos) : c.responseInfos[j] \in 0 .. MaxHops(id)
    BY <1>5, <2>1, <2>2, <2>3 DEF BuilderFits
  <2> QED
    BY <1>5, <2>1, <2>2, <2>3, <2>4 DEF BuilderFits
<1>7. Sync(m, id, c, i)
  BY <1>1
<1> HIDE DEF c, i, B
<1>8. responseInfos'[id] = g /\ \A j \in Ids \ {id} : responseInfos'[j] = responseInfos[j]
  BY <1>1
<1>9. /\ \A j \in Ids \ {id} : SameBuilders(j) /\ requests'[j] = requests[j]
      /\ Builder(m, id)' = IF builders'[m][id] = NoBuilder THEN NewBuilder ELSE builders'[m][id]
      /\ i > Len(c.requests) => requests'[id] = requests[id] /\ builders'[m][id] = c
      /\ i <= Len(c.requests) =>
            /\ requests'[id] = Gave(requests[id], c, i)
            /\ builders'[m][id] = Kept(Synced(c, i), Gave(requests[id], c, i))
  BY <1>3, <1>6, <1>7, SyncChanges
<1>10. Counted(id)' /\ Bounded(id)'
  <2>1. requestInfos'[id] \in {0} \cup plan[id].reported /\ responseInfos'[id] \in {0} \cup plan[id].reported
    BY <1>1, <1>2, <1>4, <1>8 DEF Bounded
  <2> QED
    BY <1>2, <1>4, <1>6, <1>7, <2>1, SyncCounted
<1>11. ASSUME Regular(id)'
       PROVE  Reported(id)' /\ Reaching(id)'
  <2> DEFINE n == responseInfos[id]
  <2>1. Regular(id) /\ m = home[id] /\ id \notin missed
    BY <1>2, <1>11 DEF Regular
  <2>2. Reported(id) /\ Reaching(id)
    BY <1>4, <2>1 DEF InfosOf
  <2>3. g = n + 1 /\ n \in Nat /\ requestInfos[id] = n + 1
    BY <1>1, <1>2, <1>4, <2>2 DEF Reported
  <2>4. ASSUME Attended(id)
        PROVE  /\ i = n + 1
               /\ i > Len(requests[id]) => Matching(c, requests[id], n + 1, n + 1)
               /\ i <= Len(requests[id]) => Matching(Synced(c, i), Gave(requests[id], c, i), n + 1, n + 1)
    <3>1. Matching(B, requests[id], n + 1, n)
      BY <2>1, <2>3, <2>4 DEF Attended, Home, B
    <3>2. c = [B EXCEPT !.responseInfos = Append(@, n + 1)]
      BY <2>3 DEF c
    <3> HIDE DEF n
    <3>3. /\ Len(c.responseInfos) = n + 1
          /\ n + 1 > Len(requests[id]) => Matching(c, requests[id], n + 1, n + 1)
          /\ n + 1 <= Len(requests[id]) =>
                Matching(Synced(c, n + 1), Gave(requests[id], c, n + 1), n + 1, n + 1)
      BY <1>3, <1>5, <2>3, <3>1, <3>2, AnsweredMore
    <3> QED
      BY <3>3 DEF i
  <2>5. ~AllTold(id)
    BY <1>2 DEF AllTold
  <2>6. /\ Home(id) = B
        /\ Home(id)' = IF builders'[home[id]][id] = NoBuilder THEN NewBuilder
                       ELSE builders'[home[id]][id]
    BY <1>2, <1>9, <2>1 DEF Home, B
  <2> HIDE DEF n
  <2>7. PICK asked \in Nat : asked = n + 1
    BY <2>3
  <2>8. /\ requestInfos'[id] = asked /\ responseInfos'[id] = asked
        /\ asked <= asked /\ asked <= asked + 1 /\ asked <= plan[id].hops
        /\ Attended(id) => i = asked
        /\ Attended(id) /\ i > Len(requests[id]) => Matching(c, requests[id], asked, asked)
        /\ Attended(id) /\ i <= Len(requests[id]) =>
               Matching(Synced(c, i), Gave(requests[id], c, i), asked, asked)
    BY <1>2, <1>4, <1>8, <2>3, <2>4, <2>7
  <2>9. /\ c.requests = Home(id).requests /\ c.finished = Home(id).finished
        /\ i > Len(c.requests) => requests'[id] = requests[id] /\ builders'[home[id]][id] = c
        /\ i <= Len(c.requests) =>
              /\ requests'[id] = Gave(requests[id], c, i)
              /\ builders'[home[id]][id] = Kept(Synced(c, i), Gave(requests[id], c, i))
    BY <1>6, <1>9, <2>1, <2>6
  <2>10. /\ plan' = plan /\ hop' = hop /\ phase' = phase /\ missed' = missed /\ home' = home
         /\ early' = early
    BY <1>2
  <2>11. Attended(id) => c.hasExtraInfo
    BY <1>6, <2>3, <2>6 DEF Attended, Matching
  <2> QED
    BY <1>3, <1>4, <1>6, <2>1, <2>2, <2>5, <2>6, <2>8, <2>9, <2>10, <2>11, ReportReaches
<1>12. \A j \in Ids \ {id} : SameCourse(j)
  BY <1>2, <1>8, <1>9 DEF SameCourse, SameLoad
<1>13. InfosOf(id)'
  BY <1>10, <1>11 DEF InfosOf
<1> QED
  BY <1>12, <1>13, OneReported

\* A request that is sent is nothing to the other loads.
LEMMA SentAlone ==
    ASSUME IInv, NEW id \in Ids, NEW rs, NEW byURL, Sent(id, rs, byURL)
    PROVE  \A j \in Ids \ {id} : SameCourse(j)
<1> DEFINE b == [Builder(home[id], id) EXCEPT !.requests = Append(@, Len(rs) + 1)]
           r == Given(Request(id), b, Len(b.requests))
           K == Kept(Synced(b, Len(b.requests)), Append(rs, r))
<1>1. /\ requests' = [requests EXCEPT ![id] = Append(rs, r)]
      /\ builders' = [builders EXCEPT ![home[id]][id] = K]
      /\ phase' = [phase EXCEPT ![id] = "sent"]
      /\ hop' = [hop EXCEPT ![id] = @ + 1]
      /\ UNCHANGED <<plan, origin, home, requestInfos, responseInfos, missed, early>>
  BY DEF Sent, Start, infoVars
<1> HIDE DEF b, r, K
<1>2. /\ builders \in [Managers -> [Ids -> Builders]] /\ home[id] \in Managers
      /\ hop \in [Ids -> Nat] /\ phase \in [Ids -> Phases] /\ requests \in [Ids -> Seq(Requests)]
  BY DEF IInv, Shape, MapsShape, BuildersShape, BrowserShape
<1>3. ASSUME NEW j \in Ids \ {id}
      PROVE  SameCourse(j)
  <2>1. \A m \in Managers : builders'[m][j] = builders[m][j]
    BY <1>1, <1>2
  <2>2. requests'[j] = requests[j] /\ hop'[j] = hop[j] /\ phase'[j] = phase[j]
    BY <1>1, <1>2
  <2> QED
    BY <1>1, <2>1, <2>2 DEF SameCourse, SameBuilders, SameLoad
<1> QED
  BY <1>3

\* The first request of a load.
LEMMA RequestWillBeSentTold ==
    ASSUME IInv, IInv', InfoInv, NEW id \in Ids, RequestWillBeSent(id)
    PROVE  InfoInv'
<1>1. phase[id] = "new" /\ Sent(id, requests[id], inflightByURL)
  BY DEF RequestWillBeSent
<1>2. requests[id] \in Seq(Requests) /\ InfosOf(id) /\ hop[id] < plan[id].hops
  <2>1. Course(id) /\ plan[id].hops \in 1 .. MaxHops(id) /\ requests[id] \in Seq(Requests)
    BY DEF IInv, Shape, MapsShape, BrowserShape
  <2>2. hop[id] = 0
    BY <1>1, <2>1 DEF Course
  <2> QED
    BY <2>1, <2>2 DEF InfoInv
<1>3. InfosOf(id)'
  BY <1>1, <1>2, SentInfos
<1> QED
  BY <1>1, <1>3, SentAlone, OneReported

\* The request of the next hop, when that of the hop before has been finished.
LEMMA RedirectedTold ==
    ASSUME IInv, IInv', InfoInv, NEW id \in Ids, Redirected(id)
    PROVE  InfoInv'
<1> DEFINE k == inflightById[home[id]][id]
<1>1. /\ phase[id] = "sent" /\ hop[id] < plan[id].hops
      /\ \/ k = 0 /\ Sent(id, requests[id], inflightByURL)
         \/ k # 0 /\ \E url \in ResponseUrls(id, k) :
               Sent(id, [Updated(id, k, url) EXCEPT ![k].finished = TRUE],
                    [inflightByURL EXCEPT ![home[id]][url] = NoRequest])
  BY DEF Redirected
<1>2. /\ requests[id] \in Seq(Requests) /\ InfosOf(id) /\ k \in 0 .. Len(requests[id])
  BY DEF IInv, Shape, MapsShape, BrowserShape, InfoInv, Maps, MapsFit
<1>3. CASE k = 0
  <2>1. Sent(id, requests[id], inflightByURL)
    BY <1>1, <1>3
  <2>2. /\ requests[id] \in Seq(Requests) /\ phase[id] \in {"new", "sent"} /\ hop[id] < plan[id].hops
        /\ InfosOf(id) /\ Sent(id, requests[id], inflightByURL)
    BY <1>1, <1>2, <2>1
  <2> HIDE DEF k
  <2>3. InfosOf(id)'
    <3>1. PICK ts \in Seq(Requests) : ts = requests[id]
      BY <2>2
    <3>2. PICK us : us = inflightByURL
      OBVIOUS
    <3>3. /\ Len(ts) = Len(requests[id])
          /\ \A l \in 1 .. Len(ts) : /\ ts[l].hop = requests[id][l].hop
                                     /\ ts[l].requestInfo = requests[id][l].requestInfo
                                     /\ ts[l].responseInfo = requests[id][l].responseInfo
          /\ Sent(id, ts, us)
      BY <2>2, <3>1, <3>2
    <3> QED
      BY ONLY IInv, IInv', id \in Ids, ts \in Seq(Requests), <2>2, <3>3, SentInfos
  <2>4. \A j \in Ids \ {id} : SameCourse(j)
    BY ONLY IInv, id \in Ids, <2>1, SentAlone
  <2> QED
    BY ONLY IInv, IInv', InfoInv, id \in Ids, <2>3, <2>4, OneReported
<1>4. CASE k # 0
  <2>1. PICK url \in ResponseUrls(id, k) :
            Sent(id, [Updated(id, k, url) EXCEPT ![k].finished = TRUE],
                 [inflightByURL EXCEPT ![home[id]][url] = NoRequest])
    BY <1>1, <1>4
  <2> DEFINE q == Updated(id, k, url)
             rs == [q EXCEPT ![k].finished = TRUE]
             byURL == [inflightByURL EXCEPT ![home[id]][url] = NoRequest]
  <2>2. /\ k \in 1 .. Len(requests[id]) /\ q \in Seq(Requests) /\ Len(q) = Len(requests[id])
        /\ \A l \in 1 .. Len(requests[id]) :
               /\ q[l].hop = requests[id][l].hop
               /\ q[l].requestInfo = requests[id][l].requestInfo
               /\ q[l].responseInfo = requests[id][l].responseInfo
    <3>1. phase[id] = "sent" /\ k \in Nat \ {0} /\ k = inflightById[home[id]][id]
      <4>1. k \in Nat
        BY DEF IInv, Shape, MapsShape, BrowserShape
      <4>2. phase[id] = "sent"
        BY <1>1
      <4>3. k \in Nat \ {0}
        BY ONLY <1>4, <4>1
      <4> QED
        BY ONLY <4>2, <4>3
    <3>2. IInv /\ url \in ResponseUrls(id, k)
      OBVIOUS
    <3> HIDE DEF k
    <3>3. /\ k \in 1 .. Len(requests[id]) /\ ~requests[id][k].finished /\ url \in Urls
          /\ SameButUrl(requests[id], Updated(id, k, url), k, url)
          /\ KnownAs(id, Updated(id, k, url), k, url)
      BY ONLY id \in Ids, <3>1, <3>2, Renaming
    <3> QED
      BY ONLY <3>3 DEF SameButUrl
  <2> HIDE DEF k, q
  <2>3. q[k] \in Requests /\ [q[k] EXCEPT !.finished = TRUE] \in Requests
    <3>1. q[k] \in Requests
      BY <2>2
    <3> QED
      BY <3>1 DEF Requests
  <2>4. /\ rs \in Seq(Requests) /\ Len(rs) = Len(requests[id])
        /\ \A l \in 1 .. Len(rs) : /\ rs[l].hop = requests[id][l].hop
                                    /\ rs[l].requestInfo = requests[id][l].requestInfo
                                    /\ rs[l].responseInfo = requests[id][l].responseInfo
    <3> DEFINE x == [q[k] EXCEPT !.finished = TRUE]
    <3>1. q \in Seq(Requests) /\ k \in 1 .. Len(q) /\ x \in Requests /\ rs = [q EXCEPT ![k] = x]
      BY <2>2, <2>3
    <3>2. /\ x.hop = q[k].hop /\ x.requestInfo = q[k].requestInfo
          /\ x.responseInfo = q[k].responseInfo
      BY <2>3 DEF Requests
    <3> HIDE DEF x, rs
    <3>3. /\ rs \in Seq(Requests) /\ Len(rs) = Len(q)
          /\ \A l \in 1 .. Len(q) : rs[l] = IF l = k THEN x ELSE q[l]
      BY ONLY <3>1
    <3> QED
      BY <2>2, <3>2, <3>3
  <2>5. Sent(id, rs, byURL)
    BY <2>1 DEF rs, byURL, q
  <2> HIDE DEF rs, byURL
  <2>6. InfosOf(id)'
    BY <1>1, <1>2, <2>4, <2>5, SentInfos
  <2> QED
    BY <2>5, <2>6, SentAlone, OneReported
<1> QED
  BY <1>3, <1>4

\* A hop that was missed makes the load irregular.
LEMMA MissedTold ==
    ASSUME IInv, IInv', InfoInv, NEW id \in Ids, Missed(id)
    PROVE  InfoInv'
<1>1. /\ phase[id] = "new" /\ phase' = [phase EXCEPT ![id] = "sent"] /\ hop' = [hop EXCEPT ![id] = 1]
      /\ missed' = missed \cup {id}
      /\ UNCHANGED <<requests, builders, plan, origin, home, requestInfos, responseInfos, early>>
  BY DEF Missed, modelVars, infoVars
<1>2. /\ requests[id] = <<>> /\ plan[id].hops \in 1 .. MaxHops(id) /\ MaxHops(id) \in Nat
      /\ hop \in [Ids -> Nat] /\ phase \in [Ids -> Phases]
  BY <1>1, Hops DEF IInv, Course, Shape, BrowserShape
<1>3. Counted(id) /\ Bounded(id)
  BY DEF InfoInv, InfosOf
<1>4. hop'[id] = 1 /\ phase'[id] = "sent" /\ id \in missed'
  BY <1>1, <1>2
<1>5. Counted(id)'
  BY <1>1, <1>2, <1>3, <1>4 DEF Counted, Plans
<1>6. Bounded(id)'
  BY <1>1, <1>3 DEF Bounded, BuilderFits, Builder
<1>7. InfosOf(id)'
  BY <1>4, <1>5, <1>6 DEF InfosOf, Regular
<1>8. \A j \in Ids \ {id} : SameCourse(j)
  BY <1>1, <1>2 DEF SameCourse, SameBuilders, SameLoad
<1> QED
  BY <1>7, <1>8, OneReported

\* The answer of the browser, which may move a document elsewhere.
LEMMA ResponseReceivedTold ==
    ASSUME IInv, IInv', InfoInv, NEW id \in Ids, NEW m \in Managers, ResponseReceived(id, m)
    PROVE  InfoInv'
<1>1. /\ phase[id] = "sent" /\ hop[id] = plan[id].hops
      /\ phase' = [phase EXCEPT ![id] = "answered"] /\ home' = [home EXCEPT ![id] = m]
      /\ UNCHANGED <<builders, plan, origin, hop, requestInfos, responseInfos, missed, early>>
  BY DEF ResponseReceived, infoVars
<1>2. /\ phase \in [Ids -> Phases] /\ home \in [Ids -> Managers] /\ home[id] = origin[id]
  BY <1>1 DEF IInv, Course, Shape, BrowserShape
<1>3. /\ phase'[id] = "answered" /\ home'[id] = m /\ InfosOf(id)
      /\ \A j \in Ids \ {id} : phase'[j] = phase[j] /\ home'[j] = home[j]
  BY <1>1, <1>2 DEF InfoInv
<1>4. /\ Len(requests'[id]) = Len(requests[id])
      /\ \A j \in Ids \ {id} : requests'[j] = requests[j]
      /\ \A k \in 1 .. Len(requests[id]) :
            /\ requests'[id][k].finished = requests[id][k].finished
            /\ requests'[id][k].hop = requests[id][k].hop
            /\ requests'[id][k].requestInfo = requests[id][k].requestInfo
            /\ requests'[id][k].responseInfo = requests[id][k].responseInfo
  BY Receiving
<1>5. SameInfos(id) /\ SameBuilders(id) /\ SameLoad(id)
  <2>1. SameInfos(id)
    BY <1>4 DEF SameInfos
  <2>2. SameBuilders(id) /\ SameLoad(id)
    BY <1>1 DEF SameBuilders, SameLoad
  <2> QED
    BY <2>1, <2>2
<1>6. /\ phase'[id] \in {"sent", "open", "answered", "received"} =>
             /\ phase[id] \in {"sent", "open", "answered", "received"}
             /\ \A k \in 1 .. Len(requests[id]) : requests'[id][k].finished = requests[id][k].finished
      /\ home'[id] = home[id] \/ home'[id] # origin[id]
      /\ id \in early' /\ Regular(id)' => id \in early
  <2>1. \A k \in 1 .. Len(requests[id]) : requests'[id][k].finished = requests[id][k].finished
    BY <1>4
  <2>2. /\ phase[id] \in {"sent", "open", "answered", "received"}
        /\ home'[id] = home[id] \/ home'[id] # origin[id]
        /\ early' = early
    BY <1>1, <1>2, <1>3
  <2> QED
    BY <2>1, <2>2
<1>7. InfosOf(id)'
  BY <1>1, <1>3, <1>5, <1>6, Unreported
<1>8. \A j \in Ids \ {id} : SameCourse(j)
  BY <1>1, <1>3, <1>4 DEF SameCourse, SameBuilders, SameLoad
<1> QED
  BY <1>7, <1>8, OneReported

\* Adoption changes of a request only which manager it belongs to.
LEMMA AdoptedInfos ==
    ASSUME IInv, NEW id \in Ids
    PROVE  /\ Len(AdoptedRequests(id)[id]) = Len(requests[id])
           /\ \A k \in 1 .. Len(requests[id]) :
                 /\ AdoptedRequests(id)[id][k] \in Requests
                 /\ AdoptedRequests(id)[id][k].hop = requests[id][k].hop
                 /\ AdoptedRequests(id)[id][k].finished = requests[id][k].finished
                 /\ AdoptedRequests(id)[id][k].requestInfo = requests[id][k].requestInfo
                 /\ AdoptedRequests(id)[id][k].responseInfo = requests[id][k].responseInfo
           /\ AdoptedRequests(id)[id] \in Seq(Requests)
           /\ DOMAIN AdoptedRequests(id) = Ids
           /\ \A j \in Ids \ {id} : AdoptedRequests(id)[j] = requests[j]
<1>1. /\ requests \in [Ids -> Seq(Requests)] /\ requests[id] \in Seq(Requests) /\ home[id] \in Managers
      /\ Maps(id)
  BY DEF IInv, Shape, MapsShape, BrowserShape
<1>2. CASE ~Adopts(id)
  BY <1>1, <1>2 DEF AdoptedRequests
<1>3. CASE Adopts(id)
  <2> DEFINE n == inflightMain[id]
             r == [requests[id][n] EXCEPT !.manager = home[id]]
             rs == [requests[id] EXCEPT ![n] = r]
  <2>1. n \in 1 .. Len(requests[id])
    BY <1>1, <1>3 DEF Adopts, Maps, MapsFit
  <2>2. AdoptedRequests(id) = [requests EXCEPT ![id] = rs]
    BY <1>3 DEF AdoptedRequests
  <2> HIDE DEF n
  <2>3. requests[id][n] \in Requests
    BY <1>1, <2>1
  <2>4. /\ r \in Requests /\ r.hop = requests[id][n].hop /\ r.finished = requests[id][n].finished
        /\ r.requestInfo = requests[id][n].requestInfo /\ r.responseInfo = requests[id][n].responseInfo
    BY <1>1, <2>3 DEF Requests
  <2> HIDE DEF r
  <2>5. /\ rs \in Seq(Requests) /\ Len(rs) = Len(requests[id])
        /\ \A k \in 1 .. Len(requests[id]) : rs[k] = IF k = n THEN r ELSE requests[id][k]
    BY <1>1, <2>1, <2>4
  <2> HIDE DEF rs
  <2>6. \A k \in 1 .. Len(requests[id]) :
            /\ rs[k] \in Requests /\ rs[k].hop = requests[id][k].hop
            /\ rs[k].finished = requests[id][k].finished
            /\ rs[k].requestInfo = requests[id][k].requestInfo
            /\ rs[k].responseInfo = requests[id][k].responseInfo
    BY <1>1, <2>4, <2>5
  <2> QED
    BY <1>1, <2>2, <2>5, <2>6
<1> QED
  BY <1>2, <1>3

\* Data that arrives leaves the infos.
LEMMA DataReceivedTold ==
    ASSUME IInv, IInv', InfoInv, NEW id \in Ids, DataReceived(id)
    PROVE  InfoInv'
<1>1. /\ phase[id] = "answered" /\ phase' = [phase EXCEPT ![id] = "received"]
      /\ requests' = AdoptedRequests(id)
      /\ UNCHANGED <<builders, plan, origin, hop, home, requestInfos, responseInfos, missed, early>>
  BY DEF DataReceived, infoVars
<1>2. phase \in [Ids -> Phases] /\ InfosOf(id) /\ Counted(id)
  BY DEF IInv, Shape, BrowserShape, InfoInv, InfosOf
<1>3. /\ phase'[id] = "received" /\ hop[id] = plan[id].hops
      /\ \A j \in Ids \ {id} : phase'[j] = phase[j] /\ requests'[j] = requests[j]
  BY <1>1, <1>2, AdoptedInfos DEF Counted
<1>4. SameInfos(id) /\ SameBuilders(id) /\ SameLoad(id)
  BY <1>1, AdoptedInfos DEF SameInfos, SameBuilders, SameLoad
<1>5. /\ \A k \in 1 .. Len(requests[id]) : requests'[id][k].finished = requests[id][k].finished
      /\ home'[id] = home[id]
      /\ id \in early' /\ Regular(id)' => id \in early
  BY <1>1, AdoptedInfos
<1>6. InfosOf(id)'
  BY <1>1, <1>2, <1>3, <1>4, <1>5, Unreported
<1>7. \A j \in Ids \ {id} : SameCourse(j)
  BY <1>1, <1>3 DEF SameCourse, SameBuilders, SameLoad
<1> QED
  BY <1>6, <1>7, OneReported

\* What _finishNetworkRequest changes of the requests.
LEMMA FinishedInfos ==
    ASSUME IInv, NEW id \in Ids, home[id] \in models, Known(id) # 0, Finish(id)
    PROVE  /\ SameInfos(id) /\ \A j \in Ids \ {id} : requests'[j] = requests[j]
           /\ requests'[id] \in Seq(Requests)
<1> DEFINE rs == AdoptedRequests(id)[id]
           n == Known(id)
           r == [rs[n] EXCEPT !.finished = TRUE]
<1>1. /\ Len(rs) = Len(requests[id]) /\ rs \in Seq(Requests) /\ DOMAIN AdoptedRequests(id) = Ids
      /\ \A j \in Ids \ {id} : AdoptedRequests(id)[j] = requests[j]
  BY AdoptedInfos
<1>2. home[id] \in Managers
  BY DEF IInv, Shape, BrowserShape
<1>3. n \in 1 .. Len(rs)
  BY <1>2, Adoption DEF MapsFit, Known
<1>4. requests' = [AdoptedRequests(id) EXCEPT ![id] = [rs EXCEPT ![n] = r]]
  BY DEF Finish
<1> HIDE DEF n
<1>5. /\ requests'[id] = [rs EXCEPT ![n] = r]
      /\ \A j \in Ids \ {id} : requests'[j] = requests[j]
  BY <1>1, <1>4
<1>6. \A k \in 1 .. Len(rs) : /\ rs[k] \in Requests /\ rs[k].hop = requests[id][k].hop
                              /\ rs[k].requestInfo = requests[id][k].requestInfo
                              /\ rs[k].responseInfo = requests[id][k].responseInfo
  BY <1>1, AdoptedInfos
<1> HIDE DEF rs
<1>7. /\ r \in Requests /\ r.hop = rs[n].hop
      /\ r.requestInfo = rs[n].requestInfo /\ r.responseInfo = rs[n].responseInfo
  BY <1>3, <1>6 DEF Requests
<1> HIDE DEF r
<1>8. /\ Len(requests'[id]) = Len(rs) /\ requests'[id] \in Seq(Requests)
      /\ \A k \in 1 .. Len(rs) : requests'[id][k] = IF k = n THEN r ELSE rs[k]
  BY <1>1, <1>3, <1>5, <1>7
<1>9. SameInfos(id)
  <2>1. \A k \in 1 .. Len(rs) : /\ requests'[id][k].hop = requests[id][k].hop
                                /\ requests'[id][k].requestInfo = requests[id][k].requestInfo
                                /\ requests'[id][k].responseInfo = requests[id][k].responseInfo
    BY <1>6, <1>7, <1>8
  <2> QED
    BY <1>1, <1>8, <2>1 DEF SameInfos
<1> QED
  BY <1>5, <1>8, <1>9

\* The end of a load, for the browser.
LEMMA EndedInfos ==
    ASSUME IInv, NEW id \in Ids, NEW adopting \in BOOLEAN, Ended(id, adopting)
    PROVE  /\ phase'[id] = "ended" /\ home' = home
           /\ \A j \in Ids : SameLoad(j)
           /\ \A j \in Ids \ {id} : phase'[j] = phase[j] /\ (j \in early' => j \in early)
           /\ id \in early' => id \in early \/ (requestInfos[id] > 0 /\ phase[id] # "open")
           /\ early' \subseteq early \cup {id} /\ missed' = missed
<1>1. /\ phase' = [phase EXCEPT ![id] = "ended"]
      /\ early' = IF requestInfos[id] > 0 /\ phase[id] # "open" THEN early \cup {id} ELSE early
      /\ UNCHANGED <<plan, origin, hop, home, requestInfos, responseInfos, missed>>
  BY DEF Ended, infoVars
<1>2. phase \in [Ids -> Phases]
  BY DEF IInv, Shape, BrowserShape
<1> QED
  BY <1>1, <1>2 DEF SameLoad

\* A WebSocket has no builder to finish.
LEMMA WebSocketClosedTold ==
    ASSUME IInv, IInv', InfoInv, NEW id \in Ids, WebSocketClosed(id)
    PROVE  InfoInv'
<1>1. phase[id] = "open" /\ Finish(id) /\ Ended(id, FALSE) /\ builders' = builders
  BY DEF WebSocketClosed
<1>2. Course(id) /\ InfosOf(id)
  BY DEF IInv, InfoInv
<1>3. inflightById[home[id]][id] # 0 /\ home[id] \in models
  BY <1>1, <1>2 DEF Course
<1>4. Known(id) # 0
  BY <1>3 DEF Known, AdoptedById, Adopts
<1>5. SameInfos(id) /\ \A j \in Ids \ {id} : requests'[j] = requests[j]
  BY <1>1, <1>3, <1>4, FinishedInfos
<1>6. /\ phase'[id] = "ended" /\ home' = home
      /\ \A j \in Ids : SameLoad(j)
      /\ \A j \in Ids \ {id} : phase'[j] = phase[j] /\ (j \in early' => j \in early)
      /\ id \in early' => id \in early
  BY <1>1, EndedInfos
<1>7. \A j \in Ids : SameBuilders(j)
  BY <1>1 DEF SameBuilders
<1>8. InfosOf(id)'
  BY <1>1, <1>2, <1>5, <1>6, <1>7, Unreported
<1>9. \A j \in Ids \ {id} : SameCourse(j)
  BY <1>5, <1>6, <1>7 DEF SameCourse
<1> QED
  BY <1>8, <1>9, OneReported

\* A regular load that is under way is in flight at home.
LEMMA KnownAtHome ==
    ASSUME IInv, NEW id \in Ids, Counted(id), Regular(id), phase[id] \in {"sent", "answered", "received"}
    PROVE  inflightById[home[id]][id] # 0 /\ Known(id) # 0
<1>1. /\ Maps(id) /\ requests[id] \in Seq(Requests) /\ home[id] \in Managers /\ hop[id] \in Nat
      /\ Len(requests[id]) = hop[id] /\ hop[id] # 0 /\ ~requests[id][hop[id]].finished
      /\ home[id] = origin[id]
  BY DEF IInv, Shape, MapsShape, BrowserShape, Counted, Regular
<1>2. hop[id] \in 1 .. Len(requests[id])
  BY <1>1
<1>3. requests[id][hop[id]].manager = home[id]
  BY <1>1, <1>2 DEF Maps, MapsFit
<1>4. inflightById[home[id]][id] = hop[id]
  BY <1>1, <1>2, <1>3 DEF Maps, MapsFit
<1> QED
  BY <1>1, <1>4 DEF Known, AdoptedById, Adopts

\* A load ends where its request is not known: it was not regular.
LEMMA UnknownTold ==
    ASSUME IInv, IInv', InfoInv, NEW id \in Ids, NEW adopting \in BOOLEAN, Ended(id, adopting),
           phase[id] \in {"sent", "answered", "received"}, UNCHANGED modelVars,
           inflightById[home[id]][id] = 0 \/ Known(id) = 0
    PROVE  InfoInv'
<1>1. requests' = requests /\ builders' = builders
  BY DEF modelVars
<1>2. /\ phase'[id] = "ended" /\ home' = home
      /\ \A j \in Ids : SameLoad(j)
      /\ \A j \in Ids \ {id} : phase'[j] = phase[j] /\ (j \in early' => j \in early)
      /\ missed' = missed
  BY EndedInfos
<1>3. Counted(id) /\ InfosOf(id)
  BY DEF InfoInv, InfosOf
<1>4. ~Regular(id)'
  <2>1. ~Regular(id)
    BY <1>3, KnownAtHome
  <2> QED
    BY <1>2, <2>1 DEF Regular, SameLoad
<1>5. SameInfos(id) /\ \A j \in Ids : SameBuilders(j)
  BY <1>1 DEF SameInfos, SameBuilders
<1>6. InfosOf(id)'
  BY <1>2, <1>3, <1>4, <1>5, Unreported
<1>7. \A j \in Ids \ {id} : SameCourse(j)
  BY <1>1, <1>2, <1>5 DEF SameCourse
<1> QED
  BY <1>6, <1>7, OneReported

\* finished() of the builder of a regular load: it goes if no more is expected.
LEMMA FinishReaches ==
    ASSUME NEW id \in Ids, Counted(id), Counted(id)', Bounded(id), Reported(id), Reaching(id), Regular(id),
           requests[id] \in Seq(Requests), Home(id) \in Builders,
           phase[id] \in {"sent", "answered", "received"}, hop[id] = plan[id].hops,
           phase'[id] = "ended", home' = home, SameInfos(id), SameLoad(id),
           id \in early' => id \in early \/ (requestInfos[id] > 0 /\ phase[id] # "open"),
           NEW b, b = [Home(id) EXCEPT !.finished = TRUE],
           NEW K, K = Kept(b, requests[id]), builders'[home[id]][id] = K,
           Home(id)' = IF K = NoBuilder THEN NewBuilder ELSE K
    PROVE  Reported(id)' /\ Reaching(id)'
<1> DEFINE p == Len(requests[id])
           h == plan[id].hops
           asked == requestInfos[id]
           answered == responseInfos[id]
<1>1. /\ p \in Nat /\ h \in Nat \ {0} /\ p = h /\ hop[id] = h /\ p \in 1 .. p
      /\ asked \in 0 .. h /\ answered \in 0 .. h /\ answered <= asked
  <2>1. /\ plan[id].hops \in 1 .. MaxHops(id) /\ plan[id].reported \subseteq 1 .. plan[id].hops
        /\ MaxHops(id) \in Nat
    BY Hops DEF Counted, Plans
  <2>2. asked \in 0 .. h /\ answered \in 0 .. h
    BY <2>1 DEF Bounded
  <2>3. p = hop[id]
    BY DEF Counted, Regular
  <2> QED
    BY <2>1, <2>2, <2>3 DEF Reported
<1>2. Matching(Home(id), requests[id], asked, answered)
  BY DEF Reported, Attended, Unattended
<1>3. /\ b.requests = Home(id).requests /\ b.requestInfos = Home(id).requestInfos /\ b.finished
      /\ b.responseInfos = Home(id).responseInfos /\ b.hasExtraInfo = Home(id).hasExtraInfo
  BY DEF Builders
<1>4. /\ Len(requests'[id]) = p
      /\ \A k \in 1 .. p : /\ requests'[id][k].requestInfo = IF k <= asked THEN k ELSE 0
                           /\ requests'[id][k].responseInfo = IF k <= answered THEN k ELSE 0
  BY <1>2 DEF Matching, SameInfos
<1>5. /\ requestInfos'[id] = asked /\ responseInfos'[id] = answered /\ hop'[id] = hop[id]
      /\ plan'[id] = plan[id]
  BY DEF SameLoad
<1>6. /\ Len(b.requests) = p /\ b.requests[p] = p /\ b.requests # <<>>
      /\ b.hasExtraInfo <=> asked # 0
      /\ requests[id][p].responseInfo = IF p <= answered THEN p ELSE 0
  BY <1>1, <1>2, <1>3 DEF Matching
<1>7. K = IF b.hasExtraInfo => p <= answered THEN NoBuilder ELSE b
  BY <1>1, <1>3, <1>6 DEF Kept
<1>8. id \in early' => asked # 0
  BY <1>1 DEF Reaching
<1>9. CASE b.hasExtraInfo => p <= answered
  <2>1. Home(id)' = NewBuilder /\ builders'[home[id]][id] = NoBuilder
    BY <1>7, <1>9
  <2>2. Unattended(id)'
    BY <1>4, <2>1 DEF Unattended, NewBuilder
  <2>3. ASSUME id \in early'
        PROVE  AllTold(id)'
    <3>1. asked = h /\ answered = h
      BY <1>1, <1>6, <1>8, <1>9, <2>3
    <3> QED
      BY <1>1, <1>4, <1>5, <2>1, <3>1 DEF AllTold
  <2> QED
    BY <1>5, <2>2, <2>3 DEF Reported, Reaching
<1>10. CASE ~(b.hasExtraInfo => p <= answered)
  <2>1. Home(id)' = b
    <3>1. K = b /\ b.hasExtraInfo
      BY <1>7, <1>10
    <3>2. ~NoBuilder.hasExtraInfo
      BY DEF NoBuilder
    <3> QED
      BY <3>1, <3>2
  <2>2. Matching(b, requests'[id], asked, answered)
    BY <1>2, <1>3, <1>4 DEF Matching
  <2>3. Matching(Home(id), requests[id], requestInfos[id], responseInfos[id])'
    BY <1>5, <2>1, <2>2
  <2>4. Attended(id)'
    BY <2>3 DEF Attended
  <2>5. Home(id)'.finished /\ answered < hop[id]
    <3>1. Home(id)'.finished
      BY <1>3, <2>1
    <3>2. ~(p <= answered)
      BY <1>10
    <3> QED
      BY <1>1, <3>1, <3>2
  <2> QED
    BY <1>5, <1>8, <2>4, <2>5 DEF Reported, Reaching
<1> QED
  BY <1>9, <1>10

\* A load ends where its request is known.
LEMMA FinishedTold ==
    ASSUME IInv, IInv', InfoInv, NEW id \in Ids, NEW adopting \in BOOLEAN, Ended(id, adopting),
           phase[id] \in {"sent", "answered", "received"}, hop[id] = plan[id].hops,
           Known(id) # 0, Finish(id), BuilderFinished(id)
    PROVE  InfoInv'
<1> DEFINE b == [Home(id) EXCEPT !.finished = TRUE]
           K == Kept(b, requests[id])
           n == Len(requests[id])
           h == MaxHops(id)
<1>1. /\ BuildersShape /\ home[id] \in Managers /\ requests \in [Ids -> Seq(Requests)]
      /\ requests[id] \in Seq(Requests) /\ n \in Nat /\ h \in Nat /\ home[id] \in models
  <2>1. Course(id) /\ Shape
    BY DEF IInv
  <2>2. BuildersShape /\ home[id] \in Managers /\ requests \in [Ids -> Seq(Requests)]
    BY <2>1 DEF Shape, MapsShape, BrowserShape
  <2>3. home[id] \in models
    BY <2>1 DEF Course
  <2>4. h \in Nat
    BY Hops
  <2>5. requests[id] \in Seq(Requests) /\ n \in Nat
    BY <2>2
  <2> QED
    BY <2>2, <2>3, <2>4, <2>5
<1>2. InfosOf(id) /\ Counted(id) /\ Bounded(id)
  BY DEF InfoInv, InfosOf
<1>3. SameInfos(id) /\ \A j \in Ids \ {id} : requests'[j] = requests[j]
  BY <1>1, FinishedInfos
<1>4. /\ phase'[id] = "ended" /\ home' = home /\ missed' = missed
      /\ \A j \in Ids : SameLoad(j)
      /\ \A j \in Ids \ {id} : phase'[j] = phase[j] /\ (j \in early' => j \in early)
      /\ id \in early' => id \in early \/ (requestInfos[id] > 0 /\ phase[id] # "open")
  BY EndedInfos
<1>5. Home(id) \in Builders /\ b \in Builders /\ K \in Builders
  <2>1. Home(id) \in Builders
    BY <1>1, BuilderTypes DEF Home
  <2>2. b \in Builders
    BY <2>1 DEF Builders
  <2> QED
    BY <1>1, <2>1, <2>2, BuilderTypes
<1>6. builders' = [builders EXCEPT ![home[id]][id] = K]
  BY DEF BuilderFinished, Home
<1>7. BuilderFits(b, n, h)
  <2>1. BuilderFits(Home(id), n, h)
    BY <1>1, <1>2 DEF Bounded, Home
  <2>2. /\ b.requests = Home(id).requests /\ b.requestInfos = Home(id).requestInfos
        /\ b.responseInfos = Home(id).responseInfos
    BY <1>5 DEF Builders
  <2> QED
    BY <2>1, <2>2 DEF BuilderFits
<1> HIDE DEF b
<1>8. /\ Builder(home[id], id)' = IF K = NoBuilder THEN NewBuilder ELSE K
      /\ builders'[home[id]][id] = K
      /\ \A m \in Managers : m # home[id] => Builder(m, id)' = Builder(m, id)
      /\ \A j \in Ids \ {id} : SameBuilders(j)
  <2> HIDE DEF K
  <2>1. PICK m \in Managers : m = home[id]
    BY <1>1
  <2>2. builders' = [builders EXCEPT ![m][id] = K]
    BY <1>6, <2>1
  <2>3. \A c \in Builders : builders' = [builders EXCEPT ![m][id] = c] =>
            /\ Builder(m, id)' = IF c = NoBuilder THEN NewBuilder ELSE c
            /\ builders'[m][id] = c
            /\ \A l \in Managers : l # m => Builder(l, id)' = Builder(l, id)
            /\ \A j \in Ids \ {id} : SameBuilders(j)
    <3> SUFFICES ASSUME NEW c \in Builders, builders' = [builders EXCEPT ![m][id] = c]
                 PROVE  /\ Builder(m, id)' = IF c = NoBuilder THEN NewBuilder ELSE c
                        /\ builders'[m][id] = c
                        /\ \A l \in Managers : l # m => Builder(l, id)' = Builder(l, id)
                        /\ \A j \in Ids \ {id} : SameBuilders(j)
      OBVIOUS
    <3>1. BuildersShape
      BY <1>1
    <3> QED
      BY ONLY <3>1, BuilderPut, m \in Managers, id \in Ids, c \in Builders,
              builders' = [builders EXCEPT ![m][id] = c]
  <2>4. /\ Builder(m, id)' = IF K = NoBuilder THEN NewBuilder ELSE K
        /\ builders'[m][id] = K
        /\ \A l \in Managers : l # m => Builder(l, id)' = Builder(l, id)
        /\ \A j \in Ids \ {id} : SameBuilders(j)
    BY <1>5, <2>2, <2>3
  <2> QED
    BY <1>4, <2>1, <2>4
<1>9. Counted(id)'
  BY <1>2, <1>3, <1>4 DEF Counted, Plans, SameInfos, SameLoad
<1>10. Bounded(id)'
  <2>1. ASSUME NEW m \in Managers
        PROVE  BuilderFits(Builder(m, id)', n, h)
    <3>1. BuilderFits(Builder(m, id), n, h)
      BY <1>2 DEF Bounded
    <3>2. BuilderFits(IF K = NoBuilder THEN NewBuilder ELSE K, n, h)
      BY <1>1, <1>7, FittingKept
    <3>3. CASE m = home[id]
      <4>1. Builder(m, id)' = IF K = NoBuilder THEN NewBuilder ELSE K
        BY <1>4, <1>8, <3>3
      <4> QED
        BY <3>2, <4>1
    <3>4. CASE m # home[id]
      <4>1. Builder(m, id)' = Builder(m, id)
        BY <1>8, <3>4
      <4> QED
        BY <3>1, <4>1
    <3> QED
      BY <3>3, <3>4
  <2>2. \A m \in Managers : BuilderFits(Builder(m, id), Len(requests[id]), MaxHops(id))'
    BY <1>3, <2>1 DEF BuilderFits, SameInfos
  <2> QED
    BY <1>2, <1>3, <1>4, <2>2 DEF Bounded, SameInfos, SameLoad
<1>11. ASSUME Regular(id)'
       PROVE  Reported(id)' /\ Reaching(id)'
  <2>1. Regular(id)
    BY <1>4, <1>11 DEF Regular, SameLoad
  <2>2. Reported(id) /\ Reaching(id)
    BY <1>2, <2>1 DEF InfosOf
  <2>3. Home(id)' = IF K = NoBuilder THEN NewBuilder ELSE K
    BY <1>4, <1>8 DEF Home
  <2> QED
    BY <1>1, <1>2, <1>3, <1>4, <1>5, <1>8, <1>9, <2>1, <2>2, <2>3, FinishReaches DEF b
<1>12. InfosOf(id)'
  BY <1>9, <1>10, <1>11 DEF InfosOf
<1>13. \A j \in Ids \ {id} : SameCourse(j)
  BY <1>3, <1>4, <1>8 DEF SameCourse
<1> QED
  BY <1>12, <1>13, OneReported

LEMMA LoadingFinishedTold ==
    ASSUME IInv, IInv', InfoInv, NEW id \in Ids, LoadingFinished(id)
    PROVE  InfoInv'
<1>1. /\ phase[id] \in {"answered", "received"} /\ Ended(id, TRUE)
      /\ IF Known(id) = 0 THEN UNCHANGED modelVars ELSE Finish(id) /\ BuilderFinished(id)
  BY DEF LoadingFinished
<1>2. hop[id] = plan[id].hops
  BY <1>1 DEF InfoInv, InfosOf, Counted
<1>3. CASE Known(id) = 0
  BY <1>1, <1>3, UnknownTold
<1>4. CASE Known(id) # 0
  BY <1>1, <1>2, <1>4, FinishedTold
<1> QED
  BY <1>3, <1>4

LEMMA LoadingFailedTold ==
    ASSUME IInv, IInv', InfoInv, NEW id \in Ids, LoadingFailed(id)
    PROVE  InfoInv'
<1>1. /\ phase[id] \in {"sent", "answered", "received"} /\ hop[id] = plan[id].hops /\ Ended(id, FALSE)
      /\ IF inflightById[home[id]][id] = 0 THEN UNCHANGED modelVars
                                           ELSE Finish(id) /\ BuilderFinished(id)
  BY DEF LoadingFailed
<1>2. CASE inflightById[home[id]][id] = 0
  BY <1>1, <1>2, UnknownTold
<1>3. CASE inflightById[home[id]][id] # 0
  <2>1. Known(id) # 0
    BY <1>3 DEF Known, AdoptedById, Adopts
  <2> QED
    BY <1>1, <1>3, <2>1, FinishedTold
<1> QED
  BY <1>2, <1>3

\* A WebSocket is made a request without a builder.
LEMMA WebSocketCreatedTold ==
    ASSUME IInv, IInv', InfoInv, NEW id \in Ids, WebSocketCreated(id)
    PROVE  InfoInv'
<1>1. /\ phase[id] = "new"
      /\ requests' = [requests EXCEPT ![id] = Append(requests[id], Request(id))]
      /\ phase' = [phase EXCEPT ![id] = "open"] /\ hop' = [hop EXCEPT ![id] = 1]
      /\ UNCHANGED <<builders, plan, origin, home, requestInfos, responseInfos, missed, early>>
  BY DEF WebSocketCreated, Start, infoVars
<1>2. /\ requests \in [Ids -> Seq(Requests)] /\ Shape /\ hop[id] = 0 /\ requests[id] = <<>>
      /\ hop \in [Ids -> Nat] /\ phase \in [Ids -> Phases] /\ home[id] \in Managers
      /\ plan[id].hops \in 1 .. MaxHops(id) /\ MaxHops(id) \in Nat
  BY <1>1, Hops DEF IInv, Shape, MapsShape, BrowserShape, Course
<1>3. Counted(id) /\ Bounded(id) /\ (Regular(id) => Reported(id) /\ Reaching(id))
  BY DEF InfoInv, InfosOf
<1>4. /\ Request(id) \in Requests /\ ~Request(id).finished /\ Request(id).hop = 1
      /\ Request(id).requestInfo = 0 /\ Request(id).responseInfo = 0
  <2>1. hop[id] < plan[id].hops
    BY <1>2
  <2>2. Request(id) \in Requests /\ ~Request(id).finished
    BY <1>2, <2>1, RequestType
  <2> QED
    BY <1>2, <2>2 DEF Request
<1>5. /\ Len(requests'[id]) = 1 /\ requests'[id][1] = Request(id)
      /\ phase'[id] = "open" /\ hop'[id] = 1
      /\ \A j \in Ids \ {id} : requests'[j] = requests[j] /\ phase'[j] = phase[j] /\ hop'[j] = hop[j]
  BY <1>1, <1>2, <1>4
<1>6. Counted(id)'
  BY <1>1, <1>2, <1>3, <1>4, <1>5 DEF Counted, Plans
<1>7. Bounded(id)'
  <2>1. ASSUME NEW m \in Managers
        PROVE  BuilderFits(Builder(m, id), 1, MaxHops(id))
    <3>1. BuilderFits(Builder(m, id), 0, MaxHops(id))
      BY <1>2, <1>3 DEF Bounded
    <3>2. BuilderFits(Builder(m, id), 0 + 1, MaxHops(id))
      BY <1>2, <3>1, FittingMore
    <3> QED
      BY <3>2
  <2>2. \A m \in Managers : Builder(m, id)' = Builder(m, id)
    BY <1>1 DEF Builder
  <2>3. \A m \in Managers : BuilderFits(Builder(m, id), Len(requests[id]), MaxHops(id))'
    BY <1>5, <2>1, <2>2 DEF BuilderFits
  <2> QED
    BY <1>1, <1>2, <1>3, <1>4, <1>5, <2>3 DEF Bounded
<1>8. ASSUME Regular(id)'
      PROVE  Reported(id)' /\ Reaching(id)'
  <2>1. Regular(id)
    BY <1>1, <1>8 DEF Regular
  <2>2. Attended(id) /\ id \notin early /\ Reported(id)
    BY <1>1, <1>3, <2>1 DEF Reported, Reaching, Unattended
  <2>3. Home(id).requests = <<>>
    <3>1. Len(Home(id).requests) = 0 /\ Home(id) \in Builders
      <4>1. Home(id) \in Builders
        BY <1>2, BuilderTypes DEF Home, Shape
      <4> QED
        BY <1>2, <2>2, <4>1 DEF Attended, Matching
    <3> QED
      BY <3>1 DEF Builders
  <2>4. Home(id)' = Home(id)
    BY <1>1 DEF Home, Builder
  <2>5. Unattended(id)'
    BY <1>4, <1>5, <2>3, <2>4 DEF Unattended
  <2> QED
    BY <1>1, <2>2, <2>5 DEF Reported, Reaching
<1>9. InfosOf(id)'
  BY <1>6, <1>7, <1>8 DEF InfosOf
<1>10. \A j \in Ids \ {id} : SameCourse(j)
  BY <1>1, <1>5 DEF SameCourse, SameBuilders, SameLoad
<1> QED
  BY <1>9, <1>10, OneReported

\* The loads at home in a target that goes are cut.
LEMMA ModelRemovedTold ==
    ASSUME IInv, IInv', InfoInv, NEW m \in Managers, ModelRemoved(m)
    PROVE  InfoInv'
<1>1. /\ phase' = [id \in Ids |-> IF home[id] = m /\ phase[id] \notin {"ended", "new"}
                                  THEN "cut" ELSE phase[id]]
      /\ UNCHANGED <<requests, builders, plan, origin, requestInfos, responseInfos, hop, home, missed,
                     early>>
  BY DEF ModelRemoved, infoVars
<1>2. ASSUME NEW id \in Ids
      PROVE  InfosOf(id)'
  <2>1. /\ (phase'[id] = "cut" /\ phase[id] \notin {"ended", "new"}) \/ phase'[id] = phase[id]
        /\ InfosOf(id) /\ Counted(id)
    BY <1>1 DEF InfoInv, InfosOf
  <2>2. SameInfos(id) /\ SameBuilders(id) /\ SameLoad(id)
    BY <1>1 DEF SameInfos, SameBuilders, SameLoad
  <2>3. phase'[id] \in {"answered", "received"} => hop[id] = plan[id].hops
    BY <2>1 DEF Counted
  <2> QED
    BY <1>1, <2>1, <2>2, <2>3, Unreported
<1> QED
  BY <1>2 DEF InfoInv

\* Nothing is told by a step of the log.
LEMMA NothingTold ==
    ASSUME IInv, IInv', InfoInv, UNCHANGED networkVars
    PROVE  InfoInv'
<1>1. UNCHANGED <<requests, builders, plan, origin, phase, hop, home, requestInfos, responseInfos, missed,
                  early>>
  BY DEF networkVars, modelVars, infoVars, loadVars
<1>2. \A j \in Ids : SameCourse(j)
  BY <1>1 DEF SameCourse, SameBuilders, SameLoad
<1> QED
  BY <1>2, SameReported DEF InfoInv

\* Nothing has been told at the start.
LEMMA InfoInit == Init => InfoInv
<1> SUFFICES ASSUME Init, NEW id \in Ids PROVE InfosOf(id)
  BY DEF InfoInv
<1>1. /\ requests[id] = <<>> /\ plan[id] \in Plans(id) /\ phase[id] = "new" /\ hop[id] = 0
      /\ \A m \in Managers : builders[m][id] = NoBuilder
      /\ home[id] \in Managers /\ requestInfos[id] = 0 /\ responseInfos[id] = 0 /\ early = {}
  BY DEF Init, NetworkInit
<1>2. MaxHops(id) \in Nat /\ plan[id].hops \in 1 .. MaxHops(id)
  BY <1>1, Hops DEF Plans
<1>3. \A m \in Managers : Builder(m, id) = NewBuilder
  BY <1>1 DEF Builder
<1>4. Counted(id)
  BY <1>1, <1>2 DEF Counted
<1>5. Bounded(id)
  BY <1>1, <1>3 DEF Bounded, BuilderFits, NewBuilder
<1>6. Reported(id) /\ Reaching(id)
  BY <1>1, <1>3 DEF Reported, Reaching, Attended, Home, Matching, Waiting, NewBuilder
<1> QED
  BY <1>4, <1>5, <1>6 DEF InfosOf

\* What the stack told has its shape.
ReportsShape == responseInfos \in [Ids -> Nat] /\ early \subseteq Ids

LEMMA ReportsShaped == Spec => []ReportsShape
<1>1. Init => ReportsShape
  BY DEF Init, NetworkInit, ReportsShape
<1>2. ASSUME IInv, ReportsShape, [Next]_vars
      PROVE  ReportsShape'
  <2>1. ASSUME NEW id \in Ids, responseInfos' = [responseInfos EXCEPT ![id] = requestInfos[id]]
        PROVE  responseInfos' \in [Ids -> Nat]
    BY <1>2, <2>1 DEF IInv, Shape, BrowserShape, ReportsShape
  <2>2. /\ \/ responseInfos' = responseInfos
           \/ \E id \in Ids : responseInfos' = [responseInfos EXCEPT ![id] = requestInfos[id]]
        /\ early' = early \/ \E id \in Ids : early' = early \cup {id}
    <3>1. ASSUME NEW id \in Ids, \/ RequestWillBeSent(id) \/ Redirected(id) \/ WebSocketCreated(id)
                                 \/ Missed(id) \/ DataReceived(id)
          PROVE  UNCHANGED <<responseInfos, early>>
      BY <3>1 DEF RequestWillBeSent, Redirected, Sent, WebSocketCreated, Missed, DataReceived, infoVars
    <3>2. ASSUME NEW id \in Ids, LoadingFinished(id) \/ LoadingFailed(id) \/ WebSocketClosed(id)
          PROVE  responseInfos' = responseInfos /\ (early' = early \/ early' = early \cup {id})
      BY <3>2 DEF LoadingFinished, LoadingFailed, WebSocketClosed, Ended, infoVars
    <3>3. ASSUME NEW id \in Ids, NEW m \in Managers,
                 \/ ResponseReceived(id, m) \/ RequestWillBeSentExtraInfo(id, m)
                 \/ ResponseReceivedExtraInfo(id, m)
          PROVE  /\ \/ responseInfos' = responseInfos
                    \/ responseInfos' = [responseInfos EXCEPT ![id] = requestInfos[id]]
                 /\ early' = early
      BY <3>3 DEF ResponseReceived, RequestWillBeSentExtraInfo, ResponseReceivedExtraInfo, infoVars, loadVars
    <3>4. ASSUME NEW m \in Managers, ModelRemoved(m)
          PROVE  UNCHANGED <<responseInfos, early>>
      BY <3>4 DEF ModelRemoved, infoVars
    <3>5. ASSUME \/ \E d \in Documents, preserve \in BOOLEAN : MainFrameNavigated(d, preserve)
                 \/ Reset
                 \/ \E preserve \in BOOLEAN : SetIsRecording(preserve)
                 \/ \E d \in Documents : ErrorPageNavigated(d)
                 \/ UNCHANGED vars
          PROVE  UNCHANGED <<responseInfos, early>>
      BY <3>5 DEF MainFrameNavigated, Reset, SetIsRecording, ErrorPageNavigated, networkVars, infoVars, loadVars, vars
    <3> QED
      BY <1>2, <3>1, <3>2, <3>3, <3>4, <3>5 DEF Next
  <2> QED
    BY <1>2, <2>1, <2>2 DEF ReportsShape
<1> QED
  BY <1>1, <1>2, Invariance, PTL DEF Spec

\* NetworkManager.js, RedirectExtraInfoBuilder: the builder of a regular load has its
\* requests in the order of the hops, holds the infos of the hops that have no request
\* yet, and has given away the others; what it has not told of a load that ended, it
\* will when the last response info comes.
THEOREM InfoInvariance == Spec => []InfoInv
<1> DEFINE Inv == IInv /\ ReportsShape /\ InfoInv
<1>1. Init => Inv
  BY InvInit, InfoInit DEF Init, NetworkInit, ReportsShape
<1>2. ASSUME Inv, IInv', Next
      PROVE  InfoInv'
  <2>1. ASSUME NEW id \in Ids, \/ RequestWillBeSent(id) \/ Redirected(id) \/ WebSocketCreated(id)
                               \/ Missed(id) \/ DataReceived(id) \/ LoadingFinished(id)
                               \/ LoadingFailed(id) \/ WebSocketClosed(id)
        PROVE  InfoInv'
    BY <1>2, <2>1, RequestWillBeSentTold, RedirectedTold, WebSocketCreatedTold, MissedTold,
       DataReceivedTold, LoadingFinishedTold, LoadingFailedTold, WebSocketClosedTold
  <2>2. ASSUME NEW id \in Ids, NEW m \in Managers,
               \/ ResponseReceived(id, m) \/ RequestWillBeSentExtraInfo(id, m)
               \/ ResponseReceivedExtraInfo(id, m)
        PROVE  InfoInv'
    BY <1>2, <2>2, ResponseReceivedTold, RequestWillBeSentExtraInfoTold, ResponseReceivedExtraInfoTold
       DEF ReportsShape
  <2>3. ASSUME NEW m \in Managers, ModelRemoved(m)
        PROVE  InfoInv'
    BY <1>2, <2>3, ModelRemovedTold
  <2>4. ASSUME UNCHANGED networkVars
        PROVE  InfoInv'
    BY <1>2, <2>4, NothingTold
  <2>5. ASSUME \/ \E d \in Documents, preserve \in BOOLEAN : MainFrameNavigated(d, preserve)
               \/ Reset
               \/ \E preserve \in BOOLEAN : SetIsRecording(preserve)
               \/ \E d \in Documents : ErrorPageNavigated(d)
        PROVE  UNCHANGED networkVars
    BY <2>5 DEF MainFrameNavigated, Reset, SetIsRecording, ErrorPageNavigated
  <2> QED
    BY <1>2, <2>1, <2>2, <2>3, <2>4, <2>5 DEF Next
<1>3. ASSUME Inv, IInv', UNCHANGED vars
      PROVE  InfoInv'
  BY <1>3, NothingTold DEF vars
<1>4. ASSUME Inv, IInv', ReportsShape', [Next]_vars
      PROVE  Inv'
  BY <1>2, <1>3, <1>4
<1> HIDE DEF Inv
<1>5. Inv => InfoInv
  BY DEF Inv
<1> QED
  BY <1>1, <1>4, <1>5, Invariance, ReportsShaped, PTL DEF Spec

\* NetworkManager.js, RedirectExtraInfoBuilder._sync and _deleteIfComplete: an extra info
\* is given to the request of its own hop, and when a load ended and everything has been
\* reported, every request has its infos and the builder is gone.
THEOREM InfosReach == Spec => []InfosReachTheirHops
<1>1. ASSUME IInv, ReportsShape, InfoInv
      PROVE  InfosReachTheirHops
  <2>1. ASSUME NEW id \in Ids
        PROVE  /\ requests[id] \in Seq(Requests) /\ Places(id) = 1 .. Len(requests[id])
               /\ Counted(id) /\ Bounded(id) /\ (Regular(id) => Reported(id) /\ Reaching(id))
               /\ plan[id].hops \in Nat
    <3>1. InfosOf(id)
      BY <1>1 DEF InfoInv
    <3>2. plan[id].hops \in Nat
      BY <1>1, <3>1, InfoCounts, Hops
    <3> QED
      BY <1>1, <3>1, <3>2 DEF IInv, Shape, MapsShape, Places, InfosOf
  <2>2. ASSUME NEW id \in Ids, Regular(id), NEW k \in Places(id)
        PROVE  {requests[id][k].requestInfo, requests[id][k].responseInfo} \subseteq {0, requests[id][k].hop}
    <3>1. requests[id][k].hop = k
      BY <2>1, <2>2 DEF Counted, Regular
    <3>2. Attended(id) \/ Unattended(id)
      BY <2>1, <2>2 DEF Reported
    <3>3. requests[id][k].requestInfo \in {0, k} /\ requests[id][k].responseInfo \in {0, k}
      BY <2>1, <2>2, <3>2 DEF Attended, Unattended, Matching
    <3> QED
      BY <3>1, <3>3
  <2>3. ASSUME NEW id \in early, Regular(id), plan[id].reported = 1 .. plan[id].hops,
               responseInfos[id] = plan[id].hops
        PROVE  /\ \A k \in Places(id) : /\ requests[id][k].requestInfo # 0
                                        /\ requests[id][k].responseInfo # 0
               /\ builders[home[id]][id] = NoBuilder
    <3>1. id \in Ids
      BY <1>1 DEF ReportsShape
    <3>2. AllTold(id)
      BY <2>1, <2>3, <3>1 DEF Reaching
    <3> QED
      BY <2>1, <3>1, <3>2 DEF AllTold
  <2> QED
    BY <2>2, <2>3 DEF InfosReachTheirHops, InfoOfOwnHop, InfosDelivered
<1> QED
  BY <1>1, Invariance, ReportsShaped, InfoInvariance, PTL

--------------------------------------------------------------------------------
(* What is picked from a sequence. *)

\* A set of numbers that is not empty has a least number: the induction of the proofs
\* below, from that on finite sets.
LEMMA Least ==
    ASSUME NEW T, T \subseteq Nat, T # {}
    PROVE  \E x \in T : \A y \in T : x <= y
<1> DEFINE F == {0 .. n : n \in T}
           R == StrictSubsetOrdering(Nat)
<1>1. IsWellFoundedOn(R, FiniteSubsetsOf(Nat))
  BY FS_StrictSubsetOrderingWellFounded
<1>2. F \subseteq FiniteSubsetsOf(Nat)
  <2>1. ASSUME NEW n \in T
        PROVE  0 .. n \in FiniteSubsetsOf(Nat)
    <3>1. IsFiniteSet(0 .. n)
      BY FS_Interval
    <3>2. 0 .. n \in SUBSET Nat
      OBVIOUS
    <3> QED
      BY <3>1, <3>2 DEF FiniteSubsetsOf
  <2> QED
    BY <2>1
<1>3. F # {}
  OBVIOUS
<1> HIDE DEF F, R
<1>4. PICK X \in F : \A Y \in F : <<Y, X>> \notin R
  BY <1>1, <1>2, <1>3, WFMin
<1>5. PICK x \in T : X = 0 .. x
  BY DEF F
<1>6. ASSUME NEW y \in T, ~(x <= y)
      PROVE  FALSE
  <2>1. 0 .. y \in F
    BY DEF F
  <2>2. <<0 .. y, X>> \notin R
    BY <1>4, <2>1
  <2>3. 0 .. y \in SUBSET Nat /\ X \in SUBSET Nat
    BY <1>5
  <2>4. 0 .. y \subseteq X /\ 0 .. y # X
    <3>1. x \in X /\ x \notin 0 .. y
      BY <1>5, <1>6
    <3> QED
      BY <1>5, <1>6, <3>1
  <2> QED
    BY <2>2, <2>3, <2>4 DEF R, StrictSubsetOrdering
<1> QED
  BY <1>6

\* g tells what is picked from the first k of s, up to n.
Picks(g, s, T, n) ==
    g = [k \in 0 .. n |-> IF k = 0 THEN <<>>
                          ELSE IF s[k] \in T THEN Append(g[k - 1], s[k]) ELSE g[k - 1]]

\* The recursion of Only has a solution.
LEMMA Pickable ==
    ASSUME NEW s, NEW T, NEW n \in Nat
    PROVE  \E g : Picks(g, s, T, n)
<1> DEFINE Bad == {k \in Nat : ~\E g : Picks(g, s, T, k)}
<1> SUFFICES ASSUME n \in Bad PROVE FALSE
  OBVIOUS
<1>1. PICK m \in Bad : \A k \in Bad : m <= k
  BY Least
<1>2. CASE m = 0
  <2> DEFINE g == [k \in 0 .. 0 |-> <<>>]
  <2>1. g = [k \in 0 .. 0 |-> IF k = 0 THEN <<>>
                              ELSE IF s[k] \in T THEN Append(g[k - 1], s[k]) ELSE g[k - 1]]
    OBVIOUS
  <2>2. Picks(g, s, T, 0)
    BY <2>1 DEF Picks
  <2> QED
    BY <1>2, <2>2
<1>3. CASE m # 0
  <2>1. m - 1 \in Nat /\ m \in Nat /\ m - 1 \notin Bad
    BY <1>1, <1>3
  <2>2. PICK g : Picks(g, s, T, m - 1)
    BY <2>1
  <2> DEFINE h == [k \in 0 .. m |-> IF k = m THEN IF s[m] \in T THEN Append(g[m - 1], s[m]) ELSE g[m - 1]
                                    ELSE g[k]]
  <2>3. \A k \in 0 .. m - 1 : g[k] = IF k = 0 THEN <<>>
                                     ELSE IF s[k] \in T THEN Append(g[k - 1], s[k]) ELSE g[k - 1]
    BY <2>2 DEF Picks
  <2>4. h = [k \in 0 .. m |-> IF k = 0 THEN <<>>
                              ELSE IF s[k] \in T THEN Append(h[k - 1], s[k]) ELSE h[k - 1]]
    <3> SUFFICES ASSUME NEW k \in 0 .. m
                 PROVE  h[k] = IF k = 0 THEN <<>>
                               ELSE IF s[k] \in T THEN Append(h[k - 1], s[k]) ELSE h[k - 1]
      OBVIOUS
    <3>1. CASE k = m
      <4>1. h[k - 1] = g[m - 1]
        BY <2>1, <3>1
      <4> QED
        BY <1>3, <2>1, <3>1, <4>1
    <3>2. CASE k # m
      <4>1. k \in 0 .. m - 1 /\ h[k] = g[k] /\ (k # 0 => h[k - 1] = g[k - 1])
        BY <2>1, <3>2
      <4> QED
        BY <2>3, <4>1
    <3> QED
      BY <3>1, <3>2
  <2>5. Picks(h, s, T, m)
    BY <2>4 DEF Picks
  <2> QED
    BY <2>1, <2>5
<1> QED
  BY <1>2, <1>3

\* q has the elements of T among the first n of s, in their order: e says where they are.
Picked(q, e, s, T, n) ==
    /\ e \in [1 .. Len(q) -> 1 .. n]
    /\ \A i \in 1 .. Len(q) : q[i] = s[e[i]] /\ s[e[i]] \in T
    /\ \A i, j \in 1 .. Len(q) : i < j => e[i] < e[j]
    /\ \A k \in 1 .. n : s[k] \in T => \E i \in 1 .. Len(q) : e[i] = k

\* One more element of s.
LEMMA PickedMore ==
    ASSUME NEW S, NEW s \in Seq(S), NEW T, NEW n \in Nat, n + 1 \in 1 .. Len(s),
           NEW q \in Seq(S), NEW e, Picked(q, e, s, T, n)
    PROVE  /\ s[n + 1] \in T => /\ Append(q, s[n + 1]) \in Seq(S)
                                /\ \E d : Picked(Append(q, s[n + 1]), d, s, T, n + 1)
           /\ s[n + 1] \notin T => Picked(q, e, s, T, n + 1)
<1>1. ASSUME s[n + 1] \in T
      PROVE  Append(q, s[n + 1]) \in Seq(S) /\ \E d : Picked(Append(q, s[n + 1]), d, s, T, n + 1)
  <2> DEFINE l == Len(q)
             r == Append(q, s[n + 1])
             d == [i \in 1 .. l + 1 |-> IF i = l + 1 THEN n + 1 ELSE e[i]]
  <2>1. /\ s[n + 1] \in S /\ l \in Nat
        /\ r \in Seq(S) /\ Len(r) = l + 1 /\ r[l + 1] = s[n + 1] /\ \A i \in 1 .. l : r[i] = q[i]
    OBVIOUS
  <2> HIDE DEF r
  <2>2. \A i \in 1 .. l : e[i] \in 1 .. n /\ d[i] = e[i] /\ d[l + 1] = n + 1
    BY <2>1 DEF Picked
  <2>3. d \in [1 .. l + 1 -> 1 .. n + 1]
    <3>1. \A i \in 1 .. l + 1 : i = l + 1 \/ i \in 1 .. l
      BY <2>1
    <3>2. \A i \in 1 .. l : e[i] \in 1 .. n + 1
      <4> SUFFICES ASSUME NEW i \in 1 .. l PROVE e[i] \in 1 .. n + 1
        OBVIOUS
      <4>1. e[i] \in 1 .. n
        BY DEF Picked
      <4> QED
        BY <4>1
    <3>3. \A i \in 1 .. l + 1 : (IF i = l + 1 THEN n + 1 ELSE e[i]) \in 1 .. n + 1
      BY <3>1, <3>2
    <3> QED
      BY <3>3
  <2>4. d[l + 1] = n + 1
    BY <2>1
  <2> HIDE DEF d
  <2>5. \A i \in 1 .. l + 1 : i \in 1 .. l \/ i = l + 1
    BY <2>1
  <2>6. ASSUME NEW i \in 1 .. l + 1
        PROVE  r[i] = s[d[i]] /\ s[d[i]] \in T
    BY <1>1, <2>1, <2>2, <2>4, <2>5 DEF Picked
  <2>7. ASSUME NEW i \in 1 .. l + 1, NEW j \in 1 .. l + 1, i < j
        PROVE  d[i] < d[j]
    <3>1. i \in 1 .. l
      BY <2>1, <2>7
    <3>2. CASE j = l + 1
      BY <2>2, <2>4, <3>1, <3>2
    <3>3. CASE j \in 1 .. l
      BY <2>2, <2>7, <3>1, <3>3 DEF Picked
    <3> QED
      BY <2>5, <3>2, <3>3
  <2>8. ASSUME NEW k \in 1 .. n + 1, s[k] \in T
        PROVE  \E i \in 1 .. l + 1 : d[i] = k
    <3>1. CASE k = n + 1
      BY <2>1, <2>4, <3>1
    <3>2. CASE k \in 1 .. n
      <4>1. PICK i \in 1 .. l : e[i] = k
        BY <2>8, <3>2 DEF Picked
      <4> QED
        BY <2>1, <2>2, <4>1
    <3> QED
      BY <3>1, <3>2
  <2>9. Picked(r, d, s, T, n + 1)
    BY <2>1, <2>3, <2>6, <2>7, <2>8 DEF Picked
  <2> QED
    BY <2>1, <2>9 DEF r
<1>2. ASSUME s[n + 1] \notin T
      PROVE  Picked(q, e, s, T, n + 1)
  <2>1. e \in [1 .. Len(q) -> 1 .. n + 1]
    BY DEF Picked
  <2>2. \A k \in 1 .. n + 1 : s[k] \in T => k \in 1 .. n
    BY <1>2
  <2> QED
    BY <2>1, <2>2 DEF Picked
<1> QED
  BY <1>1, <1>2

\* What Only picks.
LEMMA OnlyPicks ==
    ASSUME NEW S, NEW s \in Seq(S), NEW T
    PROVE  Only(s, T) \in Seq(S) /\ \E e : Picked(Only(s, T), e, s, T, Len(s))
<1> DEFINE f == CHOOSE g : g = [k \in 0 .. Len(s) |->
                    IF k = 0 THEN <<>> ELSE IF s[k] \in T THEN Append(g[k - 1], s[k]) ELSE g[k - 1]]
           Good(n) == f[n] \in Seq(S) /\ \E e : Picked(f[n], e, s, T, n)
           Bad == {n \in Nat : n <= Len(s) /\ ~Good(n)}
<1>1. Only(s, T) = f[Len(s)] /\ Len(s) \in Nat
  BY DEF Only
<1>2. Picks(f, s, T, Len(s))
  <2>1. \E g : Picks(g, s, T, Len(s))
    BY <1>1, Pickable
  <2> QED
    BY <2>1 DEF Picks
<1> HIDE DEF f
<1>3. \A k \in 0 .. Len(s) : f[k] = IF k = 0 THEN <<>>
                                    ELSE IF s[k] \in T THEN Append(f[k - 1], s[k]) ELSE f[k - 1]
  BY <1>2 DEF Picks
<1>4. ASSUME Bad # {}
      PROVE  FALSE
  <2>1. PICK m \in Bad : \A k \in Bad : m <= k
    BY <1>4, Least
  <2>2. CASE m = 0
    <3>1. f[0] = <<>> /\ m = 0
      BY <1>1, <1>3, <2>2
    <3> DEFINE e == [i \in 1 .. 0 |-> 0]
    <3>2. Picked(<<>>, e, s, T, 0)
      BY DEF Picked
    <3>3. <<>> \in Seq(S)
      OBVIOUS
    <3> HIDE DEF e
    <3>4. Good(0)
      BY <3>1, <3>2, <3>3
    <3> QED
      BY <3>1, <3>4
  <2>3. CASE m # 0
    <3>1. PICK n \in Nat : m = n + 1
      <4>1. m - 1 \in Nat /\ m = (m - 1) + 1
        BY <2>3
      <4> QED
        BY <4>1
    <3>2. /\ n \in Nat /\ n + 1 \in 1 .. Len(s) /\ n + 1 \in 0 .. Len(s) /\ n + 1 # 0 /\ (n + 1) - 1 = n
          /\ n \notin Bad /\ n <= Len(s)
      BY <1>1, <2>1, <2>3, <3>1
    <3>3. f[n + 1] = IF s[n + 1] \in T THEN Append(f[n], s[n + 1]) ELSE f[n]
      BY <1>3, <3>2
    <3>4. Good(n)
      BY <3>2
    <3>5. PICK e : Picked(f[n], e, s, T, n)
      BY <3>4
    <3>6. Good(n + 1)
      BY <3>2, <3>3, <3>4, <3>5, PickedMore
    <3> QED
      BY <3>1, <3>6
  <2> QED
    BY <2>2, <2>3
<1>5. Good(Len(s))
  BY <1>1, <1>4
<1> QED
  BY <1>1, <1>5

Distinct(s) == \A i, j \in 1 .. Len(s) : s[i] = s[j] => i = j

\* The elements that Only picks: those of T, each once, in the order of s.
LEMMA OnlyElements ==
    ASSUME NEW S, NEW s \in Seq(S), NEW T
    PROVE  /\ Only(s, T) \in Seq(S)
           /\ \A i \in 1 .. Len(Only(s, T)) :
                 Only(s, T)[i] \in T /\ \E k \in 1 .. Len(s) : Only(s, T)[i] = s[k]
           /\ \A k \in 1 .. Len(s) : s[k] \in T => \E i \in 1 .. Len(Only(s, T)) : Only(s, T)[i] = s[k]
           /\ \A i, j \in 1 .. Len(Only(s, T)) : i < j =>
                 \E k, l \in 1 .. Len(s) : k < l /\ Only(s, T)[i] = s[k] /\ Only(s, T)[j] = s[l]
           /\ Distinct(s) => Distinct(Only(s, T))
<1> DEFINE q == Only(s, T)
<1>1. q \in Seq(S) /\ \E e : Picked(q, e, s, T, Len(s))
  BY OnlyPicks
<1> HIDE DEF q
<1>2. PICK e : Picked(q, e, s, T, Len(s))
  BY <1>1
<1>3. /\ e \in [1 .. Len(q) -> 1 .. Len(s)]
      /\ \A i \in 1 .. Len(q) : q[i] = s[e[i]] /\ s[e[i]] \in T
      /\ \A i, j \in 1 .. Len(q) : i < j => e[i] < e[j]
      /\ \A k \in 1 .. Len(s) : s[k] \in T => \E i \in 1 .. Len(q) : e[i] = k
  BY <1>2 DEF Picked
<1>4. \A i \in 1 .. Len(q) : e[i] \in 1 .. Len(s)
  BY <1>3
<1>5. \A i, j \in 1 .. Len(q) : i < j =>
          \E k, l \in 1 .. Len(s) : k < l /\ q[i] = s[k] /\ q[j] = s[l]
  BY <1>3, <1>4
<1>6. ASSUME Distinct(s)
      PROVE  Distinct(q)
  <2> SUFFICES ASSUME NEW i \in 1 .. Len(q), NEW j \in 1 .. Len(q), q[i] = q[j], i # j PROVE FALSE
    BY DEF Distinct
  <2>1. e[i] = e[j]
    BY <1>3, <1>4, <1>6 DEF Distinct
  <2>2. i < j \/ j < i
    OBVIOUS
  <2>3. e[i] < e[j] \/ e[j] < e[i]
    BY <1>3, <2>2
  <2>4. e[i] \in Nat /\ e[j] \in Nat
    BY <1>4
  <2> QED
    BY <2>1, <2>3, <2>4
<1> QED
  BY <1>1, <1>3, <1>4, <1>5, <1>6 DEF q

\* Two sequences in a row.
LEMMA InARow ==
    ASSUME NEW S, NEW s \in Seq(S), NEW t \in Seq(S)
    PROVE  /\ s \o t \in Seq(S) /\ Len(s \o t) = Len(s) + Len(t)
           /\ \A i \in 1 .. Len(s) + Len(t) :
                 \/ i \in 1 .. Len(s) /\ (s \o t)[i] = s[i]
                 \/ i - Len(s) \in 1 .. Len(t) /\ (s \o t)[i] = t[i - Len(s)] /\ i > Len(s)
           /\ \A i \in 1 .. Len(s) : (s \o t)[i] = s[i] /\ i \in 1 .. Len(s) + Len(t)
           /\ \A i \in 1 .. Len(t) : (s \o t)[Len(s) + i] = t[i] /\ Len(s) + i \in 1 .. Len(s) + Len(t)
           /\ /\ Distinct(s) /\ Distinct(t)
              /\ \A i \in 1 .. Len(s), j \in 1 .. Len(t) : s[i] # t[j]
              => Distinct(s \o t)
<1> DEFINE q == s \o t
<1>1. q \in Seq(S) /\ Len(q) = Len(s) + Len(t) /\ Len(s) \in Nat /\ Len(t) \in Nat
  OBVIOUS
<1>2. \A i \in 1 .. Len(s) + Len(t) : q[i] = IF i <= Len(s) THEN s[i] ELSE t[i - Len(s)]
  OBVIOUS
<1> HIDE DEF q
<1>3. \A i \in 1 .. Len(s) + Len(t) :
          \/ i \in 1 .. Len(s) /\ q[i] = s[i]
          \/ i - Len(s) \in 1 .. Len(t) /\ q[i] = t[i - Len(s)] /\ i > Len(s)
  BY <1>1, <1>2
<1>4. /\ \A i \in 1 .. Len(s) : q[i] = s[i] /\ i \in 1 .. Len(s) + Len(t)
      /\ \A i \in 1 .. Len(t) : q[Len(s) + i] = t[i] /\ Len(s) + i \in 1 .. Len(s) + Len(t)
  <2>1. ASSUME NEW i \in 1 .. Len(s)
        PROVE  q[i] = s[i] /\ i \in 1 .. Len(s) + Len(t)
    BY <1>1, <1>2
  <2>2. ASSUME NEW i \in 1 .. Len(t)
        PROVE  q[Len(s) + i] = t[i] /\ Len(s) + i \in 1 .. Len(s) + Len(t)
    <3>1. Len(s) + i \in 1 .. Len(s) + Len(t) /\ ~(Len(s) + i <= Len(s)) /\ (Len(s) + i) - Len(s) = i
      BY <1>1
    <3> QED
      BY <1>2, <3>1
  <2> QED
    BY <2>1, <2>2
<1>5. ASSUME Distinct(s), Distinct(t), \A i \in 1 .. Len(s), j \in 1 .. Len(t) : s[i] # t[j]
      PROVE  Distinct(q)
  <2> SUFFICES ASSUME NEW i \in 1 .. Len(s) + Len(t), NEW j \in 1 .. Len(s) + Len(t), q[i] = q[j]
               PROVE  i = j
    BY <1>1 DEF Distinct
  <2>1. CASE i \in 1 .. Len(s) /\ q[i] = s[i]
    <3>1. j \in 1 .. Len(s) /\ q[j] = s[j]
      BY <1>3, <1>5, <2>1
    <3> QED
      BY <1>5, <2>1, <3>1 DEF Distinct
  <2>2. CASE i - Len(s) \in 1 .. Len(t) /\ q[i] = t[i - Len(s)]
    <3>1. j - Len(s) \in 1 .. Len(t) /\ q[j] = t[j - Len(s)]
      BY <1>3, <1>5, <2>2
    <3>2. i - Len(s) = j - Len(s)
      BY <1>5, <2>2, <3>1 DEF Distinct
    <3> QED
      BY <1>1, <3>2
  <2> QED
    BY <1>3, <2>1, <2>2
<1> QED
  BY <1>1, <1>3, <1>4, <1>5 DEF q

--------------------------------------------------------------------------------
(* The log: definitions. *)

LogRefs == [id : Ids, place : Nat]
PageLoads == Documents \cup {NoPageLoad}
Later == {"answered", "received", "ended", "cut"}

\* Given the requests rs of all loads.
Manager(rs, r) == rs[r.id][r.place].manager
Exists(rs, r) == r \in LogRefs /\ r.place \in 1 .. Len(rs[r.id])

LogShape ==
    /\ log \in Seq(LogRefs) /\ \A i \in 1 .. Len(log) : Exists(requests, log[i])
    /\ isRecording \in BOOLEAN /\ pageLoad \in PageLoads
    /\ DOMAIN pageLoadOf = Ids /\ \A id \in Ids : pageLoadOf[id] \in [1 .. MaxHops(id) -> PageLoads]
    /\ \A d \in Documents : loader[d] = d
    /\ page \in Documents \cup {InitialPage} /\ committed \subseteq Documents /\ unseen \in BOOLEAN

\* The hops of a load are in the log in their order, until its document is committed
\* or fails.
Ascending ==
    \A i, j \in 1 .. Len(log) :
        i < j /\ log[i].id = log[j].id /\ loader[log[i].id] \notin committed
            => log[i].place < log[j].place

\* The document that was committed last stays in the main target, and is what requests
\* are shown with that start now.
Committed ==
    /\ page \in Documents => /\ page \in committed
                             /\ origin[page] = Main /\ home[page] = Main /\ phase[page] \in Later
    /\ ~unseen /\ page \in Documents => pageLoad = page \/ Main \notin models

OfLastPage(rs, r) == Manager(rs, r) = Main /\ loader[r.id] = page

Shown ==
    ~unseen /\ page \in Documents =>
        \A i \in 1 .. Len(log) : OfLastPage(requests, log[i]) => pageLoadOf[log[i].id][log[i].place] = page

LogInv == LogShape /\ Distinct(log) /\ Ascending /\ Committed /\ Shown

--------------------------------------------------------------------------------
(* The log: the steps. *)

\* A handler that starts no request.
Quiet ==
    /\ models' \subseteq models /\ origin' = origin
    /\ \A id \in Ids :
          /\ Len(requests'[id]) = Len(requests[id])
          /\ id \notin Documents => \A k \in 1 .. Len(requests[id]) :
                                        requests'[id][k].manager = requests[id][k].manager
          /\ phase[id] \in Later => phase'[id] \in Later /\ home'[id] = home[id]

\* The requests of the document that was committed last are of the main target.
LEMMA PageInMain ==
    ASSUME IInv, Committed, NEW r, Exists(requests, r), r.id = page, page \in Documents
    PROVE  Manager(requests, r) = Main
BY DEF IInv, Maps, MapsFit, Committed, Exists, Manager, LogRefs

LEMMA QuietLog ==
    ASSUME IInv, IInv', LogInv, Quiet, UNCHANGED <<logVars, pageVars>>
    PROVE  LogInv'
<1>1. UNCHANGED <<log, isRecording, pageLoad, pageLoadOf, loader, page, committed, unseen>>
  BY DEF logVars, pageVars
<1>2. \A r : Exists(requests', r) <=> Exists(requests, r)
  BY DEF Quiet, Exists, LogRefs
<1>3. LogShape'
  <2>1. LogShape
    BY DEF LogInv
  <2>2. \A i \in 1 .. Len(log') : Exists(requests', log'[i])
    BY <1>1, <1>2, <2>1 DEF LogShape
  <2> QED
    BY <1>1, <2>1, <2>2 DEF LogShape, Exists, PageLoads
<1>4. Distinct(log)' /\ Ascending'
  BY <1>1 DEF LogInv, Distinct, Ascending
<1>5. Committed'
  <2>1. Committed /\ Documents \subseteq Ids
    BY NetworkAssumption DEF LogInv
  <2> QED
    BY <1>1, <2>1 DEF Committed, Quiet
<1>6. ASSUME ~unseen, page \in Documents, NEW i \in 1 .. Len(log), OfLastPage(requests', log[i])
      PROVE  pageLoadOf[log[i].id][log[i].place] = page
  <2> DEFINE r == log[i]
  <2>1. /\ Exists(requests, r) /\ Exists(requests', r) /\ r.id \in Ids /\ loader[r.id] = page /\ page \in committed
        /\ \A d \in Documents : loader[d] = d
    BY <1>1, <1>2, <1>6 DEF LogInv, LogShape, OfLastPage, Committed, Exists, LogRefs
  <2> HIDE DEF r
  <2>2. Manager(requests, r) = Main
    <3>1. CASE r.id \in Documents
      <4>1. r.id = page
        BY <2>1, <3>1
      <4> QED
        BY <1>6, <2>1, <4>1, PageInMain DEF LogInv
    <3>2. CASE r.id \notin Documents
      BY <1>6, <2>1, <3>2 DEF OfLastPage, Manager, Quiet, Exists, r
    <3> QED
      BY <3>1, <3>2
  <2>3. OfLastPage(requests, r)
    BY <2>1, <2>2 DEF OfLastPage
  <2> QED
    BY <1>6, <2>3 DEF LogInv, Shown, r
<1>7. Shown'
  BY <1>1, <1>6 DEF Shown, OfLastPage
<1> QED
  BY <1>3, <1>4, <1>5, <1>7 DEF LogInv

\* A handler that starts a request of the load id.
Starts(id) ==
    /\ models' = models /\ origin' = origin /\ home' = home /\ home[id] \in models
    /\ phase[id] \in {"new", "sent"}
    /\ \A j \in Ids \ {id} : requests'[j] = requests[j] /\ phase'[j] = phase[j]
    /\ Len(requests'[id]) = Len(requests[id]) + 1 /\ Len(requests'[id]) <= MaxHops(id)
    /\ \A k \in 1 .. Len(requests[id]) : requests'[id][k].manager = requests[id][k].manager
    /\ requests'[id][Len(requests[id]) + 1].manager = home[id]

LEMMA StartedLog ==
    ASSUME IInv, IInv', LogInv, NEW id \in Ids, Starts(id), OnRequestStarted(id)
    PROVE  LogInv'
<1> DEFINE n == Len(requests[id])
           k == n + 1
           r == Ref(id, k)
           L == Len(log)
<1>1. /\ UNCHANGED <<isRecording, pageLoad, loader, page, committed, unseen, models, origin, home>>
      /\ log' = IF isRecording THEN Append(log, Ref(id, Len(requests'[id]))) ELSE log
      /\ pageLoadOf' = IF isRecording /\ home[id] = Main /\ pageLoad # NoPageLoad
                       THEN [pageLoadOf EXCEPT ![id][Len(requests'[id])] = pageLoad] ELSE pageLoadOf
  BY DEF OnRequestStarted, pageVars, Starts
<1>2. /\ LogShape /\ Distinct(log) /\ Ascending /\ Committed /\ Shown
      /\ log \in Seq(LogRefs) /\ L \in Nat /\ \A i \in 1 .. L : Exists(requests, log[i])
  BY DEF LogInv, LogShape
<1>3. /\ requests[id] \in Seq(Requests) /\ n \in Nat /\ MaxHops(id) \in Nat /\ k \in 1 .. MaxHops(id)
      /\ Len(requests'[id]) = k
  <2>1. requests[id] \in Seq(Requests) /\ MaxHops(id) \in Nat
    BY Hops DEF IInv, Shape, MapsShape
  <2> QED
    BY <2>1 DEF Starts
<1>4. /\ r \in LogRefs /\ r.id = id /\ r.place = k
  BY <1>3 DEF Ref, LogRefs
<1>5. /\ log' = IF isRecording THEN Append(log, r) ELSE log
      /\ pageLoadOf' = IF isRecording /\ home[id] = Main /\ pageLoad # NoPageLoad
                       THEN [pageLoadOf EXCEPT ![id][k] = pageLoad] ELSE pageLoadOf
  BY <1>1, <1>3
<1> HIDE DEF r
<1>6. ASSUME NEW q, Exists(requests, q)
      PROVE  Exists(requests', q) /\ Manager(requests', q) = Manager(requests, q) /\ q # r
  BY <1>3, <1>4, <1>6 DEF Exists, Manager, Starts, LogRefs
<1>7. Exists(requests', r) /\ Manager(requests', r) = home[id]
  <2>1. requests'[id][k].manager = home[id] /\ Len(requests'[id]) = k
    BY <1>3 DEF Starts
  <2> QED
    BY <1>3, <1>4, <2>1 DEF Exists, Manager, LogRefs
<1>8. /\ log' \in Seq(LogRefs)
      /\ \A i \in 1 .. Len(log') : \/ i \in 1 .. L /\ log'[i] = log[i]
                                   \/ i = L + 1 /\ log'[i] = r /\ isRecording
  <2>1. CASE isRecording
    <3>1. log' = Append(log, r)
      BY <1>5, <2>1
    <3>2. /\ Append(log, r) \in Seq(LogRefs) /\ Len(Append(log, r)) = L + 1
          /\ Append(log, r)[L + 1] = r /\ \A i \in 1 .. L : Append(log, r)[i] = log[i]
      BY <1>2, <1>4
    <3> HIDE DEF L
    <3>3. \A i \in 1 .. L + 1 : i \in 1 .. L \/ i = L + 1
      BY <1>2
    <3> QED
      BY <2>1, <3>1, <3>2, <3>3
  <2>2. CASE ~isRecording
    <3>1. log' = log
      BY <1>5, <2>2
    <3> QED
      BY <1>2, <3>1
  <2> QED
    BY <2>1, <2>2
<1>9. pageLoadOf'[id] = IF isRecording /\ home[id] = Main /\ pageLoad # NoPageLoad
                        THEN [pageLoadOf[id] EXCEPT ![k] = pageLoad] ELSE pageLoadOf[id]
  BY <1>2, <1>5 DEF LogShape
<1>10. DOMAIN pageLoadOf' = Ids /\ \A j \in Ids \ {id} : pageLoadOf'[j] = pageLoadOf[j]
  BY <1>2, <1>5 DEF LogShape
<1> HIDE DEF n, k, L
<1>11. \A j \in Ids : pageLoadOf'[j] \in [1 .. MaxHops(j) -> PageLoads]
  <2>1. pageLoad \in PageLoads /\ \A j \in Ids : pageLoadOf[j] \in [1 .. MaxHops(j) -> PageLoads]
    BY <1>2 DEF LogShape
  <2>2. pageLoadOf'[id] \in [1 .. MaxHops(id) -> PageLoads]
    BY <1>3, <1>9, <2>1
  <2> QED
    BY <1>10, <2>1, <2>2
<1>12. LogShape'
  <2>1. \A i \in 1 .. Len(log') : Exists(requests', log'[i])
    BY <1>2, <1>6, <1>7, <1>8
  <2> QED
    BY <1>1, <1>2, <1>8, <1>10, <1>11, <2>1 DEF LogShape, PageLoads
<1>13. Distinct(log')
  <2> SUFFICES ASSUME NEW i \in 1 .. Len(log'), NEW j \in 1 .. Len(log'), log'[i] = log'[j] PROVE i = j
    BY DEF Distinct
  <2> QED
    <3>1. \A l \in 1 .. L : log[l] # r
      BY <1>2, <1>6
    <3> QED
      BY <1>2, <1>8, <3>1 DEF Distinct, L
<1>14. ASSUME NEW i \in 1 .. Len(log'), NEW j \in 1 .. Len(log'), i < j, log'[i].id = log'[j].id,
              loader[log'[i].id] \notin committed
       PROVE  log'[i].place < log'[j].place
  <2>1. CASE j \in 1 .. L /\ log'[j] = log[j]
    <3>1. i \in 1 .. L /\ log'[i] = log[i]
      BY <1>2, <1>8, <1>14, <2>1
    <3> QED
      BY <1>2, <1>14, <2>1, <3>1 DEF Ascending, L
  <2>2. CASE j = L + 1 /\ log'[j] = r
    <3>1. i \in 1 .. L /\ log'[i] = log[i]
      BY <1>2, <1>8, <1>14, <2>2
    <3>2. Exists(requests, log[i]) /\ log[i].id = id
      BY <1>2, <1>4, <1>14, <2>2, <3>1
    <3>3. log[i].place \in 1 .. n
      BY <3>2 DEF Exists, n
    <3> QED
      BY <1>3, <1>4, <2>2, <3>1, <3>3 DEF k
  <2> QED
    BY <1>8, <2>1, <2>2
<1>15. Ascending'
  BY <1>1, <1>14 DEF Ascending
<1>16. Committed'
  <2>1. ASSUME page \in Documents
        PROVE  phase'[page] \in Later
    <3>1. phase[page] \in Later /\ page \in Ids
      BY <1>2, <2>1, NetworkAssumption DEF Committed
    <3>2. page # id
      BY <3>1 DEF Starts, Later
    <3> QED
      BY <3>1, <3>2 DEF Starts
  <2> QED
    BY <1>1, <1>2, <2>1 DEF Committed
<1>17. ASSUME ~unseen, page \in Documents, NEW i \in 1 .. Len(log'), OfLastPage(requests', log'[i])
       PROVE  pageLoadOf'[log'[i].id][log'[i].place] = page
  <2>1. CASE i \in 1 .. L /\ log'[i] = log[i]
    <3> DEFINE q == log[i]
    <3>1. Exists(requests, q) /\ Manager(requests', q) = Manager(requests, q) /\ q # r /\ q.id \in Ids
      BY <1>2, <1>6, <2>1 DEF Exists, LogRefs
    <3>2. Manager(requests, q) = Main /\ loader[q.id] = page
      <4>1. Manager(requests', log'[i]) = Main /\ loader[log'[i].id] = page
        BY <1>1, <1>17 DEF OfLastPage
      <4>2. Manager(requests', q) = Main
        BY <2>1, <4>1 DEF Manager
      <4> QED
        BY <2>1, <3>1, <4>1, <4>2
    <3>3. pageLoadOf[q.id][q.place] = page
      BY <1>2, <1>17, <2>1, <3>2 DEF Shown, OfLastPage, L
    <3>4. pageLoadOf'[q.id][q.place] = pageLoadOf[q.id][q.place]
      <4>1. CASE q.id # id
        BY <1>10, <3>1, <4>1
      <4>2. CASE q.id = id
        <5>1. q.place \in 1 .. n
          BY <3>1, <4>2 DEF Exists, n
        <5>2. q.place # k /\ q.place \in 1 .. MaxHops(id)
          BY <1>3, <5>1 DEF k
        <5>3. pageLoadOf[id] \in [1 .. MaxHops(id) -> PageLoads]
          BY <1>2 DEF LogShape
        <5> QED
          BY <1>9, <4>2, <5>2, <5>3
      <4> QED
        BY <4>1, <4>2
    <3> QED
      BY <2>1, <3>3, <3>4
  <2>2. CASE log'[i] = r /\ isRecording
    <3>1. home[id] = Main
      <4>1. Manager(requests', log'[i]) = Main
        BY <1>17 DEF OfLastPage
      <4>2. Manager(requests', r) = Main
        BY <2>2, <4>1 DEF Manager
      <4> QED
        BY <1>7, <4>2
    <3>2. pageLoad = page /\ pageLoad # NoPageLoad
      BY <1>2, <1>17, <3>1, LogAssumption, NetworkAssumption DEF Committed, Starts
    <3>3. pageLoadOf[id] \in [1 .. MaxHops(id) -> PageLoads]
      BY <1>2 DEF LogShape
    <3>4. pageLoadOf'[id][k] = page
      BY <1>3, <1>9, <2>2, <3>1, <3>2, <3>3
    <3> QED
      BY <1>4, <2>2, <3>4
  <2> QED
    BY <1>8, <2>1, <2>2
<1>18. Shown'
  BY <1>1, <1>17 DEF Shown, OfLastPage
<1>19. Distinct(log)'
  BY <1>13 DEF Distinct
<1> QED
  BY <1>12, <1>15, <1>16, <1>18, <1>19 DEF LogInv

\* What the log is of when the document d is committed.
Added(d) == IF OfPage(d) = <<>> THEN <<>> ELSE Sources(Head(OfPage(d))) \o OfPage(d)

\* The requests of the document, led by the hops before the first: each of them once.
LEMMA AddedRequests ==
    ASSUME LogInv, NEW d \in Documents, d \notin committed
    PROVE  /\ Added(d) \in Seq(LogRefs) /\ Distinct(Added(d))
           /\ \A i \in 1 .. Len(Added(d)) : Exists(requests, Added(d)[i]) /\ loader[Added(d)[i].id] = d
           /\ \A i \in 1 .. Len(log) : Manager(requests, log[i]) = Main /\ loader[log[i].id] = d =>
                 \E j \in 1 .. Len(Added(d)) : Added(d)[j] = log[i]
           /\ Added(d) = <<>> <=> OfPage(d) = <<>>
<1> DEFINE T == {r \in Range(log) : requests[r.id][r.place].manager = Main /\ loader[r.id] = d}
           kept == OfPage(d)
<1>1. /\ log \in Seq(LogRefs) /\ \A i \in 1 .. Len(log) : Exists(requests, log[i])
      /\ Distinct(log) /\ Ascending
  BY DEF LogInv, LogShape
<1>2. kept = Only(log, T)
  BY DEF OfPage
<1>3. \A i \in 1 .. Len(log) : log[i] \in T <=> Manager(requests, log[i]) = Main /\ loader[log[i].id] = d
  <2>1. \A i \in 1 .. Len(log) : log[i] \in Range(log)
    BY <1>1 DEF Range
  <2> QED
    BY <2>1 DEF Manager
<1> HIDE DEF T, kept
<1>4. /\ kept \in Seq(LogRefs) /\ Distinct(kept)
      /\ \A i \in 1 .. Len(kept) : kept[i] \in T /\ \E k \in 1 .. Len(log) : kept[i] = log[k]
      /\ \A k \in 1 .. Len(log) : log[k] \in T => \E i \in 1 .. Len(kept) : kept[i] = log[k]
      /\ \A i, j \in 1 .. Len(kept) : i < j =>
            \E k, l \in 1 .. Len(log) : k < l /\ kept[i] = log[k] /\ kept[j] = log[l]
  <2>1. /\ Only(log, T) \in Seq(LogRefs)
        /\ \A i \in 1 .. Len(Only(log, T)) :
              Only(log, T)[i] \in T /\ \E k \in 1 .. Len(log) : Only(log, T)[i] = log[k]
        /\ \A k \in 1 .. Len(log) : log[k] \in T =>
              \E i \in 1 .. Len(Only(log, T)) : Only(log, T)[i] = log[k]
        /\ \A i, j \in 1 .. Len(Only(log, T)) : i < j =>
              \E k, l \in 1 .. Len(log) : k < l /\ Only(log, T)[i] = log[k] /\ Only(log, T)[j] = log[l]
        /\ Distinct(log) => Distinct(Only(log, T))
    BY <1>1, OnlyElements
  <2> QED
    BY <1>1, <1>2, <2>1
<1>5. \A i \in 1 .. Len(kept) : Exists(requests, kept[i]) /\ loader[kept[i].id] = d
  BY <1>1, <1>3, <1>4
<1>6. \A i \in 1 .. Len(log) : Manager(requests, log[i]) = Main /\ loader[log[i].id] = d =>
          \E j \in 1 .. Len(kept) : kept[j] = log[i]
  BY <1>3, <1>4
<1>7. CASE kept = <<>>
  <2>1. Added(d) = <<>> /\ kept = <<>> /\ Len(kept) = 0
    BY <1>7 DEF Added, kept
  <2>2. \A i \in 1 .. Len(log) : ~(Manager(requests, log[i]) = Main /\ loader[log[i].id] = d)
    BY <1>6, <2>1
  <2> QED
    BY <2>1, <2>2 DEF kept, Distinct
<1>8. CASE kept # <<>>
  <2> DEFINE h == kept[1]
             S == [i \in 1 .. h.place - 1 |-> Ref(h.id, h.place - i)]
  <2>1. Len(kept) \in Nat /\ 1 \in 1 .. Len(kept) /\ Head(kept) = h
    BY <1>4, <1>8
  <2>2. Added(d) = S \o kept
    BY <1>8, <2>1 DEF Added, Sources, kept
  <2>3. Exists(requests, h) /\ h \in LogRefs /\ h.place \in Nat \ {0} /\ h.id \in Ids /\ loader[h.id] = d
    BY <1>5, <2>1 DEF Exists, LogRefs
  <2> HIDE DEF h
  <2>4. /\ S \in Seq(LogRefs) /\ Len(S) = h.place - 1
        /\ \A i \in 1 .. h.place - 1 : S[i].id = h.id /\ S[i].place = h.place - i /\ S[i] \in LogRefs
    <3>1. \A i \in 1 .. h.place - 1 : Ref(h.id, h.place - i) \in LogRefs
      BY <2>3 DEF Ref, LogRefs
    <3>2. h.place - 1 \in Nat
      BY <2>3
    <3>3. \A i \in 1 .. h.place - 1 : S[i].id = h.id /\ S[i].place = h.place - i
      BY DEF Ref
    <3>4. S \in Seq(LogRefs) /\ Len(S) = h.place - 1
      BY <3>1, <3>2
    <3> QED
      BY <3>1, <3>3, <3>4
  <2> HIDE DEF S
  <2>5. \A i \in 1 .. Len(S) : Exists(requests, S[i]) /\ loader[S[i].id] = d
    <3> SUFFICES ASSUME NEW i \in 1 .. Len(S) PROVE S[i].place \in 1 .. Len(requests[h.id])
      BY <2>3, <2>4 DEF Exists
    <3>1. h.place \in 1 .. Len(requests[h.id]) /\ S[i].place = h.place - i /\ i \in 1 .. h.place - 1
      BY <2>3, <2>4 DEF Exists
    <3> QED
      BY <2>3, <3>1
  <2>6. Distinct(S)
    <3> SUFFICES ASSUME NEW i \in 1 .. Len(S), NEW j \in 1 .. Len(S), S[i] = S[j] PROVE i = j
      BY DEF Distinct
    <3>1. h.place - i = h.place - j
      BY <2>4
    <3> QED
      BY <2>3, <3>1
  <2>7. ASSUME NEW i \in 1 .. Len(S), NEW j \in 1 .. Len(kept), S[i] = kept[j]
        PROVE  FALSE
    <3>1. kept[j].id = h.id /\ kept[j].place = h.place - i /\ i \in 1 .. h.place - 1
      BY <2>4, <2>7
    <3>2. j # 1
      BY <2>3, <3>1 DEF h
    <3>3. 1 < j
      BY <2>1, <3>2
    <3>4. PICK k \in 1 .. Len(log), l \in 1 .. Len(log) : k < l /\ h = log[k] /\ kept[j] = log[l]
      BY <1>4, <2>1, <3>3 DEF h
    <3>5. h.place < kept[j].place
      BY <1>1, <2>3, <3>1, <3>4 DEF Ascending
    <3> QED
      BY <2>3, <3>1, <3>5
  <2>8. /\ S \o kept \in Seq(LogRefs) /\ Len(S \o kept) = Len(S) + Len(kept)
        /\ \A i \in 1 .. Len(S) + Len(kept) :
              \/ i \in 1 .. Len(S) /\ (S \o kept)[i] = S[i]
              \/ i - Len(S) \in 1 .. Len(kept) /\ (S \o kept)[i] = kept[i - Len(S)] /\ i > Len(S)
        /\ \A i \in 1 .. Len(S) : (S \o kept)[i] = S[i] /\ i \in 1 .. Len(S) + Len(kept)
        /\ \A i \in 1 .. Len(kept) :
              (S \o kept)[Len(S) + i] = kept[i] /\ Len(S) + i \in 1 .. Len(S) + Len(kept)
        /\ Distinct(S \o kept)
    <3>1. \A i \in 1 .. Len(S), j \in 1 .. Len(kept) : S[i] # kept[j]
      BY <2>7
    <3>2. S \in Seq(LogRefs) /\ kept \in Seq(LogRefs) /\ Distinct(S) /\ Distinct(kept)
      BY <1>4, <2>4, <2>6
    <3> QED
      BY ONLY <3>1, <3>2, InARow
  <2>9. \A i \in 1 .. Len(Added(d)) : Exists(requests, Added(d)[i]) /\ loader[Added(d)[i].id] = d
    BY <1>5, <2>2, <2>5, <2>8
  <2>10. \A i \in 1 .. Len(kept) : \E j \in 1 .. Len(Added(d)) : Added(d)[j] = kept[i]
    BY <2>2, <2>8
  <2>11. \A i \in 1 .. Len(log) : Manager(requests, log[i]) = Main /\ loader[log[i].id] = d =>
             \E j \in 1 .. Len(Added(d)) : Added(d)[j] = log[i]
    BY <1>6, <2>10
  <2>12. Added(d) # <<>> /\ OfPage(d) # <<>>
    <3>1. \E j \in 1 .. Len(Added(d)) : Added(d)[j] = kept[1]
      BY <2>1, <2>10
    <3> QED
      BY <1>8, <3>1 DEF kept
  <2> QED
    BY <2>2, <2>8, <2>9, <2>11, <2>12
<1> QED
  BY <1>7, <1>8

\* The commit of a document.
LEMMA CommitLog ==
    ASSUME IInv, LogInv, \A id \in Ids : Len(requests[id]) <= MaxHops(id),
           NEW d \in Documents, NEW preserve \in BOOLEAN, MainFrameNavigated(d, preserve)
    PROVE  LogInv'
<1> DEFINE added == Added(d)
           rest == Only(log, Range(log) \ Range(added))
<1>1. /\ d \notin committed /\ phase[d] \in Later /\ origin[d] = Main /\ home[d] = Main
      /\ page' = d /\ committed' = committed \cup {d}
      /\ unseen' = (~isRecording \/ OfPage(d) = <<>>)
      /\ UNCHANGED <<requests, models, phase, origin, home, isRecording, loader>>
  BY DEF MainFrameNavigated, Later, networkVars, modelVars, loadVars
<1>2. /\ isRecording => /\ log' = IF preserve THEN added \o rest ELSE added
                        /\ pageLoad' = IF OfPage(d) = <<>> THEN pageLoad ELSE d
                        /\ pageLoadOf' = [id \in Ids |-> [k \in DOMAIN pageLoadOf[id] |->
                               IF Ref(id, k) \in Range(added) THEN d ELSE pageLoadOf[id][k]]]
      /\ ~isRecording => UNCHANGED <<log, pageLoad, pageLoadOf>>
  BY DEF MainFrameNavigated, OnMainFrameNavigated, Added
<1>3. LogShape /\ Distinct(log) /\ Ascending /\ Committed /\ d \in Ids
  BY NetworkAssumption DEF LogInv
<1>4. /\ added \in Seq(LogRefs) /\ Distinct(added)
      /\ \A i \in 1 .. Len(added) : Exists(requests, added[i]) /\ loader[added[i].id] = d
      /\ \A i \in 1 .. Len(log) : Manager(requests, log[i]) = Main /\ loader[log[i].id] = d =>
            \E j \in 1 .. Len(added) : added[j] = log[i]
  BY <1>1, AddedRequests
<1> HIDE DEF added
<1>5. /\ log \in Seq(LogRefs) /\ \A i \in 1 .. Len(log) : Exists(requests, log[i])
      /\ isRecording \in BOOLEAN /\ pageLoad \in PageLoads
      /\ DOMAIN pageLoadOf = Ids /\ \A id \in Ids : pageLoadOf[id] \in [1 .. MaxHops(id) -> PageLoads]
      /\ \A c \in Documents : loader[c] = c
  BY <1>3 DEF LogShape
<1>6. \A i \in 1 .. Len(added) : added[i] \in Range(added)
  BY <1>4 DEF Range
<1>7. /\ rest \in Seq(LogRefs) /\ Distinct(rest)
      /\ \A i \in 1 .. Len(rest) : rest[i] \notin Range(added)
                                   /\ \E k \in 1 .. Len(log) : rest[i] = log[k]
      /\ \A i, j \in 1 .. Len(rest) : i < j =>
            \E k, l \in 1 .. Len(log) : k < l /\ rest[i] = log[k] /\ rest[j] = log[l]
  <2> DEFINE T == Range(log) \ Range(added)
  <2> HIDE DEF T
  <2>1. /\ Only(log, T) \in Seq(LogRefs)
        /\ \A i \in 1 .. Len(Only(log, T)) :
              Only(log, T)[i] \in T /\ \E k \in 1 .. Len(log) : Only(log, T)[i] = log[k]
        /\ \A k \in 1 .. Len(log) : log[k] \in T =>
              \E i \in 1 .. Len(Only(log, T)) : Only(log, T)[i] = log[k]
        /\ \A i, j \in 1 .. Len(Only(log, T)) : i < j =>
              \E k, l \in 1 .. Len(log) : k < l /\ Only(log, T)[i] = log[k] /\ Only(log, T)[j] = log[l]
        /\ Distinct(log) => Distinct(Only(log, T))
    BY <1>5, OnlyElements
  <2> QED
    BY <1>3, <2>1 DEF T
<1> HIDE DEF rest
<1>8. CASE ~isRecording
  <2>1. UNCHANGED <<log, pageLoad, pageLoadOf>> /\ unseen' = TRUE
    BY <1>1, <1>2, <1>8
  <2>2. LogShape'
    BY <1>1, <1>3, <2>1 DEF LogShape, PageLoads
  <2>3. Distinct(log)' /\ Ascending'
    BY <1>1, <1>3, <2>1 DEF Distinct, Ascending
  <2>4. Committed' /\ Shown'
    BY <1>1, <1>3, <2>1 DEF Committed, Shown
  <2> QED
    BY <2>2, <2>3, <2>4 DEF LogInv
<1>9. CASE isRecording
  <2>1. /\ log' = IF preserve THEN added \o rest ELSE added
        /\ pageLoad' = IF OfPage(d) = <<>> THEN pageLoad ELSE d
        /\ pageLoadOf' = [id \in Ids |-> [k \in DOMAIN pageLoadOf[id] |->
               IF Ref(id, k) \in Range(added) THEN d ELSE pageLoadOf[id][k]]]
    BY <1>2, <1>9
  <2>2. /\ added \o rest \in Seq(LogRefs)
        /\ \A i \in 1 .. Len(added \o rest) :
              \/ i \in 1 .. Len(added) /\ (added \o rest)[i] = added[i]
              \/ /\ i - Len(added) \in 1 .. Len(rest) /\ (added \o rest)[i] = rest[i - Len(added)]
                 /\ i > Len(added)
        /\ Distinct(added \o rest)
    <3>1. \A i \in 1 .. Len(added), j \in 1 .. Len(rest) : added[i] # rest[j]
      BY <1>6, <1>7
    <3>2. /\ added \o rest \in Seq(LogRefs) /\ Len(added \o rest) = Len(added) + Len(rest)
          /\ \A i \in 1 .. Len(added) + Len(rest) :
              \/ i \in 1 .. Len(added) /\ (added \o rest)[i] = added[i]
              \/ /\ i - Len(added) \in 1 .. Len(rest) /\ (added \o rest)[i] = rest[i - Len(added)]
                 /\ i > Len(added)
          /\ Distinct(added \o rest)
      BY <1>4, <1>7, <3>1, InARow
    <3> QED
      BY <3>2
  <2>3. /\ log' \in Seq(LogRefs) /\ Distinct(log') /\ Len(added) \in Nat
        /\ \A i \in 1 .. Len(log') :
              \/ i \in 1 .. Len(added) /\ log'[i] = added[i]
              \/ i - Len(added) \in 1 .. Len(rest) /\ log'[i] = rest[i - Len(added)] /\ i > Len(added)
    <3>1. CASE preserve
      <4>1. log' = added \o rest
        BY <2>1, <3>1
      <4> QED
        BY <1>4, <2>2, <4>1
    <3>2. CASE ~preserve
      <4>1. log' = added
        BY <2>1, <3>2
      <4> QED
        BY <1>4, <4>1
    <3> QED
      BY <3>1, <3>2
  <2>4. \A i \in 1 .. Len(log') : Exists(requests, log'[i])
    <3>1. \A i \in 1 .. Len(rest) : Exists(requests, rest[i])
      BY <1>5, <1>7
    <3>2. \A i \in 1 .. Len(added) : Exists(requests, added[i])
      BY <1>4
    <3> QED
      BY ONLY <2>3, <3>1, <3>2
  <2>5. \A id \in Ids : \A k \in 1 .. MaxHops(id) :
            pageLoadOf'[id][k] = IF Ref(id, k) \in Range(added) THEN d ELSE pageLoadOf[id][k]
    BY <1>5, <2>1
  <2>6. \A id \in Ids : pageLoadOf'[id] \in [1 .. MaxHops(id) -> PageLoads]
    <3> SUFFICES ASSUME NEW id \in Ids PROVE pageLoadOf'[id] \in [1 .. MaxHops(id) -> PageLoads]
      OBVIOUS
    <3>1. pageLoadOf'[id] = [k \in 1 .. MaxHops(id) |->
                                 IF Ref(id, k) \in Range(added) THEN d ELSE pageLoadOf[id][k]]
      BY <1>5, <2>1
    <3>2. d \in PageLoads /\ \A k \in 1 .. MaxHops(id) : pageLoadOf[id][k] \in PageLoads
      BY <1>5 DEF PageLoads
    <3> QED
      BY <3>1, <3>2
  <2>7. LogShape'
    <3>1. pageLoad' \in PageLoads /\ DOMAIN pageLoadOf' = Ids
      BY <1>5, <2>1 DEF PageLoads
    <3>2. committed' \subseteq Documents /\ unseen' \in BOOLEAN
      BY <1>1, <1>3, <1>5 DEF LogShape
    <3> QED
      BY <1>1, <1>5, <2>3, <2>4, <2>6, <3>1, <3>2 DEF LogShape, PageLoads
  <2>8. ASSUME NEW i \in 1 .. Len(log'), NEW j \in 1 .. Len(log'), i < j, log'[i].id = log'[j].id,
               loader[log'[i].id] \notin committed \cup {d}
        PROVE  log'[i].place < log'[j].place
    <3>1. /\ i - Len(added) \in 1 .. Len(rest) /\ log'[i] = rest[i - Len(added)]
          /\ j - Len(added) \in 1 .. Len(rest) /\ log'[j] = rest[j - Len(added)]
      BY <1>4, <2>3, <2>8
    <3>2. i - Len(added) < j - Len(added)
      BY <2>3, <2>8
    <3>3. PICK x \in 1 .. Len(rest), y \in 1 .. Len(rest) :
              x < y /\ log'[i] = rest[x] /\ log'[j] = rest[y]
      BY <3>1, <3>2
    <3>4. PICK k \in 1 .. Len(log), l \in 1 .. Len(log) :
              k < l /\ log'[i] = log[k] /\ log'[j] = log[l]
      <4>1. \E k, l \in 1 .. Len(log) : k < l /\ rest[x] = log[k] /\ rest[y] = log[l]
        BY <1>7, <3>3
      <4> QED
        BY <3>3, <4>1
    <3> QED
      BY <1>3, <2>8, <3>4 DEF Ascending
  <2>9. Ascending'
    BY <1>1, <2>8 DEF Ascending
  <2>10. Committed'
    <3>1. ~unseen' => pageLoad' = d
      BY <1>1, <2>1
    <3> QED
      BY <1>1, <1>3, <3>1 DEF Committed
  <2>11. ASSUME ~unseen', NEW i \in 1 .. Len(log'), Manager(requests, log'[i]) = Main,
                loader[log'[i].id] = d
         PROVE  pageLoadOf'[log'[i].id][log'[i].place] = d
    <3> DEFINE r == log'[i]
    <3>1. r \in Range(added)
      <4>1. CASE i \in 1 .. Len(added) /\ log'[i] = added[i]
        BY <1>6, <4>1
      <4>2. CASE i - Len(added) \in 1 .. Len(rest) /\ log'[i] = rest[i - Len(added)]
        <5>1. PICK k \in 1 .. Len(log) : log'[i] = log[k]
          BY <1>7, <4>2
        <5>2. \E j \in 1 .. Len(added) : added[j] = log'[i]
          BY <1>4, <2>11, <5>1
        <5> QED
          BY <1>6, <5>2
      <4> QED
        BY <2>3, <4>1, <4>2
    <3>2. Exists(requests, r)
      BY <2>4
    <3> HIDE DEF r
    <3>3. r = Ref(r.id, r.place) /\ r.id \in Ids /\ r.place \in 1 .. Len(requests[r.id])
      BY <3>2 DEF Exists, LogRefs, Ref
    <3>4. r.place \in 1 .. MaxHops(r.id)
      <4>1. MaxHops(r.id) \in Nat /\ Len(requests[r.id]) <= MaxHops(r.id) /\ Len(requests[r.id]) \in Nat
        BY <3>3, Hops DEF IInv, Shape, MapsShape
      <4> QED
        BY <3>3, <4>1
    <3>5. pageLoadOf'[r.id][r.place] = d
      BY <2>5, <3>1, <3>3, <3>4
    <3> QED
      BY <3>5 DEF r
  <2>12. Shown'
    <3> SUFFICES ASSUME ~unseen', NEW i \in 1 .. Len(log'), OfLastPage(requests, log[i])'
                 PROVE  pageLoadOf'[log'[i].id][log'[i].place] = page'
      BY DEF Shown
    <3>1. Manager(requests, log'[i]) = Main /\ loader[log'[i].id] = d
      BY <1>1 DEF OfLastPage, Manager
    <3> QED
      BY <1>1, <2>11, <3>1
  <2>13. Distinct(log)'
    BY <2>3 DEF Distinct
  <2> QED
    BY <2>7, <2>9, <2>10, <2>12, <2>13 DEF LogInv
<1> QED
  BY <1>5, <1>8, <1>9

\* The log is emptied, or kept.
LEMMA EmptiedLog ==
    ASSUME LogInv, UNCHANGED <<requests, models, phase, origin, home, pageLoadOf, loader, page, committed, unseen>>,
           isRecording' \in BOOLEAN, Emptied \/ UNCHANGED <<log, pageLoad>>
    PROVE  LogInv'
<1>1. LogShape /\ Distinct(log) /\ Ascending /\ Committed /\ Shown
  BY DEF LogInv
<1>2. CASE UNCHANGED <<log, pageLoad>>
  <2>1. LogShape' /\ Distinct(log)' /\ Ascending'
    BY <1>1, <1>2 DEF LogShape, PageLoads, Exists, Distinct, Ascending
  <2>2. Committed' /\ Shown'
    BY <1>1, <1>2 DEF Committed, Shown, OfLastPage, Manager
  <2> QED
    BY <2>1, <2>2 DEF LogInv
<1>3. CASE Emptied
  <2>1. log' = <<>> /\ pageLoad' = IF Main \in models THEN pageLoad ELSE NoPageLoad
    BY <1>3 DEF Emptied
  <2>2. log' \in Seq(LogRefs) /\ Len(log') = 0
    BY <2>1
  <2>3. LogShape'
    BY <1>1, <2>1, <2>2 DEF LogShape, PageLoads
  <2>4. Distinct(log)' /\ Ascending' /\ Shown'
    BY <2>2 DEF Distinct, Ascending, Shown
  <2>5. Committed'
    BY <1>1, <2>1 DEF Committed
  <2> QED
    BY <2>3, <2>4, <2>5 DEF LogInv
<1> QED
  BY <1>2, <1>3

\* An error page changes nothing of the log; a document that fails was not committed.
LEMMA ErrorPageLog ==
    ASSUME LogInv, NEW d \in Documents, ErrorPageNavigated(d)
    PROVE  LogInv'
<1>1. /\ committed' = committed \cup {d}
      /\ UNCHANGED <<requests, models, phase, origin, home, log, isRecording, pageLoad, pageLoadOf,
                    loader, page, unseen>>
  BY DEF ErrorPageNavigated, networkVars, modelVars, loadVars, logVars
<1>2. LogShape /\ Distinct(log) /\ Ascending /\ Committed /\ Shown
  BY DEF LogInv
<1>3. LogShape'
  BY <1>1, <1>2 DEF LogShape, PageLoads, Exists
<1>4. Distinct(log)' /\ Ascending'
  BY <1>1, <1>2 DEF Distinct, Ascending
<1>5. Committed' /\ Shown'
  BY <1>1, <1>2 DEF Committed, Shown, OfLastPage, Manager
<1> QED
  BY <1>3, <1>4, <1>5 DEF LogInv

--------------------------------------------------------------------------------
(* The log: which handlers start a request. *)

\* A request of a load that has not been answered, or is not of a document, is of the
\* manager that the load began with.
LEMMA AtOrigin ==
    IInv => \A id \in Ids : id \notin Documents \/ phase[id] \in {"new", "sent", "open"} =>
                /\ home[id] = origin[id]
                /\ \A k \in 1 .. Len(requests[id]) : requests[id][k].manager = origin[id]
BY DEF IInv, Course, Maps, MapsFit

\* A handler of the load id, which keeps its home and the number of its requests.
LEMMA OneQuiet ==
    ASSUME IInv, IInv', NEW id \in Ids, UNCHANGED <<models, origin, home>>,
           \A j \in Ids \ {id} : Len(requests'[j]) = Len(requests[j]) /\ phase'[j] = phase[j],
           Len(requests'[id]) = Len(requests[id]), phase[id] \in Later => phase'[id] \in Later
    PROVE  Quiet
<1>1. ASSUME NEW j \in Ids, j \notin Documents, NEW k \in 1 .. Len(requests[j])
      PROVE  requests'[j][k].manager = requests[j][k].manager
  <2>1. requests[j][k].manager = origin[j]
    BY <1>1, AtOrigin
  <2>2. k \in 1 .. Len(requests'[j])
    BY <1>1
  <2>3. requests'[j][k].manager = origin[j]
    BY <1>1, <2>2 DEF IInv, Course, Maps, MapsFit
  <2> QED
    BY <2>1, <2>3
<1> QED
  BY <1>1 DEF Quiet

\* Syncing keeps the number of requests.
LEMMA SyncQuiet ==
    ASSUME IInv, IInv', NEW m, NEW id \in Ids, NEW c, NEW i, Sync(m, id, c, i)
    PROVE  \A j \in Ids : Len(requests'[j]) = Len(requests[j])
<1>1. requests \in [Ids -> Seq(Requests)] /\ requests' \in [Ids -> Seq(Requests)]
  BY DEF IInv, Shape, MapsShape, Requests
<1>2. ASSUME NEW rs, rs = [requests[id] EXCEPT ![c.requests[i]] = Given(@, c, i)],
             requests' = [requests EXCEPT ![id] = rs]
      PROVE  \A j \in Ids : Len(requests'[j]) = Len(requests[j])
  <2>1. DOMAIN rs = DOMAIN requests[id] /\ requests'[id] = rs
    BY <1>1, <1>2
  <2>2. Len(rs) = Len(requests[id])
    <3>1. rs \in Seq(Requests) /\ requests[id] \in Seq(Requests)
      BY <1>1, <2>1
    <3> QED
      BY <2>1, <3>1
  <2> QED
    BY <1>1, <1>2, <2>1, <2>2
<1> QED
  BY <1>2 DEF Sync

\* The handlers of the dispatchers that start no request.
LEMMA HandlerQuiet ==
    ASSUME IInv, IInv', NEW id \in Ids,
           Missed(id) \/ DataReceived(id) \/ LoadingFinished(id) \/ LoadingFailed(id) \/ WebSocketClosed(id)
    PROVE  Quiet
<1>1. /\ phase \in [Ids -> Phases] /\ requests \in [Ids -> Seq(Requests)]
      /\ phase[id] \in {"sent", "open", "answered", "received"} => home[id] \in models
  BY DEF IInv, Shape, MapsShape, BrowserShape, Course
<1>2. CASE Missed(id)
  BY <1>1, <1>2, OneQuiet DEF Missed, modelVars, Later
<1>3. CASE DataReceived(id)
  <2>1. /\ phase' = [phase EXCEPT ![id] = "received"] /\ requests' = AdoptedRequests(id)
        /\ UNCHANGED <<models, origin, home>>
    BY <1>3 DEF DataReceived
  <2> QED
    BY <1>1, <2>1, AdoptedInfos, OneQuiet DEF Later
<1>4. ASSUME NEW adopting \in BOOLEAN, Ended(id, adopting),
             phase[id] \in {"sent", "open", "answered", "received"},
             UNCHANGED requests \/ (Known(id) # 0 /\ Finish(id))
      PROVE  Quiet
  <2>1. UNCHANGED <<models, origin, home>> /\ phase' = [phase EXCEPT ![id] = "ended"]
    BY <1>4 DEF Ended
  <2>2. \A j \in Ids : Len(requests'[j]) = Len(requests[j])
    BY <1>1, <1>4, FinishedInfos DEF SameInfos
  <2> QED
    BY <1>1, <2>1, <2>2, OneQuiet DEF Later
<1>5. CASE LoadingFinished(id)
  <2>1. /\ phase[id] \in {"sent", "open", "answered", "received"} /\ Ended(id, TRUE)
        /\ UNCHANGED requests \/ (Known(id) # 0 /\ Finish(id))
    <3>1. /\ phase[id] \in {"answered", "received"} /\ Ended(id, TRUE)
          /\ IF Known(id) = 0 THEN UNCHANGED modelVars ELSE Finish(id) /\ BuilderFinished(id)
      BY <1>5 DEF LoadingFinished
    <3>2. UNCHANGED modelVars => UNCHANGED requests
      BY DEF modelVars
    <3>3. UNCHANGED requests \/ (Known(id) # 0 /\ Finish(id))
      BY <3>1, <3>2
    <3> QED
      BY <3>1, <3>3
  <2> QED
    BY <1>4, <2>1
<1>6. inflightById[home[id]][id] # 0 => Known(id) # 0
  BY DEF Known, AdoptedById, Adopts
<1>7. CASE LoadingFailed(id)
  <2>1. /\ phase[id] \in {"sent", "open", "answered", "received"} /\ Ended(id, FALSE)
        /\ UNCHANGED requests \/ (Known(id) # 0 /\ Finish(id))
    <3>1. /\ phase[id] \in {"sent", "answered", "received"} /\ Ended(id, FALSE)
          /\ IF inflightById[home[id]][id] = 0 THEN UNCHANGED modelVars
             ELSE Finish(id) /\ BuilderFinished(id)
      BY <1>7 DEF LoadingFailed
    <3>2. UNCHANGED modelVars => UNCHANGED requests
      BY DEF modelVars
    <3>3. UNCHANGED requests \/ (Known(id) # 0 /\ Finish(id))
      BY <1>6, <3>1, <3>2
    <3> QED
      BY <3>1, <3>3
  <2> QED
    BY <1>4, <2>1
<1>8. CASE WebSocketClosed(id)
  <2>1. phase[id] = "open" /\ Finish(id) /\ Ended(id, FALSE)
    BY <1>8 DEF WebSocketClosed
  <2>2. Known(id) # 0
    BY <1>6, <2>1 DEF IInv, Course
  <2> QED
    BY <1>4, <2>1, <2>2
<1> QED
  BY <1>2, <1>3, <1>5, <1>7, <1>8

\* The same of those that are told which manager they are of.
LEMMA TargetQuiet ==
    ASSUME IInv, IInv', NEW id \in Ids, NEW m \in Managers,
           ResponseReceived(id, m) \/ RequestWillBeSentExtraInfo(id, m) \/ ResponseReceivedExtraInfo(id, m)
    PROVE  Quiet
<1>1. /\ phase \in [Ids -> Phases] /\ home \in [Ids -> Managers]
      /\ \A j \in Ids : j \notin Documents \/ phase[j] \in {"new", "sent", "open"} =>
              /\ home[j] = origin[j]
              /\ \A k \in 1 .. Len(requests[j]) : requests[j][k].manager = origin[j]
  BY AtOrigin DEF IInv, Shape, BrowserShape
<1>2. CASE ResponseReceived(id, m)
  <2>1. /\ phase[id] = "sent" /\ phase' = [phase EXCEPT ![id] = "answered"]
        /\ home' = [home EXCEPT ![id] = m]
        /\ UNCHANGED <<models, origin>>
    BY <1>2 DEF ResponseReceived
  <2>2. \A j \in Ids : phase[j] \in Later => phase'[j] \in Later /\ home'[j] = home[j]
    BY <1>1, <2>1 DEF Later
  <2>3. /\ \A j \in Ids \ {id} : requests'[j] = requests[j]
        /\ Len(requests'[id]) = Len(requests[id])
        /\ \A k \in 1 .. Len(requests[id]) : requests'[id][k].manager = requests[id][k].manager
    BY <1>2, Receiving
  <2>4. \A j \in Ids : /\ Len(requests'[j]) = Len(requests[j])
                       /\ \A k \in 1 .. Len(requests[j]) :
                             requests'[j][k].manager = requests[j][k].manager
    BY <2>3
  <2> QED
    BY <2>1, <2>2, <2>4 DEF Quiet
<1>3. CASE RequestWillBeSentExtraInfo(id, m)
  <2>1. PICK c, i : Sync(m, id, c, i)
    BY <1>3 DEF RequestWillBeSentExtraInfo
  <2>2. UNCHANGED <<models, origin, home, phase>>
    BY <1>3 DEF RequestWillBeSentExtraInfo, loadVars
  <2> QED
    BY <2>1, <2>2, SyncQuiet, OneQuiet
<1>4. CASE ResponseReceivedExtraInfo(id, m)
  <2>1. PICK c, i : Sync(m, id, c, i)
    BY <1>4 DEF ResponseReceivedExtraInfo
  <2>2. UNCHANGED <<models, origin, home, phase>>
    BY <1>4 DEF ResponseReceivedExtraInfo, loadVars
  <2> QED
    BY <2>1, <2>2, SyncQuiet, OneQuiet
<1> QED
  BY <1>2, <1>3, <1>4

\* A target that goes takes no request with it.
LEMMA RemovalQuiet ==
    ASSUME IInv, NEW m \in Managers, ModelRemoved(m)
    PROVE  Quiet
BY DEF ModelRemoved, Quiet, Later, IInv, Shape, BrowserShape

\* The handlers that start one.
LEMMA HandlerStarts ==
    ASSUME IInv, IInv', InfoInv', NEW id \in Ids,
           RequestWillBeSent(id) \/ Redirected(id) \/ WebSocketCreated(id)
    PROVE  Starts(id)
<1>1. /\ phase \in [Ids -> Phases] /\ requests \in [Ids -> Seq(Requests)] /\ requests[id] \in Seq(Requests)
      /\ phase[id] = "sent" => home[id] \in models
      /\ Maps(id) /\ Course(id)
  BY DEF IInv, Shape, MapsShape, BrowserShape, Course
<1>2. ASSUME NEW rs, NEW byURL, Sent(id, rs, byURL)
      PROVE  /\ \E r : requests' = [requests EXCEPT ![id] = Append(rs, r)]
             /\ phase' = [phase EXCEPT ![id] = "sent"]
             /\ UNCHANGED <<models, origin, home>>
  BY <1>2 DEF Sent, Start
<1>3. /\ phase[id] \in {"new", "sent"} /\ home[id] \in models
      /\ UNCHANGED <<models, origin, home>>
      /\ \E p \in {"sent", "open"} : phase' = [phase EXCEPT ![id] = p]
      /\ \E rs \in Seq(Requests) :
            /\ Len(rs) = Len(requests[id])
            /\ \E r : requests' = [requests EXCEPT ![id] = Append(rs, r)]
  <2>1. CASE RequestWillBeSent(id)
    <3>1. phase[id] = "new" /\ home[id] \in models /\ Sent(id, requests[id], inflightByURL)
      BY <2>1 DEF RequestWillBeSent
    <3> QED
      BY <1>1, <1>2, <3>1
  <2>2. CASE Redirected(id)
    <3> DEFINE k == inflightById[home[id]][id]
    <3>1. /\ phase[id] = "sent" /\ home[id] \in models
          /\ \/ k = 0 /\ Sent(id, requests[id], inflightByURL)
             \/ k # 0 /\ \E url \in ResponseUrls(id, k) :
                   Sent(id, [Updated(id, k, url) EXCEPT ![k].finished = TRUE],
                        [inflightByURL EXCEPT ![home[id]][url] = NoRequest])
      BY <1>1, <2>2 DEF Redirected
    <3>2. CASE k = 0
      <4>1. Sent(id, requests[id], inflightByURL)
        BY <3>1, <3>2
      <4> QED
        BY <1>1, <1>2, <3>1, <4>1
    <3>3. CASE k # 0
      <4>1. PICK url \in ResponseUrls(id, k) :
                Sent(id, [Updated(id, k, url) EXCEPT ![k].finished = TRUE],
                     [inflightByURL EXCEPT ![home[id]][url] = NoRequest])
        BY <3>1, <3>3
      <4> DEFINE q == Updated(id, k, url)
                 rs == [q EXCEPT ![k].finished = TRUE]
      <4>2. k \in 1 .. Len(requests[id]) /\ q \in Seq(Requests) /\ Len(q) = Len(requests[id])
        <5>1. phase[id] = "sent" /\ k \in Nat \ {0} /\ k = inflightById[home[id]][id]
          BY <3>1, <3>3 DEF IInv, Shape, MapsShape, BrowserShape
        <5>2. IInv /\ url \in ResponseUrls(id, k)
          BY <4>1
        <5> HIDE DEF k
        <5>3. /\ k \in 1 .. Len(requests[id]) /\ ~requests[id][k].finished /\ url \in Urls
              /\ SameButUrl(requests[id], Updated(id, k, url), k, url)
              /\ KnownAs(id, Updated(id, k, url), k, url)
          BY ONLY id \in Ids, <5>1, <5>2, Renaming
        <5> QED
          BY ONLY <5>3 DEF SameButUrl
      <4> HIDE DEF k, q
      <4>3. q[k] \in Requests
        BY <4>2
      <4>4. [q[k] EXCEPT !.finished = TRUE] \in Requests
        BY <4>3 DEF Requests
      <4>5. rs \in Seq(Requests) /\ Len(rs) = Len(requests[id])
        <5> DEFINE x == [q[k] EXCEPT !.finished = TRUE]
        <5>1. q \in Seq(Requests) /\ k \in 1 .. Len(q) /\ x \in Requests /\ rs = [q EXCEPT ![k] = x]
          BY <4>2, <4>4
        <5> HIDE DEF x, rs
        <5>2. rs \in Seq(Requests) /\ Len(rs) = Len(q)
          BY ONLY <5>1
        <5> QED
          BY <4>2, <5>2
      <4>6. Sent(id, rs, [inflightByURL EXCEPT ![home[id]][url] = NoRequest])
        BY <4>1 DEF rs, q
      <4> HIDE DEF rs
      <4> QED
        BY <1>2, <3>1, <4>5, <4>6
    <3> QED
      BY <3>2, <3>3
  <2>3. CASE WebSocketCreated(id)
    <3>1. /\ phase[id] = "new" /\ home[id] \in models
          /\ requests' = [requests EXCEPT ![id] = Append(requests[id], Request(id))]
          /\ phase' = [phase EXCEPT ![id] = "open"]
          /\ UNCHANGED <<models, origin, home>>
      BY <2>3 DEF WebSocketCreated, Start
    <3> QED
      BY <1>1, <3>1
  <2> QED
    BY <2>1, <2>2, <2>3
<1>4. PICK rs \in Seq(Requests) :
          /\ Len(rs) = Len(requests[id])
          /\ \E r : requests' = [requests EXCEPT ![id] = Append(rs, r)]
  BY <1>3
<1>5. /\ requests'[id] \in Seq(Requests) /\ Len(requests'[id]) = Len(requests[id]) + 1
      /\ phase'[id] \in {"sent", "open"}
      /\ \A j \in Ids \ {id} : requests'[j] = requests[j] /\ phase'[j] = phase[j]
  <2>1. PICK r : requests' = [requests EXCEPT ![id] = Append(rs, r)]
    BY <1>4
  <2>2. /\ requests'[id] = Append(rs, r)
        /\ \A j \in Ids \ {id} : requests'[j] = requests[j] /\ phase'[j] = phase[j]
        /\ phase'[id] \in {"sent", "open"}
    BY <1>1, <1>3, <2>1
  <2>3. requests'[id] \in Seq(Requests)
    BY DEF IInv, Shape, MapsShape, Requests
  <2>4. Len(Append(rs, r)) = Len(rs) + 1
    OBVIOUS
  <2> QED
    BY <1>4, <2>2, <2>3, <2>4
<1>6. Len(requests'[id]) <= MaxHops(id)
  <2>1. MaxHops(id) \in Nat /\ Len(requests'[id]) \in Nat
    BY <1>1, <1>5, Hops
  <2>2. /\ Len(requests'[id]) <= hop'[id] /\ hop'[id] \in 0 .. plan'[id].hops
        /\ plan'[id].hops \in 1 .. MaxHops(id)
    BY DEF InfoInv, InfosOf, Counted, IInv, Shape, BrowserShape
  <2> QED
    BY <2>1, <2>2
<1>7. home[id] = origin[id] /\ \A k \in 1 .. Len(requests[id]) : requests[id][k].manager = origin[id]
  BY <1>3, AtOrigin
<1>8. \A k \in 1 .. Len(requests'[id]) : requests'[id][k].manager = origin[id]
  <2>1. Maps(id)' /\ Course(id)'
    BY DEF IInv
  <2>2. \A k \in 1 .. Len(requests'[id]) : requests'[id][k].manager \in {origin'[id], home'[id]}
    BY <2>1 DEF Maps, MapsFit
  <2> QED
    BY <1>3, <1>7, <2>2
<1>9. \A k \in 1 .. Len(requests[id]) + 1 : k \in 1 .. Len(requests'[id])
  BY <1>5
<1>10. \A k \in 1 .. Len(requests[id]) : k \in 1 .. Len(requests[id]) + 1
  BY <1>1
<1>11. Len(requests[id]) + 1 \in 1 .. Len(requests[id]) + 1
  BY <1>1
<1> QED
  BY <1>3, <1>5, <1>6, <1>7, <1>8, <1>9, <1>10, <1>11 DEF Starts

--------------------------------------------------------------------------------
(* The log: the theorems. *)

\* The log is empty at the start.
LEMMA LogInit == Init => LogInv
<1> SUFFICES ASSUME Init PROVE LogInv
  OBVIOUS
<1>1. /\ log = <<>> /\ isRecording = TRUE /\ pageLoad = NoPageLoad
      /\ pageLoadOf = [id \in Ids |-> [k \in 1 .. MaxHops(id) |-> NoPageLoad]]
      /\ \A d \in Documents : loader[d] = d
      /\ page = InitialPage /\ committed = {} /\ unseen = FALSE
  BY DEF Init
<1>2. InitialPage \notin Documents
  BY NetworkAssumption, LogAssumption
<1>3. log \in Seq(LogRefs) /\ Len(log) = 0
  BY <1>1
<1>4. \A id \in Ids : pageLoadOf[id] \in [1 .. MaxHops(id) -> PageLoads]
  BY <1>1 DEF PageLoads
<1>5. LogShape
  <2>1. \A i \in 1 .. Len(log) : Exists(requests, log[i])
    BY <1>3
  <2>2. /\ pageLoad \in PageLoads /\ DOMAIN pageLoadOf = Ids
        /\ page \in Documents \cup {InitialPage} /\ committed \subseteq Documents
    BY <1>1 DEF PageLoads
  <2>3. isRecording \in BOOLEAN /\ unseen \in BOOLEAN
    BY <1>1
  <2> QED
    BY <1>1, <1>3, <1>4, <2>1, <2>2, <2>3 DEF LogShape
<1>6. Distinct(log) /\ Ascending
  BY <1>3 DEF Distinct, Ascending
<1>7. Committed /\ Shown
  BY <1>1, <1>2 DEF Committed, Shown
<1> QED
  BY <1>5, <1>6, <1>7 DEF LogInv

\* NetworkLog.js: the log holds requests that exist, each once, and the hops of a load
\* in their order until its document is committed or fails; the requests of the document
\* that was committed last, error pages aside, are shown with its page load, as those
\* that start now will be.
THEOREM LogInvariance == Spec => []LogInv
<1>1. ASSUME IInv, IInv', InfoInv, InfoInv', LogInv, Next
      PROVE  LogInv'
  <2>1. ASSUME NEW id \in Ids, RequestWillBeSent(id) \/ Redirected(id) \/ WebSocketCreated(id),
               OnRequestStarted(id)
        PROVE  LogInv'
    BY <1>1, <2>1, HandlerStarts, StartedLog
  <2>2. ASSUME NEW id \in Ids, UNCHANGED <<logVars, pageVars>>,
               \/ Missed(id) \/ DataReceived(id) \/ LoadingFinished(id)
               \/ LoadingFailed(id) \/ WebSocketClosed(id)
        PROVE  LogInv'
    BY <1>1, <2>2, HandlerQuiet, QuietLog
  <2>3. ASSUME NEW id \in Ids, NEW m \in Managers, UNCHANGED <<logVars, pageVars>>,
               \/ ResponseReceived(id, m) \/ RequestWillBeSentExtraInfo(id, m)
               \/ ResponseReceivedExtraInfo(id, m)
        PROVE  LogInv'
    BY <1>1, <2>3, TargetQuiet, QuietLog
  <2>4. ASSUME NEW m \in Managers, ModelRemoved(m), UNCHANGED <<logVars, pageVars>>
        PROVE  LogInv'
    BY <1>1, <2>4, RemovalQuiet, QuietLog
  <2>5. ASSUME NEW d \in Documents, NEW preserve \in BOOLEAN, MainFrameNavigated(d, preserve)
        PROVE  LogInv'
    <3>1. ASSUME NEW id \in Ids
          PROVE  Len(requests[id]) <= MaxHops(id)
      <4>1. /\ Len(requests[id]) <= hop[id] /\ hop[id] \in 0 .. plan[id].hops
            /\ plan[id].hops \in 1 .. MaxHops(id) /\ requests[id] \in Seq(Requests)
        BY <1>1 DEF InfoInv, InfosOf, Counted, IInv, Shape, MapsShape, BrowserShape
      <4>2. Len(requests[id]) \in Nat /\ MaxHops(id) \in Nat
        BY <4>1, Hops
      <4> QED
        BY <4>1, <4>2
    <3> QED
      BY <1>1, <2>5, <3>1, CommitLog
  <2>6. ASSUME Reset \/ \E preserve \in BOOLEAN : SetIsRecording(preserve)
        PROVE  LogInv'
    <3>1. /\ UNCHANGED <<requests, models, phase, origin, home, pageLoadOf, loader, page, committed, unseen>>
          /\ Emptied \/ UNCHANGED <<log, pageLoad>>
          /\ isRecording' = isRecording \/ isRecording' = ~isRecording
      BY <2>6 DEF Reset, SetIsRecording, networkVars, modelVars, loadVars
    <3>2. isRecording' \in BOOLEAN
      BY <1>1, <3>1 DEF LogInv, LogShape
    <3> QED
      BY <1>1, <3>1, <3>2, EmptiedLog
  <2>7. ASSUME NEW d \in Documents, ErrorPageNavigated(d)
        PROVE  LogInv'
    BY <1>1, <2>7, ErrorPageLog
  <2> QED
    BY <1>1, <2>1, <2>2, <2>3, <2>4, <2>5, <2>6, <2>7 DEF Next
<1>2. ASSUME IInv, IInv', LogInv, UNCHANGED vars
      PROVE  LogInv'
  <2>1. UNCHANGED <<networkVars, logVars, pageVars>>
    BY <1>2 DEF vars
  <2>2. Quiet
    BY <2>1 DEF Quiet, networkVars, modelVars, loadVars
  <2> QED
    BY <1>2, <2>1, <2>2, QuietLog
<1> QED
  BY <1>1, <1>2, LogInit, Invariance, InfoInvariance, PTL DEF Spec

\* NetworkLog.js:_onMainFrameNavigated, _onRequestStarted: the log has no request twice,
\* and shows those of the document that was committed last with its page load, whether
\* they started before the commit or after it, and whatever error pages came since.
THEOREM LogShows == Spec => []LogShowsThePage
<1>1. ASSUME LogInv
      PROVE  LogShowsThePage
  <2>1. /\ log \in Seq(LogRefs) /\ Distinct(log) /\ Shown
        /\ \A i \in 1 .. Len(log) : Exists(requests, log[i])
    BY <1>1 DEF LogInv, LogShape
  <2>2. IsInjective(log)
    <3>1. DOMAIN log = 1 .. Len(log)
      BY <2>1
    <3> QED
      BY <2>1, <3>1 DEF IsInjective, Distinct
  <2>3. ASSUME ~unseen, page \in Documents, NEW r \in Range(OfPage(page))
        PROVE  pageLoadOf[r.id][r.place] = page
    <3> DEFINE T == {q \in Range(log) : requests[q.id][q.place].manager = Main /\ loader[q.id] = page}
    <3>1. OfPage(page) = Only(log, T)
      BY DEF OfPage
    <3>2. \A q \in T : OfLastPage(requests, q)
      BY DEF OfLastPage, Manager
    <3> HIDE DEF T
    <3>3. /\ Only(log, T) \in Seq(LogRefs)
          /\ \A i \in 1 .. Len(Only(log, T)) :
                Only(log, T)[i] \in T /\ \E k \in 1 .. Len(log) : Only(log, T)[i] = log[k]
          /\ \A k \in 1 .. Len(log) : log[k] \in T =>
                \E i \in 1 .. Len(Only(log, T)) : Only(log, T)[i] = log[k]
          /\ \A i, j \in 1 .. Len(Only(log, T)) : i < j =>
                \E k, l \in 1 .. Len(log) : k < l /\ Only(log, T)[i] = log[k] /\ Only(log, T)[j] = log[l]
          /\ Distinct(log) => Distinct(Only(log, T))
      BY <2>1, OnlyElements
    <3>4. PICK i \in 1 .. Len(Only(log, T)) : r = Only(log, T)[i]
      BY <2>3, <3>1, <3>3 DEF Range
    <3>5. r \in T /\ \E k \in 1 .. Len(log) : r = log[k]
      BY <3>3, <3>4
    <3> QED
      BY <2>1, <2>3, <3>2, <3>5 DEF Shown
  <2> QED
    BY <2>2, <2>3 DEF LogShowsThePage
<1> QED
  BY <1>1, LogInvariance, PTL

\* What the invariants say of the shape of the dispatchers' state.
LEMMA NetworkTyped ==
    ASSUME IInv, InfoInv
    PROVE  NetworkTypeOK
<1>1. ASSUME NEW id \in Ids
      PROVE  /\ Len(requests[id]) <= MaxHops(id)
             /\ \A k \in Places(id) : requests[id][k] \in
                   [hop: 1 .. MaxHops(id), url: Urls, manager: Managers, finished: BOOLEAN,
                    requestInfo: 0 .. MaxHops(id), responseInfo: 0 .. MaxHops(id)]
             /\ inflightMain[id] \in Places(id) \cup {0}
             /\ \A m \in Managers : inflightById[m][id] \in Places(id) \cup {0}
             /\ \A m \in Managers : builders[m][id] = NoBuilder
                                    \/ \A i \in DOMAIN builders[m][id].requests :
                                          builders[m][id].requests[i] \in Places(id)
  <2>1. /\ requests[id] \in Seq(Requests) /\ Len(requests[id]) \in Nat /\ MaxHops(id) \in Nat
        /\ Places(id) = 1 .. Len(requests[id]) /\ Counted(id) /\ Bounded(id) /\ Maps(id)
        /\ hop[id] \in 0 .. plan[id].hops /\ plan[id].hops \in 1 .. MaxHops(id)
        /\ \A m \in Managers : builders[m][id] \in Builders
    BY <1>1, Hops DEF IInv, Shape, MapsShape, BrowserShape, BuildersShape, Places, InfoInv, InfosOf
  <2>2. Len(requests[id]) <= MaxHops(id)
    BY <2>1 DEF Counted
  <2>3. ASSUME NEW k \in Places(id)
        PROVE  requests[id][k] \in
                   [hop: 1 .. MaxHops(id), url: Urls, manager: Managers, finished: BOOLEAN,
                    requestInfo: 0 .. MaxHops(id), responseInfo: 0 .. MaxHops(id)]
    <3>1. requests[id][k] \in Requests
      BY <2>1, <2>3
    <3>2. requests[id][k].hop \in 1 .. hop[id] /\ hop[id] <= MaxHops(id) /\ hop[id] \in Nat
      BY <2>1, <2>3 DEF Counted
    <3>3. requests[id][k].hop \in 1 .. MaxHops(id)
      BY <2>1, <3>2
    <3>4. requests[id][k].requestInfo \in 0 .. MaxHops(id) /\ requests[id][k].responseInfo \in 0 .. MaxHops(id)
      BY <2>1, <2>3 DEF Bounded
    <3> QED
      BY <3>1, <3>3, <3>4 DEF Requests
  <2>4. inflightMain[id] \in Places(id) \cup {0}
    BY <2>1 DEF Maps, MapsFit
  <2>5. \A m \in Managers : inflightById[m][id] \in Places(id) \cup {0}
    BY <2>1 DEF Maps, MapsFit
  <2>6. ASSUME NEW m \in Managers, builders[m][id] # NoBuilder
        PROVE  \A i \in DOMAIN builders[m][id].requests : builders[m][id].requests[i] \in Places(id)
    <3>1. BuilderFits(builders[m][id], Len(requests[id]), MaxHops(id))
      BY <2>1, <2>6 DEF Bounded, Builder
    <3>2. builders[m][id].requests \in Seq(Nat)
      BY <2>1 DEF Builders
    <3>3. DOMAIN builders[m][id].requests = 1 .. Len(builders[m][id].requests)
      BY <3>2
    <3> QED
      BY <2>1, <3>1, <3>3 DEF BuilderFits
  <2> QED
    BY <2>2, <2>3, <2>4, <2>5, <2>6
<1>2. models \subseteq Managers /\ phase \in [Ids -> Phases]
  BY DEF IInv, Shape, BrowserShape
<1> QED
  BY <1>1, <1>2 DEF NetworkTypeOK, Phases

\* NetworkManager.js, NetworkLog.js: every variable has its shape, the log refers to
\* requests that exist, and the maps of the dispatchers agree.
THEOREM LogConsistent == Spec => []Consistent
<1>1. ASSUME IInv, InfoInv, LogInv
      PROVE  TypeOK
  <2>1. NetworkTypeOK /\ LogShape
    BY <1>1, NetworkTyped DEF LogInv
  <2>2. \A i \in DOMAIN log : log[i].id \in Ids /\ log[i].place \in Places(log[i].id)
    <3> SUFFICES ASSUME NEW i \in DOMAIN log
                 PROVE  log[i].id \in Ids /\ log[i].place \in Places(log[i].id)
      OBVIOUS
    <3>1. i \in 1 .. Len(log) /\ Exists(requests, log[i])
      BY <2>1 DEF LogShape
    <3>2. log[i].id \in Ids /\ requests[log[i].id] \in Seq(Requests)
      BY <1>1, <3>1 DEF Exists, LogRefs, IInv, Shape, MapsShape
    <3> QED
      BY <3>1, <3>2 DEF Exists, Places
  <2>3. \A id \in Ids : Range(pageLoadOf[id]) \subseteq Documents \cup {NoPageLoad}
    <3> SUFFICES ASSUME NEW id \in Ids, NEW x \in Range(pageLoadOf[id])
                 PROVE  x \in Documents \cup {NoPageLoad}
      OBVIOUS
    <3>1. pageLoadOf[id] \in [1 .. MaxHops(id) -> PageLoads]
      BY <2>1 DEF LogShape
    <3> QED
      BY <3>1 DEF Range, PageLoads
  <2> QED
    BY <2>1, <2>2, <2>3 DEF TypeOK, LogShape, PageLoads
<1> QED
  BY <1>1, Invariance, InfoInvariance, LogInvariance, MapsAgree, PTL DEF Consistent
================================================================================
