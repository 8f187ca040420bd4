-------------------------- MODULE SourceMapManager_proofs --------------------------
(* SourceMapManager keeps its maps in step for any number of clients, ids and   *)
(* pages, and for any way the ids of the clients depend on the page.            *)
EXTENDS SourceMapManager, FiniteSetTheorems, TLAPS

--------------------------------------------------------------------------------
(* The inductive invariant.  It is said of the record, because the loops of      *)
(* setEnabled and _inspectedURLChanged make many records on their way.           *)

Standings == {"none", "attaching", "attached", "failed"}

Managers == [resolvedId : [Clients -> Ids \cup {NoId}],
             sourceMaps : SUBSET Ids,
             loading : [Ids -> SUBSET Clients],
             attached : [Ids -> SUBSET Clients],
             loads : [Ids -> Nat],
             view : [Clients -> Standings],
             confused : BOOLEAN]

\* A client on a list of an id is resolved to that id.
Filed(m) ==
    /\ \A id \in Ids : \A c \in m.loading[id] : m.resolvedId[c] = id
    /\ \A id \in Ids : \A c \in m.attached[id] : m.resolvedId[c] = id

Used(m) == \A id \in Ids : id \in m.sourceMaps <=> m.attached[id] # {}

Awaited(m) == \A id \in Ids : m.loading[id] # {} => m.loads[id] > 0

Truthful(m) ==
    /\ m.confused = FALSE
    /\ \A c \in Clients : m.view[c] = "attaching" <=> \E id \in Ids : c \in m.loading[id]
    /\ \A c \in Clients : m.view[c] = "attached" <=> \E id \in Ids : c \in m.attached[id]

Fit(m) == m \in Managers /\ Filed(m) /\ Used(m) /\ Awaited(m) /\ Truthful(m)

\* Nobody is on a list.
Idle(m) == \A id \in Ids : m.loading[id] = {} /\ m.attached[id] = {}

\* The lists of n are those of m, without the clients of C.
Fewer(n, m, C) ==
    \A id \in Ids : n.loading[id] \subseteq m.loading[id] \ C /\ n.attached[id] \subseteq m.attached[id] \ C

IInv == /\ isEnabled \in BOOLEAN
        /\ page \in Pages
        /\ Fit(manager)
        /\ ~isEnabled => Idle(manager)
        /\ \A i \in Ids : manager.loads[i] <= MaxLoads

--------------------------------------------------------------------------------
(* The events. *)

Viewed(m, C, news) == [c \in Clients |-> IF c \in C THEN news ELSE m.view[c]]

LEMMA Told ==
    ASSUME NEW m \in Managers, NEW C \in SUBSET Clients, NEW news \in Standings,
           m.confused = FALSE, \A c \in C : m.view[c] \in Expected[news]
    PROVE  /\ Tell(m, C, news) \in Managers
           /\ Tell(m, C, news) = [m EXCEPT !.view = Viewed(m, C, news)]
<1> DEFINE view == Viewed(m, C, news)
           n == [m EXCEPT !.view = view]
<1>1. view \in [Clients -> Standings]
  BY DEF Managers, Viewed
<1> HIDE DEF view
<1>2. n \in Managers
  BY <1>1 DEF Managers
<1>3. (m.confused \/ \E c \in C : m.view[c] \notin Expected[news]) = FALSE
  OBVIOUS
<1>4. [m EXCEPT !.view = view, !.confused = FALSE] = n
  BY DEF Managers
<1>5. Tell(m, C, news) = [m EXCEPT !.view = view, !.confused = FALSE]
  BY <1>3 DEF Tell, view, Viewed
<1> QED
  BY <1>2, <1>4, <1>5 DEF view

--------------------------------------------------------------------------------
(* attachSourceMap and detachSourceMap. *)

\* A client that is not known is on no list and owes its listeners nothing.
LEMMA Unlisted ==
    ASSUME NEW m, Fit(m), NEW c \in Clients, m.resolvedId[c] = NoId
    PROVE  /\ \A id \in Ids : c \notin m.loading[id] /\ c \notin m.attached[id]
           /\ m.view[c] \in {"none", "failed"}
<1>1. \A id \in Ids : c \notin m.loading[id] /\ c \notin m.attached[id]
  BY ConstantsAssumption DEF Fit, Filed
<1>2. m.view[c] \in Standings
  BY DEF Fit, Managers
<1> QED
  BY <1>1, <1>2 DEF Fit, Truthful, Standings

\* A client that is not known is attached: to its source map, or to the list of those
\* who wait for it.
LEMMA AttachFits ==
    ASSUME NEW m, Fit(m), NEW c \in Clients, m.resolvedId[c] = NoId,
           NEW inspectedURL \in Pages, NEW enabled
    PROVE  Fit(AttachSourceMap(m, c, inspectedURL, enabled))
<1> DEFINE id == Resolve[c][inspectedURL]
           known == [m EXCEPT !.resolvedId[c] = id]
           waits == [known EXCEPT !.view = Viewed(known, {c}, "attaching")]
<1>1. id \in Ids \cup {NoId}
  BY ConstantsAssumption
<1>2. /\ \A i \in Ids : c \notin m.loading[i] /\ c \notin m.attached[i]
      /\ m.view[c] \in {"none", "failed"}
  BY Unlisted
<1> HIDE DEF id
<1>3. m \in Managers
  BY DEF Fit
<1>4. known \in Managers
  BY <1>1, <1>3 DEF Managers
<1>5. Fit(known)
  <2>1. Filed(known)
    BY <1>2, <1>3 DEF Fit, Filed, Managers
  <2>2. Used(known) /\ Awaited(known) /\ Truthful(known)
    BY <1>3 DEF Fit, Used, Awaited, Truthful, Managers
  <2> QED
    BY <1>4, <2>1, <2>2 DEF Fit
<1>6. CASE id = NoId
  BY <1>6 DEF AttachSourceMap, id
<1>7. CASE id # NoId /\ ~enabled
  BY <1>5, <1>7 DEF AttachSourceMap, id
<1>8. ASSUME id \in Ids
      PROVE  WillAttach(known, {c}) = waits /\ waits \in Managers
  <2>1. known.confused = FALSE /\ known.view = m.view
    BY <1>3 DEF Fit, Truthful, Managers
  <2>2. \A d \in {c} : known.view[d] \in Expected["attaching"]
    BY <1>2, <2>1 DEF Expected
  <2>3. "attaching" \in Standings /\ {c} \in SUBSET Clients
    BY DEF Standings
  <2>4. Tell(known, {c}, "attaching") \in Managers /\ Tell(known, {c}, "attaching") = waits
    <3> HIDE DEF known
    <3> QED
      BY <1>4, <2>1, <2>2, <2>3, Told
  <2> QED
    BY <2>4 DEF WillAttach
<1>9. CASE id \in Ids /\ enabled /\ id \in m.sourceMaps
  <2> DEFINE joined == [waits EXCEPT !.attached[id] = @ \cup {c}]
             n == [joined EXCEPT !.view = Viewed(joined, {c}, "attached")]
  <2>1. joined \in Managers
    <3>1. waits \in Managers
      BY <1>8, <1>9
    <3> HIDE DEF waits
    <3> QED
      BY <1>9, <3>1 DEF Managers
  <2>2. joined.confused = FALSE /\ joined.view[c] = "attaching"
    BY <1>3 DEF Fit, Truthful, Managers, Viewed
  <2>3. \A d \in {c} : joined.view[d] \in Expected["attached"]
    BY <2>2 DEF Expected
  <2>4. "attached" \in Standings /\ {c} \in SUBSET Clients
    BY DEF Standings
  <2>5. Tell(joined, {c}, "attached") \in Managers /\ Tell(joined, {c}, "attached") = n
    <3> HIDE DEF joined
    <3> QED
      BY <2>1, <2>2, <2>3, <2>4, Told
  <2>6. AttachSourceMap(m, c, inspectedURL, enabled) = n
    <3>1. AttachSourceMap(m, c, inspectedURL, enabled) = Attach(id, WillAttach(known, {c}), {c})
      <4>1. known.sourceMaps = m.sourceMaps /\ id # NoId
        BY <1>3, <1>9, ConstantsAssumption DEF Managers
      <4> QED
        BY <1>9, <4>1 DEF AttachSourceMap, id
    <3>2. WillAttach(known, {c}) = waits
      BY <1>8, <1>9
    <3>3. Attach(id, waits, {c}) = Tell(joined, {c}, "attached")
      BY DEF Attach, Attached
    <3> QED
      BY <2>5, <3>1, <3>2, <3>3
  <2>7. /\ n.resolvedId = known.resolvedId /\ n.sourceMaps = m.sourceMaps /\ n.loading = m.loading
        /\ n.attached = [m.attached EXCEPT ![id] = @ \cup {c}]
        /\ n.loads = m.loads /\ n.confused = FALSE
        /\ n.view = [m.view EXCEPT ![c] = "attached"]
    BY <1>3 DEF Fit, Truthful, Managers, Viewed
  <2> HIDE DEF n
  <2>8. Filed(n)
    BY <1>3, <1>5, <1>9, <2>7 DEF Fit, Filed, Managers
  <2>9. Used(n) /\ Awaited(n)
    BY <1>3, <1>9, <2>7 DEF Fit, Used, Awaited, Managers
  <2>10. Truthful(n)
    BY <1>2, <1>3, <1>9, <2>7 DEF Fit, Truthful, Managers
  <2> QED
    BY <2>5, <2>6, <2>8, <2>9, <2>10 DEF Fit
<1>10. CASE id \in Ids /\ enabled /\ id \notin m.sourceMaps
  <2> DEFINE n == StartLoad(id, waits, c)
  <2>1. AttachSourceMap(m, c, inspectedURL, enabled) = n
    <3>1. known.sourceMaps = m.sourceMaps /\ id # NoId
      BY <1>3, <1>10, ConstantsAssumption DEF Managers
    <3> QED
      BY <1>8, <1>10, <3>1 DEF AttachSourceMap, id
  <2>2. /\ n.resolvedId = known.resolvedId /\ n.sourceMaps = m.sourceMaps /\ n.attached = m.attached
        /\ n.loading = [m.loading EXCEPT ![id] = @ \cup {c}]
        /\ n.loads = [m.loads EXCEPT ![id] = IF m.loading[id] = {} THEN @ + 1 ELSE @]
        /\ n.confused = FALSE
        /\ n.view = [m.view EXCEPT ![c] = "attaching"]
    BY <1>3 DEF Fit, Truthful, Managers, StartLoad, Viewed
  <2>3. n \in Managers
    <3>1. [m.loads EXCEPT ![id] = IF m.loading[id] = {} THEN @ + 1 ELSE @] \in [Ids -> Nat]
      BY <1>3, <1>10 DEF Managers
    <3>2. waits \in Managers
      BY <1>8, <1>10
    <3>3. waits.loads = m.loads /\ waits.loading = m.loading
      BY <1>3 DEF Managers
    <3> HIDE DEF waits
    <3> QED
      BY <1>10, <3>1, <3>2, <3>3 DEF Managers, StartLoad
  <2> HIDE DEF n
  <2>4. Filed(n)
    BY <1>3, <1>5, <1>10, <2>2 DEF Fit, Filed, Managers
  <2>5. Used(n)
    BY <1>3, <1>10, <2>2 DEF Fit, Used, Managers
  <2>6. Awaited(n)
    BY <1>3, <1>10, <2>2 DEF Fit, Awaited, Managers
  <2>7. Truthful(n)
    BY <1>2, <1>3, <1>10, <2>2 DEF Fit, Truthful, Managers
  <2> QED
    BY <2>1, <2>3, <2>4, <2>5, <2>6, <2>7 DEF Fit
<1> QED
  BY <1>1, <1>6, <1>7, <1>9, <1>10

\* A client is detached: from its list, with the event its listeners are owed, and is
\* not known any more.
LEMMA DetachFits ==
    ASSUME NEW m, Fit(m), NEW c \in Clients
    PROVE  /\ Fit(DetachSourceMap(m, c))
           /\ DetachSourceMap(m, c).resolvedId[c] = NoId
<1> DEFINE id == m.resolvedId[c]
           forgotten == [m EXCEPT !.resolvedId[c] = NoId]
           left == [forgotten EXCEPT !.attached[id] = @ \ {c}]
<1>1. m \in Managers /\ id \in Ids \cup {NoId} /\ NoId \notin Ids
  BY ConstantsAssumption DEF Fit, Managers
<1>2. \A i \in Ids : i # id => c \notin m.loading[i] /\ c \notin m.attached[i]
  BY DEF Fit, Filed
<1>3. forgotten \in Managers
  BY <1>1 DEF Managers
<1> HIDE DEF id
<1>4. CASE id = NoId
  BY <1>4 DEF DetachSourceMap, id
<1>5. CASE id \in Ids /\ c \notin m.attached[id] /\ c \notin m.loading[id]
  <2>1. DetachSourceMap(m, c) = forgotten
    BY <1>1, <1>5 DEF DetachSourceMap, id, Managers
  <2>2. /\ forgotten.resolvedId = [m.resolvedId EXCEPT ![c] = NoId] /\ forgotten.sourceMaps = m.sourceMaps
        /\ forgotten.loading = m.loading /\ forgotten.attached = m.attached
        /\ forgotten.loads = m.loads /\ forgotten.confused = m.confused /\ forgotten.view = m.view
    BY <1>1 DEF Managers
  <2> HIDE DEF forgotten
  <2>3. Filed(forgotten)
    BY <1>1, <1>2, <1>5, <2>2 DEF Fit, Filed, Managers
  <2>4. Used(forgotten) /\ Awaited(forgotten) /\ Truthful(forgotten)
    BY <2>2 DEF Fit, Used, Awaited, Truthful
  <2>5. forgotten.resolvedId[c] = NoId
    BY <1>1, <2>2 DEF Managers
  <2> QED
    BY <1>3, <2>1, <2>3, <2>4, <2>5 DEF Fit
<1>6. CASE id \in Ids /\ c \notin m.attached[id] /\ c \in m.loading[id]
  <2> DEFINE gone == [forgotten EXCEPT !.loading[id] = @ \ {c}]
             n == [gone EXCEPT !.view = Viewed(gone, {c}, "failed")]
  <2>1. gone \in Managers
    <3> HIDE DEF forgotten
    <3> QED
      BY <1>3, <1>6 DEF Managers
  <2>2. gone.confused = FALSE /\ gone.view[c] = "attaching"
    BY <1>1, <1>6 DEF Fit, Truthful, Managers
  <2>3. \A d \in {c} : gone.view[d] \in Expected["failed"]
    BY <2>2 DEF Expected
  <2>4. "failed" \in Standings /\ {c} \in SUBSET Clients
    BY DEF Standings
  <2>5. Tell(gone, {c}, "failed") \in Managers /\ Tell(gone, {c}, "failed") = n
    <3> HIDE DEF gone
    <3> QED
      BY <2>1, <2>2, <2>3, <2>4, Told
  <2>6. DetachSourceMap(m, c) = n
    <3>1. DetachSourceMap(m, c) = FailedToAttach(gone, {c})
      BY <1>1, <1>6 DEF DetachSourceMap, id
    <3> QED
      BY <2>5, <3>1 DEF FailedToAttach
  <2>7. /\ n.resolvedId = [m.resolvedId EXCEPT ![c] = NoId] /\ n.sourceMaps = m.sourceMaps
        /\ n.loading = [m.loading EXCEPT ![id] = @ \ {c}] /\ n.attached = m.attached
        /\ n.loads = m.loads /\ n.confused = FALSE
        /\ n.view = [m.view EXCEPT ![c] = "failed"]
    BY <1>1 DEF Fit, Truthful, Managers, Viewed
  <2>8. n \in Managers
    BY <2>5
  <2> HIDE DEF n
  <2>9. Filed(n)
    BY <1>1, <1>2, <1>6, <2>7 DEF Fit, Filed, Managers
  <2>10. Used(n)
    BY <2>7 DEF Fit, Used
  <2>11. Awaited(n)
    BY <1>1, <1>6, <2>7 DEF Fit, Awaited, Managers
  <2>12. Truthful(n)
    BY <1>1, <1>2, <1>6, <2>7 DEF Fit, Truthful, Managers
  <2>13. n.resolvedId[c] = NoId
    BY <1>1, <2>7 DEF Managers
  <2> QED
    BY <2>6, <2>8, <2>9, <2>10, <2>11, <2>12, <2>13 DEF Fit
<1>7. CASE id \in Ids /\ c \in m.attached[id]
  <2> DEFINE gone == [left EXCEPT !.sourceMaps = IF left.attached[id] = {} THEN @ \ {id} ELSE @]
             n == [gone EXCEPT !.view = Viewed(gone, {c}, "none")]
  <2>1. left \in Managers
    <3> HIDE DEF forgotten
    <3> QED
      BY <1>3, <1>7 DEF Managers
  <2>2. gone \in Managers
    <3> HIDE DEF left
    <3> QED
      BY <1>7, <2>1 DEF Managers
  <2>3. gone.confused = FALSE /\ gone.view[c] = "attached"
    BY <1>1, <1>7 DEF Fit, Truthful, Managers
  <2>4. \A d \in {c} : gone.view[d] \in Expected["none"]
    BY <2>3 DEF Expected
  <2>5. "none" \in Standings /\ {c} \in SUBSET Clients
    BY DEF Standings
  <2>6. Tell(gone, {c}, "none") \in Managers /\ Tell(gone, {c}, "none") = n
    <3> HIDE DEF gone
    <3> QED
      BY <2>2, <2>3, <2>4, <2>5, Told
  <2>7. DetachSourceMap(m, c) = n
    <3>1. DetachSourceMap(m, c) = Detached(gone, {c})
      <4>1. id # NoId /\ id \in m.sourceMaps
        BY <1>1, <1>7 DEF Fit, Used
      <4> QED
        BY <1>7, <4>1 DEF DetachSourceMap, id
    <3> QED
      BY <2>6, <3>1 DEF Detached
  <2>8. left.attached = [m.attached EXCEPT ![id] = @ \ {c}]
    BY <1>1 DEF Managers
  <2>9. /\ n.resolvedId = [m.resolvedId EXCEPT ![c] = NoId]
        /\ n.loading = m.loading /\ n.attached = left.attached
        /\ n.loads = m.loads /\ n.confused = FALSE
        /\ n.view = [m.view EXCEPT ![c] = "none"]
    BY <1>1 DEF Fit, Truthful, Managers, Viewed
  <2>10. n.sourceMaps = IF left.attached[id] = {} THEN m.sourceMaps \ {id} ELSE m.sourceMaps
    BY <1>1 DEF Managers
  <2>11. n \in Managers
    BY <2>6
  <2> HIDE DEF n, left
  <2>12. \A i \in Ids : c \notin m.loading[i]
    BY <1>1, <1>2, <1>7 DEF Fit, Truthful
  <2>13. Filed(n)
    BY <1>1, <1>2, <1>7, <2>8, <2>9, <2>12 DEF Fit, Filed, Managers
  <2>14. Used(n)
    BY <1>1, <1>7, <2>8, <2>9, <2>10 DEF Fit, Used, Managers
  <2>15. Awaited(n)
    BY <2>9 DEF Fit, Awaited
  <2>16. Truthful(n)
    BY <1>1, <1>2, <1>7, <2>8, <2>9, <2>12 DEF Fit, Truthful, Managers
  <2>17. n.resolvedId[c] = NoId
    BY <1>1, <2>9 DEF Managers
  <2> QED
    BY <2>7, <2>11, <2>13, <2>14, <2>15, <2>16, <2>17 DEF Fit
<1> QED
  BY <1>1, <1>4, <1>5, <1>6, <1>7

\* A client that leaves ends no load, and is gone from the lists.
LEMMA DetachLeaves ==
    ASSUME NEW m, Fit(m), NEW c \in Clients
    PROVE  /\ DetachSourceMap(m, c).loads = m.loads
           /\ Fewer(DetachSourceMap(m, c), m, {c})
<1> DEFINE n == DetachSourceMap(m, c)
<1>1. m \in Managers
  BY DEF Fit
<1>2. n.loads = m.loads
  BY <1>1 DEF DetachSourceMap, FailedToAttach, Detached, Tell, Managers
<1>3. \A id \in Ids : n.loading[id] \subseteq m.loading[id] /\ n.attached[id] \subseteq m.attached[id]
  BY <1>1 DEF DetachSourceMap, FailedToAttach, Detached, Tell, Managers
<1>4. Fit(n) /\ n.resolvedId[c] = NoId
  BY DetachFits
<1> HIDE DEF n
<1>5. \A id \in Ids : c \notin n.loading[id] /\ c \notin n.attached[id]
  BY <1>4, Unlisted
<1> QED
  BY <1>2, <1>3, <1>5 DEF n, Fewer

\* A manager that is disabled puts nobody on a list.
LEMMA AttachDisabled ==
    ASSUME NEW m, Fit(m), NEW c \in Clients, NEW inspectedURL \in Pages
    PROVE  Fewer(AttachSourceMap(m, c, inspectedURL, FALSE), m, {})
<1>1. m \in Managers
  BY DEF Fit
<1> QED
  BY <1>1 DEF AttachSourceMap, Managers, Fewer

--------------------------------------------------------------------------------
(* Reattach, the loop of setEnabled and _inspectedURLChanged. *)

\* A set of numbers that is not empty has a least number: the induction of the proofs
\* below.  It rests on that over finite sets.
LEMMA Least ==
    ASSUME NEW T, T \subseteq Nat, T # {}
    PROVE  \E x \in T : \A y \in T : x <= y
<1> DEFINE F == {0 .. n : n \in T}
           R == StrictSubsetOrdering(Nat)
<1>1. IsWellFoundedOn(R, FiniteSubsetsOf(Nat))
  BY FS_StrictSubsetOrderingWellFounded
<1>2. F \subseteq FiniteSubsetsOf(Nat)
  <2>1. ASSUME NEW n \in T
        PROVE  0 .. n \in FiniteSubsetsOf(Nat)
    <3>1. IsFiniteSet(0 .. n)
      BY FS_Interval
    <3>2. 0 .. n \in SUBSET Nat
      OBVIOUS
    <3> QED
      BY <3>1, <3>2 DEF FiniteSubsetsOf
  <2> QED
    BY <2>1
<1>3. F # {}
  OBVIOUS
<1> HIDE DEF F, R
<1>4. PICK X \in F : \A Y \in F : <<Y, X>> \notin R
  BY <1>1, <1>2, <1>3, WFMin
<1>5. PICK x \in T : X = 0 .. x
  BY DEF F
<1>6. ASSUME NEW y \in T, ~(x <= y)
      PROVE  FALSE
  <2>1. 0 .. y \in F
    BY DEF F
  <2>2. <<0 .. y, X>> \notin R
    BY <1>4, <2>1
  <2>3. 0 .. y \in SUBSET Nat /\ X \in SUBSET Nat
    BY <1>5
  <2>4. 0 .. y \subseteq X /\ 0 .. y # X
    <3>1. x \in X /\ x \notin 0 .. y
      BY <1>5, <1>6
    <3> QED
      BY <1>5, <1>6, <3>1
  <2> QED
    BY <2>2, <2>3, <2>4 DEF R, StrictSubsetOrdering
<1> QED
  BY <1>6

\* The clients of a sequence are detached and attached again, one after the other: by
\* induction on how many of them have been.
Reattaches(after, m, clients, inspectedURL, enabled, n) ==
    after = [k \in 0 .. n |-> IF k = 0 THEN m
                              ELSE AttachSourceMap(DetachSourceMap(after[k - 1], clients[k]), clients[k],
                                                   inspectedURL, enabled)]

LEMMA Reattachable ==
    ASSUME NEW m, NEW clients, NEW inspectedURL, NEW enabled, NEW n \in Nat
    PROVE  \E after : Reattaches(after, m, clients, inspectedURL, enabled, n)
<1> DEFINE Redo(r, k) == AttachSourceMap(DetachSourceMap(r, clients[k]), clients[k], inspectedURL, enabled)
           Does(f, k) == f = [j \in 0 .. k |-> IF j = 0 THEN m ELSE Redo(f[j - 1], j)]
           Bad == {k \in Nat : ~\E f : Does(f, k)}
<1>1. \A f, k : Reattaches(f, m, clients, inspectedURL, enabled, k) <=> Does(f, k)
  BY DEF Reattaches
<1> HIDE DEF Redo
<1>2. Bad = {}
  <2> SUFFICES ASSUME Bad # {} PROVE FALSE
    OBVIOUS
  <2>1. PICK k \in Bad : \A j \in Bad : k <= j
    BY Least
  <2>2. CASE k = 0
    <3> DEFINE f == [j \in 0 .. 0 |-> m]
    <3>1. Does(f, 0)
      OBVIOUS
    <3> QED
      BY <2>2, <3>1
  <2>3. CASE k # 0
    <3>1. k - 1 \in Nat /\ k \in Nat /\ k - 1 \notin Bad
      <4>1. k \in Nat
        BY <2>1
      <4>2. k - 1 \in Nat /\ ~(k <= k - 1)
        BY <2>3, <4>1
      <4> HIDE DEF Bad
      <4> QED
        BY <2>1, <4>1, <4>2
    <3>2. PICK f : Does(f, k - 1)
      BY <3>1
    <3> DEFINE g == [j \in 0 .. k |-> IF j = k THEN Redo(f[k - 1], k) ELSE f[j]]
    <3>3. \A j \in 0 .. k - 1 : f[j] = IF j = 0 THEN m ELSE Redo(f[j - 1], j)
      BY <3>2
    <3>4. \A j \in 0 .. k : g[j] = IF j = 0 THEN m ELSE Redo(g[j - 1], j)
      <4> TAKE j \in 0 .. k
      <4>1. CASE j = k
        <5>1. g[j - 1] = f[k - 1]
          BY <3>1, <4>1
        <5> QED
          BY <2>3, <3>1, <4>1, <5>1
      <4>2. CASE j # k
        <5>1. j \in 0 .. k - 1 /\ g[j] = f[j] /\ (j # 0 => g[j - 1] = f[j - 1])
          BY <3>1, <4>2
        <5> QED
          BY <3>3, <5>1
      <4> QED
        BY <4>1, <4>2
    <3>5. g = [j \in 0 .. k |-> g[j]]
      OBVIOUS
    <3> HIDE DEF g
    <3>6. Does(g, k)
      BY <3>4, <3>5
    <3> QED
      BY <2>1, <3>6
  <2> QED
    BY <2>2, <2>3
<1>3. \E f : Does(f, n)
  BY <1>2
<1> HIDE DEF Does
<1> QED
  BY <1>1, <1>3

LEMMA ReattachFits ==
    ASSUME NEW m, Fit(m), NEW clients \in Seq(Clients), NEW inspectedURL \in Pages, NEW enabled
    PROVE  /\ Fit(Reattach(m, clients, inspectedURL, enabled))
           /\ enabled = FALSE => Fewer(Reattach(m, clients, inspectedURL, enabled), m,
                                       {clients[k] : k \in 1 .. Len(clients)})
<1> DEFINE after == CHOOSE f : Reattaches(f, m, clients, inspectedURL, enabled, Len(clients))
           Good(k) == /\ Fit(after[k])
                      /\ enabled = FALSE => Fewer(after[k], m, {clients[j] : j \in 1 .. k})
           Bad == {k \in Nat : k <= Len(clients) /\ ~Good(k)}
<1>1. Len(clients) \in Nat /\ \A k \in 1 .. Len(clients) : clients[k] \in Clients
  OBVIOUS
<1>2. Reattach(m, clients, inspectedURL, enabled) = after[Len(clients)]
  BY DEF Reattach, Reattaches
<1>3. Reattaches(after, m, clients, inspectedURL, enabled, Len(clients))
  BY <1>1, Reattachable
<1> HIDE DEF after
<1>4. /\ after[0] = m
      /\ \A k \in 1 .. Len(clients) :
             after[k] = AttachSourceMap(DetachSourceMap(after[k - 1], clients[k]), clients[k],
                                        inspectedURL, enabled)
  <2>1. \A k \in 0 .. Len(clients) :
            after[k] = IF k = 0 THEN m
                       ELSE AttachSourceMap(DetachSourceMap(after[k - 1], clients[k]), clients[k],
                                            inspectedURL, enabled)
    BY <1>3 DEF Reattaches
  <2>2. 0 \in 0 .. Len(clients) /\ \A k \in 1 .. Len(clients) : k \in 0 .. Len(clients) /\ k # 0
    BY <1>1
  <2> QED
    BY <2>1, <2>2
<1>5. ASSUME Bad # {}
      PROVE  FALSE
  <2>1. PICK k \in Bad : \A j \in Bad : k <= j
    BY <1>5, Least
  <2>2. k # 0
    <3>1. Fit(after[0])
      BY <1>4
    <3>2. Fewer(after[0], m, {clients[j] : j \in 1 .. 0})
      BY <1>4 DEF Fewer
    <3> QED
      BY <2>1, <3>1, <3>2
  <2>3. PICK i \in Nat : k = i + 1
    <3>1. k - 1 \in Nat /\ k = (k - 1) + 1
      BY <2>1, <2>2
    <3> QED
      BY <3>1
  <2>4. /\ i + 1 \in 1 .. Len(clients) /\ clients[i + 1] \in Clients
        /\ (i + 1) - 1 = i /\ i <= Len(clients) /\ ~(k <= i)
    BY <1>1, <2>1, <2>3
  <2> HIDE DEF Good
  <2>5. Good(i)
    BY <2>1, <2>4
  <2>6. PICK r : r = DetachSourceMap(after[i], clients[i + 1])
    OBVIOUS
  <2>7. PICK n : n = AttachSourceMap(r, clients[i + 1], inspectedURL, enabled)
    OBVIOUS
  <2>8. after[i + 1] = n
    BY <1>4, <2>4, <2>6, <2>7
  <2>9. Fit(r) /\ r.resolvedId[clients[i + 1]] = NoId /\ Fewer(r, after[i], {clients[i + 1]})
    BY <2>4, <2>5, <2>6, DetachFits, DetachLeaves DEF Good
  <2>10. Fit(n)
    BY <2>4, <2>7, <2>9, AttachFits
  <2>11. ASSUME enabled = FALSE
         PROVE  Fewer(n, m, {clients[j] : j \in 1 .. i + 1})
    <3>1. n = AttachSourceMap(r, clients[i + 1], inspectedURL, FALSE)
      BY <2>7, <2>11
    <3>2. Fewer(n, r, {})
      BY <2>4, <2>9, <3>1, AttachDisabled
    <3>3. Fewer(after[i], m, {clients[j] : j \in 1 .. i})
      BY <2>5, <2>11 DEF Good
    <3>4. \A j \in 1 .. i + 1 : j = i + 1 \/ j \in 1 .. i
      OBVIOUS
    <3>5. {clients[j] : j \in 1 .. i + 1} \subseteq {clients[j] : j \in 1 .. i} \cup {clients[i + 1]}
      BY <3>4
    <3> QED
      BY <2>9, <3>2, <3>3, <3>5 DEF Fewer
  <2>12. Good(i + 1)
    BY <2>8, <2>10, <2>11 DEF Good
  <2> QED
    BY <2>1, <2>3, <2>12
<1>6. Good(Len(clients))
  <2>1. Len(clients) \notin Bad
    <3> HIDE DEF Bad
    <3> QED
      BY <1>5
  <2>2. Len(clients) \in Nat /\ Len(clients) <= Len(clients)
    BY <1>1
  <2> HIDE DEF Good
  <2> QED
    BY <2>1, <2>2
<1> QED
  BY <1>2, <1>6

\* A sequence of the clients of a set, each once, is a sequence of clients and has them all.
LEMMA Listed ==
    ASSUME NEW S \in SUBSET Clients, NEW clients \in SetToSeqs(S)
    PROVE  /\ clients \in Seq(Clients)
           /\ S \subseteq {clients[k] : k \in 1 .. Len(clients)}
<1> DEFINE D == 1 .. Cardinality(S)
<1>1. IsFiniteSet(S)
  BY ConstantsAssumption, FS_Subset
<1>2. Cardinality(S) \in Nat
  BY <1>1, FS_CardinalityType
<1>3. clients \in [D -> S] /\ \A i, j \in D : i # j => clients[i] # clients[j]
  BY DEF SetToSeqs
<1>4. clients \in Seq(Clients) /\ Len(clients) = Cardinality(S)
  BY <1>2, <1>3
<1>5. Cardinality(D) = Cardinality(S)
  BY <1>2, FS_Interval
<1>6. clients \in Injection(D, S)
  BY <1>3 DEF Injection, IsInjective
<1>7. clients \in Surjection(D, S)
  BY <1>1, <1>5, <1>6, FS_Injection
<1> QED
  BY <1>4, <1>7 DEF Surjection

\* setEnabled(false) goes through all clients that are known, and those on a list are.
LEMMA AllDetached ==
    ASSUME Fit(manager), NEW clients \in SetToSeqs(Known), NEW inspectedURL \in Pages
    PROVE  Idle(Reattach(manager, clients, inspectedURL, FALSE))
<1> DEFINE all == {clients[k] : k \in 1 .. Len(clients)}
<1>1. clients \in Seq(Clients) /\ Known \subseteq all
  BY Listed DEF Known
<1>2. Fewer(Reattach(manager, clients, inspectedURL, FALSE), manager, all)
  BY <1>1, ReattachFits
<1>3. \A id \in Ids : manager.loading[id] \subseteq Known /\ manager.attached[id] \subseteq Known
  BY ConstantsAssumption DEF Fit, Filed, Known, Managers
<1> HIDE DEF all
<1> QED
  BY <1>1, <1>2, <1>3 DEF Fewer, Idle

--------------------------------------------------------------------------------
(* onSourceMap. *)

LEMMA AnswerFits ==
    ASSUME Fit(manager), NEW id \in Ids, NEW loaded \in BOOLEAN, OnSourceMap(id, loaded)
    PROVE  Fit(manager') /\ \A i \in Ids : manager'.loads[i] <= manager.loads[i]
<1> DEFINE m == manager
           waiting == m.loading[id]
           answered == [m EXCEPT !.loads[id] = @ - 1, !.loading[id] = {}]
           kept == [answered EXCEPT !.sourceMaps = @ \cup {id}]
           joined == [kept EXCEPT !.attached[id] = @ \cup waiting]
           failed == [answered EXCEPT !.view = Viewed(answered, waiting, "failed")]
           served == [joined EXCEPT !.view = Viewed(joined, waiting, "attached")]
<1>1. m \in Managers /\ m.loads[id] \in Nat \ {0} /\ waiting \in SUBSET Clients
  BY DEF Fit, Managers, OnSourceMap
<1>2. /\ answered.resolvedId = m.resolvedId /\ answered.sourceMaps = m.sourceMaps
      /\ answered.attached = m.attached /\ answered.confused = FALSE /\ answered.view = m.view
      /\ answered.loading = [m.loading EXCEPT ![id] = {}]
      /\ answered.loads = [m.loads EXCEPT ![id] = @ - 1]
  BY <1>1 DEF Fit, Truthful, Managers
<1>3. answered \in Managers
  <2>1. [m.loads EXCEPT ![id] = @ - 1] \in [Ids -> Nat] /\ [m.loading EXCEPT ![id] = {}] \in [Ids -> SUBSET Clients]
    BY <1>1 DEF Managers
  <2> QED
    BY <1>1, <2>1 DEF Managers
<1>4. /\ \A c \in waiting : m.view[c] = "attaching" /\ m.resolvedId[c] = id
      /\ \A c \in waiting : \A i \in Ids : c \notin m.attached[i] /\ (i # id => c \notin m.loading[i])
  BY <1>1 DEF Fit, Filed, Truthful
<1>5. /\ "failed" \in Standings /\ "attached" \in Standings
      /\ "attaching" \in Expected["failed"] /\ "attaching" \in Expected["attached"]
  BY DEF Standings, Expected
<1>6. CASE waiting = {}
  <2>1. manager' = answered
    BY <1>6 DEF OnSourceMap
  <2> HIDE DEF answered
  <2>2. Filed(answered)
    BY <1>1, <1>2 DEF Fit, Filed, Managers
  <2>3. Used(answered)
    BY <1>2 DEF Fit, Used
  <2>4. Awaited(answered)
    BY <1>1, <1>2 DEF Fit, Awaited, Managers
  <2>5. Truthful(answered)
    BY <1>1, <1>2, <1>6 DEF Fit, Truthful, Managers
  <2>6. \A i \in Ids : answered.loads[i] <= m.loads[i]
    BY <1>1, <1>2 DEF Managers
  <2> QED
    BY <1>3, <2>1, <2>2, <2>3, <2>4, <2>5, <2>6 DEF Fit
<1>7. CASE waiting # {} /\ ~loaded
  <2>1. \A c \in waiting : answered.view[c] \in Expected["failed"]
    BY <1>2, <1>4, <1>5
  <2>2. Tell(answered, waiting, "failed") \in Managers /\ Tell(answered, waiting, "failed") = failed
    <3>1. answered.confused = FALSE
      BY <1>2
    <3>2. waiting \in SUBSET Clients
      BY <1>1
    <3>3. "failed" \in Standings
      BY <1>5
    <3> HIDE DEF answered, waiting
    <3> QED
      BY <1>3, <2>1, <3>1, <3>2, <3>3, Told
  <2>3. manager' = failed
    <3>1. manager' = FailedToAttach(answered, waiting)
      BY <1>7 DEF OnSourceMap
    <3> QED
      BY <2>2, <3>1 DEF FailedToAttach
  <2>4. /\ failed.resolvedId = m.resolvedId /\ failed.sourceMaps = m.sourceMaps
        /\ failed.attached = m.attached /\ failed.confused = FALSE
        /\ failed.view = [d \in Clients |-> IF d \in waiting THEN "failed" ELSE m.view[d]]
        /\ failed.loading = [m.loading EXCEPT ![id] = {}]
        /\ failed.loads = [m.loads EXCEPT ![id] = @ - 1]
    BY <1>1, <1>2 DEF Managers, Viewed
  <2>5. failed \in Managers
    BY <2>2
  <2> HIDE DEF failed
  <2>6. Filed(failed)
    BY <1>1, <2>4 DEF Fit, Filed, Managers
  <2>7. Used(failed)
    BY <2>4 DEF Fit, Used
  <2>8. Awaited(failed)
    BY <1>1, <2>4 DEF Fit, Awaited, Managers
  <2>9. Truthful(failed)
    BY <1>1, <1>4, <2>4 DEF Fit, Truthful, Managers
  <2>10. \A i \in Ids : failed.loads[i] <= m.loads[i]
    BY <1>1, <2>4 DEF Managers
  <2> QED
    BY <2>3, <2>5, <2>6, <2>7, <2>8, <2>9, <2>10 DEF Fit
<1>8. CASE waiting # {} /\ loaded
  <2>1. /\ joined.resolvedId = m.resolvedId /\ joined.sourceMaps = m.sourceMaps \cup {id}
        /\ joined.attached = [m.attached EXCEPT ![id] = @ \cup waiting]
        /\ joined.confused = FALSE /\ joined.view = m.view
        /\ joined.loading = [m.loading EXCEPT ![id] = {}]
        /\ joined.loads = [m.loads EXCEPT ![id] = @ - 1]
    BY <1>1, <1>2 DEF Managers
  <2>2. joined \in Managers
    <3>1. kept \in Managers
      <4> HIDE DEF answered
      <4> QED
        BY <1>3 DEF Managers
    <3> HIDE DEF kept, waiting
    <3> QED
      BY <1>1, <3>1 DEF Managers
  <2>3. \A c \in waiting : joined.view[c] \in Expected["attached"]
    BY <1>4, <1>5, <2>1
  <2>4. Tell(joined, waiting, "attached") \in Managers /\ Tell(joined, waiting, "attached") = served
    <3>1. joined.confused = FALSE
      BY <2>1
    <3>2. waiting \in SUBSET Clients
      BY <1>1
    <3>3. "attached" \in Standings
      BY <1>5
    <3> HIDE DEF joined, waiting
    <3> QED
      BY <2>2, <2>3, <3>1, <3>2, <3>3, Told
  <2>5. manager' = served
    <3>1. manager' = Attach(id, kept, waiting)
      BY <1>8 DEF OnSourceMap
    <3>2. Attach(id, kept, waiting) = Tell(joined, waiting, "attached")
      BY DEF Attach, Attached
    <3> QED
      BY <2>4, <3>1, <3>2
  <2>6. /\ served.resolvedId = m.resolvedId /\ served.sourceMaps = m.sourceMaps \cup {id}
        /\ served.attached = [m.attached EXCEPT ![id] = @ \cup waiting]
        /\ served.confused = FALSE
        /\ served.view = [d \in Clients |-> IF d \in waiting THEN "attached" ELSE m.view[d]]
        /\ served.loading = [m.loading EXCEPT ![id] = {}]
        /\ served.loads = [m.loads EXCEPT ![id] = @ - 1]
    <3> HIDE DEF joined, waiting
    <3> QED
      BY <2>1, <2>2 DEF Managers, Viewed
  <2>7. served \in Managers
    BY <2>4
  <2> HIDE DEF served, joined
  <2>8. Filed(served)
    BY <1>1, <1>4, <2>6 DEF Fit, Filed, Managers
  <2>9. Used(served)
    BY <1>1, <1>8, <2>6 DEF Fit, Used, Managers
  <2>10. Awaited(served)
    BY <1>1, <2>6 DEF Fit, Awaited, Managers
  <2>11. Truthful(served)
    BY <1>1, <1>4, <2>6 DEF Fit, Truthful, Managers
  <2>12. \A i \in Ids : served.loads[i] <= m.loads[i]
    BY <1>1, <2>6 DEF Managers
  <2> QED
    BY <2>5, <2>7, <2>8, <2>9, <2>10, <2>11, <2>12 DEF Fit
<1> QED
  BY <1>6, <1>7, <1>8

--------------------------------------------------------------------------------
(* The invariant. *)

LEMMA InitInv == Init => IInv
<1> SUFFICES ASSUME Init PROVE IInv
  OBVIOUS
<1>1. manager \in Managers
  BY DEF Init, Managers, Standings
<1>2. /\ manager.resolvedId = [c \in Clients |-> NoId] /\ manager.sourceMaps = {}
      /\ manager.loading = [i \in Ids |-> {}] /\ manager.attached = [i \in Ids |-> {}]
      /\ manager.loads = [i \in Ids |-> 0] /\ manager.view = [c \in Clients |-> "none"]
      /\ manager.confused = FALSE
  BY DEF Init
<1>3. Filed(manager) /\ Used(manager) /\ Awaited(manager)
  BY <1>2 DEF Filed, Used, Awaited
<1>4. Truthful(manager)
  BY <1>2 DEF Truthful
<1>5. \A i \in Ids : manager.loads[i] <= MaxLoads
  BY <1>2, ConstantsAssumption
<1> QED
  BY <1>1, <1>3, <1>4, <1>5 DEF Init, IInv, Fit

\* The invariant after a step, from what is said of the record that the step has made.
LEMMA Becomes ==
    ASSUME isEnabled' \in BOOLEAN, page' \in Pages, NEW m, manager' = m, Fit(m),
           ~isEnabled' => Idle(m), \A i \in Ids : m.loads[i] <= MaxLoads
    PROVE  IInv'
BY DEF IInv, Fit, Filed, Used, Awaited, Truthful, Idle

LEMMA StepInv == IInv /\ [Next]_vars => IInv'
<1> SUFFICES ASSUME IInv, [Next]_vars PROVE IInv'
  OBVIOUS
<1>1. /\ Fit(manager) /\ isEnabled \in BOOLEAN /\ page \in Pages
      /\ ~isEnabled => Idle(manager)
      /\ \A i \in Ids : manager.loads[i] <= MaxLoads
  BY DEF IInv
<1>2. ASSUME NEW c \in Clients, ClientAttaches(c)
      PROVE  IInv'
  <2>1. manager.resolvedId[c] = NoId /\ manager' = AttachSourceMap(manager, c, page, isEnabled)
    BY <1>2 DEF ClientAttaches, Known
  <2>2. PICK m : m = AttachSourceMap(manager, c, page, isEnabled)
    OBVIOUS
  <2>3. Fit(m)
    BY <1>1, <2>1, <2>2, AttachFits
  <2>4. ASSUME ~isEnabled PROVE Idle(m)
    <3>1. isEnabled = FALSE
      BY <1>1, <2>4
    <3>2. Fewer(m, manager, {})
      BY <1>1, <2>2, <3>1, AttachDisabled
    <3> QED
      BY <1>1, <2>4, <3>2 DEF Fewer, Idle
  <2>5. /\ isEnabled' = isEnabled /\ page' = page /\ manager' = m
        /\ \A i \in Ids : m.loads[i] <= MaxLoads
    BY <1>2, <2>1, <2>2 DEF ClientAttaches, WithinBound
  <2> QED
    BY <1>1, <2>3, <2>4, <2>5, Becomes
<1>3. ASSUME NEW c \in Clients, ClientDetaches(c)
      PROVE  IInv'
  <2>1. PICK m : m = DetachSourceMap(manager, c)
    OBVIOUS
  <2>2. Fit(m) /\ m.loads = manager.loads /\ Fewer(m, manager, {c})
    BY <1>1, <2>1, DetachFits, DetachLeaves
  <2>3. ~isEnabled => Idle(m)
    BY <1>1, <2>2 DEF Fewer, Idle
  <2>4. isEnabled' = isEnabled /\ page' = page /\ manager' = m
    BY <1>3, <2>1 DEF ClientDetaches
  <2> QED
    BY <1>1, <2>2, <2>3, <2>4, Becomes
<1>4. ASSUME NEW enabled \in BOOLEAN, SetEnabled(enabled)
      PROVE  IInv'
  <2>1. PICK clients \in SetToSeqs(Known) : manager' = Reattach(manager, clients, page, enabled)
    BY <1>4 DEF SetEnabled
  <2>2. clients \in Seq(Clients)
    BY Listed DEF Known
  <2>3. PICK m : m = Reattach(manager, clients, page, enabled)
    OBVIOUS
  <2>4. Fit(m)
    BY <1>1, <2>2, <2>3, ReattachFits
  <2>5. ASSUME ~enabled PROVE Idle(m)
    <3>1. enabled = FALSE
      BY <2>5
    <3> QED
      BY <1>1, <2>3, <3>1, AllDetached
  <2>6. /\ isEnabled' = enabled /\ page' = page /\ manager' = m
        /\ \A i \in Ids : m.loads[i] <= MaxLoads
    BY <1>4, <2>1, <2>3 DEF SetEnabled, WithinBound
  <2> QED
    BY <1>1, <2>4, <2>5, <2>6, Becomes
<1>5. ASSUME NEW p \in Pages, InspectedURLChanged(p)
      PROVE  IInv'
  <2> DEFINE moved == {c \in Known : Resolve[c][p] \notin {NoId, manager.resolvedId[c]}}
  <2>1. PICK clients \in SetToSeqs(moved) : manager' = Reattach(manager, clients, p, isEnabled)
    BY <1>5 DEF InspectedURLChanged
  <2>2. clients \in Seq(Clients)
    BY Listed DEF Known
  <2>3. PICK m : m = Reattach(manager, clients, p, isEnabled)
    OBVIOUS
  <2>4. /\ Fit(m)
        /\ isEnabled = FALSE => Fewer(m, manager, {clients[k] : k \in 1 .. Len(clients)})
    BY <1>1, <2>2, <2>3, ReattachFits
  <2>5. ~isEnabled => Idle(m)
    BY <1>1, <2>4 DEF Fewer, Idle
  <2>6. /\ isEnabled' = isEnabled /\ page' = p /\ manager' = m
        /\ \A i \in Ids : m.loads[i] <= MaxLoads
    BY <1>5, <2>1, <2>3 DEF InspectedURLChanged, WithinBound
  <2> QED
    BY <1>1, <2>4, <2>5, <2>6, Becomes
<1>6. ASSUME NEW id \in Ids, NEW loaded \in BOOLEAN, OnSourceMap(id, loaded)
      PROVE  IInv'
  <2>1. PICK m : m = manager'
    OBVIOUS
  <2>2. Fit(m) /\ \A i \in Ids : m.loads[i] <= manager.loads[i]
    BY <1>1, <1>6, <2>1, AnswerFits
  <2>3. ASSUME ~isEnabled PROVE Idle(m)
    <3>1. manager.loading[id] = {} /\ manager \in Managers
      BY <1>1, <2>3 DEF Idle, Fit
    <3>2. manager' = [manager EXCEPT !.loads[id] = @ - 1, !.loading[id] = {}]
      BY <1>6, <3>1 DEF OnSourceMap
    <3>3. m.loading = [manager.loading EXCEPT ![id] = {}] /\ m.attached = manager.attached
      BY <2>1, <3>1, <3>2 DEF Managers
    <3> QED
      BY <1>1, <2>3, <3>1, <3>3 DEF Idle, Managers
  <2>4. manager \in Managers /\ m \in Managers
    BY <1>1, <2>2 DEF Fit
  <2>5. \A i \in Ids : m.loads[i] <= MaxLoads
    BY <1>1, <2>2, <2>4, ConstantsAssumption DEF Managers
  <2>6. isEnabled' = isEnabled /\ page' = page /\ manager' = m
    BY <1>6, <2>1 DEF OnSourceMap
  <2> QED
    BY <1>1, <2>2, <2>3, <2>5, <2>6, Becomes
<1>7. CASE UNCHANGED vars
  <2>1. isEnabled' = isEnabled /\ page' = page /\ manager' = manager
    BY <1>7 DEF vars
  <2> QED
    BY <1>1, <2>1, Becomes
<1> QED
  BY <1>2, <1>3, <1>4, <1>5, <1>6, <1>7 DEF Next

\* What the manager knows of its clients stays fit, whatever clients, loads and pages
\* come and go: attachSourceMap, detachSourceMap, setEnabled, _inspectedURLChanged and
\* onSourceMap each leave it so.
THEOREM Invariance == Spec => []IInv
<1>1. Init => IInv
  BY InitInv
<1>2. IInv /\ [Next]_vars => IInv'
  BY StepInv
<1> QED
  BY <1>1, <1>2, PTL DEF Spec

\* A source map is kept exactly as long as it has clients (detachSourceMap drops it with
\* the last one), and who is on the waiting list of _sourceMapIdToLoadingClients waits
\* for a load that is under way.
THEOREM ConsistentAlways == Spec => []Consistent
<1>1. IInv => Consistent
  <2> SUFFICES ASSUME IInv PROVE Consistent
    OBVIOUS
  <2>1. Fit(manager) /\ manager \in Managers /\ \A i \in Ids : manager.loads[i] <= MaxLoads
    BY DEF IInv, Fit
  <2>2. manager.loads \in [Ids -> 0 .. MaxLoads]
    BY <2>1, ConstantsAssumption DEF Managers
  <2>3. TypeOK
    BY <2>1, <2>2 DEF IInv, TypeOK, Managers, Standings
  <2>4. MapsHaveClients /\ WaitersHaveLoads
    BY <2>1 DEF Fit, Used, Awaited, MapsHaveClients, WaitersHaveLoads
  <2> QED
    BY <2>3, <2>4 DEF Consistent
<1> QED
  BY <1>1, Invariance, PTL

\* A client is on one list at most, that of the id it is resolved to now, and on none
\* while the manager is disabled: navigations and setEnabled, which detach it first, leave
\* nothing behind under its old id, also while the load of that id is under way.
THEOREM NothingStale == Spec => []NoStaleClient
<1>1. IInv => NoStaleClient
  <2> SUFFICES ASSUME IInv PROVE NoStaleClient
    OBVIOUS
  <2>1. ASSUME NEW id \in Ids, NEW c \in Clients
        PROVE  /\ c \in manager.loading[id] \cup manager.attached[id] => manager.resolvedId[c] = id
               /\ ~(c \in manager.loading[id] /\ c \in manager.attached[id])
    BY DEF IInv, Fit, Filed, Truthful
  <2>2. ~isEnabled => \A id \in Ids : manager.loading[id] = {} /\ manager.attached[id] = {}
    BY DEF IInv, Idle
  <2> QED
    BY <2>1, <2>2 DEF NoStaleClient
<1> QED
  BY <1>1, Invariance, PTL

\* The events of each client come in an order that makes sense and tell where it stands:
\* SourceMapAttached and SourceMapFailedToAttach come after SourceMapWillAttach only, and
\* SourceMapDetached after SourceMapAttached only.
THEOREM EventsTrue == Spec => []EventsTellTheTruth
<1>1. IInv => EventsTellTheTruth
  BY DEF IInv, Fit, Truthful, EventsTellTheTruth
<1> QED
  BY <1>1, Invariance, PTL
================================================================================
