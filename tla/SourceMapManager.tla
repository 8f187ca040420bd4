---------------------------- MODULE SourceMapManager ----------------------------
(*****************************************************************************)
(* sdk/SourceMapManager.js: clients (scripts, style sheets) attach to source *)
(* maps that are shared by id and loaded asynchronously.  The id of a client *)
(* is resolved against the inspected URL, so a navigation can change it; the *)
(* manager can be disabled and enabled; clients come and go while their map  *)
(* is being loaded.                                                          *)
(*                                                                           *)
(* The maps of the class are the fields of one record, so that the loops of  *)
(* setEnabled and _inspectedURLChanged, which detach and attach client after *)
(* client, can be written as a function from one record to the next.  What a *)
(* listener has been told of a client is a field too (view), and so is       *)
(* whether the events it was sent ever came in an order that makes no sense  *)
(* (confused).                                                               *)
(*****************************************************************************)
EXTENDS Naturals, Sequences, FiniteSets, SequencesExt

CONSTANTS Clients,
          Ids,        \* source map ids: resolved source URL and source map URL
          Pages,      \* inspected URLs
          Resolve,    \* client -> page -> the id _resolveRelativeURLs gives it, or NoId
          NoId,
          MaxLoads    \* bound: loads of one id that are under way at a time

ASSUME ConstantsAssumption ==
    /\ IsFiniteSet(Clients)
    /\ NoId \notin Ids
    /\ Resolve \in [Clients -> [Pages -> Ids \cup {NoId}]]
    /\ MaxLoads \in Nat

VARIABLES isEnabled, page, manager

vars == <<isEnabled, page, manager>>

Init == /\ isEnabled = TRUE
        /\ page \in Pages
        /\ manager = [resolvedId |-> [c \in Clients |-> NoId],
                      sourceMaps |-> {},
                      loading |-> [i \in Ids |-> {}],
                      attached |-> [i \in Ids |-> {}],
                      loads |-> [i \in Ids |-> 0],
                      view |-> [c \in Clients |-> "none"],
                      confused |-> FALSE]

--------------------------------------------------------------------------------
(* Events.  A listener may expect WillAttach, then Attached or Failed, and    *)
(* Detached only after Attached.                                              *)

Expected == [attaching |-> {"none", "failed"}, attached |-> {"attaching"},
             failed |-> {"attaching"}, none |-> {"attached"}]

\* The event is dispatched for each client of C.
Tell(m, C, news) ==
    [m EXCEPT !.view = [c \in Clients |-> IF c \in C THEN news ELSE m.view[c]],
              !.confused = @ \/ \E c \in C : m.view[c] \notin Expected[news]]

WillAttach(m, C) == Tell(m, C, "attaching")
Attached(m, C) == Tell(m, C, "attached")
FailedToAttach(m, C) == Tell(m, C, "failed")
Detached(m, C) == Tell(m, C, "none")

--------------------------------------------------------------------------------
(* attachSourceMap and detachSourceMap. *)

Attach(id, m, C) == Attached([m EXCEPT !.attached[id] = @ \cup C], C)

\* Variant: the client is put on the list before the list says whether a load is under way.
StartLoadAfterJoining(id, m, c) ==
    [m EXCEPT !.loading[id] = @ \cup {c},
              !.loads[id] = IF m.loading[id] \cup {c} = {} THEN @ + 1 ELSE @]

\* The client waits for its map, which is loaded unless somebody waits for it already.
StartLoad(id, m, c) ==
    [m EXCEPT !.loads[id] = IF m.loading[id] = {} THEN @ + 1 ELSE @,
              !.loading[id] = @ \cup {c}]

AttachSourceMap(m, c, inspectedURL, enabled) ==
    LET id == Resolve[c][inspectedURL]
        known == [m EXCEPT !.resolvedId[c] = id]
    IN  IF id = NoId THEN m
        ELSE IF ~enabled THEN known
        ELSE IF id \in m.sourceMaps THEN Attach(id, WillAttach(known, {c}), {c})
        ELSE StartLoad(id, WillAttach(known, {c}), c)

\* Variant: a client that leaves while it waits stays on the waiting list.
DetachSourceMapStillWaiting(m, c) ==
    LET id == m.resolvedId[c]
        forgotten == [m EXCEPT !.resolvedId[c] = NoId]
        left == [forgotten EXCEPT !.attached[id] = @ \ {c}]
    IN  IF id = NoId THEN m
        ELSE IF c \notin m.attached[id]
        THEN IF c \in m.loading[id]
             THEN FailedToAttach(forgotten, {c})
             ELSE forgotten
        ELSE IF id \notin m.sourceMaps THEN left
        ELSE Detached([left EXCEPT !.sourceMaps =
                           IF left.attached[id] = {} THEN @ \ {id} ELSE @], {c})

\* Variant: the source map is kept when its last client leaves.
DetachSourceMapKeepsMap(m, c) ==
    LET id == m.resolvedId[c]
        forgotten == [m EXCEPT !.resolvedId[c] = NoId]
        left == [forgotten EXCEPT !.attached[id] = @ \ {c}]
    IN  IF id = NoId THEN m
        ELSE IF c \notin m.attached[id]
        THEN IF c \in m.loading[id]
             THEN FailedToAttach([forgotten EXCEPT !.loading[id] = @ \ {c}], {c})
             ELSE forgotten
        ELSE IF id \notin m.sourceMaps THEN left
        ELSE Detached(left, {c})

\* Variant: no event for a client that leaves while it waits.
DetachSourceMapSilently(m, c) ==
    LET id == m.resolvedId[c]
        forgotten == [m EXCEPT !.resolvedId[c] = NoId]
        left == [forgotten EXCEPT !.attached[id] = @ \ {c}]
    IN  IF id = NoId THEN m
        ELSE IF c \notin m.attached[id]
        THEN IF c \in m.loading[id]
             THEN [forgotten EXCEPT !.loading[id] = @ \ {c}]
             ELSE forgotten
        ELSE IF id \notin m.sourceMaps THEN left
        ELSE Detached([left EXCEPT !.sourceMaps =
                           IF left.attached[id] = {} THEN @ \ {id} ELSE @], {c})

\* A client leaves: the list it waits on, or the source map it is attached to,
\* which goes with its last client.
DetachSourceMap(m, c) ==
    LET id == m.resolvedId[c]
        forgotten == [m EXCEPT !.resolvedId[c] = NoId]
        left == [forgotten EXCEPT !.attached[id] = @ \ {c}]
    IN  IF id = NoId THEN m
        ELSE IF c \notin m.attached[id]
        THEN IF c \in m.loading[id]
             THEN FailedToAttach([forgotten EXCEPT !.loading[id] = @ \ {c}], {c})
             ELSE forgotten
        ELSE IF id \notin m.sourceMaps THEN left
        ELSE Detached([left EXCEPT !.sourceMaps =
                           IF left.attached[id] = {} THEN @ \ {id} ELSE @], {c})

\* Detach and attach again every client of the sequence, in its order.
Reattach(m, clients, inspectedURL, enabled) ==
    LET after[n \in 0 .. Len(clients)] ==
            IF n = 0 THEN m
            ELSE AttachSourceMap(DetachSourceMap(after[n - 1], clients[n]), clients[n],
                                 inspectedURL, enabled)
    IN  after[Len(clients)]

WithinBound == \A i \in Ids : manager'.loads[i] <= MaxLoads

--------------------------------------------------------------------------------
(* Actions. *)

Known == {c \in Clients : manager.resolvedId[c] # NoId}

\* A client is attached once: attachSourceMap asserts that its callers see to that.
ClientAttaches(c) ==
    /\ c \notin Known
    /\ manager' = AttachSourceMap(manager, c, page, isEnabled)
    /\ WithinBound
    /\ UNCHANGED <<isEnabled, page>>

ClientDetaches(c) ==
    /\ c \in Known
    /\ manager' = DetachSourceMap(manager, c)
    /\ UNCHANGED <<isEnabled, page>>

SetEnabled(enabled) ==
    /\ enabled # isEnabled
    /\ isEnabled' = enabled
    /\ \E clients \in SetToSeqs(Known) : manager' = Reattach(manager, clients, page, enabled)
    /\ WithinBound
    /\ UNCHANGED page

\* Clients whose URLs resolve to another id are attached anew; the others, and
\* those whose URLs resolve to nothing, are left as they are.
InspectedURLChanged(p) ==
    /\ p # page
    /\ page' = p
    /\ LET moved == {c \in Known : Resolve[c][p] \notin {NoId, manager.resolvedId[c]}}
       IN  \E clients \in SetToSeqs(moved) : manager' = Reattach(manager, clients, p, isEnabled)
    /\ WithinBound
    /\ UNCHANGED isEnabled

\* A load of the id ends.  Which one it is, when several are under way, makes no
\* difference: whoever waits for the id now gets the answer.
OnSourceMap(id, loaded) ==
    /\ manager.loads[id] > 0
    /\ LET waiting == manager.loading[id]
           answered == [manager EXCEPT !.loads[id] = @ - 1, !.loading[id] = {}]
       IN  manager' = IF waiting = {} THEN answered
                      ELSE IF ~loaded THEN FailedToAttach(answered, waiting)
                      ELSE Attach(id, [answered EXCEPT !.sourceMaps = @ \cup {id}], waiting)
    /\ UNCHANGED <<isEnabled, page>>

Next == \/ \E c \in Clients : ClientAttaches(c) \/ ClientDetaches(c)
        \/ \E enabled \in BOOLEAN : SetEnabled(enabled)
        \/ \E p \in Pages : InspectedURLChanged(p)
        \/ \E id \in Ids, loaded \in BOOLEAN : OnSourceMap(id, loaded)

\* A load ends, with a source map or without: PageResourceLoader sees to that.
Fairness == \A id \in Ids : WF_vars(\E loaded \in BOOLEAN : OnSourceMap(id, loaded))

Spec == Init /\ [][Next]_vars /\ Fairness

--------------------------------------------------------------------------------
(* Properties. *)

\* Every variable has its shape.
TypeOK ==
    /\ isEnabled \in BOOLEAN /\ page \in Pages
    /\ manager.resolvedId \in [Clients -> Ids \cup {NoId}]
    /\ manager.sourceMaps \subseteq Ids
    /\ manager.loading \in [Ids -> SUBSET Clients]
    /\ manager.attached \in [Ids -> SUBSET Clients]
    /\ manager.loads \in [Ids -> 0..MaxLoads]
    /\ manager.view \in [Clients -> {"none", "attaching", "attached", "failed"}]
    /\ manager.confused \in BOOLEAN

\* A client is on at most one list, that of the id it is resolved to now, and
\* on none while the manager is disabled: nothing is left behind under the id it
\* had before a navigation, or by the loop of setEnabled.
NoStaleClient ==
    /\ \A id \in Ids, c \in Clients :
           /\ c \in manager.loading[id] \cup manager.attached[id] => manager.resolvedId[c] = id
           /\ ~(c \in manager.loading[id] /\ c \in manager.attached[id])
    /\ ~isEnabled => \A id \in Ids : manager.loading[id] = {} /\ manager.attached[id] = {}

\* A source map is kept exactly as long as it has clients.
MapsHaveClients == \A id \in Ids : id \in manager.sourceMaps <=> manager.attached[id] # {}

\* Whoever waits for a source map waits for a load that is under way.
WaitersHaveLoads == \A id \in Ids : manager.loading[id] # {} => manager.loads[id] > 0

\* The maps agree with each other, through navigations and loads that cross: their
\* shape, no map without a client and no client without a map or a load.
Consistent == TypeOK /\ MapsHaveClients /\ WaitersHaveLoads

\* Each client's events come in an order that makes sense, and they tell its
\* listeners where it stands: whoever counts clients in and out can rely on it.
EventsTellTheTruth ==
    /\ ~manager.confused
    /\ \A c \in Clients :
           /\ manager.view[c] = "attaching" <=> \E id \in Ids : c \in manager.loading[id]
           /\ manager.view[c] = "attached" <=> \E id \in Ids : c \in manager.attached[id]

\* Nobody waits for a source map for ever: the load ends, or the client is
\* detached from that id, also if the page is navigated or the manager switched
\* off and on again and again.
WaitEnds ==
    \A c \in Clients, id \in Ids : c \in manager.loading[id] ~> c \notin manager.loading[id]
================================================================================
