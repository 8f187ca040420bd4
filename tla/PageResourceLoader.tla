--------------------------- MODULE PageResourceLoader ---------------------------
(*****************************************************************************)
(* sdk/PageResourceLoader.js: loads of page resources (source maps) share a  *)
(* number of slots; a load that finds none is queued; a navigation of the    *)
(* main frame cancels the queue and forgets the listed resources.            *)
(*                                                                           *)
(* Every action runs the code between two awaits.  Promise continuations are *)
(* actions of their own: after a queued load is resolved or rejected, other  *)
(* code runs before that load goes on.  In particular the code that handles  *)
(* a navigation may start loads right after the loader has cancelled its     *)
(* queue: ResourceTreeModel._frameNavigated dispatches MainFrameNavigated    *)
(* and then, in the same turn, sets the inspected URL, on which              *)
(* SourceMapManager re-attaches and loads its source maps.                   *)
(*****************************************************************************)
EXTENDS Integers, FiniteSets, Sequences

CONSTANTS Loads,               \* the calls of loadResource
          Keys,                \* the keys makeKey computes
          KeyOf,               \* load -> its key
          MaxConcurrentLoads,
          NoLoad               \* a key that is not listed

ASSUME ConstantsAssumption ==
    /\ IsFiniteSet(Loads)
    /\ KeyOf \in [Loads -> Keys]
    /\ MaxConcurrentLoads \in Nat \ {0}
    /\ NoLoad \notin Loads

VARIABLES phase,             \* load -> where its call of loadResource stands
          currentlyLoading,
          queuedLoads,       \* the loads of _queuedLoads, first in first out
          pageResources,     \* key -> the load whose PageResource is listed under it
          race,              \* load -> what its Promise.race settled with, or "open"
          resource,          \* load -> "loading", or what its PageResource says
          crossed            \* history: a load was started while cancelled loads had
                             \* not yet given back their place

vars == <<phase, currentlyLoading, queuedLoads, pageResources, race, resource, crossed>>

Phases == {"idle", "queued", "slotted", "dispatched", "rejected", "done"}
In(p) == {l \in Loads : phase[l] \in p}

Init == /\ phase = [l \in Loads |-> "idle"]
        /\ currentlyLoading = 0
        /\ queuedLoads = <<>>
        /\ pageResources = [k \in Keys |-> NoLoad]
        /\ race = [l \in Loads |-> "open"]
        /\ resource = [l \in Loads |-> "loading"]
        /\ crossed = FALSE

\* Variant: the limit is compared before the new load is counted.
LoadResourceLateCount(l) ==
    /\ phase[l] = "idle"
    /\ pageResources' = [pageResources EXCEPT ![KeyOf[l]] = l]
    /\ currentlyLoading' = currentlyLoading + 1
    /\ IF currentlyLoading > MaxConcurrentLoads
       THEN /\ phase' = [phase EXCEPT ![l] = "queued"]
            /\ queuedLoads' = Append(queuedLoads, l)
       ELSE /\ phase' = [phase EXCEPT ![l] = "slotted"]
            /\ UNCHANGED queuedLoads
    /\ crossed' = (crossed \/ In({"rejected"}) # {})
    /\ UNCHANGED <<race, resource>>

\* loadResource up to its first await: the resource is listed, the load counted
\* and, with _acquireLoadSlot, queued if that makes too many.
LoadResource(l) ==
    /\ phase[l] = "idle"
    /\ pageResources' = [pageResources EXCEPT ![KeyOf[l]] = l]
    /\ currentlyLoading' = currentlyLoading + 1
    /\ IF currentlyLoading' > MaxConcurrentLoads
       THEN /\ phase' = [phase EXCEPT ![l] = "queued"]
            /\ queuedLoads' = Append(queuedLoads, l)
       ELSE /\ phase' = [phase EXCEPT ![l] = "slotted"]
            /\ UNCHANGED queuedLoads
    /\ crossed' = (crossed \/ In({"rejected"}) # {})
    /\ UNCHANGED <<race, resource>>

\* The load goes on with its slot: the back-end is asked and the timeout armed.
DispatchLoad(l) ==
    /\ phase[l] = "slotted"
    /\ phase' = [phase EXCEPT ![l] = "dispatched"]
    /\ UNCHANGED <<currentlyLoading, queuedLoads, pageResources, race, resource, crossed>>

\* Variant: whatever settles last wins.
SettleLast(l, how) ==
    /\ phase[l] \in {"dispatched", "done"}
    /\ race[l] # how
    /\ race' = [race EXCEPT ![l] = how]
    /\ resource' = IF phase[l] = "done" THEN [resource EXCEPT ![l] = how] ELSE resource
    /\ UNCHANGED <<phase, currentlyLoading, queuedLoads, pageResources, crossed>>

\* _withTimeout: the back-end's answer or the timer, whichever is first; the
\* other one is discarded when it comes.
Settle(l, how) ==
    /\ phase[l] = "dispatched"
    /\ race[l] = "open"
    /\ race' = [race EXCEPT ![l] = how]
    /\ UNCHANGED <<phase, currentlyLoading, queuedLoads, pageResources, resource, crossed>>

BackendAnswers(l) == Settle(l, "success") \/ Settle(l, "failure")

TimeOut(l) == Settle(l, "timeout")

\* Variant: the queue moves only once the count is below the limit.
ReleaseLoadSlotOnlyWhenFull(l) ==
    /\ currentlyLoading' = currentlyLoading - 1
    /\ IF queuedLoads # <<>> /\ currentlyLoading' < MaxConcurrentLoads
       THEN /\ phase' = [phase EXCEPT ![l] = "done", ![Head(queuedLoads)] = "slotted"]
            /\ queuedLoads' = Tail(queuedLoads)
       ELSE /\ phase' = [phase EXCEPT ![l] = "done"]
            /\ UNCHANGED queuedLoads

\* The finally of loadResource: the load is no longer counted, and the first of
\* the queue goes on.
ReleaseLoadSlot(l) ==
    /\ currentlyLoading' = currentlyLoading - 1
    /\ IF queuedLoads # <<>>
       THEN /\ phase' = [phase EXCEPT ![l] = "done", ![Head(queuedLoads)] = "slotted"]
            /\ queuedLoads' = Tail(queuedLoads)
       ELSE /\ phase' = [phase EXCEPT ![l] = "done"]
            /\ UNCHANGED queuedLoads

\* The rest of loadResource once its race has settled.
FinishLoad(l) ==
    /\ phase[l] = "dispatched"
    /\ race[l] # "open"
    /\ resource' = [resource EXCEPT ![l] = race[l]]
    /\ ReleaseLoadSlot(l)
    /\ UNCHANGED <<pageResources, race, crossed>>

\* The rest of loadResource after waitForCapacity was rejected.
FinishCanceledLoad(l) ==
    /\ phase[l] = "rejected"
    /\ resource' = [resource EXCEPT ![l] = "canceled"]
    /\ ReleaseLoadSlot(l)
    /\ UNCHANGED <<pageResources, race, crossed>>

\* Variant: the cancelled loads stay in the queue.
OnMainFrameNavigatedKeepsQueue ==
    /\ phase' = [l \in Loads |-> IF phase[l] = "queued" THEN "rejected" ELSE phase[l]]
    /\ pageResources' = [k \in Keys |-> NoLoad]
    /\ UNCHANGED <<currentlyLoading, queuedLoads, race, resource, crossed>>

\* Variant: a navigation starts the count anew.
OnMainFrameNavigatedResetsCount ==
    /\ phase' = [l \in Loads |-> IF phase[l] = "queued" THEN "rejected" ELSE phase[l]]
    /\ queuedLoads' = <<>>
    /\ currentlyLoading' = 0
    /\ pageResources' = [k \in Keys |-> NoLoad]
    /\ UNCHANGED <<race, resource, crossed>>

\* _onMainFrameNavigated for a top frame.
OnMainFrameNavigated ==
    /\ phase' = [l \in Loads |-> IF phase[l] = "queued" THEN "rejected" ELSE phase[l]]
    /\ queuedLoads' = <<>>
    /\ pageResources' = [k \in Keys |-> NoLoad]
    /\ UNCHANGED <<currentlyLoading, race, resource, crossed>>

Next == \/ \E l \in Loads : \/ LoadResource(l) \/ DispatchLoad(l)
                            \/ BackendAnswers(l) \/ TimeOut(l)
                            \/ FinishLoad(l) \/ FinishCanceledLoad(l)
        \/ OnMainFrameNavigated

SafeSpec == Init /\ [][Next]_vars

\* Continuations run, and the timer of a dispatched load fires; the back-end
\* need not answer and the page need not navigate.
Fairness == \A l \in Loads : /\ WF_vars(DispatchLoad(l))
                             /\ WF_vars(TimeOut(l))
                             /\ WF_vars(FinishLoad(l))
                             /\ WF_vars(FinishCanceledLoad(l))

Spec == SafeSpec /\ Fairness

--------------------------------------------------------------------------------
(* Properties. *)

\* Every variable has its shape.
TypeOK ==
    /\ phase \in [Loads -> Phases]
    /\ currentlyLoading \in Nat
    /\ queuedLoads \in Seq(Loads)
    /\ pageResources \in [Keys -> Loads \cup {NoLoad}]
    /\ race \in [Loads -> {"open", "success", "failure", "timeout"}]
    /\ resource \in [Loads -> {"loading", "success", "failure", "timeout", "canceled"}]
    /\ crossed \in BOOLEAN

\* _currentlyLoading counts every load from its start to its end, waiting,
\* cancelled or dispatched, and the queue holds those that wait, once each.
Unfinished == In(Phases \ {"idle", "done"})

AccountsBalance ==
    /\ currentlyLoading = Cardinality(Unfinished)
    /\ \A i, j \in 1..Len(queuedLoads) : queuedLoads[i] = queuedLoads[j] => i = j
    /\ In({"queued"}) = {queuedLoads[i] : i \in 1..Len(queuedLoads)}

\* A load waits only while enough others will give up a place: nothing is left
\* in the queue when the last slot is released.
WaitsOnlyWhenFull ==
    queuedLoads # <<>> =>
        Cardinality(In({"slotted", "dispatched", "rejected"})) >= MaxConcurrentLoads

\* "Maximal number of concurrently dispatched loads. If this limit is reached,
\* additional loads are queued up."
MaxConcurrentLoadsRespected ==
    Cardinality(In({"dispatched"})) <= MaxConcurrentLoads

\* The limit holds as long as no load is started between the cancellation of
\* the queue and the moment the cancelled loads give back their places.
RespectedUnlessCrossed ==
    ~crossed => Cardinality(In({"slotted", "dispatched"})) <= MaxConcurrentLoads

\* Whatever waits is listed, since a navigation clears the queue and the list together.
QueuedAreListed ==
    \A l \in In({"queued"}) : pageResources[KeyOf[l]] # NoLoad

\* The result that arrives after the timeout, or the timeout after the result,
\* changes nothing: what a resource says, once it says something, stays.
OutcomeIsFinal ==
    [][\A l \in Loads : resource[l] # "loading" => resource'[l] = resource[l]]_vars

\* Every load ends, a queued one too: by a slot that is released or by a navigation.
EveryLoadEnds == \A l \in Loads : phase[l] # "idle" ~> phase[l] = "done"
================================================================================
