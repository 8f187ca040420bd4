------------------------ MODULE PageResourceLoader_proofs ------------------------
(*****************************************************************************)
(* Proofs about PageResourceLoader, for any loads and any limit: typing, the *)
(* accounts of the slots, that nothing waits without need, that the limit    *)
(* holds while no load crosses a cancellation, that waiting loads are        *)
(* listed, and that outcomes are final.                                      *)
(*****************************************************************************)
EXTENDS PageResourceLoader, FiniteSetTheorems, TLAPS

Queued == In({"queued"})
Holding == In({"slotted", "dispatched"})
NotQueued == In({"slotted", "dispatched", "rejected"})

\* The queue is a duplicate-free listing of the queued loads.
QueueExact ==
    /\ \A i, j \in 1..Len(queuedLoads) : queuedLoads[i] = queuedLoads[j] => i = j
    /\ \A i \in 1..Len(queuedLoads) : phase[queuedLoads[i]] = "queued"
    /\ \A l \in Loads : phase[l] = "queued" =>
           \E i \in 1..Len(queuedLoads) : queuedLoads[i] = l

CountExact == currentlyLoading = Cardinality(Unfinished)

\* Loads queue up behind cancelled ones only by crossing.
NoQueueBehindRejected == ~crossed /\ In({"rejected"}) # {} => queuedLoads = <<>>

IInv == /\ TypeOK /\ QueueExact /\ CountExact /\ WaitsOnlyWhenFull
        /\ RespectedUnlessCrossed /\ NoQueueBehindRejected /\ QueuedAreListed

(* Every set of loads is finite. *)
LEMMA LoadsFinite ==
    ASSUME NEW S \in SUBSET Loads
    PROVE  IsFiniteSet(S) /\ Cardinality(S) \in Nat
BY ConstantsAssumption, FS_Subset, FS_CardinalityType

LEMMA Adding ==
    ASSUME NEW S \in SUBSET Loads, NEW l \in Loads, l \notin S
    PROVE  Cardinality(S \cup {l}) = Cardinality(S) + 1
BY LoadsFinite, FS_AddElement

LEMMA Removing ==
    ASSUME NEW S \in SUBSET Loads, NEW l \in S
    PROVE  Cardinality(S \ {l}) = Cardinality(S) - 1
BY LoadsFinite, FS_RemoveElement

LEMMA Smaller ==
    ASSUME NEW S \in SUBSET Loads, NEW R \in SUBSET S
    PROVE  Cardinality(R) <= Cardinality(S)
BY LoadsFinite, FS_Subset

(* At the start nothing is loading. *)
LEMMA InvInit == Init => IInv
<1> SUFFICES ASSUME Init PROVE IInv
  OBVIOUS
<1>1. TypeOK
  <2>1. "idle" \in Phases /\ 0 \in Nat /\ <<>> \in Seq(Loads)
    BY DEF Phases
  <2> QED
    BY <2>1 DEF Init, TypeOK
<1>2. QueueExact /\ WaitsOnlyWhenFull /\ NoQueueBehindRejected /\ QueuedAreListed
  BY DEF Init, QueueExact, WaitsOnlyWhenFull, NoQueueBehindRejected, QueuedAreListed, In
<1>3. Unfinished = {} /\ Holding = {}
  BY DEF Init, Unfinished, Holding, In, Phases
<1>4. CountExact
  BY <1>3, FS_EmptySet DEF Init, CountExact
<1>5. RespectedUnlessCrossed
  BY <1>3, FS_EmptySet, ConstantsAssumption DEF RespectedUnlessCrossed, Holding
<1> QED
  BY <1>1, <1>2, <1>4, <1>5 DEF IInv

(* A new load is counted; it joins the queue only when the limit is reached. *)
LEMMA LoadStep ==
    ASSUME IInv, NEW l \in Loads, LoadResource(l)
    PROVE  IInv'
<1> USE ConstantsAssumption
<1>1. /\ phase[l] = "idle"
      /\ pageResources' = [pageResources EXCEPT ![KeyOf[l]] = l]
      /\ currentlyLoading' = currentlyLoading + 1
      /\ crossed' = (crossed \/ In({"rejected"}) # {})
      /\ UNCHANGED <<race, resource>>
  BY DEF LoadResource
<1>2. /\ phase \in [Loads -> Phases] /\ queuedLoads \in Seq(Loads)
      /\ currentlyLoading \in Nat /\ pageResources \in [Keys -> Loads \cup {NoLoad}]
      /\ KeyOf[l] \in Keys
  BY DEF IInv, TypeOK
<1>3. ASSUME NEW p \in {"queued", "slotted"}, phase' = [phase EXCEPT ![l] = p]
      PROVE  /\ phase' \in [Loads -> Phases]
             /\ Unfinished' = Unfinished \cup {l}
             /\ l \notin Unfinished
             /\ In({"rejected"})' = In({"rejected"})
  BY <1>1, <1>2, <1>3 DEF Unfinished, In, Phases
<1>4. phase' \in {[phase EXCEPT ![l] = "queued"], [phase EXCEPT ![l] = "slotted"]}
  BY DEF LoadResource
<1>5. CountExact'
  <2>1. Unfinished \in SUBSET Loads /\ Unfinished' = Unfinished \cup {l} /\ l \notin Unfinished
    BY <1>3, <1>4 DEF Unfinished, In
  <2> QED
    BY <1>1, <2>1, Adding DEF IInv, CountExact
<1>6. Unfinished = Queued \cup NotQueued /\ NotQueued = Holding \cup In({"rejected"})
  BY <1>2 DEF Unfinished, Queued, NotQueued, Holding, In, Phases
<1>7. CASE currentlyLoading' > MaxConcurrentLoads
  <2>1. phase' = [phase EXCEPT ![l] = "queued"] /\ queuedLoads' = Append(queuedLoads, l)
    BY <1>7 DEF LoadResource
  <2>2. TypeOK'
    BY <1>1, <1>2, <1>3, <2>1 DEF IInv, TypeOK
  <2>3. QueueExact'
    <3>1. Len(queuedLoads') = Len(queuedLoads) + 1 /\ queuedLoads'[Len(queuedLoads) + 1] = l
          /\ \A i \in 1..Len(queuedLoads) : queuedLoads'[i] = queuedLoads[i]
      BY <1>2, <2>1
    <3>2. \A i \in 1..Len(queuedLoads) : queuedLoads[i] \in Loads /\ queuedLoads[i] # l
      BY <1>1, <1>2 DEF IInv, QueueExact
    <3>3. phase'[l] = "queued" /\ \A m \in Loads : m # l => phase'[m] = phase[m]
      BY <1>2, <2>1
    <3>4. Len(queuedLoads) \in Nat
      BY <1>2
    <3> QED
      BY <3>1, <3>2, <3>3, <3>4 DEF IInv, QueueExact
  <2>4. NotQueued' = NotQueued /\ Holding' = Holding
    BY <1>1, <1>2, <2>1 DEF NotQueued, Holding, In
  <2>5. Cardinality(NotQueued) >= MaxConcurrentLoads
    <3>1. CASE queuedLoads = <<>>
      <4>1. Queued = {}
        BY <3>1 DEF IInv, QueueExact, Queued, In
      <4>2. currentlyLoading = Cardinality(NotQueued)
        BY <4>1, <1>6 DEF IInv, CountExact
      <4> QED
        BY <4>2, <1>1, <1>2, <1>7
    <3>2. CASE queuedLoads # <<>>
      BY <3>2 DEF IInv, WaitsOnlyWhenFull, NotQueued
    <3> QED
      BY <3>1, <3>2
  <2>6. WaitsOnlyWhenFull'
    BY <2>4, <2>5 DEF WaitsOnlyWhenFull, NotQueued
  <2>7. RespectedUnlessCrossed'
    BY <1>1, <2>4 DEF IInv, RespectedUnlessCrossed, Holding
  <2>8. NoQueueBehindRejected'
    BY <1>1, <1>3, <2>1 DEF NoQueueBehindRejected
  <2>9. QueuedAreListed'
    BY <1>1, <1>2, <2>1 DEF IInv, QueuedAreListed, In
  <2> QED
    BY <1>5, <2>2, <2>3, <2>6, <2>7, <2>8, <2>9 DEF IInv
<1>8. CASE ~(currentlyLoading' > MaxConcurrentLoads)
  <2>1. phase' = [phase EXCEPT ![l] = "slotted"] /\ queuedLoads' = queuedLoads
    BY <1>8 DEF LoadResource
  <2>2. TypeOK'
    BY <1>1, <1>2, <1>3, <2>1 DEF IInv, TypeOK
  <2>3. QueueExact'
    <3>1. \A i \in 1..Len(queuedLoads) : queuedLoads[i] \in Loads /\ queuedLoads[i] # l
      BY <1>1, <1>2 DEF IInv, QueueExact
    <3>2. phase'[l] = "slotted" /\ \A m \in Loads : m # l => phase'[m] = phase[m]
      BY <1>2, <2>1
    <3> QED
      BY <2>1, <3>1, <3>2 DEF IInv, QueueExact
  <2>4. NotQueued' = NotQueued \cup {l} /\ Holding' = Holding \cup {l}
        /\ l \notin NotQueued /\ l \notin Holding
    BY <1>1, <1>2, <2>1 DEF NotQueued, Holding, In
  <2>5. NotQueued \in SUBSET Loads /\ Holding \in SUBSET Loads /\ Holding \in SUBSET Unfinished
        /\ Unfinished \in SUBSET Loads
    BY <1>6 DEF NotQueued, Holding, In, Unfinished
  <2>6. WaitsOnlyWhenFull'
    BY <2>1, <2>4, <2>5, Adding, LoadsFinite DEF IInv, WaitsOnlyWhenFull, NotQueued
  <2>7. RespectedUnlessCrossed'
    <3>1. Cardinality(Holding') = Cardinality(Holding) + 1
      BY <2>4, <2>5, Adding
    <3>2. Cardinality(Holding) <= Cardinality(Unfinished)
      BY <2>5, Smaller
    <3>3. Cardinality(Holding') <= MaxConcurrentLoads
      BY <3>1, <3>2, <1>1, <1>2, <1>8, <2>5, LoadsFinite DEF IInv, CountExact
    <3> QED
      BY <3>3 DEF RespectedUnlessCrossed, Holding
  <2>8. NoQueueBehindRejected'
    BY <1>1, <1>3, <2>1 DEF IInv, NoQueueBehindRejected
  <2>9. QueuedAreListed'
    BY <1>1, <1>2, <2>1 DEF IInv, QueuedAreListed, In
  <2> QED
    BY <1>5, <2>2, <2>3, <2>6, <2>7, <2>8, <2>9 DEF IInv
<1> QED
  BY <1>7, <1>8

(* A load that ends gives its place to the first of the queue, if there is one. *)
LEMMA ReleaseStep ==
    ASSUME IInv, NEW l \in Loads, phase[l] \in {"dispatched", "rejected"}, ReleaseLoadSlot(l),
           UNCHANGED <<pageResources, race, crossed>>,
           resource' \in [Loads -> {"loading", "success", "failure", "timeout", "canceled"}]
    PROVE  IInv'
<1> USE ConstantsAssumption
<1>1. /\ phase \in [Loads -> Phases] /\ queuedLoads \in Seq(Loads) /\ currentlyLoading \in Nat
      /\ Unfinished \in SUBSET Loads /\ NotQueued \in SUBSET Loads /\ Holding \in SUBSET Loads
  BY DEF IInv, TypeOK, Unfinished, NotQueued, Holding, In
<1>2. currentlyLoading' = currentlyLoading - 1
  BY DEF ReleaseLoadSlot
<1>3. l \in Unfinished /\ l \in NotQueued
  BY DEF Unfinished, NotQueued, In, Phases
<1>4. Cardinality(Unfinished \ {l}) = Cardinality(Unfinished) - 1
      /\ Cardinality(NotQueued \ {l}) = Cardinality(NotQueued) - 1
  BY <1>1, <1>3, Removing
<1>5. ASSUME Unfinished' = Unfinished \ {l}
      PROVE  CountExact' /\ currentlyLoading' \in Nat
  BY <1>1, <1>2, <1>4, <1>5, LoadsFinite DEF IInv, CountExact
<1>6. CASE queuedLoads = <<>>
  <2>1. phase' = [phase EXCEPT ![l] = "done"] /\ queuedLoads' = <<>>
    BY <1>6 DEF ReleaseLoadSlot
  <2>2. /\ phase' \in [Loads -> Phases] /\ Unfinished' = Unfinished \ {l}
        /\ Holding' \in SUBSET Holding /\ In({"queued"})' = In({"queued"})
    BY <1>1, <2>1 DEF Unfinished, Holding, In, Phases
  <2>3. TypeOK'
    BY <1>5, <2>1, <2>2 DEF IInv, TypeOK
  <2>4. QueueExact' /\ WaitsOnlyWhenFull' /\ NoQueueBehindRejected'
    BY <1>1, <1>6, <2>1 DEF IInv, QueueExact, WaitsOnlyWhenFull, NoQueueBehindRejected
  <2>5. RespectedUnlessCrossed'
    <3>1. Cardinality(Holding') <= Cardinality(Holding)
          /\ Cardinality(Holding') \in Nat /\ Cardinality(Holding) \in Nat
      BY <1>1, <2>2, Smaller, LoadsFinite
    <3> QED
      BY <3>1 DEF IInv, RespectedUnlessCrossed, Holding
  <2>6. QueuedAreListed'
    BY <2>2 DEF IInv, QueuedAreListed
  <2> QED
    BY <1>5, <2>2, <2>3, <2>4, <2>5, <2>6 DEF IInv
<1>7. CASE queuedLoads # <<>>
  <2> DEFINE h == Head(queuedLoads)
  <2>1. phase' = [phase EXCEPT ![l] = "done", ![h] = "slotted"] /\ queuedLoads' = Tail(queuedLoads)
    BY <1>7 DEF ReleaseLoadSlot
  <2>2. h = queuedLoads[1] /\ h \in Loads /\ phase[h] = "queued" /\ h # l /\ 1 \in 1..Len(queuedLoads)
    BY <1>1, <1>7 DEF IInv, QueueExact
  <2>3. /\ Len(queuedLoads') = Len(queuedLoads) - 1 /\ Len(queuedLoads) \in Nat
        /\ \A i \in 1..Len(queuedLoads') : queuedLoads'[i] = queuedLoads[i + 1]
        /\ queuedLoads' \in Seq(Loads)
    BY <1>1, <1>7, <2>1
  <2> HIDE DEF h
  <2>4. /\ phase' \in [Loads -> Phases]
        /\ phase'[l] = "done" /\ phase'[h] = "slotted"
        /\ \A m \in Loads : m # l /\ m # h => phase'[m] = phase[m]
    BY <1>1, <2>1, <2>2 DEF Phases
  <2>5. /\ Unfinished' = Unfinished \ {l}
        /\ NotQueued' = (NotQueued \ {l}) \cup {h} /\ h \notin NotQueued
        /\ Holding' = (Holding \ {l}) \cup {h} /\ h \notin Holding
    BY <1>1, <2>2, <2>4 DEF Unfinished, NotQueued, Holding, In, Phases
  <2>6. TypeOK'
    BY <1>5, <2>3, <2>4, <2>5 DEF IInv, TypeOK
  <2>7. QueueExact'
    <3>1. \A i \in 1..Len(queuedLoads') :
              /\ i + 1 \in 1..Len(queuedLoads)
              /\ queuedLoads'[i] = queuedLoads[i + 1]
              /\ queuedLoads[i + 1] # h /\ queuedLoads[i + 1] # l
              /\ queuedLoads[i + 1] \in Loads
      <4> SUFFICES ASSUME NEW i \in 1..Len(queuedLoads')
                   PROVE  /\ i + 1 \in 1..Len(queuedLoads)
                          /\ queuedLoads'[i] = queuedLoads[i + 1]
                          /\ queuedLoads[i + 1] # h /\ queuedLoads[i + 1] # l
                          /\ queuedLoads[i + 1] \in Loads
        OBVIOUS
      <4>1. i + 1 \in 1..Len(queuedLoads) /\ i + 1 # 1
        BY <2>3
      <4>2. queuedLoads[i + 1] # h
        BY <4>1, <2>2 DEF IInv, QueueExact
      <4>3. queuedLoads[i + 1] # l /\ queuedLoads[i + 1] \in Loads
        BY <4>1, <1>1 DEF IInv, QueueExact
      <4> QED
        BY <4>1, <4>2, <4>3, <2>3
    <3>2. \A i, j \in 1..Len(queuedLoads') : queuedLoads'[i] = queuedLoads'[j] => i = j
      BY <3>1, <2>3 DEF IInv, QueueExact
    <3>3. \A i \in 1..Len(queuedLoads') : phase'[queuedLoads'[i]] = "queued"
      BY <3>1, <2>4 DEF IInv, QueueExact
    <3>4. ASSUME NEW m \in Loads, phase'[m] = "queued"
          PROVE  \E i \in 1..Len(queuedLoads') : queuedLoads'[i] = m
      <4>1. phase[m] = "queued" /\ m # h
        BY <3>4, <2>4
      <4>2. PICK i \in 1..Len(queuedLoads) : queuedLoads[i] = m
        BY <4>1 DEF IInv, QueueExact
      <4>3. i # 1 /\ i - 1 \in 1..Len(queuedLoads')
        BY <4>1, <4>2, <2>2, <2>3
      <4>4. queuedLoads'[i - 1] = m
        BY <4>2, <4>3, <2>3
      <4> QED
        BY <4>3, <4>4
    <3> QED
      BY <3>2, <3>3, <3>4 DEF QueueExact
  <2>8. Cardinality(NotQueued') = Cardinality(NotQueued)
    <3>1. NotQueued \ {l} \in SUBSET Loads /\ h \notin NotQueued \ {l}
      BY <1>1, <2>5
    <3>2. Cardinality(NotQueued') = Cardinality(NotQueued \ {l}) + 1
      BY <2>2, <2>5, <3>1, Adding
    <3> QED
      BY <3>2, <1>1, <1>4, LoadsFinite
  <2>9. WaitsOnlyWhenFull'
    BY <1>7, <2>8 DEF IInv, WaitsOnlyWhenFull, NotQueued
  <2>10. RespectedUnlessCrossed' /\ NoQueueBehindRejected'
    <3>1. CASE crossed
      BY <3>1 DEF RespectedUnlessCrossed, NoQueueBehindRejected
    <3>2. CASE ~crossed
      <4>1. In({"rejected"}) = {}
        BY <3>2, <1>7 DEF IInv, NoQueueBehindRejected
      <4>2. l \in Holding
        BY <4>1 DEF Holding, In
      <4>3. In({"rejected"})' = {}
        BY <4>1, <2>4 DEF In
      <4>4. Holding \ {l} \in SUBSET Loads /\ h \notin Holding \ {l}
        BY <1>1, <2>5
      <4>5. Cardinality(Holding') = Cardinality(Holding \ {l}) + 1
        BY <4>4, <2>2, <2>5, Adding
      <4>6. Cardinality(Holding \ {l}) = Cardinality(Holding) - 1
        BY <1>1, <4>2, Removing
      <4>7. Cardinality(Holding') = Cardinality(Holding)
        BY <4>5, <4>6, <1>1, LoadsFinite
      <4> QED
        BY <4>3, <4>7 DEF IInv, RespectedUnlessCrossed, NoQueueBehindRejected, Holding
    <3> QED
      BY <3>1, <3>2
  <2>11. QueuedAreListed'
    BY <2>4 DEF IInv, QueuedAreListed, In
  <2> QED
    BY <1>5, <2>5, <2>6, <2>7, <2>9, <2>10, <2>11 DEF IInv
<1> QED
  BY <1>6, <1>7

(* Dispatching and settling move no load in or out of the accounts. *)
LEMMA DispatchStep ==
    ASSUME IInv, NEW l \in Loads, DispatchLoad(l)
    PROVE  IInv'
<1>1. /\ phase \in [Loads -> Phases] /\ phase[l] = "slotted"
      /\ phase' = [phase EXCEPT ![l] = "dispatched"]
      /\ UNCHANGED <<currentlyLoading, queuedLoads, pageResources, race, resource, crossed>>
  BY DEF DispatchLoad, IInv, TypeOK
<1>2. /\ Unfinished' = Unfinished /\ NotQueued' = NotQueued /\ Holding' = Holding
      /\ In({"rejected"})' = In({"rejected"}) /\ In({"queued"})' = In({"queued"})
  BY <1>1 DEF Unfinished, NotQueued, Holding, In, Phases
<1>3. TypeOK'
  BY <1>1 DEF IInv, TypeOK, Phases
<1>4. QueueExact'
  <2>1. \A m \in Loads : phase'[m] = "queued" <=> phase[m] = "queued"
    BY <1>1
  <2>2. \A i \in 1..Len(queuedLoads) : queuedLoads[i] \in Loads
    BY DEF IInv, TypeOK
  <2> QED
    BY <1>1, <2>1, <2>2 DEF IInv, QueueExact
<1> QED
  BY <1>1, <1>2, <1>3, <1>4 DEF IInv, CountExact, WaitsOnlyWhenFull, RespectedUnlessCrossed,
                                NoQueueBehindRejected, QueuedAreListed, NotQueued, Holding

LEMMA SettleStep ==
    ASSUME IInv, TypeOK',
           UNCHANGED <<phase, currentlyLoading, queuedLoads, pageResources, crossed>>
    PROVE  IInv'
BY DEF IInv, QueueExact, CountExact, WaitsOnlyWhenFull, RespectedUnlessCrossed,
       NoQueueBehindRejected, QueuedAreListed, Unfinished, In

(* A navigation empties the queue, the waiting loads keep their place in the count. *)
LEMMA NavigateStep ==
    ASSUME IInv, OnMainFrameNavigated
    PROVE  IInv'
<1>1. /\ phase \in [Loads -> Phases]
      /\ phase' = [l \in Loads |-> IF phase[l] = "queued" THEN "rejected" ELSE phase[l]]
      /\ queuedLoads' = <<>>
      /\ pageResources' = [k \in Keys |-> NoLoad]
      /\ UNCHANGED <<currentlyLoading, race, resource, crossed>>
  BY DEF OnMainFrameNavigated, IInv, TypeOK
<1>2. /\ Unfinished' = Unfinished /\ Holding' = Holding /\ In({"queued"})' = {}
      /\ phase' \in [Loads -> Phases]
  BY <1>1 DEF Unfinished, Holding, In, Phases
<1>3. TypeOK'
  BY <1>1, <1>2 DEF IInv, TypeOK
<1>4. QueueExact'
  BY <1>1 DEF QueueExact
<1> QED
  BY <1>1, <1>2, <1>3, <1>4 DEF IInv, CountExact, WaitsOnlyWhenFull, RespectedUnlessCrossed,
                                NoQueueBehindRejected, QueuedAreListed, Holding

LEMMA InvStep == IInv /\ [Next]_vars => IInv'
<1> SUFFICES ASSUME IInv, [Next]_vars PROVE IInv'
  OBVIOUS
<1>1. ASSUME NEW l \in Loads, LoadResource(l) PROVE IInv'
  BY <1>1, LoadStep
<1>2. ASSUME NEW l \in Loads, DispatchLoad(l) PROVE IInv'
  BY <1>2, DispatchStep
<1>3. ASSUME NEW l \in Loads, NEW how \in {"success", "failure", "timeout"}, Settle(l, how)
      PROVE  IInv'
  <2>1. TypeOK'
    BY <1>3 DEF IInv, TypeOK, Settle
  <2> QED
    BY <1>3, <2>1, SettleStep DEF Settle
<1>4. ASSUME NEW l \in Loads, FinishLoad(l) PROVE IInv'
  <2>1. resource' \in [Loads -> {"loading", "success", "failure", "timeout", "canceled"}]
    BY <1>4 DEF IInv, TypeOK, FinishLoad
  <2> QED
    BY <1>4, <2>1, ReleaseStep DEF FinishLoad
<1>5. ASSUME NEW l \in Loads, FinishCanceledLoad(l) PROVE IInv'
  <2>1. resource' \in [Loads -> {"loading", "success", "failure", "timeout", "canceled"}]
    BY <1>5 DEF IInv, TypeOK, FinishCanceledLoad
  <2> QED
    BY <1>5, <2>1, ReleaseStep DEF FinishCanceledLoad
<1>6. CASE OnMainFrameNavigated
  BY <1>6, NavigateStep
<1>7. CASE UNCHANGED vars
  BY <1>7, SettleStep DEF vars, IInv, TypeOK
<1> QED
  BY <1>1, <1>2, <1>3, <1>4, <1>5, <1>6, <1>7 DEF Next, BackendAnswers, TimeOut

(* The strengthened invariant. *)
THEOREM Invariance == SafeSpec => []IInv
<1> QED
  BY InvInit, InvStep, PTL DEF SafeSpec

(* The loader's variables keep their types; the count never becomes negative. *)
THEOREM Typing == SafeSpec => []TypeOK
<1>1. IInv => TypeOK
  BY DEF IInv
<1> QED
  BY <1>1, Invariance, PTL

(* Count and queue agree with the loads that are under way. *)
THEOREM Balanced == SafeSpec => []AccountsBalance
<1>1. IInv => AccountsBalance
  BY DEF IInv, CountExact, QueueExact, AccountsBalance, In, TypeOK
<1> QED
  BY <1>1, Invariance, PTL

(* No load waits while fewer loads than the limit could release a place. *)
THEOREM NoIdleSlot == SafeSpec => []WaitsOnlyWhenFull
<1>1. IInv => WaitsOnlyWhenFull
  BY DEF IInv
<1> QED
  BY <1>1, Invariance, PTL

(* The limit holds until a load is started behind cancelled ones. *)
THEOREM LimitUnlessCrossed == SafeSpec => []RespectedUnlessCrossed
<1>1. IInv => RespectedUnlessCrossed
  BY DEF IInv
<1> QED
  BY <1>1, Invariance, PTL

(* Whatever waits is listed. *)
THEOREM WaitingAreListed == SafeSpec => []QueuedAreListed
<1>1. IInv => QueuedAreListed
  BY DEF IInv
<1> QED
  BY <1>1, Invariance, PTL

\* Only a load that is done has an outcome.
OutcomesExact == \A l \in Loads : resource[l] # "loading" => phase[l] = "done"

(* What one load does to the others: it may wake the first of the queue. *)
LEMMA OthersAreNotDone ==
    ASSUME IInv, NEW l \in Loads, phase[l] \in {"dispatched", "rejected"}, ReleaseLoadSlot(l)
    PROVE  phase'[l] = "done" /\ \A k \in Loads : phase[k] = "done" => phase'[k] = "done"
<1>1. phase \in [Loads -> Phases] /\ queuedLoads \in Seq(Loads)
  BY DEF IInv, TypeOK
<1>2. CASE queuedLoads # <<>>
  <2>1. 1 \in 1 .. Len(queuedLoads) /\ Head(queuedLoads) = queuedLoads[1]
    BY <1>1, <1>2
  <2>2. phase[Head(queuedLoads)] = "queued"
    BY <2>1 DEF IInv, QueueExact
  <2>3. Head(queuedLoads) # l
    BY <2>2
  <2> QED
    BY <1>1, <1>2, <2>2, <2>3 DEF ReleaseLoadSlot
<1>3. CASE queuedLoads = <<>>
  BY <1>1, <1>3 DEF ReleaseLoadSlot
<1> QED
  BY <1>2, <1>3

LEMMA OutcomeStep ==
    ASSUME IInv, OutcomesExact, [Next]_vars
    PROVE  OutcomesExact' /\ \A l \in Loads : resource[l] # "loading" => resource'[l] = resource[l]
<1>1. /\ phase \in [Loads -> Phases]
      /\ resource \in [Loads -> {"loading", "success", "failure", "timeout", "canceled"}]
  BY DEF IInv, TypeOK
<1>2. ASSUME NEW l \in Loads, FinishLoad(l) \/ FinishCanceledLoad(l)
      PROVE  OutcomesExact' /\ \A k \in Loads : resource[k] # "loading" => resource'[k] = resource[k]
  <2>1. /\ phase[l] \in {"dispatched", "rejected"} /\ ReleaseLoadSlot(l)
        /\ \A k \in Loads \ {l} : resource'[k] = resource[k]
    BY <1>1, <1>2 DEF FinishLoad, FinishCanceledLoad
  <2>2. phase'[l] = "done" /\ \A k \in Loads : phase[k] = "done" => phase'[k] = "done"
    BY <2>1, OthersAreNotDone
  <2> QED
    BY <2>1, <2>2 DEF OutcomesExact
<1>3. CASE \/ \E l \in Loads : LoadResource(l) \/ DispatchLoad(l) \/ BackendAnswers(l) \/ TimeOut(l)
           \/ OnMainFrameNavigated \/ UNCHANGED vars
  <2>1. resource' = resource
    BY <1>3 DEF LoadResource, DispatchLoad, BackendAnswers, TimeOut, Settle, OnMainFrameNavigated,
       vars
  <2>2. \A l \in Loads : phase[l] = "done" => phase'[l] = "done"
    BY <1>1, <1>3 DEF LoadResource, DispatchLoad, BackendAnswers, TimeOut, Settle,
       OnMainFrameNavigated, vars
  <2> QED
    BY <2>1, <2>2 DEF OutcomesExact
<1> QED
  BY <1>2, <1>3 DEF Next

(* What a resource says once it says something stays: only a load that is not  *)
(* done gives its resource an outcome, so the loser of the race changes nothing. *)
THEOREM OutcomesStay == SafeSpec => OutcomeIsFinal
<1>1. Init => OutcomesExact
  BY DEF Init, OutcomesExact
<1>2. IInv /\ OutcomesExact /\ [Next]_vars => OutcomesExact'
  BY OutcomeStep
<1>3. IInv /\ OutcomesExact /\ [Next]_vars
          => [\A l \in Loads : resource[l] # "loading" => resource'[l] = resource[l]]_vars
  BY OutcomeStep
<1>4. SafeSpec => []IInv
  BY Invariance
<1> QED
  BY <1>1, <1>2, <1>3, <1>4, PTL DEF SafeSpec, OutcomeIsFinal
================================================================================
