-------------------------- MODULE SessionRouter_proofs --------------------------
(*****************************************************************************)
(* Proofs about SessionRouter, for any number of child sessions, calls and   *)
(* scripts: typing, InOnePlace, CountCoversOutstanding, ScriptsRunWhenQuiet  *)
(* and the safety part of ImplementsCallContract.                            *)
(*****************************************************************************)
EXTENDS SessionRouter, FiniteSetTheorems, TLAPS

\* A target has a router exactly while its session is registered.
SessionsAreLiveTargets ==
    \A t \in Targets : t \in sessions <=> target[t] = "live"

\* The root target exists from the start.
RootAttached == target[Root] # "none"

\* Message ids identify the callback entries, and a call has one entry at most.
EntriesUnique ==
    /\ \A e \in callbacks : e.id \in 1..(lastMessageId - 1)
    /\ \A e, f \in callbacks : e.call = f.call \/ e.id = f.id => e = f
    /\ \A e, f \in timers : e.call = f.call => e = f

\* A call with an entry waits on a live target, one with a timer on a disposed
\* one, and neither has been answered.
EntriesUnanswered ==
    /\ \A e \in callbacks : /\ madeOn[e.call] = e.sid
                            /\ target[e.sid] = "live"
                            /\ answers[e.call] = <<>>
    /\ \A e \in timers : /\ madeOn[e.call] = e.sid
                         /\ target[e.sid] = "disposed"
                         /\ answers[e.call] = <<>>

\* A call made on a target has an entry, a timer or its one answer; another has no answer.
NoneForgotten ==
    \A c \in Calls :
        /\ answers[c] \in {<<>>, <<"result">>, <<"closed">>}
        /\ madeOn[c] \notin Targets => answers[c] = <<>>
        /\ madeOn[c] \in Targets =>
               \/ answers[c] # <<>>
               \/ \E e \in callbacks \cup timers : e.call = c

\* The counters count at least the callbacks that are registered.
CountersCover ==
    /\ IsFiniteSet(callbacks)
    /\ \A e \in callbacks : e.id \in pendingLongPollingMessageIds <=> e.call \in LongPollingCalls
    /\ CountCoversOutstanding

\* The part of TypeOK about the counters.
CountersTyped ==
    /\ lastMessageId \in Nat \ {0}
    /\ pendingResponsesCount \in Nat
    /\ pendingLongPollingMessageIds \subseteq 1..(lastMessageId - 1)

IInv == /\ TypeOK /\ SessionsAreLiveTargets /\ RootAttached /\ EntriesUnique
        /\ EntriesUnanswered /\ NoneForgotten /\ CountersCover

(* A fresh sequence with one answer. *)
LEMMA OneAnswer == ASSUME NEW x PROVE Append(<<>>, x) = <<x>>
  OBVIOUS

(* The long-polling ids are finitely many, so they can be counted. *)
LEMMA LongPollingFinite ==
    ASSUME TypeOK
    PROVE  /\ IsFiniteSet(pendingLongPollingMessageIds)
           /\ Cardinality(pendingLongPollingMessageIds) \in Nat
<1>1. lastMessageId - 1 \in Int
  BY DEF TypeOK
<1>2. IsFiniteSet(1..(lastMessageId - 1))
  BY <1>1, FS_Interval
<1>3. pendingLongPollingMessageIds \in SUBSET (1..(lastMessageId - 1))
  BY DEF TypeOK
<1> QED
  BY <1>2, <1>3, FS_Subset, FS_CardinalityType

(* The ordinary callbacks can be counted too. *)
LEMMA OrdinaryFinite ==
    ASSUME IsFiniteSet(callbacks)
    PROVE  /\ IsFiniteSet(OrdinaryCallbacks)
           /\ Cardinality(OrdinaryCallbacks) \in Nat
<1>1. OrdinaryCallbacks \in SUBSET callbacks
  BY DEF OrdinaryCallbacks
<1> QED
  BY <1>1, FS_Subset, FS_CardinalityType

(* The invariant holds when the root target has just been created. *)
LEMMA InvInit == Init => IInv
<1> SUFFICES ASSUME Init PROVE IInv
  OBVIOUS
<1> USE ConstantsAssumption
<1>1. TypeOK
  BY DEF Init, TypeOK, Targets, SessionIds, Entries
<1>2. SessionsAreLiveTargets /\ RootAttached
  BY DEF Init, SessionsAreLiveTargets, RootAttached, Targets
<1>3. EntriesUnique /\ EntriesUnanswered
  BY DEF Init, EntriesUnique, EntriesUnanswered
<1>4. NoneForgotten
  BY DEF Init, NoneForgotten
<1>5. CountersCover
  <2>1. IsFiniteSet(callbacks) /\ OrdinaryCallbacks = {} /\ pendingLongPollingMessageIds = {}
    BY FS_EmptySet DEF Init, OrdinaryCallbacks
  <2> QED
    BY <2>1, FS_EmptySet DEF Init, CountersCover, CountCoversOutstanding
<1> QED
  BY <1>1, <1>2, <1>3, <1>4, <1>5 DEF IInv

(* sendMessage on a registered session adds one entry under a fresh id. *)
LEMMA SendStep ==
    ASSUME IInv, NEW sid \in Targets, NEW c \in Calls, madeOn[c] = "idle", SendMessage(sid, c)
    PROVE  IInv'
<1> USE ConstantsAssumption
<1> DEFINE new == [sid |-> sid, id |-> lastMessageId, call |-> c]
<1>1. CASE sid \in sessions
  <2>1. callbacks' = callbacks \cup {new}
    BY <1>1 DEF SendMessage, IInv, TypeOK, EntriesUnique
  <2>2. /\ new \in Entries
        /\ \A e \in callbacks \cup timers : e.call # c
    BY DEF IInv, TypeOK, EntriesUnanswered, Entries
  <2>3. TypeOK'
    <3>1. CountersTyped'
      BY DEF IInv, TypeOK, CountersTyped, SendMessage
    <3>2. callbacks' \subseteq Entries /\ timers' \subseteq Entries
      BY <2>1, <2>2 DEF IInv, TypeOK, SendMessage
    <3>3. backend' \subseteq [sid: SessionIds, id: Nat]
      BY <1>1 DEF IInv, TypeOK, SendMessage, SessionIds
    <3>4. madeOn' \in [Calls -> Targets \cup {"idle", "dropped"}]
      BY <1>1 DEF IInv, TypeOK, SendMessage
    <3> QED
      BY <3>1, <3>2, <3>3, <3>4 DEF IInv, TypeOK, CountersTyped, SendMessage, scriptVars
  <2>4. SessionsAreLiveTargets' /\ RootAttached'
    BY DEF IInv, SessionsAreLiveTargets, RootAttached, SendMessage
  <2>5. EntriesUnique'
    BY <2>1, <2>2 DEF IInv, TypeOK, EntriesUnique, SendMessage
  <2>6. EntriesUnanswered'
    <3>1. target[sid] = "live" /\ answers[c] = <<>>
      BY <1>1 DEF IInv, SessionsAreLiveTargets, NoneForgotten
    <3>2. \A d \in Calls : d # c => madeOn'[d] = madeOn[d]
      BY <1>1 DEF IInv, TypeOK, SendMessage
    <3>3. madeOn'[c] = sid
      BY <1>1 DEF IInv, TypeOK, SendMessage
    <3>4. UNCHANGED <<target, timers, answers>>
      BY DEF SendMessage
    <3>5. \A e \in callbacks \cup timers : e.call \in Calls \ {c}
      BY <2>2 DEF IInv, TypeOK, Entries
    <3>6. \A e \in callbacks' : e = new \/ e \in callbacks
      BY <2>1
    <3> HIDE DEF new
    <3>7. new.sid = sid /\ new.call = c
      BY DEF new
    <3> QED
      BY <3>1, <3>2, <3>3, <3>4, <3>5, <3>6, <3>7 DEF IInv, EntriesUnanswered
  <2>7. NoneForgotten'
    <3>1. answers' = answers /\ timers' = timers
      BY DEF SendMessage
    <3>2. new \in callbacks' /\ new.call = c /\ callbacks \subseteq callbacks'
      BY <2>1
    <3>3. answers[c] = <<>>
      BY <1>1 DEF IInv, NoneForgotten
    <3>4. \A d \in Calls : d # c => madeOn'[d] = madeOn[d]
      BY <1>1 DEF IInv, TypeOK, SendMessage
    <3> QED
      BY <3>1, <3>2, <3>3, <3>4 DEF IInv, NoneForgotten
  <2>8. CountersCover'
    <3>1. IsFiniteSet(callbacks')
      BY <2>1, FS_AddElement DEF IInv, CountersCover
    <3>2. (\A e \in callbacks : e.id \in pendingLongPollingMessageIds <=> e.call \in LongPollingCalls)'
      BY <2>1 DEF IInv, CountersCover, SendMessage, EntriesUnique, TypeOK
    <3>3. CASE c \in LongPollingCalls
      <4>1. OrdinaryCallbacks' = OrdinaryCallbacks
        BY <3>3, <2>1 DEF OrdinaryCallbacks
      <4>2. lastMessageId \notin pendingLongPollingMessageIds
        BY DEF IInv, TypeOK
      <4>3. Cardinality(pendingLongPollingMessageIds') = Cardinality(pendingLongPollingMessageIds) + 1
        BY <3>3, <4>2, LongPollingFinite, FS_AddElement DEF SendMessage, IInv
      <4> QED
        BY <3>1, <3>2, <4>1, <4>3, LongPollingFinite, OrdinaryFinite
           DEF CountersCover, CountCoversOutstanding, IInv, TypeOK, SendMessage
    <3>4. CASE c \notin LongPollingCalls
      <4>1. OrdinaryCallbacks' = OrdinaryCallbacks \cup {new}
        BY <3>4, <2>1 DEF OrdinaryCallbacks
      <4>2. new \notin OrdinaryCallbacks
        BY <2>2 DEF OrdinaryCallbacks
      <4>3. Cardinality(OrdinaryCallbacks') = Cardinality(OrdinaryCallbacks) + 1
        BY <4>1, <4>2, OrdinaryFinite, FS_AddElement DEF IInv, CountersCover
      <4>4. pendingLongPollingMessageIds' = pendingLongPollingMessageIds
        BY <3>4 DEF SendMessage
      <4>5. pendingResponsesCount' = pendingResponsesCount + 1 /\ pendingResponsesCount \in Nat
        BY DEF SendMessage, IInv, TypeOK
      <4>6. CountCoversOutstanding
        BY DEF IInv, CountersCover
      <4>7. CountCoversOutstanding'
        BY <4>3, <4>4, <4>5, <4>6, LongPollingFinite, OrdinaryFinite
           DEF CountCoversOutstanding, IInv, CountersCover
      <4> QED
        BY <3>1, <3>2, <4>7 DEF CountersCover
    <3> QED
      BY <3>3, <3>4
  <2> QED
    BY <2>3, <2>4, <2>5, <2>6, <2>7, <2>8 DEF IInv
<1>2. CASE sid \notin sessions
  <2>1. UNCHANGED <<callbacks, timers, target, sessions, answers>>
    BY <1>2 DEF SendMessage
  <2>2. \A e \in callbacks \cup timers : e.call # c
    BY DEF IInv, TypeOK, EntriesUnanswered, Entries
  <2>3. TypeOK'
    <3>1. CountersTyped'
      BY DEF IInv, TypeOK, CountersTyped, SendMessage
    <3>2. madeOn' \in [Calls -> Targets \cup {"idle", "dropped"}]
      BY <1>2 DEF IInv, TypeOK, SendMessage
    <3> QED
      BY <1>2, <2>1, <3>1, <3>2 DEF IInv, TypeOK, CountersTyped, SendMessage, scriptVars
  <2>4. SessionsAreLiveTargets' /\ RootAttached'
    BY <2>1 DEF IInv, SessionsAreLiveTargets, RootAttached
  <2>5. EntriesUnique'
    BY <2>1 DEF IInv, TypeOK, EntriesUnique, SendMessage
  <2>6. EntriesUnanswered'
    BY <1>2, <2>1, <2>2 DEF IInv, TypeOK, EntriesUnanswered, SendMessage, Entries
  <2>7. NoneForgotten'
    BY <1>2, <2>1 DEF IInv, TypeOK, NoneForgotten, SendMessage
  <2>8. CountersCover'
    <3>1. (\A e \in callbacks : e.id \in pendingLongPollingMessageIds <=> e.call \in LongPollingCalls)'
      BY <2>1 DEF IInv, CountersCover, SendMessage, EntriesUnique, TypeOK
    <3>2. OrdinaryCallbacks' = OrdinaryCallbacks
      BY <2>1 DEF OrdinaryCallbacks
    <3>3. lastMessageId \notin pendingLongPollingMessageIds
      BY DEF IInv, TypeOK
    <3>4. Cardinality(pendingLongPollingMessageIds')
              \in {Cardinality(pendingLongPollingMessageIds),
                   Cardinality(pendingLongPollingMessageIds) + 1}
      BY <3>3, LongPollingFinite, FS_AddElement DEF SendMessage, IInv
    <3> QED
      BY <2>1, <3>1, <3>2, <3>4, LongPollingFinite, OrdinaryFinite
         DEF CountersCover, CountCoversOutstanding, IInv, TypeOK, SendMessage
  <2> QED
    BY <2>3, <2>4, <2>5, <2>6, <2>7, <2>8 DEF IInv
<1> QED
  BY <1>1, <1>2

(* A command on a disposed target leaves a timer that will fail it. *)
LEMMA ConnectionErrorStep ==
    ASSUME IInv, NEW t \in Targets, NEW c \in Calls, madeOn[c] = "idle",
           target[t] = "disposed", DispatchConnectionError(t, c)
    PROVE  IInv'
<1> USE ConstantsAssumption
<1> DEFINE new == [sid |-> t, id |-> 0, call |-> c]
<1>1. /\ timers' = timers \cup {new}
      /\ madeOn' = [madeOn EXCEPT ![c] = t]
      /\ UNCHANGED <<counters, sessions, callbacks, target, scriptVars, backend, answers>>
  BY DEF DispatchConnectionError
<1>2. new \in Entries /\ new.sid = t /\ new.call = c
  BY DEF Entries
<1>3. \A e \in callbacks \cup timers : e.call \in Calls \ {c}
  BY DEF IInv, TypeOK, EntriesUnanswered, Entries
<1>4. answers[c] = <<>>
  BY DEF IInv, NoneForgotten
<1>5. madeOn'[c] = t /\ \A d \in Calls : d # c => madeOn'[d] = madeOn[d]
  BY <1>1 DEF IInv, TypeOK
<1>6. TypeOK'
  BY <1>1, <1>2 DEF IInv, TypeOK, counters, scriptVars
<1> HIDE DEF new
<1>7. SessionsAreLiveTargets' /\ RootAttached' /\ CountersCover'
  BY <1>1 DEF IInv, SessionsAreLiveTargets, RootAttached, CountersCover, CountCoversOutstanding,
              OrdinaryCallbacks, counters
<1>8. EntriesUnique'
  BY <1>1, <1>2, <1>3 DEF IInv, EntriesUnique, counters
<1>9. EntriesUnanswered'
  BY <1>1, <1>2, <1>3, <1>4, <1>5 DEF IInv, EntriesUnanswered
<1>10. NoneForgotten'
  BY <1>1, <1>2, <1>4, <1>5 DEF IInv, NoneForgotten
<1> QED
  BY <1>6, <1>7, <1>8, <1>9, <1>10 DEF IInv

(* A response removes its entry, answers its call, and lowers what was counted for it. *)
LEMMA ResponseStep ==
    ASSUME IInv, NEW e \in callbacks, OnResponse(e)
    PROVE  IInv'
<1> USE ConstantsAssumption
<1>1. /\ callbacks' = callbacks \ {e}
      /\ answers' = [answers EXCEPT ![e.call] = Append(@, "result")]
      /\ pendingResponsesCount' = pendingResponsesCount - 1
      /\ pendingLongPollingMessageIds' = pendingLongPollingMessageIds \ {e.id}
      /\ UNCHANGED <<lastMessageId, sessions, target, timers, pendingScripts, ranScripts, madeOn>>
      /\ backend' \subseteq backend
      /\ scriptTimers' \in {scriptTimers, scriptTimers + 1}
  BY DEF OnResponse
<1>2. e.sid \in Targets /\ e.call \in Calls /\ answers[e.call] = <<>> /\ madeOn[e.call] = e.sid
  BY DEF IInv, TypeOK, EntriesUnanswered, Entries
<1>3. /\ answers'[e.call] = <<"result">>
      /\ \A d \in Calls : d # e.call => answers'[d] = answers[d]
  BY <1>1, <1>2, OneAnswer DEF IInv, TypeOK
<1>4. \A f \in callbacks' \cup timers : f.call \in Calls /\ f.call # e.call
  <2>1. \A f \in callbacks' : f.call \in Calls /\ f.call # e.call
    BY <1>1 DEF IInv, TypeOK, EntriesUnique, Entries
  <2>2. \A f \in timers : f.call \in Calls /\ f.call # e.call
    BY DEF IInv, TypeOK, EntriesUnanswered, Entries
  <2> QED
    BY <2>1, <2>2
<1>5. CountersCover' /\ pendingResponsesCount' \in Nat
  <2>1. IsFiniteSet(callbacks')
    BY <1>1, FS_RemoveElement DEF IInv, CountersCover
  <2>2. (\A f \in callbacks : f.id \in pendingLongPollingMessageIds <=> f.call \in LongPollingCalls)'
    BY <1>1 DEF IInv, CountersCover, EntriesUnique
  <2> DEFINE polling == Cardinality(pendingLongPollingMessageIds)
             ordinary == Cardinality(OrdinaryCallbacks)
  <2>3. polling \in Nat /\ ordinary \in Nat /\ pendingResponsesCount \in Nat
        /\ pendingResponsesCount - polling >= ordinary
    BY LongPollingFinite, OrdinaryFinite DEF IInv, CountersCover, CountCoversOutstanding, TypeOK
  <2>4. CASE e.call \in LongPollingCalls
    <3>1. OrdinaryCallbacks' = OrdinaryCallbacks
      BY <2>4, <1>1 DEF OrdinaryCallbacks
    <3>2. e.id \in pendingLongPollingMessageIds
      BY <2>4 DEF IInv, CountersCover
    <3>3. polling' = polling - 1 /\ polling' \in Nat
      BY <3>2, <1>1, LongPollingFinite, FS_RemoveElement, FS_CardinalityType DEF IInv
    <3> QED
      BY <2>1, <2>2, <2>3, <3>1, <3>3, <1>1 DEF CountersCover, CountCoversOutstanding
  <2>5. CASE e.call \notin LongPollingCalls
    <3>1. OrdinaryCallbacks' = OrdinaryCallbacks \ {e} /\ e \in OrdinaryCallbacks
      BY <2>5, <1>1 DEF OrdinaryCallbacks
    <3>2. pendingLongPollingMessageIds' = pendingLongPollingMessageIds
      BY <2>5, <1>1 DEF IInv, CountersCover
    <3>3. ordinary' = ordinary - 1 /\ ordinary' \in Nat
      BY <3>1, OrdinaryFinite, FS_RemoveElement, FS_CardinalityType DEF IInv, CountersCover
    <3> QED
      BY <2>1, <2>2, <2>3, <3>2, <3>3, <1>1 DEF CountersCover, CountCoversOutstanding
  <2> QED
    BY <2>4, <2>5
<1>6. TypeOK'
  <2>1. answers' \in [Calls -> Seq({"result", "closed"})]
    BY <1>1, <1>2 DEF IInv, TypeOK
  <2>2. callbacks' \subseteq Entries
    BY <1>1 DEF IInv, TypeOK
  <2>3. CountersTyped'
    BY <1>1, <1>5 DEF IInv, TypeOK, CountersTyped
  <2>4. backend' \subseteq [sid: SessionIds, id: Nat] /\ scriptTimers' \in Nat
    BY <1>1 DEF IInv, TypeOK
  <2> QED
    BY <1>1, <2>1, <2>2, <2>3, <2>4 DEF IInv, TypeOK, CountersTyped
<1>7. SessionsAreLiveTargets' /\ RootAttached' /\ EntriesUnique'
  BY <1>1 DEF IInv, SessionsAreLiveTargets, RootAttached, EntriesUnique
<1>8. EntriesUnanswered'
  BY <1>1, <1>3, <1>4 DEF IInv, EntriesUnanswered
<1>9. NoneForgotten'
  BY <1>1, <1>2, <1>3 DEF IInv, NoneForgotten
<1> QED
  BY <1>5, <1>6, <1>7, <1>8, <1>9 DEF IInv

(* An error timer answers its call and is gone. *)
LEMMA ErrorTimerStep ==
    ASSUME IInv, NEW e \in timers, RunErrorTimer(e)
    PROVE  IInv'
<1> USE ConstantsAssumption
<1>1. /\ timers' = timers \ {e}
      /\ answers' = [answers EXCEPT ![e.call] = Append(@, "closed")]
      /\ UNCHANGED <<counters, sessions, callbacks, target, scriptVars, backend, madeOn>>
  BY DEF RunErrorTimer
<1>2. e.sid \in Targets /\ e.call \in Calls /\ answers[e.call] = <<>> /\ madeOn[e.call] = e.sid
  BY DEF IInv, TypeOK, EntriesUnanswered, Entries
<1>3. /\ answers'[e.call] = <<"closed">>
      /\ \A d \in Calls : d # e.call => answers'[d] = answers[d]
  BY <1>1, <1>2, OneAnswer DEF IInv, TypeOK
<1>4. \A f \in callbacks \cup timers' : f.call \in Calls /\ f.call # e.call
  <2>1. \A f \in timers' : f.call \in Calls /\ f.call # e.call
    BY <1>1 DEF IInv, TypeOK, EntriesUnique, Entries
  <2>2. \A f \in callbacks : f.call \in Calls /\ f.call # e.call
    BY DEF IInv, TypeOK, EntriesUnanswered, Entries
  <2> QED
    BY <2>1, <2>2
<1>5. TypeOK'
  <2>1. answers' \in [Calls -> Seq({"result", "closed"})]
    BY <1>1, <1>2 DEF IInv, TypeOK
  <2>2. timers' \subseteq Entries
    BY <1>1 DEF IInv, TypeOK
  <2> QED
    BY <1>1, <2>1, <2>2 DEF IInv, TypeOK, counters, scriptVars
<1>6. SessionsAreLiveTargets' /\ RootAttached' /\ EntriesUnique' /\ CountersCover'
  BY <1>1 DEF IInv, SessionsAreLiveTargets, RootAttached, EntriesUnique, CountersCover,
              CountCoversOutstanding, OrdinaryCallbacks, counters
<1>7. EntriesUnanswered'
  BY <1>1, <1>3, <1>4 DEF IInv, EntriesUnanswered
<1>8. NoneForgotten'
  BY <1>1, <1>2, <1>3 DEF IInv, NoneForgotten
<1> QED
  BY <1>5, <1>6, <1>7, <1>8 DEF IInv

(* Disposing live targets turns their entries into timers; nothing is counted twice. *)
LEMMA DisposeStep ==
    ASSUME IInv, NEW T \in SUBSET Targets, \A t \in T : target[t] = "live", Dispose(T)
    PROVE  IInv'
<1> USE ConstantsAssumption
<1>1. /\ target' = [t \in Targets |-> IF t \in T THEN "disposed" ELSE target[t]]
      /\ timers' = timers \cup {e \in callbacks : e.sid \in T}
      /\ callbacks' = {e \in callbacks : e.sid \notin T}
      /\ sessions' = sessions \ T
      /\ UNCHANGED <<counters, scriptVars, backend, madeOn, answers>>
  BY DEF Dispose
<1>2. \A e \in callbacks \cup timers : e.sid \in Targets
  BY DEF IInv, TypeOK, Entries
<1>3. \A e \in callbacks, f \in timers : e.call # f.call
  BY DEF IInv, EntriesUnanswered
<1>4. TypeOK'
  BY <1>1 DEF IInv, TypeOK, counters, scriptVars
<1>5. SessionsAreLiveTargets' /\ RootAttached'
  <2>1. Root \in Targets
    BY DEF Targets
  <2> QED
    BY <1>1, <2>1 DEF IInv, SessionsAreLiveTargets, RootAttached
<1>6. EntriesUnique'
  BY <1>1, <1>3 DEF IInv, EntriesUnique, counters
<1>7. EntriesUnanswered'
  BY <1>1, <1>2 DEF IInv, EntriesUnanswered
<1>8. NoneForgotten'
  BY <1>1 DEF IInv, NoneForgotten
<1>9. CountersCover'
  <2>1. callbacks' \in SUBSET callbacks /\ OrdinaryCallbacks' \in SUBSET OrdinaryCallbacks
    BY <1>1 DEF OrdinaryCallbacks
  <2>2. IsFiniteSet(callbacks')
    BY <2>1, FS_Subset DEF IInv, CountersCover
  <2>3. Cardinality(OrdinaryCallbacks') <= Cardinality(OrdinaryCallbacks)
        /\ Cardinality(OrdinaryCallbacks') \in Nat
    BY <2>1, OrdinaryFinite, FS_Subset, FS_CardinalityType DEF IInv, CountersCover
  <2> QED
    BY <1>1, <2>1, <2>2, <2>3, OrdinaryFinite, LongPollingFinite
       DEF IInv, TypeOK, CountersCover, CountCoversOutstanding, counters
<1> QED
  BY <1>4, <1>5, <1>6, <1>7, <1>8, <1>9 DEF IInv

(* A new session starts with no callbacks, and its target had none before. *)
LEMMA AttachStep ==
    ASSUME IInv, NEW t \in Children, AttachedToTarget(t)
    PROVE  IInv'
<1> USE ConstantsAssumption
<1>1. callbacks' = callbacks
  BY DEF IInv, TypeOK, EntriesUnanswered, AttachedToTarget
<1>2. /\ target[t] = "none" /\ t \in Targets
      /\ target' = [target EXCEPT ![t] = "live"]
      /\ sessions' = sessions \cup {t}
      /\ UNCHANGED <<counters, timers, scriptVars, backend, madeOn, answers>>
  BY DEF AttachedToTarget, Targets
<1>3. \A e \in callbacks \cup timers : e.sid \in Targets \ {t}
  BY <1>2 DEF IInv, TypeOK, EntriesUnanswered, Entries
<1>4. TypeOK'
  BY <1>1, <1>2 DEF IInv, TypeOK, counters, scriptVars, SessionIds
<1>5. SessionsAreLiveTargets' /\ RootAttached'
  BY <1>2 DEF IInv, TypeOK, SessionsAreLiveTargets, RootAttached
<1>6. EntriesUnique' /\ NoneForgotten' /\ CountersCover'
  BY <1>1, <1>2 DEF IInv, EntriesUnique, NoneForgotten, CountersCover,
                    CountCoversOutstanding, OrdinaryCallbacks, counters
<1>7. EntriesUnanswered'
  BY <1>1, <1>2, <1>3 DEF IInv, TypeOK, EntriesUnanswered
<1> QED
  BY <1>4, <1>5, <1>6, <1>7 DEF IInv

(* A step that leaves targets, calls and counters alone. *)
LEMMA OtherStep ==
    ASSUME IInv, TypeOK',
           UNCHANGED <<counters, callbacks, target, timers, madeOn, answers>>,
           \A t \in Targets : t \in sessions' <=> t \in sessions
    PROVE  IInv'
BY DEF IInv, SessionsAreLiveTargets, EntriesUnique, EntriesUnanswered, NoneForgotten,
       CountersCover, CountCoversOutstanding, OrdinaryCallbacks, RootAttached, counters

(* Every step preserves the invariant. *)
LEMMA InvStep == IInv /\ [Next]_vars => IInv'
<1> USE ConstantsAssumption
<1> SUFFICES ASSUME IInv, [Next]_vars PROVE IInv'
  OBVIOUS
<1>1. ASSUME NEW t \in Targets, NEW c \in Calls, Invoke(t, c) PROVE IInv'
  BY <1>1, SendStep, ConnectionErrorStep DEF Invoke
<1>2. ASSUME NEW c \in Calls, SendRawMessageForTesting(c) PROVE IInv'
  BY <1>2, SendStep DEF SendRawMessageForTesting, Targets
<1>3. ASSUME NEW e \in callbacks, OnResponse(e) PROVE IInv'
  BY <1>3, ResponseStep
<1>4. ASSUME NEW m \in backend, OnUnroutedMessage(m) PROVE IInv'
  BY <1>4, OtherStep DEF OnUnroutedMessage, IInv, TypeOK, counters, scriptVars
<1>5. ASSUME NEW e \in timers, RunErrorTimer(e) PROVE IInv'
  BY <1>5, ErrorTimerStep
<1>6. ASSUME NEW t \in Children, AttachedToTarget(t) PROVE IInv'
  BY <1>6, AttachStep
<1>7. ASSUME NEW t \in Children, DetachedFromTarget(t) PROVE IInv'
  BY <1>7, DisposeStep DEF DetachedFromTarget, Targets
<1>8. CASE OnDisconnect
  BY <1>8, DisposeStep DEF OnDisconnect
<1>9. CASE RegisterProxySession \/ UnregisterProxySession \/ ProxySendRawMessage
  <2>1. UNCHANGED <<counters, callbacks, target, timers, scriptVars, madeOn, answers>>
    BY <1>9 DEF RegisterProxySession, UnregisterProxySession, ProxySendRawMessage
  <2>2. \A t \in Targets : t \in sessions' <=> t \in sessions
    BY <1>9 DEF RegisterProxySession, UnregisterProxySession, ProxySendRawMessage
  <2>3. sessions' \subseteq SessionIds /\ backend' \subseteq [sid: SessionIds, id: Nat]
    BY <1>9 DEF RegisterProxySession, UnregisterProxySession, ProxySendRawMessage,
                IInv, TypeOK, SessionIds
  <2>4. TypeOK'
    BY <2>1, <2>3 DEF IInv, TypeOK, counters, scriptVars
  <2> QED
    BY <2>1, <2>2, <2>4, OtherStep
<1>10. ASSUME NEW s \in Scripts, DeprecatedRunAfterPendingDispatches(s) PROVE IInv'
  BY <1>10, OtherStep DEF DeprecatedRunAfterPendingDispatches, IInv, TypeOK, counters
<1>11. CASE RunScriptTimer
  BY <1>11, OtherStep DEF RunScriptTimer, IInv, TypeOK, counters
<1>12. CASE UNCHANGED vars
  BY <1>12, OtherStep DEF vars, IInv, TypeOK, counters, scriptVars
<1> QED
  BY <1>1, <1>2, <1>3, <1>4, <1>5, <1>6, <1>7, <1>8, <1>9, <1>10, <1>11, <1>12 DEF Next

(* The strengthened invariant, from which the theorems below are read off. *)
THEOREM Invariance == SafeSpec => []IInv
<1> QED
  BY InvInit, InvStep, PTL DEF SafeSpec

(* The variables of the router keep their types; in particular the number of *)
(* pending responses, which every response lowers, never becomes negative.   *)
THEOREM Typing == SafeSpec => []TypeOK
<1>1. IInv => TypeOK
  BY DEF IInv
<1> QED
  BY <1>1, Invariance, PTL

(* A call made on a target is in one place: in the callback map, in an error *)
(* timer, or answered, and answered once.                                    *)
THEOREM CallsInOnePlace == SafeSpec => []InOnePlace
<1>1. IInv => InOnePlace
  <2> SUFFICES ASSUME IInv, NEW c \in Calls, madeOn[c] \in Targets
               PROVE  \/ /\ answers[c] # <<>> /\ Len(answers[c]) = 1
                         /\ Registered(c) = {} /\ Failing(c) = {}
                      \/ /\ answers[c] = <<>> /\ \E e \in timers : Failing(c) = {e}
                         /\ Registered(c) = {}
                      \/ /\ answers[c] = <<>> /\ \E e \in callbacks : Registered(c) = {e}
                         /\ Failing(c) = {}
    BY DEF InOnePlace
  <2>1. CASE answers[c] # <<>>
    <3>1. Len(answers[c]) = 1
      BY <2>1 DEF IInv, NoneForgotten
    <3>2. Registered(c) = {} /\ Failing(c) = {}
      BY <2>1 DEF IInv, EntriesUnanswered, Registered, Failing
    <3> QED
      BY <2>1, <3>1, <3>2
  <2>2. ASSUME NEW e \in timers, e.call = c
        PROVE  answers[c] = <<>> /\ Failing(c) = {e} /\ Registered(c) = {}
    <3>1. \A f \in timers : f.call = c => f = e
      BY <2>2 DEF IInv, EntriesUnique
    <3> QED
      BY <2>2, <3>1 DEF IInv, EntriesUnanswered, Registered, Failing
  <2>3. ASSUME NEW e \in callbacks, e.call = c
        PROVE  answers[c] = <<>> /\ Registered(c) = {e} /\ Failing(c) = {}
    <3>1. \A f \in callbacks : f.call = c => f = e
      BY <2>3 DEF IInv, EntriesUnique
    <3> QED
      BY <2>3, <3>1 DEF IInv, EntriesUnanswered, Registered, Failing
  <2>4. answers[c] # <<>> \/ \E e \in callbacks \cup timers : e.call = c
    BY DEF IInv, NoneForgotten
  <2> QED
    BY <2>1, <2>2, <2>3, <2>4
<1> QED
  BY <1>1, Invariance, PTL

(* The counters never fall below the ordinary callbacks that are registered. *)
THEOREM CountersCoverOutstanding == SafeSpec => []CountCoversOutstanding
<1>1. IInv => CountCoversOutstanding
  BY DEF IInv, CountersCover
<1> QED
  BY <1>1, Invariance, PTL

(* No script is run while an ordinary request waits for its response. *)
THEOREM QuietWhenScriptsRun == SafeSpec => ScriptsRunWhenQuiet
<1>1. IInv /\ [Next]_vars => [ranScripts' # ranScripts => OrdinaryCallbacks = {}]_vars
  <2> SUFFICES ASSUME IInv, [Next]_vars, ranScripts' # ranScripts
               PROVE  OrdinaryCallbacks = {}
    OBVIOUS
  <2>1. RunScriptTimer
    BY DEF Next, vars, scriptVars, counters, Invoke, SendMessage, DispatchConnectionError,
           SendRawMessageForTesting, OnResponse, OnUnroutedMessage, RunErrorTimer,
           AttachedToTarget, DetachedFromTarget, OnDisconnect, Dispose,
           RegisterProxySession, UnregisterProxySession, ProxySendRawMessage,
           DeprecatedRunAfterPendingDispatches
  <2>2. pendingResponsesCount - Cardinality(pendingLongPollingMessageIds) <= 0
    BY <2>1, LongPollingFinite
       DEF RunScriptTimer, HasOutstandingNonLongPollingRequests, IInv, TypeOK
  <2>3. Cardinality(OrdinaryCallbacks) = 0
    BY <2>2, OrdinaryFinite, LongPollingFinite
       DEF IInv, TypeOK, CountersCover, CountCoversOutstanding
  <2> QED
    BY <2>3, OrdinaryFinite, FS_EmptySet DEF IInv, CountersCover
<1> QED
  BY <1>1, Invariance, PTL DEF SafeSpec, ScriptsRunWhenQuiet

--------------------------------------------------------------------------------
(* The refinement of CallContract. *)

(* Status changes only with a call's own history. *)
LEMMA StatusUnchanged ==
    ASSUME UNCHANGED <<madeOn, answers>>
    PROVE  [c \in Calls |-> Status(c)]' = [c \in Calls |-> Status(c)]
BY DEF Status

(* Making a call, on a live, a disposed or a vanished session. *)
LEMMA MakeRefines ==
    ASSUME IInv, NEW c \in Calls, NEW t \in Targets, madeOn[c] = "idle",
           target[t] # "none", UNCHANGED <<target, answers>>,
           madeOn' = [madeOn EXCEPT ![c] = t]
    PROVE  Contract!Make(c, t)
<1> USE ConstantsAssumption
<1>1. answers[c] = <<>>
  BY DEF IInv, NoneForgotten
<1>2. [d \in Calls |-> Status(d)]' = [[d \in Calls |-> Status(d)] EXCEPT ![c] = "pending"]
  BY <1>1 DEF Status, IInv, TypeOK
<1>3. Status(c) = "idle"
  BY <1>1 DEF Status
<1> QED
  BY <1>2, <1>3 DEF Contract!Make

LEMMA DropRefines ==
    ASSUME IInv, NEW c \in Calls, madeOn[c] = "idle",
           target[Root] = "disposed", UNCHANGED <<target, answers>>,
           madeOn' = [madeOn EXCEPT ![c] = "dropped"]
    PROVE  Contract!Drop(c)
<1> USE ConstantsAssumption
<1>1. answers[c] = <<>>
  BY DEF IInv, NoneForgotten
<1>2. [d \in Calls |-> Status(d)]' = [[d \in Calls |-> Status(d)] EXCEPT ![c] = "dropped"]
  BY <1>1 DEF Status, IInv, TypeOK
<1>3. Status(c) = "idle"
  BY <1>1 DEF Status
<1> QED
  BY <1>2, <1>3 DEF Contract!Drop, Targets

(* Answering a pending call settles it, and no other. *)
LEMMA SettleRefines ==
    ASSUME IInv, NEW c \in Calls, NEW how \in {"result", "closed"},
           madeOn[c] \in Targets, answers[c] = <<>>,
           answers' = [answers EXCEPT ![c] = Append(@, how)], UNCHANGED <<target, madeOn>>
    PROVE  Contract!Settle(c, how)
<1> USE ConstantsAssumption
<1>1. answers'[c] = <<how>> /\ \A d \in Calls : d # c => answers'[d] = answers[d]
  BY OneAnswer DEF IInv, TypeOK
<1>2. Status(c)' = how /\ \A d \in Calls : d # c => Status(d)' = Status(d)
  BY <1>1 DEF Status
<1>3. [d \in Calls |-> Status(d)]' = [[d \in Calls |-> Status(d)] EXCEPT ![c] = how]
  BY <1>2
<1>4. Status(c) = "pending"
  BY DEF Status
<1> QED
  BY <1>3, <1>4 DEF Contract!Settle

(* Every step of the router is a step of the contract, or changes nothing in it. *)
LEMMA StepRefines == IInv /\ [Next]_vars => [Contract!Next]_(Contract!vars)
<1> USE ConstantsAssumption
<1> SUFFICES ASSUME IInv, [Next]_vars PROVE Contract!Next \/ UNCHANGED Contract!vars
  OBVIOUS
<1>0. ASSUME UNCHANGED <<target, madeOn, answers>> PROVE UNCHANGED Contract!vars
  BY <1>0, StatusUnchanged DEF Contract!vars
<1>1. ASSUME NEW t \in Targets, NEW c \in Calls, Invoke(t, c) PROVE Contract!Next
  <2>1. madeOn' = [madeOn EXCEPT ![c] = t]
    BY <1>1 DEF Invoke, SendMessage, DispatchConnectionError, IInv, SessionsAreLiveTargets
  <2>2. Contract!Make(c, t)
    BY <1>1, <2>1, MakeRefines DEF Invoke, SendMessage, DispatchConnectionError
  <2> QED
    BY <2>2 DEF Contract!Next
<1>2. ASSUME NEW c \in Calls, SendRawMessageForTesting(c) PROVE Contract!Next
  <2>1. CASE Root \in sessions
    <3>1. Contract!Make(c, Root)
      BY <1>2, <2>1, MakeRefines
         DEF SendRawMessageForTesting, SendMessage, Targets, IInv, SessionsAreLiveTargets
    <3> QED
      BY <3>1 DEF Contract!Next, Targets
  <2>2. CASE Root \notin sessions
    <3>1. target[Root] = "disposed"
      BY <2>2 DEF IInv, RootAttached, SessionsAreLiveTargets, TypeOK, Targets
    <3>2. Contract!Drop(c)
      BY <1>2, <2>2, <3>1, DropRefines DEF SendRawMessageForTesting, SendMessage
    <3> QED
      BY <3>2 DEF Contract!Next
  <2> QED
    BY <2>1, <2>2
<1>3. ASSUME NEW e \in callbacks, OnResponse(e) PROVE Contract!Next
  <2>1. e.call \in Calls /\ e.sid \in Targets /\ madeOn[e.call] = e.sid
        /\ target[e.sid] = "live" /\ answers[e.call] = <<>>
    BY DEF IInv, TypeOK, Entries, EntriesUnanswered
  <2>2. Contract!Settle(e.call, "result")
    BY <1>3, <2>1, SettleRefines DEF OnResponse
  <2>3. Contract!Return(e.call)
    BY <2>1, <2>2 DEF Contract!Return
  <2> QED
    BY <2>1, <2>3 DEF Contract!Next
<1>4. ASSUME NEW m \in backend, OnUnroutedMessage(m) PROVE UNCHANGED Contract!vars
  BY <1>0, <1>4 DEF OnUnroutedMessage
<1>5. ASSUME NEW e \in timers, RunErrorTimer(e) PROVE Contract!Next
  <2>1. e.call \in Calls /\ e.sid \in Targets /\ madeOn[e.call] = e.sid
        /\ target[e.sid] = "disposed" /\ answers[e.call] = <<>>
    BY DEF IInv, TypeOK, Entries, EntriesUnanswered
  <2>2. Contract!Settle(e.call, "closed")
    BY <1>5, <2>1, SettleRefines DEF RunErrorTimer
  <2>3. Contract!Fail(e.call)
    BY <2>1, <2>2 DEF Contract!Fail
  <2> QED
    BY <2>1, <2>3 DEF Contract!Next
<1>6. ASSUME NEW t \in Children, AttachedToTarget(t) PROVE Contract!Next
  <2>1. t \in Targets /\ target[t] = "none" /\ target' = [target EXCEPT ![t] = "live"]
        /\ UNCHANGED <<madeOn, answers>>
    BY <1>6 DEF AttachedToTarget, Targets
  <2>2. Contract!Open(t)
    BY <2>1, StatusUnchanged DEF Contract!Open
  <2> QED
    BY <2>1, <2>2 DEF Contract!Next
<1>7. ASSUME NEW T \in SUBSET Targets, \A t \in T : target[t] = "live", Dispose(T)
      PROVE  Contract!Next
  <2>1. Contract!Close(T)
    BY <1>7, StatusUnchanged DEF Dispose, Contract!Close
  <2> QED
    BY <2>1 DEF Contract!Next
<1>8. ASSUME NEW t \in Children, DetachedFromTarget(t) PROVE Contract!Next
  BY <1>7, <1>8 DEF DetachedFromTarget, Targets
<1>9. CASE OnDisconnect
  BY <1>7, <1>9 DEF OnDisconnect
<1>10. CASE RegisterProxySession \/ UnregisterProxySession \/ ProxySendRawMessage
  BY <1>0, <1>10 DEF RegisterProxySession, UnregisterProxySession, ProxySendRawMessage
<1>11. ASSUME NEW s \in Scripts, DeprecatedRunAfterPendingDispatches(s)
       PROVE UNCHANGED Contract!vars
  BY <1>0, <1>11 DEF DeprecatedRunAfterPendingDispatches
<1>12. CASE RunScriptTimer
  BY <1>0, <1>12 DEF RunScriptTimer
<1>13. CASE UNCHANGED vars
  BY <1>0, <1>13 DEF vars
<1> QED
  BY <1>1, <1>2, <1>3, <1>4, <1>5, <1>6, <1>8, <1>9, <1>10, <1>11, <1>12, <1>13 DEF Next

(* The router implements the contract's safety part: a call is settled at    *)
(* most once, with a result only while its target is open and with an error  *)
(* only after the target was closed.                                         *)
THEOREM RefinesContract == SafeSpec => Contract!SafeSpec
<1>1. Init => Contract!Init
  <2> SUFFICES ASSUME Init PROVE Contract!Init
    OBVIOUS
  <2>1. [c \in Calls |-> Status(c)] = [c \in Calls |-> "idle"]
    BY ConstantsAssumption DEF Init, Status
  <2> QED
    BY <2>1 DEF Init, Contract!Init
<1>2. IInv /\ [Next]_vars => [Contract!Next]_(Contract!vars)
  BY StepRefines
<1> QED
  BY <1>1, <1>2, Invariance, PTL DEF SafeSpec, Contract!SafeSpec
================================================================================
