------------------------------ MODULE SessionRouter ------------------------------
(*****************************************************************************)
(* protocol_client/InspectorBackend.js: one SessionRouter multiplexes the    *)
(* protocol sessions of a connection, and every TargetBase talks to it       *)
(* through its session.  The root target owns session '' (Root); its         *)
(* ChildTargetManager opens and closes one session per child target; a       *)
(* ParallelConnection owns the proxied session.                              *)
(*                                                                           *)
(* Every action is one turn of the JavaScript event loop.  `backend` and the *)
(* action that asks it through the proxied session stand for the other end   *)
(* of the connection.                                                        *)
(*****************************************************************************)
EXTENDS Integers, FiniteSets, Sequences

CONSTANTS Root,              \* the session id '' of the root target
          Children,          \* session ids the backend can attach child targets with
          Proxy,             \* session id of the parallel (proxied) connection
          Calls,             \* the protocol calls ever made, one model value each
          LongPollingCalls,  \* those whose method is in LongPollingMethods
          Scripts            \* scripts given to deprecatedRunAfterPendingDispatches

Targets == {Root} \cup Children
SessionIds == Targets \cup {Proxy}

ASSUME ConstantsAssumption ==
    /\ IsFiniteSet(Calls)
    /\ Root \notin Children
    /\ Proxy \notin Targets
    /\ LongPollingCalls \subseteq Calls
    /\ "idle" \notin Targets /\ "dropped" \notin Targets

VARIABLES lastMessageId, pendingResponsesCount, pendingLongPollingMessageIds,
          sessions,       \* session ids that are keys of _sessions
          callbacks,      \* entries [sid, id, call] of the sessions' callback maps
          target,         \* target -> "none", "live" (has a _router) or "disposed"
          timers,         \* setTimeout tasks that answer a call with an error
          pendingScripts, scriptTimers,  \* scriptTimers: setTimeout tasks of the script queue
          backend,        \* requests [sid, id] the backend has and has not answered
          madeOn,         \* history: call -> the target it was made on, "idle" or "dropped"
          answers,        \* history: call -> the answers its callback was called with
          ranScripts      \* history: the scripts that were run

counters == <<lastMessageId, pendingResponsesCount, pendingLongPollingMessageIds>>
scriptVars == <<pendingScripts, scriptTimers, ranScripts>>
vars == <<counters, sessions, callbacks, target, timers, scriptVars, backend, madeOn, answers>>

Entries == [sid: Targets, id: Nat, call: Calls]

Init == /\ lastMessageId = 1
        /\ pendingResponsesCount = 0
        /\ pendingLongPollingMessageIds = {}
        /\ sessions = {Root}
        /\ callbacks = {}
        /\ target = [t \in Targets |-> IF t = Root THEN "live" ELSE "none"]
        /\ timers = {}
        /\ pendingScripts = {}
        /\ scriptTimers = 0
        /\ backend = {}
        /\ madeOn = [c \in Calls |-> "idle"]
        /\ answers = [c \in Calls |-> <<>>]
        /\ ranScripts = {}

--------------------------------------------------------------------------------
(* Sending. *)

\* sendMessage on a session: the counter and the long-polling set move before
\* the session is looked up; without one the callback is never registered.
SendMessage(sid, c) ==
    /\ lastMessageId' = lastMessageId + 1
    /\ pendingResponsesCount' = pendingResponsesCount + 1
    /\ pendingLongPollingMessageIds' =
           IF c \in LongPollingCalls THEN pendingLongPollingMessageIds \cup {lastMessageId}
                                     ELSE pendingLongPollingMessageIds
    /\ IF sid \in sessions
       THEN /\ callbacks' = {e \in callbacks : ~(e.sid = sid /\ e.id = lastMessageId)}
                              \cup {[sid |-> sid, id |-> lastMessageId, call |-> c]}
            /\ backend' = backend \cup {[sid |-> sid, id |-> lastMessageId]}
            /\ madeOn' = [madeOn EXCEPT ![c] = sid]
       ELSE /\ madeOn' = [madeOn EXCEPT ![c] = "dropped"]
            /\ UNCHANGED <<callbacks, backend>>
    /\ UNCHANGED <<sessions, target, timers, scriptVars, answers>>

\* An agent's command on a target that was disposed: the error comes from a timer.
DispatchConnectionError(t, c) ==
    /\ timers' = timers \cup {[sid |-> t, id |-> 0, call |-> c]}
    /\ madeOn' = [madeOn EXCEPT ![c] = t]
    /\ UNCHANGED <<counters, sessions, callbacks, target, scriptVars, backend, answers>>

Invoke(t, c) ==
    /\ madeOn[c] = "idle"
    /\ \/ target[t] = "live" /\ SendMessage(t, c)
       \/ target[t] = "disposed" /\ DispatchConnectionError(t, c)

\* test.sendRawMessage goes to session '' whether or not it still exists.
SendRawMessageForTesting(c) ==
    /\ madeOn[c] = "idle"
    /\ SendMessage(Root, c)

--------------------------------------------------------------------------------
(* Receiving. *)

HasOutstandingNonLongPollingRequests ==
    pendingResponsesCount - Cardinality(pendingLongPollingMessageIds) > 0

\* Variant: the answered id is left in pendingLongPollingMessageIds.
OnResponseKeepsLongPollingId(e) ==
    /\ [sid |-> e.sid, id |-> e.id] \in backend
    /\ e.sid \in sessions
    /\ backend' = backend \ {[sid |-> e.sid, id |-> e.id]}
    /\ callbacks' = callbacks \ {e}
    /\ answers' = [answers EXCEPT ![e.call] = Append(@, "result")]
    /\ pendingResponsesCount' = pendingResponsesCount - 1
    /\ UNCHANGED <<lastMessageId, pendingLongPollingMessageIds, sessions, target, timers,
                   scriptVars, madeOn>>

\* A response that finds its session and its callback.
OnResponse(e) ==
    /\ [sid |-> e.sid, id |-> e.id] \in backend
    /\ e.sid \in sessions
    /\ backend' = backend \ {[sid |-> e.sid, id |-> e.id]}
    /\ callbacks' = callbacks \ {e}
    /\ answers' = [answers EXCEPT ![e.call] = Append(@, "result")]
    /\ pendingResponsesCount' = pendingResponsesCount - 1
    /\ pendingLongPollingMessageIds' = pendingLongPollingMessageIds \ {e.id}
    /\ scriptTimers' = IF pendingScripts # {} /\ ~HasOutstandingNonLongPollingRequests'
                       THEN scriptTimers + 1 ELSE scriptTimers
    /\ UNCHANGED <<lastMessageId, sessions, target, timers, pendingScripts, ranScripts, madeOn>>

\* Variant: the counter is decremented before the callback is looked up.
OnUnroutedMessageCounted(m) ==
    /\ m \in backend
    /\ m.sid \notin sessions \/ m.sid = Proxy
    /\ backend' = backend \ {m}
    /\ pendingResponsesCount' = pendingResponsesCount - 1
    /\ UNCHANGED <<lastMessageId, pendingLongPollingMessageIds, sessions, callbacks, target,
                   timers, scriptVars, madeOn, answers>>

\* A response the router hands to no callback: its session is gone, or it is
\* the proxy's, or no callback has its id.
OnUnroutedMessage(m) ==
    /\ m \in backend
    /\ \/ m.sid \notin sessions
       \/ m.sid = Proxy
       \/ ~ \E e \in callbacks : e.sid = m.sid /\ e.id = m.id
    /\ backend' = backend \ {m}
    /\ UNCHANGED <<counters, sessions, callbacks, target, timers, scriptVars, madeOn, answers>>

\* The setTimeout of dispatchConnectionError or dispatchUnregisterSessionError.
RunErrorTimer(e) ==
    /\ timers' = timers \ {e}
    /\ answers' = [answers EXCEPT ![e.call] = Append(@, "closed")]
    /\ UNCHANGED <<counters, sessions, callbacks, target, scriptVars, backend, madeOn>>

--------------------------------------------------------------------------------
(* Sessions come and go. *)

\* ChildTargetManager.attachedToTarget: the event comes on the root session, and
\* the TargetBase constructor registers the new session.
AttachedToTarget(t) ==
    /\ Root \in sessions
    /\ target[t] = "none"
    /\ target' = [target EXCEPT ![t] = "live"]
    /\ sessions' = sessions \cup {t}
    /\ callbacks' = {e \in callbacks : e.sid # t}
    /\ UNCHANGED <<counters, timers, scriptVars, backend, madeOn, answers>>

\* Variant: the pending calls are failed, but the session stays registered.
DisposeKeepsSession(T) ==
    /\ target' = [t \in Targets |-> IF t \in T THEN "disposed" ELSE target[t]]
    /\ timers' = timers \cup {e \in callbacks : e.sid \in T}
    /\ UNCHANGED <<counters, sessions, callbacks, scriptVars, backend, madeOn, answers>>

\* Variant: the session is deleted without failing its pending calls.
DisposeForgetsCalls(T) ==
    /\ target' = [t \in Targets |-> IF t \in T THEN "disposed" ELSE target[t]]
    /\ callbacks' = {e \in callbacks : e.sid \notin T}
    /\ sessions' = sessions \ T
    /\ UNCHANGED <<counters, timers, scriptVars, backend, madeOn, answers>>

\* TargetBase.dispose on every target of T, with what unregisterSession does to
\* their pending calls.
Dispose(T) ==
    /\ target' = [t \in Targets |-> IF t \in T THEN "disposed" ELSE target[t]]
    /\ timers' = timers \cup {e \in callbacks : e.sid \in T}
    /\ callbacks' = {e \in callbacks : e.sid \notin T}
    /\ sessions' = sessions \ T
    /\ UNCHANGED <<counters, scriptVars, backend, madeOn, answers>>

DetachedFromTarget(t) ==
    /\ Root \in sessions
    /\ target[t] = "live"
    /\ Dispose({t})

\* The connection's onDisconnect disposes the root target; its
\* ChildTargetManager disposes every child with it.
OnDisconnect ==
    /\ Root \in sessions
    /\ Dispose({t \in Targets : target[t] = "live"})

\* ParallelConnection: the session is registered with a proxyConnection when
\* attachToTarget is answered, and unregistered by its disconnect().
RegisterProxySession ==
    /\ Root \in sessions
    /\ Proxy \notin sessions
    /\ sessions' = sessions \cup {Proxy}
    /\ UNCHANGED <<counters, callbacks, target, timers, scriptVars, backend, madeOn, answers>>

UnregisterProxySession ==
    /\ Proxy \in sessions
    /\ sessions' = sessions \ {Proxy}
    /\ UNCHANGED <<counters, callbacks, target, timers, scriptVars, backend, madeOn, answers>>

\* The proxy's client numbers its messages itself, so its ids collide with the router's.
ProxySendRawMessage ==
    /\ Proxy \in sessions
    /\ backend' = backend \cup {[sid |-> Proxy, id |-> 1]}
    /\ UNCHANGED <<counters, sessions, callbacks, target, timers, scriptVars, madeOn, answers>>

--------------------------------------------------------------------------------
(* Scripts that wait for a quiet protocol. *)

\* Variant: a script is queued for the next response to run, without a timer.
DeprecatedRunAfterNextResponse(s) ==
    /\ s \notin pendingScripts \cup ranScripts
    /\ pendingScripts' = pendingScripts \cup {s}
    /\ UNCHANGED <<counters, sessions, callbacks, target, timers, backend, madeOn, answers,
                   scriptTimers, ranScripts>>

DeprecatedRunAfterPendingDispatches(s) ==
    /\ s \notin pendingScripts \cup ranScripts
    /\ pendingScripts' = pendingScripts \cup {s}
    /\ scriptTimers' = scriptTimers + 1
    /\ UNCHANGED <<counters, sessions, callbacks, target, timers, backend, madeOn, answers, ranScripts>>

\* Variant: the timer runs the scripts without looking at the counters again.
RunScriptTimerUnchecked ==
    /\ scriptTimers > 0
    /\ ranScripts' = ranScripts \cup pendingScripts
    /\ pendingScripts' = {}
    /\ scriptTimers' = scriptTimers - 1
    /\ UNCHANGED <<counters, sessions, callbacks, target, timers, backend, madeOn, answers>>

\* The timer re-arms itself, which changes nothing, while requests are outstanding.
RunScriptTimer ==
    /\ scriptTimers > 0
    /\ ~HasOutstandingNonLongPollingRequests
    /\ ranScripts' = ranScripts \cup pendingScripts
    /\ pendingScripts' = {}
    /\ scriptTimers' = scriptTimers - 1
    /\ UNCHANGED <<counters, sessions, callbacks, target, timers, backend, madeOn, answers>>

--------------------------------------------------------------------------------
Next == \/ \E t \in Targets, c \in Calls : Invoke(t, c)
        \/ \E c \in Calls : SendRawMessageForTesting(c)
        \/ \E e \in callbacks : OnResponse(e)
        \/ \E m \in backend : OnUnroutedMessage(m)
        \/ \E e \in timers : RunErrorTimer(e)
        \/ \E t \in Children : AttachedToTarget(t) \/ DetachedFromTarget(t)
        \/ OnDisconnect
        \/ RegisterProxySession \/ UnregisterProxySession \/ ProxySendRawMessage
        \/ \E s \in Scripts : DeprecatedRunAfterPendingDispatches(s)
        \/ RunScriptTimer

SafeSpec == Init /\ [][Next]_vars

\* The event loop runs every timer; the backend answers every ordinary request
\* of a session it still has, and a long-polling one when it likes.
Fairness ==
    /\ \A c \in Calls \ LongPollingCalls :
           WF_vars(\E e \in callbacks : e.call = c /\ OnResponse(e))
    /\ \A c \in Calls : WF_vars(\E e \in timers : e.call = c /\ RunErrorTimer(e))
    /\ WF_vars(RunScriptTimer)

Spec == SafeSpec /\ Fairness

--------------------------------------------------------------------------------
(* Properties. *)

\* Every variable has its shape.
TypeOK ==
    /\ lastMessageId \in Nat \ {0}
    /\ pendingResponsesCount \in Nat
    /\ pendingLongPollingMessageIds \subseteq 1..(lastMessageId - 1)
    /\ sessions \subseteq SessionIds
    /\ callbacks \subseteq Entries
    /\ target \in [Targets -> {"none", "live", "disposed"}]
    /\ timers \subseteq Entries
    /\ pendingScripts \subseteq Scripts
    /\ scriptTimers \in Nat
    /\ backend \subseteq [sid: SessionIds, id: Nat]
    /\ madeOn \in [Calls -> Targets \cup {"idle", "dropped"}]
    /\ answers \in [Calls -> Seq({"result", "closed"})]
    /\ ranScripts \subseteq Scripts

Registered(c) == {e \in callbacks : e.call = c}
Failing(c) == {e \in timers : e.call = c}

\* A call that reached a session is in exactly one place: waiting for the
\* backend in the callback map, waiting for its error in a timer, or answered
\* once.  No interleaving of responses, disposal and timers answers it twice or
\* forgets it (sendMessage, unregisterSession, _onMessage).
InOnePlace ==
    \A c \in Calls :
        madeOn[c] \in Targets =>
            \/ answers[c] # <<>> /\ Len(answers[c]) = 1 /\ Registered(c) = {} /\ Failing(c) = {}
            \/ answers[c] = <<>> /\ (\E e \in timers : Failing(c) = {e}) /\ Registered(c) = {}
            \/ answers[c] = <<>> /\ (\E e \in callbacks : Registered(c) = {e}) /\ Failing(c) = {}

\* The counters never claim the protocol is quiet while an ordinary request
\* waits for its response: what HasOutstandingNonLongPollingRequests computes
\* is at least the number of such callbacks, also after sessions went away.
OrdinaryCallbacks == {e \in callbacks : e.call \notin LongPollingCalls}

CountCoversOutstanding ==
    pendingResponsesCount - Cardinality(pendingLongPollingMessageIds)
        >= Cardinality(OrdinaryCallbacks)

\* deprecatedRunAfterPendingDispatches runs no script while an ordinary request
\* is waiting for its response.
ScriptsRunWhenQuiet ==
    [][ranScripts' # ranScripts => OrdinaryCallbacks = {}]_vars

\* A waiting script is run, provided no request was left counted when its
\* session went away: as long as the counters are exact, they come down to 0.
CountersExact == pendingResponsesCount - Cardinality(pendingLongPollingMessageIds)
                     = Cardinality(OrdinaryCallbacks)

ScriptsRunIfCountersExact ==
    \A s \in Scripts : [](CountersExact) => (s \in pendingScripts ~> s \in ranScripts)

\* "Runs a function when no protocol activity is present": a script that was
\* queued is run once no request waits for a response any more, on a connection
\* that stays up.
ScriptsRunOnceQuiet ==
    \A s \in Scripts :
        (s \in pendingScripts /\ [](Root \in sessions /\ OrdinaryCallbacks = {}))
            ~> s \in ranScripts

\* The router keeps the promise its callers rely on, liveness included.
Status(c) == IF answers[c] # <<>> THEN Head(answers[c])
             ELSE IF madeOn[c] \in Targets THEN "pending"
             ELSE madeOn[c]

Contract == INSTANCE CallContract
                WITH open <- target, status <- [c \in Calls |-> Status(c)], on <- madeOn

ImplementsCallContract == Contract!Spec
================================================================================
