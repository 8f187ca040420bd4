------------------------------- MODULE Throttler -------------------------------
(*****************************************************************************)
(* common/Throttler.js: of the processes handed to schedule() only the last  *)
(* one runs, one at a time, and not sooner than a timeout after the previous *)
(* run completed unless somebody asked for it as soon as possible.           *)
(*                                                                           *)
(* Call n of schedule() hands over process n.  Time is kept as two distances *)
(* that Tick moves: what is left of the timer, and how long ago the last run *)
(* completed (counted up to Timeout + 1, beyond which nothing depends on it).*)
(*****************************************************************************)
EXTENDS Integers, FiniteSets

CONSTANTS Timeout,   \* the throttler's timeout, in ticks
          MaxCalls   \* bound: how often schedule() is called

ASSUME ConstantsAssumption == Timeout \in Nat /\ MaxCalls \in Nat

Off == -1    \* no timer is set
None == 0    \* no process is scheduled

VARIABLES process,           \* _process: the last call not yet started, or None
          processTimeout,    \* ticks left of the timer, or Off
          isRunningProcess, asSoonAsPossible,
          sinceComplete,     \* ticks since _lastCompleteTime
          schedulePromise,   \* number of the promise schedule() returns now
          running,           \* the runs under way: [call, promise]
          settling,          \* promises whose run is complete, about to be resolved
          calls,             \* history: number of calls so far
          promiseOf,         \* history: call -> the promise it was given, 0 before
          completed,         \* history: the calls whose process ran to its end
          resolved,          \* history: the promises resolved
          urgent             \* history: a call asked for asSoonAsPossible since the last start

vars == <<process, processTimeout, isRunningProcess, asSoonAsPossible, sinceComplete,
          schedulePromise, running, settling, calls, promiseOf, completed, resolved, urgent>>

Init == /\ process = None
        /\ processTimeout = Off
        /\ isRunningProcess = FALSE
        /\ asSoonAsPossible = FALSE
        /\ sinceComplete \in 0..(Timeout + 1)
        /\ schedulePromise = 1
        /\ running = {}
        /\ settling = {}
        /\ calls = 0
        /\ promiseOf = [c \in 1..MaxCalls |-> 0]
        /\ completed = {}
        /\ resolved = {}
        /\ urgent = FALSE

\* Variant: the timer is set again although a process is running.
InnerScheduleWhileRunning(force, asap, isRunning) ==
    processTimeout' = IF processTimeout # Off /\ ~force THEN processTimeout
                      ELSE IF asap THEN 0 ELSE Timeout

\* Variant: every timer fires at once.
InnerScheduleAtOnce(force, asap, isRunning) ==
    processTimeout' = IF isRunning \/ (processTimeout # Off /\ ~force) THEN processTimeout
                      ELSE 0

\* _innerSchedule, after which asSoonAsPossible is `asap` and isRunningProcess `isRunning`.
InnerSchedule(force, asap, isRunning) ==
    processTimeout' = IF isRunning \/ (processTimeout # Off /\ ~force) THEN processTimeout
                      ELSE IF asap THEN 0 ELSE Timeout

Schedule(wanted) ==
    /\ calls < MaxCalls
    /\ calls' = calls + 1
    /\ process' = calls + 1
    /\ LET hasScheduledTasks == processTimeout # Off \/ isRunningProcess
           okToFire == sinceComplete > Timeout
           asap == wanted \/ (~hasScheduledTasks /\ okToFire)
       IN  /\ asSoonAsPossible' = (asSoonAsPossible \/ asap)
           /\ InnerSchedule(asap /\ ~asSoonAsPossible, asSoonAsPossible', isRunningProcess)
    /\ promiseOf' = [promiseOf EXCEPT ![calls + 1] = schedulePromise]
    /\ urgent' = (urgent \/ wanted)
    /\ UNCHANGED <<isRunningProcess, sinceComplete, schedulePromise, running, settling,
                   completed, resolved>>

\* Variant: the run resolves the promise that replaces the current one.
OnTimeoutNextPromise ==
    /\ processTimeout = 0
    /\ processTimeout' = Off
    /\ asSoonAsPossible' = FALSE
    /\ isRunningProcess' = TRUE
    /\ running' = running \cup {[call |-> process, promise |-> schedulePromise + 1]}
    /\ schedulePromise' = schedulePromise + 1
    /\ process' = None
    /\ urgent' = FALSE
    /\ UNCHANGED <<sinceComplete, settling, calls, promiseOf, completed, resolved>>

\* _onTimeout: the chain it builds holds the process and the promise of this moment.
OnTimeout ==
    /\ processTimeout = 0
    /\ processTimeout' = Off
    /\ asSoonAsPossible' = FALSE
    /\ isRunningProcess' = TRUE
    /\ running' = running \cup {[call |-> process, promise |-> schedulePromise]}
    /\ schedulePromise' = schedulePromise + 1
    /\ process' = None
    /\ urgent' = FALSE
    /\ UNCHANGED <<sinceComplete, settling, calls, promiseOf, completed, resolved>>

\* Variant: what was scheduled during the run waits for the next call of schedule().
ProcessCompletedNoReschedule(r) ==
    /\ running' = running \ {r}
    /\ completed' = completed \cup {r.call}
    /\ settling' = settling \cup {r.promise}
    /\ sinceComplete' = 0
    /\ isRunningProcess' = FALSE
    /\ UNCHANGED <<processTimeout, process, asSoonAsPossible, schedulePromise, calls, promiseOf,
                   resolved, urgent>>

\* The process settles, well or badly, and _processCompleted sets the timer for
\* what was scheduled meanwhile.
ProcessCompleted(r) ==
    /\ running' = running \ {r}
    /\ completed' = completed \cup {r.call}
    /\ settling' = settling \cup {r.promise}
    /\ sinceComplete' = 0
    /\ isRunningProcess' = FALSE
    /\ IF process # None THEN InnerSchedule(FALSE, asSoonAsPossible, FALSE)
                         ELSE UNCHANGED processTimeout
    /\ UNCHANGED <<process, asSoonAsPossible, schedulePromise, calls, promiseOf, resolved, urgent>>

\* The last link of the chain: _scheduleResolve.
ScheduleResolve(p) ==
    /\ settling' = settling \ {p}
    /\ resolved' = resolved \cup {p}
    /\ UNCHANGED <<process, processTimeout, isRunningProcess, asSoonAsPossible, sinceComplete,
                   schedulePromise, running, calls, promiseOf, completed, urgent>>

\* Time passes.  A timer that is due may fire later, as timers do.
Tick ==
    /\ sinceComplete' = IF sinceComplete > Timeout THEN sinceComplete ELSE sinceComplete + 1
    /\ processTimeout' = IF processTimeout > 0 THEN processTimeout - 1 ELSE processTimeout
    /\ UNCHANGED <<process, isRunningProcess, asSoonAsPossible, schedulePromise, running,
                   settling, calls, promiseOf, completed, resolved, urgent>>

Next == \/ \E wanted \in BOOLEAN : Schedule(wanted)
        \/ OnTimeout
        \/ \E r \in running : ProcessCompleted(r)
        \/ \E p \in settling : ScheduleResolve(p)
        \/ Tick

SafeSpec == Init /\ [][Next]_vars

\* Timers fire, promise chains go on, and the processes settle.
Fairness == /\ WF_vars(Tick)
            /\ WF_vars(OnTimeout)
            /\ WF_vars(\E r \in running : ProcessCompleted(r))
            /\ WF_vars(\E p \in settling : ScheduleResolve(p))

Spec == SafeSpec /\ Fairness

--------------------------------------------------------------------------------
(* Properties. *)

\* Every variable has its shape; a timer is only set for a process that waits.
TypeOK ==
    /\ process \in 0..MaxCalls
    /\ processTimeout \in {Off} \cup 0..Timeout
    /\ processTimeout # Off => process # None
    /\ isRunningProcess \in BOOLEAN /\ asSoonAsPossible \in BOOLEAN /\ urgent \in BOOLEAN
    /\ sinceComplete \in 0..(Timeout + 1)
    /\ schedulePromise \in 1..(MaxCalls + 1)
    /\ running \subseteq [call: 1..MaxCalls, promise: 1..MaxCalls]
    /\ settling \subseteq 1..MaxCalls
    /\ calls \in 0..MaxCalls
    /\ promiseOf \in [1..MaxCalls -> 0..(MaxCalls + 1)]
    /\ completed \subseteq 1..MaxCalls
    /\ resolved \subseteq 1..MaxCalls

\* Two processes never run at once, whatever is scheduled while one runs.
OneAtATime == Cardinality(running) <= 1

\* An urgent call takes effect: unless a process is running, the timer is due.
UrgentIsDue == urgent /\ ~isRunningProcess => processTimeout = 0

\* The fields agree with each other and with what runs: their shape, one run at a
\* time, and a timer that an urgent call has shortened.
Consistent == TypeOK /\ OneAtATime /\ UrgentIsDue

\* A caller whose promise resolved knows that its process, or one scheduled
\* after it, has run to its end since: the run it waited for is not an older one.
ResolvedMeansRan ==
    \A c \in 1..calls :
        promiseOf[c] \in resolved => \E d \in completed : d >= c

\* A process starts sooner than Timeout after the previous run completed only
\* if some call since the previous start asked for as soon as possible.
Throttled == [][OnTimeout => urgent \/ sinceComplete >= Timeout]_vars

\* Every promise that schedule() returned is resolved.
EveryPromiseResolves ==
    \A c \in 1..MaxCalls : calls >= c ~> promiseOf[c] \in resolved
================================================================================
