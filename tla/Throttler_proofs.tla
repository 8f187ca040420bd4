---------------------------- MODULE Throttler_proofs ----------------------------
(*****************************************************************************)
(* Proofs about Throttler, for any timeout and any number of calls: one run  *)
(* at a time, urgent calls are due, a resolved promise means that its        *)
(* caller's process or a later one has run, and runs are throttled.          *)
(*****************************************************************************)
EXTENDS Throttler, FiniteSetTheorems, TLAPS

\* A run is under way exactly while isRunningProcess is set, and no timer is then.
RunExact ==
    /\ \A r, s \in running : r = s
    /\ isRunningProcess <=> running # {}
    /\ isRunningProcess => processTimeout = Off

\* What was scheduled has its timer, and an urgent one is due, unless a run comes first.
TimerExact ==
    /\ process # None /\ ~isRunningProcess => processTimeout # Off
    /\ asSoonAsPossible => process # None
    /\ asSoonAsPossible /\ ~isRunningProcess => processTimeout = 0
    /\ urgent => asSoonAsPossible

\* A timer that no urgent call set leaves the timeout to the last run.
TimerThrottles ==
    /\ isRunningProcess /\ asSoonAsPossible => urgent
    /\ processTimeout # Off /\ ~urgent => processTimeout + sinceComplete >= Timeout

\* Calls and promises are numbered as they come.
NumbersInOrder ==
    /\ process <= calls /\ schedulePromise <= calls + 1
    /\ process # None => schedulePromise <= calls
    /\ \A r \in running : r.call <= calls /\ r.promise < schedulePromise
    /\ \A p \in settling \cup resolved : p < schedulePromise
    /\ \A c \in 1..calls : promiseOf[c] \in 1..schedulePromise

\* Who holds a promise waits for the process that will resolve it, or a later one.
PromisesAreKept ==
    \A c \in 1..calls :
        /\ promiseOf[c] = schedulePromise => process # None /\ c <= process
        /\ \A r \in running : promiseOf[c] = r.promise => c <= r.call
        /\ promiseOf[c] \in settling \cup resolved => \E d \in completed : d >= c

IInv == /\ TypeOK /\ RunExact /\ TimerExact /\ TimerThrottles
        /\ NumbersInOrder /\ PromisesAreKept

(* At the start nothing is scheduled. *)
LEMMA InvInit == Init => IInv
<1> SUFFICES ASSUME Init PROVE IInv
  OBVIOUS
<1> USE ConstantsAssumption DEF Off, None
<1>1. TypeOK
  <2>1. isRunningProcess \in BOOLEAN /\ asSoonAsPossible \in BOOLEAN /\ urgent \in BOOLEAN
    BY DEF Init
  <2>2. promiseOf \in [1..MaxCalls -> 0..(MaxCalls + 1)]
    BY DEF Init
  <2> QED
    BY <2>1, <2>2 DEF Init, TypeOK
<1>2. RunExact /\ TimerExact /\ TimerThrottles
  BY DEF Init, RunExact, TimerExact, TimerThrottles
<1>3. NumbersInOrder /\ PromisesAreKept
  BY DEF Init, NumbersInOrder, PromisesAreKept
<1> QED
  BY <1>1, <1>2, <1>3 DEF IInv

(* A call sets the timer, shortens it, or leaves it to the run under way. *)
LEMMA ScheduleStep ==
    ASSUME IInv, NEW wanted \in BOOLEAN, Schedule(wanted)
    PROVE  IInv'
<1> USE ConstantsAssumption DEF Off, None
<1>1. /\ calls < MaxCalls /\ calls' = calls + 1 /\ process' = calls + 1
      /\ promiseOf' = [promiseOf EXCEPT ![calls + 1] = schedulePromise]
      /\ urgent' = (urgent \/ wanted)
      /\ UNCHANGED <<isRunningProcess, sinceComplete, schedulePromise, running, settling,
                     completed, resolved>>
  BY DEF Schedule
<1> DEFINE asap == wanted \/ (~(processTimeout # Off \/ isRunningProcess) /\ sinceComplete > Timeout)
<1>2. /\ asSoonAsPossible' = (asSoonAsPossible \/ asap)
      /\ processTimeout' = IF isRunningProcess
                              \/ (processTimeout # Off /\ ~(asap /\ ~asSoonAsPossible))
                           THEN processTimeout
                           ELSE IF asSoonAsPossible' THEN 0 ELSE Timeout
  BY DEF Schedule, InnerSchedule
<1>3. /\ calls \in 0..MaxCalls /\ promiseOf \in [1..MaxCalls -> 0..(MaxCalls + 1)]
      /\ schedulePromise \in 1..(MaxCalls + 1) /\ processTimeout \in {Off} \cup 0..Timeout
      /\ asSoonAsPossible \in BOOLEAN /\ urgent \in BOOLEAN /\ isRunningProcess \in BOOLEAN
      /\ sinceComplete \in 0..(Timeout + 1) /\ process \in 0..MaxCalls
  BY DEF IInv, TypeOK
<1>4. /\ promiseOf'[calls + 1] = schedulePromise
      /\ \A c \in 1..calls : promiseOf'[c] = promiseOf[c]
      /\ promiseOf' \in [1..MaxCalls -> 0..(MaxCalls + 1)]
  BY <1>1, <1>3
<1>5. TypeOK'
  BY <1>1, <1>2, <1>3, <1>4 DEF IInv, TypeOK
<1>6. RunExact'
  BY <1>1, <1>2, <1>3 DEF IInv, RunExact
<1>7. TimerExact'
  BY <1>1, <1>2, <1>3 DEF IInv, TimerExact
<1>8. TimerThrottles'
  BY <1>1, <1>2, <1>3 DEF IInv, TimerExact, TimerThrottles
<1>9. NumbersInOrder'
  BY <1>1, <1>3, <1>4 DEF IInv, NumbersInOrder, TypeOK
<1>10. PromisesAreKept'
  <2> SUFFICES ASSUME NEW c \in 1..calls'
               PROVE  /\ promiseOf'[c] = schedulePromise' => process' # None /\ c <= process'
                      /\ \A r \in running' : promiseOf'[c] = r.promise => c <= r.call
                      /\ promiseOf'[c] \in settling' \cup resolved' => \E d \in completed' : d >= c
    BY DEF PromisesAreKept
  <2>1. CASE c = calls + 1
    BY <1>1, <1>3, <1>4, <2>1 DEF IInv, NumbersInOrder, TypeOK
  <2>2. CASE c \in 1..calls
    BY <1>1, <1>3, <1>4, <2>2 DEF IInv, PromisesAreKept
  <2> QED
    BY <1>1, <1>3, <2>1, <2>2
<1> QED
  BY <1>5, <1>6, <1>7, <1>8, <1>9, <1>10 DEF IInv

(* The timer fires: the last process starts, with the promise of this moment. *)
LEMMA TimeoutStep ==
    ASSUME IInv, OnTimeout
    PROVE  IInv'
<1> USE ConstantsAssumption DEF Off, None
<1>1. /\ processTimeout = 0 /\ processTimeout' = Off
      /\ asSoonAsPossible' = FALSE /\ isRunningProcess' = TRUE /\ urgent' = FALSE
      /\ running' = running \cup {[call |-> process, promise |-> schedulePromise]}
      /\ schedulePromise' = schedulePromise + 1 /\ process' = None
      /\ UNCHANGED <<sinceComplete, settling, calls, promiseOf, completed, resolved>>
  BY DEF OnTimeout
<1>2. /\ process \in 1..MaxCalls /\ schedulePromise \in 1..MaxCalls /\ calls \in 0..MaxCalls
      /\ process <= calls /\ schedulePromise <= calls
      /\ running = {} /\ ~isRunningProcess
  BY <1>1 DEF IInv, TypeOK, RunExact, NumbersInOrder
<1>3. running' = {[call |-> process, promise |-> schedulePromise]}
  BY <1>1, <1>2
<1>4. TypeOK'
  <2>1. isRunningProcess' \in BOOLEAN /\ asSoonAsPossible' \in BOOLEAN /\ urgent' \in BOOLEAN
    BY <1>1
  <2>2. running' \subseteq [call: 1..MaxCalls, promise: 1..MaxCalls]
    BY <1>2, <1>3
  <2>3. /\ process' = 0 /\ processTimeout' = -1 /\ schedulePromise' \in 1..(MaxCalls + 1)
        /\ UNCHANGED <<sinceComplete, settling, calls, promiseOf, completed, resolved>>
    BY <1>1, <1>2
  <2> QED
    BY <2>1, <2>2, <2>3 DEF IInv, TypeOK
<1>5. RunExact' /\ TimerExact' /\ TimerThrottles'
  BY <1>1, <1>3 DEF RunExact, TimerExact, TimerThrottles
<1>6. NumbersInOrder'
  BY <1>1, <1>2, <1>3 DEF IInv, NumbersInOrder, TypeOK
<1>7. PromisesAreKept'
  BY <1>1, <1>2, <1>3 DEF IInv, NumbersInOrder, PromisesAreKept, TypeOK
<1> QED
  BY <1>4, <1>5, <1>6, <1>7 DEF IInv

(* The run ends, and what was scheduled meanwhile gets its timer. *)
LEMMA CompletedStep ==
    ASSUME IInv, NEW r \in running, ProcessCompleted(r)
    PROVE  IInv'
<1> USE ConstantsAssumption DEF Off, None
<1>1. /\ running' = running \ {r} /\ completed' = completed \cup {r.call}
      /\ settling' = settling \cup {r.promise}
      /\ sinceComplete' = 0 /\ isRunningProcess' = FALSE
      /\ UNCHANGED <<process, asSoonAsPossible, schedulePromise, calls, promiseOf, resolved, urgent>>
  BY DEF ProcessCompleted
<1>2. running' = {} /\ isRunningProcess /\ processTimeout = Off
  BY <1>1 DEF IInv, RunExact
<1>3. processTimeout' = IF process = None THEN Off ELSE IF asSoonAsPossible THEN 0 ELSE Timeout
  BY <1>2 DEF ProcessCompleted, InnerSchedule
<1>4. r.call \in 1..MaxCalls /\ r.promise \in 1..MaxCalls
  BY DEF IInv, TypeOK
<1>5. TypeOK'
  <2>1. isRunningProcess' \in BOOLEAN /\ asSoonAsPossible' \in BOOLEAN /\ urgent' \in BOOLEAN
    BY <1>1 DEF IInv, TypeOK
  <2>2. /\ running' \subseteq [call: 1..MaxCalls, promise: 1..MaxCalls]
        /\ completed' \subseteq 1..MaxCalls /\ settling' \subseteq 1..MaxCalls
    BY <1>1, <1>4 DEF IInv, TypeOK
  <2>3. /\ processTimeout' \in {Off} \cup 0..Timeout
        /\ processTimeout' # Off => process' # None
        /\ sinceComplete' \in 0..(Timeout + 1)
    BY <1>1, <1>3
  <2> QED
    BY <1>1, <2>1, <2>2, <2>3 DEF IInv, TypeOK
<1>6. RunExact' /\ TimerExact'
  BY <1>1, <1>2, <1>3 DEF IInv, TypeOK, RunExact, TimerExact
<1>7. TimerThrottles'
  BY <1>1, <1>2, <1>3 DEF IInv, TypeOK, TimerThrottles
<1>8. NumbersInOrder'
  BY <1>1, <1>2, <1>4 DEF IInv, TypeOK, NumbersInOrder
<1>9. PromisesAreKept'
  <2> SUFFICES ASSUME NEW c \in 1..calls
               PROVE  /\ promiseOf[c] = schedulePromise => process # None /\ c <= process
                      /\ promiseOf[c] \in settling' \cup resolved => \E d \in completed' : d >= c
    BY <1>1, <1>2 DEF PromisesAreKept
  <2>1. promiseOf[c] = schedulePromise => process # None /\ c <= process
    BY DEF IInv, PromisesAreKept
  <2>2. promiseOf[c] \in settling \cup resolved => \E d \in completed' : d >= c
    BY <1>1 DEF IInv, PromisesAreKept
  <2>3. promiseOf[c] = r.promise => r.call >= c
    BY <1>4 DEF IInv, TypeOK, PromisesAreKept
  <2> QED
    BY <1>1, <2>1, <2>2, <2>3
<1> QED
  BY <1>5, <1>6, <1>7, <1>8, <1>9 DEF IInv

(* A promise whose run is complete is resolved. *)
LEMMA ResolveStep ==
    ASSUME IInv, NEW p \in settling, ScheduleResolve(p)
    PROVE  IInv'
<1>1. /\ settling' = settling \ {p} /\ resolved' = resolved \cup {p}
      /\ settling' \cup resolved' = settling \cup resolved
      /\ UNCHANGED <<process, processTimeout, isRunningProcess, asSoonAsPossible, sinceComplete,
                     schedulePromise, running, calls, promiseOf, completed, urgent>>
  BY DEF ScheduleResolve
<1>2. TypeOK'
  BY <1>1 DEF IInv, TypeOK
<1>3. RunExact' /\ TimerExact' /\ TimerThrottles'
  BY <1>1 DEF IInv, RunExact, TimerExact, TimerThrottles
<1>4. NumbersInOrder' /\ PromisesAreKept'
  BY <1>1 DEF IInv, NumbersInOrder, PromisesAreKept
<1> QED
  BY <1>2, <1>3, <1>4 DEF IInv

(* Time passes: what the timer loses, the time since the last run gains. *)
LEMMA TickStep ==
    ASSUME IInv, Tick
    PROVE  IInv'
<1> USE ConstantsAssumption DEF Off, None
<1>1. /\ sinceComplete' = IF sinceComplete > Timeout THEN sinceComplete ELSE sinceComplete + 1
      /\ processTimeout' = IF processTimeout > 0 THEN processTimeout - 1 ELSE processTimeout
      /\ UNCHANGED <<process, isRunningProcess, asSoonAsPossible, schedulePromise, running,
                     settling, calls, promiseOf, completed, resolved, urgent>>
  BY DEF Tick
<1>2. processTimeout \in {Off} \cup 0..Timeout /\ sinceComplete \in 0..(Timeout + 1)
  BY DEF IInv, TypeOK
<1>3. /\ processTimeout' \in {Off} \cup 0..Timeout /\ sinceComplete' \in 0..(Timeout + 1)
      /\ processTimeout' = Off <=> processTimeout = Off
      /\ processTimeout = 0 => processTimeout' = 0
  BY <1>1, <1>2
<1>4. processTimeout # Off /\ processTimeout + sinceComplete >= Timeout
          => processTimeout' + sinceComplete' >= Timeout
  BY <1>1, <1>2
<1>5. TypeOK'
  BY <1>1, <1>3 DEF IInv, TypeOK
<1>6. RunExact' /\ TimerExact'
  BY <1>1, <1>3 DEF IInv, RunExact, TimerExact
<1>7. TimerThrottles'
  BY <1>1, <1>3, <1>4 DEF IInv, TimerThrottles
<1>8. NumbersInOrder' /\ PromisesAreKept'
  BY <1>1 DEF IInv, NumbersInOrder, PromisesAreKept
<1> QED
  BY <1>5, <1>6, <1>7, <1>8 DEF IInv

(* A step that changes nothing. *)
LEMMA StutterStep == IInv /\ UNCHANGED vars => IInv'
BY DEF vars, IInv, TypeOK, RunExact, TimerExact, TimerThrottles, NumbersInOrder, PromisesAreKept

LEMMA InvNext == IInv /\ [Next]_vars => IInv'
BY ScheduleStep, TimeoutStep, CompletedStep, ResolveStep, TickStep, StutterStep DEF Next

\* The inductive invariant of the throttler.
THEOREM Invariance == SafeSpec => []IInv
BY InvInit, InvNext, PTL DEF SafeSpec

\* At most one element, at most one in number.
LEMMA AtMostOne ==
    ASSUME NEW S, \A r, s \in S : r = s
    PROVE  Cardinality(S) <= 1
<1>1. CASE S = {}
  BY <1>1, FS_EmptySet
<1>2. CASE S # {}
  <2> PICK r \in S : TRUE
    BY <1>2
  <2>1. S = {r}
    OBVIOUS
  <2> QED
    BY <2>1, FS_Singleton
<1> QED
  BY <1>1, <1>2

\* The fields of the throttler agree: one run at a time (_isRunningProcess), and a
\* timer that an urgent call has shortened (_innerSchedule).
THEOREM FieldsAgree == SafeSpec => []Consistent
<1>1. IInv => Consistent
  <2> SUFFICES ASSUME IInv PROVE Consistent
    OBVIOUS
  <2>1. OneAtATime
    BY AtMostOne DEF IInv, RunExact, OneAtATime
  <2> QED
    BY <2>1 DEF IInv, TimerExact, UrgentIsDue, Consistent
<1> QED
  BY <1>1, Invariance, PTL

\* A caller of schedule() whose promise is resolved knows that its process, or one
\* scheduled later, has run (_onTimeout, _scheduleResolve).
THEOREM PromisesTellTheTruth == SafeSpec => []ResolvedMeansRan
<1>1. IInv => ResolvedMeansRan
  BY DEF IInv, PromisesAreKept, ResolvedMeansRan
<1> QED
  BY <1>1, Invariance, PTL

\* A process starts within the timeout after the last run only if a call since the
\* last start asked for it (_innerSchedule, _onTimeout).
THEOREM RunsAreThrottled == SafeSpec => Throttled
<1>1. IInv /\ [Next]_vars => [OnTimeout => urgent \/ sinceComplete >= Timeout]_vars
  <2> SUFFICES ASSUME IInv, OnTimeout
               PROVE  urgent \/ sinceComplete >= Timeout
    OBVIOUS
  <2> QED
    BY ConstantsAssumption DEF IInv, TypeOK, TimerThrottles, OnTimeout, Off
<1> QED
  BY <1>1, Invariance, PTL DEF SafeSpec, Throttled
================================================================================
