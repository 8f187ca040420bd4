------------------------------ MODULE TargetManager ------------------------------
(*****************************************************************************)
(* sdk/SDKModel.js: the TargetManager keeps the targets, suspends and        *)
(* resumes them together, and tells observers and listeners of the models    *)
(* that the targets create.                                                  *)
(*                                                                           *)
(* Target.suspend and Target.resume are asynchronous and have two phases:    *)
(* preSuspendModel on every model, then suspendModel; resumeModel, then      *)
(* postResumeModel.  The first phase runs in the caller's turn; the second   *)
(* is an action of its own, and in between anything may happen.  Callers     *)
(* need not wait for either (profiler/CPUProfileView.js does not).           *)
(*****************************************************************************)
EXTENDS Integers

CONSTANTS Targets, Models,
          Supports,      \* target -> the model classes its capabilities allow
          Autostart,     \* the classes createModels always creates
          Observers,     \* arguments of observeModels
          Listeners,     \* arguments of addModelListener
          ClassOf,       \* observer or listener -> the model class it is for
          MaxPasses      \* bound: suspensions and resumptions under way on a target

ASSUME ConstantsAssumption ==
    /\ Supports \in [Targets -> SUBSET Models]
    /\ Autostart \subseteq Models
    /\ ClassOf \in [Observers \cup Listeners -> Models]
    /\ Observers \cap Listeners = {}
    /\ MaxPasses \in Nat

VARIABLES isSuspended,   \* of the manager
          targets,       \* the manager's _targets
          disposed,      \* targets that were created and disposed of
          suspended,     \* _isSuspended of each target
          models,        \* target -> keys of its _modelByConstructor
          active,        \* target -> its models that were not suspended, or resumed since
          suspending,    \* target -> suspend() calls that have yet to call suspendModel
          resuming,      \* target -> resume() calls that have yet to call postResumeModel
          observing, listening,
          told,          \* observer -> target -> modelAdded minus modelRemoved it was sent
          hears,         \* listener -> target -> times it is added to the target's model
          late,          \* history: target -> models it created after it was removed
          overlapped     \* history: targets suspended or resumed with an earlier pass under way

suspendVars == <<isSuspended, suspended, suspending, resuming, overlapped>>
modelVars == <<targets, disposed, models, observing, listening, told, hears, late>>
vars == <<suspendVars, active, modelVars>>

Init == /\ isSuspended = FALSE
        /\ targets = {} /\ disposed = {}
        /\ suspended = [t \in Targets |-> FALSE]
        /\ models = [t \in Targets |-> {}]
        /\ active = [t \in Targets |-> {}]
        /\ suspending = [t \in Targets |-> 0]
        /\ resuming = [t \in Targets |-> 0]
        /\ observing = {} /\ listening = {}
        /\ told = [o \in Observers |-> [t \in Targets |-> 0]]
        /\ hears = [l \in Listeners |-> [t \in Targets |-> 0]]
        /\ late = [t \in Targets |-> {}]
        /\ overlapped = {}

Observed == {ClassOf[o] : o \in observing}
Listened == {ClassOf[l] : l \in listening}

--------------------------------------------------------------------------------
(* Targets and models. *)

\* How often each of `audience` (observers or listeners) counts each target,
\* after `change` for those of `whom` whose class is among News[t].
Count(counts, whom, News, change) ==
    [o \in DOMAIN counts |-> [t \in Targets |->
        IF o \in whom /\ ClassOf[o] \in News[t] THEN counts[o][t] + change ELSE counts[o][t]]]

Only(t, classes) == [u \in Targets |-> IF u = t THEN classes ELSE {}]

\* The models of News are created; those of a suspended target start suspended.
CreateModels(News) ==
    /\ models' = [t \in Targets |-> models[t] \cup News[t]]
    /\ active' = [t \in Targets |-> IF suspended[t] THEN active[t] ELSE active[t] \cup News[t]]

\* Variant: the classes that only a listener asked for are not created.
CreateTargetAutostartOnly(t) ==
    /\ t \notin targets \cup disposed
    /\ targets' = targets \cup {t}
    /\ suspended' = [suspended EXCEPT ![t] = isSuspended]
    /\ LET created == Only(t, (Autostart \cup Observed) \cap Supports[t])
       IN  /\ models' = [u \in Targets |-> models[u] \cup created[u]]
           /\ active' = IF isSuspended THEN active ELSE [active EXCEPT ![t] = created[t]]
           /\ told' = Count(told, observing, created, 1)
           /\ hears' = Count(hears, listening, created, 1)
    /\ UNCHANGED <<isSuspended, disposed, suspending, resuming, observing, listening, late, overlapped>>

\* Variant: a target is created as if nothing were suspended.
CreateTargetActive(t) ==
    /\ t \notin targets \cup disposed
    /\ targets' = targets \cup {t}
    /\ LET created == Only(t, (Autostart \cup Observed \cup Listened) \cap Supports[t])
       IN  /\ models' = [u \in Targets |-> models[u] \cup created[u]]
           /\ active' = [active EXCEPT ![t] = created[t]]
           /\ told' = Count(told, observing, created, 1)
           /\ hears' = Count(hears, listening, created, 1)
    /\ UNCHANGED <<isSuspended, suspended, disposed, suspending, resuming, observing, listening,
                   late, overlapped>>

\* createTarget: the target's models are created, autostarted or observed;
\* observers are told of them; listeners are added, and a class that only has
\* listeners is created for them.
CreateTarget(t) ==
    /\ t \notin targets \cup disposed
    /\ targets' = targets \cup {t}
    /\ suspended' = [suspended EXCEPT ![t] = isSuspended]
    /\ LET created == Only(t, (Autostart \cup Observed \cup Listened) \cap Supports[t])
       IN  /\ models' = [u \in Targets |-> models[u] \cup created[u]]
           /\ active' = IF isSuspended THEN active ELSE [active EXCEPT ![t] = created[t]]
           /\ told' = Count(told, observing, created, 1)
           /\ hears' = Count(hears, listening, created, 1)
    /\ UNCHANGED <<isSuspended, disposed, suspending, resuming, observing, listening, late, overlapped>>

\* Target.model: a model is created when it is first asked for, by whoever
\* holds the target, also after it was disposed of.
Model(t, m) ==
    /\ t \in targets \cup disposed
    /\ m \in Supports[t] \ models[t]
    /\ CreateModels(Only(t, {m}))
    /\ told' = Count(told, observing, Only(t, {m}), 1)
    /\ late' = IF t \in targets THEN late ELSE [late EXCEPT ![t] = @ \cup {m}]
    /\ UNCHANGED <<suspendVars, targets, disposed, observing, listening, hears>>

\* Variant: removeTarget does not look whether the target is still there.
DisposeAgain(t) ==
    /\ t \in targets \cup disposed
    /\ targets' = targets \ {t}
    /\ disposed' = disposed \cup {t}
    /\ told' = Count(told, observing, Only(t, models[t]), -1)
    /\ hears' = Count(hears, listening, Only(t, models[t]), -1)
    /\ UNCHANGED <<suspendVars, active, models, observing, listening, late>>

\* Target.dispose and removeTarget.  The target keeps its models, disposed of.
Dispose(t) ==
    /\ t \in targets
    /\ targets' = targets \ {t}
    /\ disposed' = disposed \cup {t}
    /\ told' = Count(told, observing, Only(t, models[t]), -1)
    /\ hears' = Count(hears, listening, Only(t, models[t]), -1)
    /\ UNCHANGED <<suspendVars, active, models, observing, listening, late>>

--------------------------------------------------------------------------------
(* Observers and listeners. *)

Missing(m) == [t \in Targets |-> IF t \in targets THEN ({m} \cap Supports[t]) \ models[t] ELSE {}]
Present(m) == [t \in Targets |-> IF t \in targets THEN {m} \cap Supports[t] ELSE {}]

\* Variant: the observer is registered before the models are collected.
ObserveModelsEarly(o) ==
    /\ o \notin observing
    /\ CreateModels(Missing(ClassOf[o]))
    /\ told' = Count(Count(told, observing \cup {o}, Missing(ClassOf[o]), 1),
                     {o}, Present(ClassOf[o]), 1)
    /\ observing' = observing \cup {o}
    /\ UNCHANGED <<suspendVars, targets, disposed, listening, hears, late>>

\* models() creates what is missing, of which the other observers of the class
\* are told; the new one is told of all models afterwards.
ObserveModels(o) ==
    /\ o \notin observing
    /\ CreateModels(Missing(ClassOf[o]))
    /\ told' = Count(Count(told, observing, Missing(ClassOf[o]), 1), {o}, Present(ClassOf[o]), 1)
    /\ observing' = observing \cup {o}
    /\ UNCHANGED <<suspendVars, targets, disposed, listening, hears, late>>

\* Whoever stops observing forgets what it was told.
UnobserveModels(o) ==
    /\ o \in observing
    /\ observing' = observing \ {o}
    /\ told' = [told EXCEPT ![o] = [t \in Targets |-> 0]]
    /\ UNCHANGED <<suspendVars, active, targets, disposed, models, listening, hears, late>>

AddModelListener(l) ==
    /\ l \notin listening
    /\ CreateModels(Missing(ClassOf[l]))
    /\ told' = Count(told, observing, Missing(ClassOf[l]), 1)
    /\ hears' = Count(hears, {l}, Present(ClassOf[l]), 1)
    /\ listening' = listening \cup {l}
    /\ UNCHANGED <<suspendVars, targets, disposed, observing, late>>

RemoveModelListener(l) ==
    /\ l \in listening
    /\ CreateModels(Missing(ClassOf[l]))
    /\ told' = Count(told, observing, Missing(ClassOf[l]), 1)
    /\ hears' = Count(hears, {l}, Present(ClassOf[l]), -1)
    /\ listening' = listening \ {l}
    /\ UNCHANGED <<suspendVars, targets, disposed, observing, late>>

--------------------------------------------------------------------------------
(* Suspending and resuming. *)

UnderWay(t) == suspending[t] + resuming[t]

\* suspendAllTargets with the first phase of Target.suspend.
SuspendAllTargets ==
    /\ ~isSuspended
    /\ isSuspended' = TRUE
    /\ LET T == {t \in targets : ~suspended[t]}
       IN  /\ \A t \in T : UnderWay(t) < MaxPasses
           /\ suspended' = [t \in Targets |-> suspended[t] \/ t \in T]
           /\ suspending' = [t \in Targets |-> IF t \in T THEN suspending[t] + 1 ELSE suspending[t]]
           /\ overlapped' = overlapped \cup {t \in T : UnderWay(t) > 0}
    /\ UNCHANGED <<resuming, active, modelVars>>

\* The second phase: suspendModel on the models the target has by now.
SuspendModels(t) ==
    /\ suspending[t] > 0
    /\ suspending' = [suspending EXCEPT ![t] = @ - 1]
    /\ active' = [active EXCEPT ![t] = {}]
    /\ UNCHANGED <<isSuspended, suspended, resuming, overlapped, modelVars>>

\* Variant: resuming leaves the models to the second phase.
ResumeAllTargetsLate ==
    /\ isSuspended
    /\ isSuspended' = FALSE
    /\ LET T == {t \in targets : suspended[t]}
       IN  /\ \A t \in T : UnderWay(t) < MaxPasses
           /\ suspended' = [t \in Targets |-> suspended[t] /\ t \notin T]
           /\ resuming' = [t \in Targets |-> IF t \in T THEN resuming[t] + 1 ELSE resuming[t]]
           /\ overlapped' = overlapped \cup {t \in T : UnderWay(t) > 0}
    /\ UNCHANGED <<suspending, active, modelVars>>

\* resumeAllTargets with the first phase of Target.resume: resumeModel.
ResumeAllTargets ==
    /\ isSuspended
    /\ isSuspended' = FALSE
    /\ LET T == {t \in targets : suspended[t]}
       IN  /\ \A t \in T : UnderWay(t) < MaxPasses
           /\ suspended' = [t \in Targets |-> suspended[t] /\ t \notin T]
           /\ active' = [t \in Targets |-> IF t \in T THEN models[t] ELSE active[t]]
           /\ resuming' = [t \in Targets |-> IF t \in T THEN resuming[t] + 1 ELSE resuming[t]]
           /\ overlapped' = overlapped \cup {t \in T : UnderWay(t) > 0}
    /\ UNCHANGED <<suspending, modelVars>>

\* The second phase: postResumeModel.
PostResumeModels(t) ==
    /\ resuming[t] > 0
    /\ resuming' = [resuming EXCEPT ![t] = @ - 1]
    /\ UNCHANGED <<isSuspended, suspended, suspending, overlapped, active, modelVars>>

Next == \/ \E t \in Targets : \/ CreateTarget(t) \/ Dispose(t)
                              \/ SuspendModels(t) \/ PostResumeModels(t)
                              \/ \E m \in Models : Model(t, m)
        \/ \E o \in Observers : ObserveModels(o) \/ UnobserveModels(o)
        \/ \E l \in Listeners : AddModelListener(l) \/ RemoveModelListener(l)
        \/ SuspendAllTargets \/ ResumeAllTargets

SafeSpec == Init /\ [][Next]_vars

\* The models' promises are fulfilled, after which the second phase runs.
Fairness == \A t \in Targets : WF_vars(SuspendModels(t)) /\ WF_vars(PostResumeModels(t))

Spec == SafeSpec /\ Fairness

--------------------------------------------------------------------------------
(* Properties. *)

\* Every variable has its shape.
TypeOK ==
    /\ isSuspended \in BOOLEAN
    /\ targets \subseteq Targets /\ disposed \subseteq Targets /\ overlapped \subseteq Targets
    /\ suspended \in [Targets -> BOOLEAN]
    /\ models \in [Targets -> SUBSET Models]
    /\ active \in [Targets -> SUBSET Models]
    /\ suspending \in [Targets -> Nat] /\ resuming \in [Targets -> Nat]
    /\ observing \subseteq Observers /\ listening \subseteq Listeners
    /\ told \in [Observers -> [Targets -> Nat]]
    /\ hears \in [Listeners -> [Targets -> Nat]]
    /\ late \in [Targets -> SUBSET Models]

Has(t, m) == IF m \in models[t] THEN 1 ELSE 0

\* An observer knows each model of its class once, whoever had it created and
\* whenever the observer came; of a target that was removed it knows nothing,
\* but for a model the target created afterwards, which is never taken back.
ObserversKnowModels ==
    \A o \in observing, t \in Targets :
        IF t \in targets THEN told[o][t] = Has(t, ClassOf[o])
        ELSE told[o][t] = 0 \/ (told[o][t] = 1 /\ ClassOf[o] \in late[t])

\* A listener is on every model of its class of every target, exactly once, and
\* on no model of a target that was removed: no model of its class is ever
\* created without it.
ListenersHearModels ==
    \A l \in listening, t \in Targets :
        hears[l][t] = IF t \in targets /\ ClassOf[l] \in Supports[t] THEN 1 ELSE 0

\* With no pass under way, and none started while another was, the models of a
\* target are suspended if and only if the manager says so: also the models and
\* the targets created while the others were being suspended or resumed.
ModelsFollow ==
    \A t \in targets \ overlapped :
        /\ isSuspended /\ UnderWay(t) = 0 => active[t] = {}
        /\ ~isSuspended => active[t] = models[t]

\* preSuspendModel is called while all models are active, and postResumeModel
\* too, unless a pass was started while another was under way.
PhasesInOrder ==
    [][\A t \in Targets \ overlapped' :
           (suspending'[t] > suspending[t] \/ resuming'[t] < resuming[t])
               => active[t] = models[t]]_vars

\* postResumeModel does what requires "all models already in an unsuspended state".
PostResumeSeesActiveModels ==
    [][\A t \in Targets : resuming'[t] < resuming[t] => active[t] = models[t]]_vars

\* A suspension that nobody takes back reaches every model.
SuspensionCompletes ==
    \A t \in Targets :
        (t \in targets /\ isSuspended) ~> (active[t] = {} \/ ~isSuspended \/ t \notin targets)
================================================================================
