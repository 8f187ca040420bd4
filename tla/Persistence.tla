------------------------------ MODULE Persistence ------------------------------
(*****************************************************************************)
(* persistence/Automapping.js and persistence/PersistenceImpl.js: a script   *)
(* of the page and a file of the workspace are found to be the same, bound,  *)
(* and parted, while both are edited, saved and changed outside              *)
(* (UISourceCode).                                                           *)
(*                                                                           *)
(* Finding, validating, binding and parting are promises: attempts are       *)
(* numbered, and each has turns of its own.  What the metadata of the files  *)
(* say is left open, and interceptors do not take the script.                *)
(*****************************************************************************)
EXTENDS UISourceCode

CONSTANT MaxAttempts       \* bound: attempts to bind

ASSUME AttemptsAssumption == MaxAttempts \in Nat \ {0}

Attempts == 1 .. MaxAttempts
Pending == "pending"   \* what a promise is still to give

VARIABLES fromSourceMap,     \* the script comes from a source map
          stage,             \* what the attempt waits for
          fileText,          \* the content of the file that it validates
          processing,        \* the attempt of _sourceCodeToProcessingPromiseMap, or 0
          sweepScheduled,    \* the throttled sweep is to come
          late               \* history: a file bound after it was removed

mapVars == <<fromSourceMap, stage, fileText, processing, sweepScheduled, late>>
vars == <<fileVars, mapVars>>

Init ==
    /\ FilesInit
    /\ fromSourceMap \in BOOLEAN
    /\ stage = [i \in Attempts |-> "new"]
    /\ fileText = [i \in Attempts |-> None]
    /\ processing = 0
    /\ sweepScheduled = TRUE
    /\ late = FALSE

--------------------------------------------------------------------------------
(* Automapping. *)

\* _computeNetworkStatus of the throttled sweep.
Sweep ==
    /\ sweepScheduled /\ sweepScheduled' = FALSE
    /\ IF Network \in present /\ processing = 0 /\ bound = 0
       THEN \E i \in Attempts :
                /\ stage[i] = "new" /\ \A j \in 1 .. i - 1 : stage[j] # "new"
                /\ stage' = [stage EXCEPT ![i] = "locating"]
                /\ processing' = i
       ELSE UNCHANGED <<stage, processing>>
    /\ UNCHANGED <<fileVars, fromSourceMap, fileText, late>>

\* onStatus without a status: only the attempt that counts gives way.
GiveUp(i) ==
    /\ stage' = [stage EXCEPT ![i] = "over"]
    /\ processing' = IF processing = i THEN 0 ELSE processing
    /\ UNCHANGED <<forceLoad, bound, late>>

\* onStatus with a status, and _innerAddBinding up to its await.
Bind(i) ==
    /\ stage' = [stage EXCEPT ![i] = "adding"]
    /\ processing' = 0
    /\ bound' = i
    /\ forceLoad' = TRUE
    /\ late' = (late \/ File \notin present)

BothTouched == IsDirty(File) /\ (IsDirty(Network) \/ commits[Network])

\* The file was found, or not: validateStatus up to its await.  _createBinding picks
\* the file before it waits for the metadata: one removed in between is bound as well,
\* as is one that is removed later (`late`); here it is given up.
Located(i) ==
    /\ stage[i] = "locating"
    /\ \/ /\ GiveUp(i)
          /\ UNCHANGED <<requesting, operations, fileText>>
       \/ /\ File \in present /\ processing = i /\ fromSourceMap
          /\ Bind(i)
          /\ UNCHANGED <<requesting, operations, fileText>>
       \/ /\ File \in present /\ processing = i /\ ~fromSourceMap /\ ~BothTouched
          /\ stage' = [stage EXCEPT ![i] = "reading"]
          /\ fileText' = [fileText EXCEPT ![i] = IF loaded THEN content[File] ELSE Pending]
          /\ requesting' = (requesting \/ ~loaded)
          /\ operations' = WithRequest
          /\ UNCHANGED <<processing, forceLoad, bound, late>>
    /\ UNCHANGED <<texts, loaded, checking, accepted, disk, changed, dialogs, diff, present, lapses,
                   apart, events, fromSourceMap, sweepScheduled>>

\* Those that validate wait for the same request.
FileLoaded ==
    /\ ContentLoaded
    /\ fileText' = [i \in Attempts |-> IF fileText[i] = Pending THEN content'[File] ELSE fileText[i]]
    /\ UNCHANGED <<fromSourceMap, stage, processing, sweepScheduled, late>>

\* Variant: an attempt that was called off is not noticed.
ValidatedUnlooked(i) ==
    /\ stage[i] = "reading" /\ fileText[i] # Pending
    /\ IF fileText[i] = Original THEN Bind(i) ELSE GiveUp(i)
    /\ fileText' = [fileText EXCEPT ![i] = None]
    /\ UNCHANGED <<texts, loading, disk, operations, changed, dialogs, diff, present, lapses, apart,
                   events, fromSourceMap, sweepScheduled>>

\* Both contents are there: the rest of validateStatus, and onStatus.
Validated(i) ==
    /\ stage[i] = "reading" /\ fileText[i] # Pending
    /\ IF processing = i /\ fileText[i] = Original THEN Bind(i) ELSE GiveUp(i)
    /\ fileText' = [fileText EXCEPT ![i] = None]
    /\ UNCHANGED <<texts, loading, disk, operations, changed, dialogs, diff, present, lapses, apart,
                   events, fromSourceMap, sweepScheduled>>

\* _clearNetworkStatus of the script; of _innerRemoveBinding, what comes after its
\* await only tells listeners.
ClearNetworkStatus ==
    IF processing # 0 THEN processing' = 0 /\ bound' = bound
                      ELSE processing' = 0 /\ bound' = 0

\* scheduleRemap, when folders or interceptors were added.
ScheduleRemap ==
    /\ Event
    /\ \E i \in Attempts : stage[i] = "new"
    /\ bound' = 0
    /\ sweepScheduled' = TRUE
    /\ UNCHANGED <<texts, loading, forceLoad, disk, operations, changed, dialogs, diff, present,
                   lapses, apart, fromSourceMap, stage, fileText, processing, late>>

\* A navigation removes the script.
RemoveNetwork ==
    /\ Event
    /\ Network \in present /\ present' = present \ {Network}
    /\ ClearNetworkStatus
    /\ modified' = FALSE
    /\ comparing' = {[p EXCEPT !.current = FALSE] : p \in comparing}
    /\ UNCHANGED <<texts, loading, forceLoad, disk, operations, changed, dialogs, lapses, apart,
                   fromSourceMap, stage, fileText, sweepScheduled, late>>

\* The file is deleted or its folder removed: an attempt under way goes on.
RemoveFile ==
    /\ Event
    /\ File \in present /\ present' = present \ {File}
    /\ bound' = 0
    /\ UNCHANGED <<texts, loading, forceLoad, disk, operations, changed, dialogs, diff, lapses, apart,
                   fromSourceMap, stage, fileText, processing, sweepScheduled, late>>

--------------------------------------------------------------------------------
(* PersistenceImpl. *)

\* Variant: what was committed before is not carried over.
SourceOfDirty == IF IsDirty(File) THEN {File} ELSE IF IsDirty(Network) THEN {Network} ELSE {}

\* The side whose working copy the other takes when they are bound, if any.
Source == IF IsDirty(File) THEN {File}
          ELSE IF IsDirty(Network) \/ (commits[Network] /\ Text(Network) # Text(File)) THEN {Network}
          ELSE {}

\* _innerAddBinding after its await, whatever became of the binding: a script with
\* commits gets a working copy, and the other side a getter if the two are bound.
Added(i) ==
    /\ stage[i] = "adding"
    /\ stage' = [stage EXCEPT ![i] = "over"]
    /\ working' = IF Source = {Network} /\ ~IsDirty(Network)
                  THEN [working EXCEPT ![Network] = Text(Network)] ELSE working
    /\ follows' = [c \in Codes |-> follows[c] \/ (bound # 0 /\ Other(c) \in Source)]
    /\ IF Source = {} \/ (bound = 0 /\ working' = working) THEN UNCHANGED diff ELSE UpdateModifiedState
    /\ apart' = (bound # 0 /\ content[Network] # content[File] /\ (~commits[Network] \/ ~loaded))
    /\ UNCHANGED <<content, commits, loading, forceLoad, disk, operations, changed, dialogs, bound,
                   present, lapses, events, fromSourceMap, fileText, processing, sweepScheduled,
                   late>>

Next ==
    \/ FilesNext /\ UNCHANGED mapVars
    \/ FileLoaded
    \/ Sweep \/ ScheduleRemap \/ RemoveNetwork \/ RemoveFile
    \/ \E i \in Attempts : Located(i) \/ Validated(i) \/ Added(i)

Fairness ==
    /\ WF_vars((ReadFile \/ ReadFails \/ WriteFile \/ WriteFails) /\ UNCHANGED mapVars)
    /\ WF_vars(FileLoaded)
    /\ WF_vars((CheckFailed \/ ContentChecked \/ FileChanged) /\ UNCHANGED mapVars)

SafeSpec == Init /\ [][Next]_vars

Spec == SafeSpec /\ Fairness

--------------------------------------------------------------------------------
(* Properties. *)

\* Every variable has its shape.
TypeOK ==
    /\ FilesTypeOK
    /\ fromSourceMap \in BOOLEAN
    /\ stage \in [Attempts -> {"new", "locating", "reading", "adding", "over"}]
    /\ fileText \in [Attempts -> Contents \cup {None, Pending}]
    /\ processing \in 0 .. MaxAttempts /\ bound \in 0 .. MaxAttempts
    /\ sweepScheduled \in BOOLEAN
    /\ late \in BOOLEAN

\* Once bound, the two are dirty together and have one working copy, and one
\* content if neither is dirty, unless the contents differed when they were bound
\* or a working copy was taken back that stood for a commit, and none was
\* committed since; it is said of those that workingCopy()
\* can be called of at all.
BoundFilesAgree ==
    bound # 0 /\ stage[bound] = "over" /\ ~Circular =>
        /\ IsDirty(Network) <=> IsDirty(File)
        /\ WorkingCopy(Network) = WorkingCopy(File) \/ (~IsDirty(File) /\ apart)

\* A removed script is not bound, whatever was under way when it was removed, nor
\* a removed file but by an attempt that had found it before.
BindingsAreLive == bound # 0 => Network \in present /\ (File \in present \/ late)

\* The state has its shape, and a binding is one of codes that are there.
Consistent == TypeOK /\ BindingsAreLive

\* What was typed into c is neither in its working copy nor in its content any more.
Lost(c) ==
    /\ working[c] # None /\ ~follows[c] /\ ~Circular'
    /\ IsDirty(c)' => WorkingCopy(c)' # working[c]
    /\ content'[c] # working[c]

UserActs ==
    \/ \E c \in Codes, x \in Contents : Edit(c, x)
    \/ \E x \in Contents : AddRevision(x)
    \/ \E c \in Codes : Revert(c)
    \/ Confirm(TRUE)

\* _workingCopy of the file is an older edit that the getter stands in for.
Shadowed == follows[File] /\ working[File] # None

\* Changes that were not saved are only given up by the user, and not by the
\* changes of the disk; but for a binding that is just being made, and for a
\* check that takes an older edit of the file for its working copy.
UnsavedIsKept ==
    [][(\E c \in Codes : Lost(c)) =>
           UserActs \/ Shadowed \/ \E i \in Attempts : stage[i] = "adding"]_vars
================================================================================
