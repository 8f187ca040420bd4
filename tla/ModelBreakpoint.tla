---------------------------- MODULE ModelBreakpoint ----------------------------
(*****************************************************************************)
(* bindings/BreakpointManager.js: how a ModelBreakpoint keeps the breakpoint *)
(* of a debugger in step with what the user wants of a Breakpoint, while the *)
(* debugger is enabled and disabled (DebuggerModel) and the answers to what  *)
(* was asked of it are on their way.                                         *)
(*                                                                           *)
(* An update is a chain of turns: `stage` says for what it waits.  A         *)
(* breakpoint is asked for at one position: the loops over positions and ids *)
(* run once.                                                                 *)
(*****************************************************************************)
EXTENDS DebuggerModel

CONSTANTS Conditions,     \* conditions a user may give the breakpoint
          MaxEdits,       \* bound: changes by the user
          MaxRefreshes    \* bound: calls of refreshInDebugger

ASSUME BreakpointAssumption == Conditions # {} /\ MaxEdits \in Nat /\ MaxRefreshes \in Nat

\* Where a breakpoint is set: in the script its line maps to, or, for want of
\* one, by the URL of the file it was set in.
Places == {"script", "file"}
State == [place: Places, condition: Conditions]
NoState == [place |-> "nowhere"]

VARIABLES enabled, condition, isRemoved,   \* of the Breakpoint
          knownState,          \* its _currentState
          mapped,              \* its line maps to a script the front-end knows
          listening,           \* the listeners of the debugger model are there
          isUpdating, hasPendingUpdate, cancelCallback,
          currentState,        \* _currentState of the ModelBreakpoint
          breakpointId,        \* the place its _breakpointIds stand for, or "nowhere"
          stage,               \* what the update waits for, or "idle"
          asked,               \* the condition the update has read
          breakpoints,         \* the State's that the backend has
          edits, refreshes,    \* history: changes and refreshes so far
          overlapped,          \* history: enabled before a disabling was over
          dropped              \* history: a breakpoint was set and its id dropped

breakpointVars == <<enabled, condition, isRemoved, knownState, mapped, listening, isUpdating,
                    hasPendingUpdate, cancelCallback, currentState, breakpointId, stage, asked,
                    breakpoints, edits, refreshes, overlapped, dropped>>
vars == <<debuggerVars, breakpointVars>>

\* A breakpoint that was made while the debugger was off.
BreakpointInit ==
    /\ Init
    /\ enabled \in BOOLEAN /\ condition \in Conditions /\ isRemoved = FALSE
    /\ knownState = NoState /\ currentState = NoState
    /\ mapped = FALSE
    /\ listening = TRUE
    /\ isUpdating = FALSE /\ hasPendingUpdate = FALSE /\ cancelCallback = FALSE
    /\ breakpointId = "nowhere"
    /\ stage = "idle" /\ asked = condition
    /\ breakpoints = {}
    /\ edits = 0 /\ refreshes = 0
    /\ overlapped = FALSE /\ dropped = FALSE

--------------------------------------------------------------------------------
(* The update loop. *)

\* The first turn of _updateInDebugger reads the condition.
StartUpdate == isUpdating' = TRUE /\ hasPendingUpdate' = FALSE
               /\ stage' = "locating" /\ asked' = condition'

\* Variant: an update that is under way is taken to suffice.
ScheduleUpdateOnce ==
    \/ ~isUpdating /\ StartUpdate
    \/ isUpdating /\ UNCHANGED <<isUpdating, hasPendingUpdate, stage, asked>>

\* _scheduleUpdateInDebugger.
ScheduleUpdate ==
    \/ ~isUpdating /\ StartUpdate
    \/ isUpdating /\ hasPendingUpdate' = TRUE /\ UNCHANGED <<isUpdating, stage, asked>>

\* Variant: an update follows every update.
DidUpdateAgain == StartUpdate

\* The callback of an update: _didUpdateInDebugger.
DidUpdate ==
    \/ hasPendingUpdate /\ StartUpdate
    \/ ~hasPendingUpdate /\ isUpdating' = FALSE /\ stage' = "idle"
       /\ UNCHANGED <<hasPendingUpdate, asked>>

\* _didRemoveFromDebugger, with the flag as it stands.
DidRemoveFromDebugger(cancel) ==
    /\ cancelCallback' = FALSE
    /\ breakpointId' = IF cancel THEN breakpointId ELSE "nowhere"

\* _cleanUpAfterDebuggerIsGone.
CleanUp ==
    /\ currentState' = NoState
    /\ IF breakpointId # "nowhere" THEN DidRemoveFromDebugger(isUpdating \/ cancelCallback)
       ELSE cancelCallback' = (isUpdating \/ cancelCallback) /\ UNCHANGED breakpointId

Ask(message) ==
    /\ toBackend' = Append(toBackend, message)
    /\ UNCHANGED <<debuggerEnabled, debuggerId, registered, paused, expanding, toFrontend,
                   backendEnabled, backendPaused, calls, pauses, crossed, outlived, withholding>>

SetCommand(state) == [kind |-> "set", state |-> state, done |-> FALSE]
RemoveCommand(place, by) == [kind |-> "remove", place |-> place, by |-> by]

\* What the user wants, as far as the front-end can tell where.
NewState ==
    IF isRemoved \/ ~enabled THEN NoState
    ELSE [place |-> IF mapped THEN "script"
                    ELSE IF knownState # NoState THEN knownState.place ELSE "file",
          condition |-> asked]

UpToDate == breakpointId # "nowhere" /\ NewState # NoState /\ NewState = currentState

HasToGo == breakpointId # "nowhere"

\* _updateInDebugger once the location is known: nothing to do; or the old
\* breakpoint has to go first; or there is none to set; or the new one is set.
Located ==
    /\ stage = "locating"
    /\ condition' = condition
    /\ \/ /\ UpToDate
          /\ DidUpdate
          /\ UNCHANGED <<debuggerVars, knownState, currentState>>
       \/ /\ ~UpToDate /\ HasToGo
          /\ knownState' = NewState
          /\ Ask(RemoveCommand(breakpointId, "update"))
          /\ stage' = "removing"
          /\ UNCHANGED <<isUpdating, hasPendingUpdate, asked, currentState>>
       \/ /\ ~UpToDate /\ ~HasToGo /\ NewState = NoState
          /\ knownState' = NewState
          /\ DidUpdate
          /\ UNCHANGED <<debuggerVars, currentState>>
       \/ /\ ~UpToDate /\ ~HasToGo /\ NewState # NoState
          /\ knownState' = NewState /\ currentState' = NewState
          /\ Ask(SetCommand(NewState))
          /\ stage' = "setting"
          /\ UNCHANGED <<isUpdating, hasPendingUpdate, asked>>
    /\ UNCHANGED <<enabled, isRemoved, mapped, listening, cancelCallback, breakpointId,
                   breakpoints, edits, refreshes, overlapped, dropped>>

Answered(kind) == /\ Receive(kind)
                  /\ UNCHANGED <<debuggerEnabled, debuggerId, registered, paused, expanding,
                                 toBackend, outlived, withholding>>

\* The end of _refreshBreakpoint, with that of the update if it was the update's.
\* The update that _refreshBreakpoint schedules starts when the callback is called.
Removed ==
    /\ Answered("remove")
    /\ condition' = condition
    /\ DidRemoveFromDebugger(cancelCallback)
    /\ currentState' = NoState
    /\ IF Head(toFrontend).by = "update" THEN StartUpdate ELSE ScheduleUpdate
    /\ UNCHANGED <<enabled, isRemoved, knownState, mapped, listening, breakpoints, edits,
                   refreshes, overlapped, dropped>>

\* Breakpoint.remove in an update, which schedules another before it ends.
GiveUp == isRemoved' = TRUE /\ listening' = FALSE /\ StartUpdate

\* _didSetBreakpointInDebugger: the answer is not wanted any more; there is no
\* breakpoint, and the Breakpoint is removed; or its locations are resolved,
\* which takes further turns unless there are none.
WasSet ==
    /\ Answered("set")
    /\ condition' = condition
    /\ LET m == Head(toFrontend)
       IN  \/ /\ cancelCallback
              /\ cancelCallback' = FALSE
              /\ dropped' = (dropped \/ m.done)
              /\ DidUpdate
              /\ UNCHANGED <<isRemoved, listening, breakpointId>>
           \/ /\ ~cancelCallback /\ ~m.done
              /\ GiveUp
              /\ UNCHANGED <<cancelCallback, breakpointId, dropped>>
           \/ /\ ~cancelCallback /\ m.done
              /\ breakpointId' = m.state.place
              /\ \/ DidUpdate
                 \/ stage' = "resolving" /\ UNCHANGED <<isUpdating, hasPendingUpdate, asked>>
              /\ UNCHANGED <<isRemoved, listening, cancelCallback, dropped>>
    /\ UNCHANGED <<enabled, knownState, mapped, currentState, breakpoints, edits, refreshes,
                   overlapped>>

\* The locations are resolved; one of another breakpoint makes this one go.
Resolved ==
    /\ stage = "resolving"
    /\ condition' = condition
    /\ \/ DidUpdate /\ UNCHANGED <<isRemoved, listening>>
       \/ GiveUp
    /\ UNCHANGED <<debuggerVars, enabled, knownState, mapped, cancelCallback, currentState,
                   breakpointId, breakpoints, edits, refreshes, overlapped, dropped>>

--------------------------------------------------------------------------------
(* The user, the page and live edits. *)

Edit == edits < MaxEdits /\ edits' = edits + 1

\* _updateState with a change.
UpdateState ==
    /\ ~isRemoved
    /\ Edit
    /\ \/ enabled' = ~enabled /\ UNCHANGED condition
       \/ condition' \in Conditions \ {condition} /\ UNCHANGED enabled
    /\ ScheduleUpdate
    /\ UNCHANGED <<debuggerVars, isRemoved, knownState, mapped, listening, cancelCallback,
                   currentState, breakpointId, breakpoints, refreshes, overlapped, dropped>>

\* Breakpoint.remove.
RemoveBreakpoint ==
    /\ ~isRemoved
    /\ Edit
    /\ condition' = condition
    /\ isRemoved' = TRUE /\ listening' = FALSE
    /\ ScheduleUpdate
    /\ UNCHANGED <<debuggerVars, enabled, knownState, mapped, cancelCallback, currentState,
                   breakpointId, breakpoints, refreshes, overlapped, dropped>>

\* A file is added whose line maps to a script: _restoreBreakpoints.
SourceCodeAdded ==
    /\ ~isRemoved /\ ~mapped /\ debuggerEnabled
    /\ Edit
    /\ condition' = condition
    /\ mapped' = TRUE
    /\ ScheduleUpdate
    /\ UNCHANGED <<debuggerVars, enabled, isRemoved, knownState, listening, cancelCallback,
                   currentState, breakpointId, breakpoints, refreshes, overlapped, dropped>>

\* refreshInDebugger after a live edit.
RefreshInDebugger ==
    /\ ~isRemoved /\ breakpointId # "nowhere"
    /\ refreshes < MaxRefreshes
    /\ refreshes' = refreshes + 1
    /\ Ask(RemoveCommand(breakpointId, "refresh"))
    /\ UNCHANGED <<enabled, condition, isRemoved, knownState, mapped, listening, isUpdating,
                   hasPendingUpdate, cancelCallback, currentState, breakpointId, stage, asked,
                   breakpoints, edits, overlapped, dropped>>

--------------------------------------------------------------------------------
(* The debugger. *)

\* DebuggerWasEnabled is dispatched at once.
EnableAndUpdate ==
    /\ Enable
    /\ overlapped' = (overlapped \/ Disabling)
    /\ condition' = condition
    /\ IF listening THEN ScheduleUpdate
       ELSE UNCHANGED <<isUpdating, hasPendingUpdate, stage, asked>>
    /\ UNCHANGED <<enabled, isRemoved, knownState, mapped, listening, cancelCallback,
                   currentState, breakpointId, breakpoints, edits, refreshes, dropped>>

\* globalObjectCleared and DebuggerWasDisabled at the end of _disableDebugger.
DisabledAndCleanUp ==
    /\ Disabled
    /\ mapped' = FALSE
    /\ IF listening THEN CleanUp ELSE UNCHANGED <<cancelCallback, currentState, breakpointId>>
    /\ UNCHANGED <<enabled, condition, isRemoved, knownState, listening, isUpdating,
                   hasPendingUpdate, stage, asked, breakpoints, edits, refreshes, overlapped, dropped>>

\* A debugger that is disabled forgets its breakpoints.
DebuggerAnswers ==
    /\ BackendAnswers
    /\ breakpoints' = IF Head(toBackend).kind = "disable" THEN {} ELSE breakpoints
    /\ UNCHANGED <<enabled, condition, isRemoved, knownState, mapped, listening, isUpdating,
                   hasPendingUpdate, cancelCallback, currentState, breakpointId, stage, asked,
                   edits, refreshes, overlapped, dropped>>

\* The backend takes no breakpoint while disabled, nor two in one place.
BreakpointAnswers ==
    /\ toBackend # <<>>
    /\ toBackend' = Tail(toBackend)
    /\ LET m == Head(toBackend)
       IN  \/ /\ m.kind = "set"
              /\ LET free == \A b \in breakpoints : b.place # m.state.place
                 IN  /\ breakpoints' = IF backendEnabled /\ free THEN breakpoints \cup {m.state}
                                                                 ELSE breakpoints
                     /\ toFrontend' = Append(toFrontend, [m EXCEPT !.done = backendEnabled /\ free])
           \/ /\ m.kind = "remove"
              /\ breakpoints' = {b \in breakpoints : b.place # m.place}
              /\ toFrontend' = Append(toFrontend, m)
    /\ UNCHANGED <<debuggerEnabled, debuggerId, registered, paused, expanding, backendEnabled,
                   backendPaused, calls, pauses, crossed, outlived, withholding>>
    /\ UNCHANGED <<enabled, condition, isRemoved, knownState, mapped, listening, isUpdating,
                   hasPendingUpdate, cancelCallback, currentState, breakpointId, stage, asked,
                   edits, refreshes, overlapped, dropped>>

BreakpointNext ==
    \/ EnableAndUpdate \/ DisabledAndCleanUp
    \/ DebuggerAnswers \/ BreakpointAnswers
    \/ (Disable \/ RegisterDebugger \/ DepthAnswered) /\ UNCHANGED breakpointVars
    \/ Located \/ Removed \/ WasSet \/ Resolved
    \/ UpdateState \/ RemoveBreakpoint \/ SourceCodeAdded \/ RefreshInDebugger

BreakpointFairness ==
    /\ WF_vars(DebuggerAnswers \/ BreakpointAnswers)
    /\ WF_vars((RegisterDebugger \/ DepthAnswered) /\ UNCHANGED breakpointVars)
    /\ WF_vars(DisabledAndCleanUp \/ Removed \/ WasSet)
    /\ WF_vars(Located \/ Resolved)

BreakpointSpec == BreakpointInit /\ [][BreakpointNext]_vars /\ BreakpointFairness

--------------------------------------------------------------------------------
(* Properties. *)

\* Every variable has its shape.
BreakpointTypeOK ==
    /\ enabled \in BOOLEAN /\ condition \in Conditions /\ isRemoved \in BOOLEAN
    /\ knownState \in State \cup {NoState} /\ currentState \in State \cup {NoState}
    /\ mapped \in BOOLEAN /\ listening \in BOOLEAN
    /\ isUpdating \in BOOLEAN /\ hasPendingUpdate \in BOOLEAN /\ cancelCallback \in BOOLEAN
    /\ breakpointId \in Places \cup {"nowhere"}
    /\ stage \in {"idle", "locating", "removing", "setting", "resolving"}
    /\ asked \in Conditions
    /\ breakpoints \subseteq State
    /\ isUpdating <=> stage # "idle"

AtRest == Quiet /\ ~isUpdating /\ debuggerEnabled /\ ~overlapped /\ ~dropped

\* When nothing is under way, the debugger has the breakpoint the user wants and
\* none other, and the front-end knows its id.
BreakpointAgrees ==
    AtRest =>
        /\ {b.place : b \in breakpoints} = {breakpointId} \ {"nowhere"}
        /\ IF isRemoved \/ ~enabled THEN breakpoints = {}
           ELSE \E b \in breakpoints : b.condition = condition

\* The fields have their shape, an update is under way if and only if it has a next
\* step, and the debugger has what the user wants.
BreakpointConsistent == BreakpointTypeOK /\ BreakpointAgrees

\* An update does not go on for ever.
UpdateEnds == isUpdating ~> ~isUpdating
================================================================================
