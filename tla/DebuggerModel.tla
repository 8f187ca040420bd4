----------------------------- MODULE DebuggerModel -----------------------------
(*****************************************************************************)
(* sdk/DebuggerModel.js: enabling and disabling the debugger of a target,    *)
(* the registration of its id, and what the front-end knows of its pauses.   *)
(*                                                                           *)
(* Commands reach the backend in the order they are sent; answers and events *)
(* come back in the order they are given.  _disableDebugger is three turns:  *)
(* it turns async stacks off, sends disable when that is answered, and       *)
(* unregisters when disable is answered.  Meanwhile anything may be called.  *)
(*****************************************************************************)
EXTENDS Integers, Sequences, SequencesExt

CONSTANTS MaxCalls,    \* bound: calls that send a command
          MaxPauses    \* bound: pauses of the backend

ASSUME ConstantsAssumption == MaxCalls \in Nat /\ MaxPauses \in Nat

None == 0

VARIABLES debuggerEnabled,   \* _debuggerEnabled
          debuggerId,        \* whether _debuggerId is set
          registered,        \* whether _debuggerIdToModel has the model
          paused,            \* the pause of _debuggerPausedDetails, or None
          expanding,         \* pauses whose call frames are being expanded
          ignoring,          \* _ignoreDebuggerPausedEvents
          continuing,        \* whether _continueToLocationCallback is set
          toBackend,         \* commands under way
          toFrontend,        \* answers and events under way
          backendEnabled, backendPaused,
          calls, pauses,     \* history: calls and pauses so far
          crossed,           \* history: a command was sent in the middle of a disabling
          outlived,          \* history: pauses that ended while their frames were expanded
          withheld           \* history: pauses that were ignored, or that the callback took

\* What keeps a pause from being shown, and the pauses it kept.
withholding == <<ignoring, continuing, withheld>>

debuggerVars == <<debuggerEnabled, debuggerId, registered, paused, expanding, toBackend,
                  toFrontend, backendEnabled, backendPaused, calls, pauses, crossed, outlived,
                  withholding>>

Init == /\ debuggerEnabled = FALSE
        /\ debuggerId = FALSE /\ registered = FALSE
        /\ paused = None /\ expanding = {}
        /\ ignoring = FALSE /\ continuing = FALSE
        /\ toBackend = <<>> /\ toFrontend = <<>>
        /\ backendEnabled = FALSE /\ backendPaused = None
        /\ calls = 0 /\ pauses = 0
        /\ crossed = FALSE
        /\ outlived = {} /\ withheld = {}

Plain(kind) == [kind |-> kind, pause |-> None]

UnderWay(kind) == \E m \in Range(toBackend) \cup Range(toFrontend) : m.kind = kind

\* A disabling is under way from the call to the answer to its second command.
Disabling == UnderWay("depth") \/ UnderWay("disable")

--------------------------------------------------------------------------------
(* Commands. *)

Call(kind) == /\ calls < MaxCalls
              /\ calls' = calls + 1
              /\ toBackend' = Append(toBackend, Plain(kind))

\* _enableDebugger.  A disabling that has yet to send its disable overtakes it.
Enable ==
    /\ ~debuggerEnabled
    /\ debuggerEnabled' = TRUE
    /\ Call("enable")
    /\ crossed' = (crossed \/ UnderWay("depth"))
    /\ UNCHANGED <<debuggerId, registered, paused, expanding, toFrontend, backendEnabled,
                   backendPaused, pauses, outlived, withholding>>

\* _disableDebugger, which first sets the depth of async stacks to 0.
Disable ==
    /\ debuggerEnabled
    /\ debuggerEnabled' = FALSE
    /\ Call("depth")
    /\ UNCHANGED <<debuggerId, registered, paused, expanding, toFrontend, backendEnabled,
                   backendPaused, pauses, crossed, outlived, withholding>>

\* syncDebuggerId, called for the registered models when an id is unknown.  It
\* enables, and does not ask whether the debugger is being disabled.
SyncDebuggerId ==
    /\ registered
    /\ Call("enable")
    /\ crossed' = (crossed \/ UnderWay("disable"))
    /\ UNCHANGED <<debuggerEnabled, debuggerId, registered, paused, expanding, toFrontend,
                   backendEnabled, backendPaused, pauses, outlived, withholding>>

\* ignoreDebuggerPausedEvents: a recorder starts or stops, pauses are its own meanwhile.
IgnoreDebuggerPausedEvents ==
    /\ ignoring' = ~ignoring
    /\ UNCHANGED <<debuggerEnabled, debuggerId, registered, paused, expanding, toBackend,
                   toFrontend, backendEnabled, backendPaused, calls, pauses, crossed, outlived,
                   continuing, withheld>>

\* Location.continueToLocation with a callback, from a pause that is shown.  Its
\* command is one of those on which the backend resumes.
ContinueToLocation ==
    /\ paused # None
    /\ continuing' = TRUE
    /\ UNCHANGED <<debuggerEnabled, debuggerId, registered, paused, expanding, toBackend,
                   toFrontend, backendEnabled, backendPaused, calls, pauses, crossed, outlived,
                   ignoring, withheld>>

--------------------------------------------------------------------------------
(* The backend. *)

BackendAnswers ==
    /\ toBackend # <<>>
    /\ Head(toBackend).kind \in {"enable", "depth", "disable"}
    /\ LET m == Head(toBackend)
       IN  /\ backendEnabled' = CASE m.kind = "enable" -> TRUE
                                  [] m.kind = "disable" -> FALSE
                                  [] OTHER -> backendEnabled
           /\ backendPaused' = IF m.kind = "disable" THEN None ELSE backendPaused
           /\ toFrontend' = Append(toFrontend, m)
    /\ toBackend' = Tail(toBackend)
    /\ UNCHANGED <<debuggerEnabled, debuggerId, registered, paused, expanding, calls, pauses,
                   crossed, outlived, withholding>>

BackendPauses ==
    /\ backendEnabled /\ backendPaused = None
    /\ pauses < MaxPauses
    /\ pauses' = pauses + 1
    /\ backendPaused' = pauses'
    /\ toFrontend' = Append(toFrontend, [kind |-> "paused", pause |-> pauses'])
    /\ UNCHANGED <<debuggerEnabled, debuggerId, registered, paused, expanding, toBackend,
                   backendEnabled, calls, crossed, outlived, withholding>>

BackendResumes ==
    /\ backendPaused # None
    /\ backendPaused' = None
    /\ toFrontend' = Append(toFrontend, Plain("resumed"))
    /\ UNCHANGED <<debuggerEnabled, debuggerId, registered, paused, expanding, toBackend,
                   backendEnabled, calls, pauses, crossed, outlived, withholding>>

--------------------------------------------------------------------------------
(* What comes back. *)

Receive(kind) == /\ toFrontend # <<>>
                 /\ Head(toFrontend).kind = kind
                 /\ toFrontend' = Tail(toFrontend)
                 /\ UNCHANGED <<backendEnabled, backendPaused, calls, pauses, crossed>>

\* Variant: only the first answer registers the debugger.
RegisterDebuggerOnce ==
    /\ Receive("enable")
    /\ debuggerId' = TRUE
    /\ registered' = (registered \/ ~debuggerId)
    /\ UNCHANGED <<debuggerEnabled, paused, expanding, toBackend, outlived, withholding>>

\* _registerDebugger.
RegisterDebugger ==
    /\ Receive("enable")
    /\ debuggerId' = TRUE
    /\ registered' = TRUE
    /\ UNCHANGED <<debuggerEnabled, paused, expanding, toBackend, outlived, withholding>>

\* _disableDebugger goes on, whatever happened meanwhile.
DepthAnswered ==
    /\ Receive("depth")
    /\ toBackend' = Append(toBackend, Plain("disable"))
    /\ UNCHANGED <<debuggerEnabled, debuggerId, registered, paused, expanding, outlived, withholding>>

\* Variant: what is known of a pause is kept.
DisabledStillPaused ==
    /\ Receive("disable")
    /\ outlived' = outlived \cup expanding
    /\ registered' = (registered /\ ~debuggerId)
    /\ UNCHANGED <<debuggerEnabled, debuggerId, paused, expanding, toBackend, withholding>>

\* The end of _disableDebugger: globalObjectCleared, and the id is unregistered.
Disabled ==
    /\ Receive("disable")
    /\ paused' = None
    /\ outlived' = outlived \cup expanding
    /\ registered' = (registered /\ ~debuggerId)
    /\ UNCHANGED <<debuggerEnabled, debuggerId, expanding, toBackend, withholding>>

\* The details of a pause are there: a callback that waits for one is called
\* once, and takes the pause if it is where execution was to continue to.  Else
\* the pause is set, even if it is over.
Detailed(n) ==
    /\ continuing' = FALSE
    /\ \/ continuing /\ withheld' = withheld \cup {n} /\ UNCHANGED paused
       \/ paused' = n /\ UNCHANGED withheld

\* _pausedScript; the dispatcher drops the event unless the debugger is enabled.
\* With a plugin that expands the call frames, the details are there later.
PausedScript ==
    /\ Receive("paused")
    /\ LET n == Head(toFrontend).pause
       IN  \/ /\ ~debuggerEnabled
              /\ UNCHANGED <<paused, expanding, continuing, withheld>>
           \/ /\ debuggerEnabled /\ ignoring
              /\ withheld' = withheld \cup {n}
              /\ UNCHANGED <<paused, expanding, continuing>>
           \/ debuggerEnabled /\ ~ignoring /\ Detailed(n) /\ UNCHANGED expanding
           \/ /\ debuggerEnabled /\ ~ignoring
              /\ expanding' = expanding \cup {n}
              /\ UNCHANGED <<paused, continuing, withheld>>
    /\ UNCHANGED <<debuggerEnabled, debuggerId, registered, toBackend, outlived, ignoring>>

\* The rest of _pausedScript.
CallFramesExpanded(n) ==
    /\ n \in expanding
    /\ expanding' = expanding \ {n}
    /\ Detailed(n)
    /\ UNCHANGED <<debuggerEnabled, debuggerId, registered, toBackend, toFrontend,
                   backendEnabled, backendPaused, calls, pauses, crossed, outlived, ignoring>>

\* _resumedScript.
ResumedScript ==
    /\ Receive("resumed")
    /\ paused' = IF debuggerEnabled THEN None ELSE paused
    /\ outlived' = IF debuggerEnabled THEN outlived \cup expanding ELSE outlived
    /\ UNCHANGED <<debuggerEnabled, debuggerId, registered, expanding, toBackend, withholding>>

Next == \/ Enable \/ Disable \/ SyncDebuggerId
        \/ IgnoreDebuggerPausedEvents \/ ContinueToLocation
        \/ BackendAnswers \/ BackendPauses \/ BackendResumes
        \/ RegisterDebugger \/ DepthAnswered \/ Disabled
        \/ PausedScript \/ ResumedScript
        \/ \E n \in 1..MaxPauses : CallFramesExpanded(n)

Spec == Init /\ [][Next]_debuggerVars

--------------------------------------------------------------------------------
(* Properties. *)

Quiet == toBackend = <<>> /\ toFrontend = <<>>

Message == [kind: {"enable", "depth", "disable", "paused", "resumed"}, pause: 0..MaxPauses]

\* Every variable has its shape.
TypeOK ==
    /\ debuggerEnabled \in BOOLEAN /\ debuggerId \in BOOLEAN /\ registered \in BOOLEAN
    /\ paused \in 0..MaxPauses /\ backendPaused \in 0..MaxPauses
    /\ expanding \subseteq 1..MaxPauses /\ outlived \subseteq 1..MaxPauses
    /\ ignoring \in BOOLEAN /\ continuing \in BOOLEAN /\ withheld \subseteq 1..MaxPauses
    /\ toBackend \in Seq(Message) /\ toFrontend \in Seq(Message)
    /\ backendEnabled \in BOOLEAN /\ crossed \in BOOLEAN
    /\ calls \in 0..MaxCalls /\ pauses \in 0..MaxPauses
    /\ registered => debuggerId

\* When nothing is under way, the backend is enabled and the id registered if
\* and only if the model says it is enabled, unless an enabling was sent before
\* the disable of an earlier disabling, or an id was synchronised after it.
EnablementAgrees ==
    Quiet /\ ~crossed => backendEnabled = debuggerEnabled /\ registered = debuggerEnabled

\* The state has its shape, and the front-end and the browser agree on who is enabled.
Consistent == TypeOK /\ EnablementAgrees

\* The model shows the pause of the browser, unless it learned of the end of one
\* while it expanded the frames: what it shows is the pause there is, or word of
\* the end is on its way; and when nothing is under way it shows it or will, or
\* withheld it on purpose, for a recorder or a callback.
PauseAgrees ==
    outlived = {} =>
        /\ paused # None => backendPaused = paused \/ UnderWay("resumed") \/ Disabling
        /\ Quiet /\ ~crossed => backendPaused \in {paused} \cup expanding \cup withheld
================================================================================
