# Verification of the DevTools front-end

TLA+ models of the core of the Chrome DevTools front-end (`src/front_end`), checked with TLC and,
where it says so, proved with TLAPS. Paths below are relative to `src/front_end`.

The front-end is one JavaScript event loop. Nothing runs in parallel with anything else; what is
hard is what happens *between* turns: protocol calls are answered later, in an order the browser
chooses, by sessions that may be gone; `await` splits a function into turns with other code in
between; timers race with answers; observers come and go. The modules model exactly that: an action
is one turn (or the part of an `async` function between two `await`s), with everything it changes.

## 1. Inventory

| Component | State | Operations | Hard behaviours | What makes it correct |
|---|---|---|---|---|
| **Session router and agents** `protocol_client/InspectorBackend.js` | sessions with callback maps, message id, count of pending responses, ids of long-polling calls, queue of scripts | `sendMessage`, `_onMessage`, `registerSession`, `unregisterSession`, `deprecatedRunAfterPendingDispatches` | responses after their session is gone, errors delivered by timers, proxied sessions with ids of their own | every call answered once; counters exact; scripts run when and only when quiet |
| **Child targets, connections** `sdk/ChildTargetManager.js`, `sdk/Connections.js` | child targets by session, parallel connections; socket state, buffered messages and chunks | attach, detach, dispose, create parallel connection; send, open, close | detachment with calls pending, disconnection of the root, `await` with stale router, chunk reassembly | sessions closed once; messages neither lost nor mixed |
| **Page resource loader** `sdk/PageResourceLoader.js` | count of loads, queue, listed resources | `loadResource`, slots, timeout, navigation | cancellation while queued, timeout racing the answer, wake-up of queued loads | limit on concurrent loads, no starvation, one outcome |
| **Throttler** `common/Throttler.js` | process, timer, promise, flags | `schedule`, timer, completion | scheduling during a run, promise replaced while the run goes on | one run at a time, throttled, each promise answers its caller |
| **Source map manager** `sdk/SourceMapManager.js` | resolved id per client, maps, loading and attached clients per id | attach, detach, enable, navigation, load finished | detach and re-attach during a load, id changed by navigation | no stale client, events consistent, waits end |
| **Target manager, targets, models** `sdk/SDKModel.js` | targets, models per target, suspension flags, observers, listeners | create, remove, `model()`, observe, listen, suspend, resume | two-phase asynchronous suspension overtaken by resumption, models created on demand | models follow the manager; observers know each model once |
| **Debugger model** `sdk/DebuggerModel.js` | enabled flag, debugger id, pause state, scripts | enable, disable, pause, resume, step | enable and disable overtaking each other, pauses that end while they are prepared | registration matches enablement, the shown pause is real |
| **Breakpoints** `bindings/BreakpointManager.js` | breakpoints, per-debugger state, update flags | set, remove, update, resolve | update loop against answers from the debugger | the debugger's breakpoints are those of the user |
| **Live locations, mappings** `bindings/*` | locations, update promise | create, update, dispose | update during update, disposal during update | last update wins |
| **Event targets** `common/Object.js` | listeners per event | add, remove, dispatch | removal during dispatch | no event to a removed listener |
| **Workspace, persistence** `workspace/`, `persistence/`, `workspace_diff/` | contents, working copies and their getters, operations on files, bindings and attempts to bind | edit, commit, revert, read, write, check, bind, part | edits while a file changes on disk, questions to the user, attempts that are called off, comparisons that are overtaken | bound files agree; the file follows the disk; no edit is lost |
| **Network** `sdk/NetworkManager.js`, `sdk/NetworkRequest.js`, `sdk/NetworkLog.js` | requests in flight per target, extra infos, page loads | protocol events, navigation, clearing, recording | redirects that share an id, loads that move to another target, two unordered streams of events | maps agree; ends are ends; infos reach their hop; the log shows the page |
| **DOM, CSS, overlay, frames** `sdk/*` | mirrors of the page | protocol events | order of events | the mirror matches |
| **Workers, panels, UI, host** | - | - | - | - |

How they interact. A `TargetBase` sends its calls through its session of the `SessionRouter` of the
root target. `ChildTargetManager` creates a `Target` for each `attachedToTarget` event, which
registers a session and is added to the `TargetManager`; models are created for it and observers
told. `ResourceTreeModel` reports a navigation of the main frame first as an event, on which
`PageResourceLoader` cancels its queue, and in the same turn as a change of the inspected URL, on
which every `SourceMapManager` re-attaches its clients; those load source maps through
`PageResourceLoader`. The panels suspend and resume all targets around recordings.

## 2. Plan

Order of the modules, most important first. Those marked done are in this directory.

1. `CallContract`, `SessionRouter` with proofs and refinement (done): everything else talks through it.
2. `PageResourceLoader` with proofs (done), `Throttler` with proofs (done), `SourceMapManager` with proofs (done):
   the asynchronous machinery under scripts and style sheets.
3. `TargetManager` with proofs (done): suspension, models, observers.
4. `DebuggerModel` with proofs (done), and `ModelBreakpoint` composed with it, with proofs (done): enabling and
   disabling against answers on their way; the debugger ends up with the user's breakpoints.
5. `UISourceCode` and `Persistence`, composed, with proofs (done): the user's edits against the disk.
6. `NetworkManager` and `NetworkLog`, composed, with proofs (done): the events of the browser against the maps.

What is left, in this order:

7. `ChildTargetManager` composed with `SessionRouter`: the `await` of
   `_createParallelConnectionAndSessionForTarget`, after which the target may be gone.
8. `Connections`: the transports (chunks, socket), with the abstract specification of a reliable channel.
   A message in one buffer and a second one in between its chunks is the hazard; the embedder sends chunks in order.
9. `LiveLocation` and the update protocol of `bindings`: the update promise, which is never reset after a rejection.
10. Registration inside a notification, for `TargetManager`, with the event targets of `common/Object.js`.
11. `FormatterWorkerPool` and the interception of requests (`MultitargetNetworkManager`).

## 3. Modules

### `SessionRouter` and `CallContract`

`SessionRouter` models `SessionRouter`, `TargetBase` and the agents of `InspectorBackend.js`, with
`ChildTargetManager` and `ParallelConnection` as far as they open and close sessions.

| Variable | Code |
|---|---|
| `lastMessageId`, `pendingResponsesCount`, `pendingLongPollingMessageIds` | the fields of that name |
| `sessions`, `callbacks` | the keys of `_sessions`; the entries of the sessions' `callbacks` maps |
| `target` | whether a target exists, and has a `_router` |
| `timers` | the `setTimeout`s of `dispatchConnectionError` and `dispatchUnregisterSessionError` |
| `pendingScripts`, `scriptTimers` | `_pendingScripts`, the `setTimeout`s of `_deprecatedRunAfterPendingDispatches` |
| `backend` | requests the browser has and has not answered |
| `madeOn`, `answers`, `ranScripts` | history |

Each action is a handler: `Invoke` (an agent's command, on a live or disposed target),
`OnResponse`/`OnUnroutedMessage` (the branches of `_onMessage`), `RunErrorTimer`,
`AttachedToTarget`, `DetachedFromTarget`, `OnDisconnect`, the proxied session, and the script queue.
A callback is the data of a call; what it does belongs to other components, and is not modelled.

`CallContract` is what a caller relies on: a call on an open target is settled once, with a result
while the target is live or with `closed` after it was disposed of; only a raw message on a
vanished session is dropped. `ImplementsCallContract` is the refinement (`status` is computed from
`answers` and `madeOn`), with liveness: an ordinary call on a backend that answers is settled.

Fairness: the event loop runs timers; the browser answers ordinary requests of sessions it still
has (CDP answers every command). A long-polling call may wait for ever, which is what
`LongPollingMethods` is for.

Run `session_router`: one child session that can be attached, detached and lost with the root, one
proxied session, two ordinary calls and a long-polling one, one script. Three calls suffice for two
calls on one session, calls on two, and a long-polling one besides either; message ids are bounded by the
number of calls. Attaching after a detachment is the browser's choice of a fresh target, so a target
is attached once.

Run `session_router_quiet` (a finding): `unregisterSession` fails the pending calls but leaves them in
`_pendingResponsesCount`, and so does `sendMessage` when it drops a message; a script that
waits for a quiet protocol never runs after that. `ScriptsRunIfCountersExact` shows that this is
the only reason.

### `PageResourceLoader`

`phase` says at which `await` each call of `loadResource` stands: queued on
`waitForCapacity`, resolved (`slotted`) or rejected and not yet continued, dispatched, done. The other
variables are the fields. `Settle` is `Promise.race`; `FinishLoad` and `FinishCanceledLoad` are the rest of `loadResource`
down to its `finally`. The promise of a queued load is resolved in one turn and its continuation
runs in a later one: between the two, other loads may start, which the code allows because a
navigation cancels the queue and starts source map loads in the same turn.

Fairness: continuations run, timers fire. The back-end need not answer: the timeout is what ends a load.

Run `page_resource_loader`: four loads, two resources, two slots: one queue of two, a release that wakes a load,
a cancellation with loads on both sides of it, and a resource loaded twice.
Run `page_resource_loader_limit` (a finding): a cancelled load releases a slot it never had, so a load
queued after the cancellation is dispatched above the limit. `RespectedUnlessCrossed` is the limit with
exactly this exception (`crossed`): it is checked and proved.

### `Throttler`

Calls are numbered, process *n* is that of call *n*; time is what is left of the timer and the time since the last
completion, moved by `Tick`. A timer that is due may fire late. `promiseOf`, `completed` and `resolved` are
history: `ResolvedMeansRan` relates the promise a caller got to the runs that have ended since.
A process is assumed to settle (its failure is caught); fairness says so, since nothing in the class would recover
from one that does not. Run `throttler`: five calls, timeout of three ticks, any time since the
last completion at the start.

### `SourceMapManager`

The maps of the class are a record, so that `setEnabled` and `_inspectedURLChanged`, which detach and attach
one client after the other, are a function from one record to the next (`Reattach`), in any order (a JavaScript map iterates in insertion order, which the
model leaves open). `view` and `confused` record what a listener was told. Several loads of one id may be under way
(a client leaves, comes back, and starts another); `MaxLoads` bounds them in the guards. Fairness: loads
end, which is `EveryLoadEnds` of the loader. Run `source_map_manager`: four clients, two ids, two pages; a client that keeps its id, two that
exchange theirs, one that resolves to nothing on the second page; two loads per id.

### `TargetManager`

`suspending[t]` counts the calls of `Target.suspend` that stand at the `await` between their phases,
`resuming[t]` those of `Target.resume`. `active[t]` are the models whose last call was `resumeModel`, or
that were created on a target that was not suspended. What a model does inside its calls is not modelled, nor is a
promise that is rejected (the overrides in the repository only await protocol calls, which are never
rejected). Observers and listeners register between calls, not from inside a notification.
A target may be asked for a model after it was removed: the code creates it and tells observers.

Fairness: the promises of `preSuspendModel` and `resumeModel` are fulfilled. Run `target_manager`: a frame and a worker of different
capabilities, an autostarted class and one created on demand, two observers and a listener of it, at most two passes
under way on a target. Run `target_manager_phases` (a finding): resumption that overtakes a suspension leaves models
suspended and calls `postResumeModel` on them; `PhasesInOrder` and `ModelsFollow` hold for targets on
which no pass was started while another was under way.

### `DebuggerModel`

The browser is two queues: commands reach it in the order they are sent, answers and events come back in the order
they are given, as on one CDP session. `_disableDebugger` is three turns (`Disable`, `DepthAnswered`, `Disabled`), and its
middle one does not look whether the debugger was enabled again; `crossed` remembers that a command was sent where that
matters. A pause whose call frames are expanded by a plugin sets its details in a later turn, and does not look either;
`outlived` remembers the pauses that were over by then. `EnablementAgrees` (in `Consistent`) and `PauseAgrees` say that
these are the only ways in which the front-end can be wrong about the browser. The browser answers `enable` without an
error.

Two kinds of pauses are not shown on purpose, and `withheld` remembers them: those that come while a recorder has switched
`_ignoreDebuggerPausedEvents` on (`IgnoreDebuggerPausedEvents`, at any time), and one that the callback of
`Location.continueToLocation` takes (`ContinueToLocation` sets it while a pause is shown, the next details of a pause use it up, and it is free
whether it takes them). The properties do not ask that these be shown. Not modelled: scripts, stepping, live edits, the path of old back-ends that pause on async
calls (`asyncCallStackTraceId`), and `_beforePausedCallback`, which lets the details be set and a step be sent.

Run `debugger_model`: five commands, so that a disabling is followed by an enabling and another disabling with a synchronisation
anywhere; two pauses, one that ends and one that follows while it is expanded, or that is shown and one that the callback takes.

### `ModelBreakpoint`

Extends `DebuggerModel` with one breakpoint of one debugger. `stage` is the `await` at which `_updateInDebugger` stands:
`locating` (the location is mapped), `removing`, `setting`, `resolving`; the other variables are fields of
`ModelBreakpoint` and `Breakpoint`. A breakpoint is at one position, so the loops over positions and ids run once; its
id is the place it is set at, a script or the URL of the file. The turns of `locating` are one: whether the line
maps to a script is what the last of them finds. The debugger refuses a breakpoint while it is off and a second one in the
same place, and forgets all of them when switched off, as V8 does. Not modelled: the locations shown in the user
interface, the storage, removed targets, diverged scripts (they act as a breakpoint that is switched off).

Fairness: the browser answers, answers are delivered, promises of the mappings are fulfilled. The user need not act.

Run `model_breakpoint`: three switches of the debugger, three changes by the user or the page, one refresh, two
conditions; no pauses, no synchronisation of ids. Three switches are an enabling, a disabling and an enabling, with an update on either side
of each; three changes suffice for one that is read, one that is pending, and one that comes after both.
`BreakpointConsistent` excuses two situations the code does not exclude: an enabling before the
disabling was over (`overlapped`), and a breakpoint whose answer was dropped (`dropped`): `_cancelCallback`, set by a
disabling while an update is locating, is consumed only by the answer of the breakpoint that the same update sets
after the next enabling. Its id is lost, and the breakpoint stays in the debugger when the user removes it.

### `UISourceCode` and `Persistence`

`UISourceCode` has a script of a page and a file on disk, with `workspace/UISourceCode.js`,
`persistence/IsolatedFileSystem.js` (the lock of each file) and `workspace_diff/WorkspaceDiff.js`; `Persistence` extends
it with `Automapping.js` and `PersistenceImpl.js`, which find that the two are the same, bind and part them.

| Variable | Code |
|---|---|
| `content`, `working`, `follows`, `commits` | `_content`, `_workingCopy`, whether `_workingCopyGetter` is set, `_hasCommits` of each side |
| `loaded`, `requesting`, `checking`, `accepted`, `forceLoad` | `_contentLoaded`, `_requestContentPromise`, `_checkingContent`, `_lastAcceptedContent`, `_forceLoadOnCheckContent` of the file |
| `operations` | the promises chained in `_fileLocks`, the one in front running |
| `disk`, `changed`, `dialogs` | the disk, a notification from it, `checkContentUpdated` at its last two `await`s |
| `modified`, `comparing` | `_modifiedUISourceCodes` of `WorkspaceDiffImpl`, and the runs of `_updateModifiedState` that wait for the original |
| `bound`, `stage`, `fileText`, `processing` | the binding; each run of `_computeNetworkStatus`, where it waits; the content it validates; the promise in `_sourceCodeToProcessingPromiseMap` |
| `sweepScheduled`, `fromSourceMap`, `present` | the throttled sweep, whether metadata are trusted, what was not removed |

A change of one side reaches the other in the same turn, while a flag mutes the listener for what it does itself: `Commit` and
`SetWorkingCopy` are the whole of it. A working copy is carried over as a getter that is called when somebody reads, so
`ReadWorkingCopy` is an action. A content stands for all that differ in white space at the end, as
`Automapping.validateStatus` compares them. Simplifications: the script's own content is loaded; a write is atomic, and so is a read once its turn comes; notifications of
one file are batched into one flag, as the embedder does; whether the metadata name the file is left open; the events that `_innerRemoveBinding` sends after its
`await` are left out. Not modelled: Node.js wrappers, binary files, renaming, creating and deleting by the user,
network overrides, breakpoints that move with a binding, several files of one name.

The properties name the situations the code leaves open. `DiskFollowed` excuses a `lapse`: a check that failed (it leaves `_checkingContent` set for
good), a notification dropped while a read under way has the old content (`missed`), and an answer to an old question
(`overruled`); a later check makes up for the last two. `BoundFilesAgree` excuses sides that were `apart` when they were bound, until one is
committed, and getters that call each other (`Circular`, in which `workingCopy()` would not return). `UnsavedIsKept` excuses a
binding that is being made and a check that takes an older edit, for which a getter stands in, for the working copy (`Shadowed`). `BindingsAreLive` excuses a file
removed during an attempt (`late`): `onStatus` looks at the script only. `_createBinding` picks the file even before the metadata have come; the model
gives up an attempt whose file is removed before that, so `late` begins there. `ContentChecked` has no branch for a content that is `null`
(`UISourceCode.js:316-321`): `IsolatedFileSystem` returns none without an error.

Fairness: operations on files end and continuations and notifications run. The user need not act, and need not answer a question.

Run `persistence`: three contents, three events (edits, revisions, changes by other programs, failures, remappings,
removals), two attempts to bind. Three events are an edit on each side and a change of the disk, in any order with the commits,
reverts and answers of the user, which are free; four events with one attempt were also checked. Two attempts are one that is called off and one that counts.

### `NetworkManager` and `NetworkLog`

`NetworkManager` is the `NetworkDispatcher` of each target, the `MultitargetNetworkManager` as far as it hands requests over,
and `RedirectExtraInfoBuilder`. The browser is external: each load follows a `plan` the front-end does not know (its
hops and those the network stack reports on), and `phase`, `hop`, `origin`, `home` are how far it is and where. The
events of a load come in order; the extra infos of its hops come in an order of their own.

| Variable | Code |
|---|---|
| `requests` | the `NetworkRequest`s, by id in the order they were made; `[manager, finished, ...]` are their fields |
| `inflightById`, `inflightByURL`, `builders` | the maps of each dispatcher |
| `inflightMain` | `_inflightMainResourceRequests` |
| `log`, `isRecording`, `pageLoad`, `pageLoadOf` | `_requests`, `_isRecording`, `_pageLoadForManager` of the main target, `pageLoadForRequest` |

A request that a document's load leaves in one target is adopted by the dispatcher of the other in the first event that does not find it
(`Adopts`), before the rest of the handler. A hop that is redirected gets another id (`markAsRedirect`) before it is finished, so that only
its URL goes from the maps. `NetworkLog` hears of each request at the end of the handler that starts it, so `Next` conjoins the two;
`OnMainFrameNavigated` rebuilds the log; a document is committed once (`committed`). Left out: sizes, times and headers, signed exchanges, trust tokens, web transport,
preflights, requests of service workers, interception, conditions, initiators, import.

A response may have another URL than its request (`ResponseUrls`; `Rewritten` bounds them), and `_updateNetworkRequestWithResponse` gives it to the request. What
was known by the old URL stays in `_inflightRequestsByURL` then: the ends of the request, and an adoption, delete the entry of the new one.
`InFlightAgrees` says of the map by URL that this is all that is wrong with it: what it knows is in flight under that URL, or was `Renamed` and is
known by the URL it was made with. It does not say that a request in flight is known by its URL: one that was made later with the same URL takes its entry, and deletes it.
`_pageLoadForManager` starts empty. An error page (`ErrorPageNavigated`) stands for a document that failed, or was answered with an error and nothing to show, and is never committed itself; the log and the page load stay those of the page before,
and `LogShowsThePage` is said of the document committed last, error pages aside. The run has one document, so its error page comes
instead of its commit; that an error page of a later document changes nothing is what the theorem says.

A web socket has extra infos in the code as well; they leave a builder behind for good, which the model does not follow.

`LoadedMeansFinished` excuses loads that are `astray`: `loadingFailed` does not adopt, and a request leaves with its target. `InfosReachTheirHops` is said of
`Regular` loads, reported on from the first hop, to one dispatcher that saw them all, and, as to delivery, of those with infos before their end
(`early`): the builder counts, and the protocol promises no more. `LogShowsThePage` excuses a document of which the log had no request when it was committed (`unseen`).

Run `network`: a document with a redirect that may move to a second target, and a load that shares its targets and URLs
and may belong to it, both from the main target; the responses to the document may have the URL of its second hop, which the other load shares: so the first hop, or a load of one hop, is renamed by a redirect or by its answer; one target that goes; the log cleared or switched once, preserved or not. Two hops are what tells a
builder that counts from one that does not; two loads of one URL what tells the maps apart. Deadlock is not checked: loads end.

## 4. Properties, and what each is for

Every module has one type invariant; `Consistent` and `BreakpointConsistent` join it with the agreement of the
module's fields. The parts of these, and the others:

| Property | Says |
|---|---|
| `InOnePlace` | a call is in the callback map, in an error timer, or answered once: never two of these, never none |
| `CountCoversOutstanding` | the counters never claim less than what waits |
| `ScriptsRunWhenQuiet`, `ScriptsRunIfCountersExact` | scripts run only when, and whenever, the protocol is quiet and the counters exact |
| `AccountsBalance` | count, queue and phases agree at every moment |
| `WaitsOnlyWhenFull`, `EveryLoadEnds` | no lost wake-up |
| `RespectedUnlessCrossed`, `OutcomeIsFinal` | limit and outcome under cancellation and timeouts |
| `Throttler`: `OneAtATime`, `UrgentIsDue` (in `Consistent`), `Throttled` | the throttler's promise on time |
| `ResolvedMeansRan`, `EveryPromiseResolves` | the throttler's promise to its callers |
| `SourceMapManager`: `MapsHaveClients`, `WaitersHaveLoads` (in `Consistent`), `NoStaleClient`, `WaitEnds` | lists, maps and loads agree; nobody waits for ever, or on a list while the manager is disabled |
| `EventsTellTheTruth` | the events a listener gets are in an order that makes sense and match the state |
| `ObserversKnowModels`, `ListenersHearModels` | each model is announced once to each observer, whoever created it and when |
| `ModelsFollow`, `PhasesInOrder`, `SuspensionCompletes` | models are suspended as the manager says |
| `DebuggerModel`: `EnablementAgrees` (in `Consistent`) | model, registry of ids and browser agree on enablement once everything has arrived |
| `PauseAgrees` | the pause that is shown is one, or word of its end is on its way; at rest the browser's pause is shown, is being prepared or was withheld on purpose |
| `BreakpointAgrees` (in `BreakpointConsistent`) | the debugger has the breakpoint the user wants, and none that the front-end has forgotten |
| `UpdateEnds` | the update loop comes to rest |
| `Persistence`: `BindingsAreLive` (in `Consistent`) | no attempt that was called off binds |
| `BoundFilesAgree` | two bound files show the same text, edits included |
| `DiskFollowed`, `FileSettles` | the file is what the disk has, once reads and writes have come to rest, which they do |
| `UnsavedIsKept` | an edit goes only when the user gives it up |
| `ModifiedIsTrue` | the mark of the Changes panel is right, whatever comparison was overtaken |
| `NetworkLog`: `InFlightAgrees` (in `Consistent`), `LoadedMeansFinished` | a request in flight is known by its id to one dispatcher, and to none when it has ended; what is known by a URL is in flight under it, or was renamed by its response |
| `InfosReachTheirHops` | infos reach the request they are about, and none is lost |
| `LogShowsThePage` | the log shows each request once, with the page load it belongs to, whatever error pages come |

The operators marked `Variant:` are definitions with a plausible mistake; put in place of the
definition after them, each breaks a property, which shows that the property constrains the code.

## 5. Proofs

All theorems hold for every value of the constants that satisfies `ConstantsAssumption` of the module.

`SessionRouter_proofs`. `Invariance` proves an inductive invariant: besides the type, message ids are below
`lastMessageId` and used once per entry, an entry of `callbacks` or `timers` belongs to a call made on that
target, sessions are those of live targets, a long-polling id that is pending was issued, and the counters
cover the callbacks. `InOnePlace` alone is not inductive: that a response removes exactly one entry needs the
uniqueness of ids. From it: `Typing`, `CallsInOnePlace`, `CountersCoverOutstanding`, `QuietWhenScriptsRun`, and
`RefinesContract`, the step-by-step refinement of `CallContract!SafeSpec`.

`PageResourceLoader_proofs`. The invariant adds to the properties that the queue lists exactly the queued loads, without
repetition, and that nothing is queued behind rejected loads unless one crossed; without this the limit is not
inductive, because a rejected load's release would wake a load. From it: `Typing`, `Balanced`, `NoIdleSlot`,
`LimitUnlessCrossed`, `WaitingAreListed` (`QueuedAreListed`), and the action property `OutcomesStay`.

`SourceMapManager_proofs`. For any clients, ids and pages, and any way the ids depend on the page. The invariant is said of the record of the maps (`Fit`), because the
loops of `setEnabled` and `_inspectedURLChanged` make many on their way: a client on a list of an id is resolved to that id (`Filed`), a source map has clients (`Used`),
who waits has a load (`Awaited`), and the events told of each client are what the lists say (`Truthful`). The latter is what makes the other lists exact: that no client
is on two is a consequence. `DetachFits` and `AttachFits` are one turn of the loop, `ReattachFits` all of it. That a disabled manager
has nobody on a list needs that the loop misses no client (`Fewer`, `AllDetached`). From it: `ConsistentAlways`, `NothingStale`, `EventsTrue`.

`TargetManager_proofs`. The invariant adds that an uncreated target is blank, that the flags of the targets agree with
the manager's, and, for targets without overlap, which pass is under way in which state of the flag. From it: `Typing`,
`ObserversAreTold`, `ListenersHear`, `Followed`, `OrderOfPhases`.

`Throttler_proofs`. Safety of `Throttler` (`SafeSpec`), for every timeout and any number of calls. The invariant adds which
call each promise and process stands for, which flags go together, and that a timer is set if and only if a process is
scheduled and none runs. From it: `FieldsAgree`, `PromisesTellTheTruth`, `RunsAreThrottled`.

`Persistence_proofs`. For any set of contents and any number of events and attempts. The invariant has five parts: `BindingExact` (which
attempt may bind, and what each stage knows), `TextsExact` (what bound files have in common, and why a file that was not read is apart), `ModifiedExact` (the
mark and the comparison that counts), `DiskExact` (what each read under way may find, and that a change not yet seen has its notification
or a check to come), and the type. From it: `BindingsAreOfLiveFiles`, `BoundTogether`, `MarkIsTrue`, `FileFollowsDisk`
and the action property `OnlyUsersGiveUp`.

`NetworkManager_proofs`. For any loads, redirects, targets and reports, in the composition with `NetworkLog`. The argument is made for one
load at a time: `Maps` says that its last request is the only one that may be in flight, that the map by id of its manager and no other has it, that the main request leads to it, and that
what URLs lead to is this request or is `Stale`: under the URL of a request whose response had another; `Course`, what its phase says of its home, which is where the dispatcher that is told must look, and that a request that waits for its response was not renamed (without which the second of two responses would leave an entry that nothing accounts for). A step changes nothing of
other loads but URLs, from which they can only go (`OneLoad`). The lemmas `Adoption`, `Finishing` and `Starting` are about the three ways
in which a handler changes the maps. From it: `MapsAgree` and `LoadsLeaveNothing`.

Extra infos (`InfoInvariance`, from which `InfosReach`): `Counted` says which hop each request is, and that none is missing of a load that one dispatcher saw
from the start. Of a regular load, `Attended` says that its builder has the requests in the order of the hops, and of both kinds of infos as many as were reported, those
of the hops that have a request already given away, to that request (`Matching`); `Unattended`, that there is no builder any more and nothing will come. `Reaching`: an early
load that ended has been told of everything (`AllTold`), or its last response info is still to come and will find the builder. `BuilderFits` bounds what builders hold of the other
loads. The lemmas on the builder are said of lists alone, before a handler is looked at.

The log (`LogInvariance`, from which `LogShows` and, with the other two invariants, `LogConsistent`): that the rebuilt log has no request twice depends on how
`_onMainFrameNavigated` finds the redirects of the document, by going back while they are neighbours. So `Ascending` says that the hops of a load are in the log in
their order until its document is committed, `Committed`, that the document committed last does not leave the main target and is what new requests are shown
with, and `Shown` is the property. This needs that a document is committed once. `QuietLog`, `StartedLog`, `CommitLog` and `EmptiedLog` are the four things a step does to the log; `AtOrigin`, from
the invariant of the maps, says where a request starts that is made before the commit.

`ModelBreakpoint_proofs`, first part: `DebuggerModel`. For any number of commands and pauses. Nothing about a quiet state is inductive: the argument is
about the queues. `WillBe(q, flag)` is what the messages of a queue will make of a flag; `AddedLast` and `TakenFirst` say how it
changes at both ends. `EnablementExact` says that, unless a disabling is between its turns, what the commands under way
will make of the browser, and they after the answers of the registration, is what the model says; and that there is one
disabling at a time. `PauseExact` says that each word of a pause is followed by word of its end if it has ended, and that the browser's
pause is the last the model is or will be told of, the withheld ones included. From it: `AgreeOnEnablement`, `AgreeOnPauses`.

`ModelBreakpoint_proofs`, second part: `ModelBreakpoint`. For any edits, refreshes, calls and conditions. The argument is about `Line`, the answers under way and behind them
the commands the browser has yet to see: an answer leaves the line as it is but for one message, and a receipt shifts it. `OneCommand`: an update waits
for one message, and nothing of the breakpoint is sent behind a setting. `HeldExact`: what the debugger has is known by its id, or its answer is in the line, and
conversely unless word of its end is. `UpdateExact`: an update has read what the user wants, or another is to come. `SetWillDo`: a setting under way
succeeds while the debugger is enabled. `DisablingExact` and `RestExact` carry these through a disabling and to the end of the updates. The
excuses `overlapped` and `dropped` are needed in the invariant as in the property. From it: `BreakpointsAgree`.

What a recursive function computes is proved where an invariant needs it, by way of a least counterexample (`Least`, from the well-founded order on finite sets:
the library's induction rules, which take an operator as a parameter, cannot be used with these provers): `Reattach` in `SourceMapManager_proofs`, and `Only`, the rows of the log that are kept, in `NetworkManager_proofs`.

Every safety property of a passing run is stated by a theorem. Only model-checked: all liveness (`EveryLoadEnds`, `WaitEnds`, `EveryPromiseResolves`, `SuspensionCompletes`,
`UpdateEnds`, `FileSettles`, `ScriptsRunIfCountersExact` and the fairness half of the refinement), which the prover does not handle.

## 6. Not modelled

Most of the repository by lines is panels, rendering, settings, test runners, the generated protocol and third-party code:
they keep no state that other parts rely on, or are data. The algorithms of the heap snapshot and formatter workers are
sequential and on large data. The mirrors of DOM and CSS follow the events of the browser one by one. Child targets beyond their sessions, transports, live
locations, event targets and interception are planned (section 2). Event dispatch to protocol handlers and to the
listeners of `Common.Object` is taken as a call of another component. A process of the throttler that never settles, a load
of an older source map that fails after a newer one has succeeded, and an update of a breakpoint in an anonymous script without a hash end nothing in the
models, as in the code; no property is stated of them. `PROJECT.json` lists the hazards that no property covers yet, with the reason.
