------------------------------- MODULE NetworkLog -------------------------------
(*****************************************************************************)
(* sdk/NetworkLog.js: the requests that the Network panel shows, and the     *)
(* page load that each is shown with, while the managers start and finish    *)
(* requests (NetworkManager) and the main frame is navigated.                *)
(*                                                                           *)
(* Left out are preflights, with _requestsMap that serves them, requests of  *)
(* service workers, which a navigation may keep, initiators and console      *)
(* messages.  _requestsSet holds the requests of the log.                    *)
(*****************************************************************************)
EXTENDS NetworkManager, Functions

CONSTANTS Main,          \* the manager of the target without a parent
          MaxLogEvents   \* bound: times that the log is cleared or switched

NoPageLoad == "no page load"
InitialPage == "initial page"  \* the document that was loaded before
NoLoader == "no loader"        \* of loads that belong to none of Documents

ASSUME LogAssumption ==
    /\ Main \in Managers
    /\ {NoPageLoad, InitialPage, NoLoader} \cap Ids = {}
    /\ MaxLogEvents \in Nat

VARIABLES log,           \* _requests
          isRecording,   \* _isRecording: the log listens
          pageLoad,      \* _pageLoadForManager of Main, by the loader of its main request
          pageLoadOf,    \* pageLoadForRequest, the same way
          loader,        \* browser: the loaderId of each load
          page,          \* browser: the document that was committed last, error pages aside
          committed,     \* browser: the documents that were, and those that failed
          unseen,        \* history: the log had no request of that document at its commit
          logEvents      \* times that the log was cleared or switched

logVars == <<log, isRecording, pageLoad, pageLoadOf>>
pageVars == <<loader, page, committed, unseen, logEvents>>
vars == <<networkVars, logVars, pageVars>>

Init ==
    /\ NetworkInit
    /\ log = <<>> /\ isRecording = TRUE
    /\ pageLoad = NoPageLoad
    /\ pageLoadOf = [id \in Ids |-> [k \in 1 .. MaxHops(id) |-> NoPageLoad]]
    /\ loader \in [Ids -> Documents \cup {NoLoader}]
    /\ \A id \in Documents : loader[id] = id
    /\ page = InitialPage /\ committed = {} /\ unseen = FALSE /\ logEvents = 0

\* _onRequestStarted, at the end of a handler that starts a request.
OnRequestStarted(id) ==
    LET k == Len(requests'[id])
    IN  /\ log' = IF isRecording THEN Append(log, Ref(id, k)) ELSE log
        /\ pageLoadOf' = IF isRecording /\ home[id] = Main /\ pageLoad # NoPageLoad
                         THEN [pageLoadOf EXCEPT ![id][k] = pageLoad] ELSE pageLoadOf
        /\ UNCHANGED <<isRecording, pageLoad, pageVars>>

\* The elements of s that are in T, in their order.
Only(s, T) ==
    LET f[n \in 0 .. Len(s)] ==
            IF n = 0 THEN <<>> ELSE IF s[n] \in T THEN Append(f[n - 1], s[n]) ELSE f[n - 1]
    IN  f[Len(s)]

\* The requests of the log that belong to the main target and the document d.
OfPage(d) ==
    Only(log, {r \in Range(log) : requests[r.id][r.place].manager = Main /\ loader[r.id] = d})

\* The hops before r, the last one first: its chain of redirectSource.
Sources(r) == [i \in 1 .. r.place - 1 |-> Ref(r.id, r.place - i)]

\* Variant: the requests that are kept stay with the page load they were shown with.
OnMainFrameNavigatedUnbound(d, preserve) ==
    LET kept == OfPage(d)
        added == IF kept = <<>> THEN <<>> ELSE Sources(Head(kept)) \o kept
        rest == Only(log, Range(log) \ Range(added))
    IN  /\ log' = IF preserve THEN added \o rest ELSE added
        /\ pageLoad' = IF kept = <<>> THEN pageLoad ELSE d
        /\ UNCHANGED pageLoadOf

\* _onMainFrameNavigated: the log starts again with the requests of the document,
\* led by the hops before the first of them, and with the others if it is preserved.
OnMainFrameNavigated(d, preserve) ==
    LET kept == OfPage(d)
        added == IF kept = <<>> THEN <<>> ELSE Sources(Head(kept)) \o kept
        rest == Only(log, Range(log) \ Range(added))
    IN  /\ log' = IF preserve THEN added \o rest ELSE added
        /\ pageLoad' = IF kept = <<>> THEN pageLoad ELSE d
        /\ pageLoadOf' = [id \in Ids |-> [k \in DOMAIN pageLoadOf[id] |->
                              IF Ref(id, k) \in Range(added) THEN d ELSE pageLoadOf[id][k]]]

\* The main frame commits the document d, once; who does not listen is not told.
MainFrameNavigated(d, preserve) ==
    /\ d \notin committed /\ phase[d] \in {"answered", "received"}
    /\ origin[d] = Main /\ home[d] = Main
    /\ page' = d /\ committed' = committed \cup {d}
    /\ unseen' = (~isRecording \/ OfPage(d) = <<>>)
    /\ IF isRecording THEN OnMainFrameNavigated(d, preserve)
                      ELSE UNCHANGED <<log, pageLoad, pageLoadOf>>
    /\ UNCHANGED <<networkVars, isRecording, loader, logEvents>>

\* The main frame shows an error page for the document d, whose load has failed, or
\* was answered with an error and nothing to show: _onMainFrameNavigated returns at
\* once, and the log and the page load stay those of the page before.
ErrorPageNavigated(d) ==
    /\ d \notin committed /\ phase[d] \in {"answered", "ended"}
    /\ origin[d] = Main /\ home[d] = Main /\ Main \in models
    /\ committed' = committed \cup {d}
    /\ UNCHANGED <<networkVars, logVars, loader, page, unseen, logEvents>>

\* reset(): the log is emptied, and page loads of managers that went are forgotten.
Emptied ==
    /\ log' = <<>>
    /\ pageLoad' = IF Main \in models THEN pageLoad ELSE NoPageLoad

\* The user clears the log, or _willReloadPage does.
Reset ==
    /\ logEvents < MaxLogEvents /\ logEvents' = logEvents + 1
    /\ Emptied
    /\ UNCHANGED <<networkVars, isRecording, pageLoadOf, loader, page, committed, unseen>>

\* setIsRecording, when the setting is changed; a log that is not preserved is
\* emptied when it is switched on.
SetIsRecording(preserve) ==
    /\ logEvents < MaxLogEvents /\ logEvents' = logEvents + 1
    /\ isRecording' = ~isRecording
    /\ IF isRecording' /\ ~preserve THEN Emptied ELSE UNCHANGED <<log, pageLoad>>
    /\ UNCHANGED <<networkVars, pageLoadOf, loader, page, committed, unseen>>

\* The handlers that start a request, those that do not, and the log's own.  A
\* request of a WebSocket has no loader.
Next ==
    \/ \E id \in Ids :
          /\ \/ RequestWillBeSent(id) \/ Redirected(id)
             \/ loader[id] = NoLoader /\ WebSocketCreated(id)
          /\ OnRequestStarted(id)
    \/ /\ \/ \E id \in Ids : Missed(id) \/ DataReceived(id) \/ LoadingFinished(id)
                             \/ LoadingFailed(id) \/ WebSocketClosed(id)
          \/ \E id \in Ids, m \in Managers :
                \/ ResponseReceived(id, m)
                \/ RequestWillBeSentExtraInfo(id, m) \/ ResponseReceivedExtraInfo(id, m)
          \/ \E m \in Managers : ModelRemoved(m)
       /\ UNCHANGED <<logVars, pageVars>>
    \/ \E d \in Documents : ErrorPageNavigated(d)
    \/ \E d \in Documents, preserve \in BOOLEAN : MainFrameNavigated(d, preserve)
    \/ Reset
    \/ \E preserve \in BOOLEAN : SetIsRecording(preserve)

Spec == Init /\ [][Next]_vars

--------------------------------------------------------------------------------
(* Properties. *)

\* Every variable has its shape.
TypeOK ==
    /\ NetworkTypeOK
    /\ \A i \in DOMAIN log : log[i].id \in Ids /\ log[i].place \in Places(log[i].id)
    /\ isRecording \in BOOLEAN
    /\ pageLoad \in Documents \cup {NoPageLoad}
    /\ \A id \in Ids : Range(pageLoadOf[id]) \subseteq Documents \cup {NoPageLoad}
    /\ page \in Documents \cup {InitialPage} /\ committed \subseteq Documents /\ unseen \in BOOLEAN

\* The state has its shape, and the maps of the dispatchers agree.
Consistent == TypeOK /\ InFlightAgrees

\* The log shows each request once, and those of the document that was committed
\* last with the page load of that document, whether they started before the
\* commit or after it, and whatever error pages came since; unless the log had
\* none of them then.
LogShowsThePage ==
    /\ IsInjective(log)
    /\ ~unseen /\ page \in Documents =>
          \A r \in Range(OfPage(page)) : pageLoadOf[r.id][r.place] = page
================================================================================
