-------------------------- MODULE ModelBreakpoint_proofs --------------------------
(*****************************************************************************)
(* Proofs about DebuggerModel, and about ModelBreakpoint, which is composed  *)
(* with it: for any number of calls, pauses, edits and refreshes and any     *)
(* conditions.                                                               *)
(*                                                                           *)
(* DebuggerModel: when nothing is under way the model and the browser agree  *)
(* on who is enabled and on the pause, but for the overtakings that the      *)
(* history counts.  The argument is about the two queues: what the commands  *)
(* under way will make of the browser, and the answers under way of the      *)
(* model.                                                                    *)
(*                                                                           *)
(* ModelBreakpoint: when nothing is under way, the debugger has the          *)
(* breakpoint that the user wants and none other, and its id is known.  The  *)
(* argument is about the line of all messages under way: the answers, and    *)
(* behind them the commands that the browser has yet to see.                 *)
(*****************************************************************************)
EXTENDS ModelBreakpoint, TLAPS

--------------------------------------------------------------------------------
(* The invariant of DebuggerModel. *)


Has(q, kind) == \E i \in 1 .. Len(q) : q[i].kind = kind

AtMostOne(q, kind) ==
    \A i, j \in 1 .. Len(q) : q[i].kind = kind /\ q[j].kind = kind => i = j

\* What one message makes of a flag, and what a queue of them will.
Effect(m, flag) == IF m.kind = "enable" THEN TRUE ELSE IF m.kind = "disable" THEN FALSE ELSE flag

WillBe(q, flag) ==
    \/ \E i \in 1 .. Len(q) : /\ q[i].kind = "enable"
                              /\ \A j \in i + 1 .. Len(q) : q[j].kind # "disable"
    \/ flag = TRUE /\ \A i \in 1 .. Len(q) : q[i].kind # "disable"

DepthUnderWay == Has(toBackend, "depth") \/ Has(toFrontend, "depth")

\* One disabling at a time; but for it, the commands and the answers under way
\* make the browser and the registration what the model says.
EnablementExact ==
    ~crossed =>
        /\ AtMostOne(toBackend, "depth") /\ AtMostOne(toFrontend, "depth")
        /\ ~(Has(toBackend, "depth") /\ Has(toFrontend, "depth"))
        /\ DepthUnderWay => ~debuggerEnabled
        /\ ~DepthUnderWay =>
               /\ WillBe(toBackend, backendEnabled) <=> debuggerEnabled
               /\ WillBe(toBackend, WillBe(toFrontend, registered)) <=> debuggerEnabled

OffUnderWay == DepthUnderWay \/ Has(toBackend, "disable") \/ Has(toFrontend, "disable")

Told == {"paused", "resumed", "disable"}

\* A pause whose word is under way is that of the browser, or word of its end follows.
WordsExact ==
    \A i \in 1 .. Len(toFrontend) :
        toFrontend[i].kind = "paused" =>
            \/ toFrontend[i].pause = backendPaused
            \/ \E j \in i + 1 .. Len(toFrontend) : toFrontend[j].kind \in {"resumed", "disable"}

\* The pauses that the model shows, is going to show, or withheld.
Heard == {paused} \cup expanding \cup withheld

\* The pause of the browser is the last that the model is told of, was told of, or
\* the browser is going to be disabled.
PauseIsTold ==
    \/ \E i \in 1 .. Len(toFrontend) :
          /\ toFrontend[i].kind = "paused" /\ toFrontend[i].pause = backendPaused
          /\ \A j \in i + 1 .. Len(toFrontend) : toFrontend[j].kind \notin Told
    \/ /\ backendPaused \in Heard
       /\ \A i \in 1 .. Len(toFrontend) : toFrontend[i].kind \notin Told
    \/ DepthUnderWay \/ Has(toBackend, "disable")

KnownExact ==
    /\ \A n \in {paused} \cup expanding :
          n # None => backendPaused = n \/ Has(toFrontend, "resumed") \/ OffUnderWay
    /\ ~debuggerEnabled => OffUnderWay \/ (paused = None /\ expanding = {})
    /\ ~crossed /\ backendPaused # None => PauseIsTold

PauseExact ==
    /\ backendPaused # None => backendEnabled
    /\ WordsExact
    /\ outlived = {} => KnownExact

\* A word of a pause says which.
PausesNumbered ==
    \A i \in 1 .. Len(toFrontend) : toFrontend[i].kind = "paused" => toFrontend[i].pause # None

DebuggerInv == TypeOK /\ PausesNumbered /\ EnablementExact /\ PauseExact

--------------------------------------------------------------------------------
(* Queues. *)

(* The messages of a queue to which one is added, or from which one is taken. *)
LEMMA AddedElements ==
    ASSUME NEW q \in Seq(Message), NEW m \in Message
    PROVE  /\ Append(q, m) \in Seq(Message)
           /\ Len(Append(q, m)) = Len(q) + 1 /\ Len(q) \in Nat /\ Append(q, m)[Len(q) + 1] = m
           /\ \A i \in 1 .. Len(q) : Append(q, m)[i] = q[i]
<1> QED
  OBVIOUS

LEMMA TakenElements ==
    ASSUME NEW q \in Seq(Message), q # <<>>
    PROVE  /\ Tail(q) \in Seq(Message) /\ Head(q) \in Message /\ Head(q) = q[1] /\ 1 \in 1 .. Len(q)
           /\ Len(Tail(q)) = Len(q) - 1 /\ Len(Tail(q)) \in Nat
           /\ \A i \in 1 .. Len(Tail(q)) : i + 1 \in 1 .. Len(q) /\ Tail(q)[i] = q[i + 1]
           /\ \A i \in 1 .. Len(q) : i # 1 => i - 1 \in 1 .. Len(Tail(q)) /\ Tail(q)[i - 1] = q[i]
<1> QED
  OBVIOUS

(* A message that is added comes last, and decides if it is a switch. *)
LEMMA AddedLast ==
    ASSUME NEW q \in Seq(Message), NEW m \in Message, NEW flag \in BOOLEAN
    PROVE  /\ Append(q, m) \in Seq(Message)
           /\ \A kind : Has(Append(q, m), kind) <=> Has(q, kind) \/ m.kind = kind
           /\ \A kind : AtMostOne(q, kind) /\ (m.kind = kind => ~Has(q, kind))
                            => AtMostOne(Append(q, m), kind)
           /\ WillBe(Append(q, m), flag) <=> Effect(m, WillBe(q, flag))
<1> DEFINE r == Append(q, m)
<1>1. /\ r \in Seq(Message) /\ Len(r) = Len(q) + 1 /\ Len(q) \in Nat /\ r[Len(q) + 1] = m
      /\ \A i \in 1 .. Len(q) : r[i] = q[i]
  BY AddedElements
<1> HIDE DEF r
<1>2. \A kind : Has(r, kind) <=> Has(q, kind) \/ m.kind = kind
  BY <1>1 DEF Has
<1>3. ASSUME NEW kind, AtMostOne(q, kind), m.kind = kind => ~Has(q, kind)
      PROVE  AtMostOne(r, kind)
  BY <1>1, <1>3 DEF AtMostOne, Has
<1>4. WillBe(r, flag) <=> Effect(m, WillBe(q, flag))
  <2>1. CASE m.kind = "enable"
    <3>1. Len(q) + 1 \in 1 .. Len(r) /\ r[Len(q) + 1].kind = "enable"
          /\ \A j \in Len(q) + 1 + 1 .. Len(r) : r[j].kind # "disable"
      BY <1>1, <2>1
    <3> QED
      BY <2>1, <3>1 DEF WillBe, Effect
  <2>2. CASE m.kind = "disable"
    <3>1. Len(q) + 1 \in 1 .. Len(r) /\ r[Len(q) + 1].kind = "disable"
      BY <1>1, <2>2
    <3>2. ASSUME NEW i \in 1 .. Len(r), r[i].kind = "enable",
                 \A j \in i + 1 .. Len(r) : r[j].kind # "disable"
          PROVE  FALSE
      <4>1. i # Len(q) + 1
        BY <1>1, <2>2, <3>2
      <4>2. Len(q) + 1 \in i + 1 .. Len(r)
        BY <1>1, <3>2, <4>1
      <4> QED
        BY <3>1, <3>2, <4>2
    <3>3. ~WillBe(r, flag)
      BY <3>1, <3>2 DEF WillBe
    <3> QED
      BY <2>2, <3>3 DEF Effect
  <2>3. CASE m.kind \notin {"enable", "disable"}
    <3>1. (\A i \in 1 .. Len(r) : r[i].kind # "disable")
          <=> \A i \in 1 .. Len(q) : q[i].kind # "disable"
      BY <1>1, <2>3
    <3>2. \A i \in 1 .. Len(q) : (\A j \in i + 1 .. Len(r) : r[j].kind # "disable")
              <=> \A j \in i + 1 .. Len(q) : q[j].kind # "disable"
      BY <1>1, <2>3
    <3>3. \A i \in 1 .. Len(r) : r[i].kind = "enable" <=> i \in 1 .. Len(q) /\ q[i].kind = "enable"
      BY <1>1, <2>3
    <3>4. \A i \in 1 .. Len(q) : i \in 1 .. Len(r)
      BY <1>1
    <3>5. (\E i \in 1 .. Len(r) : r[i].kind = "enable" /\ \A j \in i + 1 .. Len(r) : r[j].kind # "disable")
          <=> \E i \in 1 .. Len(q) : q[i].kind = "enable"
                                     /\ \A j \in i + 1 .. Len(q) : q[j].kind # "disable"
      BY <3>2, <3>3, <3>4, Zenon
    <3>6. WillBe(r, flag) <=> WillBe(q, flag)
      BY <3>1, <3>5, Zenon DEF WillBe
    <3> QED
      BY <2>3, <3>6 DEF Effect
  <2> QED
    BY <2>1, <2>2, <2>3
<1> QED
  BY <1>1, <1>2, <1>3, <1>4 DEF r

(* A message that is taken has its effect before the rest. *)
LEMMA TakenFirst ==
    ASSUME NEW q \in Seq(Message), q # <<>>, NEW flag \in BOOLEAN
    PROVE  /\ Tail(q) \in Seq(Message) /\ Head(q) \in Message
           /\ \A kind : Has(q, kind) <=> Head(q).kind = kind \/ Has(Tail(q), kind)
           /\ \A kind : AtMostOne(q, kind) => /\ AtMostOne(Tail(q), kind)
                                              /\ Head(q).kind = kind => ~Has(Tail(q), kind)
           /\ WillBe(q, flag) <=> WillBe(Tail(q), Effect(Head(q), flag))
<1> DEFINE r == Tail(q)
           m == Head(q)
<1>1. /\ r \in Seq(Message) /\ m \in Message /\ Len(r) = Len(q) - 1 /\ Len(r) \in Nat /\ m = q[1]
      /\ 1 \in 1 .. Len(q)
      /\ \A i \in 1 .. Len(r) : i + 1 \in 1 .. Len(q) /\ r[i] = q[i + 1]
      /\ \A i \in 1 .. Len(q) : i # 1 => i - 1 \in 1 .. Len(r) /\ r[i - 1] = q[i]
  BY TakenElements
<1> HIDE DEF r, m
<1>2. \A kind : Has(q, kind) <=> m.kind = kind \/ Has(r, kind)
  BY <1>1 DEF Has
<1>3. ASSUME NEW kind, AtMostOne(q, kind)
      PROVE  AtMostOne(r, kind) /\ (m.kind = kind => ~Has(r, kind))
  BY <1>1, <1>3 DEF AtMostOne, Has
<1>4. WillBe(q, flag) <=> WillBe(r, Effect(m, flag))
  <2>1. (\A i \in 1 .. Len(q) : q[i].kind # "disable")
        <=> m.kind # "disable" /\ \A i \in 1 .. Len(r) : r[i].kind # "disable"
    <3>1. ASSUME \A i \in 1 .. Len(q) : q[i].kind # "disable"
          PROVE  m.kind # "disable" /\ \A i \in 1 .. Len(r) : r[i].kind # "disable"
      BY <1>1, <3>1
    <3>2. ASSUME m.kind # "disable", \A i \in 1 .. Len(r) : r[i].kind # "disable",
                 NEW i \in 1 .. Len(q)
          PROVE  q[i].kind # "disable"
      BY <1>1, <3>2
    <3> QED
      BY <3>1, <3>2
  <2>2. ASSUME NEW i \in 1 .. Len(r)
        PROVE  (\A j \in i + 1 .. Len(r) : r[j].kind # "disable")
               <=> \A j \in i + 2 .. Len(q) : q[j].kind # "disable"
    <3>1. \A j \in i + 1 .. Len(r) : j + 1 \in i + 2 .. Len(q) /\ r[j] = q[j + 1]
      BY <1>1, <2>2
    <3>2. \A j \in i + 2 .. Len(q) : j - 1 \in i + 1 .. Len(r) /\ q[j] = r[j - 1]
      BY <1>1, <2>2
    <3> QED
      BY <3>1, <3>2
  <2>3. (\A j \in 1 .. Len(r) : r[j].kind # "disable")
        <=> \A j \in 1 + 1 .. Len(q) : q[j].kind # "disable"
    <3>1. \A j \in 1 .. Len(r) : j + 1 \in 1 + 1 .. Len(q) /\ r[j] = q[j + 1]
      BY <1>1
    <3>2. \A j \in 1 + 1 .. Len(q) : j - 1 \in 1 .. Len(r) /\ q[j] = r[j - 1]
      BY <1>1
    <3> QED
      BY <3>1, <3>2
  <2>4. (\E i \in 1 .. Len(q) : i # 1 /\ q[i].kind = "enable"
                                /\ \A j \in i + 1 .. Len(q) : q[j].kind # "disable")
        <=> \E i \in 1 .. Len(r) : r[i].kind = "enable"
                                   /\ \A j \in i + 1 .. Len(r) : r[j].kind # "disable"
    <3>1. ASSUME NEW i \in 1 .. Len(q), i # 1, q[i].kind = "enable",
                 \A j \in i + 1 .. Len(q) : q[j].kind # "disable"
          PROVE  \E k \in 1 .. Len(r) : r[k].kind = "enable"
                                        /\ \A j \in k + 1 .. Len(r) : r[j].kind # "disable"
      <4>1. i - 1 \in 1 .. Len(r) /\ r[i - 1].kind = "enable" /\ (i - 1) + 2 = i + 1
        BY <1>1, <3>1
      <4>2. \A j \in (i - 1) + 1 .. Len(r) : r[j].kind # "disable"
        BY <2>2, <3>1, <4>1
      <4> QED
        BY <4>1, <4>2
    <3>2. ASSUME NEW k \in 1 .. Len(r), r[k].kind = "enable",
                 \A j \in k + 1 .. Len(r) : r[j].kind # "disable"
          PROVE  \E i \in 1 .. Len(q) : i # 1 /\ q[i].kind = "enable"
                                        /\ \A j \in i + 1 .. Len(q) : q[j].kind # "disable"
      <4>1. /\ k + 1 \in 1 .. Len(q) /\ q[k + 1].kind = "enable" /\ k + 1 # 1
            /\ (k + 1) + 1 = k + 2
        BY <1>1, <3>2
      <4>2. \A j \in (k + 1) + 1 .. Len(q) : q[j].kind # "disable"
        BY <2>2, <3>2, <4>1
      <4> QED
        BY <4>1, <4>2
    <3> QED
      BY <3>1, <3>2
  <2>5. CASE m.kind = "enable"
    <3>1. Effect(m, flag) = TRUE
      BY <2>5 DEF Effect
    <3> QED
      BY <1>1, <2>1, <2>3, <2>4, <2>5, <3>1 DEF WillBe
  <2>6. CASE m.kind = "disable"
    <3>1. Effect(m, flag) = FALSE
      BY <2>6 DEF Effect
    <3> QED
      BY <1>1, <2>1, <2>4, <2>6, <3>1 DEF WillBe
  <2>7. CASE m.kind \notin {"enable", "disable"}
    <3>1. Effect(m, flag) = flag /\ m.kind # "enable"
      BY <2>7 DEF Effect
    <3> QED
      BY <1>1, <2>1, <2>4, <2>7, <3>1 DEF WillBe
  <2> QED
    BY <2>5, <2>6, <2>7
<1> QED
  BY <1>1, <1>2, <1>3, <1>4 DEF r, m

LEMMA NoneUnderWay ==
    ASSUME NEW flag \in BOOLEAN
    PROVE  (WillBe(<<>>, flag) <=> flag) /\ \A kind : ~Has(<<>>, kind)
<1> QED
  BY DEF WillBe, Has

(* What is to be switched off has a command to do so under way. *)
LEMMA SwitchedOff ==
    ASSUME NEW q \in Seq(Message), ~WillBe(q, TRUE)
    PROVE  Has(q, "disable")
<1> QED
  BY DEF WillBe, Has

--------------------------------------------------------------------------------
(* The type invariant. *)

LEMMA UnderWayMeans ==
    ASSUME TypeOK
    PROVE  \A kind : UnderWay(kind) <=> Has(toBackend, kind) \/ Has(toFrontend, kind)
<1>1. Range(toBackend) = {toBackend[i] : i \in 1 .. Len(toBackend)}
      /\ Range(toFrontend) = {toFrontend[i] : i \in 1 .. Len(toFrontend)}
  BY DEF Range, TypeOK
<1> QED
  BY <1>1 DEF UnderWay, Has

LEMMA TypeInit == Init => TypeOK /\ PausesNumbered
<1> SUFFICES ASSUME Init PROVE TypeOK /\ PausesNumbered
  OBVIOUS
<1>1. debuggerEnabled \in BOOLEAN /\ debuggerId \in BOOLEAN /\ registered \in BOOLEAN
      /\ backendEnabled \in BOOLEAN /\ crossed \in BOOLEAN
      /\ ignoring \in BOOLEAN /\ continuing \in BOOLEAN
  BY DEF Init
<1> QED
  BY <1>1, ConstantsAssumption DEF Init, TypeOK, None, PausesNumbered

LEMMA FlagsStep ==
    ASSUME TypeOK, Next
    PROVE  /\ debuggerEnabled' \in BOOLEAN /\ debuggerId' \in BOOLEAN /\ registered' \in BOOLEAN
           /\ backendEnabled' \in BOOLEAN /\ crossed' \in BOOLEAN
           /\ registered' => debuggerId'
           /\ ignoring' \in BOOLEAN /\ continuing' \in BOOLEAN
<1> USE DEF Next, Enable, Disable, SyncDebuggerId, BackendAnswers, BackendPauses, BackendResumes,
    RegisterDebugger, DepthAnswered, Disabled, PausedScript, ResumedScript, CallFramesExpanded,
    Receive, IgnoreDebuggerPausedEvents, ContinueToLocation, Detailed, withholding
<1>1. debuggerEnabled' \in BOOLEAN
  BY DEF TypeOK
<1>2. debuggerId' \in BOOLEAN
  BY DEF TypeOK
<1>3. registered' \in BOOLEAN
  BY DEF TypeOK
<1>4. backendEnabled' \in BOOLEAN
  BY DEF TypeOK
<1>5. crossed' \in BOOLEAN
  BY DEF TypeOK
<1>6. registered' => debuggerId'
  BY DEF TypeOK
<1>7. ignoring' \in BOOLEAN
  BY DEF TypeOK
<1>8. continuing' \in BOOLEAN
  BY DEF TypeOK
<1> QED
  BY <1>1, <1>2, <1>3, <1>4, <1>5, <1>6, <1>7, <1>8

LEMMA CountersStep ==
    ASSUME TypeOK, PausesNumbered, Next
    PROVE  /\ paused' \in 0 .. MaxPauses /\ backendPaused' \in 0 .. MaxPauses
           /\ expanding' \subseteq 1 .. MaxPauses /\ outlived' \subseteq 1 .. MaxPauses
           /\ withheld' \subseteq 1 .. MaxPauses
           /\ calls' \in 0 .. MaxCalls /\ pauses' \in 0 .. MaxPauses
<1> USE ConstantsAssumption
<1>0. /\ paused \in 0 .. MaxPauses /\ backendPaused \in 0 .. MaxPauses
      /\ expanding \subseteq 1 .. MaxPauses /\ outlived \subseteq 1 .. MaxPauses
      /\ withheld \subseteq 1 .. MaxPauses
      /\ calls \in 0 .. MaxCalls /\ pauses \in 0 .. MaxPauses
  BY DEF TypeOK
<1> USE DEF withholding
<1>8. CASE IgnoreDebuggerPausedEvents \/ ContinueToLocation
  BY <1>0, <1>8 DEF IgnoreDebuggerPausedEvents, ContinueToLocation
<1>1. CASE Enable \/ Disable \/ SyncDebuggerId
  <2>1. UNCHANGED <<paused, backendPaused, expanding, outlived, pauses, withheld>>
    BY <1>1 DEF Enable, Disable, SyncDebuggerId
  <2>2. calls < MaxCalls /\ calls' = calls + 1
    BY <1>1 DEF Enable, Disable, SyncDebuggerId, Call
  <2> QED
    BY <1>0, <2>1, <2>2
<1>2. CASE BackendAnswers \/ BackendResumes
  <2>1. UNCHANGED <<paused, expanding, outlived, pauses, calls, withheld>>
        /\ backendPaused' \in {None, backendPaused}
    BY <1>2 DEF BackendAnswers, BackendResumes
  <2> QED
    BY <1>0, <2>1 DEF None
<1>3. CASE BackendPauses
  <2>1. UNCHANGED <<paused, expanding, outlived, calls, withheld>> /\ backendPaused' = pauses'
        /\ pauses < MaxPauses /\ pauses' = pauses + 1
    BY <1>3 DEF BackendPauses
  <2> QED
    BY <1>0, <2>1
<1>4. CASE RegisterDebugger \/ DepthAnswered \/ Disabled \/ ResumedScript
  <2>1. /\ UNCHANGED <<backendPaused, expanding, pauses, calls, withheld>>
        /\ paused' \in {None, paused} /\ outlived' \subseteq outlived \cup expanding
    BY <1>4 DEF RegisterDebugger, DepthAnswered, Disabled, ResumedScript, Receive
  <2> QED
    BY <1>0, <2>1 DEF None
<1>5. CASE PausedScript
  <2>1. Head(toFrontend).pause \in 1 .. MaxPauses
    <3>1. /\ Head(toFrontend) = toFrontend[1] /\ Head(toFrontend) \in Message
          /\ 1 \in 1 .. Len(toFrontend) /\ Head(toFrontend).kind = "paused"
      BY <1>5, TakenElements DEF PausedScript, Receive, TypeOK
    <3> QED
      BY <3>1 DEF PausesNumbered, Message, None
  <2>2. /\ UNCHANGED <<backendPaused, outlived, pauses, calls>>
        /\ paused' \in {paused, Head(toFrontend).pause}
        /\ expanding' \subseteq expanding \cup {Head(toFrontend).pause}
        /\ withheld' \subseteq withheld \cup {Head(toFrontend).pause}
    BY <1>5 DEF PausedScript, Detailed, Receive
  <2> QED
    BY <1>0, <2>1, <2>2
<1>6. ASSUME NEW n \in 1 .. MaxPauses, CallFramesExpanded(n)
      PROVE  /\ UNCHANGED <<backendPaused, outlived, pauses, calls>>
             /\ paused' \in {paused, n} /\ expanding' \subseteq expanding
             /\ withheld' \subseteq withheld \cup {n}
  BY <1>6 DEF CallFramesExpanded, Detailed
<1>7. CASE \E n \in 1 .. MaxPauses : CallFramesExpanded(n)
  <2> PICK n \in 1 .. MaxPauses : CallFramesExpanded(n)
    BY <1>7
  <2>1. /\ UNCHANGED <<backendPaused, outlived, pauses, calls>>
        /\ paused' \in {paused, n} /\ expanding' \subseteq expanding
        /\ withheld' \subseteq withheld \cup {n}
    BY <1>6
  <2> QED
    BY <1>0, <2>1
<1> QED
  BY <1>1, <1>2, <1>3, <1>4, <1>5, <1>7, <1>8 DEF Next

LEMMA QueuesStep ==
    ASSUME TypeOK, PausesNumbered, Next
    PROVE  toBackend' \in Seq(Message) /\ toFrontend' \in Seq(Message) /\ PausesNumbered'
<1> USE ConstantsAssumption DEF None
<1>1. toBackend \in Seq(Message) /\ toFrontend \in Seq(Message)
  BY DEF TypeOK
<1>2. Plain("enable") \in Message /\ Plain("depth") \in Message /\ Plain("disable") \in Message
      /\ Plain("resumed") \in Message /\ Plain("resumed").kind # "paused"
  BY DEF Plain, Message
<1>3. CASE Enable \/ Disable \/ SyncDebuggerId
  <2>1. toFrontend' = toFrontend /\ toBackend' \in Seq(Message)
    BY <1>1, <1>2, <1>3, AddedElements DEF Enable, Disable, SyncDebuggerId, Call
  <2> QED
    BY <1>1, <2>1 DEF PausesNumbered
<1>4. ASSUME NEW m \in Message, m.kind = "paused" => m.pause # None,
             toFrontend' = Append(toFrontend, m),
             toBackend' = toBackend \/ (toBackend # <<>> /\ toBackend' = Tail(toBackend))
      PROVE  toBackend' \in Seq(Message) /\ toFrontend' \in Seq(Message) /\ PausesNumbered'
  <2>1. toBackend' \in Seq(Message)
    BY <1>1, <1>4, TakenElements
  <2>2. /\ toFrontend' \in Seq(Message) /\ Len(toFrontend') = Len(toFrontend) + 1
        /\ Len(toFrontend) \in Nat /\ toFrontend'[Len(toFrontend) + 1] = m
        /\ \A i \in 1 .. Len(toFrontend) : toFrontend'[i] = toFrontend[i]
    BY <1>1, <1>4, AddedElements
  <2>3. PausesNumbered'
    BY <1>4, <2>2 DEF PausesNumbered
  <2> QED
    BY <2>1, <2>2, <2>3
<1>5. CASE BackendAnswers
  <2>1. Head(toBackend) \in Message
    BY <1>1, <1>5, TakenElements DEF BackendAnswers
  <2> QED
    BY <1>4, <1>5, <2>1 DEF BackendAnswers
<1>6. CASE BackendPauses
  <2>1. [kind |-> "paused", pause |-> pauses + 1] \in Message /\ pauses + 1 # 0
    BY <1>6 DEF BackendPauses, Message, TypeOK
  <2>2. /\ toFrontend' = Append(toFrontend, [kind |-> "paused", pause |-> pauses + 1])
        /\ toBackend' = toBackend
    BY <1>6 DEF BackendPauses
  <2> QED
    BY <1>4, <2>1, <2>2
<1>7. CASE BackendResumes
  <2>1. toFrontend' = Append(toFrontend, Plain("resumed")) /\ toBackend' = toBackend
    BY <1>7 DEF BackendResumes
  <2> QED
    BY <1>2, <1>4, <2>1
<1>8. CASE RegisterDebugger \/ DepthAnswered \/ Disabled \/ PausedScript \/ ResumedScript
  <2>1. toFrontend # <<>> /\ toFrontend' = Tail(toFrontend)
        /\ (toBackend' = toBackend \/ toBackend' = Append(toBackend, Plain("disable")))
    BY <1>8 DEF RegisterDebugger, DepthAnswered, Disabled, PausedScript, ResumedScript, Receive
  <2>2. toBackend' \in Seq(Message)
    BY <1>1, <1>2, <2>1, AddedElements
  <2>3. /\ toFrontend' \in Seq(Message)
        /\ \A i \in 1 .. Len(toFrontend') : i + 1 \in 1 .. Len(toFrontend)
                                            /\ toFrontend'[i] = toFrontend[i + 1]
    BY <1>1, <2>1, TakenElements
  <2> QED
    BY <2>2, <2>3 DEF PausesNumbered
<1>9. CASE \E n \in 1 .. MaxPauses : CallFramesExpanded(n)
  BY <1>1, <1>9 DEF CallFramesExpanded, PausesNumbered
<1>10. CASE IgnoreDebuggerPausedEvents \/ ContinueToLocation
  BY <1>1, <1>10 DEF IgnoreDebuggerPausedEvents, ContinueToLocation, PausesNumbered
<1> QED
  BY <1>3, <1>5, <1>6, <1>7, <1>8, <1>9, <1>10 DEF Next

LEMMA TypeStep ==
    ASSUME TypeOK, PausesNumbered, Next
    PROVE  TypeOK' /\ PausesNumbered'
<1> QED
  BY FlagsStep, CountersStep, QueuesStep DEF TypeOK

--------------------------------------------------------------------------------
(* Who is enabled. *)

(* A command is added to those under way: what they will make is what it says. *)
LEMMA CommandSent ==
    ASSUME TypeOK, EnablementExact, ~crossed, NEW m \in Message, ~DepthUnderWay,
           toBackend' = Append(toBackend, m), m.kind \in {"enable", "disable"},
           UNCHANGED <<toFrontend, backendEnabled, registered, crossed>>,
           debuggerEnabled' = (m.kind = "enable")
    PROVE  EnablementExact'
<1>1. /\ toBackend \in Seq(Message) /\ backendEnabled \in BOOLEAN /\ registered \in BOOLEAN
      /\ WillBe(toFrontend, registered) \in BOOLEAN
  BY DEF TypeOK, WillBe
<1>2. ~DepthUnderWay'
  BY <1>1, AddedLast DEF DepthUnderWay
<1>3. AtMostOne(toBackend', "depth") /\ AtMostOne(toFrontend', "depth")
  BY <1>1, AddedLast DEF EnablementExact
<1>4. /\ WillBe(toBackend', backendEnabled) <=> Effect(m, WillBe(toBackend, backendEnabled))
      /\ WillBe(toBackend', WillBe(toFrontend, registered))
             <=> Effect(m, WillBe(toBackend, WillBe(toFrontend, registered)))
  BY <1>1, AddedLast
<1>5. (WillBe(toBackend', backendEnabled) <=> debuggerEnabled')
      /\ (WillBe(toBackend', WillBe(toFrontend, registered)) <=> debuggerEnabled')
  BY <1>4 DEF Effect
<1> QED
  BY <1>2, <1>3, <1>5 DEF EnablementExact, DepthUnderWay

(* What comes back and is no answer to the first command of a disabling. *)
LEMMA AnswerTaken ==
    ASSUME TypeOK, EnablementExact, ~crossed, toFrontend # <<>>, toFrontend' = Tail(toFrontend),
           Head(toFrontend).kind # "depth", registered' = Effect(Head(toFrontend), registered),
           UNCHANGED <<toBackend, backendEnabled, debuggerEnabled>>
    PROVE  EnablementExact'
<1>1. /\ toFrontend \in Seq(Message) /\ registered \in BOOLEAN
  BY DEF TypeOK
<1>2. WillBe(toFrontend', registered') <=> WillBe(toFrontend, registered)
  BY <1>1, TakenFirst
<1>3. /\ AtMostOne(toFrontend, "depth") => AtMostOne(toFrontend', "depth")
      /\ Has(toFrontend', "depth") <=> Has(toFrontend, "depth")
  BY <1>1, TakenFirst
<1>4. WillBe(toFrontend', registered') = WillBe(toFrontend, registered)
  BY <1>2 DEF WillBe
<1> QED
  BY <1>3, <1>4 DEF EnablementExact, DepthUnderWay

LEMMA EnablementStep ==
    ASSUME TypeOK, EnablementExact, Next
    PROVE  EnablementExact'
<1> SUFFICES ASSUME ~crossed'
             PROVE  EnablementExact'
  BY DEF EnablementExact
<1>1. ~crossed
  BY DEF Next, Enable, Disable, SyncDebuggerId, BackendAnswers, BackendPauses, BackendResumes,
     RegisterDebugger, DepthAnswered, Disabled, PausedScript, ResumedScript, CallFramesExpanded,
     Receive, IgnoreDebuggerPausedEvents, ContinueToLocation
<1>2. /\ toBackend \in Seq(Message) /\ toFrontend \in Seq(Message)
      /\ backendEnabled \in BOOLEAN /\ registered \in BOOLEAN
      /\ \A q, flag : WillBe(q, flag) \in BOOLEAN
  BY DEF TypeOK, WillBe
<1>3. /\ Plain("enable") \in Message /\ Plain("depth") \in Message /\ Plain("disable") \in Message
      /\ Plain("resumed") \in Message
      /\ \A kind : Plain(kind).kind = kind
  BY ConstantsAssumption DEF Plain, Message, None
<1>4. CASE Enable
  <2>1. ~DepthUnderWay
    BY <1>4, UnderWayMeans DEF Enable, DepthUnderWay
  <2>2. toBackend' = Append(toBackend, Plain("enable")) /\ debuggerEnabled' = TRUE
        /\ UNCHANGED <<toFrontend, backendEnabled, registered>>
    BY <1>4 DEF Enable, Call
  <2>3. crossed' = crossed
    BY <1>1, FlagsStep DEF TypeOK
  <2> QED
    BY <1>1, <1>3, <2>1, <2>2, <2>3, CommandSent
<1>5. CASE Disable
  <2>1. ~DepthUnderWay
    BY <1>1, <1>5 DEF Disable, EnablementExact
  <2>2. toBackend' = Append(toBackend, Plain("depth")) /\ ~debuggerEnabled' /\ toFrontend' = toFrontend
    BY <1>5 DEF Disable, Call
  <2>3. /\ Has(toBackend', "depth") /\ ~Has(toFrontend', "depth")
        /\ AtMostOne(toBackend', "depth") /\ AtMostOne(toFrontend', "depth")
    BY <1>1, <1>2, <1>3, <2>1, <2>2, AddedLast DEF DepthUnderWay, EnablementExact
  <2> QED
    BY <2>2, <2>3 DEF EnablementExact, DepthUnderWay
<1>6. CASE SyncDebuggerId
  <2>1. toBackend' = Append(toBackend, Plain("enable")) /\ registered
        /\ UNCHANGED <<debuggerEnabled, toFrontend, backendEnabled, registered>>
    BY <1>6 DEF SyncDebuggerId, Call
  <2>2. ~Has(toBackend, "disable") /\ ~Has(toFrontend, "disable")
    BY <1>6, UnderWayMeans DEF SyncDebuggerId
  <2>3. CASE DepthUnderWay
    <3>1. /\ AtMostOne(toBackend', "depth") /\ (Has(toBackend', "depth") <=> Has(toBackend, "depth"))
      BY <1>1, <1>2, <1>3, <2>1, AddedLast DEF EnablementExact
    <3> QED
      BY <1>1, <2>1, <2>3, <3>1 DEF EnablementExact, DepthUnderWay
  <2>4. CASE ~DepthUnderWay
    <3>1. registered = TRUE
      BY <1>2, <2>1
    <3>2. WillBe(toFrontend, TRUE) = TRUE /\ WillBe(toBackend, TRUE) = TRUE
      BY <1>2, <2>2, SwitchedOff
    <3>3. WillBe(toFrontend, registered) = TRUE
      BY <3>1, <3>2
    <3>4. WillBe(toBackend, WillBe(toFrontend, registered)) = TRUE
      BY <3>2, <3>3
    <3>5. debuggerEnabled' = TRUE
      BY <1>1, <2>1, <2>4, <3>4 DEF EnablementExact, TypeOK
    <3>6. crossed' = crossed
      BY <1>1, FlagsStep DEF TypeOK
    <3> QED
      BY <1>1, <1>3, <2>1, <2>4, <3>5, <3>6, CommandSent
  <2> QED
    BY <2>3, <2>4
<1>7. CASE BackendAnswers
  <2> DEFINE m == Head(toBackend)
  <2>1. /\ toBackend # <<>> /\ toBackend' = Tail(toBackend) /\ toFrontend' = Append(toFrontend, m)
        /\ backendEnabled' = Effect(m, backendEnabled)
        /\ UNCHANGED <<debuggerEnabled, registered>>
    BY <1>7 DEF BackendAnswers, Effect
  <2>2. m \in Message
    BY <1>2, <2>1, TakenElements
  <2>3. /\ WillBe(toBackend', backendEnabled') <=> WillBe(toBackend, backendEnabled)
    BY <1>2, <2>1, TakenFirst
  <2>4. WillBe(toFrontend', registered) <=> Effect(m, WillBe(toFrontend, registered))
    BY <1>2, <2>1, <2>2, AddedLast
  <2>5. WillBe(toFrontend', registered) = Effect(m, WillBe(toFrontend, registered))
    BY <1>2, <2>4 DEF Effect
  <2>6. WillBe(toBackend', Effect(m, WillBe(toFrontend, registered)))
        <=> WillBe(toBackend, WillBe(toFrontend, registered))
    BY <1>2, <2>1, TakenFirst
  <2>7. /\ Has(toBackend, "depth") <=> m.kind = "depth" \/ Has(toBackend', "depth")
        /\ AtMostOne(toBackend, "depth") => AtMostOne(toBackend', "depth")
                                            /\ (m.kind = "depth" => ~Has(toBackend', "depth"))
    BY <1>2, <2>1, TakenFirst
  <2>8. /\ Has(toFrontend', "depth") <=> Has(toFrontend, "depth") \/ m.kind = "depth"
        /\ AtMostOne(toFrontend, "depth") /\ (m.kind = "depth" => ~Has(toFrontend, "depth"))
               => AtMostOne(toFrontend', "depth")
    BY <1>2, <2>1, <2>2, AddedLast
  <2> HIDE DEF m
  <2> QED
    BY <1>1, <2>1, <2>3, <2>5, <2>6, <2>7, <2>8 DEF EnablementExact, DepthUnderWay
<1>8. CASE BackendPauses \/ BackendResumes
  <2>1. PICK m \in Message : /\ m.kind \in {"paused", "resumed"}
                             /\ toFrontend' = Append(toFrontend, m)
                             /\ UNCHANGED <<toBackend, backendEnabled, debuggerEnabled, registered>>
    <3>1. CASE BackendPauses
      <4>1. [kind |-> "paused", pause |-> pauses + 1] \in Message
        BY <3>1, ConstantsAssumption DEF BackendPauses, Message, TypeOK
      <4> QED
        BY <3>1, <4>1 DEF BackendPauses
    <3>2. CASE BackendResumes
      BY <1>3, <3>2 DEF BackendResumes
    <3> QED
      BY <1>8, <3>1, <3>2
  <2>2. WillBe(toFrontend', registered) <=> WillBe(toFrontend, registered)
    BY <1>2, <2>1, AddedLast DEF Effect
  <2>3. WillBe(toFrontend', registered') = WillBe(toFrontend, registered)
    BY <1>2, <2>1, <2>2
  <2>4. /\ Has(toFrontend', "depth") <=> Has(toFrontend, "depth")
        /\ AtMostOne(toFrontend, "depth") => AtMostOne(toFrontend', "depth")
    BY <1>2, <2>1, AddedLast
  <2> QED
    BY <1>1, <2>1, <2>3, <2>4 DEF EnablementExact, DepthUnderWay
<1>9. CASE RegisterDebugger \/ Disabled \/ PausedScript \/ ResumedScript
  <2>1. /\ toFrontend # <<>> /\ toFrontend' = Tail(toFrontend) /\ Head(toFrontend).kind # "depth"
        /\ UNCHANGED <<toBackend, backendEnabled, debuggerEnabled>>
    BY <1>9 DEF RegisterDebugger, Disabled, PausedScript, ResumedScript, Receive
  <2>2. registered' = Effect(Head(toFrontend), registered)
    BY <1>9 DEF RegisterDebugger, Disabled, PausedScript, ResumedScript, Receive, Effect, TypeOK
  <2> QED
    BY <1>1, <2>1, <2>2, AnswerTaken
<1>10. CASE DepthAnswered
  <2>1. /\ toFrontend # <<>> /\ toFrontend' = Tail(toFrontend) /\ Head(toFrontend).kind = "depth"
        /\ toBackend' = Append(toBackend, Plain("disable"))
        /\ UNCHANGED <<debuggerEnabled, registered, backendEnabled>>
    BY <1>10 DEF DepthAnswered, Receive
  <2>2. /\ Has(toFrontend, "depth") /\ AtMostOne(toFrontend', "depth")
        /\ ~Has(toFrontend', "depth")
    BY <1>1, <1>2, <2>1, TakenFirst DEF EnablementExact
  <2>3. ~Has(toBackend', "depth") /\ AtMostOne(toBackend', "depth")
    BY <1>1, <1>2, <1>3, <2>1, <2>2, AddedLast DEF EnablementExact
  <2>4. ~debuggerEnabled
    BY <1>1, <2>2 DEF EnablementExact, DepthUnderWay
  <2>5. \A flag \in BOOLEAN : ~WillBe(toBackend', flag)
    BY <1>2, <1>3, <2>1, AddedLast DEF Effect
  <2>6. ~WillBe(toBackend', backendEnabled') /\ ~WillBe(toBackend', WillBe(toFrontend', registered'))
    BY <1>2, <2>1, <2>5
  <2> QED
    BY <2>1, <2>2, <2>3, <2>4, <2>6 DEF EnablementExact, DepthUnderWay
<1>11. CASE \E n \in 1 .. MaxPauses : CallFramesExpanded(n)
  <2>1. UNCHANGED <<toBackend, toFrontend, backendEnabled, debuggerEnabled, registered, crossed>>
    BY <1>11 DEF CallFramesExpanded
  <2> QED
    BY <2>1 DEF EnablementExact, DepthUnderWay
<1>12. CASE IgnoreDebuggerPausedEvents \/ ContinueToLocation
  <2>1. UNCHANGED <<toBackend, toFrontend, backendEnabled, debuggerEnabled, registered, crossed>>
    BY <1>12 DEF IgnoreDebuggerPausedEvents, ContinueToLocation
  <2> QED
    BY <2>1 DEF EnablementExact, DepthUnderWay
<1> QED
  BY <1>4, <1>5, <1>6, <1>7, <1>8, <1>9, <1>10, <1>11, <1>12 DEF Next

--------------------------------------------------------------------------------
(* What is known of pauses. *)

(* A command is sent: nothing that was under way is lost. *)
LEMMA PauseCommand ==
    ASSUME TypeOK, PauseExact, Enable \/ Disable \/ SyncDebuggerId
    PROVE  PauseExact'
<1>1. PICK m \in Message : toBackend' = Append(toBackend, m) /\ (Disable => m.kind = "depth")
  BY ConstantsAssumption DEF Enable, Disable, SyncDebuggerId, Call, Plain, Message, None
<1>2. /\ UNCHANGED <<toFrontend, paused, expanding, backendEnabled, backendPaused, outlived, withheld>>
      /\ crossed => crossed'
      /\ ~debuggerEnabled' => Disable \/ ~debuggerEnabled
  <2>1. UNCHANGED <<toFrontend, paused, expanding, backendEnabled, backendPaused, outlived, withheld>>
    BY DEF Enable, Disable, SyncDebuggerId, withholding
  <2>2. crossed => crossed'
    BY DEF Enable, Disable, SyncDebuggerId
  <2>3. ~debuggerEnabled' => Disable \/ ~debuggerEnabled
    BY DEF Enable, SyncDebuggerId
  <2> QED
    BY <2>1, <2>2, <2>3
<1>3. \A kind : Has(toBackend, kind) \/ m.kind = kind => Has(toBackend', kind)
  BY <1>1, AddedLast DEF TypeOK
<1>4. /\ DepthUnderWay \/ Disable => DepthUnderWay'
      /\ OffUnderWay \/ Disable => OffUnderWay'
      /\ PauseIsTold => PauseIsTold'
  BY <1>1, <1>2, <1>3 DEF DepthUnderWay, OffUnderWay, PauseIsTold, Heard
<1>5. KnownExact => KnownExact'
  BY <1>2, <1>4 DEF KnownExact
<1> QED
  BY <1>2, <1>5 DEF PauseExact, WordsExact

LEMMA PauseBackend ==
    ASSUME TypeOK, PausesNumbered, PauseExact, BackendAnswers \/ BackendPauses \/ BackendResumes
    PROVE  PauseExact'
<1> USE DEF None
<1> DEFINE n == Len(toFrontend)
<1>1. toBackend \in Seq(Message) /\ toFrontend \in Seq(Message)
  BY DEF TypeOK
<1>2. UNCHANGED <<debuggerEnabled, paused, expanding, outlived, crossed, withheld>>
  BY DEF BackendAnswers, BackendPauses, BackendResumes, withholding
<1>3. CASE BackendAnswers
  <2> DEFINE m == Head(toBackend)
  <2>1. /\ m \in Message /\ toBackend # <<>> /\ toBackend' = Tail(toBackend)
        /\ toFrontend' = Append(toFrontend, m) /\ m.kind \notin {"paused", "resumed"}
        /\ backendEnabled' = IF m.kind = "enable" THEN TRUE ELSE IF m.kind = "disable" THEN FALSE
                                                                ELSE backendEnabled
        /\ backendPaused' = IF m.kind = "disable" THEN None ELSE backendPaused
    BY <1>1, <1>3, TakenElements DEF BackendAnswers
  <2>2. /\ Len(toFrontend') = n + 1 /\ n \in Nat /\ toFrontend'[n + 1] = m
        /\ \A i \in 1 .. n : toFrontend'[i] = toFrontend[i]
    BY <1>1, <2>1, AddedElements
  <2>3. \A kind : /\ Has(toBackend, kind) <=> m.kind = kind \/ Has(toBackend', kind)
                  /\ Has(toFrontend', kind) <=> Has(toFrontend, kind) \/ m.kind = kind
    BY <1>1, <2>1, TakenFirst, AddedLast DEF TypeOK
  <2> HIDE DEF m
  <2>4. OffUnderWay => OffUnderWay'
    BY <2>3 DEF OffUnderWay, DepthUnderWay
  <2>5. WordsExact'
    <3> SUFFICES ASSUME NEW i \in 1 .. Len(toFrontend'), toFrontend'[i].kind = "paused"
                 PROVE  \/ toFrontend'[i].pause = backendPaused'
                        \/ \E j \in i + 1 .. Len(toFrontend') :
                               toFrontend'[j].kind \in {"resumed", "disable"}
      BY DEF WordsExact
    <3>1. i \in 1 .. n /\ toFrontend[i].kind = "paused" /\ toFrontend'[i] = toFrontend[i]
      BY <2>1, <2>2
    <3>2. CASE m.kind = "disable"
      BY <2>2, <3>1, <3>2
    <3>3. CASE m.kind # "disable"
      BY <2>1, <2>2, <3>1, <3>3 DEF PauseExact, WordsExact
    <3> QED
      BY <3>2, <3>3
  <2>6. KnownExact => KnownExact'
    <3>1. CASE m.kind = "disable"
      <4>1. backendPaused' = None /\ OffUnderWay'
        BY <2>1, <2>3, <3>1 DEF OffUnderWay
      <4> QED
        BY <4>1 DEF KnownExact
    <3>2. CASE m.kind # "disable"
      <4>1. m.kind \notin Told
        BY <2>1, <3>2 DEF Told
      <4>2. DepthUnderWay \/ Has(toBackend, "disable") => DepthUnderWay' \/ Has(toBackend', "disable")
        BY <2>3, <3>2 DEF DepthUnderWay
      <4>3. (\A i \in 1 .. n : toFrontend[i].kind \notin Told)
            => \A i \in 1 .. Len(toFrontend') : toFrontend'[i].kind \notin Told
        BY <2>2, <4>1
      <4>4. \A i \in 1 .. n : /\ i \in 1 .. Len(toFrontend')
                              /\ (\A j \in i + 1 .. n : toFrontend[j].kind \notin Told)
                                 => \A j \in i + 1 .. Len(toFrontend') : toFrontend'[j].kind \notin Told
        BY <2>2, <4>1
      <4>5. UNCHANGED <<backendPaused>>
        BY <2>1, <3>2
      <4>6. PauseIsTold => PauseIsTold'
        BY <1>2, <2>2, <4>2, <4>3, <4>4, <4>5 DEF PauseIsTold, Heard
      <4>7. Has(toFrontend, "resumed") => Has(toFrontend', "resumed")
        BY <2>3
      <4> QED
        BY <1>2, <2>4, <4>5, <4>6, <4>7 DEF KnownExact
    <3> QED
      BY <3>1, <3>2
  <2> QED
    BY <1>2, <2>1, <2>5, <2>6 DEF PauseExact
<1>4. CASE BackendPauses
  <2> DEFINE m == [kind |-> "paused", pause |-> pauses + 1]
  <2>1. /\ m \in Message /\ toFrontend' = Append(toFrontend, m) /\ backendPaused = None
        /\ backendPaused' = pauses + 1 /\ backendEnabled' /\ toBackend' = toBackend
    BY <1>4, ConstantsAssumption DEF BackendPauses, Message, TypeOK
  <2>2. /\ Len(toFrontend') = n + 1 /\ n \in Nat /\ toFrontend'[n + 1] = m
        /\ \A i \in 1 .. n : toFrontend'[i] = toFrontend[i]
    BY <1>1, <2>1, AddedElements
  <2>3. \A kind : Has(toFrontend, kind) => Has(toFrontend', kind)
    BY <1>1, <2>1, AddedLast DEF TypeOK
  <2>4. m.kind = "paused" /\ m.pause = backendPaused'
    BY <2>1
  <2> HIDE DEF m
  <2>5. WordsExact'
    <3>1. \A i \in 1 .. n : toFrontend[i].kind = "paused" =>
              \E j \in i + 1 .. n : toFrontend[j].kind \in {"resumed", "disable"}
      BY <2>1 DEF PauseExact, WordsExact, PausesNumbered
    <3> QED
      BY <2>2, <2>4, <3>1 DEF WordsExact
  <2>6. PauseIsTold'
    <3>1. n + 1 \in 1 .. Len(toFrontend') /\ n + 1 + 1 .. Len(toFrontend') = {}
      BY <2>2
    <3> QED
      BY <2>2, <2>4, <3>1 DEF PauseIsTold
  <2>7. OffUnderWay => OffUnderWay'
    BY <2>1, <2>3 DEF OffUnderWay, DepthUnderWay
  <2>8. KnownExact => KnownExact'
    BY <1>2, <2>1, <2>3, <2>6, <2>7 DEF KnownExact
  <2> QED
    BY <1>2, <2>1, <2>5, <2>8 DEF PauseExact
<1>5. CASE BackendResumes
  <2> DEFINE m == Plain("resumed")
  <2>1. /\ m \in Message /\ m.kind = "resumed" /\ toFrontend' = Append(toFrontend, m)
        /\ backendPaused' = None /\ toBackend' = toBackend
    BY <1>5, ConstantsAssumption DEF BackendResumes, Message, Plain
  <2>2. /\ Len(toFrontend') = n + 1 /\ n \in Nat /\ toFrontend'[n + 1] = m
        /\ \A i \in 1 .. n : toFrontend'[i] = toFrontend[i]
    BY <1>1, <2>1, AddedElements
  <2>3. \A kind : Has(toFrontend, kind) \/ kind = "resumed" => Has(toFrontend', kind)
    BY <1>1, <2>1, AddedLast DEF TypeOK
  <2> HIDE DEF m
  <2>4. WordsExact'
    BY <2>1, <2>2 DEF WordsExact
  <2>5. OffUnderWay => OffUnderWay'
    BY <2>1, <2>3 DEF OffUnderWay, DepthUnderWay
  <2>6. KnownExact => KnownExact'
    BY <1>2, <2>1, <2>3, <2>5 DEF KnownExact
  <2> QED
    BY <1>2, <2>1, <2>4, <2>6 DEF PauseExact
<1> QED
  BY <1>3, <1>4, <1>5

(* What is received is gone, and what comes after it stays. *)
LEMMA PauseReceived ==
    ASSUME TypeOK, toFrontend # <<>>, toFrontend' = Tail(toFrontend),
           UNCHANGED <<backendPaused, backendEnabled>>, PauseExact
    PROVE  /\ WordsExact'
           /\ \A kind : Has(toFrontend, kind) <=> Head(toFrontend).kind = kind \/ Has(toFrontend', kind)
           /\ Head(toFrontend).kind = "paused" =>
                  \/ Head(toFrontend).pause = backendPaused
                  \/ Has(toFrontend', "resumed") \/ Has(toFrontend', "disable")
<1> DEFINE r == Tail(toFrontend)
<1>1. /\ toFrontend \in Seq(Message)
      /\ Head(toFrontend) = toFrontend[1] /\ 1 \in 1 .. Len(toFrontend)
      /\ Len(r) = Len(toFrontend) - 1 /\ Len(r) \in Nat
      /\ \A i \in 1 .. Len(r) : i + 1 \in 1 .. Len(toFrontend) /\ r[i] = toFrontend[i + 1]
      /\ \A i \in 1 .. Len(toFrontend) : i # 1 => i - 1 \in 1 .. Len(r) /\ r[i - 1] = toFrontend[i]
  BY TakenElements DEF TypeOK
<1>2. \A kind : Has(toFrontend, kind) <=> Head(toFrontend).kind = kind \/ Has(r, kind)
  BY <1>1, TakenFirst DEF TypeOK
<1> HIDE DEF r
<1>3. ASSUME NEW i \in 1 .. Len(r), r[i].kind = "paused"
      PROVE  \/ r[i].pause = backendPaused
             \/ \E j \in i + 1 .. Len(r) : r[j].kind \in {"resumed", "disable"}
  <2>1. i + 1 \in 1 .. Len(toFrontend) /\ toFrontend[i + 1] = r[i]
    BY <1>1, <1>3
  <2>2. CASE toFrontend[i + 1].pause = backendPaused
    BY <2>1, <2>2
  <2>3. CASE \E j \in (i + 1) + 1 .. Len(toFrontend) : toFrontend[j].kind \in {"resumed", "disable"}
    <3> PICK j \in (i + 1) + 1 .. Len(toFrontend) : toFrontend[j].kind \in {"resumed", "disable"}
      BY <2>3
    <3>1. j - 1 \in i + 1 .. Len(r) /\ r[j - 1] = toFrontend[j]
      BY <1>1, <1>3
    <3> QED
      BY <3>1
  <2> QED
    BY <1>3, <2>1, <2>2, <2>3 DEF PauseExact, WordsExact
<1>4. Head(toFrontend).kind = "paused" =>
          \/ Head(toFrontend).pause = backendPaused
          \/ Has(r, "resumed") \/ Has(r, "disable")
  <2> SUFFICES ASSUME toFrontend[1].kind = "paused", toFrontend[1].pause # backendPaused
               PROVE  Has(r, "resumed") \/ Has(r, "disable")
    BY <1>1
  <2> PICK j \in 1 + 1 .. Len(toFrontend) : toFrontend[j].kind \in {"resumed", "disable"}
    BY <1>1 DEF PauseExact, WordsExact
  <2>1. j - 1 \in 1 .. Len(r) /\ r[j - 1] = toFrontend[j]
    BY <1>1
  <2> QED
    BY <2>1 DEF Has
<1>5. toFrontend' = r
  BY DEF r
<1> QED
  BY <1>2, <1>3, <1>4, <1>5 DEF WordsExact

(* What the model was or will be told of the pause, after something else came. *)
LEMMA ToldReceived ==
    ASSUME TypeOK, toFrontend # <<>>, toFrontend' = Tail(toFrontend), Head(toFrontend).kind # "depth",
           UNCHANGED <<backendPaused, toBackend>>, PauseIsTold,
           Head(toFrontend).kind \in Told
               \/ Heard \subseteq Heard'
    PROVE  PauseIsTold' \/ (Head(toFrontend).kind = "paused" /\ Head(toFrontend).pause = backendPaused
                            /\ \A i \in 1 .. Len(toFrontend') : toFrontend'[i].kind \notin Told)
<1> DEFINE r == Tail(toFrontend)
<1>1. /\ toFrontend \in Seq(Message)
      /\ Head(toFrontend) = toFrontend[1] /\ 1 \in 1 .. Len(toFrontend)
      /\ Len(r) = Len(toFrontend) - 1 /\ Len(r) \in Nat /\ toFrontend' = r
      /\ \A i \in 1 .. Len(r) : i + 1 \in 1 .. Len(toFrontend) /\ r[i] = toFrontend[i + 1]
      /\ \A i \in 1 .. Len(toFrontend) : i # 1 => i - 1 \in 1 .. Len(r) /\ r[i - 1] = toFrontend[i]
  BY TakenElements DEF TypeOK
<1>2. \A kind : Has(toFrontend, kind) <=> Head(toFrontend).kind = kind \/ Has(toFrontend', kind)
  BY <1>1, TakenFirst DEF TypeOK
<1> HIDE DEF r
<1>3. ASSUME NEW i \in 1 .. Len(toFrontend),
             toFrontend[i].kind = "paused", toFrontend[i].pause = backendPaused,
             \A j \in i + 1 .. Len(toFrontend) : toFrontend[j].kind \notin Told
      PROVE  PauseIsTold' \/ (i = 1 /\ \A j \in 1 .. Len(r) : r[j].kind \notin Told)
  <2>1. CASE i = 1
    <3>1. \A j \in 1 .. Len(r) : j + 1 \in i + 1 .. Len(toFrontend)
      BY <1>1, <2>1
    <3> QED
      BY <1>1, <1>3, <2>1, <3>1
  <2>2. CASE i # 1
    <3>1. i - 1 \in 1 .. Len(r) /\ r[i - 1] = toFrontend[i]
      BY <1>1, <2>2
    <3>2. \A j \in (i - 1) + 1 .. Len(r) : j + 1 \in i + 1 .. Len(toFrontend)
                                            /\ r[j] = toFrontend[j + 1]
      BY <1>1, <2>2
    <3> QED
      BY <1>1, <1>3, <3>1, <3>2 DEF PauseIsTold
  <2> QED
    BY <2>1, <2>2
<1>4. CASE /\ backendPaused \in Heard
           /\ \A i \in 1 .. Len(toFrontend) : toFrontend[i].kind \notin Told
  <2>1. Head(toFrontend).kind \notin Told
    BY <1>1, <1>4
  <2>2. backendPaused' \in Heard'
    BY <1>4, <2>1 DEF Told
  <2>3. \A i \in 1 .. Len(toFrontend') : toFrontend'[i].kind \notin Told
    BY <1>1, <1>4
  <2> QED
    BY <2>2, <2>3 DEF PauseIsTold
<1>5. CASE DepthUnderWay \/ Has(toBackend, "disable")
  BY <1>2, <1>5 DEF DepthUnderWay, PauseIsTold
<1> QED
  BY <1>1, <1>3, <1>4, <1>5 DEF PauseIsTold

(* What stays under way, and what is known, when something but a depth is received. *)
LEMMA PauseReceiver ==
    ASSUME TypeOK, PauseExact, toFrontend # <<>>, toFrontend' = Tail(toFrontend),
           UNCHANGED <<toBackend, backendPaused, backendEnabled, crossed, debuggerEnabled>>,
           Head(toFrontend).kind \notin {"depth", "disable"}
    PROVE  /\ OffUnderWay => OffUnderWay'
           /\ DepthUnderWay => DepthUnderWay'
           /\ Head(toFrontend).kind # "resumed" /\ Has(toFrontend, "resumed") => Has(toFrontend', "resumed")
<1>1. \A kind : Has(toFrontend, kind) <=> Head(toFrontend).kind = kind \/ Has(toFrontend', kind)
  BY PauseReceived
<1> QED
  BY <1>1 DEF OffUnderWay, DepthUnderWay

LEMMA PauseAnswers ==
    ASSUME TypeOK, PauseExact, RegisterDebugger \/ DepthAnswered \/ Disabled
    PROVE  PauseExact'
<1>1. /\ toFrontend # <<>> /\ toFrontend' = Tail(toFrontend) /\ Head(toFrontend).kind \notin {"paused", "resumed"}
      /\ UNCHANGED <<backendPaused, backendEnabled, crossed, debuggerEnabled>>
  BY DEF RegisterDebugger, DepthAnswered, Disabled, Receive
<1>2. WordsExact' /\ (backendPaused' # None => backendEnabled')
  BY <1>1, PauseReceived DEF PauseExact
<1>3. CASE RegisterDebugger
  <2>1. UNCHANGED <<toBackend, paused, expanding, outlived, withheld>> /\ Head(toFrontend).kind = "enable"
    BY <1>3 DEF RegisterDebugger, Receive, withholding
  <2>2. PauseIsTold => PauseIsTold'
    BY <1>1, <2>1, ToldReceived DEF Heard
  <2>3. /\ OffUnderWay => OffUnderWay'
        /\ Has(toFrontend, "resumed") => Has(toFrontend', "resumed")
    BY <1>1, <2>1, PauseReceiver
  <2> QED
    BY <1>1, <1>2, <2>1, <2>2, <2>3 DEF PauseExact, KnownExact
<1>4. CASE DepthAnswered
  <2>1. /\ UNCHANGED <<paused, expanding, outlived>>
        /\ toBackend' = Append(toBackend, Plain("disable")) /\ Plain("disable") \in Message
        /\ Plain("disable").kind = "disable"
    BY <1>4, ConstantsAssumption DEF DepthAnswered, Plain, Message, None
  <2>2. Has(toBackend', "disable")
    BY <2>1, AddedLast DEF TypeOK
  <2> QED
    BY <1>1, <1>2, <2>1, <2>2 DEF PauseExact, KnownExact, OffUnderWay, PauseIsTold
<1>5. CASE Disabled
  <2>1. /\ UNCHANGED <<toBackend, expanding>> /\ paused' = None /\ outlived' = outlived \cup expanding
        /\ Head(toFrontend).kind = "disable"
    BY <1>5 DEF Disabled, Receive
  <2>2. PauseIsTold => PauseIsTold'
    BY <1>1, <2>1, ToldReceived DEF Told
  <2>3. outlived' = {} => outlived = {} /\ expanding' = {}
    BY <2>1
  <2> QED
    BY <1>1, <1>2, <2>1, <2>2, <2>3 DEF PauseExact, KnownExact
<1> QED
  BY <1>3, <1>4, <1>5

LEMMA PauseEvents ==
    ASSUME TypeOK, EnablementExact, PauseExact, PausedScript \/ ResumedScript
    PROVE  PauseExact'
<1>1. /\ toFrontend # <<>> /\ toFrontend' = Tail(toFrontend) /\ Head(toFrontend).kind \in {"paused", "resumed"}
      /\ UNCHANGED <<toBackend, backendPaused, backendEnabled, crossed, debuggerEnabled>>
  BY DEF PausedScript, ResumedScript, Receive
<1>2. WordsExact' /\ (backendPaused' # None => backendEnabled')
  BY <1>1, PauseReceived DEF PauseExact
<1>3. /\ OffUnderWay => OffUnderWay'
      /\ DepthUnderWay => DepthUnderWay'
      /\ Head(toFrontend).kind # "resumed" /\ Has(toFrontend, "resumed") => Has(toFrontend', "resumed")
  BY <1>1, PauseReceiver
<1>4. CASE ResumedScript
  <2>1. /\ Head(toFrontend).kind = "resumed" /\ expanding' = expanding
        /\ paused' = IF debuggerEnabled THEN None ELSE paused
        /\ outlived' = IF debuggerEnabled THEN outlived \cup expanding ELSE outlived
    BY <1>4 DEF ResumedScript, Receive
  <2>2. PauseIsTold => PauseIsTold'
    BY <1>1, <2>1, ToldReceived DEF Told
  <2>3. CASE debuggerEnabled
    <3>1. outlived' = {} => outlived = {} /\ expanding' = {}
      BY <2>1, <2>3
    <3> QED
      BY <1>1, <1>2, <2>1, <2>2, <2>3, <3>1 DEF PauseExact, KnownExact
  <2>4. CASE ~debuggerEnabled
    <3>1. UNCHANGED <<paused, expanding, outlived>>
      BY <2>1, <2>4
    <3>2. outlived = {} => OffUnderWay' \/ (paused = None /\ expanding = {})
      BY <1>3, <2>4 DEF PauseExact, KnownExact
    <3> QED
      BY <1>1, <1>2, <2>2, <3>1, <3>2 DEF PauseExact, KnownExact
  <2> QED
    BY <2>3, <2>4
<1>5. CASE PausedScript
  <2> DEFINE n == Head(toFrontend).pause
  <2>1. /\ Head(toFrontend).kind = "paused" /\ outlived' = outlived
        /\ \/ ~debuggerEnabled /\ UNCHANGED <<paused, expanding>>
           \/ debuggerEnabled /\ n \in Heard'
              /\ ({paused} \cup expanding)' \subseteq {paused, n} \cup expanding
    BY <1>5 DEF PausedScript, Detailed, Receive, Heard
  <2>2. n = backendPaused \/ Has(toFrontend', "resumed") \/ Has(toFrontend', "disable")
    BY <1>1, <2>1, PauseReceived
  <2>3. PauseIsTold => \/ PauseIsTold'
                      \/ /\ n = backendPaused
                         /\ \A i \in 1 .. Len(toFrontend') : toFrontend'[i].kind \notin Told
    BY <1>1, <2>1, ToldReceived DEF Told
  <2> HIDE DEF n
  <2>4. CASE ~debuggerEnabled
    <3>1. ~crossed /\ backendPaused # None => PauseIsTold'
      <4> SUFFICES ASSUME ~crossed, backendPaused # None, ~DepthUnderWay
                   PROVE  Has(toBackend, "disable")
        BY <1>1, <1>3 DEF PauseIsTold
      <4>1. toBackend \in Seq(Message) /\ backendEnabled = TRUE
        BY DEF TypeOK, PauseExact
      <4>2. ~WillBe(toBackend, TRUE)
        BY <2>4, <4>1 DEF EnablementExact
      <4> QED
        BY <4>1, <4>2, SwitchedOff
    <3> QED
      BY <1>1, <1>2, <1>3, <2>1, <2>4, <3>1 DEF PauseExact, KnownExact
  <2>5. CASE debuggerEnabled
    <3>1. PauseIsTold => PauseIsTold'
      BY <1>1, <2>1, <2>3, <2>5 DEF PauseIsTold
    <3>2. Has(toFrontend', "disable") => OffUnderWay'
      BY DEF OffUnderWay
    <3>3. KnownExact => \A k \in ({paused} \cup expanding)' :
              k # None => backendPaused' = k \/ Has(toFrontend', "resumed") \/ OffUnderWay'
      BY <1>1, <1>3, <2>1, <2>2, <2>5, <3>2 DEF KnownExact
    <3> QED
      BY <1>1, <1>2, <2>1, <2>5, <3>1, <3>3 DEF PauseExact, KnownExact
  <2> QED
    BY <2>4, <2>5
<1> QED
  BY <1>4, <1>5

LEMMA PauseExpanded ==
    ASSUME TypeOK, PauseExact, NEW n \in 1 .. MaxPauses, CallFramesExpanded(n)
    PROVE  PauseExact'
<1>1. /\ UNCHANGED <<toBackend, toFrontend, backendPaused, backendEnabled, crossed, debuggerEnabled,
                     outlived>>
      /\ n \in expanding /\ expanding' = expanding \ {n}
      /\ n \in {paused'} \cup withheld' /\ paused' \in {paused, n}
  BY DEF CallFramesExpanded, Detailed
<1>2. n # None
  BY DEF None
<1>3. ASSUME KnownExact, PauseIsTold PROVE PauseIsTold'
  <2>1. CASE /\ backendPaused \in Heard
             /\ \A i \in 1 .. Len(toFrontend) : toFrontend[i].kind \notin Told
    <3>1. ~Has(toFrontend, "resumed") /\ ~Has(toFrontend, "disable")
      BY <2>1 DEF Has, Told
    <3>2. backendPaused = n \/ DepthUnderWay \/ Has(toBackend, "disable")
      BY <1>1, <1>2, <1>3, <3>1 DEF KnownExact, OffUnderWay
    <3>3. n \in Heard'
      BY <1>1 DEF Heard
    <3> QED
      BY <1>1, <2>1, <3>2, <3>3 DEF PauseIsTold, DepthUnderWay
  <2>2. CASE DepthUnderWay \/ Has(toBackend, "disable")
    BY <1>1, <2>2 DEF PauseIsTold, DepthUnderWay
  <2> QED
    BY <1>1, <1>3, <2>1, <2>2 DEF PauseIsTold
<1>4. KnownExact => KnownExact'
  BY <1>1, <1>2, <1>3 DEF KnownExact, OffUnderWay, DepthUnderWay
<1> QED
  BY <1>1, <1>4 DEF PauseExact, WordsExact

(* What decides on the pauses to come changes nothing of those that came. *)
LEMMA PauseDecided ==
    ASSUME TypeOK, PauseExact, IgnoreDebuggerPausedEvents \/ ContinueToLocation
    PROVE  PauseExact'
<1>1. UNCHANGED <<toBackend, toFrontend, backendPaused, backendEnabled, crossed, debuggerEnabled,
                  outlived, paused, expanding, withheld>>
  BY DEF IgnoreDebuggerPausedEvents, ContinueToLocation
<1>2. UNCHANGED <<DepthUnderWay, OffUnderWay, PauseIsTold>>
  BY <1>1 DEF DepthUnderWay, OffUnderWay, PauseIsTold, Heard
<1> QED
  BY <1>1, <1>2 DEF PauseExact, WordsExact, KnownExact

--------------------------------------------------------------------------------
(* The theorems. *)

LEMMA DebuggerInvInit == Init => DebuggerInv
<1> SUFFICES ASSUME Init PROVE DebuggerInv
  OBVIOUS
<1>1. TypeOK /\ PausesNumbered
  BY TypeInit
<1>2. /\ toBackend = <<>> /\ toFrontend = <<>> /\ backendEnabled = FALSE /\ registered = FALSE
      /\ debuggerEnabled = FALSE /\ paused = None /\ expanding = {} /\ backendPaused = None
  BY DEF Init
<1>3. EnablementExact
  <2>1. /\ ~WillBe(toBackend, FALSE) /\ ~WillBe(toFrontend, FALSE)
        /\ \A kind : ~Has(toBackend, kind) /\ ~Has(toFrontend, kind)
    BY <1>2, NoneUnderWay
  <2>2. WillBe(toFrontend, registered) = FALSE
    BY <1>2, <2>1 DEF WillBe
  <2>3. ~WillBe(toBackend, backendEnabled) /\ ~WillBe(toBackend, WillBe(toFrontend, registered))
    BY <1>2, <2>1, <2>2
  <2> QED
    BY <1>2, <2>1, <2>3 DEF EnablementExact, AtMostOne, DepthUnderWay
<1>4. PauseExact
  BY <1>2 DEF PauseExact, WordsExact, KnownExact
<1> QED
  BY <1>1, <1>3, <1>4 DEF DebuggerInv

LEMMA DebuggerInvStep == DebuggerInv /\ [Next]_debuggerVars => DebuggerInv'
<1> SUFFICES ASSUME DebuggerInv, [Next]_debuggerVars PROVE DebuggerInv'
  OBVIOUS
<1>1. TypeOK /\ PausesNumbered /\ EnablementExact /\ PauseExact
  BY DEF DebuggerInv
<1>2. CASE Next
  <2>1. TypeOK' /\ PausesNumbered'
    BY <1>1, <1>2, TypeStep
  <2>2. EnablementExact'
    BY <1>1, <1>2, EnablementStep
  <2>3. PauseExact'
    <3>1. CASE Enable \/ Disable \/ SyncDebuggerId
      BY <1>1, <3>1, PauseCommand
    <3>2. CASE BackendAnswers \/ BackendPauses \/ BackendResumes
      BY <1>1, <3>2, PauseBackend
    <3>3. CASE RegisterDebugger \/ DepthAnswered \/ Disabled
      BY <1>1, <3>3, PauseAnswers
    <3>4. CASE PausedScript \/ ResumedScript
      BY <1>1, <3>4, PauseEvents
    <3>5. CASE \E n \in 1 .. MaxPauses : CallFramesExpanded(n)
      BY <1>1, <3>5, PauseExpanded
    <3>6. CASE IgnoreDebuggerPausedEvents \/ ContinueToLocation
      BY <1>1, <3>6, PauseDecided
    <3> QED
      BY <1>2, <3>1, <3>2, <3>3, <3>4, <3>5, <3>6 DEF Next
  <2> QED
    BY <2>1, <2>2, <2>3 DEF DebuggerInv
<1>3. CASE UNCHANGED debuggerVars
  BY <1>1, <1>3 DEF debuggerVars, DebuggerInv, TypeOK, PausesNumbered, EnablementExact, PauseExact,
     WordsExact, KnownExact, PauseIsTold, Heard, withholding, OffUnderWay, DepthUnderWay
<1> QED
  BY <1>2, <1>3

(* The four parts of the invariant hold in every behaviour. *)
THEOREM DebuggerInvariance == Spec => []DebuggerInv
<1>1. Init => DebuggerInv
  BY DebuggerInvInit
<1>2. DebuggerInv /\ [Next]_debuggerVars => DebuggerInv'
  BY DebuggerInvStep
<1> QED
  BY <1>1, <1>2, PTL DEF Spec

(* When nothing is under way, the browser's debugger is enabled and its id      *)
(* registered exactly when the model says so, but for the two overtakings:      *)
(* _enableDebugger during _disableDebugger, syncDebuggerId after it.            *)
THEOREM AgreeOnEnablement == Spec => []Consistent
<1>1. DebuggerInv => Consistent
  <2> SUFFICES ASSUME DebuggerInv, Quiet, ~crossed
               PROVE  backendEnabled = debuggerEnabled /\ registered = debuggerEnabled
    BY DEF DebuggerInv, Consistent, EnablementAgrees
  <2>1. /\ debuggerEnabled \in BOOLEAN /\ registered \in BOOLEAN /\ backendEnabled \in BOOLEAN
        /\ toBackend = <<>> /\ toFrontend = <<>> /\ EnablementExact
    BY DEF DebuggerInv, TypeOK, Quiet
  <2>2. \A kind : ~Has(toBackend, kind) /\ ~Has(toFrontend, kind)
    BY <2>1, NoneUnderWay
  <2>3. /\ WillBe(toBackend, backendEnabled) <=> debuggerEnabled
        /\ WillBe(toBackend, WillBe(toFrontend, registered)) <=> debuggerEnabled
    BY <2>1, <2>2 DEF EnablementExact, DepthUnderWay
  <2>4. WillBe(toBackend, backendEnabled) <=> backendEnabled
    BY <2>1, NoneUnderWay
  <2>5. WillBe(toFrontend, registered) = registered
    <3>1. WillBe(toFrontend, registered) <=> registered
      BY <2>1, NoneUnderWay
    <3>2. WillBe(toFrontend, registered) \in BOOLEAN
      BY DEF WillBe
    <3> QED
      BY <2>1, <3>1, <3>2
  <2>6. WillBe(toBackend, registered) <=> registered
    BY <2>1, NoneUnderWay
  <2> QED
    BY <2>1, <2>3, <2>4, <2>5, <2>6
<1>2. Spec => []DebuggerInv
  BY DebuggerInvariance
<1> QED
  BY <1>1, <1>2, PTL

(* The pause that the model shows is that of the browser, or word of its end is *)
(* under way; and when nothing is, it shows the browser's, is expanding its     *)
(* frames, or withheld it for a recorder or for the callback of                 *)
(* continueToLocation: but after a pause that ended while its frames were       *)
(* expanded.                                                                    *)
THEOREM AgreeOnPauses == Spec => []PauseAgrees
<1>1. DebuggerInv => PauseAgrees
  <2> SUFFICES ASSUME DebuggerInv, outlived = {}
               PROVE  /\ paused # None => backendPaused = paused \/ UnderWay("resumed") \/ Disabling
                      /\ Quiet /\ ~crossed => backendPaused \in {paused} \cup expanding \cup withheld
    BY DEF PauseAgrees
  <2>1. TypeOK /\ KnownExact
    BY DEF DebuggerInv, PauseExact
  <2>2. \A kind : UnderWay(kind) <=> Has(toBackend, kind) \/ Has(toFrontend, kind)
    BY <2>1, UnderWayMeans
  <2>3. paused # None => backendPaused = paused \/ UnderWay("resumed") \/ Disabling
    BY <2>1, <2>2 DEF KnownExact, OffUnderWay, DepthUnderWay, Disabling
  <2>4. ASSUME Quiet, ~crossed PROVE backendPaused \in {paused} \cup expanding \cup withheld
    <3>1. \A kind : ~Has(toBackend, kind) /\ ~Has(toFrontend, kind)
      BY <2>4, NoneUnderWay DEF Quiet
    <3>2. CASE backendPaused # None
      BY <2>1, <2>4, <3>1, <3>2 DEF KnownExact, PauseIsTold, Heard, DepthUnderWay, Quiet
    <3>3. CASE backendPaused = None
      <4>1. ~UnderWay("resumed") /\ ~Disabling
        BY <2>2, <3>1 DEF Disabling
      <4> QED
        BY <2>3, <3>3, <4>1
    <3> QED
      BY <3>2, <3>3
  <2> QED
    BY <2>3, <2>4
<1>2. Spec => []DebuggerInv
  BY DebuggerInvariance
<1> QED
  BY <1>1, <1>2, PTL

--------------------------------------------------------------------------------
(* The invariant of ModelBreakpoint. *)


\* Messages of the debugger, and of breakpoints.
Switches == [kind : {"enable", "depth", "disable"}, pause : {None}]
Sets == [kind : {"set"}, state : State, done : BOOLEAN]
Removals == [kind : {"remove"}, place : Places, by : {"update", "refresh"}]
Messages == Switches \cup Sets \cup Removals

\* The messages under way in the order in which they were sent, and how many of
\* them the browser has answered.
Answers == Len(toFrontend)
Line == [i \in 1 .. Answers + Len(toBackend) |->
            IF i <= Answers THEN toFrontend[i] ELSE toBackend[i - Answers]]

Shape ==
    /\ debuggerEnabled \in BOOLEAN /\ backendEnabled \in BOOLEAN
    /\ toBackend \in Seq(Messages) /\ toFrontend \in Seq(Messages)
    /\ overlapped \in BOOLEAN /\ dropped \in BOOLEAN
    /\ BreakpointTypeOK

\* An update waits for one answer, and no removal is sent behind a setting.
OneCommand ==
    /\ stage = "setting" <=> \E i \in DOMAIN Line : Line[i].kind = "set"
    /\ stage = "removing" <=> \E i \in DOMAIN Line : Line[i].kind = "remove" /\ Line[i].by = "update"
    /\ \A i, j \in DOMAIN Line : i < j /\ Line[i].kind = "set" => Line[j].kind \notin {"set", "remove"}
    /\ \A i, j \in DOMAIN Line :
          i < j /\ Line[i].kind = "remove" /\ Line[i].by = "update" =>
              ~(Line[j].kind = "remove" /\ Line[j].by = "update")
    /\ \A i \in DOMAIN Line : Line[i].kind = "remove" => breakpointId \in {Line[i].place, "nowhere"}
    /\ stage = "setting" \/ cancelCallback => breakpointId = "nowhere"

\* The debugger is not enabled again before a disabling is over.
DisablingExact ==
    /\ ~overlapped =>
          /\ debuggerEnabled => /\ \A i \in DOMAIN Line : Line[i].kind \notin {"depth", "disable"}
                                /\ backendEnabled \/ \E i \in DOMAIN Line : i > Answers /\ Line[i].kind = "enable"
          /\ \A i, j \in DOMAIN Line :
                i < j /\ Line[i].kind \in {"depth", "disable"} => Line[j].kind # "enable"
          /\ \A i \in DOMAIN Line : i <= Answers /\ Line[i].kind = "disable" => ~backendEnabled
    /\ ~backendEnabled => breakpoints = {}

\* A breakpoint that was set, as its answer says.
SetAnswered(i) == i \in DOMAIN Line /\ i <= Answers /\ Line[i].kind = "set" /\ Line[i].done
RemoveAnswered(i) == i \in DOMAIN Line /\ i <= Answers /\ Line[i].kind = "remove"
DisableAnswered(i) == i \in DOMAIN Line /\ i <= Answers /\ Line[i].kind = "disable"

\* The debugger has no breakpoint but that whose id is known or under way, and has it
\* unless word that it went is under way.
HeldExact ==
    /\ \A i \in DOMAIN Line, b \in breakpoints :
          RemoveAnswered(i) /\ b.place = Line[i].place => \E j \in DOMAIN Line : SetAnswered(j)
    /\ \A i \in DOMAIN Line :
          SetAnswered(i) => Line[i].state \in breakpoints \/ \E j \in DOMAIN Line : i < j /\ DisableAnswered(j)
    /\ ~overlapped /\ ~dropped =>
          /\ \A b \in breakpoints :
                b.place = breakpointId \/ \E i \in DOMAIN Line : SetAnswered(i) /\ Line[i].state = b
          /\ ~isRemoved /\ breakpointId # "nowhere" /\ currentState # NoState =>
                /\ currentState.place = breakpointId
                /\ \/ currentState \in breakpoints
                   \/ \E i \in DOMAIN Line : DisableAnswered(i) \/ RemoveAnswered(i)

\* What an update has read is what the user wants, unless another is to come.
UpdateExact ==
    /\ listening <=> ~isRemoved
    /\ ~isUpdating => ~hasPendingUpdate
    /\ isUpdating /\ ~hasPendingUpdate => asked = condition
    /\ \A i \in DOMAIN Line : Line[i].kind = "set" =>
          /\ Line[i].state.condition = asked
          /\ currentState \in {NoState, Line[i].state}
          /\ ~hasPendingUpdate /\ ~cancelCallback => currentState = Line[i].state
    /\ stage \in {"setting", "resolving"} /\ ~hasPendingUpdate => enabled /\ ~isRemoved

\* The breakpoint will be set if the debugger is enabled.
SetWillDo ==
    ~overlapped /\ ~dropped /\ debuggerEnabled /\ ~hasPendingUpdate =>
        \A i \in DOMAIN Line : Line[i].kind = "set" =>
            IF i <= Answers THEN Line[i].done
            ELSE backendEnabled \/ \E j \in DOMAIN Line : Answers < j /\ j < i /\ Line[j].kind = "enable"

\* When the updates have come to an end, what the front-end takes for set is what
\* the user wants.
RestExact ==
    /\ stage = "idle" /\ (isRemoved \/ ~enabled) => breakpointId = "nowhere"
    /\ /\ ~overlapped /\ ~dropped /\ debuggerEnabled /\ ~isRemoved /\ enabled
       /\ stage = "idle" \/ (stage = "resolving" /\ ~hasPendingUpdate)
       => /\ breakpointId # "nowhere" /\ currentState # NoState
          /\ currentState.condition = condition

IInv == Shape /\ OneCommand /\ DisablingExact /\ HeldExact /\ UpdateExact /\ SetWillDo /\ RestExact
--------------------------------------------------------------------------------
(* Messages, and the line of those under way. *)

LEMMA MessageKinds ==
    ASSUME NEW m \in Messages
    PROVE  /\ m.kind = "set" => m \in Sets /\ m.state \in State /\ m.done \in BOOLEAN
           /\ m.kind = "remove" => m \in Removals /\ m.place \in Places
           /\ m.kind \in {"enable", "depth", "disable", "set", "remove"}
           /\ m.kind \in {"enable", "depth", "disable"} => m \in Switches
BY DEF Messages, Switches, Sets, Removals

LEMMA MessagesMade ==
    /\ Plain("enable") \in Messages /\ Plain("depth") \in Messages /\ Plain("disable") \in Messages
    /\ \A state \in State : SetCommand(state) \in Messages
    /\ \A place \in Places, by \in {"update", "refresh"} : RemoveCommand(place, by) \in Messages
BY DEF Plain, SetCommand, RemoveCommand, Messages, Switches, Sets, Removals

(* No state is that of a breakpoint that is nowhere. *)
LEMMA StatesHavePlaces ==
    /\ \A state \in State : state # NoState /\ state.place \in Places /\ state.condition \in Conditions
    /\ "nowhere" \notin Places
BY DEF State, NoState, Places

QueuesShape == toBackend \in Seq(Messages) /\ toFrontend \in Seq(Messages)

Size == Answers + Len(toBackend)

LEMMA LineShape ==
    ASSUME QueuesShape
    PROVE  /\ Answers \in Nat /\ Size \in Nat /\ Answers <= Size /\ DOMAIN Line = 1 .. Size
           /\ \A i \in DOMAIN Line : Line[i] \in Messages
<1>1. Answers \in Nat /\ Len(toBackend) \in Nat
  BY DEF QueuesShape, Answers
<1>2. ASSUME NEW i \in 1 .. Size
      PROVE  Line[i] \in Messages
  <2>1. CASE i <= Answers
    BY <1>1, <2>1 DEF QueuesShape, Line, Answers, Size
  <2>2. CASE ~(i <= Answers)
    <3>1. i - Answers \in 1 .. Len(toBackend)
      BY <1>1, <2>2 DEF Size
    <3> QED
      BY <1>1, <2>2, <3>1 DEF QueuesShape, Line, Size
  <2> QED
    BY <2>1, <2>2
<1> QED
  BY <1>1, <1>2 DEF Line, Size

(* A command that is sent comes last. *)
LEMMA LineSent ==
    ASSUME QueuesShape, NEW m \in Messages,
           toBackend' = Append(toBackend, m), toFrontend' = toFrontend
    PROVE  /\ QueuesShape' /\ Answers' = Answers /\ Size' = Size + 1
           /\ DOMAIN Line' = 1 .. Size + 1
           /\ \A i \in DOMAIN Line : i \in DOMAIN Line' /\ Line'[i] = Line[i]
           /\ Line'[Size + 1] = m
<1>1. /\ Answers \in Nat /\ Len(toBackend) \in Nat /\ Answers' = Answers
      /\ Append(toBackend, m) \in Seq(Messages)
      /\ Len(Append(toBackend, m)) = Len(toBackend) + 1
      /\ Append(toBackend, m)[Len(toBackend) + 1] = m
      /\ \A i \in 1 .. Len(toBackend) : Append(toBackend, m)[i] = toBackend[i]
  BY DEF QueuesShape, Answers
<1>2. QueuesShape' /\ Size' = Size + 1 /\ Size \in Nat
  BY <1>1 DEF QueuesShape, Size
<1>3. DOMAIN Line = 1 .. Size /\ DOMAIN Line' = 1 .. Size + 1
  BY <1>2 DEF Line, Size
<1>4. ASSUME NEW i \in 1 .. Size
      PROVE  Line'[i] = Line[i]
  <2>1. Line[i] = IF i <= Answers THEN toFrontend[i] ELSE toBackend[i - Answers]
    BY DEF Line, Size
  <2>2. Line'[i] = IF i <= Answers THEN toFrontend[i] ELSE Append(toBackend, m)[i - Answers]
    BY <1>1, <1>2 DEF Line, Size
  <2>3. i > Answers => i - Answers \in 1 .. Len(toBackend)
    BY <1>1 DEF Size
  <2> QED
    BY <1>1, <2>1, <2>2, <2>3
<1>5. Line'[Size + 1] = m
  <2>1. Line'[Size + 1] = IF Size + 1 <= Answers THEN toFrontend[Size + 1]
                          ELSE Append(toBackend, m)[Size + 1 - Answers]
    BY <1>1, <1>2 DEF Line, Size
  <2>2. ~(Size + 1 <= Answers) /\ Size + 1 - Answers = Len(toBackend) + 1
    BY <1>1 DEF Size
  <2> QED
    BY <1>1, <2>1, <2>2
<1> QED
  BY <1>1, <1>2, <1>3, <1>4, <1>5

(* What the browser answers keeps its place in the line. *)
LEMMA LineAnswered ==
    ASSUME QueuesShape, NEW m \in Messages, toBackend # <<>>,
           toBackend' = Tail(toBackend), toFrontend' = Append(toFrontend, m)
    PROVE  /\ QueuesShape' /\ Answers' = Answers + 1 /\ Size' = Size
           /\ DOMAIN Line' = DOMAIN Line /\ Answers + 1 \in DOMAIN Line
           /\ \A i \in DOMAIN Line : i # Answers + 1 => Line'[i] = Line[i]
           /\ Line'[Answers + 1] = m /\ Line[Answers + 1] = Head(toBackend)
<1>1. /\ Answers \in Nat /\ Len(toBackend) \in Nat \ {0} /\ Answers' = Answers + 1
      /\ Append(toFrontend, m) \in Seq(Messages) /\ Append(toFrontend, m)[Answers + 1] = m
      /\ \A i \in 1 .. Answers : Append(toFrontend, m)[i] = toFrontend[i]
      /\ Tail(toBackend) \in Seq(Messages) /\ Len(Tail(toBackend)) = Len(toBackend) - 1
      /\ \A i \in 1 .. Len(toBackend) - 1 : Tail(toBackend)[i] = toBackend[i + 1]
      /\ Head(toBackend) = toBackend[1]
  BY DEF QueuesShape, Answers
<1>2. QueuesShape' /\ Size' = Size /\ Size \in Nat /\ Answers + 1 \in 1 .. Size
  BY <1>1 DEF QueuesShape, Size
<1>3. DOMAIN Line = 1 .. Size /\ DOMAIN Line' = 1 .. Size
  BY <1>2 DEF Line, Size
<1>4. ASSUME NEW i \in 1 .. Size
      PROVE  Line'[i] = IF i = Answers + 1 THEN m ELSE Line[i]
  <2>1. Line[i] = IF i <= Answers THEN toFrontend[i] ELSE toBackend[i - Answers]
    BY DEF Line, Size
  <2>2. Line'[i] = IF i <= Answers + 1 THEN Append(toFrontend, m)[i]
                   ELSE Tail(toBackend)[i - (Answers + 1)]
    BY <1>1, <1>2 DEF Line, Size
  <2>3. CASE i <= Answers
    <3>1. i \in 1 .. Answers /\ i <= Answers + 1 /\ i # Answers + 1
      BY <1>1, <2>3
    <3>2. Append(toFrontend, m)[i] = toFrontend[i]
      BY <1>1, <3>1
    <3> QED
      BY <2>1, <2>2, <2>3, <3>1, <3>2
  <2>4. CASE i = Answers + 1
    <3>1. i <= Answers + 1
      BY <1>1, <2>4
    <3>2. Append(toFrontend, m)[i] = m
      BY <1>1, <2>4
    <3> QED
      BY <2>2, <2>4, <3>1, <3>2
  <2>5. CASE i > Answers + 1
    <3>1. i - (Answers + 1) \in 1 .. Len(toBackend) - 1 /\ i - (Answers + 1) + 1 = i - Answers
      BY <1>1, <2>5 DEF Size
    <3>2. Tail(toBackend)[i - (Answers + 1)] = toBackend[i - Answers]
      BY <1>1, <3>1
    <3>3. ~(i <= Answers + 1) /\ ~(i <= Answers) /\ i # Answers + 1
      BY <1>1, <2>5
    <3> QED
      BY <2>1, <2>2, <3>2, <3>3
  <2> QED
    BY <1>1, <2>3, <2>4, <2>5
<1>5. Line[Answers + 1] = Head(toBackend)
  <2>1. Answers + 1 - Answers = 1 /\ ~(Answers + 1 <= Answers)
    BY <1>1
  <2> QED
    BY <1>1, <1>2, <2>1 DEF Line, Size
<1> QED
  BY <1>1, <1>2, <1>3, <1>4, <1>5

(* An answer that is received was the first, and the others move up. *)
LEMMA LineReceived ==
    ASSUME QueuesShape, toFrontend # <<>>, toFrontend' = Tail(toFrontend), toBackend' = toBackend
    PROVE  /\ QueuesShape' /\ Answers' = Answers - 1 /\ Answers >= 1 /\ Size' = Size - 1
           /\ 1 \in DOMAIN Line /\ Line[1] = Head(toFrontend)
           /\ \A i \in DOMAIN Line' : i + 1 \in DOMAIN Line /\ Line'[i] = Line[i + 1]
           /\ \A i \in DOMAIN Line : i # 1 => i - 1 \in DOMAIN Line' /\ Line'[i - 1] = Line[i]
<1>1. /\ Answers \in Nat /\ Answers >= 1 /\ Len(toBackend) \in Nat /\ Answers' = Answers - 1
      /\ Tail(toFrontend) \in Seq(Messages)
      /\ \A i \in 1 .. Answers - 1 : Tail(toFrontend)[i] = toFrontend[i + 1]
      /\ Head(toFrontend) = toFrontend[1]
  BY DEF QueuesShape, Answers
<1>2. QueuesShape' /\ Size' = Size - 1 /\ Size \in Nat /\ 1 \in 1 .. Size
  BY <1>1 DEF QueuesShape, Size
<1>3. DOMAIN Line = 1 .. Size /\ DOMAIN Line' = 1 .. Size - 1
  BY <1>2 DEF Line, Size
<1>4. ASSUME NEW i \in 1 .. Size - 1, NEW k \in 1 .. Size, k = i + 1
      PROVE  Line'[i] = Line[k]
  <2>1. Line[k] = IF k <= Answers THEN toFrontend[k] ELSE toBackend[k - Answers]
    BY DEF Line, Size
  <2>2. Line'[i] = IF i <= Answers - 1 THEN Tail(toFrontend)[i] ELSE toBackend[i - (Answers - 1)]
    BY <1>1, <1>2 DEF Line, Size
  <2>3. i - (Answers - 1) = k - Answers /\ (i <= Answers - 1 <=> k <= Answers)
    BY <1>1, <1>4
  <2>4. CASE i <= Answers - 1
    <3>1. i \in 1 .. Answers - 1
      BY <1>1, <2>4
    <3>2. Tail(toFrontend)[i] = toFrontend[k]
      BY <1>1, <1>4, <3>1
    <3> QED
      BY <2>1, <2>2, <2>3, <2>4, <3>2
  <2>5. CASE ~(i <= Answers - 1)
    BY <2>1, <2>2, <2>3, <2>5
  <2> QED
    BY <2>4, <2>5
<1>5. Line[1] = Head(toFrontend)
  BY <1>1, <1>2 DEF Line, Size
<1>6. ASSUME NEW i \in 1 .. Size, i # 1
      PROVE  i - 1 \in 1 .. Size - 1 /\ Line'[i - 1] = Line[i]
  <2>1. i - 1 \in 1 .. Size - 1 /\ i = i - 1 + 1
    BY <1>2, <1>6
  <2> QED
    BY <1>4, <2>1
<1>7. ASSUME NEW i \in 1 .. Size - 1
      PROVE  i + 1 \in 1 .. Size /\ Line'[i] = Line[i + 1]
  <2>1. i + 1 \in 1 .. Size
    BY <1>2
  <2> QED
    BY <1>4, <2>1
<1> QED
  BY <1>1, <1>2, <1>3, <1>5, <1>6, <1>7

(* The second turn of a disabling. *)
LEMMA LineTurned ==
    ASSUME QueuesShape, NEW m \in Messages, toFrontend # <<>>,
           toFrontend' = Tail(toFrontend), toBackend' = Append(toBackend, m)
    PROVE  /\ QueuesShape' /\ Answers' = Answers - 1 /\ Answers >= 1 /\ Size' = Size
           /\ 1 \in DOMAIN Line /\ Line[1] = Head(toFrontend)
           /\ Size \in DOMAIN Line' /\ Line'[Size] = m
           /\ \A i \in DOMAIN Line' : i # Size => i + 1 \in DOMAIN Line /\ Line'[i] = Line[i + 1]
           /\ \A i \in DOMAIN Line : i # 1 => i - 1 \in DOMAIN Line' /\ Line'[i - 1] = Line[i]
<1>1. /\ Answers \in Nat /\ Answers >= 1 /\ Len(toBackend) \in Nat /\ Answers' = Answers - 1
      /\ Tail(toFrontend) \in Seq(Messages)
      /\ \A i \in 1 .. Answers - 1 : Tail(toFrontend)[i] = toFrontend[i + 1]
      /\ Head(toFrontend) = toFrontend[1]
      /\ Append(toBackend, m) \in Seq(Messages)
      /\ Len(Append(toBackend, m)) = Len(toBackend) + 1
      /\ Append(toBackend, m)[Len(toBackend) + 1] = m
      /\ \A i \in 1 .. Len(toBackend) : Append(toBackend, m)[i] = toBackend[i]
  BY DEF QueuesShape, Answers
<1>2. QueuesShape' /\ Size' = Size /\ Size \in Nat /\ 1 \in 1 .. Size
  BY <1>1 DEF QueuesShape, Size
<1>3. DOMAIN Line = 1 .. Size /\ DOMAIN Line' = 1 .. Size
  BY <1>2 DEF Line, Size
<1>4. ASSUME NEW i \in 1 .. Size, NEW k \in 1 .. Size, k = i + 1
      PROVE  Line'[i] = Line[k]
  <2>1. Line[k] = IF k <= Answers THEN toFrontend[k] ELSE toBackend[k - Answers]
    BY DEF Line, Size
  <2>2. Line'[i] = IF i <= Answers - 1 THEN Tail(toFrontend)[i]
                   ELSE Append(toBackend, m)[i - (Answers - 1)]
    BY <1>1, <1>2 DEF Line, Size
  <2>3. i - (Answers - 1) = k - Answers /\ (i <= Answers - 1 <=> k <= Answers)
    BY <1>1, <1>4
  <2>4. CASE i <= Answers - 1
    <3>1. i \in 1 .. Answers - 1
      BY <1>1, <2>4
    <3>2. Tail(toFrontend)[i] = toFrontend[k]
      BY <1>1, <1>4, <3>1
    <3> QED
      BY <2>1, <2>2, <2>3, <2>4, <3>2
  <2>5. CASE ~(i <= Answers - 1)
    <3>1. k - Answers \in 1 .. Len(toBackend)
      BY <1>1, <2>3, <2>5 DEF Size
    <3>2. Append(toBackend, m)[k - Answers] = toBackend[k - Answers]
      BY <1>1, <3>1
    <3> QED
      BY <2>1, <2>2, <2>3, <2>5, <3>2
  <2> QED
    BY <2>4, <2>5
<1>5. Line[1] = Head(toFrontend)
  BY <1>1, <1>2 DEF Line, Size
<1>6. ASSUME NEW i \in 1 .. Size, i # 1
      PROVE  i - 1 \in 1 .. Size /\ Line'[i - 1] = Line[i]
  <2>1. i - 1 \in 1 .. Size /\ i = i - 1 + 1
    BY <1>2, <1>6
  <2> QED
    BY <1>4, <2>1
<1>7. ASSUME NEW i \in 1 .. Size, i # Size
      PROVE  i + 1 \in 1 .. Size /\ Line'[i] = Line[i + 1]
  <2>1. i + 1 \in 1 .. Size
    BY <1>2, <1>7
  <2> QED
    BY <1>4, <2>1
<1>8. Size \in 1 .. Size /\ Line'[Size] = m
  <2>1. Size \in 1 .. Size
    BY <1>2
  <2>2. Line'[Size] = IF Size <= Answers - 1 THEN Tail(toFrontend)[Size]
                      ELSE Append(toBackend, m)[Size - (Answers - 1)]
    BY <1>1, <1>2, <2>1 DEF Line, Size
  <2>3. ~(Size <= Answers - 1) /\ Size - (Answers - 1) = Len(toBackend) + 1
    BY <1>1 DEF Size
  <2> QED
    BY <1>1, <2>1, <2>2, <2>3
<1> QED
  BY <1>1, <1>2, <1>3, <1>5, <1>6, <1>7, <1>8

--------------------------------------------------------------------------------
(* Steps without messages. *)

\* What the argument about messages is about, but for the messages.
heldVars == <<debuggerEnabled, backendEnabled, overlapped, dropped, breakpoints, breakpointId,
              currentState, cancelCallback>>

(* While no message is sent, answered or received, what there is of the breakpoint  *)
(* is as it was, whatever the user and the updates do.                              *)
LEMMA NoMessage ==
    ASSUME IInv, UNCHANGED <<toFrontend, toBackend, heldVars>>,
           isRemoved => isRemoved',
           stage' = stage \/ {stage, stage'} \subseteq {"idle", "locating", "resolving"}
    PROVE  /\ Line' = Line /\ Answers' = Answers
           /\ OneCommand' /\ DisablingExact' /\ HeldExact'
<1>1. Line' = Line /\ Answers' = Answers
  BY DEF Line, Answers
<1>2. UNCHANGED <<debuggerEnabled, backendEnabled, overlapped, dropped, breakpoints, breakpointId,
                  currentState, cancelCallback>>
  BY DEF heldVars
<1>3. OneCommand'
  <2>1. (stage' = "setting" <=> stage = "setting") /\ (stage' = "removing" <=> stage = "removing")
    OBVIOUS
  <2> QED
    BY <1>1, <1>2, <2>1 DEF IInv, OneCommand
<1>4. DisablingExact'
  BY <1>1, <1>2 DEF IInv, DisablingExact
<1>5. HeldExact'
  BY <1>1, <1>2 DEF IInv, HeldExact, SetAnswered, RemoveAnswered, DisableAnswered
<1> QED
  BY <1>1, <1>3, <1>4, <1>5

(* A change by the user schedules an update, or another after the one under way. *)
LEMMA Scheduling ==
    ASSUME IInv, ScheduleUpdate, UNCHANGED <<toFrontend, toBackend, heldVars, knownState>>,
           enabled' \in BOOLEAN, condition' \in Conditions, isRemoved' \in BOOLEAN,
           isRemoved => isRemoved', listening' = ~isRemoved', mapped' \in BOOLEAN
    PROVE  IInv'
<1>1. /\ debuggerEnabled' = debuggerEnabled /\ backendEnabled' = backendEnabled
      /\ overlapped' = overlapped /\ dropped' = dropped /\ breakpoints' = breakpoints
      /\ breakpointId' = breakpointId /\ currentState' = currentState
      /\ cancelCallback' = cancelCallback
  BY DEF heldVars
<1>2. CASE ~isUpdating /\ StartUpdate
  <2>1. /\ stage = "idle" /\ stage' = "locating" /\ isUpdating' = TRUE /\ hasPendingUpdate' = FALSE
        /\ asked' = condition'
    BY <1>2 DEF StartUpdate, IInv, Shape, BreakpointTypeOK
  <2>2. Line' = Line /\ Answers' = Answers /\ OneCommand' /\ DisablingExact' /\ HeldExact'
    BY <2>1, NoMessage
  <2>3. \A i \in DOMAIN Line : Line[i].kind # "set"
    BY <2>1 DEF IInv, OneCommand
  <2>4. Shape'
    BY <1>1, <2>1 DEF IInv, Shape, BreakpointTypeOK
  <2>5. UpdateExact' /\ SetWillDo' /\ RestExact'
    BY <2>1, <2>2, <2>3 DEF UpdateExact, SetWillDo, RestExact
  <2> QED
    BY <2>2, <2>4, <2>5 DEF IInv
<1>3. CASE isUpdating /\ hasPendingUpdate' = TRUE /\ UNCHANGED <<isUpdating, stage, asked>>
  <2>1. Line' = Line /\ Answers' = Answers /\ OneCommand' /\ DisablingExact' /\ HeldExact'
    BY <1>3, NoMessage
  <2>2. Shape'
    BY <1>1, <1>3 DEF IInv, Shape, BreakpointTypeOK
  <2>3. UpdateExact'
    BY <1>1, <1>3, <2>1 DEF IInv, UpdateExact
  <2>4. stage # "idle"
    BY <1>3 DEF IInv, Shape, BreakpointTypeOK
  <2>5. SetWillDo' /\ RestExact'
    BY <1>3, <2>1, <2>4 DEF SetWillDo, RestExact
  <2> QED
    BY <2>1, <2>2, <2>3, <2>5 DEF IInv
<1> QED
  BY <1>2, <1>3 DEF ScheduleUpdate

LEMMA UserInv ==
    ASSUME IInv, UpdateState \/ RemoveBreakpoint \/ SourceCodeAdded
    PROVE  IInv'
<1>1. /\ enabled \in BOOLEAN /\ condition \in Conditions /\ isRemoved \in BOOLEAN
      /\ mapped \in BOOLEAN /\ listening = ~isRemoved
  BY DEF IInv, Shape, BreakpointTypeOK, UpdateExact
<1>2. CASE UpdateState
  <2>1. UNCHANGED <<toFrontend, toBackend, heldVars, knownState>>
    BY <1>2 DEF UpdateState, debuggerVars, heldVars
  <2>2. ScheduleUpdate /\ UNCHANGED <<isRemoved, mapped, listening>>
        /\ enabled' \in BOOLEAN /\ condition' \in Conditions
    BY <1>1, <1>2 DEF UpdateState
  <2> QED
    BY <1>1, <2>1, <2>2, Scheduling
<1>3. CASE RemoveBreakpoint
  <2>1. UNCHANGED <<toFrontend, toBackend, heldVars, knownState>>
    BY <1>3 DEF RemoveBreakpoint, debuggerVars, heldVars
  <2>2. /\ ScheduleUpdate /\ UNCHANGED <<mapped, enabled, condition>>
        /\ isRemoved' = TRUE /\ listening' = FALSE
    BY <1>3 DEF RemoveBreakpoint
  <2> QED
    BY <1>1, <2>1, <2>2, Scheduling
<1>4. CASE SourceCodeAdded
  <2>1. UNCHANGED <<toFrontend, toBackend, heldVars, knownState>>
    BY <1>4 DEF SourceCodeAdded, debuggerVars, heldVars
  <2>2. ScheduleUpdate /\ UNCHANGED <<isRemoved, listening, enabled, condition>> /\ mapped' = TRUE
    BY <1>4 DEF SourceCodeAdded
  <2> QED
    BY <1>1, <2>1, <2>2, Scheduling
<1> QED
  BY <1>2, <1>3, <1>4

(* The locations are resolved. *)
LEMMA ResolvedInv ==
    ASSUME IInv, Resolved
    PROVE  IInv'
<1>1. /\ stage = "resolving" /\ condition' = condition
      /\ UNCHANGED <<enabled, knownState, mapped>>
      /\ \/ DidUpdate /\ UNCHANGED <<isRemoved, listening>>
         \/ GiveUp
  BY DEF Resolved
<1>2. UNCHANGED <<toFrontend, toBackend, heldVars>>
  BY DEF Resolved, debuggerVars, heldVars
<1>3. /\ debuggerEnabled' = debuggerEnabled /\ backendEnabled' = backendEnabled
      /\ overlapped' = overlapped /\ dropped' = dropped /\ breakpoints' = breakpoints
      /\ breakpointId' = breakpointId /\ currentState' = currentState
      /\ cancelCallback' = cancelCallback
  BY <1>2 DEF heldVars
<1>4. /\ enabled \in BOOLEAN /\ condition \in Conditions /\ isRemoved \in BOOLEAN
      /\ listening = ~isRemoved /\ isUpdating \in BOOLEAN
  BY DEF IInv, Shape, BreakpointTypeOK, UpdateExact
<1>5. \A i \in DOMAIN Line : Line[i].kind # "set"
  BY <1>1 DEF IInv, OneCommand
<1>6. CASE StartUpdate /\ (isRemoved => isRemoved') /\ isRemoved' \in BOOLEAN /\ listening' = ~isRemoved'
  <2>1. stage' = "locating" /\ isUpdating' = TRUE /\ hasPendingUpdate' = FALSE /\ asked' = condition'
    BY <1>6 DEF StartUpdate
  <2>2. Line' = Line /\ Answers' = Answers /\ OneCommand' /\ DisablingExact' /\ HeldExact'
    BY <1>1, <1>2, <1>6, <2>1, NoMessage
  <2>3. Shape'
    BY <1>1, <1>2, <1>3, <1>6, <2>1 DEF IInv, Shape, BreakpointTypeOK
  <2>4. UpdateExact' /\ SetWillDo' /\ RestExact'
    BY <1>5, <1>6, <2>1, <2>2 DEF UpdateExact, SetWillDo, RestExact
  <2> QED
    BY <2>2, <2>3, <2>4 DEF IInv
<1>7. CASE /\ ~hasPendingUpdate /\ isUpdating' = FALSE /\ stage' = "idle"
           /\ UNCHANGED <<hasPendingUpdate, asked, isRemoved, listening>>
  <2>1. Line' = Line /\ Answers' = Answers /\ OneCommand' /\ DisablingExact' /\ HeldExact'
    BY <1>1, <1>2, <1>7, NoMessage
  <2>2. Shape'
    <3>1. Shape /\ BreakpointTypeOK
      BY DEF IInv, Shape
    <3>2. BreakpointTypeOK'
      BY <1>1, <1>3, <1>7, <3>1 DEF BreakpointTypeOK
    <3> QED
      BY <1>2, <1>3, <3>1, <3>2 DEF Shape
  <2>3. enabled /\ ~isRemoved
    BY <1>1, <1>7 DEF IInv, UpdateExact
  <2>4. UpdateExact' /\ SetWillDo'
    BY <1>1, <1>4, <1>5, <1>7, <2>1 DEF UpdateExact, SetWillDo
  <2>5. RestExact'
    BY <1>1, <1>3, <1>7, <2>3 DEF IInv, RestExact
  <2> QED
    BY <2>1, <2>2, <2>4, <2>5 DEF IInv
<1>8. GiveUp => StartUpdate /\ isRemoved' = TRUE /\ listening' = FALSE
  BY DEF GiveUp
<1>9. DidUpdate => \/ StartUpdate
                   \/ /\ ~hasPendingUpdate /\ isUpdating' = FALSE /\ stage' = "idle"
                      /\ UNCHANGED <<hasPendingUpdate, asked>>
  BY DEF DidUpdate
<1> QED
  BY <1>1, <1>4, <1>6, <1>7, <1>8, <1>9

(* What an update is to make of the breakpoint. *)
LEMMA NewStates ==
    ASSUME Shape
    PROVE  /\ isRemoved \/ ~enabled => NewState = NoState
           /\ ~isRemoved /\ enabled => NewState \in State /\ NewState.condition = asked
           /\ NewState \in State \cup {NoState}
<1>1. /\ asked \in Conditions /\ mapped \in BOOLEAN /\ knownState \in State \cup {NoState}
  BY DEF Shape, BreakpointTypeOK
<1>2. CASE isRemoved \/ ~enabled
  BY <1>2 DEF NewState
<1>3. CASE ~isRemoved /\ enabled
  <2> DEFINE p == IF mapped THEN "script" ELSE IF knownState # NoState THEN knownState.place ELSE "file"
  <2>1. NewState = [place |-> p, condition |-> asked]
    BY <1>3 DEF NewState
  <2>2. p \in Places
    BY <1>1, StatesHavePlaces DEF Places
  <2> HIDE DEF p
  <2> QED
    BY <1>1, <1>3, <2>1, <2>2 DEF State
<1> QED
  BY <1>2, <1>3

(* An update that finds nothing to do. *)
LEMMA LocatedNothingInv ==
    ASSUME IInv, stage = "locating", DidUpdate,
           UNCHANGED <<toFrontend, toBackend, heldVars, enabled, condition, isRemoved, listening, mapped>>,
           knownState' \in State \cup {NoState},
           UpToDate \/ (breakpointId = "nowhere" /\ NewState = NoState)
    PROVE  IInv'
<1>1. /\ debuggerEnabled' = debuggerEnabled /\ backendEnabled' = backendEnabled
      /\ overlapped' = overlapped /\ dropped' = dropped /\ breakpoints' = breakpoints
      /\ breakpointId' = breakpointId /\ currentState' = currentState
      /\ cancelCallback' = cancelCallback
  BY DEF heldVars
<1>2. \A i \in DOMAIN Line : Line[i].kind # "set"
  BY DEF IInv, OneCommand
<1>3. Shape /\ BreakpointTypeOK /\ isUpdating = TRUE /\ listening = ~isRemoved
  BY DEF IInv, Shape, BreakpointTypeOK, UpdateExact
<1>4. CASE StartUpdate
  <2>1. stage' = "locating" /\ isUpdating' = TRUE /\ hasPendingUpdate' = FALSE /\ asked' = condition'
    BY <1>4 DEF StartUpdate
  <2>2. Line' = Line /\ Answers' = Answers /\ OneCommand' /\ DisablingExact' /\ HeldExact'
    BY <2>1, NoMessage
  <2>3. BreakpointTypeOK'
    BY <1>1, <1>3, <2>1 DEF BreakpointTypeOK
  <2>4. Shape'
    BY <1>1, <1>3, <2>3 DEF Shape
  <2>5. UpdateExact' /\ SetWillDo' /\ RestExact'
    BY <1>2, <1>3, <2>1, <2>2 DEF UpdateExact, SetWillDo, RestExact
  <2> QED
    BY <2>2, <2>4, <2>5 DEF IInv
<1>5. CASE ~hasPendingUpdate /\ isUpdating' = FALSE /\ stage' = "idle"
           /\ UNCHANGED <<hasPendingUpdate, asked>>
  <2>1. Line' = Line /\ Answers' = Answers /\ OneCommand' /\ DisablingExact' /\ HeldExact'
    BY <1>5, NoMessage
  <2>2. BreakpointTypeOK'
    BY <1>1, <1>3, <1>5 DEF BreakpointTypeOK
  <2>3. Shape'
    BY <1>1, <1>3, <2>2 DEF Shape
  <2>4. UpdateExact' /\ SetWillDo'
    BY <1>2, <1>3, <1>5, <2>1 DEF UpdateExact, SetWillDo
  <2>5. asked = condition
    BY <1>3, <1>5 DEF IInv, UpdateExact
  <2>6. CASE UpToDate
    <3>1. breakpointId # "nowhere" /\ NewState # NoState /\ NewState = currentState
      BY <2>6 DEF UpToDate
    <3>2. ~isRemoved /\ enabled /\ currentState.condition = condition
      BY <1>3, <2>5, <3>1, NewStates
    <3> QED
      BY <1>1, <1>5, <2>1, <2>3, <2>4, <3>1, <3>2 DEF IInv, RestExact
  <2>7. CASE breakpointId = "nowhere" /\ NewState = NoState
    <3>1. isRemoved \/ ~enabled
      BY <1>3, <2>7, NewStates, StatesHavePlaces
    <3> QED
      BY <1>1, <1>5, <2>1, <2>3, <2>4, <2>7, <3>1 DEF IInv, RestExact
  <2> QED
    BY <2>6, <2>7
<1> QED
  BY <1>4, <1>5 DEF DidUpdate

(* A removal is sent while nothing of a setting is under way. *)
LEMMA RemoveSent ==
    ASSUME IInv, NEW by \in {"update", "refresh"}, breakpointId # "nowhere",
           by = "update" => stage = "locating" /\ stage' = "removing",
           by = "refresh" => stage' = stage,
           toBackend' = Append(toBackend, RemoveCommand(breakpointId, by)), toFrontend' = toFrontend,
           UNCHANGED <<heldVars, isRemoved>>
    PROVE  /\ QueuesShape' /\ Answers' = Answers
           /\ \A i \in DOMAIN Line : i \in DOMAIN Line' /\ Line'[i] = Line[i]
           /\ \A i \in DOMAIN Line' : i \in DOMAIN Line \/ (i > Answers /\ Line'[i].kind = "remove")
           /\ \A i \in DOMAIN Line' : Line'[i].kind # "set"
           /\ OneCommand' /\ DisablingExact' /\ HeldExact' /\ SetWillDo'
<1> DEFINE m == RemoveCommand(breakpointId, by)
           z == Size + 1
<1>1. /\ debuggerEnabled' = debuggerEnabled /\ backendEnabled' = backendEnabled
      /\ overlapped' = overlapped /\ dropped' = dropped /\ breakpoints' = breakpoints
      /\ breakpointId' = breakpointId /\ currentState' = currentState
      /\ cancelCallback' = cancelCallback /\ isRemoved' = isRemoved
  BY DEF heldVars
<1>2. QueuesShape /\ breakpointId \in Places
  BY DEF IInv, Shape, BreakpointTypeOK, QueuesShape
<1>3. m \in Messages /\ m.kind = "remove" /\ m.place = breakpointId /\ m.by = by
  BY <1>2, MessagesMade DEF RemoveCommand
<1> HIDE DEF m
<1>4. /\ QueuesShape' /\ Answers' = Answers /\ DOMAIN Line' = 1 .. z
      /\ \A i \in DOMAIN Line : i \in DOMAIN Line' /\ Line'[i] = Line[i]
      /\ Line'[z] = m
  BY <1>2, <1>3, LineSent DEF m
<1>5. DOMAIN Line = 1 .. Size /\ Size \in Nat /\ Answers \in Nat /\ Answers <= Size
  BY <1>2, LineShape
<1>6. /\ \A i \in DOMAIN Line' : i \in DOMAIN Line \/ i = z
      /\ \A i \in DOMAIN Line : i < z
      /\ z > Answers /\ z \in DOMAIN Line' /\ z \notin DOMAIN Line
      /\ \A i \in DOMAIN Line : ~(z < i)
      /\ ~(z < z)
  BY <1>4, <1>5
<1> HIDE DEF z
<1>7. stage # "setting" /\ ~cancelCallback /\ stage' # "setting"
  BY DEF IInv, OneCommand
<1>8. \A i \in DOMAIN Line : Line[i].kind # "set"
  BY <1>7 DEF IInv, OneCommand
<1>9. \A i \in DOMAIN Line' : Line'[i].kind # "set"
  BY <1>3, <1>4, <1>6, <1>8
<1>10. OneCommand'
  <2>1. stage' = "removing" <=>
            \E i \in DOMAIN Line' : Line'[i].kind = "remove" /\ Line'[i].by = "update"
    <3>1. CASE by = "update"
      BY <1>3, <1>4, <1>6, <3>1
    <3>2. CASE by = "refresh"
      <4>1. stage = "removing" <=> \E i \in DOMAIN Line : Line[i].kind = "remove" /\ Line[i].by = "update"
        BY DEF IInv, OneCommand
      <4> QED
        BY <1>3, <1>4, <1>6, <3>2, <4>1
    <3> QED
      BY <3>1, <3>2
  <2>2. by = "update" => \A i \in DOMAIN Line : ~(Line[i].kind = "remove" /\ Line[i].by = "update")
    BY DEF IInv, OneCommand
  <2>3. ASSUME NEW i \in DOMAIN Line', NEW j \in DOMAIN Line', i < j,
               Line'[i].kind = "remove", Line'[i].by = "update",
               Line'[j].kind = "remove", Line'[j].by = "update"
        PROVE  FALSE
    <3>1. i \in DOMAIN Line
      BY <1>6, <2>3
    <3>2. CASE j = z
      BY <1>3, <1>4, <2>2, <2>3, <3>1, <3>2
    <3>3. CASE j \in DOMAIN Line
      BY <1>4, <2>3, <3>1, <3>3 DEF IInv, OneCommand
    <3> QED
      BY <1>6, <3>2, <3>3
  <2>4. ASSUME NEW i \in DOMAIN Line', Line'[i].kind = "remove"
        PROVE  breakpointId \in {Line'[i].place, "nowhere"}
    BY <1>3, <1>4, <1>6, <2>4 DEF IInv, OneCommand
  <2> QED
    BY <1>1, <1>7, <1>9, <2>1, <2>3, <2>4 DEF OneCommand
<1>11. DisablingExact'
  <2>1. ~backendEnabled => breakpoints = {}
    BY DEF IInv, DisablingExact
  <2>2. ASSUME ~overlapped
        PROVE  /\ debuggerEnabled => /\ \A i \in DOMAIN Line' : Line'[i].kind \notin {"depth", "disable"}
                                     /\ backendEnabled \/ \E i \in DOMAIN Line' : i > Answers /\ Line'[i].kind = "enable"
               /\ \A i, j \in DOMAIN Line' :
                     i < j /\ Line'[i].kind \in {"depth", "disable"} => Line'[j].kind # "enable"
               /\ \A i \in DOMAIN Line' : i <= Answers /\ Line'[i].kind = "disable" => ~backendEnabled
    BY <1>3, <1>4, <1>6, <2>2 DEF IInv, DisablingExact
  <2> QED
    BY <1>1, <1>4, <2>1, <2>2 DEF DisablingExact
<1>12. HeldExact'
  <2>1. /\ \A i \in DOMAIN Line' : ~SetAnswered(i)'
        /\ \A i \in DOMAIN Line : ~SetAnswered(i)
    BY <1>8, <1>9 DEF SetAnswered
  <2>2. \A i \in DOMAIN Line' : RemoveAnswered(i)' => i \in DOMAIN Line /\ RemoveAnswered(i) /\ Line'[i] = Line[i]
    BY <1>4, <1>5, <1>6 DEF RemoveAnswered
  <2>3. \A i \in DOMAIN Line : (DisableAnswered(i) => DisableAnswered(i)') /\ (RemoveAnswered(i) => RemoveAnswered(i)')
    BY <1>4 DEF DisableAnswered, RemoveAnswered
  <2> QED
    BY <1>1, <1>4, <2>1, <2>2, <2>3 DEF IInv, HeldExact
<1>13. SetWillDo'
  BY <1>9 DEF SetWillDo
<1> QED
  BY <1>3, <1>4, <1>6, <1>9, <1>10, <1>11, <1>12, <1>13

LEMMA RefreshInDebuggerInv ==
    ASSUME IInv, RefreshInDebugger
    PROVE  IInv'
<1>1. /\ breakpointId # "nowhere"
      /\ toBackend' = Append(toBackend, RemoveCommand(breakpointId, "refresh")) /\ toFrontend' = toFrontend
      /\ UNCHANGED <<debuggerEnabled, backendEnabled, enabled, condition, isRemoved, knownState, mapped,
                     listening, isUpdating, hasPendingUpdate, cancelCallback, currentState, breakpointId,
                     stage, asked, breakpoints, overlapped, dropped>>
  BY DEF RefreshInDebugger, Ask
<1>2. UNCHANGED <<heldVars, isRemoved>> /\ stage' = stage
  BY <1>1 DEF heldVars
<1>3. /\ QueuesShape' /\ \A i \in DOMAIN Line' : Line'[i].kind # "set"
      /\ OneCommand' /\ DisablingExact' /\ HeldExact' /\ SetWillDo'
  BY <1>1, <1>2, RemoveSent
<1>4. Shape'
  <2>1. Shape /\ BreakpointTypeOK
    BY DEF IInv, Shape
  <2>2. BreakpointTypeOK'
    BY <1>1, <2>1 DEF BreakpointTypeOK
  <2> QED
    BY <1>1, <1>3, <2>1, <2>2 DEF Shape, QueuesShape
<1>5. UpdateExact' /\ RestExact'
  BY <1>1, <1>3 DEF IInv, UpdateExact, RestExact
<1> QED
  BY <1>3, <1>4, <1>5 DEF IInv

(* A setting is sent while no breakpoint is known, and no removal is under way that *)
(* the browser might see after it.                                                  *)
LEMMA SetSent ==
    ASSUME IInv, stage = "locating", breakpointId = "nowhere", NEW state \in State,
           state.condition = asked, enabled, ~isRemoved,
           stage' = "setting", currentState' = state,
           toBackend' = Append(toBackend, SetCommand(state)), toFrontend' = toFrontend,
           UNCHANGED <<debuggerEnabled, backendEnabled, overlapped, dropped, breakpoints, breakpointId,
                       cancelCallback, enabled, condition, isRemoved, listening, isUpdating,
                       hasPendingUpdate, asked>>
    PROVE  /\ QueuesShape' /\ OneCommand' /\ DisablingExact' /\ HeldExact'
           /\ UpdateExact' /\ SetWillDo' /\ RestExact'
<1> DEFINE m == SetCommand(state)
           z == Size + 1
<1>1. QueuesShape /\ isUpdating
  BY DEF IInv, Shape, BreakpointTypeOK, QueuesShape
<1>2. m \in Messages /\ m.kind = "set" /\ m.state = state /\ m.done = FALSE
  BY MessagesMade DEF SetCommand
<1> HIDE DEF m
<1>3. /\ QueuesShape' /\ Answers' = Answers /\ DOMAIN Line' = 1 .. z
      /\ \A i \in DOMAIN Line : i \in DOMAIN Line' /\ Line'[i] = Line[i]
      /\ Line'[z] = m
  BY <1>1, <1>2, LineSent DEF m
<1>4. DOMAIN Line = 1 .. Size /\ Size \in Nat /\ Answers \in Nat /\ Answers <= Size
  BY <1>1, LineShape
<1>5. /\ \A i \in DOMAIN Line' : i \in DOMAIN Line \/ i = z
      /\ \A i \in DOMAIN Line : i < z
      /\ z > Answers /\ z \in DOMAIN Line' /\ z \notin DOMAIN Line
      /\ \A i \in DOMAIN Line : ~(z < i)
      /\ ~(z < z) /\ ~(z <= Answers)
  BY <1>3, <1>4
<1> HIDE DEF z
<1>6. /\ \A i \in DOMAIN Line : Line[i].kind # "set"
      /\ \A i \in DOMAIN Line : ~(Line[i].kind = "remove" /\ Line[i].by = "update")
  BY DEF IInv, OneCommand
<1>7. \A i \in DOMAIN Line' : Line'[i].kind = "set" => i = z
  BY <1>3, <1>5, <1>6
<1>8. OneCommand'
  <2>1. \E i \in DOMAIN Line' : Line'[i].kind = "set"
    BY <1>2, <1>3, <1>5
  <2>2. ASSUME NEW i \in DOMAIN Line', NEW j \in DOMAIN Line', i < j, Line'[i].kind = "set"
        PROVE  FALSE
    <3>1. i = z
      BY <1>7, <2>2
    <3> QED
      BY <1>5, <2>2, <3>1
  <2>3. \A i \in DOMAIN Line' : ~(Line'[i].kind = "remove" /\ Line'[i].by = "update")
    BY <1>2, <1>3, <1>5, <1>6
  <2> QED
    BY <2>1, <2>2, <2>3 DEF OneCommand
<1>9. DisablingExact'
  <2>1. ~backendEnabled => breakpoints = {}
    BY DEF IInv, DisablingExact
  <2>2. ASSUME ~overlapped
        PROVE  /\ debuggerEnabled => /\ \A i \in DOMAIN Line' : Line'[i].kind \notin {"depth", "disable"}
                                     /\ backendEnabled \/ \E i \in DOMAIN Line' : i > Answers /\ Line'[i].kind = "enable"
               /\ \A i, j \in DOMAIN Line' :
                     i < j /\ Line'[i].kind \in {"depth", "disable"} => Line'[j].kind # "enable"
               /\ \A i \in DOMAIN Line' : i <= Answers /\ Line'[i].kind = "disable" => ~backendEnabled
    BY <1>2, <1>3, <1>5, <2>2 DEF IInv, DisablingExact
  <2> QED
    BY <1>3, <2>1, <2>2 DEF DisablingExact
<1>10. HeldExact'
  <2>1. /\ \A i \in DOMAIN Line' : ~SetAnswered(i)'
        /\ \A i \in DOMAIN Line : ~SetAnswered(i)
    BY <1>3, <1>5, <1>6, <1>7 DEF SetAnswered
  <2>2. \A i \in DOMAIN Line' : RemoveAnswered(i)' => i \in DOMAIN Line /\ RemoveAnswered(i) /\ Line'[i] = Line[i]
    BY <1>3, <1>5 DEF RemoveAnswered
  <2> QED
    BY <1>3, <2>1, <2>2 DEF IInv, HeldExact
<1>11. UpdateExact'
  <2>1. \A i \in DOMAIN Line' : Line'[i].kind = "set" =>
            /\ Line'[i].state.condition = asked
            /\ Line'[i].state = state
    BY <1>2, <1>3, <1>7
  <2> QED
    BY <1>1, <2>1 DEF IInv, UpdateExact
<1>12. SetWillDo'
  <2>1. ASSUME ~overlapped, debuggerEnabled
        PROVE  backendEnabled \/ \E j \in DOMAIN Line' : Answers < j /\ j < z /\ Line'[j].kind = "enable"
    BY <1>3, <1>4, <1>5, <2>1 DEF IInv, DisablingExact
  <2> QED
    BY <1>3, <1>5, <1>7, <2>1 DEF SetWillDo
<1>13. RestExact'
  BY DEF RestExact
<1> QED
  BY <1>3, <1>8, <1>9, <1>10, <1>11, <1>12, <1>13

(* A turn of the update loop. *)
LEMMA LocatedInv ==
    ASSUME IInv, Located
    PROVE  IInv'
<1>1. /\ stage = "locating"
      /\ UNCHANGED <<condition, enabled, isRemoved, mapped, listening, cancelCallback, breakpointId,
                     breakpoints, overlapped, dropped>>
  BY DEF Located
<1>2. Shape /\ BreakpointTypeOK
  BY DEF IInv, Shape
<1>3. CASE /\ UpToDate /\ DidUpdate /\ UNCHANGED <<debuggerVars, knownState, currentState>>
  <2>1. UNCHANGED <<toFrontend, toBackend, heldVars>> /\ knownState' = knownState
    BY <1>1, <1>3 DEF heldVars, debuggerVars
  <2>2. knownState \in State \cup {NoState}
    BY <1>2 DEF BreakpointTypeOK
  <2> QED
    BY <1>1, <1>3, <2>1, <2>2, LocatedNothingInv
<1>4. CASE /\ ~HasToGo /\ NewState = NoState /\ knownState' = NewState
           /\ DidUpdate /\ UNCHANGED <<debuggerVars, currentState>>
  <2>1. UNCHANGED <<toFrontend, toBackend, heldVars>>
    BY <1>1, <1>4 DEF heldVars, debuggerVars
  <2>2. breakpointId = "nowhere"
    BY <1>4 DEF HasToGo
  <2> QED
    BY <1>1, <1>4, <2>1, <2>2, LocatedNothingInv
<1>5. CASE /\ HasToGo /\ knownState' = NewState /\ Ask(RemoveCommand(breakpointId, "update"))
           /\ stage' = "removing"
           /\ UNCHANGED <<isUpdating, hasPendingUpdate, asked, currentState>>
  <2>1. /\ toBackend' = Append(toBackend, RemoveCommand(breakpointId, "update")) /\ toFrontend' = toFrontend
        /\ UNCHANGED <<debuggerEnabled, backendEnabled>> /\ breakpointId # "nowhere"
    BY <1>5 DEF Ask, HasToGo
  <2>2. UNCHANGED <<heldVars, isRemoved>>
    BY <1>1, <1>5, <2>1 DEF heldVars
  <2>3. /\ QueuesShape' /\ \A i \in DOMAIN Line' : Line'[i].kind # "set"
        /\ OneCommand' /\ DisablingExact' /\ HeldExact' /\ SetWillDo'
    BY <1>1, <1>5, <2>1, <2>2, RemoveSent
  <2>4. Shape'
    <3>1. NewState \in State \cup {NoState}
      BY <1>2, NewStates
    <3>2. BreakpointTypeOK'
      BY <1>1, <1>2, <1>5, <3>1 DEF BreakpointTypeOK
    <3> QED
      BY <1>1, <1>2, <2>1, <2>3, <3>2 DEF Shape, QueuesShape
  <2>5. UpdateExact' /\ RestExact'
    BY <1>1, <1>5, <2>3 DEF IInv, UpdateExact, RestExact
  <2> QED
    BY <2>3, <2>4, <2>5 DEF IInv
<1>6. CASE /\ ~HasToGo /\ NewState # NoState /\ knownState' = NewState /\ currentState' = NewState
           /\ Ask(SetCommand(NewState)) /\ stage' = "setting"
           /\ UNCHANGED <<isUpdating, hasPendingUpdate, asked>>
  <2>1. /\ toBackend' = Append(toBackend, SetCommand(NewState)) /\ toFrontend' = toFrontend
        /\ UNCHANGED <<debuggerEnabled, backendEnabled>> /\ breakpointId = "nowhere"
    BY <1>6 DEF Ask, HasToGo
  <2>2. ~isRemoved /\ enabled /\ NewState \in State /\ NewState.condition = asked
    <3>1. isRemoved \in BOOLEAN /\ enabled \in BOOLEAN
      BY <1>2 DEF BreakpointTypeOK
    <3> QED
      BY <1>2, <1>6, <3>1, NewStates
  <2>3. /\ QueuesShape' /\ OneCommand' /\ DisablingExact' /\ HeldExact'
        /\ UpdateExact' /\ SetWillDo' /\ RestExact'
    BY <1>1, <1>6, <2>1, <2>2, SetSent
  <2>4. Shape'
    <3>1. BreakpointTypeOK'
      BY <1>1, <1>2, <1>6, <2>2 DEF BreakpointTypeOK
    <3> QED
      BY <1>1, <1>2, <2>1, <2>3, <3>1 DEF Shape, QueuesShape
  <2> QED
    BY <2>3, <2>4 DEF IInv
<1> QED
  BY <1>3, <1>4, <1>5, <1>6 DEF Located

--------------------------------------------------------------------------------
(* Steps of the debugger. *)

(* A disabling is under way if one of its messages is in the line. *)
LEMMA DisablingInLine ==
    ASSUME QueuesShape, \E i \in DOMAIN Line : Line[i].kind \in {"depth", "disable"}
    PROVE  Disabling
<1>1. PICK i \in DOMAIN Line : Line[i].kind \in {"depth", "disable"}
  OBVIOUS
<1>2. DOMAIN Line = 1 .. Size /\ Size \in Nat /\ Answers \in Nat
  BY LineShape
<1>3. /\ DOMAIN toFrontend = 1 .. Answers /\ DOMAIN toBackend = 1 .. Len(toBackend)
      /\ Len(toBackend) \in Nat
  BY DEF QueuesShape, Answers
<1>4. Line[i] \in Range(toBackend) \cup Range(toFrontend)
  <2>1. CASE i <= Answers
    <3>1. i \in DOMAIN toFrontend /\ Line[i] = toFrontend[i]
      BY <1>2, <1>3, <2>1 DEF Line
    <3> QED
      BY <3>1 DEF Range
  <2>2. CASE ~(i <= Answers)
    <3>1. i - Answers \in DOMAIN toBackend /\ Line[i] = toBackend[i - Answers]
      BY <1>2, <1>3, <2>2 DEF Line, Size
    <3> QED
      BY <3>1 DEF Range
  <2> QED
    BY <2>1, <2>2
<1> QED
  BY <1>1, <1>4 DEF Disabling, UnderWay

(* A command of the debugger takes nothing from what is under way of the breakpoint. *)
LEMMA SwitchSent ==
    ASSUME IInv, NEW m \in Switches, toBackend' = Append(toBackend, m), toFrontend' = toFrontend,
           UNCHANGED <<backendEnabled, dropped, breakpoints, breakpointId, currentState,
                       cancelCallback, isRemoved>>,
           ~overlapped' => ~overlapped,
           stage' = stage \/ {stage, stage'} \subseteq {"idle", "locating", "resolving"}
    PROVE  /\ QueuesShape' /\ Answers' = Answers /\ Answers \in Nat /\ Size \in Nat
           /\ \A i \in DOMAIN Line : i \in DOMAIN Line' /\ Line'[i] = Line[i] /\ i < Size + 1
           /\ \A i \in DOMAIN Line' : i \in DOMAIN Line \/ i = Size + 1
           /\ Size + 1 \in DOMAIN Line' /\ Line'[Size + 1] = m /\ Size + 1 > Answers
           /\ \A i \in DOMAIN Line' : Line'[i].kind = "set" => i \in DOMAIN Line /\ Line'[i] = Line[i]
           /\ OneCommand' /\ HeldExact'
<1> DEFINE z == Size + 1
<1>1. QueuesShape /\ m \in Messages /\ m.kind \notin {"set", "remove"}
  BY DEF IInv, Shape, QueuesShape, Messages, Switches
<1>2. /\ QueuesShape' /\ Answers' = Answers /\ DOMAIN Line' = 1 .. z
      /\ \A i \in DOMAIN Line : i \in DOMAIN Line' /\ Line'[i] = Line[i]
      /\ Line'[z] = m
  BY <1>1, LineSent
<1>3. DOMAIN Line = 1 .. Size /\ Size \in Nat /\ Answers \in Nat /\ Answers <= Size
  BY <1>1, LineShape
<1>4. /\ \A i \in DOMAIN Line' : i \in DOMAIN Line \/ i = z
      /\ \A i \in DOMAIN Line : i < z
      /\ z > Answers /\ z \in DOMAIN Line' /\ ~(z <= Answers)
  BY <1>2, <1>3
<1> HIDE DEF z
<1>5. \A i \in DOMAIN Line' : Line'[i].kind \in {"set", "remove"} => i \in DOMAIN Line /\ Line'[i] = Line[i]
  BY <1>1, <1>2, <1>4
<1>6. OneCommand'
  <2>1. (stage' = "setting" <=> stage = "setting") /\ (stage' = "removing" <=> stage = "removing")
    OBVIOUS
  <2>2. (\E i \in DOMAIN Line' : Line'[i].kind = "set") <=> \E i \in DOMAIN Line : Line[i].kind = "set"
    BY <1>2, <1>5
  <2>3. (\E i \in DOMAIN Line' : Line'[i].kind = "remove" /\ Line'[i].by = "update")
        <=> \E i \in DOMAIN Line : Line[i].kind = "remove" /\ Line[i].by = "update"
    BY <1>2, <1>5
  <2>4. ASSUME NEW i \in DOMAIN Line', NEW j \in DOMAIN Line', i < j
        PROVE  /\ Line'[i].kind = "set" => Line'[j].kind \notin {"set", "remove"}
               /\ Line'[i].kind = "remove" /\ Line'[i].by = "update" =>
                     ~(Line'[j].kind = "remove" /\ Line'[j].by = "update")
    BY <1>2, <1>5, <2>4 DEF IInv, OneCommand
  <2>5. \A i \in DOMAIN Line' : Line'[i].kind = "remove" => breakpointId \in {Line'[i].place, "nowhere"}
    BY <1>5 DEF IInv, OneCommand
  <2>6. stage = "setting" \/ cancelCallback => breakpointId = "nowhere"
    BY DEF IInv, OneCommand
  <2>7. /\ stage' = "setting" <=> \E i \in DOMAIN Line' : Line'[i].kind = "set"
        /\ stage' = "removing" <=> \E i \in DOMAIN Line' : Line'[i].kind = "remove" /\ Line'[i].by = "update"
    BY <2>1, <2>2, <2>3 DEF IInv, OneCommand
  <2> QED
    BY <2>1, <2>4, <2>5, <2>6, <2>7 DEF OneCommand
<1>7. HeldExact'
  <2>1. /\ \A i \in DOMAIN Line' : SetAnswered(i)' => i \in DOMAIN Line /\ SetAnswered(i) /\ Line'[i] = Line[i]
        /\ \A i \in DOMAIN Line' : RemoveAnswered(i)' => i \in DOMAIN Line /\ RemoveAnswered(i) /\ Line'[i] = Line[i]
        /\ \A i \in DOMAIN Line : SetAnswered(i) => SetAnswered(i)'
        /\ \A i \in DOMAIN Line : RemoveAnswered(i) => RemoveAnswered(i)'
        /\ \A i \in DOMAIN Line : DisableAnswered(i) => DisableAnswered(i)'
    BY <1>2, <1>4, <1>5 DEF SetAnswered, RemoveAnswered, DisableAnswered
  <2> QED
    BY <1>2, <2>1 DEF IInv, HeldExact
<1> QED
  BY <1>1, <1>2, <1>3, <1>4, <1>5, <1>6, <1>7 DEF z

LEMMA DisableInv ==
    ASSUME IInv, Disable, UNCHANGED breakpointVars
    PROVE  IInv'
<1>1. /\ debuggerEnabled' = FALSE /\ backendEnabled' = backendEnabled
      /\ toBackend' = Append(toBackend, Plain("depth")) /\ toFrontend' = toFrontend
      /\ UNCHANGED <<enabled, condition, isRemoved, knownState, mapped, listening, isUpdating,
                     hasPendingUpdate, cancelCallback, currentState, breakpointId, stage, asked,
                     breakpoints, overlapped, dropped>>
  BY DEF Disable, Call, breakpointVars
<1> DEFINE m == Plain("depth")
<1>2. m \in Switches /\ m.kind = "depth"
  BY DEF Plain, Switches
<1> HIDE DEF m
<1>3. /\ QueuesShape' /\ Answers' = Answers
      /\ \A i \in DOMAIN Line : i \in DOMAIN Line' /\ Line'[i] = Line[i] /\ i < Size + 1
      /\ \A i \in DOMAIN Line' : i \in DOMAIN Line \/ i = Size + 1
      /\ Size + 1 \in DOMAIN Line' /\ Line'[Size + 1] = m /\ Size + 1 > Answers
      /\ \A i \in DOMAIN Line' : Line'[i].kind = "set" => i \in DOMAIN Line /\ Line'[i] = Line[i]
      /\ OneCommand' /\ HeldExact'
  BY <1>1, <1>2, SwitchSent DEF m
<1>4. Shape'
  <2>1. Shape /\ BreakpointTypeOK
    BY DEF IInv, Shape
  <2>2. BreakpointTypeOK'
    BY <1>1, <2>1 DEF BreakpointTypeOK
  <2> QED
    BY <1>1, <1>3, <2>1, <2>2 DEF Shape, QueuesShape
<1>5. DisablingExact'
  <2>1. ASSUME ~overlapped, NEW i \in DOMAIN Line', NEW j \in DOMAIN Line', i < j,
               Line'[i].kind \in {"depth", "disable"}
        PROVE  Line'[j].kind # "enable"
    <3>1. CASE j = Size + 1
      BY <1>2, <1>3, <3>1
    <3>2. CASE j \in DOMAIN Line /\ i \in DOMAIN Line
      BY <1>3, <2>1, <3>2 DEF IInv, DisablingExact
    <3>3. CASE j \in DOMAIN Line /\ i = Size + 1
      <4>1. Size \in Nat /\ j \in 1 .. Size
        BY <3>3, LineShape DEF IInv, Shape, QueuesShape
      <4> QED
        BY <2>1, <3>3, <4>1
    <3> QED
      BY <1>3, <3>1, <3>2, <3>3
  <2>2. ~overlapped => \A i \in DOMAIN Line' : i <= Answers /\ Line'[i].kind = "disable" => ~backendEnabled
    BY <1>2, <1>3 DEF IInv, DisablingExact
  <2> QED
    BY <1>1, <1>3, <2>1, <2>2 DEF IInv, DisablingExact
<1>6. UpdateExact' /\ SetWillDo' /\ RestExact'
  BY <1>1, <1>3 DEF IInv, UpdateExact, SetWillDo, RestExact
<1> QED
  BY <1>3, <1>4, <1>5, <1>6 DEF IInv

LEMMA EnableAndUpdateInv ==
    ASSUME IInv, EnableAndUpdate
    PROVE  IInv'
<1>1. /\ debuggerEnabled' = TRUE /\ backendEnabled' = backendEnabled
      /\ toBackend' = Append(toBackend, Plain("enable")) /\ toFrontend' = toFrontend
      /\ overlapped' = (overlapped \/ Disabling)
      /\ IF listening THEN ScheduleUpdate
         ELSE UNCHANGED <<isUpdating, hasPendingUpdate, stage, asked>>
      /\ UNCHANGED <<enabled, condition, isRemoved, knownState, mapped, listening, cancelCallback,
                     currentState, breakpointId, breakpoints, dropped>>
  BY DEF EnableAndUpdate, Enable, Call
<1>2. Shape /\ BreakpointTypeOK /\ QueuesShape /\ UpdateExact /\ OneCommand /\ listening = ~isRemoved
  BY DEF IInv, Shape, QueuesShape, UpdateExact, BreakpointTypeOK
<1> DEFINE m == Plain("enable")
<1>3. m \in Switches /\ m.kind = "enable"
  BY DEF Plain, Switches
<1> HIDE DEF m
<1>4. \/ /\ listening /\ stage = "idle" /\ stage' = "locating" /\ isUpdating' = TRUE
         /\ hasPendingUpdate' = FALSE /\ asked' = condition'
      \/ /\ listening /\ stage # "idle" /\ hasPendingUpdate' = TRUE /\ UNCHANGED <<isUpdating, stage, asked>>
      \/ ~listening /\ UNCHANGED <<isUpdating, hasPendingUpdate, stage, asked>>
  BY <1>1, <1>2 DEF ScheduleUpdate, StartUpdate, BreakpointTypeOK
<1>5. stage' = stage \/ {stage, stage'} \subseteq {"idle", "locating", "resolving"}
  BY <1>4
<1>6. ~overlapped' => ~overlapped /\ \A i \in DOMAIN Line : Line[i].kind \notin {"depth", "disable"}
  BY <1>1, <1>2, DisablingInLine
<1>7. /\ QueuesShape' /\ Answers' = Answers
      /\ \A i \in DOMAIN Line : i \in DOMAIN Line' /\ Line'[i] = Line[i] /\ i < Size + 1
      /\ \A i \in DOMAIN Line' : i \in DOMAIN Line \/ i = Size + 1
      /\ Size + 1 \in DOMAIN Line' /\ Line'[Size + 1] = m /\ Size + 1 > Answers
      /\ \A i \in DOMAIN Line' : Line'[i].kind = "set" => i \in DOMAIN Line /\ Line'[i] = Line[i]
      /\ OneCommand' /\ HeldExact'
  BY <1>1, <1>3, <1>5, <1>6, SwitchSent DEF m
<1>8. Shape'
  <2>1. hasPendingUpdate' \in BOOLEAN /\ isUpdating' \in BOOLEAN /\ asked' \in Conditions
        /\ stage' \in {"idle", "locating", "removing", "setting", "resolving"}
        /\ (isUpdating' <=> stage' # "idle")
    <3>1. /\ hasPendingUpdate \in BOOLEAN /\ isUpdating \in BOOLEAN /\ asked \in Conditions
          /\ stage \in {"idle", "locating", "removing", "setting", "resolving"}
          /\ (isUpdating <=> stage # "idle") /\ condition \in Conditions
      BY <1>2 DEF BreakpointTypeOK
    <3>2. CASE /\ stage' = "locating" /\ isUpdating' = TRUE /\ hasPendingUpdate' = FALSE
               /\ asked' = condition'
      BY <1>1, <3>1, <3>2
    <3>3. CASE hasPendingUpdate' = TRUE /\ UNCHANGED <<isUpdating, stage, asked>>
      BY <3>1, <3>3
    <3>4. CASE UNCHANGED <<isUpdating, hasPendingUpdate, stage, asked>>
      BY <3>1, <3>4
    <3> QED
      BY <1>4, <3>2, <3>3, <3>4
  <2>2. BreakpointTypeOK'
    BY <1>1, <1>2, <2>1 DEF BreakpointTypeOK
  <2>3. overlapped' \in BOOLEAN
    BY <1>1
  <2> QED
    BY <1>1, <1>2, <1>7, <2>2, <2>3 DEF Shape, QueuesShape
<1>9. DisablingExact'
  <2>1. ASSUME ~overlapped'
        PROVE  /\ \A i \in DOMAIN Line' : Line'[i].kind \notin {"depth", "disable"}
               /\ \E i \in DOMAIN Line' : i > Answers' /\ Line'[i].kind = "enable"
    BY <1>3, <1>6, <1>7, <2>1
  <2>2. ~backendEnabled' => breakpoints' = {}
    BY <1>1 DEF IInv, DisablingExact
  <2> QED
    BY <2>1, <2>2 DEF DisablingExact
<1>10. UpdateExact'
  <2>1. ASSUME NEW i \in DOMAIN Line', Line'[i].kind = "set"
        PROVE  /\ Line'[i].state.condition = asked'
               /\ currentState' \in {NoState, Line'[i].state}
               /\ ~hasPendingUpdate' /\ ~cancelCallback' => currentState' = Line'[i].state
    <3>1. i \in DOMAIN Line /\ Line'[i] = Line[i] /\ stage = "setting"
      BY <1>2, <1>7, <2>1 DEF OneCommand
    <3> QED
      BY <1>1, <1>2, <1>4, <2>1, <3>1 DEF UpdateExact
  <2>2. /\ ~isUpdating' => ~hasPendingUpdate'
        /\ isUpdating' /\ ~hasPendingUpdate' => asked' = condition'
        /\ stage' \in {"setting", "resolving"} /\ ~hasPendingUpdate' => enabled' /\ ~isRemoved'
    BY <1>1, <1>2, <1>4 DEF UpdateExact, BreakpointTypeOK
  <2> QED
    BY <1>1, <1>2, <2>1, <2>2 DEF UpdateExact
<1>11. SetWillDo'
  <2>1. ASSUME ~hasPendingUpdate', NEW i \in DOMAIN Line', Line'[i].kind = "set"
        PROVE  FALSE
    <3>1. stage = "setting"
      BY <1>2, <1>7, <2>1 DEF OneCommand
    <3>2. ~listening /\ ~hasPendingUpdate
      BY <1>4, <2>1, <3>1
    <3> QED
      BY <1>2, <3>1, <3>2 DEF UpdateExact
  <2> QED
    BY <2>1 DEF SetWillDo
<1>12. RestExact'
  <2>1. stage' = "idle" \/ (stage' = "resolving" /\ ~hasPendingUpdate') => ~listening /\ stage' = stage
    BY <1>4
  <2> QED
    BY <1>1, <1>2, <2>1 DEF IInv, RestExact
<1> QED
  BY <1>7, <1>8, <1>9, <1>10, <1>11, <1>12 DEF IInv

--------------------------------------------------------------------------------
(* Answers of the browser. *)

(* What an answer leaves as it is in the line. *)
LEMMA AnswerKeeps ==
    ASSUME IInv, NEW m \in Messages, toBackend # <<>>,
           m.kind = Head(toBackend).kind,
           m.kind = "set" => m.state = Head(toBackend).state,
           m.kind = "remove" => m = Head(toBackend),
           toBackend' = Tail(toBackend), toFrontend' = Append(toFrontend, m),
           UNCHANGED <<enabled, condition, isRemoved, knownState, mapped, listening, isUpdating,
                       hasPendingUpdate, cancelCallback, currentState, breakpointId, stage, asked,
                       debuggerEnabled, overlapped, dropped>>
    PROVE  /\ QueuesShape' /\ Answers \in Nat /\ Answers' = Answers + 1
           /\ DOMAIN Line' = DOMAIN Line /\ Answers + 1 \in DOMAIN Line
           /\ \A i \in DOMAIN Line : i \in Int /\ (i # Answers + 1 => Line'[i] = Line[i])
           /\ \A i \in DOMAIN Line : i <= Answers <=> i <= Answers + 1 /\ i # Answers + 1
           /\ \A i \in DOMAIN Line : i > Answers + 1 <=> i > Answers /\ i # Answers + 1
           /\ Line'[Answers + 1] = m /\ Line[Answers + 1] = Head(toBackend)
           /\ \A i \in DOMAIN Line : Line'[i].kind = Line[i].kind
           /\ OneCommand' /\ UpdateExact' /\ RestExact'
<1> DEFINE a == Answers + 1
<1>1. QueuesShape
  BY DEF IInv, Shape, QueuesShape
<1>2. /\ QueuesShape' /\ Answers' = a /\ DOMAIN Line' = DOMAIN Line /\ a \in DOMAIN Line
      /\ \A i \in DOMAIN Line : i # a => Line'[i] = Line[i]
      /\ Line'[a] = m /\ Line[a] = Head(toBackend)
  BY <1>1, LineAnswered
<1>3. Answers \in Nat /\ DOMAIN Line = 1 .. Size /\ Size \in Nat
  BY <1>1, LineShape
<1>4. /\ \A i \in DOMAIN Line : i \in Int
      /\ \A i \in DOMAIN Line : i <= Answers <=> i <= a /\ i # a
      /\ \A i \in DOMAIN Line : i > a <=> i > Answers /\ i # a
  BY <1>3
<1> HIDE DEF a
<1>5. /\ \A i \in DOMAIN Line : Line'[i].kind = Line[i].kind
      /\ \A i \in DOMAIN Line : Line[i].kind = "set" => Line'[i].state = Line[i].state
      /\ \A i \in DOMAIN Line : Line[i].kind = "remove" => Line'[i] = Line[i]
  BY <1>2
<1>6. OneCommand'
  <2>1. stage = "setting" <=> \E i \in DOMAIN Line' : Line'[i].kind = "set"
    BY <1>2, <1>5 DEF IInv, OneCommand
  <2>2. stage = "removing" <=> \E i \in DOMAIN Line' : Line'[i].kind = "remove" /\ Line'[i].by = "update"
    BY <1>2, <1>5 DEF IInv, OneCommand
  <2>3. ASSUME NEW i \in DOMAIN Line, NEW j \in DOMAIN Line, i < j
        PROVE  /\ Line'[i].kind = "set" => Line'[j].kind \notin {"set", "remove"}
               /\ Line'[i].kind = "remove" /\ Line'[i].by = "update" =>
                     ~(Line'[j].kind = "remove" /\ Line'[j].by = "update")
    BY <1>5, <2>3 DEF IInv, OneCommand
  <2>4. \A i \in DOMAIN Line' : Line'[i].kind = "remove" => breakpointId \in {Line'[i].place, "nowhere"}
    BY <1>2, <1>5 DEF IInv, OneCommand
  <2>5. stage = "setting" \/ cancelCallback => breakpointId = "nowhere"
    BY DEF IInv, OneCommand
  <2> QED
    BY <1>2, <2>1, <2>2, <2>3, <2>4, <2>5 DEF OneCommand
<1>7. UpdateExact' /\ RestExact'
  BY <1>2, <1>5 DEF IInv, UpdateExact, RestExact
<1> QED
  BY <1>2, <1>3, <1>4, <1>5, <1>6, <1>7 DEF a

LEMMA DebuggerAnswersInv ==
    ASSUME IInv, DebuggerAnswers
    PROVE  IInv'
<1> DEFINE m == Head(toBackend)
           a == Answers + 1
<1>1. /\ toBackend # <<>> /\ m.kind \in {"enable", "depth", "disable"}
      /\ backendEnabled' = CASE m.kind = "enable" -> TRUE
                             [] m.kind = "disable" -> FALSE
                             [] OTHER -> backendEnabled
      /\ toFrontend' = Append(toFrontend, m) /\ toBackend' = Tail(toBackend)
      /\ breakpoints' = IF m.kind = "disable" THEN {} ELSE breakpoints
      /\ UNCHANGED <<enabled, condition, isRemoved, knownState, mapped, listening, isUpdating,
                     hasPendingUpdate, cancelCallback, currentState, breakpointId, stage, asked,
                     debuggerEnabled, overlapped, dropped>>
  BY DEF DebuggerAnswers, BackendAnswers
<1>2. Shape /\ BreakpointTypeOK /\ QueuesShape
  BY DEF IInv, Shape, QueuesShape
<1>3. m \in Messages
  BY <1>1, <1>2 DEF QueuesShape
<1> HIDE DEF m
<1>4. /\ QueuesShape' /\ Answers \in Nat /\ Answers' = a
      /\ DOMAIN Line' = DOMAIN Line /\ a \in DOMAIN Line
      /\ \A i \in DOMAIN Line : i \in Int /\ (i # a => Line'[i] = Line[i])
      /\ \A i \in DOMAIN Line : i <= Answers <=> i <= a /\ i # a
      /\ \A i \in DOMAIN Line : i > a <=> i > Answers /\ i # a
      /\ Line'[a] = m /\ Line[a] = m
      /\ OneCommand' /\ UpdateExact' /\ RestExact'
  BY <1>1, <1>3, AnswerKeeps DEF m
<1>5. a > Answers
  BY <1>4
<1> HIDE DEF a
<1>6. \A i \in DOMAIN Line : Line'[i] = Line[i]
  BY <1>4
<1>7. backendEnabled' \in BOOLEAN /\ breakpoints' \subseteq State
  BY <1>1, <1>2 DEF Shape, BreakpointTypeOK
<1>8. Shape'
  <2>1. BreakpointTypeOK'
    BY <1>1, <1>2, <1>7 DEF BreakpointTypeOK
  <2> QED
    BY <1>1, <1>2, <1>4, <1>7, <2>1 DEF Shape, QueuesShape
<1>9. ~overlapped /\ debuggerEnabled => m.kind = "enable" /\ backendEnabled' = TRUE
  BY <1>1, <1>4 DEF IInv, DisablingExact
<1>10. DisablingExact'
  <2>1. ASSUME ~overlapped, NEW i \in DOMAIN Line, i <= a, Line[i].kind = "disable"
        PROVE  ~backendEnabled'
    <3>1. CASE i = a
      BY <1>1, <1>4, <2>1, <3>1
    <3>2. CASE i # a
      <4>1. i <= Answers /\ i < a
        BY <1>4, <1>5, <2>1, <3>2
      <4>2. ~backendEnabled /\ m.kind # "enable"
        BY <1>4, <2>1, <4>1 DEF IInv, DisablingExact
      <4> QED
        BY <1>1, <4>2
    <3> QED
      BY <3>1, <3>2
  <2>2. ~backendEnabled' => breakpoints' = {}
    BY <1>1 DEF IInv, DisablingExact
  <2> QED
    BY <1>1, <1>4, <1>6, <1>9, <2>1, <2>2 DEF IInv, DisablingExact
<1>11. \A i \in DOMAIN Line : (SetAnswered(i)' <=> SetAnswered(i)) /\ (RemoveAnswered(i)' <=> RemoveAnswered(i))
  BY <1>1, <1>4, <1>6 DEF SetAnswered, RemoveAnswered
<1>12. \A i \in DOMAIN Line : DisableAnswered(i) => DisableAnswered(i)'
  BY <1>4, <1>6 DEF DisableAnswered
<1>13. HeldExact'
  <2>1. CASE m.kind = "disable"
    <3>1. PICK k \in DOMAIN Line : k = a
      BY <1>4
    <3>2. DisableAnswered(k)' /\ breakpoints' = {}
      <4>1. k \in DOMAIN Line' /\ k <= Answers' /\ Line'[k].kind = "disable"
        BY <1>4, <2>1, <3>1
      <4> QED
        BY <1>1, <2>1, <4>1 DEF DisableAnswered
    <3>3. \A i \in DOMAIN Line : SetAnswered(i)' => i < k
      BY <1>4, <1>5, <1>11, <3>1 DEF SetAnswered
    <3>4. ~overlapped /\ ~dropped /\ ~isRemoved /\ breakpointId # "nowhere" /\ currentState # NoState
          => currentState.place = breakpointId
      BY DEF IInv, HeldExact
    <3> QED
      BY <1>1, <1>4, <3>2, <3>3, <3>4 DEF HeldExact
  <2>2. CASE m.kind # "disable"
    <3>1. breakpoints' = breakpoints
      BY <1>1, <2>2
    <3> QED
      BY <1>1, <1>4, <1>6, <1>11, <1>12, <3>1 DEF IInv, HeldExact
  <2> QED
    BY <2>1, <2>2
<1>14. SetWillDo'
  BY <1>1, <1>4, <1>6, <1>9 DEF IInv, SetWillDo
<1> QED
  BY <1>4, <1>8, <1>10, <1>13, <1>14 DEF IInv

(* A breakpoint is set: nothing else was in its place. *)
LEMMA SetAnsweredInv ==
    ASSUME IInv, toBackend # <<>>, Head(toBackend).kind = "set", NEW done \in BOOLEAN,
           done <=> backendEnabled /\ \A b \in breakpoints : b.place # Head(toBackend).state.place,
           breakpoints' = IF done THEN breakpoints \cup {Head(toBackend).state} ELSE breakpoints,
           toBackend' = Tail(toBackend),
           toFrontend' = Append(toFrontend, [Head(toBackend) EXCEPT !.done = done]),
           backendEnabled' = backendEnabled,
           UNCHANGED <<enabled, condition, isRemoved, knownState, mapped, listening, isUpdating,
                       hasPendingUpdate, cancelCallback, currentState, breakpointId, stage, asked,
                       debuggerEnabled, overlapped, dropped>>
    PROVE  IInv'
<1> DEFINE c == Head(toBackend)
           m == [c EXCEPT !.done = done]
           a == Answers + 1
<1>1. Shape /\ BreakpointTypeOK /\ QueuesShape
  BY DEF IInv, Shape, QueuesShape
<1>2. c \in Sets /\ c.state \in State
  <2>1. c \in Messages
    BY <1>1 DEF QueuesShape
  <2> QED
    BY <2>1, MessageKinds
<1>3. m \in Messages /\ m.kind = "set" /\ m.state = c.state /\ m.done = done
  BY <1>2 DEF Messages, Sets
<1> HIDE DEF c, m
<1>4. /\ QueuesShape' /\ Answers \in Nat /\ Answers' = a
      /\ DOMAIN Line' = DOMAIN Line /\ a \in DOMAIN Line
      /\ \A i \in DOMAIN Line : i \in Int /\ (i # a => Line'[i] = Line[i])
      /\ \A i \in DOMAIN Line : i <= Answers <=> i <= a /\ i # a
      /\ \A i \in DOMAIN Line : i > a <=> i > Answers /\ i # a
      /\ Line'[a] = m /\ Line[a] = c
      /\ \A i \in DOMAIN Line : Line'[i].kind = Line[i].kind
      /\ OneCommand' /\ UpdateExact' /\ RestExact'
  BY <1>3, AnswerKeeps DEF c, m
<1>5. a > Answers /\ ~(a <= Answers) /\ \A i \in DOMAIN Line : i < a \/ i = a \/ a < i
  BY <1>4
<1> HIDE DEF a
<1>6. Line[a].kind = "set" /\ \A i \in DOMAIN Line : i # a => Line[i].kind # "set"
  BY <1>4, <1>5 DEF IInv, OneCommand, c
<1>7. Shape'
  <2>1. breakpoints' \subseteq State
    BY <1>1, <1>2 DEF BreakpointTypeOK, c
  <2>2. BreakpointTypeOK'
    BY <1>1, <2>1 DEF BreakpointTypeOK
  <2> QED
    BY <1>1, <1>4, <2>2 DEF Shape, QueuesShape
<1>8. DisablingExact'
  <2>1. ASSUME ~overlapped, NEW i \in DOMAIN Line, i <= a, Line[i].kind = "disable"
        PROVE  ~backendEnabled
    BY <1>4, <1>6, <2>1 DEF IInv, DisablingExact
  <2>2. ASSUME ~overlapped, debuggerEnabled
        PROVE  /\ \A i \in DOMAIN Line : Line[i].kind \notin {"depth", "disable"}
               /\ backendEnabled \/ \E i \in DOMAIN Line : i > a /\ Line[i].kind = "enable"
    BY <1>4, <1>6, <2>2 DEF IInv, DisablingExact
  <2>3. ~backendEnabled => breakpoints' = {}
    BY DEF IInv, DisablingExact
  <2>4. ~overlapped => \A i, j \in DOMAIN Line :
                          i < j /\ Line[i].kind \in {"depth", "disable"} => Line[j].kind # "enable"
    BY DEF IInv, DisablingExact
  <2> QED
    BY <1>4, <2>1, <2>2, <2>3, <2>4 DEF DisablingExact
<1>9. PICK k \in DOMAIN Line : k = a
  BY <1>4
<1>10. /\ \A i \in DOMAIN Line : ~SetAnswered(i)
       /\ SetAnswered(k)' <=> done
       /\ \A i \in DOMAIN Line : SetAnswered(i)' => i = k
  BY <1>3, <1>4, <1>5, <1>6, <1>9 DEF SetAnswered
<1>11. \A i \in DOMAIN Line : (RemoveAnswered(i)' => RemoveAnswered(i) /\ Line'[i] = Line[i])
                              /\ (RemoveAnswered(i) => RemoveAnswered(i)')
                              /\ (DisableAnswered(i) => DisableAnswered(i)')
  BY <1>4, <1>5, <1>6 DEF RemoveAnswered, DisableAnswered
<1>12. breakpointId = "nowhere" /\ breakpointId' = "nowhere"
  BY <1>4, <1>6 DEF IInv, OneCommand
<1>13. HeldExact'
  <2>1. ASSUME NEW i \in DOMAIN Line, NEW b \in breakpoints', RemoveAnswered(i)', b.place = Line'[i].place
        PROVE  \E j \in DOMAIN Line : SetAnswered(j)'
    <3>1. CASE b \in breakpoints
      BY <1>10, <1>11, <2>1, <3>1 DEF IInv, HeldExact
    <3>2. CASE done
      BY <1>10, <3>2
    <3> QED
      BY <2>1, <3>1, <3>2
  <2>2. \A i \in DOMAIN Line : SetAnswered(i)' => Line'[i].state \in breakpoints'
    BY <1>3, <1>4, <1>9, <1>10 DEF c
  <2>3. ASSUME ~overlapped, ~dropped, NEW b \in breakpoints'
        PROVE  b.place = breakpointId \/ \E i \in DOMAIN Line : SetAnswered(i)' /\ Line'[i].state = b
    <3>1. CASE b \in breakpoints
      BY <1>10, <2>3, <3>1 DEF IInv, HeldExact
    <3>2. CASE done /\ b = c.state
      BY <1>3, <1>4, <1>9, <1>10, <3>2
    <3> QED
      BY <2>3, <3>1, <3>2 DEF c
  <2> QED
    BY <1>4, <1>12, <2>1, <2>2, <2>3 DEF HeldExact
<1>14. SetWillDo'
  <2>1. ASSUME ~overlapped, ~dropped, debuggerEnabled, ~hasPendingUpdate
        PROVE  done
    <3>1. backendEnabled
      <4>1. IF a <= Answers THEN Line[a].done
            ELSE backendEnabled \/ \E j \in DOMAIN Line : Answers < j /\ j < a /\ Line[j].kind = "enable"
        BY <1>4, <1>6, <2>1 DEF IInv, SetWillDo
      <4>2. \A j \in DOMAIN Line : ~(Answers < j /\ j < a)
        BY <1>4 DEF a
      <4> QED
        BY <1>5, <4>1, <4>2
    <3>2. breakpoints = {}
      <4>1. \A b \in breakpoints : b.place = "nowhere" /\ b \in State
        BY <1>1, <1>10, <1>12, <2>1 DEF IInv, HeldExact, BreakpointTypeOK
      <4> QED
        BY <4>1, StatesHavePlaces
    <3> QED
      BY <3>1, <3>2
  <2> QED
    BY <1>3, <1>4, <1>6, <2>1 DEF SetWillDo
<1> QED
  BY <1>4, <1>7, <1>8, <1>13, <1>14 DEF IInv

(* A breakpoint is removed. *)
LEMMA RemoveAnsweredInv ==
    ASSUME IInv, toBackend # <<>>, Head(toBackend).kind = "remove",
           breakpoints' = {b \in breakpoints : b.place # Head(toBackend).place},
           toBackend' = Tail(toBackend), toFrontend' = Append(toFrontend, Head(toBackend)),
           backendEnabled' = backendEnabled,
           UNCHANGED <<enabled, condition, isRemoved, knownState, mapped, listening, isUpdating,
                       hasPendingUpdate, cancelCallback, currentState, breakpointId, stage, asked,
                       debuggerEnabled, overlapped, dropped>>
    PROVE  IInv'
<1> DEFINE m == Head(toBackend)
           a == Answers + 1
<1>1. Shape /\ BreakpointTypeOK /\ QueuesShape
  BY DEF IInv, Shape, QueuesShape
<1>2. m \in Messages /\ m.kind = "remove"
  BY <1>1 DEF QueuesShape
<1> HIDE DEF m
<1>4. /\ QueuesShape' /\ Answers \in Nat /\ Answers' = a
      /\ DOMAIN Line' = DOMAIN Line /\ a \in DOMAIN Line
      /\ \A i \in DOMAIN Line : i \in Int /\ (i # a => Line'[i] = Line[i])
      /\ \A i \in DOMAIN Line : i <= Answers <=> i <= a /\ i # a
      /\ \A i \in DOMAIN Line : i > a <=> i > Answers /\ i # a
      /\ Line'[a] = m /\ Line[a] = m
      /\ OneCommand' /\ UpdateExact' /\ RestExact'
  BY <1>2, AnswerKeeps DEF m
<1>5. a > Answers /\ ~(a <= Answers) /\ \A i \in DOMAIN Line : i <= Answers => i < a
  BY <1>4
<1> HIDE DEF a
<1>6. \A i \in DOMAIN Line : Line'[i] = Line[i]
  BY <1>4
<1>7. Shape'
  <2>1. BreakpointTypeOK'
    BY <1>1 DEF BreakpointTypeOK
  <2> QED
    BY <1>1, <1>4, <2>1 DEF Shape, QueuesShape
<1>8. DisablingExact'
  <2>1. ASSUME ~overlapped, NEW i \in DOMAIN Line, i <= a, Line[i].kind = "disable"
        PROVE  ~backendEnabled
    BY <1>2, <1>4, <2>1 DEF IInv, DisablingExact
  <2>2. ASSUME ~overlapped, debuggerEnabled
        PROVE  /\ \A i \in DOMAIN Line : Line[i].kind \notin {"depth", "disable"}
               /\ backendEnabled \/ \E i \in DOMAIN Line : i > a /\ Line[i].kind = "enable"
    BY <1>2, <1>4, <2>2 DEF IInv, DisablingExact
  <2>3. ~backendEnabled => breakpoints' = {}
    BY DEF IInv, DisablingExact
  <2>4. ~overlapped => \A i, j \in DOMAIN Line :
                          i < j /\ Line[i].kind \in {"depth", "disable"} => Line[j].kind # "enable"
    BY DEF IInv, DisablingExact
  <2> QED
    BY <1>4, <1>6, <2>1, <2>2, <2>3, <2>4 DEF DisablingExact
<1>9. PICK k \in DOMAIN Line : k = a
  BY <1>4
<1>10. \A i \in DOMAIN Line : ~SetAnswered(i) /\ ~SetAnswered(i)'
  <2>1. \A i \in DOMAIN Line : i < a => Line[i].kind # "set"
    BY <1>2, <1>4 DEF IInv, OneCommand
  <2> QED
    BY <1>2, <1>4, <1>5, <1>6, <2>1 DEF SetAnswered
<1>11. /\ \A i \in DOMAIN Line : RemoveAnswered(i)' => i = k \/ RemoveAnswered(i)
       /\ RemoveAnswered(k)'
       /\ \A i \in DOMAIN Line : RemoveAnswered(i) => RemoveAnswered(i)'
       /\ \A i \in DOMAIN Line : DisableAnswered(i) => DisableAnswered(i)'
  <2>1. k \in DOMAIN Line' /\ k <= Answers' /\ Line'[k].kind = "remove"
    BY <1>2, <1>4, <1>9
  <2> QED
    BY <1>4, <1>6, <1>9, <2>1 DEF RemoveAnswered, DisableAnswered
<1>12. HeldExact'
  <2>1. ASSUME NEW i \in DOMAIN Line, NEW b \in breakpoints', RemoveAnswered(i)', b.place = Line[i].place
        PROVE  FALSE
    <3>1. b \in breakpoints /\ b.place # m.place
      BY DEF m
    <3>2. RemoveAnswered(i)
      BY <1>4, <1>9, <1>11, <2>1, <3>1
    <3> QED
      BY <1>10, <2>1, <3>1, <3>2 DEF IInv, HeldExact
  <2>2. ASSUME ~overlapped, ~dropped
        PROVE  /\ \A b \in breakpoints' : b.place = breakpointId
               /\ ~isRemoved /\ breakpointId # "nowhere" /\ currentState # NoState =>
                     currentState.place = breakpointId
    BY <1>10, <2>2 DEF IInv, HeldExact
  <2> QED
    BY <1>4, <1>6, <1>10, <1>11, <2>1, <2>2 DEF HeldExact
<1>13. SetWillDo'
  <2>1. \A i \in DOMAIN Line : i < a => Line[i].kind # "set"
    BY <1>2, <1>4 DEF IInv, OneCommand
  <2>2. ASSUME ~overlapped, ~dropped, debuggerEnabled, ~hasPendingUpdate,
               NEW i \in DOMAIN Line, Line[i].kind = "set"
        PROVE  /\ ~(i <= a)
               /\ backendEnabled \/ \E j \in DOMAIN Line : a < j /\ j < i /\ Line[j].kind = "enable"
    <3>1. ~(i <= Answers) /\ i # a /\ ~(i <= a)
      BY <1>2, <1>4, <1>5, <2>1, <2>2
    <3>2. backendEnabled \/ \E j \in DOMAIN Line : Answers < j /\ j < i /\ Line[j].kind = "enable"
      BY <2>2, <3>1 DEF IInv, SetWillDo
    <3>3. \A j \in DOMAIN Line : Answers < j /\ Line[j].kind = "enable" => a < j
      BY <1>2, <1>4
    <3> QED
      BY <3>1, <3>2, <3>3
  <2> QED
    BY <1>4, <1>6, <2>2 DEF SetWillDo
<1> QED
  BY <1>4, <1>7, <1>8, <1>12, <1>13 DEF IInv

LEMMA BreakpointAnswersInv ==
    ASSUME IInv, BreakpointAnswers
    PROVE  IInv'
<1> DEFINE m == Head(toBackend)
           free == \A b \in breakpoints : b.place # m.state.place
<1>1. /\ toBackend # <<>> /\ toBackend' = Tail(toBackend) /\ backendEnabled' = backendEnabled
      /\ UNCHANGED <<enabled, condition, isRemoved, knownState, mapped, listening, isUpdating,
                     hasPendingUpdate, cancelCallback, currentState, breakpointId, stage, asked,
                     debuggerEnabled, overlapped, dropped>>
  BY DEF BreakpointAnswers
<1>2. \/ /\ m.kind = "set"
         /\ breakpoints' = IF backendEnabled /\ free THEN breakpoints \cup {m.state} ELSE breakpoints
         /\ toFrontend' = Append(toFrontend, [m EXCEPT !.done = backendEnabled /\ free])
      \/ /\ m.kind = "remove"
         /\ breakpoints' = {b \in breakpoints : b.place # m.place}
         /\ toFrontend' = Append(toFrontend, m)
  BY DEF BreakpointAnswers
<1>3. CASE /\ m.kind = "set"
           /\ breakpoints' = IF backendEnabled /\ free THEN breakpoints \cup {m.state} ELSE breakpoints
           /\ toFrontend' = Append(toFrontend, [m EXCEPT !.done = backendEnabled /\ free])
  <2>1. (backendEnabled /\ free) \in BOOLEAN
    BY DEF IInv, Shape
  <2> QED
    BY <1>1, <1>3, <2>1, SetAnsweredInv
<1>4. CASE /\ m.kind = "remove"
           /\ breakpoints' = {b \in breakpoints : b.place # m.place}
           /\ toFrontend' = Append(toFrontend, m)
  BY <1>1, <1>4, RemoveAnsweredInv
<1> QED
  BY <1>2, <1>3, <1>4

--------------------------------------------------------------------------------
(* Answers that are received. *)

\* The place before and after the first message left the line.
Up(i) == i + 1
Down(i) == i - 1

LEMMA MovedUp ==
    ASSUME QueuesShape, toFrontend # <<>>, toFrontend' = Tail(toFrontend), toBackend' = toBackend
    PROVE  /\ QueuesShape'
           /\ 1 \in DOMAIN Line /\ 1 <= Answers /\ Line[1] = Head(toFrontend)
           /\ \A k \in DOMAIN Line : k # 1 => 1 < k
           /\ \A i \in DOMAIN Line' : /\ Up(i) \in DOMAIN Line /\ Up(i) # 1
                                      /\ Line'[i] = Line[Up(i)]
                                      /\ i <= Answers' <=> Up(i) <= Answers
                                      /\ i > Answers' <=> Up(i) > Answers
           /\ \A k \in DOMAIN Line : k # 1 => Down(k) \in DOMAIN Line' /\ Up(Down(k)) = k
           /\ \A i, j \in DOMAIN Line' : i < j <=> Up(i) < Up(j)
<1>1. /\ QueuesShape' /\ Answers' = Answers - 1 /\ Answers >= 1 /\ Size' = Size - 1
      /\ 1 \in DOMAIN Line /\ Line[1] = Head(toFrontend)
      /\ \A i \in DOMAIN Line' : i + 1 \in DOMAIN Line /\ Line'[i] = Line[i + 1]
      /\ \A i \in DOMAIN Line : i # 1 => i - 1 \in DOMAIN Line' /\ Line'[i - 1] = Line[i]
  BY LineReceived
<1>2. DOMAIN Line = 1 .. Size /\ Size \in Nat /\ Answers \in Nat
  BY LineShape
<1>3. DOMAIN Line' = 1 .. Size'
  BY DEF Line, Size
<1>4. DOMAIN Line' = 1 .. Size - 1
  BY <1>1, <1>3
<1>5. /\ \A i \in 1 .. Size - 1 : i + 1 # 1 /\ (i <= Answers - 1 <=> i + 1 <= Answers)
                                  /\ (i > Answers - 1 <=> i + 1 > Answers)
      /\ \A k \in 1 .. Size : (k # 1 => 1 < k) /\ k - 1 + 1 = k
      /\ \A i, j \in 1 .. Size - 1 : i < j <=> i + 1 < j + 1
      /\ 1 <= Answers
  BY <1>1, <1>2
<1> QED
  BY <1>1, <1>2, <1>4, <1>5 DEF Up, Down

(* What is left when the first message was received. *)
LEMMA ReceivedLeaves ==
    ASSUME IInv, toFrontend # <<>>, toFrontend' = Tail(toFrontend), toBackend' = toBackend,
           UNCHANGED <<backendEnabled, breakpoints>>
    PROVE  /\ QueuesShape'
           /\ \A i \in DOMAIN Line' : /\ SetAnswered(i)' <=> SetAnswered(Up(i))
                                      /\ RemoveAnswered(i)' <=> RemoveAnswered(Up(i))
                                      /\ DisableAnswered(i)' <=> DisableAnswered(Up(i))
           /\ UNCHANGED <<debuggerEnabled, overlapped>> => DisablingExact'
           /\ Head(toFrontend).kind # "set" =>
                /\ \A i \in DOMAIN Line', b \in breakpoints :
                      RemoveAnswered(i)' /\ b.place = Line'[i].place => \E j \in DOMAIN Line' : SetAnswered(j)'
                /\ \A i \in DOMAIN Line' :
                      SetAnswered(i)' => Line'[i].state \in breakpoints
                                         \/ \E j \in DOMAIN Line' : i < j /\ DisableAnswered(j)'
                /\ UNCHANGED <<debuggerEnabled, overlapped, dropped>> /\ (hasPendingUpdate => hasPendingUpdate')
                   => SetWillDo'
<1>1. QueuesShape
  BY DEF IInv, Shape, QueuesShape
<1>2. /\ QueuesShape'
      /\ 1 \in DOMAIN Line /\ 1 <= Answers /\ Line[1] = Head(toFrontend)
      /\ \A k \in DOMAIN Line : k # 1 => 1 < k
      /\ \A i \in DOMAIN Line' : /\ Up(i) \in DOMAIN Line /\ Up(i) # 1
                                 /\ Line'[i] = Line[Up(i)]
                                 /\ i <= Answers' <=> Up(i) <= Answers
                                 /\ i > Answers' <=> Up(i) > Answers
      /\ \A k \in DOMAIN Line : k # 1 => Down(k) \in DOMAIN Line' /\ Up(Down(k)) = k
      /\ \A i, j \in DOMAIN Line' : i < j <=> Up(i) < Up(j)
  BY <1>1, MovedUp
<1>3. \A i \in DOMAIN Line' : /\ SetAnswered(i)' <=> SetAnswered(Up(i))
                              /\ RemoveAnswered(i)' <=> RemoveAnswered(Up(i))
                              /\ DisableAnswered(i)' <=> DisableAnswered(Up(i))
  BY <1>2 DEF SetAnswered, RemoveAnswered, DisableAnswered
<1>4. ASSUME UNCHANGED <<debuggerEnabled, overlapped>>
      PROVE  DisablingExact'
  <2>1. ASSUME ~overlapped, debuggerEnabled
        PROVE  /\ \A i \in DOMAIN Line' : Line'[i].kind \notin {"depth", "disable"}
               /\ backendEnabled \/ \E i \in DOMAIN Line' : i > Answers' /\ Line'[i].kind = "enable"
    <3>1. \A k \in DOMAIN Line : k > Answers => k # 1
      <4>1. ~(1 > Answers)
        BY <1>1, <1>2, LineShape
      <4> QED
        BY <4>1
    <3> QED
      BY <1>2, <2>1, <3>1 DEF IInv, DisablingExact
  <2>2. ASSUME ~overlapped
        PROVE  /\ \A i, j \in DOMAIN Line' :
                     i < j /\ Line'[i].kind \in {"depth", "disable"} => Line'[j].kind # "enable"
               /\ \A i \in DOMAIN Line' : i <= Answers' /\ Line'[i].kind = "disable" => ~backendEnabled
    BY <1>2, <2>2 DEF IInv, DisablingExact
  <2> QED
    BY <1>4, <2>1, <2>2 DEF IInv, DisablingExact
<1>5. ASSUME Head(toFrontend).kind # "set"
      PROVE  /\ \A i \in DOMAIN Line', b \in breakpoints :
                   RemoveAnswered(i)' /\ b.place = Line'[i].place => \E j \in DOMAIN Line' : SetAnswered(j)'
             /\ \A i \in DOMAIN Line' :
                   SetAnswered(i)' => Line'[i].state \in breakpoints
                                      \/ \E j \in DOMAIN Line' : i < j /\ DisableAnswered(j)'
  <2>1. ~SetAnswered(1)
    BY <1>2, <1>5 DEF SetAnswered
  <2>2. ASSUME NEW i \in DOMAIN Line', NEW b \in breakpoints, RemoveAnswered(i)', b.place = Line'[i].place
        PROVE  \E j \in DOMAIN Line' : SetAnswered(j)'
    <3>1. PICK k \in DOMAIN Line : SetAnswered(k)
      BY <1>2, <1>3, <2>2 DEF IInv, HeldExact
    <3>2. Down(k) \in DOMAIN Line' /\ Up(Down(k)) = k
      BY <1>2, <2>1, <3>1
    <3> QED
      BY <1>3, <3>1, <3>2
  <2>3. ASSUME NEW i \in DOMAIN Line', SetAnswered(i)', Line'[i].state \notin breakpoints
        PROVE  \E j \in DOMAIN Line' : i < j /\ DisableAnswered(j)'
    <3>1. PICK k \in DOMAIN Line : Up(i) < k /\ DisableAnswered(k)
      BY <1>2, <1>3, <2>3 DEF IInv, HeldExact
    <3>2. k # 1
      <4>1. 1 < Up(i) /\ Up(i) \in Int /\ k \in Int
        BY <1>1, <1>2, LineShape
      <4> QED
        BY <3>1, <4>1
    <3>3. Down(k) \in DOMAIN Line' /\ Up(Down(k)) = k
      BY <1>2, <3>2
    <3>4. PICK j \in DOMAIN Line' : Up(j) = k
      BY <3>3
    <3> QED
      BY <1>2, <1>3, <3>1, <3>4
  <2> QED
    BY <2>2, <2>3
<1>6. ASSUME Head(toFrontend).kind # "set", UNCHANGED <<debuggerEnabled, overlapped, dropped>>,
             hasPendingUpdate => hasPendingUpdate'
      PROVE  SetWillDo'
  <2>1. ASSUME ~overlapped, ~dropped, debuggerEnabled, ~hasPendingUpdate,
               NEW i \in DOMAIN Line', Line'[i].kind = "set"
        PROVE  IF i <= Answers' THEN Line'[i].done
               ELSE backendEnabled \/ \E j \in DOMAIN Line' : Answers' < j /\ j < i /\ Line'[j].kind = "enable"
    <3>1. IF Up(i) <= Answers THEN Line[Up(i)].done
          ELSE backendEnabled \/ \E j \in DOMAIN Line : Answers < j /\ j < Up(i) /\ Line[j].kind = "enable"
      BY <1>2, <2>1 DEF IInv, SetWillDo
    <3>2. ASSUME NEW k \in DOMAIN Line, Answers < k, k < Up(i), Line[k].kind = "enable"
          PROVE  \E j \in DOMAIN Line' : Answers' < j /\ j < i /\ Line'[j].kind = "enable"
      <4>1. k # 1 /\ k > Answers
        <5>1. k \in Int /\ Answers \in Int
          BY <1>1, LineShape
        <5> QED
          BY <1>2, <3>2, <5>1
      <4>2. PICK j \in DOMAIN Line' : Up(j) = k
        BY <1>2, <4>1
      <4>3. j > Answers' /\ j < i /\ Line'[j].kind = "enable"
        BY <1>2, <3>2, <4>1, <4>2
      <4> QED
        BY <4>3
    <3> QED
      BY <1>2, <3>1, <3>2
  <2> QED
    BY <1>6, <2>1 DEF SetWillDo
<1> QED
  BY <1>2, <1>3, <1>4, <1>5, <1>6

(* The answer to an enabling. *)
LEMMA RegisterDebuggerInv ==
    ASSUME IInv, RegisterDebugger, UNCHANGED breakpointVars
    PROVE  IInv'
<1>1. /\ toFrontend # <<>> /\ Head(toFrontend).kind = "enable" /\ toFrontend' = Tail(toFrontend)
      /\ UNCHANGED <<toBackend, backendEnabled, debuggerEnabled>>
      /\ UNCHANGED <<enabled, condition, isRemoved, knownState, mapped, listening, isUpdating,
                     hasPendingUpdate, cancelCallback, currentState, breakpointId, stage, asked,
                     breakpoints, overlapped, dropped>>
  BY DEF RegisterDebugger, Receive, breakpointVars
<1>2. Shape /\ BreakpointTypeOK /\ QueuesShape
  BY DEF IInv, Shape, QueuesShape
<1>3. /\ QueuesShape' /\ DisablingExact' /\ SetWillDo'
      /\ \A i \in DOMAIN Line' : /\ SetAnswered(i)' <=> SetAnswered(Up(i))
                                 /\ RemoveAnswered(i)' <=> RemoveAnswered(Up(i))
                                 /\ DisableAnswered(i)' <=> DisableAnswered(Up(i))
      /\ \A i \in DOMAIN Line', b \in breakpoints :
            RemoveAnswered(i)' /\ b.place = Line'[i].place => \E j \in DOMAIN Line' : SetAnswered(j)'
      /\ \A i \in DOMAIN Line' :
            SetAnswered(i)' => Line'[i].state \in breakpoints
                               \/ \E j \in DOMAIN Line' : i < j /\ DisableAnswered(j)'
  BY <1>1, ReceivedLeaves
<1>4. /\ 1 \in DOMAIN Line /\ Line[1].kind = "enable"
      /\ \A i \in DOMAIN Line' : Up(i) \in DOMAIN Line /\ Line'[i] = Line[Up(i)]
      /\ \A k \in DOMAIN Line : k # 1 => Down(k) \in DOMAIN Line' /\ Up(Down(k)) = k
      /\ \A i, j \in DOMAIN Line' : i < j <=> Up(i) < Up(j)
  BY <1>1, <1>2, MovedUp
<1>5. Shape'
  <2>1. BreakpointTypeOK'
    BY <1>1, <1>2 DEF BreakpointTypeOK
  <2> QED
    BY <1>1, <1>2, <1>3, <2>1 DEF Shape, QueuesShape
<1>6. OneCommand'
  <2>1. stage = "setting" <=> \E i \in DOMAIN Line' : Line'[i].kind = "set"
    BY <1>4 DEF IInv, OneCommand
  <2>2. stage = "removing" <=> \E i \in DOMAIN Line' : Line'[i].kind = "remove" /\ Line'[i].by = "update"
    BY <1>4 DEF IInv, OneCommand
  <2> QED
    BY <1>1, <1>4, <2>1, <2>2 DEF IInv, OneCommand
<1>7. HeldExact'
  <2>1. ASSUME ~overlapped, ~dropped, NEW b \in breakpoints, b.place # breakpointId
        PROVE  \E i \in DOMAIN Line' : SetAnswered(i)' /\ Line'[i].state = b
    <3>1. PICK k \in DOMAIN Line : SetAnswered(k) /\ Line[k].state = b
      BY <2>1 DEF IInv, HeldExact
    <3>2. k # 1
      BY <1>4, <3>1 DEF SetAnswered
    <3> QED
      BY <1>3, <1>4, <3>1, <3>2
  <2>2. ASSUME ~overlapped, ~dropped, ~isRemoved, breakpointId # "nowhere", currentState # NoState
        PROVE  /\ currentState.place = breakpointId
               /\ \/ currentState \in breakpoints
                  \/ \E i \in DOMAIN Line' : DisableAnswered(i)' \/ RemoveAnswered(i)'
    <3>1. ASSUME NEW k \in DOMAIN Line, DisableAnswered(k) \/ RemoveAnswered(k)
          PROVE  \E i \in DOMAIN Line' : DisableAnswered(i)' \/ RemoveAnswered(i)'
      <4>1. k # 1
        BY <1>4, <3>1 DEF DisableAnswered, RemoveAnswered
      <4> QED
        BY <1>3, <1>4, <3>1, <4>1
    <3> QED
      BY <2>2, <3>1 DEF IInv, HeldExact
  <2> QED
    BY <1>1, <1>3, <2>1, <2>2 DEF HeldExact
<1>8. UpdateExact' /\ RestExact'
  BY <1>1, <1>4 DEF IInv, UpdateExact, RestExact
<1> QED
  BY <1>3, <1>5, <1>6, <1>7, <1>8 DEF IInv

(* The debugger is off: what is known of the breakpoint is forgotten, unless *)
(* the Breakpoint was removed and does not listen any more.                  *)
LEMMA DisabledAndCleanUpInv ==
    ASSUME IInv, DisabledAndCleanUp
    PROVE  IInv'
<1>1. /\ toFrontend # <<>> /\ Head(toFrontend).kind = "disable" /\ toFrontend' = Tail(toFrontend)
      /\ UNCHANGED <<toBackend, backendEnabled, debuggerEnabled>>
      /\ mapped' = FALSE
      /\ UNCHANGED <<enabled, condition, isRemoved, knownState, listening, isUpdating,
                     hasPendingUpdate, stage, asked, breakpoints, overlapped, dropped>>
  BY DEF DisabledAndCleanUp, Disabled, Receive
<1>2. Shape /\ BreakpointTypeOK /\ QueuesShape
  BY DEF IInv, Shape, QueuesShape
<1>3. /\ isUpdating \in BOOLEAN /\ cancelCallback \in BOOLEAN /\ listening = ~isRemoved
      /\ isRemoved \in BOOLEAN /\ breakpointId \in Places \cup {"nowhere"}
      /\ currentState \in State \cup {NoState}
      /\ (cancelCallback => breakpointId = "nowhere")
      /\ (stage = "setting" => breakpointId = "nowhere" /\ isUpdating)
  BY <1>2 DEF IInv, BreakpointTypeOK, UpdateExact, OneCommand
<1>4. \/ /\ listening /\ currentState' = NoState
         /\ breakpointId # "nowhere" /\ cancelCallback' = FALSE /\ breakpointId' \in {breakpointId, "nowhere"}
      \/ /\ listening /\ currentState' = NoState
         /\ breakpointId = "nowhere" /\ breakpointId' = "nowhere"
         /\ cancelCallback' \in BOOLEAN /\ (isUpdating => cancelCallback')
      \/ ~listening /\ UNCHANGED <<cancelCallback, currentState, breakpointId>>
  <2>1. CASE listening /\ breakpointId # "nowhere"
    BY <2>1 DEF DisabledAndCleanUp, CleanUp, DidRemoveFromDebugger
  <2>2. CASE listening /\ breakpointId = "nowhere"
    BY <1>3, <2>2 DEF DisabledAndCleanUp, CleanUp
  <2>3. CASE ~listening
    BY <2>3 DEF DisabledAndCleanUp
  <2> QED
    BY <2>1, <2>2, <2>3
<1>5. /\ cancelCallback' \in BOOLEAN
      /\ breakpointId' \in {breakpointId, "nowhere"}
      /\ (cancelCallback' => breakpointId' = "nowhere")
      /\ currentState' \in {currentState, NoState}
  <2>1. CASE listening /\ breakpointId # "nowhere"
    BY <1>4, <2>1
  <2>2. CASE listening /\ breakpointId = "nowhere"
    BY <1>4, <2>2
  <2>3. CASE ~listening
    BY <1>3, <1>4, <2>3
  <2> QED
    BY <2>1, <2>2, <2>3
<1>6. /\ QueuesShape' /\ DisablingExact'
      /\ hasPendingUpdate' = hasPendingUpdate
      /\ SetWillDo'
      /\ \A i \in DOMAIN Line', b \in breakpoints :
            RemoveAnswered(i)' /\ b.place = Line'[i].place => \E j \in DOMAIN Line' : SetAnswered(j)'
      /\ \A i \in DOMAIN Line' :
            SetAnswered(i)' => Line'[i].state \in breakpoints
                               \/ \E j \in DOMAIN Line' : i < j /\ DisableAnswered(j)'
  BY <1>1, ReceivedLeaves
<1>7. /\ 1 \in DOMAIN Line /\ 1 <= Answers /\ Line[1].kind = "disable"
      /\ \A i \in DOMAIN Line' : Up(i) \in DOMAIN Line /\ Line'[i] = Line[Up(i)]
      /\ \A k \in DOMAIN Line : k # 1 => Down(k) \in DOMAIN Line' /\ Up(Down(k)) = k
      /\ \A i, j \in DOMAIN Line' : i < j <=> Up(i) < Up(j)
  BY <1>1, <1>2, MovedUp
<1>8. ~overlapped => ~debuggerEnabled /\ breakpoints = {}
  BY <1>7 DEF IInv, DisablingExact
<1>9. Shape'
  <2>1. currentState' \in State \cup {NoState} /\ breakpointId' \in Places \cup {"nowhere"}
    BY <1>3, <1>5
  <2>2. BreakpointTypeOK'
    BY <1>1, <1>2, <1>5, <2>1 DEF BreakpointTypeOK
  <2> QED
    BY <1>1, <1>2, <1>6, <2>2 DEF Shape, QueuesShape
<1>10. OneCommand'
  <2>1. stage = "setting" <=> \E i \in DOMAIN Line' : Line'[i].kind = "set"
    BY <1>7 DEF IInv, OneCommand
  <2>2. stage = "removing" <=> \E i \in DOMAIN Line' : Line'[i].kind = "remove" /\ Line'[i].by = "update"
    BY <1>7 DEF IInv, OneCommand
  <2>3. \A i \in DOMAIN Line' : Line'[i].kind = "remove" => breakpointId' \in {Line'[i].place, "nowhere"}
    BY <1>5, <1>7 DEF IInv, OneCommand
  <2>4. stage = "setting" \/ cancelCallback' => breakpointId' = "nowhere"
    BY <1>3, <1>5
  <2> QED
    BY <1>1, <1>7, <2>1, <2>2, <2>3, <2>4 DEF IInv, OneCommand
<1>11. HeldExact'
  <2>1. ~isRemoved /\ currentState' # NoState => FALSE
    BY <1>3, <1>4
  <2> QED
    BY <1>1, <1>6, <1>8, <2>1 DEF HeldExact
<1>12. UpdateExact'
  <2>1. ASSUME NEW i \in DOMAIN Line', Line'[i].kind = "set"
        PROVE  /\ Line'[i].state.condition = asked
               /\ currentState' \in {NoState, Line'[i].state}
               /\ ~hasPendingUpdate /\ ~cancelCallback' => currentState' = Line'[i].state
    <3>1. Line'[i] = Line[Up(i)] /\ Up(i) \in DOMAIN Line /\ stage = "setting"
      BY <1>7, <2>1 DEF IInv, OneCommand
    <3>2. CASE listening
      <4>1. currentState' = NoState /\ cancelCallback'
        BY <1>3, <1>4, <3>1, <3>2
      <4> QED
        BY <2>1, <3>1, <4>1 DEF IInv, UpdateExact
    <3>3. CASE ~listening
      <4>1. UNCHANGED <<cancelCallback, currentState, breakpointId>>
        BY <1>4, <3>3
      <4> QED
        BY <2>1, <3>1, <4>1 DEF IInv, UpdateExact
    <3> QED
      BY <3>2, <3>3
  <2> QED
    BY <1>1, <2>1 DEF IInv, UpdateExact
<1>13. RestExact'
  <2>1. stage = "idle" /\ (isRemoved \/ ~enabled) => breakpointId' = "nowhere"
    BY <1>5 DEF IInv, RestExact
  <2> QED
    BY <1>1, <1>8, <2>1 DEF RestExact
<1> QED
  BY <1>6, <1>9, <1>10, <1>11, <1>12, <1>13 DEF IInv

(* A removal is over. *)
LEMMA RemovedInv ==
    ASSUME IInv, Removed
    PROVE  IInv'
<1> DEFINE m == Head(toFrontend)
<1>1. /\ toFrontend # <<>> /\ m.kind = "remove" /\ toFrontend' = Tail(toFrontend)
      /\ UNCHANGED <<toBackend, backendEnabled, debuggerEnabled>>
      /\ currentState' = NoState /\ cancelCallback' = FALSE
      /\ breakpointId' = IF cancelCallback THEN breakpointId ELSE "nowhere"
      /\ IF m.by = "update" THEN StartUpdate ELSE ScheduleUpdate
      /\ UNCHANGED <<enabled, condition, isRemoved, knownState, mapped, listening, breakpoints,
                     overlapped, dropped>>
  BY DEF Removed, Answered, Receive, DidRemoveFromDebugger
<1> HIDE DEF m
<1>2. Shape /\ BreakpointTypeOK /\ QueuesShape
  BY DEF IInv, Shape, QueuesShape
<1>3. breakpointId' = "nowhere"
  BY <1>1 DEF IInv, OneCommand
<1>4. /\ QueuesShape' /\ DisablingExact'
      /\ \A i \in DOMAIN Line', b \in breakpoints :
            RemoveAnswered(i)' /\ b.place = Line'[i].place => \E j \in DOMAIN Line' : SetAnswered(j)'
      /\ \A i \in DOMAIN Line' :
            SetAnswered(i)' => Line'[i].state \in breakpoints
                               \/ \E j \in DOMAIN Line' : i < j /\ DisableAnswered(j)'
      /\ (hasPendingUpdate => hasPendingUpdate') => SetWillDo'
      /\ \A i \in DOMAIN Line' : SetAnswered(i)' <=> SetAnswered(Up(i))
  BY <1>1, ReceivedLeaves DEF m
<1>5. /\ 1 \in DOMAIN Line /\ 1 <= Answers /\ Line[1] = m
      /\ \A k \in DOMAIN Line : k # 1 => 1 < k
      /\ \A i \in DOMAIN Line' : Up(i) \in DOMAIN Line /\ Up(i) # 1 /\ Line'[i] = Line[Up(i)]
      /\ \A k \in DOMAIN Line : k # 1 => Down(k) \in DOMAIN Line' /\ Up(Down(k)) = k
      /\ \A i, j \in DOMAIN Line' : i < j <=> Up(i) < Up(j)
  BY <1>1, <1>2, MovedUp DEF m
<1>6. (\E i \in DOMAIN Line' : Line'[i].kind = "set") <=> stage = "setting"
  BY <1>1, <1>5 DEF IInv, OneCommand
<1>7. \/ /\ stage' = "locating" /\ isUpdating' = TRUE /\ hasPendingUpdate' = FALSE /\ asked' = condition
         /\ m.by = "update" /\ stage = "removing"
      \/ /\ stage' = "locating" /\ isUpdating' = TRUE /\ hasPendingUpdate' = FALSE /\ asked' = condition
         /\ m.by # "update" /\ stage = "idle"
      \/ /\ m.by # "update" /\ stage # "idle" /\ isUpdating /\ hasPendingUpdate' = TRUE
         /\ UNCHANGED <<isUpdating, stage, asked>>
  <2>1. CASE m.by = "update"
    <3>1. stage = "removing"
      BY <1>1, <1>5, <2>1 DEF IInv, OneCommand
    <3> QED
      BY <1>1, <2>1, <3>1 DEF StartUpdate
  <2>2. CASE m.by # "update"
    BY <1>1, <1>2, <2>2 DEF ScheduleUpdate, StartUpdate, BreakpointTypeOK
  <2> QED
    BY <2>1, <2>2
<1>8. /\ (stage' = "setting" <=> stage = "setting")
      /\ stage' # "idle" /\ isUpdating' = TRUE
      /\ (stage' # "locating" => stage' = stage /\ hasPendingUpdate' /\ asked' = asked)
      /\ (stage' = "setting" => hasPendingUpdate')
  BY <1>2, <1>7 DEF BreakpointTypeOK
<1>9. Shape'
  <2>1. /\ stage \in {"idle", "locating", "removing", "setting", "resolving"}
        /\ condition \in Conditions /\ asked \in Conditions
    BY <1>2 DEF BreakpointTypeOK
  <2>2. /\ isUpdating' \in BOOLEAN /\ hasPendingUpdate' \in BOOLEAN /\ asked' \in Conditions
        /\ stage' \in {"idle", "locating", "removing", "setting", "resolving"}
        /\ (isUpdating' <=> stage' # "idle")
    <3>1. CASE stage' = "locating" /\ isUpdating' = TRUE /\ hasPendingUpdate' = FALSE /\ asked' = condition
      BY <2>1, <3>1
    <3>2. CASE stage # "idle" /\ hasPendingUpdate' = TRUE /\ UNCHANGED <<isUpdating, stage, asked>>
      BY <1>8, <2>1, <3>2
    <3> QED
      BY <1>7, <3>1, <3>2
  <2>3. BreakpointTypeOK'
    BY <1>1, <1>2, <1>3, <2>2 DEF BreakpointTypeOK
  <2> QED
    BY <1>1, <1>2, <1>4, <2>3 DEF Shape, QueuesShape
<1>10. stage' = "removing" <=>
           \E i \in DOMAIN Line' : Line'[i].kind = "remove" /\ Line'[i].by = "update"
  <2>1. CASE m.by = "update"
    <3>1. \A k \in DOMAIN Line : k # 1 => ~(Line[k].kind = "remove" /\ Line[k].by = "update")
      BY <1>1, <1>5, <2>1 DEF IInv, OneCommand
    <3> QED
      BY <1>5, <1>7, <2>1, <3>1
  <2>2. CASE m.by # "update"
    <3>1. stage' = "removing" <=> stage = "removing"
      BY <1>7, <2>2
    <3>2. stage = "removing" <=> \E i \in DOMAIN Line' : Line'[i].kind = "remove" /\ Line'[i].by = "update"
      BY <1>5, <2>2 DEF IInv, OneCommand
    <3> QED
      BY <3>1, <3>2
  <2> QED
    BY <2>1, <2>2
<1>11. OneCommand'
  BY <1>1, <1>3, <1>5, <1>6, <1>8, <1>10 DEF IInv, OneCommand
<1>12. HeldExact'
  <2>1. ASSUME ~overlapped, ~dropped, NEW b \in breakpoints
        PROVE  \E i \in DOMAIN Line' : SetAnswered(i)' /\ Line'[i].state = b
    <3>1. b.place # breakpointId
      <4>1. SUFFICES ASSUME b.place = breakpointId
                     PROVE  FALSE
        OBVIOUS
      <4>2. b.place # "nowhere"
        BY <1>2, StatesHavePlaces DEF BreakpointTypeOK
      <4>3. breakpointId = m.place
        BY <1>1, <1>5, <4>1, <4>2 DEF IInv, OneCommand
      <4>4. PICK j \in DOMAIN Line : SetAnswered(j)
        BY <1>1, <1>5, <4>1, <4>3 DEF IInv, HeldExact, RemoveAnswered
      <4> QED
        BY <4>1, <4>2, <4>4 DEF IInv, OneCommand, SetAnswered
    <3>2. PICK k \in DOMAIN Line : SetAnswered(k) /\ Line[k].state = b
      BY <2>1, <3>1 DEF IInv, HeldExact
    <3>3. k # 1
      BY <1>1, <1>5, <3>2 DEF SetAnswered
    <3> QED
      BY <1>4, <1>5, <3>2, <3>3
  <2> QED
    BY <1>1, <1>3, <1>4, <2>1 DEF HeldExact
<1>13. UpdateExact'
  <2>1. ASSUME NEW i \in DOMAIN Line', Line'[i].kind = "set"
        PROVE  Line'[i].state.condition = asked' /\ hasPendingUpdate'
    <3>1. Up(i) \in DOMAIN Line /\ Line'[i] = Line[Up(i)] /\ stage = "setting"
      BY <1>5, <1>6, <2>1
    <3> QED
      BY <1>8, <2>1, <3>1 DEF IInv, UpdateExact
  <2>2. isUpdating' /\ ~hasPendingUpdate' => asked' = condition'
    BY <1>1, <1>7
  <2>3. stage' \in {"setting", "resolving"} => hasPendingUpdate'
    BY <1>8
  <2> QED
    BY <1>1, <1>8, <2>1, <2>2, <2>3 DEF IInv, UpdateExact
<1>14. SetWillDo'
  <2>1. CASE stage = "setting"
    BY <1>4, <1>8, <2>1
  <2>2. CASE stage # "setting"
    BY <1>6, <2>2 DEF SetWillDo
  <2> QED
    BY <2>1, <2>2
<1>15. RestExact'
  BY <1>8 DEF RestExact
<1> QED
  BY <1>4, <1>9, <1>11, <1>12, <1>13, <1>14, <1>15 DEF IInv

(* A setting is over: the answer is not wanted, says that there is no breakpoint, *)
(* or gives its id.                                                               *)
LEMMA WasSetInv ==
    ASSUME IInv, WasSet
    PROVE  IInv'
<1> DEFINE m == Head(toFrontend)
<1>1. /\ toFrontend # <<>> /\ m.kind = "set" /\ toFrontend' = Tail(toFrontend)
      /\ UNCHANGED <<toBackend, backendEnabled, debuggerEnabled>>
      /\ UNCHANGED <<condition, enabled, knownState, mapped, currentState, breakpoints, overlapped>>
  BY DEF WasSet, Answered, Receive
<1>2. \/ /\ cancelCallback /\ cancelCallback' = FALSE /\ dropped' = (dropped \/ m.done) /\ DidUpdate
         /\ UNCHANGED <<isRemoved, listening, breakpointId>>
      \/ /\ ~cancelCallback /\ ~m.done /\ GiveUp
         /\ UNCHANGED <<cancelCallback, breakpointId, dropped>>
      \/ /\ ~cancelCallback /\ m.done /\ breakpointId' = m.state.place
         /\ DidUpdate \/ (stage' = "resolving" /\ UNCHANGED <<isUpdating, hasPendingUpdate, asked>>)
         /\ UNCHANGED <<isRemoved, listening, cancelCallback, dropped>>
  BY DEF WasSet
<1>3. Shape /\ BreakpointTypeOK /\ QueuesShape
  BY DEF IInv, Shape, QueuesShape
<1>4. m \in Sets /\ m.state \in State /\ m.done \in BOOLEAN
  <2>1. m \in Messages
    BY <1>1, <1>3 DEF QueuesShape
  <2> QED
    BY <1>1, <2>1, MessageKinds
<1> HIDE DEF m
<1>5. /\ QueuesShape' /\ DisablingExact'
      /\ \A i \in DOMAIN Line' : SetAnswered(i)' <=> SetAnswered(Up(i))
  <2>1. QueuesShape' /\ \A i \in DOMAIN Line' : SetAnswered(i)' <=> SetAnswered(Up(i))
    BY <1>1, ReceivedLeaves DEF m
  <2>2. UNCHANGED <<debuggerEnabled, overlapped>> => DisablingExact'
    BY <1>1, ReceivedLeaves DEF m
  <2> QED
    BY <1>1, <2>1, <2>2
<1>6. /\ 1 \in DOMAIN Line /\ 1 <= Answers /\ Line[1] = m
      /\ \A k \in DOMAIN Line : k # 1 => 1 < k
      /\ \A i \in DOMAIN Line' : Up(i) \in DOMAIN Line /\ Up(i) # 1 /\ Line'[i] = Line[Up(i)]
      /\ \A k \in DOMAIN Line : k # 1 => Down(k) \in DOMAIN Line' /\ Up(Down(k)) = k
      /\ \A i, j \in DOMAIN Line' : i < j <=> Up(i) < Up(j)
  BY <1>1, <1>3, MovedUp DEF m
<1>7. /\ \A k \in DOMAIN Line : k # 1 => Line[k].kind \notin {"set", "remove"}
      /\ \A i \in DOMAIN Line' : Line'[i].kind \notin {"set", "remove"}
  BY <1>1, <1>6 DEF IInv, OneCommand
<1>8. /\ stage = "setting" /\ breakpointId = "nowhere" /\ isUpdating = TRUE /\ listening = ~isRemoved
      /\ asked \in Conditions /\ condition \in Conditions /\ hasPendingUpdate \in BOOLEAN
      /\ isRemoved \in BOOLEAN /\ cancelCallback \in BOOLEAN /\ enabled \in BOOLEAN
      /\ (~hasPendingUpdate => enabled /\ ~isRemoved /\ asked = condition)
  <2>1. stage = "setting" /\ breakpointId = "nowhere"
    BY <1>1, <1>6 DEF IInv, OneCommand
  <2> QED
    BY <1>3, <2>1 DEF IInv, UpdateExact, BreakpointTypeOK
<1>9. /\ m.state.condition = asked
      /\ currentState \in {NoState, m.state}
      /\ (~hasPendingUpdate /\ ~cancelCallback => currentState = m.state)
  BY <1>1, <1>6 DEF IInv, UpdateExact
<1>10. ~overlapped /\ ~dropped /\ debuggerEnabled /\ ~hasPendingUpdate => m.done
  BY <1>1, <1>6 DEF IInv, SetWillDo
<1>11. ~overlapped /\ ~dropped => \A b \in breakpoints : m.done /\ b = m.state
  <2>1. ASSUME ~overlapped, ~dropped, NEW b \in breakpoints
        PROVE  m.done /\ b = m.state
    <3>1. b.place # breakpointId
      BY <1>3, <1>8, StatesHavePlaces DEF BreakpointTypeOK
    <3>2. PICK k \in DOMAIN Line : SetAnswered(k) /\ Line[k].state = b
      BY <2>1, <3>1 DEF IInv, HeldExact
    <3> QED
      BY <1>6, <1>7, <3>2 DEF SetAnswered
  <2> QED
    BY <2>1
<1>12. m.done => m.state \in breakpoints \/ \E j \in DOMAIN Line' : DisableAnswered(j)'
  <2>1. SUFFICES ASSUME m.done, m.state \notin breakpoints
                 PROVE  \E j \in DOMAIN Line' : DisableAnswered(j)'
    OBVIOUS
  <2>2. SetAnswered(1)
    BY <1>1, <1>6, <2>1 DEF SetAnswered
  <2>3. PICK k \in DOMAIN Line : 1 < k /\ DisableAnswered(k)
    BY <1>6, <2>1, <2>2 DEF IInv, HeldExact
  <2>4. k # 1
    BY <2>3
  <2>5. PICK j \in DOMAIN Line' : Up(j) = k
    BY <1>6, <2>4
  <2>6. DisableAnswered(j)' <=> DisableAnswered(Up(j))
    BY <1>1, <2>5, ReceivedLeaves DEF m
  <2> QED
    BY <2>3, <2>5, <2>6
\* What becomes of the update.
<1>13. \/ /\ stage' = "locating" /\ isUpdating' = TRUE /\ hasPendingUpdate' = FALSE /\ asked' = condition
       \/ /\ stage' = "idle" /\ isUpdating' = FALSE /\ hasPendingUpdate = FALSE
          /\ hasPendingUpdate' = FALSE /\ asked' = asked
       \/ /\ stage' = "resolving" /\ isUpdating' = TRUE /\ hasPendingUpdate' = hasPendingUpdate
          /\ asked' = asked
  <2>1. StartUpdate => stage' = "locating" /\ isUpdating' = TRUE /\ hasPendingUpdate' = FALSE
                       /\ asked' = condition
    BY <1>1 DEF StartUpdate
  <2>2. DidUpdate => \/ StartUpdate
                     \/ /\ stage' = "idle" /\ isUpdating' = FALSE /\ hasPendingUpdate = FALSE
                        /\ hasPendingUpdate' = FALSE /\ asked' = asked
    BY <1>8 DEF DidUpdate
  <2>3. GiveUp => StartUpdate
    BY DEF GiveUp
  <2>4. stage' = "resolving" /\ UNCHANGED <<isUpdating, hasPendingUpdate, asked>> =>
            isUpdating' = TRUE /\ hasPendingUpdate' = hasPendingUpdate /\ asked' = asked
    BY <1>8
  <2> QED
    BY <1>2, <2>1, <2>2, <2>3, <2>4
<1>14. /\ isUpdating' \in BOOLEAN /\ hasPendingUpdate' \in BOOLEAN /\ asked' \in Conditions
       /\ stage' \in {"idle", "locating", "resolving"} /\ (isUpdating' <=> stage' # "idle")
       /\ (~isUpdating' => ~hasPendingUpdate')
       /\ (isUpdating' /\ ~hasPendingUpdate' => asked' = condition)
       /\ (stage' = "idle" => ~hasPendingUpdate)
       /\ (stage' = "resolving" => hasPendingUpdate' = hasPendingUpdate)
  <2>1. CASE stage' = "locating"
    BY <1>8, <1>13, <2>1
  <2>2. CASE stage' = "idle"
    BY <1>8, <1>13, <2>2
  <2>3. CASE stage' = "resolving"
    BY <1>8, <1>13, <2>3
  <2> QED
    BY <1>13, <2>1, <2>2, <2>3
<1>15. SetWillDo'
  BY <1>7 DEF SetWillDo
<1>16. ASSUME cancelCallback' = FALSE, isRemoved' \in BOOLEAN, listening' = ~isRemoved',
              dropped' \in BOOLEAN, breakpointId' \in Places \cup {"nowhere"},
              stage' = "resolving" /\ ~hasPendingUpdate' => ~isRemoved'
       PROVE  Shape' /\ OneCommand' /\ UpdateExact'
  <2>1. BreakpointTypeOK'
    BY <1>1, <1>3, <1>14, <1>16 DEF BreakpointTypeOK
  <2>2. Shape'
    BY <1>1, <1>3, <1>5, <1>16, <2>1 DEF Shape, QueuesShape
  <2>3. OneCommand'
    BY <1>7, <1>14, <1>16 DEF OneCommand
  <2>4. stage' \in {"setting", "resolving"} /\ ~hasPendingUpdate' => enabled' /\ ~isRemoved'
    BY <1>1, <1>8, <1>14, <1>16
  <2>5. listening' <=> ~isRemoved'
    BY <1>16
  <2>6. UpdateExact'
    BY <1>1, <1>7, <1>14, <2>4, <2>5 DEF UpdateExact
  <2> QED
    BY <2>2, <2>3, <2>6
<1>17. \A i \in DOMAIN Line' : ~RemoveAnswered(i)' /\ ~SetAnswered(i)'
  BY <1>7 DEF RemoveAnswered, SetAnswered
<1>18. CASE /\ cancelCallback /\ cancelCallback' = FALSE /\ dropped' = (dropped \/ m.done) /\ DidUpdate
            /\ UNCHANGED <<isRemoved, listening, breakpointId>>
  <2>1. dropped' \in BOOLEAN /\ (~dropped' => ~dropped /\ ~m.done)
    BY <1>3, <1>4, <1>18 DEF Shape
  <2>2. Shape' /\ OneCommand' /\ UpdateExact'
    <3>1. isRemoved' = isRemoved /\ listening' = ~isRemoved' /\ breakpointId' = "nowhere"
      BY <1>8, <1>18
    <3>2. stage' = "resolving" /\ ~hasPendingUpdate' => ~isRemoved'
      BY <1>8, <1>14, <3>1
    <3> QED
      BY <1>8, <1>16, <1>18, <2>1, <3>1, <3>2
  <2>3. HeldExact'
    BY <1>1, <1>8, <1>11, <1>17, <1>18, <2>1 DEF HeldExact
  <2>4. RestExact'
    <3>1. stage' # "resolving"
      BY <1>18 DEF DidUpdate, StartUpdate
    <3> QED
      BY <1>1, <1>8, <1>10, <1>14, <1>18, <2>1, <3>1 DEF RestExact
  <2> QED
    BY <1>5, <1>15, <2>2, <2>3, <2>4 DEF IInv
<1>19. CASE /\ ~cancelCallback /\ ~m.done /\ GiveUp
            /\ UNCHANGED <<cancelCallback, breakpointId, dropped>>
  <2>1. isRemoved' = TRUE /\ listening' = FALSE /\ stage' = "locating"
    BY <1>19 DEF GiveUp, StartUpdate
  <2>2. Shape' /\ OneCommand' /\ UpdateExact'
    BY <1>3, <1>8, <1>16, <1>19, <2>1 DEF Shape
  <2>3. HeldExact'
    BY <1>1, <1>11, <1>17, <1>19, <2>1 DEF HeldExact
  <2>4. RestExact'
    BY <2>1 DEF RestExact
  <2> QED
    BY <1>5, <1>15, <2>2, <2>3, <2>4 DEF IInv
<1>20. CASE /\ ~cancelCallback /\ m.done /\ breakpointId' = m.state.place
            /\ UNCHANGED <<isRemoved, listening, cancelCallback, dropped>>
  <2>1. /\ m.state # NoState /\ m.state.place \in Places /\ m.state.place # "nowhere"
    BY <1>4, StatesHavePlaces
  <2>2. Shape' /\ OneCommand' /\ UpdateExact'
    <3>1. /\ isRemoved' = isRemoved /\ listening' = ~isRemoved' /\ cancelCallback' = FALSE
          /\ dropped' \in BOOLEAN
      BY <1>3, <1>8, <1>20 DEF Shape
    <3>2. stage' = "resolving" /\ ~hasPendingUpdate' => ~isRemoved'
      BY <1>8, <1>14, <3>1
    <3> QED
      BY <1>8, <1>16, <1>20, <2>1, <3>1, <3>2
  <2>3. HeldExact'
    <3>1. ASSUME ~overlapped, ~dropped
          PROVE  /\ \A b \in breakpoints : b.place = m.state.place
                 /\ currentState # NoState =>
                       /\ currentState.place = m.state.place
                       /\ currentState \in breakpoints \/ \E j \in DOMAIN Line' : DisableAnswered(j)'
      BY <1>9, <1>11, <1>12, <1>20, <3>1
    <3> QED
      BY <1>1, <1>17, <1>20, <3>1 DEF HeldExact
  <2>4. RestExact'
    BY <1>1, <1>8, <1>9, <1>14, <1>20, <2>1 DEF RestExact
  <2> QED
    BY <1>5, <1>15, <2>2, <2>3, <2>4 DEF IInv
<1> QED
  BY <1>2, <1>18, <1>19, <1>20

(* The second turn of a disabling. *)
LEMMA DepthAnsweredInv ==
    ASSUME IInv, DepthAnswered, UNCHANGED breakpointVars
    PROVE  IInv'
<1> DEFINE m == Plain("disable")
<1>1. /\ toFrontend # <<>> /\ Head(toFrontend).kind = "depth" /\ toFrontend' = Tail(toFrontend)
      /\ toBackend' = Append(toBackend, m)
      /\ UNCHANGED <<backendEnabled, debuggerEnabled>>
      /\ UNCHANGED <<enabled, condition, isRemoved, knownState, mapped, listening, isUpdating,
                     hasPendingUpdate, cancelCallback, currentState, breakpointId, stage, asked,
                     breakpoints, overlapped, dropped>>
  BY DEF DepthAnswered, Receive, breakpointVars
<1>2. Shape /\ BreakpointTypeOK /\ QueuesShape
  BY DEF IInv, Shape, QueuesShape
<1>3. m \in Messages /\ m.kind = "disable"
  BY MessagesMade DEF Plain
<1> HIDE DEF m
<1>4. /\ QueuesShape' /\ Answers' = Answers - 1 /\ Answers >= 1 /\ Size' = Size
      /\ 1 \in DOMAIN Line /\ Line[1] = Head(toFrontend)
      /\ Size \in DOMAIN Line' /\ Line'[Size] = m
      /\ \A i \in DOMAIN Line' : i # Size => i + 1 \in DOMAIN Line /\ Line'[i] = Line[i + 1]
      /\ \A i \in DOMAIN Line : i # 1 => i - 1 \in DOMAIN Line' /\ Line'[i - 1] = Line[i]
  BY <1>1, <1>2, <1>3, LineTurned
<1>5. /\ DOMAIN Line = 1 .. Size /\ DOMAIN Line' = 1 .. Size /\ Size \in Nat /\ Answers \in Nat
      /\ Answers <= Size
  <2>1. DOMAIN Line' = 1 .. Size'
    BY DEF Line, Size
  <2> QED
    BY <1>2, <1>4, <2>1, LineShape
<1>6. PICK z \in DOMAIN Line' : z = Size
  BY <1>4
<1>7. /\ 1 <= Answers /\ Line[1].kind = "depth" /\ Line'[z] = m /\ ~(z <= Answers')
      /\ \A i \in DOMAIN Line' : i # z => /\ Up(i) \in DOMAIN Line /\ Up(i) # 1
                                          /\ Line'[i] = Line[Up(i)]
                                          /\ i <= Answers' <=> Up(i) <= Answers
      /\ \A k \in DOMAIN Line : k # 1 => Down(k) \in DOMAIN Line' /\ Down(k) # z /\ Up(Down(k)) = k
      /\ \A i, j \in DOMAIN Line' : i < j => i # z
      /\ \A i, j \in DOMAIN Line' : i < j <=> Up(i) < Up(j)
  <2>1. \A i \in 1 .. Size : i # Size => i + 1 # 1 /\ (i <= Answers - 1 <=> i + 1 <= Answers)
    BY <1>5
  <2>2. /\ 1 <= Answers /\ ~(Size <= Answers - 1)
        /\ \A k \in 1 .. Size : k - 1 # Size /\ k - 1 + 1 = k
        /\ \A i, j \in 1 .. Size : i < j => i # Size
        /\ \A i, j \in 1 .. Size : i < j <=> i + 1 < j + 1
    BY <1>4, <1>5
  <2> QED
    BY <1>1, <1>4, <1>5, <1>6, <2>1, <2>2 DEF Up, Down
<1>8. Shape'
  <2>1. BreakpointTypeOK'
    BY <1>1, <1>2 DEF BreakpointTypeOK
  <2> QED
    BY <1>1, <1>2, <1>4, <2>1 DEF Shape, QueuesShape
<1>9. \A i \in DOMAIN Line' : Line'[i].kind \in {"set", "remove"} => i # z
  BY <1>3, <1>7
<1>10. OneCommand'
  <2>1. stage = "setting" <=> \E i \in DOMAIN Line' : Line'[i].kind = "set"
    BY <1>7, <1>9 DEF IInv, OneCommand
  <2>2. stage = "removing" <=> \E i \in DOMAIN Line' : Line'[i].kind = "remove" /\ Line'[i].by = "update"
    BY <1>7, <1>9 DEF IInv, OneCommand
  <2>3. ASSUME NEW i \in DOMAIN Line', NEW j \in DOMAIN Line', i < j
        PROVE  /\ Line'[i].kind = "set" => Line'[j].kind \notin {"set", "remove"}
               /\ Line'[i].kind = "remove" /\ Line'[i].by = "update" =>
                     ~(Line'[j].kind = "remove" /\ Line'[j].by = "update")
    BY <1>7, <1>9, <2>3 DEF IInv, OneCommand
  <2>4. \A i \in DOMAIN Line' : Line'[i].kind = "remove" => breakpointId \in {Line'[i].place, "nowhere"}
    BY <1>7, <1>9 DEF IInv, OneCommand
  <2>5. stage = "setting" \/ cancelCallback => breakpointId = "nowhere"
    BY DEF IInv, OneCommand
  <2> QED
    BY <1>1, <2>1, <2>2, <2>3, <2>4, <2>5 DEF OneCommand
<1>11. ~overlapped => ~debuggerEnabled
  BY <1>4, <1>7 DEF IInv, DisablingExact
<1>12. DisablingExact'
  <2>1. ASSUME ~overlapped, NEW i \in DOMAIN Line', NEW j \in DOMAIN Line', i < j,
               Line'[i].kind \in {"depth", "disable"}
        PROVE  Line'[j].kind # "enable"
    <3>1. CASE j = z
      BY <1>3, <1>7, <3>1
    <3>2. CASE j # z
      <4>1. /\ Up(i) \in DOMAIN Line /\ Up(j) \in DOMAIN Line /\ Up(i) < Up(j)
            /\ Line'[i] = Line[Up(i)] /\ Line'[j] = Line[Up(j)]
        BY <1>7, <2>1, <3>2
      <4> QED
        BY <2>1, <4>1 DEF IInv, DisablingExact
    <3> QED
      BY <3>1, <3>2
  <2>2. ASSUME ~overlapped, NEW i \in DOMAIN Line', i <= Answers', Line'[i].kind = "disable"
        PROVE  ~backendEnabled
    BY <1>7, <2>2 DEF IInv, DisablingExact
  <2>3. ~backendEnabled => breakpoints = {}
    BY DEF IInv, DisablingExact
  <2> QED
    BY <1>1, <1>11, <2>1, <2>2, <2>3 DEF DisablingExact
<1>13. /\ \A i \in DOMAIN Line' : SetAnswered(i)' => i # z /\ SetAnswered(Up(i))
       /\ \A i \in DOMAIN Line' : RemoveAnswered(i)' => i # z /\ RemoveAnswered(Up(i))
       /\ \A i \in DOMAIN Line' : i # z /\ SetAnswered(Up(i)) => SetAnswered(i)'
       /\ \A i \in DOMAIN Line' : i # z /\ RemoveAnswered(Up(i)) => RemoveAnswered(i)'
       /\ \A i \in DOMAIN Line' : i # z /\ DisableAnswered(Up(i)) => DisableAnswered(i)'
  BY <1>7 DEF SetAnswered, RemoveAnswered, DisableAnswered
<1>14. /\ \A k \in DOMAIN Line : SetAnswered(k) =>
              \E i \in DOMAIN Line' : i # z /\ Up(i) = k /\ SetAnswered(i)' /\ Line'[i] = Line[k]
       /\ \A k \in DOMAIN Line : RemoveAnswered(k) => \E i \in DOMAIN Line' : i # z /\ Up(i) = k /\ RemoveAnswered(i)'
       /\ \A k \in DOMAIN Line : DisableAnswered(k) => \E i \in DOMAIN Line' : i # z /\ Up(i) = k /\ DisableAnswered(i)'
  <2>1. ASSUME NEW k \in DOMAIN Line, SetAnswered(k) \/ RemoveAnswered(k) \/ DisableAnswered(k)
        PROVE  \E i \in DOMAIN Line' : i # z /\ Up(i) = k /\ Line'[i] = Line[k]
    <3>1. k # 1
      BY <1>7, <2>1 DEF SetAnswered, RemoveAnswered, DisableAnswered
    <3> QED
      BY <1>7, <3>1
  <2> QED
    BY <1>13, <2>1
<1>15. HeldExact'
  <2>1. ASSUME NEW i \in DOMAIN Line', NEW b \in breakpoints, RemoveAnswered(i)', b.place = Line'[i].place
        PROVE  \E j \in DOMAIN Line' : SetAnswered(j)'
    BY <1>7, <1>13, <1>14, <2>1 DEF IInv, HeldExact
  <2>2. ASSUME NEW i \in DOMAIN Line', SetAnswered(i)', Line'[i].state \notin breakpoints
        PROVE  \E j \in DOMAIN Line' : i < j /\ DisableAnswered(j)'
    <3>1. PICK k \in DOMAIN Line : Up(i) < k /\ DisableAnswered(k)
      BY <1>7, <1>13, <2>2 DEF IInv, HeldExact
    <3>2. PICK j \in DOMAIN Line' : Up(j) = k /\ DisableAnswered(j)'
      BY <1>14, <3>1
    <3> QED
      BY <1>7, <3>1, <3>2
  <2>3. ASSUME ~overlapped, ~dropped
        PROVE  /\ \A b \in breakpoints :
                     b.place = breakpointId \/ \E i \in DOMAIN Line' : SetAnswered(i)' /\ Line'[i].state = b
               /\ ~isRemoved /\ breakpointId # "nowhere" /\ currentState # NoState =>
                     /\ currentState.place = breakpointId
                     /\ \/ currentState \in breakpoints
                        \/ \E i \in DOMAIN Line' : DisableAnswered(i)' \/ RemoveAnswered(i)'
    BY <1>14, <2>3 DEF IInv, HeldExact
  <2> QED
    BY <1>1, <2>1, <2>2, <2>3 DEF HeldExact
<1>16. UpdateExact' /\ RestExact'
  BY <1>1, <1>7, <1>9 DEF IInv, UpdateExact, RestExact
<1>17. SetWillDo'
  BY <1>1, <1>11 DEF SetWillDo
<1> QED
  BY <1>8, <1>10, <1>12, <1>15, <1>16, <1>17 DEF IInv

--------------------------------------------------------------------------------
(* The theorems. *)

LEMMA InitInv ==
    ASSUME BreakpointInit
    PROVE  IInv
<1>1. /\ toBackend = <<>> /\ toFrontend = <<>> /\ debuggerEnabled = FALSE /\ backendEnabled = FALSE
      /\ enabled \in BOOLEAN /\ condition \in Conditions /\ isRemoved = FALSE
      /\ knownState = NoState /\ currentState = NoState /\ mapped = FALSE /\ listening = TRUE
      /\ isUpdating = FALSE /\ hasPendingUpdate = FALSE /\ cancelCallback = FALSE
      /\ breakpointId = "nowhere" /\ stage = "idle" /\ asked = condition /\ breakpoints = {}
      /\ overlapped = FALSE /\ dropped = FALSE
  BY DEF BreakpointInit, Init
<1>2. QueuesShape /\ Answers = 0 /\ Len(toBackend) = 0
  BY <1>1 DEF QueuesShape, Answers
<1>3. \A i : i \notin DOMAIN Line
  BY <1>2, LineShape DEF Size
<1>4. BreakpointTypeOK
  BY <1>1 DEF BreakpointTypeOK
<1>5. Shape
  BY <1>1, <1>2, <1>4 DEF Shape, QueuesShape
<1>6. OneCommand /\ DisablingExact /\ HeldExact /\ UpdateExact /\ SetWillDo /\ RestExact
  BY <1>1, <1>3 DEF OneCommand, DisablingExact, HeldExact, UpdateExact, SetWillDo, RestExact
<1> QED
  BY <1>5, <1>6 DEF IInv

LEMMA StutterInv ==
    ASSUME IInv, UNCHANGED vars
    PROVE  IInv'
<1>1. UNCHANGED debuggerVars /\ UNCHANGED breakpointVars
  BY DEF vars
<1>2. /\ UNCHANGED <<toFrontend, toBackend, heldVars>> /\ stage' = stage
      /\ UNCHANGED <<enabled, condition, isRemoved, knownState, mapped, listening, isUpdating,
                     hasPendingUpdate, stage, asked>>
  BY <1>1 DEF debuggerVars, breakpointVars, heldVars
<1>3. Line' = Line /\ Answers' = Answers /\ OneCommand' /\ DisablingExact' /\ HeldExact'
  BY <1>2, NoMessage
<1>4. UNCHANGED <<debuggerEnabled, backendEnabled, overlapped, dropped, breakpoints, breakpointId,
                  currentState, cancelCallback>>
  BY <1>2 DEF heldVars
<1>5. Shape'
  <2>1. Shape /\ BreakpointTypeOK
    BY DEF IInv, Shape
  <2>2. BreakpointTypeOK'
    BY <1>2, <1>4, <2>1 DEF BreakpointTypeOK
  <2> QED
    BY <1>2, <1>4, <2>1, <2>2 DEF Shape
<1>6. UpdateExact' /\ SetWillDo' /\ RestExact'
  BY <1>2, <1>3, <1>4 DEF IInv, UpdateExact, SetWillDo, RestExact
<1> QED
  BY <1>3, <1>5, <1>6 DEF IInv

(* The invariant holds whatever the user, the browser and the updates do and in *)
(* whatever order: _updateInDebugger, its answers and _scheduleUpdateInDebugger *)
(* keep a ModelBreakpoint exact about the breakpoint of the debugger.           *)
THEOREM Invariance == BreakpointSpec => []IInv
<1>1. BreakpointInit => IInv
  BY InitInv
<1>2. IInv /\ [BreakpointNext]_vars => IInv'
  <2> SUFFICES ASSUME IInv, [BreakpointNext]_vars
               PROVE  IInv'
    OBVIOUS
  <2>1. CASE EnableAndUpdate
    BY <2>1, EnableAndUpdateInv
  <2>2. CASE DisabledAndCleanUp
    BY <2>2, DisabledAndCleanUpInv
  <2>3. CASE DebuggerAnswers
    BY <2>3, DebuggerAnswersInv
  <2>4. CASE BreakpointAnswers
    BY <2>4, BreakpointAnswersInv
  <2>5. CASE Disable /\ UNCHANGED breakpointVars
    BY <2>5, DisableInv
  <2>6. CASE RegisterDebugger /\ UNCHANGED breakpointVars
    BY <2>6, RegisterDebuggerInv
  <2>7. CASE DepthAnswered /\ UNCHANGED breakpointVars
    BY <2>7, DepthAnsweredInv
  <2>8. CASE Located
    BY <2>8, LocatedInv
  <2>9. CASE Removed
    BY <2>9, RemovedInv
  <2>10. CASE WasSet
    BY <2>10, WasSetInv
  <2>11. CASE Resolved
    BY <2>11, ResolvedInv
  <2>12. CASE UpdateState \/ RemoveBreakpoint \/ SourceCodeAdded
    BY <2>12, UserInv
  <2>13. CASE RefreshInDebugger
    BY <2>13, RefreshInDebuggerInv
  <2>14. CASE UNCHANGED vars
    BY <2>14, StutterInv
  <2> QED
    BY <2>1, <2>2, <2>3, <2>4, <2>5, <2>6, <2>7, <2>8, <2>9, <2>10, <2>11, <2>12, <2>13, <2>14
       DEF BreakpointNext
<1> QED
  BY <1>1, <1>2, PTL DEF BreakpointSpec

(* When nothing is under way, the debugger has the breakpoint that the user wants *)
(* and no other: the updates that were put off while one was under way, the       *)
(* answers that came too late and the callbacks that were cancelled are made up   *)
(* for, whatever the number of edits, of refreshes and of calls.                  *)
THEOREM BreakpointsAgree == BreakpointSpec => []BreakpointConsistent
<1>1. IInv => BreakpointConsistent
  <2> SUFFICES ASSUME IInv
               PROVE  BreakpointConsistent
    OBVIOUS
  <2>1. Shape /\ BreakpointTypeOK
    BY DEF IInv, Shape
  <2>2. BreakpointAgrees
    <3>1. SUFFICES ASSUME AtRest
                   PROVE  /\ {b.place : b \in breakpoints} = {breakpointId} \ {"nowhere"}
                          /\ IF isRemoved \/ ~enabled THEN breakpoints = {}
                             ELSE \E b \in breakpoints : b.condition = condition
      BY DEF BreakpointAgrees
    <3>2. /\ toBackend = <<>> /\ toFrontend = <<>> /\ stage = "idle" /\ debuggerEnabled
          /\ ~overlapped /\ ~dropped /\ isRemoved \in BOOLEAN /\ enabled \in BOOLEAN
      BY <2>1, <3>1 DEF AtRest, Quiet, BreakpointTypeOK
    <3>3. \A i : i \notin DOMAIN Line
      <4>1. QueuesShape /\ Answers = 0 /\ Len(toBackend) = 0
        BY <2>1, <3>2 DEF Shape, QueuesShape, Answers
      <4> QED
        BY <4>1, LineShape DEF Size
    <3>4. \A b \in breakpoints : b \in State /\ b.place = breakpointId
      BY <2>1, <3>2, <3>3 DEF IInv, HeldExact, BreakpointTypeOK
    <3>5. CASE isRemoved \/ ~enabled
      <4>1. breakpointId = "nowhere"
        BY <3>2, <3>5 DEF IInv, RestExact
      <4>2. breakpoints = {}
        BY <3>4, <4>1, StatesHavePlaces
      <4> QED
        BY <3>5, <4>1, <4>2
    <3>6. CASE ~(isRemoved \/ ~enabled)
      <4>1. breakpointId # "nowhere" /\ currentState # NoState /\ currentState.condition = condition
        BY <3>2, <3>6 DEF IInv, RestExact
      <4>2. currentState \in breakpoints
        BY <3>2, <3>3, <3>6, <4>1 DEF IInv, HeldExact
      <4> QED
        BY <3>4, <3>6, <4>1, <4>2
    <3> QED
      BY <3>5, <3>6
  <2> QED
    BY <2>1, <2>2 DEF BreakpointConsistent
<1> QED
  BY <1>1, Invariance, PTL

================================================================================
