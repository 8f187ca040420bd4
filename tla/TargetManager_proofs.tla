-------------------------- MODULE TargetManager_proofs --------------------------
(*****************************************************************************)
(* Proofs about TargetManager, for any targets, models, observers and        *)
(* listeners: typing, what observers and listeners know, and that models are *)
(* suspended and active as the manager says unless passes overlap.           *)
(*****************************************************************************)
EXTENDS TargetManager, TLAPS

\* What is known of the targets and their models, whoever watches them.
Shape ==
    /\ isSuspended \in BOOLEAN
    /\ targets \subseteq Targets /\ disposed \subseteq Targets /\ overlapped \subseteq Targets
    /\ suspended \in [Targets -> BOOLEAN]
    /\ models \in [Targets -> SUBSET Models]
    /\ active \in [Targets -> SUBSET Models]
    /\ suspending \in [Targets -> Nat] /\ resuming \in [Targets -> Nat]
    /\ observing \subseteq Observers /\ listening \subseteq Listeners
    /\ late \in [Targets -> SUBSET Models]
    /\ targets \cap disposed = {}
    /\ \A t \in Targets : /\ models[t] \subseteq Supports[t]
                          /\ late[t] \subseteq models[t]
                          /\ t \notin disposed => late[t] = {}

\* A target that was never created has nothing.
Blank ==
    \A t \in Targets \ (targets \cup disposed) :
        models[t] = {} /\ active[t] = {} /\ suspending[t] = 0 /\ resuming[t] = 0 /\ ~suspended[t]

FlagsAgree == \A t \in targets : suspended[t] = isSuspended

\* Unless passes overlapped on it, a target has at most a pass of the kind its
\* flag says, and its models are where that pass has brought them.
PassesAgree ==
    \A t \in Targets \ overlapped :
        /\ suspended[t] => resuming[t] = 0 /\ (suspending[t] = 0 => active[t] = {})
        /\ ~suspended[t] => suspending[t] = 0 /\ active[t] = models[t]

SuspensionInv == Blank /\ FlagsAgree /\ PassesAgree

ToldInv == /\ told \in [Observers -> [Targets -> Nat]]
           /\ ObserversKnowModels
           /\ \A o \in Observers \ observing, t \in Targets : told[o][t] = 0

HearsInv == /\ hears \in [Listeners -> [Targets -> Nat]]
            /\ ListenersHearModels
            /\ \A l \in Listeners \ listening, t \in Targets : hears[l][t] = 0
            /\ \A l \in listening, t \in targets :
                   ClassOf[l] \in Supports[t] => ClassOf[l] \in models[t]

IInv == Shape /\ SuspensionInv /\ ToldInv /\ HearsInv

(* What Count and Only return. *)
LEMMA Counting ==
    ASSUME NEW S, NEW counts \in [S -> [Targets -> Int]], NEW whom, NEW News, NEW change \in Int
    PROVE  LET new == Count(counts, whom, News, change)
           IN  /\ new \in [S -> [Targets -> Int]]
               /\ \A o \in S, t \in Targets :
                      new[o][t] = IF o \in whom /\ ClassOf[o] \in News[t]
                                  THEN counts[o][t] + change ELSE counts[o][t]
BY DEF Count

LEMMA OnlyThat ==
    ASSUME NEW t \in Targets, NEW classes
    PROVE  \A u \in Targets : Only(t, classes)[u] = IF u = t THEN classes ELSE {}
BY DEF Only

(* At the start there are no targets. *)
LEMMA InvInit == Init => IInv
<1> SUFFICES ASSUME Init PROVE IInv
  OBVIOUS
<1> USE DEF Init
<1>1. Shape
  BY DEF Shape
<1>2. SuspensionInv
  BY DEF SuspensionInv, Blank, FlagsAgree, PassesAgree
<1>3. ToldInv
  BY DEF ToldInv, ObserversKnowModels
<1>4. HearsInv
  BY DEF HearsInv, ListenersHearModels
<1> QED
  BY <1>1, <1>2, <1>3, <1>4 DEF IInv

(* The models that an operation creates, and nothing else, are added to the    *)
(* targets: what a creation does, for the parts that do not watch it.          *)
LEMMA Creating ==
    ASSUME Shape, SuspensionInv, NEW News,
           \A t \in Targets : News[t] \subseteq Supports[t],
           \A t \in Targets : t \notin targets \cup disposed => News[t] = {},
           CreateModels(News)
    PROVE  /\ models' \in [Targets -> SUBSET Models]
           /\ active' \in [Targets -> SUBSET Models]
           /\ \A t \in Targets : models'[t] = models[t] \cup News[t]
           /\ \A t \in Targets : active'[t] = IF suspended[t] THEN active[t]
                                              ELSE active[t] \cup News[t]
           /\ \A t \in Targets : models'[t] \subseteq Supports[t]
<1>1. \A t \in Targets : News[t] \subseteq Models
  <2>1. \A t \in Targets : Supports[t] \subseteq Models
    BY ConstantsAssumption
  <2> QED
    BY <2>1
<1>2. \A t \in Targets : models'[t] = models[t] \cup News[t]
  BY DEF CreateModels
<1>3. \A t \in Targets : active'[t] = IF suspended[t] THEN active[t] ELSE active[t] \cup News[t]
  BY DEF CreateModels
<1>4. models' \in [Targets -> SUBSET Models]
  BY <1>1 DEF CreateModels, Shape
<1>5. active' \in [Targets -> SUBSET Models]
  BY <1>1 DEF CreateModels, Shape
<1>6. \A t \in Targets : models'[t] \subseteq Supports[t]
  BY <1>2 DEF Shape
<1> QED
  BY <1>2, <1>3, <1>4, <1>5, <1>6

LEMMA CreatingKeepsSuspension ==
    ASSUME Shape, SuspensionInv, NEW News,
           \A t \in Targets : News[t] \subseteq Supports[t],
           \A t \in Targets : t \notin targets \cup disposed => News[t] = {},
           CreateModels(News), UNCHANGED suspendVars, UNCHANGED <<targets, disposed>>
    PROVE  SuspensionInv'
<1>1. /\ \A t \in Targets : models'[t] = models[t] \cup News[t]
      /\ \A t \in Targets : active'[t] = IF suspended[t] THEN active[t]
                                         ELSE active[t] \cup News[t]
  BY Creating
<1>2. Blank'
  BY <1>1 DEF Blank, SuspensionInv, suspendVars
<1>3. FlagsAgree'
  BY DEF FlagsAgree, SuspensionInv, suspendVars
<1>4. PassesAgree'
  <2>0. PassesAgree /\ suspended' = suspended /\ suspending' = suspending /\ resuming' = resuming
        /\ overlapped' = overlapped
    BY DEF SuspensionInv, suspendVars
  <2>1. ASSUME NEW t \in Targets \ overlapped, suspended[t]
        PROVE  resuming[t] = 0 /\ (suspending[t] = 0 => active'[t] = {})
    BY <1>1, <2>0, <2>1 DEF PassesAgree
  <2>2. ASSUME NEW t \in Targets \ overlapped, ~suspended[t]
        PROVE  suspending[t] = 0 /\ active'[t] = models'[t]
    <3>1. suspending[t] = 0 /\ active[t] = models[t]
      BY <2>0, <2>2 DEF PassesAgree
    <3> QED
      BY <1>1, <2>2, <3>1
  <2> QED
    BY <2>0, <2>1, <2>2 DEF PassesAgree
<1> QED
  BY <1>2, <1>3, <1>4 DEF SuspensionInv

(* What models() finds missing can be created. *)
LEMMA MissingModels ==
    ASSUME Shape, NEW m
    PROVE  /\ \A t \in Targets : Missing(m)[t] = IF t \in targets /\ m \in Supports[t] \ models[t]
                                                THEN {m} ELSE {}
           /\ \A t \in Targets : Present(m)[t] = IF t \in targets /\ m \in Supports[t]
                                                THEN {m} ELSE {}
           /\ \A t \in Targets : Missing(m)[t] \subseteq Supports[t]
           /\ \A t \in Targets : t \notin targets \cup disposed => Missing(m)[t] = {}
BY DEF Missing, Present

(* The target's models are created and the audience counts them.               *)
LEMMA CreateTargetInv ==
    ASSUME IInv, NEW t \in Targets, CreateTarget(t)
    PROVE  IInv'
<1> DEFINE classes == (Autostart \cup Observed \cup Listened) \cap Supports[t]
           created == Only(t, classes)
<1>1. Shape /\ SuspensionInv /\ ToldInv /\ HearsInv
  BY DEF IInv
<1>2. /\ t \notin targets \cup disposed
      /\ targets' = targets \cup {t}
      /\ suspended' = [suspended EXCEPT ![t] = isSuspended]
      /\ models' = [u \in Targets |-> models[u] \cup created[u]]
      /\ active' = IF isSuspended THEN active ELSE [active EXCEPT ![t] = created[t]]
      /\ told' = Count(told, observing, created, 1)
      /\ hears' = Count(hears, listening, created, 1)
      /\ UNCHANGED <<isSuspended, disposed, suspending, resuming, observing, listening, late,
                     overlapped>>
  BY DEF CreateTarget
<1>3. \A u \in Targets : created[u] = IF u = t THEN classes ELSE {}
  BY OnlyThat
<1>4. Supports[t] \subseteq Models /\ classes \subseteq Supports[t]
  BY ConstantsAssumption
<1>5. models[t] = {} /\ active[t] = {} /\ suspending[t] = 0 /\ resuming[t] = 0
  BY <1>1, <1>2 DEF SuspensionInv, Blank
<1>6. \A u \in Targets : models'[u] = IF u = t THEN classes ELSE models[u]
  BY <1>2, <1>3, <1>5
<1>7. \A u \in Targets : active'[u] = IF u = t /\ ~isSuspended THEN classes ELSE active[u]
  BY <1>1, <1>2, <1>3 DEF Shape
<1>8. \A u \in Targets : suspended'[u] = IF u = t THEN isSuspended ELSE suspended[u]
  BY <1>1, <1>2 DEF Shape
<1>13. \A l \in listening : ClassOf[l] \in classes <=> ClassOf[l] \in Supports[t]
  BY DEF Listened
<1> HIDE DEF classes, created
<1>9. Shape'
  <2>1. models' \in [Targets -> SUBSET Models]
    BY <1>1, <1>2, <1>4, <1>6 DEF Shape
  <2>2. active' \in [Targets -> SUBSET Models]
    BY <1>1, <1>2, <1>3, <1>4 DEF Shape
  <2>3. suspended' \in [Targets -> BOOLEAN]
    BY <1>1, <1>2 DEF Shape
  <2>4. \A u \in Targets : /\ models'[u] \subseteq Supports[u]
                           /\ late[u] \subseteq models'[u]
                           /\ u \notin disposed => late[u] = {}
    BY <1>1, <1>2, <1>4, <1>6 DEF Shape
  <2>5. /\ isSuspended' \in BOOLEAN
        /\ targets' \subseteq Targets /\ disposed' \subseteq Targets
        /\ overlapped' \subseteq Targets
        /\ suspending' \in [Targets -> Nat] /\ resuming' \in [Targets -> Nat]
        /\ observing' \subseteq Observers /\ listening' \subseteq Listeners
        /\ late' \in [Targets -> SUBSET Models]
        /\ targets' \cap disposed' = {}
    BY <1>1, <1>2 DEF Shape
  <2>6. disposed' = disposed /\ late' = late
    BY <1>2
  <2> QED
    BY <2>1, <2>2, <2>3, <2>4, <2>5, <2>6 DEF Shape
<1>10. SuspensionInv'
  <2>1. Blank'
    BY <1>1, <1>2, <1>6, <1>7, <1>8 DEF SuspensionInv, Blank
  <2>2. FlagsAgree'
    BY <1>1, <1>2, <1>8 DEF SuspensionInv, FlagsAgree, Shape
  <2>3. PassesAgree'
    <3>1. ASSUME NEW u \in Targets \ overlapped, u # t
          PROVE  /\ suspended'[u] => resuming[u] = 0 /\ (suspending[u] = 0 => active'[u] = {})
                 /\ ~suspended'[u] => suspending[u] = 0 /\ active'[u] = models'[u]
      BY <1>1, <1>6, <1>7, <1>8, <3>1 DEF SuspensionInv, PassesAgree
    <3>2. /\ suspended'[t] => resuming[t] = 0 /\ (suspending[t] = 0 => active'[t] = {})
          /\ ~suspended'[t] => suspending[t] = 0 /\ active'[t] = models'[t]
      BY <1>5, <1>6, <1>7, <1>8
    <3> QED
      BY <1>2, <3>1, <3>2 DEF PassesAgree
  <2> QED
    BY <2>1, <2>2, <2>3 DEF SuspensionInv
<1>11. ToldInv'
  <2>1. /\ told' \in [Observers -> [Targets -> Int]]
        /\ \A o \in Observers, u \in Targets :
               told'[o][u] = IF o \in observing /\ ClassOf[o] \in created[u]
                             THEN told[o][u] + 1 ELSE told[o][u]
    BY <1>1, <1>2, Counting DEF ToldInv
  <2>2. \A o \in Observers, u \in Targets :
            told'[o][u] = IF o \in observing /\ u = t /\ ClassOf[o] \in classes
                          THEN told[o][u] + 1 ELSE told[o][u]
    BY <1>3, <2>1
  <2>3. told' \in [Observers -> [Targets -> Nat]]
    BY <1>1, <2>1, <2>2 DEF ToldInv
  <2>4. \A o \in observing : told[o][t] = 0
    BY <1>1, <1>2 DEF ToldInv, ObserversKnowModels, Shape
  <2>5. \A o \in observing : told'[o][t] = IF ClassOf[o] \in models'[t] THEN 1 ELSE 0
    BY <1>1, <1>6, <2>2, <2>4 DEF Shape
  <2>6. ASSUME NEW o \in observing, NEW u \in Targets, u # t
        PROVE  told'[o][u] = told[o][u] /\ models'[u] = models[u]
    BY <1>1, <1>6, <2>2, <2>6 DEF Shape
  <2>7. ASSUME NEW o \in observing, NEW u \in Targets
        PROVE  IF u \in targets' THEN told'[o][u] = IF ClassOf[o] \in models'[u] THEN 1 ELSE 0
               ELSE told'[o][u] = 0 \/ (told'[o][u] = 1 /\ ClassOf[o] \in late[u])
    <3>1. CASE u = t
      BY <1>2, <2>5, <3>1
    <3>2. CASE u # t
      <4>1. u \in targets' <=> u \in targets
        BY <1>2, <3>2
      <4> QED
        BY <1>1, <2>6, <3>2, <4>1 DEF ToldInv, ObserversKnowModels, Has
    <3> QED
      BY <3>1, <3>2
  <2>9. ObserversKnowModels'
    <3>1. observing' = observing /\ late' = late
      BY <1>2
    <3> QED
      BY <2>7, <3>1 DEF ObserversKnowModels, Has
  <2>8. \A o \in Observers \ observing', u \in Targets : told'[o][u] = 0
    BY <1>1, <1>2, <2>2 DEF ToldInv
  <2> QED
    BY <2>3, <2>9, <2>8 DEF ToldInv
<1>12. HearsInv'
  <2>1. /\ hears' \in [Listeners -> [Targets -> Int]]
        /\ \A l \in Listeners, u \in Targets :
               hears'[l][u] = IF l \in listening /\ ClassOf[l] \in created[u]
                              THEN hears[l][u] + 1 ELSE hears[l][u]
    BY <1>1, <1>2, Counting DEF HearsInv
  <2>2. \A l \in Listeners, u \in Targets :
            hears'[l][u] = IF l \in listening /\ u = t /\ ClassOf[l] \in classes
                           THEN hears[l][u] + 1 ELSE hears[l][u]
    BY <1>3, <2>1
  <2>3. hears' \in [Listeners -> [Targets -> Nat]]
    BY <1>1, <2>1, <2>2 DEF HearsInv
  <2>5. \A l \in listening : hears[l][t] = 0
    BY <1>1, <1>2 DEF HearsInv, ListenersHearModels, Shape
  <2>6. ListenersHearModels'
    <3>1. listening' = listening /\ listening \subseteq Listeners /\ targets' = targets \cup {t}
      BY <1>1, <1>2 DEF Shape
    <3>2. ASSUME NEW l \in listening, NEW u \in Targets
          PROVE  hears'[l][u] = IF u \in targets' /\ ClassOf[l] \in Supports[u] THEN 1 ELSE 0
      <4>1. CASE u = t
        BY <1>13, <2>2, <2>5, <3>1, <4>1
      <4>2. CASE u # t
        BY <1>1, <2>2, <3>1, <4>2 DEF HearsInv, ListenersHearModels
      <4> QED
        BY <4>1, <4>2
    <3> QED
      BY <3>1, <3>2 DEF ListenersHearModels
  <2>7. \A l \in Listeners \ listening', u \in Targets : hears'[l][u] = 0
    BY <1>1, <1>2, <2>2 DEF HearsInv
  <2>8. \A l \in listening', u \in targets' :
            ClassOf[l] \in Supports[u] => ClassOf[l] \in models'[u]
    BY <1>1, <1>2, <1>6, <1>13 DEF HearsInv, Shape
  <2> QED
    BY <2>3, <2>6, <2>7, <2>8 DEF HearsInv
<1> QED
  BY <1>9, <1>10, <1>11, <1>12 DEF IInv

(* A model created on demand is announced to the observers of its class; no    *)
(* listener waits for it on a target that is still there.                      *)
LEMMA ModelInv ==
    ASSUME IInv, NEW t \in Targets, NEW m \in Models, Model(t, m)
    PROVE  IInv'
<1> DEFINE News == Only(t, {m})
<1>1. Shape /\ SuspensionInv /\ ToldInv /\ HearsInv
  BY DEF IInv
<1>2. /\ t \in targets \cup disposed
      /\ m \in Supports[t] \ models[t]
      /\ CreateModels(News)
      /\ told' = Count(told, observing, News, 1)
      /\ late' = IF t \in targets THEN late ELSE [late EXCEPT ![t] = @ \cup {m}]
      /\ UNCHANGED <<suspendVars, targets, disposed, observing, listening, hears>>
  BY DEF Model
<1>3. \A u \in Targets : News[u] = IF u = t THEN {m} ELSE {}
  BY OnlyThat
<1>4. /\ \A u \in Targets : News[u] \subseteq Supports[u]
      /\ \A u \in Targets : u \notin targets \cup disposed => News[u] = {}
  BY <1>2, <1>3
<1>5. /\ models' \in [Targets -> SUBSET Models]
      /\ active' \in [Targets -> SUBSET Models]
      /\ \A u \in Targets : models'[u] = models[u] \cup News[u]
      /\ \A u \in Targets : models'[u] \subseteq Supports[u]
  <2> HIDE DEF News
  <2> QED
    BY <1>1, <1>2, <1>4, Creating
<1>10. models[t] \subseteq models'[t] /\ m \in models'[t] /\ m \notin models[t]
  BY <1>1, <1>2, <1>3, <1>5
<1>11. \A u \in Targets : u # t => models'[u] = models[u]
  BY <1>3, <1>5
<1>12. \A u \in Targets : late'[u] = IF u = t /\ t \notin targets THEN late[u] \cup {m} ELSE late[u]
  BY <1>1, <1>2 DEF Shape
<1>13. targets' = targets /\ disposed' = disposed /\ observing' = observing
  BY <1>2
<1>14. \A c : c # m => (c \in models'[t] <=> c \in models[t])
  BY <1>1, <1>2, <1>3, <1>5 DEF Shape
<1> HIDE DEF News
<1>6. Shape'
  <2>1. late' \in [Targets -> SUBSET Models]
    BY <1>1, <1>2 DEF Shape
  <2>2. ASSUME NEW u \in Targets
        PROVE  late'[u] \subseteq models'[u] /\ (u \notin disposed => late'[u] = {})
    <3>1. late[u] \subseteq models[u] /\ (u \notin disposed => late[u] = {})
      BY <1>1 DEF Shape
    <3> QED
      BY <1>2, <1>10, <1>11, <1>12, <3>1
  <2> QED
    BY <1>1, <1>2, <1>5, <2>1, <2>2 DEF Shape, suspendVars
<1>7. SuspensionInv'
  <2> HIDE DEF News
  <2> QED
    BY <1>1, <1>2, <1>4, CreatingKeepsSuspension
<1>8. ToldInv'
  <2>1. /\ told' \in [Observers -> [Targets -> Int]]
        /\ \A o \in Observers, u \in Targets :
               told'[o][u] = IF o \in observing /\ ClassOf[o] \in News[u]
                             THEN told[o][u] + 1 ELSE told[o][u]
    BY <1>1, <1>2, Counting DEF ToldInv
  <2>2. \A o \in Observers, u \in Targets :
            told'[o][u] = IF o \in observing /\ u = t /\ ClassOf[o] = m
                          THEN told[o][u] + 1 ELSE told[o][u]
    BY <1>3, <2>1
  <2>3. told' \in [Observers -> [Targets -> Nat]]
    BY <1>1, <2>1, <2>2 DEF ToldInv
  <2>4. \A o \in observing : ClassOf[o] = m => told[o][t] = 0
    BY <1>1, <1>2 DEF ToldInv, ObserversKnowModels, Has, Shape
  <2>6. ASSUME NEW o \in observing, NEW u \in Targets
        PROVE  IF u \in targets THEN told'[o][u] = IF ClassOf[o] \in models'[u] THEN 1 ELSE 0
               ELSE told'[o][u] = 0 \/ (told'[o][u] = 1 /\ ClassOf[o] \in late'[u])
    <3>0. o \in Observers
      BY <1>1 DEF Shape
    <3>1. IF u \in targets THEN told[o][u] = IF ClassOf[o] \in models[u] THEN 1 ELSE 0
          ELSE told[o][u] = 0 \/ (told[o][u] = 1 /\ ClassOf[o] \in late[u])
      BY <1>1 DEF ToldInv, ObserversKnowModels, Has
    <3>2. CASE u = t /\ ClassOf[o] = m
      <4>1. told'[o][u] = 1
        BY <2>2, <2>4, <3>0, <3>2
      <4>2. u \in targets => ClassOf[o] \in models'[u]
        BY <1>10, <3>2
      <4>3. u \notin targets => ClassOf[o] \in late'[u]
        BY <1>12, <3>2
      <4> QED
        BY <4>1, <4>2, <4>3
    <3>3. CASE ~(u = t /\ ClassOf[o] = m)
      <4>1. told'[o][u] = told[o][u] /\ (ClassOf[o] \in models'[u] <=> ClassOf[o] \in models[u])
        BY <1>11, <1>14, <2>2, <3>0, <3>3
      <4>2. ClassOf[o] \in late[u] => ClassOf[o] \in late'[u]
        BY <1>12
      <4> QED
        BY <3>1, <4>1, <4>2
    <3> QED
      BY <3>2, <3>3
  <2>7. ObserversKnowModels'
    BY <1>13, <2>6 DEF ObserversKnowModels, Has
  <2>8. \A o \in Observers \ observing', u \in Targets : told'[o][u] = 0
    BY <1>1, <1>2, <2>2 DEF ToldInv
  <2> QED
    BY <2>3, <2>7, <2>8 DEF ToldInv
<1>9. HearsInv'
  <2>1. \A l \in listening', u \in targets' :
            ClassOf[l] \in Supports[u] => ClassOf[l] \in models'[u]
    BY <1>1, <1>2, <1>5 DEF HearsInv, Shape
  <2> QED
    BY <1>1, <1>2, <2>1 DEF HearsInv, ListenersHearModels
<1> QED
  BY <1>6, <1>7, <1>8, <1>9 DEF IInv

(* A target that is removed is forgotten by whoever knew it. *)
LEMMA DisposeInv ==
    ASSUME IInv, NEW t \in Targets, Dispose(t)
    PROVE  IInv'
<1> DEFINE Gone == Only(t, models[t])
<1>1. Shape /\ SuspensionInv /\ ToldInv /\ HearsInv
  BY DEF IInv
<1>2. /\ t \in targets
      /\ targets' = targets \ {t}
      /\ disposed' = disposed \cup {t}
      /\ told' = Count(told, observing, Gone, -1)
      /\ hears' = Count(hears, listening, Gone, -1)
      /\ UNCHANGED <<suspendVars, active, models, observing, listening, late>>
  BY DEF Dispose
<1>3. \A u \in Targets : Gone[u] = IF u = t THEN models[t] ELSE {}
  BY OnlyThat
<1>4. Shape'
  BY <1>1, <1>2 DEF Shape, suspendVars
<1>5. SuspensionInv'
  <2>1. Blank'
    BY <1>1, <1>2 DEF SuspensionInv, Blank, suspendVars
  <2>2. FlagsAgree'
    BY <1>1, <1>2 DEF SuspensionInv, FlagsAgree, suspendVars
  <2>3. PassesAgree'
    BY <1>1, <1>2 DEF SuspensionInv, PassesAgree, suspendVars
  <2> QED
    BY <2>1, <2>2, <2>3 DEF SuspensionInv
<1>6. ToldInv'
  <2>1. /\ told' \in [Observers -> [Targets -> Int]]
        /\ \A o \in Observers, u \in Targets :
               told'[o][u] = IF o \in observing /\ ClassOf[o] \in Gone[u]
                             THEN told[o][u] + (-1) ELSE told[o][u]
    BY <1>1, <1>2, Counting DEF ToldInv
  <2>2. \A o \in Observers, u \in Targets :
            told'[o][u] = IF o \in observing /\ u = t /\ ClassOf[o] \in models[t]
                          THEN told[o][u] - 1 ELSE told[o][u]
    BY <1>1, <1>3, <2>1 DEF ToldInv
  <2>3. \A o \in observing : told[o][t] = IF ClassOf[o] \in models[t] THEN 1 ELSE 0
    BY <1>1, <1>2 DEF ToldInv, ObserversKnowModels, Has
  <2>4. \A o \in observing : told'[o][t] = 0
    BY <1>1, <2>2, <2>3 DEF Shape
  <2>5. told' \in [Observers -> [Targets -> Nat]]
    BY <1>1, <2>1, <2>2, <2>4 DEF ToldInv
  <2>6. ObserversKnowModels'
    BY <1>1, <1>2, <2>2, <2>4 DEF ToldInv, ObserversKnowModels, Has, Shape
  <2>7. \A o \in Observers \ observing', u \in Targets : told'[o][u] = 0
    BY <1>1, <1>2, <2>2 DEF ToldInv
  <2> QED
    BY <2>5, <2>6, <2>7 DEF ToldInv
<1>7. HearsInv'
  <2>1. /\ hears' \in [Listeners -> [Targets -> Int]]
        /\ \A l \in Listeners, u \in Targets :
               hears'[l][u] = IF l \in listening /\ ClassOf[l] \in Gone[u]
                              THEN hears[l][u] + (-1) ELSE hears[l][u]
    BY <1>1, <1>2, Counting DEF HearsInv
  <2>2. \A l \in Listeners, u \in Targets :
            hears'[l][u] = IF l \in listening /\ u = t /\ ClassOf[l] \in models[t]
                           THEN hears[l][u] - 1 ELSE hears[l][u]
    BY <1>1, <1>3, <2>1 DEF HearsInv
  <2>3. \A l \in listening : hears[l][t] = IF ClassOf[l] \in models[t] THEN 1 ELSE 0
    BY <1>1, <1>2 DEF HearsInv, ListenersHearModels, Shape
  <2>4. \A l \in listening : hears'[l][t] = 0
    BY <1>1, <2>2, <2>3 DEF Shape
  <2>5. hears' \in [Listeners -> [Targets -> Nat]]
    BY <1>1, <2>1, <2>2, <2>4 DEF HearsInv
  <2>6. ListenersHearModels'
    BY <1>1, <1>2, <2>2, <2>4 DEF HearsInv, ListenersHearModels, Shape
  <2>7. \A l \in Listeners \ listening', u \in Targets : hears'[l][u] = 0
    BY <1>1, <1>2, <2>2 DEF HearsInv
  <2> QED
    BY <1>1, <1>2, <2>5, <2>6, <2>7 DEF HearsInv
<1> QED
  BY <1>4, <1>5, <1>6, <1>7 DEF IInv

(* models() creates the missing models and tells the observers there are.      *)
LEMMA CreatingMissing ==
    ASSUME Shape, SuspensionInv, NEW m, CreateModels(Missing(m)),
           UNCHANGED <<suspendVars, targets, disposed, late>>,
           observing' \subseteq Observers, listening' \subseteq Listeners
    PROVE  /\ Shape' /\ SuspensionInv'
           /\ \A t \in Targets : models'[t] = models[t] \cup Missing(m)[t]
           /\ \A t \in targets : m \in Supports[t] <=> m \in models'[t]
           /\ \A t \in Targets : \A c : ~(c = m /\ t \in targets) =>
                  (c \in models'[t] <=> c \in models[t])
<1> DEFINE News == Missing(m)
<1>1. /\ \A t \in Targets : News[t] = IF t \in targets /\ m \in Supports[t] \ models[t]
                                      THEN {m} ELSE {}
      /\ \A t \in Targets : News[t] \subseteq Supports[t]
      /\ \A t \in Targets : t \notin targets \cup disposed => News[t] = {}
  BY MissingModels
<1> HIDE DEF News
<1>2. CreateModels(News)
  BY DEF News
<1>3. /\ models' \in [Targets -> SUBSET Models]
      /\ active' \in [Targets -> SUBSET Models]
      /\ \A t \in Targets : models'[t] = models[t] \cup News[t]
      /\ \A t \in Targets : models'[t] \subseteq Supports[t]
  BY <1>1, <1>2, Creating
<1>4. SuspensionInv'
  BY <1>1, <1>2, CreatingKeepsSuspension
<1>5. \A t \in Targets : late[t] \subseteq models'[t] /\ (t \notin disposed => late[t] = {})
  BY <1>3 DEF Shape
<1>6. /\ isSuspended' = isSuspended /\ targets' = targets /\ disposed' = disposed
      /\ overlapped' = overlapped /\ suspended' = suspended /\ suspending' = suspending
      /\ resuming' = resuming /\ late' = late
  BY DEF suspendVars
<1>7. Shape'
  BY <1>3, <1>5, <1>6 DEF Shape
<1>8. \A t \in targets : m \in Supports[t] <=> m \in models'[t]
  BY <1>1, <1>3 DEF Shape
<1>9. \A t \in Targets : \A c : ~(c = m /\ t \in targets) =>
          (c \in models'[t] <=> c \in models[t])
  BY <1>1, <1>3
<1> QED
  BY <1>3, <1>4, <1>7, <1>8, <1>9 DEF News

(* Observers of the class are told of the missing models as they are created.  *)
LEMMA TellingMissing ==
    ASSUME Shape, ToldInv, NEW m,
           NEW new, new = Count(told, observing, Missing(m), 1),
           \A t \in targets : m \in Supports[t] <=> m \in models'[t],
           \A t \in Targets : \A c : ~(c = m /\ t \in targets) =>
                  (c \in models'[t] <=> c \in models[t])
    PROVE  /\ new \in [Observers -> [Targets -> Nat]]
           /\ \A o \in observing, t \in Targets :
                  IF t \in targets THEN new[o][t] = IF ClassOf[o] \in models'[t] THEN 1 ELSE 0
                  ELSE new[o][t] = 0 \/ (new[o][t] = 1 /\ ClassOf[o] \in late[t])
           /\ \A o \in Observers \ observing, t \in Targets : new[o][t] = 0
<1>1. \A t \in Targets : Missing(m)[t] = IF t \in targets /\ m \in Supports[t] \ models[t]
                                         THEN {m} ELSE {}
  BY MissingModels
<1>2. /\ new \in [Observers -> [Targets -> Int]]
      /\ \A o \in Observers, t \in Targets :
             new[o][t] = IF o \in observing /\ ClassOf[o] \in Missing(m)[t]
                         THEN told[o][t] + 1 ELSE told[o][t]
  BY Counting DEF ToldInv
<1>3. \A o \in Observers, t \in Targets :
          new[o][t] = IF o \in observing /\ ClassOf[o] = m /\ t \in targets /\ m \in Supports[t] \ models[t]
                      THEN told[o][t] + 1 ELSE told[o][t]
  BY <1>1, <1>2
<1>4. new \in [Observers -> [Targets -> Nat]]
  BY <1>2, <1>3 DEF ToldInv
<1>5. ASSUME NEW o \in observing, NEW t \in Targets
      PROVE  IF t \in targets THEN new[o][t] = IF ClassOf[o] \in models'[t] THEN 1 ELSE 0
             ELSE new[o][t] = 0 \/ (new[o][t] = 1 /\ ClassOf[o] \in late[t])
  <2>0. o \in Observers
    BY DEF Shape
  <2>1. IF t \in targets THEN told[o][t] = IF ClassOf[o] \in models[t] THEN 1 ELSE 0
        ELSE told[o][t] = 0 \/ (told[o][t] = 1 /\ ClassOf[o] \in late[t])
    BY DEF ToldInv, ObserversKnowModels, Has
  <2>2. CASE ClassOf[o] = m /\ t \in targets
    <3>1. m \in models[t] => m \in Supports[t]
      BY DEF Shape
    <3> QED
      BY <1>3, <2>0, <2>1, <2>2, <3>1
  <2>3. CASE ~(ClassOf[o] = m /\ t \in targets)
    BY <1>3, <2>0, <2>1, <2>3
  <2> QED
    BY <2>2, <2>3
<1>6. \A o \in Observers \ observing, t \in Targets : new[o][t] = 0
  BY <1>3 DEF ToldInv
<1> QED
  BY <1>4, <1>5, <1>6

(* A listener of another class hears what it heard; those of the class already *)
(* had a model everywhere.                                                     *)
LEMMA HearingKept ==
    ASSUME HearsInv, Shape, targets' = targets, listening' = listening, hears' = hears,
           \A t \in Targets : models[t] \subseteq models'[t]
    PROVE  HearsInv'
<1>1. \A l \in listening', t \in targets' : ClassOf[l] \in Supports[t] => ClassOf[l] \in models'[t]
  BY DEF HearsInv, Shape
<1> QED
  BY <1>1 DEF HearsInv, ListenersHearModels

(* An observer that registers is told of every model of its class, once. *)
LEMMA ObserveModelsInv ==
    ASSUME IInv, NEW o \in Observers, ObserveModels(o)
    PROVE  IInv'
<1> DEFINE m == ClassOf[o]
           new == Count(told, observing, Missing(m), 1)
<1>1. Shape /\ SuspensionInv /\ ToldInv /\ HearsInv
  BY DEF IInv
<1>2. /\ o \notin observing
      /\ CreateModels(Missing(m))
      /\ told' = Count(new, {o}, Present(m), 1)
      /\ observing' = observing \cup {o}
      /\ UNCHANGED <<suspendVars, targets, disposed, listening, hears, late>>
  BY DEF ObserveModels
<1> HIDE DEF m, new
<1>3. /\ Shape' /\ SuspensionInv'
      /\ \A t \in Targets : models'[t] = models[t] \cup Missing(m)[t]
      /\ \A t \in targets : m \in Supports[t] <=> m \in models'[t]
      /\ \A t \in Targets : \A c : ~(c = m /\ t \in targets) =>
             (c \in models'[t] <=> c \in models[t])
  <2>1. observing' \subseteq Observers /\ listening' \subseteq Listeners
    BY <1>1, <1>2 DEF Shape
  <2> QED
    BY <1>1, <1>2, <2>1, CreatingMissing
<1>4. /\ new \in [Observers -> [Targets -> Nat]]
      /\ \A p \in observing, t \in Targets :
             IF t \in targets THEN new[p][t] = IF ClassOf[p] \in models'[t] THEN 1 ELSE 0
             ELSE new[p][t] = 0 \/ (new[p][t] = 1 /\ ClassOf[p] \in late[t])
      /\ \A p \in Observers \ observing, t \in Targets : new[p][t] = 0
  BY <1>1, <1>3, TellingMissing DEF new
<1>5. \A t \in Targets : Present(m)[t] = IF t \in targets /\ m \in Supports[t] THEN {m} ELSE {}
  BY <1>1, MissingModels
<1>6. /\ told' \in [Observers -> [Targets -> Int]]
      /\ \A p \in Observers, t \in Targets :
             told'[p][t] = IF p \in {o} /\ ClassOf[p] \in Present(m)[t]
                           THEN new[p][t] + 1 ELSE new[p][t]
  <2>1. new \in [Observers -> [Targets -> Int]]
    BY <1>4
  <2> QED
    BY <1>2, <2>1, Counting
<1>7. \A p \in Observers, t \in Targets :
          told'[p][t] = IF p = o /\ t \in targets /\ m \in Supports[t]
                        THEN new[p][t] + 1 ELSE new[p][t]
  BY <1>5, <1>6 DEF m
<1>8. ToldInv'
  <2>1. told' \in [Observers -> [Targets -> Nat]]
    BY <1>4, <1>6, <1>7
  <2>2. ASSUME NEW p \in observing \cup {o}, NEW t \in Targets
        PROVE  IF t \in targets THEN told'[p][t] = IF ClassOf[p] \in models'[t] THEN 1 ELSE 0
               ELSE told'[p][t] = 0 \/ (told'[p][t] = 1 /\ ClassOf[p] \in late[t])
    <3>0. p \in Observers
      BY <1>1 DEF Shape
    <3>1. CASE p = o
      <4>1. new[o][t] = 0
        BY <1>2, <1>4
      <4> QED
        BY <1>3, <1>7, <3>1, <4>1 DEF m
    <3>2. CASE p # o
      BY <1>4, <1>7, <3>0, <3>2
    <3> QED
      BY <3>1, <3>2
  <2>3. ObserversKnowModels'
    BY <1>2, <2>2 DEF ObserversKnowModels, Has
  <2>4. \A p \in Observers \ observing', t \in Targets : told'[p][t] = 0
    <3>1. \A p \in Observers \ observing' : p # o /\ p \in Observers \ observing
      BY <1>2
    <3> QED
      BY <1>4, <1>7, <3>1
  <2> QED
    BY <2>1, <2>3, <2>4 DEF ToldInv
<1>9. HearsInv'
  BY <1>1, <1>2, <1>3, HearingKept
<1> QED
  BY <1>3, <1>8, <1>9 DEF IInv

(* Whoever stops observing is told nothing any more. *)
LEMMA UnobserveModelsInv ==
    ASSUME IInv, NEW o \in Observers, UnobserveModels(o)
    PROVE  IInv'
<1>1. Shape /\ SuspensionInv /\ ToldInv /\ HearsInv
  BY DEF IInv
<1>2. /\ observing' = observing \ {o}
      /\ told' = [told EXCEPT ![o] = [t \in Targets |-> 0]]
      /\ UNCHANGED <<suspendVars, active, targets, disposed, models, listening, hears, late>>
  BY DEF UnobserveModels
<1>3. Shape'
  BY <1>1, <1>2 DEF Shape, suspendVars
<1>4. SuspensionInv'
  <2>1. /\ isSuspended' = isSuspended /\ suspended' = suspended /\ suspending' = suspending
        /\ resuming' = resuming /\ overlapped' = overlapped /\ active' = active
        /\ targets' = targets /\ disposed' = disposed /\ models' = models
    BY <1>2 DEF suspendVars
  <2>2. Blank'
    BY <1>1, <2>1 DEF SuspensionInv, Blank
  <2>3. FlagsAgree'
    BY <1>1, <2>1 DEF SuspensionInv, FlagsAgree
  <2>4. PassesAgree'
    BY <1>1, <2>1 DEF SuspensionInv, PassesAgree
  <2> QED
    BY <2>2, <2>3, <2>4 DEF SuspensionInv
<1>5. ToldInv'
  <2>1. told' \in [Observers -> [Targets -> Nat]]
    BY <1>1, <1>2 DEF ToldInv
  <2>2. \A p \in Observers : p # o => told'[p] = told[p]
    BY <1>1, <1>2 DEF ToldInv
  <2>3. \A t \in Targets : told'[o][t] = 0
    BY <1>1, <1>2 DEF ToldInv
  <2>4. ObserversKnowModels'
    BY <1>1, <1>2, <2>2 DEF ToldInv, ObserversKnowModels, Has, Shape
  <2>5. \A p \in Observers \ observing', t \in Targets : told'[p][t] = 0
    BY <1>1, <1>2, <2>2, <2>3 DEF ToldInv
  <2> QED
    BY <2>1, <2>4, <2>5 DEF ToldInv
<1>6. HearsInv'
  BY <1>1, <1>2 DEF HearsInv, ListenersHearModels
<1> QED
  BY <1>3, <1>4, <1>5, <1>6 DEF IInv

(* A listener that registers is put on every model of its class.               *)
LEMMA AddModelListenerInv ==
    ASSUME IInv, NEW l \in Listeners, AddModelListener(l)
    PROVE  IInv'
<1> DEFINE m == ClassOf[l]
<1>1. Shape /\ SuspensionInv /\ ToldInv /\ HearsInv
  BY DEF IInv
<1>2. /\ l \notin listening
      /\ CreateModels(Missing(m))
      /\ told' = Count(told, observing, Missing(m), 1)
      /\ hears' = Count(hears, {l}, Present(m), 1)
      /\ listening' = listening \cup {l}
      /\ UNCHANGED <<suspendVars, targets, disposed, observing, late>>
  BY DEF AddModelListener
<1> HIDE DEF m
<1>3. /\ Shape' /\ SuspensionInv'
      /\ \A t \in Targets : models'[t] = models[t] \cup Missing(m)[t]
      /\ \A t \in targets : m \in Supports[t] <=> m \in models'[t]
      /\ \A t \in Targets : \A c : ~(c = m /\ t \in targets) =>
             (c \in models'[t] <=> c \in models[t])
  <2>1. observing' \subseteq Observers /\ listening' \subseteq Listeners
    BY <1>1, <1>2 DEF Shape
  <2> QED
    BY <1>1, <1>2, <2>1, CreatingMissing
<1>4. /\ told' \in [Observers -> [Targets -> Nat]]
      /\ \A p \in observing, t \in Targets :
             IF t \in targets THEN told'[p][t] = IF ClassOf[p] \in models'[t] THEN 1 ELSE 0
             ELSE told'[p][t] = 0 \/ (told'[p][t] = 1 /\ ClassOf[p] \in late[t])
      /\ \A p \in Observers \ observing, t \in Targets : told'[p][t] = 0
  BY <1>1, <1>2, <1>3, TellingMissing
<1>5. ToldInv'
  BY <1>2, <1>4 DEF ToldInv, ObserversKnowModels, Has
<1>6. \A k \in Listeners, t \in Targets :
          hears'[k][t] = IF k = l /\ t \in targets /\ m \in Supports[t]
                         THEN hears[k][t] + 1 ELSE hears[k][t]
  <2>1. \A t \in Targets : Present(m)[t] = IF t \in targets /\ m \in Supports[t] THEN {m} ELSE {}
    BY <1>1, MissingModels
  <2>2. hears \in [Listeners -> [Targets -> Int]]
    BY <1>1 DEF HearsInv
  <2>3. \A k \in Listeners, t \in Targets :
            hears'[k][t] = IF k \in {l} /\ ClassOf[k] \in Present(m)[t]
                           THEN hears[k][t] + 1 ELSE hears[k][t]
    BY <1>2, <2>2, Counting
  <2> QED
    BY <2>1, <2>3 DEF m
<1>7. HearsInv'
  <2>1. hears' \in [Listeners -> [Targets -> Nat]]
    <3>1. hears' \in [Listeners -> [Targets -> Int]]
      <4>1. hears \in [Listeners -> [Targets -> Int]]
        BY <1>1 DEF HearsInv
      <4> QED
        BY <1>2, <4>1, Counting
    <3> QED
      BY <1>1, <1>6, <3>1 DEF HearsInv
  <2>2. ASSUME NEW k \in listening \cup {l}, NEW t \in Targets
        PROVE  hears'[k][t] = IF t \in targets /\ ClassOf[k] \in Supports[t] THEN 1 ELSE 0
    <3>0. k \in Listeners
      BY <1>1 DEF Shape
    <3>1. CASE k = l
      <4>1. hears[l][t] = 0
        BY <1>1, <1>2 DEF HearsInv
      <4> QED
        BY <1>6, <3>0, <3>1, <4>1 DEF m
    <3>2. CASE k # l
      <4>1. hears[k][t] = IF t \in targets /\ ClassOf[k] \in Supports[t] THEN 1 ELSE 0
        BY <1>1, <3>2 DEF HearsInv, ListenersHearModels
      <4> QED
        BY <1>6, <3>0, <3>2, <4>1
    <3> QED
      BY <3>1, <3>2
  <2>3. ListenersHearModels'
    BY <1>2, <2>2 DEF ListenersHearModels
  <2>4. \A k \in Listeners \ listening', t \in Targets : hears'[k][t] = 0
    <3> SUFFICES ASSUME NEW k \in Listeners, k \notin listening', NEW t \in Targets
                 PROVE  hears'[k][t] = 0
      OBVIOUS
    <3>1. k # l /\ k \in Listeners \ listening
      BY <1>2
    <3>2. hears[k][t] = 0
      BY <1>1, <3>1 DEF HearsInv
    <3> QED
      BY <1>6, <3>1, <3>2
  <2>5. \A k \in listening', t \in targets' :
            ClassOf[k] \in Supports[t] => ClassOf[k] \in models'[t]
    <3>1. \A k \in listening, t \in targets :
              ClassOf[k] \in Supports[t] => ClassOf[k] \in models[t]
      BY <1>1 DEF HearsInv
    <3>2. \A t \in targets : models[t] \subseteq models'[t]
      BY <1>1, <1>3 DEF Shape
    <3> QED
      BY <1>2, <1>3, <3>1, <3>2 DEF m
  <2> QED
    BY <2>1, <2>3, <2>4, <2>5 DEF HearsInv
<1> QED
  BY <1>3, <1>5, <1>7 DEF IInv

(* A listener that leaves is taken off every model it was put on.              *)
LEMMA RemoveModelListenerInv ==
    ASSUME IInv, NEW l \in Listeners, RemoveModelListener(l)
    PROVE  IInv'
<1> DEFINE m == ClassOf[l]
<1>1. Shape /\ SuspensionInv /\ ToldInv /\ HearsInv
  BY DEF IInv
<1>2. /\ l \in listening
      /\ CreateModels(Missing(m))
      /\ told' = Count(told, observing, Missing(m), 1)
      /\ hears' = Count(hears, {l}, Present(m), -1)
      /\ listening' = listening \ {l}
      /\ UNCHANGED <<suspendVars, targets, disposed, observing, late>>
  BY DEF RemoveModelListener
<1> HIDE DEF m
<1>3. /\ Shape' /\ SuspensionInv'
      /\ \A t \in Targets : models'[t] = models[t] \cup Missing(m)[t]
      /\ \A t \in targets : m \in Supports[t] <=> m \in models'[t]
      /\ \A t \in Targets : \A c : ~(c = m /\ t \in targets) =>
             (c \in models'[t] <=> c \in models[t])
  <2>1. observing' \subseteq Observers /\ listening' \subseteq Listeners
    BY <1>1, <1>2 DEF Shape
  <2> QED
    BY <1>1, <1>2, <2>1, CreatingMissing
<1>4. /\ told' \in [Observers -> [Targets -> Nat]]
      /\ \A p \in observing, t \in Targets :
             IF t \in targets THEN told'[p][t] = IF ClassOf[p] \in models'[t] THEN 1 ELSE 0
             ELSE told'[p][t] = 0 \/ (told'[p][t] = 1 /\ ClassOf[p] \in late[t])
      /\ \A p \in Observers \ observing, t \in Targets : told'[p][t] = 0
  BY <1>1, <1>2, <1>3, TellingMissing
<1>5. ToldInv'
  BY <1>2, <1>4 DEF ToldInv, ObserversKnowModels, Has
<1>6. /\ hears' \in [Listeners -> [Targets -> Int]]
      /\ \A k \in Listeners, t \in Targets :
             hears'[k][t] = IF k = l /\ t \in targets /\ m \in Supports[t]
                            THEN hears[k][t] - 1 ELSE hears[k][t]
  <2>1. \A t \in Targets : Present(m)[t] = IF t \in targets /\ m \in Supports[t] THEN {m} ELSE {}
    BY <1>1, MissingModels
  <2>2. hears \in [Listeners -> [Targets -> Int]]
    BY <1>1 DEF HearsInv
  <2>3. /\ hears' \in [Listeners -> [Targets -> Int]]
        /\ \A k \in Listeners, t \in Targets :
               hears'[k][t] = IF k \in {l} /\ ClassOf[k] \in Present(m)[t]
                              THEN hears[k][t] + (-1) ELSE hears[k][t]
    BY <1>2, <2>2, Counting
  <2> QED
    BY <1>1, <2>1, <2>3 DEF m, HearsInv
<1>7. HearsInv'
  <2>1. \A t \in Targets : hears[l][t] = IF t \in targets /\ m \in Supports[t] THEN 1 ELSE 0
    BY <1>1, <1>2 DEF HearsInv, ListenersHearModels, m
  <2>2. \A t \in Targets : hears'[l][t] = 0
    BY <1>6, <2>1
  <2>3. \A k \in Listeners, t \in Targets : k # l => hears'[k][t] = hears[k][t]
    BY <1>6
  <2>4. hears' \in [Listeners -> [Targets -> Nat]]
    BY <1>1, <1>6, <2>2, <2>3 DEF HearsInv
  <2>5. ListenersHearModels'
    <3>1. \A k \in listening, t \in Targets :
              hears[k][t] = IF t \in targets /\ ClassOf[k] \in Supports[t] THEN 1 ELSE 0
      BY <1>1 DEF HearsInv, ListenersHearModels
    <3>2. listening' \subseteq Listeners /\ targets' = targets
      BY <1>1, <1>2 DEF Shape
    <3> QED
      BY <1>2, <2>3, <3>1, <3>2 DEF ListenersHearModels
  <2>6. \A k \in Listeners \ listening', t \in Targets : hears'[k][t] = 0
    BY <1>1, <1>2, <2>2, <2>3 DEF HearsInv
  <2>7. \A k \in listening', t \in targets' :
            ClassOf[k] \in Supports[t] => ClassOf[k] \in models'[t]
    <3>1. \A k \in listening, t \in targets :
              ClassOf[k] \in Supports[t] => ClassOf[k] \in models[t]
      BY <1>1 DEF HearsInv
    <3>2. \A t \in targets : models[t] \subseteq models'[t]
      BY <1>1, <1>3 DEF Shape
    <3> QED
      BY <1>2, <3>1, <3>2
  <2> QED
    BY <2>4, <2>5, <2>6, <2>7 DEF HearsInv
<1> QED
  BY <1>3, <1>5, <1>7 DEF IInv

(* A pass over the models changes nothing that observers and listeners know.   *)
LEMMA WatchersKept ==
    ASSUME ToldInv, HearsInv, UNCHANGED modelVars
    PROVE  ToldInv' /\ HearsInv'
<1>1. /\ targets' = targets /\ models' = models /\ observing' = observing
      /\ listening' = listening /\ told' = told /\ hears' = hears /\ late' = late
  BY DEF modelVars
<1> QED
  BY <1>1 DEF ToldInv, ObserversKnowModels, Has, HearsInv, ListenersHearModels

(* What Shape says of the watched variables does not depend on a pass.         *)
LEMMA ShapeKept ==
    ASSUME Shape, UNCHANGED modelVars, isSuspended' \in BOOLEAN, overlapped' \subseteq Targets,
           suspended' \in [Targets -> BOOLEAN], active' \in [Targets -> SUBSET Models],
           suspending' \in [Targets -> Nat], resuming' \in [Targets -> Nat]
    PROVE  Shape'
<1>1. /\ targets' = targets /\ disposed' = disposed /\ models' = models
      /\ observing' = observing /\ listening' = listening /\ late' = late
  BY DEF modelVars
<1> QED
  BY <1>1 DEF Shape

(* The first phase of a suspension only counts the pass: the models are active *)
(* until the second one.                                                       *)
LEMMA SuspendAllTargetsInv ==
    ASSUME IInv, SuspendAllTargets
    PROVE  IInv'
<1> DEFINE T == {t \in targets : ~suspended[t]}
<1>1. Shape /\ SuspensionInv /\ ToldInv /\ HearsInv
  BY DEF IInv
<1>2. /\ ~isSuspended /\ isSuspended' = TRUE
      /\ suspended' = [t \in Targets |-> suspended[t] \/ t \in T]
      /\ suspending' = [t \in Targets |-> IF t \in T THEN suspending[t] + 1 ELSE suspending[t]]
      /\ overlapped' = overlapped \cup {t \in T : UnderWay(t) > 0}
      /\ resuming' = resuming /\ active' = active /\ UNCHANGED modelVars
  BY DEF SuspendAllTargets
<1>3. targets' = targets /\ disposed' = disposed /\ models' = models
  BY <1>2 DEF modelVars
<1>4. T = targets
  BY <1>1, <1>2 DEF SuspensionInv, FlagsAgree, Shape
<1> HIDE DEF T
<1>5. \A t \in Targets :
          /\ suspended'[t] = (suspended[t] \/ t \in T)
          /\ suspending'[t] = IF t \in T THEN suspending[t] + 1 ELSE suspending[t]
  BY <1>2
<1>6. Shape'
  <2>1. suspended' \in [Targets -> BOOLEAN]
    BY <1>1, <1>2 DEF Shape
  <2>2. suspending' \in [Targets -> Nat]
    BY <1>1, <1>2 DEF Shape
  <2>3. overlapped' \subseteq Targets
    BY <1>1, <1>2, <1>4 DEF Shape
  <2>4. /\ isSuspended' \in BOOLEAN /\ active' \in [Targets -> SUBSET Models]
        /\ resuming' \in [Targets -> Nat]
    BY <1>1, <1>2 DEF Shape
  <2> QED
    BY <1>1, <1>2, <2>1, <2>2, <2>3, <2>4, ShapeKept
<1>7. SuspensionInv'
  <2>1. Blank'
    BY <1>1, <1>2, <1>3, <1>4, <1>5 DEF SuspensionInv, Blank
  <2>2. FlagsAgree'
    BY <1>1, <1>2, <1>3, <1>4, <1>5 DEF FlagsAgree, Shape
  <2>3. ASSUME NEW t \in Targets, t \notin overlapped'
        PROVE  /\ suspended'[t] => resuming[t] = 0 /\ (suspending'[t] = 0 => active[t] = {})
               /\ ~suspended'[t] => suspending'[t] = 0 /\ active[t] = models[t]
    <3>0. t \notin overlapped /\ suspending[t] \in Nat /\ resuming[t] \in Nat
      BY <1>1, <1>2, <2>3 DEF Shape
    <3>1. CASE t \in T
      <4>1. ~(UnderWay(t) > 0)
        BY <1>2, <2>3, <3>1
      <4>2. resuming[t] = 0 /\ suspending[t] = 0
        BY <3>0, <4>1 DEF UnderWay
      <4>3. suspended'[t] /\ suspending'[t] = 1
        <5>1. suspended'[t] = TRUE
          BY <1>2, <3>1
        <5> QED
          BY <1>5, <3>1, <4>2, <5>1
      <4> QED
        BY <4>2, <4>3
    <3>2. CASE t \notin T
      BY <1>1, <1>5, <3>0, <3>2 DEF SuspensionInv, PassesAgree
    <3> QED
      BY <3>1, <3>2
  <2>4. PassesAgree'
    BY <1>2, <1>3, <2>3 DEF PassesAgree
  <2> QED
    BY <2>1, <2>2, <2>4 DEF SuspensionInv
<1> QED
  BY <1>1, <1>2, <1>6, <1>7, WatchersKept DEF IInv

(* The second phase of a suspension suspends every model the target has.       *)
LEMMA SuspendModelsInv ==
    ASSUME IInv, NEW t \in Targets, SuspendModels(t)
    PROVE  IInv'
<1>1. Shape /\ SuspensionInv /\ ToldInv /\ HearsInv
  BY DEF IInv
<1>2. /\ suspending[t] > 0
      /\ suspending' = [suspending EXCEPT ![t] = @ - 1]
      /\ active' = [active EXCEPT ![t] = {}]
      /\ isSuspended' = isSuspended /\ suspended' = suspended /\ resuming' = resuming
      /\ overlapped' = overlapped /\ UNCHANGED modelVars
  BY DEF SuspendModels
<1>3. targets' = targets /\ disposed' = disposed /\ models' = models
  BY <1>2 DEF modelVars
<1>4. \A u \in Targets : /\ suspending'[u] = IF u = t THEN suspending[t] - 1 ELSE suspending[u]
                         /\ active'[u] = IF u = t THEN {} ELSE active[u]
  BY <1>1, <1>2 DEF Shape
<1>5. Shape'
  <2>1. suspending' \in [Targets -> Nat]
    BY <1>1, <1>2 DEF Shape
  <2>2. active' \in [Targets -> SUBSET Models]
    BY <1>1, <1>2 DEF Shape
  <2>3. /\ isSuspended' \in BOOLEAN /\ overlapped' \subseteq Targets
        /\ suspended' \in [Targets -> BOOLEAN] /\ resuming' \in [Targets -> Nat]
    BY <1>1, <1>2 DEF Shape
  <2> QED
    BY <1>1, <1>2, <2>1, <2>2, <2>3, ShapeKept
<1>6. SuspensionInv'
  <2>1. Blank'
    BY <1>1, <1>2, <1>3, <1>4 DEF SuspensionInv, Blank, Shape
  <2>2. FlagsAgree'
    BY <1>1, <1>2, <1>3 DEF SuspensionInv, FlagsAgree
  <2>3. ASSUME NEW u \in Targets \ overlapped
        PROVE  /\ suspended[u] => resuming[u] = 0 /\ (suspending'[u] = 0 => active'[u] = {})
               /\ ~suspended[u] => suspending'[u] = 0 /\ active'[u] = models[u]
    <3>1. CASE u = t
      <4>1. suspended[t] /\ resuming[t] = 0
        BY <1>1, <1>2, <3>1 DEF SuspensionInv, PassesAgree
      <4> QED
        BY <1>4, <3>1, <4>1
    <3>2. CASE u # t
      BY <1>1, <1>4, <3>2 DEF SuspensionInv, PassesAgree
    <3> QED
      BY <3>1, <3>2
  <2>4. PassesAgree'
    BY <1>2, <1>3, <2>3 DEF PassesAgree
  <2> QED
    BY <2>1, <2>2, <2>4 DEF SuspensionInv
<1> QED
  BY <1>1, <1>2, <1>5, <1>6, WatchersKept DEF IInv

(* The first phase of a resumption resumes every model the targets have.       *)
LEMMA ResumeAllTargetsInv ==
    ASSUME IInv, ResumeAllTargets
    PROVE  IInv'
<1> DEFINE T == {t \in targets : suspended[t]}
<1>1. Shape /\ SuspensionInv /\ ToldInv /\ HearsInv
  BY DEF IInv
<1>2. /\ isSuspended /\ isSuspended' = FALSE
      /\ suspended' = [t \in Targets |-> suspended[t] /\ t \notin T]
      /\ active' = [t \in Targets |-> IF t \in T THEN models[t] ELSE active[t]]
      /\ resuming' = [t \in Targets |-> IF t \in T THEN resuming[t] + 1 ELSE resuming[t]]
      /\ overlapped' = overlapped \cup {t \in T : UnderWay(t) > 0}
      /\ suspending' = suspending /\ UNCHANGED modelVars
  BY DEF ResumeAllTargets
<1>3. targets' = targets /\ disposed' = disposed /\ models' = models
  BY <1>2 DEF modelVars
<1>4. T = targets
  BY <1>1, <1>2 DEF SuspensionInv, FlagsAgree, Shape
<1>8. \A t \in T : suspended[t]
  OBVIOUS
<1> HIDE DEF T
<1>5. \A t \in Targets :
          /\ suspended'[t] = (suspended[t] /\ t \notin T)
          /\ resuming'[t] = IF t \in T THEN resuming[t] + 1 ELSE resuming[t]
          /\ active'[t] = IF t \in T THEN models[t] ELSE active[t]
  BY <1>2
<1>6. Shape'
  <2>1. suspended' \in [Targets -> BOOLEAN]
    BY <1>1, <1>2 DEF Shape
  <2>2. resuming' \in [Targets -> Nat]
    BY <1>1, <1>2 DEF Shape
  <2>3. overlapped' \subseteq Targets
    BY <1>1, <1>2, <1>4 DEF Shape
  <2>4. active' \in [Targets -> SUBSET Models]
    BY <1>1, <1>2 DEF Shape
  <2>5. isSuspended' \in BOOLEAN /\ suspending' \in [Targets -> Nat]
    BY <1>1, <1>2 DEF Shape
  <2> QED
    BY <1>1, <1>2, <2>1, <2>2, <2>3, <2>4, <2>5, ShapeKept
<1>7. SuspensionInv'
  <2>1. Blank'
    BY <1>1, <1>2, <1>3, <1>4, <1>5 DEF SuspensionInv, Blank
  <2>2. FlagsAgree'
    BY <1>1, <1>2, <1>3, <1>4, <1>5 DEF FlagsAgree, Shape
  <2>3. ASSUME NEW t \in Targets, t \notin overlapped'
        PROVE  /\ suspended'[t] => resuming'[t] = 0 /\ (suspending[t] = 0 => active'[t] = {})
               /\ ~suspended'[t] => suspending[t] = 0 /\ active'[t] = models[t]
    <3>0. t \notin overlapped /\ suspending[t] \in Nat /\ resuming[t] \in Nat
      BY <1>1, <1>2, <2>3 DEF Shape
    <3>1. CASE t \in T
      <4>1. ~(UnderWay(t) > 0)
        BY <1>2, <2>3, <3>1
      <4>2. resuming[t] = 0 /\ suspending[t] = 0
        BY <3>0, <4>1 DEF UnderWay
      <4> QED
        BY <1>5, <3>1, <4>2
    <3>2. CASE t \notin T
      BY <1>1, <1>5, <3>0, <3>2 DEF SuspensionInv, PassesAgree
    <3> QED
      BY <3>1, <3>2
  <2>4. PassesAgree'
    BY <1>2, <1>3, <2>3 DEF PassesAgree
  <2> QED
    BY <2>1, <2>2, <2>4 DEF SuspensionInv
<1> QED
  BY <1>1, <1>2, <1>6, <1>7, WatchersKept DEF IInv

(* The second phase of a resumption ends the pass. *)
LEMMA PostResumeModelsInv ==
    ASSUME IInv, NEW t \in Targets, PostResumeModels(t)
    PROVE  IInv'
<1>1. Shape /\ SuspensionInv /\ ToldInv /\ HearsInv
  BY DEF IInv
<1>2. /\ resuming[t] > 0
      /\ resuming' = [resuming EXCEPT ![t] = @ - 1]
      /\ isSuspended' = isSuspended /\ suspended' = suspended /\ suspending' = suspending
      /\ overlapped' = overlapped /\ active' = active /\ UNCHANGED modelVars
  BY DEF PostResumeModels
<1>3. targets' = targets /\ disposed' = disposed /\ models' = models
  BY <1>2 DEF modelVars
<1>4. \A u \in Targets : resuming'[u] = IF u = t THEN resuming[t] - 1 ELSE resuming[u]
  BY <1>1, <1>2 DEF Shape
<1>5. Shape'
  <2>1. resuming' \in [Targets -> Nat]
    BY <1>1, <1>2 DEF Shape
  <2>2. /\ isSuspended' \in BOOLEAN /\ overlapped' \subseteq Targets
        /\ suspended' \in [Targets -> BOOLEAN] /\ suspending' \in [Targets -> Nat]
        /\ active' \in [Targets -> SUBSET Models]
    BY <1>1, <1>2 DEF Shape
  <2> QED
    BY <1>1, <1>2, <2>1, <2>2, ShapeKept
<1>6. SuspensionInv'
  <2>1. Blank'
    BY <1>1, <1>2, <1>3, <1>4 DEF SuspensionInv, Blank, Shape
  <2>2. FlagsAgree'
    BY <1>1, <1>2, <1>3 DEF SuspensionInv, FlagsAgree
  <2>3. ASSUME NEW u \in Targets \ overlapped
        PROVE  /\ suspended[u] => resuming'[u] = 0 /\ (suspending[u] = 0 => active[u] = {})
               /\ ~suspended[u] => suspending[u] = 0 /\ active[u] = models[u]
    <3>1. CASE u = t
      <4>1. ~suspended[t]
        BY <1>1, <1>2, <3>1 DEF SuspensionInv, PassesAgree
      <4> QED
        BY <1>1, <3>1, <4>1 DEF SuspensionInv, PassesAgree
    <3>2. CASE u # t
      BY <1>1, <1>4, <3>2 DEF SuspensionInv, PassesAgree
    <3> QED
      BY <3>1, <3>2
  <2>4. PassesAgree'
    BY <1>2, <1>3, <2>3 DEF PassesAgree
  <2> QED
    BY <2>1, <2>2, <2>4 DEF SuspensionInv
<1> QED
  BY <1>1, <1>2, <1>5, <1>6, WatchersKept DEF IInv

(* Every step keeps the invariant. *)
LEMMA InvStep ==
    ASSUME IInv, [Next]_vars
    PROVE  IInv'
<1>1. ASSUME NEW t \in Targets, CreateTarget(t) PROVE IInv'
  BY <1>1, CreateTargetInv
<1>2. ASSUME NEW t \in Targets, Dispose(t) PROVE IInv'
  BY <1>2, DisposeInv
<1>3. ASSUME NEW t \in Targets, SuspendModels(t) PROVE IInv'
  BY <1>3, SuspendModelsInv
<1>4. ASSUME NEW t \in Targets, PostResumeModels(t) PROVE IInv'
  BY <1>4, PostResumeModelsInv
<1>5. ASSUME NEW t \in Targets, NEW m \in Models, Model(t, m) PROVE IInv'
  BY <1>5, ModelInv
<1>6. ASSUME NEW o \in Observers, ObserveModels(o) PROVE IInv'
  BY <1>6, ObserveModelsInv
<1>7. ASSUME NEW o \in Observers, UnobserveModels(o) PROVE IInv'
  BY <1>7, UnobserveModelsInv
<1>8. ASSUME NEW l \in Listeners, AddModelListener(l) PROVE IInv'
  BY <1>8, AddModelListenerInv
<1>9. ASSUME NEW l \in Listeners, RemoveModelListener(l) PROVE IInv'
  BY <1>9, RemoveModelListenerInv
<1>10. CASE SuspendAllTargets
  BY <1>10, SuspendAllTargetsInv
<1>11. CASE ResumeAllTargets
  BY <1>11, ResumeAllTargetsInv
<1>12. CASE UNCHANGED vars
  <2>1. /\ suspendVars' = suspendVars /\ active' = active /\ UNCHANGED modelVars
    BY <1>12 DEF vars
  <2>2. /\ isSuspended' = isSuspended /\ suspended' = suspended /\ suspending' = suspending
        /\ resuming' = resuming /\ overlapped' = overlapped
        /\ targets' = targets /\ disposed' = disposed /\ models' = models
    BY <2>1 DEF suspendVars, modelVars
  <2>3. Shape'
    BY <2>1, <2>2, ShapeKept DEF IInv, Shape
  <2>4. Blank' /\ FlagsAgree'
    BY <2>1, <2>2 DEF IInv, SuspensionInv, Blank, FlagsAgree
  <2>5. PassesAgree'
    BY <2>1, <2>2 DEF IInv, SuspensionInv, PassesAgree
  <2> QED
    BY <2>1, <2>3, <2>4, <2>5, WatchersKept DEF IInv, SuspensionInv
<1> QED
  BY <1>1, <1>2, <1>3, <1>4, <1>5, <1>6, <1>7, <1>8, <1>9, <1>10, <1>11, <1>12 DEF Next

(* The invariant holds always, whatever is interleaved with the passes.        *)
THEOREM Invariance == SafeSpec => []IInv
BY InvInit, InvStep, PTL DEF SafeSpec

(* Every variable always has its shape. *)
THEOREM Typing == SafeSpec => []TypeOK
<1>1. IInv => TypeOK
  BY DEF IInv, Shape, ToldInv, HearsInv, TypeOK
<1> QED
  BY <1>1, Invariance, PTL

(* An observer is told of each model of its class once, and of nothing that    *)
(* was removed but models created since.                                       *)
THEOREM ObserversAreTold == SafeSpec => []ObserversKnowModels
<1>1. IInv => ObserversKnowModels
  BY DEF IInv, ToldInv
<1> QED
  BY <1>1, Invariance, PTL

(* A listener is on every model of its class exactly once.                     *)
THEOREM ListenersHear == SafeSpec => []ListenersHearModels
<1>1. IInv => ListenersHearModels
  BY DEF IInv, HearsInv
<1> QED
  BY <1>1, Invariance, PTL

(* Models are suspended and active as the manager says, unless passes over the *)
(* target overlapped.                                                          *)
THEOREM Followed == SafeSpec => []ModelsFollow
<1>1. ASSUME IInv PROVE ModelsFollow
  <2>1. Shape /\ FlagsAgree /\ PassesAgree
    BY <1>1 DEF IInv, SuspensionInv
  <2>2. ASSUME NEW t \in targets \ overlapped
        PROVE  /\ isSuspended /\ UnderWay(t) = 0 => active[t] = {}
               /\ ~isSuspended => active[t] = models[t]
    <3>1. t \in Targets /\ suspending[t] \in Nat /\ resuming[t] \in Nat
      BY <2>1 DEF Shape
    <3>2. suspended[t] = isSuspended
      BY <2>1 DEF FlagsAgree
    <3>3. UnderWay(t) = 0 => suspending[t] = 0
      BY <3>1 DEF UnderWay
    <3> QED
      BY <2>1, <3>1, <3>2, <3>3 DEF PassesAgree
  <2> QED
    BY <2>2 DEF ModelsFollow
<1> QED
  BY <1>1, Invariance, PTL

(* preSuspendModel and postResumeModel are called while all models are active, *)
(* unless passes over the target overlapped.                                   *)
THEOREM OrderOfPhases == SafeSpec => PhasesInOrder
<1> DEFINE InOrder == \A t \in Targets \ overlapped' :
               (suspending'[t] > suspending[t] \/ resuming'[t] < resuming[t])
                   => active[t] = models[t]
<1>1. ASSUME IInv, Next PROVE InOrder
  <2>0. Shape /\ PassesAgree
    BY <1>1 DEF IInv, SuspensionInv
  <2>1. CASE SuspendAllTargets
    <3>1. overlapped \subseteq overlapped' /\ resuming' = resuming
      BY <2>1 DEF SuspendAllTargets
    <3>2. \A t \in Targets : suspending'[t] > suspending[t] => ~suspended[t]
      BY <2>0, <2>1 DEF SuspendAllTargets, Shape
    <3>3. \A t \in Targets : ~(resuming'[t] < resuming[t])
      BY <2>0, <3>1 DEF Shape
    <3> QED
      BY <2>0, <3>1, <3>2, <3>3 DEF PassesAgree
  <2>2. CASE ResumeAllTargets
    BY <2>0, <2>2 DEF ResumeAllTargets, Shape
  <2>3. ASSUME NEW t \in Targets, SuspendModels(t) PROVE InOrder
    BY <2>0, <2>3 DEF SuspendModels, Shape
  <2>4. ASSUME NEW t \in Targets, PostResumeModels(t) PROVE InOrder
    <3>1. overlapped' = overlapped /\ suspending' = suspending /\ resuming[t] > 0
      BY <2>4 DEF PostResumeModels
    <3>2. \A u \in Targets : resuming'[u] < resuming[u] => u = t
      BY <2>0, <2>4 DEF PostResumeModels, Shape
    <3>3. \A u \in Targets : ~(suspending'[u] > suspending[u])
      BY <2>0, <3>1 DEF Shape
    <3>4. t \notin overlapped => active[t] = models[t]
      BY <2>0, <3>1 DEF PassesAgree
    <3> QED
      BY <3>1, <3>2, <3>3, <3>4
  <2>5. CASE UNCHANGED suspendVars
    BY <2>0, <2>5 DEF suspendVars, Shape
  <2>6. ASSUME NEW t \in Targets, CreateTarget(t) \/ Dispose(t) \/ \E m \in Models : Model(t, m)
        PROVE  suspending' = suspending /\ resuming' = resuming
    BY <2>6 DEF CreateTarget, Dispose, Model, suspendVars
  <2>7. ASSUME suspending' = suspending /\ resuming' = resuming PROVE InOrder
    BY <2>0, <2>7 DEF Shape
  <2>8. ASSUME NEW o \in Observers, ObserveModels(o) \/ UnobserveModels(o)
        PROVE  suspending' = suspending /\ resuming' = resuming
    BY <2>8 DEF ObserveModels, UnobserveModels, suspendVars
  <2>9. ASSUME NEW l \in Listeners, AddModelListener(l) \/ RemoveModelListener(l)
        PROVE  suspending' = suspending /\ resuming' = resuming
    BY <2>9 DEF AddModelListener, RemoveModelListener, suspendVars
  <2> HIDE DEF InOrder
  <2> QED
    BY <1>1, <2>1, <2>2, <2>3, <2>4, <2>6, <2>7, <2>8, <2>9 DEF Next
<1>2. IInv /\ [Next]_vars => [InOrder]_vars
  BY <1>1
<1> QED
  BY <1>2, Invariance, PTL DEF SafeSpec, PhasesInOrder
================================================================================
