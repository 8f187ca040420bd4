--------------------------- MODULE Persistence_proofs ---------------------------
(*****************************************************************************)
(* Proofs about Persistence, for any contents and any number of events and   *)
(* attempts: bindings are live and agree, the mark of the script is true,    *)
(* the file follows the disk, and only the user gives up unsaved changes.    *)
(*****************************************************************************)
EXTENDS Persistence, TLAPS

\* An attempt that counts belongs to a script that is there and not bound.
BindingExact ==
    /\ BindingsAreLive
    /\ processing # 0 => Network \in present /\ bound = 0
    /\ bound # 0 => stage[bound] \in {"adding", "over"}

\* What two that are bound have in common, and why a file that was not read is apart.
TextsExact ==
    /\ content[Network] # None
    /\ ~loaded => content[File] = None
    /\ bound # 0 /\ stage[bound] = "over" /\ ~loaded => apart
    /\ BoundFilesAgree

\* The comparison that counts is of the content that the script has now.
MarkExact ==
    /\ \A p \in comparing : p.current => ~IsDirty(Network) /\ commits[Network]
                                          /\ p.text = content[Network]
    /\ (\A p \in comparing : ~p.current)
          => (modified <=> IsDirty(Network) \/ (commits[Network] /\ content[Network] # Original))

ModifiedExact == Network \in present => MarkExact

Front == operations # <<>>
UnreadCheck == \E i \in 1 .. Len(operations) : operations[i] = [kind |-> "check", text |-> None]
CheckWaits == \E i \in 1 .. Len(operations) : operations[i].kind = "check"
WriteWaits == \E i \in 1 .. Len(operations) : operations[i].kind = "write"

\* What will tell the file of a disk that differs from it.
ToldLater ==
    \/ changed \/ WriteWaits \/ UnreadCheck
    \/ Front /\ operations[1] = [kind |-> "check", text |-> disk]
    \/ dialogs # <<>> /\ dialogs[Len(dialogs)] = disk

\* A read that was overtaken is followed by another one, a failed one is known of,
\* and who refuses to check has a check under way.
DiskExact ==
    /\ loaded /\ File \in present /\ lapses = {}
          => ToldLater \/ content[File] = disk \/ accepted = disk
    /\ Missed /\ operations[1].text # Failed => changed \/ lapses # {} \/ UnreadCheck
    /\ Front /\ operations[1].text = Failed => "failed" \in lapses
    /\ checking => CheckWaits \/ "failed" \in lapses

IInv == TypeOK /\ BindingExact /\ TextsExact /\ ModifiedExact /\ DiskExact

(* The parts of the type invariant that change together. *)
TextsType ==
    /\ content \in [Codes -> Contents \cup {None}]
    /\ working \in [Codes -> Contents \cup {None}]
    /\ follows \in [Codes -> BOOLEAN] /\ commits \in [Codes -> BOOLEAN]

FieldsType ==
    /\ loaded \in BOOLEAN /\ requesting \in BOOLEAN /\ checking \in BOOLEAN
    /\ accepted \in Contents \cup {None} /\ forceLoad \in BOOLEAN
    /\ changed \in BOOLEAN /\ apart \in BOOLEAN

DiskType ==
    /\ disk \in Contents /\ events \in Nat
    /\ lapses \subseteq {"missed", "overruled", "failed"}

QueueType ==
    /\ operations \in Seq(Operations)
    /\ \A i \in 2 .. Len(operations) : operations[i].kind # "write" => operations[i].text = None
    /\ dialogs \in Seq(Contents)

DiffType == modified \in BOOLEAN /\ comparing \subseteq [text : Contents, current : BOOLEAN]

BindingType ==
    /\ bound \in 0 .. MaxAttempts /\ processing \in 0 .. MaxAttempts /\ present \subseteq Codes
    /\ stage \in [Attempts -> {"new", "locating", "reading", "adding", "over"}]
    /\ fileText \in [Attempts -> Contents \cup {None, Pending}]
    /\ fromSourceMap \in BOOLEAN /\ sweepScheduled \in BOOLEAN /\ late \in BOOLEAN

LEMMA TypeParts ==
    TypeOK <=> TextsType /\ FieldsType /\ DiskType /\ QueueType /\ DiffType /\ BindingType
<1> QED
  BY AttemptsAssumption DEF TypeOK, FilesTypeOK, TextsType, FieldsType, DiskType, QueueType, DiffType,
     BindingType

--------------------------------------------------------------------------------
(* The helpers. *)

(* What is shown of a code is a content. *)
LEMMA WorkingCopyType ==
    ASSUME TextsType, NEW c \in Codes
    PROVE  Other(c) \in Codes /\ Text(c) \in Contents /\ OwnCopy(c) \in Contents
           /\ WorkingCopy(c) \in Contents
<1> USE FilesAssumption DEF Codes, Network, File, Other, TextsType
<1>1. \A d \in Codes : Text(d) \in Contents
  BY DEF Text
<1>2. \A d \in Codes : OwnCopy(d) \in Contents
  BY <1>1 DEF OwnCopy
<1> QED
  BY <1>1, <1>2 DEF WorkingCopy

(* The comparisons keep their shape. *)
LEMMA UpdateType ==
    ASSUME DiffType, TextsType', UpdateModifiedState
    PROVE  DiffType'
<1> DEFINE overtaken == {[p EXCEPT !.current = FALSE] : p \in comparing}
           new == [text |-> Text(Network)', current |-> TRUE]
<1>1. overtaken \subseteq [text : Contents, current : BOOLEAN]
  BY DEF DiffType
<1>2. Text(Network)' \in Contents
  BY FilesAssumption DEF Text, TextsType, Codes
<1>3. comparing' \subseteq overtaken \cup {new}
  BY DEF UpdateModifiedState
<1>4. modified' \in BOOLEAN
  BY DEF UpdateModifiedState, DiffType
<1>5. new \in [text : Contents, current : BOOLEAN]
  BY <1>2
<1>6. comparing' \subseteq [text : Contents, current : BOOLEAN]
  BY <1>1, <1>3, <1>5
<1> QED
  BY <1>4, <1>6 DEF DiffType

LEMMA NetworkChangesType ==
    ASSUME DiffType, TextsType', NEW c, NetworkChanges(c)
    PROVE  DiffType'
<1> QED
  BY UpdateType DEF NetworkChanges, diff, DiffType

(* Committing a content. *)
LEMMA CommitType ==
    ASSUME TextsType, FieldsType, DiffType, NEW c \in Codes, NEW x \in Contents, Commit(c, x)
    PROVE  /\ TextsType' /\ DiffType'
           /\ loaded' \in BOOLEAN /\ requesting' \in BOOLEAN /\ accepted' \in Contents \cup {None}
           /\ apart' \in BOOLEAN
<1>1. content' \in [Codes -> Contents \cup {None}] /\ working' \in [Codes -> Contents \cup {None}]
  BY DEF Commit, TextsType
<1>2. follows' \in [Codes -> BOOLEAN] /\ commits' \in [Codes -> BOOLEAN]
  BY DEF Commit, TextsType
<1>3. TextsType'
  BY <1>1, <1>2 DEF TextsType
<1>4. DiffType'
  BY <1>3, NetworkChangesType DEF Commit
<1>5. loaded' \in BOOLEAN /\ requesting' \in BOOLEAN /\ accepted' \in Contents \cup {None}
  BY DEF Commit, FieldsType
<1>6. apart' \in BOOLEAN
  BY DEF Commit
<1> QED
  BY <1>3, <1>4, <1>5, <1>6

LEMMA SetType ==
    ASSUME TextsType, DiffType, NEW c \in Codes, NEW x \in Contents, SetWorkingCopy(c, x)
    PROVE  TextsType' /\ DiffType'
<1>1. working' \in [Codes -> Contents \cup {None}]
  BY DEF SetWorkingCopy, TextsType
<1>2. follows' \in [Codes -> BOOLEAN]
  BY DEF SetWorkingCopy, TextsType
<1>3. TextsType'
  BY <1>1, <1>2 DEF SetWorkingCopy, TextsType
<1> QED
  BY <1>3, NetworkChangesType DEF SetWorkingCopy

LEMMA ResetType ==
    ASSUME TextsType, DiffType, NEW c \in Codes, ResetWorkingCopy(c)
    PROVE  TextsType' /\ DiffType'
<1>1. working' \in [Codes -> Contents \cup {None}]
  BY DEF ResetWorkingCopy, TextsType
<1>2. follows' \in [Codes -> BOOLEAN]
  BY DEF ResetWorkingCopy, TextsType
<1>3. TextsType'
  BY <1>1, <1>2 DEF ResetWorkingCopy, TextsType
<1> QED
  BY <1>3, NetworkChangesType DEF ResetWorkingCopy

--------------------------------------------------------------------------------
(* The type invariant. *)

LEMMA TextsTypeStep ==
    ASSUME TypeOK, Next
    PROVE  TextsType' /\ DiffType'
<1> USE TypeParts
<1>1. CASE \E c \in Codes, x \in Contents : Edit(c, x)
  BY <1>1, SetType DEF Edit
<1>2. CASE \E c \in Codes : Revert(c)
  BY <1>2, ResetType DEF Revert
<1>3. CASE \E c \in Codes : CommitWorkingCopy(c)
  BY <1>3, CommitType, WorkingCopyType DEF CommitWorkingCopy, CommitAndWrite
<1>4. CASE \E c \in Codes : ReadWorkingCopy(c)
  <2> PICK c \in Codes : ReadWorkingCopy(c)
    BY <1>4
  <2>1. working' \in [Codes -> Contents \cup {None}]
    BY WorkingCopyType DEF ReadWorkingCopy, TextsType
  <2>2. follows' \in [Codes -> BOOLEAN]
    BY DEF ReadWorkingCopy, TextsType
  <2> QED
    BY <2>1, <2>2 DEF ReadWorkingCopy, TextsType, DiffType, diff
<1>5. CASE \E x \in Contents : AddRevision(x)
  BY <1>5, CommitType DEF AddRevision, CommitAndWrite, Codes
<1>6. CASE Compared
  <2> PICK p \in comparing : /\ comparing' = comparing \ {p}
                             /\ modified' = IF p.current THEN p.text # Original ELSE modified
                             /\ UNCHANGED texts
    BY <1>6 DEF Compared
  <2>1. modified' \in BOOLEAN
    BY DEF DiffType
  <2> QED
    BY <2>1 DEF DiffType, TextsType, texts
<1>7. CASE ContentChecked
  <2>1. operations[1].text \in Contents
    BY <1>7 DEF ContentChecked, Answered, QueueType, Operations
  <2> QED
    BY <1>7, <2>1, CommitType DEF ContentChecked, Codes, texts, diff, TextsType, DiffType
<1>8. CASE \E accept \in BOOLEAN : Confirm(accept)
  <2>1. dialogs # <<>> => dialogs[1] \in Contents
    BY DEF QueueType
  <2> QED
    BY <1>8, <2>1, CommitType DEF Confirm, Codes, texts, diff, TextsType, DiffType
<1>9. CASE FileLoaded
  <2>1. operations[1].text \in Contents \cup {Failed}
    BY <1>9 DEF FileLoaded, ContentLoaded, Answered, QueueType, Operations
  <2>2. content' \in [Codes -> Contents \cup {None}]
    BY <1>9, <2>1 DEF FileLoaded, ContentLoaded, TextsType
  <2> QED
    BY <1>9, <2>2 DEF FileLoaded, ContentLoaded, diff, TextsType, DiffType
<1>10. CASE \E i \in Attempts : Added(i)
  <2> PICK i \in Attempts : Added(i)
    BY <1>10
  <2>1. working' \in [Codes -> Contents \cup {None}]
    BY WorkingCopyType DEF Added, TextsType, Codes
  <2>2. follows' \in [Codes -> BOOLEAN]
    BY DEF Added, TextsType
  <2>3. TextsType'
    BY <2>1, <2>2 DEF Added, TextsType
  <2> QED
    BY <2>3, UpdateType DEF Added, diff, DiffType
<1>11. CASE RemoveNetwork
  <2>1. comparing' \subseteq [text : Contents, current : BOOLEAN]
    BY <1>11 DEF RemoveNetwork, DiffType
  <2> QED
    BY <1>11, <2>1 DEF RemoveNetwork, texts, TextsType, DiffType
<1>12. CASE \/ RequestContent \/ ReadFile \/ ReadFails \/ WriteFile \/ WriteFails
            \/ FileChanged \/ CheckFailed \/ (\E x \in Contents : ChangedOutside(x))
  BY <1>12 DEF RequestContent, ReadFile, ReadFails, WriteFile, WriteFails, FileChanged, CheckFailed,
     ChangedOutside, texts, diff, TextsType, DiffType
<1>13. CASE \/ Sweep \/ ScheduleRemap \/ RemoveFile
            \/ \E i \in Attempts : Located(i) \/ Validated(i)
  BY <1>13 DEF Sweep, ScheduleRemap, RemoveFile, Located, Validated, fileVars, texts, diff,
     TextsType, DiffType
<1> QED
  BY <1>1, <1>2, <1>3, <1>4, <1>5, <1>6, <1>7, <1>8, <1>9, <1>10, <1>11, <1>12, <1>13
     DEF Next, FilesNext

LEMMA FieldsTypeStep ==
    ASSUME TypeOK, Next
    PROVE  FieldsType'
<1> USE TypeParts
<1>1. CASE \E c \in Codes : CommitWorkingCopy(c)
  BY <1>1, CommitType, WorkingCopyType DEF CommitWorkingCopy, CommitAndWrite, FieldsType
<1>2. CASE \E x \in Contents : AddRevision(x)
  BY <1>2, CommitType DEF AddRevision, CommitAndWrite, Codes, FieldsType
<1>3. CASE ContentChecked
  <2>1. operations[1].text \in Contents
    BY <1>3 DEF ContentChecked, Answered, QueueType, Operations
  <2> QED
    BY <1>3, <2>1, CommitType DEF ContentChecked, Codes, FieldsType
<1>4. CASE \E accept \in BOOLEAN : Confirm(accept)
  <2>1. dialogs # <<>> => dialogs[1] \in Contents
    BY DEF QueueType
  <2> QED
    BY <1>4, <2>1, CommitType DEF Confirm, Codes, FieldsType
<1>5. CASE \/ (\E c \in Codes, x \in Contents : Edit(c, x)) \/ (\E c \in Codes : ReadWorkingCopy(c))
           \/ Compared \/ ReadFile \/ ReadFails \/ WriteFile
           \/ WriteFails \/ CheckFailed \/ (\E x \in Contents : ChangedOutside(x))
  BY <1>5 DEF Edit, ReadWorkingCopy, Compared, ReadFile, ReadFails, WriteFile,
     WriteFails, CheckFailed, ChangedOutside, loading, FieldsType
<1>6. CASE RequestContent \/ FileChanged
  BY <1>6 DEF RequestContent, FileChanged, loading, FieldsType
<1>7. CASE \E c \in Codes : Revert(c)
  <2>1. apart' \in BOOLEAN
    BY <1>7 DEF Revert
  <2> QED
    BY <1>7, <2>1 DEF Revert, loading, FieldsType
<1>8. CASE FileLoaded
  BY <1>8 DEF FileLoaded, ContentLoaded, FieldsType
<1>9. CASE \E i \in Attempts : Added(i)
  <2>1. apart' \in BOOLEAN
    BY <1>9 DEF Added
  <2> QED
    BY <1>9, <2>1 DEF Added, loading, FieldsType
<1>10. CASE Sweep \/ ScheduleRemap \/ RemoveFile \/ RemoveNetwork
  BY <1>10 DEF Sweep, ScheduleRemap, RemoveFile, RemoveNetwork, fileVars, loading, FieldsType
<1>11. CASE \E i \in Attempts : Located(i) \/ Validated(i)
  <2> PICK i \in Attempts : Located(i) \/ Validated(i)
    BY <1>11
  <2>1. forceLoad' \in BOOLEAN
    BY DEF Located, Validated, Bind, GiveUp, FieldsType
  <2>2. requesting' \in BOOLEAN
    BY DEF Located, Validated, loading, FieldsType
  <2> QED
    BY <2>1, <2>2 DEF Located, Validated, loading, FieldsType
<1> QED
  BY <1>1, <1>2, <1>3, <1>4, <1>5, <1>6, <1>7, <1>8, <1>9, <1>10, <1>11 DEF Next, FilesNext

LEMMA DiskTypeStep ==
    ASSUME TypeOK, Next
    PROVE  DiskType'
<1> USE TypeParts DEF DiskType
<1>1. events' \in Nat
  BY DEF Next, FilesNext, Edit, Event, Revert, CommitWorkingCopy, AddRevision, ReadWorkingCopy,
     Compared, RequestContent, ReadFile, ReadFails, WriteFile, WriteFails, FileLoaded, ContentLoaded,
     FileChanged, CheckFailed, ContentChecked, Confirm, ChangedOutside, Sweep, Located, Validated,
     ScheduleRemap, RemoveNetwork, RemoveFile, Added, fileVars
<1>2. disk' \in Contents
  <2>1. Writing => operations[1].text \in Contents
    BY DEF Writing, QueueType, Operations
  <2> QED
    BY <2>1 DEF Next, FilesNext, Edit, Revert, CommitWorkingCopy, AddRevision, ReadWorkingCopy,
     Compared, RequestContent, ReadFile, ReadFails, WriteFile, WriteFails, FileLoaded, ContentLoaded,
     FileChanged, CheckFailed, ContentChecked, Confirm, ChangedOutside, Sweep, Located, Validated,
     ScheduleRemap, RemoveNetwork, RemoveFile, Added, fileVars
<1>3. lapses' \subseteq lapses \cup {"missed", "overruled", "failed"}
  BY DEF Next, FilesNext, Edit, Revert, CommitWorkingCopy, AddRevision, ReadWorkingCopy,
     Compared, RequestContent, ReadFile, ReadFails, WriteFile, WriteFails, FileLoaded, ContentLoaded,
     FileChanged, CheckFailed, ContentChecked, Confirm, ChangedOutside, Sweep, Located, Validated,
     ScheduleRemap, RemoveNetwork, RemoveFile, Added, fileVars
<1> QED
  BY <1>1, <1>2, <1>3

\* Only the operation in front has begun.
QueueOK(q) ==
    q \in Seq(Operations) /\ \A i \in 2 .. Len(q) : q[i].kind # "write" => q[i].text = None

Unread == {[kind |-> k, text |-> None] : k \in {"load", "check"}}
Writes == {[kind |-> "write", text |-> x] : x \in Contents}

(* How a queue can change. *)
LEMMA QueueAppend ==
    ASSUME NEW q, QueueOK(q), NEW op \in Unread \cup Writes
    PROVE  QueueOK(Append(q, op))
<1>1. op \in Operations /\ (op.kind # "write" => op.text = None)
  BY DEF Unread, Writes, Operations
<1> QED
  BY <1>1 DEF QueueOK

LEMMA QueueTail ==
    ASSUME NEW q, QueueOK(q), q # <<>>
    PROVE  /\ QueueOK(Tail(q))
           /\ Tail(q) # <<>> /\ Tail(q)[1].kind # "write" => Tail(q)[1].text = None
<1> QED
  BY DEF QueueOK

LEMMA QueueAnswer ==
    ASSUME NEW q, QueueOK(q), q # <<>>, q[1].text = None, NEW x \in Contents \cup {Failed}
    PROVE  QueueOK([q EXCEPT ![1].text = x])
<1>1. [q[1] EXCEPT !.text = x] \in Operations
  BY FilesAssumption DEF QueueOK, Operations, None
<1> QED
  BY <1>1 DEF QueueOK

(* Every step does one of these. *)
LEMMA QueueChanges ==
    ASSUME TypeOK, Next
    PROVE  \/ operations' = operations
           \/ \E op \in Unread \cup Writes : operations' = Append(operations, op)
           \/ operations # <<>> /\ operations' = Tail(operations)
           \/ Reading /\ \E x \in Contents \cup {Failed} :
                              operations' = [operations EXCEPT ![1].text = x]
<1> USE TypeParts
<1>1. CASE \E c \in Codes : CommitWorkingCopy(c)
  BY <1>1, WorkingCopyType DEF CommitWorkingCopy, CommitAndWrite, Writes
<1>2. CASE \E x \in Contents : AddRevision(x)
  BY <1>2 DEF AddRevision, CommitAndWrite, Writes
<1>3. CASE \/ (\E c \in Codes, x \in Contents : Edit(c, x))
           \/ (\E c \in Codes : Revert(c) \/ ReadWorkingCopy(c))
           \/ Compared \/ (\E accept \in BOOLEAN : Confirm(accept))
           \/ (\E x \in Contents : ChangedOutside(x))
  BY <1>3 DEF Edit, Revert, ReadWorkingCopy, Compared, Confirm, ChangedOutside
<1>4. CASE RequestContent \/ FileChanged
  BY <1>4 DEF RequestContent, WithRequest, FileChanged, Unread
<1>5. CASE ReadFile \/ ReadFails
  BY <1>5 DEF ReadFile, ReadFails, DiskType
<1>6. CASE WriteFile \/ WriteFails \/ CheckFailed \/ ContentChecked \/ FileLoaded
  BY <1>6 DEF WriteFile, WriteFails, Writing, CheckFailed, ContentChecked, FileLoaded, ContentLoaded,
     Answered
<1>7. CASE \/ Sweep \/ ScheduleRemap \/ RemoveNetwork \/ RemoveFile
           \/ \E i \in Attempts : Validated(i) \/ Added(i)
  BY <1>7 DEF Sweep, ScheduleRemap, RemoveNetwork, RemoveFile, Validated, Added, fileVars
<1>8. CASE \E i \in Attempts : Located(i)
  BY <1>8 DEF Located, WithRequest, Unread
<1> QED
  BY <1>1, <1>2, <1>3, <1>4, <1>5, <1>6, <1>7, <1>8 DEF Next, FilesNext

LEMMA QueueTypeStep ==
    ASSUME TypeOK, Next
    PROVE  QueueType'
<1> USE TypeParts
<1>1. QueueOK(operations)
  BY DEF QueueType, QueueOK
<1>2. QueueOK(operations')
  <2>1. CASE operations' = operations
    BY <1>1, <2>1
  <2>2. CASE \E op \in Unread \cup Writes : operations' = Append(operations, op)
    BY <1>1, <2>2, QueueAppend
  <2>3. CASE operations # <<>> /\ operations' = Tail(operations)
    BY <1>1, <2>3, QueueTail
  <2>4. CASE Reading /\ \E x \in Contents \cup {Failed} :
                           operations' = [operations EXCEPT ![1].text = x]
    <3> PICK x \in Contents \cup {Failed} : operations' = [operations EXCEPT ![1].text = x]
      BY <2>4
    <3>1. operations # <<>> /\ operations[1].text = None
      BY <2>4 DEF Reading
    <3> QED
      BY <1>1, <3>1, QueueAnswer
  <2> QED
    BY <2>1, <2>2, <2>3, <2>4, QueueChanges
<1>3. dialogs' \in Seq(Contents)
  <2>1. Answered("check") /\ operations[1].text # Failed => operations[1].text \in Contents
    BY DEF Answered, QueueType, Operations
  <2>2. CASE ContentChecked
    BY <2>1, <2>2 DEF ContentChecked, QueueType
  <2>3. CASE \E accept \in BOOLEAN : Confirm(accept)
    BY <2>3 DEF Confirm, QueueType
  <2>4. CASE dialogs' = dialogs
    BY <2>4 DEF QueueType
  <2> QED
    BY <2>2, <2>3, <2>4 DEF Next, FilesNext, Edit, Revert, CommitWorkingCopy, AddRevision,
       ReadWorkingCopy, Compared, RequestContent, ReadFile, ReadFails, WriteFile, WriteFails,
       FileLoaded, ContentLoaded, FileChanged, CheckFailed, ChangedOutside, Sweep, Located,
       Validated, ScheduleRemap, RemoveNetwork, RemoveFile, Added, fileVars
<1> QED
  BY <1>2, <1>3 DEF QueueType, QueueOK

LEMMA BindingTypeStep ==
    ASSUME TypeOK, Next
    PROVE  BindingType'
<1> USE TypeParts
<1>1. CASE FilesNext /\ UNCHANGED mapVars
  BY <1>1 DEF FilesNext, Edit, Revert, CommitWorkingCopy, AddRevision, ReadWorkingCopy, Compared,
     RequestContent, ReadFile, ReadFails, WriteFile, WriteFails, FileChanged, CheckFailed,
     ContentChecked, Confirm, ChangedOutside, mapVars, BindingType
<1>2. CASE FileLoaded
  <2>1. operations[1].text \in Contents \cup {Failed}
    BY <1>2 DEF FileLoaded, ContentLoaded, Answered, QueueType, Operations
  <2>2. content'[File] \in Contents \cup {None}
    BY <1>2, <2>1 DEF FileLoaded, ContentLoaded, TextsType, Codes
  <2> QED
    BY <1>2, <2>2 DEF FileLoaded, ContentLoaded, BindingType
<1>3. CASE Sweep
  <2>1. /\ processing' \in 0 .. MaxAttempts
        /\ stage' \in [Attempts -> {"new", "locating", "reading", "adding", "over"}]
    BY <1>3, AttemptsAssumption DEF Sweep, BindingType, Attempts
  <2>2. sweepScheduled' \in BOOLEAN
    BY <1>3 DEF Sweep
  <2> QED
    BY <1>3, <2>1, <2>2 DEF Sweep, fileVars, BindingType
<1>4. CASE ScheduleRemap \/ RemoveFile
  <2>1. bound' \in 0 .. MaxAttempts
    BY <1>4, AttemptsAssumption DEF ScheduleRemap, RemoveFile, BindingType
  <2>2. sweepScheduled' \in BOOLEAN
    BY <1>4 DEF ScheduleRemap, RemoveFile, BindingType
  <2> QED
    BY <1>4, <2>1, <2>2 DEF ScheduleRemap, RemoveFile, BindingType
<1>5. CASE RemoveNetwork
  BY <1>5, AttemptsAssumption DEF RemoveNetwork, ClearNetworkStatus, BindingType
<1>6. CASE \E i \in Attempts : Added(i)
  BY <1>6 DEF Added, BindingType
<1>7. ASSUME NEW i \in Attempts, Located(i) \/ Validated(i)
      PROVE  BindingType'
  <2>1. /\ bound' \in 0 .. MaxAttempts /\ processing' \in 0 .. MaxAttempts
        /\ stage' \in [Attempts -> {"new", "locating", "reading", "adding", "over"}]
        /\ present' \subseteq Codes
    BY <1>7, AttemptsAssumption DEF Located, Validated, Bind, GiveUp, BindingType, Attempts
  <2>2. late' \in BOOLEAN /\ fromSourceMap' \in BOOLEAN /\ sweepScheduled' \in BOOLEAN
    BY <1>7 DEF Located, Validated, Bind, GiveUp, BindingType
  <2>3. fileText' \in [Attempts -> Contents \cup {None, Pending}]
    BY <1>7 DEF Located, Validated, BindingType, TextsType, Codes
  <2> QED
    BY <2>1, <2>2, <2>3 DEF BindingType
<1> QED
  BY <1>1, <1>2, <1>3, <1>4, <1>5, <1>6, <1>7 DEF Next

(* The state keeps its shape. *)
LEMMA TypeStep ==
    ASSUME TypeOK, Next
    PROVE  TypeOK'
<1>1. TextsType' /\ FieldsType' /\ DiskType' /\ QueueType' /\ DiffType' /\ BindingType'
  BY TextsTypeStep, FieldsTypeStep, DiskTypeStep, QueueTypeStep, BindingTypeStep
<1>2. \A i \in 2 .. Len(operations') : operations'[i].kind # "write" => operations'[i].text = None
  BY <1>1 DEF QueueType
<1> QED
  BY <1>1, <1>2, AttemptsAssumption
     DEF TypeOK, FilesTypeOK, TextsType, FieldsType, DiskType, QueueType, DiffType, BindingType

--------------------------------------------------------------------------------
(* Bindings. *)

LEMMA BindingStep ==
    ASSUME TypeOK, BindingExact, Next
    PROVE  BindingExact'
<1> USE TypeParts DEF BindingExact, BindingsAreLive
<1>1. CASE FilesNext /\ UNCHANGED mapVars
  <2>1. bound' = bound /\ present' = present
    BY <1>1 DEF FilesNext, Edit, Revert, CommitWorkingCopy, AddRevision, ReadWorkingCopy, Compared,
     RequestContent, ReadFile, ReadFails, WriteFile, WriteFails, FileChanged, CheckFailed,
     ContentChecked, Confirm, ChangedOutside
  <2> QED
    BY <1>1, <2>1 DEF mapVars
<1>2. CASE FileLoaded
  BY <1>2 DEF FileLoaded, ContentLoaded
<1>3. CASE Sweep
  BY <1>3, AttemptsAssumption DEF Sweep, fileVars, BindingType, Attempts
<1>4. CASE ScheduleRemap \/ RemoveFile
  BY <1>4 DEF ScheduleRemap, RemoveFile, Network, File
<1>5. CASE RemoveNetwork
  BY <1>5 DEF RemoveNetwork, ClearNetworkStatus
<1>6. ASSUME NEW i \in Attempts, Added(i)
      PROVE  BindingExact'
  BY <1>6 DEF Added, BindingType
<1>7. ASSUME NEW i \in Attempts, Located(i) \/ Validated(i)
      PROVE  BindingExact'
  <2>1. CASE GiveUp(i) /\ present' = present
    BY <1>7, <2>1 DEF Located, Validated, GiveUp, BindingType
  <2>2. CASE Bind(i) /\ processing = i /\ present' = present
    BY <2>2, AttemptsAssumption DEF Bind, BindingType, Attempts
  <2>3. CASE /\ stage[i] = "locating" /\ stage' = [stage EXCEPT ![i] = "reading"]
             /\ UNCHANGED <<processing, bound, late, present>>
    BY <2>3 DEF BindingType
  <2> QED
    BY <1>7, <2>1, <2>2, <2>3 DEF Located, Validated
<1> QED
  BY <1>1, <1>2, <1>3, <1>4, <1>5, <1>6, <1>7 DEF Next

--------------------------------------------------------------------------------
(* Texts of two that are bound. *)

\* The two agree: what is said of a binding once it was made.
Agree ==
    ~Circular => /\ IsDirty(Network) <=> IsDirty(File)
                 /\ WorkingCopy(Network) = WorkingCopy(File) \/ (~IsDirty(File) /\ apart)

LEMMA TextsKept ==
    ASSUME TypeOK, TextsExact, UNCHANGED <<texts, loaded, apart>>,
           bound' # 0 /\ stage'[bound'] = "over" => bound # 0 /\ stage[bound] = "over"
    PROVE  TextsExact'
<1> QED
  BY DEF TextsExact, BoundFilesAgree, texts, Circular, IsDirty, WorkingCopy, OwnCopy, Text

(* A committed content is the content and the working copy of both. *)
LEMMA CommitTexts ==
    ASSUME TypeOK, TextsExact, NEW c \in Codes, NEW x \in Contents, Commit(c, x),
           UNCHANGED <<bound, stage>>
    PROVE  TextsExact'
<1> USE TypeParts, FilesAssumption DEF TextsType, Codes, Network, File
<1>1. content'[Network] # None /\ (~loaded' => content'[File] = None)
  BY DEF Commit, TextsExact, Reached, None
<1>2. CASE bound = 0
  BY <1>1, <1>2 DEF TextsExact, BoundFilesAgree
<1>3. CASE bound # 0
  <2>1. /\ loaded' /\ content' = [d \in Codes |-> x] /\ working' = [d \in Codes |-> None]
        /\ follows' = [d \in Codes |-> FALSE]
    BY <1>3 DEF Commit, Reached
  <2>2. BoundFilesAgree'
    BY <2>1 DEF BoundFilesAgree, Circular, IsDirty, WorkingCopy, OwnCopy, Text, Other
  <2> QED
    BY <1>1, <2>1, <2>2 DEF TextsExact
<1> QED
  BY <1>2, <1>3

(* A binding that was just made. *)
LEMMA AddedTexts ==
    ASSUME TypeOK, TextsExact, NEW i \in Attempts, Added(i)
    PROVE  TextsExact'
<1> USE TypeParts, FilesAssumption DEF TextsType, Codes, Network, File, Other, None
<1>1. UNCHANGED <<content, loaded, commits, bound>>
  BY DEF Added, loading
<1>2. CASE bound = 0
  BY <1>1, <1>2 DEF TextsExact, BoundFilesAgree
<1>3. CASE bound # 0
  <2>1. apart' <=> content[Network] # content[File] /\ (~commits[Network] \/ ~loaded)
    BY <1>3 DEF Added
  <2>2. ~loaded => apart'
    BY <2>1 DEF TextsExact
  <2>3. follows' = [c \in Codes |-> follows[c] \/ Other(c) \in Source]
    BY <1>3 DEF Added
  <2>4. Agree'
    <3>1. CASE IsDirty(File)
      <4>1. working' = working /\ follows'[Network] /\ follows'[File] = follows[File]
        BY <3>1, <2>3 DEF Added, Source
      <4> QED
        BY <3>1, <4>1, <1>1 DEF Agree, Circular, IsDirty, WorkingCopy, OwnCopy, Text
    <3>2. CASE ~IsDirty(File) /\ Source = {Network}
      <4>1. follows'[File] /\ follows'[Network] = follows[Network] /\ ~follows[File]
        BY <3>2, <2>3 DEF IsDirty
      <4>2. working'[File] = None /\ (working'[Network] # None \/ follows[Network])
        BY <3>2 DEF Added, IsDirty, Text
      <4> QED
        BY <4>1, <4>2, <1>1 DEF Agree, Circular, IsDirty, WorkingCopy, OwnCopy, Text
    <3>3. CASE ~IsDirty(File) /\ Source = {}
      <4>1. ~IsDirty(Network) /\ (commits[Network] => Text(Network) = Text(File))
        BY <3>3 DEF Source
      <4>2. working' = working /\ follows'[File] = follows[File]
            /\ follows'[Network] = follows[Network]
        BY <3>3, <2>3 DEF Added
      <4>3. Text(Network) = Text(File) \/ apart'
        BY <4>1, <2>1, <2>2 DEF Text
      <4> QED
        BY <3>3, <4>1, <4>2, <4>3, <1>1 DEF Agree, Circular, IsDirty, WorkingCopy, OwnCopy, Text
    <3> QED
      BY <3>1, <3>2, <3>3 DEF Source
  <2> QED
    BY <1>1, <2>2, <2>4 DEF TextsExact, BoundFilesAgree, Agree
<1> QED
  BY <1>2, <1>3

LEMMA TextsStep ==
    ASSUME TypeOK, BindingExact, TextsExact, Next
    PROVE  TextsExact'
<1> USE TypeParts
<1>1. ASSUME NEW c \in Codes, NEW x \in Contents, Edit(c, x), UNCHANGED stage
      PROVE  TextsExact'
  <2>1. UNCHANGED <<content, commits, loaded, bound, stage, apart>>
        /\ working' = [working EXCEPT ![c] = x]
        /\ follows' = [d \in Codes |-> d # c /\ (bound # 0 \/ follows[d])]
    BY <1>1 DEF Edit, SetWorkingCopy, loading
  <2>2. CASE bound = 0
    BY <2>1, <2>2 DEF TextsExact, BoundFilesAgree
  <2>3. CASE bound # 0
    <3>1. Agree'
      BY <2>1, <2>3, FilesAssumption
         DEF Agree, TextsType, Codes, Network, File, Other, None, IsDirty, WorkingCopy, OwnCopy,
             Circular, Text
    <3> QED
      BY <2>1, <3>1 DEF TextsExact, BoundFilesAgree, Agree
  <2> QED
    BY <2>2, <2>3
<1>2. ASSUME NEW c \in Codes, Revert(c), UNCHANGED stage
      PROVE  TextsExact'
  <2>1. /\ UNCHANGED <<content, loaded, bound, stage>>
        /\ working' = [d \in Codes |-> IF d \in Reached(c) THEN None ELSE working[d]]
        /\ follows' = [d \in Codes |-> follows[d] /\ d \notin Reached(c)]
        /\ apart' = (apart \/ (bound # 0 /\ content[Network] # content[File]))
    BY <1>2 DEF Revert, ResetWorkingCopy, loading
  <2>2. CASE bound = 0
    BY <2>1, <2>2 DEF TextsExact, BoundFilesAgree
  <2>3. CASE bound # 0
    <3>1. Agree'
      BY <2>1, <2>3 DEF Agree, Reached, Codes, Network, File, Other, IsDirty, WorkingCopy, OwnCopy,
             Circular, Text
    <3> QED
      BY <2>1, <3>1 DEF TextsExact, BoundFilesAgree, Agree
  <2> QED
    BY <2>2, <2>3
<1>3. ASSUME NEW c \in Codes, CommitWorkingCopy(c), UNCHANGED stage
      PROVE  TextsExact'
  BY <1>3, WorkingCopyType, CommitTexts DEF CommitWorkingCopy, CommitAndWrite
<1>4. ASSUME NEW c \in Codes, ReadWorkingCopy(c), UNCHANGED stage
      PROVE  TextsExact'
  <2>1. UNCHANGED <<content, commits, loaded, bound, stage, apart>> /\ follows[c] /\ ~Circular
        /\ working' = [working EXCEPT ![c] = WorkingCopy(c)]
        /\ follows' = [follows EXCEPT ![c] = FALSE]
    BY <1>4 DEF ReadWorkingCopy, loading
  <2>2. WorkingCopy(c) = OwnCopy(Other(c)) /\ WorkingCopy(c) # None
    BY <2>1, WorkingCopyType, FilesAssumption DEF WorkingCopy, None
  <2>3. Agree => Agree'
    BY <2>1, <2>2 DEF Agree, TextsType, Codes, Network, File, Other, IsDirty, WorkingCopy, OwnCopy,
             Circular, Text
  <2> QED
    BY <2>1, <2>3 DEF TextsExact, BoundFilesAgree, Agree
<1>5. ASSUME NEW x \in Contents, AddRevision(x), UNCHANGED stage
      PROVE  TextsExact'
  BY <1>5, CommitTexts DEF AddRevision, CommitAndWrite, Codes
<1>6. CASE ContentChecked /\ UNCHANGED stage
  <2>1. operations[1].text \in Contents /\ UNCHANGED <<bound, stage>>
    BY <1>6 DEF ContentChecked, Answered, QueueType, Operations
  <2> QED
    BY <1>6, <2>1, CommitTexts, TextsKept DEF ContentChecked, Codes
<1>7. ASSUME NEW accept \in BOOLEAN, Confirm(accept), UNCHANGED stage
      PROVE  TextsExact'
  <2>1. dialogs[1] \in Contents /\ UNCHANGED <<bound, stage>>
    BY <1>7 DEF Confirm, QueueType
  <2> QED
    BY <1>7, <2>1, CommitTexts, TextsKept DEF Confirm, Codes
<1>8. CASE FileLoaded
  <2>1. /\ UNCHANGED <<working, follows, bound, stage, apart>> /\ loaded'
        /\ \A d \in Codes : d = Network \/ loaded => content'[d] = content[d]
    BY <1>8 DEF FileLoaded, ContentLoaded, TextsType, Network, File
  <2>2. CASE loaded
    <3>1. loaded' = loaded
      BY <1>8, <2>2 DEF FileLoaded, ContentLoaded, FieldsType
    <3>2. UNCHANGED texts
      BY <1>8, <2>2 DEF FileLoaded, ContentLoaded, texts
    <3> QED
      BY <2>1, <3>1, <3>2, TextsKept
  <2>3. CASE ~loaded /\ bound # 0 /\ stage[bound] = "over"
    <3>1. apart /\ Agree
      BY <2>3 DEF TextsExact, BoundFilesAgree, Agree
    <3>2. Agree'
      BY <3>1, <2>1 DEF Agree, TextsType, Codes, Network, File, Other, IsDirty, WorkingCopy,
         OwnCopy, Circular, Text
    <3> QED
      BY <2>1, <3>2 DEF TextsExact, BoundFilesAgree, Agree, Codes
  <2>4. CASE bound = 0 \/ stage[bound] # "over"
    BY <2>1, <2>4 DEF TextsExact, BoundFilesAgree, Codes
  <2> QED
    BY <2>2, <2>3, <2>4
<1>9. ASSUME NEW i \in Attempts, Added(i)
      PROVE  TextsExact'
  BY <1>9, AddedTexts
<1>10. CASE /\ \/ Compared \/ RequestContent \/ ReadFile \/ ReadFails \/ WriteFile \/ WriteFails
               \/ FileChanged \/ CheckFailed \/ (\E x \in Contents : ChangedOutside(x))
            /\ UNCHANGED stage
  <2>1. UNCHANGED <<texts, loaded, apart, bound>>
    BY <1>10 DEF Compared, RequestContent, ReadFile, ReadFails, WriteFile, WriteFails, FileChanged,
       CheckFailed, ChangedOutside, loading
  <2> QED
    BY <1>10, <2>1, TextsKept
<1>11. CASE \/ Sweep \/ ScheduleRemap \/ RemoveNetwork \/ RemoveFile
            \/ \E i \in Attempts : Located(i) \/ Validated(i)
  <2>1. UNCHANGED <<texts, loaded, apart>>
    BY <1>11 DEF Sweep, ScheduleRemap, RemoveNetwork, RemoveFile, Located, Validated, fileVars,
       loading
  <2>2. bound' # 0 /\ stage'[bound'] = "over" => bound # 0 /\ stage[bound] = "over"
    <3>1. CASE Sweep
      BY <3>1 DEF Sweep, fileVars, BindingType
    <3>2. CASE ScheduleRemap \/ RemoveNetwork \/ RemoveFile
      BY <3>2 DEF ScheduleRemap, RemoveNetwork, ClearNetworkStatus, RemoveFile
    <3>3. ASSUME NEW i \in Attempts, Located(i) \/ Validated(i)
          PROVE  bound' # 0 /\ stage'[bound'] = "over" => bound # 0 /\ stage[bound] = "over"
      <4>1. stage[i] \in {"locating", "reading"}
        BY <3>3 DEF Located, Validated
      <4>2. CASE Bind(i)
        BY <4>2 DEF Bind, BindingType
      <4>3. CASE bound' = bound /\ \E x : stage' = [stage EXCEPT ![i] = x]
        BY <4>1, <4>3 DEF BindingType, BindingExact
      <4> QED
        BY <3>3, <4>2, <4>3 DEF Located, Validated, GiveUp
    <3> QED
      BY <1>11, <3>1, <3>2, <3>3
  <2> QED
    BY <2>1, <2>2, TextsKept
<1> QED
  BY <1>1, <1>2, <1>3, <1>4, <1>5, <1>6, <1>7, <1>8, <1>9, <1>10, <1>11
     DEF Next, FilesNext, mapVars

--------------------------------------------------------------------------------
(* The mark of the script. *)

LEMMA MarkUpdated ==
    ASSUME TypeOK, TextsExact', UpdateModifiedState
    PROVE  MarkExact'
<1> DEFINE overtaken == {[p EXCEPT !.current = FALSE] : p \in comparing}
           new == [text |-> Text(Network)', current |-> TRUE]
<1>1. \A p \in overtaken : ~p.current
  BY TypeParts DEF DiffType
<1>2. Text(Network)' = content'[Network]
  BY DEF Text, TextsExact
<1>3. CASE IsDirty(Network)'
  BY <1>1, <1>3 DEF UpdateModifiedState, MarkExact
<1>4. CASE ~IsDirty(Network)' /\ ~commits'[Network]
  BY <1>1, <1>4 DEF UpdateModifiedState, MarkExact
<1>5. CASE ~IsDirty(Network)' /\ commits'[Network]
  <2>1. comparing' = overtaken \cup {new}
    BY <1>5 DEF UpdateModifiedState
  <2>2. new \in comparing' /\ new.current /\ new.text = content'[Network]
    BY <2>1, <1>2
  <2>3. \A p \in comparing' : p.current => p.text = content'[Network]
    BY <1>1, <2>1, <2>2
  <2> QED
    BY <1>5, <2>2, <2>3 DEF MarkExact
<1> QED
  BY <1>3, <1>4, <1>5

LEMMA MarkKept ==
    ASSUME MarkExact, UNCHANGED diff, IsDirty(Network)' <=> IsDirty(Network),
           content'[Network] = content[Network], commits'[Network] = commits[Network]
    PROVE  MarkExact'
<1> QED
  BY DEF MarkExact, diff

(* What changes the texts of c keeps the mark, or makes it anew. *)
LEMMA MarkChanges ==
    ASSUME TypeOK, TypeOK', TextsExact', MarkExact, NEW c \in Codes, NetworkChanges(c),
           Network \notin Reached(c) => /\ IsDirty(Network)' <=> IsDirty(Network)
                                        /\ content'[Network] = content[Network]
                                        /\ commits'[Network] = commits[Network]
    PROVE  MarkExact'
<1> QED
  BY MarkUpdated, MarkKept DEF NetworkChanges

LEMMA MarkCommitted ==
    ASSUME TypeOK, TypeOK', TextsExact', MarkExact, NEW c \in Codes, NEW x, Commit(c, x)
    PROVE  MarkExact'
<1>1. Network \notin Reached(c) => /\ IsDirty(Network)' <=> IsDirty(Network)
                                   /\ content'[Network] = content[Network]
                                   /\ commits'[Network] = commits[Network]
  BY TypeParts DEF Commit, IsDirty, Codes, TextsType
<1> QED
  BY <1>1, MarkChanges DEF Commit

LEMMA ModifiedStep ==
    ASSUME TypeOK, TypeOK', TextsExact', ModifiedExact, Next
    PROVE  ModifiedExact'
<1> USE TypeParts
<1> SUFFICES ASSUME MarkExact, Network \in present'
             PROVE  MarkExact'
  <2>1. present' \subseteq present
    BY DEF Next, FilesNext, Edit, Revert, CommitWorkingCopy, AddRevision, ReadWorkingCopy, Compared,
       RequestContent, ReadFile, ReadFails, WriteFile, WriteFails, FileLoaded, ContentLoaded,
       FileChanged, CheckFailed, ContentChecked, Confirm, ChangedOutside, Sweep, Located, Validated,
       ScheduleRemap, RemoveNetwork, RemoveFile, Added, fileVars
  <2> QED
    BY <2>1 DEF ModifiedExact
<1>1. ASSUME NEW c \in Codes, NEW x \in Contents, Edit(c, x)
      PROVE  MarkExact'
  <2>1. Network \notin Reached(c) => (IsDirty(Network)' <=> IsDirty(Network))
    BY <1>1 DEF Edit, SetWorkingCopy, Reached, IsDirty, Codes, Network, File, TextsType
  <2> QED
    BY <1>1, <2>1, MarkChanges DEF Edit, SetWorkingCopy
<1>2. ASSUME NEW c \in Codes, Revert(c)
      PROVE  MarkExact'
  <2>1. Network \notin Reached(c) => (IsDirty(Network)' <=> IsDirty(Network))
    BY <1>2 DEF Revert, ResetWorkingCopy, IsDirty, Codes
  <2> QED
    BY <1>2, <2>1, MarkChanges DEF Revert, ResetWorkingCopy
<1>3. ASSUME NEW c \in Codes, CommitWorkingCopy(c)
      PROVE  MarkExact'
  BY <1>3, MarkCommitted DEF CommitWorkingCopy, CommitAndWrite
<1>4. ASSUME NEW c \in Codes, ReadWorkingCopy(c)
      PROVE  MarkExact'
  <2>1. IsDirty(Network)' <=> IsDirty(Network)
    BY <1>4, WorkingCopyType, FilesAssumption DEF ReadWorkingCopy, IsDirty, TextsType, None, Codes
  <2> QED
    BY <1>4, <2>1, MarkKept DEF ReadWorkingCopy
<1>5. ASSUME NEW x \in Contents, AddRevision(x)
      PROVE  MarkExact'
  BY <1>5, MarkCommitted DEF AddRevision, CommitAndWrite, Codes
<1>6. CASE Compared
  <2> PICK p \in comparing : /\ comparing' = comparing \ {p}
                             /\ modified' = IF p.current THEN p.text # Original ELSE modified
                             /\ UNCHANGED texts
    BY <1>6 DEF Compared
  <2>1. UNCHANGED <<content, commits>> /\ (IsDirty(Network)' <=> IsDirty(Network))
    BY DEF texts, IsDirty
  <2>2. CASE p.current
    <3>1. ~IsDirty(Network) /\ commits[Network] /\ p.text = content[Network]
      BY <2>2 DEF MarkExact
    <3>2. ASSUME NEW q \in comparing', q.current
          PROVE  FALSE
      <4>1. q.text = p.text /\ q.current = p.current
        BY <2>2, <3>1, <3>2 DEF MarkExact, DiffType
      <4>2. \A r \in comparing : r = [text |-> r.text, current |-> r.current]
        BY DEF DiffType
      <4>3. q = p
        BY <4>1, <4>2, <3>2
      <4> QED
        BY <4>3, <3>2
    <3> QED
      BY <2>1, <2>2, <3>1, <3>2 DEF MarkExact
  <2>3. CASE ~p.current
    BY <2>1, <2>3 DEF MarkExact
  <2> QED
    BY <2>2, <2>3
<1>7. CASE ContentChecked
  BY <1>7, MarkCommitted, MarkKept DEF ContentChecked, Codes, texts, IsDirty
<1>8. ASSUME NEW accept \in BOOLEAN, Confirm(accept)
      PROVE  MarkExact'
  BY <1>8, MarkCommitted, MarkKept DEF Confirm, Codes, texts, IsDirty
<1>9. CASE FileLoaded
  BY <1>9, MarkKept DEF FileLoaded, ContentLoaded, TextsType, IsDirty, Codes, Network, File
<1>10. ASSUME NEW i \in Attempts, Added(i)
       PROVE  MarkExact'
  <2>1. CASE UpdateModifiedState
    BY <2>1, MarkUpdated
  <2>2. CASE UNCHANGED diff /\ (Source = {} \/ (bound = 0 /\ working' = working))
    <3>1. working' = working /\ follows'[Network] = follows[Network]
      BY <1>10, <2>2 DEF Added, Codes, TextsType
    <3> QED
      BY <1>10, <2>2, <3>1, MarkKept DEF Added, IsDirty
  <2> QED
    BY <1>10, <2>1, <2>2 DEF Added
<1>11. CASE \/ RequestContent \/ ReadFile \/ ReadFails \/ WriteFile \/ WriteFails
            \/ FileChanged \/ CheckFailed \/ (\E x \in Contents : ChangedOutside(x))
            \/ Sweep \/ ScheduleRemap \/ RemoveFile
            \/ \E i \in Attempts : Located(i) \/ Validated(i)
  <2>1. UNCHANGED <<texts, diff>>
    BY <1>11 DEF RequestContent, ReadFile, ReadFails, WriteFile, WriteFails, FileChanged,
       CheckFailed, ChangedOutside, Sweep, ScheduleRemap, RemoveFile, Located, Validated, fileVars
  <2> QED
    BY <2>1, MarkKept DEF texts, IsDirty
<1>12. CASE RemoveNetwork
  BY <1>12 DEF RemoveNetwork
<1> QED
  BY <1>1, <1>2, <1>3, <1>4, <1>5, <1>6, <1>7, <1>8, <1>9, <1>10, <1>11, <1>12 DEF Next, FilesNext

--------------------------------------------------------------------------------
(* The file follows the disk. *)

(* What waits in the queue stays there while another operation is added, ... *)
LEMMA AppendKeeps ==
    ASSUME TypeOK, NEW op \in Unread \cup Writes, operations' = Append(operations, op)
    PROVE  /\ UnreadCheck => UnreadCheck'
           /\ CheckWaits => CheckWaits'
           /\ WriteWaits => WriteWaits'
           /\ op = [kind |-> "check", text |-> None] => UnreadCheck' /\ CheckWaits'
           /\ op.kind = "write" => WriteWaits'
           /\ Front' /\ operations'[1] = IF Front THEN operations[1] ELSE op
<1>1. operations \in Seq(Operations) /\ op \in Operations
  BY TypeParts DEF QueueType, Unread, Writes, Operations
<1>2. /\ Len(operations') = Len(operations) + 1 /\ operations'[Len(operations) + 1] = op
      /\ \A i \in 1 .. Len(operations) : operations'[i] = operations[i]
      /\ Len(operations) \in Nat /\ (Front <=> Len(operations) > 0) /\ Front'
  BY <1>1 DEF Front
<1>3. /\ UnreadCheck => UnreadCheck'
      /\ CheckWaits => CheckWaits'
      /\ WriteWaits => WriteWaits'
  BY <1>2 DEF UnreadCheck, CheckWaits, WriteWaits
<1>4. /\ op = [kind |-> "check", text |-> None] => UnreadCheck' /\ CheckWaits'
      /\ op.kind = "write" => WriteWaits'
  BY <1>2 DEF UnreadCheck, CheckWaits, WriteWaits
<1>5. operations'[1] = IF Front THEN operations[1] ELSE op
  BY <1>2
<1> QED
  BY <1>2, <1>3, <1>4, <1>5

(* ... the one in front is done with, ... *)
LEMMA TailKeeps ==
    ASSUME TypeOK, Front, operations' = Tail(operations)
    PROVE  /\ UnreadCheck => UnreadCheck' \/ operations[1] = [kind |-> "check", text |-> None]
           /\ CheckWaits => CheckWaits' \/ operations[1].kind = "check"
           /\ WriteWaits => WriteWaits' \/ operations[1].kind = "write"
           /\ Front' /\ operations'[1].kind # "write" => operations'[1].text = None
           /\ Front' => operations'[1].text # Failed
<1>1. operations \in Seq(Operations) /\ operations # <<>>
      /\ \A i \in 2 .. Len(operations) : operations[i].kind # "write" => operations[i].text = None
  BY TypeParts DEF QueueType, Front
<1>2. /\ Len(operations') = Len(operations) - 1 /\ Len(operations) \in Nat \ {0}
      /\ \A i \in 1 .. Len(operations') : operations'[i] = operations[i + 1]
      /\ Front' => 1 \in 1 .. Len(operations')
  BY <1>1 DEF Front
<1>3. \A i \in 1 .. Len(operations) : i = 1 \/ (i - 1 \in 1 .. Len(operations')
                                                /\ operations'[i - 1] = operations[i])
  BY <1>2
<1>4. /\ UnreadCheck => UnreadCheck' \/ operations[1] = [kind |-> "check", text |-> None]
      /\ CheckWaits => CheckWaits' \/ operations[1].kind = "check"
      /\ WriteWaits => WriteWaits' \/ operations[1].kind = "write"
  BY <1>3 DEF UnreadCheck, CheckWaits, WriteWaits
<1>5. Front' /\ operations'[1].kind # "write" => operations'[1].text = None
  BY <1>1, <1>2
<1>6. Front' /\ operations'[1].kind = "write" => operations'[1].text \in Contents
  BY <1>1, <1>2 DEF Operations
<1> QED
  BY <1>4, <1>5, <1>6, FilesAssumption DEF None, Failed

(* ... or it gets its answer. *)
LEMMA AnswerKeeps ==
    ASSUME TypeOK, Reading, NEW x, operations' = [operations EXCEPT ![1].text = x]
    PROVE  /\ UnreadCheck => UnreadCheck' \/ operations[1].kind = "check"
           /\ CheckWaits => CheckWaits'
           /\ operations[1].kind = "check" => CheckWaits'
           /\ Front' /\ operations'[1] = [kind |-> operations[1].kind, text |-> x]
<1>1. operations \in Seq(Operations) /\ operations # <<>>
  BY TypeParts DEF QueueType, Reading
<1>2. operations[1] \in Operations /\ operations[1] \notin [kind : {"write"}, text : Contents]
  BY <1>1, FilesAssumption DEF Reading, None
<1>3. /\ Len(operations') = Len(operations) /\ Len(operations) \in Nat \ {0}
      /\ \A i \in 1 .. Len(operations) : i # 1 => operations'[i] = operations[i]
      /\ operations'[1] = [operations[1] EXCEPT !.text = x] /\ Front'
  BY <1>1 DEF Front
<1>4. operations'[1] = [kind |-> operations[1].kind, text |-> x]
  BY <1>2, <1>3 DEF Operations
<1>5. UnreadCheck => UnreadCheck' \/ operations[1].kind = "check"
  BY <1>3 DEF UnreadCheck
<1>6. CheckWaits => CheckWaits'
  BY <1>3, <1>4 DEF CheckWaits
<1>7. operations[1].kind = "check" => CheckWaits'
  BY <1>3, <1>4 DEF CheckWaits
<1> QED
  BY <1>3, <1>4, <1>5, <1>6, <1>7

(* What leaves the file and the disk alone, whatever it adds to the queue. *)
LEMMA DiskKept ==
    ASSUME TypeOK, DiskExact, UNCHANGED <<loaded, checking, accepted, disk, changed, dialogs, lapses>>,
           content'[File] = content[File], File \in present' => File \in present,
           operations' = operations
               \/ \E op \in Unread \cup Writes : operations' = Append(operations, op)
    PROVE  DiskExact'
<1>1. CASE operations' = operations
  BY <1>1 DEF DiskExact, ToldLater, Missed, Front, UnreadCheck, CheckWaits, WriteWaits
<1>2. ASSUME NEW op \in Unread \cup Writes, operations' = Append(operations, op)
      PROVE  DiskExact'
  <2>1. ToldLater => ToldLater'
    BY <1>2, AppendKeeps DEF ToldLater
  <2>2. operations'[1].text = Failed => Front /\ operations'[1] = operations[1]
    BY <1>2, AppendKeeps, FilesAssumption DEF Unread, Writes, Failed, None
  <2>3. Missed' => Missed /\ operations'[1] = operations[1]
    BY <1>2, AppendKeeps, FilesAssumption DEF Unread, Writes, Missed, Front
  <2>4. (UnreadCheck => UnreadCheck') /\ (CheckWaits => CheckWaits')
    BY <1>2, AppendKeeps
  <2> QED
    BY <2>1, <2>2, <2>3, <2>4 DEF DiskExact
<1> QED
  BY <1>1, <1>2

(* A content that is to be written will be told of. *)
LEMMA WrittenIsTold ==
    ASSUME TypeOK, DiskExact, UNCHANGED <<checking, disk, changed, dialogs, lapses>>,
           NEW x \in Contents, operations' = Append(operations, [kind |-> "write", text |-> x])
    PROVE  DiskExact'
<1> DEFINE op == [kind |-> "write", text |-> x]
<1>1. op \in Unread \cup Writes
  BY DEF Writes
<1>2. WriteWaits' /\ ToldLater'
  BY <1>1, AppendKeeps DEF ToldLater
<1>3. operations'[1].text = Failed => Front /\ operations'[1] = operations[1]
  BY <1>1, AppendKeeps, FilesAssumption DEF Failed
<1>4. Missed' => Missed /\ operations'[1] = operations[1]
  BY <1>1, AppendKeeps DEF Missed, Front
<1>5. (UnreadCheck => UnreadCheck') /\ (CheckWaits => CheckWaits')
  BY <1>1, AppendKeeps
<1> QED
  BY <1>2, <1>3, <1>4, <1>5 DEF DiskExact

LEMMA CommittedIsTold ==
    ASSUME TypeOK, DiskExact, NEW c \in Codes, NEW x \in Contents, CommitAndWrite(c, x),
           UNCHANGED <<checking, disk, changed, dialogs, lapses, present>>
    PROVE  DiskExact'
<1>1. CASE File \in Reached(c)
  BY <1>1, WrittenIsTold DEF CommitAndWrite
<1>2. CASE File \notin Reached(c)
  BY <1>2, DiskKept DEF CommitAndWrite, Commit, Codes
<1> QED
  BY <1>1, <1>2

(* The front of the queue is done: when its answer was the disk's content, the   *)
(* file knows.                                                                   *)
LEMMA TailTold ==
    ASSUME TypeOK, DiskExact, Front, operations[1].kind # "write", operations[1].text # None,
           operations' = Tail(operations), UNCHANGED <<disk, changed, lapses>>,
           checking' => checking /\ (operations[1].kind # "check" \/ operations[1].text = Failed),
           loaded' /\ lapses = {} /\ File \in present' /\ ~changed /\ ~UnreadCheck' =>
               ToldLater' \/ content'[File] = disk' \/ accepted' = disk'
    PROVE  DiskExact'
<1>1. Front' /\ operations'[1].kind # "write" => operations'[1].text = None
  BY TailKeeps
<1>2. ~(Front' /\ operations'[1].text = Failed) /\ ~Missed'
  BY TailKeeps DEF Missed, Front
<1>3. checking' => CheckWaits' \/ "failed" \in lapses'
  BY TailKeeps DEF DiskExact
<1>4. loaded' /\ File \in present' /\ lapses' = {}
          => ToldLater' \/ content'[File] = disk' \/ accepted' = disk'
  BY DEF ToldLater
<1> QED
  BY <1>2, <1>3, <1>4 DEF DiskExact

(* An answer that is not the disk's content is followed by another check. *)
LEMMA AnswerIsDisk ==
    ASSUME TypeOK, DiskExact, Front, operations[1].kind # "write", operations[1].text # None,
           operations' = Tail(operations), lapses = {}, ~changed, ~UnreadCheck'
    PROVE  operations[1].text = disk
<1>1. operations[1].text # Failed
  BY DEF DiskExact
<1>2. ~UnreadCheck
  BY TailKeeps
<1> QED
  BY <1>1, <1>2 DEF DiskExact, Missed, Front

(* A read takes what the disk has, or fails. *)
LEMMA ReadTold ==
    ASSUME TypeOK, DiskExact, ReadFile \/ ReadFails
    PROVE  DiskExact'
<1> USE TypeParts, FilesAssumption
<1>1. CASE ReadFile
  <2>1. operations' = [operations EXCEPT ![1].text = disk] /\ Reading
        /\ UNCHANGED <<content, loaded, checking, accepted, disk, changed, dialogs, present>>
        /\ lapses' = IF operations[1].kind = "check" THEN {} ELSE lapses
    BY <1>1 DEF ReadFile, texts, loading
  <2>2. operations'[1] = [kind |-> operations[1].kind, text |-> disk] /\ Front'
    BY <2>1, AnswerKeeps
  <2>3. ~Missed' /\ operations'[1].text # Failed
    BY <2>1, <2>2 DEF Missed, DiskType, Failed
  <2>4. CheckWaits => CheckWaits'
    BY <2>1, AnswerKeeps
  <2>5. operations[1].kind = "check" => ToldLater' /\ CheckWaits'
    BY <2>1, <2>2, AnswerKeeps DEF ToldLater
  <2>6. operations[1].kind # "check" /\ ToldLater => ToldLater'
    <3>1. UnreadCheck /\ operations[1].kind # "check" => UnreadCheck'
      BY <2>1, AnswerKeeps
    <3>2. WriteWaits => WriteWaits'
      <4>1. \A i \in 1 .. Len(operations) : i # 1 => operations'[i] = operations[i]
        BY <2>1 DEF QueueType
      <4>2. operations[1].kind # "write"
        BY <2>1 DEF Reading, QueueType, Operations, None
      <4>3. Len(operations') = Len(operations)
        BY <2>1 DEF QueueType
      <4> QED
        BY <4>1, <4>2, <4>3 DEF WriteWaits
    <3> QED
      BY <2>1, <3>1, <3>2 DEF ToldLater
  <2> QED
    BY <2>1, <2>3, <2>4, <2>5, <2>6 DEF DiskExact
<1>2. CASE ReadFails
  <2>1. operations' = [operations EXCEPT ![1].text = Failed] /\ Reading /\ "failed" \in lapses'
    BY <1>2 DEF ReadFails
  <2>2. operations'[1] = [kind |-> operations[1].kind, text |-> Failed]
    BY <2>1, AnswerKeeps
  <2> QED
    BY <2>1, <2>2 DEF DiskExact, Missed
<1> QED
  BY <1>1, <1>2

LEMMA WriteTold ==
    ASSUME TypeOK, DiskExact, WriteFile \/ WriteFails
    PROVE  DiskExact'
<1> USE TypeParts
<1>1. Front /\ operations[1].kind = "write" /\ operations' = Tail(operations)
      /\ UNCHANGED checking
  BY DEF WriteFile, WriteFails, Writing, Front, loading
<1>2. ~(Front' /\ operations'[1].text = Failed) /\ ~Missed'
  BY <1>1, TailKeeps DEF Missed, Front
<1>3. CheckWaits => CheckWaits'
  BY <1>1, TailKeeps
<1>4. CASE WriteFile
  <2>1. changed' /\ lapses' = lapses
    BY <1>4 DEF WriteFile
  <2> QED
    BY <1>1, <1>2, <1>3, <2>1 DEF DiskExact, ToldLater
<1>5. CASE WriteFails
  BY <1>1, <1>2, <1>5 DEF WriteFails, DiskExact
<1> QED
  BY <1>4, <1>5

(* The content that was asked for is there. *)
LEMMA LoadTold ==
    ASSUME TypeOK, DiskExact, ContentLoaded
    PROVE  DiskExact'
<1> USE TypeParts
<1>1. /\ Front /\ operations[1].kind = "load" /\ operations[1].text # None
      /\ operations' = Tail(operations)
      /\ UNCHANGED <<accepted, checking, disk, changed, dialogs, present, lapses>>
      /\ content' = IF loaded THEN content
                    ELSE [content EXCEPT ![File] = IF operations[1].text = Failed THEN None
                                                                             ELSE operations[1].text]
  BY DEF ContentLoaded, Answered, Front
<1>2. ASSUME lapses = {}, File \in present', ~changed, ~UnreadCheck'
      PROVE  ToldLater' \/ content'[File] = disk' \/ accepted' = disk'
  <2>1. operations[1].text = disk /\ disk # Failed
    BY <1>1, <1>2, AnswerIsDisk, FilesAssumption DEF DiskType, Failed
  <2>2. CASE loaded
    <3>1. ToldLater \/ content[File] = disk \/ accepted = disk
      BY <1>1, <1>2, <2>2 DEF DiskExact
    <3>2. ToldLater => ToldLater'
      BY <1>1, TailKeeps DEF ToldLater
    <3> QED
      BY <1>1, <2>2, <3>1, <3>2
  <2>3. CASE ~loaded
    BY <1>1, <2>1, <2>3 DEF TextsType, Codes
  <2> QED
    BY <2>2, <2>3
<1> QED
  BY <1>1, <1>2, TailTold

(* The check is over. *)
LEMMA CheckTold ==
    ASSUME TypeOK, DiskExact, CheckFailed \/ ContentChecked
    PROVE  DiskExact'
<1> USE TypeParts
<1>1. /\ Front /\ operations[1].kind = "check" /\ operations[1].text # None
      /\ operations' = Tail(operations)
      /\ UNCHANGED <<disk, changed, present, lapses>>
  BY DEF CheckFailed, ContentChecked, Answered, Front
<1>2. CASE CheckFailed
  <2>1. operations[1].text = Failed /\ UNCHANGED checking
    BY <1>2 DEF CheckFailed, loading
  <2>2. lapses # {}
    BY <1>1, <2>1 DEF DiskExact
  <2> QED
    BY <1>1, <2>1, <2>2, TailTold
<1>3. CASE ContentChecked
  <2>1. ~checking' /\ operations[1].text # Failed
    BY <1>3 DEF ContentChecked
  <2>2. ASSUME lapses = {}, ~changed, ~UnreadCheck'
        PROVE  ToldLater' \/ content'[File] = disk' \/ accepted' = disk'
    <3>1. operations[1].text = disk
      BY <1>1, <2>2, AnswerIsDisk
    <3>2. CASE accepted = disk /\ accepted' = accepted
      BY <1>1, <3>2
    <3>3. CASE content[File] = disk /\ UNCHANGED texts
      BY <1>1, <3>3 DEF texts
    <3>4. CASE Commit(File, disk)
      BY <1>1, <3>4 DEF Commit, Codes, Reached
    <3>5. CASE dialogs' = Append(dialogs, disk)
      <4>1. dialogs' # <<>> /\ dialogs'[Len(dialogs')] = disk
        BY <3>5 DEF QueueType
      <4> QED
        BY <1>1, <4>1 DEF ToldLater
    <3> QED
      BY <1>3, <3>1, <3>2, <3>3, <3>4, <3>5 DEF ContentChecked
  <2> QED
    BY <1>1, <2>1, <2>2, TailTold
<1> QED
  BY <1>2, <1>3

(* A notification starts a check, unless the file need not know, is being       *)
(* checked anyway, or something is missed.                                       *)
LEMMA NotifiedTold ==
    ASSUME TypeOK, DiskExact, FileChanged
    PROVE  DiskExact'
<1> USE TypeParts
<1>1. UNCHANGED <<texts, loaded, accepted, disk, dialogs, present>>
  BY DEF FileChanged
<1>2. CASE File \in present /\ (loaded \/ forceLoad) /\ ~checking
  <2> DEFINE op == [kind |-> "check", text |-> None]
  <2>1. op \in Unread \cup Writes /\ operations' = Append(operations, op)
    BY <1>2 DEF FileChanged, Unread
  <2>2. UnreadCheck' /\ CheckWaits'
    BY <2>1, AppendKeeps
  <2>3. Front' /\ operations'[1] = IF Front THEN operations[1] ELSE op
    BY <2>1, AppendKeeps
  <2>4. operations'[1].text = Failed => "failed" \in lapses'
    BY <1>2, <2>3, FilesAssumption DEF FileChanged, DiskExact, Failed, None
  <2> QED
    BY <2>2, <2>4 DEF DiskExact, ToldLater
<1>3. CASE ~(File \in present /\ (loaded \/ forceLoad) /\ ~checking)
  <2>1. /\ lapses' = IF Missed THEN lapses \cup {"missed"} ELSE lapses
        /\ UNCHANGED <<checking, operations>>
    BY <1>3 DEF FileChanged
  <2>2. Missed' <=> Missed
    BY <1>1, <2>1 DEF Missed
  <2>3. (CheckWaits' <=> CheckWaits) /\ (UnreadCheck' <=> UnreadCheck)
    BY <2>1 DEF CheckWaits, UnreadCheck
  <2>4. ASSUME loaded, File \in present, lapses' = {}
        PROVE  ToldLater' \/ content[File] = disk \/ accepted = disk
    <3>1. CheckWaits /\ ~Missed /\ lapses = {}
      BY <1>3, <2>1, <2>4 DEF DiskExact
    <3>2. PICK i \in 1 .. Len(operations) : operations[i].kind = "check"
      BY <3>1 DEF CheckWaits
    <3>3. operations[i] \in Operations /\ operations # <<>>
      BY <3>2 DEF QueueType
    <3>4. operations[i] = [kind |-> "check", text |-> operations[i].text]
      BY <3>2, <3>3 DEF Operations
    <3>5. CASE operations[i].text = None
      BY <3>2, <3>4, <3>5, <2>3 DEF UnreadCheck, ToldLater
    <3>6. CASE operations[i].text # None
      <4>1. i = 1
        BY <3>2, <3>6 DEF QueueType
      <4>2. operations[1].text = disk
        BY <3>2, <3>3, <3>6, <3>1, <4>1 DEF Missed
      <4> QED
        BY <3>3, <3>4, <4>1, <4>2, <1>1, <2>1 DEF ToldLater, Front
    <3> QED
      BY <3>5, <3>6
  <2> QED
    BY <1>1, <2>1, <2>2, <2>3, <2>4 DEF DiskExact, Front, texts
<1> QED
  BY <1>2, <1>3

(* An answer of the user either is about the disk as it is, or leaves a later     *)
(* question open, or the disk is lost sight of.                                  *)
LEMMA ConfirmedTold ==
    ASSUME TypeOK, DiskExact, NEW accept \in BOOLEAN, Confirm(accept)
    PROVE  DiskExact'
<1> USE TypeParts
<1>1. UNCHANGED <<checking, disk, operations, changed, present>>
      /\ dialogs # <<>> /\ dialogs' = Tail(dialogs)
  BY DEF Confirm
<1>2. ASSUME lapses' = {}, File \in present, loaded'
      PROVE  ToldLater' \/ content'[File] = disk \/ accepted' = disk
  <2>1. lapses = {} /\ (dialogs[1] = disk \/ (~accept /\ accepted # disk))
    BY <1>2 DEF Confirm
  <2>2. CASE dialogs[1] = disk
    BY <2>2 DEF Confirm, Commit, Codes, Reached, File
  <2>3. CASE dialogs[1] # disk
    <3>1. UNCHANGED <<content, loaded>> /\ accepted # disk
      BY <2>1, <2>3 DEF Confirm, texts
    <3>2. ToldLater \/ content[File] = disk
      BY <1>2, <2>1, <3>1 DEF DiskExact
    <3>3. dialogs[Len(dialogs)] = disk => dialogs' # <<>> /\ dialogs'[Len(dialogs')] = disk
      BY <1>1, <2>3 DEF QueueType
    <3>4. ToldLater => ToldLater'
      BY <1>1, <3>3 DEF ToldLater, Front, UnreadCheck, WriteWaits
    <3> QED
      BY <3>1, <3>2, <3>4
  <2> QED
    BY <2>2, <2>3
<1>3. lapses \subseteq lapses'
  BY DEF Confirm
<1>4. DiskExact!2' /\ DiskExact!3' /\ DiskExact!4'
  BY <1>1, <1>3 DEF DiskExact, Missed, Front, UnreadCheck, CheckWaits
<1> QED
  BY <1>1, <1>2, <1>4 DEF DiskExact

LEMMA DiskStep ==
    ASSUME TypeOK, DiskExact, Next
    PROVE  DiskExact'
<1> USE TypeParts
<1>1. ASSUME NEW c \in Codes, CommitWorkingCopy(c)
      PROVE  DiskExact'
  BY <1>1, WorkingCopyType, CommittedIsTold DEF CommitWorkingCopy
<1>2. ASSUME NEW x \in Contents, AddRevision(x)
      PROVE  DiskExact'
  BY <1>2, CommittedIsTold DEF AddRevision, Codes
<1>3. CASE \/ (\E c \in Codes, x \in Contents : Edit(c, x))
           \/ (\E c \in Codes : Revert(c) \/ ReadWorkingCopy(c))
  <2>1. UNCHANGED <<content, loading, disk, operations, changed, dialogs, lapses, present>>
    BY <1>3 DEF Edit, SetWorkingCopy, Revert, ResetWorkingCopy, ReadWorkingCopy
  <2> QED
    BY <2>1, DiskKept DEF loading
<1>4. CASE Compared
  BY <1>4, DiskKept DEF Compared, loading, texts
<1>5. CASE RequestContent
  <2>1. \E op \in Unread \cup Writes : operations' = Append(operations, op)
    BY <1>5 DEF RequestContent, WithRequest, Unread
  <2> QED
    BY <1>5, <2>1, DiskKept DEF RequestContent, texts
<1>6. CASE \E x \in Contents : ChangedOutside(x)
  <2>1. changed' /\ UNCHANGED <<lapses, operations, checking>>
    BY <1>6 DEF ChangedOutside, loading
  <2> QED
    BY <2>1 DEF DiskExact, ToldLater, Front, CheckWaits
<1>7. CASE \E i \in Attempts : Located(i)
  <2>1. operations' = operations
        \/ \E op \in Unread \cup Writes : operations' = Append(operations, op)
    BY <1>7 DEF Located, WithRequest, Unread
  <2> QED
    BY <1>7, <2>1, DiskKept DEF Located, texts
<1>8. CASE \/ Sweep \/ ScheduleRemap \/ RemoveNetwork \/ RemoveFile
           \/ \E i \in Attempts : Validated(i) \/ Added(i)
  <2>1. UNCHANGED <<content, loading, disk, operations, changed, dialogs, lapses>>
        /\ present' \subseteq present
    BY <1>8 DEF Sweep, ScheduleRemap, RemoveNetwork, RemoveFile, Validated, Added, fileVars, texts
  <2> QED
    BY <2>1, DiskKept DEF loading
<1> QED
  BY <1>1, <1>2, <1>3, <1>4, <1>5, <1>6, <1>7, <1>8, ReadTold, WriteTold, LoadTold, CheckTold,
     NotifiedTold, ConfirmedTold DEF Next, FilesNext, FileLoaded

--------------------------------------------------------------------------------
(* The theorems. *)

(* At the start the script is open and the file is not. *)
LEMMA InvInit == Init => IInv
<1> SUFFICES ASSUME Init PROVE IInv
  OBVIOUS
<1> USE FilesAssumption, AttemptsAssumption DEF Init, FilesInit, None, Codes, Network, File
<1>1. TextsType /\ QueueType
  BY DEF TextsType, QueueType
<1>2. FieldsType /\ DiskType /\ DiffType
  BY DEF FieldsType, DiskType, DiffType
<1>3. BindingType
  <2>1. fromSourceMap \in BOOLEAN /\ sweepScheduled \in BOOLEAN /\ late \in BOOLEAN
    OBVIOUS
  <2>2. /\ stage \in [Attempts -> {"new", "locating", "reading", "adding", "over"}]
        /\ fileText \in [Attempts -> Contents \cup {None, Pending}]
    BY DEF Pending
  <2> QED
    BY <2>1, <2>2 DEF BindingType
<1>4. BindingExact /\ TextsExact
  BY DEF BindingExact, BindingsAreLive, TextsExact, BoundFilesAgree
<1>5. ModifiedExact
  BY DEF ModifiedExact, MarkExact, IsDirty
<1>6. DiskExact
  BY DEF DiskExact, Missed, Front
<1> QED
  BY <1>1, <1>2, <1>3, <1>4, <1>5, <1>6, TypeParts DEF IInv

LEMMA InvStep == IInv /\ [Next]_vars => IInv'
<1> SUFFICES ASSUME IInv, [Next]_vars PROVE IInv'
  OBVIOUS
<1> USE DEF IInv
<1>1. CASE Next
  BY <1>1, TypeStep, BindingStep, TextsStep, ModifiedStep, DiskStep
<1>2. CASE UNCHANGED vars
  <2> USE DEF vars, fileVars, mapVars, texts, loading, diff
  <2>1. TypeOK'
    BY <1>2 DEF TypeOK, FilesTypeOK
  <2>2. BindingExact'
    BY <1>2 DEF BindingExact, BindingsAreLive
  <2>3. TextsExact'
    BY <1>2, TextsKept
  <2>4. ModifiedExact'
    BY <1>2, MarkKept DEF ModifiedExact, IsDirty
  <2>5. DiskExact'
    BY <1>2, DiskKept
  <2> QED
    BY <2>1, <2>2, <2>3, <2>4, <2>5
<1> QED
  BY <1>1, <1>2

(* Whatever the user, other programs and the page do, the invariant holds. *)
THEOREM Invariance == SafeSpec => []IInv
<1> QED
  BY InvInit, InvStep, PTL DEF SafeSpec

(* The state has its shape, and a binding is one of codes that are there: an attempt *)
(* of Automapping that was called off binds nothing when its promise settles.        *)
THEOREM BindingsAreOfLiveFiles == SafeSpec => []Consistent
<1>1. IInv => Consistent
  BY DEF IInv, BindingExact, Consistent
<1> QED
  BY <1>1, Invariance, PTL

(* Two files that are bound are dirty together and have one working copy and one      *)
(* content, but for those that were apart when they were bound: PersistenceImpl       *)
(* carries every edit, commit and reset over.                                         *)
THEOREM BoundTogether == SafeSpec => []BoundFilesAgree
<1>1. IInv => BoundFilesAgree
  BY DEF IInv, TextsExact
<1> QED
  BY <1>1, Invariance, PTL

(* The mark of WorkspaceDiff is right once the comparison that counts has ended.      *)
THEOREM MarkIsTrue == SafeSpec => []ModifiedIsTrue
<1>1. IInv => ModifiedIsTrue
  BY DEF IInv, ModifiedExact, MarkExact, ModifiedIsTrue
<1> QED
  BY <1>1, Invariance, PTL

(* When all is quiet the file is what the disk has, or the user refused just that,    *)
(* unless a change was lost sight of since the last check.                            *)
THEOREM FileFollowsDisk == SafeSpec => []DiskFollowed
<1>1. IInv => DiskFollowed
  BY DEF IInv, DiskExact, ToldLater, Front, UnreadCheck, WriteWaits, DiskFollowed, Quiet
<1> QED
  BY <1>1, Invariance, PTL

(* A content that is committed without being asked for is what was typed.             *)
LEMMA CommitKeeps ==
    ASSUME IInv, NEW c \in Codes, NEW d \in Codes, NEW x \in Contents, Commit(d, x),
           UNCHANGED stage, working[c] # None, ~follows[c], ~Circular, ~Shadowed,
           \A i \in Attempts : stage[i] # "adding",
           \/ x = WorkingCopy(d) /\ IsDirty(d)
           \/ d = File /\ (~IsDirty(File) \/ working[File] = x)
    PROVE  ~Lost(c)
<1> USE TypeParts DEF IInv
<1>1. CASE c \notin Reached(d)
  <2>1. working'[c] = working[c] /\ ~follows'[c]
    BY <1>1 DEF Commit
  <2> QED
    BY <2>1 DEF Lost, IsDirty, WorkingCopy, OwnCopy
<1>2. CASE c \in Reached(d)
  <2>1. content'[c] = x
    BY <1>2 DEF Commit
  <2>2. WorkingCopy(c) = working[c] /\ IsDirty(c)
    BY DEF WorkingCopy, OwnCopy, IsDirty
  <2>3. CASE c = d
    <3>1. x = WorkingCopy(d) \/ working[c] = x
      BY <2>2, <2>3
    <3> QED
      BY <2>1, <2>2, <2>3, <3>1 DEF Lost
  <2>4. CASE c # d
    <3>1. bound # 0 /\ stage[bound] = "over"
      BY <1>2, <2>4, AttemptsAssumption DEF Reached, BindingExact, BindingType, Attempts
    <3>2. IsDirty(c) /\ IsDirty(d) /\ WorkingCopy(c) = WorkingCopy(d)
      BY <2>2, <2>4, <3>1 DEF TextsExact, BoundFilesAgree, Codes
    <3>3. CASE x = WorkingCopy(d)
      BY <2>1, <2>2, <3>2, <3>3 DEF Lost
    <3>4. CASE d = File /\ working[File] = x
      <4>1. ~follows[File]
        BY <3>4, FilesAssumption DEF Shadowed, None
      <4>2. WorkingCopy(d) = x
        BY <3>4, <4>1, FilesAssumption DEF WorkingCopy, OwnCopy, None
      <4> QED
        BY <2>1, <2>2, <3>2, <4>2 DEF Lost
    <3> QED
      BY <3>2, <3>3, <3>4
  <2> QED
    BY <2>3, <2>4
<1> QED
  BY <1>1, <1>2

LEMMA UnsavedStep ==
    ASSUME IInv, Next, NEW c \in Codes, Lost(c), ~UserActs, ~Shadowed,
           \A i \in Attempts : stage[i] # "adding"
    PROVE  FALSE
<1> USE TypeParts DEF IInv
<1>1. working[c] # None /\ ~follows[c] /\ WorkingCopy(c) = working[c]
  BY DEF Lost, WorkingCopy, OwnCopy
<1>2. ~(UNCHANGED <<working, follows>>)
  BY <1>1 DEF Lost, IsDirty, WorkingCopy, OwnCopy
<1>3. ASSUME NEW d \in Codes, CommitWorkingCopy(d), UNCHANGED stage
      PROVE  FALSE
  BY <1>1, <1>3, WorkingCopyType, CommitKeeps DEF CommitWorkingCopy, CommitAndWrite
<1>4. ASSUME NEW d \in Codes, ReadWorkingCopy(d)
      PROVE  FALSE
  <2>1. working'[c] = working[c] /\ follows'[c] = follows[c]
    BY <1>1, <1>4 DEF ReadWorkingCopy, TextsType
  <2> QED
    BY <1>1, <2>1 DEF Lost, IsDirty, WorkingCopy, OwnCopy
<1>5. CASE ContentChecked /\ UNCHANGED stage
  <2>1. operations[1].text \in Contents
    BY <1>5 DEF ContentChecked, Answered, QueueType, Operations
  <2>2. Commit(File, operations[1].text) /\ (~IsDirty(File) \/ working[File] = operations[1].text)
    BY <1>2, <1>5 DEF ContentChecked, texts
  <2>3. ~Circular
    BY <1>1 DEF Circular, Codes
  <2> QED
    BY <1>1, <1>5, <2>1, <2>2, <2>3, CommitKeeps DEF Codes
<1>6. ASSUME NEW i \in Attempts
      PROVE  ~Added(i)
  BY DEF Added
<1>7. CASE Confirm(FALSE)
  BY <1>2, <1>7 DEF Confirm, texts
<1>8. CASE \/ Compared \/ RequestContent \/ ReadFile \/ ReadFails \/ WriteFile \/ WriteFails
           \/ FileChanged \/ CheckFailed \/ (\E x \in Contents : ChangedOutside(x))
           \/ FileLoaded \/ Sweep \/ ScheduleRemap \/ RemoveNetwork \/ RemoveFile
           \/ \E i \in Attempts : Located(i) \/ Validated(i)
  BY <1>2, <1>8 DEF Compared, RequestContent, ReadFile, ReadFails, WriteFile, WriteFails,
     FileChanged, CheckFailed, ChangedOutside, FileLoaded, ContentLoaded, Sweep, ScheduleRemap,
     RemoveNetwork, RemoveFile, Located, Validated, fileVars, texts
<1> QED
  BY <1>3, <1>4, <1>5, <1>6, <1>7, <1>8 DEF Next, FilesNext, mapVars, UserActs

(* Changes that were not saved are given up by the user only, or while a binding is    *)
(* being made, or by a check that takes an older edit for the working copy.            *)
THEOREM OnlyUsersGiveUp == SafeSpec => UnsavedIsKept
<1> DEFINE Kept == (\E c \in Codes : Lost(c)) =>
                       UserActs \/ Shadowed \/ \E i \in Attempts : stage[i] = "adding"
<1>1. IInv /\ [Next]_vars => [Kept]_vars
  BY UnsavedStep DEF Kept
<1>2. SafeSpec => [][Kept]_vars
  BY <1>1, Invariance, PTL DEF SafeSpec
<1> QED
  BY <1>2 DEF UnsavedIsKept, Kept

================================================================================
