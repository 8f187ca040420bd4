------------------------------ MODULE UISourceCode ------------------------------
(*****************************************************************************)
(* workspace/UISourceCode.js, persistence/IsolatedFileSystem.js and          *)
(* workspace_diff/WorkspaceDiff.js: a script of a page and a file on disk    *)
(* that may be bound to it, their contents and working copies, the queue of  *)
(* operations on the file, and what happens when the file changes outside.   *)
(*                                                                           *)
(* `Persistence` says when the two are bound; here, `bound` is the binding   *)
(* whose listeners carry changes from one to the other, in the same turn.    *)
(* A content stands for all that differ in white space at the end.           *)
(*****************************************************************************)
EXTENDS Naturals, Sequences

CONSTANTS Contents,        \* contents of a file
          Original,        \* what the network served
          Empty,           \* the empty content
          MaxEvents        \* bound: edits, revisions, changes by other programs,
                           \* failures, remappings and removals, together

ASSUME FilesAssumption ==
    /\ {Original, Empty} \subseteq Contents /\ Original # Empty
    /\ {"none", "failed", "pending"} \cap Contents = {}
    /\ MaxEvents \in Nat

None == "none"         \* null
Failed == "failed"     \* a result with an error
Network == "network"
File == "fileSystem"
Codes == {Network, File}
Other(c) == IF c = Network THEN File ELSE Network

VARIABLES content, working,     \* _content.content and _workingCopy
          follows,              \* _workingCopyGetter reads the working copy of the other one
          commits,              \* _hasCommits
          loaded, requesting, checking, accepted, forceLoad,   \* fields of the file
          disk,                 \* what the disk has
          operations,           \* the chain of _fileLocks
          changed,              \* a notification of the file is on its way
          dialogs,              \* contents the user is to be asked about
          modified, comparing,  \* of WorkspaceDiff: the mark, and the comparisons under way
          bound,                \* the binding of the two, or 0
          present,              \* those that were not removed from their projects
          lapses,               \* history: in which ways the disk may have been lost sight of
          apart,                \* history: bound, but with contents that differ
          events                \* history: what came from outside so far

texts == <<content, working, follows, commits>>
loading == <<loaded, requesting, checking, accepted>>
diff == <<modified, comparing>>
fileVars == <<texts, loading, forceLoad, disk, operations, changed, dialogs, diff, bound, present,
              lapses, apart, events>>

Operations == [kind : {"load", "check"}, text : Contents \cup {None, Failed}]
              \cup [kind : {"write"}, text : Contents]

\* The script was opened, the file, which is the same, not yet.
FilesInit ==
    /\ content = [c \in Codes |-> IF c = Network THEN Original ELSE None]
    /\ working = [c \in Codes |-> None]
    /\ follows = [c \in Codes |-> FALSE]
    /\ commits = [c \in Codes |-> FALSE]
    /\ loaded = FALSE /\ requesting = FALSE /\ checking = FALSE /\ accepted = None
    /\ forceLoad = FALSE
    /\ disk = Original
    /\ operations = <<>> /\ changed = FALSE /\ dialogs = <<>>
    /\ modified = FALSE /\ comparing = {}
    /\ bound = 0 /\ present = Codes
    /\ lapses = {} /\ apart = FALSE
    /\ events = 0

--------------------------------------------------------------------------------
(* Contents and working copies. *)

Event == events < MaxEvents /\ events' = events + 1

Text(c) == IF content[c] = None THEN Empty ELSE content[c]

IsDirty(c) == working[c] # None \/ follows[c]

\* What workingCopy() gives without a getter.
OwnCopy(c) == IF working[c] = None THEN Text(c) ELSE working[c]

\* Each getter calls the other: workingCopy() would not return.
Circular == follows[Network] /\ follows[File]

WorkingCopy(c) == IF follows[c] THEN OwnCopy(Other(c)) ELSE OwnCopy(c)

\* Those that a change of c reaches: PersistenceImpl listens to both, and is
\* muted for what it changes itself.
Reached(c) == IF bound = 0 THEN {c} ELSE Codes

\* Variant: a comparison that was overtaken still tells its result.
KeepComparisons ==
    IF IsDirty(Network)' THEN modified' = TRUE /\ comparing' = comparing
    ELSE IF ~commits'[Network] THEN modified' = FALSE /\ comparing' = comparing
    ELSE /\ modified' = modified
         /\ comparing' = comparing \cup {[text |-> Text(Network)', current |-> TRUE]}

\* _updateModifiedState: a comparison with the original replaces the one under way.
UpdateModifiedState ==
    LET overtaken == {[p EXCEPT !.current = FALSE] : p \in comparing}
    IN  IF IsDirty(Network)' THEN modified' = TRUE /\ comparing' = overtaken
        ELSE IF ~commits'[Network] THEN modified' = FALSE /\ comparing' = overtaken
        ELSE /\ modified' = modified
             /\ comparing' = overtaken \cup {[text |-> Text(Network)', current |-> TRUE]}

NetworkChanges(c) == IF Network \in Reached(c) THEN UpdateModifiedState ELSE UNCHANGED diff

\* _contentCommitted of c and, by syncContent, of what is bound to it.
Commit(c, x) ==
    /\ content' = [d \in Codes |-> IF d \in Reached(c) THEN x ELSE content[d]]
    /\ working' = [d \in Codes |-> IF d \in Reached(c) THEN None ELSE working[d]]
    /\ follows' = [d \in Codes |-> follows[d] /\ d \notin Reached(c)]
    /\ commits' = [d \in Codes |-> commits[d] \/ d \in Reached(c)]
    /\ IF File \in Reached(c) THEN loaded' = TRUE /\ requesting' = FALSE /\ accepted' = None
                              ELSE UNCHANGED <<loaded, requesting, accepted>>
    /\ apart' = (apart /\ bound = 0)
    /\ NetworkChanges(c)

\* _commitContent and setContent: the file is also written.
CommitAndWrite(c, x) ==
    /\ Commit(c, x)
    /\ operations' = IF File \in Reached(c) THEN Append(operations, [kind |-> "write", text |-> x])
                                            ELSE operations

\* setWorkingCopy and, by _syncWorkingCopy, the getter of what is bound to it.
SetWorkingCopy(c, x) ==
    /\ working' = [working EXCEPT ![c] = x]
    /\ follows' = [d \in Codes |-> d # c /\ (bound # 0 \/ follows[d])]
    /\ UNCHANGED <<content, commits>>
    /\ NetworkChanges(c)

\* resetWorkingCopy, on both sides.
ResetWorkingCopy(c) ==
    /\ working' = [d \in Codes |-> IF d \in Reached(c) THEN None ELSE working[d]]
    /\ follows' = [d \in Codes |-> follows[d] /\ d \notin Reached(c)]
    /\ UNCHANGED <<content, commits>>
    /\ NetworkChanges(c)

--------------------------------------------------------------------------------
(* What the user and the panels do. *)

Open(c) == c \in present /\ (c = File => loaded)

Edit(c, x) ==
    /\ Open(c)
    /\ Event
    /\ SetWorkingCopy(c, x)
    /\ UNCHANGED <<loading, forceLoad, disk, operations, changed, dialogs, bound, present, lapses,
                   apart>>

Revert(c) ==
    /\ Open(c) /\ IsDirty(c)
    /\ ResetWorkingCopy(c)
    /\ apart' = (apart \/ (bound # 0 /\ content[Network] # content[File]))
    /\ UNCHANGED <<loading, forceLoad, disk, operations, changed, dialogs, bound, present, lapses,
                   events>>

CommitWorkingCopy(c) ==
    /\ Open(c) /\ IsDirty(c) /\ ~Circular
    /\ CommitAndWrite(c, WorkingCopy(c))
    /\ UNCHANGED <<checking, forceLoad, disk, changed, dialogs, bound, present, lapses, events>>

\* A style sheet of the page was edited in the Elements panel, or all changes undone.
AddRevision(x) ==
    /\ Network \in present
    /\ Event
    /\ CommitAndWrite(Network, x)
    /\ UNCHANGED <<checking, forceLoad, disk, changed, dialogs, bound, present, lapses>>

\* workingCopy() of a reader settles what the getter stands for.
ReadWorkingCopy(c) ==
    /\ follows[c] /\ ~Circular
    /\ working' = [working EXCEPT ![c] = WorkingCopy(c)]
    /\ follows' = [follows EXCEPT ![c] = FALSE]
    /\ UNCHANGED <<content, commits, loading, forceLoad, disk, operations, changed, dialogs, diff,
                   bound, present, lapses, apart, events>>

\* The answer for the original; a comparison that was overtaken says nothing.
Compared ==
    \E p \in comparing :
        /\ comparing' = comparing \ {p}
        /\ modified' = IF p.current THEN p.text # Original ELSE modified
        /\ UNCHANGED <<texts, loading, forceLoad, disk, operations, changed, dialogs, bound,
                       present, lapses, apart, events>>

--------------------------------------------------------------------------------
(* The file. *)

\* requestContent, unless the content is there or on its way.
WithRequest == IF loaded \/ requesting THEN operations
               ELSE Append(operations, [kind |-> "load", text |-> None])

RequestContent ==
    /\ File \in present /\ ~loaded /\ ~requesting
    /\ requesting' = TRUE
    /\ operations' = WithRequest
    /\ UNCHANGED <<texts, loaded, checking, accepted, forceLoad, disk, changed, dialogs, diff,
                   bound, present, lapses, apart, events>>

\* The operation in front is a read that has not reached the disk.
Reading == operations # <<>> /\ operations[1].text = None

\* A read takes what the disk has now.  A check makes up for what was missed.
ReadFile ==
    /\ Reading
    /\ operations' = [operations EXCEPT ![1].text = disk]
    /\ lapses' = IF operations[1].kind = "check" THEN {} ELSE lapses
    /\ UNCHANGED <<texts, loading, forceLoad, disk, changed, dialogs, diff, bound, present, apart,
                   events>>

\* For instance because the file changes while it is being read.
ReadFails ==
    /\ Reading
    /\ Event
    /\ operations' = [operations EXCEPT ![1].text = Failed]
    /\ lapses' = lapses \cup {"failed"}
    /\ UNCHANGED <<texts, loading, forceLoad, disk, changed, dialogs, diff, bound, present, apart>>

Writing == operations # <<>> /\ operations[1].kind = "write"

WriteFile ==
    /\ Writing
    /\ disk' = operations[1].text
    /\ operations' = Tail(operations)
    /\ changed' = TRUE
    /\ UNCHANGED <<texts, loading, forceLoad, dialogs, diff, bound, present, lapses, apart, events>>

\* An error of a write is logged, and the chain goes on.
WriteFails ==
    /\ Writing
    /\ Event
    /\ operations' = Tail(operations)
    /\ lapses' = lapses \cup {"failed"}
    /\ UNCHANGED <<texts, loading, forceLoad, disk, changed, dialogs, diff, bound, present, apart>>

\* The operation in front is a read of the kind that has its result.
Answered(kind) ==
    operations # <<>> /\ operations[1].kind = kind /\ operations[1].text # None

\* The rest of _requestContentImpl.
ContentLoaded ==
    /\ Answered("load")
    /\ operations' = Tail(operations)
    /\ loaded' = TRUE
    /\ content' = IF loaded THEN content
                  ELSE [content EXCEPT ![File] = IF operations[1].text = Failed THEN None
                                                                           ELSE operations[1].text]
    /\ UNCHANGED <<working, follows, commits, requesting, checking, accepted, forceLoad, disk,
                   changed, dialogs, diff, bound, present, lapses, apart, events>>

\* A notification that is ignored while a read under way has the old content
\* leaves the file behind the disk.
Missed == operations # <<>> /\ operations[1].kind # "write"
          /\ operations[1].text \notin {None, disk}

\* _fileChanged and the first part of checkContentUpdated.
FileChanged ==
    /\ changed /\ changed' = FALSE
    /\ IF File \notin present \/ ~(loaded \/ forceLoad) \/ checking
       THEN /\ lapses' = IF Missed THEN lapses \cup {"missed"} ELSE lapses
            /\ UNCHANGED <<checking, operations>>
       ELSE /\ checking' = TRUE
            /\ operations' = Append(operations, [kind |-> "check", text |-> None])
            /\ UNCHANGED lapses
    /\ UNCHANGED <<texts, loaded, requesting, accepted, forceLoad, disk, dialogs, diff, bound,
                   present, apart, events>>

\* An error returns before _checkingContent is taken back.
CheckFailed ==
    /\ Answered("check") /\ operations[1].text = Failed
    /\ operations' = Tail(operations)
    /\ UNCHANGED <<texts, loading, forceLoad, disk, changed, dialogs, diff, bound, present, lapses,
                   apart, events>>

\* Variant: a file with a working copy is replaced without asking.
ReplaceUnasked ==
    /\ Answered("check") /\ operations[1].text # Failed
    /\ operations' = Tail(operations)
    /\ checking' = FALSE
    /\ LET x == operations[1].text
       IN  \/ /\ accepted = x
              /\ UNCHANGED <<texts, loaded, requesting, accepted, diff, dialogs, apart>>
           \/ /\ accepted # x /\ content[File] = x
              /\ accepted' = x
              /\ UNCHANGED <<texts, loaded, requesting, diff, dialogs, apart>>
           \/ /\ accepted # x /\ content[File] # x
              /\ Commit(File, x)
              /\ UNCHANGED dialogs
    /\ UNCHANGED <<forceLoad, disk, changed, bound, present, lapses, events>>

\* Variant: a file that is as it was stays marked as being checked.
StillChecking ==
    /\ Answered("check") /\ operations[1].text # Failed
    /\ operations' = Tail(operations)
    /\ LET x == operations[1].text
       IN  \/ /\ accepted = x \/ content[File] = x
              /\ UNCHANGED <<texts, loading, diff, dialogs, apart>>
           \/ /\ accepted # x /\ content[File] # x
              /\ checking' = FALSE
              /\ ~IsDirty(File) \/ working[File] = x
              /\ Commit(File, x)
              /\ UNCHANGED dialogs
           \/ /\ accepted # x /\ content[File] # x
              /\ checking' = FALSE
              /\ IsDirty(File) /\ working[File] # x
              /\ dialogs' = Append(dialogs, x)
              /\ UNCHANGED <<texts, loaded, requesting, accepted, diff, apart>>
    /\ UNCHANGED <<forceLoad, disk, changed, bound, present, lapses, events>>

\* Variant: what was read is committed as if the user had typed it.
CheckedAndWritten ==
    /\ Answered("check") /\ operations[1].text # Failed
    /\ operations' = Append(Tail(operations), [kind |-> "write", text |-> operations[1].text])
    /\ checking' = FALSE
    /\ Commit(File, operations[1].text)
    /\ UNCHANGED <<dialogs, forceLoad, disk, changed, bound, present, lapses, events>>

\* The rest of checkContentUpdated, up to the question.  A content that is null comes
\* with an error from IsolatedFileSystem, and does not get here.
ContentChecked ==
    /\ Answered("check") /\ operations[1].text # Failed
    /\ operations' = Tail(operations)
    /\ checking' = FALSE
    /\ LET x == operations[1].text
       IN  \/ /\ accepted = x
              /\ UNCHANGED <<texts, loaded, requesting, accepted, diff, dialogs, apart>>
           \/ /\ accepted # x /\ content[File] = x
              /\ accepted' = None
              /\ UNCHANGED <<texts, loaded, requesting, diff, dialogs, apart>>
           \/ /\ accepted # x /\ content[File] # x
              /\ ~IsDirty(File) \/ working[File] = x
              /\ Commit(File, x)
              /\ UNCHANGED dialogs
           \/ /\ accepted # x /\ content[File] # x
              /\ IsDirty(File) /\ working[File] # x
              /\ dialogs' = Append(dialogs, x)
              /\ UNCHANGED <<texts, loaded, requesting, accepted, diff, apart>>
    /\ UNCHANGED <<forceLoad, disk, changed, bound, present, lapses, events>>

\* The user is asked, after the file was revealed: it may have been committed, and
\* an answer to an old question overrules what is known of the disk since.
Confirm(accept) ==
    /\ dialogs # <<>> /\ dialogs' = Tail(dialogs)
    /\ IF accept THEN Commit(File, dialogs[1])
       ELSE /\ accepted' = dialogs[1]
            /\ UNCHANGED <<texts, loaded, requesting, diff, apart>>
    /\ lapses' = IF dialogs[1] # disk /\ (accept \/ accepted = disk)
                 THEN lapses \cup {"overruled"} ELSE lapses
    /\ UNCHANGED <<checking, forceLoad, disk, operations, changed, bound, present, events>>

\* Another program writes the file.
ChangedOutside(x) ==
    /\ x # disk
    /\ Event
    /\ disk' = x /\ changed' = TRUE
    /\ UNCHANGED <<texts, loading, forceLoad, operations, dialogs, diff, bound, present, lapses,
                   apart>>

FilesNext ==
    \/ \E c \in Codes, x \in Contents : Edit(c, x)
    \/ \E c \in Codes : Revert(c) \/ CommitWorkingCopy(c) \/ ReadWorkingCopy(c)
    \/ Compared \/ RequestContent
    \/ ReadFile \/ ReadFails \/ WriteFile \/ WriteFails
    \/ FileChanged \/ CheckFailed \/ ContentChecked
    \/ \E accept \in BOOLEAN : Confirm(accept)
    \/ \E x \in Contents : AddRevision(x) \/ ChangedOutside(x)

--------------------------------------------------------------------------------
(* Properties, checked of Persistence. *)

\* Every variable has its shape; only the operation in front has begun.
FilesTypeOK ==
    /\ content \in [Codes -> Contents \cup {None}]
    /\ working \in [Codes -> Contents \cup {None}]
    /\ follows \in [Codes -> BOOLEAN] /\ commits \in [Codes -> BOOLEAN]
    /\ loaded \in BOOLEAN /\ requesting \in BOOLEAN /\ checking \in BOOLEAN
    /\ accepted \in Contents \cup {None} /\ forceLoad \in BOOLEAN
    /\ disk \in Contents
    /\ operations \in Seq(Operations)
    /\ \A i \in 2 .. Len(operations) : operations[i].kind # "write" => operations[i].text = None
    /\ changed \in BOOLEAN /\ dialogs \in Seq(Contents)
    /\ modified \in BOOLEAN /\ comparing \subseteq [text : Contents, current : BOOLEAN]
    /\ bound \in Nat /\ present \subseteq Codes
    /\ lapses \subseteq {"missed", "overruled", "failed"} /\ apart \in BOOLEAN
    /\ events \in Nat

\* No operation, notification or question is under way.
Quiet == operations = <<>> /\ ~changed /\ dialogs = <<>>

\* Whatever is written by the user and by other programs, in whatever order the
\* reads, notifications and questions come: when all is quiet the file is what the
\* disk has, or the user refused just that; unless since the last check a change
\* was lost sight of.  A check that fails is the last one: it leaves
\* _checkingContent behind.
DiskFollowed ==
    Quiet /\ loaded /\ File \in present /\ lapses = {}
        => content[File] = disk \/ accepted = disk

\* The mark of the script in the Changes panel is right when nothing is being compared.
ModifiedIsTrue ==
    Network \in present /\ (\A p \in comparing : ~p.current)
        => (modified <=> IsDirty(Network) \/ (commits[Network] /\ content[Network] # Original))

\* Writes, the notifications of them, and the reads that follow do not feed each
\* other for ever.
FileSettles == <>[](operations = <<>> /\ ~changed)

================================================================================
