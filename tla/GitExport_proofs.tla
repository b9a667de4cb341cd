--------------------------- MODULE GitExport_proofs ---------------------------
(***************************************************************************)
(* Proofs about GitExport, for any number of revisions, failures and       *)
(* kills: the steps of the syncs implement GitMirror, what is recorded     *)
(* beside the documents is of their revision, and the lock's queue is true *)
(* to what its callers do.                                                 *)
(***************************************************************************)
EXTENDS GitExport, SequenceTheorems, TLAPS

USE DEF origin

\* The types the steps of an export rely on; nothing newer than the branch has
\* been exported.
TypeInv == /\ remote \in Revisions
           /\ base \in Directory
           /\ staging \in Trees
           /\ building \in {0} \cup Revisions
           /\ newest \in {0} \cup Revisions /\ newest <= remote

\* A revision that a sync may put in the place of the newest.
Newer(revision) == revision \in Revisions /\ newest <= revision /\ revision <= remote

\* Between fetch and rename a sync holds such a revision, in the clone first and
\* then in the staging directory: no other sync has exported meanwhile.
NewerIsHeld == /\ stage \in {"checkout", "copy"} => Newer(base.clone)
               /\ stage \in {"remove", "rename"} => Newer(staging)

IInv == TypeInv /\ NewerIsHeld /\ RecordsMatchDocs

(***************************************************************************)
(* What the steps do to the revisions.                                     *)
(***************************************************************************)
LEMMA Bounds == MaxRevision \in Nat \ {0} /\ Torn \notin Revisions /\ Torn # 0 /\ 0 \notin Revisions
  BY BoundsAssumption, TornAssumption DEF Revisions

\* A sync that ends leaves the lock, to the next caller or free.
LEMMA Ends == ASSUME SyncFails \/ SyncSucceeds PROVE stage' \in {"free", "prepare"}
<1>1. ASSUME NEW newTask, NEW again, Leave(newTask, again) PROVE stage' \in {"free", "prepare"}
  BY <1>1 DEF Leave
<1> QED BY <1>1 DEF SyncFails, SyncSucceeds

\* A step that leaves the documents alone and keeps what a sync holds.
LEMMA DocsStay ==
    ASSUME IInv, base' \in Directory, base'.docs = base.docs, staging' \in Trees,
           building' \in {0} \cup Revisions,
           UNCHANGED <<remote, newest>>, NewerIsHeld', RecordsMatchDocs'
    PROVE  IInv' /\ UNCHANGED Mirror!vars
  BY DEF IInv, TypeInv, Mirror!vars

LEMMA DirectoryFields ==
    ASSUME NEW d \in Directory
    PROVE  /\ d.clone \in Trees /\ d.gitLock \in BOOLEAN /\ d.script \in BOOLEAN
           /\ d.docs \in Trees /\ d.revision \in Trees /\ d.segment \in Trees
  BY DEF Directory

LEMMA NothingFields ==
    /\ Nothing \in Directory /\ Nothing.docs = 0 /\ Nothing.revision = 0 /\ Nothing.segment = 0
  BY DEF Nothing, Directory, Trees

LEMMA ScriptWritten ==
    ASSUME IInv
    PROVE  /\ WithScript \in Directory /\ WithScript.docs = base.docs
           /\ WithScript.revision = base.revision /\ WithScript.segment = base.segment
           /\ WithScript.clone = base.clone
  BY DEF IInv, TypeInv, WithScript, Directory

(***************************************************************************)
(* The steps of a sync.                                                    *)
(***************************************************************************)
LEMMA PrepareStep ==
    ASSUME IInv, PrepareRepository PROVE IInv' /\ [Mirror!Next]_(Mirror!vars)
<1> DEFINE new == [WithScript EXCEPT !.clone = remote]
<1>1. base' = new /\ stage' = "checkout" /\ UNCHANGED <<remote, staging, building, newest, raced>>
  BY DEF PrepareRepository, history
<1>2. /\ new \in Directory /\ new.docs = base.docs /\ new.clone = remote
      /\ new.revision = base.revision /\ new.segment = base.segment
  BY ScriptWritten DEF IInv, TypeInv, Directory, Trees
<1> HIDE DEF new
<1>3. NewerIsHeld' /\ RecordsMatchDocs'
  BY <1>1, <1>2 DEF IInv, TypeInv, NewerIsHeld, Newer, RecordsMatchDocs, Revisions
<1> QED BY <1>1, <1>2, <1>3, DocsStay DEF IInv, TypeInv

LEMMA PrepareFailsStep ==
    ASSUME IInv, PrepareFails PROVE IInv' /\ [Mirror!Next]_(Mirror!vars)
<1>1. /\ base' = WithScript /\ stage' \in {"free", "prepare"}
      /\ UNCHANGED <<remote, staging, building, newest, raced>>
  BY Ends DEF PrepareFails, history
<1>2. NewerIsHeld' /\ RecordsMatchDocs'
  BY <1>1, ScriptWritten DEF IInv, NewerIsHeld, RecordsMatchDocs
<1> QED BY <1>1, <1>2, ScriptWritten, DocsStay DEF IInv, TypeInv

\* The copy puts the clone in the staging directory.
LEMMA CopyStep == ASSUME IInv, Copy PROVE IInv' /\ [Mirror!Next]_(Mirror!vars)
<1>1. /\ stage = "copy" /\ stage' = "remove" /\ staging' = base.clone
      /\ UNCHANGED <<remote, base, building, newest, raced>>
  BY DEF Copy, history
<1>2. NewerIsHeld' /\ RecordsMatchDocs'
  BY <1>1 DEF IInv, NewerIsHeld, Newer, RecordsMatchDocs
<1> QED BY <1>1, <1>2, DocsStay DEF IInv, TypeInv, Directory

\* A step of any kind that changes neither the directory nor what is recorded
\* in it, at a stage that goes on or is over.
LEMMA StageMoves ==
    ASSUME IInv, UNCHANGED <<remote, base, building, newest, raced>>, staging' \in Trees,
           \/ stage' \in {"free", "prepare", "report"}
           \/ stage' = stage /\ staging' = staging
           \/ stage = "checkout" /\ stage' = "copy"
    PROVE  IInv' /\ [Mirror!Next]_(Mirror!vars)
<1>1. NewerIsHeld' /\ RecordsMatchDocs'
  BY DEF IInv, NewerIsHeld, Newer, RecordsMatchDocs
<1> QED BY <1>1, DocsStay DEF IInv, TypeInv

\* A git command hangs, and holds nothing that could be exported.
LEMMA HangStep == ASSUME IInv, GitHangs PROVE IInv' /\ [Mirror!Next]_(Mirror!vars)
<1>1. /\ base' = WithScript /\ stage' = "hung"
      /\ UNCHANGED <<remote, staging, building, newest, raced>>
  BY DEF GitHangs, history
<1>2. NewerIsHeld' /\ RecordsMatchDocs'
  BY <1>1, ScriptWritten DEF IInv, NewerIsHeld, RecordsMatchDocs
<1> QED BY <1>1, <1>2, ScriptWritten, DocsStay DEF IInv, TypeInv

LEMMA FailingSteps ==
    ASSUME IInv, SparseCheckout \/ SparseCheckoutFails \/ CopyFails \/ RemoveFails \/ RenameFails
                 \/ ReportFails
    PROVE  IInv' /\ [Mirror!Next]_(Mirror!vars)
<1>1. CASE SparseCheckout
  BY <1>1, StageMoves DEF SparseCheckout, disk, history, IInv, TypeInv
<1>2. CASE SparseCheckoutFails \/ RemoveFails \/ RenameFails \/ ReportFails
  BY <1>2, Ends, StageMoves
     DEF SparseCheckoutFails, RemoveFails, RenameFails, ReportFails, disk, history, IInv, TypeInv
<1>3. CASE CopyFails
  BY <1>3, Ends, StageMoves DEF CopyFails, history, Trees
<1> QED BY <1>1, <1>2, <1>3

\* The old documents go, file by file and then as a whole.
LEMMA RemoveSteps ==
    ASSUME IInv, RemoveSome \/ Removed PROVE IInv' /\ [Mirror!Next]_(Mirror!vars)
<1>1. base \in Directory /\ UNCHANGED <<remote, staging, building, newest, raced>>
  BY DEF IInv, TypeInv, RemoveSome, Removed, history
<1>2. /\ base' \in Directory
      /\ base'.docs = 0 \/ (base.docs # 0 /\ base'.docs = Torn)
      /\ base.docs = 0 => base'.docs = 0 /\ base'.revision \in {0, base.revision}
                          /\ base'.segment \in {0, base.segment}
      /\ base'.docs = 0 /\ base.docs # 0 => base'.revision = 0 /\ base'.segment = 0
  <2>1. CASE RemoveSome
    <3>1. PICK clone \in {base.clone} \cup (IF base.clone = 0 THEN {} ELSE {0, Torn}),
               revision \in {0, base.revision}, segment \in {0, base.segment},
               script \in {FALSE, base.script} :
            base' = [clone |-> clone, gitLock |-> FALSE, script |-> script,
                     docs |-> IF base.docs = 0 THEN 0 ELSE Torn,
                     revision |-> revision, segment |-> segment]
      BY <2>1 DEF RemoveSome
    <3>2. /\ clone \in Trees /\ revision \in Trees /\ segment \in Trees /\ script \in BOOLEAN
          /\ 0 \in Trees /\ Torn \in Trees
      BY <1>1, DirectoryFields DEF Trees
    <3>3. base' \in Directory
      BY <3>1, <3>2 DEF Directory
    <3> QED BY <3>1, <3>3, Bounds
  <2>2. CASE Removed
    BY <2>2, NothingFields DEF Removed
  <2> QED BY <2>1, <2>2
<1>3. stage = "remove" /\ stage' \in {"remove", "rename"}
  BY DEF RemoveSome, Removed, tasks
<1>4. TypeInv' /\ NewerIsHeld'
  BY <1>1, <1>2, <1>3 DEF IInv, TypeInv, NewerIsHeld, Newer
<1>5. RecordsMatchDocs'
  BY <1>1, <1>2, Bounds DEF IInv, RecordsMatchDocs
<1>6. [Mirror!Next]_(Mirror!vars)
  BY <1>1, <1>2 DEF Mirror!Next, Mirror!TakeAway, Mirror!vars
<1> QED BY <1>4, <1>5, <1>6 DEF IInv

\* The new documents come as a whole, and the newest so far.
LEMMA RenameStep == ASSUME IInv, Rename PROVE IInv' /\ [Mirror!Next]_(Mirror!vars)
<1> DEFINE new == [Nothing EXCEPT !.docs = staging]
<1>1. /\ base' = new /\ staging' = 0 /\ stage = "rename" /\ stage' \in {"free", "report"}
      /\ newest' = IF staging = Torn THEN newest ELSE staging
      /\ UNCHANGED <<remote, building>>
  BY DEF Rename
<1>2. Newer(staging) /\ staging \in Trees /\ newest' = staging
  BY <1>1, Bounds DEF IInv, TypeInv, NewerIsHeld, Newer
<1>3. new \in Directory /\ new.docs = staging /\ new.revision = 0 /\ new.segment = 0
  BY <1>2 DEF Nothing, Directory, Trees
<1> HIDE DEF new
<1>4. TypeInv' /\ NewerIsHeld' /\ RecordsMatchDocs'
  BY <1>1, <1>2, <1>3 DEF IInv, TypeInv, NewerIsHeld, Newer, RecordsMatchDocs, Trees
<1>5. Mirror!Publish
  BY <1>1, <1>2, <1>3, Bounds DEF Mirror!Publish, Newer, IInv, TypeInv, Revisions
<1> QED BY <1>4, <1>5 DEF IInv, Mirror!Next

LEMMA ReportStep == ASSUME IInv, Report PROVE IInv' /\ [Mirror!Next]_(Mirror!vars)
<1> DEFINE both == [base EXCEPT !.revision = base.docs, !.segment = base.docs]
           one == [base EXCEPT !.revision = base.docs]
<1>1. /\ \/ base' = both
         \/ base' = one /\ raced' = raced
      /\ stage' \in {"free", "prepare"} /\ UNCHANGED <<remote, staging, building, newest>>
  BY Ends DEF Report
<1>2. base \in Directory
  BY DEF IInv, TypeInv
<1>3. /\ both \in Directory /\ both.docs = base.docs /\ both.revision = base.docs
      /\ both.segment = base.docs
  BY <1>2 DEF Directory
<1>4. /\ one \in Directory /\ one.docs = base.docs /\ one.revision = base.docs
      /\ one.segment = base.segment
  BY <1>2 DEF Directory
<1> HIDE DEF both, one
<1>5. NewerIsHeld' /\ RecordsMatchDocs'
  BY <1>1, <1>3, <1>4 DEF IInv, NewerIsHeld, RecordsMatchDocs
<1> QED BY <1>1, <1>3, <1>4, <1>5, DocsStay DEF IInv, TypeInv

LEMMA SyncStep == ASSUME IInv, Sync PROVE IInv' /\ [Mirror!Next]_(Mirror!vars)
  BY PrepareStep, PrepareFailsStep, HangStep, CopyStep, FailingSteps, RemoveSteps, RenameStep, ReportStep
     DEF Sync

(***************************************************************************)
(* The callers, the other builds, the branch and the end of the server.    *)
(***************************************************************************)
LEMMA CallerSteps ==
    ASSUME IInv, TriggerArrives \/ LoopWakes \/ BackoffEnds \/ Tick
    PROVE  IInv' /\ [Mirror!Next]_(Mirror!vars)
<1>1. /\ UNCHANGED <<remote, base, staging, building, newest, raced>>
      /\ stage' \in {stage, "prepare"}
  BY DEF TriggerArrives, LoopWakes, BackoffEnds, Tick, Enter, disk, history, tasks
<1>2. staging' \in Trees
  BY <1>1 DEF IInv, TypeInv
<1> QED BY <1>1, <1>2, StageMoves

LEMMA BuildSteps ==
    ASSUME IInv, BuildReads \/ BuildWrites PROVE IInv' /\ [Mirror!Next]_(Mirror!vars)
<1>1. CASE BuildReads
  <2>1. /\ UNCHANGED <<remote, base, staging, newest, raced, stage>> /\ building' \in Revisions
    BY <1>1 DEF BuildReads, disk, history, tasks
  <2>2. NewerIsHeld' /\ RecordsMatchDocs'
    BY <2>1 DEF IInv, NewerIsHeld, Newer, RecordsMatchDocs
  <2> QED BY <2>1, <2>2, DocsStay DEF IInv, TypeInv
<1>2. CASE BuildWrites
  <2> DEFINE new == [base EXCEPT !.segment = building]
  <2>1. /\ base' = new /\ raced' = (raced \/ base.docs # building) /\ building' = 0
        /\ UNCHANGED <<remote, staging, newest, stage>>
    BY <1>2 DEF BuildWrites, tasks
  <2>2. building \in Trees
    BY DEF IInv, TypeInv, Trees
  <2>3. /\ new \in Directory /\ new.docs = base.docs /\ new.revision = base.revision
        /\ new.segment = building /\ new.clone = base.clone
    BY <2>2 DEF IInv, TypeInv, Directory
  <2> HIDE DEF new
  <2>4. NewerIsHeld'
    BY <2>1, <2>3 DEF IInv, NewerIsHeld, Newer
  <2>5. RecordsMatchDocs'
    BY <2>1, <2>3 DEF IInv, RecordsMatchDocs
  <2> QED BY <2>1, <2>3, <2>4, <2>5, DocsStay DEF IInv, TypeInv
<1> QED BY <1>1, <1>2

LEMMA PushStep == ASSUME IInv, Push PROVE IInv' /\ [Mirror!Next]_(Mirror!vars)
<1>1. /\ remote < MaxRevision /\ remote' = remote + 1
      /\ UNCHANGED <<base, staging, building, newest, raced, stage>>
  BY DEF Push, disk, tasks, history
<1>2. TypeInv'
  BY <1>1, Bounds DEF IInv, TypeInv, Revisions
<1>3. NewerIsHeld'
  BY <1>1, Bounds DEF IInv, TypeInv, NewerIsHeld, Newer, Revisions
<1>4. RecordsMatchDocs'
  BY <1>1 DEF IInv, RecordsMatchDocs
<1>5. Mirror!Push
  BY <1>1 DEF Mirror!Push
<1> QED BY <1>2, <1>3, <1>4, <1>5 DEF IInv, Mirror!Next

\* However the server ends, no sync is left that would export.
LEMMA EndSteps ==
    ASSUME IInv, Stop \/ Exit \/ Kill \/ Boot PROVE IInv' /\ [Mirror!Next]_(Mirror!vars)
<1>1. CASE Stop
  <2>1. /\ UNCHANGED <<remote, base, staging, building, newest, raced>>
        /\ stage' \in {stage, "free"}
    BY <1>1 DEF Stop, disk, history
  <2> QED BY <2>1, StageMoves DEF IInv, TypeInv
<1>2. CASE Exit
  <2>1. /\ UNCHANGED <<remote, base, staging, newest, raced>>
        /\ stage' = "free" /\ building' = 0
    BY <1>2 DEF Exit, Down, disk, history
  <2>2. NewerIsHeld' /\ RecordsMatchDocs'
    BY <2>1 DEF IInv, NewerIsHeld, RecordsMatchDocs
  <2> QED BY <2>1, <2>2, DocsStay DEF IInv, TypeInv
<1>3. CASE Kill
  <2>1. PICK clone \in {base.clone, Torn}, gitLock \in {base.gitLock, TRUE} :
          base' = [base EXCEPT !.clone = clone, !.gitLock = gitLock]
    BY <1>3 DEF Kill
  <2>2. base \in Directory /\ clone \in Trees /\ gitLock \in BOOLEAN
    BY <2>1, DirectoryFields DEF IInv, TypeInv, Trees
  <2>3. /\ base' \in Directory /\ base'.docs = base.docs
        /\ base'.revision = base.revision /\ base'.segment = base.segment
    BY <2>1, <2>2 DEF Directory
  <2>4. /\ UNCHANGED <<remote, newest, raced>> /\ stage' = "free" /\ building' = 0
        /\ staging' \in {staging, Torn}
    BY <1>3 DEF Kill, Down, history
  <2>5. NewerIsHeld' /\ RecordsMatchDocs'
    BY <2>3, <2>4 DEF IInv, NewerIsHeld, RecordsMatchDocs
  <2>6. staging' \in Trees
    BY <2>4 DEF IInv, TypeInv, Trees
  <2> QED BY <2>3, <2>4, <2>5, <2>6, DocsStay
<1>4. CASE Boot
  <2>1. /\ base' = [base EXCEPT !.gitLock = FALSE] /\ stage' = "prepare"
        /\ UNCHANGED <<remote, staging, building, newest, raced>>
    BY <1>4 DEF Boot, Booted, history
  <2>2. /\ base' \in Directory /\ base'.docs = base.docs
        /\ base'.revision = base.revision /\ base'.segment = base.segment
    BY <2>1 DEF IInv, TypeInv, Directory
  <2>3. NewerIsHeld' /\ RecordsMatchDocs'
    BY <2>1, <2>2 DEF IInv, NewerIsHeld, RecordsMatchDocs
  <2> QED BY <2>1, <2>2, <2>3, DocsStay DEF IInv, TypeInv
<1> QED BY <1>1, <1>2, <1>3, <1>4

LEMMA Starts == Init => IInv /\ Mirror!Init
<1> SUFFICES ASSUME Init PROVE IInv /\ Mirror!Init
  OBVIOUS
<1>1. TypeInv
  BY Bounds, NothingFields DEF Init, TypeInv, Trees, Revisions
<1>2. NewerIsHeld /\ RecordsMatchDocs
  BY NothingFields DEF Init, NewerIsHeld, RecordsMatchDocs
<1> QED BY <1>1, <1>2, NothingFields DEF Init, IInv, Mirror!Init

LEMMA EveryStep == IInv /\ [Next]_vars => IInv' /\ [Mirror!Next]_(Mirror!vars)
<1> SUFFICES ASSUME IInv, [Next]_vars PROVE IInv' /\ [Mirror!Next]_(Mirror!vars)
  OBVIOUS
<1>1. CASE UNCHANGED vars
  <2>1. UNCHANGED <<remote, base, staging, building, newest, raced, stage>>
    BY <1>1 DEF vars, disk, tasks, history
  <2> QED BY <2>1, StageMoves DEF IInv, TypeInv
<1> QED BY <1>1, SyncStep, CallerSteps, BuildSteps, PushStep, EndSteps DEF Next

\* While an export is not half removed, what is recorded beside the documents is
\* of their revision, through any failures, kills and builds of the index.
THEOREM RecordsMatch == Spec => []RecordsMatchDocs
<1>1. IInv => RecordsMatchDocs
  BY DEF IInv
<1> QED BY <1>1, Starts, EveryStep, PTL DEF Spec

\* The syncs of a git tenant implement GitMirror: its documents are one whole
\* revision, and never an older one (GitRepoSyncer.sync, _export_subpaths).
THEOREM SyncsMirror == Spec => MirrorsTheBranch
  BY Starts, EveryStep, PTL DEF Spec, MirrorsTheBranch, Mirror!Spec

-----------------------------------------------------------------------------
(* The queue of the lock, and the types of the rest.                       *)

Holds(queue, c) == \E i \in 1 .. Len(queue) : queue[i] = c
NoTwice(queue) == \A i, j \in 1 .. Len(queue) : queue[i] = queue[j] => i = j

Doings == {"idle", "initialize", "sync", "waiting", "backoff"}

\* A caller of _do_sync is in the queue of the lock, once, exactly while it is in
\* a sync; a report has a caller to return to.
QueueIsTrue ==
    /\ task \in [Callers -> Doings]
    /\ lock \in Seq(Callers) /\ NoTwice(lock)
    /\ \A c \in Callers : Holds(lock, c) <=> task[c] \in {"initialize", "sync"}
    /\ stage = "report" => lock # << >>

LEMMA EmptyQueue == /\ << >> \in Seq(Callers) /\ NoTwice(<< >>)
                    /\ \A c \in Callers : ~Holds(<< >>, c)
  BY EmptySeq DEF NoTwice, Holds

LEMMA QueueGrows ==
    ASSUME NEW queue \in Seq(Callers), NoTwice(queue), NEW c \in Callers, ~Holds(queue, c)
    PROVE  /\ Append(queue, c) \in Seq(Callers) /\ NoTwice(Append(queue, c))
           /\ Append(queue, c) # << >>
           /\ \A d \in Callers : Holds(Append(queue, c), d) <=> Holds(queue, d) \/ d = c
<1> DEFINE longer == Append(queue, c)
<1>1. /\ longer \in Seq(Callers) /\ longer # << >> /\ Len(longer) = Len(queue) + 1
      /\ \A i \in 1 .. Len(queue) : longer[i] = queue[i]
      /\ longer[Len(queue) + 1] = c /\ Len(queue) \in Nat
  BY AppendProperties, LenProperties
<1> HIDE DEF longer
<1>2. \A i \in 1 .. Len(longer) : i \in 1 .. Len(queue) \/ i = Len(queue) + 1
  BY <1>1
<1>3. NoTwice(longer)
  BY <1>1, <1>2 DEF NoTwice, Holds
<1>4. \A d \in Callers : Holds(longer, d) <=> Holds(queue, d) \/ d = c
  <2> SUFFICES ASSUME NEW d \in Callers PROVE Holds(longer, d) <=> Holds(queue, d) \/ d = c
    OBVIOUS
  <2>1. ASSUME Holds(longer, d) PROVE Holds(queue, d) \/ d = c
    BY <1>1, <1>2, <2>1 DEF Holds
  <2>2. ASSUME Holds(queue, d) PROVE Holds(longer, d)
    BY <1>1, <2>2 DEF Holds
  <2>3. Holds(longer, c)
    <3>1. Len(queue) + 1 \in 1 .. Len(longer)
      BY <1>1
    <3> QED BY <1>1, <3>1 DEF Holds
  <2> QED BY <2>1, <2>2, <2>3
<1> QED BY <1>1, <1>3, <1>4 DEF longer

LEMMA QueueShrinks ==
    ASSUME NEW queue \in Seq(Callers), NoTwice(queue), queue # << >>
    PROVE  /\ Head(queue) \in Callers /\ Holds(queue, Head(queue))
           /\ Tail(queue) \in Seq(Callers) /\ NoTwice(Tail(queue))
           /\ \A d \in Callers : Holds(Tail(queue), d) <=> Holds(queue, d) /\ d # Head(queue)
<1> DEFINE rest == Tail(queue)
<1>1. /\ Head(queue) \in Callers /\ rest \in Seq(Callers)
      /\ Len(queue) \in Nat /\ Len(queue) > 0 /\ Len(rest) = Len(queue) - 1
      /\ \A i \in 1 .. Len(rest) : rest[i] = queue[i + 1]
      /\ Head(queue) = queue[1]
  BY HeadTailProperties, LenProperties, EmptySeq
<1> HIDE DEF rest
<1>2. \A i \in 1 .. Len(rest) : i + 1 \in 1 .. Len(queue) /\ i + 1 # 1
  BY <1>1
<1>3. NoTwice(rest)
  BY <1>1, <1>2 DEF NoTwice
<1>4. 1 \in 1 .. Len(queue) /\ Holds(queue, Head(queue))
  BY <1>1 DEF Holds
<1>5. ASSUME NEW d \in Callers
      PROVE  Holds(rest, d) <=> Holds(queue, d) /\ d # Head(queue)
  <2>1. ASSUME Holds(rest, d) PROVE Holds(queue, d) /\ d # Head(queue)
    <3>1. PICK i \in 1 .. Len(rest) : rest[i] = d
      BY <2>1 DEF Holds
    <3>2. queue[i + 1] = d /\ i + 1 \in 1 .. Len(queue) /\ i + 1 # 1
      BY <1>1, <1>2, <3>1
    <3> QED BY <1>1, <1>4, <3>2 DEF NoTwice, Holds
  <2>2. ASSUME Holds(queue, d), d # Head(queue) PROVE Holds(rest, d)
    <3>1. PICK i \in 1 .. Len(queue) : queue[i] = d
      BY <2>2 DEF Holds
    <3>2. i - 1 \in 1 .. Len(rest) /\ (i - 1) + 1 = i
      BY <1>1, <2>2, <3>1
    <3>3. rest[i - 1] = d
      BY <1>1, <3>1, <3>2
    <3> QED BY <3>2, <3>3 DEF Holds
  <2> QED BY <2>1, <2>2
<1> QED BY <1>1, <1>3, <1>4, <1>5 DEF rest

\* A caller that is in no sync joins the queue.
LEMMA EnterKeepsQueue ==
    ASSUME QueueIsTrue, NEW c \in Callers, task[c] \notin {"initialize", "sync"},
           NEW what \in {"initialize", "sync"}, Enter(c, what)
    PROVE  QueueIsTrue'
<1>1. task' = [task EXCEPT ![c] = what] /\ lock' = Append(lock, c)
  BY DEF Enter
<1>2. /\ lock' \in Seq(Callers) /\ NoTwice(lock') /\ lock' # << >>
      /\ \A d \in Callers : Holds(lock', d) <=> Holds(lock, d) \/ d = c
  BY <1>1, QueueGrows DEF QueueIsTrue
<1>3. task' \in [Callers -> Doings] /\ \A d \in Callers : task'[d] = IF d = c THEN what ELSE task[d]
  BY <1>1 DEF QueueIsTrue, Doings
<1>4. \A d \in Callers : Holds(lock', d) <=> task'[d] \in {"initialize", "sync"}
  BY <1>2, <1>3 DEF QueueIsTrue
<1> QED BY <1>2, <1>3, <1>4 DEF QueueIsTrue

\* The holder leaves the queue; the others stay as they are, but that the loop
\* may be started.
LEMMA LeaveKeepsQueue ==
    ASSUME QueueIsTrue, lock # << >>, NEW newTask \in [Callers -> Doings],
           Leave(newTask, << >>), newTask[Head(lock)] \notin {"initialize", "sync"},
           \A d \in Callers : d # Head(lock) => (newTask[d] \in {"initialize", "sync"}
                                                  <=> task[d] \in {"initialize", "sync"})
    PROVE  QueueIsTrue' /\ stage' \in {"free", "prepare"}
<1>1. /\ Head(lock) \in Callers /\ Tail(lock) \in Seq(Callers) /\ NoTwice(Tail(lock))
      /\ \A d \in Callers : Holds(Tail(lock), d) <=> Holds(lock, d) /\ d # Head(lock)
  BY QueueShrinks DEF QueueIsTrue
<1>2. Tail(lock) \o << >> = Tail(lock)
  BY <1>1, ConcatEmptySeq
<1>3. task' = newTask /\ lock' = Tail(lock) /\ stage' \in {"free", "prepare"}
  BY <1>2 DEF Leave
<1> QED BY <1>1, <1>3 DEF QueueIsTrue

\* The holder leaves and queues again.
LEMMA AgainKeepsQueue ==
    ASSUME QueueIsTrue, lock # << >>, NEW newTask \in [Callers -> Doings],
           Leave(newTask, <<Head(lock)>>), newTask[Head(lock)] \in {"initialize", "sync"},
           \A d \in Callers : d # Head(lock) => (newTask[d] \in {"initialize", "sync"}
                                                  <=> task[d] \in {"initialize", "sync"})
    PROVE  QueueIsTrue' /\ stage' \in {"free", "prepare"}
<1>1. /\ Head(lock) \in Callers /\ Tail(lock) \in Seq(Callers) /\ NoTwice(Tail(lock))
      /\ \A d \in Callers : Holds(Tail(lock), d) <=> Holds(lock, d) /\ d # Head(lock)
  BY QueueShrinks DEF QueueIsTrue
<1> DEFINE again == Append(Tail(lock), Head(lock))
<1>2. Tail(lock) \o <<Head(lock)>> = again
  BY <1>1, AppendIsConcat
<1>3. task' = newTask /\ lock' = again /\ stage' \in {"free", "prepare"}
  BY <1>2 DEF Leave
<1>4. /\ again \in Seq(Callers) /\ NoTwice(again) /\ again # << >>
      /\ \A d \in Callers : Holds(again, d) <=> Holds(Tail(lock), d) \/ d = Head(lock)
  BY <1>1, QueueGrows
<1> HIDE DEF again
<1> QED BY <1>1, <1>3, <1>4 DEF QueueIsTrue

\* After a start the tenant's own initialize is in the queue, alone.
LEMMA StartingQueue ==
    ASSUME NEW doings, doings = [c \in Callers |-> IF c = "startup" THEN "initialize" ELSE "idle"],
           NEW queue, queue = <<"startup">>
    PROVE  /\ doings \in [Callers -> Doings]
           /\ queue \in Seq(Callers) /\ NoTwice(queue) /\ queue # << >>
           /\ \A c \in Callers : Holds(queue, c) <=> doings[c] \in {"initialize", "sync"}
<1> DEFINE one == Append(<< >>, "startup")
<1>1. "startup" \in Callers /\ queue = one
  BY DEF Callers
<1>2. /\ one \in Seq(Callers) /\ NoTwice(one) /\ one # << >>
      /\ \A c \in Callers : Holds(one, c) <=> Holds(<< >>, c) \/ c = "startup"
  BY <1>1, EmptyQueue, QueueGrows
<1> HIDE DEF one
<1>3. /\ doings \in [Callers -> Doings]
      /\ \A c \in Callers : doings[c] \in {"initialize", "sync"} <=> c = "startup"
  BY DEF Doings
<1> QED BY <1>1, <1>2, <1>3, EmptyQueue

LEMMA BootedQueue ==
    ASSUME task' = [c \in Callers |-> IF c = "startup" THEN "initialize" ELSE "idle"],
           lock' = <<"startup">>
    PROVE  QueueIsTrue'
  BY StartingQueue DEF QueueIsTrue

LEMMA InitialQueue == ASSUME Init PROVE QueueIsTrue
  BY StartingQueue DEF QueueIsTrue, Init

LEMMA FailureKeepsQueue ==
    ASSUME QueueIsTrue, SyncFails PROVE QueueIsTrue' /\ stage' \in {"free", "prepare"}
<1>1. CASE lock = << >>
  BY <1>1 DEF SyncFails, Orphaned, QueueIsTrue
<1>2. CASE lock # << >>
  <2> DEFINE c == Head(lock)
             newTask == [task EXCEPT ![c] = IF @ = "sync" /\ c = "loop" THEN "backoff" ELSE "idle"]
  <2>1. c \in Callers
    BY <1>2, QueueShrinks DEF QueueIsTrue
  <2>2. /\ newTask \in [Callers -> Doings] /\ newTask[c] \notin {"initialize", "sync"}
        /\ \A d \in Callers : d # c => newTask[d] = task[d]
    BY <2>1 DEF QueueIsTrue, Doings
  <2>3. Leave(newTask, << >>)
    BY <1>2 DEF SyncFails, Orphaned
  <2> HIDE DEF newTask
  <2> QED BY <1>2, <2>2, <2>3, LeaveKeepsQueue
<1> QED BY <1>1, <1>2

LEMMA SuccessKeepsQueue ==
    ASSUME QueueIsTrue, lock # << >>, SyncSucceeds
    PROVE  QueueIsTrue' /\ stage' \in {"free", "prepare"}
<1> DEFINE c == Head(lock)
           starts == IF task[c] = "initialize" /\ task["loop"] = "idle"
                     THEN [task EXCEPT !["loop"] = "waiting"] ELSE task
           again == [starts EXCEPT ![c] = "sync"]
           done == [starts EXCEPT ![c] = IF c = "loop" THEN "waiting" ELSE "idle"]
<1>1. c \in Callers /\ "loop" \in Callers
  BY QueueShrinks DEF QueueIsTrue, Callers
<1>2. /\ starts \in [Callers -> Doings]
      /\ \A d \in Callers : starts[d] \in {"initialize", "sync"} <=> task[d] \in {"initialize", "sync"}
  BY <1>1 DEF QueueIsTrue, Doings
<1> HIDE DEF starts
<1>3. /\ again \in [Callers -> Doings] /\ again[c] = "sync"
      /\ \A d \in Callers : d # c => again[d] = starts[d]
  BY <1>1, <1>2 DEF Doings
<1>4. /\ done \in [Callers -> Doings] /\ done[c] \notin {"initialize", "sync"}
      /\ \A d \in Callers : d # c => done[d] = starts[d]
  BY <1>1, <1>2 DEF Doings
<1>5. Leave(again, <<c>>) \/ Leave(done, << >>)
  BY DEF SyncSucceeds, starts
<1> HIDE DEF again, done
<1>6. CASE Leave(again, <<c>>)
  BY <1>2, <1>3, <1>6, AgainKeepsQueue
<1>7. CASE Leave(done, << >>)
  BY <1>2, <1>4, <1>7, LeaveKeepsQueue
<1> QED BY <1>5, <1>6, <1>7

Stages == {"free", "prepare", "checkout", "hung", "copy", "remove", "rename", "report"}

LEMMA QueueStep ==
    ASSUME QueueIsTrue, stage \in Stages, [Next]_vars PROVE QueueIsTrue' /\ stage' \in Stages
<1>1. CASE UNCHANGED <<task, lock>> /\ stage' \in Stages \ {"report"}
  BY <1>1 DEF QueueIsTrue
<1>2. CASE UNCHANGED <<task, lock, stage>>
  BY <1>2 DEF QueueIsTrue
<1>3. CASE SyncFails
  BY <1>3, FailureKeepsQueue DEF Stages
<1>4. CASE Report
  <2>1. SyncSucceeds /\ lock # << >>
    BY <1>4 DEF Report, QueueIsTrue
  <2> QED BY <2>1, SuccessKeepsQueue DEF Stages
<1>5. CASE Rename
  BY <1>5 DEF Rename, Orphaned, QueueIsTrue, Stages
<1>6. CASE TriggerArrives
  <2>1. "trigger" \in Callers /\ task["trigger"] = "idle"
        /\ \E what \in {"initialize", "sync"} : Enter("trigger", what)
    BY <1>6 DEF TriggerArrives, Callers
  <2>2. stage' \in Stages
    BY <1>6 DEF TriggerArrives, Enter, Stages
  <2> QED BY <2>1, <2>2, EnterKeepsQueue
<1>7. CASE LoopWakes
  <2>1. "loop" \in Callers /\ task["loop"] = "waiting" /\ Enter("loop", "sync")
    BY <1>7 DEF LoopWakes, Callers
  <2>2. stage' \in Stages
    BY <1>7 DEF LoopWakes, Enter, Stages
  <2> QED BY <2>1, <2>2, EnterKeepsQueue
<1>8. CASE BackoffEnds
  <2>1. /\ task["loop"] = "backoff" /\ task' = [task EXCEPT !["loop"] = "waiting"]
        /\ UNCHANGED <<lock, stage>>
    BY <1>8 DEF BackoffEnds
  <2> QED BY <2>1 DEF QueueIsTrue, Doings
<1>9. CASE Stop \/ Exit \/ Kill
  <2>1. /\ task' = [c \in Callers |-> "idle"] /\ lock' = << >>
        /\ stage' \in Stages \ {"report"}
    BY <1>9 DEF Stop, Exit, Kill, Down, Stages
  <2>2. task' \in [Callers -> Doings] /\ \A c \in Callers : task'[c] = "idle"
    BY <2>1 DEF Doings
  <2> QED BY <2>1, <2>2, EmptyQueue DEF QueueIsTrue
<1>10. CASE Boot
  <2>1. /\ task' = [c \in Callers |-> IF c = "startup" THEN "initialize" ELSE "idle"]
        /\ lock' = <<"startup">> /\ stage' = "prepare"
    BY <1>10 DEF Boot, Booted
  <2> QED BY <2>1, BootedQueue DEF Stages
<1>11. CASE Sync
  <2>1. CASE PrepareFails \/ SparseCheckoutFails \/ CopyFails \/ RemoveFails \/ RenameFails
             \/ ReportFails
    BY <1>3, <2>1 DEF PrepareFails, SparseCheckoutFails, CopyFails, RemoveFails, RenameFails,
                      ReportFails
  <2>2. CASE PrepareRepository \/ SparseCheckout \/ GitHangs \/ Copy \/ Removed
    BY <1>1, <2>2 DEF PrepareRepository, SparseCheckout, GitHangs, Copy, Removed, Stages
  <2>3. CASE RemoveSome
    BY <1>2, <2>3 DEF RemoveSome, tasks
  <2> QED BY <1>4, <1>5, <1>11, <2>1, <2>2, <2>3 DEF Sync
<1>12. CASE BuildReads \/ BuildWrites \/ Push \/ Tick \/ UNCHANGED vars
  BY <1>2, <1>12 DEF BuildReads, BuildWrites, Push, Tick, vars, tasks
<1> QED BY <1>6, <1>7, <1>8, <1>9, <1>10, <1>11, <1>12 DEF Next

\* What is left of the type invariant.
FlagsTyped == /\ private \in BOOLEAN /\ up \in {"up", "stopping", "down"}
              /\ initialized \in BOOLEAN /\ scriptKnown \in BOOLEAN /\ due \in BOOLEAN
              /\ served \in Trees /\ raced \in BOOLEAN /\ faults \in 0 .. MaxFaults

LEMMA FlagsMove ==
    ASSUME [Next]_vars
    PROVE  /\ private' = private /\ up' \in {up, "up", "stopping", "down"}
           /\ initialized' \in {initialized, FALSE, initialized \/ task[Head(lock)] = "initialize"}
           /\ scriptKnown' \in {scriptKnown, FALSE, scriptKnown \/ private}
           /\ due' \in {due, TRUE, FALSE}
           /\ served' \in {served, base.docs, base.segment, building, 0}
           /\ raced' \in {raced, FALSE, raced \/ base.docs # building}
           /\ faults' = faults \/ Fault
<1> USE DEF Next, Sync, PrepareRepository, PrepareFails, SparseCheckout, SparseCheckoutFails,
        GitHangs, Copy, CopyFails, RemoveSome, Removed, RemoveFails, Rename, RenameFails, Report, ReportFails,
        TriggerArrives, LoopWakes, BackoffEnds, BuildReads, BuildWrites, Push, Tick, Stop, Exit,
        Kill, Boot, Down, Booted, vars, memory, history
<1>1. up' \in {up, "up", "stopping", "down"}
  OBVIOUS
<1>2. initialized' \in {initialized, FALSE, initialized \/ task[Head(lock)] = "initialize"}
  OBVIOUS
<1>3. scriptKnown' \in {scriptKnown, FALSE, scriptKnown \/ private}
  OBVIOUS
<1>4. due' \in {due, TRUE, FALSE}
  OBVIOUS
<1>5. served' \in {served, base.docs, base.segment, building, 0}
  OBVIOUS
<1>6. raced' \in {raced, FALSE, raced \/ base.docs # building}
  OBVIOUS
<1>7. faults' = faults \/ Fault
  OBVIOUS
<1>8. private' = private
  OBVIOUS
<1> QED BY <1>1, <1>2, <1>3, <1>4, <1>5, <1>6, <1>7, <1>8

LEMMA FlagsStep == ASSUME IInv, FlagsTyped, [Next]_vars PROVE FlagsTyped'
<1>1. /\ base.docs \in Trees /\ base.segment \in Trees /\ building \in Trees /\ 0 \in Trees
      /\ MaxFaults \in Nat
  BY BoundsAssumption, DirectoryFields DEF IInv, TypeInv, Trees
<1>2. initialized' \in BOOLEAN /\ scriptKnown' \in BOOLEAN /\ raced' \in BOOLEAN
  <2>1. initialized' \in {initialized, FALSE, initialized \/ task[Head(lock)] = "initialize"}
    BY FlagsMove
  <2>2. scriptKnown' \in {scriptKnown, FALSE, scriptKnown \/ private}
    BY FlagsMove
  <2>3. raced' \in {raced, FALSE, raced \/ base.docs # building}
    BY FlagsMove
  <2> QED BY <2>1, <2>2, <2>3, Zenon DEF FlagsTyped
<1>3. due' \in BOOLEAN
  BY FlagsMove DEF FlagsTyped
<1>4. private' \in BOOLEAN /\ served' \in Trees /\ up' \in {"up", "stopping", "down"}
  BY <1>1, FlagsMove DEF FlagsTyped
<1>5. faults' \in 0 .. MaxFaults
  <2>1. faults' = faults \/ Fault
    BY FlagsMove
  <2> QED BY <1>1, <2>1 DEF Fault, FlagsTyped
<1> QED BY <1>2, <1>3, <1>4, <1>5 DEF FlagsTyped

FullInv == IInv /\ QueueIsTrue /\ stage \in Stages /\ FlagsTyped

\* Types and the queue of the lock, through any failures, kills and restarts; the
\* invariant of the mirror is IInv.
LEMMA FullInvHolds == Spec => []FullInv
<1>1. Init => FullInv
  <2> SUFFICES ASSUME Init PROVE FullInv
    OBVIOUS
  <2>1. QueueIsTrue /\ stage \in Stages
    BY InitialQueue DEF Init, Stages
  <2>2. FlagsTyped
    <3>1. /\ private \in BOOLEAN /\ up = "up" /\ initialized = FALSE /\ scriptKnown = FALSE /\ due = FALSE
          /\ served = 0 /\ raced = FALSE /\ faults = 0
      BY DEF Init
    <3>2. served \in Trees /\ faults \in 0 .. MaxFaults
      BY <3>1, BoundsAssumption DEF Trees
    <3> QED BY <3>1, <3>2 DEF FlagsTyped
  <2> QED BY <2>1, <2>2, Starts DEF FullInv
<1>2. FullInv /\ [Next]_vars => FullInv'
  <2> SUFFICES ASSUME FullInv, [Next]_vars PROVE FullInv'
    OBVIOUS
  <2>1. IInv'
    BY EveryStep DEF FullInv
  <2>2. QueueIsTrue' /\ stage' \in Stages
    BY QueueStep DEF FullInv
  <2>3. FlagsTyped'
    BY FlagsStep DEF FullInv
  <2> QED BY <2>1, <2>2, <2>3 DEF FullInv
<1> QED BY <1>1, <1>2, PTL DEF Spec

\* Every variable of a git tenant keeps its type, and no caller is in the queue of
\* the lock twice (GitRepoSyncer._lock).
THEOREM TypeCorrect == Spec => []TypeOK
<1>1. FullInv => TypeOK
  BY DEF FullInv, FlagsTyped, IInv, TypeInv, QueueIsTrue, NoTwice, Doings, Stages, TypeOK
<1> QED BY <1>1, FullInvHolds, PTL

\* A caller is in a sync exactly while it is in the queue of the lock: none waits
\* for a lock that will not be passed on to it, none holds it without knowing
\* (GitSyncSchedulerService._do_sync, GitRepoSyncer.sync).
THEOREM WaitersAreQueued == Spec => []QueueIsTrue
<1>1. FullInv => QueueIsTrue
  BY DEF FullInv
<1> QED BY <1>1, FullInvHolds, PTL
=============================================================================
