----------------------------- MODULE GitExport -----------------------------
(* A git tenant with a cron schedule: GitSyncSchedulerService over          *)
(* GitRepoSyncer, and the index build that follows each export.  The clone, *)
(* the askpass script, the crawl database and the search segments all live  *)
(* below the directory that every export removes and replaces               *)
(* (tenant.py: repo_path and metadata store under base_dir = export_path).  *)
EXTENDS Naturals, Sequences

CONSTANTS MaxRevision,   \* bound: revisions of the branch
          MaxFaults,     \* bound: failures, kills and shutdowns
          Torn           \* a directory tree that is there in part

ASSUME BoundsAssumption == MaxRevision \in Nat \ {0} /\ MaxFaults \in Nat
ASSUME TornAssumption == Torn \notin Nat

VARIABLES remote,        \* the revision of the branch at its origin
          private,       \* the repository is private, auth_token_env is set
          base,          \* the tenant's directory, see Directory
          staging,       \* .<name>.git-staging beside it
          up,            \* the server: up, stopping or down
          task,          \* what each caller of _do_sync is doing
          lock,          \* GitRepoSyncer._lock: its holder, then its waiters
          stage,         \* how far the sync under way is
          initialized,   \* _initialized
          scriptKnown,   \* _askpass_script is not None
          due,           \* the cron instant after _last_sync_at has passed
          served,        \* the revision of the loaded search index, 0: none
          building,      \* the revision another build of the index has read
          newest,        \* history: the newest revision ever exported
          raced,         \* history: such a build wrote beside other documents
          faults         \* how many faults were used up

origin == <<remote, private>>
disk == <<base, staging>>
tasks == <<task, lock, stage>>
memory == <<initialized, scriptKnown, due, served>>
history == <<newest, raced>>
vars == <<origin, disk, up, tasks, memory, building, history, faults>>

Revisions == 1 .. MaxRevision
Callers == {"startup", "loop", "trigger"}

Trees == {0, Torn} \cup Revisions  \* 0: not there

\* The parts of the directory, 0 or FALSE for what is not there.
Directory == [clone : Trees,      \* .git_repo
              gitLock : BOOLEAN,  \* its .git/index.lock
              script : BOOLEAN,   \* .git-sync-askpass.sh
              docs : Trees,       \* the exported files
              revision : Trees,   \* what source_revision in the database names
              segment : Trees]    \* what the index that the manifest names was built from

Nothing == [clone |-> 0, gitLock |-> FALSE, script |-> FALSE,
            docs |-> 0, revision |-> 0, segment |-> 0]

\* Type invariant, with: no caller is in the queue of the lock twice.
TypeOK == /\ remote \in Revisions /\ private \in BOOLEAN
          /\ base \in Directory
          /\ staging \in Trees
          /\ up \in {"up", "stopping", "down"}
          /\ task \in [Callers -> {"idle", "initialize", "sync", "waiting", "backoff"}]
          /\ lock \in Seq(Callers)
          /\ \A i, j \in 1 .. Len(lock) : lock[i] = lock[j] => i = j
          /\ stage \in {"free", "prepare", "checkout", "hung", "copy", "remove",
                        "rename", "report"}
          /\ initialized \in BOOLEAN /\ scriptKnown \in BOOLEAN /\ due \in BOOLEAN
          /\ served \in Trees
          /\ building \in {0} \cup Revisions
          /\ newest \in {0} \cup Revisions
          /\ raced \in BOOLEAN
          /\ faults \in 0 .. MaxFaults

\* The server comes up: the tenant's autostart calls initialize, which calls
\* _do_sync at once.
Booted == /\ up' = "up"
          /\ task' = [c \in Callers |-> IF c = "startup" THEN "initialize" ELSE "idle"]
          /\ lock' = <<"startup">>
          /\ stage' = "prepare"
          /\ initialized' = FALSE /\ scriptKnown' = FALSE /\ due' = FALSE
          /\ served' = base.segment

Init == /\ remote = 1 /\ private \in BOOLEAN
        /\ base = Nothing /\ staging = 0
        /\ up = "up"
        /\ task = [c \in Callers |-> IF c = "startup" THEN "initialize" ELSE "idle"]
        /\ lock = <<"startup">> /\ stage = "prepare"
        /\ initialized = FALSE /\ scriptKnown = FALSE /\ due = FALSE
        /\ served = 0 /\ building = 0 /\ newest = 0 /\ raced = FALSE /\ faults = 0

Fault == faults < MaxFaults /\ faults' = faults + 1

(***************************************************************************)
(* The lock, and how a sync ends for its caller.                           *)
(***************************************************************************)
Enter(c, what) == /\ task' = [task EXCEPT ![c] = what]
                  /\ lock' = Append(lock, c)
                  /\ stage' = IF stage = "free" THEN "prepare" ELSE stage

\* Faulty: the holder leaves and takes the waiters with it.
LeaveAlone(newTask, again) ==
    /\ task' = newTask
    /\ lock' = again
    /\ stage' = IF again = << >> THEN "free" ELSE "prepare"

\* The holder leaves, and with the continuation of a trigger it queues again.
Leave(newTask, again) ==
    /\ task' = newTask
    /\ lock' = Tail(lock) \o again
    /\ stage' = IF Tail(lock) \o again = << >> THEN "free" ELSE "prepare"

Orphaned == lock = << >>  \* the thread of a cancelled task exports on

\* _do_sync answers None: initialize gives up, the loop backs off, a trigger
\* reports the failure.
SyncFails ==
    IF Orphaned THEN stage' = "free" /\ UNCHANGED <<task, lock>>
    ELSE Leave([task EXCEPT ![Head(lock)] = IF @ = "sync" /\ Head(lock) = "loop"
                                            THEN "backoff" ELSE "idle"], << >>)

\* _do_sync answers with a result: initialize starts the loop if none runs,
\* and a trigger whose tenant was not initialized syncs once more.
SyncSucceeds ==
    LET c == Head(lock)
        starts == IF task[c] = "initialize" /\ task["loop"] = "idle"
                  THEN [task EXCEPT !["loop"] = "waiting"] ELSE task
    IN IF c = "trigger" /\ task[c] = "initialize"
       THEN Leave([starts EXCEPT ![c] = "sync"], <<c>>)
       ELSE Leave([starts EXCEPT ![c] = IF c = "loop" THEN "waiting" ELSE "idle"], << >>)

(***************************************************************************)
(* The callers.                                                            *)
(***************************************************************************)
\* POST /{tenant}/sync/trigger: a tenant that is not initialized is first.
TriggerArrives ==
    /\ up = "up"
    /\ task["trigger"] = "idle"
    /\ Enter("trigger", IF initialized THEN "sync" ELSE "initialize")
    /\ UNCHANGED <<origin, disk, up, memory, building, history, faults>>

\* The loop finds a cron instant between _last_sync_at and now.
LoopWakes == /\ task["loop"] = "waiting" /\ due
             /\ Enter("loop", "sync")
             /\ UNCHANGED <<origin, disk, up, memory, building, history, faults>>

\* The delay after a failed sync is over; the loop looks at the clock again.
BackoffEnds == /\ task["loop"] = "backoff"
               /\ task' = [task EXCEPT !["loop"] = "waiting"]
               /\ UNCHANGED <<origin, disk, up, lock, stage, memory, building, history, faults>>

(***************************************************************************)
(* One sync, in the order of GitRepoSyncer.sync.                           *)
(***************************************************************************)
\* The first git command writes the askpass script, later ones take it to be
\* where it was written.
WithScript == IF private /\ ~scriptKnown THEN [base EXCEPT !.script = TRUE] ELSE base
Authorised == private => WithScript.script
Usable == base.clone # Torn /\ ~base.gitLock

\* clone into an empty directory, or fetch, checkout, reset and clean the
\* clone that an earlier sync left behind.
PrepareRepository ==
    /\ stage = "prepare" /\ Authorised
    /\ base.clone = 0 \/ Usable
    /\ base' = [WithScript EXCEPT !.clone = remote]
    /\ scriptKnown' = (scriptKnown \/ private)
    /\ stage' = "checkout"
    /\ UNCHANGED <<origin, staging, up, task, lock, initialized, due, served, building, history, faults>>

\* A command fails: for what lies in the directory, for want of the script, or
\* (a fault) because the origin cannot be reached.
PrepareFails ==
    /\ stage = "prepare"
    /\ IF Authorised /\ (base.clone = 0 \/ Usable) THEN Fault ELSE UNCHANGED faults
    /\ base' = WithScript
    /\ scriptKnown' = (scriptKnown \/ private)
    /\ SyncFails
    /\ UNCHANGED <<origin, staging, up, initialized, due, served, building, history>>

\* sparse-checkout set, which fetches the files of a blobless clone.
SparseCheckout ==
    /\ stage = "checkout" /\ stage' = "copy"
    /\ UNCHANGED <<origin, disk, up, task, lock, memory, building, history, faults>>

SparseCheckoutFails ==
    /\ stage = "checkout" /\ Fault /\ SyncFails
    /\ UNCHANGED <<origin, disk, up, memory, building, history>>

\* A command waits for an origin or a prompt that never answers: no time limit
\* ends it, and the lock stays with its caller.
GitHangs ==
    /\ stage \in {"prepare", "checkout"} /\ stage' = "hung"
    /\ Fault
    /\ base' = WithScript
    /\ scriptKnown' = (scriptKnown \/ private)
    /\ UNCHANGED <<origin, staging, up, task, lock, initialized, due, served, building, history>>

\* _copy, in a thread: the staging directory is made anew and filled.
\* Faulty: what an earlier copy left in the staging directory stays in it.
CopyKeepsStaging ==
    /\ stage = "copy" /\ stage' = "remove"
    /\ staging' = IF staging = 0 THEN base.clone ELSE Torn
    /\ UNCHANGED <<origin, base, up, task, lock, memory, building, history, faults>>

Copy == /\ stage = "copy" /\ stage' = "remove"
        /\ staging' = base.clone
        /\ UNCHANGED <<origin, base, up, task, lock, memory, building, history, faults>>

CopyFails == /\ stage = "copy" /\ Fault /\ SyncFails
             /\ staging' = Torn
             /\ UNCHANGED <<origin, base, up, memory, building, history>>

\* rmtree(export_path) takes the parts of the directory one by one ...
RemoveSome ==
    /\ stage = "remove"
    /\ \E clone \in {base.clone} \cup (IF base.clone = 0 THEN {} ELSE {0, Torn}),
          revision \in {0, base.revision}, segment \in {0, base.segment},
          script \in {FALSE, base.script} :
         base' = [clone |-> clone, gitLock |-> FALSE, script |-> script,
                  docs |-> IF base.docs = 0 THEN 0 ELSE Torn,
                  revision |-> revision, segment |-> segment]
    /\ base' # base
    /\ UNCHANGED <<origin, staging, up, tasks, memory, building, history, faults>>

\* ... until it is gone,
Removed == /\ stage = "remove" /\ stage' = "rename"
           /\ base' = Nothing
           /\ UNCHANGED <<origin, staging, up, task, lock, memory, building, history, faults>>

\* or gives up at a directory that another writer has just filled; the clone,
\* where nobody else writes, is then there as a whole or not at all.
RemoveFails == /\ stage = "remove" /\ base.clone # Torn /\ Fault /\ SyncFails
               /\ UNCHANGED <<origin, disk, up, memory, building, history>>

\* The rename needs the place to be empty.
Rename == /\ stage = "rename" /\ base = Nothing
          /\ base' = [Nothing EXCEPT !.docs = staging]
          /\ staging' = 0
          /\ newest' = IF staging = Torn THEN newest ELSE staging
          /\ raced' = FALSE
          /\ stage' = IF Orphaned THEN "free" ELSE "report"
          /\ UNCHANGED <<origin, up, task, lock, memory, building, faults>>

RenameFails == /\ stage = "rename" /\ base # Nothing /\ SyncFails
               /\ UNCHANGED <<origin, disk, up, memory, building, history, faults>>

\* Faulty: the database is told the revision the branch is at.
ReportRecordsBranch ==
    /\ stage = "report"
    /\ due' = FALSE
    /\ initialized' = (initialized \/ task[Head(lock)] = "initialize")
    /\ base' = [base EXCEPT !.revision = remote, !.segment = base.docs]
    /\ served' = base.docs
    /\ SyncSucceeds
    /\ UNCHANGED <<origin, staging, up, scriptKnown, building, history, faults>>

\* Faulty: the index that was built is not loaded.
ReportLoadsNothing ==
    /\ stage = "report"
    /\ due' = FALSE
    /\ initialized' = (initialized \/ task[Head(lock)] = "initialize")
    /\ base' = [base EXCEPT !.revision = base.docs, !.segment = base.docs]
    /\ SyncSucceeds
    /\ UNCHANGED <<origin, staging, up, scriptKnown, served, building, history, faults>>

\* _do_sync goes on without suspending: the counters, the revision into a
\* database that is made anew, and the callback, which builds and loads the
\* index.  An index that cannot be built is only logged.
Report ==
    /\ stage = "report"
    /\ due' = FALSE
    /\ initialized' = (initialized \/ task[Head(lock)] = "initialize")
    /\ \/ /\ base' = [base EXCEPT !.revision = base.docs, !.segment = base.docs]
          /\ served' = base.docs
          /\ raced' = FALSE
          /\ UNCHANGED faults
       \/ /\ base' = [base EXCEPT !.revision = base.docs]
          /\ Fault
          /\ UNCHANGED <<served, raced>>
    /\ SyncSucceeds
    /\ UNCHANGED <<origin, staging, up, scriptKnown, building, newest>>

\* The database cannot be opened: the sync that exported counts as failed.
ReportFails == /\ stage = "report" /\ Fault
               /\ due' = FALSE
               /\ SyncFails
               /\ UNCHANGED <<origin, disk, up, initialized, scriptKnown, served, building, history>>

(***************************************************************************)
(* A build of the index on its own, in another thread: the index endpoint, *)
(* or a search that finds no index loaded.                                 *)
(***************************************************************************)
BuildReads == /\ up = "up" /\ building = 0
              /\ base.docs \in Revisions
              /\ building' = base.docs
              /\ UNCHANGED <<origin, disk, up, tasks, memory, history, faults>>

BuildWrites == /\ building # 0 /\ up # "down"
               /\ building' = 0
               /\ base' = [base EXCEPT !.segment = building]
               /\ served' = building
               /\ raced' = (raced \/ base.docs # building)
               /\ UNCHANGED <<origin, staging, up, tasks, initialized, scriptKnown, due, newest, faults>>

(***************************************************************************)
(* The branch, the clock, and the end of the server.                       *)
(***************************************************************************)
Push == /\ remote < MaxRevision /\ remote' = remote + 1
        /\ UNCHANGED <<private, disk, up, tasks, memory, building, history, faults>>

Tick == /\ up = "up" /\ due' = TRUE
        /\ UNCHANGED <<origin, disk, up, tasks, initialized, scriptKnown, served, building, history, faults>>

\* Shutdown, with no request in progress: the caller of a sync is cancelled,
\* which ends a git command but not the thread that exports.
Stop == /\ up = "up" /\ task["trigger"] = "idle" /\ Fault
        /\ up' = "stopping"
        /\ task' = [c \in Callers |-> "idle"]
        /\ lock' = << >>
        /\ stage' = IF stage \in {"copy", "remove", "rename"} THEN stage ELSE "free"
        /\ initialized' = FALSE
        /\ UNCHANGED <<origin, disk, scriptKnown, due, served, building, history>>

Down == /\ up' = "down"
        /\ task' = [c \in Callers |-> "idle"] /\ lock' = << >> /\ stage' = "free"
        /\ initialized' = FALSE /\ scriptKnown' = FALSE /\ due' = FALSE
        /\ served' = 0 /\ building' = 0

\* The process ends when its threads have.
Exit == /\ up = "stopping" /\ stage = "free" /\ building = 0
        /\ Down
        /\ UNCHANGED <<origin, disk, history, faults>>

\* The process and its git command are killed.  A clone cut short leaves a
\* .git that names no commit, a checkout cut short leaves its lock file.
Kill == /\ up # "down" /\ Fault
        /\ \E clone \in {base.clone} \cup (IF stage \in {"prepare", "hung"} /\ base.clone = 0
                                             THEN {Torn} ELSE {}),
              gitLock \in {base.gitLock} \cup (IF stage \in {"prepare", "checkout", "hung"} /\ base.clone # 0
                                               THEN {TRUE} ELSE {}) :
             base' = [base EXCEPT !.clone = clone, !.gitLock = gitLock]
        /\ staging' \in {staging} \cup (IF stage = "copy" THEN {Torn} ELSE {})
        /\ Down
        /\ UNCHANGED <<origin, history>>

\* The next start removes a stale lock file before anything else.
Boot == /\ up = "down"
        /\ base' = [base EXCEPT !.gitLock = FALSE]
        /\ Booted
        /\ UNCHANGED <<origin, staging, building, history, faults>>

Sync == \/ PrepareRepository \/ PrepareFails \/ SparseCheckout \/ SparseCheckoutFails
        \/ GitHangs
        \/ Copy \/ CopyFails \/ RemoveSome \/ Removed \/ RemoveFails
        \/ Rename \/ RenameFails \/ Report \/ ReportFails

Next == \/ Sync \/ TriggerArrives \/ LoopWakes \/ BackoffEnds
        \/ BuildReads \/ BuildWrites
        \/ Push \/ Tick \/ Stop \/ Exit \/ Kill \/ Boot

\* The event loop and the thread run on, a git command that does not hang ends,
\* sleeps end, cron instants come, and the container is restarted.
Fairness == /\ WF_vars(Sync) /\ WF_vars(LoopWakes) /\ WF_vars(BackoffEnds)
            /\ WF_vars(BuildWrites) /\ WF_vars(Tick)
            /\ WF_vars(Exit) /\ WF_vars(Boot)

Spec == Init /\ [][Next]_vars
FairSpec == Spec /\ Fairness
-----------------------------------------------------------------------------
\* While an export is not half removed, the revision the database names is the
\* revision of the documents beside it, and so is the index, but for a build
\* that read the documents before an export and wrote after it.
RecordsMatchDocs ==
    base.docs # Torn => /\ base.revision \in {0, base.docs}
                        /\ base.segment \in {0, base.docs} \/ raced

\* The documents are one whole revision, never an older one than before.
Mirror == INSTANCE GitMirror WITH docs <- base.docs
MirrorsTheBranch == Mirror!Spec

\* As long as the loop runs, the documents and the loaded index catch up with
\* the branch, through failed syncs, failed index builds and racing builds: but
\* for two ends of the road.  A git command hangs, for nothing limits its time;
\* or the askpass script went with the directory that an export replaced, while
\* _askpass_script still names it, and no later sync of a private repository
\* works until the server is restarted.
LoopOn == task["loop"] # "idle"
ScriptIsLost == private /\ scriptKnown /\ ~base.script
TenantCatchesUp == []<>(\/ ~LoopOn \/ stage = "hung" \/ ScriptIsLost
                        \/ base.docs = remote /\ served = remote)

\* A sync that the operator's trigger or the start of the server asks for ends,
\* unless a git command hangs: nobody waits for the lock for any other reason.
CallersAreAnswered ==
    \A c \in {"startup", "trigger"} : task[c] # "idle" ~> task[c] = "idle" \/ stage = "hung"
=============================================================================
