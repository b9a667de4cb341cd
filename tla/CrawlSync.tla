------------------------------ MODULE CrawlSync ------------------------------
(***************************************************************************)
(* The sync cycle of one online tenant                                     *)
(* (src/docs_mcp_server/utils/sync_scheduler.py and                        *)
(* sync_discovery_runner.py): plan, discovery, queue hydration and batch   *)
(* execution over the crawl database of CrawlStore, together with the      *)
(* operator's requests, the website, the passing of time, and the process  *)
(* being killed and started again, possibly with an edited configuration.  *)
(*                                                                         *)
(* The engine is an asyncio program, so an action is what it does between  *)
(* two points where it really waits for the network, a thread or a file;   *)
(* an action is also never longer than what a kill can leave half done in  *)
(* a way the next cycle could notice.                                      *)
(***************************************************************************)
EXTENDS CrawlStore

CONSTANTS
    Mode,             \* "entry", "sitemap" or "hybrid"
    EnableCrawler,    \* settings.enable_crawler
    Roots,            \* the tenant's entry_urls
    Configs,          \* the URL rules the tenant may be configured with
    BatchSize,        \* settings.max_concurrent_requests
    MaxFaults,        \* bound: kills and failed cycles
    Sitemaps,         \* bound: what the website's sitemap may list
    MaxEdits          \* bound: operator requests and edits of the sitemap

\* allowed: should_process_url holds; banned: startswith of a blacklist prefix
\* does; swept: the LIKE pattern made of the prefix matches, to which every "_"
\* is any character and a letter either case, so that an allowed URL may be swept.
Config == [allowed : SUBSET Urls, banned : SUBSET Urls, swept : SUBSET Urls]

ASSUME SyncAssumption ==
    /\ Mode \in {"entry", "sitemap", "hybrid"}
    /\ EnableCrawler \in BOOLEAN
    /\ Roots \subseteq Urls
    /\ Configs # {} /\ Configs \subseteq Config
    /\ \A c \in Configs : c.allowed \cap c.banned = {} /\ c.banned \subseteq c.swept
    /\ Sitemaps \subseteq SUBSET Urls
    /\ BatchSize \in Nat \ {0}
    /\ MaxFaults \in Nat /\ MaxEdits \in Nat

VARIABLES
    \* on disk
    rows, queue,   \* the tables crawl_urls and crawl_queue
    docs,          \* the URLs with a stored document
    snapshot,      \* the sitemap content last saved: {} or a singleton
    config,        \* the URL rules in deployment.json
    \* the website
    listed,        \* the URLs its sitemap lists
    \* in the process
    pc,            \* where the cycle stands
    bypass,        \* _bypass_idempotency
    plan,          \* the SyncCyclePlan under construction
    seen,          \* discovered_during_crawl
    pending,       \* url_queue of the progressive processor
    task,          \* the _process_url calls in progress
    \* history, only for the properties
    promised,      \* what this cycle undertook to attempt
    settled,       \* what it attempted, or the operator took back
    \* bounds
    faults, edits

disk    == <<rows, queue, docs, snapshot, config>>
process == <<pc, bypass, plan, seen, pending, task>>
history == <<promised, settled>>
bounds  == <<faults, edits>>
vars    == <<disk, listed, process, history, bounds>>

Stages == {"none", "start", "fetch", "store"}
Places == {"down", "idle", "clean", "prune", "read", "sitemap", "crawl",
           "drain", "hydrate", "batch", "done"}

Plan   == [due : SUBSET Urls, found : SUBSET Urls,
           hasPrevious : BOOLEAN, hasDocuments : BOOLEAN, changed : BOOLEAN]
NoPlan == [due |-> {}, found |-> {},
           hasPrevious |-> FALSE, hasDocuments |-> FALSE, changed |-> TRUE]
NoTask == [u \in Urls |-> "none"]

InFlight == {u \in Urls : task[u] # "none"}

TypeOK ==
    /\ rows \in [Urls -> Row]
    /\ queue \subseteq Urls
    /\ docs \subseteq Urls
    /\ snapshot \subseteq SUBSET Urls
    /\ config \in Configs
    /\ listed \subseteq Urls
    /\ pc \in Places
    /\ bypass \in BOOLEAN
    /\ plan \in Plan
    /\ seen \subseteq Urls /\ pending \subseteq Urls
    /\ task \in [Urls -> Stages]
    /\ promised \subseteq Urls /\ settled \subseteq Urls
    /\ faults \in 0 .. MaxFaults /\ edits \in 0 .. MaxEdits

Init ==
    /\ rows = [u \in Urls |-> NoRow] /\ queue = {} /\ docs = {} /\ snapshot = {}
    /\ config \in Configs
    /\ listed \in Sitemaps /\ (Mode = "entry" => listed = {})
    /\ pc = "idle" /\ bypass = FALSE /\ plan = NoPlan
    /\ seen = {} /\ pending = {} /\ task = NoTask
    /\ promised = {} /\ settled = {}
    /\ faults = 0 /\ edits = 0

-----------------------------------------------------------------------------
\* A cycle, started by cron or by a trigger with or without force_full_sync.
StartCycle ==
    /\ pc = "idle"
    /\ pc' = "clean"
    /\ bypass' \in BOOLEAN
    /\ promised' = {} /\ settled' = {}
    /\ UNCHANGED <<disk, listed, plan, seen, pending, task, bounds>>

\* delete_blacklisted_caches and delete_blacklisted_directories; a deletion
\* that fails is only counted.
DeleteBlacklistedCaches ==
    /\ pc = "clean"
    /\ \E gone \in SUBSET (docs \cap config.banned) : docs' = docs \ gone
    /\ plan' = [plan EXCEPT !.hasDocuments = docs' # {}]
    /\ pc' = "prune"
    /\ UNCHANGED <<rows, queue, snapshot, config, listed, bypass, seen, pending,
                   task, history, bounds>>

\* delete_blacklisted_metadata, in a thread; again a failure is only counted.
DeleteBlacklistedMetadata ==
    /\ pc = "prune"
    /\ \E gone \in {config.swept \cap Tracked(rows), {}} :
           /\ rows' = WithoutRows(rows, gone)
           /\ queue' = queue \ gone
    /\ pc' = "read"
    /\ UNCHANGED <<docs, snapshot, config, listed, bypass, plan, seen, pending,
                   task, history, bounds>>

\* Where discovery continues.  Whether the crawl runs also depends on
\* statistics and on the crawler lock, which another process may hold.
CrawlOrNot ==
    IF Mode = "entry" \/ EnableCrawler THEN {"crawl", "hydrate"} ELSE {"hydrate"}

\* Faulty: what an earlier cycle left "processing" is not due.
PlannedDueSkipsInterrupted ==
    (Due(rows) \ WithStatus(rows, "processing")) \cap config.allowed

\* _get_due_urls, and the filter the plan puts on it.
PlannedDue == Due(rows) \cap config.allowed

\* The metadata is read once; entry mode goes on to the crawl from the roots.
ReadMetadata ==
    /\ pc = "read"
    /\ bypass' = (bypass \/ WithStatus(rows, "success") = {})
    /\ LET roots == IF Mode = "entry" THEN Roots \cap config.allowed ELSE {}
       IN  /\ plan' = [plan EXCEPT !.due = PlannedDue,
                                   !.hasPrevious = Tracked(rows) # {},
                                   !.found = roots]
           /\ \/ Mode # "entry" /\ pc' = "sitemap"
              \/ Mode = "entry" /\ roots # {} /\ pc' \in CrawlOrNot
              \/ Mode = "entry" /\ roots = {} /\ pc' = "hydrate"
    /\ UNCHANGED <<disk, listed, seen, pending, task, history, bounds>>

EntryUrls == IF Mode = "hybrid" THEN Roots ELSE {}

\* The new content hash is saved as soon as the sitemap has been parsed.
SitemapFetched ==
    /\ pc = "sitemap"
    /\ plan' = [plan EXCEPT !.changed = listed \notin snapshot,
                            !.found = (listed \cap config.allowed) \cup EntryUrls]
    /\ snapshot' \in {{listed}, snapshot}
    /\ pc' \in CrawlOrNot
    /\ UNCHANGED <<rows, queue, docs, config, listed, bypass, seen, pending, task,
                   history, bounds>>

\* Every error of the fetch or the parser is swallowed: no entries, no change.
SitemapUnavailable ==
    /\ pc = "sitemap"
    /\ plan' = [plan EXCEPT !.changed = FALSE, !.found = EntryUrls]
    /\ pc' \in CrawlOrNot
    /\ UNCHANGED <<disk, listed, bypass, seen, pending, task, history, bounds>>

-----------------------------------------------------------------------------
\* on_url_discovered: queued for the progressive processor, recorded and put
\* on the crawl queue by a task of its own, whose failure nobody looks at.
CrawlDiscovers(u) ==
    /\ pc = "crawl"
    /\ u \in config.allowed \ (seen \cup plan.found)
    /\ seen' = seen \cup {u}
    /\ pending' = pending \cup {u}
    /\ rows' = EnqueuedRows(rows, {u})
    /\ queue' \in {queue, EnqueuedQueue(rows, queue, {u}, FALSE)}
    /\ UNCHANGED <<docs, snapshot, config, listed, pc, bypass, plan, task,
                   history, bounds>>

\* The crawler returns what it discovered or, after an error or with every
\* proxy blocked, nothing.  The sentinel may overtake the last discoveries,
\* which the loop puts into url_queue only at its next turn.
CrawlEnds ==
    /\ pc = "crawl"
    /\ \E kept \in {seen, {}} : plan' = [plan EXCEPT !.found = @ \cup kept]
    /\ pending' \in SUBSET pending
    /\ pc' = "drain"
    /\ UNCHANGED <<disk, listed, bypass, seen, task, history, bounds>>

\* run returns once the progressive processor has met the sentinel.
ProcessorDrained ==
    /\ pc = "drain"
    /\ pending = {} /\ InFlight = {}
    /\ pc' = "hydrate"
    /\ seen' = {}
    /\ UNCHANGED <<disk, listed, bypass, plan, pending, task, history, bounds>>

-----------------------------------------------------------------------------
\* The sitemap is unchanged, so nothing in it can be new.
DiscoveryIsSkipped ==
    Mode = "sitemap" /\ ~plan.changed /\ plan.hasPrevious /\ plan.hasDocuments

Discovered == IF DiscoveryIsSkipped THEN {} ELSE plan.found
KnownUrls  == Tracked(rows) \cap config.allowed
ForceSync  == bypass /\ plan.hasPrevious

\* The two enqueue_urls of _hydrate_queue_from_plan, of what was found and of
\* what is due, on top of what the force-sync block left queued.
EnqueueThePlan(left, found, due) ==
    /\ rows' = EnqueuedRows(rows, found \cup due)
    /\ queue' = EnqueuedQueue(rows, left, found \cup due, bypass)

Hydrate ==
    /\ pc = "hydrate"
    /\ \/ /\ ForceSync
          /\ EnqueueThePlan(KnownUrls, Discovered, plan.due)
          /\ promised' = plan.due \cup KnownUrls
       \/ /\ ~ForceSync
          /\ EnqueueThePlan(queue, Discovered, plan.due)
          /\ promised' = plan.due
    /\ pc' = "batch"
    /\ UNCHANGED <<docs, snapshot, config, listed, bypass, plan, seen, pending, task,
                   settled, bounds>>

\* The force-sync block clears the queue in one transaction and refills it in
\* others; when those fail the error is swallowed and the cycle goes on.
HydrateForceSkipped ==
    /\ pc = "hydrate" /\ faults < MaxFaults
    /\ ForceSync
    /\ \E left \in SUBSET KnownUrls : EnqueueThePlan(left, Discovered, plan.due)
    /\ promised' = plan.due
    /\ faults' = faults + 1
    /\ pc' = "batch"
    /\ UNCHANGED <<docs, snapshot, config, listed, bypass, plan, seen, pending, task,
                   settled, edits>>

\* What hydration leaves behind when it breaks off between its transactions,
\* which take the URLs in chunks.
BreaksOff ==
    \/ UNCHANGED <<rows, queue>>
    \/ /\ pc = "hydrate"
       /\ \E left \in IF ForceSync THEN SUBSET KnownUrls ELSE {queue},
             found \in SUBSET Discovered, due \in SUBSET plan.due :
                EnqueueThePlan(left, found, due)

-----------------------------------------------------------------------------
\* dequeue_batch and the gather over its result.
DequeueBatch ==
    /\ pc = "batch"
    /\ InFlight = {}
    /\ \E batch \in SUBSET queue :
           /\ batch # {}
           /\ Cardinality(batch) <= BatchSize
           /\ batch = queue \/ Cardinality(batch) = BatchSize
           /\ rows' = DequeuedRows(rows, batch)
           /\ queue' = queue \ batch
           /\ task' = [u \in Urls |-> IF u \in batch THEN "start" ELSE task[u]]
    /\ UNCHANGED <<docs, snapshot, config, listed, pc, bypass, plan, seen, pending,
                   history, bounds>>

\* Faulty: the next due date is written before the page is fetched.
BeginProcessPutsOff(u) ==
    /\ queue' = queue \ {u}
    /\ rows' = [rows EXCEPT ![u] = [NewRow EXCEPT !.wait = 1]]
    /\ task' = [task EXCEPT ![u] = "fetch"]
    /\ UNCHANGED <<docs, snapshot, config, listed, pc, bypass, plan, seen, history,
                   bounds>>

\* _process_url up to its first wait: filtered, skipped, or fetched.
BeginProcess(u) ==
    /\ queue' = queue \ {u}
    /\ \/ /\ u \notin config.allowed
          /\ rows' = PrunedRows(rows, u)
          /\ task' = [task EXCEPT ![u] = "none"]
       \/ /\ u \in config.allowed
          /\ ~bypass /\ RecentlyFetched(rows[u])
          /\ task' = [task EXCEPT ![u] = "none"]
          /\ UNCHANGED rows
       \/ /\ u \in config.allowed
          /\ bypass \/ ~RecentlyFetched(rows[u])
          /\ rows' = Touch(rows, {u})
          /\ task' = [task EXCEPT ![u] = "fetch"]
    /\ UNCHANGED <<docs, snapshot, config, listed, pc, bypass, plan, seen, history,
                   bounds>>

HandleUrl(u) ==
    /\ task[u] = "start"
    /\ BeginProcess(u)
    /\ UNCHANGED pending

\* The progressive processor works one URL at a time.
ProgressiveProcess(u) ==
    /\ pc \in {"crawl", "drain"}
    /\ u \in pending /\ InFlight = {}
    /\ pending' = pending \ {u}
    /\ BeginProcess(u)

\* check_and_fetch_page returned a page and has cached its document.
FetchReturns(u) ==
    /\ task[u] = "fetch"
    /\ docs' = docs \cup {u}
    /\ task' = [task EXCEPT ![u] = "store"]
    /\ UNCHANGED <<rows, queue, snapshot, config, listed, pc, bypass, plan, seen,
                   pending, history, bounds>>

RecordSuccess(u) ==
    /\ task[u] = "store"
    /\ \E delay \in RecheckDelays : rows' = SucceededRows(rows, u, delay)
    /\ task' = [task EXCEPT ![u] = "none"]
    /\ settled' = settled \cup {u}
    /\ UNCHANGED <<queue, docs, snapshot, config, listed, pc, bypass, plan, seen,
                   pending, promised, bounds>>

\* Faulty: the failed URL is queued again at once.
ProcessFailsRequeues(u) ==
    /\ task[u] \in {"fetch", "store"}
    /\ rows' = FailedRows(Touch(rows, {u}), u)
    /\ queue' = queue \cup {u}
    /\ task' = [task EXCEPT ![u] = "none"]
    /\ settled' = settled \cup {u}
    /\ UNCHANGED <<docs, snapshot, config, listed, pc, bypass, plan, seen, pending,
                   promised, bounds>>

\* No page, or an exception anywhere after the start.
ProcessFails(u) ==
    /\ task[u] \in {"fetch", "store"}
    /\ rows' = FailedRows(Touch(rows, {u}), u)
    /\ task' = [task EXCEPT ![u] = "none"]
    /\ settled' = settled \cup {u}
    /\ UNCHANGED <<queue, docs, snapshot, config, listed, pc, bypass, plan, seen,
                   pending, promised, bounds>>

QueueDrained ==
    /\ pc = "batch"
    /\ queue = {} /\ InFlight = {}
    /\ pc' = "done"
    /\ UNCHANGED <<disk, listed, bypass, plan, seen, pending, task, history, bounds>>

LeaveCycle(place) ==
    /\ pc' = place
    /\ bypass' = FALSE /\ plan' = NoPlan
    /\ seen' = {} /\ pending' = {} /\ task' = NoTask
    /\ promised' = {} /\ settled' = {}
    /\ UNCHANGED <<docs, snapshot, config, listed>>

CompleteCycle ==
    /\ pc = "done"
    /\ LeaveCycle("idle")
    /\ UNCHANGED <<rows, queue, bounds>>

\* An exception of the database or of the discovery ends the cycle.
CycleFails ==
    /\ pc \in Places \ {"down", "idle", "crawl", "drain"}
    /\ InFlight = {} /\ faults < MaxFaults
    /\ LeaveCycle("idle")
    /\ BreaksOff
    /\ faults' = faults + 1
    /\ UNCHANGED edits

-----------------------------------------------------------------------------
\* trigger_failed_retry before it triggers a cycle, with or without a limit.
RetryFailed ==
    /\ pc # "down" /\ edits < MaxEdits
    /\ \E chosen \in SUBSET WithStatus(rows, "failed") :
           /\ chosen # {}
           /\ rows' = EnqueuedRows(rows, chosen)
           /\ queue' = EnqueuedQueue(rows, queue, chosen, TRUE)
    /\ edits' = edits + 1
    /\ UNCHANGED <<docs, snapshot, config, listed, process, history, faults>>

PurgeQueue ==
    /\ pc # "down" /\ edits < MaxEdits
    /\ queue' = {}
    /\ settled' = settled \cup queue
    /\ edits' = edits + 1
    /\ UNCHANGED <<rows, docs, snapshot, config, listed, process, promised, faults>>

SitemapEdited ==
    /\ Mode # "entry" /\ edits < MaxEdits
    /\ listed' \in Sitemaps
    /\ edits' = edits + 1
    /\ UNCHANGED <<disk, process, history, faults>>

TimePasses ==
    /\ rows' = AgedRows(rows)
    /\ UNCHANGED <<queue, docs, snapshot, config, listed, process, history, bounds>>

Crash ==
    /\ pc # "down" /\ faults < MaxFaults
    /\ LeaveCycle("down")
    /\ BreaksOff
    /\ faults' = faults + 1
    /\ UNCHANGED edits

Restart ==
    /\ pc = "down"
    /\ pc' = "idle"
    /\ config' \in Configs
    /\ UNCHANGED <<rows, queue, docs, snapshot, listed, bypass, plan, seen, pending,
                   task, history, bounds>>

-----------------------------------------------------------------------------
Discovery ==
    \/ DeleteBlacklistedCaches \/ DeleteBlacklistedMetadata \/ ReadMetadata
    \/ SitemapFetched \/ SitemapUnavailable
    \/ \E u \in Urls : CrawlDiscovers(u) \/ ProgressiveProcess(u)
    \/ CrawlEnds \/ ProcessorDrained

Execution ==
    \/ Hydrate \/ DequeueBatch \/ QueueDrained \/ CompleteCycle
    \/ \E u \in Urls : \/ HandleUrl(u) \/ FetchReturns(u)
                       \/ RecordSuccess(u) \/ ProcessFails(u)

Engine      == StartCycle \/ Discovery \/ Execution
Environment == RetryFailed \/ PurgeQueue \/ SitemapEdited \/ TimePasses
Faults      == Crash \/ CycleFails \/ HydrateForceSkipped

Next == Engine \/ Environment \/ Faults \/ Restart

Spec == Init /\ [][Next]_vars

\* The event loop runs every ready task and every wait of the engine has a
\* timeout; cron or an operator starts cycles; a dead container is restarted.
FairSpec == Spec /\ WF_vars(Engine) /\ WF_vars(Restart)

-----------------------------------------------------------------------------
(* What the crawl database promises.                                       *)

\* A URL whose processing a kill interrupted is due: dequeue_batch destroys
\* the queue entry, and next_due_at is all that brings the URL back.
InterruptedWorkIsDue ==
    \A u \in WithStatus(rows, "processing") : rows[u].wait = 0

\* The queue never outlives the metadata: what is queued is tracked, also
\* when blacklisted rows are deleted behind the queue.
QueuedIsTracked == queue \subseteq Tracked(rows)

\* While the batch runs nothing that is being worked on is queued as well, so
\* no URL is in two batches at once, whatever the operator asks meanwhile.
InFlightNotQueued == pc = "batch" => queue \cap InFlight = {}

\* What a cycle planned as due is still queued or in flight, or was attempted
\* or taken back by the operator; when the cycle ends, nothing is left over.
CycleKeepsItsWord ==
    /\ pc = "batch" => promised \subseteq settled \cup queue \cup InFlight
    /\ pc = "done"  => promised \subseteq settled

\* For a URL the rules allow, and the blacklist does not sweep, the count of
\* failures is dropped by nothing but a success: not by queueing, a batch cut
\* short, a failed cycle, a crash, a restart or a purge of the queue.
FailuresAreRemembered ==
    [][\A u \in config.allowed \ config.swept :
          \/ rows'[u].retry >= rows[u].retry
          \/ rows'[u].status = "success"]_vars

\* The cycle implements the ledger: whatever happens, a URL that is due stays
\* due until an attempt at it ends, and leaves the ledger only when idle.
Ledger == INSTANCE RecrawlLedger
              WITH known <- Tracked(rows), owed <- Due(rows), working <- InFlight

RefinesLedger == Ledger!LedgerSpec

\* A URL that is due does not stay so for ever while the rules allow it:
\* through crashes, failed cycles, purges of the queue and restarts, some
\* attempt at it comes to its end (by RefinesLedger nothing else helps).
DebtsAreSettled ==
    \A u \in Urls :
        u \in Due(rows) /\ u \in config.allowed
            ~> u \notin Due(rows) \/ u \notin config.allowed

\* Every cycle ends: no URL is queued again by its own failure.
CyclesEnd == pc = "clean" ~> pc \in {"idle", "down"}

\* sync_scheduler.py says "Sitemap unchanged and URLs already tracked with
\* documents, will only check due URLs", and looks at no URL of the sitemap then:
\* those the rules allow ought to be tracked.
UnchangedMeansTracked ==
    pc = "hydrate" /\ DiscoveryIsSkipped => plan.found \subseteq Tracked(rows)
=============================================================================
