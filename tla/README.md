# docs-mcp-server in TLA+

docs-mcp-server mirrors documentation sites and repositories ("tenants"), indexes
what it has mirrored and answers searches over it. This directory models the
parts of it that run concurrently, are killed and restarted, or must not lose
work: the sync cycle of a tenant with its crawl database, the scheduling of
cycles, the lock between workers that crawl the same tenant, the export of git
tenants, the store of documents and the fetcher that fills it, the building,
publishing and serving of the search index, and the scripts that move and clean
up tenants. Pure functions whose results are discrete (names of pages, text and
ranking, configuration, the hub, the command line client) are modelled as operators and compared
with plain definitions. TLC checks the models on small instances; TLAPS proves
safety properties for all values of the constants.

    tlc -workers 2 -config CrawlHybrid.cfg MCCrawlSync     # one run
    tlapm CrawlSync_proofs.tla                             # one module of proofs

Paths below are relative to `src/docs_mcp_server/` unless they begin with `cli/`,
`docs/` or name a script of the repository's root.

## 1. Inventory

### Components

| Component | State | Operations | Modelled in |
|---|---|---|---|
| Sync cycle: `utils/sync_scheduler.py`, `sync_discovery_runner.py`, `sync_sitemap_fetcher.py` | the cycle's plan, the progressive processor's queue, `_bypass_idempotency` | plan, discover (sitemap, crawl, entry URLs), hydrate the queue, execute batches, process a URL, clean up what a blacklist names | CrawlSync |
| Crawl database: `utils/crawl_state_store.py`, `sync_metadata_store.py` | SQLite: `crawl_urls`, `crawl_queue`, `crawl_locks`, events, sitemap snapshots | upsert, enqueue, dequeue, requeue failed, purge, delete by prefix, record an event, locks | CrawlStore, CrawlerLock |
| Scheduling: `services/scheduler_service.py`, loop and gate of `sync_scheduler.py` | one service per tenant, its `_scheduler`, `_sync_in_progress`, one semaphore for all tenants | initialize, start, cron loop, trigger, retry failed, stop | SchedulerService |
| Progress: `domain/sync_progress.py`, `utils/sync_scheduler_progress.py` | the record of a sync, in memory and in the database | discover, enqueue, process, complete, fail, checkpoint, resume | SyncProgress |
| Crawler lock | one row of `crawl_locks` per tenant database | acquire, see stale, break, release | CrawlerLock |
| Index: `search/indexer.py`, `search/sqlite_storage.py`, `tenant.py`, `search/segment_search_index.py` | segment files, `manifest.json`, the index a server holds | build, save, publish, prune, audit, look, open, reload; what a build takes from a directory | SearchIndex, Indexing |
| Git export: `services/git_sync_scheduler_service.py`, `utils/git_sync.py` | clone, staging directory, export, askpass script, the lock of the syncer | clone, fetch, stage, remove and rename, record, rebuild, retry, stop | GitExport |
| Documents: `service_layer/filesystem_unit_of_work.py`, `adapters/filesystem_repository.py`, `service_layer/services.py` | staging directories, documents with their metadata files, in two layouts | get, list, add, commit by merging, roll back, delete | DocumentStore |
| Cache: `services/cache_service.py` | which documents are semantic candidates | look up, answer fresh or similar, fetch, store, mark failed | DocumentStore |
| Fetcher: `utils/doc_fetcher.py`, `utils/proxy_pool.py` | the active proxy, the one browser of a tenant | mirrors, static, browser, fallback service; rotate, block | DocFetcher |
| Ranking and text: `search/*`, `cli/internal/engine`, `cli/internal/snippet` | none | tokens, distances, phrases, bloom filter, synonyms, weights, snippets | SearchText |
| Paths and URLs: `utils/path_builder.py`, `url_translator.py`, `url_normalization.py`, `front_matter.py` | none | canonical URLs, file names, metadata names, mirrors | UrlPaths |
| Configuration: `deployment_config.py`, `config.py`, `tenant.py`, `app_builder.py` | the tenants, the mode | validate, override, build, serve, trigger, show | Deployment |
| Hub: `root_hub.py`, `registry.py`, `tenant.py` | registered tenants, the metadata made of them, `_docs_present` | register, list, describe, find a tenant, search, fetch | RootHub |
| Command line client (Go): `cli/` | none | registry, find a tenant, search one or all, fetch a document | Docsearch |
| Moving tenants: `sync_tenant_data.py` | archive, two manifests, two `deployment.json` | export, import, merge | TenantSync |
| Clean-up: `cleanup_segments.py` | a tenant's directory | sweep metadata, texts and marks | CleanupSegments |
| Observability, dashboard pages, debugging and deployment scripts | - | - | not modelled (section 8) |

### How they interact

The application (`app_builder.py`) reads the configuration and builds one tenant,
with one scheduler service, for each entry. The loop of an online tenant wakes for
cron instants, its endpoints accept triggers; both go through a guard (one cycle of a
tenant at a time) and a semaphore (N cycles at a time in the process). A cycle plans
from `crawl_urls`, discovers URLs from the sitemap and, if it gets the crawler lock,
from a crawl, fills `crawl_queue` and empties it in batches. Each URL of a batch is a call of the
cache, which looks its document up, fetches it (fetches share one proxy pool and one
browser) and stores it through a unit of work. The loop of a git tenant clones or
fetches its branch and replaces the tenant's whole directory, crawl database and
segments included. After that, a thread of the server or a process of the command line
(`trigger_all_indexing.py`) builds a segment of the documents, writes its name into the
manifest and prunes the other segments. A running server looks at the manifest every two
seconds and opens what it names; the Go client reads the same files. What processes share is
files and SQLite; nothing but the crawler lock keeps two of them apart, and the scripts that
move and clean up tenants look at no lock or only at that one.

### What is hard here

* Kills. `dequeue_batch` deletes queue entries before their pages are fetched;
  the sitemap's hash is saved before its URLs are queued; a builder commits,
  writes the manifest and prunes in three steps; a git export removes the old directory before
  it renames the new one; a commit moves files one by one; `deployment.json` is
  emptied before it is written.
* Interleavings. The progressive processor works beside the crawl that feeds it;
  operators retry and purge in the middle of a cycle; cron and triggers
  meet at the guard; workers meet at the lock; builders meet in a directory;
  two calls write one document; two fetches replace one browser; a crawl writes what an
  export copies.
* Swallowed errors. A failed force-sync block, manifest write, snapshot or document write
  is logged and the program goes on; a failed checkpoint leaves a record final in memory.
* Order and time. Backoff, recheck delays, idempotency and leases all
  compare stored instants with "now".
* Two of a kind. Discovery and the fetcher, both layouts, the server and the Go client,
  the configuration and the settings each have their own copy of one rule.
* Liveness. Every due URL must be tried in the end, every cycle and fetch must end, the
  gate must not starve a tenant, a lease left by a dead worker must go away, what is
  published or pushed must be served.

`hazards` in `PROJECT.json` lists these one by one, each at its line, with the
property that covers it or the reason why none does.

## 2. Plan

Done, in this order: CrawlStore, CrawlSync with RecrawlLedger as its abstract
specification, SchedulerService, CrawlerLock, SearchIndex; GitExport with GitMirror,
DocumentStore with DocumentCell, TenantSync, DocFetcher; the functions UrlPaths, SearchText,
Docsearch, RootHub, CleanupSegments, Indexing, SyncProgress, Deployment; then the proofs, of the machines
first and of the functions after them. What would add most next:

1. **Errors inside a batch**: a refinement of `DequeueBatch` in which
   `_mark_url_failed` raises, and `gather` leaves its siblings running.
2. A composition of CrawlSync and SearchIndex: a URL whose attempt succeeded is
   found in the index a server holds, once a build has followed.
3. Partial builds (`limit`, `changed_only`) in Indexing.
4. Searches in flight with their leases, should a search ever suspend.

## 3. The modules

| Module | What it is |
|---|---|
| `CrawlStore` | the tables `crawl_urls` and `crawl_queue`; one operator per committed transaction |
| `CrawlSync` | the sync cycle over them, the operator, the website, time, kills and restarts |
| `RecrawlLedger` | abstract: who is owed an attempt |
| `SchedulerService` | guard, gate, loops and triggers of all tenants, lifespan |
| `SyncProgress` | the record of a sync, as functions of its state |
| `CrawlerLock` | the lease between workers |
| `SearchIndex` | builders, manifest, pruning, audit, and the server that reloads |
| `GitExport` | the syncs of a git tenant, their callers and lock, the directory they replace |
| `GitMirror` | abstract: the documents are one revision, never an older one |
| `DocumentStore` | calls of the cache on one document, both layouts, staging and commit |
| `DocumentCell` | abstract: a document is replaced as one, by newer fetches |
| `DocFetcher` | fetches with their stages, the proxy pool, the browser they share |
| `TenantSync` | the scripts that export and import a tenant |
| `UrlPaths`, `SearchText`, `Docsearch`, `RootHub`, `CleanupSegments`, `Indexing`, `Deployment` | functions, with the definitions they are compared with |
| `MC*` | constants for TLC |
| `*_proofs` | inductive invariants and theorems; those of the functions are with the machine whose run evaluates them |

Definitions whose comment begins with "Faulty:" are wrong on purpose. No
specification uses them; each replaces its neighbour once to show that a
property notices (`mutants` in `PROJECT.json`).

### CrawlStore and CrawlSync

A row keeps relative times: `wait` (until `next_due_at`) and `age` (since
`last_fetched_at`), because the code only ever compares instants with "now".
`retry` saturates at `RetryCap`; `StoreAssumption` makes the cap large enough
that no backoff changes. An event about a URL that has no row inserts one
(`Touch`), which is why deleting the metadata of a filtered URL leaves a fresh
row (`PrunedRows`).

`pc` says where the cycle stands; each place is a point where the code really
waits. `clean`, `prune`: blacklisted documents and rows are deleted. `read`: the plan
is made from the metadata. `sitemap`, `crawl`, `drain`: discovery, with the
progressive processor (`pending`, at most one `task`) beside the crawl.
`hydrate`: found and due URLs are queued, in chunks that a kill can cut short
(`BreaksOff`). `batch`: `dequeue_batch` and the gather over its result, one
`task` for each URL (`start`, `fetch`, `store`). `Crash` and `CycleFails` can come at
every place; `Restart` may come with edited rules. `promised` and `settled` are
history variables. Rules name the URLs they allow, those a blacklisted prefix bans, and those
it sweeps: rows are deleted with `LIKE` (`crawl_state_store.py:787`), to which `_` is any
character and case is nothing, so that the row of an allowed URL may go too.

What the crawler finds is not modelled: `CrawlDiscovers` may hand over any
allowed URL, and `CrawlEnds` may return everything or nothing. The sentinel that
ends the processor may overtake the last discoveries (`pending' \in SUBSET pending`).

**RecrawlLedger** knows only `known`, `owed` and `working`. A debt is discharged
by an attempt that comes to its end, and in no other way, and a URL that is
worked on is not forgotten. `RefinesLedger` maps `owed` to the rows that are due: that a
kill at any point leaves every unfinished URL due is a consequence.

### SchedulerService

One action is what one task does until it suspends. `turn` names a task that goes on
without suspending: after a cycle the loop looks at the clock again without an
`await`. The semaphore is that of Python 3.12: `Release` hands the permit to the
first waiter (`woken`), nobody overtakes a woken waiter, and a woken waiter
wakes further ones if permits are free. `due` says that a cron instant lies after
`last_sync_at`; `later` that one has passed since the loop last read the clock.
`StartFails` leaves the scheduler object in place, as `initialize` does. `Spinning` is the state in which
a loop that is due finds its tenant busy with a triggered cycle: it asks again and again without an
`await`, keeps `turn`, and nothing else of the process moves.

### CrawlerLock

Each step of `_acquire_crawler_lock` is a transaction of its own: try, see that
the lease has expired, break it by name, try again. `left` is the time to
`expires_at`; a lease is never renewed. `ghost` owns a lease whose worker died.

### SearchIndex

A segment is named by the fingerprint of the documents in it, so a version of
the documents and its segment have one name. A build reads the documents, finds the file there or creates it
(the schema is committed before any row, so the file is `torn`), commits,
writes the manifest and prunes the rest. Another builder's pruning
may unlink a file that is being written (`lost`). The audit looks only at
the newest file (`newest`). A server looks at the manifest, checks that the file
is ready, and opens it by path; when it has been pruned in between, SQLite
creates an empty one. `mishaps` is a history variable: what has gone wrong so far (builders overlapped,
a manifest could not be written, a builder was cut off after its commit, a file
was orphaned). The properties say which mishap can break them.

Simplified: documents are read at one instant; partial builds (`limit`,
`changed_only`) are left out (the removal of the whole directory by a git sync is in GitExport);
of the files' mtimes only the latest is kept, and after that file is removed any other may
be the newest; the second pruning of the command line does what the first did.
Searches are left out: they run on the event loop without suspending, so
no reload falls into one.

### GitExport and GitMirror

`task` is what each caller of `_do_sync` does: the start of the server, the loop, a
trigger. `lock` is the syncer's lock with its queue, `stage` the step of the sync under way.
`base` is the tenant's directory: the clone (`.git_repo` lies inside what the export
replaces), the exported files, the revision the database names and the revision the manifest's
segment was built from. `rmtree` is two actions, part by part (`RemoveSome`) and the end of it; after a
shutdown the caller is cancelled and the exporting thread goes on (`Orphaned`). A sync that
fails sends the loop into its backoff, and a start to nothing. A git command may never end (`GitHangs`):
`_run_git` waits without a time limit, and the lock stays taken. `private` says that the repository
needs the token, and `script` that the askpass script is there. The mapping to GitMirror is
the revision in `base.docs`. `raced` is a history variable: a build that read the documents
before an export has written its segment after it.

### DocumentStore and DocumentCell

One document and the calls for it. A `get` chooses the layout and then reads text
and metadata in two awaited reads (`ReadText`, `ReadMeta`); `add` writes two staged files;
`commit` moves them without suspending, so only a kill or an error divides it. A fetch is
known by its number, so "newer" is a comparison and `expired` is how far back the interval
reaches. `mark_document_failed` writes back the whole document it has read. The
semantic candidates are listed once for each process (`known`).
DocumentCell sees what a reader is shown; its mishaps, marked in `excused`, are a commit that
was cut short, an error of the disk, and a call that wrote back what another has replaced.

### DocFetcher

A fetch is a record: the stage, the candidates left, the browser in its hands. Answers of the
site are what the loops tell apart: a page, a block, an exception, anything else, such as a status that is
not retried, which ends the pass. The proxy over which the site gives its pages is `good`; the others may
answer anything. `Close` and `Open` are the two awaited halves of `_activate_playwright_proxy`, and both may
fail; `raced` marks that two fetches were between them at once, `misled` what kept a fetch from the good
proxy's browser.

### TenantSync

The export walks the files (`seen`), looks at the crawler lock, stages copies, publishes the
archive and writes the manifest, each a step, while `Write` and `Crawl` change the files. The
import lists what only it has, saves it, opens the archive, extracts, restores and records.
A write gives its file a number it never had, as its mtime and size do; `writes` bounds them. Of
`deployment.json` the import makes a backup, empties the file and fills it, three steps each of which may fail,
which the script catches, or be the last before a kill. Backups are told apart by the second they were made in.

### The functions

UrlPaths models a URL as host, segments and query, each segment a word with an extension: what
normalisation does to them, what each layout calls them, and when two names are one.
SearchText takes words over a small alphabet and compares the edit distance with the words that
insertions, deletions and substitutions lead to, spans with all windows, the block-wise bloom filter with set
membership, weights with an order by frequency, length and rarity, snippets
and highlights with the text they came from. Docsearch is the Go client over the same operators.
RootHub is the hub over them: the registry, a dictionary with the metadata made of its entries; the
score of a query, whose texts are words with hyphens, in six-hundredths, so that every weight and
every tenth is a whole number; an app with its documents, its segment and what `_has_docs` remembers,
taken through events; the order in which `fetch` looks for a file, and the paths of a directory that
has moved. CleanupSegments is one sweep as a fold over the files in any order. Indexing is a build as
two such folds, over the metadata and then over the texts nothing has led to, with the rules and the
pruning of a build, the URL of a front matter, and the first document of a URL that stays; what a
build says of the documents' age is compared with what the client shows (`AgeIsShown`). SyncProgress takes a record
ten steps on, through operations, errors and kills, which is all there is for two pages. Deployment takes
every combination of a tenant's payload, the shared part and the environment through
validation, settings, construction and the endpoints. These modules are constant-level; their
properties are evaluated once, in the initial states of the run that extends them (`AtStart`).

Each property of a function is an operator of one input (`SpanIsLeast`, `HubMeans`, `ListFalls`), and the run
takes it over bounded inputs; section 6 takes the same operator over all of them. So that this can
be proved, loops are folds from the left or recursive functions, and a list in
some order is chosen by that order (`Sorted`) rather than computed by a sort.

## 4. The runs

| Run | Constants | What it shows |
|---|---|---|
| `crawl_hybrid` | 2 URLs, one a root; a restart may ban the other, and sweep the root with it; batches of 2; 1 fault, 1 edit or request; the sitemap lists both or none | `InterruptedWorkIsDue`: work cut short is due; `InFlightNotQueued`: no URL is in two batches; `CycleKeepsItsWord`: a completed cycle has attempted all it planned; `FailuresAreRemembered`; `RefinesLedger` |
| `crawl_live` | 2 URLs, a sitemap that may grow, batches of 2, 1 fault, 1 edit or request; a restart may narrow the rules, a row is swept; fair | `DebtsAreSettled`: a due URL is attempted in the end; `CyclesEnd` |
| `gate_safety` | 3 tenants, 3 with cron, 2 with triggers; gate of 2; 1 shutdown or kill; records of 2 pages | `OneCyclePerTenant`, `PermitsAreConserved`, `FlagIsTrue`; `ProgressIsKept`: the record of a sync loses nothing it counted and ends completed after errors |
| `gate_live` | 3 tenants, with cron, with both, with triggers; gate of 1, fair | until a loop spins, `GateIsFair`, `TriggersEnd`, `TicksAreServed` |
| `lock_leases` | 3 workers, lease 4, crawls up to 3, 3 faults, fair | `LeaseIsBacked`, `CrawlsExclude`, `GhostsVanish` |
| `index_publish` | 2 versions; a thread and a command-line builder; 1 error; fair. Words of 4 letters, texts of 8, directories of 3 files to sweep and 2 to build, queries of 2 terms, 4 events of an app | `ManifestIsReadable`, `OkMeansCurrent`, `PublishedIsServed`; `SearchAgrees`: distances, filters, terms, weights, snippets, phrases and highlights are what their plain definitions say; `ClientAgrees`: what the client and the hub list, mean and rank is what is there; `SweepSettles`: clean-ups and builds of a directory settle |
| `git_export` | 2 revisions, a public or private repository, 3 failures, hanging commands, kills or shutdowns, fair | `RecordsMatchDocs`, `MirrorsTheBranch` (GitMirror); unless a command hangs `CallersAreAnswered` and, unless the askpass script is lost, `TenantCatchesUp` |
| `documents` | 2 calls, 3 fetches, 1 kill or disk error; symmetric calls | `ReplacedAsOne` (DocumentCell), `FreshMeansFresh`, `StoredIsOnDisk`, `CleanupForgets` |
| `fetches` | 2 fetches, no proxy and two, 2 browsers, 1 retry, fair. Paths of 2 segments, codenames of 6 characters | `GoodProxyIsFound`: but for named obstacles a fetch reaches the good proxy; `NoBrowserIsLost`, `FetchesEnd`; `NamesAgree`: text, metadata, layouts and mirrors agree on the name of a page, and rows with files for tenants that ignore queries; `DeploymentIsServed`: what the configuration accepts becomes a server |
| `tenant_sync` | 2 files, 2 writes, 1 tenant of each machine | `SkippedExportIsCurrent`, `SkippedImportIsComplete`; `OwnTenantsAreKept`: they are in `deployment.json` or in a backup of it |

Two runs show where the code's own words say more than it does:

| Run | Claim | What happens |
|---|---|---|
| `stale_hits` | `services/cache_service.py:321`: "Implements the caching strategy with proper TTL enforcement." | A document past its interval is itself among the semantic candidates and answers for its own URL |
| `unchanged_sitemap` | `utils/sync_scheduler.py:477`: "Sitemap unchanged and URLs already tracked with documents, will only check due URLs" | A process is killed, or a cycle fails, after the new sitemap's hash is saved and before its URLs are queued: the next cycle finds the sitemap unchanged and drops a URL that has no row |

### Bounds, and why they are enough

`MaxFaults`, `MaxLosses`, `MaxEdits`, `MaxStops` and `MaxErrors` bound kills, errors and the
operator's requests; `MaxRevision`, `MaxFetches` and `MaxWrites` what comes from outside;
`MaxBrowsers` browsers that run at once, `RetryCap` is assumed to change
no backoff, `CrawlLimit` bounds a crawl's duration. Cycles, ticks, document changes, builds,
syncs and calls are unlimited. Two URLs let one be in flight, banned or failed while the
other is queued or discovered, and batches of two take both, or one while the other is being
found. `Sitemaps` bounds what the website lists: all or nothing in `crawl_hybrid`, a list that may grow in the
others. The registries are compared for any entry beside a brief one (`Brief`). Ticks are hours:
intervals of one or two separate "due",
"not yet due" and "recent". Three tenants before a gate of two give a holder,
a woken and a sleeping waiter at once; with one permit they queue up. Two workers are enough
for a stolen lease, three for a queue at a stale one. Two versions and two
builders give an old and a new segment and every overlap. Two revisions make an old and a
new export; three faults a kill inside an export that follows a failed one. Two calls
and three fetches give a reader, a writer and what was there before; two fetches and two
proxies a rotation beside a rotation. Two files and two writes change one file
behind the walk and one before it. The functions take inputs long enough for each of their
branches: the longest texts have a window cut at both ends, the longest codenames are truncated.
The theorems of section 6 do not depend on these numbers.

No run turns deadlock checking off: the clock, the website and the operator can always move.

## 5. Fairness

* `CrawlSync!FairSpec`: weak fairness of the engine as a whole and of restarts.
  The event loop runs every ready task, every wait has a timeout, cron
  or an operator starts cycles, the container has a restart policy. Nothing is assumed of single URLs: that
  each one gets its turn follows from finite queues.
* `SchedulerService!FairSpec`: strong fairness of each task. asyncio runs
  ready tasks in order, but another task can hold the `turn` in between, so a task is
  enabled again and again rather than continuously. A loop that spins disables the others for good,
  and the properties end there (`Spinning`). That cycles end is
  taken from `CyclesEnd`. Nobody is obliged to trigger anything.
* `CrawlerLock!FairLockSpec`: time passes, crawls end, workers try again.
* `SearchIndex!FairSpec`: a server looks at the manifest and opens
  what it has found, a build that has begun goes on; nobody has to begin one.
* `GitExport!FairSpec`: the event loop and the exporting thread go on, sleeps end,
  cron instants come, a server that has gone down is started again. Git commands end, or hang
  for good: nothing in the code limits their time, and without a token nothing keeps git from asking for
  a password, so that this is an action (`GitHangs`) and both liveness properties except it. `TenantCatchesUp` is about a
  running loop; that a failed start leaves none is in section 7.
* `DocFetcher!FairSpec`: every request, page and attempt of a fetch has a timeout, so a
  fetch that has begun takes its next step. Nobody has to ask for a page.

## 6. What is proved

Every safety property that a passing run checks, and the three refinements, are theorems:
they hold for every value of the constants that satisfies the named assumptions. These are
`StoreAssumption`, `SyncAssumption`, `ServiceAssumption`, `LockAssumption` and
`IndexAssumption` (sizes and bounds are numbers); those of GitExport, DocFetcher, TenantSync,
DocumentStore and SyncProgress (calls, tasks and pages are finitely many, and the marks
for "no file" and the like are not themselves documents); and of the functions: a snippet's context is
not empty and covers the client's scan for the end of a word (`SnippetsAssumption`), a word has finitely many synonyms
(`SynonymsAssumption`), pages are finitely many and no prefix of a whitelist
begins the URL of a file (`PagesAssumption`, `WhitelistsAssumption`), the longest codename has two characters at least
(`NameSizeAssumption`), and names are written in the letters that are compared (`NamePartsAssumption`).

The machines first, each by an inductive invariant:

* **CrawlSync**: `TypeCorrect`, `InterruptedIsDue`, `QueueIsTracked`,
  `NoDoubleWork`, `WordIsKept`, `FailuresRemembered`, `AllowedStayTracked` (a row of a URL that is allowed
  and not swept is never lost), and
  `CycleImplementsLedger`: the cycle implements RecrawlLedger. The invariant
  adds to the properties that pending work and work in flight have a row
  (`WorkIsTracked`), that tasks exist only at the places that run them and the processor
  runs one (`WorkHasItsPlace`), that what a batch works on is marked `processing` and off the queue
  (`BatchIsMarked`; without it an operator's retry could queue a URL in flight),
  and that the due URLs of a plan stay allowed, and due unless they were attempted,
  until hydration queues them (`PlanIsFresh`, `PromisesAreAllowed`). The lemmas about the
  transactions of CrawlStore come first.
* **SchedulerService**: `TypeCorrect`, `CyclesExclude`, `FlagStaysTrue`,
  `PermitsStayConserved`, `GateStaysRespected`. The invariant adds that the queue holds each
  waiter once and only waiters (`InLine`), that permits and holders sum to the
  size of the gate (`Accounted`), that at most one task of a tenant
  is engaged (`OneEngaged`) and that a service that did not come up has no loop (`LoopLives`).
* **SyncProgress** (in `SchedulerService_proofs`): `CountsStayTrue`, about a record in any use;
  `RecordStaysKept`, about a scheduler in any order of `Steps` from an empty database; and
  `ProgressStaysKept`, that what the run evaluates holds for any finite set of pages. The invariant
  (`RecordInv`) says what a record in memory and the one in the database have in common at each place
  a checkpoint may fail: which of the two is ahead, by how much, and that only a final record is left behind.
* **CrawlerLock** (in `CrawlSync_proofs`): `LockTypeCorrect`, `LeasesAreBacked`, `ShortCrawlsExclude`.
  What makes the last inductive is arithmetic: before a fault the time a crawl has taken and the time
  its lease has left add up to the lease (`LeasesCoverCrawls`).
* **SearchIndex**: `TypeCorrect`, `PublishedFileStays`, `PublishedIsWhole`,
  `OkIsTrue`. The invariant adds that builders work one at a time unless they have
  overlapped (`OneBuilds`), that only what is being written is torn
  (`TornIsWritten`), that a builder about to prune has published and one
  that writes has not (`ManifestInStep`), and that between builds there is no
  file but the one the manifest names (`NothingElseIsLeft`), which is what makes the
  audit's look at the newest file tell the truth.
* **GitExport**: `TypeCorrect`, `RecordsMatch`, `WaitersAreQueued`, and `SyncsMirror`: the syncs
  implement GitMirror. The invariant adds that between fetch and rename a sync holds a revision that is no older than
  the newest export, in the clone first and then in the staging directory (`NewerIsHeld`): the
  next export can neither be torn nor go back, whoever called and whatever was cancelled; and
  that the queue of the lock has each caller once, exactly while it is in a sync (`QueueIsTrue`).
* **DocumentStore**: `TypeCorrect`, `AnswersAreFresh`, `StoredIsRead`, `CleanupIsFinal`, and
  `StoreIsACell`: the calls implement DocumentCell. The invariant says what each call holds at each
  place (`CallsFit`), and that until a mishap both layouts hold whole documents, the old layout one
  from before, no two calls bring the same page, and a page in hand is newer than what a reader gets
  when it is written (`DiskIsWhole`).
* **TenantSync**: `TypeCorrect`, `SkippedExports`, `SkippedImports`, `OwnTenantsKept`. The
  invariant follows a file from the walk to the target: an entry that names a file as it is at the
  source has been noted after its last write, because a write gives a number that no entry
  knows (`NothingAhead`), so the file is staged, packed and in the archive (`SeenIsPacked`,
  `NamedIsPacked`), every archive that an import opens has it (`NamedIsOpened`), and the
  import has brought it by the time it records its entry (`EntryIsBrought`, `ImportedIsThere`). An import that
  empties `deployment.json` has backed it up before, unless an older backup has the tenants already (`OwnInv`).
* **DocFetcher**: `TypeCorrect`, `NoneIsLost`, `GoodIsFound`. While the fetcher is entered there is no browser and
  nobody has one (`NothingBeforeEnter`); until two fetches replace the browser at once, the one
  that does closes the browser there is, and opens the next when there is none (`OneReplaces`). A fetch that goes
  on has the proxy the site answers over still before it (`GoodIsAhead`): wherever the shared pool
  stands when it begins, its round comes past every proxy (`CandidatesAreAll`), until an obstacle marks it
  as `misled`.

The functions, each for inputs of any size where the run takes bounded ones. The library's theorems of induction
are not within the provers' reach (they take an operator as a parameter), so induction is stated as a
fact about a set: a set of numbers that has 0, and with k has k + 1, has all up to n (`UpTo`), which follows from
the least element of what is missing (`NatLessThanWellFounded`, `WFMin`). A fold or a recursive function is then
replaced by the list or the function of its intermediate results, once its
existence is proved (`FoldExists`, `RecursionExists`, `FlattenIs`), and each step of the code is a lemma about two
neighbours in it. Where no number falls, as when the window of a phrase moves, the order is that of strict subsets.

* **UrlPaths** (in `DocFetcher_proofs`): `NamesDoAgree`, the run's property for URLs of any words,
  domains and depth, and `OneNameOnePage`: URLs that share a row, or a file of the hashed layout,
  share a file of the nested one.
* **Deployment** (in `DocFetcher_proofs`), for any number of tenants where the run takes two:
  `BuiltAsAlone`, `AnsweredAsAlone`, `AcceptedAreBuilt`, `ModesAreKeptByAll`, `FallbackAnswersAll`; the
  last needs a tenant that is not a git tenant: a git tenant has no settings that would ask the fallback.
  `CodenamesAreAccepted`, for names of any length and characters, completes `AcceptedIsAlwaysServed`, the
  run's property `DeploymentIsServed`.
* **CleanupSegments** (in `SearchIndex_proofs`, as Indexing, Docsearch and RootHub): `SweepsInAnyOrder`,
  about the sweep as a machine that visits the files one by one (the invariant `Sweeping` says what is
  left by what has been read), and `SweepsSettleForAll`: the fold takes these steps, so a sweep leaves
  exactly what the rules allow, a second one drops what has lost its page, and a third changes nothing,
  each in any order.
* **Indexing**: `BuildsInAnyOrder`, about a build as such a machine (`Building`), and `BuildsAgreeForAll`: the
  two folds of a build have exactly what can be indexed, each URL once, and a second build, and one
  after a clean-up, have it again. With the sweep this is `SweepAlwaysSettles`, the run's `SweepSettles`.
* **SearchText** (in `SearchText_proofs`, which also has what all these proofs share):
  `DistancesAreExactForAll`: the rows of the server and of the client, which give up early and may swap
  the words, say "within k" exactly of what k edits lead to. `FilterLosesNothingForAll`: through bytes
  and signed blocks the filter passes a position exactly if it was set. `WordsAreFoundForAll`, for any
  corpus and query; `WeightsAgreeForAll`, for any frequencies, lengths and averages;
  `MatchesAreShownForAll`, for any text, wherever its words and sentences end. `SpanIsLeastForAll`: the
  window that moves its lowest end on passes the shortest one. The lists it moves over lose no window
  that could be shorter, which is an induction over what the lists still have ahead.
  `PhraseIsRewardedForAll` and `IsCleanForAll`: the bonus, and the highlights of any text, matches and
  links. Together they are `SearchAlwaysAgrees` (in `SearchIndex_proofs`), the run's `SearchAgrees`.
* **Docsearch**: `ServerFindsMoreForAll`: what the client finds the server finds, of any query without a
  slash. With one this is false: `PathAnalyzer` (`search/analyzers.py:241-287`) then divides the query
  where the client stems it. `RegistryIsHonestForAll`, for any disk and sequence of entries;
  `NamesAreMeantForAll`: the whole score is exactly a named tenant's, and half of it the most of one
  that has no display name and none of its parts in the query (a name of three parts, two of them in the
  query, has 360 of 600, which is more than half); `BestAreKeptForAll` and `ListFallsForAll`, about the
  heap and the list made of it; `NamedTenantIsFirstForAll`, for hits of any scores and number, whose scores
  are compared as exact fractions, and in whatever order equal ones end up;
  `AgeIsShownForAll`, `DocumentIsReachedForAll`.
* **RootHub**: `RegistryStaysCurrent` and `AllAreDescribed`, about a registry under any sequence of
  registrations and questions; `RegistersAgreeForAll`: hub and client make of two entries
  the same tenants and descriptions, and the same public prefixes where the hub has any;
  `EmptyMeansTooEarly`, about an app under any sequence of events, with an invariant (`AppIsHonest`)
  that says when `_has_docs` may remember a no, and `EmptyIsExplainedForAll`, the same of the fold;
  `PageIsFetchedForAll`, `MovedFilesAreFound` and `MovedFileIsFetchedForAll`, for paths of any length;
  `BestIsFoundForAll`: the tenants found are the best, in order. `HubMeansForAll`: a codename, or a
  typing error away from it, has the whole score, and whom the client lists is above the hub's
  threshold, unless the query has the codename as one word of several (section 7). It holds of queries
  of up to 14 terms. Of 15 it is false: one typing error is then worth exactly the 60 that is not
  enough. With Docsearch this is `ClientAlwaysAgrees`, the run's `ClientAgrees`.

No step of a proof is assumed. Only model-checked are:

* the liveness properties (`DebtsAreSettled`, `CyclesEnd`, `GateIsFair`, `TriggersEnd`, `TicksAreServed`,
  `GhostsVanish`, `PublishedIsServed`, `TenantCatchesUp`, `CallersAreAnswered`, `FetchesEnd`): the
  prover has no rules of fairness and ENABLED;
and `TtlIsEnforced` and `UnchangedMeansTracked` do not hold (section 4).

## 7. Divergences met without a run of their own

Each was met while modelling and the models have the code's behaviour; the properties exclude the
case by a guard or a history variable that says so.

The sync cycle and its scheduling:

* A failed URL that discovery finds again is queued before its backoff is over:
  `crawl_state_store.py:599-610` passes over a row only after a success, while
  `sync_scheduler_metadata.py:67` says what a backoff is for.
* A filtered URL stays tracked: `delete_url_metadata` (`crawl_state_store.py:732-745`)
  records an event in the same transaction, which inserts the row again (`:330`).
* `initialize` answers True after a start that failed, because the
  scheduler object is there (`services/scheduler_service.py:144`, `:148`).
* `stop` calls `SyncScheduler.stop`, which does not exist
  (`services/scheduler_service.py:189-191`); `gather` in the lifespan keeps the error.
* `git_sync.py` calls its export atomic, but removes the old directory and then
  renames the new one (`:275-276`).
* After a failed first sync "will retry" is logged
  (`services/git_sync_scheduler_service.py:173`) and nothing retries.
* A segment file without content is taken for complete by every later build of
  the same documents (`search/sqlite_storage.py:279-283`).
* Builders that overlap prune each other's segments, and a build whose manifest
  could not be written prunes the segment the old manifest names. The mishaps
  `overlap` and `unpublished` stand for these: without them the manifest would
  name a file that is gone.
* Nothing calls `BootAuditService`; `docs/explanations/architecture.md:27` draws
  it in the lifespan, `docs/how-to/boot-index-audit.md:24` says that it is gone.
* A blacklisted prefix is deleted as a `LIKE` pattern (`utils/crawl_state_store.py:787-792`) and compared with
  `startswith` (`config.py:429-434`): the rows of allowed URLs that differ in case, or where the prefix has an
  underscore, go too, with their failures and, while the sitemap does not change, until something finds them again.
* Dequeueing sets the status to `processing`, which the test for a recent success no longer
  recognises (`utils/sync_scheduler.py:961`, `:1004`: "URLs fetched within the schedule interval will be skipped").
* A cron instant during a manual cycle: the guard answers at once, the loop goes round without
  suspending, and the manual cycle never runs again, nor does anything else of the process
  (`utils/sync_scheduler.py:260-262`, `:298`, `:329`). `gate_live` reaches this state (`Spinning`), and its three
  properties speak of the time until then: `TriggersEnd` without that exception is false.
* Breaking a stale lock goes by name and removes the fresh lease another worker took in between
  (`utils/sync_scheduler.py:674`; `docs/how-to/debug-crawlers.md:177`: "stays `contended` until the TTL expires").
* `start_fetching` and `_record_progress_failed` are called by nothing: phases stay
  "discovering" and failures are not recorded. A checkpoint that fails after `mark_completed` makes
  `_fail_progress` raise, and the next cycle begins on a final record; an error of a checkpoint marks
  a processed URL as failed.

The index:

* A build removes the metadata of a URL that is not allowed and leaves the text
  (`search/indexer.py:495`); the next build may take the text under the URL of its front matter or its file.
  Which of two texts with one URL is indexed depends on the order in which files are listed.
* The audit says "ok" of a file that was written and never published
  (`search/indexer.py:283`; `docs/how-to/boot-index-audit.md:19`).

Git tenants:

* A first sync that fails, for want of a token for instance, is not tried again until
  somebody triggers it; a trigger that finds the tenant not initialized syncs twice.
* A kill during `git clone` leaves a `.git` without a commit, and every later sync fails on it.
* The askpass script lies in the directory the export removes (`tenant.py:693-704`), and its path is remembered
  (`utils/git_sync.py:374`): of a private repository the first sync of a process works and every later one fails,
  against `docs/how-to/configure-git-tenant.md:167`, "For private repos, set `git_auth_token_env` and pass the token".
  `TenantCatchesUp` excepts the loss by name (`ScriptIsLost`) and is false without the exception.
* Git commands have no time limit (`utils/git_sync.py:333-344`) and run under the syncer's lock: one that hangs
  leaves the start of the server and every trigger waiting.

Documents and fetches:

* A commit cut short leaves the metadata of one fetch and the text of another; `add` logs an
  `OSError` and the commit takes the empty file, which raises in every later `get`.
  `cleanup_orphaned_staging_dirs` is called by nothing.
* A fresh hit is a page with an empty text, for a document read from disk has its words in `markdown` only
  (`services/cache_service.py:153`, `adapters/filesystem_repository.py:523`); a hit of the semantic cache has its
  title as text (`adapters/filesystem_repository.py:238`).
* When no candidate of a rotation opens, the browser is not opened again for this fetch or a later one
  on the same proxy; `ensure_ready` sets `_fetcher` before it enters it. Two rotations at once leave a
  browser running. A status that is not retried, or a page too thin to extract, ends the round over the proxies and
  marks the proxy it came over as the active one (`utils/proxy_pool.py:8-9`, `:96`, `utils/doc_fetcher.py:404-416`), though
  `docs/reference/deployment-json-schema.md:50` says "blocked or failed proxies rotate round-robin". A markdown mirror that is
  blocked over every proxy ends the whole fetch.

Names:

* The crawl database keys rows without the query while the tenant keeps queries by
  default (`deployment_config.py:480-485`, `utils/crawl_state_store.py:301`): one row, several files.
* `guide.MD` and `guide.md` share metadata (`utils/path_builder.py:192`); `_truncate_path` does not
  bound a long file name.
* The client's `fetch` ignores the query of a URL.

Search:

* A query with a slash is divided at it by the server and stemmed by the client, which can so find what the
  server does not (`search/analyzers.py:241-287`).
* `cli/internal/engine/analyzer.go` says "Matches Python's StandardAnalyzer behavior" and splits words at
  apostrophes, which `search/analyzers.py` keeps; the client ranks with k1 = 1.5, the server with 1.2.
* A query that repeats a word never gets the phrase bonus (`search/bm25_engine.py:188`); a stemmed query
  meets path segments that are not stemmed and is saved by the fuzzy match only
  (`search/analyzers.py:241-252`); synonyms are not stemmed.
* `search_all.go`'s "matched tenant's results always outrank unmatched" does not hold of
  partial matches; `fuzzyMaxDist` of `find.go` is dead, and its "whole-word matching" is undone by
  substring matches on description and URL.

The hub:

* Scores end at 1.0, so that "Codename gets highest weight" (`root_hub.py:38`) is undone for whoever has the
  query in any text (`:87`); ties go by registration, and the ten best may lack the tenant that was named.
* `_docs_present` keeps a no (`tenant.py:298`): a tenant searched before its documents came answers with
  nothing, and builds nothing, until another process has built its segment or the server is started again.
* `fetch` looks in the hashed layout first (`tenant.py:464`) and the repository in the nested one; a file
  there that cannot be read hides the indexed body.
* The hub's prefixes are those of the whitelist (`registry.py:134-137`); the client's fall back to the entry or sitemap
  URLs and are of http or https only (`cli/internal/tenant/registry.go:313-323`). `HubMeans` compares the scores of the
  two over the same texts; where their texts differ, so may what they find.
* Hits with the same score come in any order (`cli/internal/engine/search_all.go:138`: a sort that is not stable, over
  hits in the order the goroutines end), so that the end of a list that is cut off may differ from call to call.
* A query longer than the codename ("django-docs" of "django") finds the tenant at the client and not at the hub.
* A file below a directory named like the tenant may be mistaken for another after the directory has moved.

Configuration:

* An online or git tenant without `docs_root_dir` is accepted and ends the start with a
  `TypeError` (`tenant.py:66`, `:90`; `docs/reference/deployment-json-schema.md:98` says that it is required);
  the single tenant of the environment is always such a one.
* `article_proxies: ""` "to fetch directly" (`deployment_config.py:512-518`) is undone by
  `ARTICLE_PROXIES` in the environment. A `docs_root_dir` with a tilde is expanded by the scheduler and
  not by the search. An invalid `OPERATION_MODE` raises outside the handler of `_load_config`.
* `retry-failed` and `purge-queue` answer 500 for git tenants. A schedule `""` starts a loop without cron.

Scripts:

* A file that is made and deleted between the snapshot and the copy stays in the archive; two
  exports at once share one temporary name; tenants removed at the source come back as local ones.
* After an import that was killed, or failed, while it wrote `deployment.json` the next one takes the torn file for
  empty: the machine's own tenants are then in the backup only, against "preserving local-only tenants"
  (`sync_tenant_data.py:809`) and "This merges the remote deployment.json with local-only tenants" (`:811`). A local
  file that cannot be restored is lost and the import counts as complete (`:776`).
* A clean-up may remove the text of an entry it has kept, when a later one that is not allowed
  shares it; the metadata goes in the next sweep. It keeps the latest segment files without asking
  the manifest.

## 8. Not modelled

* Errors of SQLite inside a batch, where `gather` lets siblings run on (plan, 1).
* `crawl_events`, debug snapshots, VACUUM, logs, metrics and traces: nothing reads
  them back.
* HTTP, extraction of articles, rendering of pages: input and output.
* BM25 scores: floating-point numbers (scores of tenants are counted in six-hundredths). What the order of results depends on is in SearchText and
  Docsearch; the values are not.
* Searches and their leases: they run on the event loop without suspending.
* Characters: percent-encoding, Unicode, digests that collide, YAML.
* `debug_multi_tenant.py`, `deploy_multi_tenant.py`, `scripts/`, the integration scripts: they drive the
  program through its interfaces, run containers or report, and keep nothing of their own.
* Offline tenants have no scheduler; their index is covered by SearchIndex.
