------------------------------ MODULE CrawlStore ------------------------------
(***************************************************************************)
(* The per-tenant crawl database of docs-mcp-server                        *)
(* (src/docs_mcp_server/utils/crawl_state_store.py): the table crawl_urls, *)
(* one row per tracked URL, and the table crawl_queue.                     *)
(*                                                                         *)
(* Every operator below is what ONE committed SQLite transaction makes of  *)
(* the two tables; the modules that EXTEND this one say when the           *)
(* transactions happen and what may come between them.                     *)
(*                                                                         *)
(* Time is relative.  The code stores the instants next_due_at and         *)
(* last_fetched_at and only ever compares them with "now", so a row keeps  *)
(*   wait   the ticks left until next_due_at (0: due), and                 *)
(*   age    the ticks since last_fetched_at, up to ScheduleInterval, which *)
(*          also stands for "never fetched".                               *)
(***************************************************************************)
EXTENDS Integers, FiniteSets

CONSTANTS
    Urls,               \* the canonical URLs a tenant may ever see
    ScheduleInterval,   \* schedule_interval_hours, in ticks
    RecheckDelays,      \* the delays _calculate_next_due can return
    MaxBackoff,         \* max_sync_interval_days * 24, in ticks
    RetryCap            \* bound: retry_count saturates here

ASSUME StoreAssumption ==
    /\ IsFiniteSet(Urls) /\ Urls # {}
    /\ ScheduleInterval \in Nat \ {0}
    /\ RecheckDelays \subseteq Nat \ {0}
    /\ MaxBackoff \in Nat \ {0}
    /\ RetryCap \in Nat \ {0}
    /\ 2 ^ (RetryCap - 1) >= MaxBackoff    \* saturation changes no backoff

Status == {"absent", "pending", "processing", "success", "failed"}

\* No URL is ever put off for longer than these.
Waits == (0 .. MaxBackoff) \cup UNION {0 .. d : d \in RecheckDelays}

\* A row of crawl_urls; the status "absent" says that there is no such row.
Row == [status : Status, wait : Waits, retry : 0 .. RetryCap,
        age : 0 .. ScheduleInterval]

NoRow   == [status |-> "absent",  wait |-> 0, retry |-> 0, age |-> ScheduleInterval]
NewRow  == [status |-> "pending", wait |-> 0, retry |-> 0, age |-> ScheduleInterval]

Tracked(rows)   == {u \in Urls : rows[u].status # "absent"}
Due(rows)       == {u \in Tracked(rows) : rows[u].wait = 0}
WithStatus(rows, s) == {u \in Urls : rows[u].status = s}

\* was_recently_fetched and the idempotency test of _process_url.
RecentlyFetched(row) == row.status = "success" /\ row.age < ScheduleInterval

-----------------------------------------------------------------------------
\* _record_event_sync: recording an event about a URL INSERTs its row, as
\* pending and due, when there is none.
Touch(rows, us) ==
    [u \in Urls |-> IF u \in us \ Tracked(rows) THEN NewRow ELSE rows[u]]

\* Faulty: a success is never enqueued again, even when it is due.
EnqueueableNoSuccess(rows, us, force) ==
    {u \in us : force \/ rows[u].status # "success"}

\* enqueue_urls: without force a success that is not due yet is left alone.
Enqueueable(rows, us, force) ==
    {u \in us : force \/ ~(rows[u].status = "success" /\ rows[u].wait > 0)}

EnqueuedRows(rows, us)               == Touch(rows, us)
EnqueuedQueue(rows, queue, us, force) ==
    queue \cup Enqueueable(Touch(rows, us), us, force)

\* Faulty: the row keeps the due date it had.
DequeuedKeepsWait(rows, batch) ==
    Touch([u \in Urls |-> IF u \in batch \cap Tracked(rows)
                          THEN [rows[u] EXCEPT !.status = "processing"]
                          ELSE rows[u]],
          batch)

\* Faulty: the row keeps the status it had.
DequeuedKeepsStatus(rows, batch) ==
    Touch([u \in Urls |-> IF u \in batch \cap Tracked(rows)
                          THEN [rows[u] EXCEPT !.wait = 0]
                          ELSE rows[u]],
          batch)

\* Faulty: the row starts over, as if it had never failed.
DequeuedResets(rows, batch) ==
    Touch([u \in Urls |-> IF u \in batch \cap Tracked(rows)
                          THEN [rows[u] EXCEPT !.status = "processing", !.wait = 0,
                                               !.retry = 0]
                          ELSE rows[u]],
          batch)

\* dequeue_batch marks what it hands out "processing" and due at once.
DequeuedRows(rows, batch) ==
    Touch([u \in Urls |-> IF u \in batch \cap Tracked(rows)
                          THEN [rows[u] EXCEPT !.status = "processing", !.wait = 0]
                          ELSE rows[u]],
          batch)

\* delete_url_metadata deletes the row and then records an event about the
\* URL in the same transaction, which INSERTs a fresh row.
PrunedRows(rows, u) == Touch([rows EXCEPT ![u] = NoRow], {u})

\* delete_urls_by_prefixes records no event: the rows are really gone.
WithoutRows(rows, us) == [u \in Urls |-> IF u \in us THEN NoRow ELSE rows[u]]

\* _update_metadata with status "success", then the event.
SucceededRows(rows, u, delay) ==
    [rows EXCEPT ![u] = [status |-> "success", wait |-> delay, retry |-> 0, age |-> 0]]

\* min(2 ** (retry - 1), max_backoff_hours)
Backoff(retry) ==
    IF 2 ^ (retry - 1) \in 1 .. MaxBackoff THEN 2 ^ (retry - 1) ELSE MaxBackoff

NextRetry(retry) == IF retry < RetryCap THEN retry + 1 ELSE retry

\* The failure event and _mark_url_failed.
FailedRows(rows, u) ==
    LET retry == NextRetry(rows[u].retry)
    IN  [rows EXCEPT ![u] = [status |-> "failed", wait |-> Backoff(retry),
                             retry  |-> retry,    age  |-> rows[u].age]]

\* An hour passes for every row.
AgedRows(rows) ==
    [u \in Urls |->
        [rows[u] EXCEPT !.wait = IF @ > 0 THEN @ - 1 ELSE 0,
                        !.age  = IF @ < ScheduleInterval THEN @ + 1 ELSE @]]
=============================================================================
