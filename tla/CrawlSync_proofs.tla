--------------------------- MODULE CrawlSync_proofs ---------------------------
(***************************************************************************)
(* Theorems about CrawlSync, for any URLs, rules, delays and bounds that   *)
(* satisfy StoreAssumption and SyncAssumption, and at the end about the    *)
(* lock its workers share (CrawlerLock), for any workers and leases.       *)
(***************************************************************************)
EXTENDS CrawlSync, CrawlerLock, TLAPS

-----------------------------------------------------------------------------
(* What the transactions of CrawlStore do to any two tables.               *)

Rows == [Urls -> Row]

\* The rows that transactions create are rows, and backoff keeps its ceiling.
LEMMA BackoffBounded ==
    ASSUME NEW r \in 1 .. RetryCap
    PROVE  Backoff(r) \in 1 .. MaxBackoff
BY StoreAssumption DEF Backoff

LEMMA NewRowType == NewRow \in Row /\ NoRow \in Row
BY StoreAssumption DEF NewRow, NoRow, Row, Status, Waits

LEMMA NextRetryType ==
    ASSUME NEW r \in 0 .. RetryCap
    PROVE  NextRetry(r) \in 1 .. RetryCap /\ NextRetry(r) >= r
BY StoreAssumption DEF NextRetry

\* Recording an event only ever adds rows, pending and due.
LEMMA TouchFacts ==
    ASSUME NEW table \in Rows, NEW us \in SUBSET Urls
    PROVE  /\ Touch(table, us) \in Rows
           /\ Tracked(Touch(table, us)) = Tracked(table) \cup us
           /\ \A u \in Tracked(table) : Touch(table, us)[u] = table[u]
           /\ \A u \in Urls \ us : Touch(table, us)[u] = table[u]
           /\ \A u \in us \ Tracked(table) : Touch(table, us)[u] = NewRow
BY NewRowType DEF Rows, Touch, Tracked, NewRow

\* What is enqueued is tracked, and only a success in no need of a recheck
\* is turned away.
LEMMA EnqueueFacts ==
    ASSUME NEW table \in Rows, NEW waiting \in SUBSET Urls, NEW us \in SUBSET Urls,
           NEW force \in BOOLEAN
    PROVE  /\ EnqueuedQueue(table, waiting, us, force) \subseteq waiting \cup us
           /\ waiting \subseteq EnqueuedQueue(table, waiting, us, force)
           /\ \A u \in us :
                 \/ u \in EnqueuedQueue(table, waiting, us, force)
                 \/ ~force /\ u \in Tracked(table) /\ table[u].wait > 0
<1> DEFINE q == EnqueuedQueue(table, waiting, us, force)
<1>1. q = waiting \cup {u \in us : force \/ ~( /\ Touch(table, us)[u].status = "success"
                                            /\ Touch(table, us)[u].wait > 0)}
  BY DEF EnqueuedQueue, Enqueueable
<1>2. ASSUME NEW u \in us, u \notin q
      PROVE  ~force /\ u \in Tracked(table) /\ table[u].wait > 0
  <2>1. ~force /\ Touch(table, us)[u].status = "success" /\ Touch(table, us)[u].wait > 0
    BY <1>1, <1>2
  <2>2. u \in Tracked(table)
    BY <2>1, TouchFacts DEF NewRow
  <2> QED BY <2>1, <2>2, TouchFacts
<1> QED BY <1>1, <1>2

\* What is handed out is tracked, "processing" and due.
LEMMA DequeueFacts ==
    ASSUME NEW table \in Rows, NEW batch \in SUBSET Urls
    PROVE  /\ DequeuedRows(table, batch) \in Rows
           /\ Tracked(DequeuedRows(table, batch)) = Tracked(table) \cup batch
           /\ \A u \in Urls \ batch : DequeuedRows(table, batch)[u] = table[u]
           /\ \A u \in batch : DequeuedRows(table, batch)[u].wait = 0
           /\ \A u \in batch \cap Tracked(table) :
                 /\ DequeuedRows(table, batch)[u].status = "processing"
                 /\ DequeuedRows(table, batch)[u].retry = table[u].retry
<1> DEFINE marked == [u \in Urls |-> IF u \in batch \cap Tracked(table)
                          THEN [table[u] EXCEPT !.status = "processing", !.wait = 0]
                          ELSE table[u]]
<1>0. 0 \in Waits
  BY StoreAssumption DEF Waits
<1>1. ASSUME NEW u \in Urls PROVE marked[u] \in Row
  BY <1>0 DEF Rows, Row, Status
<1>2. marked \in Rows
  BY <1>1 DEF Rows
<1>3. Tracked(marked) = Tracked(table)
  BY DEF Tracked, Rows, Row
<1>4. \A u \in batch \cap Tracked(table) :
         marked[u].status = "processing" /\ marked[u].wait = 0
             /\ marked[u].retry = table[u].retry
  BY DEF Rows, Row
<1>5. \A u \in Urls \ batch : marked[u] = table[u]
  OBVIOUS
<1>6. DequeuedRows(table, batch) = Touch(marked, batch)
  BY DEF DequeuedRows
<1> HIDE DEF marked
<1>7. \A u \in batch : Touch(marked, batch)[u].wait = 0
  BY <1>2, <1>3, <1>4, TouchFacts DEF NewRow
<1> QED BY <1>2, <1>3, <1>4, <1>5, <1>6, <1>7, TouchFacts DEF Tracked

\* delete_url_metadata leaves a fresh row behind.
LEMMA PruneFacts ==
    ASSUME NEW table \in Rows, NEW u \in Urls
    PROVE  /\ PrunedRows(table, u) \in Rows
           /\ PrunedRows(table, u)[u] = NewRow
           /\ \A v \in Urls \ {u} : PrunedRows(table, u)[v] = table[v]
           /\ Tracked(PrunedRows(table, u)) = Tracked(table) \cup {u}
<1> DEFINE less == [table EXCEPT ![u] = NoRow]
<1>1. less \in Rows
  BY NewRowType DEF Rows
<1>2. u \notin Tracked(less)
  BY DEF Tracked, NoRow, Rows
<1>3. PrunedRows(table, u) = Touch(less, {u})
  BY DEF PrunedRows
<1>4. Tracked(less) \cup {u} = Tracked(table) \cup {u}
  BY DEF Tracked, NoRow, Rows
<1>5. \A v \in Urls \ {u} : less[v] = table[v]
  BY DEF Rows
<1> HIDE DEF less
<1> QED BY <1>1, <1>2, <1>3, <1>4, <1>5, TouchFacts

\* delete_urls_by_prefixes leaves nothing behind.
LEMMA WithoutFacts ==
    ASSUME NEW table \in Rows, NEW us \in SUBSET Urls
    PROVE  /\ WithoutRows(table, us) \in Rows
           /\ Tracked(WithoutRows(table, us)) = Tracked(table) \ us
           /\ \A u \in Urls \ us : WithoutRows(table, us)[u] = table[u]
BY NewRowType DEF WithoutRows, Rows, Tracked, NoRow

\* A success puts the URL off; so does a failure, and it counts.
LEMMA SuccessFacts ==
    ASSUME NEW table \in Rows, NEW u \in Urls, NEW delay \in RecheckDelays
    PROVE  /\ SucceededRows(table, u, delay) \in Rows
           /\ SucceededRows(table, u, delay)[u].status = "success"
           /\ SucceededRows(table, u, delay)[u].wait > 0
           /\ \A v \in Urls \ {u} : SucceededRows(table, u, delay)[v] = table[v]
<1> DEFINE row == [status |-> "success", wait |-> delay, retry |-> 0, age |-> 0]
<1>1. delay \in Waits /\ delay > 0
  BY StoreAssumption DEF Waits
<1>2. row \in Row
  BY <1>1, StoreAssumption DEF Row, Status
<1> QED BY <1>1, <1>2 DEF SucceededRows, Rows

LEMMA FailureFacts ==
    ASSUME NEW table \in Rows, NEW u \in Urls
    PROVE  /\ FailedRows(table, u) \in Rows
           /\ FailedRows(table, u)[u].status = "failed"
           /\ FailedRows(table, u)[u].wait > 0
           /\ FailedRows(table, u)[u].retry >= table[u].retry
           /\ \A v \in Urls \ {u} : FailedRows(table, u)[v] = table[v]
<1> DEFINE retry == NextRetry(table[u].retry)
           row == [status |-> "failed", wait |-> Backoff(retry),
                   retry  |-> retry,    age  |-> table[u].age]
<1>1. table[u] \in Row
  BY DEF Rows
<1>2. retry \in 1 .. RetryCap /\ retry >= table[u].retry
  BY <1>1, NextRetryType DEF Row
<1>3. Backoff(retry) \in 1 .. MaxBackoff
  BY <1>2, BackoffBounded
<1>4. Backoff(retry) \in Waits /\ Backoff(retry) > 0
  BY <1>3, StoreAssumption DEF Waits
<1> HIDE DEF retry
<1>5. row \in Row
  BY <1>1, <1>2, <1>4, StoreAssumption DEF Row, Status
<1>6. FailedRows(table, u) = [table EXCEPT ![u] = row]
  BY DEF FailedRows, retry
<1> QED BY <1>2, <1>4, <1>5, <1>6 DEF Rows

\* Time makes URLs due, and nothing else.
LEMMA AgeFacts ==
    ASSUME NEW table \in Rows
    PROVE  /\ AgedRows(table) \in Rows
           /\ \A u \in Urls : /\ AgedRows(table)[u].status = table[u].status
                              /\ AgedRows(table)[u].retry = table[u].retry
                              /\ table[u].wait = 0 => AgedRows(table)[u].wait = 0
<1> SUFFICES ASSUME NEW u \in Urls
             PROVE  /\ AgedRows(table)[u] \in Row
                    /\ AgedRows(table)[u].status = table[u].status
                    /\ AgedRows(table)[u].retry = table[u].retry
                    /\ table[u].wait = 0 => AgedRows(table)[u].wait = 0
  BY DEF Rows, AgedRows
<1>1. table[u] \in Row
  BY DEF Rows
<1>2. table[u].wait \in Waits /\ table[u].age \in 0 .. ScheduleInterval
  BY <1>1 DEF Row
<1> DEFINE wait == IF table[u].wait > 0 THEN table[u].wait - 1 ELSE 0
           age == IF table[u].age < ScheduleInterval THEN table[u].age + 1
                                                    ELSE table[u].age
<1>3. AgedRows(table)[u] = [table[u] EXCEPT !.wait = wait, !.age = age]
  BY DEF AgedRows
<1>4. wait \in Waits /\ (table[u].wait = 0 => wait = 0)
  BY <1>2, StoreAssumption DEF Waits
<1>5. age \in 0 .. ScheduleInterval
  BY <1>2, StoreAssumption
<1> HIDE DEF wait, age
<1> QED BY <1>1, <1>3, <1>4, <1>5 DEF Row

-----------------------------------------------------------------------------
(* What the actions leave in its type.                                     *)

USE DEF Rows

LEMMA ConfigType ==
    TypeOK => /\ config.allowed \subseteq Urls
              /\ config.banned \subseteq Urls
              /\ config.swept \subseteq Urls
BY SyncAssumption DEF TypeOK, Config

LEMMA PlanType ==
    TypeOK => /\ plan.due \subseteq Urls /\ plan.found \subseteq Urls
              /\ Discovered \subseteq Urls /\ KnownUrls \subseteq Urls
              /\ ForceSync \in BOOLEAN /\ Roots \subseteq Urls
BY ConfigType, SyncAssumption
   DEF TypeOK, Plan, Discovered, KnownUrls, ForceSync, Tracked

LEMMA NoPlanType == NoPlan \in Plan /\ NoTask \in [Urls -> Stages]
BY DEF NoPlan, Plan, NoTask, Stages

\* Hydration, whole or broken off, types the two tables.
LEMMA EnqueuePlanType ==
    ASSUME TypeOK, NEW stay \in SUBSET Urls, NEW found \in SUBSET Urls,
           NEW due \in SUBSET Urls, EnqueueThePlan(stay, found, due)
    PROVE  /\ rows' \in Rows /\ queue' \subseteq Urls
           /\ Tracked(rows') = Tracked(rows) \cup found \cup due
           /\ queue' \subseteq stay \cup found \cup due
           /\ \A u \in Tracked(rows) : rows'[u] = rows[u]
           /\ \A u \in (found \cup due) \ Tracked(rows) : rows'[u] = NewRow
           /\ \A u \in Urls \ (found \cup due) : rows'[u] = rows[u]
           /\ stay \subseteq queue'
           /\ \A u \in due : u \in queue' \/ (u \in Tracked(rows) /\ rows[u].wait > 0)
<1>1. rows' = Touch(rows, found \cup due)
  BY DEF EnqueueThePlan, EnqueuedRows
<1>2. queue' = EnqueuedQueue(rows, stay, found \cup due, bypass)
  BY DEF EnqueueThePlan
<1>3. rows \in Rows /\ bypass \in BOOLEAN
  BY DEF TypeOK
<1>4. PICK us \in SUBSET Urls : us = found \cup due
  OBVIOUS
<1> QED BY <1>1, <1>2, <1>3, <1>4, TouchFacts, EnqueueFacts

LEMMA BreaksOffType ==
    ASSUME TypeOK, BreaksOff
    PROVE  rows' \in Rows /\ queue' \subseteq Urls
<1>1. CASE UNCHANGED <<rows, queue>>
  BY <1>1 DEF TypeOK
<1>2. CASE \E stay \in IF ForceSync THEN SUBSET KnownUrls ELSE {queue},
             found \in SUBSET Discovered, due \in SUBSET plan.due :
                EnqueueThePlan(stay, found, due)
  <2>1. PICK stay \in IF ForceSync THEN SUBSET KnownUrls ELSE {queue},
             found \in SUBSET Discovered, due \in SUBSET plan.due :
                EnqueueThePlan(stay, found, due)
    BY <1>2
  <2>2. stay \in SUBSET Urls /\ found \in SUBSET Urls /\ due \in SUBSET Urls
    BY PlanType DEF TypeOK
  <2> QED BY <2>1, <2>2, EnqueuePlanType
<1> QED BY <1>1, <1>2 DEF BreaksOff

-----------------------------------------------------------------------------
LEMMA TypeStep == TypeOK /\ [Next]_vars => TypeOK'
<1> SUFFICES ASSUME TypeOK, [Next]_vars PROVE TypeOK'
  OBVIOUS
<1> USE DEF vars, disk, process, history, bounds, LeaveCycle
<1> USE ConfigType, PlanType, NoPlanType
<1>1. CASE StartCycle
  BY <1>1 DEF TypeOK, StartCycle, Places
<1>2. CASE DeleteBlacklistedCaches
  BY <1>2 DEF TypeOK, DeleteBlacklistedCaches, Places, Plan
<1>3. CASE DeleteBlacklistedMetadata
  BY <1>3, WithoutFacts DEF TypeOK, DeleteBlacklistedMetadata, Places, Tracked
<1>4. CASE ReadMetadata
  <2>1. plan' \in Plan
    BY <1>4 DEF TypeOK, ReadMetadata, PlannedDue, Plan
  <2>2. pc' \in Places
    BY <1>4 DEF ReadMetadata, CrawlOrNot, Places
  <2> QED BY <1>4, <2>1, <2>2 DEF TypeOK, ReadMetadata
<1>5. CASE SitemapFetched
  <2>1. plan' \in Plan
    BY <1>5 DEF TypeOK, SitemapFetched, Plan, EntryUrls
  <2>2. pc' \in Places
    BY <1>5 DEF SitemapFetched, CrawlOrNot, Places
  <2> QED BY <1>5, <2>1, <2>2 DEF TypeOK, SitemapFetched
<1>6. CASE SitemapUnavailable
  <2>1. plan' \in Plan
    BY <1>6 DEF TypeOK, SitemapUnavailable, Plan, EntryUrls
  <2>2. pc' \in Places
    BY <1>6 DEF SitemapUnavailable, CrawlOrNot, Places
  <2> QED BY <1>6, <2>1, <2>2 DEF TypeOK, SitemapUnavailable
<1>7. CASE \E u \in Urls : CrawlDiscovers(u)
  <2>1. PICK u \in Urls : CrawlDiscovers(u)
    BY <1>7
  <2>2. {u} \in SUBSET Urls /\ rows \in Rows /\ queue \in SUBSET Urls
    BY DEF TypeOK
  <2>3. rows' \in Rows
    BY <2>1, <2>2, TouchFacts DEF CrawlDiscovers, EnqueuedRows
  <2>4. queue' \subseteq Urls
    <3>1. PICK us \in SUBSET Urls : us = {u}
      OBVIOUS
    <3>2. EnqueuedQueue(rows, queue, us, FALSE) \subseteq queue \cup us
      BY <2>2, EnqueueFacts
    <3> QED BY <2>1, <2>2, <3>1, <3>2 DEF CrawlDiscovers
  <2> QED BY <2>1, <2>3, <2>4 DEF TypeOK, CrawlDiscovers
<1>8. CASE CrawlEnds
  BY <1>8 DEF TypeOK, CrawlEnds, Places, Plan
<1>9. CASE ProcessorDrained
  BY <1>9 DEF TypeOK, ProcessorDrained, Places
<1>10. CASE Hydrate
  <2>1. rows' \in Rows /\ queue' \subseteq Urls /\ promised' \subseteq Urls
    BY <1>10, EnqueuePlanType DEF Hydrate, TypeOK
  <2> QED BY <1>10, <2>1 DEF TypeOK, Hydrate, Places
<1>11. CASE HydrateForceSkipped
  <2>1. rows' \in Rows /\ queue' \subseteq Urls /\ promised' \subseteq Urls
    BY <1>11, EnqueuePlanType DEF HydrateForceSkipped
  <2> QED BY <1>11, <2>1, SyncAssumption DEF TypeOK, HydrateForceSkipped, Places
<1>12. CASE DequeueBatch
  BY <1>12, DequeueFacts DEF TypeOK, DequeueBatch, Stages
<1>13. ASSUME NEW u \in Urls, BeginProcess(u), pending' \subseteq Urls
       PROVE  TypeOK'
  <2>1. rows' \in Rows
    BY <1>13, PruneFacts, TouchFacts DEF TypeOK, BeginProcess
  <2> QED BY <1>13, <2>1 DEF TypeOK, BeginProcess, Stages
<1>14. CASE \E u \in Urls : HandleUrl(u) \/ ProgressiveProcess(u)
  BY <1>13, <1>14 DEF TypeOK, HandleUrl, ProgressiveProcess
<1>15. CASE \E u \in Urls : FetchReturns(u)
  BY <1>15 DEF TypeOK, FetchReturns, Stages
<1>16. CASE \E u \in Urls : RecordSuccess(u)
  BY <1>16, SuccessFacts DEF TypeOK, RecordSuccess, Stages
<1>17. CASE \E u \in Urls : ProcessFails(u)
  <2>1. PICK u \in Urls : ProcessFails(u)
    BY <1>17
  <2>2. {u} \in SUBSET Urls /\ rows \in Rows
    BY DEF TypeOK
  <2>3. Touch(rows, {u}) \in Rows
    BY <2>2, TouchFacts
  <2>4. rows' \in Rows
    BY <2>1, <2>3, FailureFacts DEF ProcessFails
  <2> QED BY <2>1, <2>4 DEF TypeOK, ProcessFails, Stages
<1>18. CASE QueueDrained
  BY <1>18 DEF TypeOK, QueueDrained, Places
<1>19. CASE CompleteCycle
  BY <1>19 DEF TypeOK, CompleteCycle, Places
<1>20. CASE CycleFails
  <2>1. rows' \in Rows /\ queue' \subseteq Urls
    BY <1>20, BreaksOffType DEF CycleFails
  <2>2. faults' \in 0 .. MaxFaults /\ edits' = edits
    BY <1>20, SyncAssumption DEF TypeOK, CycleFails
  <2>3. plan' \in Plan /\ task' \in [Urls -> Stages]
    BY <1>20, NoPlanType DEF CycleFails
  <2> QED BY <1>20, <2>1, <2>2, <2>3 DEF TypeOK, CycleFails, Places
<1>21. CASE RetryFailed
  <2>1. PICK chosen \in SUBSET Urls :
           /\ rows' = EnqueuedRows(rows, chosen)
           /\ queue' = EnqueuedQueue(rows, queue, chosen, TRUE)
    BY <1>21 DEF RetryFailed, WithStatus
  <2>2. rows \in Rows /\ queue \in SUBSET Urls
    BY DEF TypeOK
  <2>3. rows' \in Rows
    BY <2>1, <2>2, TouchFacts DEF EnqueuedRows
  <2>4. queue' \subseteq Urls
    BY <2>1, <2>2 DEF EnqueuedQueue, Enqueueable
  <2>5. edits' \in 0 .. MaxEdits
    BY <1>21, SyncAssumption DEF TypeOK, RetryFailed
  <2>6. UNCHANGED <<docs, snapshot, config, listed, process, history, faults>>
    BY <1>21 DEF RetryFailed
  <2> QED BY <2>3, <2>4, <2>5, <2>6 DEF TypeOK
<1>22. CASE PurgeQueue
  BY <1>22, SyncAssumption DEF TypeOK, PurgeQueue
<1>23. CASE SitemapEdited
  BY <1>23, SyncAssumption DEF TypeOK, SitemapEdited
<1>24. CASE TimePasses
  BY <1>24, AgeFacts DEF TypeOK, TimePasses
<1>25. CASE Crash
  <2>1. rows' \in Rows /\ queue' \subseteq Urls
    BY <1>25, BreaksOffType DEF Crash
  <2>2. faults' \in 0 .. MaxFaults /\ edits' = edits
    BY <1>25, SyncAssumption DEF TypeOK, Crash
  <2>3. plan' \in Plan /\ task' \in [Urls -> Stages]
    BY <1>25, NoPlanType DEF Crash
  <2> QED BY <1>25, <2>1, <2>2, <2>3 DEF TypeOK, Crash, Places
<1>26. CASE Restart
  BY <1>26 DEF TypeOK, Restart, Places
<1>27. CASE UNCHANGED vars
  BY <1>27 DEF TypeOK
<1> QED BY <1>1, <1>2, <1>3, <1>4, <1>5, <1>6, <1>7, <1>8, <1>9, <1>10, <1>11,
           <1>12, <1>14, <1>15, <1>16, <1>17, <1>18, <1>19, <1>20, <1>21, <1>22,
           <1>23, <1>24, <1>25, <1>26, <1>27
        DEF Next, Engine, Discovery, Execution, Environment, Faults

LEMMA TypeInit == Init => TypeOK
<1> SUFFICES ASSUME Init PROVE TypeOK
  OBVIOUS
<1>1. rows \in [Urls -> Row]
  BY NewRowType DEF Init
<1>2. plan \in Plan /\ task \in [Urls -> Stages]
  BY NoPlanType DEF Init
<1>3. faults \in 0 .. MaxFaults /\ edits \in 0 .. MaxEdits
  BY SyncAssumption DEF Init
<1>4. listed \subseteq Urls
  BY SyncAssumption DEF Init
<1> QED BY <1>1, <1>2, <1>3, <1>4 DEF Init, TypeOK, Places

\* The types, which say in particular that no row is ever put off for longer
\* than max_backoff_hours or the longest recheck delay.
THEOREM TypeCorrect == Spec => []TypeOK
<1>1. Init => TypeOK
  BY TypeInit
<1>2. TypeOK /\ [Next]_vars => TypeOK'
  BY TypeStep
<1> QED BY <1>1, <1>2, PTL DEF Spec

-----------------------------------------------------------------------------
(* The inductive invariant of the cycle.                                   *)

\* What is queued, pending or in flight is tracked; a URL that is not tracked
\* has no history of failures.
WorkIsTracked ==
    /\ queue \subseteq Tracked(rows)
    /\ pending \cup InFlight \subseteq Tracked(rows)
    /\ \A u \in Urls \ Tracked(rows) : rows[u].retry = 0

\* Only discovery has pending URLs, only discovery and the batch have URLs in
\* flight, and only the batch has URLs handed out and not yet begun.
WorkHasItsPlace ==
    /\ pc \notin {"crawl", "drain"} => pending = {}
    /\ pc \notin {"crawl", "drain", "batch"} => InFlight = {}
    /\ pc # "batch" => \A u \in Urls : task[u] # "start"

\* The batch marks what it works on, and has taken it off the queue.
BatchIsMarked ==
    pc = "batch" =>
        \A u \in InFlight : rows[u].status = "processing" /\ u \notin queue

\* What was due when the metadata was read is due still, or was attempted or
\* taken back since.
PlanIsFresh ==
    pc \in {"sitemap", "crawl", "drain", "hydrate"} =>
        /\ plan.due \subseteq config.allowed
        /\ \A u \in plan.due :
              u \in settled \/ (u \in Tracked(rows) /\ rows[u].wait = 0)

PromisesAreAllowed == pc = "batch" => promised \subseteq config.allowed

IInv ==
    /\ TypeOK
    /\ InterruptedWorkIsDue
    /\ WorkIsTracked
    /\ WorkHasItsPlace
    /\ BatchIsMarked
    /\ PlanIsFresh
    /\ PromisesAreAllowed
    /\ CycleKeepsItsWord

\* The parts of IInv that are left when TypeStep has done its work.
Parts == InterruptedWorkIsDue /\ WorkIsTracked /\ WorkHasItsPlace
         /\ BatchIsMarked /\ PlanIsFresh /\ PromisesAreAllowed /\ CycleKeepsItsWord

LEMMA InitParts == Init => Parts
BY DEF Init, Parts, InterruptedWorkIsDue, WorkIsTracked, WorkHasItsPlace,
       BatchIsMarked, PlanIsFresh, PromisesAreAllowed, CycleKeepsItsWord,
       NoRow, NoTask, InFlight, Tracked, WithStatus

\* The actions that touch neither the tables nor the work in progress.
LEMMA StillParts ==
    ASSUME IInv, UNCHANGED <<rows, task>>,
           \/ StartCycle \/ DeleteBlacklistedCaches \/ ReadMetadata
           \/ SitemapFetched \/ SitemapUnavailable \/ CrawlEnds
           \/ ProcessorDrained \/ QueueDrained \/ PurgeQueue \/ SitemapEdited
           \/ Restart \/ UNCHANGED vars
    PROVE  Parts'
<1> USE DEF IInv, Parts, vars, disk, process, history, bounds
<1>1. InFlight' = InFlight /\ Tracked(rows') = Tracked(rows)
  BY DEF InFlight, Tracked
<1>2. queue' \subseteq queue /\ pending' \subseteq pending
  BY DEF StartCycle, DeleteBlacklistedCaches, ReadMetadata, SitemapFetched,
         SitemapUnavailable, CrawlEnds, ProcessorDrained, QueueDrained,
         PurgeQueue, SitemapEdited, Restart
<1>3. InterruptedWorkIsDue' /\ WorkIsTracked'
  BY <1>1, <1>2 DEF InterruptedWorkIsDue, WorkIsTracked, WithStatus
<1>4. WorkHasItsPlace'
  <2>1. InFlight = {} => \A u \in Urls : task[u] # "start"
    BY DEF InFlight
  <2> QED
  BY <1>1, <1>2, <2>1
     DEF WorkHasItsPlace, StartCycle, DeleteBlacklistedCaches, ReadMetadata,
         SitemapFetched, SitemapUnavailable, CrawlOrNot, CrawlEnds,
         ProcessorDrained, QueueDrained, PurgeQueue, SitemapEdited, Restart
<1>5. BatchIsMarked'
  BY <1>1, <1>2
     DEF BatchIsMarked, StartCycle, DeleteBlacklistedCaches, ReadMetadata,
         SitemapFetched, SitemapUnavailable, CrawlOrNot, CrawlEnds,
         ProcessorDrained, QueueDrained, PurgeQueue, SitemapEdited, Restart
<1>6. PlanIsFresh'
  <2>1. CASE ReadMetadata
    BY <1>1, <2>1 DEF PlanIsFresh, ReadMetadata, PlannedDue, Due, TypeOK, Plan
  <2>2. CASE ~ReadMetadata
    BY <1>1, <2>2
       DEF PlanIsFresh, StartCycle, DeleteBlacklistedCaches, SitemapFetched,
           SitemapUnavailable, CrawlOrNot, CrawlEnds, ProcessorDrained,
           QueueDrained, PurgeQueue, SitemapEdited, Restart, TypeOK, Plan
  <2> QED BY <2>1, <2>2
<1>7. PromisesAreAllowed' /\ CycleKeepsItsWord'
  BY <1>1
     DEF PromisesAreAllowed, CycleKeepsItsWord, StartCycle,
         DeleteBlacklistedCaches, ReadMetadata, SitemapFetched,
         SitemapUnavailable, CrawlOrNot, CrawlEnds, ProcessorDrained,
         QueueDrained, PurgeQueue, SitemapEdited, Restart
<1> QED BY <1>3, <1>4, <1>5, <1>6, <1>7

\* The ends of a cycle, from which broken-off hydration is told apart.
LEMMA LeaveParts ==
    ASSUME IInv, NEW place \in {"idle", "down"}, LeaveCycle(place),
           WorkIsTracked', InterruptedWorkIsDue'
    PROVE  Parts'
<1>1. pc' = place /\ pending' = {} /\ task' = NoTask
  BY DEF LeaveCycle
<1>2. InFlight' = {} /\ \A u \in Urls : task'[u] = "none"
  BY <1>1 DEF InFlight, NoTask
<1> QED BY <1>1, <1>2 DEF Parts, WorkHasItsPlace, BatchIsMarked, PlanIsFresh,
                         PromisesAreAllowed, CycleKeepsItsWord

\* Hydration adds fresh rows, which are due, and queues what is tracked.
LEMMA EnqueuePlanKeeps ==
    ASSUME IInv, NEW stay \in SUBSET Tracked(rows), NEW found \in SUBSET Urls,
           NEW due \in SUBSET Urls, EnqueueThePlan(stay, found, due)
    PROVE  /\ InterruptedWorkIsDue'
           /\ queue' \subseteq Tracked(rows')
           /\ \A u \in Urls \ Tracked(rows') : rows'[u].retry = 0
<1>1. TypeOK /\ stay \in SUBSET Urls
  BY DEF IInv, Tracked
<1>2. \A u \in Urls : rows'[u] = rows[u] \/ rows'[u] = NewRow
  BY <1>1, EnqueuePlanType DEF Tracked
<1>3. Tracked(rows') = Tracked(rows) \cup found \cup due
      /\ queue' \subseteq stay \cup found \cup due
  BY <1>1, EnqueuePlanType
<1>4. \A u \in Urls \ Tracked(rows') : rows'[u] = rows[u]
  BY <1>1, <1>3, EnqueuePlanType
<1>5. InterruptedWorkIsDue'
  BY <1>2 DEF IInv, InterruptedWorkIsDue, WithStatus, NewRow
<1> QED BY <1>3, <1>4, <1>5 DEF IInv, WorkIsTracked

LEMMA BreaksOffKeeps ==
    ASSUME IInv, BreaksOff
    PROVE  /\ InterruptedWorkIsDue'
           /\ queue' \subseteq Tracked(rows')
           /\ \A u \in Urls \ Tracked(rows') : rows'[u].retry = 0
<1>1. CASE UNCHANGED <<rows, queue>>
  BY <1>1 DEF IInv, InterruptedWorkIsDue, WorkIsTracked, WithStatus, Tracked
<1>2. CASE \E stay \in IF ForceSync THEN SUBSET KnownUrls ELSE {queue},
             found \in SUBSET Discovered, due \in SUBSET plan.due :
                EnqueueThePlan(stay, found, due)
  <2>1. PICK stay \in IF ForceSync THEN SUBSET KnownUrls ELSE {queue},
             found \in SUBSET Discovered, due \in SUBSET plan.due :
                EnqueueThePlan(stay, found, due)
    BY <1>2
  <2>2. stay \in SUBSET Tracked(rows)
    BY <2>1 DEF IInv, WorkIsTracked, KnownUrls
  <2>3. found \in SUBSET Urls /\ due \in SUBSET Urls
    BY PlanType DEF IInv
  <2> QED BY <2>1, <2>2, <2>3, EnqueuePlanKeeps
<1> QED BY <1>1, <1>2 DEF BreaksOff

LEMMA EndParts ==
    ASSUME IInv, CompleteCycle \/ CycleFails \/ Crash
    PROVE  Parts'
<1>1. PICK place \in {"idle", "down"} : LeaveCycle(place)
  BY DEF CompleteCycle, CycleFails, Crash
<1>2. BreaksOff
  BY DEF CompleteCycle, CycleFails, Crash, BreaksOff
<1>3. pending' = {} /\ InFlight' = {}
  BY <1>1 DEF LeaveCycle, InFlight, NoTask
<1>4. WorkIsTracked' /\ InterruptedWorkIsDue'
  BY <1>2, <1>3, BreaksOffKeeps DEF WorkIsTracked
<1> QED BY <1>1, <1>4, LeaveParts

LEMMA RetryParts == IInv /\ RetryFailed => Parts'
<1> SUFFICES ASSUME IInv, RetryFailed PROVE Parts'
  OBVIOUS
<1>1. PICK chosen \in SUBSET WithStatus(rows, "failed") :
         /\ rows' = EnqueuedRows(rows, chosen)
         /\ queue' = EnqueuedQueue(rows, queue, chosen, TRUE)
  BY DEF RetryFailed
<1>2. rows \in Rows /\ queue \in SUBSET Urls /\ chosen \in SUBSET Urls
      /\ chosen \subseteq Tracked(rows)
  BY DEF IInv, TypeOK, WithStatus, Tracked
<1>3. rows' = rows
  <2>1. \A u \in Urls : rows'[u] = rows[u]
    BY <1>1, <1>2, TouchFacts DEF EnqueuedRows
  <2>2. rows' \in Rows
    BY <1>1, <1>2, TouchFacts DEF EnqueuedRows
  <2> QED BY <1>2, <2>1, <2>2
<1>4. queue \subseteq queue' /\ queue' \subseteq queue \cup chosen
  BY <1>1, <1>2, EnqueueFacts
<1>5. UNCHANGED <<config, process, history>>
  BY DEF RetryFailed
<1>6. InFlight' = InFlight
  BY <1>5 DEF process, InFlight
<1>7. BatchIsMarked'
  BY <1>1, <1>3, <1>4, <1>5, <1>6 DEF IInv, BatchIsMarked, WithStatus, process
<1>8. InterruptedWorkIsDue' /\ WorkIsTracked'
  BY <1>2, <1>3, <1>4, <1>5, <1>6
     DEF IInv, InterruptedWorkIsDue, WorkIsTracked, process
<1> QED BY <1>3, <1>4, <1>5, <1>6, <1>7, <1>8
        DEF IInv, Parts, WorkHasItsPlace, PlanIsFresh, PromisesAreAllowed,
            CycleKeepsItsWord, process, history

LEMMA TimeParts == IInv /\ TimePasses => Parts'
<1> SUFFICES ASSUME IInv, TimePasses PROVE Parts'
  OBVIOUS
<1>1. rows \in Rows /\ rows' = AgedRows(rows)
  BY DEF IInv, TypeOK, TimePasses
<1>2. \A u \in Urls : /\ rows'[u].status = rows[u].status
                      /\ rows'[u].retry = rows[u].retry
                      /\ rows[u].wait = 0 => rows'[u].wait = 0
  BY <1>1, AgeFacts
<1>3. UNCHANGED <<queue, config, process, history>>
  BY DEF TimePasses
<1>4. InFlight' = InFlight /\ Tracked(rows') = Tracked(rows)
  BY <1>2, <1>3 DEF process, InFlight, Tracked
<1>5. PlanIsFresh'
  BY <1>2, <1>3, <1>4, PlanType DEF IInv, PlanIsFresh, process, history
<1> QED BY <1>2, <1>3, <1>4, <1>5
        DEF IInv, Parts, InterruptedWorkIsDue, WithStatus, WorkIsTracked,
            WorkHasItsPlace, BatchIsMarked, PromisesAreAllowed,
            CycleKeepsItsWord, process, history, InFlight

LEMMA PruneParts == IInv /\ DeleteBlacklistedMetadata => Parts'
<1> SUFFICES ASSUME IInv, DeleteBlacklistedMetadata PROVE Parts'
  OBVIOUS
<1>1. PICK gone \in {config.swept \cap Tracked(rows), {}} :
         rows' = WithoutRows(rows, gone) /\ queue' = queue \ gone
  BY DEF DeleteBlacklistedMetadata
<1>2. rows \in Rows /\ gone \in SUBSET Urls
  BY DEF IInv, TypeOK, Tracked
<1>3. /\ Tracked(rows') = Tracked(rows) \ gone
      /\ \A u \in Urls \ gone : rows'[u] = rows[u]
  BY <1>1, <1>2, WithoutFacts
<1>4. \A u \in gone : rows'[u] = NoRow
  BY <1>1, <1>2 DEF WithoutRows
<1>5. /\ pc' = "read" /\ pending' = {} /\ InFlight' = {}
      /\ UNCHANGED task /\ \A u \in Urls : task[u] # "start"
  BY DEF DeleteBlacklistedMetadata, IInv, WorkHasItsPlace, InFlight
<1>6. InterruptedWorkIsDue'
  BY <1>2, <1>3, <1>4 DEF IInv, InterruptedWorkIsDue, WithStatus, NoRow
<1>7. WorkIsTracked'
  BY <1>1, <1>3, <1>4, <1>5 DEF IInv, WorkIsTracked, NoRow
<1> QED BY <1>5, <1>6, <1>7
        DEF Parts, WorkHasItsPlace, BatchIsMarked, PlanIsFresh,
            PromisesAreAllowed, CycleKeepsItsWord

LEMMA DiscoverParts ==
    ASSUME IInv, NEW u \in Urls, CrawlDiscovers(u)
    PROVE  Parts'
<1>1. PICK us \in SUBSET Urls : us = {u}
  OBVIOUS
<1>2. rows \in Rows /\ queue \in SUBSET Urls
  BY DEF IInv, TypeOK
<1>3. rows' = Touch(rows, us) /\ pending' = pending \cup us
      /\ queue' \in {queue, EnqueuedQueue(rows, queue, us, FALSE)}
      /\ pc = "crawl"
      /\ UNCHANGED <<config, pc, plan, task, history>>
  BY <1>1 DEF CrawlDiscovers, EnqueuedRows
<1>4. /\ Tracked(rows') = Tracked(rows) \cup us
      /\ \A v \in Tracked(rows) : rows'[v] = rows[v]
      /\ \A v \in Urls \ Tracked(rows') : rows'[v] = rows[v]
  BY <1>2, <1>3, TouchFacts DEF Tracked
<1>5. queue' \subseteq queue \cup us
  <2>1. EnqueuedQueue(rows, queue, us, FALSE) \subseteq queue \cup us
    BY <1>2, EnqueueFacts
  <2> QED BY <1>3, <2>1
<1>6. InFlight' = InFlight
  BY <1>3 DEF InFlight
<1>7. InterruptedWorkIsDue'
  <2>1. \A v \in Urls : rows'[v] = rows[v] \/ rows'[v] = NewRow
    BY <1>2, <1>3, TouchFacts DEF Tracked
  <2> QED BY <2>1 DEF IInv, InterruptedWorkIsDue, WithStatus, NewRow
<1>8. WorkIsTracked'
  <2>1. queue' \cup pending' \cup InFlight' \subseteq Tracked(rows')
    BY <1>3, <1>4, <1>5, <1>6 DEF IInv, WorkIsTracked
  <2>2. ASSUME NEW v \in Urls, v \notin Tracked(rows') PROVE rows'[v].retry = 0
    <3>1. v \notin Tracked(rows)
      BY <1>4, <2>2
    <3>2. rows[v].retry = 0
      BY <3>1 DEF IInv, WorkIsTracked
    <3>3. rows'[v] = rows[v]
      BY <1>4, <2>2
    <3> QED BY <3>2, <3>3
  <2> QED BY <2>1, <2>2 DEF WorkIsTracked
<1>9. PlanIsFresh'
  BY <1>3, <1>4 DEF IInv, PlanIsFresh, history
<1> QED BY <1>3, <1>6, <1>7, <1>8, <1>9
        DEF IInv, Parts, WorkHasItsPlace, BatchIsMarked, PromisesAreAllowed,
            CycleKeepsItsWord

LEMMA HydrateParts == IInv /\ (Hydrate \/ HydrateForceSkipped) => Parts'
<1> SUFFICES ASSUME IInv, Hydrate \/ HydrateForceSkipped PROVE Parts'
  OBVIOUS
<1>0. Discovered \in SUBSET Urls /\ plan.due \in SUBSET Urls
  BY PlanType DEF IInv
<1>1. PICK stay \in SUBSET Tracked(rows), found \in SUBSET Urls, due \in SUBSET Urls :
         /\ due = plan.due
         /\ EnqueueThePlan(stay, found, due)
         /\ promised' \subseteq due \cup (stay \cap config.allowed)
  BY <1>0 DEF Hydrate, HydrateForceSkipped, KnownUrls, IInv, WorkIsTracked
<1>2. TypeOK /\ stay \in SUBSET Urls
  BY DEF IInv, Tracked
<1>3. pc = "hydrate" /\ pc' = "batch"
      /\ UNCHANGED <<config, pending, task, settled>>
  BY DEF Hydrate, HydrateForceSkipped
<1>4. InFlight' = {} /\ pending' = {} /\ \A u \in Urls : task'[u] # "start"
  BY <1>3 DEF IInv, WorkHasItsPlace, InFlight
<1>5. InterruptedWorkIsDue' /\ WorkIsTracked'
  BY <1>1, <1>2, <1>4, EnqueuePlanKeeps DEF WorkIsTracked
<1>6. /\ stay \subseteq queue'
      /\ \A u \in due : u \in queue' \/ (u \in Tracked(rows) /\ rows[u].wait > 0)
  <2>1. EnqueueThePlan(stay, found, due)
    BY <1>1
  <2> QED BY <1>2, <2>1, EnqueuePlanType
<1>7. plan.due \subseteq config.allowed
      /\ \A u \in plan.due : u \in settled \/ rows[u].wait = 0
  BY <1>3 DEF IInv, PlanIsFresh
<1>8. plan.due \subseteq settled \cup queue'
  BY <1>1, <1>6, <1>7
<1>9. PromisesAreAllowed' /\ CycleKeepsItsWord'
  BY <1>1, <1>3, <1>6, <1>7, <1>8 DEF PromisesAreAllowed, CycleKeepsItsWord
<1> QED BY <1>3, <1>4, <1>5, <1>9
        DEF Parts, WorkHasItsPlace, BatchIsMarked, PlanIsFresh

LEMMA DequeueParts == IInv /\ DequeueBatch => Parts'
<1> SUFFICES ASSUME IInv, DequeueBatch PROVE Parts'
  OBVIOUS
<1>1. PICK batch \in SUBSET queue :
         /\ rows' = DequeuedRows(rows, batch)
         /\ queue' = queue \ batch
         /\ task' = [u \in Urls |-> IF u \in batch THEN "start" ELSE task[u]]
  BY DEF DequeueBatch
<1>2. rows \in Rows /\ batch \in SUBSET Urls /\ batch \subseteq Tracked(rows)
  BY DEF IInv, TypeOK, WorkIsTracked
<1>3. /\ Tracked(rows') = Tracked(rows)
      /\ \A u \in Urls \ batch : rows'[u] = rows[u]
      /\ \A u \in batch : rows'[u].status = "processing" /\ rows'[u].wait = 0
  <2>1. batch \cap Tracked(rows) = batch /\ Tracked(rows) \cup batch = Tracked(rows)
    BY <1>2
  <2> QED BY <1>1, <1>2, <2>1, DequeueFacts
<1>4. pc = "batch" /\ pc' = "batch" /\ InFlight = {}
      /\ UNCHANGED <<config, pending, promised, settled>>
  BY DEF DequeueBatch, history
<1>5. InFlight' = batch
  BY <1>1, <1>2, <1>4 DEF InFlight
<1>6. InterruptedWorkIsDue'
  BY <1>3 DEF IInv, InterruptedWorkIsDue, WithStatus
<1>7. WorkIsTracked'
  BY <1>1, <1>2, <1>3, <1>4, <1>5 DEF IInv, WorkIsTracked
<1>8. BatchIsMarked'
  BY <1>1, <1>3, <1>5 DEF BatchIsMarked
<1>9. CycleKeepsItsWord'
  BY <1>1, <1>4, <1>5 DEF IInv, CycleKeepsItsWord
<1> QED BY <1>4, <1>6, <1>7, <1>8, <1>9
        DEF IInv, Parts, WorkHasItsPlace, PlanIsFresh, PromisesAreAllowed

\* A URL is begun, fetched or concluded: what the four steps that work on one
\* URL have in common.
LEMMA OneUrlParts ==
    ASSUME IInv, NEW u \in Urls,
           u \in Tracked(rows), rows' \in Rows, Tracked(rows') = Tracked(rows),
           \A v \in Urls \ {u} : rows'[v] = rows[v],
           rows'[u].status = "processing" => rows'[u].wait = 0,
           queue' \subseteq queue /\ queue \ queue' \subseteq {u},
           pending' \subseteq pending,
           task' \in [Urls -> Stages],
           \A v \in Urls \ {u} : task'[v] = task[v],
           task'[u] \in {"none", "fetch", "store"},
           UNCHANGED <<config, pc, plan, promised>>, settled \subseteq settled',
           pc \in {"crawl", "drain", "batch"},
           pc = "batch" => \/ u \in settled' /\ task'[u] = "none" /\ u \notin queue
                           \/ /\ task'[u] # "none" /\ u \notin queue'
                              /\ rows'[u].status = "processing"
                           \/ task'[u] = "none" /\ u \notin config.allowed,
           pc # "batch" => \/ u \in settled' \/ rows'[u].wait = rows[u].wait
                           \/ u \notin config.allowed
    PROVE  Parts'
<1>1. /\ InFlight' \subseteq InFlight \cup {u}
      /\ InFlight \ {u} \subseteq InFlight'
      /\ (u \in InFlight') <=> (task'[u] # "none")
  BY DEF InFlight
<1>2. InterruptedWorkIsDue'
  BY DEF IInv, InterruptedWorkIsDue, WithStatus
<1>3. WorkIsTracked'
  BY <1>1 DEF IInv, WorkIsTracked
<1>4. WorkHasItsPlace'
  BY <1>1 DEF IInv, WorkHasItsPlace
<1>5. BatchIsMarked'
  BY <1>1 DEF IInv, BatchIsMarked, InFlight
<1>6. PlanIsFresh'
  BY DEF IInv, PlanIsFresh, Tracked
<1>7. PromisesAreAllowed' /\ CycleKeepsItsWord'
  BY <1>1 DEF IInv, PromisesAreAllowed, CycleKeepsItsWord
<1> QED BY <1>2, <1>3, <1>4, <1>5, <1>6, <1>7 DEF Parts

LEMMA BeginParts ==
    ASSUME IInv, NEW u \in Urls, HandleUrl(u) \/ ProgressiveProcess(u)
    PROVE  Parts'
<1>1. BeginProcess(u) /\ pending' \subseteq pending
      /\ (task[u] = "start" \/ (pc \in {"crawl", "drain"} /\ u \in pending))
  BY DEF HandleUrl, ProgressiveProcess
<1>2. /\ queue' = queue \ {u}
      /\ UNCHANGED <<config, pc, plan, promised, settled>>
      /\ \E stage \in {"none", "fetch"} : task' = [task EXCEPT ![u] = stage]
  BY <1>1 DEF BeginProcess, history
<1>3. rows \in Rows /\ task \in [Urls -> Stages] /\ u \in Tracked(rows)
  BY <1>1 DEF IInv, TypeOK, WorkIsTracked, InFlight
<1>4. pc = "batch" => task[u] = "start" /\ rows[u].status = "processing"
                          /\ rows[u].wait = 0 /\ u \in InFlight
  BY <1>1 DEF IInv, BatchIsMarked, InFlight, InterruptedWorkIsDue, WithStatus
<1>5. pc \in {"crawl", "drain", "batch"}
  BY <1>1 DEF IInv, WorkHasItsPlace
<1>6. CASE u \notin config.allowed /\ rows' = PrunedRows(rows, u)
               /\ task' = [task EXCEPT ![u] = "none"]
  <2>1. /\ rows' \in Rows /\ Tracked(rows') = Tracked(rows)
        /\ \A v \in Urls \ {u} : rows'[v] = rows[v]
        /\ rows'[u] = NewRow
    <3>1. rows' = PrunedRows(rows, u)
      BY <1>6
    <3>2. /\ rows' \in Rows /\ rows'[u] = NewRow
          /\ Tracked(rows') = Tracked(rows) \cup {u}
          /\ \A v \in Urls \ {u} : rows'[v] = rows[v]
      BY <1>3, <3>1, PruneFacts
    <3> QED BY <1>3, <3>2
  <2>2. rows'[u].status # "processing"
    BY <2>1 DEF NewRow
  <2>3. /\ task' \in [Urls -> Stages] /\ task'[u] = "none"
        /\ \A v \in Urls \ {u} : task'[v] = task[v]
    BY <1>3, <1>6 DEF Stages
  <2> QED BY <1>1, <1>2, <1>3, <1>5, <1>6, <2>1, <2>2, <2>3, OneUrlParts
<1>7. CASE RecentlyFetched(rows[u]) /\ UNCHANGED rows
               /\ task' = [task EXCEPT ![u] = "none"]
  <2>1. pc # "batch" /\ rows[u].status # "processing"
    BY <1>4, <1>7 DEF RecentlyFetched
  <2>2. /\ task' \in [Urls -> Stages] /\ task'[u] = "none"
        /\ \A v \in Urls \ {u} : task'[v] = task[v]
    BY <1>3, <1>7 DEF Stages
  <2> QED BY <1>1, <1>2, <1>3, <1>5, <1>7, <2>1, <2>2, OneUrlParts
<1>8. CASE rows' = Touch(rows, {u}) /\ task' = [task EXCEPT ![u] = "fetch"]
  <2>1. rows' = rows
    <3>1. PICK us \in SUBSET Urls : us = {u}
      OBVIOUS
    <3>2. Touch(rows, us) = rows
      BY <1>3, <3>1 DEF Touch
    <3> QED BY <1>8, <3>1, <3>2
  <2>2. rows[u].status = "processing" => rows[u].wait = 0
    BY DEF IInv, InterruptedWorkIsDue, WithStatus
  <2>3. /\ task' \in [Urls -> Stages] /\ task'[u] = "fetch"
        /\ \A v \in Urls \ {u} : task'[v] = task[v]
    BY <1>3, <1>8 DEF Stages
  <2> QED BY <1>1, <1>2, <1>3, <1>4, <1>5, <2>1, <2>2, <2>3, OneUrlParts
<1> QED BY <1>1, <1>6, <1>7, <1>8 DEF BeginProcess

LEMMA FetchParts ==
    ASSUME IInv, NEW u \in Urls, FetchReturns(u)
    PROVE  Parts'
<1>1. /\ task[u] = "fetch" /\ task' = [task EXCEPT ![u] = "store"]
      /\ UNCHANGED <<rows, queue, config, pc, plan, pending, promised, settled>>
  BY DEF FetchReturns, history
<1>2. InFlight' = InFlight
  BY <1>1 DEF InFlight, IInv, TypeOK
<1>3. \A v \in Urls : task'[v] = "start" => task[v] = "start"
  BY <1>1 DEF IInv, TypeOK
<1> QED BY <1>1, <1>2, <1>3
        DEF IInv, Parts, InterruptedWorkIsDue, WithStatus, WorkIsTracked,
            WorkHasItsPlace, BatchIsMarked, PlanIsFresh, PromisesAreAllowed,
            CycleKeepsItsWord, Tracked

LEMMA ConcludeParts ==
    ASSUME IInv, NEW u \in Urls, RecordSuccess(u) \/ ProcessFails(u)
    PROVE  Parts'
<1>1. /\ task[u] # "none" /\ task' = [task EXCEPT ![u] = "none"]
      /\ settled' = settled \cup {u}
      /\ UNCHANGED <<queue, config, pc, plan, pending, promised>>
  BY DEF RecordSuccess, ProcessFails
<1>2. rows \in Rows /\ task \in [Urls -> Stages] /\ u \in Tracked(rows) /\ u \in InFlight
  BY <1>1 DEF IInv, TypeOK, WorkIsTracked, InFlight
<1>3. /\ rows' \in Rows /\ rows'[u].status \in {"success", "failed"}
      /\ \A v \in Urls \ {u} : rows'[v] = rows[v]
  <2>1. CASE RecordSuccess(u)
    BY <1>2, <2>1, SuccessFacts DEF RecordSuccess
  <2>2. CASE ProcessFails(u)
    <3>1. Touch(rows, {u}) = rows
      BY <1>2 DEF Touch
    <3>2. rows' = FailedRows(rows, u)
      BY <2>2, <3>1 DEF ProcessFails
    <3> QED BY <1>2, <3>2, FailureFacts
  <2> QED BY <2>1, <2>2
<1>4. Tracked(rows') = Tracked(rows)
  BY <1>2, <1>3 DEF Tracked
<1>5. /\ task' \in [Urls -> Stages] /\ task'[u] = "none"
      /\ \A v \in Urls \ {u} : task'[v] = task[v]
  BY <1>1, <1>2 DEF Stages
<1>6. pc \in {"crawl", "drain", "batch"} /\ (pc = "batch" => u \notin queue)
  BY <1>2 DEF IInv, WorkHasItsPlace, BatchIsMarked
<1> QED BY <1>1, <1>2, <1>3, <1>4, <1>5, <1>6, OneUrlParts

-----------------------------------------------------------------------------
LEMMA Induction == IInv /\ [Next]_vars => IInv'
<1> SUFFICES ASSUME IInv, [Next]_vars PROVE IInv'
  OBVIOUS
<1>1. TypeOK'
  BY TypeStep DEF IInv
<1>2. Parts'
  <2>1. CASE StartCycle \/ DeleteBlacklistedCaches \/ ReadMetadata
             \/ SitemapFetched \/ SitemapUnavailable \/ CrawlEnds
             \/ ProcessorDrained \/ QueueDrained \/ PurgeQueue
             \/ SitemapEdited \/ Restart \/ UNCHANGED vars
    <3>1. UNCHANGED <<rows, task>>
      BY <2>1 DEF StartCycle, DeleteBlacklistedCaches, ReadMetadata,
                  SitemapFetched, SitemapUnavailable, CrawlEnds,
                  ProcessorDrained, QueueDrained, PurgeQueue, SitemapEdited,
                  Restart, vars, disk, process
    <3> QED BY <2>1, <3>1, StillParts
  <2>2. CASE DeleteBlacklistedMetadata
    BY <2>2, PruneParts
  <2>3. CASE \E u \in Urls : CrawlDiscovers(u)
    BY <2>3, DiscoverParts
  <2>4. CASE \E u \in Urls : HandleUrl(u) \/ ProgressiveProcess(u)
    BY <2>4, BeginParts
  <2>5. CASE Hydrate \/ HydrateForceSkipped
    BY <2>5, HydrateParts
  <2>6. CASE DequeueBatch
    BY <2>6, DequeueParts
  <2>7. CASE \E u \in Urls : FetchReturns(u)
    BY <2>7, FetchParts
  <2>8. CASE \E u \in Urls : RecordSuccess(u) \/ ProcessFails(u)
    BY <2>8, ConcludeParts
  <2>9. CASE CompleteCycle \/ CycleFails \/ Crash
    BY <2>9, EndParts
  <2>10. CASE RetryFailed
    BY <2>10, RetryParts
  <2>11. CASE TimePasses
    BY <2>11, TimeParts
  <2> QED BY <2>1, <2>2, <2>3, <2>4, <2>5, <2>6, <2>7, <2>8, <2>9, <2>10, <2>11
          DEF Next, Engine, Discovery, Execution, Environment, Faults
<1> QED BY <1>1, <1>2 DEF IInv, Parts

\* The inductive invariant holds in every state of a cycle (utils/sync_scheduler.py).
THEOREM Invariance == Spec => []IInv
<1>1. Init => IInv
  BY TypeInit, InitParts DEF IInv, Parts
<1> QED BY <1>1, Induction, PTL DEF Spec

\* A kill never strands the URLs that were being processed: they are due.
THEOREM InterruptedIsDue == Spec => []InterruptedWorkIsDue
<1>1. IInv => InterruptedWorkIsDue
  BY DEF IInv
<1> QED BY <1>1, Invariance, PTL

\* Whatever is queued is tracked.
THEOREM QueueIsTracked == Spec => []QueuedIsTracked
<1>1. IInv => QueuedIsTracked
  BY DEF IInv, WorkIsTracked, QueuedIsTracked
<1> QED BY <1>1, Invariance, PTL

\* No URL is worked on twice at once by the batch.
THEOREM NoDoubleWork == Spec => []InFlightNotQueued
<1>1. IInv => InFlightNotQueued
  BY DEF IInv, BatchIsMarked, InFlightNotQueued
<1> QED BY <1>1, Invariance, PTL

\* A cycle loses none of the URLs it planned as due.
THEOREM WordIsKept == Spec => []CycleKeepsItsWord
<1>1. IInv => CycleKeepsItsWord
  BY DEF IInv
<1> QED BY <1>1, Invariance, PTL

\* The count of failures behind the backoff survives everything but success.
THEOREM FailuresRemembered == Spec => FailuresAreRemembered
<1> DEFINE Remembered == \A u \in config.allowed \ config.swept :
              \/ rows'[u].retry >= rows[u].retry
              \/ rows'[u].status = "success"
<1>1. ASSUME IInv, [Next]_vars, NEW u \in config.allowed \ config.swept
      PROVE  rows'[u].retry >= rows[u].retry \/ rows'[u].status = "success"
  <2>1. /\ u \in Urls /\ rows \in Rows /\ rows[u].retry \in 0 .. RetryCap
        /\ u \notin config.swept
    BY <1>1, ConfigType DEF IInv, TypeOK, Row
  <2>2. rows'[u] = NewRow /\ u \notin Tracked(rows)
           => rows'[u].retry >= rows[u].retry
    BY <2>1, <1>1, SyncAssumption, StoreAssumption DEF IInv, WorkIsTracked, NewRow
  <2>3. CASE UNCHANGED rows
    BY <2>1, <2>3, StoreAssumption
  <2>4. ASSUME NEW us \in SUBSET Urls, rows' = Touch(rows, us)
        PROVE  rows'[u].retry >= rows[u].retry
    <3>1. rows'[u] = rows[u] \/ (rows'[u] = NewRow /\ u \notin Tracked(rows))
      BY <2>1, <2>4, TouchFacts
    <3> QED BY <2>1, <2>2, <3>1, StoreAssumption
  <2>5. CASE DeleteBlacklistedMetadata
    <3>1. PICK gone \in SUBSET config.swept : rows' = WithoutRows(rows, gone)
      BY <2>5 DEF DeleteBlacklistedMetadata
    <3>2. gone \in SUBSET Urls /\ u \notin gone
      BY <1>1, <2>1, ConfigType DEF IInv
    <3>3. rows'[u] = rows[u]
      BY <2>1, <3>1, <3>2, WithoutFacts
    <3> QED BY <2>1, <3>3, StoreAssumption
  <2>6. CASE \E v \in Urls : CrawlDiscovers(v)
    BY <2>4, <2>6 DEF CrawlDiscovers, EnqueuedRows
  <2>7. CASE \E stay, found, due \in SUBSET Urls : EnqueueThePlan(stay, found, due)
    <3>1. PICK us \in SUBSET Urls : rows' = Touch(rows, us)
      BY <2>7 DEF EnqueueThePlan, EnqueuedRows
    <3> QED BY <2>4, <3>1
  <2>8. CASE DequeueBatch
    <3>1. PICK batch \in SUBSET queue : rows' = DequeuedRows(rows, batch)
      BY <2>8 DEF DequeueBatch
    <3>2. batch \in SUBSET Urls /\ batch \subseteq Tracked(rows)
      BY <1>1 DEF IInv, TypeOK, WorkIsTracked
    <3>3. rows'[u] = rows[u] \/ rows'[u].retry = rows[u].retry
      BY <2>1, <3>1, <3>2, DequeueFacts
    <3> QED BY <2>1, <3>3, StoreAssumption
  <2>9. CASE \E v \in Urls : HandleUrl(v) \/ ProgressiveProcess(v)
    <3>1. PICK v \in Urls : BeginProcess(v)
      BY <2>9 DEF HandleUrl, ProgressiveProcess
    <3>2. CASE v \notin config.allowed /\ rows' = PrunedRows(rows, v)
      <4>1. u # v
        BY <1>1, <3>2
      <4>2. rows'[u] = rows[u]
        BY <2>1, <3>2, <4>1, PruneFacts
      <4> QED BY <2>1, <4>2, StoreAssumption
    <3>3. CASE rows' = Touch(rows, {v})
      BY <2>4, <3>3
    <3> QED BY <2>3, <3>1, <3>2, <3>3 DEF BeginProcess
  <2>10. CASE \E v \in Urls : RecordSuccess(v)
    <3>1. PICK v \in Urls, delay \in RecheckDelays : rows' = SucceededRows(rows, v, delay)
      BY <2>10 DEF RecordSuccess
    <3>2. rows'[u] = rows[u] \/ rows'[u].status = "success"
      BY <2>1, <3>1, SuccessFacts
    <3> QED BY <2>1, <3>2, StoreAssumption
  <2>11. CASE \E v \in Urls : ProcessFails(v)
    <3>1. PICK v \in Urls : task[v] # "none" /\ rows' = FailedRows(Touch(rows, {v}), v)
      BY <2>11 DEF ProcessFails
    <3>2. v \in Tracked(rows)
      BY <1>1, <3>1 DEF IInv, WorkIsTracked, InFlight
    <3>3. Touch(rows, {v}) = rows
      BY <2>1, <3>2 DEF Touch
    <3>4. rows' = FailedRows(rows, v)
      BY <3>1, <3>3
    <3>5. CASE u = v
      BY <2>1, <3>4, <3>5, FailureFacts
    <3>6. CASE u # v
      <4>1. rows'[u] = rows[u]
        BY <2>1, <3>4, <3>6, FailureFacts
      <4> QED BY <2>1, <4>1, StoreAssumption
    <3> QED BY <3>5, <3>6
  <2>12. CASE RetryFailed
    BY <2>4, <2>12 DEF RetryFailed, EnqueuedRows, WithStatus
  <2>13. CASE TimePasses
    BY <2>1, <2>13, AgeFacts, StoreAssumption DEF TimePasses
  <2>14. CASE CycleFails \/ Crash
    <3>1. BreaksOff
      BY <2>14 DEF CycleFails, Crash
    <3>2. (\E stay, found, due \in SUBSET Urls : EnqueueThePlan(stay, found, due))
             \/ UNCHANGED rows
      BY <1>1, <3>1, PlanType DEF BreaksOff, IInv, TypeOK
    <3> QED BY <2>3, <2>7, <3>2
  <2>15. CASE Hydrate \/ HydrateForceSkipped
    BY <1>1, <2>7, <2>15, PlanType DEF Hydrate, HydrateForceSkipped, IInv, TypeOK
  <2> QED BY <1>1, <2>3, <2>5, <2>6, <2>8, <2>9, <2>10, <2>11, <2>12, <2>13, <2>14, <2>15
          DEF Next, Engine, Discovery, Execution, Environment, Faults, vars, disk,
              StartCycle, DeleteBlacklistedCaches, ReadMetadata, SitemapFetched,
              SitemapUnavailable, CrawlEnds, ProcessorDrained, FetchReturns,
              QueueDrained, CompleteCycle, PurgeQueue, SitemapEdited, Restart
<1>2. IInv /\ [Next]_vars => [Remembered]_vars
  BY <1>1
<1> QED BY <1>2, Invariance, PTL DEF Spec, FailuresAreRemembered

-----------------------------------------------------------------------------
(* The cycle implements the ledger.                                        *)

LEMMA LedgerStarts == Init => Ledger!LedgerInit
BY DEF Init, Ledger!LedgerInit, Tracked, Due, InFlight, NoRow, NoTask

\* How the transactions look in the ledger.
LEMMA TouchLearns ==
    ASSUME rows \in Rows, NEW us \in SUBSET Urls, rows' = Touch(rows, us),
           InFlight' = InFlight
    PROVE  Ledger!Learn(us \ Tracked(rows))
<1>1. Tracked(rows') = Tracked(rows) \cup us
  BY TouchFacts
<1>2. \A u \in Tracked(rows) : rows'[u] = rows[u]
  BY TouchFacts
<1>3. \A u \in us \ Tracked(rows) : rows'[u].wait = 0
  BY TouchFacts DEF NewRow
<1>4. Due(rows') = Due(rows) \cup (us \ Tracked(rows))
  BY <1>1, <1>2, <1>3 DEF Due
<1> QED BY <1>1, <1>4 DEF Ledger!Learn

LEMMA EnqueueLearns ==
    ASSUME rows \in Rows, InFlight' = InFlight,
           \E stay, found, due \in SUBSET Urls : EnqueueThePlan(stay, found, due)
    PROVE  \E S \in SUBSET Urls : Ledger!Learn(S)
<1>1. PICK us \in SUBSET Urls : rows' = Touch(rows, us)
  BY DEF EnqueueThePlan, EnqueuedRows
<1>2. Ledger!Learn(us \ Tracked(rows))
  BY <1>1, TouchLearns
<1> QED BY <1>2

LEMMA LedgerStep ==
    ASSUME IInv, [Next]_vars
    PROVE  Ledger!LedgerNext \/ UNCHANGED Ledger!ledgerVars
<1> DEFINE Step == Ledger!LedgerNext \/ UNCHANGED Ledger!ledgerVars
<1>1. rows \in Rows /\ task \in [Urls -> Stages] /\ Tracked(rows) \subseteq Urls
  BY DEF IInv, TypeOK, Tracked
<1>2. ASSUME UNCHANGED rows, InFlight' = InFlight PROVE Step
  BY <1>2 DEF Ledger!ledgerVars
<1>3. ASSUME NEW S \in SUBSET Urls,
             Ledger!Learn(S) \/ Ledger!Expire(S) \/ Ledger!GiveUp(S) \/ Ledger!Forget(S)
      PROVE  Step
  BY <1>3 DEF Ledger!LedgerNext
<1>4. ASSUME UNCHANGED rows, InFlight' \subseteq InFlight PROVE Step
  <2>1. Ledger!GiveUp(InFlight \ InFlight')
    BY <1>4 DEF Ledger!GiveUp
  <2>2. InFlight \ InFlight' \in SUBSET Urls
    BY DEF InFlight
  <2> QED BY <1>3, <2>1, <2>2
<1>5. CASE DeleteBlacklistedMetadata
  <2>1. PICK gone \in SUBSET Urls : rows' = WithoutRows(rows, gone)
    BY <1>1, <1>5, ConfigType DEF DeleteBlacklistedMetadata, IInv
  <2>2. Tracked(rows') = Tracked(rows) \ gone
    BY <1>1, <2>1, WithoutFacts
  <2>3. \A u \in Urls \ gone : rows'[u] = rows[u]
    BY <1>1, <2>1, WithoutFacts
  <2>4. Due(rows') = Due(rows) \ gone
    BY <1>1, <2>2, <2>3 DEF Due
  <2>5. InFlight = {} /\ InFlight' = {}
    BY <1>5 DEF DeleteBlacklistedMetadata, IInv, WorkHasItsPlace, InFlight
  <2>6. Ledger!Forget(gone)
    BY <2>2, <2>4, <2>5 DEF Ledger!Forget
  <2> QED BY <1>3, <2>6
<1>6. CASE \E u \in Urls : CrawlDiscovers(u)
  <2>1. PICK us \in SUBSET Urls : rows' = Touch(rows, us)
    BY <1>6 DEF CrawlDiscovers, EnqueuedRows
  <2>2. InFlight' = InFlight
    BY <1>6 DEF CrawlDiscovers, InFlight
  <2>3. Ledger!Learn(us \ Tracked(rows))
    BY <1>1, <2>1, <2>2, TouchLearns
  <2> QED BY <1>3, <2>3
<1>7. CASE Hydrate \/ HydrateForceSkipped
  <2>1. \E stay, found, due \in SUBSET Urls : EnqueueThePlan(stay, found, due)
    BY <1>7, PlanType DEF Hydrate, HydrateForceSkipped, IInv, TypeOK
  <2>2. InFlight' = InFlight
    BY <1>7 DEF Hydrate, HydrateForceSkipped, InFlight
  <2> QED BY <1>1, <1>3, <2>1, <2>2, EnqueueLearns
<1>8. CASE DequeueBatch
  <2>1. PICK batch \in SUBSET Urls :
           /\ batch \subseteq Tracked(rows)
           /\ rows' = DequeuedRows(rows, batch)
           /\ task' = [u \in Urls |-> IF u \in batch THEN "start" ELSE task[u]]
    BY <1>8 DEF DequeueBatch, IInv, TypeOK, WorkIsTracked
  <2>2. InFlight = {} /\ InFlight' = batch
    BY <1>8, <2>1 DEF DequeueBatch, InFlight
  <2>3. Tracked(rows) \cup batch = Tracked(rows)
    BY <2>1
  <2>4. Tracked(rows') = Tracked(rows)
    BY <1>1, <2>1, <2>3, DequeueFacts
  <2>5. \A u \in Urls \ batch : rows'[u] = rows[u]
    BY <1>1, <2>1, DequeueFacts
  <2>6. \A u \in batch : rows'[u].wait = 0
    BY <1>1, <2>1, DequeueFacts
  <2>7. Due(rows') = Due(rows) \cup batch
    BY <1>1, <2>1, <2>4, <2>5, <2>6 DEF Due
  <2>8. Ledger!Begin(batch, batch)
    BY <2>1, <2>2, <2>4, <2>7 DEF Ledger!Begin
  <2> QED BY <2>8 DEF Ledger!LedgerNext
<1>9. ASSUME NEW u \in Urls, HandleUrl(u) \/ ProgressiveProcess(u) PROVE Step
  <2>1. BeginProcess(u) /\ u \in Tracked(rows)
    BY <1>9 DEF HandleUrl, ProgressiveProcess, IInv, WorkIsTracked, InFlight
  <2>2. task[u] = "start" => rows[u].wait = 0
    BY DEF IInv, WorkHasItsPlace, BatchIsMarked, InFlight, InterruptedWorkIsDue,
           WithStatus
  <2>3. task[u] # "start" => InFlight = {}
    BY <1>9 DEF HandleUrl, ProgressiveProcess
  <2>4. CASE rows' = PrunedRows(rows, u) /\ task' = [task EXCEPT ![u] = "none"]
    <3>1. /\ rows'[u] = NewRow
          /\ Tracked(rows') = Tracked(rows) \cup {u}
          /\ \A v \in Urls \ {u} : rows'[v] = rows[v]
      BY <1>1, <2>4, PruneFacts
    <3>2. Tracked(rows') = Tracked(rows) /\ Due(rows') = Due(rows) \cup {u}
      BY <1>1, <2>1, <3>1 DEF Due, NewRow
    <3>3. InFlight' = InFlight \ {u}
      BY <1>1, <2>4 DEF InFlight
    <3>4. CASE task[u] = "start"
      <4>1. Due(rows) \cup {u} = Due(rows) /\ u \in InFlight
        BY <2>1, <2>2, <3>4 DEF Due, InFlight
      <4>2. Ledger!GiveUp({u})
        BY <3>2, <3>3, <4>1 DEF Ledger!GiveUp
      <4> QED BY <1>3, <4>2
    <3>5. CASE task[u] # "start"
      <4>1. Ledger!Expire({u})
        BY <2>1, <2>3, <3>2, <3>3, <3>5 DEF Ledger!Expire
      <4> QED BY <1>3, <4>1
    <3> QED BY <3>4, <3>5
  <2>5. CASE UNCHANGED rows /\ task' = [task EXCEPT ![u] = "none"]
    <3>1. InFlight' \subseteq InFlight
      BY <1>1, <2>5 DEF InFlight
    <3> QED BY <1>4, <2>5, <3>1
  <2>6. CASE rows' = Touch(rows, {u}) /\ task' = [task EXCEPT ![u] = "fetch"]
    <3>1. Touch(rows, {u}) = rows
      BY <1>1, <2>1 DEF Touch
    <3>2. InFlight' = InFlight \cup {u}
      BY <1>1, <2>6 DEF InFlight
    <3>3. CASE task[u] = "start"
      <4>1. InFlight' = InFlight
        BY <3>2, <3>3 DEF InFlight
      <4> QED BY <1>2, <2>6, <3>1, <4>1
    <3>4. CASE task[u] # "start"
      <4>1. Ledger!Begin({u}, {})
        BY <2>1, <2>3, <2>6, <3>1, <3>2, <3>4 DEF Ledger!Begin
      <4> QED BY <4>1 DEF Ledger!LedgerNext
    <3> QED BY <3>3, <3>4
  <2> QED BY <2>1, <2>4, <2>5, <2>6 DEF BeginProcess
<1>10. CASE \E u \in Urls : FetchReturns(u)
  BY <1>1, <1>2, <1>10 DEF FetchReturns, InFlight
<1>11. ASSUME NEW u \in Urls, RecordSuccess(u) \/ ProcessFails(u) PROVE Step
  <2>1. u \in InFlight /\ u \in Tracked(rows) /\ InFlight' = InFlight \ {u}
    BY <1>1, <1>11 DEF RecordSuccess, ProcessFails, IInv, WorkIsTracked, InFlight
  <2>2. /\ rows' \in Rows /\ rows'[u].status \in {"success", "failed"}
        /\ rows'[u].wait > 0
        /\ \A v \in Urls \ {u} : rows'[v] = rows[v]
    <3>1. CASE RecordSuccess(u)
      BY <1>1, <3>1, SuccessFacts DEF RecordSuccess
    <3>2. CASE ProcessFails(u)
      <4>1. Touch(rows, {u}) = rows
        BY <1>1, <2>1 DEF Touch
      <4>2. rows' = FailedRows(rows, u)
        BY <3>2, <4>1 DEF ProcessFails
      <4> QED BY <1>1, <4>2, FailureFacts
    <3> QED BY <1>11, <3>1, <3>2
  <2>3. Tracked(rows') = Tracked(rows)
    BY <2>1, <2>2 DEF Tracked
  <2>4. Due(rows') = Due(rows) \ {u}
    BY <2>2, <2>3 DEF Due, Tracked
  <2>5. Ledger!Conclude(u)
    BY <2>1, <2>3, <2>4 DEF Ledger!Conclude
  <2> QED BY <2>5 DEF Ledger!LedgerNext
<1>12. CASE RetryFailed
  <2>1. PICK us \in SUBSET Urls : rows' = Touch(rows, us)
    BY <1>12 DEF RetryFailed, EnqueuedRows, WithStatus
  <2>2. InFlight' = InFlight
    BY <1>12 DEF RetryFailed, InFlight, process
  <2>3. Ledger!Learn(us \ Tracked(rows))
    BY <1>1, <2>1, <2>2, TouchLearns
  <2> QED BY <1>3, <2>3
<1>13. CASE TimePasses
  <2>1. \A u \in Urls : /\ rows'[u].status = rows[u].status
                        /\ rows[u].wait = 0 => rows'[u].wait = 0
    BY <1>1, <1>13, AgeFacts DEF TimePasses
  <2>2. Tracked(rows') = Tracked(rows) /\ Due(rows) \subseteq Due(rows')
    BY <2>1 DEF Tracked, Due
  <2>3. InFlight' = InFlight
    BY <1>13 DEF TimePasses, InFlight, process
  <2>4. Ledger!Expire(Due(rows')) /\ Due(rows') \in SUBSET Urls
    BY <1>1, <2>2, <2>3 DEF Ledger!Expire, Due
  <2> QED BY <1>3, <2>4
<1>14. CASE CycleFails \/ Crash \/ CompleteCycle
  <2>1. BreaksOff /\ InFlight' = {}
    BY <1>14 DEF CycleFails, Crash, CompleteCycle, LeaveCycle, InFlight, NoTask,
                 BreaksOff
  <2>2. CASE UNCHANGED rows
    BY <1>4, <2>1, <2>2
  <2>3. CASE ~UNCHANGED rows
    <3>1. pc = "hydrate"
          /\ \E stay, found, due \in SUBSET Urls : EnqueueThePlan(stay, found, due)
      BY <2>1, <2>3, PlanType DEF BreaksOff, IInv, TypeOK
    <3>2. InFlight = {}
      BY <3>1 DEF IInv, WorkHasItsPlace
    <3> QED BY <1>1, <1>3, <2>1, <3>1, <3>2, EnqueueLearns
  <2> QED BY <2>2, <2>3
<1>15. CASE StartCycle \/ DeleteBlacklistedCaches \/ ReadMetadata
             \/ SitemapFetched \/ SitemapUnavailable \/ CrawlEnds
             \/ ProcessorDrained \/ QueueDrained \/ PurgeQueue
             \/ SitemapEdited \/ Restart \/ UNCHANGED vars
  <2>1. UNCHANGED <<rows, task>>
    BY <1>15 DEF StartCycle, DeleteBlacklistedCaches, ReadMetadata,
                 SitemapFetched, SitemapUnavailable, CrawlEnds,
                 ProcessorDrained, QueueDrained, PurgeQueue, SitemapEdited,
                 Restart, vars, disk, process
  <2> QED BY <1>2, <2>1 DEF InFlight
<1> QED BY <1>5, <1>6, <1>7, <1>8, <1>9, <1>10, <1>11, <1>12, <1>13, <1>14, <1>15
        DEF Next, Engine, Discovery, Execution, Environment, Faults

\* No crash, purge, filter or restart discharges a debt: only an attempt at
\* the URL that came to its end.
THEOREM CycleImplementsLedger == Spec => RefinesLedger
<1>1. Init => Ledger!LedgerInit
  BY LedgerStarts
<1>2. IInv /\ [Next]_vars => [Ledger!LedgerNext]_(Ledger!ledgerVars)
  BY LedgerStep
<1> QED BY <1>1, <1>2, Invariance, PTL DEF Spec, RefinesLedger, Ledger!LedgerSpec
-----------------------------------------------------------------------------
(* What untracks a URL.                                                    *)

\* Only the deletion by prefixes, at the start of a cycle, untracks a URL.
LEMMA TrackedGrows ==
    ASSUME IInv, [Next]_vars, ~DeleteBlacklistedMetadata
    PROVE  Tracked(rows) \subseteq Tracked(rows')
<1>1. rows \in Rows /\ TypeOK
  BY DEF IInv, TypeOK
<1>2. CASE UNCHANGED rows
  BY <1>2
<1>3. ASSUME NEW us \in SUBSET Urls, rows' = Touch(rows, us)
      PROVE  Tracked(rows) \subseteq Tracked(rows')
  BY <1>1, <1>3, TouchFacts
<1>4. CASE \E u \in Urls : CrawlDiscovers(u)
  BY <1>3, <1>4 DEF CrawlDiscovers, EnqueuedRows
<1>5. CASE \E stay, found, due \in SUBSET Urls : EnqueueThePlan(stay, found, due)
  <2>1. PICK stay, found, due \in SUBSET Urls : EnqueueThePlan(stay, found, due)
    BY <1>5
  <2>2. Tracked(rows') = Tracked(rows) \cup found \cup due
    BY <1>1, <2>1, EnqueuePlanType
  <2> QED BY <2>2
<1>6. CASE Hydrate \/ HydrateForceSkipped
  BY <1>1, <1>5, <1>6, PlanType DEF Hydrate, HydrateForceSkipped, TypeOK
<1>7. CASE CycleFails \/ Crash
  BY <1>1, <1>5, <1>7, PlanType DEF CycleFails, Crash, BreaksOff, TypeOK
<1>8. CASE DequeueBatch
  <2>1. PICK batch \in SUBSET Urls : rows' = DequeuedRows(rows, batch)
    BY <1>1, <1>8 DEF DequeueBatch, TypeOK
  <2> QED BY <1>1, <2>1, DequeueFacts
<1>9. CASE \E u \in Urls : HandleUrl(u) \/ ProgressiveProcess(u)
  <2>1. PICK u \in Urls : BeginProcess(u)
    BY <1>9 DEF HandleUrl, ProgressiveProcess
  <2>2. CASE rows' = PrunedRows(rows, u)
    BY <1>1, <2>2, PruneFacts
  <2>3. CASE rows' = Touch(rows, {u})
    BY <1>3, <2>3
  <2> QED BY <1>2, <2>1, <2>2, <2>3 DEF BeginProcess
<1>10. CASE \E u \in Urls : RecordSuccess(u)
  <2>1. PICK u \in Urls, delay \in RecheckDelays : rows' = SucceededRows(rows, u, delay)
    BY <1>10 DEF RecordSuccess
  <2> QED BY <1>1, <2>1, SuccessFacts DEF Tracked
<1>11. CASE \E u \in Urls : ProcessFails(u)
  <2>1. PICK u \in Urls : rows' = FailedRows(Touch(rows, {u}), u)
    BY <1>11 DEF ProcessFails
  <2>2. PICK touched \in Rows : touched = Touch(rows, {u})
                                /\ Tracked(rows) \subseteq Tracked(touched)
    BY <1>1, TouchFacts
  <2>3. /\ rows'[u].status = "failed"
        /\ \A v \in Urls \ {u} : rows'[v] = touched[v]
    BY <2>1, <2>2, FailureFacts
  <2>4. Tracked(touched) \subseteq Tracked(rows')
    BY <2>3 DEF Tracked
  <2> QED BY <2>2, <2>4
<1>12. CASE RetryFailed
  BY <1>3, <1>12 DEF RetryFailed, EnqueuedRows, WithStatus
<1>13. CASE TimePasses
  BY <1>1, <1>13, AgeFacts DEF TimePasses, Tracked
<1> QED BY <1>2, <1>4, <1>6, <1>7, <1>8, <1>9, <1>10, <1>11, <1>12, <1>13
        DEF Next, Engine, Discovery, Execution, Environment, Faults,
            StartCycle, DeleteBlacklistedCaches, ReadMetadata, SitemapFetched,
            SitemapUnavailable, CrawlEnds, ProcessorDrained, FetchReturns,
            QueueDrained, CompleteCycle, PurgeQueue, SitemapEdited, Restart,
            vars, disk

\* A URL that the rules allow stays tracked, through retries, filters, purges,
\* failed cycles, kills and restarts, unless the blacklist sweeps it.
THEOREM AllowedStayTracked ==
    Spec => [][config.allowed \cap Tracked(rows) \subseteq Tracked(rows)' \cup config.swept]_vars
<1> DEFINE Stay == config.allowed \cap Tracked(rows) \subseteq Tracked(rows)' \cup config.swept
<1>1. ASSUME IInv, [Next]_vars PROVE Stay
  <2>1. CASE DeleteBlacklistedMetadata
    <3>1. PICK gone \in SUBSET config.swept : rows' = WithoutRows(rows, gone)
      BY <2>1 DEF DeleteBlacklistedMetadata
    <3>2. rows \in Rows /\ gone \in SUBSET Urls
      BY <1>1, ConfigType DEF IInv, TypeOK
    <3>3. Tracked(rows') = Tracked(rows) \ gone
      BY <3>1, <3>2, WithoutFacts
    <3> QED BY <3>3
  <2> QED BY <1>1, <2>1, TrackedGrows
<1> QED BY <1>1, Invariance, PTL DEF Spec

-----------------------------------------------------------------------------
\* The lock between the workers that crawl (CrawlerLock), for any number of
\* workers and any lease.
USE LockAssumption

\* What lets CrawlsExclude survive a step: as long as nothing has failed and crawls
\* are shorter than the lease, the time a crawl has taken and the time its lease
\* has left add up to the lease, so that no lease is ever seen expired.
LeasesCoverCrawls ==
    losses = 0 /\ CrawlLimit < Ttl =>
        /\ owner # ghost
        /\ \A w \in Workers : at[w] \in {"idle", "crawl"}
        /\ \A w \in Crawlers : owner = w /\ left + elapsed[w] = Ttl

LockInv == LockTypeOK /\ LeaseIsBacked /\ LeasesCoverCrawls

LEMMA LockTypeStep == LockTypeOK /\ [LockNext]_lockVars => LockTypeOK'
<1> SUFFICES ASSUME LockTypeOK, [LockNext]_lockVars PROVE LockTypeOK'
  OBVIOUS
<1> USE DEF LockTypeOK
<1>1. ASSUME NEW w \in Workers, Acquire(w) PROVE LockTypeOK'
  BY <1>1 DEF Acquire, Go
<1>2. CASE \E w \in Workers : Attempt(w)
  BY <1>1, <1>2 DEF Attempt, FirstTry, SeeStale, Break, SecondTry, StayOut, Go
<1>3. CASE \E w \in Workers : ReleaseLock(w)
  BY <1>3 DEF ReleaseLock, Go
<1>4. CASE \E w \in Workers : Abandon(w)
  <2> PICK w \in Workers : Abandon(w)
    BY <1>4
  <2>1. losses' \in 0 .. MaxLosses
    BY DEF Abandon
  <2> QED BY <2>1 DEF Abandon, Go
<1>5. CASE Tick
  <2>1. elapsed' \in [Workers -> 0 .. CrawlLimit]
    BY <1>5 DEF Tick, Crawlers
  <2> QED BY <1>5, <2>1 DEF Tick
<1>6. CASE UNCHANGED lockVars
  BY <1>6 DEF lockVars
<1> QED BY <1>2, <1>3, <1>4, <1>5, <1>6 DEF LockNext

LEMMA BackedStep == LockTypeOK /\ LeaseIsBacked /\ [LockNext]_lockVars => LeaseIsBacked'
<1> SUFFICES ASSUME LockTypeOK, LeaseIsBacked, [LockNext]_lockVars PROVE LeaseIsBacked'
  OBVIOUS
<1> USE DEF LockTypeOK, LeaseIsBacked
<1>1. ASSUME NEW w \in Workers, Acquire(w) PROVE LeaseIsBacked'
  BY <1>1 DEF Acquire, Go
<1>2. CASE \E w \in Workers : Attempt(w)
  BY <1>1, <1>2 DEF Attempt, FirstTry, SeeStale, Break, SecondTry, StayOut, Go
<1>3. CASE \E w \in Workers : ReleaseLock(w)
  BY <1>3 DEF ReleaseLock, Go
<1>4. CASE \E w \in Workers : Abandon(w)
  BY <1>4 DEF Abandon, Go
<1>5. CASE Tick \/ UNCHANGED lockVars
  BY <1>5 DEF Tick, lockVars
<1> QED BY <1>2, <1>3, <1>4, <1>5 DEF LockNext

LEMMA CoverStep == LockInv /\ [LockNext]_lockVars => LeasesCoverCrawls'
<1> SUFFICES ASSUME LockInv, [LockNext]_lockVars, losses' = 0, CrawlLimit < Ttl
             PROVE  /\ owner' # ghost
                    /\ \A w \in Workers : at'[w] \in {"idle", "crawl"}
                    /\ \A w \in Workers :
                           at'[w] = "crawl" => owner' = w /\ left' + elapsed'[w] = Ttl
  BY DEF LeasesCoverCrawls, Crawlers
<1> USE DEF LockInv, LockTypeOK
<1>0. losses = 0
  BY DEF LockNext, Attempt, FirstTry, Acquire, SeeStale, Break, SecondTry, StayOut, ReleaseLock,
         Abandon, Tick, lockVars
<1>1. /\ owner # ghost
      /\ \A w \in Workers : at[w] \in {"idle", "crawl"}
      /\ \A w \in Workers : at[w] = "crawl" => owner = w /\ left + elapsed[w] = Ttl
  BY <1>0 DEF LeasesCoverCrawls, Crawlers
<1>2. ASSUME NEW w \in Workers PROVE ~SeeStale(w)
  <2> SUFFICES ASSUME owner # nobody, left = 0 PROVE FALSE
    BY DEF SeeStale, Expired
  <2>1. owner \in Workers /\ at[owner] = "crawl"
    BY <1>1 DEF LeaseIsBacked
  <2>2. elapsed[owner] = Ttl /\ elapsed[owner] \in 0 .. CrawlLimit
    BY <1>1, <2>1
  <2> QED BY <2>2
<1>3. ASSUME NEW w \in Workers, FirstTry(w)
      PROVE  /\ owner' = w
             /\ at' = [at EXCEPT ![w] = "crawl"]
             /\ left' + elapsed'[w] = Ttl
             /\ \A v \in Workers : at[v] # "crawl"
  BY <1>1, <1>3 DEF FirstTry, Acquire, Go
<1>4. CASE \E w \in Workers : Attempt(w)
  BY <1>1, <1>2, <1>3, <1>4 DEF Attempt, Break, SecondTry, StayOut
<1>5. CASE \E w \in Workers : ReleaseLock(w)
  BY <1>1, <1>5 DEF ReleaseLock, Go
<1>6. CASE \E w \in Workers : Abandon(w)
  BY <1>0, <1>6 DEF Abandon
<1>7. CASE Tick
  <2>1. ASSUME NEW w \in Workers, at[w] = "crawl"
        PROVE  owner' = w /\ left' + elapsed'[w] = Ttl
    <3>1. elapsed[w] < CrawlLimit /\ elapsed'[w] = elapsed[w] + 1
      BY <1>7, <2>1 DEF Tick, Crawlers
    <3>2. left > 0 /\ left' = left - 1
      BY <1>1, <1>7, <2>1, <3>1 DEF Tick
    <3> QED BY <1>1, <1>7, <2>1, <3>1, <3>2 DEF Tick
  <2> QED BY <1>1, <1>7, <2>1 DEF Tick
<1>8. CASE UNCHANGED lockVars
  BY <1>1, <1>8 DEF lockVars
<1> QED BY <1>4, <1>5, <1>6, <1>7, <1>8 DEF LockNext

LEMMA LockInvariance == LockSpec => []LockInv
<1>1. LockInit => LockInv
  BY DEF LockInit, LockInv, LockTypeOK, LeaseIsBacked, LeasesCoverCrawls, Crawlers
<1>2. LockInv /\ [LockNext]_lockVars => LockInv'
  BY LockTypeStep, BackedStep, CoverStep DEF LockInv
<1> QED BY <1>1, <1>2, PTL DEF LockSpec

\* Every variable keeps its type.
THEOREM LockTypeCorrect == LockSpec => []LockTypeOK
<1>1. LockInv => LockTypeOK
  BY DEF LockInv
<1> QED BY <1>1, LockInvariance, PTL

\* No lease is left in the name of a worker that does not crawl.
THEOREM LeasesAreBacked == LockSpec => []LeaseIsBacked
<1>1. LockInv => LeaseIsBacked
  BY DEF LockInv
<1> QED BY <1>1, LockInvariance, PTL

\* For every number of workers and every lease: crawls shorter than the lease
\* never overlap before something fails.
THEOREM ShortCrawlsExclude == LockSpec => []CrawlsExclude
<1>1. LockInv => CrawlsExclude
  BY DEF LockInv, LeasesCoverCrawls, CrawlsExclude
<1> QED BY <1>1, LockInvariance, PTL
=============================================================================
