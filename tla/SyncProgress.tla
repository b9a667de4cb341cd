----------------------------- MODULE SyncProgress -----------------------------
(* The record of a sync (src/docs_mcp_server/domain/sync_progress.py) and how *)
(* a scheduler keeps it over cycles, errors of the database and kills         *)
(* (utils/sync_scheduler_progress.py).  Both are functions of their state     *)
(* here, and the properties are of all states some steps lead to.  Times,     *)
(* retry counts and what only counts upwards are left out.                    *)
EXTENDS Integers, FiniteSets

CONSTANT Pages      \* the URLs of a tenant

ASSUME PagesAssumption == IsFiniteSet(Pages)

(***************************************************************************)
(* The aggregate                                                           *)
(***************************************************************************)
Terminal == {"completed", "failed"}

\* Faulty: a sync that was killed while it discovered is not taken up again.
CanResumeFetching == {"fetching", "interrupted"}
CanResume == {"discovering", "fetching", "interrupted"}

Counters == {"discovered", "pending", "processed", "failed"}

CreateNew == [phase |-> "initializing", discovered |-> {}, pending |-> {}, processed |-> {},
              failed |-> {}, stats |-> [c \in Counters |-> 0]]

\* SyncStats.with_updates
Recounted(p, counters) ==
    [p EXCEPT !.stats = [c \in Counters |-> IF c \in counters THEN Cardinality(p[c]) ELSE @[c]]]

AddDiscovered(p, urls) ==
    IF urls \subseteq p.discovered THEN p
    ELSE Recounted([p EXCEPT !.discovered = @ \cup urls, !.pending = @ \cup (urls \ p.discovered)],
                   {"discovered", "pending"})

Enqueue(p, urls) ==
    IF urls \subseteq p.processed \cup p.pending THEN p
    ELSE Recounted([p EXCEPT !.pending = @ \cup (urls \ p.processed)], {"pending"})

MarkProcessed(p, url) ==
    Recounted([p EXCEPT !.pending = @ \ {url}, !.processed = @ \cup {url}, !.failed = @ \ {url}],
              {"pending", "processed", "failed"})

MarkFailed(p, url) ==
    Recounted([p EXCEPT !.pending = @ \ {url}, !.processed = @ \ {url}, !.failed = @ \cup {url}],
              {"pending", "processed", "failed"})

MarkSkipped(p, url) == Recounted([p EXCEPT !.pending = @ \ {url}], {"pending"})

\* _transition_to raises where this does not hold.
MayTurn(p, phase) == p.phase = phase \/ p.phase \notin Terminal
TurnedTo(p, phase) == [p EXCEPT !.phase = phase]

(***************************************************************************)
(* The scheduler: at, where its cycle stands; active and stored, the record *)
(* in memory and in the database; handled, what this cycle has done.       *)
(***************************************************************************)
Nothing == [CreateNew EXCEPT !.phase = "none"]
Beginning == [at |-> "idle", active |-> Nothing, stored |-> Nothing, handled |-> {}]

\* save and save_checkpoint, of which the second may be what fails.
Saved(s) == [s EXCEPT !.stored = s.active]
NotSaved(s) == {s, Saved(s)}

\* _load_or_create_progress
LoadOrCreate(s) ==
    IF s.active # Nothing THEN s.active
    ELSE IF s.stored.phase \in CanResume THEN s.stored ELSE CreateNew

\* _prepare_progress_for_cycle, up to its checkpoint.
Prepared(s) ==
    LET p == LoadOrCreate(s)
    IN  [s EXCEPT !.handled = {},
                  !.active = CASE p.phase = "interrupted" -> TurnedTo(p, "fetching")
                               [] p.phase = "initializing" -> TurnedTo(p, "discovering")
                               [] OTHER -> p]

Begun(s) == [Saved(Prepared(s)) EXCEPT !.at = "cycle"]

Dropped(s) == [s EXCEPT !.active = Nothing, !.at = "idle"]

\* _fail_progress: a record that is completed cannot fail, which raises again.
Failed(s) ==
    LET failed == [s EXCEPT !.active = TurnedTo(@, "failed")]
    IN  IF MayTurn(s.active, "failed") THEN Dropped(Saved(failed)) ELSE [s EXCEPT !.at = "idle"]

FailedUnsaved(s) ==
    LET failed == [s EXCEPT !.active = TurnedTo(@, "failed")]
    IN  IF MayTurn(s.active, "failed") THEN {[t EXCEPT !.at = "idle"] : t \in NotSaved(failed)} ELSE {}

\* _complete_progress; a record that has failed cannot complete, and then or
\* when it cannot be saved the cycle fails.
Completed(s) ==
    IF MayTurn(s.active, "completed")
    THEN Dropped(Saved([s EXCEPT !.active = TurnedTo(@, "completed")])) ELSE Failed(s)

CompletedUnsaved(s) ==
    IF MayTurn(s.active, "completed")
    THEN {Failed(t) : t \in NotSaved([s EXCEPT !.active = TurnedTo(@, "completed")])}
    ELSE FailedUnsaved(s)

\* _record_progress_processed: a checkpoint that fails, or is not due, leaves
\* the record as it is.
Handled(s, url) ==
    LET marked == [s EXCEPT !.active = MarkProcessed(@, url), !.handled = @ \cup {url}]
    IN  NotSaved(marked)

\* A cycle begins, works and ends, with and without errors, or is killed.
Steps(s) ==
    {[Beginning EXCEPT !.stored = s.stored]}
    \cup IF s.at = "idle" THEN {Begun(s)} \cup NotSaved(Prepared(s))
         ELSE {Completed(s), Failed(s)} \cup CompletedUnsaved(s) \cup FailedUnsaved(s)
              \cup UNION {Handled(s, url) : url \in Pages}

-----------------------------------------------------------------------------
\* What ten steps lead to, which is all there is for two pages, and what five
\* uses of a record make of it.
Onward(states) == states \cup UNION {Steps(s) : s \in states}

Reached == LET further(states) == Onward(Onward(Onward(Onward(Onward(states)))))
           IN  further(further({Beginning}))

Used(p) == {AddDiscovered(p, urls) : urls \in SUBSET Pages}
             \cup {Enqueue(p, urls) : urls \in SUBSET Pages}
             \cup UNION {{MarkProcessed(p, u), MarkFailed(p, u), MarkSkipped(p, u)} : u \in Pages}

UsedOnce(records) == records \cup UNION {Used(p) : p \in records}

Records == UsedOnce(UsedOnce(UsedOnce(UsedOnce(UsedOnce({CreateNew})))))

Undisturbed(s) == Completed(Begun(IF s.at = "idle" THEN s ELSE [Beginning EXCEPT !.stored = s.stored]))

\* The counts of a record are those of its sets; a URL is not processed and
\* failed at once.
CountsAgree(p) == p.processed \cap p.failed = {} /\ p = Recounted(p, Counters)

\* A record that is completed and out of memory counts all its last cycle has
\* done.  Whatever went wrong before, two cycles without an error leave a
\* completed record and nothing in memory.
IsKept(s) ==
    /\ Cardinality(s.stored.processed) = s.stored.stats["processed"]
    /\ s.stored.phase = "completed" /\ s.active = Nothing
          => s.handled \subseteq s.stored.processed
    /\ LET mended == Undisturbed(Undisturbed(s))
       IN  mended.stored.phase = "completed" /\ mended.active = Nothing

\* What a record in the database counts as processed stays in it, over kills,
\* until the record is final; a final record is not taken up again.
KeptFrom(s, t) ==
    /\ s.stored.phase \in {"discovering", "fetching"}
          => t.stored.phase # "none" /\ s.stored.processed \subseteq t.stored.processed
    /\ s.stored.phase \in Terminal /\ t.stored.phase \notin Terminal
          => t.stored.processed = {}

RecordIsKept ==
    /\ \A p \in Records : CountsAgree(p)
    /\ \A s \in Reached : IsKept(s) /\ \A t \in Steps(s) : KeptFrom(s, t)
===============================================================================
