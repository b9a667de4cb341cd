--------------------------- MODULE SchedulerService ---------------------------
(***************************************************************************)
(* When sync cycles run: the scheduler services of all online tenants of   *)
(* one process (src/docs_mcp_server/services/scheduler_service.py and the  *)
(* loop, the guard and the gate of utils/sync_scheduler.py), driven by     *)
(* cron, by the trigger endpoints and by the application's lifespan.  What *)
(* a cycle does is CrawlSync; here it only begins and ends.                *)
(*                                                                         *)
(* Everything runs on one asyncio event loop.  An action is what one task  *)
(* does until it suspends; `turn' names the task that has not suspended    *)
(* and so keeps every other from running.                                  *)
(***************************************************************************)
EXTENDS Integers, Sequences, FiniteSets

CONSTANTS
    Tenants,      \* the online tenants
    Scheduled,    \* those with a refresh_schedule
    Triggered,    \* those whose trigger endpoints are called
    GateSize,     \* infrastructure.sync_concurrency_limit
    MaxStops      \* bound: shutdowns and kills of the process

ASSUME ServiceAssumption ==
    /\ IsFiniteSet(Tenants)
    /\ Scheduled \subseteq Tenants /\ Triggered \subseteq Tenants
    /\ GateSize \in Nat \ {0}
    /\ MaxStops \in Nat

\* The two tasks of a tenant that may run a cycle.
loop(t)    == <<t, "loop">>
trigger(t) == <<t, "trigger">>
Tasks      == Tenants \X {"loop", "trigger"}
nobody     == <<"none", "none">>

VARIABLES
    service,      \* _scheduler: none, starting, up, or broken by its start
    told,         \* initialize() has answered True
    syncing,      \* _sync_in_progress
    due,          \* a cron instant lies between the last sync and now
    later,        \* one has passed since the loop last looked at the clock
    at,           \* where each task stands
    permits,      \* the gate: the semaphore's value
    waiters,      \* and those who wait for it, in order
    turn,         \* the task that has not suspended, if any
    app,          \* the process: up, draining or down
    stops         \* bound

perTenant == <<service, told, syncing, due, later>>
gate      == <<permits, waiters>>
vars      == <<perTenant, at, gate, turn, app, stops>>

Places == {"none", "awake", "asleep", "gate", "woken", "cycle"}

TypeOK ==
    /\ service \in [Tenants -> {"none", "starting", "up", "broken"}]
    /\ told \in [Tenants -> BOOLEAN] /\ syncing \in [Tenants -> BOOLEAN]
    /\ due \in [Tenants -> BOOLEAN] /\ later \in [Tenants -> BOOLEAN]
    /\ at \in [Tasks -> Places]
    /\ permits \in 0 .. GateSize
    /\ waiters \in Seq(Tasks)
    /\ turn \in Tasks \cup {nobody}
    /\ app \in {"up", "draining", "down"}
    /\ stops \in 0 .. MaxStops

\* A process that has just started knows nothing but what is due.
Fresh ==
    /\ service = [t \in Tenants |-> "none"]
    /\ told = [t \in Tenants |-> FALSE]
    /\ syncing = [t \in Tenants |-> FALSE]
    /\ later = [t \in Tenants |-> FALSE]
    /\ at = [k \in Tasks |-> "none"]
    /\ permits = GateSize /\ waiters = << >>
    /\ turn = nobody

Init ==
    /\ Fresh
    /\ due \in [Tenants -> BOOLEAN] /\ \A t \in Tenants \ Scheduled : ~due[t]
    /\ app = "up" /\ stops = 0

CanRun(k) == app # "down" /\ turn \in {nobody, k}
Free      == app # "down" /\ turn = nobody

-----------------------------------------------------------------------------
(* asyncio.Semaphore.  A waiter that has been woken owns a permit, and as   *)
(* long as it has not run, nobody else takes the fast path.                *)

Woken == {k \in Tasks : at[k] = "woken"}

Acquire(k) ==
    IF permits > 0 /\ waiters = << >> /\ Woken = {}
    THEN /\ permits' = permits - 1
         /\ at' = [at EXCEPT ![k] = "cycle"]
         /\ UNCHANGED waiters
    ELSE /\ waiters' = Append(waiters, k)
         /\ at' = [at EXCEPT ![k] = "gate"]
         /\ UNCHANGED permits

\* Faulty: the last waiter is woken first.
ReleaseWakesLast(k, place) ==
    IF waiters = << >>
    THEN /\ permits' = permits + 1
         /\ at' = [at EXCEPT ![k] = place]
         /\ UNCHANGED waiters
    ELSE /\ at' = [at EXCEPT ![k] = place, ![waiters[Len(waiters)]] = "woken"]
         /\ waiters' = SubSeq(waiters, 1, Len(waiters) - 1)
         /\ UNCHANGED permits

\* Faulty: nobody is woken.
ReleaseForgets(k, place) ==
    /\ permits' = permits + 1
    /\ at' = [at EXCEPT ![k] = place]
    /\ UNCHANGED waiters

\* release: the permit goes to the first waiter, or back.
Release(k, place) ==
    IF waiters = << >>
    THEN /\ permits' = permits + 1
         /\ at' = [at EXCEPT ![k] = place]
         /\ UNCHANGED waiters
    ELSE /\ at' = [at EXCEPT ![k] = place, ![Head(waiters)] = "woken"]
         /\ waiters' = Tail(waiters)
         /\ UNCHANGED permits

\* Faulty: a woken waiter looks after itself only.
EnterCycleAlone(k) ==
    /\ CanRun(k)
    /\ at[k] = "woken"
    /\ at' = [at EXCEPT ![k] = "cycle"]
    /\ UNCHANGED <<perTenant, gate, turn, app, stops>>

\* A woken waiter enters, and wakes the next ones if permits are free by then.
EnterCycle(k) ==
    /\ CanRun(k)
    /\ at[k] = "woken"
    /\ \E n \in 0 .. permits :
           /\ n = permits \/ n = Len(waiters)
           /\ n <= Len(waiters)
           /\ permits' = permits - n
           /\ waiters' = SubSeq(waiters, n + 1, Len(waiters))
           /\ LET next == {waiters[i] : i \in 1 .. n}
              IN  at' = [j \in Tasks |-> IF j = k THEN "cycle"
                                         ELSE IF j \in next THEN "woken"
                                         ELSE at[j]]
    /\ UNCHANGED <<perTenant, turn, app, stops>>

-----------------------------------------------------------------------------
(* Starting the service of a tenant                                        *)

\* initialize, from the lifespan or from the trigger endpoint: it creates the
\* scheduler before it awaits its start.
InitializeBegins(t) ==
    /\ Free /\ app = "up"
    /\ service[t] = "none"
    /\ t \in Scheduled \cup Triggered
    /\ service' = [service EXCEPT ![t] = "starting"]
    /\ UNCHANGED <<told, syncing, due, later, at, gate, turn, app, stops>>

StartSucceeds(t) ==
    /\ Free
    /\ service[t] = "starting"
    /\ service' = [service EXCEPT ![t] = "up"]
    /\ told' = [told EXCEPT ![t] = TRUE]
    /\ at' = [at EXCEPT ![loop(t)] = IF t \in Scheduled THEN "awake" ELSE "none"]
    /\ UNCHANGED <<syncing, due, later, gate, turn, app, stops>>

\* The scheduler object stays.
StartFails(t) ==
    /\ Free
    /\ service[t] = "starting"
    /\ service' = [service EXCEPT ![t] = "broken"]
    /\ UNCHANGED <<told, syncing, due, later, at, gate, turn, app, stops>>

\* Any later initialize finds a scheduler object and answers True.
InitializeAgain(t) ==
    /\ Free /\ app = "up"
    /\ service[t] # "none" /\ t \in Triggered
    /\ told' = [told EXCEPT ![t] = TRUE]
    /\ UNCHANGED <<service, syncing, due, later, at, gate, turn, app, stops>>

-----------------------------------------------------------------------------
(* Cycles                                                                  *)

\* trigger_sync and trigger_failed_retry of the service: one task at a time.
TriggerAccepted(t) ==
    /\ Free /\ app = "up"
    /\ t \in Triggered /\ service[t] # "none"
    /\ at[trigger(t)] = "none"
    /\ at' = [at EXCEPT ![trigger(t)] = "awake"]
    /\ UNCHANGED <<perTenant, gate, turn, app, stops>>

TriggerRejected(t) ==
    /\ CanRun(trigger(t))
    /\ at[trigger(t)] = "awake"
    /\ service[t] # "up" \/ syncing[t]
    /\ at' = [at EXCEPT ![trigger(t)] = "none"]
    /\ UNCHANGED <<perTenant, gate, turn, app, stops>>

\* Faulty: a trigger does not look whether a cycle is in progress.
TriggerStartsAnyway(t) ==
    /\ CanRun(trigger(t))
    /\ at[trigger(t)] = "awake"
    /\ service[t] = "up"
    /\ syncing' = [syncing EXCEPT ![t] = TRUE]
    /\ Acquire(trigger(t))
    /\ UNCHANGED <<service, told, due, later, turn, app, stops>>

TriggerStarts(t) ==
    /\ CanRun(trigger(t))
    /\ at[trigger(t)] = "awake"
    /\ service[t] = "up" /\ ~syncing[t]
    /\ syncing' = [syncing EXCEPT ![t] = TRUE]
    /\ Acquire(trigger(t))
    /\ UNCHANGED <<service, told, due, later, turn, app, stops>>

\* The manual cycle ends, well or badly; last_sync_at is not touched.
TriggerEnds(t) ==
    /\ CanRun(trigger(t))
    /\ at[trigger(t)] = "cycle"
    /\ syncing' = [syncing EXCEPT ![t] = FALSE]
    /\ Release(trigger(t), "none")
    /\ UNCHANGED <<service, told, due, later, turn, app, stops>>

\* _run_loop looks at the clock.
LoopRests(t) ==
    /\ CanRun(loop(t))
    /\ at[loop(t)] = "awake" /\ ~due[t]
    /\ at' = [at EXCEPT ![loop(t)] = "asleep"]
    /\ turn' = nobody
    /\ UNCHANGED <<perTenant, gate, app, stops>>

LoopStarts(t) ==
    /\ CanRun(loop(t))
    /\ at[loop(t)] = "awake" /\ due[t] /\ ~syncing[t]
    /\ syncing' = [syncing EXCEPT ![t] = TRUE]
    /\ later' = [later EXCEPT ![t] = FALSE]
    /\ Acquire(loop(t))
    /\ turn' = nobody
    /\ UNCHANGED <<service, told, due, app, stops>>

\* The guard answers False without suspending, and nothing else in the loop
\* suspends either: it looks at the clock again.
LoopLooksAgain(t) ==
    /\ CanRun(loop(t))
    /\ at[loop(t)] = "awake" /\ due[t] /\ syncing[t]
    /\ turn' = loop(t)
    /\ UNCHANGED <<perTenant, at, gate, app, stops>>

LoopWakes(t) ==
    /\ Free
    /\ at[loop(t)] = "asleep"
    /\ at' = [at EXCEPT ![loop(t)] = "awake"]
    /\ UNCHANGED <<perTenant, gate, turn, app, stops>>

\* Faulty: last_sync_at becomes the time the cycle ended, not the time it began.
LoopSucceedsLate(t) ==
    /\ CanRun(loop(t))
    /\ at[loop(t)] = "cycle"
    /\ syncing' = [syncing EXCEPT ![t] = FALSE]
    /\ due' = [due EXCEPT ![t] = FALSE]
    /\ Release(loop(t), "awake")
    /\ turn' = loop(t)
    /\ UNCHANGED <<service, told, later, app, stops>>

\* last_sync_at becomes the time the loop looked at before the cycle; when it
\* cannot be saved the cycle stays due.  The loop goes on without suspending.
LoopSucceeds(t) ==
    /\ CanRun(loop(t))
    /\ at[loop(t)] = "cycle"
    /\ syncing' = [syncing EXCEPT ![t] = FALSE]
    /\ \E saved \in BOOLEAN : due' = [due EXCEPT ![t] = ~saved \/ later[t]]
    /\ Release(loop(t), "awake")
    /\ turn' = loop(t)
    /\ UNCHANGED <<service, told, later, app, stops>>

\* Faulty: the flag is cleared only on success.
LoopFailsKeepsFlag(t) ==
    /\ CanRun(loop(t))
    /\ at[loop(t)] = "cycle"
    /\ Release(loop(t), "asleep")
    /\ UNCHANGED <<perTenant, turn, app, stops>>

LoopFails(t) ==
    /\ CanRun(loop(t))
    /\ at[loop(t)] = "cycle"
    /\ syncing' = [syncing EXCEPT ![t] = FALSE]
    /\ Release(loop(t), "asleep")
    /\ UNCHANGED <<service, told, due, later, turn, app, stops>>

-----------------------------------------------------------------------------
(* The clock and the process                                               *)

CronTick(t) ==
    /\ app # "down"
    /\ t \in Scheduled
    /\ due' = [due EXCEPT ![t] = TRUE]
    /\ later' = [later EXCEPT ![t] = TRUE]
    /\ UNCHANGED <<service, told, syncing, at, gate, turn, app, stops>>

\* The lifespan ends: every tenant is shut down, which calls stop() of its
\* service; stop() calls a method SyncScheduler does not have, and gather
\* keeps the exception.
Drain ==
    /\ Free /\ app = "up" /\ stops < MaxStops
    /\ app' = "draining"
    /\ stops' = stops + 1
    /\ UNCHANGED <<perTenant, at, gate, turn>>

Down ==
    /\ app' = "down"
    /\ UNCHANGED due
    /\ service' = [t \in Tenants |-> "none"]
    /\ told' = [t \in Tenants |-> FALSE]
    /\ syncing' = [t \in Tenants |-> FALSE]
    /\ later' = [t \in Tenants |-> FALSE]
    /\ at' = [k \in Tasks |-> "none"]
    /\ permits' = GateSize /\ waiters' = << >>
    /\ turn' = nobody

Exit == app = "draining" /\ Down /\ UNCHANGED stops
Kill == app # "down" /\ stops < MaxStops /\ Down /\ stops' = stops + 1

Boot ==
    /\ app = "down"
    /\ app' = "up"
    /\ UNCHANGED <<perTenant, at, gate, turn, stops>>

-----------------------------------------------------------------------------
Loop(t) == LoopRests(t) \/ LoopStarts(t) \/ LoopLooksAgain(t) \/ LoopWakes(t)
              \/ LoopSucceeds(t) \/ LoopFails(t) \/ EnterCycle(loop(t))
Trigger(t) == TriggerRejected(t) \/ TriggerStarts(t) \/ TriggerEnds(t)
              \/ EnterCycle(trigger(t))
Start(t) == StartSucceeds(t) \/ StartFails(t)
Requests(t) == InitializeBegins(t) \/ InitializeAgain(t) \/ TriggerAccepted(t)

Next ==
    \/ \E t \in Tenants :
           Loop(t) \/ Trigger(t) \/ Start(t) \/ Requests(t) \/ CronTick(t)
    \/ Drain \/ Exit \/ Kill \/ Boot

Spec == Init /\ [][Next]_vars

\* The event loop runs its ready tasks in order, so that a task that is ready
\* again and again runs, though others get the turn in between; every sleep
\* ends, every cycle ends (CrawlSync!CyclesEnd), and a container that went down
\* is started again.
FairSpec ==
    /\ Spec
    /\ \A t \in Tenants : SF_vars(Start(t))
    /\ \A t \in Scheduled : SF_vars(Loop(t))
    /\ \A t \in Triggered : SF_vars(Trigger(t))
    /\ WF_vars(Exit) /\ WF_vars(Boot)

-----------------------------------------------------------------------------
InCycle   == {k \in Tasks : at[k] = "cycle"}
Engaged   == {"gate", "woken", "cycle"}

\* _run_sync_cycle_guarded: no tenant runs two cycles at once, however its
\* cron instants and the requests of its operator fall together.
OneCyclePerTenant ==
    \A t \in Tenants : ~(at[loop(t)] = "cycle" /\ at[trigger(t)] = "cycle")

\* "at most N tenants run a sync cycle concurrently."
GateIsRespected == Cardinality(InCycle) <= GateSize

\* No permit is lost or made, and none lies idle beside a waiter that sleeps
\* unless a woken one is about to pass it on.
PermitsAreConserved ==
    /\ permits + Cardinality(InCycle) + Cardinality(Woken) = GateSize
    /\ permits > 0 /\ waiters # << >> => Woken # {}

\* The flag is set exactly while one of the tenant's tasks is engaged, so an
\* error cannot leave a tenant that rejects every cycle from then on.
FlagIsTrue ==
    \A t \in Tenants :
        syncing[t] <=> at[loop(t)] \in Engaged \/ at[trigger(t)] \in Engaged

\* A loop that is due while its tenant is busy with a triggered cycle asks again
\* and again without suspending, and nothing else of the process ever runs: not
\* the cycle it waits for, nor any other tenant's (_run_loop).  The properties
\* below speak of the time until then.
Spinning == \E t \in Tenants : turn = loop(t) /\ at[loop(t)] = "awake" /\ due[t] /\ syncing[t]

\* Whoever waits at the gate gets through, in spite of tenants that sync in
\* every free moment, unless a loop spins.
GateIsFair ==
    \A k \in {loop(t) : t \in Scheduled} \cup {trigger(t) : t \in Triggered} :
        at[k] = "gate" ~> at[k] # "gate" \/ Spinning

\* An accepted trigger is answered: it runs its cycle or is rejected, unless a
\* loop spins.
TriggersEnd ==
    \A t \in Triggered : at[trigger(t)] # "none" ~> at[trigger(t)] = "none" \/ Spinning

\* A cron instant is never forgotten, also when it falls into a running cycle:
\* a cycle of this tenant begins after it, while its loop lives and none spins.
TicksAreServed ==
    \A t \in Scheduled :
        later[t] /\ at[loop(t)] # "none" ~> ~later[t] \/ Spinning
=============================================================================
