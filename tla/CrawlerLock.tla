------------------------------ MODULE CrawlerLock ------------------------------
(***************************************************************************)
(* The lease that keeps the workers of one tenant from crawling at the     *)
(* same time (src/docs_mcp_server/utils/sync_scheduler.py,                 *)
(* _acquire_crawler_lock, over the table crawl_locks of                    *)
(* crawl_state_store.py).  A worker is a process with its own scheduler;   *)
(* the workers share nothing but the database and the clock, so between    *)
(* any two transactions of one everything may happen in another.           *)
(*                                                                         *)
(* The lease is never renewed: a crawl may outlive it.                     *)
(***************************************************************************)
EXTENDS Integers, FiniteSets

CONSTANTS
    Workers,       \* the processes
    Ttl,           \* crawler_lock_ttl_seconds, in ticks
    CrawlLimit,    \* bound: no crawl lasts longer than this
    MaxLosses,     \* bound: crashes and errors that leave a lease behind
    ghost, nobody  \* the owner of such a lease; the owner of no lease

ASSUME LockAssumption ==
    /\ IsFiniteSet(Workers)
    /\ ghost \notin Workers /\ nobody \notin Workers /\ ghost # nobody
    /\ Ttl \in Nat \ {0}
    /\ CrawlLimit \in Nat /\ MaxLosses \in Nat

VARIABLES
    owner,     \* the row of crawl_locks: its owner, or nobody
    left,      \* and the ticks until expires_at
    at,        \* where each worker stands
    elapsed,   \* how long it has been crawling
    losses     \* bound

lockVars == <<owner, left, at, elapsed, losses>>

Crawlers == {w \in Workers : at[w] = "crawl"}

LockTypeOK ==
    /\ owner \in Workers \cup {ghost, nobody}
    /\ left \in 0 .. Ttl
    /\ at \in [Workers -> {"idle", "stale", "retry", "crawl"}]
    /\ elapsed \in [Workers -> 0 .. CrawlLimit]
    /\ losses \in 0 .. MaxLosses

LockInit ==
    /\ owner = nobody /\ left = 0
    /\ at = [w \in Workers |-> "idle"]
    /\ elapsed = [w \in Workers |-> 0]
    /\ losses = 0

-----------------------------------------------------------------------------
Go(w, place) == at' = [at EXCEPT ![w] = place]

\* try_acquire_lock when there is no row.
Acquire(w) ==
    /\ owner = nobody
    /\ owner' = w /\ left' = Ttl
    /\ Go(w, "crawl")
    /\ elapsed' = [elapsed EXCEPT ![w] = 0]
    /\ UNCHANGED losses

\* Faulty: a lease in its last tick counts as expired.
ExpiredEarly == left <= 1

\* LockLease.is_expired
Expired == left = 0

FirstTry(w) == at[w] = "idle" /\ Acquire(w)

\* The row is there and not expired: no crawl this time.  The worker is back
\* where it was, which is why a held lease shows only as a step not taken.
SeeStale(w) ==
    /\ at[w] = "idle"
    /\ owner # nobody /\ Expired
    /\ Go(w, "stale")
    /\ UNCHANGED <<owner, left, elapsed, losses>>

\* Faulty: the lock is broken only when the tenant was refreshed recently.
BreakOnlyFresh(w) ==
    /\ at[w] = "stale"
    /\ \E refreshed \in BOOLEAN :
           IF refreshed
           THEN owner' = nobody /\ left' = 0 /\ Go(w, "idle")
           ELSE UNCHANGED <<owner, left>> /\ Go(w, "retry")
    /\ UNCHANGED <<elapsed, losses>>

\* break_lock deletes the row BY NAME, whoever owns it by now; a tenant that
\* was refreshed recently is then left alone.
Break(w) ==
    /\ at[w] = "stale"
    /\ owner' = nobody /\ left' = 0
    /\ \E refreshed \in BOOLEAN : Go(w, IF refreshed THEN "idle" ELSE "retry")
    /\ UNCHANGED <<elapsed, losses>>

SecondTry(w) == at[w] = "retry" /\ Acquire(w)

StayOut(w) ==
    /\ at[w] = "retry"
    /\ owner # nobody
    /\ Go(w, "idle")
    /\ UNCHANGED <<owner, left, elapsed, losses>>

\* Faulty: the crawl ends and its lease stays.
ReleaseNothing(w) ==
    /\ at[w] = "crawl"
    /\ Go(w, "idle")
    /\ elapsed' = [elapsed EXCEPT ![w] = 0]
    /\ UNCHANGED <<owner, left, losses>>

\* run's finally: release_lock deletes the row only if it is this worker's.
ReleaseLock(w) ==
    /\ at[w] = "crawl"
    /\ IF owner = w THEN owner' = nobody /\ left' = 0 ELSE UNCHANGED <<owner, left>>
    /\ Go(w, "idle")
    /\ elapsed' = [elapsed EXCEPT ![w] = 0]
    /\ UNCHANGED losses

\* The process dies, or an error strikes after the lease was taken and before
\* the try, or in release_lock itself.  The owner string names this attempt.
Abandon(w) ==
    /\ at[w] # "idle" /\ losses < MaxLosses
    /\ owner' = IF owner = w THEN ghost ELSE owner
    /\ Go(w, "idle")
    /\ elapsed' = [elapsed EXCEPT ![w] = 0]
    /\ losses' = losses + 1
    /\ UNCHANGED left

Tick ==
    /\ \A w \in Crawlers : elapsed[w] < CrawlLimit
    /\ left' = IF left > 0 THEN left - 1 ELSE 0
    /\ elapsed' = [w \in Workers |-> IF w \in Crawlers THEN elapsed[w] + 1 ELSE 0]
    /\ UNCHANGED <<owner, at, losses>>

Attempt(w) ==
    FirstTry(w) \/ SeeStale(w) \/ Break(w) \/ SecondTry(w) \/ StayOut(w)

LockNext ==
    \/ \E w \in Workers : Attempt(w) \/ ReleaseLock(w) \/ Abandon(w)
    \/ Tick

LockSpec == LockInit /\ [][LockNext]_lockVars

\* Time passes, crawls end, and every worker goes on with what it has begun
\* and crawls again when its next cycle comes.
FairLockSpec ==
    /\ LockSpec
    /\ WF_lockVars(Tick)
    /\ \A w \in Workers : WF_lockVars(Attempt(w)) /\ WF_lockVars(ReleaseLock(w))

-----------------------------------------------------------------------------
\* Who owns the row is crawling: a crawl that outlived its lease, ended late or
\* lost it to another worker never leaves a lease in its own name.
LeaseIsBacked == owner \in Workers => at[owner] = "crawl"

\* While crawls are shorter than the lease and nothing has failed yet, the lease
\* excludes: it never expires under a crawler, so nobody ever breaks it.
CrawlsExclude ==
    losses = 0 /\ CrawlLimit < Ttl =>
        \A v, w \in Crawlers : v = w

\* An abandoned lease does not keep the tenant from crawling for ever.
GhostsVanish == owner = ghost ~> owner # ghost
=============================================================================
