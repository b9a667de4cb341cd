-------------------------- MODULE MCSchedulerService --------------------------
(***************************************************************************)
(* Instances of SchedulerService for TLC, with the record of a tenant's    *)
(* sync (SyncProgress), which is functions of a state of its own.          *)
(***************************************************************************)
EXTENDS SchedulerService, SyncProgress

CONSTANTS a, b, c

Two   == {a, b}
Three == {a, b, c}
LastTwo == {b, c}

\* What the constants alone decide is looked at before anything has happened.
AtStart == Fresh /\ stops = 0

\* The record a cycle keeps of itself loses nothing it has counted and ends
\* completed, through kills and failing checkpoints (sync_scheduler_progress.py).
ProgressIsKept == AtStart => RecordIsKept
=============================================================================
