---------------------------- MODULE RecrawlLedger ----------------------------
(***************************************************************************)
(* What the sync engine of one tenant promises about the URLs it tracks,   *)
(* without any of its machinery (no queue, no plan, no crash).             *)
(*                                                                         *)
(* Every known URL is now and then OWED an attempt.  A debt is discharged  *)
(* in one way only: by an attempt at that URL running to its conclusion,   *)
(* successful or not.  An attempt that is given up leaves the debt, and a  *)
(* URL is forgotten only on purpose and never while it is being worked on. *)
(***************************************************************************)
CONSTANT Urls

VARIABLES
    known,     \* the URLs the tenant tracks
    owed,      \* those that are due for an attempt
    working    \* those with an attempt in progress

ledgerVars == <<known, owed, working>>

LedgerTypeOK ==
    /\ known \subseteq Urls
    /\ owed \subseteq known
    /\ working \subseteq known

LedgerInit == known = {} /\ owed = {} /\ working = {}

\* New URLs are due at once.
Learn(S) ==
    /\ S \cap known = {}
    /\ known' = known \cup S
    /\ owed' = owed \cup S
    /\ UNCHANGED working

\* A recheck delay or a backoff has run out.
Expire(S) ==
    /\ S \subseteq known
    /\ owed' = owed \cup S
    /\ UNCHANGED <<known, working>>

\* Attempts start; S is what they add to the debt (work forced ahead of time).
Begin(W, S) ==
    /\ W \subseteq known \ working
    /\ S \subseteq W
    /\ working' = working \cup W
    /\ owed' = owed \cup S
    /\ UNCHANGED known

\* The only way out of the debt.
Conclude(u) ==
    /\ u \in working
    /\ working' = working \ {u}
    /\ owed' = owed \ {u}
    /\ UNCHANGED known

GiveUp(W) ==
    /\ W \subseteq working
    /\ working' = working \ W
    /\ UNCHANGED <<known, owed>>

Forget(S) ==
    /\ S \cap working = {}
    /\ known' = known \ S
    /\ owed' = owed \ S
    /\ UNCHANGED working

LedgerNext ==
    \/ \E S \in SUBSET Urls : Learn(S) \/ Expire(S) \/ GiveUp(S) \/ Forget(S)
    \/ \E W, S \in SUBSET Urls : Begin(W, S)
    \/ \E u \in Urls : Conclude(u)

LedgerSpec == LedgerInit /\ [][LedgerNext]_ledgerVars
=============================================================================
