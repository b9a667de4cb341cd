----------------------------- MODULE DocumentStore -----------------------------
(* The store of one document of an online tenant: CacheService calls run     *)
(* FileSystemUnitOfWork over the staging directory of their own and the      *)
(* directory all of them share.  Tasks are calls of check_and_fetch_page for *)
(* URLs that PathBuilder maps to this document: it drops the fragment, the   *)
(* query and the case of a URL, so a cycle does fetch several at once.       *)
(* File reads and writes are awaited; a commit is not interrupted by another *)
(* task, only by a kill or by an error of the disk.                          *)
EXTENDS Naturals, FiniteSets

CONSTANTS Tasks,       \* calls in flight at most
          MaxFetches,  \* bound: fetches of the document
          MaxFaults,   \* bound: kills and disk errors
          None,        \* no file, no document, nothing loaded
          Empty,       \* a text file with nothing in it
          Cut          \* a file that ends too early

ASSUME BoundsAssumption == MaxFetches \in Nat /\ MaxFaults \in Nat
ASSUME TasksAssumption == IsFiniteSet(Tasks)

VARIABLES files,    \* the document on disk, in both layouts
          staged,   \* the staging directory of each task, None: not there
          call,     \* what each task does and knows
          fetched,  \* fetches tried so far; a page is known by the number of its fetch
          expired,  \* min_fetch_interval_hours have passed since these fetches
          known,    \* the document is among the loaded semantic candidates
          orphans,  \* staging directories of killed processes that hold metadata
          swallowed,\* history: add has logged an OSError and returned
          excused,  \* history: a mishap hit the document, see Mishap
          faults    \* how many faults were used up

history == <<swallowed, excused>>
vars == <<files, staged, call, fetched, expired, known, orphans, history, faults>>

Fetches == 0 .. MaxFetches  \* 0: a fetch from before
Layouts == {"nested", "hashed"}  \* PathBuilder; UrlTranslator, never written any more

Texts == Fetches \cup {None, Empty, Cut}
Metadata == [of : Fetches, status : {"success", "failed"}]  \* of: last_fetched_at
Documents == [content : Fetches \cup {Cut}, meta : Metadata]
Files == [content : Texts, meta : Metadata \cup {None, Cut}]
Views == [content : Texts, of : Fetches \cup {None}]  \* what a reader gets of it

ASSUME MarksAssumption ==
    /\ {None, Empty, Cut} \cap (Nat \cup Metadata \cup Documents \cup Files \cup Views) = {}
    /\ None # Empty /\ None # Cut /\ Empty # Cut

Absent == [content |-> None, meta |-> None]
Idle == [at |-> "idle", forced |-> FALSE, half |-> None, doc |-> None, page |-> 0,
         answer |-> "none"]

\* Type invariant.
TypeOK ==
    /\ files \in [Layouts -> Files]
    /\ staged \in [Tasks -> Files \cup {None}]
    /\ call \in [Tasks -> [at : {"idle", "lookup", "fetch", "store", "fail",
                                 "write", "describe", "commit"},
                           forced : BOOLEAN,  \* use_semantic_cache = False
                           half : [layout : Layouts, content : Texts] \cup {None},
                           doc : Documents \cup {None},
                           page : Fetches,
                           answer : {"none", "fresh", "similar", "stored", "failed", "raised"}]]
    /\ known \in BOOLEAN \cup {None}
    /\ fetched \in Fetches /\ expired \in Fetches
    /\ orphans \in 0 .. MaxFaults * Cardinality(Tasks)
    /\ swallowed \in BOOLEAN /\ excused \in BOOLEAN
    /\ faults \in 0 .. MaxFaults

\* A document an older version stored may be there, in its layout.
Init ==
    /\ \E old \in {Absent, [content |-> 0, meta |-> [of |-> 0, status |-> "success"]]} :
          files = [layout \in Layouts |-> IF layout = "hashed" THEN old ELSE Absent]
    /\ staged = [t \in Tasks |-> None]
    /\ call = [t \in Tasks |-> Idle]
    /\ fetched = 0 /\ expired = 0 /\ known = None /\ orphans = 0
    /\ swallowed = FALSE /\ excused = FALSE /\ faults = 0

Fault == faults < MaxFaults /\ faults' = faults + 1

(***************************************************************************)
(* FileSystemRepository.get: the layout is chosen by what exists, then the *)
(* text and the metadata are read, with an await at each.                  *)
(***************************************************************************)
Resolve(fs) == IF fs["nested"] # Absent THEN "nested" ELSE "hashed"

Readable(meta) == meta \notin {None, Cut}

\* What a get that nothing interrupts would return; Empty text raises.
Get(fs) == LET copy == fs[Resolve(fs)] IN
           IF copy.content # None /\ Readable(copy.meta) THEN copy ELSE None

\* Faulty: any age is fresh.
FreshAlways(doc) == doc # None

Fresh(doc) == doc # None /\ doc.meta.of > expired

\* What store_document writes for the page, mark_document_failed for the
\* document it has read.
Stored(page) == [content |-> page, meta |-> [of |-> page, status |-> "success"]]
Failed(doc) == [doc EXCEPT !.meta.status = "failed"]

Continue(t, at, doc) ==
    /\ call' = [call EXCEPT ![t] = [@ EXCEPT !.at = at, !.half = None, !.doc = doc]]
    /\ UNCHANGED staged

\* The unit of work is left: without a commit its staging directory goes.
Leave(t, at) ==
    /\ call' = [call EXCEPT ![t] = [@ EXCEPT !.at = at, !.half = None, !.doc = None,
                                                  !.page = 0]]
    /\ staged' = [staged EXCEPT ![t] = None]

End(t, answer) == /\ call' = [call EXCEPT ![t] = [Idle EXCEPT !.answer = answer]]
                  /\ staged' = [staged EXCEPT ![t] = None]

\* list and count look for metadata below the base directory, the staging
\* directories of every unit of work included.
Listed == \/ \E layout \in Layouts : Readable(files[layout].meta)
          \/ \E t \in Tasks : staged[t] # None /\ Readable(staged[t].meta)
          \/ orphans > 0

\* The candidates are listed once.  How similar a document is depends on words
\* and positions in its URL; one that is among them may be similar enough.
Candidate == IF known = None THEN Listed ELSE known

(***************************************************************************)
(* A call: look the document up, fetch it, store it or record the failure. *)
(***************************************************************************)
Begin(t) ==
    /\ call[t].at = "idle"
    /\ \E forced \in BOOLEAN :
          call' = [call EXCEPT ![t] = [Idle EXCEPT !.at = "lookup", !.forced = forced]]
    /\ UNCHANGED <<files, staged, fetched, expired, known, orphans, history, faults>>

\* The get of the lookup has returned.
LookedUp(t, doc) ==
    \/ /\ Fresh(doc)
       /\ End(t, "fresh") /\ UNCHANGED known
    \/ /\ ~Fresh(doc)
       /\ IF call[t].forced THEN Leave(t, "fetch") /\ UNCHANGED known
          ELSE /\ known' = Candidate
               /\ \/ Leave(t, "fetch")
                  \/ Candidate /\ End(t, "similar")

Got(t, doc) ==
    \/ call[t].at = "lookup" /\ LookedUp(t, doc)
    \/ /\ call[t].at = "store" /\ UNCHANGED known
       /\ Continue(t, "write", Stored(call[t].page))
    \/ /\ call[t].at = "fail" /\ UNCHANGED known
       /\ IF doc = None THEN End(t, "failed") ELSE Continue(t, "write", Failed(doc))

\* The document raised in get, in the commit: the lookup and the recording of a
\* failure do not catch it, _cache_document does.
Raised(t) == IF call[t].page # 0 THEN Leave(t, "fail") ELSE End(t, "raised")

Reading(t) == call[t].at \in {"lookup", "store", "fail"}

\* Some files of the layout exist, and the text is read if it is one of them.
ReadText(t) ==
    /\ Reading(t) /\ call[t].half = None
    /\ LET layout == Resolve(files)
           text == files[layout].content
       IN IF text = None THEN Got(t, None)
          ELSE /\ call' = [call EXCEPT ![t].half = [layout |-> layout, content |-> text]]
               /\ UNCHANGED <<staged, known>>
    /\ UNCHANGED <<files, fetched, expired, orphans, history, faults>>

\* The metadata is read from the same layout; Content refuses an empty text.
ReadMeta(t) ==
    /\ Reading(t) /\ call[t].half # None
    /\ LET text == call[t].half.content
           meta == files[call[t].half.layout].meta
       IN IF ~Readable(meta) THEN Got(t, None)
          ELSE IF text = Empty THEN Raised(t) /\ UNCHANGED known
          ELSE Got(t, [content |-> text, meta |-> meta])
    /\ UNCHANGED <<files, fetched, expired, orphans, history, faults>>

\* fetch_page answers with a page or it raises.
Fetch(t) ==
    /\ call[t].at = "fetch"
    /\ \E page \in {0, fetched + 1} \cap Fetches :
          /\ fetched' = IF page = 0 THEN fetched ELSE page
          /\ call' = [call EXCEPT ![t].page = page,
                                  ![t].at = IF page = 0 THEN "fail" ELSE "store"]
    /\ UNCHANGED <<files, staged, expired, known, orphans, history, faults>>

(***************************************************************************)
(* add: the text, then the metadata, into the staging directory.  It logs  *)
(* an OSError and returns, and the commit that follows takes what is there. *)
(***************************************************************************)
\* Faulty: the units of work share one staging directory.
WriteTextShared(t) ==
    /\ call[t].at = "write"
    /\ staged' = [u \in Tasks |-> IF u # t /\ staged[u] = None THEN None
                                  ELSE [Absent EXCEPT !.content = call[t].doc.content]]
    /\ call' = [call EXCEPT ![t].at = "describe"]
    /\ UNCHANGED <<files, fetched, expired, known, orphans, history, faults>>

WriteText(t) ==
    /\ call[t].at = "write"
    /\ staged' = [staged EXCEPT ![t] = [Absent EXCEPT !.content = call[t].doc.content]]
    /\ call' = [call EXCEPT ![t].at = "describe"]
    /\ UNCHANGED <<files, fetched, expired, known, orphans, history, faults>>

WriteMeta(t) ==
    /\ call[t].at = "describe"
    /\ staged' = [staged EXCEPT ![t].meta = call[t].doc.meta]
    /\ call' = [call EXCEPT ![t].at = "commit"]
    /\ UNCHANGED <<files, fetched, expired, known, orphans, history, faults>>

WriteFails(t) ==
    /\ \/ /\ call[t].at = "write"
          /\ \E text \in {None, Empty, Cut} :
                staged' = [staged EXCEPT ![t] = [Absent EXCEPT !.content = text]]
       \/ /\ call[t].at = "describe"
          /\ \E meta \in {None, Cut} : staged' = [staged EXCEPT ![t].meta = meta]
    /\ call' = [call EXCEPT ![t].at = "commit"]
    /\ swallowed' = TRUE /\ excused' = TRUE
    /\ Fault
    /\ UNCHANGED <<files, fetched, expired, known, orphans>>

(***************************************************************************)
(* commit: every staged file replaces the one at its destination, in the   *)
(* order of their paths: below __docs_metadata first.                      *)
(***************************************************************************)
\* Faulty: a file that is there already is kept.
OverKept(old, new) == IF old = None THEN new ELSE old

Over(old, new) == IF new = None THEN old ELSE new

Merged(t) == [content |-> Over(files["nested"].content, staged[t].content),
              meta |-> Over(files["nested"].meta, staged[t].meta)]

\* A merge that stops on its way, or just before a file is moved in.
HalfMerged(t) ==
    LET old == files["nested"]
        new == staged[t]
    IN {[old EXCEPT !.meta = IF new.meta = None THEN @ ELSE None],
        [old EXCEPT !.meta = Merged(t).meta],
        [Merged(t) EXCEPT !.content = IF new.content = None THEN @ ELSE None]}

\* The document on disk is newer than what the call has read or fetched.
Late(t) == LET shown == Get(files) IN
           /\ shown # None
           /\ IF call[t].page # 0 THEN shown.content \in Nat /\ shown.content > call[t].page
              ELSE <<shown.content, shown.meta.of>>
                      # <<call[t].doc.content, call[t].doc.meta.of>>

\* A stored document becomes a candidate once the candidates are loaded.
Recorded(t) == IF known = None \/ call[t].page = 0 THEN known ELSE TRUE

Commit(t) ==
    /\ call[t].at = "commit"
    /\ files' = [files EXCEPT !["nested"] = Merged(t)]
    /\ End(t, IF call[t].page # 0 THEN "stored" ELSE "failed")
    /\ known' = Recorded(t)
    /\ excused' = (excused \/ Late(t))
    /\ UNCHANGED <<fetched, expired, orphans, swallowed, faults>>

\* An OSError stops the merge; the unit of work is rolled back.
CommitFails(t) ==
    /\ call[t].at = "commit"
    /\ \E left \in HalfMerged(t) \cup {files["nested"]} :
          files' = [files EXCEPT !["nested"] = left]
    /\ Raised(t)
    /\ excused' = TRUE
    /\ Fault
    /\ UNCHANGED <<fetched, expired, known, orphans, swallowed>>

(***************************************************************************)
(* What happens beside the calls.                                          *)
(***************************************************************************)
Elapse == /\ expired < fetched
          /\ expired' = fetched
          /\ UNCHANGED <<files, staged, call, fetched, known, orphans, history, faults>>

\* Faulty: only the nested files are looked for.
DeletedNested(fs) == [fs EXCEPT !["nested"] = Absent]

\* FileSystemRepository.delete: the nested files if there are any, else the others.
Deleted(fs) == [fs EXCEPT ![Resolve(fs)] = Absent]

\* delete_blacklisted_caches, between two cycles: one delete for each metadata
\* file that names the URL.
Cleanup ==
    /\ \A t \in Tasks : call[t].at = "idle"
    /\ LET listed == Cardinality({layout \in Layouts : Readable(files[layout].meta)}) + orphans
       IN /\ listed > 0
          /\ files' = IF listed = 1 THEN Deleted(files) ELSE Deleted(Deleted(files))
    /\ UNCHANGED <<staged, call, fetched, expired, known, orphans, history, faults>>

\* The process is killed and started again.  Nothing removes what it has staged.
Kill ==
    /\ Fault
    /\ LET holding == {t \in Tasks : staged[t] # None /\ Readable(staged[t].meta)} IN
       \/ /\ orphans' = orphans + Cardinality(holding)
          /\ UNCHANGED <<files, excused>>
       \/ \E t \in {u \in Tasks : call[u].at = "commit"} : \E left \in HalfMerged(t) :
             /\ files' = [files EXCEPT !["nested"] = left]
             /\ orphans' = orphans + Cardinality(IF left.meta = None THEN holding ELSE holding \ {t})
             /\ excused' = TRUE
    /\ call' = [t \in Tasks |-> Idle] /\ staged' = [t \in Tasks |-> None]
    /\ known' = None
    /\ UNCHANGED <<fetched, expired, swallowed>>

Next == \/ \E t \in Tasks : \/ Begin(t) \/ ReadText(t) \/ ReadMeta(t) \/ Fetch(t)
                            \/ WriteText(t) \/ WriteMeta(t) \/ WriteFails(t)
                            \/ Commit(t) \/ CommitFails(t)
        \/ Elapse \/ Cleanup \/ Kill

Spec == Init /\ [][Next]_vars

(***************************************************************************)
(* Properties.                                                             *)
(***************************************************************************)
\* The files a get goes to; one that is missing shows as None.
Shown == LET copy == files[Resolve(files)] IN
         IF copy = Absent THEN None
         ELSE [content |-> copy.content,
               of |-> IF Readable(copy.meta) THEN copy.meta.of ELSE None]

Cell == INSTANCE DocumentCell WITH shown <- Shown, excused <- excused

\* What a reader gets of the document is one fetch and only a newer one or a
\* deletion replaces it: the two awaited reads of a get, the two awaited writes
\* of an add, staged copies of other calls, kills outside a commit and the copy
\* in the old layout do not show.  It is not promised after a commit that was
\* cut short, an error of the disk, or a call that wrote back what another has
\* replaced since it was read (filesystem_unit_of_work.py: commit).
ReplacedAsOne == Cell!Spec

\* A URL the freshness check answers for has a document on disk that was fetched
\* within the interval: a read between the two files of a commit, or beside
\* another call, does not make an old document pass for a fresh one.
FreshMeansFresh ==
    [][\A t \in Tasks : call[t].at = "lookup" /\ call'[t].answer = "fresh" /\ ~excused
          => Shown # None /\ Shown.content > expired]_vars

\* What a call reports as stored is the page it fetched, text and metadata, as a
\* reader then gets it, whatever was there before, a document a kill has torn
\* included; an error that add has swallowed voids it.
StoredIsOnDisk ==
    [][\A t \in Tasks : call[t].at = "commit" /\ call'[t].answer = "stored" /\ ~swallowed
          => Shown' = [content |-> call[t].page, of |-> call[t].page]]_vars

\* After the cleanup of a blacklisted prefix a reader gets nothing for the URL:
\* the copy in the old layout does not come back from under the deleted one.
CleanupForgets == [][Cleanup /\ ~excused => Shown' = None]_vars

\* A call answers from the cache only within the interval: the docstring of
\* check_and_fetch_page promises TTL enforcement.
TtlIsEnforced ==
    [][\A t \in Tasks : call[t].at = "lookup" /\ call'[t].answer \in {"fresh", "similar"}
                          /\ ~excused
          => Shown # None /\ Shown.content > expired]_vars
=============================================================================
