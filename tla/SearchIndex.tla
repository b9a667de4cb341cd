------------------------------ MODULE SearchIndex ------------------------------
(***************************************************************************)
(* The search index of one tenant: the builders that write segments        *)
(* (src/docs_mcp_server/search/indexer.py and search/sqlite_storage.py),   *)
(* the audit that says whether one is needed, and the server that opens    *)
(* what the manifest names (src/docs_mcp_server/tenant.py).                *)
(*                                                                         *)
(* A segment is named by the fingerprint of the documents it holds, so a   *)
(* version of the documents and its segment have one name here.  Builders  *)
(* run in threads of the server and in processes of the command line, and  *)
(* share nothing but the directory: no lock keeps two of them apart.       *)
(***************************************************************************)
EXTENDS Integers, FiniteSets

CONSTANTS
    Versions,     \* the contents the tenant's documents may have
    Builders,     \* the calls of build_segment
    InServer,     \* those that run in a thread of the server
    MaxErrors,    \* bound: errors of SQLite or the file system, and restarts
    none          \* no documents, no manifest, no segment

ASSUME IndexAssumption ==
    /\ none \notin Versions
    /\ IsFiniteSet(Builders) /\ InServer \subseteq Builders
    /\ MaxErrors \in Nat

VARIABLES
    docs,       \* the content of the documents
    files,      \* the segments that have a database file
    torn,       \* those of them without a committed content
    newest,     \* the one with the latest mtime
    manifest,   \* latest_segment_id of manifest.json
    at,         \* where each builder stands
    built,      \* the version it has read
    index,      \* _search_index of the server
    opening,    \* the segment it has found ready and is about to open
    mishaps,    \* history: what has gone wrong so far
    errors      \* bound

segments == <<files, torn, newest>>
builder  == <<at, built>>
server   == <<index, opening>>
vars     == <<docs, segments, manifest, builder, server, mishaps, errors>>

Content  == Versions \cup {none}
Stages   == {"idle", "read", "write", "lost", "saved", "published"}

\* overlap:     two builders were at work at the same time
\* unpublished: a manifest could not be written
\* cut:         a builder died after its commit and before it had pruned
\* orphan:      a file was left without content and without a writer
Mishaps  == {"overlap", "unpublished", "cut", "orphan"}

TypeOK ==
    /\ docs \in Content
    /\ files \subseteq Versions /\ torn \subseteq files
    /\ newest \in files \cup {none}
    /\ manifest \in Content
    /\ at \in [Builders -> Stages] /\ built \in [Builders -> Content]
    /\ index \in Content /\ opening \in Content
    /\ mishaps \subseteq Mishaps
    /\ errors \in 0 .. MaxErrors

Init ==
    /\ docs \in Content
    /\ files = {} /\ torn = {} /\ newest = none /\ manifest = none
    /\ at = [b \in Builders |-> "idle"] /\ built = [b \in Builders |-> none]
    /\ index = none /\ opening = none
    /\ mishaps = {} /\ errors = 0

Busy == {b \in Builders : at[b] # "idle"}
Go(b, stage) == at' = [at EXCEPT ![b] = stage]

\* A database file comes into being.
CreateFile(v) ==
    /\ files' = files \cup {v} /\ torn' = torn \cup {v}
    /\ newest' = v

\* Files are unlinked, and their writers go on without a name.  The order of
\* the older mtimes is not kept: any file that is left may be the newest then.
RemoveFiles(gone, stages) ==
    /\ files' = files \ gone /\ torn' = torn \ gone
    /\ newest' \in IF newest \notin gone THEN {newest}
                   ELSE IF files \subseteq gone THEN {none} ELSE files \ gone
    /\ at' = [b \in Builders |-> IF stages[b] = "write" /\ built[b] \in gone
                                 THEN "lost" ELSE stages[b]]

\* A sync, an export or an editor.
DocsChange ==
    /\ docs' \in Content
    /\ UNCHANGED <<segments, manifest, builder, server, mishaps, errors>>

-----------------------------------------------------------------------------
(* build_segment                                                           *)

\* Without documents a build changes nothing.
BuildReads(b) ==
    /\ at[b] = "idle" /\ docs # none
    /\ Go(b, "read")
    /\ built' = [built EXCEPT ![b] = docs]
    /\ mishaps' = IF Busy = {} THEN mishaps ELSE mishaps \cup {"overlap"}
    /\ UNCHANGED <<docs, segments, manifest, server, errors>>

\* save, when the file is there: "don't overwrite it".
SaveFinds(b) ==
    /\ at[b] = "read" /\ built[b] \in files
    /\ Go(b, "saved")
    /\ UNCHANGED <<docs, segments, manifest, built, server, mishaps, errors>>

\* Faulty: the manifest is written before the transaction is committed.
SaveCreatesAndPublishes(b) ==
    /\ at[b] = "read" /\ built[b] \notin files
    /\ CreateFile(built[b])
    /\ manifest' = built[b]
    /\ Go(b, "write")
    /\ UNCHANGED <<docs, built, server, mishaps, errors>>

\* The schema is committed on its own, before any row.
SaveCreates(b) ==
    /\ at[b] = "read" /\ built[b] \notin files
    /\ CreateFile(built[b])
    /\ Go(b, "write")
    /\ UNCHANGED <<docs, manifest, built, server, mishaps, errors>>

\* When another builder has removed the file meanwhile, the commit goes to a
\* file without a name.
SaveCommits(b) ==
    /\ at[b] \in {"write", "lost"}
    /\ torn' = IF at[b] = "write" THEN torn \ {built[b]} ELSE torn
    /\ Go(b, "saved")
    /\ UNCHANGED <<docs, files, newest, manifest, built, server, mishaps, errors>>

\* An error of SQLite: the file, by now whoever's, is removed again.
SaveFails(b) ==
    /\ at[b] \in {"write", "lost"} /\ errors < MaxErrors
    /\ RemoveFiles({built[b]}, [at EXCEPT ![b] = "idle"])
    /\ built' = [built EXCEPT ![b] = none]
    /\ errors' = errors + 1
    /\ UNCHANGED <<docs, manifest, server, mishaps>>

\* Faulty: the manifest is written when there is none.
PublishOnce(b) ==
    /\ at[b] = "saved"
    /\ manifest' = IF manifest = none THEN built[b] ELSE manifest
    /\ Go(b, "published")
    /\ UNCHANGED <<docs, segments, built, server, mishaps, errors>>

\* _update_manifest
Publish(b) ==
    /\ at[b] = "saved"
    /\ manifest' = built[b]
    /\ Go(b, "published")
    /\ UNCHANGED <<docs, segments, built, server, mishaps, errors>>

\* "Non-fatal error - segment is still saved": the build goes on to prune.
PublishFails(b) ==
    /\ at[b] = "saved" /\ errors < MaxErrors
    /\ manifest' \in {manifest, none}
    /\ Go(b, "published")
    /\ mishaps' = mishaps \cup {"unpublished"}
    /\ errors' = errors + 1
    /\ UNCHANGED <<docs, segments, built, server>>

\* prune_to_segment_ids keeps what this build has saved.
Prune(b) ==
    /\ at[b] = "published"
    /\ RemoveFiles(files \ {built[b]}, [at EXCEPT ![b] = "idle"])
    /\ built' = [built EXCEPT ![b] = none]
    /\ UNCHANGED <<docs, manifest, server, mishaps, errors>>

\* trigger_all_indexing.py for a tenant without documents: it prunes to what
\* the manifest names or, failing that, to the newest file.
PruneWithoutDocs(b) ==
    /\ b \notin InServer
    /\ at[b] = "idle" /\ docs = none
    /\ \E keep \in IF manifest # none THEN {manifest} ELSE {newest} :
           keep # none /\ RemoveFiles(files \ {keep}, at)
    /\ mishaps' = IF Busy = {} THEN mishaps ELSE mishaps \cup {"overlap"}
    /\ UNCHANGED <<docs, manifest, built, server, errors>>

\* Builders that die with their process.  A manifest is truncated before it is
\* written, and a file without a committed content stays behind.
Die(dead) ==
    /\ at' = [b \in Builders |-> IF b \in dead THEN "idle" ELSE at[b]]
    /\ built' = [b \in Builders |-> IF b \in dead THEN none ELSE built[b]]
    /\ manifest' \in IF \E b \in dead : at[b] = "saved" THEN {manifest, none}
                     ELSE {manifest}
    /\ mishaps' = mishaps
           \cup {m \in {"cut"} : \E b \in dead : at[b] \in {"saved", "published"}}
           \cup {m \in {"orphan"} : \E b \in dead : at[b] = "write"}
    /\ UNCHANGED <<docs, segments>>

Kill(b) ==
    /\ b \in Busy \ InServer
    /\ Die({b})
    /\ UNCHANGED <<server, errors>>

-----------------------------------------------------------------------------
(* The server                                                              *)

\* Faulty: a server that has an index does not look for another.
LookOnce ==
    /\ opening = none /\ manifest # none /\ index = none
    /\ manifest \in files \ torn
    /\ opening' = manifest
    /\ UNCHANGED <<docs, segments, manifest, builder, index, mishaps, errors>>

\* _maybe_reload_from_manifest and reload_search_index, up to _segment_ready.
Look ==
    /\ opening = none /\ manifest # none /\ manifest # index
    /\ manifest \in files \ torn
    /\ opening' = manifest
    /\ UNCHANGED <<docs, segments, manifest, builder, index, mishaps, errors>>

\* SegmentSearchIndex connects by path; SQLite creates the file when a builder
\* has removed it in between.
Open ==
    /\ opening # none
    /\ index' = opening /\ opening' = none
    /\ IF opening \in files
       THEN UNCHANGED <<segments, mishaps>>
       ELSE /\ CreateFile(opening)
            /\ mishaps' = mishaps \cup {"orphan"}
    /\ UNCHANGED <<docs, manifest, builder, errors>>

OpenFails ==
    /\ opening # none /\ errors < MaxErrors
    /\ opening' = none
    /\ errors' = errors + 1
    /\ UNCHANGED <<docs, segments, manifest, builder, index, mishaps>>

Restart ==
    /\ errors < MaxErrors
    /\ index' = none /\ opening' = none
    /\ Die(InServer)
    /\ errors' = errors + 1

-----------------------------------------------------------------------------
Build(b) ==
    \/ SaveFinds(b) \/ SaveCreates(b) \/ SaveCommits(b) \/ Publish(b) \/ Prune(b)

Work(b) ==
    \/ BuildReads(b) \/ Build(b) \/ SaveFails(b) \/ PublishFails(b)
    \/ PruneWithoutDocs(b) \/ Kill(b)

Next ==
    \/ DocsChange \/ Look \/ Open \/ OpenFails \/ Restart
    \/ \E b \in Builders : Work(b)

Spec == Init /\ [][Next]_vars

\* The server reads the manifest every two seconds, and a build that has begun
\* goes on; nobody is obliged to begin one.
FairSpec ==
    Spec /\ WF_vars(Look) /\ WF_vars(Open) /\ \A b \in Builders : WF_vars(Build(b))

-----------------------------------------------------------------------------
\* fingerprint_audit, when it finds that no rebuild is needed; without
\* documents it asks for none either.
AuditIsOk == docs = none \/ docs = newest

\* Pruning never takes the file away that the manifest names, wherever a
\* builder is killed, as long as builders do not overlap and manifests can be
\* written.
ManifestNamesAFile ==
    mishaps \cap {"overlap", "unpublished"} = {} =>
        manifest \in files \cup {none}

\* And that file has its content, unless a builder was killed while writing.
ManifestIsReadable == mishaps \subseteq {"cut"} => manifest \notin torn

\* Then the audit, which looks at nothing but the age of files, answers "ok"
\* only when the server would find the documents as they are.
OkMeansCurrent ==
    mishaps = {} /\ Busy = {} /\ docs # none /\ AuditIsOk => manifest = docs

\* What any process publishes is what a running server serves before long.
PublishedIsServed ==
    \A v \in Versions :
        manifest = v ~> index = v \/ manifest # v \/ mishaps # {}
=============================================================================
