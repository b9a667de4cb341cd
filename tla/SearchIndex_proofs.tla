--------------------------- MODULE SearchIndex_proofs ---------------------------
(***************************************************************************)
(* Proofs about SearchIndex: what the manifest names is there, is whole    *)
(* and, when the audit says so, is what the documents are, for any number  *)
(* of versions and builders.  Then about the clean-up of a tenant's        *)
(* directory (CleanupSegments) and what a build takes from it (Indexing),  *)
(* of any size, and about the hub and the client (RootHub, Docsearch); at  *)
(* the end what the run evaluates of these and of SearchText.              *)
(***************************************************************************)
EXTENDS MCSearchIndex, SearchText_proofs

Without(excluded) == mishaps \cap excluded = {}

\* Whoever is at work knows what it builds.
BuildersHaveRead == \A b \in Builders : at[b] # "idle" => built[b] \in Versions

\* One builder at a time, and nobody takes its file away.
OneBuilds ==
    Without({"overlap"}) =>
        /\ \A b, c \in Builders : at[b] # "idle" /\ at[c] # "idle" => b = c
        /\ \A b \in Builders : at[b] # "lost"
        /\ \A b \in Builders :
               at[b] \in {"write", "saved", "published"} => built[b] \in files

\* Only what is being written has no content.
TornIsWritten ==
    Without({"overlap", "orphan"}) =>
        \A v \in torn : \E b \in Builders : at[b] = "write" /\ built[b] = v

\* The manifest names the new segment when the old ones are pruned, and never
\* one that is being written.
ManifestInStep ==
    Without({"overlap", "unpublished"}) =>
        \A b \in Builders : /\ at[b] = "published" => manifest = built[b]
                            /\ at[b] = "write" => manifest # built[b]

\* Between builds there is no file but the one the manifest names.
NothingElseIsLeft ==
    mishaps = {} =>
        \/ \E b \in Builders : at[b] = "published"
        \/ \A v \in files \ {manifest} :
               \E b \in Builders : at[b] \in {"write", "saved"} /\ built[b] = v

Parts ==
    /\ BuildersHaveRead
    /\ OneBuilds
    /\ TornIsWritten
    /\ ManifestInStep
    /\ ManifestNamesAFile
    /\ NothingElseIsLeft

IInv == TypeOK /\ Parts

-----------------------------------------------------------------------------
LEMMA TypeInit == Init => TypeOK
  BY IndexAssumption DEF Init, TypeOK, Content, Stages, Mishaps

LEMMA RemoveType ==
  ASSUME TypeOK,
         NEW gone \in SUBSET Versions, NEW stages \in [Builders -> Stages],
         RemoveFiles(gone, stages)
  PROVE  /\ files' \subseteq Versions /\ torn' \subseteq files'
         /\ newest' \in files' \cup {none}
         /\ at' \in [Builders -> Stages]
  BY DEF TypeOK, RemoveFiles, Stages

LEMMA CreateType ==
  ASSUME TypeOK, NEW v \in Versions, CreateFile(v)
  PROVE  /\ files' \subseteq Versions /\ torn' \subseteq files'
         /\ newest' \in files' \cup {none}
  BY DEF TypeOK, CreateFile

LEMMA DieType ==
  ASSUME TypeOK, NEW dead \in SUBSET Builders, Die(dead)
  PROVE  /\ docs' \in Content /\ files' \subseteq Versions /\ torn' \subseteq files'
         /\ newest' \in files' \cup {none} /\ manifest' \in Content
         /\ at' \in [Builders -> Stages] /\ built' \in [Builders -> Content]
         /\ mishaps' \subseteq Mishaps
  BY DEF TypeOK, Die, Stages, Content, Mishaps, segments

\* Every step keeps the types; a builder that works has read a version.
LEMMA TypeStep == TypeOK /\ BuildersHaveRead /\ [Next]_vars => TypeOK'
  <1> SUFFICES ASSUME TypeOK, BuildersHaveRead, [Next]_vars PROVE TypeOK'
    OBVIOUS
  <1> USE IndexAssumption
  <1>1. ASSUME NEW b \in Builders, Work(b) PROVE TypeOK'
    <2>1. CASE BuildReads(b)
      BY <2>1 DEF BuildReads, Go, TypeOK, Content, Stages, Mishaps, segments, server
    <2>2. CASE SaveFinds(b)
      BY <2>2 DEF SaveFinds, Go, TypeOK, Content, Stages, segments, server
    <2>3. CASE SaveCreates(b)
      <3>1. built[b] \in Versions
        BY <2>3 DEF SaveCreates, BuildersHaveRead
      <3>2. CreateFile(built[b])
        BY <2>3 DEF SaveCreates
      <3> QED
        BY <2>3, <3>1, <3>2, CreateType DEF SaveCreates, Go, TypeOK, Stages, server
    <2>4. CASE SaveCommits(b)
      BY <2>4 DEF SaveCommits, Go, TypeOK, Content, Stages, server
    <2>5. CASE Publish(b)
      BY <2>5 DEF Publish, Go, TypeOK, Content, Stages, segments, server
    <2>6. CASE Prune(b)
      <3> DEFINE gone == files \ {built[b]}
                 stages == [at EXCEPT ![b] = "idle"]
      <3>1. gone \in SUBSET Versions /\ stages \in [Builders -> Stages]
        BY DEF TypeOK, Stages
      <3>2. RemoveFiles(gone, stages)
        BY <2>6 DEF Prune
      <3> HIDE DEF gone, stages
      <3> QED
        BY <2>6, <3>1, <3>2, RemoveType DEF Prune, TypeOK, Content, server
    <2>7. CASE SaveFails(b)
      <3> DEFINE gone == {built[b]}
                 stages == [at EXCEPT ![b] = "idle"]
      <3>1. gone \in SUBSET Versions /\ stages \in [Builders -> Stages]
        BY <2>7 DEF SaveFails, BuildersHaveRead, TypeOK, Stages
      <3>2. RemoveFiles(gone, stages)
        BY <2>7 DEF SaveFails
      <3> HIDE DEF gone, stages
      <3> QED
        BY <2>7, <3>1, <3>2, RemoveType DEF SaveFails, TypeOK, Content, server
    <2>8. CASE PublishFails(b)
      BY <2>8 DEF PublishFails, Go, TypeOK, Content, Stages, Mishaps, segments, server
    <2>9. CASE PruneWithoutDocs(b)
      <3>1. PICK keep : RemoveFiles(files \ {keep}, at)
        BY <2>9 DEF PruneWithoutDocs
      <3>2. files \ {keep} \in SUBSET Versions /\ at \in [Builders -> Stages]
        BY DEF TypeOK
      <3> QED
        BY <2>9, <3>1, <3>2, RemoveType DEF PruneWithoutDocs, TypeOK, Mishaps, server
    <2>10. CASE Kill(b)
      <3>1. {b} \in SUBSET Builders /\ Die({b})
        BY <2>10 DEF Kill
      <3> QED
        BY <2>10, <3>1, DieType DEF Kill, TypeOK, server
    <2> QED
      BY <1>1, <2>1, <2>2, <2>3, <2>4, <2>5, <2>6, <2>7, <2>8, <2>9, <2>10
         DEF Work, Build
  <1>2. CASE DocsChange
    BY <1>2 DEF DocsChange, TypeOK, segments, builder, server
  <1>3. CASE Look
    BY <1>3 DEF Look, TypeOK, segments, builder
  <1>4. CASE Open
    <2>1. CASE opening \in files
      BY <1>4, <2>1 DEF Open, TypeOK, Content, segments, builder
    <2>2. CASE opening \notin files
      <3>1. opening \in Versions
        BY <1>4 DEF Open, TypeOK, Content
      <3>2. CreateFile(opening)
        BY <1>4, <2>2 DEF Open
      <3> QED
        BY <1>4, <2>2, <3>1, <3>2, CreateType DEF Open, TypeOK, Content, Mishaps, builder
    <2> QED BY <2>1, <2>2
  <1>5. CASE OpenFails
    BY <1>5 DEF OpenFails, TypeOK, Content, segments, builder
  <1>6. CASE Restart
    <2>1. InServer \in SUBSET Builders /\ Die(InServer)
      BY <1>6 DEF Restart
    <2> QED
      BY <1>6, <2>1, DieType DEF Restart, TypeOK, Content
  <1>7. CASE UNCHANGED vars
    BY <1>7 DEF vars, segments, builder, server, TypeOK
  <1> QED
    BY <1>1, <1>2, <1>3, <1>4, <1>5, <1>6, <1>7 DEF Next

-----------------------------------------------------------------------------
\* What has gone wrong stays in the history.
LEMMA MishapsGrow == TypeOK /\ [Next]_vars => mishaps \subseteq mishaps'
  <1> SUFFICES ASSUME TypeOK, [Next]_vars PROVE mishaps \subseteq mishaps'
    OBVIOUS
  <1>1. ASSUME NEW b \in Builders, Work(b) PROVE mishaps \subseteq mishaps'
    BY <1>1 DEF Work, Build, BuildReads, SaveFinds, SaveCreates, SaveCommits, Publish,
       Prune, SaveFails, PublishFails, PruneWithoutDocs, Kill, Die
  <1>2. CASE DocsChange \/ Look \/ Open \/ OpenFails \/ Restart \/ UNCHANGED vars
    BY <1>2 DEF DocsChange, Look, Open, OpenFails, Restart, Die, vars
  <1> QED BY <1>1, <1>2 DEF Next

LEMMA ReadStep == TypeOK /\ BuildersHaveRead /\ [Next]_vars => BuildersHaveRead'
  <1> SUFFICES ASSUME TypeOK, BuildersHaveRead, [Next]_vars PROVE BuildersHaveRead'
    OBVIOUS
  <1> USE DEF TypeOK, BuildersHaveRead
  <1>1. ASSUME NEW b \in Builders, Work(b) PROVE BuildersHaveRead'
    <2>1. CASE BuildReads(b)
      BY <2>1 DEF BuildReads, Go, Content
    <2>2. CASE SaveFinds(b) \/ SaveCreates(b) \/ SaveCommits(b) \/ Publish(b) \/ PublishFails(b)
      BY <2>2 DEF SaveFinds, SaveCreates, SaveCommits, Publish, PublishFails, Go
    <2>3. CASE SaveFails(b) \/ Prune(b)
      BY <2>3 DEF SaveFails, Prune, RemoveFiles
    <2>4. CASE PruneWithoutDocs(b)
      BY <2>4 DEF PruneWithoutDocs, RemoveFiles
    <2>5. CASE Kill(b)
      BY <2>5 DEF Kill, Die
    <2> QED BY <1>1, <2>1, <2>2, <2>3, <2>4, <2>5 DEF Work, Build
  <1>2. CASE DocsChange \/ Look \/ Open \/ OpenFails \/ UNCHANGED vars
    BY <1>2 DEF DocsChange, Look, Open, OpenFails, builder, vars
  <1>3. CASE Restart
    BY <1>3, IndexAssumption DEF Restart, Die
  <1> QED BY <1>1, <1>2, <1>3 DEF Next

\* Whoever starts while another is at work overlaps with it.
LEMMA AloneStep ==
  ASSUME TypeOK, OneBuilds, NEW b \in Builders, Work(b), "overlap" \notin mishaps'
  PROVE  /\ "overlap" \notin mishaps
         /\ \A c \in Builders : at[c] # "idle" => c = b
         /\ \A c \in Builders : at[c] # "lost"
         /\ \A c \in Builders :
               at[c] \in {"write", "saved", "published"} => built[c] \in files
  <1>1. [Next]_vars
    BY DEF Next
  <1>2. "overlap" \notin mishaps
    BY <1>1, MishapsGrow
  <1>3. CASE BuildReads(b) \/ PruneWithoutDocs(b)
    <2>1. Busy = {}
      BY <1>2, <1>3 DEF BuildReads, PruneWithoutDocs
    <2> QED BY <1>2, <2>1 DEF Busy, OneBuilds, Without
  <1>4. CASE at[b] # "idle"
    BY <1>2, <1>4 DEF OneBuilds, Without
  <1> QED
    BY <1>3, <1>4 DEF Work, Build, SaveFinds, SaveCreates, SaveCommits, Publish, Prune,
       SaveFails, PublishFails, Kill, Busy

LEMMA OneStep == TypeOK /\ BuildersHaveRead /\ OneBuilds /\ [Next]_vars => OneBuilds'
  <1> SUFFICES ASSUME TypeOK, BuildersHaveRead, OneBuilds, [Next]_vars,
                      "overlap" \notin mishaps'
               PROVE  /\ \A b, c \in Builders : at'[b] # "idle" /\ at'[c] # "idle" => b = c
                      /\ \A b \in Builders : at'[b] # "lost"
                      /\ \A b \in Builders :
                            at'[b] \in {"write", "saved", "published"}
                                => built'[b] \in files'
    BY DEF OneBuilds, Without
  <1> USE DEF TypeOK
  <1>0. /\ \A b, c \in Builders : at[b] # "idle" /\ at[c] # "idle" => b = c
        /\ \A b \in Builders : at[b] # "lost"
        /\ \A b \in Builders :
               at[b] \in {"write", "saved", "published"} => built[b] \in files
    BY MishapsGrow DEF OneBuilds, Without
  <1>1. ASSUME NEW b \in Builders, Work(b)
        PROVE  /\ \A c \in Builders : at'[c] # "idle" => c = b
               /\ \A c \in Builders : at'[c] # "lost"
               /\ \A c \in Builders :
                     at'[c] \in {"write", "saved", "published"} => built'[c] \in files'
    <2>0. \A c \in Builders : at[c] # "idle" => c = b
      BY <1>1, AloneStep
    <2>1. CASE BuildReads(b)
      BY <2>0, <2>1 DEF BuildReads, Go
    <2>2. CASE SaveFinds(b)
      BY <1>0, <2>0, <2>2 DEF SaveFinds, Go, segments
    <2>3. CASE SaveCreates(b)
      BY <1>0, <2>0, <2>3 DEF SaveCreates, CreateFile, Go
    <2>4. CASE SaveCommits(b)
      BY <1>0, <2>0, <2>4 DEF SaveCommits, Go
    <2>5. CASE Publish(b) \/ PublishFails(b)
      BY <1>0, <2>0, <2>5 DEF Publish, PublishFails, Go, segments
    <2>6. CASE SaveFails(b) \/ Prune(b)
      BY <1>0, <2>0, <2>6 DEF SaveFails, Prune, RemoveFiles
    <2>7. CASE PruneWithoutDocs(b)
      BY <1>0, <2>0, <2>7 DEF PruneWithoutDocs, RemoveFiles
    <2>8. CASE Kill(b)
      BY <1>0, <2>0, <2>8 DEF Kill, Die, segments
    <2> QED BY <1>1, <2>1, <2>2, <2>3, <2>4, <2>5, <2>6, <2>7, <2>8 DEF Work, Build
  <1>2. CASE DocsChange \/ Look \/ OpenFails \/ UNCHANGED vars
    BY <1>0, <1>2 DEF DocsChange, Look, OpenFails, builder, segments, vars
  <1>3. CASE Open
    BY <1>0, <1>3 DEF Open, CreateFile, builder, segments
  <1>4. CASE Restart
    BY <1>0, <1>4 DEF Restart, Die, segments
  <1> QED BY <1>1, <1>2, <1>3, <1>4 DEF Next

LEMMA TornStep ==
    TypeOK /\ OneBuilds /\ TornIsWritten /\ [Next]_vars => TornIsWritten'
  <1> SUFFICES ASSUME TypeOK, OneBuilds, TornIsWritten, [Next]_vars,
                      "overlap" \notin mishaps', "orphan" \notin mishaps'
               PROVE  \A v \in torn' :
                          \E b \in Builders : at'[b] = "write" /\ built'[b] = v
    BY DEF TornIsWritten, Without
  <1> USE DEF TypeOK
  <1>0. \A v \in torn : \E b \in Builders : at[b] = "write" /\ built[b] = v
    BY MishapsGrow DEF TornIsWritten, Without
  <1>1. ASSUME NEW b \in Builders, Work(b), NEW v \in torn'
        PROVE  \E c \in Builders : at'[c] = "write" /\ built'[c] = v
    <2>0. /\ \A c \in Builders : at[c] # "idle" => c = b
          /\ \A c \in Builders : at[c] # "lost"
      BY <1>1, AloneStep
    <2>1. CASE BuildReads(b)
      BY <1>0, <1>1, <2>1 DEF BuildReads, Go, segments
    <2>2. CASE SaveFinds(b)
      BY <1>0, <1>1, <2>2 DEF SaveFinds, Go, segments
    <2>3. CASE SaveCreates(b)
      BY <1>0, <1>1, <2>0, <2>3 DEF SaveCreates, CreateFile, Go
    <2>4. CASE SaveCommits(b)
      BY <1>0, <1>1, <2>0, <2>4 DEF SaveCommits, Go
    <2>5. CASE Publish(b) \/ PublishFails(b)
      BY <1>0, <1>1, <2>0, <2>5 DEF Publish, PublishFails, Go, segments
    <2>6. CASE SaveFails(b) \/ Prune(b)
      BY <1>0, <1>1, <2>0, <2>6 DEF SaveFails, Prune, RemoveFiles
    <2>7. CASE PruneWithoutDocs(b)
      BY <1>0, <1>1, <2>0, <2>7 DEF PruneWithoutDocs, RemoveFiles
    <2>8. CASE Kill(b)
      BY <1>0, <1>1, <2>0, <2>8 DEF Kill, Die, segments
    <2> QED BY <1>1, <2>1, <2>2, <2>3, <2>4, <2>5, <2>6, <2>7, <2>8 DEF Work, Build
  <1>2. CASE DocsChange \/ Look \/ OpenFails \/ UNCHANGED vars
    BY <1>0, <1>2 DEF DocsChange, Look, OpenFails, builder, segments, vars
  <1>3. CASE Open
    BY <1>0, <1>3 DEF Open, builder, segments
  <1>4. CASE Restart
    BY <1>0, <1>4 DEF Restart, Die, segments
  <1> QED BY <1>1, <1>2, <1>3, <1>4 DEF Next

LEMMA ManifestStep ==
    IInv /\ [Next]_vars => ManifestInStep' /\ ManifestNamesAFile'
  <1> SUFFICES ASSUME IInv, [Next]_vars,
                      "overlap" \notin mishaps', "unpublished" \notin mishaps'
               PROVE  /\ \A b \in Builders :
                             /\ at'[b] = "published" => manifest' = built'[b]
                             /\ at'[b] = "write" => manifest' # built'[b]
                      /\ manifest' \in files' \cup {none}
    BY DEF ManifestInStep, ManifestNamesAFile, Without
  <1> USE DEF IInv, Parts, TypeOK
  <1>0. /\ \A b \in Builders : /\ at[b] = "published" => manifest = built[b]
                               /\ at[b] = "write" => manifest # built[b]
        /\ manifest \in files \cup {none}
    BY MishapsGrow DEF ManifestInStep, ManifestNamesAFile, Without
  <1>1. ASSUME NEW b \in Builders, Work(b)
        PROVE  /\ \A c \in Builders :
                      /\ at'[c] = "published" => manifest' = built'[c]
                      /\ at'[c] = "write" => manifest' # built'[c]
               /\ manifest' \in files' \cup {none}
    <2>0. /\ \A c \in Builders : at[c] # "idle" => c = b
          /\ \A c \in Builders : at[c] # "lost"
          /\ \A c \in Builders :
                at[c] \in {"write", "saved", "published"} => built[c] \in files
      BY <1>1, AloneStep
    <2>1. CASE BuildReads(b)
      BY <1>0, <2>0, <2>1 DEF BuildReads, Go, segments
    <2>2. CASE SaveFinds(b)
      BY <1>0, <2>0, <2>2 DEF SaveFinds, Go, segments
    <2>3. CASE SaveCreates(b)
      <3>1. built[b] \in Versions
        BY <2>3 DEF SaveCreates, BuildersHaveRead
      <3> QED
        BY <1>0, <2>0, <2>3, <3>1, IndexAssumption DEF SaveCreates, CreateFile, Go
    <2>4. CASE SaveCommits(b)
      BY <1>0, <2>0, <2>4 DEF SaveCommits, Go
    <2>5. CASE Publish(b)
      BY <1>0, <2>0, <2>5 DEF Publish, Go, segments
    <2>6. CASE PublishFails(b)
      BY <2>6 DEF PublishFails
    <2>7. CASE SaveFails(b)
      BY <1>0, <2>0, <2>7 DEF SaveFails, RemoveFiles
    <2>8. CASE Prune(b)
      BY <1>0, <2>0, <2>8 DEF Prune, RemoveFiles
    <2>9. CASE PruneWithoutDocs(b)
      BY <1>0, <2>0, <2>9 DEF PruneWithoutDocs, RemoveFiles
    <2>10. CASE Kill(b)
      BY <1>0, <2>0, <2>10 DEF Kill, Die, segments
    <2> QED
      BY <1>1, <2>1, <2>2, <2>3, <2>4, <2>5, <2>6, <2>7, <2>8, <2>9, <2>10
         DEF Work, Build
  <1>2. CASE DocsChange \/ Look \/ OpenFails \/ UNCHANGED vars
    BY <1>0, <1>2 DEF DocsChange, Look, OpenFails, builder, segments, vars
  <1>3. CASE Open
    BY <1>0, <1>3 DEF Open, CreateFile, builder, segments
  <1>4. CASE Restart
    <2>1. \A b, c \in Builders : at[b] # "idle" /\ at[c] # "idle" => b = c
      BY MishapsGrow DEF OneBuilds, Without
    <2> QED
      BY <1>0, <1>4, <2>1, IndexAssumption DEF Restart, Die, segments, BuildersHaveRead
  <1> QED BY <1>1, <1>2, <1>3, <1>4 DEF Next

LEMMA LeftStep == IInv /\ [Next]_vars => NothingElseIsLeft'
  <1> SUFFICES ASSUME IInv, [Next]_vars, mishaps' = {}
               PROVE  \/ \E b \in Builders : at'[b] = "published"
                      \/ \A v \in files' \ {manifest'} :
                             \E b \in Builders :
                                 at'[b] \in {"write", "saved"} /\ built'[b] = v
    BY DEF NothingElseIsLeft
  <1> USE DEF IInv, Parts, TypeOK
  <1>0. /\ \/ \E b \in Builders : at[b] = "published"
           \/ \A v \in files \ {manifest} :
                  \E b \in Builders : at[b] \in {"write", "saved"} /\ built[b] = v
        /\ mishaps = {}
        /\ \A b \in Builders : /\ at[b] = "published" => manifest = built[b]
                               /\ at[b] = "write" => manifest # built[b]
        /\ manifest \in files \cup {none}
    BY MishapsGrow DEF NothingElseIsLeft, ManifestInStep, ManifestNamesAFile, Without
  <1>1. ASSUME NEW b \in Builders, Work(b)
        PROVE  \/ \E c \in Builders : at'[c] = "published"
               \/ \A v \in files' \ {manifest'} :
                      \E c \in Builders :
                          at'[c] \in {"write", "saved"} /\ built'[c] = v
    <2>0. /\ \A c \in Builders : at[c] # "idle" => c = b
          /\ \A c \in Builders : at[c] # "lost"
          /\ \A c \in Builders :
                at[c] \in {"write", "saved", "published"} => built[c] \in files
      BY <1>1, AloneStep
    <2>1. CASE BuildReads(b)
      BY <1>0, <2>0, <2>1 DEF BuildReads, Go, segments
    <2>2. CASE SaveFinds(b)
      BY <1>0, <2>0, <2>2 DEF SaveFinds, Go, segments
    <2>3. CASE SaveCreates(b)
      BY <1>0, <2>0, <2>3 DEF SaveCreates, CreateFile, Go
    <2>4. CASE SaveCommits(b)
      BY <1>0, <2>0, <2>4 DEF SaveCommits, Go
    <2>5. CASE Publish(b)
      BY <1>0, <2>0, <2>5 DEF Publish, Go, segments
    <2>6. CASE PublishFails(b)
      BY <2>6 DEF PublishFails
    <2>7. CASE SaveFails(b)
      BY <1>0, <2>0, <2>7 DEF SaveFails, RemoveFiles
    <2>8. CASE Prune(b)
      BY <1>0, <2>0, <2>8 DEF Prune, RemoveFiles
    <2>9. CASE PruneWithoutDocs(b)
      BY <1>0, <2>0, <2>9 DEF PruneWithoutDocs, RemoveFiles
    <2>10. CASE Kill(b)
      BY <1>0, <2>0, <2>10 DEF Kill, Die, segments
    <2> QED
      BY <1>1, <2>1, <2>2, <2>3, <2>4, <2>5, <2>6, <2>7, <2>8, <2>9, <2>10
         DEF Work, Build
  <1>2. CASE DocsChange \/ Look \/ OpenFails \/ UNCHANGED vars
    BY <1>0, <1>2 DEF DocsChange, Look, OpenFails, builder, segments, vars
  <1>3. CASE Open
    BY <1>0, <1>3 DEF Open, CreateFile, builder, segments
  <1>4. CASE Restart
    <2>1. \A b \in Builders : at[b] \notin {"lost"}
      BY MishapsGrow DEF OneBuilds, Without
    <2>2. \A b \in InServer : at[b] \notin {"write", "saved", "published"}
      BY <1>4, IndexAssumption DEF Restart, Die
    <2> QED
      BY <1>0, <1>4, <2>1, <2>2, IndexAssumption DEF Restart, Die, segments
  <1> QED BY <1>1, <1>2, <1>3, <1>4 DEF Next

LEMMA Invariance == Spec => []IInv
  <1>1. Init => IInv
    <2>1. Init => Parts
      BY DEF Init, Parts, BuildersHaveRead, OneBuilds, TornIsWritten, ManifestInStep,
         ManifestNamesAFile, NothingElseIsLeft
    <2> QED BY <2>1, TypeInit DEF IInv
  <1>2. IInv /\ [Next]_vars => IInv'
    BY TypeStep, ReadStep, OneStep, TornStep, ManifestStep, LeftStep DEF IInv, Parts
  <1> QED BY <1>1, <1>2, PTL DEF Spec

-----------------------------------------------------------------------------
\* The variables of builders, files and server stay in their ranges.
THEOREM TypeCorrect == Spec => []TypeOK
  <1>1. IInv => TypeOK
    BY DEF IInv
  <1> QED BY <1>1, Invariance, PTL

\* For any number of builders and versions: what the manifest names is not
\* pruned away, as long as builders do not overlap and manifests can be written.
THEOREM PublishedFileStays == Spec => []ManifestNamesAFile
  <1>1. IInv => ManifestNamesAFile
    BY DEF IInv, Parts
  <1> QED BY <1>1, Invariance, PTL

\* And a server that finds it finds a committed content.
THEOREM PublishedIsWhole == Spec => []ManifestIsReadable
  <1>1. IInv => ManifestIsReadable
    <2> SUFFICES ASSUME IInv, mishaps \subseteq {"cut"}, manifest \in torn PROVE FALSE
      BY DEF ManifestIsReadable
    <2>1. \E b \in Builders : at[b] = "write" /\ built[b] = manifest
      BY DEF IInv, Parts, TornIsWritten, Without
    <2> QED BY <2>1 DEF IInv, Parts, ManifestInStep, Without
  <1> QED BY <1>1, Invariance, PTL

\* Before anything has gone wrong the audit's "ok" is true of the manifest.
THEOREM OkIsTrue == Spec => []OkMeansCurrent
  <1>1. IInv => OkMeansCurrent
    <2> SUFFICES ASSUME IInv, mishaps = {}, Busy = {}, docs # none, docs = newest
                 PROVE  manifest = docs
      BY DEF OkMeansCurrent, AuditIsOk
    <2>1. docs \in files
      BY DEF IInv, TypeOK
    <2>2. \A b \in Builders : at[b] = "idle"
      BY DEF Busy
    <2> QED BY <2>1, <2>2 DEF IInv, Parts, NothingElseIsLeft
  <1> QED BY <1>1, Invariance, PTL

-----------------------------------------------------------------------------
\* The clean-up of a tenant's directory (CleanupSegments), of any size and read
\* in any order.
Legible(tree) == {i \in DOMAIN tree.entries : tree.entries[i].readable}
Refused(tree, rules) == {i \in Legible(tree) : ~UrlAllowed(tree.entries[i].url, rules)}

\* No metadata but of allowed URLs, each with a page of its own that is there.
Settled(tree, rules) ==
    /\ Refused(tree, rules) = {} /\ \A url \in tree.marks : UrlAllowed(url, rules)
    /\ \A i, j \in Legible(tree) : tree.entries[i].page = tree.entries[j].page => i = j
    /\ \A i \in Legible(tree) : tree.entries[i].page \in tree.pages

\* What is left, and what is gone, once the metadata in read has been visited.
LeftOf(from, rules, tree, read) ==
    /\ DOMAIN tree.entries \subseteq DOMAIN from.entries
    /\ DOMAIN from.entries \ DOMAIN tree.entries \subseteq Legible(from) \cap read
    /\ \A i \in DOMAIN tree.entries : tree.entries[i] = from.entries[i]
    /\ Refused(tree, rules) \cap read = {}
    /\ \A i, j \in Legible(tree) \cap read : tree.entries[i].page = tree.entries[j].page => i = j
    /\ tree.pages = from.pages \ {from.entries[i].page : i \in Refused(from, rules) \cap read}
    /\ tree.marks \subseteq {url \in from.marks : UrlAllowed(url, rules)}
    /\ \A url \in from.marks \ tree.marks : UrlAllowed(url, rules) =>
          \E i \in (Legible(from) \cap read) \ Legible(tree) : from.entries[i].url = url
    /\ \A i \in (Legible(from) \ Refused(from, rules)) \cap read :
          from.entries[i].page \in tree.pages =>
             \E j \in Legible(tree) \cap read : tree.entries[j].page = from.entries[i].page
    /\ Refused(from, rules) = {} =>
          \A i \in Legible(tree) \cap read : tree.entries[i].page \in tree.pages
    /\ Settled(from, rules) => tree.entries = from.entries /\ tree.marks = from.marks

\* taken is the pages of the metadata that has been visited and is left.
Sweeping(from, rules, tree, read) ==
    /\ LeftOf(from, rules, tree, read)
    /\ DOMAIN tree = {"entries", "pages", "marks", "taken"}
    /\ tree.entries = [i \in DOMAIN tree.entries |-> from.entries[i]]
    /\ read \subseteq DOMAIN from.entries
    /\ tree.taken = {tree.entries[i].page : i \in Legible(tree) \cap read}

LEMMA VisitSweeps ==
    ASSUME NEW from, NEW rules, NEW tree, NEW read, Sweeping(from, rules, tree, read),
           NEW i \in DOMAIN from.entries \ read
    PROVE  Sweeping(from, rules, Visited(tree, i, rules), read \cup {i})
<1> DEFINE entry == from.entries[i]
           allowed == UrlAllowed(entry.url, rules)
           new == Visited(tree, i, rules)
           now == read \cup {i}
<1>1. LeftOf(from, rules, tree, read)
  BY DEF Sweeping
<1>2. i \in DOMAIN tree.entries /\ tree.entries[i] = entry
  BY <1>1 DEF LeftOf
<1>3. CASE ~entry.readable
  <2>1. new = tree
    BY <1>2, <1>3 DEF Visited
  <2>2. i \notin Legible(from) /\ i \notin Legible(tree)
    BY <1>2, <1>3 DEF Legible
  <2>3. /\ Legible(tree) \cap now = Legible(tree) \cap read
        /\ Legible(from) \cap now = Legible(from) \cap read
        /\ Refused(tree, rules) \cap now = Refused(tree, rules) \cap read
        /\ Refused(from, rules) \cap now = Refused(from, rules) \cap read
        /\ (Legible(from) \ Refused(from, rules)) \cap now = (Legible(from) \ Refused(from, rules)) \cap read
    BY <2>2 DEF Refused
  <2> HIDE DEF now
  <2>4. LeftOf(from, rules, tree, now)
    BY <1>1, <2>3 DEF LeftOf
  <2>5. now \subseteq DOMAIN from.entries
    BY DEF Sweeping, now
  <2> QED BY <2>1, <2>3, <2>4, <2>5 DEF Sweeping, now
<1>4. CASE entry.readable /\ allowed /\ entry.page \in tree.pages \ tree.taken
  <2>1. new = [tree EXCEPT !.taken = @ \cup {entry.page}]
    BY <1>2, <1>4 DEF Visited
  <2>2. /\ DOMAIN new = {"entries", "pages", "marks", "taken"}
        /\ new.entries = tree.entries /\ new.pages = tree.pages /\ new.marks = tree.marks
        /\ new.taken = tree.taken \cup {entry.page}
    BY <2>1 DEF Sweeping
  <2> HIDE DEF new
  <2>3. /\ Legible(new) = Legible(tree) /\ Refused(new, rules) = Refused(tree, rules)
        /\ i \in Legible(tree) /\ i \in Legible(from)
        /\ i \notin Refused(tree, rules) /\ i \notin Refused(from, rules)
    BY <1>2, <1>4, <2>2 DEF Legible, Refused
  <2>4. /\ Legible(tree) \cap now = (Legible(tree) \cap read) \cup {i}
        /\ Refused(tree, rules) \cap now = Refused(tree, rules) \cap read
        /\ Refused(from, rules) \cap now = Refused(from, rules) \cap read
    BY <2>3
  <2>5. \A j \in Legible(tree) \cap read : tree.entries[j].page # entry.page
    BY <1>4 DEF Sweeping
  <2>6. new.taken = {new.entries[j].page : j \in Legible(new) \cap now}
    BY <1>2, <2>2, <2>3, <2>4 DEF Sweeping
  <2>7. now \subseteq DOMAIN from.entries
    BY DEF Sweeping
  <2> HIDE DEF now
  <2>8. LeftOf(from, rules, new, now)
    <3>1. \A j, k \in Legible(new) \cap now : new.entries[j].page = new.entries[k].page => j = k
      BY <1>1, <1>2, <2>2, <2>3, <2>4, <2>5 DEF LeftOf
    <3>2. \A url \in from.marks \ new.marks : UrlAllowed(url, rules) =>
             \E j \in (Legible(from) \cap now) \ Legible(new) : from.entries[j].url = url
      BY <1>1, <2>2, <2>3 DEF LeftOf, now
    <3>3. \A j \in (Legible(from) \ Refused(from, rules)) \cap now :
             from.entries[j].page \in new.pages =>
                \E k \in Legible(new) \cap now : new.entries[k].page = from.entries[j].page
      BY <1>1, <1>2, <2>2, <2>3, <2>4 DEF LeftOf, now
    <3>4. Refused(from, rules) = {} =>
             \A j \in Legible(new) \cap now : new.entries[j].page \in new.pages
      BY <1>1, <1>2, <1>4, <2>2, <2>3, <2>4 DEF LeftOf
    <3>5. DOMAIN from.entries \ DOMAIN new.entries \subseteq Legible(from) \cap now
      BY <1>1, <2>2 DEF LeftOf, now
    <3> QED BY <1>1, <2>2, <2>3, <2>4, <3>1, <3>2, <3>3, <3>4, <3>5 DEF LeftOf
  <2> QED BY <2>2, <2>6, <2>7, <2>8 DEF Sweeping, now, new
<1>5. CASE entry.readable /\ ~(allowed /\ entry.page \in tree.pages \ tree.taken)
  <2> DEFINE left == DOMAIN tree.entries \ {i}
  <2>1. new = [entries |-> [j \in left |-> tree.entries[j]],
               pages |-> IF allowed THEN tree.pages ELSE tree.pages \ {entry.page},
               marks |-> tree.marks \ {entry.url}, taken |-> tree.taken]
    BY <1>2, <1>5 DEF Visited, Unmarked
  <2>2. /\ DOMAIN new = {"entries", "pages", "marks", "taken"}
        /\ new.entries = [j \in left |-> tree.entries[j]]
        /\ new.pages = IF allowed THEN tree.pages ELSE tree.pages \ {entry.page}
        /\ new.marks = tree.marks \ {entry.url} /\ new.taken = tree.taken
    BY <2>1
  <2> HIDE DEF new
  <2>3. /\ DOMAIN new.entries = left
        /\ \A j \in left : new.entries[j] = tree.entries[j] /\ new.entries[j] = from.entries[j]
    BY <1>1, <2>2 DEF LeftOf
  <2>4. /\ Legible(new) = Legible(tree) \ {i} /\ Refused(new, rules) = Refused(tree, rules) \ {i}
        /\ i \in Legible(tree) /\ i \in Legible(from)
        /\ i \in Refused(from, rules) <=> ~allowed
    BY <1>2, <1>5, <2>3 DEF Legible, Refused
  <2>5. /\ Legible(new) \cap now = Legible(tree) \cap read
        /\ Refused(new, rules) \cap now = Refused(tree, rules) \cap read
    BY <2>4 DEF Refused
  <2>6. \A j \in Legible(new) \cap now : new.entries[j] = tree.entries[j]
    BY <2>3, <2>5 DEF Legible
  <2>7. new.taken = {new.entries[j].page : j \in Legible(new) \cap now}
    <3> HIDE DEF now
    <3>1. {new.entries[j].page : j \in Legible(new) \cap now}
            = {tree.entries[j].page : j \in Legible(tree) \cap read}
      BY <2>5, <2>6
    <3>2. tree.taken = {tree.entries[j].page : j \in Legible(tree) \cap read}
      BY DEF Sweeping
    <3> QED BY <2>2, <3>1, <3>2
  <2>8. new.entries = [j \in DOMAIN new.entries |-> from.entries[j]]
    BY <2>2, <2>3
  <2>9. now \subseteq DOMAIN from.entries
    BY DEF Sweeping
  <2>10. LeftOf(from, rules, new, now)
    <3>1. /\ DOMAIN new.entries \subseteq DOMAIN from.entries
          /\ DOMAIN from.entries \ DOMAIN new.entries \subseteq Legible(from) \cap now
          /\ \A j \in DOMAIN new.entries : new.entries[j] = from.entries[j]
      BY <1>1, <2>3, <2>4 DEF LeftOf
    <3>2. /\ Refused(new, rules) \cap now = {}
          /\ \A j, k \in Legible(new) \cap now : new.entries[j].page = new.entries[k].page => j = k
      BY <1>1, <2>5, <2>6 DEF LeftOf
    <3>3. new.pages = from.pages \ {from.entries[j].page : j \in Refused(from, rules) \cap now}
      <4>1. CASE allowed
        <5>1. Refused(from, rules) \cap now = Refused(from, rules) \cap read /\ new.pages = tree.pages
          BY <2>2, <2>4, <4>1
        <5> QED BY <1>1, <5>1 DEF LeftOf
      <4>2. CASE ~allowed
        <5>1. Refused(from, rules) \cap now = (Refused(from, rules) \cap read) \cup {i}
          BY <2>4, <4>2
        <5>2. new.pages = tree.pages \ {entry.page}
          BY <2>2, <4>2
        <5> QED BY <1>1, <5>1, <5>2 DEF LeftOf
      <4> QED BY <4>1, <4>2
    <3>4. /\ new.marks \subseteq {url \in from.marks : UrlAllowed(url, rules)}
          /\ \A url \in from.marks \ new.marks : UrlAllowed(url, rules) =>
                \E j \in (Legible(from) \cap now) \ Legible(new) : from.entries[j].url = url
      BY <1>1, <2>2, <2>4 DEF LeftOf
    <3>5. \A j \in (Legible(from) \ Refused(from, rules)) \cap now :
             from.entries[j].page \in new.pages =>
                \E k \in Legible(new) \cap now : new.entries[k].page = from.entries[j].page
      <4> TAKE j \in (Legible(from) \ Refused(from, rules)) \cap now
      <4> HAVE from.entries[j].page \in new.pages
      <4>1. from.entries[j].page \in tree.pages
        BY <2>2
      <4>2. CASE j \in read
        BY <1>1, <2>5, <2>6, <4>1, <4>2 DEF LeftOf
      <4>3. CASE j = i
        <5>1. entry.page \in tree.taken
          BY <1>5, <2>4, <4>1, <4>3
        <5>2. \E k \in Legible(new) \cap now : new.entries[k].page = entry.page
          <6>1. entry.page \in new.taken
            BY <2>2, <5>1
          <6> HIDE DEF entry, now
          <6> QED BY <2>7, <6>1
        <5> QED BY <4>3, <5>2
      <4> QED BY <4>2, <4>3
    <3>6. Refused(from, rules) = {} =>
             \A j \in Legible(new) \cap now : new.entries[j].page \in new.pages
      BY <1>1, <2>2, <2>4, <2>5, <2>6 DEF LeftOf
    <3>7. ~Settled(from, rules)
      <4> SUFFICES ASSUME Settled(from, rules) PROVE FALSE
        OBVIOUS
      <4>1. allowed /\ entry.page \in from.pages /\ Refused(from, rules) = {}
        BY <2>4 DEF Settled
      <4>2. entry.page \in tree.pages
        BY <1>1, <4>1 DEF LeftOf
      <4>3. entry.page \in tree.taken
        BY <1>5, <4>1, <4>2
      <4>4. PICK j \in Legible(tree) \cap read : tree.entries[j].page = entry.page
        BY <4>3 DEF Sweeping
      <4>5. j \in Legible(from) /\ from.entries[j].page = entry.page
        BY <1>1, <4>4 DEF LeftOf, Legible
      <4>6. j = i
        BY <2>4, <4>5 DEF Settled
      <4> QED BY <4>4, <4>6
    <3> HIDE DEF now, left
    <3> QED BY <3>1, <3>2, <3>3, <3>4, <3>5, <3>6, <3>7 DEF LeftOf
  <2> HIDE DEF now
  <2> QED BY <2>2, <2>7, <2>8, <2>9, <2>10 DEF Sweeping, now, new
<1> QED BY <1>3, <1>4, <1>5

\* What a sweep leaves of a directory, in whatever order it reads it and
\* however far it has come (cleanup_docs_metadata_directory).
THEOREM SweepsInAnyOrder ==
    ASSUME NEW names, NEW rules,
           NEW from \in [entries : [names -> Entry], pages : SUBSET Pages, marks : SUBSET Urls, taken : {{}}],
           NEW VARIABLE tree, NEW VARIABLE read
    PROVE  /\ tree = WithoutMarks(from, rules) /\ read = {}
           /\ [][\E i \in DOMAIN from.entries \ read :
                    tree' = Visited(tree, i, rules) /\ read' = read \cup {i}]_<<tree, read>>
           => [](LeftOf(from, rules, tree, read))
<1> DEFINE Visits == \E i \in DOMAIN from.entries \ read :
                      tree' = Visited(tree, i, rules) /\ read' = read \cup {i}
           Inv == Sweeping(from, rules, tree, read)
<1>1. Sweeping(from, rules, WithoutMarks(from, rules), {})
  <2> DEFINE start == WithoutMarks(from, rules)
             marks == {url \in from.marks : UrlAllowed(url, rules)}
  <2>1. /\ DOMAIN start = {"entries", "pages", "marks", "taken"}
        /\ start.entries = from.entries /\ start.pages = from.pages
        /\ start.marks = marks /\ start.taken = {}
    BY DEF WithoutMarks
  <2>2. from.entries = [i \in DOMAIN from.entries |-> from.entries[i]]
    OBVIOUS
  <2>3. Settled(from, rules) => marks = from.marks
    BY DEF Settled
  <2> HIDE DEF start
  <2>4. LeftOf(from, rules, start, {})
    BY <2>1, <2>3 DEF LeftOf
  <2> QED BY <2>1, <2>2, <2>4 DEF Sweeping, start
<1>2. Inv /\ [Visits]_<<tree, read>> => Inv'
  <2>1. ASSUME Inv, NEW i \in DOMAIN from.entries \ read, tree' = Visited(tree, i, rules),
               read' = read \cup {i}
        PROVE  Sweeping(from, rules, tree', read')
    BY <2>1, VisitSweeps
  <2> QED BY <2>1
<1>3. Inv => LeftOf(from, rules, tree, read)
  BY DEF Sweeping
<1>4. tree = WithoutMarks(from, rules) /\ read = {} => Inv
  BY <1>1
<1> QED BY <1>2, <1>3, <1>4, PTL

-----------------------------------------------------------------------------
\* A sweep is a fold: what has been shown of any step holds of the whole.
IsTree(tree) == /\ tree = [entries |-> tree.entries, pages |-> tree.pages,
                           marks |-> tree.marks, taken |-> tree.taken]
                /\ tree.entries = [i \in DOMAIN tree.entries |-> tree.entries[i]]

LEMMA SweepVisits ==
    ASSUME NEW tree, IsTree(tree), NEW rules, NEW n \in Nat, NEW order \in [1 .. n -> DOMAIN tree.entries]
    PROVE  \E t : /\ t[0] = [WithoutMarks(tree, rules) EXCEPT !.taken = {}]
                  /\ \A k \in 1 .. n : t[k] = Visited(t[k - 1], order[k], rules)
                  /\ Sweep(tree, order, rules) = [t[n] EXCEPT !.taken = {}]
<1> DEFINE D == DOMAIN tree.entries
           E == {tree.entries[i] : i \in D}
           marks == {url \in tree.marks : UrlAllowed(url, rules)}
           start == [WithoutMarks(tree, rules) EXCEPT !.taken = {}]
           B == [entries : UNION {[d -> E] : d \in SUBSET D}, pages : SUBSET tree.pages,
                 marks : SUBSET tree.marks, taken : SUBSET tree.pages]
           H == [x \in B \X (1 .. n) |-> Visited(x[1], order[x[2]], rules)]
           Is(f) == f = [s \in SUBSET (1 .. n) |-> IF s = {} THEN start
                                                   ELSE Visited(f[s \ {Max(s)}], order[Max(s)], rules)]
           f == CHOOSE h : Is(h)
<1>1. start \in B
  <2>1. start = [entries |-> tree.entries, pages |-> tree.pages, marks |-> marks, taken |-> {}]
    <3>1. /\ DOMAIN start = {"entries", "pages", "marks", "taken"} /\ start.taken = {}
          /\ start.entries = tree.entries /\ start.pages = tree.pages /\ start.marks = marks
      BY DEF IsTree, WithoutMarks
    <3>2. start = [x \in DOMAIN start |-> start[x]]
      BY DEF IsTree, WithoutMarks
    <3> HIDE DEF start, marks
    <3> QED BY <3>1, <3>2
  <2>2. tree.entries \in [D -> E]
    BY DEF IsTree
  <2>3. tree.entries \in UNION {[d -> E] : d \in SUBSET D}
    BY <2>2
  <2>4. marks \in SUBSET tree.marks
    OBVIOUS
  <2> HIDE DEF start, D, E, marks
  <2> QED BY <2>1, <2>3, <2>4
<1>2. ASSUME NEW b \in B, NEW i \in D PROVE Visited(b, i, rules) \in B
  <2> DEFINE entry == b.entries[i]
             allowed == UrlAllowed(entry.url, rules)
             entries == [j \in DOMAIN b.entries \ {i} |-> b.entries[j]]
  <2>1. CASE ~entry.readable
    BY <2>1 DEF Visited
  <2>2. CASE entry.readable /\ allowed /\ entry.page \in b.pages \ b.taken
    <3>1. Visited(b, i, rules) = [b EXCEPT !.taken = @ \cup {entry.page}]
      BY <2>2 DEF Visited
    <3> QED BY <2>2, <3>1
  <2>3. CASE entry.readable /\ ~(allowed /\ entry.page \in b.pages \ b.taken)
    <3>1. Visited(b, i, rules) = [entries |-> entries,
              pages |-> IF allowed THEN b.pages ELSE b.pages \ {entry.page},
              marks |-> b.marks \ {entry.url}, taken |-> b.taken]
      BY <2>3 DEF Visited, Unmarked
    <3>2. PICK d \in SUBSET D : b.entries \in [d -> E]
      OBVIOUS
    <3>3. entries \in [d \ {i} -> E] /\ d \ {i} \in SUBSET D
      BY <3>2
    <3> HIDE DEF entries, D, E
    <3>4. entries \in UNION {[c -> E] : c \in SUBSET D}
      BY <3>3
    <3> QED BY <3>1, <3>4
  <2> QED BY <2>1, <2>2, <2>3
<1>3. H \in [B \X (1 .. n) -> B] /\ \A b \in B, i \in 1 .. n : H[<<b, i>>] = Visited(b, order[i], rules)
  <2> HIDE DEF B
  <2>1. \A x \in B \X (1 .. n) : Visited(x[1], order[x[2]], rules) \in B
    BY <1>2
  <2> QED BY <2>1
<1>4. \E g : Is(g)
  <2> HIDE DEF H, B, start
  <2>1. PICK g : IsFold(g, n, B, start, H)
    BY <1>1, <1>3, FoldExists
  <2>2. ASSUME NEW s \in SUBSET (1 .. n), s # {}
        PROVE  H[<<g[s \ {Max(s)}], Max(s)>>] = Visited(g[s \ {Max(s)}], order[Max(s)], rules)
    <3>1. Max(s) \in 1 .. n
      BY <2>2, MaxOfSome
    <3>2. g[s \ {Max(s)}] \in B
      BY <2>1 DEF IsFold
    <3> QED BY <1>3, <3>1, <3>2
  <2>3. g = [s \in SUBSET (1 .. n) |-> g[s]]
    BY <2>1 DEF IsFold
  <2>4. [s \in SUBSET (1 .. n) |-> g[s]]
           = [s \in SUBSET (1 .. n) |-> IF s = {} THEN start ELSE Visited(g[s \ {Max(s)}], order[Max(s)], rules)]
    BY <2>1, <2>2 DEF IsFold
  <2> QED BY <2>3, <2>4
<1>5. Is(f)
  <2> HIDE DEF Is
  <2> QED BY <1>4
<1>6. FoldLeft(LAMBDA s, i : Visited(s, i, rules), start, order) = f[1 .. n]
  <2>1. DOMAIN order = 1 .. n
    OBVIOUS
  <2> QED BY <2>1 DEF FoldLeft, MapThenFoldSet
<1>7. Sweep(tree, order, rules) = [f[1 .. n] EXCEPT !.taken = {}]
  BY <1>6 DEF Sweep
<1> DEFINE t == [k \in 0 .. n |-> f[1 .. k]]
<1>8. t[0] = start
  <2>1. 1 .. 0 = {} /\ {} \in SUBSET (1 .. n)
    OBVIOUS
  <2>2. f[{}] = start
    <3> HIDE DEF f, start
    <3> QED BY <1>5
  <2> HIDE DEF f
  <2> QED BY <2>1, <2>2
<1>9. ASSUME NEW k \in 1 .. n PROVE t[k] = Visited(t[k - 1], order[k], rules)
  <2>1. Max(1 .. k) = k /\ (1 .. k) \ {k} = 1 .. (k - 1)
    BY MaxOfAll
  <2>2. 1 .. k \in SUBSET (1 .. n) /\ 1 .. k # {}
    OBVIOUS
  <2> HIDE DEF f, start
  <2>3. f[1 .. k] = Visited(f[(1 .. k) \ {Max(1 .. k)}], order[Max(1 .. k)], rules)
    BY <1>5, <2>2
  <2>4. t[k] = f[1 .. k] /\ t[k - 1] = f[1 .. (k - 1)]
    OBVIOUS
  <2> QED BY <2>1, <2>3, <2>4
<1> HIDE DEF t, start
<1>10. t[n] = f[1 .. n]
  BY DEF t
<1> QED BY <1>7, <1>8, <1>9, <1>10 DEF start

\* A sweep of a directory, from the first metadata file to the last.
LEMMA SweepLeaves ==
    ASSUME NEW tree, IsTree(tree), NEW rules, IsFiniteSet(DOMAIN tree.entries),
           NEW order \in SetToSeqs(DOMAIN tree.entries)
    PROVE  LET swept == Sweep(tree, order, rules)
           IN  /\ IsTree(swept) /\ swept.taken = {}
               /\ LeftOf(tree, rules, swept, DOMAIN tree.entries)
<1> DEFINE D == DOMAIN tree.entries
<1>1. PICK n \in Nat : /\ order \in [1 .. n -> D]
                       /\ \A i, j \in 1 .. n : i # j => order[i] # order[j]
                       /\ {order[i] : i \in 1 .. n} = D
  BY ListsAll DEF Lists
<1>2. PICK t : /\ t[0] = [WithoutMarks(tree, rules) EXCEPT !.taken = {}]
               /\ \A k \in 1 .. n : t[k] = Visited(t[k - 1], order[k], rules)
               /\ Sweep(tree, order, rules) = [t[n] EXCEPT !.taken = {}]
  BY <1>1, SweepVisits
<1> DEFINE Read(k) == {order[i] : i \in 1 .. k}
           Has(k) == Sweeping(tree, rules, t[k], Read(k))
           S == {k \in 0 .. n : Has(k)}
<1>3. Has(0)
  <2> DEFINE start == [WithoutMarks(tree, rules) EXCEPT !.taken = {}]
             marks == {url \in tree.marks : UrlAllowed(url, rules)}
  <2>1. /\ DOMAIN start = {"entries", "pages", "marks", "taken"} /\ start.taken = {}
        /\ start.entries = tree.entries /\ start.pages = tree.pages /\ start.marks = marks
    BY DEF IsTree, WithoutMarks
  <2>2. Settled(tree, rules) => marks = tree.marks
    BY DEF Settled
  <2>3. Read(0) = {}
    OBVIOUS
  <2> HIDE DEF start, Read
  <2>4. LeftOf(tree, rules, start, {})
    BY <2>1, <2>2 DEF LeftOf
  <2>5. start.entries = [i \in DOMAIN start.entries |-> tree.entries[i]]
    BY <2>1 DEF IsTree
  <2>6. Sweeping(tree, rules, start, {})
    BY <2>1, <2>4, <2>5 DEF Sweeping
  <2> QED BY <1>2, <2>3, <2>6 DEF start
<1>4. ASSUME NEW k \in 0 .. n - 1, Has(k) PROVE Has(k + 1)
  <2>1. k + 1 \in 1 .. n /\ (k + 1) - 1 = k
    OBVIOUS
  <2>2. order[k + 1] \in D \ Read(k)
    BY <1>1, <2>1
  <2>3. Read(k + 1) = Read(k) \cup {order[k + 1]}
    BY <2>1
  <2>4. t[k + 1] = Visited(t[k], order[k + 1], rules)
    BY <1>2, <2>1
  <2> HIDE DEF Read
  <2>5. Sweeping(tree, rules, Visited(t[k], order[k + 1], rules), Read(k) \cup {order[k + 1]})
    BY <1>4, <2>2, VisitSweeps
  <2> QED BY <2>3, <2>4, <2>5
<1>5. Has(n)
  <2> HIDE DEF Has
  <2>1. 0 \in S
    BY <1>3
  <2>2. \A k \in 0 .. n - 1 : k \in S => k + 1 \in S
    BY <1>4
  <2> HIDE DEF S
  <2>3. 0 .. n \subseteq S
    BY <2>1, <2>2, UpTo
  <2>4. n \in S
    BY <2>3
  <2> QED BY <2>4 DEF S
<1> DEFINE swept == Sweep(tree, order, rules)
<1>6. Sweeping(tree, rules, t[n], D)
  BY <1>1, <1>5
<1>7. /\ DOMAIN swept = {"entries", "pages", "marks", "taken"} /\ swept.taken = {}
      /\ swept.entries = t[n].entries /\ swept.pages = t[n].pages /\ swept.marks = t[n].marks
      /\ swept = [x \in DOMAIN swept |-> swept[x]]
  BY <1>2, <1>6 DEF Sweeping
<1> HIDE DEF swept
<1>8. swept = [entries |-> swept.entries, pages |-> swept.pages, marks |-> swept.marks, taken |-> swept.taken]
  BY <1>7
<1>9. t[n].entries = [i \in DOMAIN t[n].entries |-> tree.entries[i]]
  BY <1>6 DEF Sweeping
<1>10. swept.entries = [i \in DOMAIN swept.entries |-> swept.entries[i]]
  BY <1>7, <1>9
<1>11. LeftOf(tree, rules, t[n], D)
  BY <1>6 DEF Sweeping
<1>12. Legible(swept) = Legible(t[n]) /\ Refused(swept, rules) = Refused(t[n], rules)
  BY <1>7 DEF Legible, Refused
<1>13. LeftOf(tree, rules, swept, D)
  BY <1>7, <1>11, <1>12 DEF LeftOf
<1> QED BY <1>7, <1>8, <1>10, <1>13 DEF swept, IsTree

\* A directory that has settled is left as it is.
LEMMA SettledStays ==
    ASSUME NEW tree, IsTree(tree), tree.taken = {}, NEW rules, IsFiniteSet(DOMAIN tree.entries),
           NEW order \in SetToSeqs(DOMAIN tree.entries), Settled(tree, rules)
    PROVE  Sweep(tree, order, rules) = tree
<1> DEFINE swept == Sweep(tree, order, rules)
<1>1. IsTree(swept) /\ swept.taken = {} /\ LeftOf(tree, rules, swept, DOMAIN tree.entries)
  BY SweepLeaves
<1> HIDE DEF swept
<1>2. swept.entries = tree.entries /\ swept.marks = tree.marks
  BY <1>1 DEF LeftOf
<1>3. swept.pages = tree.pages
  <2>1. Refused(tree, rules) = {}
    BY DEF Settled
  <2> QED BY <1>1, <2>1 DEF LeftOf
<1> QED BY <1>1, <1>2, <1>3 DEF IsTree, swept

\* What SweepsSettle says of three metadata files holds of any number, any
\* rules and any order (cleanup_docs_metadata_directory).
THEOREM SweepsSettleForAll ==
    ASSUME NEW tree, IsTree(tree), NEW rules, IsFiniteSet(DOMAIN tree.entries),
           NEW order \in SetToSeqs(DOMAIN tree.entries)
    PROVE  SettlesFrom(tree, rules, order)
<1> DEFINE D == DOMAIN tree.entries
           once == Sweep(tree, order, rules)
<1>1. IsTree(once) /\ once.taken = {} /\ LeftOf(tree, rules, once, D)
  BY SweepLeaves
<1> HIDE DEF once
<1>2. /\ DOMAIN once.entries \subseteq D /\ IsFiniteSet(DOMAIN once.entries)
      /\ \A i \in DOMAIN once.entries : once.entries[i] = tree.entries[i]
  BY <1>1, FS_Subset DEF LeftOf
<1>3. Legible(once) \subseteq Legible(tree) /\ Legible(once) \subseteq D
  BY <1>2 DEF Legible
<1>4. Refused(once, rules) = {}
  BY <1>1, <1>2 DEF LeftOf, Refused, Legible
<1>5. Legible(once) \cap Refused(tree, rules) = {}
  BY <1>2, <1>4 DEF Legible, Refused
<1>6. D \ Legible(tree) \subseteq DOMAIN once.entries
  BY <1>1 DEF LeftOf
<1>7. \A i, j \in Legible(once) : once.entries[i].page = once.entries[j].page => i = j
  BY <1>1, <1>3 DEF LeftOf
<1>8. once.pages = tree.pages \ {tree.entries[i].page : i \in Refused(tree, rules)}
  <2>1. Refused(tree, rules) \cap D = Refused(tree, rules)
    BY DEF Refused, Legible
  <2> QED BY <1>1, <2>1 DEF LeftOf
<1>9. /\ \A url \in once.marks : UrlAllowed(url, rules)
      /\ \A url \in tree.marks \ once.marks :
            UrlAllowed(url, rules) => \E i \in Legible(tree) \ Legible(once) : tree.entries[i].url = url
  BY <1>1 DEF LeftOf
<1>10. ASSUME NEW next \in SetToSeqs(DOMAIN once.entries)
       PROVE  LET twice == Sweep(once, next, rules)
              IN  /\ \A i \in Legible(twice) : twice.entries[i].page \in twice.pages
                  /\ \A last \in SetToSeqs(DOMAIN twice.entries) : Sweep(twice, last, rules) = twice
                  /\ Refused(tree, rules) = {} =>
                        \A i \in Legible(tree) : tree.entries[i].page \in once.pages =>
                           \E j \in Legible(twice) : twice.entries[j].page = tree.entries[i].page
  <2> DEFINE twice == Sweep(once, next, rules)
             E == DOMAIN once.entries
  <2>1. IsTree(twice) /\ twice.taken = {} /\ LeftOf(once, rules, twice, E)
    BY <1>1, <1>2, SweepLeaves
  <2> HIDE DEF twice
  <2>2. /\ DOMAIN twice.entries \subseteq E /\ IsFiniteSet(DOMAIN twice.entries)
        /\ \A i \in DOMAIN twice.entries : twice.entries[i] = once.entries[i]
    BY <1>2, <2>1, FS_Subset DEF LeftOf
  <2>3. Legible(twice) \subseteq Legible(once) /\ Legible(twice) \subseteq E
    BY <2>2 DEF Legible
  <2>4. \A i \in Legible(twice) : twice.entries[i].page \in twice.pages
    BY <1>4, <2>1, <2>3 DEF LeftOf
  <2>5. Settled(twice, rules)
    <3>1. Refused(twice, rules) = {}
      BY <1>4, <2>2 DEF Refused, Legible
    <3>2. \A url \in twice.marks : UrlAllowed(url, rules)
      BY <2>1 DEF LeftOf
    <3>3. \A i, j \in Legible(twice) : twice.entries[i].page = twice.entries[j].page => i = j
      BY <2>1, <2>3 DEF LeftOf
    <3> QED BY <2>4, <3>1, <3>2, <3>3 DEF Settled
  <2>6. \A last \in SetToSeqs(DOMAIN twice.entries) : Sweep(twice, last, rules) = twice
    BY <2>1, <2>2, <2>5, SettledStays
  <2>7. ASSUME Refused(tree, rules) = {}, NEW i \in Legible(tree), tree.entries[i].page \in once.pages
        PROVE  \E j \in Legible(twice) : twice.entries[j].page = tree.entries[i].page
    <3>1. i \in (Legible(tree) \ Refused(tree, rules)) \cap D
      BY <2>7 DEF Legible
    <3>2. PICK k \in Legible(once) : once.entries[k].page = tree.entries[i].page
      BY <1>1, <2>7, <3>1 DEF LeftOf
    <3>3. k \in (Legible(once) \ Refused(once, rules)) \cap E
      BY <1>4, <3>2 DEF Legible
    <3>4. twice.pages = once.pages
      BY <1>4, <2>1 DEF LeftOf
    <3>5. \E j \in Legible(twice) : twice.entries[j].page = once.entries[k].page
      BY <2>1, <2>7, <3>2, <3>3, <3>4 DEF LeftOf
    <3> QED BY <3>2, <3>5
  <2> QED BY <2>4, <2>6, <2>7 DEF twice
<1> QED BY <1>5, <1>6, <1>7, <1>8, <1>9, <1>10 DEF SettlesFrom, Legible, Refused, once

LEMMA TreesAreTrees ==
    ASSUME NEW tree \in Trees
    PROVE  IsTree(tree) /\ IsFiniteSet(DOMAIN tree.entries)
<1>1. PICK n \in 1 .. 3 : tree.entries \in [1 .. n -> {e \in Entry : e.readable \/ e.url = << >>}]
  BY DEF Trees
<1>2. DOMAIN tree.entries = 1 .. n /\ IsFiniteSet(1 .. n)
  BY <1>1, FS_Interval
<1>3. IsTree(tree)
  BY <1>1 DEF Trees, IsTree
<1> QED BY <1>2, <1>3

LEMMA SweepsDoSettle == SweepsSettle
  BY SweepsSettleForAll, TreesAreTrees DEF SweepsSettle

-----------------------------------------------------------------------------
\* Of a directory, the metadata that has led a build to a document, the texts it
\* has led to, and the other texts that are documents.
Admitted(dir, rules, read) == {i \in Leading(dir) \cap read : UrlAllowed(dir.tree.entries[i].url, rules)}
LedTo(dir, read) == {dir.tree.entries[i].page : i \in Leading(dir) \cap read}
OnTheirOwn(dir, rules, read, texts) == {p \in texts \ LedTo(dir, read) : UrlAllowed(OwnUrl(dir, p), rules)}

\* The URLs a build has when it has read this metadata and then these texts.
UrlsFrom(dir, rules, read, texts) ==
    {dir.tree.entries[i].url : i \in Admitted(dir, rules, read)}
        \cup {OwnUrl(dir, p) : p \in OnTheirOwn(dir, rules, read, texts)}

\* The metadata it has removed.
Pruned(dir, rules, read) ==
    {i \in read : LET entry == dir.tree.entries[i]
                  IN  /\ entry.readable /\ entry.url # << >>
                      /\ entry.page \notin dir.tree.pages \/ ~UrlAllowed(entry.url, rules)}

\* What a build is about: allowed URLs, each with one text that is there.
WellBuilt(dir, rules, b) ==
    /\ \A d \in b.docs : UrlAllowed(d.url, rules) /\ d.page \in dir.tree.pages
    /\ \A d, e \in b.docs : d.url = e.url => d = e

BuiltFrom(dir, rules, b, read, texts) ==
    /\ UrlsOf(b.docs) = UrlsFrom(dir, rules, read, texts)
    /\ WellBuilt(dir, rules, b)
    /\ b.left = DOMAIN dir.tree.entries \ Pruned(dir, rules, read)

\* The texts a build has seen; the texts come after all the metadata it reads.
Building(dir, rules, all, b, read, texts) ==
    /\ b = [docs |-> b.docs, seen |-> b.seen, left |-> b.left]
    /\ read \subseteq all /\ texts \subseteq dir.tree.pages
    /\ texts # {} => read = all
    /\ b.seen = LedTo(dir, read) \cup OnTheirOwn(dir, rules, read, texts)
    /\ BuiltFrom(dir, rules, b, read, texts)

\* Before anything is read.
LEMMA BuildingBegins ==
    ASSUME NEW dir, NEW rules, NEW all
    PROVE  Building(dir, rules, all, Begin(dir), {}, {})
<1> DEFINE start == Begin(dir)
<1>1. start = [docs |-> {}, seen |-> {}, left |-> DOMAIN dir.tree.entries]
  BY DEF Begin
<1>2. start.docs = {} /\ start.seen = {} /\ start.left = DOMAIN dir.tree.entries
  BY <1>1
<1> HIDE DEF start
<1>3. /\ LedTo(dir, {}) = {} /\ OnTheirOwn(dir, rules, {}, {}) = {}
      /\ Admitted(dir, rules, {}) = {} /\ Pruned(dir, rules, {}) = {}
  BY DEF LedTo, OnTheirOwn, Admitted, Pruned
<1>4. UrlsFrom(dir, rules, {}, {}) = {}
  BY <1>3 DEF UrlsFrom
<1>5. UrlsOf(start.docs) = {} /\ WellBuilt(dir, rules, start)
  BY <1>2 DEF UrlsOf, WellBuilt
<1>6. BuiltFrom(dir, rules, start, {}, {})
  BY <1>2, <1>3, <1>4, <1>5 DEF BuiltFrom
<1>7. start = [docs |-> start.docs, seen |-> start.seen, left |-> start.left]
  BY <1>1, <1>2
<1>8. Building(dir, rules, all, start, {}, {})
  BY <1>2, <1>3, <1>6, <1>7 DEF Building
<1> QED BY <1>8 DEF start

\* A document is added for a URL that has none (add_document).
LEMMA AddedKeeps ==
    ASSUME NEW found, NEW url, NEW page, \A d, e \in found : d.url = e.url => d = e
    PROVE  /\ UrlsOf(Added(found, url, page)) = UrlsOf(found) \cup {url}
           /\ \A d, e \in Added(found, url, page) : d.url = e.url => d = e
           /\ \A d \in Added(found, url, page) : d \in found \/ (d.url = url /\ d.page = page)
<1> DEFINE new == [url |-> url, page |-> page]
<1>1. new.url = url /\ new.page = page
  OBVIOUS
<1> HIDE DEF new
<1>2. CASE \E d \in found : d.url = url
  BY <1>2 DEF Added, UrlsOf
<1>3. CASE ~\E d \in found : d.url = url
  <2>1. Added(found, url, page) = found \cup {new}
    BY <1>3 DEF Added, new
  <2> QED BY <1>1, <1>3, <2>1 DEF UrlsOf
<1> QED BY <1>2, <1>3

\* One metadata file more (_load_document_from_metadata, process_payload).
LEMMA MetadataBuilds ==
    ASSUME NEW dir, NEW rules, NEW all, NEW b, NEW read, NEW i \in all \ read,
           all \subseteq DOMAIN dir.tree.entries, Building(dir, rules, all, b, read, {})
    PROVE  Building(dir, rules, all, WithMetadata(dir, rules, b, i), read \cup {i}, {})
<1> DEFINE entry == dir.tree.entries[i]
           new == WithMetadata(dir, rules, b, i)
           now == read \cup {i}
<1>1. \A r : OnTheirOwn(dir, rules, r, {}) = {} /\ UrlsFrom(dir, rules, r, {})
                 = {dir.tree.entries[j].url : j \in Admitted(dir, rules, r)}
  BY DEF OnTheirOwn, UrlsFrom
<1>2. CASE ~entry.readable \/ entry.url = << >>
  <2>1. new = b
    BY <1>2 DEF WithMetadata
  <2>2. i \notin Leading(dir)
    BY <1>2 DEF Leading
  <2>3. Leading(dir) \cap now = Leading(dir) \cap read /\ Pruned(dir, rules, now) = Pruned(dir, rules, read)
    BY <1>2, <2>2 DEF Pruned
  <2>4. now \subseteq all
    BY DEF Building
  <2> HIDE DEF new, now
  <2>5. Admitted(dir, rules, now) = Admitted(dir, rules, read) /\ LedTo(dir, now) = LedTo(dir, read)
    BY <2>3 DEF Admitted, LedTo
  <2> QED BY <1>1, <2>1, <2>3, <2>4, <2>5 DEF Building, BuiltFrom, new, now
<1>3. CASE entry.readable /\ entry.url # << >> /\ entry.page \notin dir.tree.pages
  <2>1. /\ new = [docs |-> b.docs, seen |-> b.seen, left |-> b.left \ {i}]
    BY <1>3 DEF WithMetadata, Building
  <2>2. new.docs = b.docs /\ new.seen = b.seen /\ new.left = b.left \ {i}
    BY <2>1
  <2>3. i \notin Leading(dir)
    BY <1>3 DEF Leading
  <2>4. Leading(dir) \cap now = Leading(dir) \cap read /\ Pruned(dir, rules, now) = Pruned(dir, rules, read) \cup {i}
    BY <1>3, <2>3 DEF Pruned
  <2>5. now \subseteq all
    BY DEF Building
  <2> HIDE DEF new, now
  <2>6. Admitted(dir, rules, now) = Admitted(dir, rules, read) /\ LedTo(dir, now) = LedTo(dir, read)
    BY <2>4 DEF Admitted, LedTo
  <2> QED BY <1>1, <2>1, <2>2, <2>4, <2>5, <2>6 DEF Building, BuiltFrom, WellBuilt, new, now
<1>4. CASE entry.readable /\ entry.url # << >> /\ entry.page \in dir.tree.pages /\ ~UrlAllowed(entry.url, rules)
  <2>1. new = [docs |-> b.docs, seen |-> b.seen \cup {entry.page}, left |-> b.left \ {i}]
    BY <1>4 DEF WithMetadata, Building
  <2>2. new.docs = b.docs /\ new.seen = b.seen \cup {entry.page} /\ new.left = b.left \ {i}
    BY <2>1
  <2>3. i \in Leading(dir)
    BY <1>4 DEF Leading
  <2>4. /\ Leading(dir) \cap now = (Leading(dir) \cap read) \cup {i}
        /\ Pruned(dir, rules, now) = Pruned(dir, rules, read) \cup {i}
        /\ Admitted(dir, rules, now) = Admitted(dir, rules, read)
    BY <1>4, <2>3 DEF Pruned, Admitted
  <2>5. now \subseteq all
    BY DEF Building
  <2> HIDE DEF new, now
  <2>6. LedTo(dir, now) = LedTo(dir, read) \cup {entry.page}
    BY <2>4 DEF LedTo
  <2> QED BY <1>1, <2>1, <2>2, <2>4, <2>5, <2>6 DEF Building, BuiltFrom, WellBuilt, new, now
<1>5. CASE entry.readable /\ entry.url # << >> /\ entry.page \in dir.tree.pages /\ UrlAllowed(entry.url, rules)
  <2> DEFINE found == Added(b.docs, entry.url, entry.page)
  <2>1. new = [docs |-> found, seen |-> b.seen \cup {entry.page}, left |-> b.left]
    BY <1>5 DEF WithMetadata, Building
  <2> HIDE DEF found
  <2>2. new.docs = found /\ new.seen = b.seen \cup {entry.page} /\ new.left = b.left
    BY <2>1
  <2>3. i \in Leading(dir)
    BY <1>5 DEF Leading
  <2>4. /\ Leading(dir) \cap now = (Leading(dir) \cap read) \cup {i}
        /\ Pruned(dir, rules, now) = Pruned(dir, rules, read)
        /\ Admitted(dir, rules, now) = Admitted(dir, rules, read) \cup {i}
    BY <1>5, <2>3 DEF Pruned, Admitted
  <2>5. now \subseteq all
    BY DEF Building
  <2> HIDE DEF new, now
  <2>6. LedTo(dir, now) = LedTo(dir, read) \cup {entry.page}
    BY <2>4 DEF LedTo
  <2>7. UrlsFrom(dir, rules, now, {}) = UrlsFrom(dir, rules, read, {}) \cup {entry.url}
    BY <1>1, <2>4
  <2>8. \A d, e \in b.docs : d.url = e.url => d = e
    BY DEF Building, BuiltFrom, WellBuilt
  <2>9. /\ UrlsOf(found) = UrlsOf(b.docs) \cup {entry.url}
        /\ \A d, e \in found : d.url = e.url => d = e
        /\ \A d \in found : d \in b.docs \/ (d.url = entry.url /\ d.page = entry.page)
    BY <2>8, AddedKeeps DEF found
  <2>10. WellBuilt(dir, rules, new)
    BY <1>5, <2>2, <2>9 DEF Building, BuiltFrom, WellBuilt
  <2>11. BuiltFrom(dir, rules, new, now, {})
    BY <2>2, <2>4, <2>7, <2>9, <2>10 DEF Building, BuiltFrom
  <2> QED BY <1>1, <2>1, <2>2, <2>5, <2>6, <2>11 DEF Building, new, now
<1> QED BY <1>2, <1>3, <1>4, <1>5

\* One text more (_load_document_from_markdown, process_payload).
LEMMA MarkdownBuilds ==
    ASSUME NEW dir, NEW rules, NEW all, NEW b, NEW texts, NEW page \in dir.tree.pages \ texts,
           Building(dir, rules, all, b, all, texts)
    PROVE  Building(dir, rules, all, WithMarkdown(dir, rules, b, page), all, texts \cup {page})
<1> DEFINE url == OwnUrl(dir, page)
           new == WithMarkdown(dir, rules, b, page)
           now == texts \cup {page}
<1>1. now \subseteq dir.tree.pages
  BY DEF Building
<1>2. page \in b.seen <=> page \in LedTo(dir, all)
  BY DEF Building, OnTheirOwn
<1>3. CASE page \in b.seen \/ ~UrlAllowed(url, rules)
  <2>1. new = b
    BY <1>3 DEF WithMarkdown
  <2>2. OnTheirOwn(dir, rules, all, now) = OnTheirOwn(dir, rules, all, texts)
    BY <1>2, <1>3 DEF OnTheirOwn
  <2> HIDE DEF new, now
  <2> QED BY <1>1, <2>1, <2>2 DEF Building, BuiltFrom, UrlsFrom, new, now
<1>4. CASE page \notin b.seen /\ UrlAllowed(url, rules)
  <2> DEFINE found == Added(b.docs, url, page)
  <2>1. new = [docs |-> found, seen |-> b.seen \cup {page}, left |-> b.left]
    BY <1>4 DEF WithMarkdown, Building
  <2> HIDE DEF found
  <2>2. new.docs = found /\ new.seen = b.seen \cup {page} /\ new.left = b.left
    BY <2>1
  <2>3. OnTheirOwn(dir, rules, all, now) = OnTheirOwn(dir, rules, all, texts) \cup {page}
    BY <1>2, <1>4 DEF OnTheirOwn
  <2> HIDE DEF new, now
  <2>4. UrlsFrom(dir, rules, all, now) = UrlsFrom(dir, rules, all, texts) \cup {url}
    BY <2>3 DEF UrlsFrom
  <2>5. \A d, e \in b.docs : d.url = e.url => d = e
    BY DEF Building, BuiltFrom, WellBuilt
  <2>6. /\ UrlsOf(found) = UrlsOf(b.docs) \cup {url}
        /\ \A d, e \in found : d.url = e.url => d = e
        /\ \A d \in found : d \in b.docs \/ (d.url = url /\ d.page = page)
    BY <2>5, AddedKeeps DEF found
  <2>7. WellBuilt(dir, rules, new)
    BY <1>4, <2>2, <2>6 DEF Building, BuiltFrom, WellBuilt
  <2>8. BuiltFrom(dir, rules, new, all, now)
    BY <2>2, <2>4, <2>6, <2>7 DEF Building, BuiltFrom
  <2> QED BY <1>1, <2>1, <2>2, <2>3, <2>8 DEF Building, new, now
<1> QED BY <1>3, <1>4

\* A build has at any time the URLs that are allowed of what it has read, each
\* once and with a text that is there, whatever the order it reads in; all are
\* the metadata it reads, none of a tenant that is not online.  When it is
\* through, an online tenant has what can be indexed (build_segment).
THEOREM BuildsInAnyOrder ==
    ASSUME NEW dir, NEW rules, NEW all \in SUBSET DOMAIN dir.tree.entries,
           NEW VARIABLE b, NEW VARIABLE read, NEW VARIABLE texts
    PROVE  /\ b = Begin(dir) /\ read = {} /\ texts = {}
           /\ [][\/ \E i \in all \ read : /\ texts = {} /\ b' = WithMetadata(dir, rules, b, i)
                                          /\ read' = read \cup {i} /\ texts' = texts
                 \/ \E page \in dir.tree.pages \ texts :
                       /\ read = all /\ b' = WithMarkdown(dir, rules, b, page)
                       /\ texts' = texts \cup {page} /\ read' = read]_<<b, read, texts>>
           => [](/\ BuiltFrom(dir, rules, b, read, texts)
                 /\ read = DOMAIN dir.tree.entries /\ texts = dir.tree.pages
                       => UrlsOf(b.docs) = Indexable(dir, rules)
                 /\ all = {} /\ texts = dir.tree.pages /\ rules = NoRules
                       => UrlsOf(b.docs) = {OwnUrl(dir, p) : p \in dir.tree.pages})
<1> DEFINE Reads == \E i \in all \ read : /\ texts = {} /\ b' = WithMetadata(dir, rules, b, i)
                                          /\ read' = read \cup {i} /\ texts' = texts
           Finds == \E page \in dir.tree.pages \ texts :
                       /\ read = all /\ b' = WithMarkdown(dir, rules, b, page)
                       /\ texts' = texts \cup {page} /\ read' = read
           Inv == Building(dir, rules, all, b, read, texts)
           Online == read = DOMAIN dir.tree.entries /\ texts = dir.tree.pages
                       => UrlsOf(b.docs) = Indexable(dir, rules)
           Local == all = {} /\ texts = dir.tree.pages /\ rules = NoRules
                       => UrlsOf(b.docs) = {OwnUrl(dir, p) : p \in dir.tree.pages}
<1>1. Building(dir, rules, all, Begin(dir), {}, {})
  BY BuildingBegins
<1>2. Inv /\ [Reads \/ Finds]_<<b, read, texts>> => Inv'
  <2>1. ASSUME Inv, Reads PROVE Inv'
    BY <2>1, MetadataBuilds
  <2>2. ASSUME Inv, Finds PROVE Inv'
    BY <2>2, MarkdownBuilds
  <2> QED BY <2>1, <2>2
<1>3. Inv => Online
  <2> SUFFICES ASSUME Inv, read = DOMAIN dir.tree.entries, texts = dir.tree.pages
               PROVE  UrlsFrom(dir, rules, read, texts) = Indexable(dir, rules)
    BY DEF Building, BuiltFrom
  <2>1. Leading(dir) \cap read = Leading(dir)
    BY DEF Leading
  <2>2. OnTheirOwn(dir, rules, read, texts) = {p \in Unled(dir) : UrlAllowed(OwnUrl(dir, p), rules)}
    BY <2>1 DEF OnTheirOwn, LedTo, Unled
  <2>3. Admitted(dir, rules, read) = {i \in Leading(dir) : UrlAllowed(dir.tree.entries[i].url, rules)}
    BY <2>1 DEF Admitted
  <2> QED BY <2>2, <2>3 DEF UrlsFrom, Indexable
<1>4. Inv => Local
  <2> SUFFICES ASSUME Inv, all = {}, texts = dir.tree.pages, rules = NoRules
               PROVE  UrlsFrom(dir, rules, read, texts) = {OwnUrl(dir, p) : p \in dir.tree.pages}
    BY DEF Building, BuiltFrom
  <2>1. read = {}
    BY DEF Building
  <2>2. \A url : UrlAllowed(url, rules)
    BY DEF UrlAllowed, NoRules
  <2>3. Admitted(dir, rules, read) = {} /\ LedTo(dir, read) = {}
    BY <2>1 DEF Admitted, LedTo
  <2>4. OnTheirOwn(dir, rules, read, texts) = dir.tree.pages
    BY <2>2, <2>3 DEF OnTheirOwn
  <2> QED BY <2>3, <2>4 DEF UrlsFrom
<1>5. Inv => BuiltFrom(dir, rules, b, read, texts)
  BY DEF Building
<1>6. b = Begin(dir) /\ read = {} /\ texts = {} => Inv
  BY <1>1
<1> HIDE DEF Inv, Online, Local, Reads, Finds
<1>7. b = Begin(dir) /\ read = {} /\ texts = {} /\ [][Reads \/ Finds]_<<b, read, texts>>
         => [](BuiltFrom(dir, rules, b, read, texts) /\ Online /\ Local)
  BY <1>2, <1>3, <1>4, <1>5, <1>6, PTL
<1> QED BY <1>7, PTL DEF Reads, Finds, Online, Local

-----------------------------------------------------------------------------
\* A build is two folds.

\* What a build is after each of the first n files of an order.
MetadataRun(t, dir, rules, n, order) ==
    /\ t[0] = Begin(dir)
    /\ \A k \in 1 .. n : t[k] = WithMetadata(dir, rules, t[k - 1], order[k])

LEMMA MetadataFolds ==
    ASSUME NEW dir, NEW rules, NEW n \in Nat, NEW order \in [1 .. n -> DOMAIN dir.tree.entries]
    PROVE  \E t : MetadataRun(t, dir, rules, n, order) /\ ReadMetadata(dir, rules, order) = t[n]
<1> DEFINE D == DOMAIN dir.tree.entries
           docs_ == {[url |-> dir.tree.entries[i].url, page |-> dir.tree.entries[i].page] : i \in D}
           seen == {dir.tree.entries[i].page : i \in D}
           B == [docs : SUBSET docs_, seen : SUBSET seen, left : SUBSET D]
           H == [x \in B \X (1 .. n) |-> WithMetadata(dir, rules, x[1], order[x[2]])]
           Is(f) == f = [s \in SUBSET (1 .. n) |-> IF s = {} THEN Begin(dir)
                             ELSE WithMetadata(dir, rules, f[s \ {Max(s)}], order[Max(s)])]
           f == CHOOSE h : Is(h)
<1>1. Begin(dir) \in B
  BY DEF Begin
<1>2. ASSUME NEW b \in B, NEW i \in D PROVE WithMetadata(dir, rules, b, i) \in B
  <2> DEFINE entry == dir.tree.entries[i]
             found == Added(b.docs, entry.url, entry.page)
  <2>1. found \in SUBSET docs_
    BY DEF Added
  <2>2. entry.page \in seen
    OBVIOUS
  <2> HIDE DEF found, docs_, seen
  <2>3. /\ [b EXCEPT !.left = @ \ {i}] \in B
        /\ [b EXCEPT !.seen = @ \cup {entry.page}, !.left = @ \ {i}] \in B
        /\ [b EXCEPT !.seen = @ \cup {entry.page}, !.docs = found] \in B
    BY <2>1, <2>2
  <2> HIDE DEF B
  <2> QED BY <2>3 DEF WithMetadata, found
<1>3. H \in [B \X (1 .. n) -> B] /\ \A b \in B, i \in 1 .. n : H[<<b, i>>] = WithMetadata(dir, rules, b, order[i])
  <2> HIDE DEF B
  <2>1. \A x \in B \X (1 .. n) : WithMetadata(dir, rules, x[1], order[x[2]]) \in B
    BY <1>2
  <2> QED BY <2>1
<1>4. \E g : Is(g)
  <2> HIDE DEF H, B
  <2>1. PICK g : IsFold(g, n, B, Begin(dir), H)
    BY <1>1, <1>3, FoldExists
  <2>2. ASSUME NEW s \in SUBSET (1 .. n), s # {}
        PROVE  H[<<g[s \ {Max(s)}], Max(s)>>] = WithMetadata(dir, rules, g[s \ {Max(s)}], order[Max(s)])
    <3>1. Max(s) \in 1 .. n
      BY <2>2, MaxOfSome
    <3>2. g[s \ {Max(s)}] \in B
      BY <2>1 DEF IsFold
    <3> QED BY <1>3, <3>1, <3>2
  <2>3. g = [s \in SUBSET (1 .. n) |-> g[s]]
    BY <2>1 DEF IsFold
  <2>4. [s \in SUBSET (1 .. n) |-> g[s]]
           = [s \in SUBSET (1 .. n) |-> IF s = {} THEN Begin(dir)
                  ELSE WithMetadata(dir, rules, g[s \ {Max(s)}], order[Max(s)])]
    BY <2>1, <2>2 DEF IsFold
  <2> QED BY <2>3, <2>4
<1>5. Is(f)
  <2> HIDE DEF Is
  <2> QED BY <1>4
<1>6. ReadMetadata(dir, rules, order) = f[1 .. n]
  <2>1. DOMAIN order = 1 .. n
    OBVIOUS
  <2> QED BY <2>1 DEF ReadMetadata, FoldLeft, MapThenFoldSet
<1> DEFINE t == [k \in 0 .. n |-> f[1 .. k]]
<1>7. t[0] = Begin(dir)
  <2>1. 1 .. 0 = {} /\ {} \in SUBSET (1 .. n)
    OBVIOUS
  <2>2. f[{}] = Begin(dir)
    <3> HIDE DEF f
    <3> QED BY <1>5
  <2> HIDE DEF f
  <2> QED BY <2>1, <2>2
<1>8. ASSUME NEW k \in 1 .. n PROVE t[k] = WithMetadata(dir, rules, t[k - 1], order[k])
  <2>1. Max(1 .. k) = k /\ (1 .. k) \ {k} = 1 .. (k - 1)
    BY MaxOfAll
  <2>2. 1 .. k \in SUBSET (1 .. n) /\ 1 .. k # {}
    OBVIOUS
  <2> HIDE DEF f
  <2>3. f[1 .. k] = WithMetadata(dir, rules, f[(1 .. k) \ {Max(1 .. k)}], order[Max(1 .. k)])
    BY <1>5, <2>2
  <2>4. t[k] = f[1 .. k] /\ t[k - 1] = f[1 .. (k - 1)]
    OBVIOUS
  <2> QED BY <2>1, <2>3, <2>4
<1> HIDE DEF t
<1>9. t[n] = f[1 .. n]
  BY DEF t
<1>10. MetadataRun(t, dir, rules, n, order)
  BY <1>7, <1>8 DEF MetadataRun
<1> QED BY <1>6, <1>9, <1>10

LEMMA MarkdownFolds ==
    ASSUME NEW dir, NEW rules, NEW read, read = [docs |-> read.docs, seen |-> read.seen, left |-> read.left],
           NEW n \in Nat, NEW texts \in [1 .. n -> dir.tree.pages]
    PROVE  \E t : /\ t[0] = read
                  /\ \A k \in 1 .. n : t[k] = WithMarkdown(dir, rules, t[k - 1], texts[k])
                  /\ ReadMarkdown(dir, rules, read, texts) = t[n]
<1> DEFINE D == dir.tree.pages
           docs_ == read.docs \cup {[url |-> OwnUrl(dir, page), page |-> page] : page \in D}
           seen == read.seen \cup D
           B == [docs : SUBSET docs_, seen : SUBSET seen, left : {read.left}]
           H == [x \in B \X (1 .. n) |-> WithMarkdown(dir, rules, x[1], texts[x[2]])]
           Is(f) == f = [s \in SUBSET (1 .. n) |-> IF s = {} THEN read
                             ELSE WithMarkdown(dir, rules, f[s \ {Max(s)}], texts[Max(s)])]
           f == CHOOSE h : Is(h)
<1>1. read \in B
  <2>1. read.docs \in SUBSET docs_ /\ read.seen \in SUBSET seen
    OBVIOUS
  <2> HIDE DEF docs_, seen
  <2> QED BY <2>1
<1>2. ASSUME NEW b \in B, NEW page \in D PROVE WithMarkdown(dir, rules, b, page) \in B
  <2> DEFINE found == Added(b.docs, OwnUrl(dir, page), page)
  <2>1. found \in SUBSET docs_
    BY DEF Added
  <2>2. page \in seen
    OBVIOUS
  <2> HIDE DEF found, docs_, seen
  <2>3. [b EXCEPT !.seen = @ \cup {page}, !.docs = found] \in B
    BY <2>1, <2>2
  <2> HIDE DEF B
  <2> QED BY <2>3 DEF WithMarkdown, found
<1>3. H \in [B \X (1 .. n) -> B] /\ \A b \in B, i \in 1 .. n : H[<<b, i>>] = WithMarkdown(dir, rules, b, texts[i])
  <2> HIDE DEF B
  <2>1. \A x \in B \X (1 .. n) : WithMarkdown(dir, rules, x[1], texts[x[2]]) \in B
    BY <1>2
  <2> QED BY <2>1
<1>4. \E g : Is(g)
  <2> HIDE DEF H, B
  <2>1. PICK g : IsFold(g, n, B, read, H)
    BY <1>1, <1>3, FoldExists
  <2>2. ASSUME NEW s \in SUBSET (1 .. n), s # {}
        PROVE  H[<<g[s \ {Max(s)}], Max(s)>>] = WithMarkdown(dir, rules, g[s \ {Max(s)}], texts[Max(s)])
    <3>1. Max(s) \in 1 .. n
      BY <2>2, MaxOfSome
    <3>2. g[s \ {Max(s)}] \in B
      BY <2>1 DEF IsFold
    <3> QED BY <1>3, <3>1, <3>2
  <2>3. g = [s \in SUBSET (1 .. n) |-> g[s]]
    BY <2>1 DEF IsFold
  <2>4. [s \in SUBSET (1 .. n) |-> g[s]]
           = [s \in SUBSET (1 .. n) |-> IF s = {} THEN read
                  ELSE WithMarkdown(dir, rules, g[s \ {Max(s)}], texts[Max(s)])]
    BY <2>1, <2>2 DEF IsFold
  <2> QED BY <2>3, <2>4
<1>5. Is(f)
  <2> HIDE DEF Is
  <2> QED BY <1>4
<1>6. ReadMarkdown(dir, rules, read, texts) = f[1 .. n]
  <2>1. DOMAIN texts = 1 .. n
    OBVIOUS
  <2> QED BY <2>1 DEF ReadMarkdown, FoldLeft, MapThenFoldSet
<1> DEFINE t == [k \in 0 .. n |-> f[1 .. k]]
<1>7. t[0] = read
  <2>1. 1 .. 0 = {} /\ {} \in SUBSET (1 .. n)
    OBVIOUS
  <2>2. f[{}] = read
    <3> HIDE DEF f
    <3> QED BY <1>5
  <2> HIDE DEF f
  <2> QED BY <2>1, <2>2
<1>8. ASSUME NEW k \in 1 .. n PROVE t[k] = WithMarkdown(dir, rules, t[k - 1], texts[k])
  <2>1. Max(1 .. k) = k /\ (1 .. k) \ {k} = 1 .. (k - 1)
    BY MaxOfAll
  <2>2. 1 .. k \in SUBSET (1 .. n) /\ 1 .. k # {}
    OBVIOUS
  <2> HIDE DEF f
  <2>3. f[1 .. k] = WithMarkdown(dir, rules, f[(1 .. k) \ {Max(1 .. k)}], texts[Max(1 .. k)])
    BY <1>5, <2>2
  <2>4. t[k] = f[1 .. k] /\ t[k - 1] = f[1 .. (k - 1)]
    OBVIOUS
  <2> QED BY <2>1, <2>3, <2>4
<1> HIDE DEF t
<1>9. t[n] = f[1 .. n]
  BY DEF t
<1> QED BY <1>6, <1>7, <1>8, <1>9

LEMMA ReverseLists ==
    ASSUME NEW D, NEW order, Lists(order, D)
    PROVE  Lists(Reverse(order), D)
<1>1. PICK n \in Nat : /\ order \in [1 .. n -> D]
                       /\ \A i, j \in 1 .. n : i # j => order[i] # order[j]
                       /\ {order[i] : i \in 1 .. n} = D
  BY DEF Lists
<1>2. Len(order) = n
  BY <1>1
<1> DEFINE back == Reverse(order)
<1>3. back = [i \in 1 .. n |-> order[(n - i) + 1]]
  BY <1>2 DEF Reverse
<1>4. \A i \in 1 .. n : (n - i) + 1 \in 1 .. n /\ (n - ((n - i) + 1)) + 1 = i
  OBVIOUS
<1> HIDE DEF back
<1>5. back \in [1 .. n -> D]
  BY <1>1, <1>3, <1>4
<1>6. \A i, j \in 1 .. n : i # j => back[i] # back[j]
  BY <1>1, <1>3, <1>4
<1>7. ASSUME NEW d \in D PROVE d \in {back[i] : i \in 1 .. n}
  <2>1. PICK i \in 1 .. n : order[i] = d
    BY <1>1
  <2>2. back[(n - i) + 1] = d
    BY <1>3, <1>4, <2>1
  <2> QED BY <1>4, <2>2
<1>8. {back[i] : i \in 1 .. n} = D
  BY <1>5, <1>7
<1> QED BY <1>5, <1>6, <1>8 DEF Lists, back

LEMMA MetadataIsRead ==
    ASSUME NEW dir, NEW rules, NEW order, Lists(order, DOMAIN dir.tree.entries)
    PROVE  LET D == DOMAIN dir.tree.entries
           IN  Building(dir, rules, D, ReadMetadata(dir, rules, order), D, {})
<1> DEFINE D == DOMAIN dir.tree.entries
<1>1. PICK n \in Nat : /\ order \in [1 .. n -> D]
                       /\ \A i, j \in 1 .. n : i # j => order[i] # order[j]
                       /\ {order[i] : i \in 1 .. n} = D
  BY DEF Lists
<1>2. PICK t : MetadataRun(t, dir, rules, n, order) /\ ReadMetadata(dir, rules, order) = t[n]
  BY <1>1, MetadataFolds
<1> DEFINE Read(k) == {order[i] : i \in 1 .. k}
           Has(k) == Building(dir, rules, D, t[k], Read(k), {})
           S == {k \in 0 .. n : Has(k)}
<1>3. Has(0)
  <2>1. Read(0) = {}
    OBVIOUS
  <2>2. Building(dir, rules, D, Begin(dir), {}, {})
    BY BuildingBegins
  <2> HIDE DEF Read, D
  <2> QED BY <1>2, <2>1, <2>2 DEF MetadataRun
<1>4. ASSUME NEW k \in 0 .. n - 1, Has(k) PROVE Has(k + 1)
  <2>1. k + 1 \in 1 .. n /\ (k + 1) - 1 = k
    OBVIOUS
  <2>2. order[k + 1] \in D \ Read(k)
    BY <1>1, <2>1
  <2>3. Read(k + 1) = Read(k) \cup {order[k + 1]}
    BY <2>1
  <2>4. t[k + 1] = WithMetadata(dir, rules, t[k], order[k + 1])
    BY <1>2, <2>1 DEF MetadataRun
  <2> HIDE DEF Read
  <2>5. Building(dir, rules, D, WithMetadata(dir, rules, t[k], order[k + 1]), Read(k) \cup {order[k + 1]}, {})
    BY <1>4, <2>2, MetadataBuilds
  <2> QED BY <2>3, <2>4, <2>5
<1>5. Has(n)
  <2> HIDE DEF Has
  <2>1. 0 \in S
    BY <1>3
  <2>2. \A k \in 0 .. n - 1 : k \in S => k + 1 \in S
    BY <1>4
  <2> HIDE DEF S
  <2>3. 0 .. n \subseteq S
    BY <2>1, <2>2, UpTo
  <2>4. n \in S
    BY <2>3
  <2> QED BY <2>4 DEF S
<1> QED BY <1>1, <1>2, <1>5

LEMMA MarkdownIsRead ==
    ASSUME NEW dir, NEW rules, NEW all, NEW read, Building(dir, rules, all, read, all, {}),
           NEW texts, Lists(texts, dir.tree.pages)
    PROVE  Building(dir, rules, all, ReadMarkdown(dir, rules, read, texts), all, dir.tree.pages)
<1> DEFINE D == dir.tree.pages
<1>1. PICK n \in Nat : /\ texts \in [1 .. n -> D]
                       /\ \A i, j \in 1 .. n : i # j => texts[i] # texts[j]
                       /\ {texts[i] : i \in 1 .. n} = D
  BY DEF Lists
<1>2. read = [docs |-> read.docs, seen |-> read.seen, left |-> read.left]
  BY DEF Building
<1>3. PICK t : /\ t[0] = read
               /\ \A k \in 1 .. n : t[k] = WithMarkdown(dir, rules, t[k - 1], texts[k])
               /\ ReadMarkdown(dir, rules, read, texts) = t[n]
  BY <1>1, <1>2, MarkdownFolds
<1> DEFINE Read(k) == {texts[i] : i \in 1 .. k}
           Has(k) == Building(dir, rules, all, t[k], all, Read(k))
           S == {k \in 0 .. n : Has(k)}
<1>4. Has(0)
  <2>1. Read(0) = {}
    OBVIOUS
  <2> HIDE DEF Read, D
  <2> QED BY <1>3, <2>1
<1>5. ASSUME NEW k \in 0 .. n - 1, Has(k) PROVE Has(k + 1)
  <2>1. k + 1 \in 1 .. n /\ (k + 1) - 1 = k
    OBVIOUS
  <2>2. texts[k + 1] \in D \ Read(k)
    BY <1>1, <2>1
  <2>3. Read(k + 1) = Read(k) \cup {texts[k + 1]}
    BY <2>1
  <2>4. t[k + 1] = WithMarkdown(dir, rules, t[k], texts[k + 1])
    BY <1>3, <2>1
  <2> HIDE DEF Read
  <2>5. Building(dir, rules, all, WithMarkdown(dir, rules, t[k], texts[k + 1]), all, Read(k) \cup {texts[k + 1]})
    BY <1>5, <2>2, MarkdownBuilds
  <2> QED BY <2>3, <2>4, <2>5
<1>6. Has(n)
  <2> HIDE DEF Has
  <2>1. 0 \in S
    BY <1>4
  <2>2. \A k \in 0 .. n - 1 : k \in S => k + 1 \in S
    BY <1>5
  <2> HIDE DEF S
  <2>3. 0 .. n \subseteq S
    BY <2>1, <2>2, UpTo
  <2>4. n \in S
    BY <2>3
  <2> QED BY <2>4 DEF S
<1> QED BY <1>1, <1>3, <1>6

\* The URLs a build of a tenant is to have, and what it has when it is through.
UrlsToHave(dir, rules, online) ==
    IF online THEN Indexable(dir, rules) ELSE {OwnUrl(dir, p) : p \in dir.tree.pages}

EndOf(b, dir, rules, online) ==
    /\ UrlsOf(b.docs) = UrlsToHave(dir, rules, online)
    /\ \A d, e \in b.docs : d.url = e.url => d = e
    /\ b.left = DOMAIN dir.tree.entries \ (IF online THEN Pruned(dir, rules, DOMAIN dir.tree.entries) ELSE {})

\* What a build comes to, from any directory and in any order.
LEMMA BuildEnds ==
    ASSUME NEW dir, NEW rules, NEW online \in BOOLEAN,
           NEW order, Lists(order, DOMAIN dir.tree.entries), NEW texts, Lists(texts, dir.tree.pages)
    PROVE  EndOf(Built(dir, online, rules, order, texts), dir, rules, online)
<1> DEFINE D == DOMAIN dir.tree.entries
           P == dir.tree.pages
           b == Built(dir, online, rules, order, texts)
<1>1. CASE online
  <2>1. b = ReadMarkdown(dir, rules, ReadMetadata(dir, rules, order), texts)
    BY <1>1 DEF Built, RulesFor
  <2>2. Building(dir, rules, D, b, D, P)
    BY <2>1, MetadataIsRead, MarkdownIsRead
  <2> HIDE DEF b
  <2>3. Leading(dir) \cap D = Leading(dir)
    BY DEF Leading
  <2>4. OnTheirOwn(dir, rules, D, P) = {p \in Unled(dir) : UrlAllowed(OwnUrl(dir, p), rules)}
    BY <2>3 DEF OnTheirOwn, LedTo, Unled
  <2>5. Admitted(dir, rules, D) = {i \in Leading(dir) : UrlAllowed(dir.tree.entries[i].url, rules)}
    BY <2>3 DEF Admitted
  <2>6. UrlsFrom(dir, rules, D, P) = Indexable(dir, rules)
    BY <2>4, <2>5 DEF UrlsFrom, Indexable
  <2> QED BY <1>1, <2>2, <2>6 DEF Building, BuiltFrom, WellBuilt, EndOf, UrlsToHave, b
<1>2. CASE ~online
  <2>1. b = ReadMarkdown(dir, NoRules, Begin(dir), texts)
    BY <1>2 DEF Built, RulesFor
  <2>2. Building(dir, NoRules, {}, b, {}, P)
    BY <2>1, BuildingBegins, MarkdownIsRead
  <2> HIDE DEF b
  <2>3. \A url : UrlAllowed(url, NoRules)
    BY DEF UrlAllowed, NoRules
  <2>4. Admitted(dir, NoRules, {}) = {} /\ LedTo(dir, {}) = {} /\ Pruned(dir, NoRules, {}) = {}
    BY DEF Admitted, LedTo, Pruned
  <2>5. OnTheirOwn(dir, NoRules, {}, P) = P
    BY <2>3, <2>4 DEF OnTheirOwn
  <2>6. UrlsFrom(dir, NoRules, {}, P) = {OwnUrl(dir, p) : p \in P}
    BY <2>4, <2>5 DEF UrlsFrom
  <2> QED BY <1>2, <2>2, <2>4, <2>6 DEF Building, BuiltFrom, WellBuilt, EndOf, UrlsToHave, b
<1> QED BY <1>1, <1>2

IsDirectory(dir) ==
    /\ dir = [tree |-> dir.tree, front |-> dir.front] /\ IsTree(dir.tree)
    /\ IsFiniteSet(dir.tree.pages)
    /\ \E n \in Nat : DOMAIN dir.tree.entries = 1 .. n

\* What a build leaves leads to the texts whose URLs are allowed.
LEMMA BuildLeaves ==
    ASSUME NEW dir, IsDirectory(dir), NEW rules, NEW b,
           b.left = DOMAIN dir.tree.entries \ Pruned(dir, rules, DOMAIN dir.tree.entries)
    PROVE  LET left == AfterBuild(dir, b)
           IN  /\ Indexable(dir, rules) \subseteq Indexable(left, rules)
               /\ AsWritten(dir) => Indexable(left, rules) = Indexable(dir, rules)
<1> DEFINE left == AfterBuild(dir, b)
           D == DOMAIN dir.tree.entries
<1>1. /\ left.front = dir.front /\ left.tree.pages = dir.tree.pages
      /\ left.tree.entries = [i \in b.left |-> dir.tree.entries[i]]
  BY DEF AfterBuild, IsDirectory, IsTree
<1> HIDE DEF left
<1>2. /\ DOMAIN left.tree.entries = b.left /\ b.left \subseteq D
      /\ \A i \in b.left : left.tree.entries[i] = dir.tree.entries[i]
  BY <1>1
<1>3. \A p : OwnUrl(left, p) = OwnUrl(dir, p)
  BY <1>1 DEF OwnUrl
<1>4. Leading(left) = {i \in Leading(dir) : UrlAllowed(dir.tree.entries[i].url, rules)}
  BY <1>1, <1>2 DEF Leading, Pruned
<1>5. \A i \in Leading(left) : left.tree.entries[i] = dir.tree.entries[i]
  BY <1>2 DEF Leading
<1>6. Unled(dir) \subseteq Unled(left)
  BY <1>1, <1>4, <1>5 DEF Unled
<1>7. Indexable(dir, rules) \subseteq Indexable(left, rules)
  BY <1>3, <1>4, <1>5, <1>6 DEF Indexable
<1>8. ASSUME AsWritten(dir), NEW url \in Indexable(left, rules) PROVE url \in Indexable(dir, rules)
  <2>1. UrlAllowed(url, rules)
    BY DEF Indexable
  <2>2. CASE \E i \in Leading(left) : left.tree.entries[i].url = url
    BY <1>4, <1>5, <2>1, <2>2 DEF Indexable
  <2>3. ASSUME NEW p \in Unled(left), OwnUrl(left, p) = url PROVE url \in Indexable(dir, rules)
    <3>1. OwnUrl(dir, p) = url /\ p \in dir.tree.pages
      BY <1>1, <1>3, <2>3 DEF Unled
    <3>2. CASE p \in Unled(dir)
      BY <2>1, <3>1, <3>2 DEF Indexable
    <3>3. ASSUME NEW i \in Leading(dir), dir.tree.entries[i].page = p PROVE url \in Indexable(dir, rules)
      <4>1. dir.front[p] = dir.tree.entries[i].url /\ dir.tree.entries[i].url # << >>
        BY <1>8, <3>3 DEF AsWritten, Leading
      <4>2. OwnUrl(dir, p) = dir.tree.entries[i].url
        BY <4>1 DEF OwnUrl
      <4> QED BY <2>1, <3>1, <4>2 DEF Indexable
    <3> QED BY <3>1, <3>2, <3>3 DEF Unled
  <2> QED BY <2>2, <2>3 DEF Indexable
<1> QED BY <1>7, <1>8 DEF left

\* A clean-up takes no URL that can be indexed from documents as they were
\* written.
LEMMA SweepKeeps ==
    ASSUME NEW dir, IsDirectory(dir), dir.tree.pages \subseteq Pages, NEW rules, rules.white \in Whitelists,
           AsWritten(dir), NEW order \in SetToSeqs(DOMAIN dir.tree.entries)
    PROVE  LET swept == AfterSweep(dir, rules, order)
           IN  /\ Indexable(swept, rules) = Indexable(dir, rules)
               /\ IsFiniteSet(DOMAIN swept.tree.entries) /\ IsFiniteSet(swept.tree.pages)
<1> DEFINE swept == AfterSweep(dir, rules, order)
           D == DOMAIN dir.tree.entries
           E == dir.tree.entries
<1>1. IsTree(dir.tree) /\ IsFiniteSet(D)
  <2>1. PICK n \in Nat : D = 1 .. n
    BY DEF IsDirectory
  <2>2. IsFiniteSet(1 .. n)
    BY FS_Interval
  <2> QED BY <2>1, <2>2 DEF IsDirectory
<1>2. LeftOf(dir.tree, rules, Sweep(dir.tree, order, rules), D)
  BY <1>1, SweepLeaves
<1>3. swept.front = dir.front /\ swept.tree = Sweep(dir.tree, order, rules)
  BY DEF AfterSweep, IsDirectory
<1> HIDE DEF swept
<1>4. LeftOf(dir.tree, rules, swept.tree, D)
  BY <1>2, <1>3
<1>5. /\ DOMAIN swept.tree.entries \subseteq D /\ swept.tree.pages \subseteq dir.tree.pages
      /\ \A i \in DOMAIN swept.tree.entries : swept.tree.entries[i] = E[i]
  BY <1>4 DEF LeftOf
<1>6. IsFiniteSet(DOMAIN swept.tree.entries) /\ IsFiniteSet(swept.tree.pages)
  BY <1>1, <1>5, FS_Subset DEF IsDirectory
<1>7. Leading(swept) \subseteq Leading(dir) /\ \A i \in Leading(swept) : swept.tree.entries[i] = E[i]
  BY <1>5 DEF Leading
<1>8. \A p : OwnUrl(swept, p) = OwnUrl(dir, p)
  BY <1>3 DEF OwnUrl
<1>9. \A i, j \in D : E[i].page = E[j].page => i = j
  BY DEF AsWritten
<1>10. swept.tree.pages = dir.tree.pages \ {E[i].page : i \in Refused(dir.tree, rules) \cap D}
  BY <1>4 DEF LeftOf
<1>11. ASSUME NEW url \in Indexable(dir, rules) PROVE url \in Indexable(swept, rules)
  <2>1. UrlAllowed(url, rules)
    BY DEF Indexable
  <2>2. ASSUME NEW i \in Leading(dir), E[i].url = url PROVE url \in Indexable(swept, rules)
    <3>1. i \in (Legible(dir.tree) \ Refused(dir.tree, rules)) \cap D /\ E[i].page \in dir.tree.pages
      BY <2>1, <2>2 DEF Leading, Legible, Refused
    <3>2. E[i].page \in swept.tree.pages
      BY <1>9, <1>10, <3>1
    <3>3. PICK j \in Legible(swept.tree) : swept.tree.entries[j].page = E[i].page
      BY <1>4, <3>1, <3>2 DEF LeftOf
    <3>4. j \in DOMAIN swept.tree.entries
      BY DEF Legible
    <3>5. j = i
      BY <1>5, <1>9, <3>1, <3>3, <3>4
    <3>6. i \in Leading(swept)
      BY <1>5, <2>2, <3>2, <3>4, <3>5 DEF Leading
    <3> QED BY <1>7, <2>1, <2>2, <3>6 DEF Indexable
  <2>3. ASSUME NEW p \in Unled(dir), OwnUrl(dir, p) = url PROVE url \in Indexable(swept, rules)
    <3>1. p \in dir.tree.pages /\ p \in Pages
      BY DEF Unled
    <3>2. p \in swept.tree.pages
      <4> SUFFICES ASSUME NEW i \in Refused(dir.tree, rules), E[i].page = p PROVE FALSE
        BY <1>10, <3>1
      <4>1. i \in D /\ E[i].readable /\ ~UrlAllowed(E[i].url, rules)
        BY DEF Refused, Legible
      <4>2. E[i].url = << >>
        BY <3>1, <4>1 DEF Unled, Leading
      <4>3. dir.front[p] = << >>
        BY <4>1, <4>2 DEF AsWritten
      <4>4. url = FileUrl(p)
        BY <2>3, <4>3 DEF OwnUrl
      <4>5. rules.white # {}
        BY <4>1, <4>2 DEF UrlAllowed
      <4>6. \E prefix \in rules.white : IsPrefix(prefix, FileUrl(p))
        BY <2>1, <4>4, <4>5 DEF UrlAllowed
      <4> QED BY <3>1, <4>6, WhitelistsAssumption
    <3>3. p \in Unled(swept)
      BY <1>7, <2>3, <3>2 DEF Unled
    <3> QED BY <1>8, <2>1, <2>3, <3>3 DEF Indexable
  <2> QED BY <2>2, <2>3 DEF Indexable
<1>12. ASSUME NEW url \in Indexable(swept, rules) PROVE url \in Indexable(dir, rules)
  <2>1. UrlAllowed(url, rules)
    BY DEF Indexable
  <2>2. CASE \E i \in Leading(swept) : swept.tree.entries[i].url = url
    BY <1>7, <2>1, <2>2 DEF Indexable
  <2>3. ASSUME NEW p \in Unled(swept), OwnUrl(swept, p) = url PROVE url \in Indexable(dir, rules)
    <3>1. OwnUrl(dir, p) = url /\ p \in dir.tree.pages
      BY <1>5, <1>8, <2>3 DEF Unled
    <3>2. CASE p \in Unled(dir)
      BY <2>1, <3>1, <3>2 DEF Indexable
    <3>3. ASSUME NEW i \in Leading(dir), E[i].page = p PROVE url \in Indexable(dir, rules)
      <4>1. dir.front[p] = E[i].url /\ E[i].url # << >>
        BY <3>3 DEF AsWritten, Leading
      <4>2. OwnUrl(dir, p) = E[i].url
        BY <4>1 DEF OwnUrl
      <4> QED BY <2>1, <3>1, <4>2 DEF Indexable
    <3> QED BY <3>1, <3>2, <3>3 DEF Unled
  <2> QED BY <2>2, <2>3 DEF Indexable
<1> QED BY <1>6, <1>11, <1>12 DEF swept

\* What BuildsAgree says of two metadata files holds of any number, of any
\* texts and rules (build_segment).
THEOREM BuildsAgreeForAll ==
    ASSUME NEW dir, IsDirectory(dir), dir.tree.pages \subseteq Pages, NEW rules, rules.white \in Whitelists,
           NEW online \in BOOLEAN
    PROVE  BuildsAgreeOn(dir, rules, online)
<1> DEFINE D == DOMAIN dir.tree.entries
           P == dir.tree.pages
           forth == [i \in D |-> i]
           texts == SetToSeq(P)
           once == Built(dir, online, rules, forth, texts)
           left == AfterBuild(dir, once)
           swept == AfterSweep(dir, rules, forth)
           all == UrlsToHave(dir, rules, online)
<1>1. PICK n \in Nat : D = 1 .. n
  BY DEF IsDirectory
<1>2. IsFiniteSet(D) /\ IsFiniteSet(P) /\ Cardinality(D) = n
  <2>1. IsFiniteSet(1 .. n) /\ Cardinality(1 .. n) = n
    BY FS_Interval
  <2> QED BY <1>1, <2>1 DEF IsDirectory
<1>3. Lists(forth, D) /\ forth \in SetToSeqs(D)
  BY <1>1, <1>2 DEF Lists, SetToSeqs
<1>4. Lists(texts, P)
  BY <1>2, SeqsList
<1> HIDE DEF forth, texts
<1>5. Lists(Reverse(forth), D) /\ Lists(Reverse(texts), P)
  BY <1>3, <1>4, ReverseLists
<1>6. /\ UrlsOf(once.docs) = all /\ \A d, e \in once.docs : d.url = e.url => d = e
      /\ once.left = D \ (IF online THEN Pruned(dir, rules, D) ELSE {})
  <2>1. EndOf(once, dir, rules, online)
    BY <1>3, <1>4, BuildEnds
  <2> QED BY <2>1 DEF EndOf
<1>7. UrlsOf(Built(dir, online, rules, Reverse(forth), Reverse(texts)).docs) = all
  <2> DEFINE back == Reverse(forth)
             other == Reverse(texts)
  <2>1. Lists(back, D) /\ Lists(other, P)
    BY <1>5
  <2> HIDE DEF back, other
  <2>2. EndOf(Built(dir, online, rules, back, other), dir, rules, online)
    BY <2>1, BuildEnds
  <2> QED BY <2>2 DEF EndOf, back, other
<1> HIDE DEF once
<1>8. ASSUME NEW next \in SetToSeqs(once.left)
      PROVE  LET twice == Built(left, online, rules, next, texts)
             IN  /\ UrlsOf(once.docs) \subseteq UrlsOf(twice.docs)
                 /\ AsWritten(dir) => UrlsOf(twice.docs) = UrlsOf(once.docs)
  <2>1. /\ left.front = dir.front /\ left.tree.pages = P
        /\ DOMAIN left.tree.entries = once.left
    BY DEF AfterBuild, IsDirectory, IsTree
  <2>2. IsFiniteSet(once.left)
    BY <1>2, <1>6, FS_Subset
  <2>3. Lists(next, once.left)
    BY <2>2, SeqsList
  <2> DEFINE twice == Built(left, online, rules, next, texts)
  <2> HIDE DEF left
  <2>4. UrlsOf(twice.docs) = UrlsToHave(left, rules, online)
    BY <1>4, <2>1, <2>3, BuildEnds DEF EndOf
  <2> HIDE DEF twice
  <2>5. UrlsOf(once.docs) \subseteq UrlsOf(twice.docs) /\ (AsWritten(dir) => UrlsOf(twice.docs) = UrlsOf(once.docs))
    <3>1. CASE online
      <4>1. once.left = D \ Pruned(dir, rules, D)
        BY <1>6, <3>1
      <4>2. /\ Indexable(dir, rules) \subseteq Indexable(left, rules)
            /\ AsWritten(dir) => Indexable(left, rules) = Indexable(dir, rules)
        BY <4>1, BuildLeaves DEF left
      <4> QED BY <1>6, <2>4, <3>1, <4>2 DEF UrlsToHave
    <3>2. CASE ~online
      <4>1. \A p : OwnUrl(left, p) = OwnUrl(dir, p)
        BY <2>1 DEF OwnUrl
      <4> QED BY <1>6, <2>1, <2>4, <3>2, <4>1 DEF UrlsToHave
    <3> QED BY <3>1, <3>2
  <2> QED BY <2>5 DEF twice
<1>9. ASSUME AsWritten(dir), online, NEW next \in SetToSeqs(DOMAIN swept.tree.entries)
      PROVE  UrlsOf(Built(swept, online, rules, next, SetToSeq(swept.tree.pages)).docs) = UrlsOf(once.docs)
  <2>1. /\ Indexable(swept, rules) = Indexable(dir, rules)
        /\ IsFiniteSet(DOMAIN swept.tree.entries) /\ IsFiniteSet(swept.tree.pages)
    BY <1>3, <1>9, SweepKeeps
  <2> HIDE DEF swept
  <2>2. Lists(next, DOMAIN swept.tree.entries) /\ Lists(SetToSeq(swept.tree.pages), swept.tree.pages)
    BY <2>1, SeqsList
  <2> DEFINE others == SetToSeq(swept.tree.pages)
             again == Built(swept, online, rules, next, others)
  <2>3. EndOf(again, swept, rules, online)
    <3> HIDE DEF others
    <3> QED BY <2>2, BuildEnds DEF others
  <2> HIDE DEF again
  <2>4. UrlsOf(again.docs) = Indexable(swept, rules)
    BY <1>9, <2>3 DEF EndOf, UrlsToHave
  <2> USE DEF again
  <2> QED BY <1>6, <1>9, <2>1, <2>4 DEF UrlsToHave
<1> HIDE DEF left, swept
<1> QED BY <1>6, <1>7, <1>8, <1>9 DEF BuildsAgreeOn, UrlsToHave, forth, texts, once, left, swept

LEMMA DirectedAreDirectories ==
    ASSUME NEW dir \in Directed
    PROVE  IsDirectory(dir) /\ dir.tree.pages \subseteq Pages
<1>1. PICK n \in 0 .. 2 : dir.tree.entries \in [1 .. n -> Entry]
  BY DEF Directed
<1>2. dir.tree.pages \subseteq Pages /\ IsFiniteSet(dir.tree.pages)
  BY PagesAssumption, FS_Subset DEF Directed
<1>3. IsTree(dir.tree) /\ dir = [tree |-> dir.tree, front |-> dir.front]
  BY <1>1 DEF Directed, IsTree
<1> QED BY <1>1, <1>2, <1>3 DEF IsDirectory

LEMMA BuildsDoAgree == BuildsAgree
  BY BuildsAgreeForAll, DirectedAreDirectories DEF BuildsAgree

\* A clean-up leaves what the rules allow and comes to rest, and builds before
\* and after it agree (cleanup_segments.py, indexer.py).
THEOREM SweepAlwaysSettles == FairSpec => []SweepSettles
<1>1. SweepSettles
  BY SweepsDoSettle, BuildsDoAgree DEF SweepSettles
<1> QED BY <1>1, PTL

-----------------------------------------------------------------------------
LEMMA ShareIsBounded ==
    ASSUME NEW a \in Nat, NEW b \in Nat \ {0}, NEW k \in Nat, a <= k * b
    PROVE  a \div b \in Nat /\ a \div b <= k
<1> DEFINE q == a \div b
<1>1. q \in Int /\ b * q <= a /\ a < b * (q + 1)
  OBVIOUS
<1> HIDE DEF q
<1>2. q >= 0
  <2> SUFFICES ASSUME q <= -1 PROVE FALSE
    BY <1>1
  <2>1. b * (q + 1) <= 0
    BY <1>1
  <2> QED BY <1>1, <2>1
<1>3. q <= k
  <2> SUFFICES ASSUME q >= k + 1 PROVE FALSE
    BY <1>1
  <2>1. b * q >= b * (k + 1)
    BY <1>1
  <2>2. b * (k + 1) = k * b + b
    OBVIOUS
  <2> QED BY <1>1, <2>1, <2>2
<1> QED BY <1>1, <1>2, <1>3 DEF q

LEMMA QuotientIs ==
    ASSUME NEW a \in Nat, NEW d \in Nat \ {0}
    PROVE  a \div d \in Nat /\ d * (a \div d) <= a /\ a < d * (a \div d) + d
  BY SMTT(30)

LEMMA QuotientIsMost ==
    ASSUME NEW a \in Nat, NEW d \in Nat \ {0}, NEW q \in Nat, d * q <= a PROVE q <= a \div d
<1> DEFINE r == a \div d
<1>1. r \in Nat /\ a < d * r + d
  BY QuotientIs
<1> HIDE DEF r
<1>2. SUFFICES ASSUME r < q PROVE FALSE
  BY <1>1 DEF r
<1>3. r + 1 <= q
  BY <1>1, <1>2
<1>4. d * (r + 1) <= d * q
  BY <1>1, <1>3
<1>5. d * (r + 1) = d * r + d
  BY <1>1
<1> QED BY <1>1, <1>4, <1>5

\* A matched tenant always wins, whatever the scores.
LEMMA NamedIsHigher ==
    ASSUME NEW low \in Nat, low <= Whole \div 2,
           NEW s \in Nat \ {0}, NEW t \in Nat \ {0}, NEW g \in Nat \ {0}, NEW h \in Nat \ {0}, s <= g, t <= h
    PROVE  Higher(Final(Whole, t, h), Final(low, s, g))
<1> DEFINE a == 600 - low
           d == h * g
           e == (t + 100) * (s + 100)
           x == 180 * t * g - 180 * s * h
           y == 120 * t * (s + 100) - 120 * s * (t + 100)
<1>1. a \in Nat /\ a >= 300
  BY DEF Whole
<1>2. d \in Nat \ {0} /\ e \in Nat \ {0}
  <2>1. d \in Nat /\ d > 0
    OBVIOUS
  <2> DEFINE t1 == t + 100
             s1 == s + 100
  <2>2. t1 \in Nat \ {0} /\ s1 \in Nat \ {0}
    OBVIOUS
  <2>3. e = t1 * s1
    OBVIOUS
  <2> HIDE DEF t1, s1, e
  <2> QED BY <2>1, <2>2, <2>3
<1>3. x \in Int /\ x >= 1 - 180 * d
  <2>1. s * h <= g * h /\ s * h \in Nat /\ g * h \in Nat /\ g * h = d
    OBVIOUS
  <2>2. t * g \in Nat /\ t * g >= 1
    OBVIOUS
  <2>3. x = 180 * (t * g) - 180 * (s * h)
    OBVIOUS
  <2> HIDE DEF x, d
  <2> DEFINE p == s * h
             q == t * g
  <2>4. p \in Nat /\ q \in Nat /\ q >= 1 /\ p <= d /\ d \in Nat /\ x = 180 * q - 180 * p
    BY <2>1, <2>2, <2>3
  <2> HIDE DEF p, q
  <2> QED BY <2>4
<1>4. y \in Int /\ y >= -(120 * e)
  <2> DEFINE p == t * s
  <2>1. p \in Nat
    OBVIOUS
  <2>2. e = p + 100 * t + 100 * s + 10000
    OBVIOUS
  <2>3. y = 12000 * t - 12000 * s
    OBVIOUS
  <2> HIDE DEF p, e, y
  <2> QED BY <2>1, <2>2, <2>3
<1> HIDE DEF a, d, e, x, y
<1>5. a * d * e + x * e + y * d > 0
  <2> DEFINE w == d * e
  <2>1. w \in Nat /\ a * d * e = a * w
    BY <1>1, <1>2
  <2>2. a * w >= 300 * w
    <3> HIDE DEF w
    <3> QED BY <1>1, <2>1
  <2>3. x * e >= e - 180 * w
    <3>1. x * e >= (1 - 180 * d) * e
      BY <1>2, <1>3
    <3>2. (1 - 180 * d) * e = e - 180 * w
      BY <1>2
    <3> QED BY <3>1, <3>2
  <2>4. y * d >= -(120 * w)
    <3>1. y * d >= (-(120 * e)) * d
      BY <1>2, <1>4
    <3>2. (-(120 * e)) * d = -(120 * w)
      BY <1>2
    <3> QED BY <3>1, <3>2
  <2> DEFINE aw == a * w
             xe == x * e
             yd == y * d
  <2>5. aw \in Int /\ xe \in Int /\ yd \in Int
    <3> HIDE DEF w
    <3> QED BY <1>1, <1>2, <1>3, <1>4, <2>1
  <2> HIDE DEF w
  <2>6. aw >= 300 * w /\ xe >= e - 180 * w /\ yd >= -(120 * w) /\ a * d * e + x * e + y * d = aw + xe + yd
    BY <2>1, <2>2, <2>3, <2>4
  <2> HIDE DEF aw, xe, yd
  <2> QED BY <1>2, <2>1, <2>5, <2>6
<1>6. Higher(Final(Whole, t, h), Final(low, s, g)) <=> a * d * e + x * e + y * d > 0
  BY DEF Higher, Final, Excess, Whole, RawDamping, a, d, e, x, y
<1> QED BY <1>5, <1>6

\* Within a tenant the better score is the higher.
LEMMA BetterIsHigher ==
    ASSUME NEW boost \in Nat, NEW g \in Nat \ {0}, NEW s \in Nat, NEW t \in Nat, s > t
    PROVE  Higher(Final(boost, s, g), Final(boost, t, g))
<1> DEFINE d == g * g
           e == (s + 100) * (t + 100)
           x == 180 * s * g - 180 * t * g
           y == 120 * s * (t + 100) - 120 * t * (s + 100)
<1>1. d \in Nat /\ d > 0
  OBVIOUS
<1>2. e \in Nat /\ e > 0
  <2> DEFINE s1 == s + 100
             t1 == t + 100
  <2>1. s1 \in Nat \ {0} /\ t1 \in Nat \ {0} /\ e = s1 * t1
    OBVIOUS
  <2> HIDE DEF s1, t1, e
  <2> QED BY <2>1
<1>3. x \in Int /\ x >= 0
  <2> DEFINE p == s * g
             q == t * g
  <2>1. p \in Nat /\ q \in Nat /\ q <= p
    OBVIOUS
  <2>2. x = 180 * p - 180 * q
    OBVIOUS
  <2> HIDE DEF p, q, x
  <2> QED BY <2>1, <2>2
<1>4. y \in Int /\ y > 0
  <2>1. y = 12000 * s - 12000 * t
    OBVIOUS
  <2> HIDE DEF y
  <2> QED BY <2>1
<1> HIDE DEF d, e, x, y
<1>5. (boost - boost) * d * e + x * e + y * d > 0
  <2>1. (boost - boost) * d * e = 0
    BY <1>1, <1>2
  <2>2. x * e \in Int /\ x * e >= 0
    BY <1>2, <1>3
  <2>3. y * d \in Int /\ y * d > 0
    BY <1>1, <1>4
  <2> QED BY <2>1, <2>2, <2>3
<1>6. Higher(Final(boost, s, g), Final(boost, t, g)) <=> (boost - boost) * d * e + x * e + y * d > 0
  BY DEF Higher, Final, Excess, RawDamping, d, e, x, y
<1> QED BY <1>5, <1>6

\* The hits of a tenant as its segment lists them: the better before the others.
IsGraded(h) == h \in Seq(Nat \ {0}) /\ h # << >> /\ \A i, j \in 1 .. Len(h) : i < j => h[i] >= h[j]

\* The hits of two tenants, of which each has some.
HitsOf(m, n) == {<<1, i>> : i \in 1 .. m} \cup {<<2, i>> : i \in 1 .. n}

LEMMA HitsAreCounted ==
    ASSUME NEW m \in Nat, NEW n \in Nat
    PROVE  IsFiniteSet(HitsOf(m, n)) /\ Cardinality(HitsOf(m, n)) = m + n
<1> DEFINE size == m + n
           l == [i \in 1 .. size |-> IF i <= n THEN <<2, i>> ELSE <<1, i - n>>]
<1>1. size \in Nat
  OBVIOUS
<1>2. ASSUME NEW i \in 1 .. size
      PROVE  \/ i \in 1 .. n /\ l[i] = <<2, i>>
             \/ i > n /\ i - n \in 1 .. m /\ l[i] = <<1, i - n>>
  OBVIOUS
<1>3. DOMAIN l = 1 .. size /\ l = [i \in 1 .. size |-> l[i]]
  OBVIOUS
<1> HIDE DEF l
<1>4. l \in [1 .. size -> HitsOf(m, n)]
  <2>1. ASSUME NEW i \in 1 .. size PROVE l[i] \in HitsOf(m, n)
    BY <1>2 DEF HitsOf
  <2> QED BY <1>3, <2>1
<1>5. ASSUME NEW x \in HitsOf(m, n) PROVE \E i \in 1 .. size : l[i] = x
  <2>1. CASE x \in {<<2, i>> : i \in 1 .. n}
    <3>1. PICK i \in 1 .. n : x = <<2, i>>
      BY <2>1
    <3>2. i \in 1 .. size /\ ~(i > n)
      OBVIOUS
    <3> QED BY <1>2, <3>1, <3>2
  <2>2. CASE x \in {<<1, i>> : i \in 1 .. m}
    <3>1. PICK i \in 1 .. m : x = <<1, i>>
      BY <2>2
    <3>2. i + n \in 1 .. size /\ i + n \notin 1 .. n /\ (i + n) - n = i
      OBVIOUS
    <3> QED BY <1>2, <3>1, <3>2
  <2> QED BY <2>1, <2>2 DEF HitsOf
<1>6. ASSUME NEW i \in 1 .. size, NEW j \in 1 .. size, l[i] = l[j] PROVE i = j
  BY <1>2, <1>6
<1>7. l \in Bijection(1 .. size, HitsOf(m, n))
  BY <1>3, <1>4, <1>5, <1>6 DEF Bijection, Injection, Surjection, IsInjective
<1>8. IsFiniteSet(1 .. size) /\ Cardinality(1 .. size) = size
  <2>1. 1 \in Int /\ size \in Int
    OBVIOUS
  <2>2. IsFiniteSet(1 .. size) /\ Cardinality(1 .. size) = IF 1 > size THEN 0 ELSE size - 1 + 1
    BY <2>1, FS_Interval
  <2> QED BY <1>1, <2>2
<1> QED BY <1>7, <1>8, FS_Bijection DEF ExistsBijection

\* Of as many as b, each once, there are at most b.
LEMMA NoMoreThanThere ==
    ASSUME NEW a \in Nat, NEW b \in Nat, NEW f \in [1 .. a -> 1 .. b], \A i, j \in 1 .. a : f[i] = f[j] => i = j
    PROVE  a <= b
<1>1. f \in Injection(1 .. a, 1 .. b)
  BY DEF Injection, IsInjective
<1>2. \A k \in Nat : IsFiniteSet(1 .. k) /\ Cardinality(1 .. k) = k
  <2> TAKE k \in Nat
  <2>1. 1 \in Int /\ k \in Int
    OBVIOUS
  <2>2. IsFiniteSet(1 .. k) /\ Cardinality(1 .. k) = IF 1 > k THEN 0 ELSE k - 1 + 1
    BY <2>1, FS_Interval
  <2> QED BY <2>2
<1> QED BY <1>1, <1>2, FS_Injection

\* A list of all hits with none of the first tenant before one of the second
\* begins with those of the second.
LEMMA SecondLeads ==
    ASSUME NEW m \in Nat, NEW n \in Nat, NEW list \in [1 .. m + n -> HitsOf(m, n)],
           \A i, j \in 1 .. m + n : i # j => list[i] # list[j],
           \A x \in HitsOf(m, n) : \E i \in 1 .. m + n : list[i] = x,
           \A i, j \in 1 .. m + n : i < j => ~(list[i][1] = 1 /\ list[j][1] = 2)
    PROVE  \A i \in 1 .. m + n : list[i][1] = IF i <= n THEN 2 ELSE 1
<1> DEFINE size == m + n
<1>1. ASSUME NEW i \in 1 .. size
      PROVE  \/ list[i][1] = 1 /\ list[i][2] \in 1 .. m /\ list[i] = <<1, list[i][2]>>
             \/ list[i][1] = 2 /\ list[i][2] \in 1 .. n /\ list[i] = <<2, list[i][2]>>
  BY DEF HitsOf
<1> SUFFICES ASSUME NEW i \in 1 .. size PROVE list[i][1] = IF i <= n THEN 2 ELSE 1
  OBVIOUS
<1>2. size \in Nat /\ i \in Nat /\ i - 1 \in Nat
  OBVIOUS
<1>3. ASSUME i <= n, list[i][1] = 1 PROVE FALSE
  <2>1. ASSUME NEW k \in 1 .. n PROVE \E j \in 1 .. i - 1 : list[j] = <<2, k>>
    <3>1. <<2, k>> \in HitsOf(m, n)
      BY DEF HitsOf
    <3>2. PICK j \in 1 .. size : list[j] = <<2, k>>
      BY <3>1
    <3>3. j # i /\ ~(i < j)
      BY <1>3, <3>2
    <3>4. j \in 1 .. i - 1
      BY <1>2, <3>3
    <3> QED BY <3>2, <3>4
  <2> DEFINE f == [k \in 1 .. n |-> CHOOSE j \in 1 .. i - 1 : list[j] = <<2, k>>]
  <2>2. \A k \in 1 .. n : f[k] \in 1 .. i - 1 /\ list[f[k]] = <<2, k>>
    BY <2>1
  <2>3. f \in [1 .. n -> 1 .. i - 1]
    <3>1. f = [k \in 1 .. n |-> f[k]]
      OBVIOUS
    <3> HIDE DEF f
    <3> QED BY <2>2, <3>1
  <2> HIDE DEF f
  <2>4. \A j, k \in 1 .. n : f[j] = f[k] => j = k
    <3> TAKE j \in 1 .. n, k \in 1 .. n
    <3>1. list[f[j]] = <<2, j>> /\ list[f[k]] = <<2, k>>
      BY <2>2
    <3>2. <<2, j>> = <<2, k>> => j = k
      OBVIOUS
    <3> QED BY <3>1, <3>2
  <2>5. n <= i - 1
    BY <1>2, <2>3, <2>4, NoMoreThanThere
  <2> QED BY <1>2, <1>3, <2>5
<1>4. ASSUME i > n, list[i][1] = 2 PROVE FALSE
  <2>1. ASSUME NEW j \in 1 .. i PROVE j \in 1 .. size /\ list[j][2] \in 1 .. n /\ list[j] = <<2, list[j][2]>>
    <3>1. j \in 1 .. size /\ (j = i \/ j < i)
      BY <1>2
    <3>2. list[j][1] # 1
      BY <1>4, <3>1
    <3> QED BY <1>1, <3>1, <3>2
  <2> DEFINE f == [j \in 1 .. i |-> list[j][2]]
  <2>2. f \in [1 .. i -> 1 .. n]
    BY <2>1
  <2>3. ASSUME NEW j \in 1 .. i, NEW k \in 1 .. i, f[j] = f[k] PROVE j = k
    <3> DEFINE p == list[j][2]
               q == list[k][2]
    <3>1. p = q
      BY <2>3
    <3>2. list[j] = <<2, p>> /\ list[k] = <<2, q>> /\ j \in 1 .. size /\ k \in 1 .. size
      BY <2>1
    <3> HIDE DEF p, q
    <3>3. list[j] = list[k]
      BY <3>1, <3>2
    <3> QED BY <3>2, <3>3
  <2> HIDE DEF f
  <2>4. i <= n
    BY <1>2, <2>2, <2>3, NoMoreThanThere
  <2> QED BY <1>2, <1>4, <2>4
<1> QED BY <1>1, <1>2, <1>3, <1>4

\* All hits of a tenant that a query names precede those of one with at most half
\* a score, and of each tenant the better the others, however many each has,
\* whatever their scores and however equal ones are sorted (search_all.go).
THEOREM NamedTenantIsFirstForAll ==
    ASSUME NEW others, IsGraded(others), NEW named, IsGraded(named), NEW low \in 0 .. Whole \div 2, NEW total \in Nat
    PROVE  NamedTenantIsFirst(others, named, low, total)
<1> DEFINE hits == <<others, named>>
           boost == <<low, Whole>>
           all == UNION {{<<t, i>> : i \in DOMAIN hits[t]} : t \in DOMAIN hits}
           m == Len(others)
           n == Len(named)
           final(h) == Final(boost[h[1]], hits[h[1]][h[2]], hits[h[1]][1])
           lists == {list \in SetToSeqs(all) :
                       \A i, j \in DOMAIN list : i < j => ~Higher(final(list[j]), final(list[i]))}
           size == IF total > 0 THEN Lesser(total, m + n) ELSE m + n
<1>1. /\ m \in Nat \ {0} /\ n \in Nat \ {0} /\ DOMAIN others = 1 .. m /\ DOMAIN named = 1 .. n
      /\ \A i \in 1 .. m : others[i] \in Nat \ {0} /\ others[i] <= others[1]
      /\ \A i \in 1 .. n : named[i] \in Nat \ {0} /\ named[i] <= named[1]
  <2>1. m \in Nat \ {0} /\ n \in Nat \ {0} /\ DOMAIN others = 1 .. m /\ DOMAIN named = 1 .. n
    BY DEF IsGraded
  <2>2. /\ \A i \in 1 .. m : others[i] \in Nat \ {0}
        /\ \A i \in 1 .. n : named[i] \in Nat \ {0}
    BY DEF IsGraded
  <2>3. ASSUME NEW i \in 1 .. m PROVE others[i] <= others[1]
    <3>1. i = 1 \/ 1 < i
      OBVIOUS
    <3>2. 1 \in 1 .. m
      BY <2>1
    <3> QED BY <2>2, <3>1, <3>2 DEF IsGraded
  <2>4. ASSUME NEW i \in 1 .. n PROVE named[i] <= named[1]
    <3>1. i = 1 \/ 1 < i
      OBVIOUS
    <3>2. 1 \in 1 .. n
      BY <2>1
    <3> QED BY <2>2, <3>1, <3>2 DEF IsGraded
  <2> QED BY <2>1, <2>2, <2>3, <2>4
<1>2. all = HitsOf(m, n)
  <2>1. DOMAIN hits = {1, 2} /\ hits[1] = others /\ hits[2] = named
    OBVIOUS
  <2> HIDE DEF hits
  <2>2. all = {<<1, i>> : i \in DOMAIN hits[1]} \cup {<<2, i>> : i \in DOMAIN hits[2]}
    BY <2>1
  <2> QED BY <1>1, <2>1, <2>2 DEF HitsOf
<1>3. /\ \A i \in 1 .. m : final(<<1, i>>) = Final(low, others[i], others[1])
      /\ \A i \in 1 .. n : final(<<2, i>>) = Final(Whole, named[i], named[1])
  OBVIOUS
<1>4. hits[1] = others /\ hits[2] = named
  OBVIOUS
<1>5. SearchAll(hits, boost, total)
        = {IF total > 0 THEN SubSeq(list, 1, Lesser(total, Len(list))) ELSE list : list \in lists}
  BY DEF SearchAll
<1>6. low \in Nat /\ low <= Whole \div 2 /\ Whole \in Nat
  BY DEF Whole
<1> HIDE DEF all, m, n, hits, boost, final
<1>7. ASSUME NEW i \in 1 .. m, NEW j \in 1 .. n PROVE Higher(final(<<2, j>>), final(<<1, i>>))
  <2>1. 1 \in 1 .. m /\ 1 \in 1 .. n
    BY <1>1
  <2>2. /\ others[i] \in Nat \ {0} /\ others[1] \in Nat \ {0} /\ others[i] <= others[1]
        /\ named[j] \in Nat \ {0} /\ named[1] \in Nat \ {0} /\ named[j] <= named[1]
    BY <1>1, <2>1
  <2>3. Higher(Final(Whole, named[j], named[1]), Final(low, others[i], others[1]))
    BY <1>6, <2>2, NamedIsHigher
  <2> QED BY <1>3, <2>3
<1>8. ASSUME NEW i \in 1 .. m, NEW j \in 1 .. m, others[i] > others[j] PROVE Higher(final(<<1, i>>), final(<<1, j>>))
  <2>1. 1 \in 1 .. m
    BY <1>1
  <2> QED BY <1>1, <1>3, <1>6, <1>8, <2>1, BetterIsHigher
<1>9. ASSUME NEW i \in 1 .. n, NEW j \in 1 .. n, named[i] > named[j] PROVE Higher(final(<<2, i>>), final(<<2, j>>))
  <2>1. 1 \in 1 .. n
    BY <1>1
  <2> QED BY <1>1, <1>3, <1>6, <1>9, <2>1, BetterIsHigher
<1> SUFFICES ASSUME NEW found \in SearchAll(hits, boost, total)
             PROVE  /\ Len(found) = size
                    /\ IsInjective(found)
                    /\ \A i \in DOMAIN found : found[i][1] = IF i <= n THEN 2 ELSE 1
                    /\ \A i \in DOMAIN found : \A k \in DOMAIN hits[found[i][1]] :
                          hits[found[i][1]][k] > hits[found[i][1]][found[i][2]]
                             => \E j \in 1 .. i - 1 : found[j] = <<found[i][1], k>>
  BY DEF NamedTenantIsFirst, hits, boost, m, n
<1>10. PICK list \in SetToSeqs(all) :
          /\ \A i, j \in DOMAIN list : i < j => ~Higher(final(list[j]), final(list[i]))
          /\ found = IF total > 0 THEN SubSeq(list, 1, Lesser(total, Len(list))) ELSE list
  BY <1>5
<1>11. /\ m + n \in Nat /\ list \in [1 .. m + n -> all]
       /\ \A i, j \in 1 .. m + n : i # j => list[i] # list[j]
       /\ \A x \in all : \E i \in 1 .. m + n : list[i] = x
  <2>1. m \in Nat /\ n \in Nat
    BY <1>1
  <2>2. IsFiniteSet(all) /\ Cardinality(all) = m + n
    BY <1>2, <2>1, HitsAreCounted
  <2>3. list \in [1 .. m + n -> all]
    BY <2>2 DEF SetToSeqs
  <2>4. PICK k \in Nat : /\ list \in [1 .. k -> all]
                         /\ \A i, j \in 1 .. k : i # j => list[i] # list[j]
                         /\ {list[i] : i \in 1 .. k} = all
    BY <2>2, ListsAll DEF Lists
  <2>5. 1 .. k = 1 .. m + n
    BY <2>3, <2>4
  <2> QED BY <2>1, <2>3, <2>4, <2>5
<1>12. ASSUME NEW i \in 1 .. m + n
       PROVE  \/ list[i][1] = 1 /\ list[i][2] \in 1 .. m /\ list[i] = <<1, list[i][2]>>
              \/ list[i][1] = 2 /\ list[i][2] \in 1 .. n /\ list[i] = <<2, list[i][2]>>
  <2>1. list[i] \in HitsOf(m, n)
    BY <1>2, <1>11
  <2> QED BY <2>1 DEF HitsOf
<1>13. \A i \in 1 .. m + n : list[i][1] = IF i <= n THEN 2 ELSE 1
  <2>1. m \in Nat /\ n \in Nat
    BY <1>1
  <2>2. ASSUME NEW i \in 1 .. m + n, NEW j \in 1 .. m + n, i < j, list[i][1] = 1, list[j][1] = 2 PROVE FALSE
    <3>1. list[i] = <<1, list[i][2]>> /\ list[i][2] \in 1 .. m
      BY <1>12, <2>2
    <3>2. list[j] = <<2, list[j][2]>> /\ list[j][2] \in 1 .. n
      BY <1>12, <2>2
    <3>3. Higher(final(list[j]), final(list[i]))
      <4> DEFINE p == list[i][2]
                 q == list[j][2]
      <4>1. list[i] = <<1, p>> /\ p \in 1 .. m /\ list[j] = <<2, q>> /\ q \in 1 .. n
        BY <3>1, <3>2
      <4> HIDE DEF p, q
      <4>2. Higher(final(<<2, q>>), final(<<1, p>>))
        BY <1>7, <4>1
      <4> QED BY <4>1, <4>2
    <3>4. i \in DOMAIN list /\ j \in DOMAIN list
      BY <1>11
    <3> QED BY <1>10, <2>2, <3>3, <3>4
  <2>3. \A i, j \in 1 .. m + n : i < j => ~(list[i][1] = 1 /\ list[j][1] = 2)
    BY <2>2
  <2>4. list \in [1 .. m + n -> HitsOf(m, n)] /\ \A x \in HitsOf(m, n) : \E i \in 1 .. m + n : list[i] = x
    BY <1>2, <1>11
  <2> QED BY <1>11, <2>1, <2>3, <2>4, SecondLeads
<1>14. ASSUME NEW i \in 1 .. m + n, NEW k \in DOMAIN hits[list[i][1]],
              hits[list[i][1]][k] > hits[list[i][1]][list[i][2]]
       PROVE  \E j \in 1 .. i - 1 : list[j] = <<list[i][1], k>>
  <2>1. CASE list[i][1] = 1
    <3>1. list[i][2] \in 1 .. m /\ list[i] = <<1, list[i][2]>> /\ k \in 1 .. m /\ others[k] > others[list[i][2]]
      BY <1>1, <1>4, <1>12, <1>14, <2>1
    <3>2. <<1, k>> \in all /\ Higher(final(<<1, k>>), final(list[i]))
      BY <1>2, <1>8, <3>1 DEF HitsOf
    <3>3. PICK j \in 1 .. m + n : list[j] = <<1, k>>
      BY <1>11, <3>2
    <3>4. j # i
      <4>1. others[k] \in Nat
        BY <1>1, <3>1
      <4>2. k # list[i][2]
        BY <3>1, <4>1
      <4>3. list[i] # <<1, k>>
        BY <3>1, <4>2
      <4> QED BY <3>3, <4>3
    <3>5. ~(i < j)
      BY <1>10, <1>11, <3>2, <3>3
    <3>6. j \in 1 .. i - 1
      BY <1>11, <3>4, <3>5
    <3> QED BY <2>1, <3>3, <3>6
  <2>2. CASE list[i][1] = 2
    <3>1. list[i][2] \in 1 .. n /\ list[i] = <<2, list[i][2]>> /\ k \in 1 .. n /\ named[k] > named[list[i][2]]
      BY <1>1, <1>4, <1>12, <1>14, <2>2
    <3>2. <<2, k>> \in all /\ Higher(final(<<2, k>>), final(list[i]))
      BY <1>2, <1>9, <3>1 DEF HitsOf
    <3>3. PICK j \in 1 .. m + n : list[j] = <<2, k>>
      BY <1>11, <3>2
    <3>4. j # i
      <4>1. named[k] \in Nat
        BY <1>1, <3>1
      <4>2. k # list[i][2]
        BY <3>1, <4>1
      <4>3. list[i] # <<2, k>>
        BY <3>1, <4>2
      <4> QED BY <3>3, <4>3
    <3>5. ~(i < j)
      BY <1>10, <1>11, <3>2, <3>3
    <3>6. j \in 1 .. i - 1
      BY <1>11, <3>4, <3>5
    <3> QED BY <2>2, <3>3, <3>6
  <2> QED BY <1>12, <2>1, <2>2
<1>15. size \in 0 .. m + n /\ found = [i \in 1 .. size |-> list[i]]
  <2>1. Len(list) = m + n /\ list = [i \in 1 .. m + n |-> list[i]] /\ list \in Seq(all)
    BY <1>11
  <2>2. CASE total > 0
    <3>1. size \in 0 .. m + n /\ size = Lesser(total, m + n)
      BY <1>11, <2>2 DEF Lesser
    <3> HIDE DEF size
    <3>2. found = SubSeq(list, 1, size)
      BY <1>10, <2>1, <2>2, <3>1
    <3>3. SubSeq(list, 1, size) = [i \in 1 .. size |-> list[i]]
      BY <1>11, <2>1, <3>1
    <3> QED BY <3>1, <3>2, <3>3
  <2>3. CASE ~(total > 0)
    <3>1. size = m + n /\ found = list
      BY <1>10, <2>3
    <3> HIDE DEF size
    <3> QED BY <1>11, <2>1, <3>1
  <2> QED BY <2>2, <2>3
<1> HIDE DEF size
<1>16. /\ Len(found) = size /\ DOMAIN found = 1 .. size
       /\ \A i \in 1 .. size : i \in 1 .. m + n /\ found[i] = list[i]
  BY <1>11, <1>15
<1>17. IsInjective(found)
  BY <1>11, <1>16 DEF IsInjective
<1>18. ASSUME NEW i \in DOMAIN found, NEW k \in DOMAIN hits[found[i][1]],
              hits[found[i][1]][k] > hits[found[i][1]][found[i][2]]
       PROVE  \E j \in 1 .. i - 1 : found[j] = <<found[i][1], k>>
  <2>1. i \in 1 .. size /\ i \in 1 .. m + n /\ found[i] = list[i]
    BY <1>16
  <2>2. PICK j \in 1 .. i - 1 : list[j] = <<list[i][1], k>>
    BY <1>14, <1>18, <2>1
  <2>3. j \in 1 .. size
    BY <1>15, <2>1
  <2> QED BY <1>16, <2>1, <2>2, <2>3
<1>19. \A i \in DOMAIN found : found[i][1] = IF i <= n THEN 2 ELSE 1
  BY <1>13, <1>16
<1> QED BY <1>16, <1>17, <1>18, <1>19

LEMMA NamedTenantsAlwaysLead == NamedTenantsLead
<1>1. ASSUME NEW h \in Graded PROVE IsGraded(h)
  <2>1. PICK n \in 1 .. 2 : h \in [1 .. n -> {1, 4, 12}]
    BY DEF Graded
  <2>2. n \in Nat /\ n # 0 /\ h \in Seq({1, 4, 12}) /\ Len(h) = n
    BY <2>1
  <2>3. h[1] >= h[n]
    BY <2>2 DEF Graded
  <2>4. h # << >> /\ h \in Seq(Nat \ {0})
    BY <2>2
  <2>5. ASSUME NEW i \in 1 .. n, NEW j \in 1 .. n, i < j PROVE h[i] >= h[j]
    <3>1. i = 1 /\ j = n
      BY <2>5
    <3> QED BY <2>3, <3>1
  <2> QED BY <2>2, <2>4, <2>5 DEF IsGraded
<1>2. \A low \in {0, 120, 300} : low \in 0 .. Whole \div 2
  BY DEF Whole
<1>3. \A total \in {0, 1, 3} : total \in Nat
  OBVIOUS
<1> QED BY <1>1, <1>2, <1>3, NamedTenantIsFirstForAll DEF NamedTenantsLead

\* The registry knows each codename once, and no metadata but of what was
\* registered last; last: by codename, the entry registered last.
RegistryIsCurrent(r, last) ==
    /\ r = [tenants |-> r.tenants, configs |-> r.configs, cache |-> r.cache]
    /\ r.tenants \in Seq(Codenames)
    /\ \A i, j \in DOMAIN r.tenants : r.tenants[i] = r.tenants[j] => i = j
    /\ DOMAIN last = Range(r.tenants)
    /\ DOMAIN r.configs = DOMAIN last /\ \A n \in DOMAIN last : r.configs[n] = last[n]
    /\ DOMAIN r.cache \subseteq DOMAIN last
    /\ r.cache = [n \in DOMAIN r.cache |-> Metadata(last[n])]

LEMMA NoTenantsAreCurrent == RegistryIsCurrent(NoTenants, << >>)
<1> DEFINE data == [n \in DOMAIN << >> |-> Metadata(<< >>[n])]
<1>1. DOMAIN << >> = {}
  OBVIOUS
<1>2. data = << >>
  <2>1. data = [n \in 1 .. 0 |-> data[n]] /\ \A n \in 1 .. 0 : data[n] \in {data[n]}
    BY <1>1
  <2>2. data \in Seq({data[n] : n \in 1 .. 0}) /\ Len(data) = 0
    BY <2>1
  <2> HIDE DEF data
  <2> QED BY <2>2
<1> HIDE DEF data
<1>3. /\ NoTenants.tenants = << >> /\ NoTenants.configs = << >> /\ NoTenants.cache = << >>
      /\ NoTenants = [tenants |-> << >>, configs |-> << >>, cache |-> << >>]
  BY DEF NoTenants
<1>4. << >> \in Seq(Codenames) /\ Range(<< >>) = {}
  BY <1>1 DEF Range
<1> QED BY <1>1, <1>2, <1>3, <1>4 DEF RegistryIsCurrent, data

LEMMA RegisterKeepsCurrent ==
    ASSUME NEW r, NEW last, NEW entry \in Entries, RegistryIsCurrent(r, last)
    PROVE  RegistryIsCurrent(Register(r, entry), Put(last, entry.codename, entry))
<1> DEFINE name == entry.codename
           new == Register(r, entry)
           now == Put(last, name, entry)
           known == name \in Range(r.tenants)
           tenants == IF known THEN r.tenants ELSE Append(r.tenants, name)
           configs == Put(r.configs, name, entry)
           cache == Restrict(r.cache, DOMAIN r.cache \ {name})
<1> USE DEF RegistryIsCurrent
<1>1. name \in Codenames
  BY DEF Entries
<1>2. new = [tenants |-> tenants, configs |-> configs, cache |-> cache]
  <2> HIDE DEF tenants, configs, cache
  <2>1. new = [r EXCEPT !.tenants = tenants, !.configs = configs, !.cache = cache]
    BY Zenon DEF Register, tenants, configs, cache
  <2> HIDE DEF new
  <2> QED BY <2>1
<1>3. /\ DOMAIN now = DOMAIN last \cup {name} /\ now[name] = entry
      /\ \A n \in DOMAIN last \ {name} : now[n] = last[n]
  BY DEF Put
<1>4. /\ DOMAIN configs = DOMAIN r.configs \cup {name} /\ configs[name] = entry
      /\ \A n \in DOMAIN r.configs \ {name} : configs[n] = r.configs[n]
  BY DEF Put
<1>5. /\ DOMAIN cache = DOMAIN r.cache \ {name}
      /\ cache = [n \in DOMAIN cache |-> Metadata(now[n])]
  <2>1. cache = [n \in DOMAIN r.cache \ {name} |-> r.cache[n]]
    BY DEF Restrict
  <2>2. \A n \in DOMAIN r.cache \ {name} : r.cache[n] = Metadata(now[n])
    <3>1. \A n \in DOMAIN r.cache : r.cache[n] = Metadata(last[n])
      OBVIOUS
    <3> HIDE DEF now, RegistryIsCurrent
    <3>2. DOMAIN r.cache \subseteq DOMAIN last
      BY DEF RegistryIsCurrent
    <3> QED BY <1>3, <3>1, <3>2
  <2> HIDE DEF cache, now
  <2> QED BY <2>1, <2>2
<1>6. /\ tenants \in Seq(Codenames)
      /\ \A i, j \in DOMAIN tenants : tenants[i] = tenants[j] => i = j
      /\ Range(tenants) = Range(r.tenants) \cup {name}
  <2>1. CASE known
    BY <2>1
  <2>2. CASE ~known
    <3>1. /\ tenants = Append(r.tenants, name) /\ tenants \in Seq(Codenames)
          /\ Len(tenants) = Len(r.tenants) + 1 /\ Len(r.tenants) \in Nat
      BY <1>1, <2>2
    <3>2. /\ tenants[Len(tenants)] = name
          /\ \A i \in 1 .. Len(r.tenants) : tenants[i] = r.tenants[i]
      BY <1>1, <3>1
    <3>3. \A i \in 1 .. Len(r.tenants) : r.tenants[i] # name
      BY <2>2 DEF Range
    <3> HIDE DEF tenants
    <3>4. DOMAIN tenants = 1 .. Len(r.tenants) + 1 /\ DOMAIN r.tenants = 1 .. Len(r.tenants)
      BY <3>1
    <3>5. Range(tenants) = Range(r.tenants) \cup {name}
      BY <3>1, <3>2, <3>4 DEF Range
    <3> QED BY <3>1, <3>2, <3>3, <3>4, <3>5
  <2> QED BY <2>1, <2>2
<1> HIDE DEF tenants, configs, cache, now
<1>7. /\ new.tenants = tenants /\ new.configs = configs /\ new.cache = cache
      /\ new = [tenants |-> new.tenants, configs |-> new.configs, cache |-> new.cache]
  BY <1>2
<1> HIDE DEF new
<1>8. RegistryIsCurrent(new, now)
  BY <1>3, <1>4, <1>5, <1>6, <1>7
<1> QED BY <1>8 DEF new, now

LEMMA DescribedKeepsCurrent ==
    ASSUME NEW r, NEW last, NEW name \in Range(r.tenants), RegistryIsCurrent(r, last)
    PROVE  /\ RegistryIsCurrent(Described(r, name), last)
           /\ Described(r, name).cache[name] = Metadata(last[name])
<1> DEFINE new == Described(r, name)
           cache == Put(r.cache, name, Metadata(r.configs[name]))
<1> USE DEF RegistryIsCurrent
<1>1. CASE name \in DOMAIN r.cache
  <2>1. new = [tenants |-> r.tenants, configs |-> r.configs, cache |-> r.cache]
    BY <1>1 DEF Described
  <2>2. new = r
    BY <2>1
  <2> QED BY <1>1, <2>2
<1>2. CASE name \notin DOMAIN r.cache
  <2>1. new = [tenants |-> r.tenants, configs |-> r.configs, cache |-> cache]
    BY <1>2 DEF Described
  <2>2. /\ DOMAIN cache = DOMAIN r.cache \cup {name} /\ cache[name] = Metadata(last[name])
        /\ cache = [n \in DOMAIN cache |-> Metadata(last[n])]
    <3>1. cache = [n \in DOMAIN r.cache \cup {name} |-> IF n = name THEN Metadata(r.configs[name]) ELSE r.cache[n]]
      BY DEF Put
    <3>2. r.configs[name] = last[name] /\ \A n \in DOMAIN r.cache : r.cache[n] = Metadata(last[n])
      OBVIOUS
    <3> HIDE DEF cache, RegistryIsCurrent
    <3> QED BY <3>1, <3>2
  <2> HIDE DEF cache
  <2>3. new.tenants = r.tenants /\ new.configs = r.configs /\ new.cache = cache
    BY <2>1
  <2> HIDE DEF new
  <2>4. RegistryIsCurrent(new, last)
    BY <2>1, <2>2, <2>3
  <2> QED BY <2>2, <2>3, <2>4 DEF new
<1> QED BY <1>1, <1>2

\* What a registry says of a tenant is made of the entry registered last, however
\* often entries have been registered and tenants described before; it has the
\* tenants that were registered, each once (TenantRegistry).
THEOREM RegistryStaysCurrent ==
    ASSUME NEW VARIABLE r, NEW VARIABLE last
    PROVE  /\ r = NoTenants /\ last = << >>
           /\ [][\/ \E entry \in Entries : /\ r' = Register(r, entry)
                                           /\ last' = Put(last, entry.codename, entry)
                 \/ \E name \in Range(r.tenants) : r' = Described(r, name) /\ last' = last]_<<r, last>>
           => [](/\ DOMAIN last = Range(r.tenants)
                 /\ \A i, j \in DOMAIN r.tenants : r.tenants[i] = r.tenants[j] => i = j
                 /\ \A name \in Range(r.tenants) : Described(r, name).cache[name] = Metadata(last[name]))
<1> DEFINE Registers == \E entry \in Entries : /\ r' = Register(r, entry)
                                               /\ last' = Put(last, entry.codename, entry)
           Describes == \E name \in Range(r.tenants) : r' = Described(r, name) /\ last' = last
           Inv == RegistryIsCurrent(r, last)
           Current == /\ DOMAIN last = Range(r.tenants)
                      /\ \A i, j \in DOMAIN r.tenants : r.tenants[i] = r.tenants[j] => i = j
                      /\ \A name \in Range(r.tenants) : Described(r, name).cache[name] = Metadata(last[name])
<1>1. r = NoTenants /\ last = << >> => Inv
  BY NoTenantsAreCurrent
<1>2. Inv /\ [Registers \/ Describes]_<<r, last>> => Inv'
  BY RegisterKeepsCurrent, DescribedKeepsCurrent
<1>3. Inv => Current
  <2>1. ASSUME Inv, NEW name \in Range(r.tenants) PROVE Described(r, name).cache[name] = Metadata(last[name])
    BY <2>1, DescribedKeepsCurrent
  <2>2. Inv => DOMAIN last = Range(r.tenants) /\ \A i, j \in DOMAIN r.tenants : r.tenants[i] = r.tenants[j] => i = j
    BY DEF RegistryIsCurrent
  <2> HIDE DEF Inv
  <2> QED BY <2>1, <2>2
<1> HIDE DEF Inv, Current, Registers, Describes
<1>4. r = NoTenants /\ last = << >> /\ [][Registers \/ Describes]_<<r, last>> => []Current
  BY <1>1, <1>2, <1>3, PTL
<1> QED BY <1>4, PTL DEF Registers, Describes, Current

\* A tenant's app has a segment only of documents, and what it remembers of
\* them was so when it looked.  early: it has looked before they came.
AppIsHonest(app, early) ==
    /\ app \in [docs : BOOLEAN, present : {"unknown", "yes", "no"}, segment : BOOLEAN, allowed : BOOLEAN]
    /\ app.segment \/ app.present = "yes" => app.docs
    /\ app.present = "no" => early

\* What happens to an app, and whether it looks before there are documents.
AppNext(app, early, newApp, newEarly) ==
    \E event \in EventKinds :
       /\ newApp = Happens(app, event)
       /\ newEarly = (early \/ (event \in {"search", "build"} /\ ~app.docs))

LEMMA AppStaysHonest ==
    ASSUME NEW app, NEW early \in BOOLEAN, NEW event \in EventKinds, AppIsHonest(app, early)
    PROVE  AppIsHonest(Happens(app, event), early \/ (event \in {"search", "build"} /\ ~app.docs))
<1> USE DEF AppIsHonest
<1> DEFINE later == early \/ (event \in {"search", "build"} /\ ~app.docs)
<1>1. CASE event = "arrive"
  <2>1. Happens(app, event) = [app EXCEPT !.docs = TRUE]
    BY <1>1 DEF Happens
  <2> QED BY <2>1
<1>2. CASE event = "publish"
  <2>1. Happens(app, event) = [app EXCEPT !.segment = @ \/ app.docs]
    BY <1>2 DEF Happens
  <2> QED BY <2>1
<1>3. Looked(app) \in [docs : BOOLEAN, present : {"yes", "no"}, segment : BOOLEAN, allowed : BOOLEAN]
  BY DEF Looked
<1>4. /\ Looked(app).docs = app.docs /\ Looked(app).segment = app.segment
      /\ Looked(app).present = IF HasDocs(app) THEN "yes" ELSE "no"
      /\ HasDocs(app) => app.docs
      /\ app.docs /\ ~HasDocs(app) => early
  BY DEF Looked, HasDocs
<1>5. ~app.docs /\ event \in {"search", "build"} => later
  OBVIOUS
<1>6. event \in {"search", "build"} => AppIsHonest(Looked(app), later)
  BY <1>3, <1>4, <1>5
<1>7. event \in {"search", "build"} /\ HasDocs(app) => AppIsHonest(Ensured(Looked(app)), later)
  BY <1>3, <1>4, <1>6 DEF Ensured
<1>8. AppIsHonest(app, later)
  OBVIOUS
<1> HIDE DEF AppIsHonest, later
<1>9. CASE event = "search"
  <2>1. Happens(app, event) = Searched(app)
    BY <1>9 DEF Happens
  <2>2. Searched(app) = app \/ (HasDocs(app) /\ Searched(app) = Ensured(Looked(app))) \/ Searched(app) = Looked(app)
    BY DEF Searched
  <2> QED BY <1>6, <1>7, <1>8, <1>9, <2>1, <2>2 DEF later
<1>10. CASE event = "build"
  <2>1. Happens(app, event) = Rebuilt(app)
    BY <1>10 DEF Happens
  <2>2. Rebuilt(app) = app \/ (HasDocs(app) /\ Rebuilt(app) = Ensured(Looked(app))) \/ Rebuilt(app) = Looked(app)
    BY DEF Rebuilt
  <2> QED BY <1>6, <1>7, <1>8, <1>10, <2>1, <2>2 DEF later
<1> QED BY <1>1, <1>2, <1>9, <1>10 DEF EventKinds

\* What is known of an honest app when it is asked.
LEMMA HonestAppExplains ==
    ASSUME NEW app, NEW early \in BOOLEAN, AppIsHonest(app, early)
    PROVE  /\ app.docs /\ Answer(app) = "empty" => early
           /\ app.docs /\ app.allowed /\ ~early => Answer(app) = "hits"
           /\ ~app.docs => Answer(app) = "empty"
<1> USE DEF AppIsHonest
<1>1. Looked(app) \in [docs : BOOLEAN, present : {"yes", "no"}, segment : BOOLEAN, allowed : BOOLEAN]
  BY DEF Looked
<1>2. /\ Looked(app).docs = app.docs /\ Looked(app).segment = app.segment
      /\ Looked(app).allowed = app.allowed
      /\ Looked(app).present = IF HasDocs(app) THEN "yes" ELSE "no"
  BY DEF Looked
<1>3. CASE app.segment
  BY <1>3 DEF Answer, Searched
<1>4. CASE ~app.segment /\ ~HasDocs(app)
  <2>1. Searched(app) = Looked(app)
    BY <1>4 DEF Searched
  <2>2. Answer(app) = "empty"
    BY <1>2, <1>4, <2>1 DEF Answer
  <2> QED BY <1>4, <2>2 DEF HasDocs
<1>5. CASE ~app.segment /\ HasDocs(app)
  <2>1. Searched(app) = Ensured(Looked(app)) /\ app.docs
    BY <1>5 DEF Searched, HasDocs
  <2>2. CASE app.allowed
    <3>1. Ensured(Looked(app)).segment
      BY <1>1, <1>2, <2>1, <2>2 DEF Ensured
    <3> QED BY <2>1, <3>1 DEF Answer
  <2>3. CASE ~app.allowed
    <3>1. Ensured(Looked(app)) = Looked(app)
      BY <1>2, <2>3 DEF Ensured
    <3>2. Answer(app) = "error"
      BY <1>2, <1>5, <2>1, <3>1 DEF Answer
    <3> QED BY <2>1, <2>3, <3>2
  <2> QED BY <2>2, <2>3
<1> QED BY <1>3, <1>4, <1>5

\* However long an app has lived, a search that finds nothing and says nothing
\* of an error, though there are documents, comes after one search or build too
\* early; otherwise one that may build has hits (TenantApp.search, _has_docs).
THEOREM EmptyMeansTooEarly ==
    ASSUME NEW allowed \in BOOLEAN, NEW VARIABLE app, NEW VARIABLE early
    PROVE  /\ app = NewApp(allowed) /\ early = FALSE
           /\ [][AppNext(app, early, app', early')]_<<app, early>>
           => [](/\ app.docs /\ Answer(app) = "empty" => early
                 /\ app.docs /\ app.allowed /\ ~early => Answer(app) = "hits"
                 /\ ~app.docs => Answer(app) = "empty")
<1> DEFINE Inv == AppIsHonest(app, early) /\ early \in BOOLEAN
           Explained == /\ app.docs /\ Answer(app) = "empty" => early
                        /\ app.docs /\ app.allowed /\ ~early => Answer(app) = "hits"
                        /\ ~app.docs => Answer(app) = "empty"
<1>1. app = NewApp(allowed) /\ early = FALSE => Inv
  <2> DEFINE new == NewApp(allowed)
  <2>1. /\ new \in [docs : BOOLEAN, present : {"unknown", "yes", "no"}, segment : BOOLEAN, allowed : BOOLEAN]
        /\ new.docs = FALSE /\ new.present = "unknown" /\ new.segment = FALSE
    BY DEF NewApp
  <2> HIDE DEF new
  <2>2. AppIsHonest(new, FALSE)
    BY <2>1 DEF AppIsHonest
  <2> QED BY <2>2 DEF new
<1>2. Inv /\ [AppNext(app, early, app', early')]_<<app, early>> => Inv'
  <2>1. ASSUME Inv, NEW event \in EventKinds, app' = Happens(app, event),
               early' = (early \/ (event \in {"search", "build"} /\ ~app.docs))
        PROVE  Inv'
    BY <2>1, AppStaysHonest
  <2>2. ASSUME Inv, UNCHANGED <<app, early>> PROVE Inv'
    BY <2>2
  <2> QED BY <2>1, <2>2 DEF AppNext
<1>3. Inv => Explained
  BY HonestAppExplains
<1> HIDE DEF Inv, Explained
<1>4. app = NewApp(allowed) /\ early = FALSE /\ [][AppNext(app, early, app', early')]_<<app, early>> => []Explained
  BY <1>1, <1>2, <1>3, PTL
<1> QED BY <1>4, PTL DEF Explained

\* A file of a directory that has moved is found at its place below the new
\* one, whatever lies above it and however deep, if no part of its path below
\* the tenant's directory is named like the tenant (_fetch_local_file).
THEOREM MovedFilesAreFound ==
    ASSUME NEW Names, NEW codename \in Names, NEW above \in Seq(Names), NEW below \in Seq(Names),
           below # << >>, \A i \in DOMAIN below : below[i] # codename, NEW present, NEW moved,
           above \o <<codename>> \o below \notin present
    PROVE  FetchLocal(above \o <<codename>> \o below, present, moved, codename)
               = IF below \in moved THEN <<"moved", below>> ELSE << >>
<1> DEFINE path == above \o <<codename>> \o below
           place == Len(above) + 1
           named == {i \in DOMAIN path : path[i] = codename}
<1>1. /\ path \in Seq(Names) /\ Len(path) = place + Len(below) /\ Len(above) \in Nat /\ Len(below) \in Nat
      /\ path[place] = codename
      /\ \A i \in 1 .. Len(below) : path[place + i] = below[i]
  OBVIOUS
<1>2. place \in named
  BY <1>1
<1>3. \A i \in named : i <= place /\ i \in Nat
  <2> SUFFICES ASSUME NEW i \in named, i > place PROVE FALSE
    BY <1>1
  <2>1. i - place \in 1 .. Len(below) /\ place + (i - place) = i
    BY <1>1
  <2> QED BY <1>1, <2>1
<1> HIDE DEF path, named, place
<1>4. place \in Nat
  BY <1>1 DEF place
<1>5. Max(named) = place
  <2>1. \A j \in named : place >= j
    BY <1>3, <1>4
  <2>2. \A i \in named : (\A j \in named : i >= j) => i = place
    BY <1>2, <1>3, <1>4
  <2> QED BY <1>2, <2>1, <2>2 DEF Max
<1>6. SubSeq(path, place + 1, Len(path)) = below
  <2> DEFINE rest == SubSeq(path, place + 1, Len(path))
  <2>1. rest \in Seq(Names) /\ Len(rest) = Len(below)
    BY <1>1, <1>4
  <2>2. \A i \in 1 .. Len(below) : rest[i] = below[i]
    BY <1>1, <1>4
  <2>3. rest = [i \in 1 .. Len(rest) |-> rest[i]] /\ below = [i \in 1 .. Len(below) |-> below[i]]
    BY <2>1
  <2> HIDE DEF rest
  <2> QED BY <2>1, <2>2, <2>3 DEF rest
<1>7. FetchLocal(path, present, moved, codename) = IF below \in moved THEN <<"moved", below>> ELSE << >>
  BY <1>2, <1>5, <1>6 DEF FetchLocal, named, path
<1> QED BY <1>7 DEF path

-----------------------------------------------------------------------------
\* What the client finds in a segment, for a query that no slash divides, the
\* server finds too, whatever the documents.
THEOREM ServerFindsMoreForAll ==
    ASSUME NEW corpus, NEW query, IsText(query), ~query.slashes
    PROVE  CliFound(corpus, query) \subseteq Found(corpus, query)
<1>1. ASSUME NEW d \in CliFound(corpus, query) PROVE d \in Found(corpus, query)
  <2>1. PICK field \in DOMAIN TextFields :
                d \in DOMAIN corpus
                /\ Range(Standard(query)) \cap Range(Analyze(field, corpus[d][field])) # {}
    BY <1>1 DEF CliFound
  <2>2. Analyze(field, query) = Standard(query)
    BY DEF Analyze, Path
  <2> QED BY <2>1, <2>2, FieldIsSearched
<1> QED BY <1>1

LEMMA ServerAlwaysFindsMore == ServerFindsMore
  BY ServerFindsMoreForAll, TextsAreTexts DEF ServerFindsMore

-----------------------------------------------------------------------------
\* What the client shows.
\* The age of an index of any number of documents.
THEOREM AgeIsShownForAll ==
    ASSUME NEW source, NEW database \in [synced : BOOLEAN, revision : BOOLEAN],
           NEW legacy \in [synced : BOOLEAN, revision : BOOLEAN],
           NEW D, D # {}, NEW infos \in [D -> [fetched : BOOLEAN, indexed : BOOLEAN]]
    PROVE  AgeIsShownFor(source, database, legacy, infos)
<1> DEFINE git == GitEvidence(database, legacy)
           synced == source = "git" /\ (database.synced \/ legacy.synced)
           dated == {i \in D : infos[i].fetched \/ infos[i].indexed}
           dates == [i \in DOMAIN infos |-> Evidence(infos[i])]
           age == Provenance(source, infos, git)
<1>1. {i \in DOMAIN infos : dates[i] # "none"} = dated
  <2>1. DOMAIN infos = D /\ \A i \in D : dates[i] # "none" <=> (infos[i].fetched \/ infos[i].indexed)
    BY DEF Evidence
  <2> QED BY <2>1
<1>2. source = "git" /\ git.synced <=> synced
  BY DEF GitEvidence
<1>3. /\ age.state = IF synced THEN "known" ELSE IF dated = {} THEN "unknown" ELSE IF dated = D THEN "known" ELSE "partial"
      /\ age.dated = IF synced THEN TRUE ELSE dated # {}
      /\ age.revision = IF synced THEN git.revision ELSE FALSE
  <2> HIDE DEF synced, dated, git
  <2>1. DOMAIN infos = D
    OBVIOUS
  <2> QED BY <1>1, <1>2, <2>1 DEF Provenance
<1> HIDE DEF age
<1>4. AgeIsShownFor(source, database, legacy, infos)
         <=> LET shown == Freshness([names |-> "file", state |-> IF age.state = "unknown" THEN "odd" ELSE age.state,
                                     dated |-> age.dated, summary |-> FALSE])[1]
             IN  /\ shown = "known" <=> dated = D \/ synced
                 /\ shown = "unknown" <=> dated = {} /\ ~synced
                 /\ age.revision => synced
  <2>1. DOMAIN infos = D
    OBVIOUS
  <2> QED BY <2>1 DEF AgeIsShownFor, age
<1> HIDE DEF synced, dated
<1> QED BY <1>3, <1>4 DEF Freshness

LEMMA AgeIsAlwaysShown == AgeIsShown
<1>1. ASSUME NEW n \in 1 .. 3 PROVE 1 .. n # {}
  OBVIOUS
<1> QED BY <1>1, AgeIsShownForAll DEF AgeIsShown

\* Of any URLs, a document is found at its own, and at no URL another's if not
\* one is like it but for case and slash (src/cli/internal/engine).
THEOREM DocumentIsReachedForAll == ASSUME NEW urls, NEW uri PROVE DocumentIsReached(urls, uri)
<1> DEFINE like == {url \in urls : Loosely(url) = Loosely(uri)}
<1>1. uri \in urls => like # {}
  OBVIOUS
<1>2. DocumentByURL(urls, uri) = IF uri \in urls THEN {uri} ELSE IF like = {} THEN {} ELSE {CHOOSE url \in like : TRUE}
  BY DEF DocumentByURL
<1>3. like = {} <=> \A url \in urls : Loosely(url) # Loosely(uri)
  OBVIOUS
<1> HIDE DEF like
<1> QED BY <1>1, <1>2, <1>3 DEF DocumentIsReached

LEMMA DocumentsAreAlwaysReached == DocumentsAreReached
  BY DocumentIsReachedForAll DEF DocumentsAreReached

\* What a text holds, letter by letter.
IsAt(s, t, i) == i \in 0 .. Len(t) - Len(s) /\ \A j \in 1 .. Len(s) : t[i + j] = s[j]

LEMMA WithinIsAt ==
    ASSUME NEW V, NEW s, NEW t, s \in Seq(V), t \in Seq(V), NEW i, IsAt(s, t, i)
    PROVE  IsWithin(s, t)
<1> DEFINE n == Len(s)
           part == SubSeq(t, i + 1, i + n)
<1>1. n \in Nat /\ Len(t) \in Nat /\ i \in 0 .. Len(t) - n /\ \A j \in 1 .. n : t[i + j] = s[j]
  BY DEF IsAt
<1>2. \A j \in 1 .. n : s[j] \in V
  OBVIOUS
<1> HIDE DEF n
<1>3. part \in Seq(V) /\ Len(part) = n /\ \A j \in 1 .. n : part[j] = t[i + j]
  <2>1. i + 1 \in Int /\ i + n \in Int /\ (i + n) - (i + 1) + 1 = n
    BY <1>1
  <2>2. \A k \in i + 1 .. i + n : t[k] \in V
    <3>1. \A k \in i + 1 .. i + n : k \in 1 .. Len(t)
      BY <1>1
    <3>2. \A k \in 1 .. Len(t) : t[k] \in V
      OBVIOUS
    <3> QED BY <3>1, <3>2
  <2>3. /\ part \in Seq(V)
        /\ Len(part) = IF i + 1 <= i + n THEN (i + n) - (i + 1) + 1 ELSE 0
        /\ \A j \in 1 .. (i + n) - (i + 1) + 1 : part[j] = t[(i + 1) + j - 1]
    BY <2>1, <2>2, SubSeqProperties
  <2> HIDE DEF part
  <2>4. \A j \in 1 .. n : (i + 1) + j - 1 = i + j
    BY <1>1
  <2>5. Len(part) = n
    BY <1>1, <2>1, <2>3
  <2> QED BY <2>1, <2>3, <2>4, <2>5
<1> HIDE DEF part
<1>6. part = s
  <2>1. Len(s) = n /\ \A j \in 1 .. n : part[j] = s[j]
    BY <1>1, <1>3 DEF n
  <2> QED BY <1>3, <2>1, SeqEqual
<1> QED BY <1>1, <1>6 DEF IsWithin, part, n

LEMMA IsAtWithin ==
    ASSUME NEW V, NEW s, NEW t, s \in Seq(V), t \in Seq(V), IsWithin(s, t)
    PROVE  \E i : IsAt(s, t, i)
<1> DEFINE n == Len(s)
<1>1. PICK i \in 0 .. Len(t) - n : SubSeq(t, i + 1, i + n) = s
  BY DEF IsWithin
<1>2. n \in Nat /\ Len(t) \in Nat /\ i \in Nat /\ i + n <= Len(t)
  OBVIOUS
<1>3. ASSUME NEW j \in 1 .. n PROVE t[i + j] = s[j]
  <2> HIDE DEF n
  <2>1. SubSeq(t, i + 1, i + n)[j] = t[(i + 1) + j - 1]
    <3>1. i + 1 \in Int /\ i + n \in Int /\ j \in 1 .. (i + n) - (i + 1) + 1
      BY <1>2
    <3>2. \A k \in i + 1 .. i + n : t[k] \in V
      <4>1. \A k \in i + 1 .. i + n : k \in 1 .. Len(t)
        BY <1>2
      <4>2. \A k \in 1 .. Len(t) : t[k] \in V
        OBVIOUS
      <4> QED BY <4>1, <4>2
    <3> QED BY <3>1, <3>2, SubSeqProperties
  <2>2. (i + 1) + j - 1 = i + j
    BY <1>2
  <2> QED BY <1>1, <2>1, <2>2
<1> QED BY <1>1, <1>3 DEF IsAt

LEMMA WithinItself == ASSUME NEW V, NEW s, s \in Seq(V) PROVE IsWithin(s, s)
<1>1. IsAt(s, s, 0)
  BY DEF IsAt
<1> QED BY <1>1, WithinIsAt

\* What is within a beginning or an end is within the whole.
Are(s, t, u, w, V) == s \in Seq(V) /\ t \in Seq(V) /\ u \in Seq(V) /\ w = t \o u

LEMMA WithinMore ==
    ASSUME NEW V, NEW s, NEW t, NEW u, NEW w, Are(s, t, u, w, V)
    PROVE  /\ w \in Seq(V)
           /\ IsWithin(s, t) => IsWithin(s, w)
           /\ IsWithin(s, u) => IsWithin(s, w)
<1>1. /\ s \in Seq(V) /\ t \in Seq(V) /\ u \in Seq(V) /\ w \in Seq(V) /\ Len(w) = Len(t) + Len(u)
      /\ \A i \in 1 .. Len(t) + Len(u) : w[i] = IF i <= Len(t) THEN t[i] ELSE u[i - Len(t)]
  BY ConcatProperties DEF Are
<1>2. Len(s) \in Nat /\ Len(t) \in Nat /\ Len(u) \in Nat
  BY <1>1
<1>3. ASSUME IsWithin(s, t) PROVE IsWithin(s, w)
  <2>1. PICK i : IsAt(s, t, i)
    BY <1>1, <1>3, IsAtWithin
  <2>2. IsAt(s, w, i)
    <3>1. i \in 0 .. Len(w) - Len(s)
      BY <1>1, <1>2, <2>1 DEF IsAt
    <3>2. ASSUME NEW j \in 1 .. Len(s) PROVE w[i + j] = s[j]
      <4>1. i + j \in 1 .. Len(t) + Len(u) /\ i + j <= Len(t) /\ t[i + j] = s[j]
        BY <1>2, <2>1 DEF IsAt
      <4> QED BY <1>1, <4>1
    <3> QED BY <3>1, <3>2 DEF IsAt
  <2> QED BY <1>1, <2>2, WithinIsAt
<1>4. ASSUME IsWithin(s, u) PROVE IsWithin(s, w)
  <2>1. PICK i : IsAt(s, u, i)
    BY <1>1, <1>4, IsAtWithin
  <2>2. IsAt(s, w, Len(t) + i)
    <3>1. Len(t) + i \in 0 .. Len(w) - Len(s) /\ i \in Nat
      BY <1>1, <1>2, <2>1 DEF IsAt
    <3>2. ASSUME NEW j \in 1 .. Len(s) PROVE w[(Len(t) + i) + j] = s[j]
      <4>1. i + j \in 1 .. Len(u) /\ u[i + j] = s[j]
        BY <1>2, <2>1 DEF IsAt
      <4>2. /\ (Len(t) + i) + j \in 1 .. Len(t) + Len(u) /\ ~((Len(t) + i) + j <= Len(t))
            /\ ((Len(t) + i) + j) - Len(t) = i + j
        BY <1>2, <3>1, <4>1
      <4> QED BY <1>1, <4>1, <4>2
    <3> QED BY <3>1, <3>2 DEF IsAt
  <2> QED BY <1>1, <2>2, WithinIsAt
<1> QED BY <1>1, <1>3, <1>4

\* A hyphen joins two words that end and begin as two others do.
AreJoints(V, mark, a, b, x, y, s, t) ==
    /\ a \in Seq(V) /\ b \in Seq(V) /\ x \in Seq(V) /\ y \in Seq(V) /\ mark \in V
    /\ IsSuffix(a, x) /\ IsPrefix(b, y)
    /\ s = a \o (<<mark>> \o b) /\ t = x \o (<<mark>> \o y)

LEMMA WithinJoint ==
    ASSUME NEW V, NEW mark, NEW a, NEW b, NEW x, NEW y, NEW s, NEW t, AreJoints(V, mark, a, b, x, y, s, t)
    PROVE  s \in Seq(V) /\ t \in Seq(V) /\ IsWithin(s, t)
<1>0. /\ a \in Seq(V) /\ b \in Seq(V) /\ x \in Seq(V) /\ y \in Seq(V) /\ mark \in V
      /\ IsSuffix(a, x) /\ IsPrefix(b, y)
      /\ s = a \o (<<mark>> \o b) /\ t = x \o (<<mark>> \o y)
  BY DEF AreJoints
<1> DEFINE m == Len(a)
           n == Len(b)
           p == Len(x)
           q == Len(y)
<1>1. m \in Nat /\ n \in Nat /\ p \in Nat /\ q \in Nat
  BY <1>0
<1>2. s \in Seq(V) /\ Len(s) = m + 1 + n
      /\ (\A i \in 1 .. m : s[i] = a[i]) /\ s[m + 1] = mark /\ \A i \in 1 .. n : s[m + 1 + i] = b[i]
  BY <1>0
<1>3. t \in Seq(V) /\ Len(t) = p + 1 + q
      /\ (\A i \in 1 .. p : t[i] = x[i]) /\ t[p + 1] = mark /\ \A i \in 1 .. q : t[p + 1 + i] = y[i]
  BY <1>0
<1>4. n <= q /\ \A i \in 1 .. n : b[i] = y[i]
  <2>1. Len(b) <= Len(y) /\ SubSeq(b, 1, Len(b)) = SubSeq(y, 1, Len(b))
    BY <1>0 DEF IsPrefix
  <2>2. \A i \in 1 .. n : SubSeq(b, 1, n)[i] = b[i] /\ SubSeq(y, 1, n)[i] = y[i]
    BY <1>0, <2>1
  <2> QED BY <2>1, <2>2
<1>5. m <= p /\ \A i \in 1 .. m : a[(m - i) + 1] = x[(p - i) + 1]
  <2> DEFINE c == Reverse(a)
             d == Reverse(x)
  <2>1. Len(c) = m /\ c \in Seq(V) /\ \A i \in 1 .. m : c[i] = a[(m - i) + 1]
    BY <1>0 DEF Reverse
  <2>2. Len(d) = p /\ d \in Seq(V) /\ \A i \in 1 .. p : d[i] = x[(p - i) + 1]
    BY <1>0 DEF Reverse
  <2>3. Len(c) <= Len(d) /\ SubSeq(c, 1, Len(c)) = SubSeq(d, 1, Len(c))
    BY <1>0 DEF IsSuffix, IsPrefix
  <2> HIDE DEF c, d
  <2>4. \A i \in 1 .. m : SubSeq(c, 1, m)[i] = c[i] /\ SubSeq(d, 1, m)[i] = d[i]
    BY <2>1, <2>2, <2>3
  <2> HIDE DEF m, p
  <2> QED BY <1>1, <2>1, <2>2, <2>3, <2>4
<1> HIDE DEF m, n, p, q
<1>6. \A i \in 1 .. m : a[i] = x[(p - m) + i]
  <2> SUFFICES ASSUME NEW i \in 1 .. m PROVE a[i] = x[(p - m) + i]
    OBVIOUS
  <2> DEFINE j == (m - i) + 1
  <2>1. j \in 1 .. m /\ (m - j) + 1 = i /\ (p - j) + 1 = (p - m) + i
    BY <1>1
  <2> HIDE DEF j
  <2> QED BY <1>5, <2>1
<1>7. IsAt(s, t, p - m)
  <2>1. p - m \in 0 .. Len(t) - Len(s)
    BY <1>1, <1>2, <1>3, <1>4, <1>5
  <2>2. ASSUME NEW j \in 1 .. Len(s) PROVE t[(p - m) + j] = s[j]
    <3>1. j \in 1 .. m \/ j = m + 1 \/ \E i \in 1 .. n : j = m + 1 + i
      <4>1. j > m + 1 => j - (m + 1) \in 1 .. n /\ j = m + 1 + (j - (m + 1))
        BY <1>1, <1>2
      <4> QED BY <1>1, <1>2, <4>1
    <3>2. CASE j \in 1 .. m
      <4>1. (p - m) + j \in 1 .. p
        BY <1>1, <1>5, <3>2
      <4> QED BY <1>2, <1>3, <1>6, <3>2, <4>1
    <3>3. CASE j = m + 1
      <4>1. (p - m) + j = p + 1
        BY <1>1, <3>3
      <4> QED BY <1>2, <1>3, <3>3, <4>1
    <3>4. ASSUME NEW i \in 1 .. n, j = m + 1 + i PROVE t[(p - m) + j] = s[j]
      <4>1. (p - m) + j = p + 1 + i /\ i \in 1 .. q
        BY <1>1, <1>4, <3>4
      <4> QED BY <1>2, <1>3, <1>4, <3>4, <4>1
    <3> QED BY <3>1, <3>2, <3>3, <3>4
  <2> QED BY <2>1, <2>2 DEF IsAt
<1> QED BY <1>2, <1>3, <1>7, WithinIsAt

\* What is within what is within.
LEMMA WithinTwice ==
    ASSUME NEW V, NEW s, NEW t, NEW u, s \in Seq(V), t \in Seq(V), u \in Seq(V), IsWithin(s, t), IsWithin(t, u)
    PROVE  IsWithin(s, u)
<1>1. PICK i : IsAt(s, t, i)
  BY IsAtWithin
<1>2. PICK j : IsAt(t, u, j)
  BY IsAtWithin
<1>3. Len(s) \in Nat /\ Len(t) \in Nat /\ Len(u) \in Nat
  OBVIOUS
<1>4. /\ i \in 0 .. Len(t) - Len(s) /\ \A k \in 1 .. Len(s) : t[i + k] = s[k]
      /\ j \in 0 .. Len(u) - Len(t) /\ \A k \in 1 .. Len(t) : u[j + k] = t[k]
  BY <1>1, <1>2 DEF IsAt
<1>5. IsAt(s, u, j + i)
  <2>1. j + i \in 0 .. Len(u) - Len(s)
    BY <1>3, <1>4
  <2>2. ASSUME NEW k \in 1 .. Len(s) PROVE u[(j + i) + k] = s[k]
    <3>1. i + k \in 1 .. Len(t) /\ (j + i) + k = j + (i + k)
      BY <1>3, <1>4
    <3> QED BY <1>4, <3>1
  <2> QED BY <2>1, <2>2 DEF IsAt
<1> QED BY <1>5, WithinIsAt

\* A sequence of sequences, one after the other, is made from the beginning.
AreFlattened(f, seqs) ==
    f = [i \in 1 .. Len(seqs) |-> IF i = 1 THEN seqs[i] ELSE f[i - 1] \o seqs[i]]

LEMMA FlattenIs ==
    ASSUME NEW V, NEW seqs, seqs \in Seq(Seq(V)), seqs # << >>
    PROVE  \E f : /\ f \in [1 .. Len(seqs) -> Seq(V)] /\ f[1] = seqs[1]
                  /\ \A k \in 2 .. Len(seqs) : f[k] = f[k - 1] \o seqs[k]
                  /\ FlattenSeq(seqs) = f[Len(seqs)]
<1> DEFINE n == Len(seqs)
           B == Seq(V)
           H == [p \in B \X (1 .. n) |-> p[1] \o seqs[p[2]]]
           flatten == CHOOSE f : AreFlattened(f, seqs)
<1>1. n \in Nat /\ n >= 1 /\ \A i \in 1 .. n : seqs[i] \in Seq(V)
  OBVIOUS
<1>2. H \in [B \X (1 .. n) -> B]
  <2>1. ASSUME NEW p \in B \X (1 .. n) PROVE p[1] \o seqs[p[2]] \in B
    <3>1. p[1] \in Seq(V) /\ seqs[p[2]] \in Seq(V)
      BY <1>1
    <3> QED BY <3>1, ConcatProperties
  <2> QED BY <2>1
<1>3. PICK g : g \in [0 .. n -> B] /\ g[0] = << >> /\ \A k \in 1 .. n : g[k] = H[<<g[k - 1], k>>]
  <2> HIDE DEF H
  <2>1. << >> \in B
    OBVIOUS
  <2> HIDE DEF B
  <2>2. PICK f : IsChain(f, n, B, << >>, H)
    BY <1>1, <1>2, <2>1, RecursionExists
  <2> QED BY <2>2 DEF IsChain
<1>4. ASSUME NEW k \in 1 .. n PROVE g[k] = g[k - 1] \o seqs[k] /\ g[k] \in Seq(V)
  <2>1. k \in 0 .. n /\ k - 1 \in 0 .. n
    BY <1>1
  <2>2. <<g[k - 1], k>> \in B \X (1 .. n)
    BY <1>3, <2>1
  <2> QED BY <1>3, <2>1, <2>2
<1>5. g[1] = seqs[1]
  <2>1. 1 \in 1 .. n /\ 1 - 1 = 0
    BY <1>1
  <2>2. g[1] = g[1 - 1] \o seqs[1] /\ seqs[1] \in Seq(V)
    <3> HIDE DEF n, H, B
    <3>1. g[1] = g[1 - 1] \o seqs[1]
      BY <1>4, <2>1
    <3> QED BY <1>1, <2>1, <3>1
  <2>3. g[1] = << >> \o seqs[1]
    <3> HIDE DEF n, H, B
    <3> QED BY <1>3, <2>1, <2>2
  <2> QED BY <2>2, <2>3, ConcatEmptySeq
<1> DEFINE f == [k \in 1 .. n |-> g[k]]
<1>6. AreFlattened(f, seqs)
  <2>1. ASSUME NEW k \in 1 .. n PROVE g[k] = IF k = 1 THEN seqs[k] ELSE f[k - 1] \o seqs[k]
    <3>1. CASE k = 1
      BY <1>5, <3>1
    <3>2. CASE k # 1
      <4>1. k - 1 \in 1 .. n
        BY <1>1, <3>2
      <4>2. f[k - 1] = g[k - 1]
        BY <4>1
      <4> QED BY <1>4, <3>2, <4>2
    <3> QED BY <3>1, <3>2
  <2>2. f = [k \in 1 .. n |-> IF k = 1 THEN seqs[k] ELSE f[k - 1] \o seqs[k]]
    BY <2>1
  <2> QED BY <2>2 DEF AreFlattened
<1>7. AreFlattened(flatten, seqs)
  <2> HIDE DEF f
  <2> QED BY <1>6
<1>8. FlattenSeq(seqs) = flatten[n]
  <2>1. Len(seqs) # 0
    BY <1>1
  <2> QED BY <2>1 DEF FlattenSeq, AreFlattened
<1> HIDE DEF flatten, H, f
<1>9. \A k \in 1 .. n : flatten[k] = IF k = 1 THEN seqs[k] ELSE flatten[k - 1] \o seqs[k]
  BY <1>7 DEF AreFlattened
<1> DEFINE S == {k \in 0 .. n : k # 0 => flatten[k] \in Seq(V)}
<1>10. 0 .. n \subseteq S
  <2>1. 0 \in S
    BY <1>1
  <2>2. ASSUME NEW k \in 0 .. n - 1, k \in S PROVE k + 1 \in S
    <3>1. k + 1 \in 1 .. n /\ (k + 1) - 1 = k /\ k + 1 \in 0 .. n
      BY <1>1
    <3>2. flatten[k + 1] = IF k + 1 = 1 THEN seqs[k + 1] ELSE flatten[k] \o seqs[k + 1]
      <4> HIDE DEF n
      <4> QED BY <1>9, <3>1
    <3>3. seqs[k + 1] \in Seq(V)
      BY <1>1, <3>1
    <3>4. CASE k = 0
      <4>1. flatten[k + 1] \in Seq(V)
        BY <3>2, <3>3, <3>4
      <4> QED BY <3>1, <4>1
    <3>5. CASE k # 0
      <4>1. flatten[k] \in Seq(V)
        BY <2>2, <3>5
      <4>2. flatten[k] \o seqs[k + 1] \in Seq(V)
        BY <3>3, <4>1, ConcatProperties
      <4>3. k + 1 # 1
        BY <3>5
      <4> QED BY <3>1, <3>2, <4>2, <4>3
    <3> QED BY <3>4, <3>5
  <2> HIDE DEF S
  <2> QED BY <1>1, <2>1, <2>2, UpTo
<1>11. \A k \in 1 .. n : flatten[k] \in Seq(V)
  BY <1>10
<1>12. flatten[1] = seqs[1] /\ \A k \in 2 .. n : flatten[k] = flatten[k - 1] \o seqs[k]
  <2> HIDE DEF n
  <2>1. 1 \in 1 .. n /\ \A k \in 2 .. n : k \in 1 .. n /\ k # 1
    BY <1>1
  <2>2. \A k \in 1 .. n : k # 1 => flatten[k] = flatten[k - 1] \o seqs[k]
    BY <1>9
  <2>3. flatten[1] = seqs[1]
    BY <1>9, <2>1
  <2> QED BY <2>1, <2>2, <2>3
<1>13. flatten \in [1 .. n -> Seq(V)]
  <2>1. DOMAIN flatten = 1 .. n /\ flatten = [k \in 1 .. n |-> flatten[k]]
    BY <1>7 DEF AreFlattened
  <2> QED BY <1>11, <2>1
<1> QED BY <1>8, <1>12, <1>13

\* The parts of a text that are terms of a query.
LEMMA SharesOfParts ==
    ASSUME NEW n \in Nat, NEW S \in SUBSET (1 .. n)
    PROVE  /\ IsFiniteSet(S) /\ Cardinality(S) \in 0 .. n
           /\ Cardinality(S) = n <=> S = 1 .. n
           /\ Cardinality(S) = 0 <=> S = {}
<1>1. IsFiniteSet(1 .. n) /\ Cardinality(1 .. n) = n
  <2>1. IsFiniteSet(1 .. n) /\ Cardinality(1 .. n) = IF 1 > n THEN 0 ELSE n - 1 + 1
    BY FS_Interval
  <2> QED BY <2>1
<1>2. IsFiniteSet(S) /\ Cardinality(S) <= n /\ (Cardinality(S) = n => S = 1 .. n)
  <2>1. IsFiniteSet(S) /\ Cardinality(S) <= Cardinality(1 .. n)
        /\ (Cardinality(1 .. n) = Cardinality(S) => 1 .. n = S)
    BY <1>1, FS_Subset
  <2> QED BY <1>1, <2>1
<1>3. Cardinality(S) \in Nat
  BY <1>2, FS_CardinalityType
<1>4. Cardinality(S) = 0 <=> S = {}
  BY <1>2, FS_EmptySet
<1> QED BY <1>1, <1>2, <1>3, <1>4

LEMMA ShareOf ==
    ASSUME NEW w \in Nat, NEW x \in Nat, NEW k \in Nat \ {0}, x <= k
    PROVE  (w * x) \div k \in Nat /\ (w * x) \div k <= w
<1> DEFINE y == w * x
<1>1. y \in Nat /\ y <= w * k
  OBVIOUS
<1> HIDE DEF y
<1>2. y \div k \in Nat /\ y \div k <= w
  BY <1>1, ShareIsBounded
<1> QED BY <1>2 DEF y

LEMMA PartsMatched ==
    ASSUME NEW W, NEW parts \in Seq(W), NEW query
    PROVE  /\ Matched(parts, query) \in 0 .. Len(parts)
           /\ Matched(parts, query) = Len(parts) <=> \A i \in DOMAIN parts : <<parts[i]>> \in Range(query)
           /\ Matched(parts, query) = 0 <=> \A i \in DOMAIN parts : <<parts[i]>> \notin Range(query)
<1> DEFINE n == Len(parts)
           S == {i \in DOMAIN parts : <<parts[i]>> \in Range(query)}
<1>1. n \in Nat /\ DOMAIN parts = 1 .. n
  OBVIOUS
<1>2. S \in SUBSET (1 .. n)
  BY <1>1
<1>3. /\ S = 1 .. n <=> \A i \in DOMAIN parts : <<parts[i]>> \in Range(query)
      /\ S = {} <=> \A i \in DOMAIN parts : <<parts[i]>> \notin Range(query)
  BY <1>1
<1>4. Matched(parts, query) = Cardinality(S)
  BY DEF Matched
<1> HIDE DEF S, n
<1>5. Cardinality(S) \in 0 .. n /\ (Cardinality(S) = n <=> S = 1 .. n) /\ (Cardinality(S) = 0 <=> S = {})
  BY <1>1, <1>2, SharesOfParts
<1> QED BY <1>3, <1>4, <1>5 DEF n

\* What each name of a tenant adds to its score: nothing if none of its parts is
\* in the query, the whole if all are.
NamesAll(query, name) == \A i \in DOMAIN name : <<name[i]>> \in Range(query)
NamesNone(query, name) == \A i \in DOMAIN name : <<name[i]>> \notin Range(query)

LEMMA NameScoreIs ==
    ASSUME NEW W, NEW name, name \in Seq(W), name # << >>, NEW query
    PROVE  /\ NameScore(name, query) \in Nat
           /\ NamesAll(query, name) \/ ContainsWholeWord(query, name) => NameScore(name, query) >= 600
           /\ ~NamesAll(query, name) /\ ~ContainsWholeWord(query, name) =>
                 NameScore(name, query) <= 540 /\ (NamesNone(query, name) => NameScore(name, query) = 0)
           /\ Matched(name, query) = 0 <=> NamesNone(query, name)
           /\ NamesAll(query, name) => ~NamesNone(query, name)
<1> DEFINE m == Matched(name, query)
           k == Len(name)
           contains == ContainsWholeWord(query, name)
           a == NameScore(name, query)
<1>1. m \in Nat /\ m <= k /\ k \in Nat \ {0} /\ (m = k <=> NamesAll(query, name)) /\ (m = 0 <=> NamesNone(query, name))
  <2>1. m \in 0 .. k /\ (m = k <=> NamesAll(query, name)) /\ (m = 0 <=> NamesNone(query, name))
    <3> HIDE DEF m, k
    <3> QED BY PartsMatched DEF m, k, NamesAll, NamesNone
  <2>2. k \in Nat \ {0}
    OBVIOUS
  <2> HIDE DEF m, k
  <2> QED BY <2>1, <2>2
<1>2. a = IF m = k THEN 600 + 6 * m ELSE IF contains THEN 600 ELSE (540 * m) \div k
  BY DEF NameScore, Whole
<1> HIDE DEF m, k, contains, a
<1>3. (540 * m) \div k \in Nat /\ (540 * m) \div k <= 540
  <2> DEFINE w == 540
  <2>1. w \in Nat
    OBVIOUS
  <2> HIDE DEF w
  <2>2. (w * m) \div k \in Nat /\ (w * m) \div k <= w
    BY <1>1, <2>1, ShareOf
  <2> QED BY <2>2 DEF w
<1>4. m = 0 => (540 * m) \div k = 0
  <2>1. m = 0 => 540 * m = 0
    BY <1>1
  <2>2. 0 \div k \in Nat /\ 0 \div k <= 0
    <3>1. 0 <= 0 * k
      BY <1>1
    <3> QED BY <1>1, <3>1, ShareIsBounded
  <2> QED BY <2>1, <2>2
<1>5. a \in Nat /\ (m = k \/ contains => a >= 600) /\ (m # k /\ ~contains => a <= 540 /\ (m = 0 => a = 0))
  BY <1>1, <1>2, <1>3, <1>4
<1>6. m = k => m # 0
  BY <1>1
<1> QED BY <1>1, <1>5, <1>6 DEF a, m, contains

LEMMA DisplayScoreIs ==
    ASSUME NEW W, NEW parts, parts \in Seq(W), NEW query
    PROVE  /\ DisplayScore(parts, query) \in Nat /\ DisplayScore(parts, query) <= 510
           /\ NamesNone(query, parts) => DisplayScore(parts, query) = 0
<1> DEFINE n == Len(parts)
           shared == Matched(parts, query)
           b == DisplayScore(parts, query)
<1>1. shared \in Nat /\ shared <= n /\ n \in Nat /\ (NamesNone(query, parts) => shared = 0)
  <2>1. shared \in 0 .. n /\ (shared = 0 <=> NamesNone(query, parts)) /\ n \in Nat
    <3> HIDE DEF shared
    <3> QED BY PartsMatched DEF shared, NamesNone
  <2> HIDE DEF shared, n
  <2> QED BY <2>1
<1>2. b = IF parts = << >> THEN 0 ELSE (510 * shared) \div n
  BY DEF DisplayScore
<1>3. parts # << >> => n # 0
  OBVIOUS
<1> HIDE DEF n, shared, b
<1>4. ASSUME n # 0
      PROVE  (510 * shared) \div n \in Nat /\ (510 * shared) \div n <= 510 /\ (shared = 0 => (510 * shared) \div n = 0)
  <2>1. n \in Nat \ {0} /\ shared \in Nat /\ shared <= n
    BY <1>1, <1>4
  <2> DEFINE w == 510
  <2>2. w \in Nat
    OBVIOUS
  <2> HIDE DEF w
  <2>3. (w * shared) \div n \in Nat /\ (w * shared) \div n <= w
    BY <2>1, <2>2, ShareOf
  <2>4. shared = 0 => w * shared = 0
    BY <2>2
  <2>5. 0 \div n \in Nat /\ 0 \div n <= 0
    <3>1. 0 <= 0 * n
      BY <2>1
    <3> QED BY <2>1, <3>1, ShareIsBounded
  <2>6. shared = 0 => (w * shared) \div n = 0
    BY <2>4, <2>5
  <2> QED BY <2>3, <2>6 DEF w
<1>5. b \in Nat /\ b <= 510 /\ (shared = 0 => b = 0)
  <2>1. CASE parts = << >>
    BY <1>2, <2>1
  <2>2. CASE parts # << >>
    BY <1>2, <1>3, <1>4, <2>2
  <2> QED BY <2>1, <2>2
<1> QED BY <1>1, <1>5 DEF b

LEMMA TextScoreIs ==
    ASSUME NEW texts, NEW V, NEW query, query \in Seq(V), query # << >>
    PROVE  TextScore(texts, query) \in Nat /\ TextScore(texts, query) <= 300
<1> DEFINE n == Len(query)
           held == {i \in DOMAIN query : \E text \in texts : Mentions(text, query[i])}
           h == Cardinality(held)
           c == TextScore(texts, query)
<1>1. n \in Nat \ {0} /\ held \in SUBSET (1 .. n)
  OBVIOUS
<1>2. c = (300 * h) \div n
  BY DEF TextScore
<1> HIDE DEF n, held, c
<1>3. h \in Nat /\ h <= n
  <2>1. n \in Nat
    BY <1>1
  <2>2. h \in 0 .. n
    BY <1>1, <2>1, SharesOfParts
  <2> QED BY <2>1, <2>2
<1> HIDE DEF h
<1>4. (300 * h) \div n \in Nat /\ (300 * h) \div n <= 300
  <2> DEFINE w == 300
  <2>1. w \in Nat
    OBVIOUS
  <2> HIDE DEF w
  <2>2. (w * h) \div n \in Nat /\ (w * h) \div n <= w
    BY <1>1, <1>3, <2>1, ShareOf
  <2> QED BY <2>2 DEF w
<1> QED BY <1>2, <1>4 DEF c

\* The score of a tenant: that of a query that is its name, the best of its names,
\* or that of a typing error.
IsScore(score, best, t, query) ==
    /\ best \in Nat
    /\ best >= NameScore(t.name, query) /\ best >= DisplayScore(t.display, query) /\ best >= TextScore(t.texts, query)
    /\ best \in {NameScore(t.name, query), DisplayScore(t.display, query), TextScore(t.texts, query)}
    /\ \/ query = <<t.name>> /\ score = 600
       \/ score = best /\ (1 \in Near(t.name, query) => best >= 120)
       \/ score \in {60, 120} /\ best < 180 /\ best <= score /\ (1 \in Near(t.name, query) <=> score = 120)

LEMMA ScoreIs ==
    ASSUME NEW W, NEW t, t.name \in Seq(W), t.name # << >>, t.display \in Seq(W), NEW V, NEW query, query \in Seq(V), query # << >>
    PROVE  \E best : IsScore(TenantScore(t, query), best, t, query)
<1> DEFINE a == NameScore(t.name, query)
           b == DisplayScore(t.display, query)
           c == TextScore(t.texts, query)
           best == Max({a, b, c})
           near == Near(t.name, query)
           score == TenantScore(t, query)
<1>1. a \in Nat /\ b \in Nat /\ c \in Nat
  <2>1. a \in Nat
    BY NameScoreIs
  <2>2. b \in Nat
    BY DisplayScoreIs
  <2>3. c \in Nat
    BY TextScoreIs
  <2> QED BY <2>1, <2>2, <2>3
<1> HIDE DEF a, b, c
<1>2. best \in Nat /\ best >= a /\ best >= b /\ best >= c /\ best \in {a, b, c}
  <2>1. {a, b, c} \in SUBSET (0 .. a + b + c) /\ a + b + c \in Nat
    BY <1>1
  <2>2. Max({a, b, c}) \in {a, b, c} /\ \A i \in {a, b, c} : i <= Max({a, b, c})
    BY <2>1, LeastAndGreatest
  <2> QED BY <1>1, <2>2
<1>3. score = IF query = <<t.name>> THEN 600
              ELSE Max({best} \cup {180 - 60 * d : d \in IF best < 180 THEN near ELSE {}})
  BY DEF TenantScore, Whole, a, b, c
<1> HIDE DEF best
<1> DEFINE some == {best} \cup {180 - 60 * d : d \in IF best < 180 THEN near ELSE {}}
<1>4. near \subseteq {1, 2}
  BY DEF Near
<1> HIDE DEF near
<1>5. Max(some) \in some /\ \A i \in some : i <= Max(some)
  <2> DEFINE most == best + 180
  <2>1. most \in Nat /\ some \in SUBSET (0 .. most) /\ some # {}
    BY <1>2, <1>4
  <2> HIDE DEF some, most
  <2> QED BY <2>1, LeastAndGreatest
<1> HIDE DEF score
<1>6. \/ query = <<t.name>> /\ score = 600
      \/ score = best /\ (1 \in near => best >= 120)
      \/ score \in {60, 120} /\ best < 180 /\ best <= score /\ (1 \in near <=> score = 120)
  <2>1. CASE query = <<t.name>>
    BY <1>3, <2>1
  <2>2. CASE query # <<t.name>>
    <3>1. score = Max(some)
      BY <1>3, <2>2
    <3> DEFINE top == Max(some)
    <3>2. CASE best < 180
      <4>1. top = best \/ \E d \in near : top = 180 - 60 * d
        BY <1>5, <3>2
      <4>2. best <= top /\ (1 \in near => 120 <= top)
        BY <1>5, <3>2
      <4> HIDE DEF top
      <4>3. CASE top = best
        BY <1>2, <3>1, <4>2, <4>3 DEF top
      <4>4. ASSUME NEW d \in near, top = 180 - 60 * d 
            PROVE  score \in {60, 120} /\ best < 180 /\ best <= score /\ (1 \in near <=> score = 120)
        <5>1. d = 1 \/ d = 2
          BY <1>4
        <5>2. d = 1 => top = 120
          BY <4>4
        <5>3. d = 2 => top = 60
          BY <4>4
        <5>4. top \in {60, 120} /\ (1 \in near <=> top = 120)
          BY <4>2, <5>1, <5>2, <5>3
        <5> QED BY <3>1, <3>2, <4>2, <5>4 DEF top
      <4> QED BY <4>1, <4>3, <4>4
    <3>3. CASE ~(best < 180)
      <4>1. top = best
        BY <1>5, <3>3
      <4> HIDE DEF top
      <4> QED BY <1>2, <3>1, <3>3, <4>1 DEF top
    <3> QED BY <3>2, <3>3
  <2> QED BY <2>1, <2>2
<1> QED BY <1>2, <1>6 DEF IsScore, a, b, c, near, score

\* A tenant has the whole score exactly if the query names it, and a tenant none
\* of whose parts is in the query half of it at most; one a typing error away
\* is listed.  Of any name, description and query (src/cli/internal/tenant).
THEOREM NamesAreMeantForAll ==
    ASSUME NEW W, NEW t, t.name \in Seq(W), t.name # << >>, t.display \in Seq(W), NEW V, NEW query \in Seq(V), query # << >>
    PROVE  NameIsMeant(t, query)
<1> DEFINE a == NameScore(t.name, query)
           b == DisplayScore(t.display, query)
           c == TextScore(t.texts, query)
           exact == NamesAll(query, t.name)
           contains == ContainsWholeWord(query, t.name)
           unnamed == Matched(t.name, query) = 0
           near == 1 \in Near(t.name, query)
           score == TenantScore(t, query)
<1>1. /\ a \in Nat /\ (exact \/ contains => a >= 600) /\ (~exact /\ ~contains => a <= 540)
      /\ (~exact /\ ~contains /\ unnamed => a = 0)
  BY NameScoreIs
<1>2. b \in Nat /\ b <= 510 /\ (t.display = << >> => b = 0)
  <2>1. b \in Nat /\ b <= 510
    BY DisplayScoreIs
  <2>2. t.display = << >> => b = 0
    BY DEF DisplayScore
  <2> QED BY <2>1, <2>2
<1>3. c \in Nat /\ c <= 300
  BY TextScoreIs
<1>4. query = <<t.name>> => contains
  <2>1. t.name \in Seq(W)
    OBVIOUS
  <2>2. IsWithin(t.name, t.name)
    BY <2>1, WithinItself
  <2> QED BY <2>2 DEF ContainsWholeWord
<1>5. PICK best : IsScore(score, best, t, query)
  BY ScoreIs
<1>6. /\ best \in Nat /\ best >= a /\ best >= b /\ best >= c /\ best \in {a, b, c}
      /\ \/ query = <<t.name>> /\ score = 600
         \/ score = best /\ (near => best >= 120)
         \/ score \in {60, 120} /\ best < 180 /\ best <= score /\ (near <=> score = 120)
  BY <1>5 DEF IsScore
<1>7. exact <=> \A i \in DOMAIN t.name : \E j \in DOMAIN query : query[j] = <<t.name[i]>>
  BY DEF NamesAll, Range
<1> HIDE DEF score, a, b, c, exact, contains, unnamed, near
<1>8. exact \/ contains <=> score >= 600
  BY <1>1, <1>2, <1>3, <1>4, <1>6
<1>9. (~exact /\ ~contains /\ unnamed /\ t.display = << >>) => score <= 300
  BY <1>1, <1>2, <1>3, <1>4, <1>6
<1>10. near => score > 60
  BY <1>6
<1>11. Whole = 600 /\ Whole \div 2 = 300 /\ MinMatchScore = 60
  BY DEF Whole, MinMatchScore
<1> QED BY <1>7, <1>8, <1>9, <1>10, <1>11 DEF NameIsMeant, Listed, score, contains, unnamed, near

\* Why a tenant is listed.
LEMMA ListedBecause ==
    ASSUME NEW W, NEW t, t.name \in Seq(W), t.name # << >>, t.display \in Seq(W),
           NEW V, NEW query, query \in Seq(V), query # << >>, Listed(t, query)
    PROVE  \/ query = <<t.name>> \/ ContainsWholeWord(query, t.name)
           \/ ~NamesNone(query, t.name) \/ ~NamesNone(query, t.display)
           \/ TextScore(t.texts, query) > 60 \/ 1 \in Near(t.name, query)
<1> DEFINE a == NameScore(t.name, query)
           b == DisplayScore(t.display, query)
           c == TextScore(t.texts, query)
           near == 1 \in Near(t.name, query)
           score == TenantScore(t, query)
           own == NamesNone(query, t.name)
           shown == NamesNone(query, t.display)
           contains == ContainsWholeWord(query, t.name)
<1>1. a \in Nat /\ (~contains /\ own => a = 0)
  <2>1. a \in Nat /\ (~NamesAll(query, t.name) /\ ~contains => (own => a = 0)) /\ (NamesAll(query, t.name) => ~own)
    BY NameScoreIs
  <2> QED BY <2>1
<1>2. b \in Nat /\ (shown => b = 0)
  BY DisplayScoreIs
<1>3. c \in Nat
  BY TextScoreIs
<1>4. PICK best : IsScore(score, best, t, query)
  BY ScoreIs
<1>5. /\ best \in {a, b, c}
      /\ \/ query = <<t.name>> /\ score = 600
         \/ score = best
         \/ score \in {60, 120} /\ (near <=> score = 120)
  BY <1>4 DEF IsScore
<1>6. score > 60
  BY DEF Listed, MinMatchScore
<1> HIDE DEF score, a, b, c, near, own, shown, contains
<1>7. query = <<t.name>> \/ contains \/ ~own \/ ~shown \/ c > 60 \/ near
  BY <1>1, <1>2, <1>3, <1>5, <1>6
<1> QED BY <1>7 DEF c, near, own, shown, contains

LEMMA NamesAreAlwaysMeant == NamesAreMeant
<1>0. ASSUME NEW W, NEW n \in 1 .. 2, NEW q \in [1 .. n -> W] PROVE q \in Seq(W) /\ q # << >>
  <2>1. Len(q) = n /\ n # 0
    OBVIOUS
  <2> QED BY <2>1
<1>1. ASSUME NEW term \in Terms PROVE term \in Seq(NameParts) /\ term # << >>
  BY <1>0 DEF Terms
<1>2. ASSUME NEW query \in Queries PROVE query \in Seq(Terms) /\ query # << >>
  BY <1>0 DEF Queries
<1>3. ASSUME NEW t \in Tenants
      PROVE  t.name \in Seq(NameParts) /\ t.name # << >> /\ t.display \in Seq(NameParts)
  <2>1. t.name \in Terms /\ (t.display \in Terms \/ t.display = << >>)
    BY DEF Tenants
  <2>2. << >> \in Seq(NameParts)
    OBVIOUS
  <2> QED BY <1>1, <2>1, <2>2
<1> QED BY <1>2, <1>3, NamesAreMeantForAll DEF NamesAreMeant

-----------------------------------------------------------------------------
\* The registry of the client.
TenantRecords ==
    [segment : BOOLEAN, source : SourceTypes \cup {"unknown"},
     freshness : {"known", "partial", "odd", "unknown"} \X {"manifest", "summary", "none"},
     revision : BOOLEAN, prefixes : SUBSET ({"hosts", "white", "places"} \X {"public"}), description : {"name", "prefixes", "config"}]

\* What is told of one tenant.
HonestTenant(t, n, disk) ==
    LET scanned == n \in DOMAIN disk /\ disk[n].segments
    IN  /\ t \in TenantRecords
        /\ t.segment <=> scanned /\ disk[n].names = "file"
        /\ t.freshness[1] = "known" => t.revision
        /\ t.revision => scanned /\ disk[n].dated /\ t.freshness[1] = disk[n].state
        /\ scanned /\ disk[n].hosts => t.prefixes # {} /\ t.description # "name"
        /\ scanned /\ disk[n].names # "nothing" /\ disk[n].source # "none" => t.source \in SourceTypes

LEMMA ScannedIsHonest ==
    ASSUME NEW disk, NEW n \in DOMAIN disk, disk[n] \in Directories, disk[n].segments
    PROVE  HonestTenant(Scanned(disk[n]), n, disk)
<1> DEFINE d == disk[n]
           t == Scanned(d)
<1>1. /\ d.segments \in BOOLEAN /\ d.names \in {"nothing", "file", "absent"}
      /\ d.source \in SourceTypes \cup {"none"} /\ d.state \in {"known", "partial", "odd"}
      /\ d.dated \in BOOLEAN /\ d.summary \in BOOLEAN /\ d.hosts \in BOOLEAN
  BY DEF Directories
<1> HIDE DEF d
<1>2. Freshness(d) \in {"known", "partial", "odd", "unknown"} \X {"manifest", "summary", "none"}
  BY <1>1 DEF Freshness
<1>3. /\ Freshness(d)[1] = "known" => Freshness(d)[2] = "manifest"
      /\ Freshness(d)[2] = "manifest" => d.dated /\ Freshness(d)[1] = d.state
  BY <1>1 DEF Freshness
<1>4. /\ t.segment = (d.names = "file")
      /\ t.source = IF d.names = "nothing" \/ d.source = "none" THEN "unknown" ELSE d.source
      /\ t.freshness = Freshness(d) /\ t.revision = (Freshness(d)[2] = "manifest")
      /\ t.prefixes = (IF d.hosts THEN {<<"hosts", "public">>} ELSE {})
      /\ t.description = (IF d.hosts THEN "prefixes" ELSE "name")
  <2>1. From("hosts", IF d.hosts THEN {"public"} ELSE {}) = IF d.hosts THEN {<<"hosts", "public">>} ELSE {}
    BY DEF From
  <2> QED BY <2>1 DEF Scanned
<1>5. t \in TenantRecords
  <2>1. t = [segment |-> t.segment, source |-> t.source, freshness |-> t.freshness, revision |-> t.revision,
             prefixes |-> t.prefixes, description |-> t.description]
    BY DEF Scanned
  <2>2. t.segment \in BOOLEAN /\ t.revision \in BOOLEAN
    BY <1>4
  <2>3. t.source \in SourceTypes \cup {"unknown"}
    BY <1>1, <1>4
  <2>4. t.prefixes \in SUBSET ({"hosts", "white", "places"} \X {"public"})
    BY <1>4
  <2>5. t.description \in {"name", "prefixes", "config"}
    BY <1>4
  <2> HIDE DEF t
  <2> QED BY <1>2, <1>4, <2>1, <2>2, <2>3, <2>4, <2>5 DEF TenantRecords
<1> HIDE DEF t
<1>6. d.segments
  BY DEF d
<1> QED BY <1>1, <1>3, <1>4, <1>5, <1>6 DEF HonestTenant, d, t

LEMMA UnknownIsHonest ==
    ASSUME NEW disk, NEW n, ~(n \in DOMAIN disk /\ disk[n].segments)
    PROVE  HonestTenant(Unknown, n, disk)
<1>1. <<"unknown", "none">> \in {"known", "partial", "odd", "unknown"} \X {"manifest", "summary", "none"}
  OBVIOUS
<1>2. Unknown \in TenantRecords
  BY <1>1 DEF Unknown, TenantRecords
<1>3. Unknown.segment = FALSE /\ Unknown.freshness = <<"unknown", "none">> /\ Unknown.revision = FALSE
  BY DEF Unknown
<1> QED BY <1>2, <1>3 DEF HonestTenant

LEMMA OverlaidIsHonest ==
    ASSUME NEW disk, NEW n, NEW t, HonestTenant(t, n, disk), NEW entry \in Entries
    PROVE  HonestTenant(Overlaid(t, entry), n, disk)
<1> DEFINE u == Overlaid(t, entry)
<1>1. entry.source \in SourceTypes \cup {"none"} /\ entry.text \in BOOLEAN
  BY DEF Entries
<1>2. /\ t.segment \in BOOLEAN /\ t.source \in SourceTypes \cup {"unknown"}
      /\ t.freshness \in {"known", "partial", "odd", "unknown"} \X {"manifest", "summary", "none"}
      /\ t.revision \in BOOLEAN /\ t.prefixes \in SUBSET ({"hosts", "white", "places"} \X {"public"})
      /\ t.description \in {"name", "prefixes", "config"}
      /\ t = [segment |-> t.segment, source |-> t.source, freshness |-> t.freshness, revision |-> t.revision,
              prefixes |-> t.prefixes, description |-> t.description]
  BY DEF HonestTenant, TenantRecords
<1> DEFINE said == IF entry.white # {} THEN From("white", entry.white) ELSE From("places", entry.places)
           p == IF Public(said) # {} THEN Public(said) ELSE t.prefixes
<1>3. u = [segment |-> t.segment, source |-> IF entry.source # "none" THEN entry.source ELSE t.source,
           freshness |-> t.freshness, revision |-> t.revision, prefixes |-> p,
           description |-> IF entry.text THEN "config" ELSE IF p # {} THEN "prefixes" ELSE "name"]
  <2> DEFINE source == IF entry.source # "none" THEN entry.source ELSE t.source
             description == IF entry.text THEN "config" ELSE IF p # {} THEN "prefixes" ELSE "name"
  <2>1. u = [t EXCEPT !.source = source, !.prefixes = p, !.description = description]
    BY DEF Overlaid
  <2> HIDE DEF u, p, source, description
  <2>2. u = [segment |-> t.segment, source |-> source, freshness |-> t.freshness, revision |-> t.revision,
             prefixes |-> p, description |-> description]
    BY <1>2, <2>1
  <2> QED BY <2>2 DEF source, description
<1>4. /\ u.segment = t.segment /\ u.freshness = t.freshness /\ u.revision = t.revision /\ u.prefixes = p
      /\ u.source = IF entry.source # "none" THEN entry.source ELSE t.source
      /\ u.description = IF entry.text THEN "config" ELSE IF p # {} THEN "prefixes" ELSE "name"
  BY <1>3
<1>5. u \in TenantRecords
  <2>1. p \in SUBSET ({"hosts", "white", "places"} \X {"public"})
    <3>1. said \in SUBSET ({"white", "places"} \X {"public", "odd"})
      BY DEF From, Entries, Kinds
    <3> HIDE DEF said
    <3> QED BY <1>2, <3>1 DEF Public
  <2> HIDE DEF u, p
  <2> QED BY <1>1, <1>2, <1>3, <2>1 DEF TenantRecords
<1> HIDE DEF u, said
<1>6. (t.prefixes # {} => u.prefixes # {} /\ u.description # "name")
      /\ (t.source \in SourceTypes => u.source \in SourceTypes)
  BY <1>1, <1>4
<1> QED BY <1>4, <1>5, <1>6 DEF HonestTenant, u

\* Entries of the configuration go over what was found, one after another.
IsOverlaid(t, kept, n, config) ==
    /\ t[0] = kept
    /\ t[n] = FoldLeft(LAMBDA tenants, entry :
                           [tenants EXCEPT ![entry.codename] = Overlaid(@, entry)], kept, config)
    /\ \A k \in 1 .. n : t[k] = [t[k - 1] EXCEPT ![config[k].codename] = Overlaid(@, config[k])]

LEMMA OverlaysAreHonest ==
    ASSUME NEW disk, NEW n \in Nat, NEW config \in [1 .. n -> Entries], NEW kept,
           kept \in [{config[i].codename : i \in 1 .. n} -> TenantRecords],
           \A c \in {config[i].codename : i \in 1 .. n} : HonestTenant(kept[c], c, disk)
    PROVE  \E t : /\ IsOverlaid(t, kept, n, config)
                  /\ \A k \in 0 .. n :
                        /\ t[k] \in [{config[i].codename : i \in 1 .. n} -> TenantRecords]
                        /\ \A c \in {config[i].codename : i \in 1 .. n} : HonestTenant(t[k][c], c, disk)
<1> DEFINE named == {config[i].codename : i \in 1 .. n}
           B == {t \in [named -> TenantRecords] : \A c \in named : HonestTenant(t[c], c, disk)}
           Step(b, i) == [b EXCEPT ![config[i].codename] = Overlaid(@, config[i])]
           H == [x \in B \X (1 .. n) |-> Step(x[1], x[2])]
           Is(f) == f = [s \in SUBSET (1 .. n) |-> IF s = {} THEN kept ELSE Step(f[s \ {Max(s)}], Max(s))]
           f == CHOOSE h : Is(h)
<1>1. kept \in B
  OBVIOUS
<1>2. ASSUME NEW b \in B, NEW i \in 1 .. n PROVE Step(b, i) \in B
  <2>1. config[i] \in Entries /\ config[i].codename \in named
    OBVIOUS
  <2>2. b \in [named -> TenantRecords] /\ \A c \in named : HonestTenant(b[c], c, disk)
    OBVIOUS
  <2> DEFINE e == config[i]
             name == e.codename
             new == Overlaid(b[name], e)
  <2>3. HonestTenant(new, name, disk)
    BY <2>1, <2>2, OverlaidIsHonest
  <2>4. new \in TenantRecords
    BY <2>3 DEF HonestTenant
  <2> HIDE DEF named, new
  <2>5. Step(b, i) = [c \in named |-> IF c = name THEN new ELSE b[c]]
    BY <2>2 DEF new
  <2>6. [c \in named |-> IF c = name THEN new ELSE b[c]] \in [named -> TenantRecords]
    BY <2>2, <2>4
  <2>7. \A c \in named : HonestTenant([x \in named |-> IF x = name THEN new ELSE b[x]][c], c, disk)
    BY <2>2, <2>3
  <2> QED BY <2>5, <2>6, <2>7
<1>3. H \in [B \X (1 .. n) -> B] /\ \A b \in B, i \in 1 .. n : H[<<b, i>>] = Step(b, i)
  <2> HIDE DEF B, Step
  <2>1. \A x \in B \X (1 .. n) : Step(x[1], x[2]) \in B
    BY <1>2
  <2> QED BY <2>1
<1>4. \E g : Is(g)
  <2> HIDE DEF H, B, Step
  <2>1. PICK g : IsFold(g, n, B, kept, H)
    BY <1>1, <1>3, FoldExists
  <2>2. ASSUME NEW s \in SUBSET (1 .. n), s # {}
        PROVE  H[<<g[s \ {Max(s)}], Max(s)>>] = Step(g[s \ {Max(s)}], Max(s))
    <3>1. Max(s) \in 1 .. n
      BY <2>2, MaxOfSome
    <3>2. g[s \ {Max(s)}] \in B
      BY <2>1 DEF IsFold
    <3> QED BY <1>3, <3>1, <3>2
  <2>3. g = [s \in SUBSET (1 .. n) |-> g[s]]
    BY <2>1 DEF IsFold
  <2>4. [s \in SUBSET (1 .. n) |-> g[s]]
           = [s \in SUBSET (1 .. n) |-> IF s = {} THEN kept ELSE Step(g[s \ {Max(s)}], Max(s))]
    BY <2>1, <2>2 DEF IsFold
  <2> QED BY <2>3, <2>4
<1>5. Is(f)
  <2> HIDE DEF Is
  <2> QED BY <1>4
<1> DEFINE last == FoldLeft(LAMBDA tenants, entry :
                                [tenants EXCEPT ![entry.codename] = Overlaid(@, entry)], kept, config)
<1>6. last = f[1 .. n]
  <2>1. DOMAIN config = 1 .. n
    OBVIOUS
  <2> QED BY <2>1 DEF FoldLeft, MapThenFoldSet
<1> HIDE DEF last
<1> DEFINE t == [k \in 0 .. n |-> f[1 .. k]]
           S == {k \in 0 .. n : t[k] \in B}
<1>7. t[0] = kept
  <2>1. 1 .. 0 = {} /\ {} \in SUBSET (1 .. n)
    OBVIOUS
  <2>2. f[{}] = kept
    <3> HIDE DEF f
    <3> QED BY <1>5
  <2> HIDE DEF f
  <2> QED BY <2>1, <2>2
<1>8. ASSUME NEW k \in 1 .. n PROVE t[k] = Step(t[k - 1], k)
  <2>1. Max(1 .. k) = k /\ (1 .. k) \ {k} = 1 .. (k - 1)
    BY MaxOfAll
  <2>2. 1 .. k \in SUBSET (1 .. n) /\ 1 .. k # {}
    BY BeginningIsPart
  <2> HIDE DEF f, Step
  <2>3. f[1 .. k] = Step(f[(1 .. k) \ {Max(1 .. k)}], Max(1 .. k))
    BY <1>5, <2>2
  <2>4. t[k] = f[1 .. k] /\ t[k - 1] = f[1 .. (k - 1)]
    OBVIOUS
  <2> QED BY <2>1, <2>3, <2>4
<1>9. t[n] = last
  <2> HIDE DEF f
  <2> QED BY <1>6
<1> HIDE DEF t, f
<1>10. IsOverlaid(t, kept, n, config)
  <2>1. \A k \in 1 .. n : t[k] = [t[k - 1] EXCEPT ![config[k].codename] = Overlaid(@, config[k])]
    BY <1>8
  <2> QED BY <1>7, <1>9, <2>1 DEF IsOverlaid, last
<1>11. 0 .. n \subseteq S
  <2> HIDE DEF B, Step
  <2>1. 0 \in S
    BY <1>1, <1>7
  <2>2. ASSUME NEW k \in 0 .. n - 1, k \in S PROVE k + 1 \in S
    <3>1. k + 1 \in 1 .. n /\ (k + 1) - 1 = k /\ k + 1 \in 0 .. n
      OBVIOUS
    <3>2. t[k + 1] = Step(t[k], k + 1)
      BY <1>8, <3>1
    <3> QED BY <1>2, <2>2, <3>1, <3>2
  <2> HIDE DEF S
  <2> QED BY <2>1, <2>2, UpTo
<1>12. \A k \in 0 .. n : t[k] \in B
  BY <1>11
<1> QED BY <1>10, <1>12

\* What the client lists of its tenants is so, whatever the directories are and
\* however many entries the configuration has, of the same tenant too
\* (src/cli/internal/tenant).
THEOREM RegistryIsHonestForAll ==
    ASSUME NEW disk, \A n \in DOMAIN disk : disk[n] \in Directories, NEW config \in Seq(Entries)
    PROVE  RegistryIsHonestFor(disk, config)
<1> DEFINE scanned == {n \in DOMAIN disk : disk[n].segments}
           found == [n \in scanned |-> Scanned(disk[n])]
           tenants == Registry(disk, config)
           size == Len(config)
           named == {config[i].codename : i \in 1 .. size}
           kept == [n \in named |-> IF n \in DOMAIN found THEN found[n] ELSE Unknown]
           last == FoldLeft(LAMBDA all, entry : [all EXCEPT ![entry.codename] = Overlaid(@, entry)], kept, config)
<1>1. size \in Nat /\ config \in [1 .. size -> Entries] /\ DOMAIN config = 1 .. size
  OBVIOUS
<1>2. config = << >> <=> named = {}
  <2>1. config = << >> <=> size = 0
    OBVIOUS
  <2>2. size # 0 => 1 \in 1 .. size
    BY <1>1
  <2>3. size = 0 => 1 .. size = {}
    BY <1>1
  <2> HIDE DEF size
  <2> QED BY <2>1, <2>2, <2>3
<1>3. \A n \in scanned : HonestTenant(found[n], n, disk)
  BY ScannedIsHonest
<1>4. \A n \in named : HonestTenant(kept[n], n, disk)
  <2> HIDE DEF named
  <2>1. ASSUME NEW n \in named, n \in scanned PROVE kept[n] = found[n]
    BY <2>1
  <2>2. ASSUME NEW n \in named, n \notin scanned PROVE kept[n] = Unknown
    BY <2>2
  <2>3. ASSUME NEW n \in named, n \notin scanned PROVE ~(n \in DOMAIN disk /\ disk[n].segments)
    BY <2>3
  <2> HIDE DEF kept, found, scanned
  <2> QED BY <1>3, <2>1, <2>2, <2>3, UnknownIsHonest
<1>5. kept \in [named -> TenantRecords]
  <2>1. kept = [n \in named |-> kept[n]]
    OBVIOUS
  <2>2. \A n \in named : kept[n] \in TenantRecords
    <3> HIDE DEF kept, named
    <3> QED BY <1>4 DEF HonestTenant
  <2> HIDE DEF kept, named
  <2> QED BY <2>1, <2>2
<1>6. tenants = IF named = {} THEN found ELSE last
  BY <1>1 DEF Registry, Configured
<1>7. last \in [named -> TenantRecords] /\ \A n \in named : HonestTenant(last[n], n, disk)
  <2> HIDE DEF kept, size
  <2>1. PICK t : /\ IsOverlaid(t, kept, size, config)
                 /\ \A k \in 0 .. size : /\ t[k] \in [named -> TenantRecords]
                                         /\ \A c \in named : HonestTenant(t[k][c], c, disk)
    BY <1>1, <1>4, <1>5, OverlaysAreHonest
  <2>2. size \in 0 .. size
    BY <1>1
  <2>3. t[size] = last
    BY <2>1 DEF IsOverlaid
  <2> HIDE DEF last, named
  <2> QED BY <2>1, <2>2, <2>3
<1>8. DOMAIN tenants = IF config = << >> THEN scanned ELSE {config[i].codename : i \in DOMAIN config}
  <2>1. DOMAIN found = scanned
    OBVIOUS
  <2> HIDE DEF last, found, scanned, tenants
  <2> QED BY <1>1, <1>2, <1>6, <1>7, <2>1
<1>9. \A n \in DOMAIN tenants : HonestTenant(tenants[n], n, disk)
  <2>1. DOMAIN found = scanned
    OBVIOUS
  <2> HIDE DEF last, found, scanned, tenants, named
  <2> QED BY <1>3, <1>6, <1>7, <2>1
<1> HIDE DEF tenants
<1>10. \A n \in DOMAIN tenants :
          /\ tenants[n].segment <=> n \in scanned /\ disk[n].names = "file"
          /\ tenants[n].freshness[1] = "known" => tenants[n].revision
          /\ tenants[n].revision => n \in scanned /\ disk[n].dated /\ tenants[n].freshness[1] = disk[n].state
          /\ n \in scanned /\ disk[n].hosts => tenants[n].prefixes # {} /\ tenants[n].description # "name"
          /\ n \in scanned /\ disk[n].names # "nothing" /\ disk[n].source # "none" => tenants[n].source \in SourceTypes
  BY <1>9 DEF HonestTenant
<1> HIDE DEF scanned
<1> QED BY <1>8, <1>10 DEF RegistryIsHonestFor, tenants, scanned

LEMMA RegistryIsAlwaysHonest == RegistryIsHonest
<1>1. ASSUME NEW config \in Configs PROVE config \in Seq(Entries)
  <2>1. Brief \subseteq Entries
    BY DEF Brief
  <2>2. CASE config = << >>
    <3>1. << >> \in Seq(Entries)
      OBVIOUS
    <3> QED BY <2>2, <3>1
  <2>3. CASE config \in {<<e>> : e \in Entries}
    <3>1. PICK e \in Entries : config = <<e>>
      BY <2>3
    <3> QED BY <3>1
  <2>4. CASE config \in Brief \X Brief
    <3>1. PICK e \in Brief, f \in Brief : config = <<e, f>>
      BY <2>4
    <3> QED BY <2>1, <3>1
  <2> QED BY <2>2, <2>3, <2>4 DEF Configs
<1>2. ASSUME NEW d \in Directories, NEW n PROVE \A m \in DOMAIN [c \in {n} |-> d] : [c \in {n} |-> d][m] \in Directories
  OBVIOUS
<1> QED BY <1>1, <1>2, RegistryIsHonestForAll DEF RegistryIsHonest

-----------------------------------------------------------------------------
\* What an app becomes by one event after another is a chain.
IsLife(t, events, n, allowed) ==
    /\ t[0] = NewApp(allowed) /\ t[n] = FoldLeft(Happens, NewApp(allowed), events)
    /\ \A k \in 1 .. n : t[k] = Happens(t[k - 1], events[k])

LEMMA AppsLive ==
    ASSUME NEW n \in Nat, NEW events \in [1 .. n -> EventKinds], NEW allowed \in BOOLEAN
    PROVE  \E t : IsLife(t, events, n, allowed)
<1> DEFINE Records == [docs : BOOLEAN, present : {"unknown", "yes", "no"}, segment : BOOLEAN, allowed : BOOLEAN]
           B == {app \in Records : AppIsHonest(app, TRUE)}
           base == NewApp(allowed)
           Step(b, i) == Happens(b, events[i])
           H == [x \in B \X (1 .. n) |-> Step(x[1], x[2])]
           Is(f) == f = [s \in SUBSET (1 .. n) |-> IF s = {} THEN base ELSE Step(f[s \ {Max(s)}], Max(s))]
           f == CHOOSE h : Is(h)
<1>1. base \in B
  <2>1. base = [docs |-> FALSE, present |-> "unknown", segment |-> FALSE, allowed |-> allowed]
    BY DEF NewApp
  <2> HIDE DEF base
  <2> QED BY <2>1 DEF AppIsHonest
<1> HIDE DEF base
<1>2. ASSUME NEW b \in B, NEW i \in 1 .. n PROVE Step(b, i) \in B
  <2>1. AppIsHonest(b, TRUE) /\ events[i] \in EventKinds
    OBVIOUS
  <2>2. AppIsHonest(Step(b, i), TRUE)
    BY <2>1, AppStaysHonest
  <2> HIDE DEF Step
  <2> QED BY <2>2 DEF AppIsHonest
<1>3. H \in [B \X (1 .. n) -> B] /\ \A b \in B, i \in 1 .. n : H[<<b, i>>] = Step(b, i)
  <2> HIDE DEF B, Step
  <2>1. \A x \in B \X (1 .. n) : Step(x[1], x[2]) \in B
    BY <1>2
  <2> QED BY <2>1
<1>4. \E g : Is(g)
  <2> HIDE DEF H, B, Step
  <2>1. PICK g : IsFold(g, n, B, base, H)
    BY <1>1, <1>3, FoldExists
  <2>2. ASSUME NEW s \in SUBSET (1 .. n), s # {}
        PROVE  H[<<g[s \ {Max(s)}], Max(s)>>] = Step(g[s \ {Max(s)}], Max(s))
    <3>1. Max(s) \in 1 .. n
      BY <2>2, MaxOfSome
    <3>2. g[s \ {Max(s)}] \in B
      BY <2>1 DEF IsFold
    <3> QED BY <1>3, <3>1, <3>2
  <2>3. g = [s \in SUBSET (1 .. n) |-> g[s]]
    BY <2>1 DEF IsFold
  <2>4. [s \in SUBSET (1 .. n) |-> g[s]]
           = [s \in SUBSET (1 .. n) |-> IF s = {} THEN base ELSE Step(g[s \ {Max(s)}], Max(s))]
    BY <2>1, <2>2 DEF IsFold
  <2> QED BY <2>3, <2>4
<1>5. Is(f)
  <2> HIDE DEF Is
  <2> QED BY <1>4
<1>6. FoldLeft(Happens, base, events) = f[1 .. n]
  <2>1. DOMAIN events = 1 .. n
    OBVIOUS
  <2> QED BY <2>1 DEF FoldLeft, MapThenFoldSet
<1> DEFINE t == [k \in 0 .. n |-> f[1 .. k]]
<1>7. t[0] = base
  <2>1. 1 .. 0 = {} /\ {} \in SUBSET (1 .. n)
    OBVIOUS
  <2>2. f[{}] = base
    <3> HIDE DEF f
    <3> QED BY <1>5
  <2> HIDE DEF f
  <2> QED BY <2>1, <2>2
<1>8. ASSUME NEW k \in 1 .. n PROVE t[k] = Step(t[k - 1], k)
  <2>1. Max(1 .. k) = k /\ (1 .. k) \ {k} = 1 .. (k - 1)
    BY MaxOfAll
  <2>2. 1 .. k \in SUBSET (1 .. n) /\ 1 .. k # {}
    OBVIOUS
  <2> HIDE DEF f, Step
  <2>3. f[1 .. k] = Step(f[(1 .. k) \ {Max(1 .. k)}], Max(1 .. k))
    BY <1>5, <2>2
  <2>4. t[k] = f[1 .. k] /\ t[k - 1] = f[1 .. (k - 1)]
    OBVIOUS
  <2> QED BY <2>1, <2>3, <2>4
<1>9. t[n] = f[1 .. n]
  OBVIOUS
<1> HIDE DEF t, f
<1>10. IsLife(t, events, n, allowed)
  BY <1>6, <1>7, <1>8, <1>9 DEF IsLife, base
<1> QED BY <1>10

\* What an event leaves of an app.
LEMMA EventsKeep ==
    ASSUME NEW app, NEW early \in BOOLEAN, AppIsHonest(app, early), NEW event \in EventKinds
    PROVE  /\ Happens(app, event).docs <=> app.docs \/ event = "arrive"
           /\ Happens(app, event).allowed = app.allowed
<1>1. app \in [docs : BOOLEAN, present : {"unknown", "yes", "no"}, segment : BOOLEAN, allowed : BOOLEAN]
  BY DEF AppIsHonest
<1>2. /\ Looked(app).docs = app.docs /\ Looked(app).allowed = app.allowed
      /\ Looked(app) \in [docs : BOOLEAN, present : {"unknown", "yes", "no"}, segment : BOOLEAN, allowed : BOOLEAN]
  BY <1>1 DEF Looked
<1>3. Ensured(Looked(app)).docs = app.docs /\ Ensured(Looked(app)).allowed = app.allowed
  <2> DEFINE looked == Looked(app)
  <2> HIDE DEF looked
  <2>1. /\ looked.docs = app.docs /\ looked.allowed = app.allowed
        /\ looked \in [docs : BOOLEAN, present : {"unknown", "yes", "no"}, segment : BOOLEAN, allowed : BOOLEAN]
    BY <1>2 DEF looked
  <2>2. Ensured(looked).docs = app.docs /\ Ensured(looked).allowed = app.allowed
    BY <2>1 DEF Ensured
  <2> QED BY <2>2 DEF looked
<1>4. CASE event = "arrive"
  <2>1. Happens(app, event) = [app EXCEPT !.docs = TRUE]
    BY <1>4 DEF Happens
  <2> QED BY <1>1, <1>4, <2>1
<1>5. CASE event = "publish"
  <2>1. Happens(app, event) = [app EXCEPT !.segment = @ \/ app.docs]
    BY <1>5 DEF Happens
  <2> QED BY <1>1, <1>5, <2>1
<1>6. CASE event = "search"
  <2>1. Happens(app, event) = Searched(app)
    BY <1>6 DEF Happens
  <2>2. Searched(app) \in {app, Looked(app), Ensured(Looked(app))}
    BY DEF Searched
  <2> QED BY <1>2, <1>3, <1>6, <2>1, <2>2
<1>7. CASE event = "build"
  <2>1. Happens(app, event) = Rebuilt(app)
    BY <1>7 DEF Happens
  <2>2. Rebuilt(app) \in {app, Looked(app), Ensured(Looked(app))}
    BY DEF Rebuilt
  <2> QED BY <1>2, <1>3, <1>7, <2>1, <2>2
<1> QED BY <1>4, <1>5, <1>6, <1>7 DEF EventKinds

\* After any events a search that finds nothing though there are documents, and
\* says nothing of an error, comes after a search or build before they arrived
\* (TenantApp.search, _has_docs).
THEOREM EmptyIsExplainedForAll ==
    ASSUME NEW n \in Nat, NEW events \in [1 .. n -> EventKinds], NEW allowed \in BOOLEAN
    PROVE  EmptyIsExplainedAfter(events, allowed)
<1> DEFINE app == FoldLeft(Happens, NewApp(allowed), events)
           Arrived(k) == \E j \in 1 .. k : events[j] = "arrive"
           Looks(i) == events[i] \in {"search", "build"}
           Early(k) == \E i \in 1 .. k : Looks(i) /\ ~Arrived(i - 1)
<1>1. PICK t : IsLife(t, events, n, allowed)
  BY AppsLive
<1> DEFINE So(k) == AppIsHonest(t[k], Early(k)) /\ (t[k].docs <=> Arrived(k)) /\ t[k].allowed = allowed
           S == {k \in 0 .. n : So(k)}
<1>2. 0 \in S
  <2>1. t[0] = NewApp(allowed)
    BY <1>1 DEF IsLife
  <2>2. t[0] = [docs |-> FALSE, present |-> "unknown", segment |-> FALSE, allowed |-> allowed]
    BY <2>1 DEF NewApp
  <2>3. ~Arrived(0)
    OBVIOUS
  <2>4. AppIsHonest(t[0], Early(0)) /\ ~t[0].docs /\ t[0].allowed = allowed
    BY <2>2 DEF AppIsHonest
  <2> HIDE DEF Arrived, Early
  <2> QED BY <2>3, <2>4
<1>3. ASSUME NEW k \in 0 .. n - 1, k \in S PROVE k + 1 \in S
  <2> DEFINE j == k + 1
             event == events[j]
             later == Early(k) \/ (event \in {"search", "build"} /\ ~t[k].docs)
  <2>1. j \in 1 .. n /\ j - 1 = k /\ j \in 0 .. n /\ event \in EventKinds /\ k \in Nat
    OBVIOUS
  <2>2. 1 .. j = (1 .. k) \cup {j}
    BY <2>1
  <2>3. So(k)
    BY <1>3
  <2> HIDE DEF j
  <2>4. (Arrived(j) <=> Arrived(k) \/ event = "arrive") /\ (Early(j) <=> Early(k) \/ (Looks(j) /\ ~Arrived(k)))
    BY <2>1, <2>2
  <2>5. Early(k) \in BOOLEAN
    OBVIOUS
  <2>6. t[j] = Happens(t[k], event)
    BY <1>1, <2>1 DEF IsLife
  <2> HIDE DEF Arrived, Early
  <2>7. AppIsHonest(t[k], Early(k))
    BY <2>3
  <2>8. AppIsHonest(t[j], later)
    BY <2>1, <2>5, <2>6, <2>7, AppStaysHonest
  <2>9. (t[j].docs <=> t[k].docs \/ event = "arrive") /\ t[j].allowed = t[k].allowed
    BY <2>1, <2>5, <2>6, <2>7, EventsKeep
  <2>10. later <=> Early(j)
    BY <2>3, <2>4
  <2>11. AppIsHonest(t[j], Early(j))
    BY <2>8, <2>10 DEF AppIsHonest
  <2>12. So(j)
    BY <2>3, <2>4, <2>9, <2>11
  <2> HIDE DEF So
  <2> QED BY <2>1, <2>12 DEF j
<1>4. So(n)
  <2> HIDE DEF S
  <2>1. 0 .. n \subseteq S
    BY <1>2, <1>3, UpTo
  <2>2. n \in S
    BY <2>1
  <2> HIDE DEF So
  <2> QED BY <2>2 DEF S
<1>5. app = t[n]
  BY <1>1 DEF IsLife
<1>6. Early(n) <=> \E i \in DOMAIN events : /\ events[i] \in {"search", "build"}
                                           /\ \A j \in 1 .. i - 1 : events[j] # "arrive"
  <2>1. DOMAIN events = 1 .. n
    OBVIOUS
  <2> QED BY <2>1
<1>7. Early(n) \in BOOLEAN
  OBVIOUS
<1> HIDE DEF Early, Arrived, app
<1>8. AppIsHonest(app, Early(n)) /\ app.allowed = allowed
  BY <1>4, <1>5
<1>9. /\ app.docs /\ Answer(app) = "empty" => Early(n)
      /\ app.docs /\ app.allowed /\ ~Early(n) => Answer(app) = "hits"
      /\ ~app.docs => Answer(app) = "empty"
  BY <1>7, <1>8, HonestAppExplains
<1> QED BY <1>6, <1>8, <1>9 DEF EmptyIsExplainedAfter, app

LEMMA EmptyIsAlwaysExplained == EmptyIsExplained
<1>1. ASSUME NEW n \in 0 .. 4, NEW events \in [1 .. n -> EventKinds], NEW allowed \in BOOLEAN
      PROVE  EmptyIsExplainedAfter(events, allowed)
  <2>1. n \in Nat
    OBVIOUS
  <2> QED BY <2>1, EmptyIsExplainedForAll
<1> QED BY <1>1 DEF EmptyIsExplained

-----------------------------------------------------------------------------
\* What is listed of a registry, tenant after tenant, is a chain.
IsListed(t, r, n) ==
    /\ t[0] = r /\ t[n] = ListedAll(r)
    /\ \A k \in 1 .. n : t[k] = Described(t[k - 1], r.tenants[k])

\* A registry with the metadata of some tenants.
Seen(r, last, names) == [tenants |-> r.tenants, configs |-> r.configs, cache |-> [m \in names |-> Metadata(last[m])]]

LEMMA SeenIsDescribed ==
    ASSUME NEW r, NEW last, RegistryIsCurrent(r, last), NEW names \in SUBSET DOMAIN last, NEW name \in DOMAIN last
    PROVE  Described(Seen(r, last, names), name) = Seen(r, last, names \cup {name})
<1> DEFINE x == Seen(r, last, names)
           cache == [m \in names |-> Metadata(last[m])]
           more == [m \in names \cup {name} |-> Metadata(last[m])]
<1>1. x.configs = r.configs /\ x.tenants = r.tenants /\ x.cache = cache
      /\ x = [tenants |-> r.tenants, configs |-> r.configs, cache |-> cache]
  BY DEF Seen
<1>2. r.configs[name] = last[name]
  BY DEF RegistryIsCurrent
<1>3. DOMAIN cache = names
  OBVIOUS
<1> HIDE DEF x
<1>4. CASE name \in names
  <2>1. names \cup {name} = names
    BY <1>4
  <2>2. Described(x, name) = [x EXCEPT !.cache = cache]
    BY <1>1, <1>3, <1>4 DEF Described
  <2> HIDE DEF cache
  <2>3. Described(x, name) = x
    BY <1>1, <2>2
  <2> QED BY <2>1, <2>3 DEF x
<1>5. CASE name \notin names
  <2>1. Described(x, name) = [x EXCEPT !.cache = Put(cache, name, Metadata(last[name]))]
    BY <1>1, <1>2, <1>3, <1>5 DEF Described
  <2>2. Put(cache, name, Metadata(last[name])) = more
    BY DEF Put
  <2> HIDE DEF cache, more
  <2>3. Described(x, name) = [tenants |-> r.tenants, configs |-> r.configs, cache |-> more]
    BY <1>1, <2>1, <2>2
  <2> QED BY <2>3 DEF x, Seen, more
<1> QED BY <1>4, <1>5

LEMMA RegistryIsSeen ==
    ASSUME NEW r, NEW last, RegistryIsCurrent(r, last)
    PROVE  DOMAIN r.cache \in SUBSET DOMAIN last /\ r = Seen(r, last, DOMAIN r.cache)
<1>1. /\ r = [tenants |-> r.tenants, configs |-> r.configs, cache |-> r.cache]
      /\ r.cache = [n \in DOMAIN r.cache |-> Metadata(last[n])]
      /\ DOMAIN r.cache \subseteq DOMAIN last
  BY DEF RegistryIsCurrent
<1> QED BY <1>1, Zenon DEF Seen

LEMMA ListingsFold ==
    ASSUME NEW r, NEW last, RegistryIsCurrent(r, last)
    PROVE  \E t : IsListed(t, r, Len(r.tenants))
<1> DEFINE n == Len(r.tenants)
           B == {Seen(r, last, names) : names \in SUBSET DOMAIN last}
           Step(b, i) == Described(b, r.tenants[i])
           H == [x \in B \X (1 .. n) |-> Step(x[1], x[2])]
           Is(f) == f = [s \in SUBSET (1 .. n) |-> IF s = {} THEN r ELSE Step(f[s \ {Max(s)}], Max(s))]
           f == CHOOSE h : Is(h)
<1>1. n \in Nat /\ DOMAIN r.tenants = 1 .. n /\ \A i \in 1 .. n : r.tenants[i] \in DOMAIN last
  <2>1. r.tenants \in Seq(Codenames) /\ DOMAIN last = Range(r.tenants)
    BY DEF RegistryIsCurrent
  <2> QED BY <2>1 DEF Range
<1> HIDE DEF n
<1>2. r \in B
  BY RegistryIsSeen
<1>3. ASSUME NEW b \in B, NEW i \in 1 .. n PROVE Step(b, i) \in B
  <2>1. PICK names \in SUBSET DOMAIN last : b = Seen(r, last, names)
    OBVIOUS
  <2>2. Step(b, i) = Seen(r, last, names \cup {r.tenants[i]})
    BY <1>1, <2>1, SeenIsDescribed
  <2> QED BY <1>1, <2>2
<1>4. H \in [B \X (1 .. n) -> B] /\ \A b \in B, i \in 1 .. n : H[<<b, i>>] = Step(b, i)
  <2> HIDE DEF B, Step
  <2>1. \A x \in B \X (1 .. n) : Step(x[1], x[2]) \in B
    BY <1>3
  <2> QED BY <2>1
<1>5. \E g : Is(g)
  <2> HIDE DEF H, B, Step
  <2>1. PICK g : IsFold(g, n, B, r, H)
    BY <1>1, <1>2, <1>4, FoldExists
  <2>2. ASSUME NEW s \in SUBSET (1 .. n), s # {}
        PROVE  H[<<g[s \ {Max(s)}], Max(s)>>] = Step(g[s \ {Max(s)}], Max(s))
    <3>1. Max(s) \in 1 .. n
      BY <1>1, <2>2, MaxOfSome
    <3>2. g[s \ {Max(s)}] \in B
      BY <2>1 DEF IsFold
    <3> QED BY <1>4, <3>1, <3>2
  <2>3. g = [s \in SUBSET (1 .. n) |-> g[s]]
    BY <2>1 DEF IsFold
  <2>4. [s \in SUBSET (1 .. n) |-> g[s]]
           = [s \in SUBSET (1 .. n) |-> IF s = {} THEN r ELSE Step(g[s \ {Max(s)}], Max(s))]
    BY <2>1, <2>2 DEF IsFold
  <2> QED BY <2>3, <2>4
<1>6. Is(f)
  <2> HIDE DEF Is
  <2> QED BY <1>5
<1>7. ListedAll(r) = f[1 .. n]
  BY <1>1 DEF ListedAll, FoldLeft, MapThenFoldSet
<1> DEFINE t == [k \in 0 .. n |-> f[1 .. k]]
<1>8. t[0] = r
  <2>1. 1 .. 0 = {} /\ {} \in SUBSET (1 .. n) /\ 0 \in 0 .. n
    BY <1>1
  <2>2. f[{}] = r
    <3> HIDE DEF f
    <3> QED BY <1>6, <2>1
  <2> HIDE DEF f
  <2> QED BY <2>1, <2>2
<1>9. ASSUME NEW k \in 1 .. n PROVE t[k] = Step(t[k - 1], k)
  <2>1. k \in Nat /\ k <= n /\ 1 <= k /\ k \in 1 .. k /\ k \in 0 .. n /\ k - 1 \in 0 .. n
    BY <1>1
  <2>2. Max(1 .. k) = k /\ (1 .. k) \ {k} = 1 .. (k - 1)
    BY <2>1, MaxOfAll
  <2>3. 1 .. k \in SUBSET (1 .. n) /\ 1 .. k # {}
    BY <1>1, <2>1
  <2> HIDE DEF f, Step
  <2>4. f[1 .. k] = Step(f[(1 .. k) \ {Max(1 .. k)}], Max(1 .. k))
    BY <1>6, <2>3
  <2>5. t[k] = f[1 .. k] /\ t[k - 1] = f[1 .. (k - 1)]
    BY <2>1
  <2> QED BY <2>2, <2>4, <2>5
<1>10. t[n] = f[1 .. n]
  BY <1>1
<1> HIDE DEF t, f
<1>11. \A k \in 1 .. n : t[k] = Described(t[k - 1], r.tenants[k])
  BY <1>9
<1>12. IsListed(t, r, n)
  BY <1>7, <1>8, <1>10, <1>11 DEF IsListed
<1> QED BY <1>12 DEF n

\* list_tenants describes every tenant there is by the entry registered last,
\* however the registry came to be (registry.py).
THEOREM AllAreDescribed ==
    ASSUME NEW r, NEW last, RegistryIsCurrent(r, last)
    PROVE  /\ RegistryIsCurrent(ListedAll(r), last) /\ ListedAll(r).tenants = r.tenants
           /\ ListedAll(r).cache = [name \in DOMAIN last |-> Metadata(last[name])]
<1> DEFINE n == Len(r.tenants)
           Names(k) == DOMAIN r.cache \cup {r.tenants[i] : i \in 1 .. k}
<1>1. PICK t : IsListed(t, r, n)
  BY ListingsFold
<1>2. /\ n \in Nat /\ DOMAIN r.tenants = 1 .. n
      /\ DOMAIN last = {r.tenants[i] : i \in 1 .. n} /\ DOMAIN r.cache \subseteq DOMAIN last
  <2>1. r.tenants \in Seq(Codenames) /\ DOMAIN last = Range(r.tenants) /\ DOMAIN r.cache \subseteq DOMAIN last
    BY DEF RegistryIsCurrent
  <2> QED BY <2>1 DEF Range
<1> HIDE DEF n
<1> DEFINE S == {k \in 0 .. n : t[k] = Seen(r, last, Names(k))}
<1>3. 0 \in S
  <2>1. Names(0) = DOMAIN r.cache
    <3>1. 1 .. 0 = {}
      OBVIOUS
    <3> QED BY <3>1
  <2>2. t[0] = r
    BY <1>1 DEF IsListed
  <2> HIDE DEF Names
  <2> QED BY <1>2, <2>1, <2>2, RegistryIsSeen
<1>4. ASSUME NEW k \in 0 .. n - 1, k \in S PROVE k + 1 \in S
  <2> DEFINE j == k + 1
  <2>1. j \in 1 .. n /\ j - 1 = k /\ j \in 0 .. n /\ 1 .. j = (1 .. k) \cup {j}
    BY <1>2
  <2>2. t[k] = Seen(r, last, Names(k))
    BY <1>4
  <2> HIDE DEF j
  <2>3. Names(j) = Names(k) \cup {r.tenants[j]} /\ r.tenants[j] \in DOMAIN last
    BY <1>2, <2>1
  <2>4. Names(k) \in SUBSET DOMAIN last
    BY <1>2, <2>1
  <2> HIDE DEF Names
  <2>5. t[j] = Described(t[k], r.tenants[j])
    BY <1>1, <2>1 DEF IsListed
  <2>6. t[j] = Seen(r, last, Names(j))
    BY <2>2, <2>3, <2>4, <2>5, SeenIsDescribed
  <2> QED BY <2>1, <2>6 DEF j
<1>5. n \in S
  <2> HIDE DEF S
  <2>1. 0 .. n \subseteq S
    BY <1>2, <1>3, <1>4, UpTo
  <2> QED BY <1>2, <2>1
<1>6. Names(n) = DOMAIN last
  BY <1>2
<1> DEFINE new == ListedAll(r)
<1>7. new = Seen(r, last, DOMAIN last)
  <2>1. t[n] = Seen(r, last, Names(n))
    BY <1>5
  <2> HIDE DEF Names, new
  <2> QED BY <1>1, <1>6, <2>1 DEF IsListed, new
<1> HIDE DEF new
<1>8. /\ new.tenants = r.tenants /\ new.configs = r.configs
      /\ new.cache = [name \in DOMAIN last |-> Metadata(last[name])]
      /\ new = [tenants |-> new.tenants, configs |-> new.configs, cache |-> new.cache]
  BY <1>7 DEF Seen
<1>9. DOMAIN new.cache = DOMAIN last
  BY <1>8
<1>10. RegistryIsCurrent(new, last)
  BY <1>8, <1>9 DEF RegistryIsCurrent
<1> QED BY <1>8, <1>10 DEF new

\* What two entries for two tenants make of a client's registry of no directory.
LEMMA TwoAreOverlaid ==
    ASSUME NEW e \in Entries, NEW f \in Entries, e.codename # f.codename
    PROVE  /\ DOMAIN Registry(<< >>, <<e, f>>) = {e.codename, f.codename}
           /\ Registry(<< >>, <<e, f>>)[e.codename] = Overlaid(Unknown, e)
           /\ Registry(<< >>, <<e, f>>)[f.codename] = Overlaid(Unknown, f)
<1> DEFINE config == <<e, f>>
           scanned == {n \in DOMAIN << >> : (<< >>)[n].segments}
           found == [n \in scanned |-> Scanned((<< >>)[n])]
           named == {config[i].codename : i \in 1 .. 2}
           kept == [n \in named |-> IF n \in DOMAIN found THEN found[n] ELSE Unknown]
           last == FoldLeft(LAMBDA all, entry : [all EXCEPT ![entry.codename] = Overlaid(@, entry)], kept, config)
<1>1. config \in [1 .. 2 -> Entries] /\ DOMAIN config = 1 .. 2 /\ config[1] = e /\ config[2] = f
  OBVIOUS
<1>2. named = {e.codename, f.codename}
  BY <1>1
<1>3. Registry(<< >>, config) = last
  <2>1. named # {}
    BY <1>2
  <2>2. {config[i].codename : i \in DOMAIN config} = named
    BY <1>1
  <2> QED BY <2>1, <2>2 DEF Registry, Configured
<1>4. \A n \in named : kept[n] = Unknown
  BY DOMAIN << >> = {}
<1>5. \A n \in named : HonestTenant(kept[n], n, << >>)
  <2>1. \A n : ~(n \in DOMAIN << >> /\ (<< >>)[n].segments)
    BY DOMAIN << >> = {}
  <2> HIDE DEF kept, named
  <2> QED BY <1>4, <2>1, UnknownIsHonest
<1>6. kept \in [named -> TenantRecords] /\ DOMAIN kept = named
  <2>1. kept = [n \in named |-> kept[n]] /\ DOMAIN kept = named
    OBVIOUS
  <2> HIDE DEF kept, named
  <2> QED BY <1>5, <2>1 DEF HonestTenant
<1> HIDE DEF kept
<1>7. PICK t : /\ IsOverlaid(t, kept, 2, config)
               /\ \A k \in 0 .. 2 : t[k] \in [named -> TenantRecords]
  <2> DEFINE n == 2
  <2>1. n \in Nat /\ config \in [1 .. n -> Entries] /\ named = {config[i].codename : i \in 1 .. n}
    BY <1>1
  <2> HIDE DEF n, named, config
  <2>2. \E t : /\ IsOverlaid(t, kept, n, config)
               /\ \A k \in 0 .. n :
                     /\ t[k] \in [{config[i].codename : i \in 1 .. n} -> TenantRecords]
                     /\ \A c \in {config[i].codename : i \in 1 .. n} : HonestTenant(t[k][c], c, << >>)
    BY <1>5, <1>6, <2>1, OverlaysAreHonest
  <2> QED BY <2>1, <2>2 DEF n
<1> HIDE DEF config, named
<1>8. /\ t[1] = [kept EXCEPT ![e.codename] = Overlaid(@, e)]
      /\ t[2] = [t[1] EXCEPT ![f.codename] = Overlaid(@, f)]
      /\ t[2] = last
  <2>1. t[0] = kept /\ t[2] = last
    BY <1>7 DEF IsOverlaid
  <2>2. \A k \in 1 .. 2 : t[k] = [t[k - 1] EXCEPT ![config[k].codename] = Overlaid(@, config[k])]
    BY <1>7 DEF IsOverlaid
  <2>3. 1 \in 1 .. 2 /\ 2 \in 1 .. 2 /\ 1 - 1 = 0 /\ 2 - 1 = 1
    OBVIOUS
  <2> HIDE DEF last
  <2> QED BY <1>1, <2>1, <2>2, <2>3
<1>9. t[1] \in [named -> TenantRecords]
  BY <1>7
<1> HIDE DEF last
<1>10. /\ DOMAIN last = named
       /\ last[e.codename] = t[1][e.codename]
       /\ last[f.codename] = Overlaid(t[1][f.codename], f)
  BY <1>2, <1>8, <1>9
<1>11. t[1][e.codename] = Overlaid(Unknown, e) /\ t[1][f.codename] = Unknown
  BY <1>2, <1>4, <1>6, <1>8
<1> QED BY <1>2, <1>3, <1>10, <1>11 DEF config

\* Lists of one and of two.
LEMMA OneAndTwo ==
    ASSUME NEW a, NEW b
    PROVE  /\ Range(<<a>>) = {a} /\ Range(<<a, b>>) = {a, b}
           /\ Append(<<a>>, b) = <<a, b>> /\ <<a>> \o <<b>> = <<a, b>>
<1>1. DOMAIN <<a>> = {1} /\ DOMAIN <<a, b>> = {1, 2}
  OBVIOUS
<1>2. Range(<<a>>) = {a} /\ Range(<<a, b>>) = {a, b}
  BY <1>1 DEF Range
<1>3. <<a>> \in Seq({a, b}) /\ <<b>> \in Seq({a, b}) /\ <<a, b>> \in Seq({a, b})
  OBVIOUS
<1>4. /\ Len(Append(<<a>>, b)) = 2 /\ Append(<<a>>, b) \in Seq({a, b})
      /\ Append(<<a>>, b)[1] = a /\ Append(<<a>>, b)[2] = b
  BY <1>3
<1>5. /\ Len(<<a>> \o <<b>>) = 2 /\ <<a>> \o <<b>> \in Seq({a, b})
      /\ (<<a>> \o <<b>>)[1] = a /\ (<<a>> \o <<b>>)[2] = b
  BY <1>3
<1>6. ASSUME NEW s \in Seq({a, b}), Len(s) = 2, s[1] = a, s[2] = b PROVE s = <<a, b>>
  BY <1>6
<1> QED BY <1>2, <1>4, <1>5, <1>6

\* What the hub and the client list of two entries, registered one after the
\* other whatever was asked in between, is the same (registry.py,
\* src/cli/internal/tenant).
THEOREM RegistersAgreeForAll ==
    ASSUME NEW e \in Entries, NEW f \in Entries, NEW asked \in BOOLEAN
    PROVE  RegistersAgreeOn(e, f, asked)
<1> DEFINE a == e.codename
           b == f.codename
           first == Register(NoTenants, e)
           then == IF asked THEN ListedAll(first) ELSE first
           both == Register(then, f)
           hub == ListedAll(both)
           client == Registry(<< >>, <<e, f>>)
           last1 == Put(<< >>, a, e)
           last2 == Put(last1, b, f)
<1>1. a \in Codenames /\ b \in Codenames
  BY DEF Entries
<1>2. DOMAIN last1 = {a} /\ last1[a] = e
  BY DOMAIN << >> = {} DEF Put
<1>3. DOMAIN last2 = {a, b} /\ last2[b] = f /\ (a # b => last2[a] = e)
  <2> HIDE DEF last1
  <2> QED BY <1>2 DEF Put
<1>4. RegistryIsCurrent(first, last1)
  BY NoTenantsAreCurrent, RegisterKeepsCurrent
<1>5. first.tenants = <<a>>
  <2>1. Range(<< >>) = {}
    BY DEF Range
  <2>2. first.tenants = Append(<< >>, a)
    BY <2>1 DEF Register, NoTenants
  <2> HIDE DEF first
  <2> QED BY <2>2
<1> HIDE DEF first, last1
<1>6. RegistryIsCurrent(then, last1) /\ then.tenants = <<a>>
  BY <1>4, <1>5, AllAreDescribed
<1> HIDE DEF then
<1>7. RegistryIsCurrent(both, last2)
  BY <1>6, RegisterKeepsCurrent
<1>8. both.tenants = IF b = a THEN <<a>> ELSE <<a, b>>
  <2>1. then = [tenants |-> then.tenants, configs |-> then.configs, cache |-> then.cache]
    BY <1>6 DEF RegistryIsCurrent
  <2>2. both.tenants = IF b \in Range(then.tenants) THEN then.tenants ELSE Append(then.tenants, b)
    BY <2>1 DEF Register
  <2>3. b \in Range(<<a>>) <=> b = a
    BY OneAndTwo
  <2>4. Append(<<a>>, b) = <<a, b>>
    BY OneAndTwo
  <2> HIDE DEF both
  <2> QED BY <1>6, <2>2, <2>3, <2>4
<1> HIDE DEF both, last2
<1>9. /\ hub.tenants = IF a = b THEN <<a>> ELSE <<a, b>>
      /\ hub.cache = [name \in DOMAIN last2 |-> Metadata(last2[name])]
  BY <1>7, <1>8, AllAreDescribed
<1> HIDE DEF hub
<1>10. DOMAIN client = {a, b}
  <2> DEFINE config == <<e, f>>
  <2>1. config \in Seq(Entries) /\ config # << >> /\ DOMAIN config = 1 .. 2 /\ config[1] = e /\ config[2] = f
    OBVIOUS
  <2>2. {config[i].codename : i \in DOMAIN config} = {a, b}
    BY <2>1
  <2>3. \A n \in DOMAIN << >> : (<< >>)[n] \in Directories
    OBVIOUS
  <2> HIDE DEF config
  <2>4. RegistryIsHonestFor(<< >>, config)
    BY <2>1, <2>3, RegistryIsHonestForAll
  <2>5. DOMAIN Registry(<< >>, config) = {config[i].codename : i \in DOMAIN config}
    BY <2>1, <2>4 DEF RegistryIsHonestFor
  <2> QED BY <2>2, <2>5 DEF config
<1>11. hub.cache[b] = Metadata(f) /\ DOMAIN hub.cache = DOMAIN client
  BY <1>3, <1>9, <1>10
<1>12. Range(hub.tenants) = {a, b} /\ hub.tenants # << >>
  <2>1. CASE a = b
    <3>1. hub.tenants = <<a>>
      BY <1>9, <2>1
    <3> QED BY <2>1, <3>1 DEF Range
  <2>2. CASE a # b
    <3>1. hub.tenants = <<a, b>>
      BY <1>9, <2>2
    <3> QED BY <3>1 DEF Range
  <2> QED BY <2>1, <2>2
<1>13. ASSUME NEW n \in Codenames PROVE Routed(hub, n, << >>) = << >> <=> n \in DOMAIN client
  BY <1>10, <1>12 DEF Routed
<1>14. ASSUME a # b, NEW n \in DOMAIN client
       PROVE  /\ hub.cache[n].description = "config" <=> client[n].description = "config"
              /\ Public(hub.cache[n].prefixes) \subseteq client[n].prefixes
              /\ hub.cache[n].prefixes = {} \/ client[n].prefixes \subseteq hub.cache[n].prefixes
  <2>1. ASSUME NEW entry \in Entries
        PROVE  /\ Metadata(entry).description = "config" <=> Overlaid(Unknown, entry).description = "config"
               /\ Public(Metadata(entry).prefixes) \subseteq Overlaid(Unknown, entry).prefixes
               /\ \/ Metadata(entry).prefixes = {}
                  \/ Overlaid(Unknown, entry).prefixes \subseteq Metadata(entry).prefixes
    <3>1. entry.text \in BOOLEAN
      BY DEF Entries
    <3> DEFINE white == From("white", entry.white)
               said == IF entry.white # {} THEN white ELSE From("places", entry.places)
               p == IF Public(said) # {} THEN Public(said) ELSE {}
    <3>2. /\ Metadata(entry).description = IF entry.text THEN "config" ELSE "generated"
          /\ Metadata(entry).prefixes = white
      BY DEF Metadata
    <3>3. /\ Overlaid(Unknown, entry).prefixes = p
          /\ Overlaid(Unknown, entry).description = IF entry.text THEN "config"
                                                    ELSE IF p # {} THEN "prefixes" ELSE "name"
      BY DEF Overlaid, Unknown
    <3>4. p = Public(said) /\ Public(white) \subseteq white
      BY DEF Public
    <3>5. entry.white = {} => white = {} /\ Public(white) = {}
      BY DEF From, Public
    <3>6. entry.white # {} => said = white
      OBVIOUS
    <3> HIDE DEF white, said, p
    <3> QED BY <3>1, <3>2, <3>3, <3>4, <3>5, <3>6
  <2>2. client[a] = Overlaid(Unknown, e) /\ client[b] = Overlaid(Unknown, f)
    BY <1>14, TwoAreOverlaid
  <2>3. hub.cache[a] = Metadata(e) /\ hub.cache[b] = Metadata(f)
    BY <1>3, <1>9, <1>14
  <2>4. n = a \/ n = b
    BY <1>10
  <2> HIDE DEF client
  <2> QED BY <2>1, <2>2, <2>3, <2>4
<1> QED BY <1>9, <1>11, <1>13, <1>14 DEF RegistersAgreeOn, hub, both, then, first

LEMMA RegistersAlwaysAgree == RegistersAgree
  BY RegistersAgreeForAll DEF RegistersAgree, Brief

-----------------------------------------------------------------------------
\* Pages and files.
LEMMA FirstOfThree ==
    ASSUME NEW s \in SUBSET {1, 2, 3}, s # {}
    PROVE  Min(s) = IF 1 \in s THEN 1 ELSE IF 2 \in s THEN 2 ELSE 3
<1> DEFINE n == 3
<1>1. n \in Nat /\ s \in SUBSET (0 .. n)
  OBVIOUS
<1> HIDE DEF n
<1> DEFINE m == Min(s)
<1>2. m \in s /\ \A i \in s : m <= i
  BY <1>1, LeastAndGreatest
<1> HIDE DEF m
<1>3. m \in {1, 2, 3} /\ m \in s /\ (1 \in s => m <= 1) /\ (2 \in s => m <= 2)
  BY <1>2
<1>4. m = IF 1 \in s THEN 1 ELSE IF 2 \in s THEN 2 ELSE 3
  BY <1>3
<1> QED BY <1>4 DEF m

\* Which file of a page is looked at, of all a page may have
\* (TenantApp._fetch_cached).
THEOREM PageIsFetchedForAll == ASSUME NEW c \in Copies PROVE PageIsFetched(c)
<1> DEFINE places == <<"hashed">> \o (IF c.indexed THEN <<"hinted">> ELSE << >>) \o <<"nested">>
           there == {i \in DOMAIN places : c[places[i]] # "none"}
           first == places[Min(there)]
           States == {"none", "legible", "broken"}
<1>1. /\ c.hashed \in States /\ c.hinted \in States /\ c.nested \in States
      /\ c.indexed \in BOOLEAN /\ c.body \in BOOLEAN
      /\ c["hashed"] = c.hashed /\ c["hinted"] = c.hinted /\ c["nested"] = c.nested
  BY DEF Copies
<1>2. FetchCached(c) = IF there = {} THEN IF c.indexed /\ c.body THEN "body" ELSE "nothing"
                       ELSE IF c[first] = "legible" THEN first ELSE "nothing"
  BY DEF FetchCached
<1>3. CASE c.indexed
  <2>1. DOMAIN places = 1 .. 3 /\ places[1] = "hashed" /\ places[2] = "hinted" /\ places[3] = "nested"
    BY <1>3
  <2> HIDE DEF places
  <2>2. /\ 1 \in there <=> c.hashed # "none"
        /\ 2 \in there <=> c.hinted # "none"
        /\ 3 \in there <=> c.nested # "none"
        /\ there \subseteq {1, 2, 3}
    BY <1>1, <2>1
  <2> HIDE DEF there
  <2>3. CASE c.hashed # "none"
    <3>1. Min(there) = 1
      BY <2>2, <2>3, FirstOfThree
    <3> QED BY <1>1, <1>2, <1>3, <2>1, <2>2, <2>3, <3>1 DEF PageIsFetched
  <2>4. CASE c.hashed = "none" /\ c.hinted # "none"
    <3>1. Min(there) = 2
      BY <2>2, <2>4, FirstOfThree
    <3> QED BY <1>1, <1>2, <1>3, <2>1, <2>2, <2>4, <3>1 DEF PageIsFetched
  <2>5. CASE c.hashed = "none" /\ c.hinted = "none" /\ c.nested # "none"
    <3>1. Min(there) = 3
      BY <2>2, <2>5, FirstOfThree
    <3> QED BY <1>1, <1>2, <1>3, <2>1, <2>2, <2>5, <3>1 DEF PageIsFetched
  <2>6. CASE c.hashed = "none" /\ c.hinted = "none" /\ c.nested = "none"
    <3>1. there = {}
      BY <2>2, <2>6
    <3> QED BY <1>1, <1>2, <1>3, <2>6, <3>1 DEF PageIsFetched
  <2> QED BY <2>3, <2>4, <2>5, <2>6
<1>4. CASE ~c.indexed
  <2>1. DOMAIN places = 1 .. 2 /\ places[1] = "hashed" /\ places[2] = "nested"
    BY <1>4
  <2> HIDE DEF places
  <2>2. /\ 1 \in there <=> c.hashed # "none"
        /\ 2 \in there <=> c.nested # "none"
        /\ there \subseteq {1, 2}
    BY <1>1, <2>1
  <2> HIDE DEF there
  <2>3. CASE c.hashed # "none"
    <3>1. Min(there) = 1
      BY <2>2, <2>3, FirstOfThree
    <3> QED BY <1>1, <1>2, <1>4, <2>1, <2>2, <2>3, <3>1 DEF PageIsFetched
  <2>4. CASE c.hashed = "none" /\ c.nested # "none"
    <3>1. Min(there) = 2
      BY <2>2, <2>4, FirstOfThree
    <3> QED BY <1>1, <1>2, <1>4, <2>1, <2>2, <2>4, <3>1 DEF PageIsFetched
  <2>5. CASE c.hashed = "none" /\ c.nested = "none"
    <3>1. there = {}
      BY <2>2, <2>5
    <3> QED BY <1>1, <1>2, <1>4, <2>5, <3>1 DEF PageIsFetched
  <2> QED BY <2>3, <2>4, <2>5
<1> QED BY <1>1, <1>3, <1>4

\* What is left of a list from a place on ends it.
LEMMA RestEndsIt ==
    ASSUME NEW Names, NEW list \in Seq(Names), NEW from \in 1 .. Len(list) + 1
    PROVE  IsSuffix(SubSeq(list, from, Len(list)), list)
<1> DEFINE n == Len(list)
           rest == SubSeq(list, from, n)
           m == Len(rest)
           backRest == Reverse(rest)
           back == Reverse(list)
<1>1. n \in Nat /\ from \in Nat /\ from >= 1 /\ from <= n + 1
  OBVIOUS
<1>2. rest \in Seq(Names) /\ m = n - from + 1 /\ m \in Nat /\ m <= n
      /\ \A i \in 1 .. m : rest[i] = list[from + i - 1]
  BY <1>1
<1> HIDE DEF rest, m
<1>3. /\ backRest \in Seq(Names) /\ Len(backRest) = m /\ \A i \in 1 .. m : backRest[i] = rest[(m - i) + 1]
  <2>1. backRest = [i \in 1 .. m |-> rest[(m - i) + 1]]
    BY DEF Reverse, m
  <2>2. \A i \in 1 .. m : rest[(m - i) + 1] \in Names
    <3>1. \A i \in 1 .. m : (m - i) + 1 \in 1 .. m
      BY <1>2
    <3>2. \A i \in 1 .. m : rest[i] \in Names
      BY <1>2 DEF m
    <3> QED BY <3>1, <3>2
  <2> HIDE DEF backRest
  <2> QED BY <1>2, <2>1, <2>2
<1>4. /\ back \in Seq(Names) /\ Len(back) = n /\ \A i \in 1 .. n : back[i] = list[(n - i) + 1]
  <2>1. back = [i \in 1 .. n |-> list[(n - i) + 1]]
    BY DEF Reverse
  <2>2. \A i \in 1 .. n : list[(n - i) + 1] \in Names
    <3>1. \A i \in 1 .. n : (n - i) + 1 \in 1 .. n
      BY <1>1
    <3> QED BY <3>1
  <2> HIDE DEF back
  <2> QED BY <1>1, <2>1, <2>2
<1> HIDE DEF back, backRest
<1>5. \A i \in 1 .. m : backRest[i] = back[i]
  <2> SUFFICES ASSUME NEW i \in 1 .. m PROVE backRest[i] = back[i]
    OBVIOUS
  <2> DEFINE j == (m - i) + 1
  <2>1. j \in 1 .. m /\ from + j - 1 = (n - i) + 1 /\ i \in 1 .. n
    BY <1>1, <1>2
  <2> HIDE DEF j
  <2>2. rest[j] = list[from + j - 1]
    BY <1>2, <2>1
  <2> QED BY <1>3, <1>4, <2>1, <2>2 DEF j
<1> HIDE DEF n
<1>6. SubSeq(backRest, 1, m) = SubSeq(back, 1, m)
  <2>1. /\ SubSeq(backRest, 1, m) = [i \in 1 .. m |-> backRest[i]]
        /\ SubSeq(back, 1, m) = [i \in 1 .. m |-> back[i]]
    BY <1>1, <1>2, <1>3, <1>4
  <2> QED BY <1>5, <2>1
<1>7. IsPrefix(backRest, back)
  BY <1>2, <1>3, <1>4, <1>6 DEF IsPrefix
<1> QED BY <1>7 DEF IsSuffix, backRest, back, rest, n

\* A file of a moved directory is found at its place or at one that ends it,
\* however deep it lies (TenantApp._fetch_local_file).
THEOREM MovedFileIsFetchedForAll ==
    ASSUME NEW name \in Codenames, NEW below \in Seq(Codenames \cup {"guide"}), below # << >>, NEW moved
    PROVE  MovedFileIsFetched(name, below, moved)
<1> DEFINE Names == Codenames \cup {"guide", "srv"}
           path == <<"srv", name>> \o below
           n == Len(below)
           found == FetchLocal(path, {}, moved, name)
           named == {i \in DOMAIN path : path[i] = name}
           rest == SubSeq(path, Max(named) + 1, Len(path))
<1>1. /\ n \in Nat /\ path \in Seq(Names) /\ Len(path) = n + 2 /\ DOMAIN path = 1 .. n + 2
      /\ path[2] = name /\ \A i \in 1 .. n : path[i + 2] = below[i]
  OBVIOUS
<1>2. name \notin Range(below) => found = IF below \in moved THEN <<"moved", below>> ELSE << >>
  <2> SUFFICES ASSUME name \notin Range(below) PROVE found = IF below \in moved THEN <<"moved", below>> ELSE << >>
    OBVIOUS
  <2> DEFINE above == <<"srv">>
  <2>1. \A i \in DOMAIN below : below[i] # name
    BY DEF Range
  <2>2. name \in Names /\ above \in Seq(Names) /\ below \in Seq(Names)
    OBVIOUS
  <2>3. above \o <<name>> = <<"srv", name>>
    BY OneAndTwo
  <2>4. above \o <<name>> \o below = path
    BY <2>3
  <2> HIDE DEF above, Names, path
  <2>5. above \o <<name>> \o below \notin {}
    OBVIOUS
  <2>6. FetchLocal(above \o <<name>> \o below, {}, moved, name) = IF below \in moved THEN <<"moved", below>> ELSE << >>
    BY <2>1, <2>2, <2>5, MovedFilesAreFound
  <2> QED BY <2>4, <2>6
<1> HIDE DEF path
<1>3. 2 \in named /\ named # {} /\ \A i \in named : i \in 1 .. n + 2
  BY <1>1
<1> HIDE DEF named
<1> DEFINE top == Max(named)
<1>4. top \in named /\ 2 <= top
  <2> DEFINE m == n + 2
  <2>1. m \in Nat /\ named \in SUBSET (0 .. m)
    BY <1>1, <1>3
  <2> HIDE DEF m
  <2> QED BY <1>3, <2>1, LeastAndGreatest
<1>5. found = IF rest # << >> /\ rest \in moved THEN <<"moved", rest>> ELSE << >>
  BY <1>3 DEF FetchLocal, named
<1> HIDE DEF top
<1> DEFINE from == top - 1
<1>6. from \in 1 .. n + 1 /\ top + 1 = from + 2
  BY <1>1, <1>3, <1>4
<1> HIDE DEF from
<1>7. rest = SubSeq(below, from, n)
  <2> DEFINE after == SubSeq(path, from + 2, n + 2)
             end == SubSeq(below, from, n)
  <2>1. from \in Nat /\ from >= 1 /\ from <= n + 1
    BY <1>1, <1>6
  <2>2. /\ after = [i \in 1 .. n - from + 1 |-> path[i + from + 1]]
        /\ end = [i \in 1 .. n - from + 1 |-> below[i + from - 1]]
    BY <1>1, <2>1
  <2>3. \A i \in 1 .. n - from + 1 : path[i + from + 1] = below[i + from - 1]
    <3> SUFFICES ASSUME NEW i \in 1 .. n - from + 1 PROVE path[i + from + 1] = below[i + from - 1]
      OBVIOUS
    <3> DEFINE j == i + from - 1
    <3>1. j \in 1 .. n /\ j + 2 = i + from + 1
      BY <1>1, <2>1
    <3> HIDE DEF j
    <3> QED BY <1>1, <3>1 DEF j
  <2> HIDE DEF after, end
  <2>4. after = end
    BY <2>2, <2>3
  <2> QED BY <1>1, <1>6, <2>4 DEF after, end, top
<1>8. IsSuffix(rest, below)
  BY <1>6, <1>7, RestEndsIt
<1> HIDE DEF found, rest
<1>9. found # << >> => found[2] \in moved /\ IsSuffix(found[2], below)
  BY <1>5, <1>8
<1> QED BY <1>2, <1>9 DEF MovedFileIsFetched, found, path

LEMMA PagesAreAlwaysFetched == PagesAreFetched
<1>1. ASSUME NEW n \in 1 .. 3, NEW below \in [1 .. n -> Codenames \cup {"guide"}]
      PROVE  below \in Seq(Codenames \cup {"guide"}) /\ below # << >>
  <2>1. n \in Nat /\ below \in Seq(Codenames \cup {"guide"}) /\ Len(below) = n /\ n # 0
    OBVIOUS
  <2> QED BY <2>1
<1>2. ASSUME NEW name \in Codenames, NEW n \in 1 .. 3, NEW below \in [1 .. n -> Codenames \cup {"guide"}],
             NEW moved \in SUBSET {SubSeq(below, i, n) : i \in 1 .. n}
      PROVE  MovedFileIsFetched(name, below, moved)
  BY <1>1, MovedFileIsFetchedForAll
<1> QED BY <1>2, PageIsFetchedForAll DEF PagesAreFetched

-----------------------------------------------------------------------------
\* The best documents.
LEMMA LeastIsLeast ==
    ASSUME NEW heap, NEW scores, heap # {}, \A i \in heap : scores[i] \in Nat
    PROVE  Least(scores, heap) \in heap /\ \A j \in heap : scores[Least(scores, heap)] <= scores[j]
<1> DEFINE R == OpToRel(<, Nat)
           V == {scores[i] : i \in heap}
<1>1. PICK x \in V : \A y \in V : <<y, x>> \notin R
  <2>1. V \subseteq Nat /\ V # {}
    OBVIOUS
  <2>2. IsWellFoundedOn(R, Nat)
    BY NatLessThanWellFounded
  <2> HIDE DEF V, R
  <2> QED BY <2>1, <2>2, WFMin
<1>2. \A y \in V : x <= y
  <2>1. V \subseteq Nat
    OBVIOUS
  <2> HIDE DEF V
  <2>2. \A y \in V : ~(y < x)
    BY <1>1, <2>1 DEF OpToRel
  <2>3. x \in Nat
    BY <2>1
  <2> QED BY <2>1, <2>2, <2>3
<1>3. \E i \in heap : \A j \in heap : scores[i] <= scores[j]
  <2>1. PICK i \in heap : scores[i] = x
    BY <1>1
  <2> QED BY <1>2, <2>1
<1> QED BY <1>3 DEF Least

\* What one document makes of a heap.
Kept(scores, k, heap, i) ==
    IF Cardinality(heap) < k THEN heap \cup {i}
    ELSE IF scores[i] > scores[Least(scores, heap)] THEN (heap \ {Least(scores, heap)}) \cup {i} ELSE heap

\* What a heap becomes by one document after another is a chain.
IsHeaped(t, scores, k, n) ==
    /\ t[0] = {} /\ t[n] = Heap(scores, k)
    /\ \A j \in 1 .. n : t[j] = Kept(scores, k, t[j - 1], j)

LEMMA HeapsFold ==
    ASSUME NEW n \in Nat, NEW scores \in [1 .. n -> Nat], NEW k \in Nat
    PROVE  \E t : IsHeaped(t, scores, k, n)
<1> DEFINE B == SUBSET ((1 .. n) \cup UNION {{Least(scores, b)} : b \in SUBSET (1 .. n)})
           ids == [i \in 1 .. n |-> i]
           Step(b, i) == IF Cardinality(b) < k THEN b \cup {ids[i]}
                         ELSE IF scores[ids[i]] > scores[Least(scores, b)]
                         THEN (b \ {Least(scores, b)}) \cup {ids[i]} ELSE b
           H == [x \in B \X (1 .. n) |-> Step(x[1], x[2])]
           Is(f) == f = [s \in SUBSET (1 .. n) |-> IF s = {} THEN {} ELSE Step(f[s \ {Max(s)}], Max(s))]
           f == CHOOSE h : Is(h)
<1>1. {} \in B
  OBVIOUS
<1>2. ASSUME NEW b \in B, NEW i \in 1 .. n PROVE Step(b, i) \in B
  OBVIOUS
<1>3. H \in [B \X (1 .. n) -> B] /\ \A b \in B, i \in 1 .. n : H[<<b, i>>] = Step(b, i)
  <2> HIDE DEF B, Step
  <2>1. \A x \in B \X (1 .. n) : Step(x[1], x[2]) \in B
    BY <1>2
  <2> QED BY <2>1
<1>4. \E g : Is(g)
  <2> HIDE DEF H, B, Step
  <2>1. PICK g : IsFold(g, n, B, {}, H)
    BY <1>1, <1>3, FoldExists
  <2>2. ASSUME NEW s \in SUBSET (1 .. n), s # {}
        PROVE  H[<<g[s \ {Max(s)}], Max(s)>>] = Step(g[s \ {Max(s)}], Max(s))
    <3>1. Max(s) \in 1 .. n
      BY <2>2, MaxOfSome
    <3>2. g[s \ {Max(s)}] \in B
      BY <2>1 DEF IsFold
    <3> QED BY <1>3, <3>1, <3>2
  <2>3. g = [s \in SUBSET (1 .. n) |-> g[s]]
    BY <2>1 DEF IsFold
  <2>4. [s \in SUBSET (1 .. n) |-> g[s]]
           = [s \in SUBSET (1 .. n) |-> IF s = {} THEN {} ELSE Step(g[s \ {Max(s)}], Max(s))]
    BY <2>1, <2>2 DEF IsFold
  <2> QED BY <2>3, <2>4
<1>5. Is(f)
  <2> HIDE DEF Is
  <2> QED BY <1>4
<1>6. Heap(scores, k) = f[1 .. n]
  <2>1. DOMAIN scores = 1 .. n /\ DOMAIN ids = 1 .. n
    OBVIOUS
  <2> QED BY <2>1 DEF Heap, FoldLeft, MapThenFoldSet
<1> DEFINE t == [j \in 0 .. n |-> f[1 .. j]]
<1>7. t[0] = {}
  <2>1. 1 .. 0 = {} /\ {} \in SUBSET (1 .. n)
    OBVIOUS
  <2>2. f[{}] = {}
    <3> HIDE DEF f
    <3> QED BY <1>5
  <2> HIDE DEF f
  <2> QED BY <2>1, <2>2
<1>8. ASSUME NEW j \in 1 .. n PROVE t[j] = Kept(scores, k, t[j - 1], j)
  <2>1. Max(1 .. j) = j /\ (1 .. j) \ {j} = 1 .. (j - 1)
    BY MaxOfAll
  <2>2. 1 .. j \in SUBSET (1 .. n) /\ 1 .. j # {}
    BY BeginningIsPart
  <2>3. ASSUME NEW b PROVE Step(b, j) = Kept(scores, k, b, j)
    BY DEF Kept
  <2> HIDE DEF f, Step
  <2>4. f[1 .. j] = Step(f[(1 .. j) \ {Max(1 .. j)}], Max(1 .. j))
    BY <1>5, <2>2
  <2>5. t[j] = f[1 .. j] /\ t[j - 1] = f[1 .. (j - 1)]
    OBVIOUS
  <2> QED BY <2>1, <2>3, <2>4, <2>5
<1>9. t[n] = f[1 .. n]
  OBVIOUS
<1> HIDE DEF t, f
<1>10. IsHeaped(t, scores, k, n)
  BY <1>6, <1>7, <1>8, <1>9 DEF IsHeaped
<1> QED BY <1>10

\* A heap of the best of the first so many documents.
IsBest(heap, scores, k, m) ==
    /\ heap \in SUBSET (1 .. m) /\ IsFiniteSet(heap) /\ Cardinality(heap) = Lesser(m, k)
    /\ \A i \in heap, d \in (1 .. m) \ heap : scores[d] <= scores[i]

LEMMA BestStayBest ==
    ASSUME NEW k \in Nat \ {0}, NEW n \in Nat, NEW scores \in [1 .. n -> Nat], NEW m \in 0 .. n - 1,
           NEW heap, IsBest(heap, scores, k, m)
    PROVE  IsBest(Kept(scores, k, heap, m + 1), scores, k, m + 1)
<1> DEFINE j == m + 1
           new == Kept(scores, k, heap, j)
           last == Least(scores, heap)
<1>1. /\ heap \in SUBSET (1 .. m) /\ IsFiniteSet(heap) /\ Cardinality(heap) = Lesser(m, k)
      /\ \A i \in heap, d \in (1 .. m) \ heap : scores[d] <= scores[i]
  BY DEF IsBest
<1>2. /\ j \notin heap /\ 1 .. j = (1 .. m) \cup {j} /\ j \in Nat /\ m \in Nat
      /\ \A i \in 1 .. j : scores[i] \in Nat
  BY <1>1
<1> HIDE DEF j
<1>3. Cardinality(heap) = IF m < k THEN m ELSE k
  BY <1>1 DEF Lesser
<1>4. Lesser(j, k) = IF m < k THEN m + 1 ELSE k
  BY DEF Lesser, j
<1>5. CASE m < k
  <2>1. IsFiniteSet(1 .. m) /\ Cardinality(1 .. m) = m
    <3>1. IsFiniteSet(1 .. m) /\ Cardinality(1 .. m) = IF 1 > m THEN 0 ELSE m - 1 + 1
      BY <1>2, FS_Interval
    <3> QED BY <1>2, <3>1
  <2>2. heap = 1 .. m
    BY <1>1, <1>3, <1>5, <2>1, FS_Subset
  <2>3. new = heap \cup {j}
    BY <1>3, <1>5 DEF Kept
  <2> HIDE DEF new
  <2>4. IsFiniteSet(new) /\ Cardinality(new) = m + 1
    <3>1. IsFiniteSet(heap) /\ j \notin heap
      BY <1>1, <1>2
    <3>2. IsFiniteSet(heap \cup {j}) /\ Cardinality(heap \cup {j}) = Cardinality(heap) + 1
      BY <3>1, FS_AddElement
    <3>3. Cardinality(heap) = m
      BY <1>3, <1>5
    <3> QED BY <2>3, <3>2, <3>3
  <2>5. new = 1 .. j
    BY <1>2, <2>2, <2>3
  <2> QED BY <1>4, <1>5, <2>4, <2>5 DEF IsBest, new, j
<1>6. CASE ~(m < k)
  <2>1. Cardinality(heap) = k /\ heap # {}
    BY <1>1, <1>3, <1>6, FS_EmptySet
  <2>2. last \in heap /\ \A i \in heap : scores[last] <= scores[i]
    BY <1>1, <1>2, <2>1, LeastIsLeast
  <2>3. new = IF scores[j] > scores[last] THEN (heap \ {last}) \cup {j} ELSE heap
    BY <2>1 DEF Kept
  <2> HIDE DEF new, last
  <2>4. CASE scores[j] > scores[last]
    <3>1. IsFiniteSet(heap \ {last}) /\ Cardinality(heap \ {last}) = k - 1
      BY <1>1, <2>1, <2>2, FS_RemoveElement
    <3>2. IsFiniteSet(new) /\ Cardinality(new) = k
      <4>1. j \notin heap \ {last}
        BY <1>2
      <4>2. /\ IsFiniteSet((heap \ {last}) \cup {j})
            /\ Cardinality((heap \ {last}) \cup {j}) = Cardinality(heap \ {last}) + 1
        BY <3>1, <4>1, FS_AddElement
      <4> QED BY <2>3, <2>4, <3>1, <4>2
    <3>3. ASSUME NEW i \in new, NEW d \in (1 .. j) \ new PROVE scores[d] <= scores[i]
      <4>1. (i \in heap \/ i = j) /\ (d = last \/ d \in (1 .. m) \ heap)
        BY <1>2, <2>3, <2>4, <3>3
      <4>2. scores[d] <= scores[last]
        BY <1>1, <1>2, <2>2, <4>1
      <4>3. scores[last] <= scores[i]
        <5>1. CASE i \in heap
          BY <2>2, <5>1
        <5>2. CASE i = j
          <6>1. scores[j] \in Nat /\ scores[last] \in Nat
            BY <1>1, <1>2, <2>2
          <6> QED BY <2>4, <5>2, <6>1
        <5> QED BY <4>1, <5>1, <5>2
      <4>4. scores[d] \in Nat /\ scores[last] \in Nat /\ scores[i] \in Nat
        BY <1>1, <1>2, <2>2, <4>1
      <4> QED BY <4>2, <4>3, <4>4
    <3>4. new \in SUBSET (1 .. j)
      BY <1>1, <1>2, <2>3, <2>4
    <3> QED BY <1>4, <1>6, <3>2, <3>3, <3>4 DEF IsBest, new, j
  <2>5. CASE ~(scores[j] > scores[last])
    <3>1. new = heap
      BY <2>3, <2>5
    <3>2. ASSUME NEW i \in heap, NEW d \in (1 .. j) \ heap PROVE scores[d] <= scores[i]
      <4>1. d = j \/ d \in (1 .. m) \ heap
        BY <1>2
      <4>2. CASE d = j
        <5>1. scores[j] <= scores[last] /\ scores[last] <= scores[i]
          BY <1>1, <1>2, <2>2, <2>5
        <5>2. scores[j] \in Nat /\ scores[last] \in Nat /\ scores[i] \in Nat
          BY <1>1, <1>2, <2>2
        <5> QED BY <4>2, <5>1, <5>2
      <4>3. CASE d \in (1 .. m) \ heap
        BY <1>1, <4>3
      <4> QED BY <4>1, <4>2, <4>3
    <3>3. heap \in SUBSET (1 .. j)
      BY <1>1, <1>2
    <3> QED BY <1>1, <1>4, <1>6, <2>1, <3>1, <3>2, <3>3 DEF IsBest, new, j
  <2> QED BY <2>4, <2>5
<1> QED BY <1>5, <1>6

LEMMA HeapIsBest ==
    ASSUME NEW scores \in Seq(Nat), NEW k \in Nat \ {0}
    PROVE  IsBest(Heap(scores, k), scores, k, Len(scores))
<1> DEFINE n == Len(scores)
<1>1. n \in Nat /\ scores \in [1 .. n -> Nat] /\ DOMAIN scores = 1 .. n
  OBVIOUS
<1> HIDE DEF n
<1>2. PICK t : IsHeaped(t, scores, k, n)
  BY <1>1, HeapsFold
<1> DEFINE S == {m \in 0 .. n : IsBest(t[m], scores, k, m)}
<1>3. 0 \in S
  <2>1. t[0] = {}
    BY <1>2 DEF IsHeaped
  <2>2. Lesser(0, k) = 0
    BY DEF Lesser
  <2>3. IsBest({}, scores, k, 0)
    BY <2>2, FS_EmptySet DEF IsBest
  <2>4. 0 \in 0 .. n
    BY <1>1
  <2> QED BY <2>1, <2>3, <2>4
<1>4. ASSUME NEW m \in 0 .. n - 1, m \in S PROVE m + 1 \in S
  <2>1. m + 1 \in 1 .. n /\ (m + 1) - 1 = m /\ m + 1 \in 0 .. n
    BY <1>1
  <2>2. t[m + 1] = Kept(scores, k, t[m], m + 1)
    BY <1>2, <2>1 DEF IsHeaped
  <2>3. IsBest(t[m], scores, k, m)
    BY <1>4
  <2>4. IsBest(t[m + 1], scores, k, m + 1)
    BY <1>1, <2>2, <2>3, BestStayBest
  <2> QED BY <2>1, <2>4
<1>5. IsBest(t[n], scores, k, n)
  <2> HIDE DEF S
  <2>1. 0 .. n \subseteq S
    BY <1>1, <1>3, <1>4, UpTo
  <2>2. n \in S
    BY <1>1, <2>1
  <2> QED BY <2>2 DEF S
<1>6. t[n] = Heap(scores, k)
  BY <1>2 DEF IsHeaped
<1> QED BY <1>5, <1>6 DEF n

\* Of any number of documents, whatever their scores, a heap keeps as many as it
\* may, and the best of them (src/cli/internal/engine).
THEOREM BestAreKeptForAll ==
    ASSUME NEW scores \in Seq(Nat), NEW k \in Nat \ {0} PROVE HeapHasTheBest(scores, k)
  BY HeapIsBest DEF IsBest, HeapHasTheBest

LEMMA BestAreAlwaysKept == BestAreKept
<1>1. ASSUME NEW n \in 1 .. 5, NEW scores \in [1 .. n -> 1 .. 3], NEW k \in 1 .. 3 PROVE HeapHasTheBest(scores, k)
  <2>1. n \in Nat /\ scores \in [1 .. n -> Nat] /\ k \in Nat \ {0}
    OBVIOUS
  <2>2. scores \in Seq(Nat)
    BY <2>1
  <2> QED BY <2>1, <2>2, BestAreKeptForAll
<1> QED BY <1>1 DEF BestAreKept

-----------------------------------------------------------------------------
LEMMA HeapIsFinite ==
    ASSUME NEW scores \in Seq(Nat), NEW k \in Nat \ {0}
    PROVE  IsFiniteSet(Heap(scores, k)) /\ Heap(scores, k) \subseteq DOMAIN scores
  BY HeapIsBest DEF IsBest

\* The best of any number of documents are listed once, the better first
\* (src/cli/internal/engine).
THEOREM ListFallsForAll ==
    ASSUME NEW scores \in Seq(Nat), NEW k \in Nat \ {0} PROVE ListFalls(scores, k)
<1> DEFINE heap == Heap(scores, k)
           order == {p \in heap \X heap : scores[p[1]] >= scores[p[2]]}
           top == TopK(scores, k)
           n == Cardinality(heap)
<1>1. IsFiniteSet(heap) /\ heap \subseteq DOMAIN scores
  BY HeapIsFinite
<1>2. \A i \in heap : scores[i] \in Nat
  BY <1>1
<1>3. top = Sorted(heap, order)
  BY DEF TopK
<1> HIDE DEF heap
<1>4. \A i, j \in heap : <<i, j>> \in order <=> scores[i] >= scores[j]
  OBVIOUS
<1> HIDE DEF order
<1>5. IsOrder(order, heap)
  <2>1. ASSUME NEW i \in heap, NEW j \in heap PROVE <<i, j>> \in order \/ <<j, i>> \in order
    <3>1. scores[i] \in Nat /\ scores[j] \in Nat
      BY <1>2
    <3>2. scores[i] >= scores[j] \/ scores[j] >= scores[i]
      BY <3>1
    <3> QED BY <1>4, <3>2
  <2>2. ASSUME NEW i \in heap, NEW j \in heap, NEW m \in heap, <<i, j>> \in order, <<j, m>> \in order
        PROVE  <<i, m>> \in order
    <3>1. scores[i] \in Nat /\ scores[j] \in Nat /\ scores[m] \in Nat
      BY <1>2
    <3>2. scores[i] >= scores[j] /\ scores[j] >= scores[m]
      BY <1>4, <2>2
    <3> QED BY <1>4, <3>1, <3>2
  <2> QED BY <2>1, <2>2 DEF IsOrder
<1>6. n \in Nat /\ IsListOf(top, heap, order, n)
  BY <1>1, <1>3, <1>5, SortedIs
<1> HIDE DEF n, top
<1>7. DOMAIN top = 1 .. n /\ Range(top) = heap
  BY <1>6 DEF IsListOf, Range
<1>8. IsInjective(top)
  <2>1. ASSUME NEW i \in 1 .. n, NEW j \in 1 .. n, top[i] = top[j] PROVE i = j
    <3>1. i < j \/ j < i \/ i = j
      OBVIOUS
    <3> QED BY <1>6, <2>1, <3>1 DEF IsListOf
  <2> QED BY <1>7, <2>1 DEF IsInjective
<1>9. \A i, j \in DOMAIN top : i < j => scores[top[i]] >= scores[top[j]]
  BY <1>4, <1>6, <1>7 DEF IsListOf
<1> QED BY <1>7, <1>8, <1>9 DEF ListFalls, heap, top

LEMMA ListsAlwaysFall == ListsFall
<1>1. ASSUME NEW n \in 1 .. 5, NEW scores \in [1 .. n -> 1 .. 3], NEW k \in 1 .. 3 PROVE ListFalls(scores, k)
  <2>1. n \in Nat /\ k \in Nat \ {0}
    OBVIOUS
  <2>2. scores \in Seq(Nat)
    BY <2>1
  <2> QED BY <2>1, <2>2, ListFallsForAll
<1> QED BY <1>1 DEF ListsFall

-----------------------------------------------------------------------------
\* The tenants found are the best for any scores, in order, and of equals the
\* ones registered first (root_hub.py).
THEOREM BestIsFoundForAll ==
    ASSUME NEW scores \in Seq(Nat), NEW top \in Nat PROVE BestIsFound(scores, top)
<1> DEFINE enough == {i \in DOMAIN scores : scores[i] > HubThreshold}
           better(i, j) == scores[i] > scores[j] \/ (scores[i] = scores[j] /\ i < j)
           order == {p \in enough \X enough : better(p[1], p[2])}
           ranked == Sorted(enough, order)
           n == Cardinality(enough)
           found == FindTenant(scores, top)
           most == Lesser(top, n)
<1>1. /\ Len(scores) \in Nat /\ DOMAIN scores = 1 .. Len(scores) /\ DOMAIN scores \subseteq Nat
      /\ \A i \in DOMAIN scores : scores[i] \in Nat
  OBVIOUS
<1>2. IsFiniteSet(enough)
  <2>1. 1 \in Int /\ Len(scores) \in Int
    OBVIOUS
  <2>2. IsFiniteSet(1 .. Len(scores))
    BY <2>1, FS_Interval
  <2>3. enough \in SUBSET (1 .. Len(scores))
    OBVIOUS
  <2> HIDE DEF enough
  <2> QED BY <2>2, <2>3, FS_Subset
<1>3. \A i \in DOMAIN scores : i \in enough <=> scores[i] > HubThreshold
  OBVIOUS
<1>4. enough \subseteq DOMAIN scores
  OBVIOUS
<1>5. found = SubSeq(ranked, 1, Lesser(top, Len(ranked)))
  BY DEF FindTenant
<1> HIDE DEF enough
<1>6. \A i, j \in enough : <<i, j>> \in order <=> better(i, j)
  OBVIOUS
<1> HIDE DEF order, ranked, found
<1>7. /\ \A i, j \in DOMAIN scores : i # j => better(i, j) \/ better(j, i)
      /\ \A i, j, k \in DOMAIN scores : better(i, j) /\ better(j, k) => better(i, k)
      /\ \A i, j \in DOMAIN scores : ~(better(i, j) /\ better(j, i)) /\ ~better(i, i)
  BY <1>1
<1>8. IsOrder(order, enough)
  <2> HIDE DEF better
  <2>1. \A i, j \in enough : i # j => <<i, j>> \in order \/ <<j, i>> \in order
    BY <1>4, <1>6, <1>7
  <2>2. \A i, j, k \in enough : <<i, j>> \in order /\ <<j, k>> \in order => <<i, k>> \in order
    BY <1>4, <1>6, <1>7
  <2> QED BY <2>1, <2>2 DEF IsOrder
<1>9. n \in Nat /\ IsListOf(ranked, enough, order, n)
  BY <1>2, <1>8, SortedIs DEF ranked
<1> HIDE DEF n
<1>10. ranked \in Seq(enough) /\ Len(ranked) = n /\ ranked \in [1 .. n -> enough]
  <2>1. ranked \in [1 .. n -> enough]
    BY <1>9 DEF IsListOf
  <2> QED BY <1>9, <2>1
<1>11. most \in 0 .. n /\ most <= top /\ (most = top \/ most = n)
  BY <1>9 DEF Lesser
<1>12. found = [i \in 1 .. most |-> ranked[i]]
  <2>1. found = SubSeq(ranked, 1, most)
    BY <1>5, <1>10
  <2> HIDE DEF most
  <2>2. SubSeq(ranked, 1, most) = [i \in 1 .. most |-> ranked[i]]
    BY <1>9, <1>10, <1>11
  <2> QED BY <2>1, <2>2
<1> HIDE DEF most, better
<1>13. \A i, j \in 1 .. n : i < j => better(ranked[i], ranked[j])
  BY <1>6, <1>9 DEF IsListOf
<1>14. \A i, j \in DOMAIN found : i < j => better(found[i], found[j])
  <2>1. DOMAIN found = 1 .. most /\ \A i \in 1 .. most : i \in 1 .. n /\ found[i] = ranked[i]
    BY <1>9, <1>11, <1>12
  <2> QED BY <1>13, <2>1
<1>15. ASSUME NEW p \in 1 .. n PROVE Cardinality({j \in DOMAIN scores : better(j, ranked[p])}) = p - 1
  <2> DEFINE before == {j \in DOMAIN scores : better(j, ranked[p])}
             g == [q \in 1 .. p - 1 |-> ranked[q]]
  <2>1. ranked[p] \in enough
    BY <1>10
  <2>2. before = {ranked[q] : q \in 1 .. p - 1}
    <3>1. ASSUME NEW q \in 1 .. p - 1 PROVE ranked[q] \in before
      BY <1>4, <1>10, <1>13
    <3>2. ASSUME NEW j \in before PROVE \E q \in 1 .. p - 1 : ranked[q] = j
      <4>1. j \in DOMAIN scores /\ better(j, ranked[p])
        OBVIOUS
      <4>2. j \in enough
        <5>1. scores[j] >= scores[ranked[p]] /\ scores[ranked[p]] > HubThreshold
          BY <1>1, <1>3, <1>4, <2>1, <4>1 DEF better
        <5> QED BY <1>1, <1>3, <1>4, <2>1, <4>1, <5>1 DEF HubThreshold
      <4>3. PICK q \in 1 .. n : ranked[q] = j
        BY <1>9, <4>2 DEF IsListOf
      <4>4. ~(p < q)
        BY <1>4, <1>7, <1>10, <1>13, <2>1, <4>1, <4>3
      <4>5. q # p
        BY <1>4, <1>7, <2>1, <4>1, <4>3
      <4>6. q \in 1 .. p - 1
        BY <4>4, <4>5
      <4> QED BY <4>3, <4>6
    <3> HIDE DEF before
    <3> QED BY <3>1, <3>2
  <2>3. g \in Bijection(1 .. p - 1, before)
    <3>1. \A q, r \in 1 .. p - 1 : g[q] = g[r] => q = r
      <4>1. ASSUME NEW q \in 1 .. p - 1, NEW r \in 1 .. p - 1, ranked[q] = ranked[r] PROVE q = r
        <5>1. q \in 1 .. n /\ r \in 1 .. n /\ (q < r \/ r < q \/ q = r)
          BY <1>9
        <5> QED BY <1>9, <4>1, <5>1 DEF IsListOf
      <4> QED BY <4>1
    <3>2. g \in [1 .. p - 1 -> before] /\ \A j \in before : \E q \in 1 .. p - 1 : g[q] = j
      <4> HIDE DEF before
      <4> QED BY <2>2
    <3>3. DOMAIN g = 1 .. p - 1
      OBVIOUS
    <3> HIDE DEF g, before
    <3>4. IsInjective(g)
      BY <3>1, <3>3 DEF IsInjective
    <3> QED BY <3>2, <3>4 DEF Bijection, Injection, Surjection
  <2>4. IsFiniteSet(1 .. p - 1) /\ Cardinality(1 .. p - 1) = p - 1
    <3>1. 1 \in Int /\ p - 1 \in Int /\ p - 1 >= 0
      OBVIOUS
    <3>2. IsFiniteSet(1 .. p - 1) /\ Cardinality(1 .. p - 1) = IF 1 > p - 1 THEN 0 ELSE p - 1 - 1 + 1
      BY <3>1, FS_Interval
    <3> QED BY <3>1, <3>2
  <2> HIDE DEF g, before
  <2>5. Cardinality(before) = Cardinality(1 .. p - 1)
    BY <2>3, <2>4, FS_Bijection DEF ExistsBijection
  <2> QED BY <2>4, <2>5 DEF before
<1>16. ASSUME NEW i \in DOMAIN scores
       PROVE  (\E j \in DOMAIN found : found[j] = i)
                 <=> scores[i] > HubThreshold /\ Cardinality({j \in DOMAIN scores : better(j, i)}) < top
  <2>1. ASSUME NEW j \in DOMAIN found, found[j] = i
        PROVE  scores[i] > HubThreshold /\ Cardinality({h \in DOMAIN scores : better(h, i)}) < top
    <3>1. j \in 1 .. most /\ ranked[j] = i /\ j \in 1 .. n
      BY <1>9, <1>11, <1>12, <2>1
    <3>2. Cardinality({h \in DOMAIN scores : better(h, i)}) = j - 1
      BY <1>15, <3>1
    <3>3. i \in enough
      BY <1>10, <3>1
    <3> QED BY <1>3, <1>11, <3>1, <3>2, <3>3
  <2>2. ASSUME scores[i] > HubThreshold, Cardinality({h \in DOMAIN scores : better(h, i)}) < top
        PROVE  \E j \in DOMAIN found : found[j] = i
    <3>1. i \in enough
      BY <1>3, <2>2
    <3>2. PICK p \in 1 .. n : ranked[p] = i
      BY <1>9, <3>1 DEF IsListOf
    <3>3. p - 1 < top
      BY <1>15, <2>2, <3>2
    <3>4. p \in 1 .. most
      BY <1>11, <3>3
    <3> QED BY <1>12, <3>2, <3>4
  <2> QED BY <2>1, <2>2
<1> QED BY <1>14, <1>16 DEF BestIsFound, found, better

LEMMA BestAreAlwaysFound == BestAreFound
<1>1. ASSUME NEW n \in 1 .. 4, NEW scores \in [1 .. n -> {0, 60, 300, Whole}], NEW top \in 1 .. 3
      PROVE  BestIsFound(scores, top)
  <2>1. n \in Nat /\ top \in Nat /\ Whole \in Nat
    BY DEF Whole
  <2>2. scores \in Seq(Nat)
    BY <2>1
  <2> QED BY <2>1, <2>2, BestIsFoundForAll
<1> QED BY <1>1 DEF BestAreFound

-----------------------------------------------------------------------------
\* Pieces joined with a mark between them hold each.
LEMMA PieceMarked ==
    ASSUME NEW V, NEW mark, NEW p, mark \in V, p \in Seq(V), NEW w, w = <<mark>> \o p
    PROVE  w \in Seq(V) /\ IsWithin(p, w)
<1>1. PICK t : t = <<mark>>
  OBVIOUS
<1>2. t \in Seq(V)
  BY <1>1
<1>3. Are(p, t, p, w, V)
  BY <1>1, <1>2 DEF Are
<1> QED BY <1>3, WithinItself, WithinMore

IsJoint(s, pieces, mark, n, V) ==
    /\ s \in Seq(V)
    /\ \A i \in 1 .. n : IsWithin(pieces[i], s)
    /\ n = 1 => s = pieces[1]
    /\ n = 2 => s = pieces[1] \o (<<mark>> \o pieces[2])

LEMMA JoinedIs ==
    ASSUME NEW V, NEW mark, NEW n, NEW pieces, mark \in V, n \in Nat \ {0}, pieces \in [1 .. n -> Seq(V)]
    PROVE  IsJoint(Joined(pieces, mark), pieces, mark, n, V)
<1> DEFINE seqs == [i \in DOMAIN pieces |-> IF i = 1 THEN pieces[1] ELSE <<mark>> \o pieces[i]]
<1>1. DOMAIN pieces = 1 .. n /\ n \in Nat /\ n >= 1
  OBVIOUS
<1>2. ASSUME NEW i \in 1 .. n PROVE <<mark>> \o pieces[i] \in Seq(V) /\ IsWithin(pieces[i], <<mark>> \o pieces[i])
  <2>1. pieces[i] \in Seq(V)
    OBVIOUS
  <2> QED BY <2>1, PieceMarked
<1>3. ASSUME NEW i \in 1 .. n PROVE seqs[i] \in Seq(V) /\ IsWithin(pieces[i], seqs[i])
  <2>1. pieces[i] \in Seq(V) /\ seqs[i] = IF i = 1 THEN pieces[1] ELSE <<mark>> \o pieces[i]
    OBVIOUS
  <2> HIDE DEF seqs
  <2>2. CASE i = 1
    BY <2>1, <2>2, WithinItself
  <2>3. CASE i # 1
    BY <1>2, <2>1, <2>3
  <2> QED BY <2>2, <2>3
<1>4. seqs[1] = pieces[1] /\ (n = 2 => seqs[2] = <<mark>> \o pieces[2])
  BY <1>1
<1>5. seqs \in Seq(Seq(V)) /\ Len(seqs) = n /\ seqs # << >>
  <2>1. DOMAIN seqs = 1 .. n
    BY <1>1
  <2>2. seqs = [i \in 1 .. n |-> seqs[i]]
    BY <1>1
  <2> HIDE DEF seqs
  <2>3. seqs \in [1 .. n -> Seq(V)]
    BY <1>3, <2>2
  <2>4. seqs \in Seq(Seq(V)) /\ Len(seqs) = n
    <3> DEFINE W == Seq(V)
    <3>1. seqs \in [1 .. n -> W]
      BY <2>3
    <3> HIDE DEF W
    <3>2. seqs \in Seq(W) /\ Len(seqs) = n
      BY <1>1, <3>1
    <3> QED BY <3>2 DEF W
  <2> QED BY <1>1, <2>4
<1>6. Joined(pieces, mark) = FlattenSeq(seqs)
  BY DEF Joined
<1> HIDE DEF seqs
<1>7. PICK f : /\ f \in [1 .. n -> Seq(V)] /\ f[1] = seqs[1]
               /\ \A k \in 2 .. n : f[k] = f[k - 1] \o seqs[k]
               /\ FlattenSeq(seqs) = f[n]
  BY <1>5, FlattenIs
<1> DEFINE Has(k) == \A i \in 1 .. k : IsWithin(pieces[i], f[k])
           S == {k \in 0 .. n : Has(k)}
<1>8. 0 .. n \subseteq S
  <2>1. 0 \in S
    BY <1>1
  <2>2. ASSUME NEW k \in 0 .. n - 1, k \in S PROVE k + 1 \in S
    <3>1. k + 1 \in 1 .. n /\ (k + 1) - 1 = k /\ k + 1 \in 0 .. n
      BY <1>1
    <3>2. CASE k = 0
      <4>1. f[k + 1] = seqs[1] /\ 1 \in 1 .. n
        BY <1>1, <1>7, <3>2
      <4>2. \A i \in 1 .. k + 1 : i = 1
        BY <3>2
      <4>3. Has(k + 1)
        BY <1>3, <4>1, <4>2
      <4> QED BY <3>1, <4>3
    <3>3. CASE k # 0
      <4>1. k + 1 \in 2 .. n /\ k \in 1 .. n
        BY <1>1, <3>3
      <4>2. f[k] \in Seq(V) /\ seqs[k + 1] \in Seq(V) /\ f[k + 1] = f[k] \o seqs[k + 1]
        <5>1. f[k + 1] = f[(k + 1) - 1] \o seqs[k + 1]
          BY <1>7, <4>1
        <5> QED BY <1>3, <1>7, <3>1, <4>1, <5>1
      <4>3. ASSUME NEW i \in 1 .. k + 1 PROVE IsWithin(pieces[i], f[k + 1])
        <5>1. pieces[i] \in Seq(V)
          BY <3>1
        <5>2. Are(pieces[i], f[k], seqs[k + 1], f[k + 1], V)
          BY <4>2, <5>1 DEF Are
        <5>3. CASE i \in 1 .. k
          <6>1. IsWithin(pieces[i], f[k])
            BY <2>2, <5>3
          <6> QED BY <5>2, <6>1, WithinMore
        <5>4. CASE i = k + 1
          <6>1. IsWithin(pieces[i], seqs[k + 1])
            BY <1>3, <3>1, <5>4
          <6> QED BY <5>2, <6>1, WithinMore
        <5> QED BY <3>1, <5>3, <5>4
      <4> QED BY <3>1, <4>3
    <3> QED BY <3>2, <3>3
  <2> HIDE DEF S
  <2> QED BY <1>1, <2>1, <2>2, UpTo
<1>9. \A i \in 1 .. n : IsWithin(pieces[i], f[n])
  <2>1. n \in S
    BY <1>1, <1>8
  <2> QED BY <2>1
<1>10. f[n] \in Seq(V)
  <2>1. n \in 1 .. n
    BY <1>1
  <2> QED BY <1>7, <2>1
<1>11. n = 2 => f[n] = f[1] \o seqs[2]
  <2>1. n = 2 => 2 \in 2 .. n /\ 2 - 1 = 1
    OBVIOUS
  <2> QED BY <1>7, <2>1
<1>12. n = 2 => f[n] = pieces[1] \o (<<mark>> \o pieces[2])
  BY <1>4, <1>7, <1>11
<1>13. n = 1 => f[n] = pieces[1]
  BY <1>4, <1>7
<1>14. IsJoint(f[n], pieces, mark, n, V)
  BY <1>9, <1>10, <1>12, <1>13 DEF IsJoint
<1>15. Joined(pieces, mark) = f[n]
  BY <1>5, <1>6, <1>7
<1> QED BY <1>14, <1>15

\* A term that a text mentions is written in it.
LEMMA MentionedIsWithin ==
    ASSUME NEW V, NEW mark, mark \in V, NEW text, NEW term,
           NEW m \in 1 .. 2, NEW n \in 1 .. 2, text \in [1 .. m -> Seq(V)], term \in [1 .. n -> Seq(V)],
           Mentions(text, term)
    PROVE  IsWithin(Joined(term, mark), Joined(text, mark))
<1>1. m \in Nat \ {0} /\ n \in Nat \ {0}
  OBVIOUS
<1>2. /\ Len(text) = m /\ Len(term) = n /\ DOMAIN term = 1 .. n
      /\ \A i \in 1 .. m : text[i] \in Seq(V)
      /\ \A i \in 1 .. n : term[i] \in Seq(V)
  BY <1>1
<1>3. PICK s : s = Joined(term, mark) /\ IsJoint(s, term, mark, n, V)
  BY <1>1, JoinedIs
<1>4. PICK t : t = Joined(text, mark) /\ IsJoint(t, text, mark, m, V)
  BY <1>1, JoinedIs
<1>5. PICK i \in 1 .. m - n + 1 :
         IF n = 1 THEN IsWithin(term[1], text[i])
         ELSE IsSuffix(term[1], text[i]) /\ IsPrefix(Last(term), text[i + n - 1])
  BY <1>2 DEF Mentions
<1>6. CASE n = 1
  <2>1. i \in 1 .. m /\ 1 \in 1 .. n
    BY <1>5, <1>6
  <2>2. text[i] \in Seq(V) /\ term[1] \in Seq(V) /\ s = term[1] /\ t \in Seq(V) /\ IsWithin(text[i], t)
    BY <1>2, <1>3, <1>4, <1>6, <2>1 DEF IsJoint
  <2>3. IsWithin(term[1], text[i])
    BY <1>5, <1>6
  <2>4. IsWithin(term[1], t)
    BY <2>2, <2>3, WithinTwice
  <2> QED BY <1>3, <1>4, <2>2, <2>4
<1>7. CASE n = 2
  <2>1. m = 2 /\ i = 1 /\ i + n - 1 = 2
    BY <1>5, <1>7
  <2>2. term[1] \in Seq(V) /\ term[2] \in Seq(V) /\ text[1] \in Seq(V) /\ text[2] \in Seq(V)
    BY <1>2, <1>7, <2>1
  <2>3. Last(term) = term[2]
    BY <1>2, <1>7 DEF Last
  <2>4. IsSuffix(term[1], text[1]) /\ IsPrefix(term[2], text[2])
    BY <1>5, <1>7, <2>1, <2>3
  <2>5. s = term[1] \o (<<mark>> \o term[2]) /\ t = text[1] \o (<<mark>> \o text[2])
    BY <1>3, <1>4, <1>7, <2>1 DEF IsJoint
  <2>6. AreJoints(V, mark, term[1], term[2], text[1], text[2], s, t)
    BY <2>2, <2>4, <2>5 DEF AreJoints
  <2>7. IsWithin(s, t)
    BY <2>6, WithinJoint
  <2> QED BY <1>3, <1>4, <2>7
<1> QED BY <1>6, <1>7

\* What a term is worth in a text: the whole of its eight tenths if the text holds
\* it, five or more if one typing error makes one of its words of it.
Hyphenated(term) == Joined(term, "-")
WordsOf(text) == {w \in UNION {Range(text[i]) : i \in DOMAIN text} : Len(w) >= 3}
DistancesTo(word, text) == {Levenshtein(word, w, 2) : w \in IF Len(word) >= 3 THEN WordsOf(text) ELSE {}}

LEMMA WorthIs ==
    ASSUME NEW term, NEW text
    PROVE  /\ Worth(term, text) \in 0 .. 8
           /\ IsWithin(Hyphenated(term), Written(text)) => Worth(term, text) = 8
           /\ DistancesTo(Hyphenated(term), text) \cap 0 .. 1 # {} => Worth(term, text) >= 5
<1> DEFINE word == Hyphenated(term)
           distances == DistancesTo(word, text)
           S == {0} \cup {7 - 2 * d : d \in distances \cap 0 .. 2}
<1>1. Worth(term, text) = IF IsWithin(word, Written(text)) THEN 8 ELSE Max(S)
  BY Zenon DEF Worth, Hyphenated, DistancesTo, WordsOf
<1> HIDE DEF word, distances
<1>2. S \in SUBSET (0 .. 8) /\ S # {}
  OBVIOUS
<1>3. distances \cap 0 .. 1 # {} => \E x \in S : x >= 5
  <2>1. ASSUME NEW d \in distances \cap 0 .. 1 PROVE 7 - 2 * d \in S /\ 7 - 2 * d >= 5
    OBVIOUS
  <2> HIDE DEF S
  <2> QED BY <2>1
<1> HIDE DEF S
<1>4. Max(S) \in S /\ \A x \in S : x <= Max(S)
  BY <1>2, LeastAndGreatest, 8 \in Nat
<1>5. Max(S) \in 0 .. 8
  BY <1>2, <1>4
<1>6. ASSUME distances \cap 0 .. 1 # {} PROVE Max(S) >= 5
  <2>1. PICK x \in S : x >= 5
    BY <1>3, <1>6
  <2>2. x \in 0 .. 8 /\ x <= Max(S)
    BY <1>2, <1>4
  <2> QED BY <1>5, <2>1, <2>2
<1> QED BY <1>1, <1>5, <1>6 DEF word, distances

\* What the terms of a query are worth together.
IsSum(t, query, n, text) ==
    /\ t \in [0 .. n -> Nat] /\ t[0] = 0
    /\ \A k \in 1 .. n : t[k] = t[k - 1] + Worth(query[k], text)
    /\ FoldLeft(LAMBDA sum, term : sum + Worth(term, text), 0, query) = t[n]

LEMMA SumExists ==
    ASSUME NEW text, NEW n \in Nat, NEW query, DOMAIN query = 1 .. n
    PROVE  \E t : IsSum(t, query, n, text)
<1> DEFINE B == Nat
           Step(b, i) == b + Worth(query[i], text)
           H == [x \in B \X (1 .. n) |-> Step(x[1], x[2])]
           Is(f) == f = [s \in SUBSET (1 .. n) |-> IF s = {} THEN 0 ELSE Step(f[s \ {Max(s)}], Max(s))]
           f == CHOOSE h : Is(h)
<1>1. 0 \in B
  OBVIOUS
<1>2. ASSUME NEW b \in B, NEW i \in 1 .. n PROVE Step(b, i) \in B
  <2>1. Worth(query[i], text) \in 0 .. 8
    BY WorthIs
  <2> QED BY <2>1
<1>3. H \in [B \X (1 .. n) -> B] /\ \A b \in B, i \in 1 .. n : H[<<b, i>>] = Step(b, i)
  <2> HIDE DEF B, Step
  <2>1. \A x \in B \X (1 .. n) : Step(x[1], x[2]) \in B
    BY <1>2
  <2> QED BY <2>1
<1>4. \E g : Is(g)
  <2> HIDE DEF H, B, Step
  <2>1. PICK g : IsFold(g, n, B, 0, H)
    BY <1>1, <1>3, FoldExists
  <2>2. ASSUME NEW s \in SUBSET (1 .. n), s # {}
        PROVE  H[<<g[s \ {Max(s)}], Max(s)>>] = Step(g[s \ {Max(s)}], Max(s))
    <3>1. Max(s) \in 1 .. n
      BY <2>2, MaxOfSome
    <3>2. g[s \ {Max(s)}] \in B
      BY <2>1 DEF IsFold
    <3> QED BY <1>3, <3>1, <3>2
  <2>3. g = [s \in SUBSET (1 .. n) |-> g[s]]
    BY <2>1 DEF IsFold
  <2>4. [s \in SUBSET (1 .. n) |-> g[s]]
           = [s \in SUBSET (1 .. n) |-> IF s = {} THEN 0 ELSE Step(g[s \ {Max(s)}], Max(s))]
    BY <2>1, <2>2 DEF IsFold
  <2> QED BY <2>3, <2>4
<1>5. Is(f)
  <2> HIDE DEF Is
  <2> QED BY <1>4
<1> DEFINE last == FoldLeft(LAMBDA sum, term : sum + Worth(term, text), 0, query)
<1>6. last = f[1 .. n]
  BY DEF FoldLeft, MapThenFoldSet
<1> HIDE DEF last
<1> DEFINE t == [k \in 0 .. n |-> f[1 .. k]]
<1>7. t[0] = 0
  <2>1. 1 .. 0 = {} /\ {} \in SUBSET (1 .. n)
    OBVIOUS
  <2>2. f[{}] = 0
    <3> HIDE DEF f
    <3> QED BY <1>5
  <2> HIDE DEF f
  <2> QED BY <2>1, <2>2
<1>8. ASSUME NEW k \in 1 .. n PROVE t[k] = Step(t[k - 1], k)
  <2>1. Max(1 .. k) = k /\ (1 .. k) \ {k} = 1 .. (k - 1)
    BY MaxOfAll
  <2>2. 1 .. k \in SUBSET (1 .. n) /\ 1 .. k # {}
    BY BeginningIsPart
  <2> HIDE DEF f, Step
  <2>3. f[1 .. k] = Step(f[(1 .. k) \ {Max(1 .. k)}], Max(1 .. k))
    BY <1>5, <2>2
  <2>4. t[k] = f[1 .. k] /\ t[k - 1] = f[1 .. (k - 1)]
    OBVIOUS
  <2> QED BY <2>1, <2>3, <2>4
<1>9. t[n] = last /\ t = [k \in 0 .. n |-> t[k]]
  <2> HIDE DEF f
  <2> QED BY <1>6
<1> HIDE DEF t, f
<1>10. t \in [0 .. n -> B]
  <2> DEFINE S == {k \in 0 .. n : t[k] \in B}
  <2> HIDE DEF B, Step
  <2>1. 0 \in S
    BY <1>1, <1>7
  <2>2. ASSUME NEW k \in 0 .. n - 1, k \in S PROVE k + 1 \in S
    <3>1. k + 1 \in 1 .. n /\ (k + 1) - 1 = k /\ k + 1 \in 0 .. n
      OBVIOUS
    <3>2. t[k + 1] = Step(t[k], k + 1)
      BY <1>8, <3>1
    <3> QED BY <1>2, <2>2, <3>1, <3>2
  <2> HIDE DEF S
  <2>3. 0 .. n \subseteq S
    BY <2>1, <2>2, UpTo
  <2>4. \A k \in 0 .. n : t[k] \in B
    BY <2>3 DEF S
  <2> QED BY <1>9, <2>4
<1>11. IsSum(t, query, n, text)
  BY <1>7, <1>8, <1>9, <1>10 DEF IsSum, last
<1> QED BY <1>11

\* The sum is not less than what one term is worth, nor than what those that the
\* text holds are worth.
LEMMA SumIsEnough ==
    ASSUME NEW text, NEW n \in Nat, NEW query, NEW t, IsSum(t, query, n, text)
    PROVE  /\ \A i \in 1 .. n : Worth(query[i], text) <= t[n]
           /\ \A held \in SUBSET (1 .. n) :
                 (\A i \in held : Worth(query[i], text) = 8) => 8 * Cardinality(held) <= t[n]
<1>1. t \in [0 .. n -> Nat] /\ t[0] = 0 /\ \A k \in 1 .. n : t[k] = t[k - 1] + Worth(query[k], text)
  BY DEF IsSum
<1>2. \A k \in 1 .. n : Worth(query[k], text) \in 0 .. 8
  BY WorthIs
<1>5. ASSUME NEW k \in 0 .. n - 1
      PROVE  t[k + 1] = t[k] + Worth(query[k + 1], text) /\ t[k] \in Nat /\ Worth(query[k + 1], text) \in Nat
  <2>1. k + 1 \in 1 .. n /\ (k + 1) - 1 = k /\ k \in 0 .. n
    OBVIOUS
  <2>2. t[k + 1] = t[(k + 1) - 1] + Worth(query[k + 1], text)
    BY <1>1, <2>1
  <2>3. Worth(query[k + 1], text) \in 0 .. 8 /\ t[k] \in Nat
    BY <1>1, <1>2, <2>1
  <2> QED BY <2>1, <2>2, <2>3
<1>3. ASSUME NEW i \in 1 .. n PROVE Worth(query[i], text) <= t[n]
  <2> DEFINE S == {k \in 0 .. n : i <= k => Worth(query[i], text) <= t[k]}
  <2>1. 0 \in S
    OBVIOUS
  <2>2. ASSUME NEW k \in 0 .. n - 1, k \in S PROVE k + 1 \in S
    <3>1. k + 1 \in 1 .. n /\ (k + 1) - 1 = k /\ k \in 0 .. n
      OBVIOUS
    <3>2. t[k + 1] = t[k] + Worth(query[k + 1], text) /\ t[k] \in Nat /\ Worth(query[k + 1], text) \in Nat
      BY <1>5
    <3>3. i <= k => Worth(query[i], text) <= t[k]
      BY <2>2
    <3>4. Worth(query[i], text) \in Nat
      BY <1>2
    <3>5. CASE i <= k
      BY <3>1, <3>2, <3>3, <3>4, <3>5
    <3>6. CASE ~(i <= k)
      <4>1. i <= k + 1 => i = k + 1
        BY <3>6
      <4> QED BY <3>1, <3>2, <4>1
    <3> QED BY <3>5, <3>6
  <2> HIDE DEF S
  <2>3. n \in S
    BY <2>1, <2>2, UpTo, n \in 0 .. n
  <2> QED BY <2>3 DEF S
<1>4. ASSUME NEW held \in SUBSET (1 .. n), \A i \in held : Worth(query[i], text) = 8
      PROVE  8 * Cardinality(held) <= t[n]
  <2> DEFINE Upto(k) == held \cap (1 .. k)
             S == {k \in 0 .. n : 8 * Cardinality(Upto(k)) <= t[k]}
  <2>0. ASSUME NEW k \in 0 .. n PROVE IsFiniteSet(Upto(k)) /\ Cardinality(Upto(k)) \in Nat
    <3>1. Upto(k) \in SUBSET (1 .. n)
      OBVIOUS
    <3> HIDE DEF Upto
    <3>2. IsFiniteSet(Upto(k)) /\ Cardinality(Upto(k)) \in 0 .. n
      BY <3>1, SharesOfParts
    <3> QED BY <3>2
  <2>1. 0 \in S
    <3>1. Upto(0) = {}
      OBVIOUS
    <3> QED BY <1>1, <3>1, FS_EmptySet
  <2>2. ASSUME NEW k \in 0 .. n - 1, k \in S PROVE k + 1 \in S
    <3>1. k + 1 \in 1 .. n /\ (k + 1) - 1 = k /\ k \in 0 .. n /\ k + 1 \in 0 .. n
      OBVIOUS
    <3>2. t[k + 1] = t[k] + Worth(query[k + 1], text) /\ t[k] \in Nat /\ Worth(query[k + 1], text) \in Nat
      BY <1>5
    <3>3. 8 * Cardinality(Upto(k)) <= t[k]
      BY <2>2
    <3>4. CASE k + 1 \in held
      <4>1. Upto(k + 1) = Upto(k) \cup {k + 1} /\ k + 1 \notin Upto(k)
        BY <3>1, <3>4
      <4>2. Worth(query[k + 1], text) = 8
        BY <1>4, <3>4
      <4>3. IsFiniteSet(Upto(k)) /\ Cardinality(Upto(k)) \in Nat
        BY <2>0, <3>1
      <4> HIDE DEF Upto
      <4>4. Cardinality(Upto(k + 1)) = Cardinality(Upto(k)) + 1
        BY <4>1, <4>3, FS_AddElement
      <4>5. 8 * Cardinality(Upto(k + 1)) <= t[k + 1]
        BY <3>2, <3>3, <4>2, <4>3, <4>4
      <4> QED BY <3>1, <4>5
    <3>5. CASE k + 1 \notin held
      <4>1. Upto(k + 1) = Upto(k)
        BY <3>1, <3>5
      <4>2. Cardinality(Upto(k)) \in Nat
        BY <2>0, <3>1
      <4> HIDE DEF Upto
      <4>3. 8 * Cardinality(Upto(k + 1)) <= t[k + 1]
        BY <3>2, <3>3, <4>1, <4>2
      <4> QED BY <3>1, <4>3
    <3> QED BY <3>4, <3>5
  <2>3. Upto(n) = held
    OBVIOUS
  <2> HIDE DEF S, Upto
  <2>4. n \in S
    BY <2>1, <2>2, UpTo, n \in 0 .. n
  <2> QED BY <2>3, <2>4 DEF S
<1> QED BY <1>3, <1>4

\* How the hub writes a text.  Glyphs: what it is written with.
Hyphen == "-"
Blank == " "
Glyphs == Letters \cup {Hyphen, Blank}
Apart(text) == [i \in DOMAIN text |-> Hyphenated(text[i])]
AsWords(parts) == [i \in DOMAIN parts |-> <<parts[i]>>]
IsTerm(term, n) == n \in 1 .. 2 /\ term \in [1 .. n -> Seq(Letters)]

LEMMA GlyphsAre == Hyphen \in Glyphs /\ Blank \in Glyphs /\ \A s \in Seq(Letters) : s \in Seq(Glyphs)
<1>1. Letters \subseteq Glyphs /\ Hyphen \in Glyphs /\ Blank \in Glyphs
  BY DEF Glyphs
<1> QED BY <1>1, SeqMonotonic

LEMMA WrittenIs == ASSUME NEW text PROVE Written(text) = Joined(Apart(text), Blank)
  BY Zenon DEF Written, Apart, Hyphenated, Blank

LEMMA HyphenatedIs ==
    ASSUME NEW term, NEW n, IsTerm(term, n)
    PROVE  IsJoint(Hyphenated(term), term, Hyphen, n, Glyphs)
<1>1. n \in Nat \ {0} /\ Hyphen \in Glyphs
  BY GlyphsAre DEF IsTerm
<1>2. term \in [1 .. n -> Seq(Glyphs)]
  BY GlyphsAre DEF IsTerm
<1>3. IsJoint(Joined(term, Hyphen), term, Hyphen, n, Glyphs)
  BY <1>1, <1>2, JoinedIs
<1>4. Hyphenated(term) = Joined(term, Hyphen)
  BY Zenon DEF Hyphenated, Hyphen
<1> QED BY <1>3, <1>4

\* A text that is one term, and one that is words.
LEMMA WrittenOne ==
    ASSUME NEW term, NEW n, IsTerm(term, n)
    PROVE  Written(<<term>>) = Hyphenated(term)
<1> DEFINE pieces == Apart(<<term>>)
<1>1. DOMAIN pieces = 1 .. 1 /\ pieces[1] = Hyphenated(term) /\ pieces = [i \in 1 .. 1 |-> pieces[i]]
  <2>1. DOMAIN <<term>> = 1 .. 1 /\ <<term>>[1] = term /\ 1 \in 1 .. 1
    OBVIOUS
  <2> QED BY <2>1 DEF Apart
<1>2. Hyphenated(term) \in Seq(Glyphs)
  BY HyphenatedIs DEF IsJoint
<1> HIDE DEF pieces
<1>3. pieces \in [1 .. 1 -> Seq(Glyphs)] /\ 1 \in Nat \ {0}
  BY <1>1, <1>2
<1>4. IsJoint(Joined(pieces, Blank), pieces, Blank, 1, Glyphs)
  BY <1>3, GlyphsAre, JoinedIs
<1>5. Joined(pieces, Blank) = pieces[1]
  BY <1>4 DEF IsJoint
<1> QED BY <1>1, <1>5, WrittenIs DEF pieces

LEMMA WordIs ==
    ASSUME NEW p \in Seq(Letters)
    PROVE  Hyphenated(<<p>>) = p /\ p \in Seq(Glyphs)
<1>1. IsTerm(<<p>>, 1) /\ <<p>>[1] = p
  BY DEF IsTerm
<1> QED BY <1>1, HyphenatedIs, GlyphsAre DEF IsJoint

LEMMA WordsAreWithin ==
    ASSUME NEW parts, NEW n, IsTerm(parts, n), NEW i \in 1 .. n
    PROVE  IsWithin(parts[i], Written(AsWords(parts)))
<1> DEFINE pieces == Apart(AsWords(parts))
<1>1. n \in Nat \ {0} /\ DOMAIN parts = 1 .. n /\ \A j \in 1 .. n : parts[j] \in Seq(Letters)
  BY DEF IsTerm
<1>2. DOMAIN pieces = 1 .. n /\ pieces = [j \in 1 .. n |-> Hyphenated(<<parts[j]>>)]
  BY <1>1 DEF Apart, AsWords
<1>3. \A j \in 1 .. n : Hyphenated(<<parts[j]>>) = parts[j] /\ parts[j] \in Seq(Glyphs)
  BY <1>1, WordIs
<1> HIDE DEF pieces
<1>4. pieces \in [1 .. n -> Seq(Glyphs)] /\ pieces[i] = parts[i]
  BY <1>2, <1>3
<1>5. IsJoint(Joined(pieces, Blank), pieces, Blank, n, Glyphs)
  BY <1>1, <1>4, GlyphsAre, JoinedIs
<1>6. IsWithin(pieces[i], Joined(pieces, Blank))
  BY <1>5 DEF IsJoint
<1> QED BY <1>4, <1>6, WrittenIs DEF pieces

\* What the client takes to be in a text is worth its eight tenths to the hub.
LEMMA PartIsWorth ==
    ASSUME NEW name, NEW n, IsTerm(name, n), NEW i \in 1 .. n
    PROVE  Worth(<<name[i]>>, <<name>>) = 8
<1>1. name[i] \in Seq(Letters)
  BY DEF IsTerm
<1>2. Hyphenated(<<name[i]>>) = name[i]
  BY <1>1, WordIs
<1>3. IsWithin(name[i], Hyphenated(name))
  BY HyphenatedIs DEF IsJoint
<1>4. IsWithin(Hyphenated(<<name[i]>>), Written(<<name>>))
  BY <1>2, <1>3, WrittenOne
<1> QED BY <1>4, WorthIs

LEMMA WordIsWorth ==
    ASSUME NEW parts, NEW n, IsTerm(parts, n), NEW i \in 1 .. n
    PROVE  Worth(<<parts[i]>>, AsWords(parts)) = 8
<1>1. parts[i] \in Seq(Letters)
  BY DEF IsTerm
<1>2. Hyphenated(<<parts[i]>>) = parts[i]
  BY <1>1, WordIs
<1>3. IsWithin(Hyphenated(<<parts[i]>>), Written(AsWords(parts)))
  BY <1>2, WordsAreWithin
<1> QED BY <1>3, WorthIs

LEMMA MentionIsWorth ==
    ASSUME NEW text, NEW m, IsTerm(text, m), NEW term, NEW n, IsTerm(term, n), Mentions(text, term)
    PROVE  Worth(term, <<text>>) = 8
<1>1. m \in 1 .. 2 /\ n \in 1 .. 2 /\ Hyphen \in Glyphs
  BY GlyphsAre DEF IsTerm
<1>2. text \in [1 .. m -> Seq(Glyphs)] /\ term \in [1 .. n -> Seq(Glyphs)]
  BY GlyphsAre DEF IsTerm
<1>3. IsWithin(Joined(term, Hyphen), Joined(text, Hyphen))
  BY <1>1, <1>2, MentionedIsWithin
<1>4. Hyphenated(term) = Joined(term, Hyphen) /\ Hyphenated(text) = Joined(text, Hyphen)
  BY Zenon DEF Hyphenated, Hyphen
<1>5. IsWithin(Hyphenated(term), Written(<<text>>))
  BY <1>3, <1>4, WrittenOne
<1> QED BY <1>5, WorthIs

LEMMA TypingErrorIsWorth ==
    ASSUME NEW name, NEW n, IsTerm(name, n), NEW query, 1 \in Near(name, query),
           \A i \in DOMAIN query : \E k : IsTerm(query[i], k)
    PROVE  \E i \in DOMAIN query : Worth(query[i], <<name>>) >= 5
<1>1. DOMAIN name = 1 .. n /\ \A j \in 1 .. n : name[j] \in Seq(Letters)
  BY DEF IsTerm
<1>2. PICK i \in DOMAIN query, j \in 1 .. n :
         /\ Len(query[i]) = 1 /\ Len(query[i][1]) >= 3 /\ Len(name[j]) >= 3
         /\ CliLevenshtein(query[i][1], name[j], 2) = 1
  BY <1>1 DEF Near
<1> DEFINE p == query[i][1]
<1>3. p \in Seq(Letters) /\ query[i] = <<p>>
  <2>1. PICK k : IsTerm(query[i], k)
    OBVIOUS
  <2>2. k \in 1 .. 2 /\ query[i] \in [1 .. k -> Seq(Letters)] /\ Len(query[i]) = k
    BY <2>1 DEF IsTerm
  <2> QED BY <1>2, <2>2
<1>4. Hyphenated(query[i]) = p
  BY <1>3, WordIs
<1>5. Levenshtein(p, name[j], 2) \in 0 .. 1
  <2>1. name[j] \in Seq(Letters) /\ 2 \in Nat /\ 1 \in 0 .. 2
    BY <1>1
  <2>2. CliLevenshtein(p, name[j], 2) <= 1
    BY <1>2
  <2> HIDE DEF p
  <2>3. Levenshtein(p, name[j], 2) <= 1
    BY <1>3, <2>1, <2>2, LevenshteinIsDistance
  <2>4. Levenshtein(p, name[j], 2) \in Nat
    BY <1>3, <2>1, LevenshteinIsANumber
  <2> QED BY <2>3, <2>4
<1>6. name[j] \in WordsOf(<<name>>)
  <2>1. DOMAIN <<name>> = 1 .. 1 /\ <<name>>[1] = name /\ name[j] \in Range(name)
    BY <1>1 DEF Range
  <2> QED BY <1>2, <2>1 DEF WordsOf
<1>7. Levenshtein(p, name[j], 2) \in DistancesTo(p, <<name>>)
  BY <1>2, <1>6 DEF DistancesTo
<1>8. DistancesTo(Hyphenated(query[i]), <<name>>) \cap 0 .. 1 # {}
  BY <1>4, <1>5, <1>7
<1> QED BY <1>8, WorthIs

\* A field of a tenant: what its score is, and when it is more than the least.
IsQuery(query, n) == n \in 1 .. 14 /\ DOMAIN query = 1 .. n /\ Len(query) = n
IsFieldScore(score, weight, text, n, query) ==
    /\ score \in Nat
    /\ IsWithin(Written(query), Written(text)) => score = 300 * weight
    /\ weight = 6 /\ (\E i \in 1 .. n : Worth(query[i], text) >= 5) => score > 60 /\ (n = 1 => score >= 600)
    /\ weight = 5 /\ (\E i \in 1 .. n : Worth(query[i], text) = 8) => score > 60
    /\ \A held \in SUBSET (1 .. n) :
          (\A i \in held : Worth(query[i], text) = 8) /\ (300 * Cardinality(held)) \div n > 60 => score > 60

LEMMA FieldScoreIs ==
    ASSUME NEW field, NEW n, NEW query, field.weight \in {2, 5, 6}, IsQuery(query, n)
    PROVE  IsFieldScore(FieldScore(field, query), field.weight, field.text, n, query)
<1> DEFINE w == field.weight
           text == field.text
           score == FieldScore(field, query)
           last == FoldLeft(LAMBDA sum, term : sum + Worth(term, field.text), 0, query)
           within == IsWithin(Written(query), Written(text))
<1>0. /\ n \in Nat /\ n \in Nat \ {0} /\ w \in {2, 5, 6}
      /\ n \in 1 .. 14 /\ DOMAIN query = 1 .. n /\ Len(query) = n
  BY DEF IsQuery
<1>1. PICK t : IsSum(t, query, n, text)
  BY <1>0, SumExists
<1>2. last = t[n] /\ t[n] \in Nat
  <2>1. last = t[n]
    BY <1>1, Zenon DEF IsSum
  <2>2. t \in [0 .. n -> Nat]
    BY <1>1, Zenon DEF IsSum
  <2>3. n \in 0 .. n
    BY <1>0
  <2> HIDE DEF last
  <2> QED BY <2>1, <2>2, <2>3
<1>3. score = IF within THEN 300 * w ELSE (30 * w * last) \div n
  BY <1>0 DEF FieldScore
<1> HIDE DEF w, text, score, last, within
<1> DEFINE sum == t[n]
           a == 30 * w * sum
<1>4. score = (IF within THEN 300 * w ELSE a \div n) /\ sum \in Nat /\ a \in Nat
  BY <1>0, <1>2, <1>3
<1>5. /\ \A i \in 1 .. n : Worth(query[i], text) <= sum
      /\ \A held \in SUBSET (1 .. n) :
            (\A i \in held : Worth(query[i], text) = 8) => 8 * Cardinality(held) <= sum
  BY <1>0, <1>1, SumIsEnough
<1>6. \A i \in 1 .. n : Worth(query[i], text) \in 0 .. 8
  BY WorthIs
<1>7. (w = 2 => a = 60 * sum) /\ (w = 5 => a = 150 * sum) /\ (w = 6 => a = 180 * sum)
  BY <1>4
<1> HIDE DEF sum, a
<1>8. a \div n \in Nat
  BY <1>0, <1>4, QuotientIs
<1>9. score \in Nat
  BY <1>0, <1>4, <1>8
<1>10. within => score = 300 * w
  BY <1>4
<1>11. ASSUME n * 61 <= a PROVE score > 60
  <2>1. 61 <= a \div n
    BY <1>0, <1>4, <1>11, QuotientIsMost, 61 \in Nat
  <2> QED BY <1>0, <1>4, <1>8, <2>1
<1>12. ASSUME w = 6, NEW i \in 1 .. n, Worth(query[i], text) >= 5 PROVE score > 60 /\ (n = 1 => score >= 600)
  <2>1. sum >= 5
    BY <1>4, <1>5, <1>6, <1>12
  <2>2. n * 61 <= a /\ a >= 900
    BY <1>0, <1>4, <1>7, <1>12, <2>1
  <2>3. n = 1 => 600 <= a \div n
    <3>1. n = 1 => n * 600 <= a
      BY <1>4, <2>2
    <3> QED BY <1>0, <1>4, <3>1, QuotientIsMost, 600 \in Nat
  <2>4. n = 1 => score >= 600
    BY <1>4, <1>8, <1>12, <2>3
  <2> QED BY <1>11, <2>2, <2>4
<1>13. ASSUME w = 5, NEW i \in 1 .. n, Worth(query[i], text) = 8 PROVE score > 60
  <2>1. sum >= 8
    BY <1>4, <1>5, <1>6, <1>13
  <2>2. n * 61 <= a
    BY <1>0, <1>4, <1>7, <1>13, <2>1
  <2> QED BY <1>11, <2>2
<1>14. ASSUME NEW held \in SUBSET (1 .. n), \A i \in held : Worth(query[i], text) = 8,
              (300 * Cardinality(held)) \div n > 60
       PROVE  score > 60
  <2> DEFINE h == Cardinality(held)
             b == 300 * h
             q == b \div n
  <2>1. h \in Nat /\ 8 * h <= sum
    <3>1. h \in 0 .. n
      BY <1>0, SharesOfParts
    <3> QED BY <1>5, <1>14, <3>1
  <2>2. q > 60
    BY <1>14
  <2> HIDE DEF h, q
  <2>3. b \in Nat /\ b <= a
    <3>1. a >= 60 * sum
      BY <1>0, <1>4, <1>7
    <3> QED BY <1>4, <2>1, <3>1
  <2> HIDE DEF b
  <2>4. q \in Nat /\ n * q <= b
    BY <1>0, <2>3, QuotientIs DEF q
  <2>5. n * 61 <= n * q
    <3>1. n \in Nat /\ q \in Nat /\ q >= 61
      BY <1>0, <2>2, <2>4
    <3> QED BY <3>1
  <2>6. n * 61 <= a
    <3> DEFINE x == n * 61
               y == n * q
    <3>1. x \in Nat /\ y \in Nat /\ x <= y /\ y <= b
      BY <1>0, <2>4, <2>5
    <3> HIDE DEF x, y
    <3>2. x <= a
      BY <1>4, <2>3, <3>1
    <3> QED BY <3>2 DEF x
  <2> QED BY <1>11, <2>6
<1>15. w = 6 /\ (\E i \in 1 .. n : Worth(query[i], text) >= 5) => score > 60 /\ (n = 1 => score >= 600)
  BY <1>12
<1>16. w = 5 /\ (\E i \in 1 .. n : Worth(query[i], text) = 8) => score > 60
  BY <1>13
<1>17. IsFieldScore(score, w, text, n, query)
  BY <1>9, <1>10, <1>14, <1>15, <1>16 DEF IsFieldScore, within
<1> QED BY <1>17 DEF w, text, score

\* The score of a tenant at the hub is at least that of each field, or whole.
IsTenant(t) ==
    /\ \E n : IsTerm(t.name, n)
    /\ t.display = << >> \/ \E n : IsTerm(t.display, n)
    /\ t.texts = {} \/ \E text, n : IsTerm(text, n) /\ t.texts = {text}
NameField(t) == [text |-> <<t.name>>, weight |-> 6]
DisplayField(t) == [text |-> AsWords(t.display), weight |-> 5]
TextField(text) == [text |-> <<text>>, weight |-> 2]

LEMMA FieldsAre ==
    ASSUME NEW t, IsTenant(t)
    PROVE  /\ t.texts = {} => Fields(t, 2) = {NameField(t), DisplayField(t)}
           /\ \A text : t.texts = {text} => Fields(t, 2) = {NameField(t), DisplayField(t), TextField(text)}
  BY DEF Fields, NameField, DisplayField, TextField, AsWords

LEMMA HubScoreIs ==
    ASSUME NEW t, NEW n, NEW query, IsTenant(t), IsQuery(query, n)
    PROVE  LET score == HubScore(Fields(t, 2), query)
           IN  /\ score \in Nat /\ score <= 600
               /\ \A field \in Fields(t, 2) : score >= FieldScore(field, query) \/ score = 600
<1> DEFINE S == {FieldScore(field, query) : field \in Fields(t, 2)}
           x == FieldScore(NameField(t), query)
           y == FieldScore(DisplayField(t), query)
<1>1. x \in Nat /\ y \in Nat
  <2>1. NameField(t).weight \in {2, 5, 6} /\ DisplayField(t).weight \in {2, 5, 6}
    BY DEF NameField, DisplayField
  <2> DEFINE f == NameField(t)
             g == DisplayField(t)
  <2> HIDE DEF f, g
  <2>2. f.weight \in {2, 5, 6} /\ g.weight \in {2, 5, 6}
    BY <2>1 DEF f, g
  <2>3. IsFieldScore(FieldScore(f, query), f.weight, f.text, n, query)
    BY <2>2, FieldScoreIs
  <2>4. IsFieldScore(FieldScore(g, query), g.weight, g.text, n, query)
    BY <2>2, FieldScoreIs
  <2> QED BY <2>3, <2>4 DEF IsFieldScore, f, g
<1>2. \E most \in Nat : S \in SUBSET (0 .. most) /\ S # {}
  <2>1. CASE t.texts = {}
    <3>1. S = {x, y}
      BY <2>1, FieldsAre
    <3> HIDE DEF S, x, y
    <3>2. x + y \in Nat /\ S \in SUBSET (0 .. x + y) /\ S # {}
      BY <1>1, <3>1
    <3> QED BY <3>2
  <2>2. CASE t.texts # {}
    <3>1. PICK text : t.texts = {text}
      BY <2>2 DEF IsTenant
    <3> DEFINE z == FieldScore(TextField(text), query)
    <3>2. z \in Nat
      <4>1. TextField(text).weight \in {2, 5, 6}
        BY DEF TextField
      <4> DEFINE f == TextField(text)
      <4> HIDE DEF f
      <4>2. f.weight \in {2, 5, 6}
        BY <4>1 DEF f
      <4>3. IsFieldScore(FieldScore(f, query), f.weight, f.text, n, query)
        BY <4>2, FieldScoreIs
      <4> QED BY <4>3 DEF IsFieldScore, f
    <3>3. S = {x, y, z}
      BY <3>1, FieldsAre
    <3> HIDE DEF S, x, y, z
    <3>4. x + y + z \in Nat /\ S \in SUBSET (0 .. x + y + z) /\ S # {}
      BY <1>1, <3>2, <3>3
    <3> QED BY <3>4
  <2> QED BY <2>1, <2>2
<1>3. Max(S) \in S /\ (\A i \in S : i <= Max(S)) /\ S \subseteq Nat
  <2> HIDE DEF S
  <2>1. PICK most \in Nat : S \in SUBSET (0 .. most) /\ S # {}
    BY <1>2
  <2>2. S \subseteq Nat
    BY <2>1
  <2>3. Max(S) \in S /\ \A i \in S : i <= Max(S)
    BY <2>1, LeastAndGreatest
  <2> QED BY <2>2, <2>3
<1>4. HubScore(Fields(t, 2), query) = IF 600 < Max(S) THEN 600 ELSE Max(S)
  BY DEF HubScore, Lesser, Whole
<1>5. \A field \in Fields(t, 2) : FieldScore(field, query) \in S
  OBVIOUS
<1> HIDE DEF S
<1>6. Max(S) \in Nat
  BY <1>3
<1>7. ASSUME NEW field \in Fields(t, 2)
      PROVE  \/ HubScore(Fields(t, 2), query) >= FieldScore(field, query)
             \/ HubScore(Fields(t, 2), query) = 600
  <2>1. FieldScore(field, query) \in Nat /\ FieldScore(field, query) <= Max(S)
    BY <1>3, <1>5
  <2> QED BY <1>4, <1>6, <2>1
<1> QED BY <1>4, <1>6, <1>7

\* A query has, at the hub, the tenant it means: whole if it is the codename or
\* a typing error away from it, and above the least if the client lists it.  Of
\* any words, and of up to 14 terms; of 15, a typing error in one of them is
\* worth the 60 that is not enough (find_tenant, root_hub.py).
THEOREM HubMeansForAll ==
    ASSUME NEW t, IsTenant(t),
           NEW n \in 1 .. 14, NEW query, DOMAIN query = 1 .. n, Len(query) = n,
           NEW V, query \in Seq(V), \A i \in 1 .. n : \E k : IsTerm(query[i], k)
    PROVE  HubMeans(t, query)
<1> DEFINE score == HubScore(Fields(t, 2), query)
           nf == NameField(t)
           df == DisplayField(t)
<1>1. IsQuery(query, n) /\ n \in Nat \ {0} /\ query # << >>
  <2>1. query = << >> => Len(query) = 0
    OBVIOUS
  <2> QED BY <2>1 DEF IsQuery
<1>2. PICK k : IsTerm(t.name, k)
  BY DEF IsTenant
<1>3. k \in 1 .. 2 /\ t.name \in [1 .. k -> Seq(Letters)] /\ DOMAIN t.name = 1 .. k
  BY <1>2 DEF IsTerm
<1>4. score \in Nat /\ score <= 600 /\ \A field \in Fields(t, 2) : score >= FieldScore(field, query) \/ score = 600
  BY <1>1, HubScoreIs
<1>5. nf \in Fields(t, 2) /\ df \in Fields(t, 2) /\ \A text : t.texts = {text} => TextField(text) \in Fields(t, 2)
  <2>1. t.texts = {} \/ \E text : t.texts = {text}
    BY DEF IsTenant
  <2> QED BY <2>1, FieldsAre
<1>6. IsFieldScore(FieldScore(nf, query), 6, <<t.name>>, n, query)
  <2>1. nf.weight = 6 /\ nf.text = <<t.name>> /\ nf.weight \in {2, 5, 6}
    BY DEF NameField
  <2> HIDE DEF nf
  <2>2. IsFieldScore(FieldScore(nf, query), nf.weight, nf.text, n, query)
    BY <1>1, <2>1, FieldScoreIs
  <2> QED BY <2>1, <2>2
<1>7. IsFieldScore(FieldScore(df, query), 5, AsWords(t.display), n, query)
  <2>1. df.weight = 5 /\ df.text = AsWords(t.display) /\ df.weight \in {2, 5, 6}
    BY DEF DisplayField
  <2> HIDE DEF df
  <2>2. IsFieldScore(FieldScore(df, query), df.weight, df.text, n, query)
    BY <1>1, <2>1, FieldScoreIs
  <2> QED BY <2>1, <2>2
<1>8. ASSUME NEW field \in Fields(t, 2), FieldScore(field, query) \in Nat, FieldScore(field, query) > 60
      PROVE  score > 60
  <2> HIDE DEF score
  <2>1. score >= FieldScore(field, query) \/ score = 600
    BY <1>4
  <2> QED BY <1>4, <1>8, <2>1
<1>9. ASSUME NEW field \in Fields(t, 2), FieldScore(field, query) \in Nat, FieldScore(field, query) >= 600
      PROVE  score = 600
  <2> HIDE DEF score
  <2>1. score >= FieldScore(field, query) \/ score = 600
    BY <1>4
  <2> QED BY <1>4, <1>9, <2>1
<1> HIDE DEF score, nf, df
<1>10. ASSUME query = <<t.name>> PROVE score = 600
  <2>1. Written(query) = Hyphenated(t.name)
    BY <1>2, <1>10, WrittenOne
  <2>2. Hyphenated(t.name) \in Seq(Glyphs)
    BY <1>2, HyphenatedIs DEF IsJoint
  <2>3. IsWithin(Written(query), Written(<<t.name>>))
    BY <1>10, <2>1, <2>2, WithinItself
  <2>4. FieldScore(nf, query) \in Nat /\ FieldScore(nf, query) = 300 * 6
    BY <1>6, <2>3 DEF IsFieldScore
  <2> QED BY <1>5, <1>9, <2>4
<1>11. ASSUME 1 \in Near(t.name, query) PROVE score > 60 /\ (n = 1 => score = 600)
  <2>1. \A i \in DOMAIN query : \E m : IsTerm(query[i], m)
    OBVIOUS
  <2>2. \E i \in 1 .. n : Worth(query[i], <<t.name>>) >= 5
    BY <1>2, <1>11, <2>1, TypingErrorIsWorth
  <2>3. /\ FieldScore(nf, query) \in Nat /\ FieldScore(nf, query) > 60
        /\ n = 1 => FieldScore(nf, query) >= 600
    BY <1>6, <2>2 DEF IsFieldScore
  <2> QED BY <1>5, <1>8, <1>9, <2>3
<1>12. ASSUME ~NamesNone(query, t.name) PROVE score > 60
  <2>1. PICK j \in 1 .. k : <<t.name[j]>> \in Range(query)
    BY <1>3, <1>12 DEF NamesNone
  <2>2. PICK i \in 1 .. n : query[i] = <<t.name[j]>>
    BY <2>1 DEF Range
  <2>3. Worth(query[i], <<t.name>>) = 8
    BY <1>2, <2>2, PartIsWorth
  <2>4. \E m \in 1 .. n : Worth(query[m], <<t.name>>) >= 5
    BY <2>3
  <2>5. FieldScore(nf, query) \in Nat /\ FieldScore(nf, query) > 60
    BY <1>6, <2>4 DEF IsFieldScore
  <2> QED BY <1>5, <1>8, <2>5
<1>13. ASSUME ~NamesNone(query, t.display) PROVE score > 60
  <2>1. t.display # << >>
    BY <1>13 DEF NamesNone
  <2>2. PICK m : IsTerm(t.display, m)
    BY <2>1 DEF IsTenant
  <2>3. DOMAIN t.display = 1 .. m
    BY <2>2 DEF IsTerm
  <2>4. PICK j \in 1 .. m : <<t.display[j]>> \in Range(query)
    BY <1>13, <2>3 DEF NamesNone
  <2>5. PICK i \in 1 .. n : query[i] = <<t.display[j]>>
    BY <2>4 DEF Range
  <2>6. Worth(query[i], AsWords(t.display)) = 8
    BY <2>2, <2>5, WordIsWorth
  <2>7. FieldScore(df, query) \in Nat /\ FieldScore(df, query) > 60
    BY <1>7, <2>6 DEF IsFieldScore
  <2> QED BY <1>5, <1>8, <2>7
<1>14. ASSUME TextScore(t.texts, query) > 60 PROVE score > 60
  <2> DEFINE held == {i \in DOMAIN query : \E text \in t.texts : Mentions(text, query[i])}
  <2>1. TextScore(t.texts, query) = (300 * Cardinality(held)) \div n
    BY DEF TextScore
  <2>2. held \in SUBSET (1 .. n)
    OBVIOUS
  <2>3. held # {}
    <3>1. CASE held = {}
      <4>1. Cardinality(held) = 0
        BY <3>1, FS_EmptySet
      <4> HIDE DEF held
      <4>2. 300 * Cardinality(held) = 0
        BY <4>1
      <4>3. n \in 1 .. 14 /\ 0 <= 0 * n
        OBVIOUS
      <4>4. 0 \div n \in Nat /\ 0 \div n <= 0
        BY <1>1, <4>3, ShareIsBounded
      <4> QED BY <1>14, <2>1, <4>2, <4>4
    <3> QED BY <3>1
  <2>4. PICK text, m : IsTerm(text, m) /\ t.texts = {text}
    <3>1. t.texts # {}
      BY <2>3
    <3> QED BY <3>1 DEF IsTenant
  <2>5. ASSUME NEW i \in held PROVE Worth(query[i], <<text>>) = 8
    <3>1. i \in 1 .. n /\ Mentions(text, query[i])
      BY <2>4
    <3>2. PICK j : IsTerm(query[i], j)
      BY <3>1
    <3> QED BY <2>4, <3>1, <3>2, MentionIsWorth
  <2> DEFINE tf == TextField(text)
  <2>6. tf.weight = 2 /\ tf.text = <<text>> /\ tf.weight \in {2, 5, 6} /\ tf \in Fields(t, 2)
    <3>1. tf \in Fields(t, 2)
      BY <1>5, <2>4
    <3> QED BY <3>1 DEF TextField
  <2> HIDE DEF tf, held
  <2>7. IsFieldScore(FieldScore(tf, query), tf.weight, tf.text, n, query)
    BY <1>1, <2>6, FieldScoreIs
  <2>8. IsFieldScore(FieldScore(tf, query), 2, <<text>>, n, query)
    BY <2>6, <2>7
  <2>9. FieldScore(tf, query) \in Nat /\ FieldScore(tf, query) > 60
    BY <1>14, <2>1, <2>2, <2>5, <2>8 DEF IsFieldScore
  <2> QED BY <1>8, <2>6, <2>9
<1>15. ASSUME Listed(t, query) PROVE score > 60 \/ ContainsWholeWord(query, t.name)
  <2> DEFINE W == Seq(Letters)
  <2>1. t.name \in Seq(W) /\ t.name # << >>
    <3>1. t.name \in [1 .. k -> W] /\ Len(t.name) = k /\ k # 0
      BY <1>3
    <3> HIDE DEF W
    <3> QED BY <1>3, <3>1
  <2>2. t.display \in Seq(W)
    <3>1. CASE t.display = << >>
      BY <3>1
    <3>2. ASSUME NEW m, IsTerm(t.display, m) PROVE t.display \in Seq(W)
      <4>1. m \in 1 .. 2 /\ t.display \in [1 .. m -> W]
        BY <3>2 DEF IsTerm
      <4> HIDE DEF W
      <4> QED BY <4>1
    <3> QED BY <3>1, <3>2 DEF IsTenant
  <2> HIDE DEF W
  <2>3. \/ query = <<t.name>> \/ ContainsWholeWord(query, t.name)
        \/ ~NamesNone(query, t.name) \/ ~NamesNone(query, t.display)
        \/ TextScore(t.texts, query) > 60 \/ 1 \in Near(t.name, query)
    BY <1>1, <1>15, <2>1, <2>2, ListedBecause
  <2> QED BY <1>10, <1>11, <1>12, <1>13, <1>14, <2>3
<1>16. Whole = 600 /\ HubThreshold = 60
  BY DEF Whole, HubThreshold
<1> QED BY <1>10, <1>11, <1>15, <1>16 DEF HubMeans, score

LEMMA HubAlwaysMeansTheSame == HubMeansTheSame
<1>1. ASSUME NEW term \in Terms PROVE \E n : IsTerm(term, n)
  <2>1. PICK n \in 1 .. 2 : term \in [1 .. n -> NameParts]
    BY DEF Terms
  <2>2. term \in [1 .. n -> Seq(Letters)]
    BY <2>1, NamePartsAssumption
  <2> QED BY <2>2 DEF IsTerm
<1>2. ASSUME NEW t \in Tenants PROVE IsTenant(t)
  <2>1. CASE t \in [name : Terms, display : {<< >>}, texts : {{}} \cup {{x} : x \in Terms}]
    BY <1>1, <2>1 DEF IsTenant
  <2>2. CASE t \in [name : Terms, display : Terms, texts : {{}}]
    BY <1>1, <2>2 DEF IsTenant
  <2> QED BY <2>1, <2>2 DEF Tenants
<1>3. ASSUME NEW query \in Queries, NEW t \in Tenants PROVE HubMeans(t, query)
  <2>1. PICK n \in 1 .. 2 : query \in [1 .. n -> Terms]
    BY DEF Queries
  <2>2. n \in 1 .. 14 /\ DOMAIN query = 1 .. n /\ Len(query) = n /\ query \in Seq(Terms)
    <3>1. n \in Nat
      OBVIOUS
    <3> HIDE DEF Terms
    <3> QED BY <2>1, <3>1
  <2>3. \A i \in 1 .. n : \E k : IsTerm(query[i], k)
    BY <1>1, <2>1
  <2> QED BY <1>2, <2>2, <2>3, HubMeansForAll
<1> QED BY <1>3 DEF HubMeansTheSame

-----------------------------------------------------------------------------
\* What a search finds, weighs, cuts out and marks is what the plain definitions
\* say (search/*.py, src/cli/internal/engine).
THEOREM SearchAlwaysAgrees == FairSpec => []SearchAgrees
<1>1. TextIsExact
  BY DistancesDoAgree, FiltersNeverLose, WordsAreAlwaysFound, WeightsDoAgree, MatchesAreAlwaysShown DEF TextIsExact
<1>2. PhrasesAreExact
  BY SpansAreAlwaysLeast, PhrasesAreAlwaysRewarded, HighlightsAreAlwaysClean DEF PhrasesAreExact
<1>3. SearchAgrees
  BY <1>1, <1>2 DEF SearchAgrees
<1> QED BY <1>3, PTL

\* What the client and the hub say there is, mean by a query and put first is
\* what is there and what is meant (src/cli/internal, registry.py, root_hub.py,
\* tenant.py).
THEOREM ClientAlwaysAgrees == FairSpec => []ClientAgrees
<1>1. ClientIsHonest
  BY RegistryIsAlwaysHonest, NamesAreAlwaysMeant, ServerAlwaysFindsMore, BestAreAlwaysKept, DocumentsAreAlwaysReached
     DEF ClientIsHonest
<1>2. ClientRanksWell
  BY NamedTenantsAlwaysLead, ListsAlwaysFall DEF ClientRanksWell
<1>3. HubIsHonest
  BY RegistersAlwaysAgree, EmptyIsAlwaysExplained, PagesAreAlwaysFetched DEF HubIsHonest
<1>4. HubRanksWell
  BY HubAlwaysMeansTheSame, BestAreAlwaysFound DEF HubRanksWell
<1>5. ClientAgrees
  BY <1>1, <1>2, <1>3, <1>4, AgeIsAlwaysShown DEF ClientAgrees
<1> QED BY <1>5, PTL

=============================================================================
