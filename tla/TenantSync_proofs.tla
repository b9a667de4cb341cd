--------------------------- MODULE TenantSync_proofs ---------------------------
(***************************************************************************)
(* Proofs about TenantSync, for any files, any tenants and any number of   *)
(* writes: what is skipped as unchanged is there, and the tenants of the   *)
(* importing machine are never lost.                                       *)
(***************************************************************************)
EXTENDS TenantSync, TLAPS

\* An entry names file f as it is at the source.  A write gives a file a number
\* it never had, so what an entry names has not changed since it was noted.
Names(entry, f) == entry # None /\ entry[f] = source[f]

\* No entry is ahead of the source, so the next write agrees with none.
NothingAhead ==
    \A f \in Files :
        /\ source[f] <= writes /\ export.seen[f] <= writes
        /\ manifest # None => manifest[f] <= writes
        /\ import.entry # None => import.entry[f] <= writes
        /\ imported # None => imported[f] <= writes

\* A file that is as the walk has seen it is staged and packed like that.
SeenIsPacked ==
    \A f \in Files : source[f] # 0 /\ export.seen[f] = source[f] =>
        /\ export.at = "stage" /\ f \notin export.left => export.staged[f] = source[f]
        /\ export.at = "pack" => export.staged[f] = source[f]
        /\ export.at = "record" => archive # None /\ archive[f] = source[f]

\* A file that some entry names is in the archive, and in the next one.
NamedIsPacked ==
    \A f \in Files :
        source[f] # 0 /\ (Names(manifest, f) \/ Names(import.entry, f) \/ Names(imported, f)) =>
            /\ archive # None /\ archive[f] = source[f]
            /\ export.at = "stage" /\ f \notin export.left => export.staged[f] = source[f]
            /\ export.at = "pack" => export.staged[f] = source[f]

\* An import that is to bring a file, or has brought it before, opens an archive
\* with it and puts nothing back in its place.
NamedIsOpened ==
    \A f \in Files :
        source[f] # 0 /\ (Names(import.entry, f) \/ Names(imported, f)) =>
            /\ import.at = "extract" => import.archive[f] = source[f]
            /\ import.at = "save" => f \notin import.only
            /\ import.saved[f] = 0

\* An import brings the files of its entry, and the import state has those.
EntryIsBrought ==
    \A f \in Files : source[f] # 0 /\ Names(import.entry, f) =>
        /\ import.at = "extract" /\ f \notin import.left => target[f] = source[f]
        /\ import.at \in {"restore", "record"} => target[f] = source[f]

ImportedIsThere ==
    \A f \in Files : source[f] # 0 /\ Names(imported, f) => target[f] = source[f]

\* An archive that was there when an import began is still there: with it TypeOK
\* is inductive.
ArchiveStays == import.at \in {"save", "open"} => archive # None
TypeInv == TypeOK /\ ArchiveStays

\* The inductive invariant of both skips.
IInv == /\ TypeInv /\ NothingAhead /\ SeenIsPacked /\ NamedIsPacked
        /\ NamedIsOpened /\ EntryIsBrought /\ ImportedIsThere

\* And of the tenants: an import that is about to write has them in a backup.
Backed == Ours \in backups
OwnInv == /\ TypeInv /\ OwnTenantsAreKept
          /\ import.at \in {"write", "close"} => Backed

(***************************************************************************)
(* Types.                                                                  *)
(***************************************************************************)
LEMMA AbsentType == Absent \in Contents
  BY BoundAssumption DEF Absent, Contents, Versions

LEMMA Rewritten == ASSUME NEW files \in Contents, NEW f \in Files, NEW v \in Versions
                   PROVE  [files EXCEPT ![f] = v] \in Contents
  BY DEF Contents

LEMMA Read == ASSUME NEW files \in Contents, NEW f \in Files
              PROVE  files[f] \in Versions
  BY DEF Contents

LEMMA IdleTypes == NoExport \in Exporting /\ NoImport \in Importing
  BY AbsentType DEF NoExport, NoImport, Exporting, Importing

LEMMA TypeInit == Init => TypeInv
<1> SUFFICES ASSUME Init PROVE TypeInv
  OBVIOUS
<1>1. writes \in Versions
  BY BoundAssumption DEF Init, Versions
<1>2. sent \in Configs /\ config \in Configs
  BY DEF Init, Configs
<1> QED BY <1>1, <1>2, AbsentType, IdleTypes DEF Init, TypeOK, TypeInv, ArchiveStays, NoImport

\* The steps of the export script.
LEMMA ExportTypes == TypeOK /\ Export => TypeOK'
<1> SUFFICES ASSUME TypeOK, Export PROVE TypeOK'
  OBVIOUS
<1> USE DEF TypeOK, machine, shared, local
<1>1. CASE StartExport
  <2>1. export' \in Exporting
    BY <1>1, AbsentType DEF StartExport, NoExport, Exporting
  <2> QED BY <1>1, <2>1 DEF StartExport
<1>2. CASE Walk
  <2>1. ASSUME NEW f \in export.left,
               export' = [export EXCEPT !.left = @ \ {f}, !.seen[f] = source[f]]
        PROVE  export' \in Exporting
    <3>1. f \in Files /\ export.seen \in Contents
      BY DEF Exporting
    <3>2. [export.seen EXCEPT ![f] = source[f]] \in Contents
      BY <3>1, Read, Rewritten
    <3> QED BY <2>1, <3>2 DEF Exporting
  <2>2. ASSUME export' = [export EXCEPT !.at = "check"] PROVE export' \in Exporting
    BY <2>2 DEF Exporting
  <2> QED BY <1>2, <2>1, <2>2 DEF Walk
<1>3. CASE Check
  <2>1. export' \in Exporting
    BY <1>3, AbsentType DEF Check, Configure, NoExport, Exporting
  <2> QED BY <1>3, <2>1 DEF Check
<1>4. CASE Stage
  <2>1. ASSUME NEW f \in export.left,
               export' = [export EXCEPT !.left = @ \ {f}, !.staged[f] = source[f]]
        PROVE  export' \in Exporting
    <3>1. f \in Files /\ export.staged \in Contents
      BY DEF Exporting
    <3>2. [export.staged EXCEPT ![f] = source[f]] \in Contents
      BY <3>1, Read, Rewritten
    <3> QED BY <2>1, <3>2 DEF Exporting
  <2>2. ASSUME export' = [export EXCEPT !.at = "pack"] PROVE export' \in Exporting
    BY <2>2 DEF Exporting
  <2> QED BY <1>4, <2>1, <2>2 DEF Stage
<1>5. CASE ExportFails
  <2>1. export' \in Exporting
    BY <1>5, AbsentType DEF ExportFails, Configure, NoExport, Exporting
  <2> QED BY <1>5, <2>1 DEF ExportFails
<1>6. CASE Publish
  <2>1. export' \in Exporting
    BY <1>6, AbsentType DEF Publish, Exporting
  <2>2. archive' \in Contents
    BY <1>6 DEF Publish, Exporting
  <2> QED BY <1>6, <2>1, <2>2 DEF Publish
<1>7. CASE Record
  <2>1. export' \in Exporting
    BY <1>7, AbsentType DEF Record, Configure, NoExport, Exporting
  <2>2. manifest' \in Contents
    BY <1>7 DEF Record, Entry, Exporting
  <2> QED BY <1>7, <2>1, <2>2 DEF Record
<1>8. CASE SendConfig
  <2>1. export' \in Exporting
    BY <1>8, IdleTypes DEF SendConfig, Exporting
  <2>2. sent' \in Configs
    BY <1>8 DEF SendConfig, Configs
  <2> QED BY <1>8, <2>1, <2>2 DEF SendConfig
<1> QED BY <1>1, <1>2, <1>3, <1>4, <1>5, <1>6, <1>7, <1>8 DEF Export

\* What a merge makes of two configurations is one, if the one that came is whole.
LEMMA Merges == ASSUME NEW remote \in Configs \ {Cut}, NEW own \in Configs
                PROVE  Merge(remote, own) \in SUBSET Tenants
  BY DEF Configs, Merge

\* The steps of the import script.
LEMMA ImportTypes == TypeInv /\ Import => TypeOK'
<1> SUFFICES ASSUME TypeOK, ArchiveStays, Import PROVE TypeOK'
  BY DEF TypeInv
<1> USE DEF TypeOK, machine, shared, local
<1>1. CASE StartImport
  <2>1. import' \in Importing
    BY <1>1, AbsentType DEF StartImport, NoImport, Importing
  <2> QED BY <1>1, <2>1 DEF StartImport
<1>2. CASE List
  <2>1. import' \in Importing
    BY <1>2, AbsentType DEF List, Configure, NoImport, Importing, Held
  <2> QED BY <1>2, <2>1 DEF List
<1>3. CASE Save
  <2> DEFINE saved == [f \in Files |-> IF f \in import.only THEN target[f] ELSE 0]
  <2>1. saved \in Contents
    BY BoundAssumption DEF Contents, Versions
  <2> HIDE DEF saved
  <2>2. import' = [import EXCEPT !.at = "open", !.only = {}, !.saved = saved]
    BY <1>3 DEF Save, saved
  <2>3. import' \in Importing
    BY <2>1, <2>2 DEF Importing
  <2> QED BY <1>3, <2>3 DEF Save
<1>4. CASE Open
  <2>1. archive \in Contents /\ Held(archive) \subseteq Files
    BY <1>4 DEF Open, Held, ArchiveStays
  <2>2. import' \in Importing
    BY <1>4, <2>1 DEF Open, Importing
  <2> QED BY <1>4, <2>2 DEF Open
<1>5. CASE Extract
  <2>1. import' \in Importing
    BY <1>5, AbsentType DEF Extract, Importing
  <2>2. target' \in Contents
    <3>1. ASSUME NEW f \in import.left, target' = [target EXCEPT ![f] = import.archive[f]]
          PROVE  target' \in Contents
      BY <3>1, Read, Rewritten DEF Importing
    <3> QED BY <1>5, <3>1 DEF Extract
  <2> QED BY <1>5, <2>1, <2>2 DEF Extract
<1>6. CASE ExtractFails
  <2>1. import' \in Importing
    BY <1>6, AbsentType DEF ExtractFails, AfterFailure, NoImport, Importing
  <2> QED BY <1>6, <2>1 DEF ExtractFails
<1>7. CASE Restore
  <2>0. import.saved \in Contents
    BY DEF Importing
  <2>1. ASSUME NEW f \in Held(import.saved), NEW v \in {import.saved[f], 0},
               target' = [target EXCEPT ![f] = v],
               import' = [import EXCEPT !.saved[f] = 0]
        PROVE  target' \in Contents /\ import' \in Importing
    <3>1. f \in Files /\ 0 \in Versions
      BY BoundAssumption DEF Held, Versions
    <3>2. [import.saved EXCEPT ![f] = 0] \in Contents
      BY <2>0, <3>1, Rewritten
    <3>3. import' \in Importing
      BY <2>1, <3>2 DEF Importing
    <3>4. v \in Versions
      BY <2>0, <3>1, Read
    <3>5. target' \in Contents
      BY <2>1, <3>1, <3>4, Rewritten
    <3> QED BY <3>3, <3>5
  <2>2. ASSUME import' = [import EXCEPT !.at = "record"] PROVE import' \in Importing
    BY <2>2 DEF Importing
  <2> QED BY <1>7, <2>1, <2>2 DEF Restore
<1>8. CASE RecordImport
  <2>1. import' \in Importing
    BY <1>8, AbsentType DEF RecordImport, Configure, NoImport, Importing
  <2>2. imported' \in Contents \cup {None}
    BY <1>8 DEF RecordImport, Importing
  <2> QED BY <1>8, <2>1, <2>2 DEF RecordImport
<1>9. CASE ReadConfig
  <2>1. sent # Cut => Merge(sent, config) \in SUBSET Tenants
    BY Merges
  <2>2. import' \in Importing
    BY <1>9, <2>1, IdleTypes DEF ReadConfig, Importing
  <2> QED BY <1>9, <2>2 DEF ReadConfig
<1>10. CASE WriteConfig
  <2>1. import' \in Importing
    BY <1>10, IdleTypes DEF WriteConfig, Importing
  <2>2. config' \in Configs
    BY <1>10 DEF WriteConfig, Configs, Importing
  <2> QED BY <1>10, <2>1, <2>2 DEF WriteConfig
<1>11. CASE Backup
  <2>1. import' \in Importing
    BY <1>11 DEF Backup, Importing
  <2> QED BY <1>11, <2>1 DEF Backup
<1>12. CASE ConfigFails
  BY <1>12, IdleTypes DEF ConfigFails
<1> QED BY <1>1, <1>2, <1>3, <1>4, <1>5, <1>6, <1>7, <1>8, <1>9, <1>10, <1>11, <1>12 DEF Import

LEMMA ArchiveStep == TypeInv /\ [Next]_vars => ArchiveStays'
<1> SUFFICES ASSUME TypeInv, [Next]_vars PROVE ArchiveStays'
  OBVIOUS
<1> USE DEF TypeInv, ArchiveStays, shared
<1>1. CASE (\E f \in Files : Write(f)) \/ Crawl \/ KillExport \/ UNCHANGED vars
  BY <1>1 DEF Write, Crawl, KillExport, vars
<1>2. CASE Export
  <2>1. archive # None => archive' # None
    BY <1>2, NoneIsNoContents DEF Export, StartExport, Walk, Check, Stage, ExportFails, Publish, Record,
       SendConfig, TypeOK, Exporting
  <2>2. UNCHANGED import
    BY <1>2 DEF Export, StartExport, Walk, Check, Stage, ExportFails, Publish, Record, SendConfig
  <2> QED BY <2>1, <2>2
<1>3. CASE StartImport
  BY <1>3 DEF StartImport, NoImport
<1>6. CASE ExtractFails
  BY <1>6 DEF ExtractFails, AfterFailure, NoImport
<1>9. CASE RecordImport
  BY <1>9 DEF RecordImport, Configure, NoImport
<1>10. CASE KillImport
  <2>1. import'.at = "idle"
    BY <1>10 DEF KillImport, NoImport
  <2> QED BY <2>1
<1>7. CASE ReadConfig
  BY <1>7 DEF ReadConfig, NoImport, TypeOK, Importing
<1>8. CASE Backup \/ WriteConfig \/ ConfigFails
  BY <1>8 DEF Backup, WriteConfig, ConfigFails, NoImport, TypeOK, Importing
<1>4. CASE List \/ Save \/ Open
  BY <1>4 DEF List, Configure, NoImport, Save, Open, TypeOK, Importing
<1>5. CASE Extract \/ Restore
  BY <1>5 DEF Extract, Restore, TypeOK, Importing
<1> QED BY <1>1, <1>2, <1>3, <1>4, <1>5, <1>6, <1>7, <1>8, <1>9,
       <1>10 DEF Next, Import

LEMMA TypeStep == TypeInv /\ [Next]_vars => TypeOK'
<1> SUFFICES ASSUME TypeInv, TypeOK, [Next]_vars PROVE TypeOK'
  BY DEF TypeInv
<1> USE DEF TypeOK, machine, shared, local
<1>1. ASSUME NEW f \in Files, Write(f) PROVE TypeOK'
  <2>1. writes + 1 \in Versions /\ 0 \in Versions
    BY <1>1, BoundAssumption DEF Write, Versions
  <2>2. source' \in Contents
    BY <1>1, <2>1, Rewritten DEF Write
  <2> QED BY <1>1, <2>1, <2>2 DEF Write
<1>2. CASE Crawl
  BY <1>2 DEF Crawl
<1>3. CASE Export
  BY <1>3, ExportTypes
<1>4. CASE Import
  BY <1>4, ImportTypes
<1>5. CASE KillExport
  BY <1>5, IdleTypes DEF KillExport
<1>6. CASE KillImport
  BY <1>6, IdleTypes DEF KillImport
<1>7. CASE UNCHANGED vars
  BY <1>7 DEF vars
<1> QED BY <1>1, <1>2, <1>3, <1>4, <1>5, <1>6, <1>7 DEF Next

\* Every variable keeps its type.
THEOREM TypeCorrect == Spec => []TypeOK
<1>1. Init => TypeInv
  BY TypeInit
<1>2. TypeInv /\ [Next]_vars => TypeInv'
  BY TypeStep, ArchiveStep DEF TypeInv
<1>3. TypeInv => TypeOK
  BY DEF TypeInv
<1> QED BY <1>1, <1>2, <1>3, PTL DEF Spec

(***************************************************************************)
(* The skips.                                                              *)
(***************************************************************************)
\* A write: no entry names the file that is written, and the others are as they
\* were.
LEMMA WriteKeeps == ASSUME IInv, NEW f \in Files, Write(f) PROVE IInv'
<1> USE DEF machine, shared, local
<1>1. TypeInv'
  BY TypeStep, ArchiveStep DEF IInv, TypeInv, Next
<1>2. writes \in Nat /\ writes' = writes + 1
  BY BoundAssumption DEF IInv, TypeInv, TypeOK, Write, Versions
<1>3. \A g \in Files : source'[g] = source[g] \/ source'[g] \in {0, writes + 1}
  BY DEF Write, IInv, TypeInv, TypeOK, Contents
<1>4. \A g \in Files : source[g] \in Nat /\ export.seen[g] \in Nat
  BY Read, BoundAssumption DEF IInv, TypeInv, TypeOK, Exporting, Versions
<1>5. UNCHANGED <<archive, manifest, target, imported, export, import>>
  BY DEF Write
<1>6. \A g \in Files : /\ manifest # None => manifest[g] \in Nat
                       /\ import.entry # None => import.entry[g] \in Nat
                       /\ imported # None => imported[g] \in Nat
  BY Read, BoundAssumption DEF IInv, TypeInv, TypeOK, Importing, Versions
<1>7. NothingAhead'
  <2>1. SUFFICES ASSUME NEW g \in Files
                 PROVE  /\ source'[g] <= writes + 1 /\ export.seen[g] <= writes + 1
                        /\ manifest # None => manifest[g] <= writes + 1
                        /\ import.entry # None => import.entry[g] <= writes + 1
                        /\ imported # None => imported[g] <= writes + 1
    BY <1>2, <1>5 DEF NothingAhead
  <2>2. /\ source[g] <= writes /\ export.seen[g] <= writes
        /\ manifest # None => manifest[g] <= writes
        /\ import.entry # None => import.entry[g] <= writes
        /\ imported # None => imported[g] <= writes
    BY DEF IInv, NothingAhead
  <2>3. source'[g] <= writes + 1
    BY <1>2, <1>3, <1>4, <2>2
  <2>4. export.seen[g] <= writes + 1
    BY <1>2, <1>4, <2>2
  <2>5. manifest # None => manifest[g] <= writes + 1
    <3> SUFFICES ASSUME manifest # None PROVE manifest[g] <= writes + 1
      OBVIOUS
    <3>1. manifest[g] \in Nat /\ manifest[g] <= writes
      BY <1>6, <2>2
    <3> QED BY <1>2, <3>1
  <2>6. import.entry # None => import.entry[g] <= writes + 1
    <3> SUFFICES ASSUME import.entry # None PROVE import.entry[g] <= writes + 1
      OBVIOUS
    <3>1. import.entry[g] \in Nat /\ import.entry[g] <= writes
      BY <1>6, <2>2
    <3> QED BY <1>2, <3>1
  <2>7. imported # None => imported[g] <= writes + 1
    <3> SUFFICES ASSUME imported # None PROVE imported[g] <= writes + 1
      OBVIOUS
    <3>1. imported[g] \in Nat /\ imported[g] <= writes
      BY <1>6, <2>2
    <3> QED BY <1>2, <3>1
  <2> QED BY <2>3, <2>4, <2>5, <2>6, <2>7
<1>8. \A g \in Files : source'[g] # 0 /\ export.seen[g] = source'[g] => source'[g] = source[g]
  BY <1>2, <1>3, <1>4 DEF IInv, NothingAhead
<1>9. SeenIsPacked'
  BY <1>5, <1>8 DEF IInv, SeenIsPacked
<1>10. \A g \in Files :
          source'[g] # 0 /\ (Names(manifest, g)' \/ Names(import.entry, g)' \/ Names(imported, g)')
             => source'[g] = source[g]
  BY <1>2, <1>3, <1>5, <1>6 DEF IInv, NothingAhead, Names
<1>11. NamedIsPacked'
  BY <1>5, <1>10 DEF IInv, NamedIsPacked, Names
<1>12. NamedIsOpened'
  BY <1>5, <1>10 DEF IInv, NamedIsOpened, Names
<1>13. EntryIsBrought' /\ ImportedIsThere'
  BY <1>5, <1>10 DEF IInv, EntryIsBrought, ImportedIsThere, Names
<1> QED BY <1>1, <1>7, <1>9, <1>11, <1>12, <1>13 DEF IInv

\* A step of an export touches what is seen, staged and packed, and the manifest.
LEMMA ExportKeeps == ASSUME IInv, Export \/ KillExport
                     PROVE  NothingAhead' /\ SeenIsPacked' /\ NamedIsPacked'
<1> USE DEF machine, shared, local
<1>1. /\ TypeOK /\ export \in Exporting /\ source \in Contents
      /\ NothingAhead /\ SeenIsPacked /\ NamedIsPacked
  BY DEF IInv, TypeInv, TypeOK
<1>2. /\ UNCHANGED <<source, writes, imported, import>>
  BY DEF Export, StartExport, Walk, Check, Stage, ExportFails, Publish, Record, SendConfig, KillExport
<1>3. \A f \in Files : Absent[f] = 0 /\ source[f] \in Nat /\ source[f] <= writes
  BY <1>1, Read, BoundAssumption DEF Absent, NothingAhead, Versions
<1>4. writes \in Nat
  BY <1>1, BoundAssumption DEF TypeOK, Versions
<1>5. ASSUME UNCHANGED <<archive, manifest>>, export'.at \notin {"stage", "pack", "record"},
             \A f \in Files : export'.seen[f] \in {0, export.seen[f], source[f]}
      PROVE  NothingAhead' /\ SeenIsPacked' /\ NamedIsPacked'
  BY <1>1, <1>2, <1>3, <1>4, <1>5 DEF NothingAhead, SeenIsPacked, NamedIsPacked, Names
<1>6. CASE StartExport
  BY <1>3, <1>5, <1>6 DEF StartExport, NoExport
<1>7. CASE Walk
  <2>1. UNCHANGED <<archive, manifest>> /\ export'.at \in {"walk", "check"}
    BY <1>1, <1>7 DEF Walk, Exporting
  <2>2. \A f \in Files : export'.seen[f] \in {export.seen[f], source[f]}
    <3>1. ASSUME NEW g \in export.left,
                 export' = [export EXCEPT !.left = @ \ {g}, !.seen[g] = source[g]]
          PROVE  \A f \in Files : export'.seen[f] \in {export.seen[f], source[f]}
      <4>1. export'.seen = [export.seen EXCEPT ![g] = source[g]]
        BY <1>1, <3>1 DEF Exporting
      <4> QED BY <1>1, <4>1 DEF Exporting, Contents
    <3>2. ASSUME export' = [export EXCEPT !.at = "check"] PROVE export'.seen = export.seen
      BY <1>1, <3>2 DEF Exporting
    <3> QED BY <1>7, <3>1, <3>2 DEF Walk
  <2> QED BY <1>5, <2>1, <2>2
<1>8. CASE Check
  <2>1. UNCHANGED <<archive, manifest>>
    BY <1>8 DEF Check
  <2>2. CASE export' = Configure(NoExport)
    BY <1>3, <1>5, <2>1, <2>2 DEF Configure, NoExport
  <2>3. CASE export' = [NoExport EXCEPT !.at = "stage", !.left = Files, !.seen = export.seen]
    <3>1. export'.at = "stage" /\ export'.left = Files /\ export'.seen = export.seen
      BY <2>3 DEF NoExport
    <3> QED BY <1>1, <1>2, <2>1, <3>1 DEF NothingAhead, SeenIsPacked, NamedIsPacked, Names
  <2> QED BY <1>8, <2>2, <2>3 DEF Check
<1>9. CASE Stage
  <2>0. UNCHANGED <<archive, manifest>> /\ export.at = "stage"
    BY <1>9 DEF Stage
  <2>1. ASSUME NEW f \in export.left,
               export' = [export EXCEPT !.left = @ \ {f}, !.staged[f] = source[f]]
        PROVE  NothingAhead' /\ SeenIsPacked' /\ NamedIsPacked'
    <3>1. /\ export'.at = "stage" /\ export'.left = export.left \ {f} /\ export'.seen = export.seen
          /\ export'.staged = [export.staged EXCEPT ![f] = source[f]]
      BY <1>1, <2>0, <2>1 DEF Exporting
    <3>2. \A g \in Files : export'.staged[g] = IF g = f THEN source[g] ELSE export.staged[g]
      BY <1>1, <3>1 DEF Exporting, Contents
    <3> QED BY <1>1, <1>2, <2>0, <3>1, <3>2 DEF NothingAhead, SeenIsPacked, NamedIsPacked, Names
  <2>2. ASSUME export.left = {}, export' = [export EXCEPT !.at = "pack"]
        PROVE  NothingAhead' /\ SeenIsPacked' /\ NamedIsPacked'
    <3>1. export'.at = "pack" /\ export'.seen = export.seen /\ export'.staged = export.staged
      BY <1>1, <2>2 DEF Exporting
    <3> QED BY <1>1, <1>2, <2>0, <2>2, <3>1 DEF NothingAhead, SeenIsPacked, NamedIsPacked, Names
  <2> QED BY <1>9, <2>1, <2>2 DEF Stage
<1>10. CASE ExportFails
  BY <1>3, <1>5, <1>10 DEF ExportFails, Configure, NoExport
<1>11. CASE Publish
  <2>1. /\ export.at = "pack" /\ export'.at = "record" /\ export'.seen = export.seen
        /\ archive' = export.staged /\ archive' # None /\ UNCHANGED manifest
    BY <1>1, <1>11, NoneIsNoContents DEF Publish, Exporting
  <2> QED BY <1>1, <1>2, <2>1 DEF NothingAhead, SeenIsPacked, NamedIsPacked, Names
<1>12. CASE Record
  <2>1. /\ export.at = "record" /\ export'.at = "config" /\ export'.seen = Absent
        /\ manifest' = export.seen /\ UNCHANGED archive
    BY <1>12 DEF Record, Entry, Configure, NoExport
  <2>2. NothingAhead' /\ SeenIsPacked'
    BY <1>1, <1>2, <1>3, <1>4, <2>1 DEF NothingAhead, SeenIsPacked
  <2>3. NamedIsPacked'
    BY <1>1, <1>2, <2>1 DEF SeenIsPacked, NamedIsPacked, Names
  <2> QED BY <2>2, <2>3
<1>13. CASE SendConfig
  <2>1. UNCHANGED <<archive, manifest>> /\ export'.at \in {"copy", "idle"}
    BY <1>1, <1>13 DEF SendConfig, NoExport, Exporting
  <2>2. \A f \in Files : export'.seen[f] \in {0, export.seen[f]}
    BY <1>1, <1>3, <1>13 DEF SendConfig, NoExport, Exporting
  <2> QED BY <1>5, <2>1, <2>2
<1>14. CASE KillExport
  BY <1>3, <1>5, <1>14 DEF KillExport, NoExport
<1> QED BY <1>6, <1>7, <1>8, <1>9, <1>10, <1>11, <1>12, <1>13, <1>14 DEF Export

\* A step of an import touches its entry, what is opened and saved, the target
\* and the import state.
LEMMA ImportKeeps == ASSUME IInv, Import \/ KillImport
                     PROVE  /\ NothingAhead' /\ NamedIsPacked' /\ SeenIsPacked'
                            /\ NamedIsOpened' /\ EntryIsBrought' /\ ImportedIsThere'
<1> USE DEF machine, shared, local
<1>1. /\ TypeOK /\ import \in Importing /\ target \in Contents /\ \A f \in Files : Absent[f] = 0
      /\ NothingAhead /\ NamedIsPacked /\ NamedIsOpened /\ EntryIsBrought /\ ImportedIsThere
  BY DEF IInv, TypeInv, TypeOK, Absent
<1>2. UNCHANGED <<source, writes, archive, manifest, export>>
  BY DEF Import, StartImport, List, Save, Open, Extract, ExtractFails, Restore, RecordImport, ReadConfig,
     Backup, WriteConfig, ConfigFails, KillImport
<1> DEFINE Rest == NamedIsOpened' /\ EntryIsBrought' /\ ImportedIsThere'
           Follows == /\ import'.entry \in {None, manifest, import.entry}
                      /\ imported' \in {imported, import.entry}
<1>3. ASSUME Follows PROVE NothingAhead' /\ NamedIsPacked' /\ SeenIsPacked'
  <2>1. NothingAhead'
    BY <1>1, <1>2, <1>3 DEF NothingAhead
  <2>2. NamedIsPacked'
    BY <1>1, <1>2, <1>3 DEF NamedIsPacked, Names
  <2>3. SeenIsPacked'
    BY <1>2 DEF IInv, SeenIsPacked
  <2> QED BY <2>1, <2>2, <2>3
\* Steps that leave the target and the import state, and save and open nothing.
<1>4. ASSUME UNCHANGED <<target, imported>>, import'.at \notin {"save", "extract", "restore", "record"},
             \A f \in Files : import'.saved[f] \in {0, import.saved[f]},
             import'.entry \in {None, import.entry} \/ import'.saved = Absent
      PROVE  Rest
  BY <1>1, <1>2, <1>4 DEF NamedIsOpened, EntryIsBrought, ImportedIsThere, Names
<1>5. CASE StartImport
  <2>1. /\ import'.at = "list" /\ import'.saved = Absent /\ import'.entry = manifest
        /\ UNCHANGED <<target, imported>>
    BY <1>5 DEF StartImport, NoImport
  <2> QED BY <1>1, <1>3, <1>4, <2>1
<1>6. CASE List
  <2>0. UNCHANGED <<target, imported>>
    BY <1>6 DEF List
  <2>1. ASSUME import' = Configure(NoImport) PROVE Follows /\ Rest
    <3>1. import'.at = "config" /\ import'.saved = Absent /\ import'.entry = None
      BY <2>1 DEF Configure, NoImport
    <3> QED BY <1>1, <1>4, <2>0, <3>1
  <2> DEFINE only == IF import.keep THEN Held(target) \ Held(archive) ELSE {}
  <2>2. ASSUME import' = [NoImport EXCEPT !.at = "save", !.entry = import.entry, !.only = only]
        PROVE  Follows /\ Rest
    <3>1. /\ import'.at = "save" /\ import'.saved = Absent /\ import'.entry = import.entry
          /\ import'.only = only
      BY <2>2 DEF NoImport
    <3>2. \A f \in only : f \notin Held(archive)
      OBVIOUS
    <3>3. \A f \in Files : f \in only => archive[f] = 0
      BY <3>2 DEF Held
    <3> HIDE DEF only
    <3>4. EntryIsBrought'
      BY <1>1, <1>2, <3>1 DEF EntryIsBrought
    <3>5. \A f \in Files : import'.saved[f] = 0
      BY <3>1 DEF Absent
    <3>6. NamedIsOpened' /\ ImportedIsThere'
      BY <1>1, <1>2, <2>0, <3>1, <3>3, <3>5 DEF NamedIsOpened, NamedIsPacked, ImportedIsThere, Names
    <3> QED BY <2>0, <3>1, <3>4, <3>6
  <2> QED BY <1>3, <1>6, <2>1, <2>2 DEF List
<1>7. CASE Save
  <2> DEFINE saved == [f \in Files |-> IF f \in import.only THEN target[f] ELSE 0]
  <2>1. /\ import.at = "save" /\ import'.at = "open" /\ import'.entry = import.entry
        /\ import'.saved = saved /\ UNCHANGED <<target, imported>>
    BY <1>1, <1>7 DEF Save, Importing
  <2>2. \A f \in Files : import'.saved[f] = IF f \in import.only THEN target[f] ELSE 0
    BY <2>1
  <2> HIDE DEF saved
  <2>3. NamedIsOpened'
    BY <1>1, <1>2, <2>1, <2>2 DEF NamedIsOpened, EntryIsBrought, ImportedIsThere, Names
  <2>4. EntryIsBrought' /\ ImportedIsThere'
    BY <1>1, <1>2, <2>1 DEF EntryIsBrought, ImportedIsThere, Names
  <2> QED BY <1>3, <2>1, <2>3, <2>4
<1>8. CASE Open
  <2>1. /\ import'.at = "extract" /\ import'.entry = import.entry /\ import'.saved = import.saved
        /\ import'.left = Held(archive) /\ import'.archive = archive /\ UNCHANGED <<target, imported>>
    BY <1>1, <1>8 DEF Open, Importing
  <2>2. NamedIsOpened'
    BY <1>1, <1>2, <2>1 DEF NamedIsOpened, NamedIsPacked, Names
  <2>3. EntryIsBrought' /\ ImportedIsThere'
    BY <1>1, <1>2, <2>1 DEF EntryIsBrought, ImportedIsThere, NamedIsPacked, Held, Names
  <2> QED BY <1>3, <2>1, <2>2, <2>3
<1>9. CASE Extract
  <2>0. import.at = "extract" /\ UNCHANGED imported
    BY <1>9 DEF Extract
  <2>1. ASSUME NEW g \in import.left, target' = [target EXCEPT ![g] = import.archive[g]],
               import' = [import EXCEPT !.left = @ \ {g}]
        PROVE  Follows /\ Rest
    <3>1. /\ import'.at = "extract" /\ import'.entry = import.entry /\ import'.saved = import.saved
          /\ import'.left = import.left \ {g} /\ import'.archive = import.archive
      BY <1>1, <2>0, <2>1 DEF Importing
    <3>2. \A f \in Files : target'[f] = IF f = g THEN import.archive[f] ELSE target[f]
      BY <1>1, <2>1 DEF Contents
    <3> QED BY <1>1, <1>2, <2>0, <3>1, <3>2 DEF NamedIsOpened, EntryIsBrought, ImportedIsThere, Names
  <2>2. ASSUME import.left = {}, UNCHANGED target,
               import' = [import EXCEPT !.at = "restore", !.archive = Absent]
        PROVE  Follows /\ Rest
    <3>1. import'.at = "restore" /\ import'.entry = import.entry /\ import'.saved = import.saved
      BY <1>1, <2>2 DEF Importing
    <3> QED BY <1>1, <1>2, <2>0, <2>2, <3>1 DEF NamedIsOpened, EntryIsBrought, ImportedIsThere, Names
  <2> QED BY <1>3, <1>9, <2>1, <2>2 DEF Extract
<1>10. CASE ExtractFails
  <2>1. /\ import'.at = "config" /\ import'.saved = Absent /\ import'.entry = import.entry
        /\ UNCHANGED <<target, imported>>
    BY <1>10 DEF ExtractFails, AfterFailure, NoImport
  <2> QED BY <1>1, <1>3, <1>4, <2>1
<1>11. CASE Restore
  <2>0. import.at = "restore" /\ UNCHANGED imported
    BY <1>11 DEF Restore
  <2>1. ASSUME NEW g \in Held(import.saved), NEW v \in {import.saved[g], 0},
               target' = [target EXCEPT ![g] = v],
               import' = [import EXCEPT !.saved[g] = 0]
        PROVE  Follows /\ Rest
    <3>1. /\ import'.at = "restore" /\ import'.entry = import.entry
          /\ import'.saved = [import.saved EXCEPT ![g] = 0]
      BY <1>1, <2>0, <2>1 DEF Importing
    <3>2. import.saved \in Contents /\ import.saved[g] # 0
      BY <1>1 DEF Importing, Held
    <3>3. \A f \in Files : import'.saved[f] \in {0, import.saved[f]}
      BY <3>1, <3>2 DEF Contents
    <3>4. \A f \in Files : target'[f] = IF f = g THEN v ELSE target[f]
      BY <1>1, <2>1 DEF Contents
    <3>5. NamedIsOpened'
      BY <1>1, <1>2, <2>0, <3>1, <3>3 DEF NamedIsOpened, Names
    <3>6. EntryIsBrought' /\ ImportedIsThere'
      BY <1>1, <1>2, <2>0, <3>1, <3>2, <3>4 DEF NamedIsOpened, EntryIsBrought, ImportedIsThere, Names
    <3> QED BY <2>0, <3>1, <3>5, <3>6
  <2>2. ASSUME UNCHANGED target, import' = [import EXCEPT !.at = "record"] PROVE Follows /\ Rest
    <3>1. import'.at = "record" /\ import'.entry = import.entry /\ import'.saved = import.saved
      BY <1>1, <2>2 DEF Importing
    <3> QED BY <1>1, <1>2, <2>0, <2>2, <3>1 DEF NamedIsOpened, EntryIsBrought, ImportedIsThere, Names
  <2> QED BY <1>3, <1>11, <2>1, <2>2 DEF Restore
<1>12. CASE RecordImport
  <2>1. /\ import.at = "record" /\ import'.at = "config" /\ import'.saved = Absent /\ import'.entry = None
        /\ imported' = (IF import.entry # None THEN import.entry ELSE imported) /\ UNCHANGED target
    BY <1>12 DEF RecordImport, Configure, NoImport
  <2>2. NamedIsOpened' /\ EntryIsBrought'
    BY <1>1, <2>1 DEF NamedIsOpened, EntryIsBrought, Names
  <2>3. ImportedIsThere'
    BY <1>1, <1>2, <2>1 DEF EntryIsBrought, ImportedIsThere, Names
  <2> QED BY <1>3, <2>1, <2>2, <2>3
<1>13. CASE ReadConfig
  <2>1. /\ UNCHANGED <<target, imported>>
        /\ import' = NoImport \/ import' = [import EXCEPT !.at = "backup", !.merged = Merge(sent, config)]
    BY <1>13 DEF ReadConfig
  <2>2. /\ import'.at \in {"idle", "backup"} /\ import'.entry \in {None, import.entry}
        /\ import'.saved \in {Absent, import.saved}
    <3>1. CASE import' = NoImport
      BY <3>1 DEF NoImport
    <3>2. CASE import' = [import EXCEPT !.at = "backup", !.merged = Merge(sent, config)]
      BY <1>1, <3>2 DEF Importing
    <3> QED BY <2>1, <3>1, <3>2
  <2> QED BY <1>1, <1>3, <1>4, <2>1, <2>2
<1>14. CASE Backup \/ WriteConfig \/ ConfigFails
  <2>1. /\ UNCHANGED <<target, imported>>
        /\ \/ import' = NoImport \/ import' = [import EXCEPT !.at = "write"]
           \/ import' = [import EXCEPT !.at = "close"]
    BY <1>14 DEF Backup, WriteConfig, ConfigFails, local
  <2>2. /\ import'.at \in {"idle", "write", "close"} /\ import'.entry \in {None, import.entry}
        /\ import'.saved \in {Absent, import.saved}
    BY <1>1, <2>1 DEF NoImport, Importing
  <2> QED BY <1>1, <1>3, <1>4, <2>1, <2>2
<1>15. CASE KillImport
  <2>1. /\ import'.at = "idle" /\ import'.saved = Absent /\ import'.entry = None
        /\ UNCHANGED <<target, imported>>
    <3>1. import' = NoImport /\ UNCHANGED <<target, imported>>
      BY <1>15 DEF KillImport
    <3> QED BY <3>1 DEF NoImport
  <2> QED BY <1>1, <1>3, <1>4, <2>1
<1> QED BY <1>5, <1>6, <1>7, <1>8, <1>9, <1>10, <1>11, <1>12, <1>13, <1>14, <1>15 DEF Import

LEMMA IInvInit == Init => IInv
<1> SUFFICES ASSUME Init PROVE IInv
  OBVIOUS
<1>1. TypeInv
  BY TypeInit
<1>2. \A f \in Files : source[f] = 0 /\ export.seen[f] = 0
  BY DEF Init, NoExport, Absent
<1>3. writes = 0 /\ manifest = None /\ imported = None /\ import.entry = None
  BY DEF Init, NoImport
<1> QED BY <1>1, <1>2, <1>3 DEF IInv, NothingAhead, SeenIsPacked, NamedIsPacked, NamedIsOpened,
       EntryIsBrought, ImportedIsThere

LEMMA IInvStep == IInv /\ [Next]_vars => IInv'
<1> SUFFICES ASSUME IInv, [Next]_vars PROVE IInv'
  OBVIOUS
<1>1. TypeInv'
  BY TypeStep, ArchiveStep DEF IInv, TypeInv
<1>2. CASE \E f \in Files : Write(f)
  BY <1>2, WriteKeeps
<1>3. CASE Export \/ KillExport
  <2>1. UNCHANGED <<source, imported, target, import>>
    BY <1>3 DEF machine, shared, local, Export, StartExport, Walk, Check, Stage, ExportFails, Publish,
       Record, SendConfig, KillExport
  <2>2. NamedIsOpened' /\ EntryIsBrought' /\ ImportedIsThere'
    <3>1. NamedIsOpened'
      BY <2>1 DEF IInv, NamedIsOpened, Names
    <3>2. EntryIsBrought' /\ ImportedIsThere'
      BY <2>1 DEF IInv, EntryIsBrought, ImportedIsThere, Names
    <3> QED BY <3>1, <3>2
  <2> QED BY <1>1, <1>3, <2>2, ExportKeeps DEF IInv
<1>4. CASE Import \/ KillImport
  BY <1>1, <1>4, ImportKeeps DEF IInv
<1>5. CASE Crawl \/ UNCHANGED vars
  <2>1. UNCHANGED <<source, writes, archive, manifest, imported, target, export, import>>
    BY <1>5 DEF Crawl, vars, machine, shared, local
  <2>2. NothingAhead' /\ SeenIsPacked' /\ NamedIsPacked'
    BY <2>1 DEF IInv, NothingAhead, SeenIsPacked, NamedIsPacked, Names
  <2>3. NamedIsOpened' /\ EntryIsBrought' /\ ImportedIsThere'
    BY <2>1 DEF IInv, NamedIsOpened, EntryIsBrought, ImportedIsThere, Names
  <2> QED BY <1>1, <2>2, <2>3 DEF IInv
<1> QED BY <1>2, <1>3, <1>4, <1>5 DEF Next

\* The next export skips a tenant only if the archive has its files as they are.
THEOREM SkippedExports == Spec => []SkippedExportIsCurrent
<1>1. IInv => SkippedExportIsCurrent
  <2> SUFFICES ASSUME IInv, archive # None, manifest = source PROVE Has(archive, source)
    BY DEF SkippedExportIsCurrent
  <2>1. manifest # None
    BY NoneIsNoContents DEF IInv, TypeInv, TypeOK
  <2> QED BY <2>1 DEF IInv, NamedIsPacked, Names, Has, Held
<1> QED BY <1>1, IInvInit, IInvStep, PTL DEF Spec

\* The next import skips a tenant only if its files are there as they are at the
\* source.
THEOREM SkippedImports == Spec => []SkippedImportIsComplete
<1>1. IInv => SkippedImportIsComplete
  <2> SUFFICES ASSUME IInv, imported = source PROVE Has(target, source)
    BY DEF SkippedImportIsComplete
  <2>1. imported # None
    BY NoneIsNoContents DEF IInv, TypeInv, TypeOK
  <2> QED BY <2>1 DEF IInv, ImportedIsThere, Names, Has, Held
<1> QED BY <1>1, IInvInit, IInvStep, PTL DEF Spec

(***************************************************************************)
(* The tenants of the importing machine.                                   *)
(***************************************************************************)
LEMMA CutIsNoConfig == \A c \in SUBSET Tenants : c # Cut
  BY NoneAssumption DEF Cut

LEMMA OwnInit == Init => OwnInv
<1> SUFFICES ASSUME Init PROVE OwnInv
  OBVIOUS
<1>1. config \in SUBSET Tenants /\ Ours \subseteq config /\ import.at = "idle"
  BY DEF Init, NoImport
<1> QED BY <1>1, TypeInit, CutIsNoConfig DEF OwnInv, OwnTenantsAreKept

LEMMA OwnStep == OwnInv /\ [Next]_vars => OwnInv'
<1> SUFFICES ASSUME OwnInv, [Next]_vars PROVE OwnInv'
  OBVIOUS
<1> USE DEF machine, shared, local
<1>1. TypeInv'
  BY TypeStep, ArchiveStep DEF OwnInv, TypeInv
<1>2. /\ import \in Importing /\ OwnTenantsAreKept
      /\ import.at \in {"write", "close"} => Backed
  BY DEF OwnInv, TypeInv, TypeOK
<1>3. ASSUME UNCHANGED <<config, backups>>, import'.at \notin {"write", "close"} \/ import' = import
      PROVE  OwnInv'
  BY <1>1, <1>2, <1>3 DEF OwnInv, OwnTenantsAreKept, Backed
<1>4. CASE (\E f \in Files : Write(f)) \/ Crawl \/ Export \/ KillExport \/ UNCHANGED vars
  <2>1. UNCHANGED <<config, backups, import>>
    BY <1>4 DEF Write, Crawl, Export, StartExport, Walk, Check, Stage, ExportFails, Publish, Record,
       SendConfig, KillExport, vars
  <2> QED BY <1>3, <2>1
<1>5. CASE StartImport \/ List \/ ExtractFails \/ RecordImport \/ ConfigFails \/ KillImport
  <2>1. UNCHANGED <<config, backups>>
    BY <1>5 DEF StartImport, List, ExtractFails, RecordImport, ConfigFails, KillImport
  <2>2. import'.at \in {"list", "config", "save", "idle"}
    <3>1. CASE StartImport
      BY <3>1 DEF StartImport, NoImport
    <3>2. CASE List
      BY <3>2 DEF List, Configure, NoImport
    <3>3. CASE ExtractFails
      BY <3>3 DEF ExtractFails, AfterFailure, NoImport
    <3>4. CASE RecordImport
      BY <3>4 DEF RecordImport, Configure, NoImport
    <3>5. CASE ConfigFails \/ KillImport
      BY <3>5 DEF ConfigFails, KillImport, NoImport
    <3> QED BY <1>5, <3>1, <3>2, <3>3, <3>4, <3>5
  <2> QED BY <1>3, <2>1, <2>2
<1>6. CASE Save
  BY <1>2, <1>3, <1>6 DEF Save, Importing
<1>7. CASE Open
  BY <1>2, <1>3, <1>7 DEF Open, Importing
<1>8. CASE Extract
  <2>1. UNCHANGED <<config, backups>> /\ import'.at \in {"extract", "restore"}
    BY <1>2, <1>8 DEF Extract, Importing
  <2> QED BY <1>3, <2>1
<1>9. CASE Restore
  <2>1. UNCHANGED <<config, backups>> /\ import'.at \in {"restore", "record"}
    BY <1>2, <1>9 DEF Restore, Importing
  <2> QED BY <1>3, <2>1
<1>10. CASE ReadConfig
  <2>1. UNCHANGED <<config, backups>>
    BY <1>10 DEF ReadConfig
  <2>2. import'.at \in {"idle", "backup"}
    BY <1>2, <1>10 DEF ReadConfig, NoImport, Importing
  <2> QED BY <1>3, <2>1, <2>2
<1>11. CASE Backup
  <2>1. /\ backups' = backups \cup {config \cap Ours} /\ UNCHANGED config
        /\ import' = [import EXCEPT !.at = "write"]
    BY <1>11 DEF Backup
  <2>2. Ours \subseteq config => config \cap Ours = Ours
    OBVIOUS
  <2>3. Backed'
    BY <1>2, <2>1, <2>2 DEF OwnTenantsAreKept, Backed
  <2> QED BY <1>1, <2>3 DEF OwnInv, OwnTenantsAreKept, Backed
<1>12. CASE WriteConfig
  <2>1. Backed /\ UNCHANGED backups
    BY <1>2, <1>12 DEF WriteConfig
  <2>2. Backed'
    BY <2>1 DEF Backed
  <2> QED BY <1>1, <2>2 DEF OwnInv, OwnTenantsAreKept, Backed
<1> QED BY <1>4, <1>5, <1>6, <1>7, <1>8, <1>9, <1>10, <1>11, <1>12 DEF Next, Import

\* Whatever is sent and wherever an import is killed or fails, the tenants that
\* only the importing machine has are in its deployment.json or in a backup.
THEOREM OwnTenantsKept == Spec => []OwnTenantsAreKept
<1>1. OwnInv => OwnTenantsAreKept
  BY DEF OwnInv
<1> QED BY <1>1, OwnInit, OwnStep, PTL DEF Spec
=============================================================================
