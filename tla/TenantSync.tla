------------------------------ MODULE TenantSync ------------------------------
(* sync_tenant_data.py: one machine exports a tenant's files to an archive    *)
(* with a manifest beside it, another imports the archive, and both skip what *)
(* their manifests say is unchanged.  The crawler, or the git export, writes  *)
(* on the first machine all the while, and either script may be killed or     *)
(* fail between two steps.  One export and one import run at a time.          *)
EXTENDS Naturals, FiniteSets

CONSTANTS Files,      \* the exportable files of the tenant
          MaxWrites,  \* bound: writes and deletions on the exporting machine
          Tenants,    \* codenames a deployment.json may list
          Ours,       \* those only the importing machine has
          None        \* no archive, no entry, no tenant

ASSUME BoundAssumption == MaxWrites \in Nat
ASSUME OursAssumption == Ours \subseteq Tenants
ASSUME NoneAssumption == None \notin Tenants

VARIABLES source,    \* each file as its last write left it, 0: absent
          writes,    \* how many there have been
          leased,    \* the crawler lock of the tenant has not expired
          archive,   \* <tenant>.7z in the sync directory
          manifest,  \* the tenant's entry in manifest.json
          target,    \* the files on the importing machine
          imported,  \* the tenant's entry in the import state
          export,    \* what the export script does
          import,    \* what the import script does
          sent,      \* deployment.json in the sync directory
          config,    \* deployment.json of the importing machine
          backups    \* what each deployment.json.backup beside it names of Ours

machine == <<source, writes, leased>>
shared == <<archive, manifest, sent>>
local == <<target, imported, config, backups>>
vars == <<machine, shared, local, export, import>>

Versions == 0 .. MaxWrites
Contents == [Files -> Versions]

ASSUME NoneIsNoContents == None \notin Contents

Absent == [f \in Files |-> 0]

\* A deployment.json whose writing was cut off.
Cut == {None}

Configs == (SUBSET Tenants) \cup {Cut}

Exporting == [at : {"idle", "walk", "check", "stage", "pack", "record", "config", "copy"},
              entry : Contents \cup {None},  \* the entry of the manifest loaded at the start
              all : BOOLEAN,                 \* skip_unchanged
              left : SUBSET Files,           \* not walked, or not copied, yet
              seen : Contents,               \* source_snapshot
              staged : Contents]
Importing == [at : {"idle", "list", "save", "open", "extract", "restore", "record",
                    "config", "backup", "write", "close"},
              entry : Contents \cup {None}, all : BOOLEAN, keep : BOOLEAN,
              only : SUBSET Files,           \* local_only_files
              saved : Contents,              \* local_backups
              left : SUBSET Files,           \* not extracted yet
              archive : Contents,            \* what 7z x has opened
              merged : SUBSET Tenants]

NoExport == [at |-> "idle", entry |-> None, all |-> FALSE, left |-> {},
             seen |-> Absent, staged |-> Absent]
NoImport == [at |-> "idle", entry |-> None, all |-> FALSE, keep |-> FALSE, only |-> {},
             saved |-> Absent, left |-> {}, archive |-> Absent, merged |-> {}]

\* Type invariant.
TypeOK == /\ source \in Contents /\ writes \in Versions /\ leased \in BOOLEAN
          /\ archive \in Contents \cup {None} /\ manifest \in Contents \cup {None}
          /\ target \in Contents /\ imported \in Contents \cup {None}
          /\ export \in Exporting /\ import \in Importing
          /\ sent \in Configs /\ config \in Configs /\ backups \subseteq SUBSET Ours

Init == /\ source = Absent /\ writes = 0 /\ leased = FALSE
        /\ archive = None /\ manifest = None
        /\ target = Absent /\ imported = None
        /\ export = NoExport /\ import = NoImport
        /\ sent = {} /\ config \in {c \in SUBSET Tenants : Ours \subseteq c} /\ backups = {}

(***************************************************************************)
(* The machine that exports.                                               *)
(***************************************************************************)
\* A file is written, and gets an mtime it never had, or deleted.
Write(f) == /\ leased /\ writes < MaxWrites
            /\ writes' = writes + 1
            /\ \/ source' = [source EXCEPT ![f] = writes + 1]
               \/ source[f] # 0 /\ source' = [source EXCEPT ![f] = 0]
            /\ UNCHANGED <<leased, shared, local, export, import>>

\* A crawl takes the lock, or gives it back.
Crawl == /\ leased' = ~leased
         /\ UNCHANGED <<source, writes, shared, local, export, import>>

(***************************************************************************)
(* export_mode and export_tenant.                                          *)
(***************************************************************************)
StartExport == /\ export.at = "idle"
               /\ \E all \in BOOLEAN :
                     export' = [NoExport EXCEPT !.at = "walk", !.all = all,
                                                !.entry = manifest, !.left = Files]
               /\ UNCHANGED <<machine, shared, local, import>>

\* build_tenant_source_snapshot stats one file after the other.
Walk == /\ export.at = "walk"
        /\ \/ \E f \in export.left :
                 export' = [export EXCEPT !.left = @ \ {f}, !.seen[f] = source[f]]
           \/ export.left = {} /\ export' = [export EXCEPT !.at = "check"]
        /\ UNCHANGED <<machine, shared, local, import>>

\* tenant_export_unchanged; that the size and the name of the archive are
\* compared too is left out: it can only turn a skip into an export.
ExportUnchanged == /\ archive # None
                   /\ export.entry = export.seen

Configure(script) == [script EXCEPT !.at = "config"]

\* A lease, or a snapshot the manifest has, skips the tenant.
Check == /\ export.at = "check"
         /\ export' = IF leased \/ (export.all /\ ExportUnchanged)
                      THEN Configure(NoExport)
                      ELSE [NoExport EXCEPT !.at = "stage", !.left = Files, !.seen = export.seen]
         /\ UNCHANGED <<machine, shared, local, import>>

\* copytree copies one file after the other.
Stage == /\ export.at = "stage"
         /\ \/ \E f \in export.left :
                  export' = [export EXCEPT !.left = @ \ {f}, !.staged[f] = source[f]]
            \/ export.left = {} /\ export' = [export EXCEPT !.at = "pack"]
         /\ UNCHANGED <<machine, shared, local, import>>

\* A file that vanishes under copytree, an error of 7z, a full disk.
ExportFails == /\ export.at \in {"stage", "pack"}
               /\ export' = Configure(NoExport)
               /\ UNCHANGED <<machine, shared, local, import>>

\* publish_completed_archive: a rename, of a copy when the disks differ.
Publish == /\ export.at = "pack"
           /\ archive' = export.staged
           /\ export' = [export EXCEPT !.at = "record", !.staged = Absent]
           /\ UNCHANGED <<machine, manifest, sent, local, import>>

\* Faulty: the snapshot is taken when the archive is done.
EntryAfter == source

\* build_manifest_entry
Entry == export.seen

Record == /\ export.at = "record"
          /\ manifest' = Entry
          /\ export' = Configure(NoExport)
          /\ UNCHANGED <<machine, archive, sent, local, import>>

\* export_deployment_json: copy2 opens the copy and then fills it, with a list
\* of tenants an operator may have changed.
SendConfig == \/ /\ export.at = "config"
                 /\ sent' = Cut
                 /\ export' = [export EXCEPT !.at = "copy"]
                 /\ UNCHANGED <<machine, archive, manifest, local, import>>
              \/ /\ export.at = "copy"
                 /\ sent' \in SUBSET (Tenants \ Ours)
                 /\ export' = NoExport
                 /\ UNCHANGED <<machine, archive, manifest, local, import>>

(***************************************************************************)
(* import_mode and import_tenant.                                          *)
(***************************************************************************)
StartImport == /\ import.at = "idle"
               /\ \E all, keep \in BOOLEAN :
                     import' = [NoImport EXCEPT !.at = "list", !.entry = manifest,
                                                !.all = all, !.keep = keep]
               /\ UNCHANGED <<machine, shared, local, export>>

\* tenant_import_unchanged, by the signatures both entries have.
ImportUnchanged == import.entry # None /\ import.entry = imported

Held(files) == {f \in Files : files[f] # 0}

\* Without an archive nothing is imported; the skip asks the entries alone.
List == /\ import.at = "list"
        /\ import' = IF (import.all /\ ImportUnchanged) \/ archive = None
                     THEN Configure(NoImport)
                     ELSE [NoImport EXCEPT !.at = "save", !.entry = import.entry,
                              !.only = IF import.keep THEN Held(target) \ Held(archive) ELSE {}]
        /\ UNCHANGED <<machine, shared, local, export>>

Save == /\ import.at = "save"
        /\ import' = [import EXCEPT !.at = "open", !.only = {},
                         !.saved = [f \in Files |-> IF f \in import.only THEN target[f] ELSE 0]]
        /\ UNCHANGED <<machine, shared, local, export>>

\* 7z x reads the archive there is by now.
Open == /\ import.at = "open"
        /\ import' = [import EXCEPT !.at = "extract", !.left = Held(archive), !.archive = archive]
        /\ UNCHANGED <<machine, shared, local, export>>

Extract == /\ import.at = "extract"
           /\ \/ \E f \in import.left :
                    /\ target' = [target EXCEPT ![f] = import.archive[f]]
                    /\ import' = [import EXCEPT !.left = @ \ {f}]
              \/ /\ import.left = {}
                 /\ import' = [import EXCEPT !.at = "restore", !.archive = Absent]
                 /\ UNCHANGED target
           /\ UNCHANGED <<machine, shared, imported, config, backups, export>>

\* Faulty: an extraction that failed counts as one that succeeded.
AfterFailureRecorded == "record"

AfterFailure == "config"

\* An error of 7z: what is extracted stays, nothing is restored or recorded.
ExtractFails == /\ import.at = "extract"
                /\ import' = [NoImport EXCEPT !.at = AfterFailure, !.entry = import.entry]
                /\ UNCHANGED <<machine, shared, local, export>>

\* The local files go back, one after the other, over what was extracted.  One
\* that cannot be written is lost, and the import goes on.
Restore == /\ import.at = "restore"
           /\ \/ \E f \in Held(import.saved) :
                    /\ \E v \in {import.saved[f], 0} : target' = [target EXCEPT ![f] = v]
                    /\ import' = [import EXCEPT !.saved[f] = 0]
              \/ /\ Held(import.saved) = {}
                 /\ import' = [import EXCEPT !.at = "record"]
                 /\ UNCHANGED target
           /\ UNCHANGED <<machine, shared, imported, config, backups, export>>

RecordImport == /\ import.at = "record"
                /\ imported' = IF import.entry # None THEN import.entry ELSE imported
                /\ import' = Configure(NoImport)
                /\ UNCHANGED <<machine, shared, target, config, backups, export>>

(***************************************************************************)
(* import_deployment_json.                                                 *)
(***************************************************************************)
\* The tenants that came, and the local ones the file does not name.
Merge(remote, own) == IF own = Cut THEN remote ELSE remote \cup own

ReadConfig == /\ import.at = "config"
              /\ import' = IF sent = Cut \/ Merge(sent, config) = config
                           THEN NoImport
                           ELSE [import EXCEPT !.at = "backup", !.merged = Merge(sent, config)]
              /\ UNCHANGED <<machine, shared, local, export>>

\* Faulty: the copy is made of a file that open("w") has emptied already.
BackupLate == /\ import.at = "backup"
              /\ backups' = backups \cup {{}}
              /\ import' = [import EXCEPT !.at = "write"]
              /\ UNCHANGED <<machine, shared, target, imported, config, export>>

\* copy2 to a name with the second, which no earlier copy has.
Backup == /\ import.at = "backup"
          /\ backups' = backups \cup {config \cap Ours}
          /\ import' = [import EXCEPT !.at = "write"]
          /\ UNCHANGED <<machine, shared, target, imported, config, export>>

\* open("w") empties the file before json.dump fills it.
WriteConfig == \/ /\ import.at = "write"
                  /\ config' = Cut
                  /\ import' = [import EXCEPT !.at = "close"]
                  /\ UNCHANGED <<machine, shared, target, imported, backups, export>>
               \/ /\ import.at = "close"
                  /\ config' = import.merged
                  /\ import' = NoImport
                  /\ UNCHANGED <<machine, shared, target, imported, backups, export>>

\* An error of any of the three is caught, and leaves the file as it is by then.
ConfigFails == /\ import.at \in {"backup", "write", "close"}
               /\ import' = NoImport
               /\ UNCHANGED <<machine, shared, local, export>>

KillExport == /\ export.at # "idle"
              /\ export' = NoExport
              /\ UNCHANGED <<machine, shared, local, import>>

KillImport == /\ import.at # "idle"
              /\ import' = NoImport
              /\ UNCHANGED <<machine, shared, local, export>>

Export == StartExport \/ Walk \/ Check \/ Stage \/ ExportFails \/ Publish \/ Record \/ SendConfig
Import == StartImport \/ List \/ Save \/ Open \/ Extract \/ ExtractFails \/ Restore
          \/ RecordImport \/ ReadConfig \/ Backup \/ WriteConfig \/ ConfigFails

Next == (\E f \in Files : Write(f)) \/ Crawl \/ Export \/ Import \/ KillExport \/ KillImport

Spec == Init /\ [][Next]_vars

(***************************************************************************)
(* Properties.                                                             *)
(***************************************************************************)
Has(files, wanted) == \A f \in Held(wanted) : files[f] = wanted[f]

\* When the next export would skip the tenant as unchanged, the archive has every
\* file as it is now, however the last export and a crawl interleaved.  (It may
\* have more: a file that came and went while the export ran.)
SkippedExportIsCurrent == archive # None /\ manifest = source => Has(archive, source)

\* When the import state names the files as they are at the source, the target
\* has all of them: no import is skipped before the files are there.
SkippedImportIsComplete == imported = source => Has(target, source)

\* The tenants only the importing machine has are in its deployment.json or in
\* a backup of it, at every moment: when an import is killed or fails while it
\* writes the file, and when the next one takes the torn file for an empty one.
OwnTenantsAreKept == (config # Cut /\ Ours \subseteq config) \/ Ours \in backups
===============================================================================
