\* Two files, two writes, one tenant of each machine.
SPECIFICATION Spec
CONSTANTS
    Files = {a, b}
    MaxWrites = 2
    Tenants = {ours, theirs}
    Ours = {ours}
    None = None
SYMMETRY AnyFiles
INVARIANTS SkippedExportIsCurrent SkippedImportIsComplete OwnTenantsAreKept
