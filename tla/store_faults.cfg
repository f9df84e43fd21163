SPECIFICATION Spec
CONSTANTS
    a = a
    b = b
    earlier = earlier
    None = None
    Slugs = {blog}
    Jobs = {a, b}
    Sweeper = sweeper
    Old = earlier
    Entries = {"index", "page"}
    FilesOf <- ThreeUploads
    Ops = {"publish", "replace", "delete", "archive", "update"}
    Accesses = {"open"}
    Expiries = {"never"}
    Faults = {"fs", "db", "crash"}
    MaxSlugAttempts = 2
    Life = 1
    MaxTime = 1
INVARIANTS TypeOK RowIsWhole NothingLost CleanupKnowsDisk ArchiveIsStable DivergenceIsReported
PROPERTIES AppearsInstalled NeverAdopted ImplementsCatalog
