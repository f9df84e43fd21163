SPECIFICATION Spec
CONSTANTS
    a = a
    b = b
    earlier = earlier
    None = None
    Slugs = {blog}
    Jobs = {a}
    Sweeper = sweeper
    Old = earlier
    Entries = {"index"}
    FilesOf <- OneFile
    Ops = {"replace"}
    Accesses = {"open"}
    Expiries = {"never"}
    Faults = {"fs"}
    MaxSlugAttempts = 1
    Life = 1
    MaxTime = 1
INVARIANTS FailedReplaceKeepsContent
