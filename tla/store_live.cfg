SPECIFICATION FairSpec
CONSTANTS
    a = a
    b = b
    earlier = earlier
    None = None
    Slugs = {blog}
    Jobs = {a, b}
    Sweeper = sweeper
    Old = earlier
    Entries = {"index"}
    FilesOf <- OneFile
    Ops = {"publish", "replace", "update", "delete"}
    Accesses = {"keep", "set"}
    Expiries = {"keep", "after"}
    Faults = {"fs"}
    MaxSlugAttempts = 1
    Life = 1
    MaxTime = 2
PROPERTIES JobsReturn ExpiredGo SaveKeepsCurrent
