SPECIFICATION Spec
CONSTANTS
    a = a
    b = b
    earlier = earlier
    None = None
    Slugs = {blog}
    Jobs = {a}
    Sweeper = sweeper
    Old = earlier
    Entries = {"index"}
    FilesOf <- OneFile
    Ops = {"update", "delete", "publish"}
    Accesses = {"open"}
    Expiries = {"never", "after"}
    Faults = {}
    MaxSlugAttempts = 1
    Life = 1
    MaxTime = 1
PROPERTIES SweepRemovesOnlyExpired
