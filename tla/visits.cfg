SPECIFICATION VSpec
CONSTANTS
    a = a
    b = b
    earlier = earlier
    None = None
    Slugs = {blog}
    Jobs = {a, b}
    Sweeper = sweeper
    Old = earlier
    Entries = {"index", "404.html"}
    FilesOf <- Uploads
    Ops = {"publish", "replace", "delete", "update"}
    Accesses = {"open"}
    Expiries = {"keep", "never"}
    Faults = {"crash"}
    MaxSlugAttempts = 2
    Life = 1
    MaxTime = 1
    Visitors = {v}
    VisitFaults = {"fs", "db"}
    NotFoundPage = "404.html"
INVARIANTS RestIsClean
PROPERTIES NothingOutdatedIsSent QuietVisitsAreExact
