SPECIFICATION Spec
CONSTANTS
    small = small
    large = large
    None = None
    Slugs = {blog}
    Contents = {large}
    Entries = {"index"}
    FilesOf <- Uploads
    Viewers = {ann}
    Patches = {}
    Passwords = {p, q}
    GrantLife = 1
    MaxGenerations = 2
    MaxTime = 2
INVARIANTS GrantsAreEarned ServedIsUnlocked
PROPERTIES GrantsAreNotRefreshed UnlockedOpens
