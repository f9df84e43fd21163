SPECIFICATION Spec
CONSTANTS
    small = small
    large = large
    None = None
    Slugs = {blog}
    Contents = {small, large}
    Entries = {"index", "about"}
    FilesOf <- Uploads
    Viewers = {}
    Patches = {amy}
    Passwords = {p}
    GrantLife = 1
    MaxGenerations = 2
    MaxTime = 1

PROPERTIES AbsentKeysKeep
