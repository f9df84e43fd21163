SPECIFICATION Spec
CONSTANTS
    None = None
    ann = ann
    Browsers = {ann}
    Tabs = {t1, t2}
    BrowserOf <- OneBrowser
    Capacity = 2
    Lifetime = 2
    MaxLag = 1
    MaxIds = 3
    MaxTime = 3
INVARIANTS TypeOK
PROPERTIES FormsFollowLogout SessionsRunOut LiveSessionsStay RoomIsUsed
