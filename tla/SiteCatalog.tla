----------------------------- MODULE SiteCatalog ----------------------------
(***************************************************************************)
(* What the storage core promises its readers about the sites table (the    *)
(* viewer routes, the lists and the API read rows without its mutex): each  *)
(* slug has at most one committed row, and the row changes only in one of   *)
(* four ways, each atomic.  A published row names an entry of its own       *)
(* upload; a replacement brings a new upload and its entry and keeps access *)
(* and expiry; a settings save keeps the upload; a row that is gone is gone *)
(* completely.  SiteStore implements this with jobs that fail half way.     *)
(***************************************************************************)
EXTENDS Naturals

CONSTANTS
    None,           \* no row, an open site, no expiry
    Slugs,
    Contents,       \* uploads
    Entries,        \* relative file paths that may be a site's entry
    FilesOf,        \* the files each upload consists of
    Generations     \* credentials, told apart by their salt

VARIABLE row

Rows == [meta : Contents, entry : Entries,
         access : Generations \cup {None}, expires : Nat \cup {None}]

(* Sites::publish. *)
Appears(old, new) ==
    old = None /\ new \in Rows /\ new.entry \in FilesOf[new.meta]

(* Sites::replace. *)
Renewed(old, new) ==
    /\ old # None /\ new \in Rows /\ new.entry \in FilesOf[new.meta]
    /\ new.access = old.access /\ new.expires = old.expires

(* Sites::update. *)
Changed(old, new) ==
    old # None /\ new \in Rows /\ new.meta = old.meta

(* Sites::delete, the sweeper, and a boot that finds no directory. *)
Vanishes(old, new) ==
    old # None /\ new = None

Init == row \in [Slugs -> Rows \cup {None}]

Next ==
    \E s \in Slugs :
        /\ row' = [row EXCEPT ![s] = row'[s]]
        /\ \/ Appears(row[s], row'[s]) \/ Renewed(row[s], row'[s])
           \/ Changed(row[s], row'[s]) \/ Vanishes(row[s], row'[s])

Spec == Init /\ [][Next]_row
=============================================================================
