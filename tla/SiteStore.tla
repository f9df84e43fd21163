----------------------------- MODULE SiteStore -----------------------------
(***************************************************************************)
(* The storage core of pagebin (src/sites.rs and src/sites/): a SQLite row  *)
(* per site, a content directory per site, private staging under tmp/, and  *)
(* one global mutation mutex.  Publication, replacement, settings update,   *)
(* deletion and archive are jobs that take one database or filesystem       *)
(* operation per step; the expiry sweeper deletes through the same code as  *)
(* an administrator; the process may stop at any step and its next boot     *)
(* reconciles rows with directories before it serves.                       *)
(*                                                                          *)
(* Rust's Option::None is the constant None wherever it occurs: no row, no  *)
(* directory, an open site (no password), no expiry, no custom slug, and a  *)
(* free mutex.                                                              *)
(***************************************************************************)
EXTENDS Naturals

CONSTANTS
    None,               \* absence, as Option::None
    Slugs,              \* URL keys, each naming sites/<slug>
    Jobs,               \* admitted requests; a job also names what it uploads
    Sweeper,            \* the background expiry task
    Old,                \* what an earlier process published
    Entries,            \* relative file paths that may be a site's entry
    FilesOf,            \* the files each content consists of
    Ops,                \* the operations jobs may ask for
    Accesses,           \* the access changes jobs may ask for
    Expiries,           \* the expiry changes jobs may ask for
    Faults,             \* which of "fs", "db", "crash" can happen
    MaxSlugAttempts,    \* MAX_SLUG_ATTEMPTS
    Life,               \* the number of time units a finite expiry lasts
    MaxTime             \* bound on the clock

Contents == Jobs \cup {Old}
Actors == Jobs \cup {Sweeper}

(* A directory tree holds one upload: "empty" after mkdir, "partial" while  *)
(* it is being written or removed, "whole" otherwise.                       *)
Trees == [of : Contents, is : {"empty", "partial", "whole"}]

(* A committed row: meta is the upload that file_count and size_bytes       *)
(* describe, access the generation (salt) of its password.                  *)
Rows == [meta : Contents, entry : Entries,
         access : Contents \cup {None}, expires : Nat \cup {None}]

Publications(j) == [op : {"publish"}, slug : Slugs \cup {None}, entry : FilesOf[j],
                    access : Accesses \ {"keep"}, expiry : Expiries \ {"keep"}]
Replacements(j) == [op : {"replace"}, slug : Slugs, entry : FilesOf[j]]
Updates         == [op : {"update"}, slug : Slugs, entry : Entries,
                    access : Accesses, expiry : Expiries]
Others          == [op : {"delete", "archive"}, slug : Slugs]

Requests(j) == {r \in Publications(j) \cup Replacements(j) \cup Updates \cup Others :
                    r.op \in Ops}

ASSUME StoreAssumption ==
    /\ FilesOf \in [Contents -> SUBSET Entries]
    /\ MaxSlugAttempts \in Nat \ {0} /\ Life \in Nat \ {0} /\ MaxTime \in Nat
    /\ Sweeper \notin Jobs /\ Old \notin Jobs
    /\ None \notin Slugs \cup Actors \cup Contents \cup Nat
    /\ None \notin Trees /\ None \notin Rows /\ \A j \in Jobs : None \notin Requests(j)
    /\ Accesses \subseteq {"open", "keep", "set"}
    /\ Expiries \subseteq {"keep", "never", "after"}

VARIABLES
    phase,      \* "down", the boot stages "tmp", "content", "rows", "sweep", then "up"
    now,        \* Unix time
    lock,       \* holder of Sites.mutation
    row,        \* committed SQLite rows
    dir,        \* sites/<slug>
    staging,    \* tmp/<random> of each job
    parked,     \* tmp/<random>.old of each job
    pc,         \* where each actor is in its handler
    req,        \* what each job was asked
    at,         \* the slug each actor is working on
    tries,      \* slug candidates a publication has used up
    reserved,   \* Content.installed_directory is set
    moved,      \* Content.staging_removed
    held,       \* the Site a job built or read and still holds
    packed,     \* the tree an archive is packing
    outcome,    \* what each job returned
    doomed      \* expired slugs the sweeper read and has not visited

vars == <<phase, now, lock, row, dir, staging, parked, pc, req, at, tries,
          reserved, moved, held, packed, outcome, doomed>>
disk == <<row, dir, staging, parked>>
memory == <<req, at, tries, reserved, moved, held, packed>>
world == <<phase, now, doomed>>

Serving == phase = "up"
Partly(tree) == [tree EXCEPT !.is = "partial"]
Expired(r) == r # None /\ r.expires # None /\ r.expires <= now
(* Mistaken: a strict comparison, so a site expires only after its second.   *)
ExpiredSlugsStrictly == {s \in Slugs : row[s] # None /\ row[s].expires # None /\ row[s].expires < now}
ExpiredSlugs == {s \in Slugs : Expired(row[s])}

(***************************************************************************)
(* Moving an actor through its handler.                                     *)
(***************************************************************************)

(* The actor's next await point. *)
Goto(a, place) == pc' = [pc EXCEPT ![a] = place]

(* MutexGuard's drop: a handler that never took the mutex leaves it alone. *)
Release(a) == lock' = IF lock = a THEN None ELSE lock

(* Mistaken: a handler that returns without dropping the guard. *)
ReturnLocked(j, r) ==
    /\ Goto(j, "done")
    /\ outcome' = [outcome EXCEPT ![j] = r]
    /\ UNCHANGED lock

(* A job's handler returns r to its caller. *)
Return(j, r) ==
    /\ Goto(j, "done")
    /\ outcome' = [outcome EXCEPT ![j] = r]
    /\ Release(j)

(* A job with staged content goes on to Content::cleanup with result r. *)
CleanUpWith(j, r) ==
    /\ Goto(j, "cleaning")
    /\ outcome' = [outcome EXCEPT ![j] = r]

(* A deletion ends: a job returns r, the sweeper only logs it. *)
DeleteEnds(a, r) ==
    /\ IF a = Sweeper
       THEN Goto(a, "idle") /\ UNCHANGED outcome
       ELSE Goto(a, "done") /\ outcome' = [outcome EXCEPT ![a] = r]
    /\ Release(a)

(* Where each operation goes once it holds the mutex. *)
FirstStep(op) ==
    CASE op = "publish" -> "inserting"
      [] op = "replace" -> "finding"
      [] op = "update"  -> "checking"
      [] op = "delete"  -> "looking"
      [] op = "archive" -> "opening"

(* What an operation that removes a tree may leave behind. *)
RemoveFails(tree) == {tree, Partly(tree)}

(***************************************************************************)
(* Mistaken forms of actions below, each a bug the code could have had.  No  *)
(* behaviour of Spec takes them: put in place of the action they are named   *)
(* after, each shows which property stands between the code and that bug.    *)
(***************************************************************************)

(* The row is built before the upload's entry has been chosen. *)
NewRowUnresolved(j) ==
    [meta |-> j, entry |-> None,
     access |-> IF req[j].access = "set" THEN j ELSE None,
     expires |-> IF req[j].expiry = "after" THEN now + Life ELSE None]

(* An archive does not wait for the mutex. *)
LockUnlessArchive(j) ==
    /\ pc[j] = "waiting" /\ (lock = None \/ req[j].op = "archive")
    /\ lock' = IF lock = None THEN j ELSE lock
    /\ Goto(j, FirstStep(req[j].op))
    /\ UNCHANGED <<world, disk, memory, outcome>>

(* The row is committed at once instead of in a transaction left open. *)
InsertVisibly(j) ==
    /\ pc[j] = "inserting"
    /\ \E s \in IF req[j].slug = None THEN Slugs ELSE {req[j].slug} :
        /\ row[s] = None
        /\ row' = [row EXCEPT ![s] = held[j]]
        /\ at' = [at EXCEPT ![j] = s]
    /\ Goto(j, "reserving")
    /\ UNCHANGED <<world, lock, dir, staging, parked, req, tries, reserved, moved, held,
                   packed, outcome>>

(* create_dir_all: an existing directory counts as reserved. *)
ReserveAny(j) ==
    /\ pc[j] = "reserving"
    /\ dir' = IF dir[at[j]] = None
              THEN [dir EXCEPT ![at[j]] = [of |-> j, is |-> "empty"]] ELSE dir
    /\ reserved' = [reserved EXCEPT ![j] = TRUE]
    /\ Goto(j, "installing")
    /\ UNCHANGED <<world, lock, row, staging, parked, req, at, tries, moved, held, packed,
                   outcome>>

(* staging_removed is not set after the rename. *)
InstallForgets(j) ==
    /\ pc[j] = "installing"
    /\ dir' = [dir EXCEPT ![at[j]] = staging[j]]
    /\ staging' = [staging EXCEPT ![j] = None]
    /\ Goto(j, "committing")
    /\ UNCHANGED <<world, lock, row, parked, memory, outcome>>

(* A replacement writes a fresh row, losing the site's access and expiry. *)
RecordedAfresh(j) ==
    [row EXCEPT ![at[j]] = [meta |-> j, entry |-> req[j].entry, access |-> None, expires |-> None]]

(* The parked tree is discarded before the row records the new one. *)
SwapAndDiscard(j) ==
    /\ pc[j] = "swapping"
    /\ dir' = [dir EXCEPT ![at[j]] = staging[j]]
    /\ staging' = [staging EXCEPT ![j] = None]
    /\ parked' = [parked EXCEPT ![j] = None]
    /\ moved' = [moved EXCEPT ![j] = TRUE]
    /\ Goto(j, "recording")
    /\ UNCHANGED <<world, lock, row, req, at, tries, reserved, held, packed, outcome>>

(* A replacement with the entry the site already has only saves the row. *)
FindSameEntry(j) ==
    /\ pc[j] = "finding"
    /\ \/ row[at[j]] = None /\ CleanUpWith(j, "absent")
       \/ /\ row[at[j]] # None
          /\ Goto(j, IF row[at[j]].entry = req[j].entry THEN "recording" ELSE "parking")
          /\ UNCHANGED outcome
    /\ UNCHANGED <<world, lock, disk, memory>>

(* A replacement that was taken back is reported as done. *)
RestoreQuietly(j) ==
    /\ pc[j] = "restoring"
    /\ CleanUpWith(j, "ok")
    /\ dir' = [dir EXCEPT ![at[j]] = parked[j]]
    /\ parked' = [parked EXCEPT ![j] = None]
    /\ moved' = [moved EXCEPT ![j] = FALSE]
    /\ UNCHANGED <<world, lock, row, staging, req, at, tries, reserved, held, packed>>

(* The row is read and the mutex dropped before the update is saved. *)
CheckUnlocks(j) ==
    /\ pc[j] = "checking" /\ row[at[j]] # None
    /\ req[j].access = "keep" => row[at[j]].access # None
    /\ held' = [held EXCEPT ![j] = row[at[j]]]
    /\ Goto(j, "proving")
    /\ Release(j)
    /\ UNCHANGED <<world, disk, req, at, tries, reserved, moved, packed, outcome>>

(* The content is removed before the row. *)
LookAndErase(a) ==
    /\ pc[a] = "looking" /\ row[at[a]] # None
    /\ Goto(a, "erasing")
    /\ UNCHANGED <<world, lock, disk, memory, outcome>>

(* Startup clears staging directories and leaves the .old ones. *)
ClearStagingOnly ==
    /\ phase = "tmp"
    /\ staging' = [j \in Jobs |-> None]
    /\ phase' = "content"
    /\ UNCHANGED <<now, lock, row, dir, parked, pc, memory, outcome, doomed>>

(***************************************************************************)
(* Admission and staging: everything before the mutation mutex.             *)
(***************************************************************************)

Submit(j) ==
    /\ Serving /\ pc[j] = "idle"
    /\ \E r \in Requests(j) :
        /\ req' = [req EXCEPT ![j] = r]
        /\ at' = [at EXCEPT ![j] = r.slug]
        /\ Goto(j, IF r.op \in {"publish", "replace"} THEN "staging" ELSE "waiting")
    /\ UNCHANGED <<world, lock, disk, tries, reserved, moved, held, packed, outcome>>

(* Content::new: an exclusive mkdir under tmp/. *)
Stage(j) ==
    /\ pc[j] = "staging"
    /\ \/ /\ staging' = [staging EXCEPT ![j] = [of |-> j, is |-> "partial"]]
          /\ Goto(j, "writing")
          /\ UNCHANGED <<lock, outcome>>
       \/ /\ "fs" \in Faults
          /\ Return(j, "error")
          /\ UNCHANGED staging
    /\ UNCHANGED <<world, row, dir, parked, memory>>

(* Content::write: the files, then the wait for the mutex; a failed write    *)
(* cleans up without ever holding it.  It needs no fault to fail: an upload  *)
(* with a file and a path below that file passes validation and fails here. *)
Write(j) ==
    /\ pc[j] = "writing"
    /\ \/ /\ staging' = [staging EXCEPT ![j].is = "whole"]
          /\ Goto(j, "waiting")
          /\ UNCHANGED outcome
       \/ /\ CleanUpWith(j, "error")
          /\ UNCHANGED staging
    /\ UNCHANGED <<world, lock, row, dir, parked, memory>>

(* The row publish_staged builds from the request and the current time. *)
NewRow(j) ==
    [meta |-> j, entry |-> req[j].entry,
     access |-> IF req[j].access = "set" THEN j ELSE None,
     expires |-> IF req[j].expiry = "after" THEN now + Life ELSE None]

(* A job takes the mutex; a publication reads the clock in the same breath. *)
Lock(j) ==
    /\ pc[j] = "waiting" /\ lock = None
    /\ lock' = j
    /\ Goto(j, FirstStep(req[j].op))
    /\ held' = IF req[j].op = "publish" THEN [held EXCEPT ![j] = NewRow(j)] ELSE held
    /\ UNCHANGED <<world, disk, req, at, tries, reserved, moved, packed, outcome>>

(***************************************************************************)
(* Publication: reserve the row in an open transaction, create the          *)
(* directory exclusively, rename the staging directory onto it, commit.     *)
(***************************************************************************)

(* A candidate was taken by a row or by a path: a custom slug is a conflict, *)
(* a generated one is drawn again until the attempts are used up.           *)
TryAnother(j) ==
    IF req[j].slug # None THEN CleanUpWith(j, "conflict") /\ UNCHANGED tries
    ELSE /\ tries' = [tries EXCEPT ![j] = @ + 1]
         /\ IF tries[j] + 1 = MaxSlugAttempts THEN CleanUpWith(j, "error")
            ELSE Goto(j, "inserting") /\ UNCHANGED outcome

(* begin and INSERT; the row stays invisible until the commit.              *)
Insert(j) ==
    /\ pc[j] = "inserting"
    /\ \E s \in IF req[j].slug = None THEN Slugs ELSE {req[j].slug} :
        \/ /\ row[s] # None
           /\ TryAnother(j)
           /\ UNCHANGED at
        \/ /\ row[s] = None
           /\ at' = [at EXCEPT ![j] = s]
           /\ Goto(j, "reserving")
           /\ UNCHANGED <<outcome, tries>>
        \/ /\ "db" \in Faults
           /\ CleanUpWith(j, "error")
           /\ UNCHANGED <<at, tries>>
    /\ UNCHANGED <<world, lock, disk, req, reserved, moved, held, packed>>

(* reserve_destination: an existing path of any kind is never adopted.      *)
Reserve(j) ==
    /\ pc[j] = "reserving"
    /\ \/ /\ dir[at[j]] = None
          /\ dir' = [dir EXCEPT ![at[j]] = [of |-> j, is |-> "empty"]]
          /\ reserved' = [reserved EXCEPT ![j] = TRUE]
          /\ Goto(j, "installing")
          /\ UNCHANGED <<outcome, tries>>
       \/ /\ dir[at[j]] # None
          /\ TryAnother(j)
          /\ UNCHANGED <<dir, reserved>>
       \/ /\ "fs" \in Faults \/ ("db" \in Faults /\ dir[at[j]] # None)
          /\ CleanUpWith(j, "error")
          /\ UNCHANGED <<dir, reserved, tries>>
    /\ UNCHANGED <<world, lock, row, staging, parked, req, at, moved, held, packed>>

(* install, then preserve_installed: from here on the bytes stay.           *)
Install(j) ==
    /\ pc[j] = "installing"
    /\ \/ /\ dir' = [dir EXCEPT ![at[j]] = staging[j]]
          /\ staging' = [staging EXCEPT ![j] = None]
          /\ moved' = [moved EXCEPT ![j] = TRUE]
          /\ Goto(j, "committing")
          /\ UNCHANGED outcome
       \/ /\ "fs" \in Faults
          /\ CleanUpWith(j, "error")
          /\ UNCHANGED <<dir, staging, moved>>
    /\ UNCHANGED <<world, lock, row, parked, req, at, tries, reserved, held, packed>>

(* A failed commit is uncertain: the row may or may not be there.           *)
Commit(j) ==
    /\ pc[j] = "committing"
    /\ \/ /\ row' = [row EXCEPT ![at[j]] = held[j]]
          /\ CleanUpWith(j, "ok")
       \/ /\ "db" \in Faults
          /\ row' \in {row, [row EXCEPT ![at[j]] = held[j]]}
          /\ CleanUpWith(j, "error")
    /\ UNCHANGED <<world, lock, dir, staging, parked, memory>>

(***************************************************************************)
(* Content::cleanup, after a publication or a replacement.                  *)
(***************************************************************************)

(* remove_dir of a reservation nothing was moved onto; storage that fails   *)
(* validation ends the cleanup and keeps everything.                        *)
DropReservation(j) ==
    /\ pc[j] = "cleaning"
    /\ \/ /\ Goto(j, "unstaging")
          /\ dir' = IF reserved[j] /\ ~moved[j] THEN [dir EXCEPT ![at[j]] = None] ELSE dir
          /\ UNCHANGED <<lock, outcome>>
       \/ /\ "fs" \in Faults /\ reserved[j] /\ ~moved[j]
          /\ Goto(j, "unstaging")
          /\ outcome' = [outcome EXCEPT ![j] = "error"]
          /\ UNCHANGED <<lock, dir>>
       \/ /\ "fs" \in Faults
          /\ Return(j, "error")
          /\ UNCHANGED dir
    /\ UNCHANGED <<world, row, staging, parked, memory>>

(* remove_dir_all of the staging directory unless it was moved away.        *)
DropStaging(j) ==
    /\ pc[j] = "unstaging"
    /\ \/ /\ staging' = IF moved[j] THEN staging ELSE [staging EXCEPT ![j] = None]
          /\ Return(j, outcome[j])
       \/ /\ "fs" \in Faults /\ ~moved[j]
          /\ \E tree \in RemoveFails(staging[j]) : staging' = [staging EXCEPT ![j] = tree]
          /\ Return(j, "error")
    /\ UNCHANGED <<world, row, dir, parked, memory>>

(***************************************************************************)
(* Replacement: swap the directory, record it, or put the old one back.     *)
(***************************************************************************)

Find(j) ==
    /\ pc[j] = "finding"
    /\ \/ row[at[j]] = None /\ CleanUpWith(j, "absent")
       \/ row[at[j]] # None /\ Goto(j, "parking") /\ UNCHANGED outcome
       \/ "db" \in Faults /\ CleanUpWith(j, "error")
    /\ UNCHANGED <<world, lock, disk, memory>>

(* swap_into, first rename: the current directory to tmp/<random>.old.      *)
Park(j) ==
    /\ pc[j] = "parking"
    /\ \/ /\ dir[at[j]] # None
          /\ parked' = [parked EXCEPT ![j] = dir[at[j]]]
          /\ dir' = [dir EXCEPT ![at[j]] = None]
          /\ Goto(j, "swapping")
          /\ UNCHANGED outcome
       \/ /\ "fs" \in Faults \/ dir[at[j]] = None
          /\ CleanUpWith(j, "error")
          /\ UNCHANGED <<dir, parked>>
    /\ UNCHANGED <<world, lock, row, staging, memory>>

(* swap_into, second rename: staging onto the site's name.                  *)
Swap(j) ==
    /\ pc[j] = "swapping"
    /\ \/ /\ dir' = [dir EXCEPT ![at[j]] = staging[j]]
          /\ staging' = [staging EXCEPT ![j] = None]
          /\ moved' = [moved EXCEPT ![j] = TRUE]
          /\ Goto(j, "recording")
       \/ /\ "fs" \in Faults
          /\ Goto(j, "unparking")
          /\ UNCHANGED <<dir, staging, moved>>
    /\ UNCHANGED <<world, lock, row, parked, req, at, tries, reserved, held, packed, outcome>>

(* swap_into's own undo; it reports an error whether or not it works.       *)
Unpark(j) ==
    /\ pc[j] = "unparking"
    /\ CleanUpWith(j, "error")
    /\ \/ /\ dir' = [dir EXCEPT ![at[j]] = parked[j]]
          /\ parked' = [parked EXCEPT ![j] = None]
       \/ "fs" \in Faults /\ UNCHANGED <<dir, parked>>
    /\ UNCHANGED <<world, lock, row, staging, memory>>

(* replace_site keeps title, access and expiry.                             *)
Recorded(j) == [row EXCEPT ![at[j]].meta = j, ![at[j]].entry = req[j].entry]

Record(j) ==
    /\ pc[j] = "recording"
    /\ \/ row' = Recorded(j) /\ Goto(j, "discarding")
       \/ "db" \in Faults /\ row' \in {row, Recorded(j)} /\ Goto(j, "unswapping")
    /\ UNCHANGED <<world, lock, dir, staging, parked, memory, outcome>>

(* The replaced tree goes; if it cannot, the next boot clears it.           *)
Discard(j) ==
    /\ pc[j] = "discarding"
    /\ CleanUpWith(j, "ok")
    /\ \/ parked' = [parked EXCEPT ![j] = None]
       \/ /\ "fs" \in Faults
          /\ \E tree \in RemoveFails(parked[j]) : parked' = [parked EXCEPT ![j] = tree]
    /\ UNCHANGED <<world, lock, row, dir, staging, memory>>

(* swap_back, first rename: the new tree back to its staging name.          *)
Unswap(j) ==
    /\ pc[j] = "unswapping"
    /\ \/ /\ staging' = [staging EXCEPT ![j] = dir[at[j]]]
          /\ dir' = [dir EXCEPT ![at[j]] = None]
          /\ Goto(j, "restoring")
          /\ UNCHANGED outcome
       \/ /\ "fs" \in Faults
          /\ CleanUpWith(j, "error")
          /\ UNCHANGED <<dir, staging>>
    /\ UNCHANGED <<world, lock, row, parked, memory>>

(* swap_back, second rename; staging is owned again only if it succeeds.    *)
Restore(j) ==
    /\ pc[j] = "restoring"
    /\ CleanUpWith(j, "error")
    /\ \/ /\ dir' = [dir EXCEPT ![at[j]] = parked[j]]
          /\ parked' = [parked EXCEPT ![j] = None]
          /\ moved' = [moved EXCEPT ![j] = FALSE]
       \/ "fs" \in Faults /\ UNCHANGED <<dir, parked, moved>>
    /\ UNCHANGED <<world, lock, row, staging, req, at, tries, reserved, held, packed>>

(***************************************************************************)
(* Settings: decided against the row read under the mutex.                  *)
(***************************************************************************)

Check(j) ==
    /\ pc[j] = "checking"
    /\ \/ /\ row[at[j]] = None
          /\ Return(j, "absent")
          /\ UNCHANGED held
       \/ /\ row[at[j]] # None
          /\ req[j].access = "keep" /\ row[at[j]].access = None
          /\ Return(j, "invalid")
          /\ UNCHANGED held
       \/ /\ row[at[j]] # None
          /\ req[j].access = "keep" => row[at[j]].access # None
          /\ held' = [held EXCEPT ![j] = row[at[j]]]
          /\ Goto(j, "proving")
          /\ UNCHANGED <<lock, outcome>>
       \/ /\ "db" \in Faults
          /\ Return(j, "error")
          /\ UNCHANGED held
    /\ UNCHANGED <<world, disk, req, at, tries, reserved, moved, packed>>

(* validate_entry: the entry must be a file of the site's directory.        *)
ProveEntry(j) ==
    /\ pc[j] = "proving"
    /\ \/ /\ dir[at[j]] # None /\ req[j].entry \in FilesOf[dir[at[j]].of]
          /\ Goto(j, "saving")
          /\ UNCHANGED <<lock, outcome>>
       \/ /\ dir[at[j]] # None /\ req[j].entry \notin FilesOf[dir[at[j]].of]
          /\ Return(j, "invalid")
       \/ /\ dir[at[j]] = None \/ "fs" \in Faults
          /\ Return(j, "error")
    /\ UNCHANGED <<world, disk, memory>>

(* update_site with the access and expiry resolved against the held row.    *)
Saved(j) ==
    [held[j] EXCEPT
        !.entry = req[j].entry,
        !.access = CASE req[j].access = "open" -> None
                     [] req[j].access = "keep" -> held[j].access
                     [] req[j].access = "set"  -> j,
        !.expires = CASE req[j].expiry = "keep"  -> held[j].expires
                      [] req[j].expiry = "never" -> None
                      [] req[j].expiry = "after" -> now + Life]

(* UPDATE never touches file_count and size_bytes.                          *)
Update(j) == [row EXCEPT ![at[j]] = [Saved(j) EXCEPT !.meta = row[at[j]].meta]]

(* A failed write, or a failed read after it, cannot say whether it saved.  *)
Save(j) ==
    /\ pc[j] = "saving"
    /\ \/ row' = Update(j) /\ Return(j, "ok")
       \/ "db" \in Faults /\ row' \in {row, Update(j)} /\ Return(j, "error")
    /\ UNCHANGED <<world, dir, staging, parked, memory>>

(***************************************************************************)
(* Deletion: the row first, then the directory; the sweeper's too.          *)
(***************************************************************************)

Look(a) ==
    /\ pc[a] = "looking"
    /\ \/ row[at[a]] = None /\ DeleteEnds(a, "absent")
       \/ row[at[a]] # None /\ Goto(a, "deleting") /\ UNCHANGED <<lock, outcome>>
       \/ "db" \in Faults /\ DeleteEnds(a, "error")
    /\ UNCHANGED <<world, disk, memory>>

(* Bytes are removed only after the row is acknowledged deleted.            *)
DeleteRow(a) ==
    /\ pc[a] = "deleting"
    /\ \/ /\ row' = [row EXCEPT ![at[a]] = None]
          /\ Goto(a, "erasing")
          /\ UNCHANGED <<lock, outcome>>
       \/ /\ "db" \in Faults
          /\ row' \in {row, [row EXCEPT ![at[a]] = None]}
          /\ DeleteEnds(a, "error")
    /\ UNCHANGED <<world, dir, staging, parked, memory>>

(* remove_content; remove_dir_all can stop or be stopped half way.          *)
RemoveContent(a) ==
    /\ pc[a] = "erasing"
    /\ \/ /\ dir' = [dir EXCEPT ![at[a]] = None]
          /\ DeleteEnds(a, "ok")
       \/ /\ dir[at[a]] # None /\ dir[at[a]].is # "partial"
          /\ dir' = [dir EXCEPT ![at[a]] = Partly(@)]
          /\ UNCHANGED <<pc, lock, outcome>>
       \/ /\ "fs" \in Faults
          /\ DeleteEnds(a, "retained")
          /\ UNCHANGED dir
    /\ UNCHANGED <<world, row, staging, parked, memory>>

(***************************************************************************)
(* Archive: packs the directory while it holds the mutex.                   *)
(***************************************************************************)

Open(j) ==
    /\ pc[j] = "opening"
    /\ \/ row[at[j]] = None /\ Return(j, "absent") /\ UNCHANGED packed
       \/ /\ row[at[j]] # None /\ dir[at[j]] # None
          /\ packed' = [packed EXCEPT ![j] = dir[at[j]]]
          /\ Goto(j, "packing")
          /\ UNCHANGED <<lock, outcome>>
       \/ /\ (row[at[j]] # None /\ dir[at[j]] = None) \/ "db" \in Faults
          /\ Return(j, "error")
          /\ UNCHANGED packed
    /\ UNCHANGED <<world, disk, req, at, tries, reserved, moved, held>>

Pack(j) ==
    /\ pc[j] = "packing"
    /\ \/ Return(j, "ok")
       \/ "fs" \in Faults /\ Return(j, "error")
    /\ UNCHANGED <<world, disk, memory>>

(* The archive is the one job a departing client cancels: its future drops  *)
(* the mutex at whichever await it had reached.                             *)
Cancel(j) ==
    /\ pc[j] \in {"waiting", "opening", "packing"} /\ req[j].op = "archive"
    /\ Return(j, "cancelled")
    /\ UNCHANGED <<world, disk, memory>>

(***************************************************************************)
(* The expiry sweeper: one read of the expired slugs, then a deletion each. *)
(***************************************************************************)

(* A failed read ends the round, leaving everything as it is; a removal     *)
(* that fails is logged and the round goes on (sweep.rs:36-49).             *)
SweepRead ==
    /\ Serving /\ pc[Sweeper] = "idle" /\ doomed = {}
    /\ doomed' = ExpiredSlugs
    /\ UNCHANGED <<phase, now, lock, disk, pc, memory, outcome>>

SweepNext ==
    /\ pc[Sweeper] = "idle"
    /\ \E s \in doomed :
        /\ doomed' = doomed \ {s}
        /\ at' = [at EXCEPT ![Sweeper] = s]
    /\ Goto(Sweeper, "waiting")
    /\ UNCHANGED <<phase, now, lock, disk, req, tries, reserved, moved, held, packed, outcome>>

SweepLock ==
    /\ pc[Sweeper] = "waiting" /\ lock = None
    /\ lock' = Sweeper
    /\ Goto(Sweeper, "looking")
    /\ UNCHANGED <<world, disk, memory, outcome>>

(***************************************************************************)
(* The process: the clock, an abrupt stop, and the boot.                    *)
(***************************************************************************)

Tick ==
    /\ now < MaxTime
    /\ now' = now + 1
    /\ UNCHANGED <<phase, lock, disk, pc, memory, outcome, doomed>>

(* What the kernel holds stays: rows, directories, tmp entries.             *)
Stop ==
    /\ phase' = "down"
    /\ lock' = None
    /\ pc' = [a \in Actors |->
                IF a = Sweeper \/ pc[a] = "idle" THEN "idle"
                ELSE IF pc[a] = "done" THEN "done" ELSE "lost"]
    /\ doomed' = {}

Crash ==
    /\ "crash" \in Faults /\ phase # "down"
    /\ Stop
    /\ UNCHANGED <<now, disk, memory, outcome>>

Boot ==
    /\ phase = "down"
    /\ phase' = "tmp"
    /\ UNCHANGED <<now, lock, disk, pc, memory, outcome, doomed>>

(* reconcile, first: every entry of tmp/ goes; failures are only logged.    *)
ClearStaging ==
    /\ phase = "tmp"
    /\ \/ \E j \in Jobs :
            \/ /\ staging[j] # None
               /\ staging' = [staging EXCEPT ![j] = None]
               /\ UNCHANGED parked
            \/ /\ parked[j] # None
               /\ parked' = [parked EXCEPT ![j] = None]
               /\ UNCHANGED staging
          /\ UNCHANGED phase
       \/ /\ "fs" \in Faults \/ \A j \in Jobs : staging[j] = None /\ parked[j] = None
          /\ phase' = "content"
          /\ UNCHANGED <<staging, parked>>
    /\ UNCHANGED <<now, lock, row, dir, pc, memory, outcome, doomed>>

(* reconcile, second: directories without a row go.                         *)
RemoveOrphans ==
    /\ phase = "content"
    /\ \/ /\ \E s \in Slugs :
                /\ row[s] = None /\ dir[s] # None
                /\ \/ dir' = [dir EXCEPT ![s] = None]
                   \/ dir[s].is # "partial" /\ dir' = [dir EXCEPT ![s] = Partly(@)]
          /\ UNCHANGED phase
       \/ /\ "fs" \in Faults \/ \A s \in Slugs : row[s] = None => dir[s] = None
          /\ phase' = "rows"
          /\ UNCHANGED dir
    /\ UNCHANGED <<now, lock, row, staging, parked, pc, memory, outcome, doomed>>

(* reconcile, third: rows without a directory go; a failure fails the boot.  *)
PruneRows ==
    /\ phase = "rows"
    /\ \/ \E s \in Slugs :
            /\ row[s] # None /\ dir[s] = None
            /\ \/ row' = [row EXCEPT ![s] = None] /\ UNCHANGED <<phase, lock, pc, doomed>>
               \/ /\ "db" \in Faults
                  /\ row' \in {row, [row EXCEPT ![s] = None]}
                  /\ Stop
       \/ /\ \A s \in Slugs : row[s] # None => dir[s] # None
          /\ phase' = "sweep"
          /\ doomed' = ExpiredSlugs
          /\ UNCHANGED <<row, lock, pc>>
    /\ UNCHANGED <<now, dir, staging, parked, memory, outcome>>

(* An unreadable directory or database ends the boot, and the process.      *)
BootFails ==
    /\ phase \in {"tmp", "content", "rows", "sweep"}
    /\ "fs" \in Faults \/ "db" \in Faults
    /\ Stop
    /\ UNCHANGED <<now, disk, memory, outcome>>

(* The boot's own sweep ends before the first request is accepted.          *)
Serve ==
    /\ phase = "sweep" /\ pc[Sweeper] = "idle" /\ doomed = {}
    /\ phase' = "up"
    /\ UNCHANGED <<now, lock, disk, pc, memory, outcome, doomed>>

(***************************************************************************)
(* The specification.                                                       *)
(***************************************************************************)

(* What an earlier process left on a clean stop: each slug is free or holds *)
(* an old site that is open and either never expires or does at time 1.     *)
OldRows == [meta : {Old}, entry : FilesOf[Old], access : {None}, expires : {None, 1}]

Init ==
    /\ phase = "down" /\ now = 0 /\ lock = None
    /\ row \in [Slugs -> OldRows \cup {None}]
    /\ dir = [s \in Slugs |-> IF row[s] = None THEN None ELSE [of |-> Old, is |-> "whole"]]
    /\ staging = [j \in Jobs |-> None] /\ parked = [j \in Jobs |-> None]
    /\ pc = [a \in Actors |-> "idle"]
    /\ req = [j \in Jobs |-> None] /\ at = [a \in Actors |-> None]
    /\ tries = [j \in Jobs |-> 0]
    /\ reserved = [j \in Jobs |-> FALSE] /\ moved = [j \in Jobs |-> FALSE]
    /\ held = [j \in Jobs |-> None] /\ packed = [j \in Jobs |-> None]
    /\ outcome = [j \in Jobs |-> None]
    /\ doomed = {}

Publish(j) == Insert(j) \/ Reserve(j) \/ Install(j) \/ Commit(j)
Replace(j) == \/ Find(j) \/ Park(j) \/ Swap(j) \/ Unpark(j)
              \/ Record(j) \/ Discard(j) \/ Unswap(j) \/ Restore(j)
Cleanup(j) == DropReservation(j) \/ DropStaging(j)
Settings(j) == Check(j) \/ ProveEntry(j) \/ Save(j)
Delete(a) == Look(a) \/ DeleteRow(a) \/ RemoveContent(a)
Archive(j) == Open(j) \/ Pack(j)

(* Every step of an admitted job except its wait for the mutex.             *)
Work(j) == \/ Stage(j) \/ Write(j) \/ Publish(j) \/ Replace(j) \/ Cleanup(j)
           \/ Settings(j) \/ Delete(j) \/ Archive(j)
Sweep == SweepRead \/ SweepNext \/ Delete(Sweeper)
Reconcile == Boot \/ ClearStaging \/ RemoveOrphans \/ PruneRows \/ Serve

Next ==
    \/ \E j \in Jobs : Submit(j) \/ Lock(j) \/ Work(j) \/ Cancel(j)
    \/ Sweep \/ SweepLock
    \/ Tick \/ Crash \/ Reconcile \/ BootFails

Spec == Init /\ [][Next]_vars

(* Detached tasks run to their end, tokio's mutex is handed out in arrival  *)
(* order, the sweeper's interval keeps firing and its read of the expired   *)
(* slugs does not fail for ever, and a boot proceeds.                       *)
Fairness ==
    /\ \A j \in Jobs : WF_vars(Work(j)) /\ SF_vars(Lock(j))
    /\ WF_vars(Sweep) /\ SF_vars(SweepLock)
    /\ WF_vars(Reconcile)

FairSpec == Spec /\ Fairness

-----------------------------------------------------------------------------
(***************************************************************************)
(* Properties.                                                              *)
(***************************************************************************)

PublishPlaces == {"inserting", "reserving", "installing", "committing"}
ReplacePlaces == {"finding", "parking", "swapping", "unparking",
                  "recording", "discarding", "unswapping", "restoring"}
DeletePlaces == {"looking", "deleting", "erasing"}
Locked == PublishPlaces \cup ReplacePlaces \cup DeletePlaces
            \cup {"checking", "proving", "saving", "opening", "packing"}
Places == Locked \cup {"idle", "staging", "writing", "waiting",
                       "cleaning", "unstaging", "done", "lost"}
Outcomes == {"ok", "absent", "conflict", "invalid", "error", "retained", "cancelled", None}

(* Every variable stays in its type: rows, trees and requests are whole     *)
(* records, an actor is at a place of its handler and holds nothing else.   *)
TypeOK ==
    /\ phase \in {"down", "tmp", "content", "rows", "sweep", "up"}
    /\ now \in Nat
    /\ lock \in Actors \cup {None}
    /\ row \in [Slugs -> Rows \cup {None}]
    /\ dir \in [Slugs -> Trees \cup {None}]
    /\ staging \in [Jobs -> Trees \cup {None}]
    /\ parked \in [Jobs -> Trees \cup {None}]
    /\ pc \in [Actors -> Places]
    /\ req \in [Jobs -> (UNION {Requests(j) : j \in Jobs}) \cup {None}]
    /\ at \in [Actors -> Slugs \cup {None}]
    /\ tries \in [Jobs -> Nat]
    /\ reserved \in [Jobs -> BOOLEAN] /\ moved \in [Jobs -> BOOLEAN]
    /\ held \in [Jobs -> Rows \cup {None}]
    /\ packed \in [Jobs -> Trees \cup {None}]
    /\ outcome \in [Jobs -> Outcomes]
    /\ doomed \subseteq Slugs

(* Whatever fails and wherever the process stops, a committed row never     *)
(* stands over a half-written, half-removed or merely reserved directory:   *)
(* publication installs before it commits, deletion unlists before it       *)
(* removes, and replacement moves whole trees.                              *)
RowIsWhole ==
    \A s \in Slugs : row[s] # None /\ dir[s] # None => dir[s].is = "whole"

(* While the process serves, a site whose directory is missing still has a  *)
(* whole tree parked under tmp/ by a replacement of that site: no sequence  *)
(* of failed renames destroys the bytes of a listed site before a reboot.   *)
NothingLost ==
    phase \in {"sweep", "up"} =>
        \A s \in Slugs : row[s] # None =>
            \/ dir[s] # None
            \/ \E j \in Jobs : /\ at[j] = s
                               /\ parked[j] # None /\ parked[j].is = "whole"

(* Content's two ownership flags agree with the disk when cleanup acts on   *)
(* them: it removes only its own still empty reservation and only staging   *)
(* that is there, so it can neither delete installed bytes nor fail on a    *)
(* path it moved away itself.                                               *)
CleanupKnowsDisk ==
    \A j \in Jobs :
        /\ pc[j] = "cleaning" /\ reserved[j] /\ ~moved[j] =>
               dir[at[j]] = [of |-> j, is |-> "empty"]
        /\ pc[j] \in {"cleaning", "unstaging"} /\ ~moved[j] =>
               staging[j] # None /\ staging[j].of = j

(* While an archive packs, the directory under it is the whole tree it      *)
(* opened: no swap, deletion or sweep moves it (sites.rs, archive).         *)
ArchiveIsStable ==
    \A j \in Jobs : pc[j] = "packing" =>
        packed[j] = dir[at[j]] /\ packed[j].is = "whole"

(* With no mutation in progress, at any stage of a boot too, a listed site  *)
(* has a directory, and its row describes the tree there and names one of   *)
(* its files.  Where not, a replacement did it that never reported success: *)
(* its caller was told of an error, or the process went down with it.       *)
(* replace.rs:38 puts the old content back whether or not the row update it *)
(* could not confirm has been committed, and a stop between the renames of  *)
(* swap_into leaves no directory: the next boot then unlists the site, and  *)
(* no site that was not being replaced (sweep.rs:79-84).                    *)
Describes(r, tree) ==
    tree # None /\ r.meta = tree.of /\ r.entry \in FilesOf[tree.of]
DivergenceIsReported ==
    lock = None =>
        \A s \in Slugs : row[s] # None /\ ~Describes(row[s], dir[s]) =>
            \E j \in Jobs : /\ req[j] # None /\ req[j].op = "replace" /\ at[j] = s
                           /\ \/ pc[j] = "lost"
                              \/ pc[j] = "done" /\ outcome[j] = "error"

(* With no mutation in progress rows and directories name the same sites,   *)
(* and tmp/ holds nothing but the staging of jobs in flight, even when      *)
(* earlier processes were stopped in the middle of any operation.           *)
RestIsClean ==
    lock = None /\ Serving =>
        /\ \A s \in Slugs : row[s] = None <=> dir[s] = None
        /\ \A j \in Jobs : /\ parked[j] = None
                           /\ staging[j] # None => pc[j] \notin {"idle", "done", "lost"}

(* A row becomes visible only over its own upload, completely installed.    *)
AppearsInstalled ==
    [][\A s \in Slugs : row[s] = None /\ row'[s] # None =>
           /\ dir[s] = [of |-> row'[s].meta, is |-> "whole"]
           /\ dir'[s] = dir[s]]_vars

(* An existing path is never overwritten by another upload: publication     *)
(* does not adopt an orphan and replacement moves the old tree away first.  *)
NeverAdopted ==
    [][\A s \in Slugs : dir[s] # None /\ dir'[s] # None => dir'[s].of = dir[s].of]_vars

(* Readers see a simpler store, SiteCatalog: whatever fails and wherever    *)
(* the process stops, the committed rows move only by its atomic steps.     *)
Catalog == INSTANCE SiteCatalog WITH Generations <- Contents
ImplementsCatalog == Catalog!Spec

(* A settings save that keeps the password or the expiry keeps the one of   *)
(* the row it overwrites, not one read before another mutation.             *)
SaveKeepsCurrent ==
    [][\A j \in Jobs : pc[j] = "saving" /\ row' # row =>
           LET old == row[at[j]]
               new == row'[at[j]]
           IN  /\ old # None /\ new # None /\ new.meta = old.meta
               /\ req[j].access = "keep" => new.access = old.access
               /\ req[j].expiry = "keep" => new.expires = old.expires]_vars

(* The doc comment of sweep: it "deletes every site whose expiry has        *)
(* passed", so a row the sweeper removes is one whose expiry has passed.    *)
SweepRemovesOnlyExpired ==
    [][\A s \in Slugs : pc[Sweeper] = "deleting" /\ row[s] # None /\ row'[s] = None
           => Expired(row[s])]_vars

(* A replacement that reports an error has left the existing content in     *)
(* place (replace.rs and the message of the replace form say so).           *)
FailedReplaceKeepsContent ==
    \A j \in Jobs : \A s \in Slugs :
        pc[j] = "done" /\ outcome[j] = "error" /\ req[j].op = "replace" /\ dir[s] # None
            => dir[s].of # j

(* An admitted job comes back to its caller unless the process stops.       *)
JobsReturn ==
    \A j \in Jobs : pc[j] = "staging" \/ pc[j] = "waiting" ~> pc[j] \in {"done", "lost"}

(* An expired site does not stay: it is swept, or its expiry is changed.    *)
ExpiredGo == \A s \in Slugs : Serving /\ Expired(row[s]) ~> ~Expired(row[s])

-----------------------------------------------------------------------------
(***************************************************************************)
(* The inductive invariant behind the safety properties, in named parts.    *)
(***************************************************************************)

Resting == {"idle", "done", "lost"}
Uploading == {"staging", "writing", "cleaning", "unstaging"}
Settling == {"checking", "proving", "saving"}
(* Before and after staging is moved onto the site's name.                  *)
NotYetMoved == {"staging", "writing", "waiting", "inserting", "reserving", "installing",
                "finding", "parking", "swapping", "unparking"}
AlreadyMoved == {"committing", "recording", "discarding", "unswapping", "restoring"}
(* Staging is complete and waits to be moved.                               *)
Complete == {"inserting", "reserving", "installing", "finding", "parking",
             "swapping", "unparking"}

(* Only the holder of the mutex is inside a mutation; a publication that    *)
(* reserved a directory keeps the mutex until its cleanup has ended.        *)
MutexHeld ==
    /\ \A x \in Actors : pc[x] \in Locked => lock = x
    /\ \A j \in Jobs : pc[j] \in {"cleaning", "unstaging"} /\ reserved[j] => lock = j

(* A boot runs alone, then with the sweeper, then with everyone.            *)
BootAlone ==
    /\ phase # "up" => \A j \in Jobs : pc[j] \in Resting
    /\ phase \notin {"sweep", "up"} => pc[Sweeper] = "idle" /\ doomed = {}
    /\ pc[Sweeper] \in {"idle", "waiting"} \cup DeletePlaces

(* Every handler runs for a request of its own kind and on a known slug.    *)
RightHandler ==
    /\ pc[Sweeper] # "idle" => at[Sweeper] \in Slugs
    /\ \A j \in Jobs :
        /\ pc[j] # "idle" => req[j] \in Requests(j)
        /\ pc[j] \in PublishPlaces => req[j].op = "publish"
        /\ pc[j] \in ReplacePlaces => req[j].op = "replace"
        /\ pc[j] \in Settling => req[j].op = "update"
        /\ pc[j] \in Uploading => req[j].op \in {"publish", "replace"}
        /\ pc[j] \in DeletePlaces => req[j].op = "delete"
        /\ pc[j] \in {"opening", "packing"} => req[j].op = "archive"
        /\ pc[j] # "idle" /\ req[j].op # "publish" => at[j] = req[j].slug
        /\ pc[j] \in {"reserving", "installing", "committing"} => at[j] \in Slugs
        /\ reserved[j] => at[j] \in Slugs

(* The ownership flags follow the handler, and staging follows the flags.   *)
FlagsFollow ==
    \A j \in Jobs :
        /\ pc[j] = "idle" => ~moved[j]
        /\ pc[j] \in NotYetMoved => ~moved[j]
        /\ pc[j] \in AlreadyMoved => moved[j]
        /\ pc[j] \in {"idle", "staging", "writing", "waiting", "inserting", "reserving"}
               => ~reserved[j]
        /\ pc[j] \in ReplacePlaces => ~reserved[j]
        /\ pc[j] \in {"idle"} \cup (NotYetMoved \ {"swapping", "unparking"}) => parked[j] = None
        /\ pc[j] \in Complete \cup {"cleaning", "unstaging", "writing"} /\ ~moved[j]
               => staging[j] # None /\ staging[j].of = j
        /\ pc[j] = "restoring" => staging[j] # None /\ staging[j].of = j
        /\ pc[j] \in Complete => staging[j] = [of |-> j, is |-> "whole"]
        /\ pc[j] = "waiting" /\ req[j].op \in {"publish", "replace"}
               => staging[j] = [of |-> j, is |-> "whole"]

(* What the holder of the mutex knows of the row and directory it works on. *)
HolderKnows ==
    /\ \A x \in Actors : pc[x] = "erasing" => row[at[x]] = None
    /\ \A j \in Jobs :
        /\ pc[j] \in PublishPlaces => held[j] \in Rows /\ held[j].meta = j
        /\ pc[j] \in {"reserving", "installing", "committing"} => row[at[j]] = None
        /\ pc[j] = "installing" => reserved[j]
        /\ pc[j] = "installing" => dir[at[j]] = [of |-> j, is |-> "empty"]
        /\ pc[j] = "cleaning" /\ reserved[j] /\ ~moved[j]
               => row[at[j]] = None /\ dir[at[j]] = [of |-> j, is |-> "empty"]
        /\ pc[j] \in {"committing", "recording", "discarding", "unswapping"}
               => dir[at[j]] = [of |-> j, is |-> "whole"]
        /\ pc[j] \in {"swapping", "unparking", "restoring"} => dir[at[j]] = None
        /\ pc[j] \in ReplacePlaces \ {"finding"} => row[at[j]] # None
        /\ pc[j] \in {"swapping", "unparking", "recording", "discarding",
                      "unswapping", "restoring"}
               => parked[j] # None /\ parked[j].is = "whole"
        /\ pc[j] \in {"proving", "saving"} => row[at[j]] # None /\ held[j] = row[at[j]]
        /\ pc[j] = "packing" => packed[j] = dir[at[j]] /\ packed[j] # None /\ packed[j].is = "whole"

IInv ==
    /\ TypeOK /\ MutexHeld /\ BootAlone /\ RightHandler /\ FlagsFollow
    /\ HolderKnows /\ RowIsWhole /\ NothingLost
=============================================================================
