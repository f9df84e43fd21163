-------------------------- MODULE SiteStoreProofs --------------------------
(***************************************************************************)
(* Proofs about SiteStore: its inductive invariant IInv holds for every      *)
(* number of slugs, jobs, files and slug attempts and every set of faults,   *)
(* and the safety properties follow from it.  One lemma per action shows     *)
(* that the action keeps each conjunct of IInv; NextInv combines them.       *)
(***************************************************************************)
EXTENDS SiteStore, TLAPS

(* What a request of each kind carries.                                     *)
LEMMA RequestShape ==
    ASSUME NEW j \in Jobs, NEW r \in Requests(j)
    PROVE  /\ r.op \in {"publish", "replace", "update", "delete", "archive"}
           /\ r.slug \in Slugs \cup {None}
           /\ r.op # "publish" => r.slug \in Slugs
           /\ r.op \in {"publish", "replace", "update"} => r.entry \in Entries
           /\ r.op = "update" => r.access \in Accesses /\ r.expiry \in Expiries
<1>1. FilesOf[j] \subseteq Entries
  BY StoreAssumption DEF Contents
<1>2. CASE r \in Publications(j)
  BY <1>1, <1>2 DEF Publications
<1>3. CASE r \in Replacements(j)
  BY <1>1, <1>3 DEF Replacements
<1>4. CASE r \in Updates
  BY <1>4 DEF Updates
<1>5. CASE r \in Others
  BY <1>5 DEF Others
<1> QED
  BY <1>2, <1>3, <1>4, <1>5 DEF Requests

(* A tree written out field by field is a tree, and not None.                *)
LEMMA NewTree ==
    ASSUME NEW u \in Contents, NEW i \in {"empty", "partial", "whole"}
    PROVE  [of |-> u, is |-> i] \in Trees /\ [of |-> u, is |-> i] # None
BY StoreAssumption DEF Trees

(* Removing part of a tree leaves a tree of the same upload.                 *)
LEMMA PartlyTree ==
    ASSUME NEW tree \in Trees
    PROVE  /\ Partly(tree) \in Trees /\ Partly(tree) # None
           /\ Partly(tree).of = tree.of /\ Partly(tree).is = "partial"
BY StoreAssumption DEF Trees, Partly

(* Every job at work holding the mutex knows its slug, an upload its kind.   *)
LEMMA WorkingSlug ==
    ASSUME IInv, NEW j \in Jobs, pc[j] \in Locked \ {"inserting"}
    PROVE  at[j] \in Slugs /\ lock = j
<1>1. lock = j
  BY DEF IInv, MutexHeld, Actors
<1>2. pc[j] \in {"reserving", "installing", "committing"} => at[j] \in Slugs
  BY DEF IInv, RightHandler
<1>3. pc[j] # "idle" /\ req[j] \in Requests(j)
  BY DEF IInv, RightHandler, Locked, PublishPlaces, ReplacePlaces, DeletePlaces
<1>4. pc[j] \notin PublishPlaces => req[j].op # "publish" /\ at[j] = req[j].slug
  BY <1>3 DEF IInv, RightHandler, Locked, ReplacePlaces, DeletePlaces, Settling
<1>5. pc[j] \notin PublishPlaces => at[j] \in Slugs
  BY <1>3, <1>4, RequestShape
<1> QED
  BY <1>1, <1>2, <1>5 DEF PublishPlaces

(* The sweeper, likewise.                                                    *)
LEMMA DeletingSlug ==
    ASSUME IInv, NEW x \in Actors, pc[x] \in DeletePlaces
    PROVE  at[x] \in Slugs /\ lock = x
<1>1. CASE x \in Jobs
  BY <1>1, WorkingSlug DEF Locked, DeletePlaces
<1>2. CASE x = Sweeper
  BY <1>2 DEF IInv, RightHandler, MutexHeld, Locked, DeletePlaces
<1> QED
  BY <1>1, <1>2 DEF Actors

(* The row of a new publication is a row that describes its upload.          *)
LEMMA NewRowIsRow ==
    ASSUME IInv, NEW j \in Jobs, req[j] \in Requests(j), req[j].op = "publish"
    PROVE  NewRow(j) \in Rows /\ NewRow(j).meta = j
<1>1. req[j].entry \in Entries
  BY RequestShape
<1>2. now + Life \in Nat
  BY StoreAssumption DEF IInv, TypeOK
<1> QED
  BY <1>1, <1>2 DEF NewRow, Rows, Contents

(* Reconciling never clears a row, an update's row is a row of the upload.   *)
LEMMA SavedIsRow ==
    ASSUME IInv, NEW j \in Jobs, pc[j] = "saving"
    PROVE  /\ Update(j) \in [Slugs -> Rows \cup {None}]
           /\ \A s \in Slugs : Update(j)[s] # None <=> row[s] # None
<1>1. at[j] \in Slugs
  BY WorkingSlug DEF Locked
<1>2. row[at[j]] \in Rows /\ held[j] \in Rows
  <2>1. row[at[j]] # None /\ held[j] = row[at[j]]
    BY DEF IInv, HolderKnows
  <2> QED
    BY <1>1, <2>1 DEF IInv, TypeOK
<1>3. /\ req[j].entry \in Entries
      /\ req[j].access \in {"open", "keep", "set"}
      /\ req[j].expiry \in {"keep", "never", "after"}
  BY RequestShape, StoreAssumption DEF IInv, RightHandler, Settling
<1>4. now + Life \in Nat
  BY StoreAssumption DEF IInv, TypeOK
<1>5. [Saved(j) EXCEPT !.meta = row[at[j]].meta] \in Rows
  <2>1. Saved(j) \in Rows
    BY <1>2, <1>3, <1>4 DEF Saved, Rows, Contents
  <2> QED
    BY <1>2, <2>1 DEF Rows
<1>6. None \notin Rows
  BY StoreAssumption
<1> QED
  BY <1>1, <1>2, <1>5, <1>6 DEF Update, IInv, TypeOK

(* Recording a replacement leaves the set of listed sites alone.             *)
LEMMA RecordedIsRow ==
    ASSUME IInv, NEW j \in Jobs, pc[j] = "recording"
    PROVE  /\ Recorded(j) \in [Slugs -> Rows \cup {None}]
           /\ \A s \in Slugs : Recorded(j)[s] # None <=> row[s] # None
<1>1. at[j] \in Slugs
  BY WorkingSlug DEF Locked, ReplacePlaces
<1>2. row[at[j]] \in Rows
  <2>1. row[at[j]] # None
    BY DEF IInv, HolderKnows, ReplacePlaces
  <2> QED
    BY <1>1, <2>1 DEF IInv, TypeOK
<1>3. req[j].entry \in Entries
  BY RequestShape DEF IInv, RightHandler, ReplacePlaces
<1>4. Recorded(j) = [row EXCEPT ![at[j]] =
                        [[row[at[j]] EXCEPT !.meta = j] EXCEPT !.entry = req[j].entry]]
  BY <1>1 DEF Recorded, IInv, TypeOK
<1>5. [[row[at[j]] EXCEPT !.meta = j] EXCEPT !.entry = req[j].entry] \in Rows
  BY <1>2, <1>3 DEF Rows, Contents
<1>6. None \notin Rows
  BY StoreAssumption
<1> QED
  BY <1>1, <1>2, <1>4, <1>5, <1>6 DEF IInv, TypeOK

(* Admission starts a job without the mutex and with nothing on disk.       *)
LEMMA SubmitInv == ASSUME IInv, NEW j \in Jobs, Submit(j) PROVE IInv'
<1> USE StoreAssumption DEF IInv, Submit, Goto, world, disk, Serving, Contents, Actors, Resting
<1>1. TypeOK'
  BY RequestShape DEF TypeOK, Places
<1>2. MutexHeld'
  BY DEF MutexHeld, Locked, PublishPlaces, ReplacePlaces, DeletePlaces
<1>3. BootAlone'
  BY DEF BootAlone
<1>4. RightHandler'
  BY DEF TypeOK, RightHandler, FlagsFollow, Settling, Uploading, PublishPlaces,
       ReplacePlaces, DeletePlaces
<1>5. FlagsFollow'
  BY DEF TypeOK, FlagsFollow, AlreadyMoved, Complete
<1>6. HolderKnows'
  BY DEF HolderKnows, PublishPlaces, ReplacePlaces
<1>7. RowIsWhole'
  BY DEF RowIsWhole
<1>8. NothingLost'
  BY DEF TypeOK, NothingLost, FlagsFollow
<1> QED BY <1>1, <1>2, <1>3, <1>4, <1>5, <1>6, <1>7, <1>8

(* Staging is a private directory, so no row or site directory changes.     *)
LEMMA StageInv == ASSUME IInv, NEW j \in Jobs, Stage(j) PROVE IInv'
<1> USE StoreAssumption DEF IInv, Stage, Goto, Return, Release, world, memory, Contents,
       Actors, Resting
<1>0. [of |-> j, is |-> "partial"] \in Trees /\ [of |-> j, is |-> "partial"] # None
  BY NewTree
<1>1. TypeOK'
  <2>1. staging' \in [Jobs -> Trees \cup {None}]
    BY <1>0 DEF TypeOK
  <2>2. pc' \in [Actors -> Places]
    BY DEF TypeOK, Places
  <2>3. outcome' \in [Jobs -> Outcomes] /\ lock' \in Actors \cup {None}
    BY DEF TypeOK, Outcomes
  <2> QED BY <2>1, <2>2, <2>3 DEF TypeOK
<1>2. MutexHeld'
  BY DEF TypeOK, MutexHeld, Locked, PublishPlaces, ReplacePlaces, DeletePlaces
<1>3. BootAlone'
  BY DEF TypeOK, BootAlone
<1>4. RightHandler'
  BY DEF TypeOK, RightHandler, Settling, Uploading, PublishPlaces, ReplacePlaces, DeletePlaces
<1>5. FlagsFollow'
  BY <1>0 DEF TypeOK, FlagsFollow, NotYetMoved, AlreadyMoved, Complete
<1>6. HolderKnows'
  BY DEF TypeOK, HolderKnows, PublishPlaces, ReplacePlaces
<1>7. RowIsWhole'
  BY DEF RowIsWhole
<1>8. NothingLost'
  BY DEF NothingLost
<1> QED BY <1>1, <1>2, <1>3, <1>4, <1>5, <1>6, <1>7, <1>8

(* A finished write leaves staging whole; a failed one keeps it owned.      *)
LEMMA WriteInv == ASSUME IInv, NEW j \in Jobs, Write(j) PROVE IInv'
<1> USE StoreAssumption DEF IInv, Write, CleanUpWith, Goto, world, memory, Contents, Actors, Resting
<1>a. staging[j] \in Trees /\ staging[j].of = j
  BY DEF TypeOK, FlagsFollow, NotYetMoved
<1>b. [staging[j] EXCEPT !.is = "whole"] = [of |-> j, is |-> "whole"]
  BY <1>a DEF Trees
<1>0. /\ [of |-> j, is |-> "whole"] \in Trees /\ [of |-> j, is |-> "whole"] # None
      /\ [staging EXCEPT ![j].is = "whole"] = [staging EXCEPT ![j] = [of |-> j, is |-> "whole"]]
  BY <1>b, NewTree
<1>1. TypeOK'
  <2>1. staging' \in [Jobs -> Trees \cup {None}]
    BY <1>0 DEF TypeOK
  <2>2. pc' \in [Actors -> Places]
    BY DEF TypeOK, Places
  <2>3. outcome' \in [Jobs -> Outcomes]
    BY DEF TypeOK, Outcomes
  <2> QED BY <2>1, <2>2, <2>3 DEF TypeOK
<1>2. MutexHeld'
  BY DEF TypeOK, MutexHeld, FlagsFollow, Locked, PublishPlaces, ReplacePlaces, DeletePlaces
<1>3. BootAlone'
  BY DEF TypeOK, BootAlone
<1>4. RightHandler'
  BY DEF TypeOK, RightHandler, Settling, Uploading, PublishPlaces, ReplacePlaces, DeletePlaces
<1>5. FlagsFollow'
  BY <1>0 DEF TypeOK, FlagsFollow, NotYetMoved, AlreadyMoved, Complete
<1>6. HolderKnows'
  BY DEF TypeOK, HolderKnows, FlagsFollow, PublishPlaces, ReplacePlaces
<1>7. RowIsWhole'
  BY DEF RowIsWhole
<1>8. NothingLost'
  BY DEF NothingLost
<1> QED BY <1>1, <1>2, <1>3, <1>4, <1>5, <1>6, <1>7, <1>8

(* Taking the mutex starts the handler of the job's own operation.          *)
LEMMA LockInv == ASSUME IInv, NEW j \in Jobs, Lock(j) PROVE IInv'
<1> USE StoreAssumption DEF IInv, Lock, Goto, world, disk, Contents, Actors, Resting
<1>a. req[j] \in Requests(j) /\ req[j].op \in {"publish", "replace", "update", "delete", "archive"}
  BY RequestShape DEF RightHandler
<1>b. /\ FirstStep(req[j].op) \in {"inserting", "finding", "checking", "looking", "opening"}
      /\ FirstStep(req[j].op) = "inserting" <=> req[j].op = "publish"
      /\ FirstStep(req[j].op) = "finding" <=> req[j].op = "replace"
      /\ FirstStep(req[j].op) = "checking" <=> req[j].op = "update"
      /\ FirstStep(req[j].op) = "looking" <=> req[j].op = "delete"
      /\ FirstStep(req[j].op) = "opening" <=> req[j].op = "archive"
  BY <1>a DEF FirstStep
<1>c. req[j].op = "publish" => NewRow(j) \in Rows /\ NewRow(j).meta = j
  BY <1>a, NewRowIsRow
<1>1. TypeOK'
  <2>1. held' \in [Jobs -> Rows \cup {None}]
    BY <1>c DEF TypeOK
  <2>2. pc' \in [Actors -> Places]
    BY <1>b DEF TypeOK, Places, Locked, PublishPlaces, ReplacePlaces, DeletePlaces
  <2>3. lock' \in Actors \cup {None}
    OBVIOUS
  <2> QED BY <2>1, <2>2, <2>3 DEF TypeOK
<1>2. MutexHeld'
  BY DEF MutexHeld
<1>3. BootAlone'
  BY DEF BootAlone
<1>4. RightHandler'
  BY <1>a, <1>b DEF RightHandler, Settling, Uploading, PublishPlaces, ReplacePlaces, DeletePlaces
<1>5. FlagsFollow'
  <2>1. /\ ~moved[j] /\ ~reserved[j] /\ parked[j] = None
        /\ req[j].op \in {"publish", "replace"} => staging[j] = [of |-> j, is |-> "whole"]
    BY DEF FlagsFollow, NotYetMoved
  <2>2. /\ pc'[j] \in {"inserting", "finding", "checking", "looking", "opening"}
        /\ pc'[j] \in {"inserting", "finding"} => staging'[j] = [of |-> j, is |-> "whole"]
        /\ ~moved'[j] /\ ~reserved'[j] /\ parked'[j] = None
    BY <1>b, <2>1 DEF TypeOK
  <2>3. [of |-> j, is |-> "whole"] # None
    BY NewTree
  <2> SUFFICES ASSUME NEW k \in Jobs PROVE FlagsFollow!(k)'
    BY DEF FlagsFollow
  <2>4. CASE k # j
    BY <2>4 DEF FlagsFollow
  <2>5. CASE k = j
    <3> HIDE DEF IInv, Lock
    <3> USE <2>2, <2>3, <2>5 DEF FlagsFollow, NotYetMoved, AlreadyMoved, Complete, ReplacePlaces
    <3>1. /\ pc'[k] \in {"idle"} \cup NotYetMoved => ~moved'[k]
          /\ pc'[k] \notin AlreadyMoved
      OBVIOUS
    <3>2. ~reserved'[k] /\ parked'[k] = None
      OBVIOUS
    <3>3. pc'[k] \in Complete \cup {"cleaning", "unstaging", "writing", "restoring"}
            => staging'[k] # None /\ staging'[k].of = k /\ staging'[k] = [of |-> k, is |-> "whole"]
      OBVIOUS
    <3>4. pc'[k] # "waiting"
      OBVIOUS
    <3> HIDE <2>2, <2>3, <2>5
    <3> QED
      BY <3>1, <3>2, <3>3, <3>4
  <2> QED
    BY <2>4, <2>5
<1>6. HolderKnows'
  BY <1>a, <1>b, <1>c DEF TypeOK, HolderKnows, PublishPlaces, ReplacePlaces
<1>7. RowIsWhole'
  BY DEF RowIsWhole
<1>8. NothingLost'
  BY DEF NothingLost
<1> QED BY <1>1, <1>2, <1>3, <1>4, <1>5, <1>6, <1>7, <1>8

(* The open transaction changes no committed row.                           *)
LEMMA InsertInv == ASSUME IInv, NEW j \in Jobs, Insert(j) PROVE IInv'
<1> USE StoreAssumption DEF IInv, Insert, CleanUpWith, Goto, TryAnother, world, disk,
       Contents, Actors, Resting
<1>a. req[j] \in Requests(j) /\ (req[j].slug # None => req[j].slug \in Slugs)
  BY RequestShape DEF RightHandler
<1>1. TypeOK'
  <2>1. pc' \in [Actors -> Places]
    BY DEF TypeOK, Places, Locked, PublishPlaces
  <2>2. outcome' \in [Jobs -> Outcomes]
    BY DEF TypeOK, Outcomes
  <2>3. at' \in [Actors -> Slugs \cup {None}]
    BY <1>a DEF TypeOK
  <2>4. tries' \in [Jobs -> Nat]
    BY <1>a DEF TypeOK
  <2> QED BY <2>1, <2>2, <2>3, <2>4 DEF TypeOK
<1>2. MutexHeld'
  BY DEF TypeOK, MutexHeld, Locked, PublishPlaces
<1>3. BootAlone'
  BY DEF TypeOK, BootAlone
<1>4. RightHandler'
  BY RequestShape DEF TypeOK, RightHandler, Settling, PublishPlaces, ReplacePlaces, DeletePlaces
<1>5. FlagsFollow'
  BY DEF TypeOK, FlagsFollow, NotYetMoved, AlreadyMoved, Complete
<1>6. HolderKnows'
  BY DEF TypeOK, HolderKnows, FlagsFollow, PublishPlaces, ReplacePlaces
<1>7. RowIsWhole'
  BY DEF RowIsWhole
<1>8. NothingLost'
  BY DEF TypeOK, NothingLost, FlagsFollow, NotYetMoved
<1> QED BY <1>1, <1>2, <1>3, <1>4, <1>5, <1>6, <1>7, <1>8

(* A reservation is an empty directory under a slug without a row.          *)
LEMMA ReserveInv == ASSUME IInv, NEW j \in Jobs, Reserve(j) PROVE IInv'
<1> USE StoreAssumption DEF IInv, Reserve, CleanUpWith, Goto, TryAnother, world, Contents,
       Actors, Resting
<1>a. at[j] \in Slugs /\ lock = j
  BY WorkingSlug DEF Locked, PublishPlaces
<1>0. [of |-> j, is |-> "empty"] \in Trees
  BY NewTree
<1>1. TypeOK'
  <2>1. dir' \in [Slugs -> Trees \cup {None}]
    BY <1>0, <1>a DEF TypeOK
  <2>2. reserved' \in [Jobs -> BOOLEAN]
    BY DEF TypeOK
  <2>3. pc' \in [Actors -> Places]
    BY DEF TypeOK, Places, Locked, PublishPlaces
  <2>4. outcome' \in [Jobs -> Outcomes]
    BY DEF TypeOK, Outcomes
  <2>5. tries' \in [Jobs -> Nat]
    BY DEF TypeOK
  <2> QED BY <2>1, <2>2, <2>3, <2>4, <2>5 DEF TypeOK
<1>2. MutexHeld'
  BY DEF TypeOK, MutexHeld, Locked, PublishPlaces
<1>3. BootAlone'
  BY DEF TypeOK, BootAlone
<1>4. RightHandler'
  BY DEF TypeOK, RightHandler, Settling, PublishPlaces, ReplacePlaces, DeletePlaces
<1>5. FlagsFollow'
  BY DEF TypeOK, FlagsFollow, NotYetMoved, AlreadyMoved, Complete, ReplacePlaces
<1>6. HolderKnows'
  BY DEF TypeOK, HolderKnows, MutexHeld, FlagsFollow, RightHandler, Locked, PublishPlaces,
       ReplacePlaces
<1>7. RowIsWhole'
  BY DEF TypeOK, RowIsWhole, HolderKnows, FlagsFollow, BootAlone, Complete, Locked,
       PublishPlaces, ReplacePlaces, DeletePlaces
<1>8. NothingLost'
  BY DEF TypeOK, NothingLost
<1> QED BY <1>1, <1>2, <1>3, <1>4, <1>5, <1>6, <1>7, <1>8

(* Installing renames whole staging onto the job's own reservation.         *)
LEMMA InstallInv == ASSUME IInv, NEW j \in Jobs, Install(j) PROVE IInv'
<1> USE StoreAssumption DEF IInv, Install, CleanUpWith, Goto, world, Contents, Actors, Resting
<1>a. /\ at[j] \in Slugs /\ staging[j] = [of |-> j, is |-> "whole"]
      /\ lock = j /\ reserved[j] /\ row[at[j]] = None
  BY DEF RightHandler, FlagsFollow, Complete, MutexHeld, Locked, PublishPlaces, HolderKnows
<1>0. staging[j] \in Trees
  BY <1>a, NewTree
<1>1. TypeOK'
  <2>1. /\ dir' \in [Slugs -> Trees \cup {None}] /\ staging' \in [Jobs -> Trees \cup {None}]
        /\ moved' \in [Jobs -> BOOLEAN]
    BY <1>0, <1>a DEF TypeOK
  <2>2. pc' \in [Actors -> Places] /\ outcome' \in [Jobs -> Outcomes]
    BY DEF TypeOK, Outcomes, Places, Locked, PublishPlaces
  <2> QED BY <2>1, <2>2 DEF TypeOK
<1>2. MutexHeld'
  BY DEF TypeOK, MutexHeld, Locked, PublishPlaces
<1>3. BootAlone'
  BY DEF TypeOK, BootAlone
<1>4. RightHandler'
  BY DEF TypeOK, RightHandler, Settling, PublishPlaces, ReplacePlaces, DeletePlaces
<1>5. FlagsFollow'
  BY DEF TypeOK, FlagsFollow, NotYetMoved, AlreadyMoved, Complete, ReplacePlaces
<1>6. HolderKnows'
  BY <1>a DEF TypeOK, HolderKnows, MutexHeld, Locked, PublishPlaces, ReplacePlaces
<1>7. RowIsWhole'
  BY DEF TypeOK, RowIsWhole, FlagsFollow, Complete
<1>8. NothingLost'
  <2> SUFFICES ASSUME phase' \in {"sweep", "up"}, NEW s \in Slugs, row'[s] # None
               PROVE  \/ dir'[s] # None
                      \/ \E k \in Jobs : at'[k] = s /\ parked'[k] # None /\ parked'[k].is = "whole"
    BY DEF NothingLost
  <2>1. CASE s = at[j]
    BY <2>1, <1>a
  <2>2. CASE s # at[j]
    BY <2>2 DEF TypeOK, NothingLost
  <2> QED BY <2>1, <2>2
<1> QED BY <1>1, <1>2, <1>3, <1>4, <1>5, <1>6, <1>7, <1>8

(* The row appears, if it does, over a directory already whole.             *)
LEMMA CommitInv == ASSUME IInv, NEW j \in Jobs, Commit(j) PROVE IInv'
<1> USE StoreAssumption DEF IInv, Commit, CleanUpWith, Goto, world, memory, Contents, Actors,
       Resting
<1>a. at[j] \in Slugs /\ lock = j
  BY WorkingSlug DEF Locked, PublishPlaces
<1>b. dir[at[j]] = [of |-> j, is |-> "whole"]
  BY DEF HolderKnows
<1>c. \A s \in Slugs : row'[s] = row[s] \/ s = at[j]
  BY DEF TypeOK
<1>e. [of |-> j, is |-> "whole"] # None
  BY NewTree
<1>1. TypeOK'
  <2>1. pc' \in [Actors -> Places]
    BY DEF TypeOK, Places, DeletePlaces
  <2>2. outcome' \in [Jobs -> Outcomes]
    BY DEF TypeOK, Outcomes
  <2>3. row' \in [Slugs -> Rows \cup {None}]
    BY DEF TypeOK
  <2> QED BY <2>1, <2>2, <2>3 DEF TypeOK
<1>2. MutexHeld'
  BY DEF TypeOK, MutexHeld, Locked, PublishPlaces
<1>3. BootAlone'
  BY DEF TypeOK, BootAlone
<1>4. RightHandler'
  BY DEF TypeOK, RightHandler, Settling, PublishPlaces, ReplacePlaces, DeletePlaces
<1>5. FlagsFollow'
  BY DEF TypeOK, FlagsFollow, NotYetMoved, AlreadyMoved, Complete, ReplacePlaces
<1>6. HolderKnows'
  <2>1. moved[j]
    BY DEF FlagsFollow, AlreadyMoved
  <2>2. \A x \in Actors : x # j => pc'[x] = pc[x] /\ pc[x] \notin Locked
    BY <1>a DEF TypeOK, MutexHeld
  <2>3. \A i \in Jobs : i # j /\ pc[i] = "cleaning" => ~reserved[i]
    BY <1>a DEF MutexHeld
  <2>4. pc'[j] = "cleaning"
    BY DEF TypeOK
  <2> QED
    BY <2>1, <2>2, <2>3, <2>4 DEF HolderKnows, Locked, PublishPlaces, ReplacePlaces, DeletePlaces
<1>7. RowIsWhole'
  <2> SUFFICES ASSUME NEW s \in Slugs, row'[s] # None, dir'[s] # None PROVE dir'[s].is = "whole"
    BY DEF RowIsWhole
  <2>1. CASE s = at[j]
    BY <2>1, <1>b
  <2>2. CASE s # at[j]
    BY <2>2, <1>c DEF RowIsWhole
  <2> QED BY <2>1, <2>2
<1>8. NothingLost'
  <2> SUFFICES ASSUME phase' \in {"sweep", "up"}, NEW s \in Slugs, row'[s] # None
               PROVE  \/ dir'[s] # None
                      \/ \E k \in Jobs : at'[k] = s /\ parked'[k] # None /\ parked'[k].is = "whole"
    BY DEF NothingLost
  <2>1. CASE s = at[j]
    BY <2>1, <1>b, <1>e
  <2>2. CASE s # at[j]
    BY <2>2 DEF TypeOK, NothingLost
  <2> QED BY <2>1, <2>2
<1> QED BY <1>1, <1>2, <1>3, <1>4, <1>5, <1>6, <1>7, <1>8

(* Cleanup removes only a reservation no row names.                         *)
LEMMA DropReservationInv == ASSUME IInv, NEW j \in Jobs, DropReservation(j) PROVE IInv'
<1> USE StoreAssumption DEF IInv, DropReservation, Goto, Return, Release, world, memory,
       Contents, Actors, Resting
<1>a. reserved[j] /\ ~moved[j] => at[j] \in Slugs /\ row[at[j]] = None
  BY DEF RightHandler, HolderKnows
<1>1. TypeOK'
  <2>1. pc' \in [Actors -> Places]
    BY DEF TypeOK, Places
  <2>2. outcome' \in [Jobs -> Outcomes]
    BY DEF TypeOK, Outcomes
  <2>3. dir' \in [Slugs -> Trees \cup {None}]
    BY DEF TypeOK
  <2>4. lock' \in Actors \cup {None}
    BY DEF TypeOK
  <2> QED BY <2>1, <2>2, <2>3, <2>4 DEF TypeOK
<1>2. MutexHeld'
  BY DEF TypeOK, MutexHeld, Locked, PublishPlaces, ReplacePlaces, DeletePlaces
<1>3. BootAlone'
  BY DEF TypeOK, BootAlone
<1>4. RightHandler'
  BY DEF TypeOK, RightHandler, Settling, Uploading, PublishPlaces, ReplacePlaces, DeletePlaces
<1>5. FlagsFollow'
  BY DEF TypeOK, FlagsFollow, NotYetMoved, AlreadyMoved, Complete, ReplacePlaces
<1>6. HolderKnows'
  BY DEF TypeOK, HolderKnows, MutexHeld, Locked, PublishPlaces, ReplacePlaces
<1>7. RowIsWhole'
  BY DEF TypeOK, RowIsWhole
<1>8. NothingLost'
  BY <1>a DEF TypeOK, NothingLost
<1> QED BY <1>1, <1>2, <1>3, <1>4, <1>5, <1>6, <1>7, <1>8

(* Cleanup removes staging last, and then drops the mutex.                  *)
LEMMA DropStagingInv == ASSUME IInv, NEW j \in Jobs, DropStaging(j) PROVE IInv'
<1> USE StoreAssumption DEF IInv, DropStaging, Goto, Return, Release, world, memory,
       Contents, Actors, Resting
<1>a. ~moved[j] => staging[j] \in Trees
  BY DEF TypeOK, FlagsFollow
<1>0. ~moved[j] => RemoveFails(staging[j]) \subseteq Trees
  BY <1>a, PartlyTree DEF RemoveFails
<1>1. TypeOK'
  <2>1. staging' \in [Jobs -> Trees \cup {None}]
    BY <1>0 DEF TypeOK
  <2>2. pc' \in [Actors -> Places]
    BY DEF TypeOK, Places
  <2>3. outcome' \in [Jobs -> Outcomes] /\ lock' \in Actors \cup {None}
    BY DEF TypeOK, Outcomes
  <2> QED BY <2>1, <2>2, <2>3 DEF TypeOK
<1>2. MutexHeld'
  BY DEF TypeOK, MutexHeld, Locked, PublishPlaces, ReplacePlaces, DeletePlaces
<1>3. BootAlone'
  BY DEF TypeOK, BootAlone
<1>4. RightHandler'
  BY DEF TypeOK, RightHandler, Settling, Uploading, PublishPlaces, ReplacePlaces, DeletePlaces
<1>5. FlagsFollow'
  BY DEF TypeOK, FlagsFollow, NotYetMoved, AlreadyMoved, Complete, ReplacePlaces
<1>6. HolderKnows'
  BY DEF TypeOK, HolderKnows, PublishPlaces, ReplacePlaces
<1>7. RowIsWhole'
  BY DEF RowIsWhole
<1>8. NothingLost'
  BY DEF NothingLost
<1> QED BY <1>1, <1>2, <1>3, <1>4, <1>5, <1>6, <1>7, <1>8

(* Finding the row moves nothing.                                           *)
LEMMA FindInv == ASSUME IInv, NEW j \in Jobs, Find(j) PROVE IInv'
<1> USE StoreAssumption DEF IInv, Find, CleanUpWith, Goto, world, disk, memory, Contents,
       Actors, Resting
<1>1. TypeOK'
  <2>1. pc' \in [Actors -> Places]
    BY DEF TypeOK, Places, Locked, ReplacePlaces
  <2>2. outcome' \in [Jobs -> Outcomes]
    BY DEF TypeOK, Outcomes
  <2> QED BY <2>1, <2>2 DEF TypeOK
<1>2. MutexHeld'
  BY DEF TypeOK, MutexHeld, Locked, ReplacePlaces
<1>3. BootAlone'
  BY DEF TypeOK, BootAlone
<1>4. RightHandler'
  BY DEF TypeOK, RightHandler, Settling, PublishPlaces, ReplacePlaces, DeletePlaces
<1>5. FlagsFollow'
  BY DEF TypeOK, FlagsFollow, NotYetMoved, AlreadyMoved, Complete, ReplacePlaces
<1>6. HolderKnows'
  BY DEF TypeOK, HolderKnows, FlagsFollow, PublishPlaces, ReplacePlaces
<1>7. RowIsWhole'
  BY DEF RowIsWhole
<1>8. NothingLost'
  BY DEF NothingLost
<1> QED BY <1>1, <1>2, <1>3, <1>4, <1>5, <1>6, <1>7, <1>8

(* The directory moved away is whole and stays under tmp/.                  *)
LEMMA ParkInv == ASSUME IInv, NEW j \in Jobs, Park(j) PROVE IInv'
<1> USE StoreAssumption DEF IInv, Park, CleanUpWith, Goto, world, memory, Contents, Actors, Resting
<1>a. at[j] \in Slugs /\ lock = j /\ row[at[j]] # None
  BY WorkingSlug DEF Locked, ReplacePlaces, HolderKnows
<1>b. dir[at[j]] # None => dir[at[j]].is = "whole"
  BY <1>a DEF RowIsWhole
<1>1. TypeOK'
  <2>1. pc' \in [Actors -> Places]
    BY DEF TypeOK, Places, Locked, ReplacePlaces
  <2>2. outcome' \in [Jobs -> Outcomes]
    BY DEF TypeOK, Outcomes
  <2>3. dir' \in [Slugs -> Trees \cup {None}]
    BY <1>a DEF TypeOK
  <2>4. parked' \in [Jobs -> Trees \cup {None}]
    BY <1>a DEF TypeOK
  <2> QED BY <2>1, <2>2, <2>3, <2>4 DEF TypeOK
<1>2. MutexHeld'
  BY DEF TypeOK, MutexHeld, Locked, ReplacePlaces
<1>3. BootAlone'
  BY DEF TypeOK, BootAlone
<1>4. RightHandler'
  BY DEF TypeOK, RightHandler, Settling, PublishPlaces, ReplacePlaces, DeletePlaces
<1>5. FlagsFollow'
  BY DEF TypeOK, FlagsFollow, NotYetMoved, AlreadyMoved, Complete, ReplacePlaces
<1>6. HolderKnows'
  BY <1>a, <1>b DEF TypeOK, HolderKnows, MutexHeld, FlagsFollow, Locked, PublishPlaces,
       ReplacePlaces
<1>7. RowIsWhole'
  BY DEF TypeOK, RowIsWhole
<1>8. NothingLost'
  <2> SUFFICES ASSUME phase' \in {"sweep", "up"}, NEW s \in Slugs, row'[s] # None
               PROVE  \/ dir'[s] # None
                      \/ \E k \in Jobs : at'[k] = s /\ parked'[k] # None /\ parked'[k].is = "whole"
    BY DEF NothingLost
  <2>1. CASE s = at[j]
    BY <2>1, <1>a, <1>b DEF TypeOK, NothingLost
  <2>2. CASE s # at[j]
    BY <2>2 DEF TypeOK, NothingLost
  <2> QED BY <2>1, <2>2
<1> QED BY <1>1, <1>2, <1>3, <1>4, <1>5, <1>6, <1>7, <1>8

(* The new tree takes a name that is free; the old one is parked.           *)
LEMMA SwapInv == ASSUME IInv, NEW j \in Jobs, Swap(j) PROVE IInv'
<1> USE StoreAssumption DEF IInv, Swap, Goto, world, Contents, Actors, Resting
<1>a. /\ at[j] \in Slugs /\ lock = j
      /\ staging[j] = [of |-> j, is |-> "whole"]
  BY WorkingSlug DEF Locked, ReplacePlaces, FlagsFollow, Complete
<1>0. staging[j] \in Trees
  BY <1>a, NewTree
<1>c. staging[j] # None
  BY <1>a, NewTree
<1>d. parked[j] # None /\ parked[j].is = "whole"
  BY DEF HolderKnows
<1>1. TypeOK'
  <2>1. dir' \in [Slugs -> Trees \cup {None}] /\ staging' \in [Jobs -> Trees \cup {None}]
    BY <1>0, <1>a DEF TypeOK
  <2>2. pc' \in [Actors -> Places]
    BY DEF TypeOK, Places, Locked, ReplacePlaces
  <2>3. moved' \in [Jobs -> BOOLEAN]
    BY DEF TypeOK
  <2> QED BY <2>1, <2>2, <2>3 DEF TypeOK
<1>2. MutexHeld'
  BY DEF TypeOK, MutexHeld, Locked, ReplacePlaces
<1>3. BootAlone'
  BY DEF TypeOK, BootAlone
<1>4. RightHandler'
  BY DEF TypeOK, RightHandler, Settling, PublishPlaces, ReplacePlaces, DeletePlaces
<1>5. FlagsFollow'
  BY DEF TypeOK, FlagsFollow, NotYetMoved, AlreadyMoved, Complete, ReplacePlaces
<1>6. HolderKnows'
  BY <1>a DEF TypeOK, HolderKnows, MutexHeld, Locked, PublishPlaces, ReplacePlaces
<1>7. RowIsWhole'
  BY DEF TypeOK, RowIsWhole, FlagsFollow, Complete
<1>8. NothingLost'
  <2> SUFFICES ASSUME phase' \in {"sweep", "up"}, NEW s \in Slugs, row'[s] # None
               PROVE  \/ dir'[s] # None
                      \/ \E k \in Jobs : at'[k] = s /\ parked'[k] # None /\ parked'[k].is = "whole"
    BY DEF NothingLost
  <2>1. CASE s = at[j]
    BY <2>1, <1>a, <1>c, <1>d
  <2>2. CASE s # at[j]
    BY <2>2 DEF TypeOK, NothingLost
  <2> QED BY <2>1, <2>2
<1> QED BY <1>1, <1>2, <1>3, <1>4, <1>5, <1>6, <1>7, <1>8

(* A swap that failed puts the parked tree back or leaves it parked.        *)
LEMMA UnparkInv == ASSUME IInv, NEW j \in Jobs, Unpark(j) PROVE IInv'
<1> USE StoreAssumption DEF IInv, Unpark, CleanUpWith, Goto, world, memory, Contents, Actors,
       Resting
<1>a. at[j] \in Slugs /\ lock = j /\ parked[j] # None /\ parked[j].is = "whole"
  BY WorkingSlug DEF Locked, ReplacePlaces, HolderKnows
<1>1. TypeOK'
  <2>1. pc' \in [Actors -> Places]
    BY DEF TypeOK, Places
  <2>2. outcome' \in [Jobs -> Outcomes]
    BY DEF TypeOK, Outcomes
  <2>3. dir' \in [Slugs -> Trees \cup {None}]
    BY <1>a DEF TypeOK
  <2>4. parked' \in [Jobs -> Trees \cup {None}]
    BY <1>a DEF TypeOK
  <2> QED BY <2>1, <2>2, <2>3, <2>4 DEF TypeOK
<1>2. MutexHeld'
  BY DEF MutexHeld, Locked, ReplacePlaces
<1>3. BootAlone'
  BY DEF BootAlone
<1>4. RightHandler'
  BY DEF RightHandler, Settling, PublishPlaces, ReplacePlaces, DeletePlaces
<1>5. FlagsFollow'
  BY DEF TypeOK, FlagsFollow, NotYetMoved, AlreadyMoved, Complete, ReplacePlaces
<1>6. HolderKnows'
  BY DEF TypeOK, HolderKnows, MutexHeld, FlagsFollow, Locked, PublishPlaces, ReplacePlaces
<1>7. RowIsWhole'
  BY <1>a DEF TypeOK, RowIsWhole
<1>8. NothingLost'
  <2> SUFFICES ASSUME phase' \in {"sweep", "up"}, NEW s \in Slugs, row'[s] # None
               PROVE  \/ dir'[s] # None
                      \/ \E k \in Jobs : at'[k] = s /\ parked'[k] # None /\ parked'[k].is = "whole"
    BY DEF NothingLost
  <2>1. CASE s = at[j]
    BY <2>1, <1>a DEF TypeOK
  <2>2. CASE s # at[j]
    BY <2>2 DEF TypeOK, NothingLost
  <2> QED BY <2>1, <2>2
<1> QED BY <1>1, <1>2, <1>3, <1>4, <1>5, <1>6, <1>7, <1>8

(* Recording a replacement keeps the set of listed sites.                   *)
LEMMA RecordInv == ASSUME IInv, NEW j \in Jobs, Record(j) PROVE IInv'
<1> USE StoreAssumption DEF IInv, Record, Goto, world, memory, Contents, Actors, Resting
<1>a. at[j] \in Slugs /\ lock = j
  BY WorkingSlug DEF Locked, ReplacePlaces
<1>b. /\ row' \in [Slugs -> Rows \cup {None}]
      /\ \A s \in Slugs : row'[s] # None <=> row[s] # None
  BY RecordedIsRow DEF TypeOK
<1>c. \A s \in Slugs : row'[s] = row[s] \/ s = at[j]
  BY <1>a DEF TypeOK, Recorded
<1>d. dir[at[j]] # None
  <2>1. dir[at[j]] = [of |-> j, is |-> "whole"]
    BY DEF HolderKnows
  <2> QED
    BY <2>1, NewTree
<1>1. TypeOK'
  <2>1. pc' \in [Actors -> Places]
    BY DEF TypeOK, Places, Locked, ReplacePlaces
  <2> QED BY <2>1, <1>b DEF TypeOK
<1>2. MutexHeld'
  BY DEF TypeOK, MutexHeld, Locked, ReplacePlaces
<1>3. BootAlone'
  BY DEF TypeOK, BootAlone
<1>4. RightHandler'
  BY DEF TypeOK, RightHandler, Settling, PublishPlaces, ReplacePlaces, DeletePlaces
<1>5. FlagsFollow'
  BY DEF TypeOK, FlagsFollow, NotYetMoved, AlreadyMoved, Complete, ReplacePlaces
<1>6. HolderKnows'
  BY <1>a, <1>b, <1>c DEF TypeOK, HolderKnows, MutexHeld, Locked, PublishPlaces,
       ReplacePlaces, DeletePlaces
<1>7. RowIsWhole'
  BY <1>b DEF RowIsWhole
<1>8. NothingLost'
  <2> SUFFICES ASSUME phase' \in {"sweep", "up"}, NEW s \in Slugs, row'[s] # None
               PROVE  \/ dir'[s] # None
                      \/ \E k \in Jobs : at'[k] = s /\ parked'[k] # None /\ parked'[k].is = "whole"
    BY DEF NothingLost
  <2>1. CASE s = at[j]
    BY <2>1, <1>a, <1>d
  <2>2. CASE s # at[j]
    BY <2>2, <1>c DEF NothingLost
  <2> QED BY <2>1, <2>2
<1> QED BY <1>1, <1>2, <1>3, <1>4, <1>5, <1>6, <1>7, <1>8

(* The parked tree goes only after the new one is in place.                 *)
LEMMA DiscardInv == ASSUME IInv, NEW j \in Jobs, Discard(j) PROVE IInv'
<1> USE StoreAssumption DEF IInv, Discard, CleanUpWith, Goto, world, memory, Contents,
       Actors, Resting
<1>d. dir[at[j]] # None
  <2>1. dir[at[j]] = [of |-> j, is |-> "whole"]
    BY DEF HolderKnows
  <2> QED
    BY <2>1, NewTree
<1>b. parked[j] # None
  BY DEF HolderKnows
<1>a. parked[j] \in Trees
  BY <1>b DEF TypeOK
<1>0. RemoveFails(parked[j]) \subseteq Trees
  BY <1>a, PartlyTree DEF RemoveFails
<1>1. TypeOK'
  <2>1. parked' \in [Jobs -> Trees \cup {None}]
    BY <1>0 DEF TypeOK
  <2>2. pc' \in [Actors -> Places]
    BY DEF TypeOK, Places
  <2>3. outcome' \in [Jobs -> Outcomes]
    BY DEF TypeOK, Outcomes
  <2> QED BY <2>1, <2>2, <2>3 DEF TypeOK
<1>2. MutexHeld'
  BY DEF MutexHeld, Locked, ReplacePlaces
<1>3. BootAlone'
  BY DEF BootAlone
<1>4. RightHandler'
  BY DEF RightHandler, Settling, PublishPlaces, ReplacePlaces, DeletePlaces
<1>5. FlagsFollow'
  BY DEF TypeOK, FlagsFollow, NotYetMoved, AlreadyMoved, Complete, ReplacePlaces
<1>6. HolderKnows'
  BY DEF TypeOK, HolderKnows, FlagsFollow, PublishPlaces, ReplacePlaces
<1>7. RowIsWhole'
  BY DEF RowIsWhole
<1>8. NothingLost'
  <2> SUFFICES ASSUME phase' \in {"sweep", "up"}, NEW s \in Slugs, row'[s] # None
               PROVE  \/ dir'[s] # None
                      \/ \E k \in Jobs : at'[k] = s /\ parked'[k] # None /\ parked'[k].is = "whole"
    BY DEF NothingLost
  <2>1. CASE s = at[j]
    BY <2>1, <1>d
  <2>2. CASE s # at[j]
    BY <2>2 DEF TypeOK, NothingLost
  <2> QED BY <2>1, <2>2
<1> QED BY <1>1, <1>2, <1>3, <1>4, <1>5, <1>6, <1>7, <1>8

(* Undoing a swap takes the new tree away before the old returns.           *)
LEMMA UnswapInv == ASSUME IInv, NEW j \in Jobs, Unswap(j) PROVE IInv'
<1> USE StoreAssumption DEF IInv, Unswap, CleanUpWith, Goto, world, memory, Contents, Actors,
       Resting
<1>a. /\ at[j] \in Slugs /\ lock = j
      /\ dir[at[j]] = [of |-> j, is |-> "whole"]
  BY WorkingSlug DEF Locked, ReplacePlaces, HolderKnows
<1>0. dir[at[j]] # None
  BY <1>a, NewTree DEF Contents
<1>c. parked[j] # None /\ parked[j].is = "whole"
  BY DEF HolderKnows
<1>1. TypeOK'
  <2>1. pc' \in [Actors -> Places]
    BY DEF TypeOK, Places, Locked, ReplacePlaces
  <2>2. outcome' \in [Jobs -> Outcomes]
    BY DEF TypeOK, Outcomes
  <2>3. dir' \in [Slugs -> Trees \cup {None}]
    BY <1>a DEF TypeOK
  <2>4. staging' \in [Jobs -> Trees \cup {None}]
    BY <1>a DEF TypeOK
  <2> QED BY <2>1, <2>2, <2>3, <2>4 DEF TypeOK
<1>2. MutexHeld'
  BY DEF TypeOK, MutexHeld, Locked, ReplacePlaces
<1>3. BootAlone'
  BY DEF TypeOK, BootAlone
<1>4. RightHandler'
  BY DEF TypeOK, RightHandler, Settling, PublishPlaces, ReplacePlaces, DeletePlaces
<1>5. FlagsFollow'
  BY <1>0, <1>a DEF TypeOK, FlagsFollow, NotYetMoved, AlreadyMoved, Complete, ReplacePlaces
<1>6. HolderKnows'
  BY <1>a, <1>c DEF TypeOK, HolderKnows, MutexHeld, FlagsFollow, Locked, PublishPlaces,
       ReplacePlaces
<1>7. RowIsWhole'
  BY DEF TypeOK, RowIsWhole
<1>8. NothingLost'
  <2> SUFFICES ASSUME phase' \in {"sweep", "up"}, NEW s \in Slugs, row'[s] # None
               PROVE  \/ dir'[s] # None
                      \/ \E k \in Jobs : at'[k] = s /\ parked'[k] # None /\ parked'[k].is = "whole"
    BY DEF NothingLost
  <2>1. CASE s = at[j]
    BY <2>1, <1>c
  <2>2. CASE s # at[j]
    BY <2>2 DEF TypeOK, NothingLost
  <2> QED BY <2>1, <2>2
<1> QED BY <1>1, <1>2, <1>3, <1>4, <1>5, <1>6, <1>7, <1>8

(* The old tree returns whole, or stays parked.                             *)
LEMMA RestoreInv == ASSUME IInv, NEW j \in Jobs, Restore(j) PROVE IInv'
<1> USE StoreAssumption DEF IInv, Restore, CleanUpWith, Goto, world, Contents, Actors, Resting
<1>b. parked[j] # None /\ parked[j].is = "whole"
  BY DEF HolderKnows
<1>a. at[j] \in Slugs /\ parked[j] \in Trees
  BY <1>b, WorkingSlug DEF Locked, ReplacePlaces, TypeOK
<1>1. TypeOK'
  <2>1. dir' \in [Slugs -> Trees \cup {None}] /\ parked' \in [Jobs -> Trees \cup {None}]
    BY <1>a DEF TypeOK
  <2>2. pc' \in [Actors -> Places]
    BY DEF TypeOK, Places
  <2>3. outcome' \in [Jobs -> Outcomes] /\ moved' \in [Jobs -> BOOLEAN]
    BY DEF TypeOK, Outcomes
  <2> QED BY <2>1, <2>2, <2>3 DEF TypeOK
<1>2. MutexHeld'
  BY DEF MutexHeld, Locked, ReplacePlaces
<1>3. BootAlone'
  BY DEF BootAlone
<1>4. RightHandler'
  BY DEF RightHandler, Settling, PublishPlaces, ReplacePlaces, DeletePlaces
<1>5. FlagsFollow'
  BY DEF TypeOK, FlagsFollow, NotYetMoved, AlreadyMoved, Complete, ReplacePlaces
<1>6. HolderKnows'
  BY DEF TypeOK, HolderKnows, MutexHeld, FlagsFollow, Locked, PublishPlaces, ReplacePlaces
<1>7. RowIsWhole'
  BY <1>a, <1>b DEF TypeOK, RowIsWhole
<1>8. NothingLost'
  <2> SUFFICES ASSUME phase' \in {"sweep", "up"}, NEW s \in Slugs, row'[s] # None
               PROVE  \/ dir'[s] # None
                      \/ \E k \in Jobs : at'[k] = s /\ parked'[k] # None /\ parked'[k].is = "whole"
    BY DEF NothingLost
  <2>1. CASE s = at[j]
    BY <2>1, <1>a, <1>b DEF TypeOK
  <2>2. CASE s # at[j]
    BY <2>2 DEF TypeOK, NothingLost
  <2> QED BY <2>1, <2>2
<1> QED BY <1>1, <1>2, <1>3, <1>4, <1>5, <1>6, <1>7, <1>8

(* An update holds the row it read, and the mutex with it.                  *)
LEMMA CheckInv == ASSUME IInv, NEW j \in Jobs, Check(j) PROVE IInv'
<1> USE StoreAssumption DEF IInv, Check, Goto, Return, Release, world, disk, Contents,
       Actors, Resting
<1>a. at[j] \in Slugs /\ lock = j
  BY WorkingSlug DEF Locked
<1>1. TypeOK'
  <2>1. held' \in [Jobs -> Rows \cup {None}]
    BY <1>a DEF TypeOK
  <2>2. pc' \in [Actors -> Places]
    BY DEF TypeOK, Places, Locked
  <2>3. outcome' \in [Jobs -> Outcomes] /\ lock' \in Actors \cup {None}
    BY DEF TypeOK, Outcomes
  <2> QED BY <2>1, <2>2, <2>3 DEF TypeOK
<1>2. MutexHeld'
  BY DEF TypeOK, MutexHeld, Locked, PublishPlaces, ReplacePlaces, DeletePlaces
<1>3. BootAlone'
  BY DEF TypeOK, BootAlone
<1>4. RightHandler'
  BY DEF TypeOK, RightHandler, Settling, Uploading, PublishPlaces, ReplacePlaces, DeletePlaces
<1>5. FlagsFollow'
  BY DEF TypeOK, FlagsFollow, NotYetMoved, AlreadyMoved, Complete, ReplacePlaces
<1>6. HolderKnows'
  BY DEF TypeOK, HolderKnows, PublishPlaces, ReplacePlaces
<1>7. RowIsWhole'
  BY DEF RowIsWhole
<1>8. NothingLost'
  BY DEF NothingLost
<1> QED BY <1>1, <1>2, <1>3, <1>4, <1>5, <1>6, <1>7, <1>8

(* Proving the entry changes nothing on disk.                               *)
LEMMA ProveEntryInv == ASSUME IInv, NEW j \in Jobs, ProveEntry(j) PROVE IInv'
<1> USE StoreAssumption DEF IInv, ProveEntry, Goto, Return, Release, world, disk, memory,
       Contents, Actors, Resting
<1>1. TypeOK'
  <2>1. pc' \in [Actors -> Places]
    BY DEF TypeOK, Places, Locked
  <2>2. outcome' \in [Jobs -> Outcomes]
    BY DEF TypeOK, Outcomes
  <2>3. lock' \in Actors \cup {None}
    BY DEF TypeOK
  <2> QED BY <2>1, <2>2, <2>3 DEF TypeOK
<1>2. MutexHeld'
  BY DEF TypeOK, MutexHeld, Locked, PublishPlaces, ReplacePlaces, DeletePlaces
<1>3. BootAlone'
  BY DEF TypeOK, BootAlone
<1>4. RightHandler'
  BY DEF TypeOK, RightHandler, Settling, Uploading, PublishPlaces, ReplacePlaces, DeletePlaces
<1>5. FlagsFollow'
  BY DEF TypeOK, FlagsFollow, NotYetMoved, AlreadyMoved, Complete, ReplacePlaces
<1>6. HolderKnows'
  BY DEF TypeOK, HolderKnows, PublishPlaces
<1>7. RowIsWhole'
  BY DEF RowIsWhole
<1>8. NothingLost'
  BY DEF NothingLost
<1> QED BY <1>1, <1>2, <1>3, <1>4, <1>5, <1>6, <1>7, <1>8

(* Saving settings keeps the set of listed sites.                           *)
LEMMA SaveInv == ASSUME IInv, NEW j \in Jobs, Save(j) PROVE IInv'
<1> USE StoreAssumption DEF IInv, Save, Goto, Return, Release, world, memory, Contents,
       Actors, Resting
<1>b. /\ row' \in [Slugs -> Rows \cup {None}]
      /\ \A s \in Slugs : row'[s] # None <=> row[s] # None
  BY SavedIsRow DEF TypeOK
<1>1. TypeOK'
  <2>1. pc' \in [Actors -> Places]
    BY DEF TypeOK, Places
  <2>2. outcome' \in [Jobs -> Outcomes] /\ lock' \in Actors \cup {None}
    BY DEF TypeOK, Outcomes
  <2> QED BY <2>1, <2>2, <1>b DEF TypeOK
<1>2. MutexHeld'
  BY DEF TypeOK, MutexHeld, Locked, PublishPlaces, ReplacePlaces, DeletePlaces
<1>3. BootAlone'
  BY DEF TypeOK, BootAlone
<1>4. RightHandler'
  BY DEF TypeOK, RightHandler, Settling, Uploading, PublishPlaces, ReplacePlaces, DeletePlaces
<1>5. FlagsFollow'
  BY DEF TypeOK, FlagsFollow, NotYetMoved, AlreadyMoved, Complete, ReplacePlaces
<1>6. HolderKnows'
  BY DEF TypeOK, HolderKnows, MutexHeld, Locked, PublishPlaces, ReplacePlaces, DeletePlaces
<1>7. RowIsWhole'
  BY <1>b DEF RowIsWhole
<1>8. NothingLost'
  BY <1>b DEF NothingLost
<1> QED BY <1>1, <1>2, <1>3, <1>4, <1>5, <1>6, <1>7, <1>8

(* Finding a site to delete moves nothing.                                  *)
LEMMA LookInv == ASSUME IInv, NEW x \in Actors, Look(x) PROVE IInv'
<1> USE StoreAssumption DEF IInv, Look, Goto, Release, DeleteEnds, world, disk, memory,
       Contents, Actors, Resting
<1>1. TypeOK'
  <2>1. pc' \in [Actors -> Places]
    BY DEF TypeOK, Places, Locked, DeletePlaces
  <2>2. outcome' \in [Jobs -> Outcomes]
    BY DEF TypeOK, Outcomes
  <2>3. lock' \in Actors \cup {None}
    BY DEF TypeOK
  <2> QED BY <2>1, <2>2, <2>3 DEF TypeOK
<1>2. MutexHeld'
  BY DEF TypeOK, MutexHeld, Locked, PublishPlaces, ReplacePlaces, DeletePlaces
<1>3. BootAlone'
  BY DEF TypeOK, BootAlone, DeletePlaces
<1>4. RightHandler'
  BY DEF TypeOK, RightHandler, Settling, Uploading, PublishPlaces, ReplacePlaces, DeletePlaces
<1>5. FlagsFollow'
  BY DEF TypeOK, FlagsFollow, NotYetMoved, AlreadyMoved, Complete, ReplacePlaces
<1>6. HolderKnows'
  BY DEF TypeOK, HolderKnows, PublishPlaces, ReplacePlaces
<1>7. RowIsWhole'
  BY DEF RowIsWhole
<1>8. NothingLost'
  BY DEF NothingLost
<1> QED BY <1>1, <1>2, <1>3, <1>4, <1>5, <1>6, <1>7, <1>8

(* The row goes while the directory is still whole.                         *)
LEMMA DeleteRowInv == ASSUME IInv, NEW x \in Actors, DeleteRow(x) PROVE IInv'
<1> USE StoreAssumption DEF IInv, DeleteRow, Goto, Release, DeleteEnds, world, memory,
       Contents, Actors, Resting
<1>a. at[x] \in Slugs /\ lock = x
  BY DeletingSlug DEF DeletePlaces
<1>1. TypeOK'
  <2>1. pc' \in [Actors -> Places]
    BY DEF TypeOK, Places, Locked, DeletePlaces
  <2>2. outcome' \in [Jobs -> Outcomes]
    BY DEF TypeOK, Outcomes
  <2>3. row' \in [Slugs -> Rows \cup {None}]
    BY <1>a DEF TypeOK
  <2>4. lock' \in Actors \cup {None}
    BY <1>a
  <2> QED BY <2>1, <2>2, <2>3, <2>4 DEF TypeOK
<1>2. MutexHeld'
  BY DEF TypeOK, MutexHeld, Locked, PublishPlaces, ReplacePlaces, DeletePlaces
<1>3. BootAlone'
  BY DEF TypeOK, BootAlone, DeletePlaces
<1>4. RightHandler'
  BY DEF TypeOK, RightHandler, Settling, Uploading, PublishPlaces, ReplacePlaces, DeletePlaces
<1>5. FlagsFollow'
  BY DEF TypeOK, FlagsFollow, NotYetMoved, AlreadyMoved, Complete, ReplacePlaces
<1>6. HolderKnows'
  BY <1>a DEF TypeOK, HolderKnows, MutexHeld, Locked, PublishPlaces, ReplacePlaces, DeletePlaces
<1>7. RowIsWhole'
  BY DEF TypeOK, RowIsWhole
<1>8. NothingLost'
  BY DEF TypeOK, NothingLost
<1> QED BY <1>1, <1>2, <1>3, <1>4, <1>5, <1>6, <1>7, <1>8

(* Only a directory without a row is taken apart.                           *)
LEMMA RemoveContentInv == ASSUME IInv, NEW x \in Actors, RemoveContent(x) PROVE IInv'
<1> USE StoreAssumption DEF IInv, RemoveContent, Goto, Release, DeleteEnds, world, memory,
       Contents, Actors, Resting
<1>a. at[x] \in Slugs /\ lock = x
  BY DeletingSlug DEF DeletePlaces
<1>0. dir[at[x]] # None => Partly(dir[at[x]]) \in Trees
  BY <1>a, PartlyTree DEF TypeOK
<1>1. TypeOK'
  <2>1. dir' \in [Slugs -> Trees \cup {None}]
    BY <1>a, <1>0 DEF TypeOK
  <2>2. pc' \in [Actors -> Places]
    BY DEF TypeOK, Places
  <2>3. outcome' \in [Jobs -> Outcomes] /\ lock' \in Actors \cup {None}
    BY DEF TypeOK, Outcomes
  <2> QED BY <2>1, <2>2, <2>3 DEF TypeOK
<1>2. MutexHeld'
  BY DEF TypeOK, MutexHeld, Locked, PublishPlaces, ReplacePlaces, DeletePlaces
<1>3. BootAlone'
  BY DEF TypeOK, BootAlone
<1>4. RightHandler'
  BY DEF TypeOK, RightHandler, Settling, Uploading, PublishPlaces, ReplacePlaces, DeletePlaces
<1>5. FlagsFollow'
  BY DEF TypeOK, FlagsFollow, NotYetMoved, AlreadyMoved, Complete, ReplacePlaces
<1>6. HolderKnows'
  BY DEF TypeOK, HolderKnows, MutexHeld, Locked, PublishPlaces, ReplacePlaces, DeletePlaces
<1>7. RowIsWhole'
  BY DEF TypeOK, RowIsWhole, HolderKnows
<1>8. NothingLost'
  BY DEF TypeOK, NothingLost, HolderKnows
<1> QED BY <1>1, <1>2, <1>3, <1>4, <1>5, <1>6, <1>7, <1>8

(* An archive opens the whole tree of a listed site.                        *)
LEMMA OpenInv == ASSUME IInv, NEW j \in Jobs, Open(j) PROVE IInv'
<1> USE StoreAssumption DEF IInv, Open, Goto, Return, Release, world, disk, Contents, Actors,
       Resting
<1>a. at[j] \in Slugs /\ lock = j
  BY WorkingSlug DEF Locked
<1>b. row[at[j]] # None /\ dir[at[j]] # None => dir[at[j]].is = "whole"
  BY <1>a DEF RowIsWhole
<1>1. TypeOK'
  <2>1. pc' \in [Actors -> Places]
    BY DEF TypeOK, Places, Locked
  <2>2. outcome' \in [Jobs -> Outcomes]
    BY DEF TypeOK, Outcomes
  <2>3. packed' \in [Jobs -> Trees \cup {None}]
    BY <1>a DEF TypeOK
  <2>4. lock' \in Actors \cup {None}
    BY <1>a
  <2> QED BY <2>1, <2>2, <2>3, <2>4 DEF TypeOK
<1>2. MutexHeld'
  BY DEF TypeOK, MutexHeld, Locked, PublishPlaces, ReplacePlaces, DeletePlaces
<1>3. BootAlone'
  BY DEF TypeOK, BootAlone
<1>4. RightHandler'
  BY DEF TypeOK, RightHandler, Settling, Uploading, PublishPlaces, ReplacePlaces, DeletePlaces
<1>5. FlagsFollow'
  BY DEF TypeOK, FlagsFollow, NotYetMoved, AlreadyMoved, Complete, ReplacePlaces
<1>6. HolderKnows'
  BY <1>a, <1>b DEF TypeOK, HolderKnows, PublishPlaces, ReplacePlaces
<1>7. RowIsWhole'
  BY DEF RowIsWhole
<1>8. NothingLost'
  BY DEF NothingLost
<1> QED BY <1>1, <1>2, <1>3, <1>4, <1>5, <1>6, <1>7, <1>8

(* Packing changes nothing on disk.                                         *)
LEMMA PackInv == ASSUME IInv, NEW j \in Jobs, Pack(j) PROVE IInv'
<1> USE StoreAssumption DEF IInv, Pack, Goto, Return, Release, world, disk, memory, Contents,
       Actors, Resting
<1>1. TypeOK'
  <2>1. pc' \in [Actors -> Places]
    BY DEF TypeOK, Places
  <2>2. outcome' \in [Jobs -> Outcomes]
    BY DEF TypeOK, Outcomes
  <2>3. lock' \in Actors \cup {None}
    BY DEF TypeOK
  <2> QED BY <2>1, <2>2, <2>3 DEF TypeOK
<1>2. MutexHeld'
  BY DEF TypeOK, MutexHeld, Locked, PublishPlaces, ReplacePlaces, DeletePlaces
<1>3. BootAlone'
  BY DEF TypeOK, BootAlone
<1>4. RightHandler'
  BY DEF TypeOK, RightHandler, Settling, Uploading, PublishPlaces, ReplacePlaces, DeletePlaces
<1>5. FlagsFollow'
  BY DEF TypeOK, FlagsFollow, NotYetMoved, AlreadyMoved, Complete, ReplacePlaces
<1>6. HolderKnows'
  BY DEF TypeOK, HolderKnows, PublishPlaces, ReplacePlaces
<1>7. RowIsWhole'
  BY DEF RowIsWhole
<1>8. NothingLost'
  BY DEF NothingLost
<1> QED BY <1>1, <1>2, <1>3, <1>4, <1>5, <1>6, <1>7, <1>8

(* A cancelled archive only drops the mutex.                                *)
LEMMA CancelInv == ASSUME IInv, NEW j \in Jobs, Cancel(j) PROVE IInv'
<1> USE StoreAssumption DEF IInv, Cancel, Goto, Return, Release, world, disk, memory,
       Contents, Actors, Resting
<1>1. TypeOK'
  <2>1. pc' \in [Actors -> Places]
    BY DEF TypeOK, Places
  <2>2. outcome' \in [Jobs -> Outcomes]
    BY DEF TypeOK, Outcomes
  <2>3. lock' \in Actors \cup {None}
    BY DEF TypeOK
  <2> QED BY <2>1, <2>2, <2>3 DEF TypeOK
<1>2. MutexHeld'
  BY DEF TypeOK, MutexHeld, Locked, PublishPlaces, ReplacePlaces, DeletePlaces
<1>3. BootAlone'
  BY DEF BootAlone
<1>4. RightHandler'
  BY DEF RightHandler, Settling, Uploading, PublishPlaces, ReplacePlaces, DeletePlaces
<1>5. FlagsFollow'
  BY DEF TypeOK, FlagsFollow, NotYetMoved, AlreadyMoved, Complete, ReplacePlaces
<1>6. HolderKnows'
  BY DEF HolderKnows, PublishPlaces, ReplacePlaces
<1>7. RowIsWhole'
  BY DEF RowIsWhole
<1>8. NothingLost'
  BY DEF NothingLost
<1> QED BY <1>1, <1>2, <1>3, <1>4, <1>5, <1>6, <1>7, <1>8

(* The sweeper's read of expired slugs happens while serving.               *)
LEMMA SweepReadInv == ASSUME IInv, SweepRead PROVE IInv'
<1> USE StoreAssumption DEF IInv, SweepRead, disk, memory, Serving, Contents, Actors, Resting
<1>1. TypeOK'
  BY RequestShape DEF TypeOK, ExpiredSlugs
<1>2. MutexHeld'
  BY DEF MutexHeld
<1>3. BootAlone'
  BY DEF BootAlone
<1>4. RightHandler'
  BY DEF RightHandler
<1>5. FlagsFollow'
  BY DEF FlagsFollow
<1>6. HolderKnows'
  BY DEF HolderKnows
<1>7. RowIsWhole'
  BY DEF RowIsWhole
<1>8. NothingLost'
  BY DEF NothingLost
<1> QED BY <1>1, <1>2, <1>3, <1>4, <1>5, <1>6, <1>7, <1>8

(* The sweeper visits a slug it read.                                       *)
LEMMA SweepNextInv == ASSUME IInv, SweepNext PROVE IInv'
<1> USE StoreAssumption DEF IInv, SweepNext, Goto, disk, Contents, Actors, Resting
<1>1. TypeOK'
  BY RequestShape DEF TypeOK, Places
<1>2. MutexHeld'
  BY DEF MutexHeld, Locked, PublishPlaces, ReplacePlaces, DeletePlaces
<1>3. BootAlone'
  BY DEF BootAlone
<1>4. RightHandler'
  BY DEF TypeOK, RightHandler
<1>5. FlagsFollow'
  BY DEF TypeOK, FlagsFollow
<1>6. HolderKnows'
  BY DEF HolderKnows
<1>7. RowIsWhole'
  BY DEF RowIsWhole
<1>8. NothingLost'
  BY DEF NothingLost
<1> QED BY <1>1, <1>2, <1>3, <1>4, <1>5, <1>6, <1>7, <1>8

(* The sweeper takes the mutex to delete.                                   *)
LEMMA SweepLockInv == ASSUME IInv, SweepLock PROVE IInv'
<1> USE StoreAssumption DEF IInv, SweepLock, Goto, world, disk, memory, Contents, Actors, Resting
<1>1. TypeOK'
  BY RequestShape DEF TypeOK, Places, Locked, DeletePlaces
<1>2. MutexHeld'
  BY DEF MutexHeld
<1>3. BootAlone'
  BY DEF BootAlone, DeletePlaces
<1>4. RightHandler'
  BY DEF RightHandler
<1>5. FlagsFollow'
  BY DEF TypeOK, FlagsFollow
<1>6. HolderKnows'
  BY DEF HolderKnows
<1>7. RowIsWhole'
  BY DEF RowIsWhole
<1>8. NothingLost'
  BY DEF NothingLost
<1> QED BY <1>1, <1>2, <1>3, <1>4, <1>5, <1>6, <1>7, <1>8

(* Time alone changes no row and no directory.                              *)
LEMMA TickInv == ASSUME IInv, Tick PROVE IInv'
<1> USE StoreAssumption DEF IInv, Tick, disk, memory, Contents, Actors, Resting
<1>1. TypeOK'
  BY RequestShape DEF TypeOK
<1>2. MutexHeld'
  BY DEF MutexHeld
<1>3. BootAlone'
  BY DEF BootAlone
<1>4. RightHandler'
  BY DEF RightHandler
<1>5. FlagsFollow'
  BY DEF FlagsFollow
<1>6. HolderKnows'
  BY DEF HolderKnows
<1>7. RowIsWhole'
  BY DEF RowIsWhole
<1>8. NothingLost'
  BY DEF NothingLost
<1> QED BY <1>1, <1>2, <1>3, <1>4, <1>5, <1>6, <1>7, <1>8

(* A stop frees the mutex and keeps what is on disk.                        *)
LEMMA CrashInv == ASSUME IInv, Crash PROVE IInv'
<1> USE StoreAssumption DEF IInv, Crash, Stop, disk, memory, Contents, Actors, Resting
<1>1. TypeOK'
  <2>1. pc' \in [Actors -> Places]
    BY DEF Places
  <2>2. outcome' \in [Jobs -> Outcomes]
    BY DEF TypeOK
  <2>3. lock' \in Actors \cup {None}
    OBVIOUS
  <2>4. doomed' \subseteq Slugs
    OBVIOUS
  <2>5. phase' \in {"down", "tmp", "content", "rows", "sweep", "up"}
    OBVIOUS
  <2> QED BY <2>1, <2>2, <2>3, <2>4, <2>5 DEF TypeOK
<1>2. MutexHeld'
  BY DEF MutexHeld, Locked, PublishPlaces, ReplacePlaces, DeletePlaces
<1>3. BootAlone'
  BY DEF BootAlone
<1>4. RightHandler'
  BY DEF RightHandler, Settling, Uploading, PublishPlaces, ReplacePlaces, DeletePlaces
<1>5. FlagsFollow'
  BY DEF FlagsFollow, NotYetMoved, AlreadyMoved, Complete, ReplacePlaces
<1>6. HolderKnows'
  BY DEF HolderKnows, PublishPlaces, ReplacePlaces
<1>7. RowIsWhole'
  BY DEF RowIsWhole
<1>8. NothingLost'
  BY DEF NothingLost
<1> QED BY <1>1, <1>2, <1>3, <1>4, <1>5, <1>6, <1>7, <1>8

(* A boot starts alone.                                                     *)
LEMMA BootInv == ASSUME IInv, Boot PROVE IInv'
<1> USE StoreAssumption DEF IInv, Boot, disk, memory, Contents, Actors, Resting
<1>1. TypeOK'
  BY RequestShape DEF TypeOK
<1>2. MutexHeld'
  BY DEF MutexHeld
<1>3. BootAlone'
  BY DEF BootAlone
<1>4. RightHandler'
  BY DEF RightHandler
<1>5. FlagsFollow'
  BY DEF FlagsFollow
<1>6. HolderKnows'
  BY DEF HolderKnows
<1>7. RowIsWhole'
  BY DEF RowIsWhole
<1>8. NothingLost'
  BY DEF NothingLost
<1> QED BY <1>1, <1>2, <1>3, <1>4, <1>5, <1>6, <1>7, <1>8

(* Clearing tmp/ happens while nothing is served.                           *)
LEMMA ClearStagingInv == ASSUME IInv, ClearStaging PROVE IInv'
<1> USE StoreAssumption DEF IInv, ClearStaging, memory, Contents, Actors, Resting
<1>1. TypeOK'
  BY RequestShape DEF TypeOK
<1>2. MutexHeld'
  BY DEF MutexHeld
<1>3. BootAlone'
  BY DEF BootAlone
<1>4. RightHandler'
  BY DEF RightHandler
<1>5. FlagsFollow'
  BY DEF TypeOK, FlagsFollow, BootAlone, Complete
<1>6. HolderKnows'
  BY DEF HolderKnows, BootAlone
<1>7. RowIsWhole'
  BY DEF RowIsWhole
<1>8. NothingLost'
  BY DEF NothingLost
<1> QED BY <1>1, <1>2, <1>3, <1>4, <1>5, <1>6, <1>7, <1>8

(* A boot takes apart only directories without a row.                       *)
LEMMA RemoveOrphansInv == ASSUME IInv, RemoveOrphans PROVE IInv'
<1> USE StoreAssumption DEF IInv, RemoveOrphans, memory, Contents, Actors, Resting
<1>0. \A s \in Slugs : dir[s] # None => Partly(dir[s]) \in Trees
  BY PartlyTree DEF TypeOK
<1>1. TypeOK'
  <2>1. dir' \in [Slugs -> Trees \cup {None}]
    BY <1>0 DEF TypeOK
  <2>2. phase' \in {"down", "tmp", "content", "rows", "sweep", "up"}
    OBVIOUS
  <2> QED BY <2>1, <2>2 DEF TypeOK
<1>2. MutexHeld'
  BY DEF MutexHeld
<1>3. BootAlone'
  BY DEF BootAlone
<1>4. RightHandler'
  BY DEF RightHandler
<1>5. FlagsFollow'
  BY DEF FlagsFollow
<1>6. HolderKnows'
  BY DEF HolderKnows, BootAlone
<1>7. RowIsWhole'
  BY DEF TypeOK, RowIsWhole
<1>8. NothingLost'
  BY DEF NothingLost
<1> QED BY <1>1, <1>2, <1>3, <1>4, <1>5, <1>6, <1>7, <1>8

(* A boot serves only once every row has a directory.                       *)
LEMMA PruneRowsInv == ASSUME IInv, PruneRows PROVE IInv'
<1> USE StoreAssumption DEF IInv, PruneRows, Stop, memory, Contents, Actors, Resting
<1>1. TypeOK'
  <2>1. pc' \in [Actors -> Places]
    BY DEF TypeOK, Places
  <2>2. row' \in [Slugs -> Rows \cup {None}]
    BY DEF TypeOK
  <2>3. doomed' \subseteq Slugs /\ phase' \in {"down", "tmp", "content", "rows", "sweep", "up"} /\ lock' \in Actors \cup {None}
    BY DEF TypeOK, ExpiredSlugs
  <2> QED BY <2>1, <2>2, <2>3 DEF TypeOK
<1>2. MutexHeld'
  BY DEF MutexHeld, Locked, PublishPlaces, ReplacePlaces, DeletePlaces
<1>3. BootAlone'
  BY DEF BootAlone
<1>4. RightHandler'
  BY DEF RightHandler, Settling, Uploading, PublishPlaces, ReplacePlaces, DeletePlaces
<1>5. FlagsFollow'
  BY DEF TypeOK, FlagsFollow, NotYetMoved, AlreadyMoved, Complete, ReplacePlaces
<1>6. HolderKnows'
  BY DEF HolderKnows, BootAlone, ReplacePlaces
<1>7. RowIsWhole'
  BY DEF TypeOK, RowIsWhole
<1>8. NothingLost'
  BY DEF NothingLost
<1> QED BY <1>1, <1>2, <1>3, <1>4, <1>5, <1>6, <1>7, <1>8

(* Serving starts with no job and no sweep in progress.                     *)
LEMMA ServeInv == ASSUME IInv, Serve PROVE IInv'
<1> USE StoreAssumption DEF IInv, Serve, disk, memory, Contents, Actors, Resting
<1>1. TypeOK'
  BY RequestShape DEF TypeOK
<1>2. MutexHeld'
  BY DEF MutexHeld
<1>3. BootAlone'
  BY DEF BootAlone
<1>4. RightHandler'
  BY DEF RightHandler
<1>5. FlagsFollow'
  BY DEF FlagsFollow
<1>6. HolderKnows'
  BY DEF HolderKnows
<1>7. RowIsWhole'
  BY DEF RowIsWhole
<1>8. NothingLost'
  BY DEF NothingLost
<1> QED BY <1>1, <1>2, <1>3, <1>4, <1>5, <1>6, <1>7, <1>8

(* A failed boot is a stop.                                                 *)
LEMMA BootFailsInv == ASSUME IInv, BootFails PROVE IInv'
<1> USE StoreAssumption DEF IInv, BootFails, Stop, disk, memory, Contents, Actors, Resting
<1>1. TypeOK'
  <2>1. pc' \in [Actors -> Places]
    BY DEF Places
  <2>2. outcome' \in [Jobs -> Outcomes]
    BY DEF TypeOK
  <2>3. lock' \in Actors \cup {None}
    OBVIOUS
  <2>4. doomed' \subseteq Slugs
    OBVIOUS
  <2>5. phase' \in {"down", "tmp", "content", "rows", "sweep", "up"}
    OBVIOUS
  <2> QED BY <2>1, <2>2, <2>3, <2>4, <2>5 DEF TypeOK
<1>2. MutexHeld'
  BY DEF MutexHeld, Locked, PublishPlaces, ReplacePlaces, DeletePlaces
<1>3. BootAlone'
  BY DEF BootAlone
<1>4. RightHandler'
  BY DEF RightHandler, Settling, Uploading, PublishPlaces, ReplacePlaces, DeletePlaces
<1>5. FlagsFollow'
  BY DEF FlagsFollow, NotYetMoved, AlreadyMoved, Complete, ReplacePlaces
<1>6. HolderKnows'
  BY DEF HolderKnows, PublishPlaces, ReplacePlaces
<1>7. RowIsWhole'
  BY DEF RowIsWhole
<1>8. NothingLost'
  BY DEF NothingLost
<1> QED BY <1>1, <1>2, <1>3, <1>4, <1>5, <1>6, <1>7, <1>8

(* The first process of a machine whose earlier one stopped cleanly.         *)
LEMMA InitInv == Init => IInv
<1> SUFFICES ASSUME Init PROVE IInv
  OBVIOUS
<1> USE StoreAssumption DEF Init
<1>1. OldRows \subseteq Rows
  BY DEF OldRows, Rows, Contents
<1>2. [of |-> Old, is |-> "whole"] \in Trees /\ [of |-> Old, is |-> "whole"] # None
  BY NewTree DEF Contents
<1>3. TypeOK
  <2>1. row \in [Slugs -> Rows \cup {None}] /\ dir \in [Slugs -> Trees \cup {None}]
    BY <1>1, <1>2
  <2>2. pc \in [Actors -> Places] /\ outcome \in [Jobs -> Outcomes]
    BY DEF Places, Outcomes
  <2>3. /\ phase \in {"down", "tmp", "content", "rows", "sweep", "up"}
        /\ now \in Nat /\ lock \in Actors \cup {None} /\ doomed \subseteq Slugs
    OBVIOUS
  <2>4. /\ staging \in [Jobs -> Trees \cup {None}] /\ parked \in [Jobs -> Trees \cup {None}]
        /\ packed \in [Jobs -> Trees \cup {None}] /\ held \in [Jobs -> Rows \cup {None}]
    OBVIOUS
  <2>5. /\ req \in [Jobs -> (UNION {Requests(j) : j \in Jobs}) \cup {None}]
        /\ at \in [Actors -> Slugs \cup {None}] /\ tries \in [Jobs -> Nat]
    OBVIOUS
  <2>6. reserved \in [Jobs -> BOOLEAN] /\ moved \in [Jobs -> BOOLEAN]
    OBVIOUS
  <2> HIDE DEF Init
  <2> QED
    BY <2>1, <2>2, <2>3, <2>4, <2>5, <2>6 DEF TypeOK
<1>4. MutexHeld /\ BootAlone
  BY DEF MutexHeld, BootAlone, Locked, PublishPlaces, ReplacePlaces, DeletePlaces, Resting, Actors
<1>5. RightHandler
  BY DEF RightHandler, PublishPlaces, ReplacePlaces, DeletePlaces, Settling, Uploading, Actors
<1>6. FlagsFollow
  BY DEF FlagsFollow, NotYetMoved, AlreadyMoved, Complete, ReplacePlaces, Actors
<1>7. HolderKnows
  BY DEF HolderKnows, PublishPlaces, ReplacePlaces, Actors
<1>8. RowIsWhole /\ NothingLost
  BY <1>2 DEF RowIsWhole, NothingLost
<1> QED
  BY <1>3, <1>4, <1>5, <1>6, <1>7, <1>8 DEF IInv

(* Every step keeps the invariant: one lemma per action.                     *)
LEMMA NextInv == IInv /\ [Next]_vars => IInv'
<1> SUFFICES ASSUME IInv, [Next]_vars PROVE IInv'
  OBVIOUS
<1>1. CASE UNCHANGED vars
  <2> USE <1>1 DEF vars
  <2>1. TypeOK' /\ MutexHeld' /\ BootAlone'
    BY DEF IInv, TypeOK, MutexHeld, BootAlone
  <2>2. RightHandler' /\ FlagsFollow'
    BY DEF IInv, RightHandler, FlagsFollow
  <2>3. HolderKnows' /\ RowIsWhole' /\ NothingLost'
    BY DEF IInv, HolderKnows, RowIsWhole, NothingLost
  <2> QED
    BY <2>1, <2>2, <2>3 DEF IInv
<1>2. ASSUME NEW j \in Jobs, Submit(j) \/ Lock(j) \/ Cancel(j) \/ Stage(j) \/ Write(j)
      PROVE  IInv'
  BY <1>2, SubmitInv, LockInv, CancelInv, StageInv, WriteInv
<1>3. ASSUME NEW j \in Jobs, Publish(j) \/ Cleanup(j)
      PROVE  IInv'
  BY <1>3, InsertInv, ReserveInv, InstallInv, CommitInv, DropReservationInv, DropStagingInv
     DEF Publish, Cleanup
<1>4. ASSUME NEW j \in Jobs, Replace(j)
      PROVE  IInv'
  BY <1>4, FindInv, ParkInv, SwapInv, UnparkInv, RecordInv, DiscardInv, UnswapInv, RestoreInv
     DEF Replace
<1>5. ASSUME NEW j \in Jobs, Settings(j) \/ Archive(j)
      PROVE  IInv'
  BY <1>5, CheckInv, ProveEntryInv, SaveInv, OpenInv, PackInv DEF Settings, Archive
<1>6. ASSUME NEW x \in Actors, Delete(x)
      PROVE  IInv'
  BY <1>6, LookInv, DeleteRowInv, RemoveContentInv DEF Delete
<1>7. CASE Sweep \/ SweepLock
  BY <1>6, <1>7, SweepReadInv, SweepNextInv, SweepLockInv DEF Sweep, Actors
<1>8. CASE Tick \/ Crash \/ Reconcile \/ BootFails
  BY <1>8, TickInv, CrashInv, BootInv, ClearStagingInv, RemoveOrphansInv, PruneRowsInv,
     ServeInv, BootFailsInv DEF Reconcile
<1>9. ASSUME NEW j \in Jobs, Work(j)
      PROVE  IInv'
  BY <1>2, <1>3, <1>4, <1>5, <1>6, <1>9 DEF Work, Actors
<1> QED
  BY <1>1, <1>2, <1>7, <1>8, <1>9 DEF Next

(* The invariant holds throughout every behaviour of the storage core.       *)
THEOREM Invariance == Spec => []IInv
<1>1. Init => IInv
  BY InitInv
<1>2. IInv /\ [Next]_vars => IInv'
  BY NextInv
<1> QED
  BY <1>1, <1>2, PTL DEF Spec

(* Every variable keeps its type, for any slugs, jobs, contents and faults.  *)
THEOREM TypeCorrect == Spec => []TypeOK
<1>1. IInv => TypeOK
  BY DEF IInv
<1> QED
  BY <1>1, Invariance, PTL

(* No interleaving, fault or crash point leaves a committed row over a       *)
(* half-written, half-removed or reserved directory.                         *)
THEOREM RowsAreWhole == Spec => []RowIsWhole
<1>1. IInv => RowIsWhole
  BY DEF IInv
<1> QED
  BY <1>1, Invariance, PTL

(* No sequence of failed renames loses the bytes of a listed site while the  *)
(* process serves.                                                           *)
THEOREM NoContentLost == Spec => []NothingLost
<1>1. IInv => NothingLost
  BY DEF IInv
<1> QED
  BY <1>1, Invariance, PTL

(* Content::cleanup only ever removes an upload's own empty reservation and  *)
(* its own staging directory.                                                *)
THEOREM CleanupIsSafe == Spec => []CleanupKnowsDisk
<1>1. IInv => CleanupKnowsDisk
  BY DEF IInv, CleanupKnowsDisk, HolderKnows, FlagsFollow
<1> QED
  BY <1>1, Invariance, PTL

(* An archive packs one whole tree, which nothing moves until it has ended.  *)
THEOREM ArchivesAreStable == Spec => []ArchiveIsStable
<1>1. IInv => ArchiveIsStable
  BY DEF IInv, ArchiveIsStable, HolderKnows
<1> QED
  BY <1>1, Invariance, PTL

(* The steps that write rows; a job that writes one holds the mutex.         *)
LEMMA RowWriters ==
    ASSUME IInv, [Next]_vars
    PROVE  \/ UNCHANGED row
           \/ PruneRows
           \/ \E x \in Actors : DeleteRow(x)
           \/ \E j \in Jobs : Commit(j) \/ Record(j) \/ Save(j)
<1> USE DEF disk, memory, world
<1>1. CASE UNCHANGED vars
  BY <1>1 DEF vars
<1>2. ASSUME NEW j \in Jobs, Submit(j) \/ Lock(j) \/ Cancel(j) \/ Stage(j) \/ Write(j)
      PROVE  UNCHANGED row
  BY <1>2 DEF Submit, Lock, Cancel, Stage, Write
<1>3. ASSUME NEW j \in Jobs, Publish(j) \/ Cleanup(j)
      PROVE  UNCHANGED row \/ Commit(j)
  BY <1>3 DEF Publish, Cleanup, Insert, Reserve, Install, DropReservation, DropStaging
<1>4. ASSUME NEW j \in Jobs, Replace(j)
      PROVE  UNCHANGED row \/ Record(j)
  BY <1>4 DEF Replace, Find, Park, Swap, Unpark, Discard, Unswap, Restore
<1>5. ASSUME NEW j \in Jobs, Settings(j) \/ Archive(j)
      PROVE  UNCHANGED row \/ Save(j)
  BY <1>5 DEF Settings, Archive, Check, ProveEntry, Open, Pack
<1>6. ASSUME NEW x \in Actors, Delete(x)
      PROVE  UNCHANGED row \/ DeleteRow(x)
  BY <1>6 DEF Delete, Look, RemoveContent
<1>7. CASE Sweep \/ SweepLock
  BY <1>6, <1>7 DEF Sweep, SweepLock, SweepRead, SweepNext, Actors
<1>8. CASE Tick \/ Crash \/ Reconcile \/ BootFails
  BY <1>8 DEF Tick, Crash, Reconcile, BootFails, Boot, ClearStaging, RemoveOrphans, Serve
<1> QED
  BY <1>1, <1>2, <1>3, <1>4, <1>5, <1>6, <1>7, <1>8 DEF Next, Work, Actors

(* The steps that write sites/<slug>.                                        *)
LEMMA DirWriters ==
    ASSUME IInv, [Next]_vars
    PROVE  \/ UNCHANGED dir
           \/ RemoveOrphans
           \/ \E x \in Actors : RemoveContent(x)
           \/ \E j \in Jobs : Reserve(j) \/ Install(j) \/ DropReservation(j)
           \/ \E j \in Jobs : Park(j) \/ Swap(j) \/ Unpark(j) \/ Unswap(j) \/ Restore(j)
<1> USE DEF disk, memory, world
<1>1. CASE UNCHANGED vars
  BY <1>1 DEF vars
<1>2. ASSUME NEW j \in Jobs, Submit(j) \/ Lock(j) \/ Cancel(j) \/ Stage(j) \/ Write(j)
      PROVE  UNCHANGED dir
  BY <1>2 DEF Submit, Lock, Cancel, Stage, Write
<1>3. ASSUME NEW j \in Jobs, Publish(j) \/ Cleanup(j)
      PROVE  UNCHANGED dir \/ Reserve(j) \/ Install(j) \/ DropReservation(j)
  BY <1>3 DEF Publish, Cleanup, Insert, Commit, DropStaging
<1>4. ASSUME NEW j \in Jobs, Replace(j)
      PROVE  UNCHANGED dir \/ Park(j) \/ Swap(j) \/ Unpark(j) \/ Unswap(j) \/ Restore(j)
  BY <1>4 DEF Replace, Find, Record, Discard
<1>5. ASSUME NEW j \in Jobs, Settings(j) \/ Archive(j)
      PROVE  UNCHANGED dir
  BY <1>5 DEF Settings, Archive, Check, ProveEntry, Save, Open, Pack
<1>6. ASSUME NEW x \in Actors, Delete(x)
      PROVE  UNCHANGED dir \/ RemoveContent(x)
  BY <1>6 DEF Delete, Look, DeleteRow
<1>7. CASE Sweep \/ SweepLock
  BY <1>6, <1>7 DEF Sweep, SweepLock, SweepRead, SweepNext, Actors
<1>8. CASE Tick \/ Crash \/ Reconcile \/ BootFails
  BY <1>8 DEF Tick, Crash, Reconcile, BootFails, Boot, ClearStaging, PruneRows, Serve
<1> QED
  BY <1>1, <1>2, <1>3, <1>4, <1>5, <1>6, <1>7, <1>8 DEF Next, Work, Actors

(* The steps that give an actor a slug.                                      *)
LEMMA SlugChoices ==
    ASSUME [Next]_vars
    PROVE  UNCHANGED at \/ SweepNext \/ \E j \in Jobs : Submit(j) \/ Insert(j)
<1> USE DEF memory
<1>1. ASSUME NEW j \in Jobs, Lock(j) \/ Cancel(j) \/ Stage(j) \/ Write(j)
      PROVE  UNCHANGED at
  BY <1>1 DEF Lock, Cancel, Stage, Write
<1>2. ASSUME NEW j \in Jobs, Publish(j) \/ Cleanup(j)
      PROVE  UNCHANGED at \/ Insert(j)
  BY <1>2 DEF Publish, Cleanup, Reserve, Install, Commit, DropReservation, DropStaging
<1>3. ASSUME NEW j \in Jobs, Replace(j)
      PROVE  UNCHANGED at
  BY <1>3 DEF Replace, Find, Park, Swap, Unpark, Record, Discard, Unswap, Restore
<1>4. ASSUME NEW j \in Jobs, Settings(j) \/ Archive(j)
      PROVE  UNCHANGED at
  BY <1>4 DEF Settings, Archive, Check, ProveEntry, Save, Open, Pack
<1>5. ASSUME NEW x \in Actors, Delete(x)
      PROVE  UNCHANGED at
  BY <1>5 DEF Delete, Look, DeleteRow, RemoveContent
<1>6. CASE SweepRead \/ SweepLock \/ Tick \/ Crash \/ Reconcile \/ BootFails \/ UNCHANGED vars
  BY <1>6 DEF SweepRead, SweepLock, Tick, Crash, Reconcile, BootFails, Boot, ClearStaging,
       RemoveOrphans, PruneRows, Serve, vars
<1> QED
  BY <1>1, <1>2, <1>3, <1>4, <1>5, <1>6 DEF Next, Work, Sweep, Actors

(* A step is a job's own, stops the process, or leaves the job where it is. *)
LEMMA OwnSteps ==
    ASSUME IInv, [Next]_vars, NEW j \in Jobs
    PROVE  \/ Submit(j) \/ Lock(j) \/ Work(j) \/ Cancel(j)
           \/ Stop /\ UNCHANGED <<dir, staging, parked, memory, outcome>>
           \/ /\ pc'[j] = pc[j] /\ req'[j] = req[j] /\ at'[j] = at[j] /\ held'[j] = held[j]
              /\ outcome'[j] = outcome[j] /\ reserved'[j] = reserved[j] /\ moved'[j] = moved[j]
              /\ lock = j => lock' = j
              /\ staging'[j] \in {staging[j], None} /\ parked'[j] \in {parked[j], None}
<1> DEFINE Alone == /\ pc'[j] = pc[j] /\ req'[j] = req[j] /\ at'[j] = at[j]
                    /\ held'[j] = held[j] /\ outcome'[j] = outcome[j]
                    /\ reserved'[j] = reserved[j] /\ moved'[j] = moved[j]
                    /\ lock = j => lock' = j
                    /\ staging'[j] \in {staging[j], None} /\ parked'[j] \in {parked[j], None}
<1> USE DEF disk, memory, world, Goto, CleanUpWith, Return, Release, TryAnother, DeleteEnds
<1>a. /\ pc \in [Actors -> Places] /\ at \in [Actors -> Slugs \cup {None}]
      /\ held \in [Jobs -> Rows \cup {None}] /\ outcome \in [Jobs -> Outcomes]
      /\ reserved \in [Jobs -> BOOLEAN] /\ moved \in [Jobs -> BOOLEAN]
      /\ staging \in [Jobs -> Trees \cup {None}] /\ parked \in [Jobs -> Trees \cup {None}]
      /\ DOMAIN req = Jobs /\ j \in Actors /\ j # None /\ j # Sweeper
  BY StoreAssumption DEF IInv, TypeOK, Actors
<1>1. CASE UNCHANGED vars
  BY <1>1 DEF vars
<1>2. ASSUME NEW k \in Jobs, k # j, Submit(k) \/ Lock(k) \/ Cancel(k) \/ Stage(k) \/ Write(k)
      PROVE  Alone
  BY <1>a, <1>2 DEF Submit, Lock, Cancel, Stage, Write
<1>3. ASSUME NEW k \in Jobs, k # j, Publish(k) \/ Cleanup(k)
      PROVE  Alone
  BY <1>a, <1>3 DEF Publish, Cleanup, Insert, Reserve, Install, Commit, DropReservation,
                    DropStaging
<1>4. ASSUME NEW k \in Jobs, k # j, Replace(k)
      PROVE  Alone
  BY <1>a, <1>4 DEF Replace, Find, Park, Swap, Unpark, Record, Discard, Unswap, Restore
<1>5. ASSUME NEW k \in Jobs, k # j, Settings(k) \/ Archive(k)
      PROVE  Alone
  BY <1>a, <1>5 DEF Settings, Archive, Check, ProveEntry, Save, Open, Pack
<1>6. ASSUME NEW x \in Actors, x # j, Delete(x)
      PROVE  Alone
  BY <1>a, <1>6 DEF Delete, Look, DeleteRow, RemoveContent
<1>7. CASE SweepRead \/ SweepNext \/ SweepLock
  BY <1>a, <1>7 DEF SweepRead, SweepNext, SweepLock
<1>8. CASE Tick \/ Boot \/ ClearStaging \/ RemoveOrphans \/ Serve
  BY <1>a, <1>8 DEF Tick, Boot, ClearStaging, RemoveOrphans, Serve
<1>9. CASE PruneRows \/ Crash \/ BootFails
  BY <1>9 DEF PruneRows, Crash, BootFails
<1>10. CASE Delete(Sweeper)
  BY <1>a, <1>6, <1>10 DEF Actors
<1>11. ASSUME NEW k \in Jobs, k # j, Delete(k)
       PROVE  Alone
  BY <1>6, <1>11 DEF Actors
<1> HIDE DEF Alone
<1>12. ASSUME NEW k \in Jobs, k # j, Submit(k) \/ Lock(k) \/ Work(k) \/ Cancel(k)
       PROVE  Alone
  BY <1>2, <1>3, <1>4, <1>5, <1>11, <1>12 DEF Work
<1>13. \/ \E k \in Jobs : Submit(k) \/ Lock(k) \/ Work(k) \/ Cancel(k)
       \/ Alone
       \/ Stop /\ UNCHANGED <<dir, staging, parked, memory, outcome>>
  BY <1>1, <1>7, <1>8, <1>9, <1>10 DEF Next, Sweep, Reconcile, Alone
<1>14. \/ Submit(j) \/ Lock(j) \/ Work(j) \/ Cancel(j)
       \/ Alone
       \/ Stop /\ UNCHANGED <<dir, staging, parked, memory, outcome>>
  BY <1>12, <1>13
<1> QED
  BY <1>14 DEF Alone

(* A site only ever appears over its own, completely installed upload.       *)
THEOREM SitesAppearInstalled == Spec => AppearsInstalled
<1> DEFINE A == \A s \in Slugs : row[s] = None /\ row'[s] # None =>
                    /\ dir[s] = [of |-> row'[s].meta, is |-> "whole"]
                    /\ dir'[s] = dir[s]
<1>1. ASSUME IInv, [Next]_vars
      PROVE  A
  <2> SUFFICES ASSUME NEW s \in Slugs, row[s] = None, row'[s] # None
               PROVE  /\ dir[s] = [of |-> row'[s].meta, is |-> "whole"]
                      /\ dir'[s] = dir[s]
    OBVIOUS
  <2>1. ASSUME NEW j \in Jobs, Commit(j)
        PROVE  dir[s] = [of |-> row'[s].meta, is |-> "whole"] /\ dir'[s] = dir[s]
    <3>1. /\ dir[at[j]] = [of |-> j, is |-> "whole"] /\ held[j].meta = j /\ at[j] \in Slugs
      BY <1>1, <2>1 DEF Commit, IInv, HolderKnows, RightHandler, PublishPlaces
    <3>2. s = at[j] /\ row'[s] = held[j]
      BY <1>1, <2>1 DEF Commit, IInv, TypeOK
    <3> QED
      BY <2>1, <3>1, <3>2 DEF Commit
  <2>2. ASSUME NEW j \in Jobs, Record(j)
        PROVE  FALSE
    BY <1>1, <2>2, RecordedIsRow DEF Record
  <2>3. ASSUME NEW j \in Jobs, Save(j)
        PROVE  FALSE
    BY <1>1, <2>3, SavedIsRow DEF Save
  <2>4. ASSUME NEW x \in Actors, DeleteRow(x)
        PROVE  FALSE
    BY <1>1, <2>4 DEF DeleteRow, IInv, TypeOK
  <2>5. CASE PruneRows
    BY <1>1, <2>5 DEF PruneRows, IInv, TypeOK
  <2>6. CASE UNCHANGED row
    BY <2>6
  <2> QED
    BY <1>1, <2>1, <2>2, <2>3, <2>4, <2>5, <2>6, RowWriters
<1>2. IInv /\ [Next]_vars => [A]_vars
  BY <1>1
<1> QED
  BY <1>2, Invariance, PTL DEF Spec, AppearsInstalled

(* No operation renames one upload over another.                             *)
LEMMA SameUpload ==
    ASSUME IInv, [Next]_vars, NEW s \in Slugs, dir[s] # None, dir'[s] # None
    PROVE  dir'[s].of = dir[s].of
<1>1. ASSUME dir'[s] # dir[s]
      PROVE  dir'[s].of = dir[s].of
  <2>0. dir' # dir
    BY <1>1
  <2>1. ASSUME NEW j \in Jobs, Reserve(j) \/ Install(j) \/ DropReservation(j)
        PROVE  dir'[s].of = dir[s].of
    <3>1. CASE Reserve(j)
      BY <1>1, <3>1 DEF Reserve, IInv, TypeOK
    <3>2. CASE Install(j)
      <4>1. dir[at[j]] = [of |-> j, is |-> "empty"]
        BY <1>1, <3>2 DEF Install, IInv, HolderKnows
      <4>2. staging[j] = [of |-> j, is |-> "whole"]
        BY <1>1, <3>2 DEF Install, IInv, FlagsFollow, Complete
      <4>3. dir' = [dir EXCEPT ![at[j]] = staging[j]]
        BY <3>2, <2>0 DEF Install
      <4> QED
        BY <1>1, <4>1, <4>2, <4>3 DEF IInv, TypeOK
    <3>3. CASE DropReservation(j)
      BY <1>1, <3>3 DEF DropReservation, IInv, TypeOK
    <3> QED
      BY <2>1, <3>1, <3>2, <3>3
  <2>2. ASSUME NEW j \in Jobs, Park(j) \/ Unswap(j)
        PROVE  FALSE
    BY <1>1, <2>2 DEF Park, Unswap, IInv, TypeOK
  <2>3. ASSUME NEW j \in Jobs, Swap(j) \/ Unpark(j) \/ Restore(j)
        PROVE  FALSE
    <3>1. dir[at[j]] = None
      BY <1>1, <2>3 DEF Swap, Unpark, Restore, IInv, HolderKnows
    <3> QED
      BY <1>1, <2>3, <3>1 DEF Swap, Unpark, Restore, IInv, TypeOK
  <2>4. ASSUME NEW x \in Actors, RemoveContent(x)
        PROVE  dir'[s].of = dir[s].of
    <3>1. Partly(dir[s]).of = dir[s].of
      BY <1>1, PartlyTree DEF IInv, TypeOK
    <3> QED
      BY <1>1, <2>4, <3>1 DEF RemoveContent, IInv, TypeOK
  <2>5. CASE RemoveOrphans
    <3>1. Partly(dir[s]).of = dir[s].of
      BY <1>1, PartlyTree DEF IInv, TypeOK
    <3> QED
      BY <1>1, <2>5, <3>1 DEF RemoveOrphans, IInv, TypeOK
  <2>6. CASE UNCHANGED dir
    BY <2>6
  <2> QED
    BY <1>1, <2>1, <2>2, <2>3, <2>4, <2>5, <2>6, DirWriters
<1> QED
  BY <1>1

(* An existing path is never overwritten by another upload.                  *)
THEOREM PathsAreNeverAdopted == Spec => NeverAdopted
<1>1. IInv /\ [Next]_vars =>
        [\A s \in Slugs : dir[s] # None /\ dir'[s] # None => dir'[s].of = dir[s].of]_vars
  BY SameUpload
<1> QED
  BY <1>1, Invariance, PTL DEF Spec, NeverAdopted

(* Settings are saved against the row they were resolved against.            *)
THEOREM SavesKeepTheCurrentRow == Spec => SaveKeepsCurrent
<1> DEFINE A == \A j \in Jobs : pc[j] = "saving" /\ row' # row =>
                    LET old == row[at[j]]
                        new == row'[at[j]]
                    IN  /\ old # None /\ new # None /\ new.meta = old.meta
                        /\ req[j].access = "keep" => new.access = old.access
                        /\ req[j].expiry = "keep" => new.expires = old.expires
<1>1. ASSUME IInv, [Next]_vars
      PROVE  A
  <2> SUFFICES ASSUME NEW j \in Jobs, pc[j] = "saving", row' # row
               PROVE  /\ row[at[j]] # None /\ row'[at[j]] # None
                      /\ row'[at[j]].meta = row[at[j]].meta
                      /\ req[j].access = "keep" => row'[at[j]].access = row[at[j]].access
                      /\ req[j].expiry = "keep" => row'[at[j]].expires = row[at[j]].expires
    OBVIOUS
  <2>1. at[j] \in Slugs /\ lock = j /\ row[at[j]] # None /\ held[j] = row[at[j]]
    BY <1>1, WorkingSlug DEF IInv, HolderKnows, Locked
  <2>2. ASSUME NEW k \in Jobs, Commit(k) \/ Record(k)
        PROVE  FALSE
    <3>1. lock = k
      BY <1>1, <2>2 DEF Commit, Record, IInv, MutexHeld, Locked, PublishPlaces,
           ReplacePlaces, Actors
    <3> QED
      BY <2>1, <2>2, <3>1 DEF Commit, Record
  <2>3. ASSUME NEW x \in Actors, DeleteRow(x)
        PROVE  FALSE
    <3>1. lock = x
      BY <1>1, <2>3 DEF DeleteRow, IInv, MutexHeld, Locked, DeletePlaces
    <3> QED
      BY <2>1, <2>3, <3>1 DEF DeleteRow
  <2>4. ~PruneRows
    BY <1>1 DEF PruneRows, IInv, BootAlone, Resting
  <2>5. ASSUME NEW k \in Jobs, Save(k)
        PROVE  k = j
    BY <1>1, <2>1, <2>5 DEF Save, IInv, MutexHeld, Locked, Actors
  <2>6. Save(j)
    BY <1>1, <2>2, <2>3, <2>4, <2>5, RowWriters
  <2>7. row' = Update(j)
    BY <2>6 DEF Save
  <2>8. row'[at[j]] = [Saved(j) EXCEPT !.meta = row[at[j]].meta]
    BY <1>1, <2>1, <2>7 DEF Update, IInv, TypeOK
  <2>9. row[at[j]] \in Rows
    BY <1>1, <2>1 DEF IInv, TypeOK
  <2>10. row'[at[j]] # None
    BY <1>1, <2>1, <2>7, SavedIsRow
  <2> QED
    BY <2>1, <2>8, <2>9, <2>10 DEF Saved, Rows
<1>2. IInv /\ [Next]_vars => [A]_vars
  BY <1>1
<1> QED
  BY <1>2, Invariance, PTL DEF Spec, SaveKeepsCurrent

-----------------------------------------------------------------------------
(***************************************************************************)
(* The store when it may stop at any step but no file or database operation *)
(* fails: what a boot has repaired stays repaired.                          *)
(***************************************************************************)

(* The site of an actor that is about to make row and directory agree.      *)
MidPlaces == {"installing", "committing", "swapping", "erasing"}
Midway(s) == \E x \in Actors : pc[x] \in MidPlaces /\ at[x] = s
Matched(s) == row[s] = None <=> dir[s] = None

(* No job undoes a step, and none leaves a tree under tmp/ when it returns. *)
Tidy(j) ==
    /\ pc[j] \notin {"unparking", "unswapping", "restoring"}
    /\ moved[j] => staging[j] = None
    /\ pc[j] \in {"cleaning", "unstaging"} /\ reserved[j] => moved[j]

InUse(j) ==
    /\ parked[j] # None => pc[j] \in {"swapping", "recording", "discarding"}
    /\ staging[j] # None => /\ req[j].op \in {"publish", "replace"}
                            /\ pc[j] \notin Resting \cup AlreadyMoved

RestInv ==
    /\ \A j \in Jobs : Tidy(j) /\ (phase \notin {"down", "tmp"} => InUse(j))
    /\ phase = "rows" => \A s \in Slugs : row[s] = None => dir[s] = None
    /\ phase \in {"sweep", "up"} => \A s \in Slugs : Matched(s) \/ Midway(s)

OnlyStops == Faults \subseteq {"crash"}

LEMMA TidyStep ==
    ASSUME OnlyStops, IInv, [Next]_vars, NEW j \in Jobs, Tidy(j)
    PROVE  Tidy(j)'
<1> USE DEF disk, memory, world, Goto, CleanUpWith, Return, Release, TryAnother, DeleteEnds
<1>a. /\ pc \in [Actors -> Places] /\ j \in Actors /\ j # Sweeper
      /\ reserved \in [Jobs -> BOOLEAN] /\ moved \in [Jobs -> BOOLEAN]
      /\ staging \in [Jobs -> Trees \cup {None}]
      /\ "fs" \notin Faults /\ "db" \notin Faults
  BY StoreAssumption DEF IInv, TypeOK, Actors, OnlyStops
<1>b. pc[j] \in NotYetMoved => ~moved[j]
  BY DEF IInv, FlagsFollow
<1>c. pc[j] \in AlreadyMoved => moved[j]
  BY DEF IInv, FlagsFollow
<1>d. pc[j] \in {"writing", "inserting", "reserving"} \cup ReplacePlaces => ~reserved[j]
  BY DEF IInv, FlagsFollow
<1>1. CASE Submit(j) \/ Cancel(j) \/ Stage(j) \/ Write(j)
  BY <1>a, <1>b, <1>d, <1>1 DEF Submit, Cancel, Stage, Write, Tidy, NotYetMoved
<1>2. CASE Lock(j)
  <2>1. req[j] \in Requests(j) /\ pc'[j] = FirstStep(req[j].op)
    BY <1>a, <1>2 DEF Lock, IInv, RightHandler
  <2>2. FirstStep(req[j].op) \notin {"unparking", "unswapping", "restoring", "cleaning", "unstaging"}
    BY <2>1, RequestShape DEF FirstStep
  <2> QED
    BY <1>2, <2>1, <2>2 DEF Lock, Tidy
<1>3. CASE Publish(j)
  BY <1>a, <1>c, <1>d, <1>3 DEF Publish, Insert, Reserve, Install, Commit, Tidy, AlreadyMoved
<1>4. CASE Cleanup(j)
  BY <1>a, <1>4 DEF Cleanup, DropReservation, DropStaging, Tidy
<1>5. CASE Replace(j)
  BY <1>a, <1>d, <1>5 DEF Replace, Find, Park, Swap, Unpark, Record, Discard, Unswap, Restore,
       Tidy, ReplacePlaces
<1>6. CASE Settings(j) \/ Archive(j) \/ Delete(j)
  BY <1>a, <1>6 DEF Settings, Check, ProveEntry, Save, Archive, Open, Pack, Delete, Look,
       DeleteRow, RemoveContent, Tidy
<1>7. CASE Stop /\ UNCHANGED <<dir, staging, parked, memory, outcome>>
  BY <1>a, <1>7 DEF Stop, Tidy
<1>8. CASE /\ pc'[j] = pc[j] /\ reserved'[j] = reserved[j] /\ moved'[j] = moved[j]
           /\ staging'[j] \in {staging[j], None}
  BY <1>8 DEF Tidy
<1> QED
  BY <1>1, <1>2, <1>3, <1>4, <1>5, <1>6, <1>7, <1>8, OwnSteps DEF Work

(* Only the boot and a stop change the phase.                               *)
LEMMA Phases ==
    ASSUME [Next]_vars
    PROVE  \/ phase' = phase
           \/ Boot \/ ClearStaging \/ RemoveOrphans \/ PruneRows \/ Serve
           \/ Stop
<1> USE DEF world
<1>1. ASSUME NEW j \in Jobs, Submit(j) \/ Lock(j) \/ Cancel(j) \/ Stage(j) \/ Write(j)
             \/ Publish(j) \/ Cleanup(j)
      PROVE  phase' = phase
  BY <1>1 DEF Submit, Lock, Cancel, Stage, Write, Publish, Cleanup, Insert, Reserve, Install,
       Commit, DropReservation, DropStaging
<1>2. ASSUME NEW j \in Jobs, Replace(j) \/ Settings(j) \/ Archive(j)
      PROVE  phase' = phase
  BY <1>2 DEF Replace, Find, Park, Swap, Unpark, Record, Discard, Unswap, Restore, Settings,
       Archive, Check, ProveEntry, Save, Open, Pack
<1>3. ASSUME NEW x \in Actors, Delete(x)
      PROVE  phase' = phase
  BY <1>3 DEF Delete, Look, DeleteRow, RemoveContent
<1>4. CASE Sweep \/ SweepLock \/ Tick \/ Crash \/ Reconcile \/ BootFails \/ UNCHANGED vars
  BY <1>3, <1>4 DEF Sweep, SweepRead, SweepNext, SweepLock, Tick, Crash, Reconcile, BootFails,
       vars, Actors
<1> QED
  BY <1>1, <1>2, <1>3, <1>4 DEF Next, Work, Actors

LEMMA InUseStep ==
    ASSUME OnlyStops, IInv, [Next]_vars, NEW j \in Jobs, Tidy(j),
           phase \notin {"down", "tmp"} => InUse(j), phase' \notin {"down", "tmp"}
    PROVE  InUse(j)'
<1> USE DEF disk, memory, world, Goto, CleanUpWith, Return, Release, TryAnother, DeleteEnds
<1>a. /\ pc \in [Actors -> Places] /\ j \in Actors /\ j # Sweeper
      /\ staging \in [Jobs -> Trees \cup {None}] /\ parked \in [Jobs -> Trees \cup {None}]
      /\ moved \in [Jobs -> BOOLEAN]
      /\ "fs" \notin Faults /\ "db" \notin Faults
  BY StoreAssumption DEF IInv, TypeOK, Actors, OnlyStops
<1>1. CASE phase \in {"down", "tmp"}
  <2>1. ClearStaging /\ phase' # phase
    BY <1>1, Phases DEF Boot, RemoveOrphans, PruneRows, Serve, Stop
  <2> QED
    BY <1>a, <2>1 DEF ClearStaging, InUse
<1>2. CASE InUse(j)
  <2>1. CASE Submit(j)
    BY <1>a, <1>2, <2>1 DEF Submit, InUse, Resting
  <2>2. CASE Lock(j)
    <3>1. req[j] \in Requests(j) /\ pc'[j] = FirstStep(req[j].op) /\ parked[j] = None
      BY <1>a, <1>2, <2>2 DEF Lock, IInv, RightHandler, InUse
    <3>2. FirstStep(req[j].op) \notin Resting \cup AlreadyMoved
      BY <3>1, RequestShape DEF FirstStep, Resting, AlreadyMoved
    <3> QED
      BY <1>2, <2>2, <3>1, <3>2 DEF Lock, InUse
  <2>3. CASE Cancel(j) \/ Archive(j) \/ Settings(j) \/ Delete(j)
    <3>1. req[j].op \in {"archive", "update", "delete"}
      BY <2>3 DEF Cancel, Archive, Open, Pack, Settings, Check, ProveEntry, Save, Delete, Look,
           DeleteRow, RemoveContent, IInv, RightHandler, Settling, DeletePlaces
    <3>2. staging[j] = None /\ parked[j] = None /\ UNCHANGED <<staging, parked>>
      BY <1>2, <2>3, <3>1 DEF InUse, Cancel, Archive, Open, Pack, Settings, Check, ProveEntry,
           Save, Delete, Look, DeleteRow, RemoveContent
    <3> QED
      BY <3>2 DEF InUse
  <2>4. CASE Stage(j) \/ Write(j)
    <3>1. req[j].op \in {"publish", "replace"}
      BY <2>4 DEF Stage, Write, IInv, RightHandler, Uploading
    <3> QED
      BY <1>a, <1>2, <2>4, <3>1 DEF Stage, Write, InUse, Resting, AlreadyMoved
  <2>5. CASE Publish(j)
    BY <1>a, <1>2, <2>5 DEF Publish, Insert, Reserve, Install, Commit, InUse, Resting, AlreadyMoved
  <2>6. CASE Cleanup(j)
    BY <1>a, <1>2, <2>6 DEF Cleanup, DropReservation, DropStaging, InUse, Tidy, Resting, AlreadyMoved
  <2>7. CASE Replace(j)
    <3>1. req[j].op = "replace"
      BY <2>7 DEF Replace, Find, Park, Swap, Unpark, Record, Discard, Unswap, Restore, IInv,
           RightHandler, ReplacePlaces
    <3> QED
      BY <1>a, <1>2, <2>7, <3>1 DEF Replace, Find, Park, Swap, Unpark, Record, Discard, Unswap,
           Restore, InUse, Tidy, Resting, AlreadyMoved
  <2>8. CASE Stop
    BY <2>8 DEF Stop
  <2>9. CASE /\ pc'[j] = pc[j] /\ req'[j] = req[j]
             /\ staging'[j] \in {staging[j], None} /\ parked'[j] \in {parked[j], None}
    BY <1>2, <2>9 DEF InUse
  <2> QED
    BY <2>1, <2>2, <2>3, <2>4, <2>5, <2>6, <2>7, <2>8, <2>9, OwnSteps DEF Work
<1> QED
  BY <1>1, <1>2
(* The steps that change a row or a directory, or move an actor off a place *)
(* in MidPlaces, when nothing fails.                                        *)
LEMMA Disturbances ==
    ASSUME OnlyStops, IInv, RestInv, [Next]_vars
    PROVE  \/ /\ row' = row /\ dir' = dir
              /\ \A x \in Actors : pc[x] \in MidPlaces => pc'[x] = pc[x] /\ at'[x] = at[x]
           \/ Stop \/ RemoveOrphans \/ PruneRows
           \/ \E j \in Jobs : Reserve(j) \/ Install(j) \/ Commit(j)
           \/ \E j \in Jobs : Park(j) \/ Swap(j) \/ Record(j) \/ Save(j)
           \/ \E x \in Actors : DeleteRow(x) \/ RemoveContent(x)
<1> DEFINE Calm == /\ row' = row /\ dir' = dir
                   /\ \A x \in Actors : pc[x] \in MidPlaces => pc'[x] = pc[x] /\ at'[x] = at[x]
<1> USE DEF disk, memory, world, Goto, CleanUpWith, Return, Release, TryAnother, DeleteEnds,
            MidPlaces
<1>a. /\ pc \in [Actors -> Places] /\ at \in [Actors -> Slugs \cup {None}]
      /\ "fs" \notin Faults /\ "db" \notin Faults
  BY DEF IInv, TypeOK, OnlyStops
<1>1. ASSUME UNCHANGED vars PROVE Calm
  BY <1>1 DEF vars
<1>2. ASSUME NEW j \in Jobs, Submit(j) \/ Lock(j) \/ Cancel(j) \/ Stage(j) \/ Write(j)
      PROVE  Calm
  BY <1>a, <1>2 DEF Submit, Lock, Cancel, Stage, Write
<1>3. ASSUME NEW j \in Jobs, Insert(j) \/ DropReservation(j) \/ DropStaging(j)
      PROVE  Calm
  <2>1. DropReservation(j) => dir' = dir
    BY <1>a DEF DropReservation, RestInv, Tidy
  <2> QED
    BY <1>a, <1>3, <2>1 DEF Insert, DropReservation, DropStaging
<1>4. ASSUME NEW j \in Jobs, Find(j) \/ Unpark(j) \/ Discard(j) \/ Unswap(j) \/ Restore(j)
      PROVE  Calm
  BY <1>a, <1>4 DEF Find, Unpark, Discard, Unswap, Restore, RestInv, Tidy
<1>5. ASSUME NEW j \in Jobs, Check(j) \/ ProveEntry(j) \/ Archive(j)
      PROVE  Calm
  BY <1>a, <1>5 DEF Archive, Check, ProveEntry, Open, Pack
<1>6. ASSUME NEW x \in Actors, Look(x)
      PROVE  Calm
  BY <1>a, <1>6 DEF Look
<1>7. ASSUME SweepRead \/ SweepNext \/ SweepLock PROVE Calm
  BY <1>a, <1>7, StoreAssumption DEF SweepRead, SweepNext, SweepLock
<1>8. ASSUME Tick \/ Boot \/ ClearStaging \/ Serve PROVE Calm
  BY <1>8 DEF Tick, Boot, ClearStaging, Serve
<1>9. ASSUME Crash \/ BootFails PROVE Stop
  BY <1>9 DEF Crash, BootFails
<1>10. ASSUME NEW j \in Jobs, Work(j)
       PROVE  \/ Calm
              \/ Reserve(j) \/ Install(j) \/ Commit(j)
              \/ Park(j) \/ Swap(j) \/ Record(j) \/ Save(j)
              \/ DeleteRow(j) \/ RemoveContent(j)
  <2> HIDE DEF Calm
  <2>1. j \in Actors
    BY DEF Actors
  <2> QED
    BY <1>2, <1>3, <1>4, <1>5, <1>6, <1>10, <2>1
       DEF Work, Publish, Cleanup, Replace, Settings, Delete
<1>11. ASSUME Sweep
       PROVE  Calm \/ DeleteRow(Sweeper) \/ RemoveContent(Sweeper)
  <2> HIDE DEF Calm
  <2>1. Sweeper \in Actors
    BY DEF Actors
  <2> QED
    BY <1>6, <1>7, <1>11, <2>1 DEF Sweep, Delete
<1> HIDE DEF Calm
<1>12. \/ Calm \/ Stop \/ RemoveOrphans \/ PruneRows
       \/ \E j \in Jobs : Work(j)
       \/ Sweep
  BY <1>1, <1>2, <1>7, <1>8, <1>9 DEF Next, Reconcile
<1>13. Sweeper \in Actors /\ \A j \in Jobs : j \in Actors
  BY DEF Actors
<1> QED
  BY <1>10, <1>11, <1>12, <1>13 DEF Calm

(* A mutation leaves its own site matched or midway, and no other midway.   *)
LEMMA MutationMatches ==
    ASSUME IInv, NEW x \in Actors, lock = x, at[x] \in Slugs,
           \A s \in Slugs : Matched(s) \/ Midway(s),
           \A s \in Slugs : s # at[x] => row'[s] = row[s] /\ dir'[s] = dir[s],
           \/ row'[at[x]] = None <=> dir'[at[x]] = None
           \/ at'[x] = at[x] /\ pc'[x] \in MidPlaces
    PROVE  \A s \in Slugs : Matched(s)' \/ Midway(s)'
<1> SUFFICES ASSUME NEW s \in Slugs PROVE Matched(s)' \/ Midway(s)'
  OBVIOUS
<1>1. CASE s = at[x]
  BY <1>1 DEF Matched, Midway
<1>2. CASE s # at[x]
  <2>1. ~Midway(s)
    <3> SUFFICES ASSUME NEW y \in Actors, pc[y] \in MidPlaces, at[y] = s PROVE FALSE
      BY DEF Midway
    <3>1. lock = y
      BY DEF IInv, MutexHeld, MidPlaces, Locked, PublishPlaces, ReplacePlaces, DeletePlaces
    <3> QED
      BY <1>2, <3>1
  <2> QED
    BY <1>2, <2>1 DEF Matched
<1> QED
  BY <1>1, <1>2

LEMMA MatchedStep ==
    ASSUME OnlyStops, IInv, RestInv, [Next]_vars, phase \in {"sweep", "up"}, ~Stop
    PROVE  \A s \in Slugs : Matched(s)' \/ Midway(s)'
<1> DEFINE Goal == \A s \in Slugs : Matched(s)' \/ Midway(s)'
<1> USE DEF disk, memory, world, Goto, CleanUpWith, Return, Release, DeleteEnds
<1>0. \A s \in Slugs : Matched(s) \/ Midway(s)
  BY DEF RestInv
<1>a. /\ pc \in [Actors -> Places] /\ at \in [Actors -> Slugs \cup {None}]
      /\ row \in [Slugs -> Rows \cup {None}] /\ dir \in [Slugs -> Trees \cup {None}]
      /\ "fs" \notin Faults /\ "db" \notin Faults /\ \A j \in Jobs : j \in Actors
  BY DEF IInv, TypeOK, OnlyStops, Actors
<1>1. ASSUME row' = row, dir' = dir,
             \A x \in Actors : pc[x] \in MidPlaces => pc'[x] = pc[x] /\ at'[x] = at[x]
      PROVE  Goal
  BY <1>0, <1>1 DEF Matched, Midway
<1>2. ~RemoveOrphans /\ ~PruneRows
  BY DEF RemoveOrphans, PruneRows
<1>3. ASSUME NEW j \in Jobs, Reserve(j)
      PROVE  Goal
  <2>1. CASE dir[at[j]] = None
    <3>1. lock = j /\ at[j] \in Slugs
      BY <1>3, WorkingSlug DEF Reserve, Locked, PublishPlaces
    <3>2. \A s \in Slugs : s # at[j] => row'[s] = row[s] /\ dir'[s] = dir[s]
      BY <1>a, <1>3 DEF Reserve
    <3>3. at'[j] = at[j] /\ pc'[j] \in MidPlaces
      BY <1>a, <1>3, <2>1 DEF Reserve, MidPlaces
    <3> QED
      BY <1>0, <1>a, <3>1, <3>2, <3>3, MutationMatches
  <2>2. CASE dir[at[j]] # None
    <3>1. row' = row /\ dir' = dir /\ at' = at /\ pc[j] = "reserving"
      BY <1>3, <2>2 DEF Reserve
    <3>2. \A x \in Actors : x # j => pc'[x] = pc[x]
      BY <1>a, <1>3 DEF Reserve, TryAnother
    <3> QED
      BY <1>1, <3>1, <3>2 DEF MidPlaces
  <2> QED
    BY <2>1, <2>2
<1>4. ASSUME NEW j \in Jobs, Install(j) \/ Commit(j)
      PROVE  Goal
  <2>1. /\ lock = j /\ at[j] \in Slugs
    BY <1>4, WorkingSlug DEF Install, Commit, Locked, PublishPlaces
  <2>2. \A s \in Slugs : s # at[j] => row'[s] = row[s] /\ dir'[s] = dir[s]
    BY <1>a, <1>4 DEF Install, Commit
  <2>3. Install(j) => at'[j] = at[j] /\ pc'[j] \in MidPlaces
    BY <1>a DEF Install, MidPlaces
  <2>4. ASSUME Commit(j) PROVE row'[at[j]] # None /\ dir'[at[j]] # None
    <3>0. [of |-> j, is |-> "whole"] # None
      BY NewTree DEF Contents
    <3>1. held[j] \in Rows /\ dir[at[j]] = [of |-> j, is |-> "whole"]
      BY <2>4 DEF Commit, IInv, HolderKnows, PublishPlaces
    <3>2. row'[at[j]] = held[j] /\ dir' = dir /\ at' = at
      BY <1>a, <2>1, <2>4 DEF Commit
    <3> QED
      BY <3>0, <3>1, <3>2, StoreAssumption
  <2> QED
    BY <1>0, <1>4, <1>a, <2>1, <2>2, <2>3, <2>4, MutationMatches
<1>5. ASSUME NEW j \in Jobs, Park(j)
      PROVE  Goal
  <2>1. lock = j /\ at[j] \in Slugs
    BY <1>5, WorkingSlug DEF Park, Locked, ReplacePlaces
  <2>2. CASE dir[at[j]] # None
    <3>1. \A s \in Slugs : s # at[j] => row'[s] = row[s] /\ dir'[s] = dir[s]
      BY <1>a, <1>5 DEF Park
    <3>2. at'[j] = at[j] /\ pc'[j] \in MidPlaces
      BY <1>a, <1>5, <2>2 DEF Park, MidPlaces
    <3> QED
      BY <1>0, <1>a, <2>1, <3>1, <3>2, MutationMatches
  <2>3. CASE dir[at[j]] = None
    <3>1. row' = row /\ dir' = dir /\ at' = at /\ pc[j] = "parking"
      BY <1>5, <2>3 DEF Park
    <3>2. \A x \in Actors : x # j => pc'[x] = pc[x]
      BY <1>a, <1>5 DEF Park
    <3> QED
      BY <1>1, <3>1, <3>2 DEF MidPlaces
  <2> QED
    BY <2>2, <2>3
<1>6. ASSUME NEW j \in Jobs, Swap(j)
      PROVE  Goal
  <2>1. lock = j /\ at[j] \in Slugs
    BY <1>6, WorkingSlug DEF Swap, Locked, ReplacePlaces
  <2>2. \A s \in Slugs : s # at[j] => row'[s] = row[s] /\ dir'[s] = dir[s]
    BY <1>a, <1>6 DEF Swap
  <2>0. [of |-> j, is |-> "whole"] # None
    BY NewTree DEF Contents
  <2>3. /\ row[at[j]] # None /\ staging[j] # None
    BY <1>6, <2>0 DEF Swap, IInv, HolderKnows, FlagsFollow, Complete, ReplacePlaces
  <2>4. row' = row /\ dir'[at[j]] = staging[j] /\ at' = at
    BY <1>a, <1>6, <2>1 DEF Swap
  <2>5. row'[at[j]] # None /\ dir'[at[j]] # None
    BY <2>3, <2>4
  <2> QED
    BY <1>0, <1>a, <2>1, <2>2, <2>5, MutationMatches
<1>7. ASSUME NEW j \in Jobs, Record(j) \/ Save(j)
      PROVE  Goal
  <2>1. \A s \in Slugs : row'[s] # None <=> row[s] # None
    BY <1>7, RecordedIsRow, SavedIsRow DEF Record, Save
  <2>2. dir' = dir /\ at' = at
    BY <1>7 DEF Record, Save
  <2>3. \A x \in Actors : pc[x] \in MidPlaces => pc'[x] = pc[x]
    BY <1>a, <1>7 DEF Record, Save, MidPlaces
  <2> QED
    BY <1>0, <2>1, <2>2, <2>3 DEF Matched, Midway
<1>8. ASSUME NEW x \in Actors, DeleteRow(x) \/ RemoveContent(x)
      PROVE  Goal
  <2>1. lock = x /\ at[x] \in Slugs
    BY <1>8, DeletingSlug DEF DeleteRow, RemoveContent, DeletePlaces
  <2>2. \A s \in Slugs : s # at[x] => row'[s] = row[s] /\ dir'[s] = dir[s]
    BY <1>a, <1>8 DEF DeleteRow, RemoveContent
  <2>3. DeleteRow(x) => at'[x] = at[x] /\ pc'[x] \in MidPlaces
    BY <1>a DEF DeleteRow, MidPlaces
  <2>4. ASSUME RemoveContent(x)
        PROVE  \/ row'[at[x]] = None /\ dir'[at[x]] = None
               \/ at'[x] = at[x] /\ pc'[x] \in MidPlaces
    <3>1. row[at[x]] = None /\ row' = row /\ at' = at /\ pc[x] = "erasing"
      BY <2>4 DEF RemoveContent, IInv, HolderKnows
    <3>2. dir'[at[x]] = None \/ pc' = pc
      BY <1>a, <2>1, <2>4 DEF RemoveContent
    <3> QED
      BY <3>1, <3>2 DEF MidPlaces
  <2> QED
    BY <1>0, <1>8, <1>a, <2>1, <2>2, <2>3, <2>4, MutationMatches
<1> QED
  BY <1>1, <1>2, <1>3, <1>4, <1>5, <1>6, <1>7, <1>8, Disturbances

LEMMA RestStep ==
    ASSUME OnlyStops, IInv, RestInv, [Next]_vars
    PROVE  RestInv'
<1>1. \A j \in Jobs : Tidy(j)' /\ (phase' \notin {"down", "tmp"} => InUse(j)')
  BY TidyStep, InUseStep DEF RestInv
<1>a. /\ row \in [Slugs -> Rows \cup {None}] /\ "fs" \notin Faults /\ "db" \notin Faults
  BY DEF IInv, TypeOK, OnlyStops
<1>b. phase # "up" => \A x \in Actors : pc[x] \in {"idle", "done", "lost"} \/ x = Sweeper
  BY DEF IInv, BootAlone, Resting, Actors
<1>c. phase = "rows" => pc[Sweeper] = "idle"
  BY DEF IInv, BootAlone
<1>2. ASSUME phase' = "rows", NEW s \in Slugs, row'[s] = None
      PROVE  dir'[s] = None
  <2>1. CASE phase # "rows"
    <3>1. RemoveOrphans
      BY <1>2, <2>1, Phases DEF Boot, ClearStaging, PruneRows, Serve, Stop
    <3> QED
      BY <1>2, <1>a, <2>1, <3>1 DEF RemoveOrphans
  <2>2. CASE phase = "rows"
    <3>1. row[s] = None => dir[s] = None
      BY <2>2 DEF RestInv
    <3>2. CASE row' = row /\ dir' = dir
      BY <1>2, <3>1, <3>2
    <3>3. CASE PruneRows
      <4>1. PICK t \in Slugs : row[t] # None /\ dir[t] = None /\ row' = [row EXCEPT ![t] = None]
        BY <1>2, <1>a, <2>2, <3>3 DEF PruneRows
      <4>2. dir' = dir
        BY <3>3 DEF PruneRows
      <4> QED
        BY <1>2, <1>a, <3>1, <4>1, <4>2
    <3>4. ~Stop /\ ~RemoveOrphans
      BY <1>2, <2>2 DEF Stop, RemoveOrphans
    <3>5. ASSUME NEW j \in Jobs, Reserve(j) \/ Install(j) \/ Commit(j) \/ Park(j) \/ Swap(j)
                                 \/ Record(j) \/ Save(j)
          PROVE  FALSE
      BY <1>b, <2>2, <3>5, StoreAssumption
         DEF Reserve, Install, Commit, Park, Swap, Record, Save, Actors
    <3>6. ASSUME NEW x \in Actors, DeleteRow(x) \/ RemoveContent(x)
          PROVE  FALSE
      BY <1>b, <1>c, <2>2, <3>6 DEF DeleteRow, RemoveContent
    <3> QED
      BY <3>2, <3>3, <3>4, <3>5, <3>6, Disturbances
  <2> QED
    BY <2>1, <2>2
<1>3. ASSUME phase' \in {"sweep", "up"}
      PROVE  \A s \in Slugs : Matched(s)' \/ Midway(s)'
  <2>1. CASE phase \in {"sweep", "up"}
    BY <1>3, <2>1, MatchedStep DEF Stop
  <2>2. CASE phase \notin {"sweep", "up"}
    <3>1. PruneRows /\ phase' # phase
      BY <1>3, <2>2, Phases DEF Boot, ClearStaging, RemoveOrphans, Serve, Stop
    <3>2. phase = "rows" /\ row' = row /\ dir' = dir /\ \A s \in Slugs : row[s] # None => dir[s] # None
      BY <1>3, <1>a, <3>1 DEF PruneRows
    <3> QED
      BY <3>2 DEF RestInv, Matched
  <2> QED
    BY <2>1, <2>2
<1> QED
  BY <1>1, <1>2, <1>3 DEF RestInv

LEMMA RestInvariance == ASSUME OnlyStops PROVE Spec => []RestInv
<1>1. Init => RestInv
  BY DEF Init, RestInv, Tidy, InUse, Matched, Actors
<1>2. IInv /\ RestInv /\ [Next]_vars => RestInv'
  BY RestStep
<1> QED
  BY <1>1, <1>2, Invariance, PTL DEF Spec

(* A store that may stop anywhere but whose operations do not fail is clean *)
(* whenever it serves and no mutation is in progress: what any number of    *)
(* stops left behind has been repaired by the boots (reconcile, sites.rs).  *)
THEOREM RestsAreClean == ASSUME Faults \subseteq {"crash"} PROVE Spec => []RestIsClean
<1>1. OnlyStops
  BY DEF OnlyStops
<1>2. IInv /\ RestInv => RestIsClean
  <2> SUFFICES ASSUME IInv, RestInv, lock = None, phase = "up" PROVE RestIsClean
    BY DEF RestIsClean, Serving
  <2>1. \A x \in Actors : pc[x] \notin Locked
    BY StoreAssumption DEF IInv, MutexHeld
  <2>2. \A s \in Slugs : ~Midway(s)
    BY <2>1 DEF Midway, MidPlaces, Locked, PublishPlaces, ReplacePlaces, DeletePlaces
  <2>3. \A j \in Jobs : parked[j] = None
    BY <2>1 DEF RestInv, InUse, Locked, ReplacePlaces, Actors
  <2> QED
    BY <2>2, <2>3 DEF RestIsClean, RestInv, InUse, Matched, Resting
<1>3. Spec => []RestInv
  BY <1>1, RestInvariance
<1> QED
  BY <1>2, <1>3, Invariance, PTL
=============================================================================
