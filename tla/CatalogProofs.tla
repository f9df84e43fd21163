---------------------------- MODULE CatalogProofs ---------------------------
(***************************************************************************)
(* SiteStore implements SiteCatalog: the row variable is mapped to itself,  *)
(* a step of the catalog is the one step of a job that commits, records,    *)
(* saves or deletes its row, and every other step of the store stutters.    *)
(* And a row that does not describe the content beside it has a replacement *)
(* that answers for it (DivergencesAreReported).                            *)
(***************************************************************************)
EXTENDS SiteStoreProofs

(* The catalog's rows are the store's.                                      *)
LEMMA SameRows == Catalog!Rows = Rows
  BY DEF Catalog!Rows, Rows

(* A publication's request names one of the files it uploads.               *)
LEMMA OwnEntry ==
    ASSUME NEW j \in Jobs, NEW r \in Requests(j), r.op \in {"publish", "replace"}
    PROVE  r.entry \in FilesOf[j]
  BY DEF Requests, Publications, Replacements, Updates, Others

(* The row a publication holds names an entry of its own upload.            *)
HeldEntry == \A j \in Jobs : pc[j] \in PublishPlaces => held[j].entry \in FilesOf[j]

(* HeldEntry joins the inductive invariant: the row is built from the       *)
(* request when the job takes the mutex and is not touched afterwards.      *)
LEMMA HeldEntryInv == IInv /\ HeldEntry /\ [Next]_vars => HeldEntry'
<1> SUFFICES ASSUME IInv, HeldEntry, [Next]_vars, NEW j \in Jobs, pc'[j] \in PublishPlaces
             PROVE  held'[j].entry \in FilesOf[j]
  BY DEF HeldEntry
<1> DEFINE Kept == pc[j] \in PublishPlaces /\ held'[j] = held[j]
<1>0. Kept => held'[j].entry \in FilesOf[j]
  BY DEF HeldEntry
<1> USE DEF disk, memory, world, Goto, CleanUpWith, Return, TryAnother, DeleteEnds
<1>a. pc \in [Actors -> Places] /\ held \in [Jobs -> Rows \cup {None}] /\ j \in Actors
  BY DEF IInv, TypeOK, Actors
<1>1. CASE UNCHANGED vars
  BY <1>0, <1>1 DEF vars
<1>2. ASSUME NEW k \in Jobs, Lock(k)
      PROVE  held'[j].entry \in FilesOf[j]
  <2>1. CASE k = j
    <3>1. req[j] \in Requests(j)
      BY <1>2, <2>1 DEF Lock, IInv, RightHandler
    <3>2. FirstStep(req[j].op) \in PublishPlaces
      BY <1>a, <1>2, <2>1 DEF Lock
    <3>3. req[j].op = "publish"
      BY <3>1, <3>2, RequestShape DEF FirstStep, PublishPlaces
    <3>4. held'[j] = NewRow(j)
      BY <1>a, <1>2, <2>1, <3>3 DEF Lock
    <3> QED
      BY <3>1, <3>3, <3>4, OwnEntry DEF NewRow
  <2>2. CASE k # j
    <3>1. pc'[j] = pc[j] /\ held'[j] = held[j]
      BY <1>a, <1>2, <2>2 DEF Lock
    <3> QED
      BY <1>0, <3>1
  <2> QED
    BY <2>1, <2>2
<1>3. ASSUME NEW k \in Jobs, Submit(k) \/ Cancel(k) \/ Stage(k) \/ Write(k)
      PROVE  Kept
  BY <1>a, <1>3 DEF Submit, Cancel, Stage, Write, PublishPlaces, Actors
<1>4. ASSUME NEW k \in Jobs, Publish(k) \/ Cleanup(k)
      PROVE  Kept
  BY <1>a, <1>4 DEF Publish, Cleanup, Insert, Reserve, Install, Commit, DropReservation,
                    DropStaging, PublishPlaces, Actors
<1>5. ASSUME NEW k \in Jobs, Replace(k)
      PROVE  Kept
  BY <1>a, <1>5 DEF Replace, Find, Park, Swap, Unpark, Record, Discard, Unswap, Restore,
                    PublishPlaces, Actors
<1>6. ASSUME NEW k \in Jobs, Settings(k) \/ Archive(k)
      PROVE  Kept
  BY <1>a, <1>6 DEF Settings, Archive, Check, ProveEntry, Save, Open, Pack, PublishPlaces, Actors
<1>7. ASSUME NEW x \in Actors, Delete(x)
      PROVE  Kept
  BY <1>a, <1>7 DEF Delete, Look, DeleteRow, RemoveContent, PublishPlaces
<1>8. CASE SweepRead \/ SweepNext \/ SweepLock
  <2>1. Kept
    BY <1>a, <1>8, StoreAssumption DEF SweepRead, SweepNext, SweepLock, PublishPlaces
  <2> QED
    BY <1>0, <2>1
<1>9. CASE Tick \/ Reconcile
  <2>1. CASE Tick \/ Boot \/ ClearStaging \/ RemoveOrphans \/ Serve
    BY <1>0, <2>1 DEF Tick, Boot, ClearStaging, RemoveOrphans, Serve
  <2>2. CASE PruneRows
    BY <1>0, <1>a, <2>2 DEF PruneRows, Stop, PublishPlaces
  <2> QED
    BY <1>9, <2>1, <2>2 DEF Reconcile
<1>10. CASE Crash \/ BootFails
  BY <1>0, <1>a, <1>10 DEF Crash, BootFails, Stop, PublishPlaces
<1> QED
  BY <1>0, <1>1, <1>2, <1>3, <1>4, <1>5, <1>6, <1>7, <1>8, <1>9, <1>10
     DEF Next, Work, Sweep, Actors

(* One step of the store is one step of the catalog, or none.               *)
LEMMA CatalogStep ==
    ASSUME IInv, HeldEntry, [Next]_vars
    PROVE  [Catalog!Next]_row
<1> SUFFICES ASSUME row' # row
             PROVE  Catalog!Next
  OBVIOUS
<1> USE SameRows, StoreAssumption DEF TypeOK
<1>1. ASSUME NEW j \in Jobs, Commit(j)
      PROVE  Catalog!Next
  <2>1. /\ at[j] \in Slugs /\ row[at[j]] = None
        /\ held[j] \in Rows /\ held[j].meta = j /\ held[j].entry \in FilesOf[j]
    BY <1>1 DEF Commit, IInv, HolderKnows, RightHandler, PublishPlaces, HeldEntry
  <2>2. row' = [row EXCEPT ![at[j]] = held[j]]
    BY <1>1 DEF Commit
  <2>3. row'[at[j]] = held[j]
    BY <2>1, <2>2 DEF IInv
  <2>4. Catalog!Appears(row[at[j]], row'[at[j]])
    BY <2>1, <2>3 DEF Catalog!Appears
  <2> QED
    BY <2>1, <2>2, <2>3, <2>4 DEF Catalog!Next
<1>2. ASSUME NEW j \in Jobs, Record(j)
      PROVE  Catalog!Next
  <2>1. at[j] \in Slugs
    BY <1>2, WorkingSlug DEF Record, Locked, ReplacePlaces
  <2>2. row[at[j]] \in Rows /\ row[at[j]] # None
    <3>1. row[at[j]] # None
      BY <1>2 DEF Record, IInv, HolderKnows, ReplacePlaces
    <3> QED
      BY <2>1, <3>1 DEF IInv
  <2>3. req[j] \in Requests(j) /\ req[j].op = "replace"
    BY <1>2 DEF Record, IInv, RightHandler, ReplacePlaces
  <2>4. req[j].entry \in FilesOf[j] /\ req[j].entry \in Entries
    BY <2>3, OwnEntry, RequestShape
  <2>5. row' = Recorded(j)
    BY <1>2 DEF Record
  <2> DEFINE new == [[row[at[j]] EXCEPT !.meta = j] EXCEPT !.entry = req[j].entry]
  <2>6. row' = [row EXCEPT ![at[j]] = new]
    BY <2>1, <2>5 DEF Recorded, IInv
  <2>7. /\ new \in Rows /\ new.meta = j /\ new.entry = req[j].entry
        /\ new.access = row[at[j]].access /\ new.expires = row[at[j]].expires
    BY <2>2, <2>4 DEF Rows, Contents
  <2>8. row'[at[j]] = new
    BY <2>1, <2>6 DEF IInv
  <2>9. Catalog!Renewed(row[at[j]], row'[at[j]])
    BY <2>2, <2>4, <2>7, <2>8 DEF Catalog!Renewed
  <2> QED
    BY <2>1, <2>6, <2>8, <2>9 DEF Catalog!Next
<1>3. ASSUME NEW j \in Jobs, Save(j)
      PROVE  Catalog!Next
  <2>1. at[j] \in Slugs
    BY <1>3, WorkingSlug DEF Save, Locked
  <2>2. row[at[j]] # None
    BY <1>3 DEF Save, IInv, HolderKnows
  <2>3. row' = Update(j)
    BY <1>3 DEF Save
  <2> DEFINE new == [Saved(j) EXCEPT !.meta = row[at[j]].meta]
  <2>4. row' = [row EXCEPT ![at[j]] = new]
    BY <2>3 DEF Update
  <2>5. row'[at[j]] = new
    BY <2>1, <2>4 DEF IInv
  <2>6. new \in Rows
    <3>1. /\ row' \in [Slugs -> Rows \cup {None}]
          /\ row'[at[j]] # None
      BY <1>3, <2>1, <2>2, <2>3, SavedIsRow DEF Save
    <3> QED
      BY <2>1, <2>5, <3>1
  <2>7. held[j] \in Rows
    <3>1. held[j] = row[at[j]]
      BY <1>3 DEF Save, IInv, HolderKnows
    <3> QED
      BY <2>1, <2>2, <3>1 DEF IInv
  <2>8. new.meta = row[at[j]].meta
    BY <2>7 DEF Saved, Rows
  <2>9. Catalog!Changed(row[at[j]], row'[at[j]])
    BY <2>2, <2>5, <2>6, <2>8 DEF Catalog!Changed
  <2> QED
    BY <2>1, <2>4, <2>5, <2>9 DEF Catalog!Next
<1>4. ASSUME NEW s \in Slugs, row' = [row EXCEPT ![s] = None]
      PROVE  Catalog!Next
  <2>1. row'[s] = None /\ row[s] # None
    BY <1>4 DEF IInv
  <2>2. Catalog!Vanishes(row[s], row'[s])
    BY <2>1 DEF Catalog!Vanishes
  <2> QED
    BY <1>4, <2>1, <2>2 DEF Catalog!Next
<1>5. ASSUME NEW x \in Actors, DeleteRow(x)
      PROVE  Catalog!Next
  <2>1. at[x] \in Slugs
    BY <1>5, DeletingSlug DEF DeleteRow, DeletePlaces
  <2> QED
    BY <1>4, <1>5, <2>1 DEF DeleteRow
<1>6. CASE PruneRows
  BY <1>4, <1>6 DEF PruneRows
<1> QED
  BY <1>1, <1>2, <1>3, <1>5, <1>6, RowWriters

(* SiteStore implements SiteCatalog for any slugs, jobs, files and faults.  *)
THEOREM CatalogImplemented == Spec => ImplementsCatalog
<1>1. Init => Catalog!Init
  <2>1. Init => row \in [Slugs -> Rows \cup {None}]
    BY InitInv DEF IInv, TypeOK
  <2> QED
    BY <2>1, SameRows DEF Catalog!Init
<1>2. Init => HeldEntry
  BY DEF Init, HeldEntry, PublishPlaces, Actors
<1>3. IInv /\ HeldEntry /\ [Next]_vars => [Catalog!Next]_row
  BY CatalogStep
<1> QED
  BY <1>1, <1>2, <1>3, Invariance, HeldEntryInv, PTL DEF Spec, ImplementsCatalog, Catalog!Spec
-----------------------------------------------------------------------------
(***************************************************************************)
(* Rows that do not describe their directory.                               *)
(***************************************************************************)

(* Replacement j answers for site s: it was lost, has told its caller of an *)
(* error, or holds the mutex between its first rename and one of these.     *)
AnswersFor(j, s) ==
    /\ req[j] # None /\ req[j].op = "replace" /\ at[j] = s
    /\ \/ pc[j] = "lost"
       \/ pc[j] = "done" /\ outcome[j] = "error"
       \/ /\ lock = j
          /\ \/ pc[j] \in {"swapping", "recording", "unparking", "unswapping", "restoring"}
             \/ pc[j] \in {"cleaning", "unstaging"} /\ outcome[j] = "error"

DescribedInv ==
    /\ HeldEntry
    /\ \A s \in Slugs : row[s] # None =>
           Describes(row[s], dir[s]) \/ \E j \in Jobs : AnswersFor(j, s)
    /\ \A j \in Jobs : pc[j] = "saving" =>
           dir[at[j]] # None /\ req[j].entry \in FilesOf[dir[at[j]].of]

(* A row with the metadata and an entry of a whole tree describes it.       *)
LEMMA WholeTree ==
    ASSUME NEW c \in Contents, NEW r, r.meta = c, r.entry \in FilesOf[c]
    PROVE  Describes(r, [of |-> c, is |-> "whole"])
<1>1. [of |-> c, is |-> "whole"] \in Trees
  BY DEF Trees
<1>2. [of |-> c, is |-> "whole"] # None
  BY <1>1, StoreAssumption
<1> QED
  BY <1>2 DEF Describes

(* It goes on answering until it has recorded its content.                  *)
LEMMA GoesOnAnswering ==
    ASSUME IInv, [Next]_vars, NEW j \in Jobs, NEW s \in Slugs, AnswersFor(j, s)
    PROVE  AnswersFor(j, s)' \/ (Record(j) /\ row' = Recorded(j))
<1> USE DEF disk, memory, world, Goto, CleanUpWith, Return, Release, TryAnother, DeleteEnds
<1>a. /\ pc \in [Actors -> Places] /\ at \in [Actors -> Slugs \cup {None}]
      /\ outcome \in [Jobs -> Outcomes] /\ j \in Actors /\ j # None /\ j # Sweeper
  BY StoreAssumption DEF IInv, TypeOK, Actors
<1>1. CASE Submit(j) \/ Lock(j) \/ Cancel(j) \/ Stage(j) \/ Write(j) \/ Publish(j)
           \/ Settings(j) \/ Archive(j) \/ Delete(j)
  BY <1>1 DEF AnswersFor, Submit, Lock, Cancel, Stage, Write, Publish, Insert, Reserve, Install,
       Commit, Settings, Check, ProveEntry, Save, Archive, Open, Pack, Delete, Look, DeleteRow,
       RemoveContent
<1>2. CASE Cleanup(j)
  BY <1>a, <1>2 DEF AnswersFor, Cleanup, DropReservation, DropStaging
<1>3. CASE Replace(j)
  <2>1. ~Find(j) /\ ~Park(j) /\ ~Discard(j)
    BY DEF AnswersFor, Find, Park, Discard
  <2>2. CASE Swap(j) \/ Unpark(j) \/ Unswap(j) \/ Restore(j)
    BY <1>a, <2>2 DEF AnswersFor, Swap, Unpark, Unswap, Restore
  <2>3. CASE Record(j)
    BY <1>a, <2>3 DEF AnswersFor, Record
  <2> QED
    BY <1>3, <2>1, <2>2, <2>3 DEF Replace
<1>4. CASE Stop /\ UNCHANGED <<dir, staging, parked, memory, outcome>>
  BY <1>a, <1>4 DEF AnswersFor, Stop
<1>5. CASE /\ pc'[j] = pc[j] /\ req'[j] = req[j] /\ at'[j] = at[j]
           /\ outcome'[j] = outcome[j]
           /\ lock = j => lock' = j
  BY <1>5 DEF AnswersFor
<1> QED
  BY <1>1, <1>2, <1>3, <1>4, <1>5, OwnSteps DEF Work
(* A settings update that has proved its entry saves it over the same tree. *)
LEMMA SavingKnowsTree ==
    ASSUME IInv, DescribedInv, [Next]_vars, NEW j \in Jobs, pc'[j] = "saving"
    PROVE  dir'[at'[j]] # None /\ req'[j].entry \in FilesOf[dir'[at'[j]].of]
<1> USE DEF disk, memory, world, Goto, CleanUpWith, Return, Release, TryAnother, DeleteEnds
<1>a. /\ pc \in [Actors -> Places] /\ j \in Actors /\ j # Sweeper
  BY StoreAssumption DEF IInv, TypeOK, Actors
<1>1. CASE Submit(j) \/ Cancel(j) \/ Stage(j) \/ Write(j)
  BY <1>a, <1>1 DEF Submit, Cancel, Stage, Write
<1>b. CASE Lock(j)
  <2>1. req[j] \in Requests(j) /\ pc'[j] = FirstStep(req[j].op)
    BY <1>a, <1>b DEF Lock, IInv, RightHandler
  <2>2. FirstStep(req[j].op) # "saving"
    BY <2>1, RequestShape DEF FirstStep
  <2> QED
    BY <2>1, <2>2
<1>2. CASE Publish(j) \/ Cleanup(j) \/ Replace(j) \/ Archive(j) \/ Delete(j)
  BY <1>a, <1>2 DEF Publish, Insert, Reserve, Install, Commit, Cleanup, DropReservation,
       DropStaging, Replace, Find, Park, Swap, Unpark, Record, Discard, Unswap, Restore,
       Archive, Open, Pack, Delete, Look, DeleteRow, RemoveContent
<1>3. CASE Settings(j)
  <2>1. ProveEntry(j)
    BY <1>a, <1>3 DEF Settings, Check, Save
  <2>2. UNCHANGED <<dir, at, req>>
    BY <2>1 DEF ProveEntry
  <2> QED
    BY <1>a, <2>1, <2>2 DEF ProveEntry
<1>4. CASE Stop
  BY <1>a, <1>4 DEF Stop
<1>5. CASE pc'[j] = pc[j] /\ req'[j] = req[j] /\ at'[j] = at[j]
  <2>0. pc[j] = "saving"
    BY <1>5
  <2>1. /\ pc[j] = "saving" /\ lock = j /\ at[j] \in Slugs
        /\ dir[at[j]] # None /\ req[j].entry \in FilesOf[dir[at[j]].of]
        /\ row[at[j]] # None
    <3>1. lock = j /\ at[j] \in Slugs
      BY <2>0, WorkingSlug DEF Locked
    <3>2. row[at[j]] # None
      BY <2>0 DEF IInv, HolderKnows
    <3> QED
      BY <2>0, <3>1, <3>2 DEF DescribedInv
  <2>2. ASSUME NEW k \in Jobs,
               \/ Reserve(k) \/ Install(k) \/ Park(k) \/ Swap(k) \/ Unpark(k)
               \/ Unswap(k) \/ Restore(k)
        PROVE  FALSE
    <3>1. lock = k /\ pc[k] \in PublishPlaces \cup ReplacePlaces
      BY <2>2 DEF Reserve, Install, Park, Swap, Unpark, Unswap, Restore, IInv, MutexHeld,
           Locked, PublishPlaces, ReplacePlaces, Actors
    <3> QED
      BY <2>1, <3>1 DEF PublishPlaces, ReplacePlaces
  <2>3. ASSUME NEW k \in Jobs, DropReservation(k)
        PROVE  dir' = dir
    BY <2>1, <2>3 DEF DropReservation, IInv, MutexHeld
  <2>4. ASSUME NEW x \in Actors, RemoveContent(x)
        PROVE  FALSE
    <3>1. lock = x /\ pc[x] = "erasing"
      BY <2>4 DEF RemoveContent, IInv, MutexHeld, Locked, DeletePlaces
    <3> QED
      BY <2>1, <3>1
  <2>5. ASSUME RemoveOrphans PROVE dir'[at[j]] = dir[at[j]]
    <3>1. CASE dir' = dir
      BY <3>1
    <3>2. ASSUME NEW s \in Slugs, row[s] = None, NEW tree, dir' = [dir EXCEPT ![s] = tree]
          PROVE  dir'[at[j]] = dir[at[j]]
      BY <2>1, <3>2 DEF IInv, TypeOK
    <3> QED
      BY <2>5, <3>1, <3>2 DEF RemoveOrphans
  <2>6. dir'[at[j]] = dir[at[j]]
    BY <2>2, <2>3, <2>4, <2>5, DirWriters
  <2> QED
    BY <1>5, <2>1, <2>6
<1> QED
  BY <1>1, <1>2, <1>3, <1>4, <1>5, <1>b, OwnSteps DEF Work

(* Either the row still describes its directory or a replacement answers.   *)
LEMMA StaysDescribed ==
    ASSUME IInv, DescribedInv, [Next]_vars, NEW s \in Slugs, row'[s] # None
    PROVE  Describes(row'[s], dir'[s]) \/ \E j \in Jobs : AnswersFor(j, s)'
<1> DEFINE Goal == Describes(row'[s], dir'[s]) \/ \E j \in Jobs : AnswersFor(j, s)'
<1> USE DEF disk, memory, world, Goto, CleanUpWith
<1>a. /\ row \in [Slugs -> Rows \cup {None}] /\ dir \in [Slugs -> Trees \cup {None}]
      /\ pc \in [Actors -> Places] /\ outcome \in [Jobs -> Outcomes]
  BY DEF IInv, TypeOK
<1>1. ASSUME NEW j \in Jobs, Record(j), row' = Recorded(j)
      PROVE  Goal
  <2>1. /\ at[j] \in Slugs /\ lock = j /\ dir' = dir /\ dir[at[j]] = [of |-> j, is |-> "whole"]
        /\ req[j] \in Requests(j) /\ req[j].op = "replace" /\ row[at[j]] # None
    BY <1>1, WorkingSlug DEF Record, IInv, HolderKnows, RightHandler, Locked, ReplacePlaces
  <2>2. CASE s = at[j]
    <3>1. req[j].entry \in FilesOf[j] /\ row[s] \in Rows
      BY <1>a, <2>1, <2>2, OwnEntry
    <3>2. row'[s] = [[row[s] EXCEPT !.meta = j] EXCEPT !.entry = req[j].entry]
      BY <1>a, <1>1, <2>1, <2>2 DEF Recorded
    <3>3. row'[s].meta = j /\ row'[s].entry = req[j].entry
      BY <3>1, <3>2 DEF Rows
    <3> QED
      BY <2>1, <2>2, <3>1, <3>3, WholeTree DEF Contents
  <2>3. CASE s # at[j]
    <3>1. row'[s] = row[s] /\ dir'[s] = dir[s]
      BY <1>a, <1>1, <2>1, <2>3 DEF Recorded
    <3>2. ASSUME NEW k \in Jobs, AnswersFor(k, s) PROVE AnswersFor(k, s)'
      <4>1. ~Record(k)
        BY <2>1, <2>3, <3>2, WorkingSlug DEF AnswersFor, Record, Locked, ReplacePlaces
      <4> QED
        BY <3>2, <4>1, GoesOnAnswering
    <3> QED
      BY <3>1, <3>2 DEF DescribedInv
  <2> QED
    BY <2>2, <2>3
<1>2. CASE row'[s] = row[s] /\ dir'[s] = dir[s]
  BY <1>1, <1>2, GoesOnAnswering DEF DescribedInv
<1>3. ASSUME NEW j \in Jobs, Commit(j), row'[s] # row[s]
      PROVE  Goal
  <2>1. s = at[j] /\ row'[s] = held[j] /\ dir' = dir
    BY <1>a, <1>3 DEF Commit
  <2>2. dir[s] = [of |-> j, is |-> "whole"] /\ held[j].meta = j /\ held[j].entry \in FilesOf[j]
    BY <1>3, <2>1 DEF Commit, IInv, HolderKnows, PublishPlaces, DescribedInv, HeldEntry
  <2> QED
    BY <2>1, <2>2, WholeTree DEF Contents
<1>4. ASSUME NEW j \in Jobs, Save(j), row'[s] # row[s]
      PROVE  Goal
  <2>1. s = at[j] /\ row' = Update(j) /\ dir' = dir /\ at[j] \in Slugs /\ row[s] # None
        /\ held[j] = row[s] /\ dir[s] # None /\ req[j].entry \in FilesOf[dir[s].of]
    <3>1. /\ at[j] \in Slugs /\ row' = Update(j) /\ dir' = dir
          /\ row[at[j]] # None /\ held[j] = row[at[j]]
          /\ dir[at[j]] # None /\ req[j].entry \in FilesOf[dir[at[j]].of]
      BY <1>4, WorkingSlug DEF Save, Locked, IInv, HolderKnows, DescribedInv
    <3>2. s = at[j]
      BY <1>a, <1>4, <3>1 DEF Update
    <3> QED
      BY <3>1, <3>2
  <2>2. row[s] \in Rows
    BY <1>a, <2>1
  <2>3. row'[s] = [Saved(j) EXCEPT !.meta = row[s].meta]
    BY <1>a, <2>1 DEF Update
  <2>4. row'[s].meta = row[s].meta /\ row'[s].entry = req[j].entry
    BY <2>1, <2>2, <2>3 DEF Saved, Rows
  <2>5. CASE Describes(row[s], dir[s])
    BY <2>1, <2>4, <2>5 DEF Describes
  <2>6. ASSUME NEW k \in Jobs, AnswersFor(k, s)
        PROVE  Goal
    <3>1. ~Record(k)
      BY <1>4, WorkingSlug DEF Record, Save, Locked, ReplacePlaces
    <3> QED
      BY <2>6, <3>1, GoesOnAnswering
  <2> QED
    BY <2>1, <2>5, <2>6 DEF DescribedInv
<1>5. ASSUME NEW x \in Actors, DeleteRow(x), row'[s] # row[s]
      PROVE  FALSE
  BY <1>a, <1>5 DEF DeleteRow
<1>6. ASSUME PruneRows, row'[s] # row[s]
      PROVE  FALSE
  BY <1>a, <1>6 DEF PruneRows
<1>7. ASSUME NEW j \in Jobs, Record(j), row'[s] # row[s]
      PROVE  Goal
  BY <1>1, <1>7 DEF Record
<1>8. CASE row'[s] # row[s]
  BY <1>3, <1>4, <1>5, <1>6, <1>7, <1>8, RowWriters
<1>9. ASSUME NEW j \in Jobs, Park(j) \/ Swap(j) \/ Unpark(j) \/ Unswap(j) \/ Restore(j),
             dir'[s] # dir[s]
      PROVE  Goal
  <2>1. /\ at[j] = s /\ lock = j /\ req[j] # None /\ req[j].op = "replace" /\ j \in Actors
        /\ UNCHANGED <<at, req, lock>>
    <3>1. at[j] = s /\ UNCHANGED <<at, req, lock>>
      BY <1>a, <1>9 DEF Park, Swap, Unpark, Unswap, Restore
    <3>2. lock = j /\ req[j] \in Requests(j) /\ req[j].op = "replace" /\ j \in Actors
      BY <1>9, WorkingSlug DEF Park, Swap, Unpark, Unswap, Restore, Locked, ReplacePlaces, IInv,
         RightHandler, Actors
    <3>3. req[j] # None
      BY <3>2, StoreAssumption
    <3> QED
      BY <3>1, <3>2, <3>3
  <2>2. \/ pc'[j] \in {"swapping", "recording", "restoring"}
        \/ pc'[j] = "cleaning" /\ outcome'[j] = "error"
    BY <1>a, <1>9, <2>1 DEF Park, Swap, Unpark, Unswap, Restore
  <2> QED
    BY <2>1, <2>2 DEF AnswersFor
<1>10. ASSUME NEW j \in Jobs, Reserve(j) \/ Install(j) \/ DropReservation(j), dir'[s] # dir[s]
       PROVE  FALSE
  <2>1. row' = row /\ s = at[j]
    BY <1>a, <1>10 DEF Reserve, Install, DropReservation
  <2>2. CASE Reserve(j) \/ Install(j)
    BY <2>1, <2>2 DEF Reserve, Install, IInv, HolderKnows
  <2>3. CASE DropReservation(j)
    BY <1>10, <2>1, <2>3 DEF DropReservation, IInv, HolderKnows
  <2> QED
    BY <1>10, <2>2, <2>3
<1>11. ASSUME NEW x \in Actors, RemoveContent(x), dir'[s] # dir[s]
       PROVE  FALSE
  BY <1>a, <1>11 DEF RemoveContent, IInv, HolderKnows
<1>12. ASSUME RemoveOrphans, dir'[s] # dir[s]
       PROVE  FALSE
  BY <1>a, <1>12 DEF RemoveOrphans
<1>13. CASE dir'[s] # dir[s]
  BY <1>9, <1>10, <1>11, <1>12, <1>13, DirWriters
<1> QED
  BY <1>2, <1>8, <1>13

(* With no mutation in progress a listed site that has no directory, or one *)
(* its row does not describe, goes back to a replacement that was lost or   *)
(* reported an error, for any slugs, jobs and faults (replace.rs:24-46).    *)
THEOREM DivergencesAreReported == Spec => []DivergenceIsReported
<1>1. Init => DescribedInv
  <2>1. Init => HeldEntry
    BY DEF Init, HeldEntry, PublishPlaces, Actors
  <2>2. ASSUME Init, NEW s \in Slugs, row[s] # None PROVE Describes(row[s], dir[s])
    <3>1. row[s] \in OldRows
      BY <2>2 DEF Init
    <3>2. dir[s] = [of |-> Old, is |-> "whole"]
      BY <2>2 DEF Init
    <3> QED
      BY <3>1, <3>2, WholeTree DEF OldRows, Contents
  <2>3. Init => \A j \in Jobs : pc[j] # "saving"
    BY DEF Init, Actors
  <2> QED
    BY <2>1, <2>2, <2>3 DEF DescribedInv
<1>2. IInv /\ DescribedInv /\ [Next]_vars => DescribedInv'
  <2> SUFFICES ASSUME IInv, DescribedInv, [Next]_vars PROVE DescribedInv'
    OBVIOUS
  <2>1. HeldEntry'
    BY HeldEntryInv DEF DescribedInv
  <2> QED
    BY <2>1, StaysDescribed, SavingKnowsTree DEF DescribedInv, Describes
<1>3. IInv /\ DescribedInv => DivergenceIsReported
  BY StoreAssumption DEF DescribedInv, DivergenceIsReported, AnswersFor, Actors, IInv
<1> QED
  BY <1>1, <1>2, <1>3, Invariance, PTL DEF Spec
=============================================================================
