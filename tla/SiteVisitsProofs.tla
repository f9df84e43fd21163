-------------------------- MODULE SiteVisitsProofs --------------------------
(* Visits leave the storage core alone, so what is proved of it holds beside *)
(* any number of them; and what a visit sends is not older than what was    *)
(* acknowledged before it, and exact when nobody changes the site.          *)
EXTENDS SiteVisits, SiteStoreProofs

(* A step of a visit changes no row, no directory and no mutex: visits never *)
(* take part in a mutation.                                                 *)
LEMMA VisitsOnlyRead ==
    ASSUME NEW v \in Visitors, VisitStep(v)
    PROVE  UNCHANGED vars
BY DEF VisitStep, Visit, Enter, LookFor, OpenFile, LookForPage, OpenPage, Trip,
       Proceed, Respond

(* The store with its visitors behaves as the store without them: every     *)
(* behaviour of VSpec is one of Spec, where a visit's step is a stutter.    *)
THEOREM VisitsAreReaders == VSpec => Spec
<1>1. VInit => Init
  BY DEF VInit
<1>2. [VNext]_vvars => [Next]_vars
  <2> SUFFICES ASSUME [VNext]_vvars PROVE [Next]_vars
    OBVIOUS
  <2>1. CASE StoreStep
    BY <2>1 DEF StoreStep
  <2>2. CASE \E v \in Visitors : VisitStep(v)
    BY <2>2, VisitsOnlyRead
  <2>3. CASE UNCHANGED vvars
    BY <2>3 DEF vvars
  <2> QED
    BY <2>1, <2>2, <2>3 DEF VNext
<1> QED
  BY <1>1, <1>2, PTL DEF VSpec, Spec

(* Beside any number of visits, no row ever stands over a directory that is *)
(* half written or half removed: what a visit can open is complete.         *)
THEOREM VisitorsFindWholeSites == VSpec => []RowIsWhole
BY VisitsAreReaders, RowsAreWhole, PTL

-----------------------------------------------------------------------------
(* A visit in flight knows what it was asked and the row it read, and every *)
(* answer names an upload and a file: a step of the store never leaves a    *)
(* visit half forgotten.                                                    *)

LEMMA WantedIsAFile ==
    ASSUME VTypeOK, NEW v \in Visitors, InFlight(v)
    PROVE  Wanted(v) \in Entries
BY DEF VTypeOK, Wanted, Rows

LEMMA RespondTyped ==
    ASSUME VTypeOK, NEW v \in Visitors, NEW what \in Answers, Respond(v, what)
    PROVE  VTypeOK'
BY DEF VTypeOK, Respond, InFlight

LEMMA ProceedTyped ==
    ASSUME VTypeOK, NEW v \in Visitors, InFlight(v),
           NEW step \in {"finding", "opening", "missing", "excusing"}, Proceed(v, step)
    PROVE  VTypeOK'
BY DEF VTypeOK, Proceed, InFlight

LEMMA VisitStepTyped ==
    ASSUME TypeOK, VTypeOK, NEW v \in Visitors, VisitStep(v)
    PROVE  VTypeOK'
<1>1. Bare \in Answers /\ Failed \in Answers
  BY DEF Answers, Bare, Failed
<1>2. ASSUME NEW s \in Slugs, dir[s] # None, NEW f \in Entries, NEW x \in {"found", "missing"}
      PROVE  [status |-> x, of |-> dir[s].of, file |-> f] \in Answers
  BY <1>2 DEF TypeOK, Trees, Answers
<1>3. NotFoundPage \in Entries
  BY VisitAssumption
<1>4. InFlight(v) => asked[v].slug \in Slugs /\ Wanted(v) \in Entries
  BY WantedIsAFile DEF VTypeOK
<1>5. CASE Visit(v)
  <2>1. PICK s \in Slugs :
          \/ (row[s] = None \/ Expired(row[s])) /\ Respond(v, Bare)
          \/ "db" \in VisitFaults /\ Respond(v, Failed)
          \/ /\ row[s] # None
             /\ \E path \in Entries \cup {None} :
                  /\ asked' = [asked EXCEPT ![v] = [slug |-> s, path |-> path]]
                  /\ place' = [place EXCEPT ![v] = IF path = None THEN "entering" ELSE "finding"]
             /\ seen' = [seen EXCEPT ![v] = row[s]]
             /\ answer' = [answer EXCEPT ![v] = None]
             /\ outdated' = [outdated EXCEPT ![v] = gone[s]]
             /\ quiet' = [quiet EXCEPT ![v] = \A x \in Actors : lock = x => at[x] # s]
             /\ UNCHANGED <<vars, placed, gone>>
    BY <1>5 DEF Visit
  <2> SUFFICES ASSUME row[s] # None,
                      \E path \in Entries \cup {None} :
                          /\ asked' = [asked EXCEPT ![v] = [slug |-> s, path |-> path]]
                          /\ place' = [place EXCEPT ![v] = IF path = None THEN "entering" ELSE "finding"],
                      seen' = [seen EXCEPT ![v] = row[s]],
                      answer' = [answer EXCEPT ![v] = None],
                      outdated' = [outdated EXCEPT ![v] = gone[s]],
                      quiet' = [quiet EXCEPT ![v] = \A x \in Actors : lock = x => at[x] # s],
                      UNCHANGED <<placed, gone>>
               PROVE  VTypeOK'
    BY <2>1, <1>1, RespondTyped
  <2>2. row[s] \in Rows
    BY DEF TypeOK
  <2>3. quiet' \in [Visitors -> BOOLEAN]
    BY DEF VTypeOK
  <2>4. gone[s] \in SUBSET Contents
    BY DEF VTypeOK
  <2>5. PICK path \in Entries \cup {None} :
            /\ asked' = [asked EXCEPT ![v] = [slug |-> s, path |-> path]]
            /\ place' = [place EXCEPT ![v] = IF path = None THEN "entering" ELSE "finding"]
    OBVIOUS
  <2>6. [slug |-> s, path |-> path] \in [slug : Slugs, path : Entries \cup {None}]
    OBVIOUS
  <2>7. row[s] # None /\ [slug |-> s, path |-> path] # None
    BY StoreAssumption, VisitAssumption
  <2> QED
    BY <2>2, <2>3, <2>4, <2>5, <2>6, <2>7 DEF VTypeOK, InFlight
<1>6. CASE Enter(v)
  BY <1>1, <1>6, RespondTyped, ProceedTyped DEF Enter, InFlight
<1>7. CASE LookFor(v)
  BY <1>7, ProceedTyped DEF LookFor, InFlight
<1>8. CASE OpenFile(v)
  BY <1>2, <1>4, <1>8, RespondTyped, ProceedTyped DEF OpenFile, InFlight, MayFind
<1>9. CASE LookForPage(v)
  BY <1>1, <1>9, RespondTyped, ProceedTyped DEF LookForPage, InFlight
<1>10. CASE OpenPage(v)
  BY <1>1, <1>2, <1>3, <1>4, <1>10, RespondTyped DEF OpenPage, InFlight, MayFind
<1>11. CASE Trip(v)
  BY <1>1, <1>11, RespondTyped DEF Trip
<1> QED
  BY <1>5, <1>6, <1>7, <1>8, <1>9, <1>10, <1>11 DEF VisitStep

LEMMA StoreStepTyped ==
    ASSUME TypeOK', VTypeOK, StoreStep
    PROVE  VTypeOK'
<1>1. placed' \in [Slugs -> SUBSET Contents]
  <2>1. \A s \in Slugs : dir'[s] # None => dir'[s].of \in Contents
    BY DEF TypeOK, Trees
  <2> QED
    BY <2>1 DEF VTypeOK, StoreStep, Remember
<1>2. gone' \in [Slugs -> SUBSET Contents]
  BY DEF VTypeOK, StoreStep, Remember
<1>3. quiet' \in [Visitors -> BOOLEAN]
  BY DEF VTypeOK, StoreStep
<1>4. \A v \in Visitors : InFlight(v)' => InFlight(v) /\ ~Lost(v)
  BY DEF VTypeOK, StoreStep, InFlight
<1> QED
  BY <1>1, <1>2, <1>3, <1>4 DEF VTypeOK, StoreStep

(* For any number of visits: their variables keep their types.              *)
THEOREM VisitTypes == VSpec => []VTypeOK
<1>1. VInit => VTypeOK
  BY DEF VInit, VTypeOK, InFlight, Contents
<1>2. TypeOK /\ TypeOK' /\ VTypeOK /\ [VNext]_vvars => VTypeOK'
  <2> SUFFICES ASSUME TypeOK, TypeOK', VTypeOK, [VNext]_vvars PROVE VTypeOK'
    OBVIOUS
  <2>1. CASE UNCHANGED vvars
    BY <2>1 DEF vvars, visits, VTypeOK, InFlight
  <2> QED
    BY <2>1, StoreStepTyped, VisitStepTyped DEF VNext
<1>3. VSpec => []TypeOK
  BY VisitsAreReaders, TypeCorrect, PTL
<1> QED
  BY <1>1, <1>2, <1>3, PTL DEF VSpec

-----------------------------------------------------------------------------
(***************************************************************************)
(* What has been done away with stays away, whatever fails.                 *)
(***************************************************************************)

(* A job that has not touched sites/<slug>; one that has parked a tree.     *)
Fresh == {"idle", "staging", "writing", "waiting", "inserting", "reserving",
          "finding", "parking", "swapping", "unparking"}
Parking == {"swapping", "unparking", "recording", "unswapping", "restoring"}
Succeeding(j) == pc[j] \in {"cleaning", "unstaging"} /\ outcome[j] = "ok"

(* What stood in a site's directory and no acknowledged mutation removed.   *)
Standing(s) == placed[s] \ gone[s]

GoneInv ==
    /\ \A s \in Slugs :
        /\ gone[s] \subseteq placed[s]
        /\ dir[s] # None => dir[s].of \in Standing(s)
        /\ \A j \in Jobs : pc[j] \in Fresh => j \notin placed[s]
    /\ \A j \in Jobs :
        /\ pc[j] \in Parking => parked[j].of \in Standing(at[j])
        /\ Succeeding(j) => lock = j /\ moved[j] /\ dir[at[j]] # None /\ dir[at[j]].of = j

OutdatedInv == \A v \in Visitors : InFlight(v) => outdated[v] \subseteq gone[asked[v].slug]

(* A directory that appears holds a job's own upload, or one it had parked. *)
LEMMA NewOccupant ==
    ASSUME IInv, [Next]_vars, NEW s \in Slugs, dir[s] = None, dir'[s] # None
    PROVE  \E j \in Jobs :
             /\ at[j] = s /\ lock = j
             /\ \/ pc[j] \in {"reserving", "swapping"} /\ dir'[s].of = j /\ pc'[j] \notin Fresh
                \/ pc[j] \in Parking /\ dir'[s] = parked[j]
<1> USE DEF Goto, CleanUpWith
<1>a. /\ dir \in [Slugs -> Trees \cup {None}] /\ pc \in [Actors -> Places]
      /\ \A j \in Jobs : j \in Actors
  BY DEF IInv, TypeOK, Actors
<1>1. ASSUME NEW j \in Jobs, Reserve(j) \/ Swap(j) \/ Unpark(j) \/ Restore(j)
      PROVE  at[j] = s /\ lock = j
  <2>1. lock = j
    BY <1>1, WorkingSlug DEF Reserve, Swap, Unpark, Restore, Locked, PublishPlaces, ReplacePlaces
  <2>2. at[j] = s
    BY <1>a, <1>1 DEF Reserve, Swap, Unpark, Restore
  <2> QED
    BY <2>1, <2>2
<1>2. ASSUME NEW j \in Jobs, Reserve(j)
      PROVE  pc[j] \in {"reserving", "swapping"} /\ dir'[s].of = j /\ pc'[j] \notin Fresh
  BY <1>a, <1>1, <1>2 DEF Reserve, Fresh
<1>3. ASSUME NEW j \in Jobs, Swap(j)
      PROVE  pc[j] \in {"reserving", "swapping"} /\ dir'[s].of = j /\ pc'[j] \notin Fresh
  <2>1. pc[j] = "swapping" /\ at[j] = s
    BY <1>1, <1>3 DEF Swap
  <2>2. staging[j] = [of |-> j, is |-> "whole"]
    BY <2>1 DEF IInv, FlagsFollow, Complete
  <2>3. dir'[s] = staging[j] /\ pc'[j] = "recording"
    BY <1>a, <1>3, <2>1 DEF Swap
  <2> QED
    BY <2>1, <2>2, <2>3 DEF Fresh
<1>4. ASSUME NEW j \in Jobs, Unpark(j) \/ Restore(j)
      PROVE  pc[j] \in Parking /\ dir'[s] = parked[j]
  BY <1>a, <1>1, <1>4 DEF Unpark, Restore, Parking
<1>5. ASSUME NEW j \in Jobs, Install(j)
      PROVE  FALSE
  <2>1. [of |-> j, is |-> "empty"] # None /\ dir[at[j]] = [of |-> j, is |-> "empty"]
    BY <1>5, NewTree DEF Install, IInv, HolderKnows, Contents
  <2> QED
    BY <1>a, <1>5, <2>1 DEF Install
<1>6. ASSUME NEW j \in Jobs, DropReservation(j) \/ Park(j) \/ Unswap(j)
      PROVE  FALSE
  BY <1>a, <1>6 DEF DropReservation, Park, Unswap
<1>7. ASSUME NEW x \in Actors, RemoveContent(x)
      PROVE  FALSE
  BY <1>a, <1>7 DEF RemoveContent
<1>8. ~RemoveOrphans /\ dir' # dir
  BY <1>a DEF RemoveOrphans
<1> QED
  BY <1>1, <1>2, <1>3, <1>4, <1>5, <1>6, <1>7, <1>8, DirWriters

(* Nobody else touches the directory of a job that cleans up and holds the  *)
(* mutex.                                                                   *)
LEMMA OwnDirectory ==
    ASSUME IInv, [Next]_vars, NEW j \in Jobs, lock = j, pc[j] \in {"cleaning", "unstaging"},
           pc'[j] = pc[j]
    PROVE  dir' = dir
<1> USE DEF Goto, CleanUpWith, Return
<1>a. pc \in [Actors -> Places] /\ j \in Actors
  BY DEF IInv, TypeOK, Actors
<1>1. ASSUME NEW k \in Jobs, \/ Reserve(k) \/ Install(k) \/ Park(k) \/ Swap(k) \/ Unpark(k)
                             \/ Unswap(k) \/ Restore(k)
      PROVE  FALSE
  <2>1. pc[k] \in Locked \ {"inserting"} /\ pc[k] # pc[j]
    BY <1>1 DEF Reserve, Install, Park, Swap, Unpark, Unswap, Restore, Locked, PublishPlaces,
         ReplacePlaces
  <2> QED
    BY <2>1, WorkingSlug
<1>2. ASSUME NEW k \in Jobs, DropReservation(k)
      PROVE  dir' = dir
  <2>1. k # j
    BY <1>a, <1>2 DEF DropReservation
  <2> QED
    BY <1>2, <2>1 DEF DropReservation, IInv, MutexHeld
<1>3. ASSUME NEW x \in Actors, RemoveContent(x)
      PROVE  FALSE
  BY <1>3, DeletingSlug DEF RemoveContent, DeletePlaces
<1>4. ~RemoveOrphans
  BY DEF RemoveOrphans, IInv, BootAlone, Resting
<1> QED
  BY <1>1, <1>2, <1>3, <1>4, DirWriters

(* Who is told "ok" of a mutation: the holder of the mutex, at its end.     *)
LEMMA Acknowledgements ==
    ASSUME IInv, [Next]_vars, NEW s \in Slugs, NEW j \in Acknowledged(s)
    PROVE  /\ j \in Jobs /\ at[j] = s /\ pc[j] # "done" /\ pc'[j] = "done"
           /\ \/ Succeeding(j) /\ req[j].op # "delete" /\ dir' = dir
              \/ lock = j /\ req[j].op = "delete" /\ dir'[s] = None
<1> USE DEF Goto, CleanUpWith, Return, TryAnother, DeleteEnds
<1>a. /\ j \in Jobs /\ at[j] = s /\ pc[j] # "done" /\ pc'[j] = "done" /\ outcome'[j] = "ok"
      /\ req[j].op \in {"publish", "replace", "delete"}
  BY DEF Acknowledged
<1>b. /\ pc \in [Actors -> Places] /\ outcome \in [Jobs -> Outcomes]
      /\ dir \in [Slugs -> Trees \cup {None}] /\ j \in Actors /\ j # Sweeper
  BY <1>a, StoreAssumption DEF IInv, TypeOK, Actors
<1>1. CASE Submit(j) \/ Lock(j) \/ Cancel(j) \/ Stage(j) \/ Write(j)
  BY <1>a, <1>b, <1>1, RequestShape DEF Submit, Lock, FirstStep, Cancel, Stage, Write, IInv, RightHandler
<1>2. CASE Publish(j) \/ Replace(j) \/ DropReservation(j)
  BY <1>a, <1>b, <1>2 DEF Publish, Insert, Reserve, Install, Commit, Replace, Find, Park, Swap,
       Unpark, Record, Discard, Unswap, Restore, DropReservation
<1>3. CASE Settings(j) \/ Archive(j)
  BY <1>a, <1>3 DEF Settings, Check, ProveEntry, Save, Archive, Open, Pack, IInv, RightHandler,
       Settling
<1>4. CASE DropStaging(j)
  <2>1. Succeeding(j) /\ dir' = dir
    BY <1>a, <1>b, <1>4 DEF DropStaging, Succeeding
  <2>2. req[j].op # "delete"
    BY <1>4, <1>a DEF DropStaging, IInv, RightHandler, Uploading
  <2> QED
    BY <1>a, <2>1, <2>2
<1>5. CASE Delete(j)
  <2>1. RemoveContent(j)
    BY <1>a, <1>b, <1>5 DEF Delete, Look, DeleteRow
  <2>2. lock = j /\ req[j].op = "delete"
    BY <1>a, <1>b, <2>1, DeletingSlug DEF RemoveContent, IInv, RightHandler, DeletePlaces
  <2>3. dir'[s] = None
    BY <1>a, <1>b, <2>1 DEF RemoveContent
  <2> QED
    BY <1>a, <2>2, <2>3
<1>6. CASE Stop
  BY <1>a, <1>b, <1>6 DEF Stop
<1> QED
  BY <1>a, <1>1, <1>2, <1>3, <1>4, <1>5, <1>6, OwnSteps DEF Work, Cleanup

(* What an acknowledgement does to the history.                             *)
LEMMA GoneGrows ==
    ASSUME IInv, VTypeOK, GoneInv, StoreStep, NEW s \in Slugs
    PROVE  \/ gone'[s] = gone[s] /\ Acknowledged(s) = {}
           \/ \E j \in Jobs :
                /\ lock = j /\ at[j] = s /\ pc'[j] = "done"
                /\ \/ gone'[s] = placed[s] \ {j} /\ dir' = dir /\ dir[s] # None /\ dir[s].of = j
                   \/ gone'[s] = placed[s] /\ dir'[s] = None
<1>0. [Next]_vars
  BY DEF StoreStep
<1>1. gone'[s] = IF Acknowledged(s) = {} THEN gone[s]
                 ELSE placed[s] \ {j \in Acknowledged(s) : req[j].op # "delete"}
  BY DEF StoreStep, Remember, VTypeOK
<1>2. ASSUME NEW j \in Acknowledged(s)
      PROVE  /\ j \in Jobs /\ lock = j /\ at[j] = s /\ pc'[j] = "done"
             /\ \/ req[j].op # "delete" /\ dir' = dir /\ dir[s] # None /\ dir[s].of = j
                \/ req[j].op = "delete" /\ dir'[s] = None
  BY <1>0, Acknowledgements DEF GoneInv
<1>3. ASSUME NEW j \in Acknowledged(s)
      PROVE  Acknowledged(s) = {j}
  BY <1>2
<1>4. ASSUME NEW j \in Acknowledged(s), req[j].op # "delete"
      PROVE  gone'[s] = placed[s] \ {j}
  BY <1>1, <1>3, <1>4
<1>5. ASSUME NEW j \in Acknowledged(s), req[j].op = "delete"
      PROVE  gone'[s] = placed[s]
  BY <1>1, <1>3, <1>5
<1> QED
  BY <1>1, <1>2, <1>4, <1>5

LEMMA HistoryGrows ==
    ASSUME IInv, VTypeOK, GoneInv, StoreStep, NEW s \in Slugs
    PROVE  /\ placed'[s] = placed[s] \cup (IF dir'[s] = None THEN {} ELSE {dir'[s].of})
           /\ gone[s] \subseteq gone'[s] /\ gone'[s] \subseteq placed[s]
<1>1. placed'[s] = placed[s] \cup (IF dir'[s] = None THEN {} ELSE {dir'[s].of})
  BY DEF StoreStep, Remember, VTypeOK
<1>2. gone[s] \subseteq placed[s] /\ (dir[s] # None => dir[s].of \notin gone[s])
  BY DEF GoneInv, Standing
<1> QED
  BY <1>1, <1>2, GoneGrows

(* The directory's upload is one that stands.                               *)
LEMMA OccupantStands ==
    ASSUME IInv, VTypeOK, GoneInv, StoreStep, NEW s \in Slugs, dir'[s] # None
    PROVE  dir'[s].of \in Standing(s)'
<1>0. [Next]_vars
  BY DEF StoreStep
<1>1. dir'[s].of \in placed'[s]
  BY HistoryGrows
<1>2. CASE gone'[s] = gone[s] /\ Acknowledged(s) = {}
  <2>1. CASE dir[s] # None
    <3>1. dir[s].of \notin gone[s]
      BY <2>1 DEF GoneInv, Standing
    <3> QED
      BY <1>0, <1>1, <1>2, <2>1, <3>1, SameUpload DEF Standing
  <2>2. CASE dir[s] = None
    <3>1. PICK j \in Jobs :
             /\ at[j] = s /\ lock = j
             /\ \/ pc[j] \in {"reserving", "swapping"} /\ dir'[s].of = j /\ pc'[j] \notin Fresh
                \/ pc[j] \in Parking /\ dir'[s] = parked[j]
      BY <1>0, <2>2, NewOccupant
    <3>2. dir'[s].of \notin gone[s]
      BY <3>1 DEF GoneInv, Standing, Fresh
    <3> QED
      BY <1>1, <1>2, <3>2 DEF Standing
  <2> QED
    BY <2>1, <2>2
<1>3. ASSUME NEW j \in Jobs, gone'[s] = placed[s] \ {j}, dir' = dir, dir[s].of = j
      PROVE  dir'[s].of \notin gone'[s]
  BY <1>3
<1> QED
  BY <1>1, <1>2, <1>3, GoneGrows DEF Standing

LEMMA StaysFresh ==
    ASSUME IInv, [Next]_vars, NEW j \in Jobs, pc'[j] \in Fresh
    PROVE  pc[j] \in Fresh
<1> USE DEF Goto, CleanUpWith, Return, Release, TryAnother, DeleteEnds
<1>a. pc \in [Actors -> Places] /\ j \in Actors /\ j # Sweeper
  BY StoreAssumption DEF IInv, TypeOK, Actors
<1>1. CASE Submit(j) \/ Lock(j) \/ Cancel(j) \/ Stage(j) \/ Write(j)
  BY <1>a, <1>1 DEF Submit, Lock, Cancel, Stage, Write, Fresh
<1>2. CASE Publish(j) \/ Replace(j) \/ Cleanup(j)
  BY <1>a, <1>2 DEF Publish, Insert, Reserve, Install, Commit, Replace, Find, Park, Swap,
       Unpark, Record, Discard, Unswap, Restore, Cleanup, DropReservation, DropStaging, Fresh
<1>3. CASE Settings(j) \/ Archive(j) \/ Delete(j)
  BY <1>a, <1>3 DEF Settings, Check, ProveEntry, Save, Archive, Open, Pack, Delete, Look,
       DeleteRow, RemoveContent, Fresh
<1>4. CASE Stop
  BY <1>a, <1>4 DEF Stop, Fresh
<1> QED
  BY <1>1, <1>2, <1>3, <1>4, OwnSteps DEF Work

(* A job that has not touched a site is not in its history.                 *)
LEMMA FreshStep ==
    ASSUME IInv, IInv', VTypeOK, GoneInv, StoreStep, NEW s \in Slugs, NEW j \in Jobs,
           pc'[j] \in Fresh
    PROVE  j \notin placed'[s]
<1>0. [Next]_vars
  BY DEF StoreStep
<1>1. j \notin placed[s]
  BY <1>0, StaysFresh DEF GoneInv
<1>2. ASSUME dir'[s] # None, dir'[s].of = j
      PROVE  FALSE
  <2>1. CASE dir[s] # None
    <3>1. dir'[s].of = dir[s].of
      BY <1>0, <1>2, <2>1, SameUpload
    <3> QED
      BY <1>1, <1>2, <2>1, <3>1 DEF GoneInv, Standing
  <2>2. CASE dir[s] = None
    <3>1. PICK k \in Jobs :
             /\ at[k] = s
             /\ \/ dir'[s].of = k /\ pc'[k] \notin Fresh
                \/ pc[k] \in Parking /\ dir'[s] = parked[k]
      BY <1>0, <1>2, <2>2, NewOccupant
    <3>2. pc[k] \in Parking => parked[k].of \in placed[s]
      BY <3>1 DEF GoneInv, Standing
    <3> QED
      BY <1>1, <1>2, <3>1, <3>2
  <2> QED
    BY <2>1, <2>2
<1> QED
  BY <1>1, <1>2, HistoryGrows

(* What a replacement has parked stood in its site until then.              *)
LEMMA ParkingStep ==
    ASSUME IInv, [Next]_vars, GoneInv, NEW j \in Jobs, pc'[j] \in Parking
    PROVE  /\ at'[j] = at[j] /\ at[j] \in Slugs /\ lock = j
           /\ parked'[j] # None => parked'[j].of \in Standing(at[j])
<1> USE DEF Goto, CleanUpWith, Return, Release, TryAnother, DeleteEnds, memory, disk
<1>a. /\ pc \in [Actors -> Places] /\ j \in Actors /\ j # Sweeper
      /\ parked \in [Jobs -> Trees \cup {None}]
  BY StoreAssumption DEF IInv, TypeOK, Actors
<1>1. ASSUME Park(j) \/ Swap(j) \/ Record(j) \/ Unswap(j)
      PROVE  /\ at'[j] = at[j] /\ at[j] \in Slugs /\ lock = j
             /\ parked'[j].of \in Standing(at[j])
  <2>1. at' = at /\ at[j] \in Slugs /\ lock = j
    BY <1>1, WorkingSlug DEF Park, Swap, Record, Unswap, Locked, ReplacePlaces
  <2>2. CASE Park(j)
    <3>1. dir[at[j]] # None /\ parked'[j] = dir[at[j]]
      BY <1>a, <2>2 DEF Park, Parking
    <3> QED
      BY <2>1, <3>1 DEF GoneInv
  <2>3. CASE Swap(j) \/ Record(j) \/ Unswap(j)
    <3>1. parked' = parked /\ pc[j] \in Parking
      BY <2>3 DEF Swap, Record, Unswap, Parking
    <3> QED
      BY <2>1, <3>1 DEF GoneInv
  <2> QED
    BY <1>1, <2>1, <2>2, <2>3
<1>2. ASSUME Submit(j) \/ Lock(j) \/ Cancel(j) \/ Stage(j) \/ Write(j)
      PROVE  FALSE
  <2>1. Lock(j) => FirstStep(req[j].op) \notin Parking
    BY RequestShape DEF Lock, IInv, RightHandler, FirstStep, Parking
  <2> QED
    BY <1>a, <1>2, <2>1 DEF Submit, Lock, Cancel, Stage, Write, Parking
<1>3. ASSUME Publish(j) \/ Cleanup(j) \/ Find(j) \/ Unpark(j) \/ Discard(j) \/ Restore(j)
      PROVE  FALSE
  BY <1>a, <1>3 DEF Publish, Insert, Reserve, Install, Commit, Find, Unpark, Discard, Restore,
       Cleanup, DropReservation, DropStaging, Parking
<1>4. ASSUME Settings(j) \/ Archive(j) \/ Delete(j)
      PROVE  FALSE
  BY <1>a, <1>4 DEF Settings, Check, ProveEntry, Save, Archive, Open, Pack, Delete, Look,
       DeleteRow, RemoveContent, Parking
<1>5. ASSUME Stop
      PROVE  FALSE
  BY <1>a, <1>5 DEF Stop, Parking
<1>6. ASSUME pc'[j] = pc[j], at'[j] = at[j], parked'[j] \in {parked[j], None}
      PROVE  /\ at'[j] = at[j] /\ at[j] \in Slugs /\ lock = j
             /\ parked'[j] # None => parked'[j].of \in Standing(at[j])
  <2>1. at[j] \in Slugs /\ lock = j
    BY <1>6, WorkingSlug DEF Parking, Locked, ReplacePlaces
  <2> QED
    BY <1>6, <2>1 DEF GoneInv
<1> QED
  BY <1>1, <1>2, <1>3, <1>4, <1>5, <1>6, OwnSteps DEF Work, Replace

LEMMA ParkedStands ==
    ASSUME IInv, IInv', VTypeOK, GoneInv, StoreStep, NEW j \in Jobs, pc'[j] \in Parking
    PROVE  parked'[j].of \in Standing(at[j])'
<1>0. [Next]_vars
  BY DEF StoreStep
<1>1. parked'[j] # None
  BY DEF IInv, HolderKnows, Parking
<1>2. /\ at'[j] = at[j] /\ at[j] \in Slugs /\ lock = j
      /\ parked'[j].of \in placed[at[j]] /\ parked'[j].of \notin gone[at[j]]
  BY <1>0, <1>1, ParkingStep DEF Standing
<1>3. pc'[j] # "done"
  BY DEF Parking
<1>4. gone'[at[j]] = gone[at[j]]
  BY <1>2, <1>3, GoneGrows
<1>5. placed[at[j]] \subseteq placed'[at[j]]
  BY <1>2, HistoryGrows
<1> QED
  BY <1>2, <1>4, <1>5 DEF Standing

(* A job that is about to be told "ok" stands in its site.                  *)
LEMMA SucceedingStep ==
    ASSUME IInv, IInv', GoneInv, [Next]_vars, NEW j \in Jobs, Succeeding(j)'
    PROVE  lock' = j /\ moved'[j] /\ dir'[at'[j]] # None /\ dir'[at'[j]].of = j
<1> DEFINE Goal == lock' = j /\ moved'[j] /\ dir'[at'[j]] # None /\ dir'[at'[j]].of = j
<1> USE DEF Goto, CleanUpWith, Return, Release, TryAnother, DeleteEnds, memory, disk
<1>0. pc'[j] \in {"cleaning", "unstaging"} /\ outcome'[j] = "ok"
  BY DEF Succeeding
<1>a. /\ pc \in [Actors -> Places] /\ j \in Actors /\ j # Sweeper
      /\ outcome \in [Jobs -> Outcomes]
  BY StoreAssumption DEF IInv, TypeOK, Actors
<1>1. ASSUME Commit(j) \/ Discard(j)
      PROVE  Goal
  <2>1. /\ pc[j] \in {"committing", "discarding"}
        /\ UNCHANGED <<lock, moved, dir, at>>
    BY <1>1 DEF Commit, Discard
  <2>2. lock = j
    BY <2>1, WorkingSlug DEF Locked, PublishPlaces, ReplacePlaces
  <2>3. moved[j] /\ dir[at[j]] = [of |-> j, is |-> "whole"]
    BY <2>1 DEF IInv, FlagsFollow, AlreadyMoved, HolderKnows
  <2>4. [of |-> j, is |-> "whole"] # None
    BY NewTree DEF Contents
  <2> QED
    BY <2>1, <2>2, <2>3, <2>4
<1>2. ASSUME DropReservation(j)
      PROVE  Goal
  <2>1. outcome[j] = "ok" /\ pc[j] = "cleaning" /\ lock' = lock /\ moved' = moved /\ at' = at
    BY <1>0, <1>a, <1>2 DEF DropReservation
  <2>2. lock = j /\ moved[j] /\ dir[at[j]] # None /\ dir[at[j]].of = j
    BY <2>1 DEF GoneInv, Succeeding
  <2>3. dir' = dir
    BY <1>2, <2>2 DEF DropReservation
  <2> QED
    BY <2>1, <2>2, <2>3
<1>3. ASSUME pc'[j] = pc[j], at'[j] = at[j], outcome'[j] = outcome[j], moved'[j] = moved[j],
             lock = j => lock' = j
      PROVE  Goal
  <2>1. lock = j /\ moved[j] /\ dir[at[j]] # None /\ dir[at[j]].of = j
    BY <1>0, <1>3 DEF GoneInv, Succeeding
  <2>2. dir' = dir
    BY <1>0, <1>3, <2>1, OwnDirectory
  <2> QED
    BY <1>3, <2>1, <2>2
<1>4. ASSUME Submit(j) \/ Lock(j) \/ Cancel(j) \/ Stage(j) \/ Write(j) \/ DropStaging(j)
      PROVE  FALSE
  <2>1. Lock(j) => FirstStep(req[j].op) \notin {"cleaning", "unstaging"}
    BY RequestShape DEF Lock, IInv, RightHandler, FirstStep
  <2> QED
    BY <1>0, <1>a, <1>4, <2>1 DEF Submit, Lock, Cancel, Stage, Write, DropStaging
<1>5. ASSUME \/ Insert(j) \/ Reserve(j) \/ Install(j) \/ Find(j) \/ Park(j) \/ Swap(j)
             \/ Unpark(j) \/ Record(j) \/ Unswap(j) \/ Restore(j)
      PROVE  FALSE
  BY <1>0, <1>a, <1>5 DEF Insert, Reserve, Install, Find, Park, Swap, Unpark, Record, Unswap,
       Restore
<1>6. ASSUME Settings(j) \/ Archive(j) \/ Delete(j)
      PROVE  FALSE
  BY <1>0, <1>a, <1>6 DEF Settings, Check, ProveEntry, Save, Archive, Open, Pack, Delete, Look,
       DeleteRow, RemoveContent
<1>7. ASSUME Stop
      PROVE  FALSE
  BY <1>0, <1>a, <1>7 DEF Stop
<1> HIDE DEF Goal
<1>8. Goal
  BY <1>1, <1>2, <1>3, <1>4, <1>5, <1>6, <1>7, OwnSteps DEF Work, Publish, Replace, Cleanup
<1> QED
  BY <1>8 DEF Goal

LEMMA GoneStep ==
    ASSUME IInv, IInv', VTypeOK, GoneInv, OutdatedInv, StoreStep
    PROVE  GoneInv' /\ OutdatedInv'
<1>0. [Next]_vars
  BY DEF StoreStep
<1>1. ASSUME NEW s \in Slugs
      PROVE  /\ gone'[s] \subseteq placed'[s]
             /\ dir'[s] # None => dir'[s].of \in Standing(s)'
             /\ \A j \in Jobs : pc'[j] \in Fresh => j \notin placed'[s]
  <2>1. gone'[s] \subseteq placed'[s]
    BY HistoryGrows
  <2> QED
    BY <2>1, OccupantStands, FreshStep
<1>2. ASSUME NEW j \in Jobs
      PROVE  /\ pc'[j] \in Parking => parked'[j].of \in Standing(at[j])'
             /\ Succeeding(j)' => lock' = j /\ moved'[j] /\ dir'[at'[j]] # None
                                   /\ dir'[at'[j]].of = j
  BY <1>0, ParkedStands, SucceedingStep
<1>3. ASSUME NEW v \in Visitors, InFlight(v)'
      PROVE  outdated'[v] \subseteq gone'[asked'[v].slug]
  <2>1. InFlight(v) /\ ~Lost(v) /\ outdated'[v] = outdated[v] /\ asked'[v] = asked[v]
    BY <1>3 DEF StoreStep, InFlight, VTypeOK
  <2>2. asked[v].slug \in Slugs
    BY <2>1 DEF VTypeOK
  <2> QED
    BY <2>1, <2>2, HistoryGrows DEF OutdatedInv
<1> QED
  BY <1>1, <1>2, <1>3 DEF GoneInv, OutdatedInv

LEMMA VisitGone ==
    ASSUME VTypeOK, GoneInv, OutdatedInv, NEW v \in Visitors, VisitStep(v)
    PROVE  GoneInv' /\ OutdatedInv'
<1>1. UNCHANGED <<vars, placed, gone>>
  BY DEF VisitStep, Visit, Enter, LookFor, OpenFile, LookForPage, OpenPage, Trip,
       Proceed, Respond
<1>2. GoneInv'
  BY <1>1 DEF GoneInv, Standing, Succeeding, vars
<1>3. ASSUME NEW w \in Visitors, InFlight(w)'
      PROVE  outdated'[w] \subseteq gone'[asked'[w].slug]
  <2>1. CASE \E what : Respond(v, what)
    BY <1>1, <1>3, <2>1 DEF Respond, InFlight, VTypeOK, OutdatedInv
  <2>2. CASE \E step : InFlight(v) /\ Proceed(v, step)
    BY <1>1, <1>3, <2>2 DEF Proceed, InFlight, VTypeOK, OutdatedInv
  <2>3. ASSUME NEW s \in Slugs, NEW path, NEW to,
               asked' = [asked EXCEPT ![v] = [slug |-> s, path |-> path]],
               place' = [place EXCEPT ![v] = to],
               outdated' = [outdated EXCEPT ![v] = gone[s]]
        PROVE  outdated'[w] \subseteq gone'[asked'[w].slug]
    BY <1>1, <1>3, <2>3 DEF InFlight, VTypeOK, OutdatedInv
  <2>4. CASE Visit(v)
    <3>1. PICK s \in Slugs :
            \/ Respond(v, Bare) \/ Respond(v, Failed)
            \/ /\ outdated' = [outdated EXCEPT ![v] = gone[s]]
               /\ \E path \in Entries \cup {None} :
                    /\ asked' = [asked EXCEPT ![v] = [slug |-> s, path |-> path]]
                    /\ place' = [place EXCEPT ![v] = IF path = None THEN "entering" ELSE "finding"]
      BY <2>4 DEF Visit
    <3> QED
      BY <2>1, <2>3, <3>1
  <2> QED
    BY <2>1, <2>2, <2>4 DEF VisitStep, Enter, LookFor, OpenFile, LookForPage, OpenPage,
         Trip, InFlight
<1> QED
  BY <1>2, <1>3 DEF OutdatedInv

(* Whatever fails and wherever the process stops: a visit that reads its    *)
(* row after a publication, replacement or deletion was acknowledged is     *)
(* never sent bytes of an upload that one did away with.                    *)
THEOREM NothingOutdatedIsEverSent == VSpec => NothingOutdatedIsSent
<1> DEFINE A == \A v \in Visitors :
                   Answering(v) /\ answer'[v].status \in {"found", "missing"}
                       => answer'[v].of \notin outdated[v]
<1>1. VInit => GoneInv /\ OutdatedInv
  <2> SUFFICES ASSUME VInit PROVE GoneInv /\ OutdatedInv
    OBVIOUS
  <2>1. \A v \in Visitors : ~InFlight(v)
    BY DEF VInit, InFlight
  <2>2. \A j \in Jobs : pc[j] = "idle" /\ j # Old
    BY StoreAssumption DEF VInit, Init, Actors
  <2>3. ASSUME NEW s \in Slugs
        PROVE  /\ gone[s] = {} /\ placed[s] = IF dir[s] = None THEN {} ELSE {Old}
               /\ dir[s] # None => dir[s].of = Old
    <3>1. dir[s] \in {None, [of |-> Old, is |-> "whole"]}
      BY DEF VInit, Init
    <3> QED
      BY <3>1 DEF VInit
  <2>4. \A j \in Jobs : pc[j] \notin Parking /\ ~Succeeding(j)
    BY <2>2 DEF Parking, Succeeding
  <2>5. OutdatedInv
    BY <2>1 DEF OutdatedInv
  <2> QED
    BY <2>2, <2>3, <2>4, <2>5 DEF GoneInv, Standing
<1>2. IInv /\ IInv' /\ VTypeOK /\ GoneInv /\ OutdatedInv /\ [VNext]_vvars
        => GoneInv' /\ OutdatedInv'
  <2> SUFFICES ASSUME IInv, IInv', VTypeOK, GoneInv, OutdatedInv, [VNext]_vvars
               PROVE  GoneInv' /\ OutdatedInv'
    OBVIOUS
  <2>1. CASE UNCHANGED vvars
    BY <2>1 DEF vvars, vars, visits, GoneInv, OutdatedInv, Standing, Succeeding, InFlight
  <2> QED
    BY <2>1, GoneStep, VisitGone DEF VNext
<1>3. VTypeOK /\ GoneInv /\ OutdatedInv /\ [VNext]_vvars => [A]_vvars
  <2> SUFFICES ASSUME VTypeOK, GoneInv, OutdatedInv, VNext, NEW v \in Visitors,
                      Answering(v), answer'[v].status \in {"found", "missing"}
               PROVE  answer'[v].of \notin outdated[v]
    BY DEF A
  <2>1. ~StoreStep
    BY DEF StoreStep, Answering, InFlight, VTypeOK
  <2>2. PICK w \in Visitors : VisitStep(w)
    BY <2>1 DEF VNext
  <2>3. InFlight(v) /\ place'[v] = "answered" /\ asked[v].slug \in Slugs
    BY DEF Answering, VTypeOK
  <2>4. ~Visit(v)
    BY <2>3 DEF Visit
  <2>5. w = v
    BY <2>2, <2>3 DEF VisitStep, Visit, Enter, LookFor, OpenFile, LookForPage, OpenPage, Trip,
         Proceed, Respond, InFlight, VTypeOK
  <2>6. Bare.status = "bare" /\ Failed.status = "error"
    BY DEF Bare, Failed
  <2>7. ASSUME Respond(v, Bare) \/ Respond(v, Failed)
        PROVE  FALSE
    BY <2>6, <2>7 DEF Respond, VTypeOK
  <2>8. ASSUME NEW step \in {"finding", "opening", "missing", "excusing"}, Proceed(v, step)
        PROVE  FALSE
    BY <2>3, <2>8 DEF Proceed, VTypeOK
  <2>9. dir[asked[v].slug] # None /\ answer'[v].of = dir[asked[v].slug].of
    BY <2>2, <2>4, <2>5, <2>7, <2>8 DEF VisitStep, Enter, LookFor, OpenFile, LookForPage, OpenPage,
         Trip, Respond, MayFind, VTypeOK
  <2> QED
    BY <2>3, <2>9 DEF GoneInv, OutdatedInv, Standing
<1>4. VSpec => []IInv
  BY VisitsAreReaders, Invariance, PTL
<1> QED
  BY <1>1, <1>2, <1>3, <1>4, VisitTypes, PTL DEF VSpec, NothingOutdatedIsSent

-----------------------------------------------------------------------------
(***************************************************************************)
(* A visit to a site nobody changes is answered as if it were one step, in  *)
(* a store that may stop anywhere but whose operations do not fail.         *)
(***************************************************************************)

(* Someone is at a step that can write the site's row or directory.         *)
Touched(s) == \E x \in Actors : /\ lock = x /\ at[x] = s
                                /\ pc[x] \in (Locked \ {"inserting"}) \cup {"cleaning"}

(* What a visit may rely on between its steps as long as it is quiet.       *)
Settled(v) ==
    LET s == asked[v].slug
        files == FilesOf[dir[s].of]
    IN  /\ ~Touched(s)
        /\ row[s] # None /\ dir[s] # None /\ dir[s].is = "whole"
        /\ place[v] = "opening" => Wanted(v) \in files
        /\ place[v] \in {"missing", "excusing"} => Wanted(v) \notin files
        /\ place[v] = "excusing" => NotFoundPage \in files

QuietInv == \A v \in Visitors : InFlight(v) => phase = "up" /\ (quiet[v] => Settled(v))

(* A site nobody is at keeps its row and its directory.                     *)
LEMMA UntouchedStays ==
    ASSUME IInv, [Next]_vars, phase = "up", ~Stop, NEW s \in Slugs, ~Touched(s)
    PROVE  row'[s] = row[s] /\ dir'[s] = dir[s]
<1>a. /\ row \in [Slugs -> Rows \cup {None}] /\ dir \in [Slugs -> Trees \cup {None}]
      /\ \A j \in Jobs : j \in Actors
  BY DEF IInv, TypeOK, Actors
<1>b. ASSUME NEW x \in Actors, pc[x] \in Locked \ {"inserting"}
      PROVE  at[x] # s
  BY <1>b DEF IInv, MutexHeld, Touched
<1>1. ~RemoveOrphans /\ ~PruneRows
  BY DEF RemoveOrphans, PruneRows
<1>2. ASSUME NEW j \in Jobs, Commit(j) \/ Record(j) \/ Save(j)
      PROVE  row'[s] = row[s]
  <2>1. at[j] # s
    BY <1>a, <1>b, <1>2 DEF Commit, Record, Save, Locked, PublishPlaces, ReplacePlaces
  <2> QED
    BY <1>a, <1>2, <2>1 DEF Commit, Record, Save, Recorded, Update
<1>3. ASSUME NEW x \in Actors, DeleteRow(x) \/ RemoveContent(x)
      PROVE  row'[s] = row[s] /\ dir'[s] = dir[s]
  <2>1. at[x] # s
    BY <1>b, <1>3 DEF DeleteRow, RemoveContent, Locked, DeletePlaces
  <2> QED
    BY <1>a, <1>3, <2>1 DEF DeleteRow, RemoveContent
<1>4. ASSUME NEW j \in Jobs, \/ Reserve(j) \/ Install(j) \/ Park(j) \/ Swap(j) \/ Unpark(j)
                             \/ Unswap(j) \/ Restore(j)
      PROVE  dir'[s] = dir[s]
  <2>1. at[j] # s
    BY <1>a, <1>b, <1>4 DEF Reserve, Install, Park, Swap, Unpark, Unswap, Restore, Locked,
         PublishPlaces, ReplacePlaces
  <2> QED
    BY <1>a, <1>4, <2>1 DEF Reserve, Install, Park, Swap, Unpark, Unswap, Restore
<1>5. ASSUME NEW j \in Jobs, DropReservation(j)
      PROVE  dir'[s] = dir[s]
  <2>1. reserved[j] => lock = j /\ at[j] # s
    BY <1>a, <1>5 DEF DropReservation, IInv, MutexHeld, Touched
  <2> QED
    BY <1>a, <1>5, <2>1 DEF DropReservation
<1> QED
  BY <1>1, <1>2, <1>3, <1>4, <1>5, RowWriters, DirWriters

(* Nobody starts to touch a listed site without being at it with the mutex. *)
LEMMA UntouchedStep ==
    ASSUME IInv, [Next]_vars, NEW s \in Slugs, row[s] # None,
           \A x \in Actors : lock' = x => at[x] # s
    PROVE  ~Touched(s)'
<1> USE DEF Goto
<1>a. /\ pc \in [Actors -> Places] /\ at \in [Actors -> Slugs \cup {None}]
      /\ \A j \in Jobs : j \in Actors
  BY DEF IInv, TypeOK, Actors
<1> SUFFICES ASSUME NEW x \in Actors, lock' = x, at'[x] = s, at[x] # s,
                    pc'[x] \in (Locked \ {"inserting"}) \cup {"cleaning"}
             PROVE  FALSE
  BY DEF Touched
<1>1. at' # at
  OBVIOUS
<1>2. CASE SweepNext
  <2>1. x = Sweeper
    BY <1>a, <1>2 DEF SweepNext
  <2>2. pc'[x] = "waiting"
    BY <1>a, <1>2, <2>1 DEF SweepNext
  <2> QED
    BY <2>2 DEF Locked, PublishPlaces, ReplacePlaces, DeletePlaces
<1>3. ASSUME NEW j \in Jobs, Submit(j)
      PROVE  FALSE
  <2>1. x = j
    BY <1>a, <1>3 DEF Submit
  <2>2. pc'[x] \in {"staging", "waiting"}
    BY <1>a, <1>3, <2>1 DEF Submit
  <2> QED
    BY <2>2 DEF Locked, PublishPlaces, ReplacePlaces, DeletePlaces
<1>4. ASSUME NEW j \in Jobs, Insert(j)
      PROVE  FALSE
  <2>1. \E t : at' = [at EXCEPT ![j] = t] /\ row[t] = None
    BY <1>1, <1>4 DEF Insert
  <2> QED
    BY <1>a, <2>1
<1> QED
  BY <1>1, <1>2, <1>3, <1>4, SlugChoices

LEMMA QuietStoreStep ==
    ASSUME IInv, VTypeOK, QuietInv, StoreStep
    PROVE  QuietInv'
<1>0. [Next]_vars
  BY DEF StoreStep
<1> SUFFICES ASSUME NEW v \in Visitors, InFlight(v)'
             PROVE  phase' = "up" /\ (quiet'[v] => Settled(v)')
  BY DEF QuietInv
<1>1. /\ InFlight(v) /\ phase' # "down"
      /\ place'[v] = place[v] /\ asked'[v] = asked[v] /\ seen'[v] = seen[v]
  BY DEF StoreStep, InFlight, VTypeOK, Lost
<1>2. phase = "up" /\ asked[v].slug \in Slugs /\ ~Stop
  BY <1>1 DEF QuietInv, VTypeOK, Stop
<1>3. phase' = "up"
  BY <1>0, <1>2, Phases DEF Boot, ClearStaging, RemoveOrphans, PruneRows, Serve
<1>4. ASSUME quiet'[v]
      PROVE  Settled(v)'
  <2>1. quiet[v] /\ \A x \in Actors : lock' = x => at[x] # asked[v].slug
    BY <1>1, <1>4 DEF StoreStep, Lost
  <2>2. Settled(v)
    BY <1>1, <2>1 DEF QuietInv
  <2>3. PICK s \in Slugs : s = asked[v].slug /\ s = asked'[v].slug
    BY <1>1, <1>2
  <2>4. ~Touched(s)'
    BY <1>0, <2>1, <2>2, <2>3, UntouchedStep DEF Settled
  <2>5. row'[s] = row[s] /\ dir'[s] = dir[s]
    BY <1>0, <1>2, <2>2, <2>3, UntouchedStays DEF Settled
  <2>6. Wanted(v)' = Wanted(v)
    BY <1>1 DEF Wanted
  <2> QED
    BY <1>1, <2>2, <2>3, <2>4, <2>5, <2>6 DEF Settled, Touched
<1> QED
  BY <1>3, <1>4

(* The row a visit reads of a site nobody is at stands over a whole tree.   *)
LEMMA QuietSiteIsWhole ==
    ASSUME IInv, RestInv, phase = "up", NEW s \in Slugs, row[s] # None,
           \A x \in Actors : lock = x => at[x] # s
    PROVE  ~Touched(s) /\ dir[s] # None /\ dir[s].is = "whole"
<1>1. ~Midway(s)
  BY DEF IInv, MutexHeld, Midway, MidPlaces, Locked, PublishPlaces, ReplacePlaces, DeletePlaces
<1> QED
  BY <1>1 DEF Touched, RestInv, Matched, IInv, RowIsWhole

(* Only the visit itself is moved by its step.                              *)
LEMMA OthersStay ==
    ASSUME VTypeOK, NEW v \in Visitors, VisitStep(v), NEW w \in Visitors, w # v
    PROVE  /\ place'[w] = place[w] /\ asked'[w] = asked[w] /\ seen'[w] = seen[w]
           /\ quiet'[w] = quiet[w] /\ answer'[w] = answer[w]
BY DEF VTypeOK, VisitStep, Visit, Enter, LookFor, OpenFile, LookForPage, OpenPage, Trip,
       Proceed, Respond

LEMMA QuietVisitStep ==
    ASSUME IInv, RestInv, VTypeOK, QuietInv, NEW v \in Visitors, VisitStep(v)
    PROVE  QuietInv'
<1>0. UNCHANGED vars
  BY VisitsOnlyRead
<1>1. \A s \in Slugs : Touched(s)' <=> Touched(s)
  BY <1>0 DEF Touched, vars
<1> SUFFICES ASSUME NEW w \in Visitors, InFlight(w)'
             PROVE  phase' = "up" /\ (quiet'[w] => Settled(w)')
  BY DEF QuietInv
<1>2. CASE w # v
  <2>1. /\ place'[w] = place[w] /\ asked'[w] = asked[w] /\ seen'[w] = seen[w]
        /\ quiet'[w] = quiet[w]
    BY <1>2, OthersStay
  <2>2. InFlight(w)
    BY <2>1 DEF InFlight
  <2> QED
    BY <1>0, <2>1, <2>2 DEF QuietInv, Settled, Touched, Wanted, vars
<1>3. ASSUME w = v, NEW what, Respond(v, what)
      PROVE  FALSE
  BY <1>3 DEF Respond, InFlight, VTypeOK
<1>4. ASSUME w = v, InFlight(v), NEW step, Proceed(v, step),
             quiet[v] => LET files == FilesOf[dir[asked[v].slug].of]
                         IN  /\ step = "opening" => Wanted(v) \in files
                             /\ step \in {"missing", "excusing"} => Wanted(v) \notin files
                             /\ step = "excusing" => NotFoundPage \in files
      PROVE  phase' = "up" /\ (quiet'[w] => Settled(w)')
  BY <1>0, <1>4 DEF QuietInv, Settled, Touched, Wanted, vars, Proceed, VTypeOK
<1>5. ASSUME w = v, InFlight(v), quiet[v]
      PROVE  Settled(v)
  BY <1>5 DEF QuietInv
<1>6. CASE w = v /\ Visit(v)
  <2>1. phase = "up"
    BY <1>6 DEF Visit, Serving
  <2>2. PICK s \in Slugs :
          /\ row[s] # None
          /\ \E path \in Entries \cup {None} :
                /\ asked' = [asked EXCEPT ![v] = [slug |-> s, path |-> path]]
                /\ place' = [place EXCEPT ![v] = IF path = None THEN "entering" ELSE "finding"]
          /\ quiet' = [quiet EXCEPT ![v] = \A x \in Actors : lock = x => at[x] # s]
    BY <1>3, <1>6 DEF Visit
  <2>3. asked'[v].slug = s /\ place'[v] \in {"entering", "finding"}
    BY <2>2 DEF VTypeOK
  <2>4. quiet'[v] => ~Touched(s) /\ dir[s] # None /\ dir[s].is = "whole"
    BY <2>1, <2>2, QuietSiteIsWhole DEF VTypeOK
  <2> QED
    BY <1>0, <1>6, <2>1, <2>2, <2>3, <2>4 DEF Settled, Touched, vars
<1>7. CASE w = v /\ Enter(v)
  BY <1>3, <1>4, <1>7 DEF Enter, InFlight
<1>8. CASE w = v /\ LookFor(v)
  BY <1>3, <1>4, <1>5, <1>8 DEF LookFor, InFlight, MayFind, MayMiss, Settled
<1>9. CASE w = v /\ OpenFile(v)
  BY <1>3, <1>4, <1>5, <1>9 DEF OpenFile, InFlight, MayFind, MayMiss, Settled
<1>10. CASE w = v /\ LookForPage(v)
  BY <1>3, <1>4, <1>5, <1>10 DEF LookForPage, InFlight, MayFind, MayMiss, Settled
<1>11. CASE w = v /\ (OpenPage(v) \/ Trip(v))
  BY <1>3, <1>11 DEF OpenPage, Trip
<1> QED
  BY <1>2, <1>6, <1>7, <1>8, <1>9, <1>10, <1>11 DEF VisitStep

(* What a visit at a settled site is sent.                                  *)
LEMMA QuietAnswer ==
    ASSUME VTypeOK, NEW v \in Visitors, VisitStep(v), Answering(v), Settled(v)
    PROVE  \/ answer'[v] = Failed
           \/ /\ dir[asked[v].slug] # None
              /\ answer'[v] = Due(Wanted(v), dir[asked[v].slug].of)
<1> DEFINE tree == dir[asked[v].slug]
<1>0. /\ InFlight(v) /\ place'[v] = "answered"
      /\ tree # None /\ tree.is = "whole"
  BY DEF Answering, Settled
<1>1. ASSUME NEW what, Respond(v, what)
      PROVE  answer'[v] = what
  BY <1>1 DEF Respond, VTypeOK
<1>2. ASSUME NEW step \in {"finding", "opening", "missing", "excusing"}, Proceed(v, step)
      PROVE  FALSE
  BY <1>0, <1>2 DEF Proceed, VTypeOK
<1>3. CASE Visit(v) \/ Enter(v) \/ LookFor(v)
  BY <1>0, <1>2, <1>3 DEF Visit, Enter, LookFor
<1>4. CASE OpenFile(v)
  BY <1>0, <1>1, <1>2, <1>4 DEF OpenFile, Settled, MayFind, Due
<1>5. CASE LookForPage(v)
  BY <1>0, <1>1, <1>2, <1>5 DEF LookForPage, Settled, MayFind, MayMiss, Due
<1>6. CASE OpenPage(v)
  BY <1>0, <1>1, <1>6 DEF OpenPage, Settled, MayFind, MayMiss, Due
<1>7. CASE Trip(v)
  BY <1>1, <1>7 DEF Trip
<1> QED
  BY <1>3, <1>4, <1>5, <1>6, <1>7 DEF VisitStep

(* A visit during which nobody changes the site is answered as if it had    *)
(* been one step, whatever stops of the process lie behind it.              *)
THEOREM QuietVisitsAreAnsweredExactly ==
    ASSUME Faults \subseteq {"crash"} PROVE VSpec => QuietVisitsAreExact
<1> DEFINE A == \A v \in Visitors :
                   Answering(v) /\ quiet[v] =>
                       LET tree == dir[asked[v].slug]
                       IN  \/ answer'[v] = Failed
                           \/ tree # None /\ answer'[v] = Due(Wanted(v), tree.of)
<1>1. VInit => QuietInv
  BY DEF VInit, QuietInv, InFlight
<1>2. IInv /\ RestInv /\ VTypeOK /\ QuietInv /\ [VNext]_vvars => QuietInv'
  <2> SUFFICES ASSUME IInv, RestInv, VTypeOK, QuietInv, [VNext]_vvars PROVE QuietInv'
    OBVIOUS
  <2>1. CASE UNCHANGED vvars
    BY <2>1 DEF vvars, vars, visits, QuietInv, Settled, Touched, Wanted, InFlight
  <2> QED
    BY <2>1, QuietStoreStep, QuietVisitStep DEF VNext
<1>3. VTypeOK /\ QuietInv /\ [VNext]_vvars => [A]_vvars
  <2> SUFFICES ASSUME VTypeOK, QuietInv, VNext, NEW v \in Visitors, Answering(v), quiet[v]
               PROVE  \/ answer'[v] = Failed
                      \/ /\ dir[asked[v].slug] # None
                         /\ answer'[v] = Due(Wanted(v), dir[asked[v].slug].of)
    BY DEF A
  <2>1. InFlight(v) /\ place'[v] = "answered"
    BY DEF Answering
  <2>2. ~StoreStep
    BY <2>1 DEF StoreStep, InFlight
  <2>3. VisitStep(v)
    BY <2>1, <2>2, OthersStay DEF VNext, InFlight
  <2> QED
    BY <2>1, <2>3, QuietAnswer DEF QuietInv
<1>4. VSpec => []IInv
  BY VisitsAreReaders, Invariance, PTL
<1>5. VSpec => []RestInv
  BY VisitsAreReaders, RestInvariance, PTL DEF OnlyStops
<1> QED
  BY <1>1, <1>2, <1>3, <1>4, <1>5, VisitTypes, PTL DEF VSpec, QuietVisitsAreExact
=============================================================================
