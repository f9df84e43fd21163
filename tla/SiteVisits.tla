----------------------------- MODULE SiteVisits -----------------------------
(***************************************************************************)
(* Visits to published sites (src/routes/view.rs) beside the storage core.  *)
(* A visit reads the site's row in one await, then looks at and opens files *)
(* in the site's directory in later ones, and never takes the mutex that    *)
(* publications, replacements and deletions hold: any of their steps, a     *)
(* stop of the process included, may fall between two steps of a visit.     *)
(*                                                                          *)
(* A visit asks for a file by its path, or for the site itself (path None), *)
(* which is answered with the entry of the row it read.                     *)
(***************************************************************************)
EXTENDS SiteStore

CONSTANTS
    Visitors,           \* clients, each with at most one visit in flight
    NotFoundPage,       \* NOT_FOUND_FILE, the site's own page for missing files
    VisitFaults         \* which of "fs", "db" a visit can run into

ASSUME VisitAssumption ==
    /\ NotFoundPage \in Entries /\ None \notin Entries
    /\ None \notin [slug : Slugs, path : Entries \cup {None}]

VARIABLES
    place,      \* where each visit is: "away", a step of its handler, or "answered"
    asked,      \* the slug and path of each visit
    seen,       \* the row each visit read
    answer,     \* what each visit was sent
    placed,     \* history: the uploads that have stood in sites/<slug>
    gone,       \* history: those an acknowledged mutation has done away with
    outdated,   \* history: what was gone when the visit read its row
    quiet       \* history: nobody has been changing the site since then

visits == <<place, asked, seen, answer, outdated, quiet>>
vvars == <<vars, visits, placed, gone>>

Answers == [status : {"found", "missing"}, of : Contents, file : Entries]
                \cup [status : {"bare", "error"}]
Bare == [status |-> "bare"]         \* a 404 without a page of the site's own
Failed == [status |-> "error"]
InFlight(v) == place[v] \notin {"away", "answered"}

(* The file a visit is after: the entry of its row, or the path it named.   *)
Wanted(v) == IF asked[v].path = None THEN seen[v].entry ELSE asked[v].path

(* Whether a file may be found in, or may be missing from, a directory; in a *)
(* directory that is being removed either can be.                           *)
MayFind(s, file) == dir[s] # None /\ dir[s].is # "empty" /\ file \in FilesOf[dir[s].of]
MayMiss(s, file) == ~(MayFind(s, file) /\ dir[s].is = "whole")

(***************************************************************************)
(* The steps of a visit.                                                    *)
(***************************************************************************)

Proceed(v, step) ==
    /\ place' = [place EXCEPT ![v] = step]
    /\ UNCHANGED <<vars, placed, gone, asked, seen, answer, outdated, quiet>>

(* A visit that ends forgets everything but its answer.                     *)
Respond(v, what) ==
    /\ place' = [place EXCEPT ![v] = "answered"]
    /\ answer' = [answer EXCEPT ![v] = what]
    /\ asked' = [asked EXCEPT ![v] = None] /\ seen' = [seen EXCEPT ![v] = None]
    /\ outdated' = [outdated EXCEPT ![v] = {}] /\ quiet' = [quiet EXCEPT ![v] = TRUE]
    /\ UNCHANGED <<vars, placed, gone>>

(* Mistaken: a missing file is answered without looking for the site's own  *)
(* error page.                                                              *)
LookForPlainly(v) ==
    /\ place[v] = "finding"
    /\ LET s == asked[v].slug IN
        \/ MayFind(s, Wanted(v)) /\ Proceed(v, "opening")
        \/ MayMiss(s, Wanted(v)) /\ Respond(v, Bare)

(* serve: the row, its expiry, and the answer to a site nobody can see.     *)
Visit(v) ==
    /\ Serving /\ ~InFlight(v)
    /\ \E s \in Slugs :
        \/ (row[s] = None \/ Expired(row[s])) /\ Respond(v, Bare)
        \/ "db" \in VisitFaults /\ Respond(v, Failed)
        \/ /\ row[s] # None /\ ~Expired(row[s])
           /\ \E path \in Entries \cup {None} :
                /\ asked' = [asked EXCEPT ![v] = [slug |-> s, path |-> path]]
                /\ place' = [place EXCEPT ![v] = IF path = None THEN "entering" ELSE "finding"]
           /\ seen' = [seen EXCEPT ![v] = row[s]]
           /\ answer' = [answer EXCEPT ![v] = None]
           /\ outdated' = [outdated EXCEPT ![v] = gone[s]]
           /\ quiet' = [quiet EXCEPT ![v] = \A x \in Actors : lock = x => at[x] # s]
           /\ UNCHANGED <<vars, placed, gone>>

(* A visit to the site itself first makes sure of its directory.            *)
Enter(v) ==
    /\ place[v] = "entering"
    /\ \/ dir[asked[v].slug] # None /\ Proceed(v, "finding")
       \/ dir[asked[v].slug] = None /\ Respond(v, Bare)

(* safe_metadata of the file; what is not there goes to not_found.          *)
LookFor(v) ==
    /\ place[v] = "finding"
    /\ LET s == asked[v].slug IN
        \/ MayFind(s, Wanted(v)) /\ Proceed(v, "opening")
        \/ MayMiss(s, Wanted(v)) /\ Proceed(v, "missing")

(* ServeFile and ServeDir open the path again.                              *)
OpenFile(v) ==
    /\ place[v] = "opening"
    /\ LET s == asked[v].slug IN
        \/ /\ MayFind(s, Wanted(v))
           /\ Respond(v, [status |-> "found", of |-> dir[s].of, file |-> Wanted(v)])
        \/ MayMiss(s, Wanted(v)) /\ Proceed(v, "missing")

(* not_found: the site's own page if it has one.                            *)
LookForPage(v) ==
    /\ place[v] = "missing"
    /\ LET s == asked[v].slug IN
        \/ MayFind(s, NotFoundPage) /\ Proceed(v, "excusing")
        \/ MayMiss(s, NotFoundPage) /\ Respond(v, Bare)

OpenPage(v) ==
    /\ place[v] = "excusing"
    /\ LET s == asked[v].slug IN
        \/ /\ MayFind(s, NotFoundPage)
           /\ Respond(v, [status |-> "missing", of |-> dir[s].of, file |-> NotFoundPage])
        \/ MayMiss(s, NotFoundPage) /\ Respond(v, Bare)

(* Any look at the filesystem may fail for another reason than absence.     *)
Trip(v) == InFlight(v) /\ "fs" \in VisitFaults /\ Respond(v, Failed)

VisitStep(v) == \/ Visit(v) \/ Enter(v) \/ LookFor(v) \/ OpenFile(v)
                \/ LookForPage(v) \/ OpenPage(v) \/ Trip(v)

(***************************************************************************)
(* What the steps of the storage core do to visits and to their history.    *)
(***************************************************************************)

(* Mutations of s whose caller is told "ok" by this step.                   *)
Acknowledged(s) ==
    {j \in Jobs : pc[j] # "done" /\ pc'[j] = "done" /\ outcome'[j] = "ok" /\ at[j] = s
                  /\ req[j].op \in {"publish", "replace", "delete"}}

Remember ==
    /\ placed' = [s \in Slugs |->
          IF dir'[s] = None THEN placed[s] ELSE placed[s] \cup {dir'[s].of}]
    /\ gone' = [s \in Slugs |->
          IF Acknowledged(s) = {} THEN gone[s]
          ELSE placed[s] \ {j \in Acknowledged(s) : req[j].op # "delete"}]

(* A process that stops takes its visits with it; otherwise they go on, and *)
(* notice whether the site they are at is being changed.                    *)
Lost(v) == InFlight(v) /\ phase' = "down"

StoreStep ==
    /\ Next /\ Remember
    /\ place' = [v \in Visitors |-> IF Lost(v) THEN "away" ELSE place[v]]
    /\ asked' = [v \in Visitors |-> IF Lost(v) THEN None ELSE asked[v]]
    /\ seen' = [v \in Visitors |-> IF Lost(v) THEN None ELSE seen[v]]
    /\ outdated' = [v \in Visitors |-> IF Lost(v) THEN {} ELSE outdated[v]]
    /\ quiet' = [v \in Visitors |->
          \/ Lost(v) \/ ~InFlight(v)
          \/ quiet[v] /\ \A x \in Actors : lock' = x => at[x] # asked[v].slug]
    /\ UNCHANGED answer

VInit ==
    /\ Init
    /\ place = [v \in Visitors |-> "away"]
    /\ asked = [v \in Visitors |-> None] /\ seen = [v \in Visitors |-> None]
    /\ answer = [v \in Visitors |-> None]
    /\ placed = [s \in Slugs |-> IF dir[s] = None THEN {} ELSE {Old}]
    /\ gone = [s \in Slugs |-> {}]
    /\ outdated = [v \in Visitors |-> {}]
    /\ quiet = [v \in Visitors |-> TRUE]

VNext == StoreStep \/ \E v \in Visitors : VisitStep(v)

VSpec == VInit /\ [][VNext]_vvars

-----------------------------------------------------------------------------
(* Every visit stays in its handler.                                        *)
VTypeOK ==
    /\ place \in [Visitors -> {"away", "entering", "finding", "opening",
                               "missing", "excusing", "answered"}]
    /\ asked \in [Visitors -> [slug : Slugs, path : Entries \cup {None}] \cup {None}]
    /\ seen \in [Visitors -> Rows \cup {None}]
    /\ answer \in [Visitors -> Answers \cup {None}]
    /\ \A v \in Visitors : InFlight(v) => asked[v] # None /\ seen[v] # None
    /\ placed \in [Slugs -> SUBSET Contents] /\ gone \in [Slugs -> SUBSET Contents]
    /\ outdated \in [Visitors -> SUBSET Contents] /\ quiet \in [Visitors -> BOOLEAN]

Answering(v) == InFlight(v) /\ place'[v] = "answered"

(* Once a publication, a replacement or a deletion has been acknowledged, a *)
(* visit that reads its row afterwards is never sent a file or an error     *)
(* page of an upload the acknowledged one did away with, whatever other     *)
(* mutations it races with and wherever the process stopped in between      *)
(* (serve reads row and files without the mutex, view.rs:114-131).          *)
NothingOutdatedIsSent ==
    [][\A v \in Visitors :
           Answering(v) /\ answer'[v].status \in {"found", "missing"}
               => answer'[v].of \notin outdated[v]]_vvars

(* What a site would answer if a visit were one step.                       *)
Due(file, content) ==
    IF file \in FilesOf[content] THEN [status |-> "found", of |-> content, file |-> file]
    ELSE IF NotFoundPage \in FilesOf[content]
    THEN [status |-> "missing", of |-> content, file |-> NotFoundPage]
    ELSE Bare

(* A visit during which nobody changes the site is answered as if it had    *)
(* been one step: with the file of the tree that is there, with that same   *)
(* tree's own error page, and never with a 404 for a file that exists, also *)
(* after processes were stopped in the middle of a mutation of the site.    *)
QuietVisitsAreExact ==
    [][\A v \in Visitors :
           Answering(v) /\ quiet[v] =>
               LET tree == dir[asked[v].slug]
               IN  \/ answer'[v] = Failed
                   \/ tree # None /\ answer'[v] = Due(Wanted(v), tree.of)]_vvars
=============================================================================
