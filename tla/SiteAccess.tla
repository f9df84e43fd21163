----------------------------- MODULE SiteAccess -----------------------------
(***************************************************************************)
(* Who gets to see a site (src/routes/unlock.rs, src/routes/view.rs,        *)
(* src/auth/viewer_tokens.rs) while administrators change it                *)
(* (src/sites/settings.rs, src/routes/api.rs).  Visits, unlocks and API     *)
(* patches read committed rows without the mutation mutex and await a       *)
(* password worker between two reads; the rows move underneath them by the  *)
(* atomic steps of SiteCatalog, which SiteStore implements.                 *)
(*                                                                          *)
(* A credential is a generation: a password with a fresh salt, so the same  *)
(* password set twice makes two generations.  The form's origin, challenge  *)
(* and length checks come before anything else and are one refusal here.    *)
(***************************************************************************)
EXTENDS Naturals, FiniteSets

CONSTANTS
    None,               \* no row, no grant, an open site, an absent patch key
    Slugs,
    Contents, Entries, FilesOf,
    Viewers,            \* browsers, each with a cookie jar
    Patches,            \* PATCH /api/sites/{slug} requests
    Passwords,
    GrantLife,          \* VIEWER_GRANT_LIFETIME
    MaxGenerations,     \* bound on credentials ever made
    MaxTime             \* bound on the clock

ASSUME AccessAssumption ==
    /\ GrantLife \in Nat \ {0} /\ MaxGenerations \in Nat /\ MaxTime \in Nat
    /\ FilesOf \in [Contents -> SUBSET Entries] /\ Viewers \cap Patches = {}
    /\ None \notin Slugs \cup Entries \cup Passwords \cup Nat

Generations == [salt : 1..MaxGenerations, password : Passwords]

VARIABLES
    row,        \* committed rows
    now,        \* Unix time, which an operator may set back
    salts,      \* generations made so far
    grants,     \* the grant cookie of each viewer for each site
    step,       \* where each viewer and patch is in its handler
    site,       \* the slug it named
    seen,       \* the row snapshot it holds
    typed,      \* the password a viewer submitted
    patch,      \* the settings a patch asked for
    answer,     \* the last response of each viewer and patch
    proofs      \* history: the generations each viewer has proved to know

vars == <<row, now, salts, grants, step, site, seen, typed, patch, answer, proofs>>
requests == <<step, site, seen, typed, patch, answer>>

Sites == INSTANCE SiteCatalog
Rows == Sites!Rows

ASSUME NoneAssumption == None \notin Generations /\ None \notin Rows /\ None # "unlocked"

Put(s, new) == row' = [row EXCEPT ![s] = new]

(* issued is history: when the cookie was made.                             *)
Grants == [gen : Generations, until : Nat, issued : Nat]

Patchings == [entry : Entries \cup {None}, visibility : {"open", "password", None},
              password : Passwords \cup {None}, expiry : {"never", "after", None}]

(* view::available. *)
Available(r) == r # None /\ (r.expires # None => r.expires > now)
Protected(r) == r.access # None

(* Mistaken: a cookie made before the clock was set back never ends.        *)
ValidExpiryOpenEnded(until) == until > now

(* tokens::valid_expiry: not yet over, and not further off than a new one.  *)
ValidExpiry(until) == until > now /\ until <= now + GrantLife

(* Mistaken: the generation of the grant is not compared.                   *)
OpensAnyGeneration(v, s, access) ==
    grants[v][s] # None /\ ValidExpiry(grants[v][s].until)

(* Auth::verify_viewer_grant. *)
Opens(v, s, access) ==
    /\ grants[v][s] # None
    /\ grants[v][s].gen = access
    /\ ValidExpiry(grants[v][s].until)

(* A handler's response, and its next await.                                *)
Answer(x, a) ==
    /\ step' = [step EXCEPT ![x] = "idle"]
    /\ answer' = [answer EXCEPT ![x] = a]
Await(x, place) ==
    /\ step' = [step EXCEPT ![x] = place]
    /\ UNCHANGED answer

NewGrant(gen) == [gen |-> gen, until |-> now + GrantLife, issued |-> now]

(***************************************************************************)
(* Mistaken forms of Complete, which no behaviour of Spec takes.            *)
(***************************************************************************)

(* The grant is made for the credential the site has by now.                *)
CompleteForCurrent(v) ==
    /\ step[v] = "completing"
    /\ IF ~Available(row[site[v]])
       THEN Answer(v, "missing") /\ UNCHANGED grants
       ELSE /\ grants' = [grants EXCEPT ![v][site[v]] = NewGrant(row[site[v]].access)]
            /\ Answer(v, "unlocked")
    /\ UNCHANGED <<row, now, salts, site, seen, typed, patch, proofs>>

(* Access is not read again after the password worker has answered.         *)
CompleteUnchecked(v) ==
    /\ step[v] = "completing"
    /\ grants' = [grants EXCEPT ![v][site[v]] = NewGrant(seen[v].access)]
    /\ Answer(v, "unlocked")
    /\ UNCHANGED <<row, now, salts, site, seen, typed, patch, proofs>>

(***************************************************************************)
(* Viewers.                                                                 *)
(***************************************************************************)

(* serve, up to the file transfer: one row decides whether it happens.      *)
Visit(v) ==
    /\ step[v] = "idle"
    /\ \E s \in Slugs :
        /\ site' = [site EXCEPT ![v] = s]
        /\ seen' = [seen EXCEPT ![v] = row[s]]
        /\ \/ ~Available(row[s]) /\ Answer(v, "missing")
           \/ /\ Available(row[s]) /\ Protected(row[s]) /\ ~Opens(v, s, row[s].access)
              /\ Answer(v, "locked")
           \/ /\ Available(row[s]) /\ (Protected(row[s]) => Opens(v, s, row[s].access))
              /\ Await(v, "fetching")
    /\ UNCHANGED <<row, now, salts, grants, typed, patch, proofs>>

Fetch(v) ==
    /\ step[v] = "fetching"
    /\ Answer(v, "served")
    /\ UNCHANGED <<row, now, salts, grants, site, seen, typed, patch, proofs>>

(* submit, up to the password worker.                                       *)
Submit(v) ==
    /\ step[v] = "idle"
    /\ \E s \in Slugs, p \in Passwords :
        /\ site' = [site EXCEPT ![v] = s]
        /\ seen' = [seen EXCEPT ![v] = row[s]]
        /\ typed' = [typed EXCEPT ![v] = p]
        /\ \/ ~Available(row[s]) /\ Answer(v, "missing")
           \/ Available(row[s]) /\ ~Protected(row[s]) /\ Answer(v, "missing")
           \/ Available(row[s]) /\ Protected(row[s]) /\ Answer(v, "refused")
           \/ Available(row[s]) /\ Protected(row[s]) /\ Await(v, "verifying")
    /\ UNCHANGED <<row, now, salts, grants, patch, proofs>>

(* The worker checks the snapshot's credential, or turns the job away.      *)
Verify(v) ==
    /\ step[v] = "verifying"
    /\ \/ /\ typed[v] = seen[v].access.password
          /\ proofs' = [proofs EXCEPT ![v] = @ \cup {<<site[v], seen[v].access>>}]
          /\ Await(v, "completing")
       \/ /\ typed[v] # seen[v].access.password
          /\ Answer(v, "wrong")
          /\ UNCHANGED proofs
       \/ /\ Answer(v, "busy")
          /\ UNCHANGED proofs
    /\ UNCHANGED <<row, now, salts, grants, site, seen, typed, patch>>

(* complete: a second row decides whether the proof still counts.           *)
Complete(v) ==
    /\ step[v] = "completing"
    /\ LET current == row[site[v]] IN
        \/ ~Available(current) /\ Answer(v, "missing") /\ UNCHANGED grants
        \/ /\ Available(current) /\ current.access # seen[v].access
           /\ Answer(v, "changed")
           /\ UNCHANGED grants
        \/ /\ Available(current) /\ current.access = seen[v].access
           /\ grants' = [grants EXCEPT ![v][site[v]] = NewGrant(seen[v].access)]
           /\ Answer(v, "unlocked")
    /\ UNCHANGED <<row, now, salts, site, seen, typed, patch, proofs>>

(* A browser that goes away ends its request at any await, keeping cookies. *)
Leave(v) ==
    /\ step[v] # "idle"
    /\ Answer(v, None)
    /\ UNCHANGED <<row, now, salts, grants, site, seen, typed, patch, proofs>>

(***************************************************************************)
(* Administrators, as the atomic steps of the catalog.                      *)
(***************************************************************************)

(* Password::new: a fresh salt for any password.                            *)
Fresh == [salt : {salts + 1} \cap 1..MaxGenerations, password : Passwords]
Make(access, old) == salts' = IF access \in {None, old} THEN salts ELSE salts + 1
Lifetimes == {None, now + 1}

Publish(s) ==
    /\ \E u \in Contents, a \in {None} \cup Fresh, x \in Lifetimes :
        \E e \in FilesOf[u] :
            LET new == [meta |-> u, entry |-> e, access |-> a, expires |-> x] IN
            /\ Sites!Appears(row[s], new)
            /\ Put(s, new)
            /\ Make(a, None)
    /\ UNCHANGED <<now, grants, requests, proofs>>

Replace(s) ==
    /\ row[s] # None
    /\ \E u \in Contents : \E e \in FilesOf[u] :
            LET new == [row[s] EXCEPT !.meta = u, !.entry = e] IN
            /\ Sites!Renewed(row[s], new)
            /\ Put(s, new)
    /\ UNCHANGED <<now, salts, grants, requests, proofs>>

(* The settings form: every field is sent, keeping is said explicitly.      *)
Save(s) ==
    /\ row[s] # None
    /\ \E e \in FilesOf[row[s].meta], a \in {None, row[s].access} \cup Fresh,
          x \in {row[s].expires} \cup Lifetimes :
            LET new == [row[s] EXCEPT !.entry = e, !.access = a, !.expires = x] IN
            /\ Sites!Changed(row[s], new)
            /\ Put(s, new)
            /\ Make(a, row[s].access)
    /\ UNCHANGED <<now, grants, requests, proofs>>

Remove(s) ==
    /\ Sites!Vanishes(row[s], None)
    /\ Put(s, None)
    /\ UNCHANGED <<now, salts, grants, requests, proofs>>

Clock ==
    /\ now' \in 0..MaxTime
    /\ UNCHANGED <<row, salts, grants, requests, proofs>>

(***************************************************************************)
(* PATCH: keys that are absent are filled in from a row read before the     *)
(* password is hashed and before the mutex is taken.                        *)
(***************************************************************************)

Read(p) ==
    /\ step[p] = "idle" /\ patch[p] = None
    /\ \E s \in Slugs, asked \in Patchings :
        /\ site' = [site EXCEPT ![p] = s]
        /\ patch' = [patch EXCEPT ![p] = asked]
        /\ seen' = [seen EXCEPT ![p] = row[s]]
        /\ \/ row[s] = None /\ Answer(p, "missing")
           \/ row[s] # None /\ Await(p, "hashing")
    /\ UNCHANGED <<row, now, salts, grants, typed, proofs>>

(* The visibility and entry a patch resolves to.                            *)
Visibility(p) ==
    IF patch[p].visibility # None THEN patch[p].visibility
    ELSE IF Protected(seen[p]) THEN "password" ELSE "open"
Entry(p) == IF patch[p].entry # None THEN patch[p].entry ELSE seen[p].entry

(* settings::prepare: the access update that goes to Sites::update.         *)
Update(p) ==
    CASE Visibility(p) = "open" /\ patch[p].password = None -> "open"
      [] Visibility(p) = "open" /\ patch[p].password # None -> "refused"
      [] Visibility(p) = "password" /\ patch[p].password = None -> "keep"
      [] OTHER -> "set"

Prepare(p) ==
    /\ step[p] = "hashing"
    /\ \/ Update(p) = "refused" /\ Answer(p, "invalid")
       \/ Update(p) = "set" /\ Answer(p, "busy")
       \/ Update(p) # "refused" /\ Await(p, "saving")
    /\ UNCHANGED <<row, now, salts, grants, site, seen, typed, patch, proofs>>

(* Mistaken: keeps the password and checks the entry as they were read.     *)
ApplyRead(p) ==
    /\ step[p] = "saving"
    /\ IF \/ row[site[p]] = None
          \/ Update(p) = "keep" /\ ~Protected(seen[p])
          \/ Entry(p) \notin FilesOf[seen[p].meta]
       THEN Answer(p, "missing") /\ UNCHANGED <<row, salts>>
       ELSE /\ \E a \in CASE Update(p) = "open" -> {None}
                         [] Update(p) = "keep" -> {seen[p].access}
                         [] OTHER -> {g \in Fresh : g.password = patch[p].password} :
                /\ Put(site[p], [row[site[p]] EXCEPT !.entry = Entry(p), !.access = a])
                /\ Make(a, seen[p].access)
            /\ Answer(p, "ok")
    /\ UNCHANGED <<now, grants, site, seen, typed, patch, proofs>>

(* Sites::update: the password is kept from the current row, the entry must *)
(* be one of the current files.                                             *)
Apply(p) ==
    /\ step[p] = "saving"
    /\ LET current == row[site[p]] IN
        \/ current = None /\ Answer(p, "missing") /\ UNCHANGED <<row, salts>>
        \/ /\ current # None
           /\ \/ Update(p) = "keep" /\ ~Protected(current)
              \/ Entry(p) \notin FilesOf[current.meta]
           /\ Answer(p, "invalid")
           /\ UNCHANGED <<row, salts>>
        \/ /\ current # None
           /\ Update(p) = "keep" => Protected(current)
           /\ Entry(p) \in FilesOf[current.meta]
           /\ \E a \in CASE Update(p) = "open" -> {None}
                         [] Update(p) = "keep" -> {current.access}
                         [] OTHER -> {g \in Fresh : g.password = patch[p].password} :
                /\ Put(site[p], [current EXCEPT
                      !.entry = Entry(p), !.access = a,
                      !.expires = CASE patch[p].expiry = None -> current.expires
                                    [] patch[p].expiry = "never" -> None
                                    [] OTHER -> now + 1])
                /\ Make(a, current.access)
           /\ Answer(p, "ok")
    /\ UNCHANGED <<now, grants, site, seen, typed, patch, proofs>>

-----------------------------------------------------------------------------
Init ==
    /\ row = [s \in Slugs |-> None]
    /\ now = 0 /\ salts = 0
    /\ grants = [v \in Viewers |-> [s \in Slugs |-> None]]
    /\ step = [x \in Viewers \cup Patches |-> "idle"]
    /\ site = [x \in Viewers \cup Patches |-> None]
    /\ seen = [x \in Viewers \cup Patches |-> None]
    /\ typed = [v \in Viewers |-> None]
    /\ patch = [p \in Patches |-> None]
    /\ answer = [x \in Viewers \cup Patches |-> None]
    /\ proofs = [v \in Viewers |-> {}]

Administer == \E s \in Slugs : Publish(s) \/ Replace(s) \/ Save(s) \/ Remove(s)
View(v) == Visit(v) \/ Fetch(v) \/ Submit(v) \/ Verify(v) \/ Complete(v) \/ Leave(v)
Amend(p) == Read(p) \/ Prepare(p) \/ Apply(p)

Next ==
    \/ \E v \in Viewers : View(v)
    \/ \E p \in Patches : Amend(p)
    \/ Administer \/ Clock

Spec == Init /\ [][Next]_vars

-----------------------------------------------------------------------------
(***************************************************************************)
(* Properties.                                                              *)
(***************************************************************************)

Answers == {None, "missing", "locked", "served", "refused", "wrong", "busy", "changed",
            "unlocked", "invalid", "ok"}

(* Every variable stays in its type; a grant is always for a credential.    *)
TypeOK ==
    /\ row \in [Slugs -> Rows \cup {None}]
    /\ now \in Nat /\ salts \in 0..MaxGenerations
    /\ grants \in [Viewers -> [Slugs -> Grants \cup {None}]]
    /\ step \in [Viewers \cup Patches ->
                    {"idle", "fetching", "verifying", "completing", "hashing", "saving"}]
    /\ site \in [Viewers \cup Patches -> Slugs \cup {None}]
    /\ seen \in [Viewers \cup Patches -> Rows \cup {None}]
    /\ typed \in [Viewers -> Passwords \cup {None}]
    /\ patch \in [Patches -> Patchings \cup {None}]
    /\ answer \in [Viewers \cup Patches -> Answers]
    /\ proofs \in [Viewers -> SUBSET (Slugs \X Generations)]

(* A grant refers only to the generation actually verified, for the site it *)
(* was verified for, whatever was saved while the worker ran (complete).    *)
GrantsAreEarned ==
    \A v \in Viewers, s \in Slugs :
        grants[v][s] # None => <<s, grants[v][s].gen>> \in proofs[v]

(* Nobody is let into a protected site without having proved the password   *)
(* generation of the very row that let them in: a changed password, or a    *)
(* site deleted and published again at the same slug, ends every old grant. *)
ServedIsUnlocked ==
    \A v \in Viewers :
        step[v] = "fetching" /\ Protected(seen[v]) =>
            <<site[v], seen[v].access>> \in proofs[v]

(* A grant lets in for its lifetime from the moment it was made and not     *)
(* before or after, even when visits go on or the clock is set back.        *)
GrantsAreNotRefreshed ==
    [][\A v \in Viewers :
           step[v] = "idle" /\ step'[v] = "fetching" /\ Protected(seen'[v]) =>
               LET issued == grants[v][site'[v]].issued
               IN  issued <= now /\ now < issued + GrantLife]_vars

(* An unlock that reports success has unlocked: the next visit gets in      *)
(* unless access changes again.                                             *)
UnlockedOpens ==
    [][\A v \in Viewers :
           step[v] = "completing" /\ answer'[v] = "unlocked" /\ step'[v] = "idle" =>
               LET current == row[site[v]] IN
               /\ Available(current)
               /\ Protected(current) /\ grants'[v][site[v]].gen = current.access]_vars

(* A password generation that a save, a deletion or a publish has replaced  *)
(* never comes back, not even by a PATCH that read its row before that and  *)
(* keeps the password: every generation on a site is the one that was there *)
(* a step earlier or a new one.                                             *)
ReplacedStaysReplaced ==
    [][\A s \in Slugs :
           row'[s] # None /\ Protected(row'[s]) =>
               \/ row[s] # None /\ row'[s].access = row[s].access
               \/ row'[s].access.salt > salts]_vars

(* The entry a site opens with is one of its files, even when a PATCH       *)
(* chose it from a row whose site was deleted and published anew meanwhile. *)
EntryExists ==
    \A s \in Slugs : row[s] # None => row[s].entry \in FilesOf[row[s].meta]

(* The doc comment of Patch: "absent keys keep the current values".         *)
AbsentKeysKeep ==
    [][\A p \in Patches :
           step[p] = "saving" /\ answer'[p] = "ok" =>
               LET old == row[site[p]]
                   new == row'[site[p]]
               IN  /\ patch[p].entry = None => new.entry = old.entry
                   /\ patch[p].visibility = None /\ patch[p].password = None
                        => new.access = old.access]_vars
=============================================================================
