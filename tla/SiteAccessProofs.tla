-------------------------- MODULE SiteAccessProofs --------------------------
(***************************************************************************)
(* The properties of SiteAccess for any sites, uploads, viewers, patches    *)
(* and passwords, and any clock.                                            *)
(***************************************************************************)
EXTENDS SiteAccess, TLAPS

(* A request past its first row holds that row, and an unlock's row is      *)
(* protected; a viewer never is where a patch is, nor the other way round.  *)
Holding ==
    /\ \A v \in Viewers :
        /\ step[v] \notin {"hashing", "saving"}
        /\ step[v] # "idle" => site[v] \in Slugs /\ seen[v] \in Rows
        /\ step[v] \in {"verifying", "completing"} =>
               seen[v].access \in Generations /\ typed[v] \in Passwords
    /\ \A p \in Patches :
        step[p] # "idle" => site[p] \in Slugs /\ seen[p] \in Rows /\ patch[p] \in Patchings

(* What the grants rest on: a proof precedes the grant and the visit, and a *)
(* grant ends GrantLife after it was made.                                  *)
Proved ==
    \A v \in Viewers :
        step[v] = "completing" => <<site[v], seen[v].access>> \in proofs[v]
Lasting ==
    \A v \in Viewers, s \in Slugs :
        grants[v][s] # None => grants[v][s].until = grants[v][s].issued + GrantLife

Inv == TypeOK /\ Holding /\ Proved /\ Lasting /\ GrantsAreEarned /\ ServedIsUnlocked

LEMMA InitInv == Init => Inv
<1> SUFFICES ASSUME Init PROVE Inv
  OBVIOUS
<1>1. TypeOK
  BY AccessAssumption DEF Init, TypeOK, Answers
<1>2. Holding /\ Proved /\ ServedIsUnlocked
  BY DEF Init, Holding, Proved, ServedIsUnlocked
<1>3. Lasting /\ GrantsAreEarned
  BY DEF Init, Lasting, GrantsAreEarned
<1> QED
  BY <1>1, <1>2, <1>3 DEF Inv

LEMMA AnswersKept ==
    ASSUME TypeOK, NEW x \in Viewers \cup Patches,
           answer' = answer \/ \E a \in Answers : answer' = [answer EXCEPT ![x] = a]
    PROVE  answer' \in [Viewers \cup Patches -> Answers]
<1>1. answer \in [Viewers \cup Patches -> Answers]
  BY DEF TypeOK
<1> QED
  BY <1>1

(* One step of a viewer. *)
LEMMA ViewTypes ==
    ASSUME TypeOK, Holding, NEW v \in Viewers, View(v)
    PROVE  TypeOK' /\ Holding'
<1> USE AccessAssumption, NoneAssumption DEF Answer, Await, Answers, Available, Protected, requests
<1>0. row \in [Slugs -> Rows \cup {None}] /\ v \in Viewers \cup Patches
  BY DEF TypeOK
<1>1. ASSUME Visit(v) PROVE TypeOK' /\ Holding'
  <2>1. PICK s \in Slugs :
            /\ site' = [site EXCEPT ![v] = s]
            /\ seen' = [seen EXCEPT ![v] = row[s]]
            /\ \/ step' = [step EXCEPT ![v] = "idle"]
               \/ row[s] # None /\ step' = [step EXCEPT ![v] = "fetching"]
            /\ answer' = answer \/ \E a \in Answers : answer' = [answer EXCEPT ![v] = a]
    BY <1>1 DEF Visit
  <2>4. step' \in [Viewers \cup Patches ->
                    {"idle", "fetching", "verifying", "completing", "hashing", "saving"}]
    BY <1>0, <2>1 DEF TypeOK
  <2>5. answer' \in [Viewers \cup Patches -> Answers]
    BY <1>0, <2>1, AnswersKept
  <2>6. /\ site' \in [Viewers \cup Patches -> Slugs \cup {None}]
        /\ seen' \in [Viewers \cup Patches -> Rows \cup {None}]
    BY <1>0, <2>1 DEF TypeOK
  <2>7. UNCHANGED <<row, now, salts, grants, typed, patch, proofs>>
    BY <1>1 DEF Visit
  <2>2. TypeOK'
    BY <2>4, <2>5, <2>6, <2>7 DEF TypeOK
  <2>3. Holding'
    BY <1>0, <1>1, <2>1 DEF Visit, TypeOK, Holding
  <2> QED
    BY <2>2, <2>3
<1>2. ASSUME Submit(v) PROVE TypeOK' /\ Holding'
  <2>1. PICK s \in Slugs, p \in Passwords :
            /\ site' = [site EXCEPT ![v] = s]
            /\ seen' = [seen EXCEPT ![v] = row[s]]
            /\ typed' = [typed EXCEPT ![v] = p]
            /\ \/ step' = [step EXCEPT ![v] = "idle"]
               \/ /\ row[s] # None /\ row[s].access # None
                  /\ step' = [step EXCEPT ![v] = "verifying"]
            /\ answer' = answer \/ \E a \in Answers : answer' = [answer EXCEPT ![v] = a]
    BY <1>2 DEF Submit
  <2>2. typed' \in [Viewers -> Passwords \cup {None}]
    BY <2>1 DEF TypeOK
  <2>5. /\ site' \in [Viewers \cup Patches -> Slugs \cup {None}]
        /\ seen' \in [Viewers \cup Patches -> Rows \cup {None}]
    BY <1>0, <2>1 DEF TypeOK
  <2>7. step' \in [Viewers \cup Patches ->
                    {"idle", "fetching", "verifying", "completing", "hashing", "saving"}]
    BY <1>0, <2>1 DEF TypeOK
  <2>8. answer' \in [Viewers \cup Patches -> Answers]
    BY <1>0, <2>1, AnswersKept
  <2>9. UNCHANGED <<row, now, salts, grants, patch, proofs>>
    BY <1>2 DEF Submit
  <2>6. TypeOK'
    BY <2>2, <2>5, <2>7, <2>8, <2>9 DEF TypeOK
  <2>3. row[s] # None /\ row[s].access # None => row[s].access \in Generations
    BY <1>0 DEF Rows, Sites!Rows
  <2>4. Holding'
    BY <1>0, <1>2, <2>1, <2>3 DEF Submit, TypeOK, Holding
  <2> QED
    BY <2>4, <2>6
<1>3. ASSUME Verify(v) PROVE TypeOK' /\ Holding'
  <2>3. seen[v].access \in Generations /\ site[v] \in Slugs
    BY <1>3 DEF Verify, Holding
  <2>4. proofs' \in [Viewers -> SUBSET (Slugs \X Generations)]
    BY <1>3, <2>3 DEF Verify, TypeOK
  <2>1. TypeOK'
    BY <1>0, <1>3, <2>4 DEF Verify, TypeOK
  <2>2. Holding'
    BY <1>0, <1>3 DEF Verify, TypeOK, Holding
  <2> QED
    BY <2>1, <2>2
<1>4. ASSUME Complete(v) PROVE TypeOK' /\ Holding'
  <2>1. seen[v].access \in Generations /\ site[v] \in Slugs
    BY <1>4 DEF Complete, Holding
  <2>2. NewGrant(seen[v].access) \in Grants
    BY <2>1 DEF NewGrant, Grants, TypeOK
  <2>3. grants' \in [Viewers -> [Slugs -> Grants \cup {None}]]
    <3>1. \/ grants' = grants
          \/ grants' = [grants EXCEPT ![v] =
                           [grants[v] EXCEPT ![site[v]] = NewGrant(seen[v].access)]]
      BY <1>4 DEF Complete
    <3>2. grants[v] \in [Slugs -> Grants \cup {None}]
      BY DEF TypeOK
    <3>3. [grants[v] EXCEPT ![site[v]] = NewGrant(seen[v].access)]
              \in [Slugs -> Grants \cup {None}]
      BY <2>1, <2>2, <3>2
    <3> QED
      BY <3>1, <3>3 DEF TypeOK
  <2>4. TypeOK'
    BY <1>0, <1>4, <2>3 DEF Complete, TypeOK
  <2>5. Holding'
    BY <1>0, <1>4 DEF Complete, TypeOK, Holding
  <2> QED
    BY <2>4, <2>5
<1>5. ASSUME Fetch(v) \/ Leave(v) PROVE TypeOK' /\ Holding'
  BY <1>0, <1>5 DEF Fetch, Leave, TypeOK, Holding
<1> QED
  BY <1>1, <1>2, <1>3, <1>4, <1>5 DEF View

(* A catalog step keeps the rows in their type. *)
LEMMA PutTypes ==
    ASSUME TypeOK, NEW s \in Slugs, NEW new \in Rows \cup {None}, Put(s, new)
    PROVE  row' \in [Slugs -> Rows \cup {None}]
  BY DEF Put, TypeOK

LEMMA MakeTypes ==
    ASSUME TypeOK, NEW a, NEW old, Make(a, old), a \in {None, old} \/ a \in Fresh
    PROVE  salts' \in 0..MaxGenerations
  BY AccessAssumption DEF Make, Fresh, TypeOK

LEMMA FreshIsNew ==
    ASSUME TypeOK, NEW g \in Fresh
    PROVE  g \in Generations /\ g.salt > salts
  BY DEF Fresh, Generations, TypeOK

(* One step of an administrator. *)
LEMMA AdminTypes ==
    ASSUME TypeOK, Administer
    PROVE  /\ row' \in [Slugs -> Rows \cup {None}]
           /\ salts' \in 0..MaxGenerations
           /\ UNCHANGED <<now, grants, requests, proofs>>
<1> PICK s \in Slugs : Publish(s) \/ Replace(s) \/ Save(s) \/ Remove(s)
  BY DEF Administer
<1> USE DEF Rows, Sites!Appears, Sites!Renewed, Sites!Changed
<1>1. CASE Publish(s)
  <2>1. PICK u \in Contents, a \in {None} \cup Fresh, x \in Lifetimes : \E e \in FilesOf[u] :
            LET new == [meta |-> u, entry |-> e, access |-> a, expires |-> x]
            IN  new \in Rows /\ Put(s, new) /\ Make(a, None)
    BY <1>1 DEF Publish
  <2> QED
    BY <1>1, <2>1, PutTypes, MakeTypes DEF Publish
<1>2. CASE Replace(s)
  <2>1. \E new \in Rows : Put(s, new)
    BY <1>2 DEF Replace
  <2> QED
    BY <1>2, <2>1, PutTypes DEF Replace, TypeOK
<1>3. CASE Save(s)
  <2>1. PICK a \in {None, row[s].access} \cup Fresh :
            Make(a, row[s].access) /\ \E new \in Rows : Put(s, new)
    BY <1>3 DEF Save
  <2> QED
    BY <1>3, <2>1, PutTypes, MakeTypes DEF Save
<1>4. CASE Remove(s)
  BY <1>4, PutTypes DEF Remove, TypeOK
<1> QED
  BY <1>1, <1>2, <1>3, <1>4

(* One step of a patch: what Apply saves is a row again. *)
LEMMA AmendTypes ==
    ASSUME TypeOK, Holding, NEW p \in Patches, Amend(p)
    PROVE  TypeOK' /\ Holding'
<1> USE AccessAssumption, NoneAssumption DEF Answer, Await, Answers
<1>0. row \in [Slugs -> Rows \cup {None}] /\ p \in Viewers \cup Patches /\ p \notin Viewers
  BY DEF TypeOK
<1>1. ASSUME Read(p) PROVE TypeOK' /\ Holding'
  <2>1. PICK s \in Slugs, asked \in Patchings :
            /\ site' = [site EXCEPT ![p] = s]
            /\ patch' = [patch EXCEPT ![p] = asked]
            /\ seen' = [seen EXCEPT ![p] = row[s]]
            /\ \/ step' = [step EXCEPT ![p] = "idle"]
               \/ row[s] # None /\ step' = [step EXCEPT ![p] = "hashing"]
            /\ answer' = answer \/ \E a \in Answers : answer' = [answer EXCEPT ![p] = a]
    BY <1>1 DEF Read
  <2>2. /\ site' \in [Viewers \cup Patches -> Slugs \cup {None}]
        /\ seen' \in [Viewers \cup Patches -> Rows \cup {None}]
        /\ patch' \in [Patches -> Patchings \cup {None}]
    BY <1>0, <2>1 DEF TypeOK
  <2>5. step' \in [Viewers \cup Patches ->
                    {"idle", "fetching", "verifying", "completing", "hashing", "saving"}]
    BY <1>0, <2>1 DEF TypeOK
  <2>7. answer' \in [Viewers \cup Patches -> Answers]
    BY <1>0, <2>1, AnswersKept
  <2>6. UNCHANGED <<row, now, salts, grants, typed, proofs>>
    BY <1>1 DEF Read
  <2>3. TypeOK'
    BY <2>2, <2>5, <2>6, <2>7 DEF TypeOK
  <2>4. Holding'
    BY <1>0, <1>1, <2>1 DEF Read, TypeOK, Holding
  <2> QED
    BY <2>3, <2>4
<1>2. ASSUME Prepare(p) PROVE TypeOK' /\ Holding'
  BY <1>0, <1>2 DEF Prepare, TypeOK, Holding
<1>3. ASSUME Apply(p) PROVE TypeOK' /\ Holding'
  <2>1. /\ site[p] \in Slugs /\ seen[p] \in Rows /\ patch[p] \in Patchings
        /\ \/ step' = [step EXCEPT ![p] = "idle"]
        /\ \E a \in Answers : answer' = [answer EXCEPT ![p] = a]
        /\ UNCHANGED <<now, grants, site, seen, typed, patch, proofs>>
    BY <1>3 DEF Apply, Holding
  <2>2. row' \in [Slugs -> Rows \cup {None}] /\ salts' \in 0..MaxGenerations
    <3>1. CASE UNCHANGED <<row, salts>>
      BY <3>1 DEF TypeOK
    <3>2. ASSUME row[site[p]] # None, NEW a \in {None, row[site[p]].access} \cup Fresh,
                 NEW x \in {row[site[p]].expires, None, now + 1},
                 Put(site[p], [row[site[p]] EXCEPT !.entry = Entry(p), !.access = a, !.expires = x]),
                 Make(a, row[site[p]].access)
          PROVE  row' \in [Slugs -> Rows \cup {None}] /\ salts' \in 0..MaxGenerations
      <4>1. row[site[p]] \in Rows /\ Entry(p) \in Entries
        BY <2>1, <3>2 DEF TypeOK, Entry, Patchings, Rows, Sites!Rows
      <4>3. a \in Generations \cup {None}
        BY <4>1, FreshIsNew DEF Rows, Sites!Rows
      <4>4. x \in Nat \cup {None}
        BY <4>1 DEF TypeOK, Rows, Sites!Rows
      <4>2. [row[site[p]] EXCEPT !.entry = Entry(p), !.access = a, !.expires = x] \in Rows
        BY <4>1, <4>3, <4>4 DEF Rows, Sites!Rows
      <4> QED
        BY <2>1, <3>2, <4>2, PutTypes, MakeTypes
    <3>3. \/ UNCHANGED <<row, salts>>
          \/ /\ row[site[p]] # None
             /\ \E a \in {None, row[site[p]].access} \cup Fresh,
                   x \in {row[site[p]].expires, None, now + 1} :
                /\ Put(site[p],
                       [row[site[p]] EXCEPT !.entry = Entry(p), !.access = a, !.expires = x])
                /\ Make(a, row[site[p]].access)
      BY <1>3 DEF Apply
    <3> QED
      BY <3>1, <3>2, <3>3
  <2>3. TypeOK'
    BY <1>0, <2>1, <2>2 DEF TypeOK
  <2>4. Holding'
    BY <1>0, <2>1 DEF TypeOK, Holding
  <2> QED
    BY <2>3, <2>4
<1> QED
  BY <1>1, <1>2, <1>3 DEF Amend

LEMMA NextTypes == TypeOK /\ Holding /\ [Next]_vars => TypeOK' /\ Holding'
<1> SUFFICES ASSUME TypeOK, Holding, [Next]_vars PROVE TypeOK' /\ Holding'
  OBVIOUS
<1>1. CASE UNCHANGED vars
  BY <1>1 DEF vars, TypeOK, Holding
<1>2. CASE Administer
  BY <1>2, AdminTypes DEF TypeOK, Holding, requests
<1>3. CASE Clock
  BY <1>3, AccessAssumption DEF Clock, TypeOK, Holding, requests
<1> QED
  BY <1>1, <1>2, <1>3, ViewTypes, AmendTypes DEF Next

(* One step of a viewer keeps what the grants rest on. *)
LEMMA ViewGrants ==
    ASSUME Inv, NEW v \in Viewers, View(v)
    PROVE  Proved' /\ Lasting' /\ GrantsAreEarned' /\ ServedIsUnlocked'
<1> USE DEF Answer, Await, Protected
<1>0. /\ TypeOK /\ Holding /\ Proved /\ Lasting /\ GrantsAreEarned /\ ServedIsUnlocked
      /\ step \in [Viewers \cup Patches ->
                    {"idle", "fetching", "verifying", "completing", "hashing", "saving"}]
      /\ site \in [Viewers \cup Patches -> Slugs \cup {None}]
      /\ seen \in [Viewers \cup Patches -> Rows \cup {None}]
      /\ grants \in [Viewers -> [Slugs -> Grants \cup {None}]]
      /\ proofs \in [Viewers -> SUBSET (Slugs \X Generations)]
      /\ v \in Viewers \cup Patches
  BY DEF Inv, TypeOK
<1>1. ASSUME Visit(v)
      PROVE  Proved' /\ Lasting' /\ GrantsAreEarned' /\ ServedIsUnlocked'
  <2>1. PICK s \in Slugs :
            /\ site' = [site EXCEPT ![v] = s]
            /\ seen' = [seen EXCEPT ![v] = row[s]]
            /\ \/ step' = [step EXCEPT ![v] = "idle"]
               \/ /\ step' = [step EXCEPT ![v] = "fetching"]
                  /\ row[s].access # None => Opens(v, s, row[s].access)
    BY <1>1 DEF Visit
  <2>2. UNCHANGED <<grants, proofs>>
    BY <1>1 DEF Visit
  <2>3. Opens(v, s, row[s].access) => <<s, row[s].access>> \in proofs[v]
    BY <1>0 DEF Opens, GrantsAreEarned
  <2>4. Proved'
    BY <1>0, <2>1, <2>2 DEF Proved
  <2>5. ServedIsUnlocked'
    BY <1>0, <2>1, <2>2, <2>3 DEF ServedIsUnlocked
  <2> QED
    BY <1>0, <2>2, <2>4, <2>5 DEF Lasting, GrantsAreEarned
<1>2. ASSUME Submit(v)
      PROVE  Proved' /\ Lasting' /\ GrantsAreEarned' /\ ServedIsUnlocked'
  <2>1. /\ \E x, y : site' = [site EXCEPT ![v] = x] /\ seen' = [seen EXCEPT ![v] = y]
        /\ step' = [step EXCEPT ![v] = "idle"] \/ step' = [step EXCEPT ![v] = "verifying"]
        /\ UNCHANGED <<grants, proofs>>
    BY <1>2 DEF Submit
  <2> QED
    BY <1>0, <2>1 DEF Proved, Lasting, GrantsAreEarned, ServedIsUnlocked
<1>3. ASSUME Verify(v)
      PROVE  Proved' /\ Lasting' /\ GrantsAreEarned' /\ ServedIsUnlocked'
  <2>1. /\ UNCHANGED <<grants, site, seen>>
        /\ \/ step' = [step EXCEPT ![v] = "idle"] /\ proofs' = proofs
           \/ /\ step' = [step EXCEPT ![v] = "completing"]
              /\ proofs' = [proofs EXCEPT ![v] = @ \cup {<<site[v], seen[v].access>>}]
    BY <1>3 DEF Verify
  <2> QED
    BY <1>0, <2>1 DEF Proved, Lasting, GrantsAreEarned, ServedIsUnlocked
<1>4. ASSUME Complete(v)
      PROVE  Proved' /\ Lasting' /\ GrantsAreEarned' /\ ServedIsUnlocked'
  <2>1. /\ step' = [step EXCEPT ![v] = "idle"]
        /\ UNCHANGED <<site, seen, proofs>>
        /\ \/ grants' = grants
           \/ grants' = [grants EXCEPT ![v][site[v]] = NewGrant(seen[v].access)]
    BY <1>4 DEF Complete
  <2>2. site[v] \in Slugs /\ <<site[v], seen[v].access>> \in proofs[v]
    BY <1>0, <1>4 DEF Complete, Holding, Proved
  <2>3. Proved' /\ ServedIsUnlocked'
    BY <1>0, <2>1 DEF Proved, ServedIsUnlocked
  <2>4. /\ NewGrant(seen[v].access).gen = seen[v].access
        /\ NewGrant(seen[v].access).until = NewGrant(seen[v].access).issued + GrantLife
    BY DEF NewGrant
  <2>5. ASSUME NEW w \in Viewers, NEW s \in Slugs, grants'[w][s] # None
        PROVE  /\ grants'[w][s].until = grants'[w][s].issued + GrantLife
               /\ <<s, grants'[w][s].gen>> \in proofs'[w]
    <3>1. CASE grants'[w][s] = grants[w][s]
      BY <1>0, <2>1, <2>5, <3>1 DEF Lasting, GrantsAreEarned
    <3>2. CASE w = v /\ s = site[v] /\ grants'[w][s] = NewGrant(seen[v].access)
      BY <2>1, <2>2, <2>4, <3>2
    <3> QED
      BY <1>0, <2>1, <2>2, <3>1, <3>2
  <2> QED
    BY <2>3, <2>5 DEF Lasting, GrantsAreEarned
<1>5. ASSUME Fetch(v) \/ Leave(v)
      PROVE  Proved' /\ Lasting' /\ GrantsAreEarned' /\ ServedIsUnlocked'
  BY <1>0, <1>5 DEF Fetch, Leave, Proved, Lasting, GrantsAreEarned, ServedIsUnlocked
<1> QED
  BY <1>1, <1>2, <1>3, <1>4, <1>5 DEF View

LEMMA NextInv == Inv /\ [Next]_vars => Inv'
<1> SUFFICES ASSUME Inv, [Next]_vars PROVE Inv'
  OBVIOUS
<1>1. TypeOK' /\ Holding'
  BY NextTypes DEF Inv
<1>2. Proved' /\ Lasting' /\ GrantsAreEarned' /\ ServedIsUnlocked'
  <2>1. ASSUME NEW v \in Viewers, View(v)
        PROVE  Proved' /\ Lasting' /\ GrantsAreEarned' /\ ServedIsUnlocked'
    BY <2>1, ViewGrants
  <2>2. ASSUME UNCHANGED <<grants, requests, proofs>>
        PROVE  Proved' /\ Lasting' /\ GrantsAreEarned' /\ ServedIsUnlocked'
    BY <2>2 DEF Inv, requests, Proved, Lasting, GrantsAreEarned, ServedIsUnlocked, Protected
  <2>3. ASSUME NEW p \in Patches, Amend(p)
        PROVE  Proved' /\ Lasting' /\ GrantsAreEarned' /\ ServedIsUnlocked'
    <3>1. /\ UNCHANGED <<grants, proofs>>
          /\ \A v \in Viewers :
              step'[v] = step[v] /\ site'[v] = site[v] /\ seen'[v] = seen[v]
      BY <2>3, AccessAssumption DEF Inv, TypeOK, Amend, Read, Prepare, Apply, Answer, Await
    <3> QED
      BY <3>1 DEF Inv, Proved, Lasting, GrantsAreEarned, ServedIsUnlocked, Protected
  <2>4. CASE Administer
    BY <2>2, <2>4, AdminTypes DEF Inv
  <2>5. CASE Clock
    BY <2>2, <2>5 DEF Clock
  <2>6. CASE UNCHANGED vars
    BY <2>2, <2>6 DEF vars, requests
  <2> QED
    BY <2>1, <2>3, <2>4, <2>5, <2>6 DEF Next
<1> QED
  BY <1>1, <1>2 DEF Inv

(* The inductive invariant holds in every reachable state. *)
THEOREM AccessInvariance == Spec => []Inv
<1> QED
  BY InitInv, NextInv, PTL DEF Spec

(* A grant names only a credential its viewer has proved, for that site.    *)
THEOREM GrantsEarned == Spec => []GrantsAreEarned
<1>1. Inv => GrantsAreEarned
  BY DEF Inv
<1> QED
  BY <1>1, AccessInvariance, PTL

(* Nobody is let into a protected site without having proved the password   *)
(* of the row that let them in.                                             *)
THEOREM ServedOnlyUnlocked == Spec => []ServedIsUnlocked
<1>1. Inv => ServedIsUnlocked
  BY DEF Inv
<1> QED
  BY <1>1, AccessInvariance, PTL

(* A visit gets into a protected site only during the lifetime of its grant *)
(* counted from the moment it was made, for any clock.                      *)
THEOREM GrantsRunOut == Spec => GrantsAreNotRefreshed
<1>1. ASSUME Inv, [Next]_vars, NEW v \in Viewers,
             step[v] = "idle" /\ step'[v] = "fetching" /\ Protected(seen'[v])
      PROVE  LET issued == grants[v][site'[v]].issued
             IN  issued <= now /\ now < issued + GrantLife
  <2>0. /\ step \in [Viewers \cup Patches ->
                        {"idle", "fetching", "verifying", "completing", "hashing", "saving"}]
        /\ site \in [Viewers \cup Patches -> Slugs \cup {None}]
        /\ seen \in [Viewers \cup Patches -> Rows \cup {None}]
        /\ grants \in [Viewers -> [Slugs -> Grants \cup {None}]] /\ now \in Nat
    BY <1>1 DEF Inv, TypeOK
  <2>1. Visit(v)
    <3>1. ASSUME NEW w \in Viewers, View(w) PROVE w = v /\ Visit(v)
      BY <1>1, <2>0, <3>1
      DEF View, Visit, Fetch, Submit, Verify, Complete, Leave, Answer, Await
    <3>2. ASSUME NEW p \in Patches, Amend(p) PROVE FALSE
      BY <1>1, <2>0, <3>2, AccessAssumption DEF Amend, Read, Prepare, Apply, Answer, Await
    <3>3. ~ UNCHANGED step
      BY <1>1
    <3> QED
      BY <1>1, <3>1, <3>2, <3>3, AdminTypes DEF Next, Clock, vars, requests, Inv
  <2>2. PICK s \in Slugs :
            site'[v] = s /\ seen'[v] = row[s] /\ (Protected(row[s]) => Opens(v, s, row[s].access))
    BY <1>1, <2>0, <2>1 DEF Visit, Answer, Await
  <2>3. grants[v][s] \in Grants /\ ValidExpiry(grants[v][s].until)
    BY <1>1, <2>0, <2>2 DEF Opens
  <2>4. grants[v][s].until = grants[v][s].issued + GrantLife
    BY <1>1, <2>0, <2>3, <2>2 DEF Inv, Lasting, Opens
  <2> QED
    BY <2>0, <2>2, <2>3, <2>4, AccessAssumption DEF Grants, ValidExpiry
<1>2. Inv /\ [Next]_vars => [\A v \in Viewers :
           step[v] = "idle" /\ step'[v] = "fetching" /\ Protected(seen'[v]) =>
               LET issued == grants[v][site'[v]].issued
               IN  issued <= now /\ now < issued + GrantLife]_vars
  BY <1>1
<1> QED
  BY <1>2, AccessInvariance, PTL DEF Spec, GrantsAreNotRefreshed

(* An unlock that says so has made a grant for the row's own credential.    *)
THEOREM UnlocksTakeEffect == Spec => UnlockedOpens
<1>1. ASSUME Inv, [Next]_vars, NEW v \in Viewers,
             step[v] = "completing" /\ answer'[v] = "unlocked" /\ step'[v] = "idle"
      PROVE  LET current == row[site[v]]
             IN  /\ Available(current) /\ Protected(current)
                 /\ grants'[v][site[v]].gen = current.access
  <2>0. /\ step \in [Viewers \cup Patches ->
                        {"idle", "fetching", "verifying", "completing", "hashing", "saving"}]
        /\ answer \in [Viewers \cup Patches -> Answers]
        /\ grants \in [Viewers -> [Slugs -> Grants \cup {None}]]
        /\ v \in Viewers \cup Patches
    BY <1>1 DEF Inv, TypeOK
  <2>1. Complete(v) \/ Leave(v)
    <3>1. ASSUME NEW w \in Viewers, View(w) PROVE w = v /\ (Complete(v) \/ Leave(v))
      BY <1>1, <2>0, <3>1
      DEF View, Visit, Fetch, Submit, Verify, Complete, Leave, Answer, Await
    <3>2. ASSUME NEW p \in Patches, Amend(p) PROVE FALSE
      BY <1>1, <2>0, <3>2, AccessAssumption DEF Amend, Read, Prepare, Apply, Answer, Await
    <3> QED
      BY <1>1, <3>1, <3>2, AdminTypes DEF Next, Clock, vars, requests, Inv
  <2>2. ~ Leave(v)
    BY <1>1, <2>0, NoneAssumption DEF Leave, Answer
  <2>3. site[v] \in Slugs /\ seen[v].access \in Generations
    BY <1>1 DEF Inv, Holding
  <2>4. /\ Available(row[site[v]]) /\ row[site[v]].access = seen[v].access
        /\ grants' = [grants EXCEPT ![v][site[v]] = NewGrant(seen[v].access)]
    BY <1>1, <2>0, <2>1, <2>2 DEF Complete, Answer
  <2> QED
    BY <2>0, <2>3, <2>4, NoneAssumption DEF NewGrant, Protected
<1>2. Inv /\ [Next]_vars => [\A v \in Viewers :
           step[v] = "completing" /\ answer'[v] = "unlocked" /\ step'[v] = "idle" =>
               LET current == row[site[v]] IN
               /\ Available(current)
               /\ Protected(current) /\ grants'[v][site[v]].gen = current.access]_vars
  BY <1>1
<1> QED
  BY <1>2, AccessInvariance, PTL DEF Spec, UnlockedOpens

(* What an administrator or a patch does to the row of a site.              *)
LEMMA RowStep ==
    ASSUME Inv, [Next]_vars, NEW s \in Slugs, row'[s] # row[s], row'[s] # None
    PROVE  /\ \/ row[s] # None /\ row'[s].access = row[s].access
              \/ row'[s].access = None
              \/ row'[s].access \in Fresh
           /\ row'[s].entry \in FilesOf[row'[s].meta]
<1>0. row \in [Slugs -> Rows \cup {None}]
  BY DEF Inv, TypeOK
<1> DEFINE Fine(old, new) ==
        /\ \/ old # None /\ new.access = old.access
           \/ new.access = None
           \/ new.access \in Fresh
        /\ new.entry \in FilesOf[new.meta]
<1>1. ASSUME NEW v \in Viewers, View(v) PROVE FALSE
  BY <1>1 DEF View, Visit, Fetch, Submit, Verify, Complete, Leave
<1>2. ASSUME NEW p \in Patches, Amend(p) PROVE Fine(row[s], row'[s])
  <2>1. Apply(p)
    BY <1>2 DEF Amend, Read, Prepare
  <2>2. site[p] \in Slugs
    BY <2>1 DEF Apply, Inv, Holding
  <2>3. PICK a, x :
            /\ row[site[p]] # None
            /\ Entry(p) \in FilesOf[row[site[p]].meta]
            /\ a \in {None, row[site[p]].access} \cup Fresh
            /\ Put(site[p], [row[site[p]] EXCEPT !.entry = Entry(p), !.access = a, !.expires = x])
    BY <2>1 DEF Apply
  <2>4. row[site[p]] \in Rows
    BY <1>0, <2>2, <2>3
  <2>5. s = site[p]
    BY <1>0, <2>2, <2>3 DEF Put
  <2>6. row'[s] = [row[s] EXCEPT !.entry = Entry(p), !.access = a, !.expires = x]
    BY <1>0, <2>3, <2>5 DEF Put
  <2> QED
    BY <2>3, <2>4, <2>5, <2>6 DEF Rows, Sites!Rows
<1>3. ASSUME NEW z \in Slugs, Publish(z) PROVE Fine(row[s], row'[s])
  <2>1. PICK a \in {None} \cup Fresh, new \in Rows :
            new.access = a /\ new.entry \in FilesOf[new.meta] /\ Put(z, new)
    BY <1>3 DEF Publish, Sites!Appears, Rows
  <2>2. z = s /\ row'[s] = new
    BY <1>0, <2>1 DEF Put
  <2> QED
    BY <2>1, <2>2
<1>4. ASSUME NEW z \in Slugs, Replace(z) PROVE Fine(row[s], row'[s])
  <2>1. PICK new \in Rows :
            /\ row[z] # None /\ new.access = row[z].access
            /\ new.entry \in FilesOf[new.meta] /\ Put(z, new)
    BY <1>4 DEF Replace, Sites!Renewed, Rows
  <2>2. z = s /\ row'[s] = new
    BY <1>0, <2>1 DEF Put
  <2> QED
    BY <2>1, <2>2
<1>5. ASSUME NEW z \in Slugs, Save(z) PROVE Fine(row[s], row'[s])
  <2>1. row[z] # None /\ row[z] \in Rows
    BY <1>0, <1>5 DEF Save
  <2>2. PICK e \in FilesOf[row[z].meta], a \in {None, row[z].access} \cup Fresh,
             x \in {row[z].expires} \cup Lifetimes :
            Put(z, [row[z] EXCEPT !.entry = e, !.access = a, !.expires = x])
    BY <1>5 DEF Save
  <2>3. z = s /\ row'[s] = [row[z] EXCEPT !.entry = e, !.access = a, !.expires = x]
    BY <1>0, <2>2 DEF Put
  <2> QED
    BY <2>1, <2>2, <2>3 DEF Rows, Sites!Rows
<1>6. ASSUME NEW z \in Slugs, Remove(z) PROVE FALSE
  BY <1>0, <1>6 DEF Remove, Put
<1>7. Fine(row[s], row'[s])
  BY <1>1, <1>2, <1>3, <1>4, <1>5, <1>6 DEF Next, Administer, Clock, vars
<1> QED
  BY <1>7

(* A credential that was replaced never comes back to a site. *)
THEOREM ReplacedNeverReturns == Spec => ReplacedStaysReplaced
<1>1. ASSUME Inv, [Next]_vars, NEW s \in Slugs, row'[s] # None /\ Protected(row'[s])
      PROVE  \/ row[s] # None /\ row'[s].access = row[s].access
             \/ row'[s].access.salt > salts
  BY <1>1, RowStep, FreshIsNew DEF Inv, Protected
<1>2. Inv /\ [Next]_vars => [\A s \in Slugs :
           row'[s] # None /\ Protected(row'[s]) =>
               \/ row[s] # None /\ row'[s].access = row[s].access
               \/ row'[s].access.salt > salts]_vars
  BY <1>1
<1> QED
  BY <1>2, AccessInvariance, PTL DEF Spec, ReplacedStaysReplaced

(* The entry of every site is one of its files. *)
THEOREM EntriesExist == Spec => []EntryExists
<1>1. Init => EntryExists
  BY DEF Init, EntryExists
<1>2. Inv /\ EntryExists /\ [Next]_vars => EntryExists'
  BY RowStep DEF EntryExists
<1> QED
  BY <1>1, <1>2, AccessInvariance, PTL DEF Spec

(* Every variable keeps its type. *)
THEOREM AccessTypes == Spec => []TypeOK
<1>1. Inv => TypeOK
  BY DEF Inv
<1> QED
  BY <1>1, AccessInvariance, PTL
=============================================================================
