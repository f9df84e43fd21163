------------------------- MODULE AdminSessionsProofs -------------------------
(***************************************************************************)
(* The properties of AdminSessions for any browsers, tabs, capacity and     *)
(* lifetime, any lag of the store's operations and any bounds.              *)
(***************************************************************************)
EXTENDS AdminSessions, FiniteSetTheorems, TLAPS

(* The parts of TypeOK, and that a form past its first lookup names its     *)
(* session; only identifiers that were drawn have ended.                    *)
Types ==
    /\ now \in Nat /\ made \in 0..MaxIds
    /\ active \in [Ids -> Nat \cup {None}]
    /\ jar \in [Browsers -> Ids \cup {None}] /\ page \in [Tabs -> Ids \cup {None}]
    /\ step \in [Tabs -> Steps]
    /\ using \in [Tabs -> Ids \cup {None}] /\ token \in [Tabs -> Ids \cup {None}]
    /\ born \in [Ids -> Nat] /\ ended \subseteq Ids

Deadlines ==
    \A i \in Stored(active) :
        /\ i <= made /\ i \notin ended
        /\ active[i] <= born[i] + Lifetime /\ born[i] + Lifetime <= active[i] + MaxLag

Submitted == {"logging out", "reading", "reading password", "hashing"}
Named ==
    /\ \A b \in Tabs : step[b] \in Submitted => using[b] \in Ids
    /\ ended \subseteq 1..made

Within == Cardinality(Stored(active)) <= Capacity

SInv == Types /\ Deadlines /\ Named /\ Within

(* Purging at any instant leaves live entries alone and adds none.          *)
LEMMA PurgeShrinks ==
    ASSUME Types, NEW t \in Instants
    PROVE  /\ At(t) \in [Ids -> Nat \cup {None}]
           /\ \A i \in Ids : At(t)[i] # None => At(t)[i] = active[i] /\ active[i] > t
           /\ \A i \in Ids : active[i] # None /\ active[i] > now => At(t)[i] = active[i]
           /\ t \in Nat /\ t <= now /\ now <= t + MaxLag
  BY SessionAssumption DEF Types, At, Instants

(* What a step that only purges, or removes one session, keeps.             *)
LEMMA SmallerStore ==
    ASSUME Types, Within, NEW table,
           \A i \in Ids : table[i] # None => active[i] # None
    PROVE  IsFiniteSet(Stored(table)) /\ Cardinality(Stored(table)) <= Capacity
<1>1. Stored(table) \subseteq Stored(active)
  BY DEF Stored
<1>2. IsFiniteSet(Stored(active))
  <2>1. IsFiniteSet(1..MaxIds)
    BY FS_Interval, SessionAssumption
  <2> QED
    BY <2>1, FS_Subset DEF Stored, Ids
<1>3. /\ IsFiniteSet(Stored(table))
      /\ Cardinality(Stored(table)) <= Cardinality(Stored(active))
  BY <1>1, <1>2, FS_Subset
<1>4. Cardinality(Stored(table)) \in Nat /\ Cardinality(Stored(active)) \in Nat
  BY <1>2, <1>3, FS_CardinalityType
<1> QED
  BY <1>3, <1>4, SessionAssumption DEF Within

LEMMA InitSInv == Init => SInv
<1> SUFFICES ASSUME Init PROVE SInv
  OBVIOUS
<1>1. Types /\ Named
  BY SessionAssumption DEF Init, Types, Named, Steps, Submitted
<1>2. Stored(active) = {}
  BY DEF Init, Stored
<1> QED
  BY <1>1, <1>2, FS_EmptySet, SessionAssumption DEF SInv, Deadlines, Within

(* A step whose store is a part of the old one, with one entry at most gone.*)
LEMMA ShrinkKeeps ==
    ASSUME Deadlines, Types, Within, born' = born, made' = made, ended' = ended,
           \A i \in Ids : active'[i] # None => active'[i] = active[i]
    PROVE  Deadlines' /\ Within'
<1>1. \A i \in Ids : active'[i] # None => active[i] # None
  OBVIOUS
<1>2. Within'
  BY <1>1, SmallerStore, SessionAssumption DEF Within, Stored
<1> QED
  BY <1>2 DEF Deadlines, Stored

(* What one tab does.                                                       *)
LEMMA BrowseSInv == ASSUME SInv, NEW b \in Tabs, Browse(b) PROVE SInv'
<1> USE SessionAssumption DEF SInv, Goto, store, browser, request, history
<1>0. Types /\ Deadlines /\ Named /\ Within /\ BrowserOf[b] \in Browsers
  OBVIOUS
<1>p. ASSUME NEW t \in Instants, Purge(t)
      PROVE  /\ active' \in [Ids -> Nat \cup {None}] /\ made' = made
             /\ \A i \in Ids : active'[i] # None => active'[i] = active[i]
  BY <1>p, <1>0, PurgeShrinks DEF Purge
<1>1. CASE Login(b)
  <2>1. Types' /\ Named'
    BY <1>1 DEF Types, Named, Login, Steps, Submitted
  <2> QED
    BY <1>1, <2>1, ShrinkKeeps DEF Login
<1>2. CASE Create(b)
  <2>1. PICK t \in Instants :
            IF Cardinality(Stored(At(t))) >= Capacity
            THEN Goto(b, "full") /\ Purge(t) /\ UNCHANGED <<jar, born>>
            ELSE /\ made < MaxIds
                 /\ made' = made + 1
                 /\ born' = [born EXCEPT ![made + 1] = now]
                 /\ active' = [At(t) EXCEPT ![made + 1] = t + Lifetime]
                 /\ jar' \in {jar, [jar EXCEPT ![BrowserOf[b]] = made + 1]}
                 /\ Goto(b, "idle")
    BY <1>2 DEF Create
  <2>2. UNCHANGED <<now, page, using, token, ended>>
    BY <1>2 DEF Create
  <2>3. CASE Cardinality(Stored(At(t))) >= Capacity
    <3>1. Goto(b, "full") /\ Purge(t) /\ UNCHANGED <<jar, born>>
      BY <2>1, <2>3
    <3>2. Types' /\ Named'
      BY <2>2, <3>1, <1>p DEF Types, Named, Steps, Submitted
    <3> QED
      BY <2>2, <3>1, <3>2, <1>p, ShrinkKeeps
  <2>4. CASE ~(Cardinality(Stored(At(t))) >= Capacity)
    <3>1. /\ made + 1 \in Ids /\ made' = made + 1
          /\ born' = [born EXCEPT ![made + 1] = now]
          /\ active' = [At(t) EXCEPT ![made + 1] = t + Lifetime]
          /\ jar' \in {jar, [jar EXCEPT ![BrowserOf[b]] = made + 1]}
          /\ step' = [step EXCEPT ![b] = "idle"]
      BY <2>1, <2>4 DEF Types, Ids
    <3>2. /\ At(t) \in [Ids -> Nat \cup {None}]
          /\ \A i \in Ids : At(t)[i] # None => At(t)[i] = active[i]
          /\ t \in Nat /\ t <= now /\ now <= t + MaxLag
      BY <1>0, PurgeShrinks
    <3>3. Types'
      <4>1. active' \in [Ids -> Nat \cup {None}] /\ born' \in [Ids -> Nat]
        BY <3>1, <3>2 DEF Types
      <4>2. jar' \in [Browsers -> Ids \cup {None}]
        BY <3>1 DEF Types
      <4>3. made' \in 0..MaxIds
        <5>1. made + 1 \in 1..MaxIds /\ made' = made + 1
          BY <3>1 DEF Ids
        <5> QED
          BY <5>1
      <4>4. step' \in [Tabs -> Steps]
        <5>1. step \in [Tabs -> Steps] /\ "idle" \in Steps
          BY DEF Types, Steps
        <5> QED
          BY <3>1, <5>1
      <4> QED
        BY <2>2, <4>1, <4>2, <4>3, <4>4 DEF Types
    <3>4. Named'
      <4>1. \A c \in Tabs : step'[c] \in Submitted => step[c] \in Submitted
        BY <3>1 DEF Types, Submitted
      <4>2. 1..made \subseteq 1..made'
        BY <3>1 DEF Types
      <4> QED
        BY <2>2, <4>1, <4>2 DEF Named
    <3>5. Deadlines'
      <4> SUFFICES ASSUME NEW i \in Ids, active'[i] # None
                   PROVE  /\ i <= made' /\ i \notin ended'
                          /\ active'[i] <= born'[i] + Lifetime
                          /\ born'[i] + Lifetime <= active'[i] + MaxLag
        BY DEF Deadlines, Stored
      <4>1. CASE i = made + 1
        <5>1. i \notin ended
          BY <4>1 DEF Types, Named
        <5>2. active'[i] = t + Lifetime /\ born'[i] = now
          BY <4>1, <3>1, <3>2 DEF Types
        <5> QED
          BY <2>2, <3>1, <3>2, <4>1, <5>1, <5>2 DEF Types
      <4>2. CASE i # made + 1
        <5>1. active'[i] = active[i] /\ born'[i] = born[i] /\ i \in Stored(active)
          BY <3>1, <3>2, <4>2 DEF Types, Stored
        <5>2. i \in Nat /\ made \in Nat
          BY DEF Ids, Types
        <5> QED
          BY <2>2, <3>1, <5>1, <5>2 DEF Deadlines
      <4> QED
        BY <4>1, <4>2
    <3>6. Within'
      <4>1. IsFiniteSet(Stored(At(t))) /\ Cardinality(Stored(At(t))) <= Capacity
        BY <3>2, SmallerStore
      <4>2. Stored(active') \subseteq Stored(At(t)) \cup {made + 1}
        BY <3>1, <3>2 DEF Stored
      <4>3. /\ IsFiniteSet(Stored(At(t)) \cup {made + 1})
            /\ Cardinality(Stored(At(t)) \cup {made + 1}) <= Cardinality(Stored(At(t))) + 1
            /\ Cardinality(Stored(At(t))) \in Nat
        <5>1. /\ IsFiniteSet(Stored(At(t)) \cup {made + 1})
              /\ Cardinality(Stored(At(t)) \cup {made + 1}) =
                     IF made + 1 \in Stored(At(t)) THEN Cardinality(Stored(At(t)))
                     ELSE Cardinality(Stored(At(t))) + 1
          BY <4>1, FS_AddElement
        <5>2. Cardinality(Stored(At(t))) \in Nat
          BY <4>1, FS_CardinalityType
        <5> QED
          BY <5>1, <5>2
      <4>4. /\ Cardinality(Stored(active')) <= Cardinality(Stored(At(t)) \cup {made + 1})
            /\ IsFiniteSet(Stored(active'))
        BY <4>2, <4>3, FS_Subset
      <4>5. Cardinality(Stored(active')) \in Nat /\ Cardinality(Stored(At(t)) \cup {made + 1}) \in Nat
        BY <4>3, <4>4, FS_CardinalityType
      <4>6. Cardinality(Stored(active')) <= Capacity
        BY <2>4, <4>3, <4>4, <4>5
      <4> QED
        BY <4>6 DEF Within, Stored
    <3> QED
      BY <3>3, <3>4, <3>5, <3>6
  <2> QED
    BY <2>3, <2>4
<1>3. CASE Load(b)
  <2>1. PICK t \in Instants : Purge(t)
    BY <1>3 DEF Load, LooksUp
  <2>2. Types' /\ Named'
    BY <1>3, <2>1, <1>p DEF Types, Named, Load, Cookie
  <2> QED
    BY <1>3, <2>1, <2>2, <1>p, ShrinkKeeps DEF Load
<1>4. CASE Refuse(b)
  <2>1. PICK t \in Instants : Purge(t)
    BY <1>4 DEF Refuse
  <2>2. Types' /\ Named'
    BY <1>4, <2>1, <1>p DEF Types, Named, Refuse
  <2> QED
    BY <1>4, <2>1, <2>2, <1>p, ShrinkKeeps DEF Refuse
<1>5. CASE Submit(b)
  <2>1. UNCHANGED store \/ \E t \in Instants : Purge(t)
    BY <1>5 DEF Submit, LooksUp
  <2>2. /\ active' \in [Ids -> Nat \cup {None}] /\ made' = made
        /\ \A i \in Ids : active'[i] # None => active'[i] = active[i]
    BY <2>1, <1>p DEF Types
  <2>3. /\ using' = [using EXCEPT ![b] = Cookie(b)] /\ token' = [token EXCEPT ![b] = page[b]]
        /\ Cookie(b) \in Ids
        /\ \E s \in Submitted : step' = [step EXCEPT ![b] = s]
        /\ UNCHANGED <<now, jar, page, born, ended>>
    BY <1>5 DEF Submit, Cookie, Types, Submitted
  <2>4. Types'
    BY <2>2, <2>3 DEF Types, Steps, Submitted
  <2>5. Named'
    BY <2>2, <2>3 DEF Types, Named
  <2> QED
    BY <2>2, <2>3, <2>4, <2>5, ShrinkKeeps
<1>6. CASE Verify(b) \/ VerifyAgain(b)
  <2>1. PICK t \in Instants : Purge(t)
    BY <1>6 DEF Verify, VerifyAgain, Verified, LooksUp
  <2>2. /\ step[b] \in Submitted
        /\ \E s \in {"authorized", "hashing"} : step' = [step EXCEPT ![b] = s]
        /\ UNCHANGED <<now, jar, page, using, token, born, ended>>
    BY <1>6 DEF Verify, VerifyAgain, Submitted
  <2>3. Types'
    BY <2>1, <2>2, <1>p DEF Types, Steps
  <2>4. Named'
    BY <2>1, <2>2, <1>p DEF Types, Named
  <2> QED
    BY <2>1, <2>2, <2>3, <2>4, <1>p, ShrinkKeeps
<1>7. CASE Logout(b)
  <2>1. PICK t \in Instants : active' = [At(t) EXCEPT ![using[b]] = None]
    BY <1>7 DEF Logout
  <2>2. /\ At(t) \in [Ids -> Nat \cup {None}]
        /\ \A i \in Ids : At(t)[i] # None => At(t)[i] = active[i]
    BY <1>0, PurgeShrinks
  <2>3. using[b] \in Ids /\ active[using[b]] # None
    <3>1. using[b] \in Ids
      BY <1>7 DEF Logout, Named, Submitted
    <3>2. PICK u \in Instants : At(u)[using[b]] # None
      BY <1>7 DEF Logout
    <3> QED
      BY <1>0, <3>1, <3>2, PurgeShrinks DEF Types
  <2>4. /\ step' = [step EXCEPT ![b] = "idle"] /\ ended' = ended \cup {using[b]}
        /\ using' = [using EXCEPT ![b] = None] /\ token' = [token EXCEPT ![b] = None]
        /\ jar' \in {jar, [jar EXCEPT ![BrowserOf[b]] = None]}
        /\ UNCHANGED <<now, made, page, born>>
    BY <1>7 DEF Logout
  <2>5. Types'
    BY <2>1, <2>2, <2>3, <2>4 DEF Types, Steps
  <2>6. using[b] \in 1..made
    BY <2>3 DEF Deadlines, Stored, Ids, Types
  <2>7. Named'
    BY <2>4, <2>6 DEF Types, Named, Submitted
  <2>8. \A i \in Ids : active'[i] # None => active'[i] = active[i] /\ i # using[b]
    BY <2>1, <2>2, <2>3
  <2>9. Deadlines'
    BY <2>4, <2>8 DEF Deadlines, Stored
  <2>10. Within'
    <3>1. \A i \in Ids : active'[i] # None => active[i] # None
      BY <2>8
    <3> QED
      BY <3>1, SmallerStore DEF Within, Stored
  <2> QED
    BY <2>5, <2>7, <2>9, <2>10
<1>8. CASE End(b)
  <2>1. UNCHANGED store \/ \E t \in Instants : Purge(t)
    BY <1>8 DEF End
  <2>2. /\ active' \in [Ids -> Nat \cup {None}] /\ made' = made
        /\ \A i \in Ids : active'[i] # None => active'[i] = active[i]
    BY <2>1, <1>p DEF Types
  <2>3. Types' /\ Named'
    BY <1>8, <2>2 DEF Types, Named, End, Steps, Submitted
  <2> QED
    BY <1>8, <2>2, <2>3, ShrinkKeeps DEF End
<1> QED
  BY <1>1, <1>2, <1>3, <1>4, <1>5, <1>6, <1>7, <1>8 DEF Browse

(* What browsers, the clock and the process do by themselves.               *)
LEMMA OtherSInv ==
    ASSUME SInv, (\E c \in Browsers : Forget(c)) \/ Tick \/ Restart \/ UNCHANGED vars
    PROVE  SInv'
<1> USE SessionAssumption DEF SInv, store, browser, request, history
<1>1. CASE \E c \in Browsers : Forget(c)
  <2>1. Types' /\ Named'
    BY <1>1 DEF Types, Named, Forget
  <2> QED
    BY <1>1, <2>1, ShrinkKeeps DEF Forget
<1>2. CASE Tick
  <2>1. Types' /\ Named'
    BY <1>2 DEF Types, Named, Tick
  <2> QED
    BY <1>2, <2>1, ShrinkKeeps DEF Tick
<1>3. CASE Restart
  <2>1. Types'
    <3>1. /\ made \in 0..MaxIds /\ "idle" \in Steps
      BY DEF Types, Steps
    <3>2. 1..made \subseteq Ids
      BY <3>1 DEF Ids
    <3> QED
      BY <1>3, <3>1, <3>2 DEF Types, Restart
  <2>2. Named'
    BY <1>3 DEF Named, Restart, Submitted
  <2>3. Stored(active') = {}
    BY <1>3 DEF Restart, Stored
  <2>4. Deadlines'
    BY <2>3 DEF Deadlines, Stored
  <2>5. Cardinality(Stored(active')) <= Capacity
    BY <2>3, FS_EmptySet
  <2>6. Within'
    BY <2>5 DEF Within, Stored
  <2> QED
    BY <2>1, <2>2, <2>4, <2>6
<1>4. CASE UNCHANGED vars
  BY <1>4 DEF vars, Types, Deadlines, Named, Within, Stored
<1> QED
  BY <1>1, <1>2, <1>3, <1>4

LEMMA NextSInv == SInv /\ [Next]_vars => SInv'
  BY BrowseSInv, OtherSInv DEF Next

(* The store's capacity, its deadlines and its types survive every login,   *)
(* lookup, logout and restart.                                              *)
THEOREM SessionInvariance == Spec => []SInv
  BY InitSInv, NextSInv, PTL DEF Spec

(* Type correctness, with the bound on the store.                           *)
THEOREM SessionTypes == Spec => []TypeOK
<1>1. SInv => TypeOK
  BY DEF SInv, Types, Deadlines, Within, TypeOK
<1> QED
  BY <1>1, SessionInvariance, PTL

-----------------------------------------------------------------------------
(* A form is let through only by a check that finds its session stored and  *)
(* not expired at an instant of the step.                                   *)
LEMMA AuthorizingStep ==
    ASSUME SInv, [Next]_vars, NEW b \in Tabs, Authorizes(b)
    PROVE  /\ using[b] \in Stored(active)
           /\ \E t \in Instants : active[using[b]] > t
<1> USE SessionAssumption DEF SInv
<1>1. Verify(b) \/ VerifyAgain(b)
  <2>1. CASE \E c \in Tabs : Browse(c)
    <3>1. PICK c \in Tabs : Browse(c)
      BY <2>1
    <3>2. CASE Verify(c) \/ VerifyAgain(c)
      <4>1. c = b
        BY <3>2 DEF Verify, VerifyAgain, Goto, Authorizes, Types
      <4> QED
        BY <3>2, <4>1
    <3>3. CASE Login(c) \/ Create(c)
      BY <3>3 DEF Login, Create, Goto, Authorizes, Types
    <3>4. CASE Load(c) \/ Refuse(c)
      BY <3>4 DEF Load, Refuse, Authorizes, history
    <3>5. CASE Submit(c)
      BY <3>5 DEF Submit, Goto, Authorizes, Types
    <3>6. CASE Logout(c) \/ End(c)
      BY <3>6 DEF Logout, End, Goto, Authorizes, Types
    <3> QED
      BY <3>1, <3>2, <3>3, <3>4, <3>5, <3>6 DEF Browse
  <2>2. CASE (\E c \in Browsers : Forget(c)) \/ Tick \/ Restart \/ UNCHANGED vars
    BY <2>2 DEF Forget, Tick, Restart, Authorizes, vars
  <2> QED
    BY <2>1, <2>2 DEF Next
<1>2. PICK t \in Instants : At(t)[using[b]] # None
  BY <1>1 DEF Verify, VerifyAgain, Verified, LooksUp
<1>3. using[b] \in Ids
  BY <1>1 DEF Verify, VerifyAgain, Named, Submitted
<1> QED
  BY <1>2, <1>3, PurgeShrinks DEF Stored, Types

(* No form is let through for a session that has ended, by logout or by a   *)
(* restart, even while its password was being hashed.                       *)
THEOREM FormsFollow == Spec => FormsFollowLogout
<1>1. SInv /\ [Next]_vars =>
          [\A b \in Tabs : Authorizes(b) => using[b] \notin ended]_vars
  BY AuthorizingStep DEF SInv, Deadlines
<1> QED
  BY <1>1, SessionInvariance, PTL DEF Spec, FormsFollowLogout

(* No form is let through later than Lifetime after its session's login.    *)
THEOREM SessionsExpire == Spec => SessionsRunOut
<1>1. SInv /\ [Next]_vars =>
          [\A b \in Tabs :
               Authorizes(b) => now < born[using[b]] + Lifetime + MaxLag]_vars
  <2> SUFFICES ASSUME SInv, [Next]_vars, NEW b \in Tabs, Authorizes(b)
               PROVE  now < born[using[b]] + Lifetime + MaxLag
    OBVIOUS
  <2>1. PICK t \in Instants : active[using[b]] > t
    BY AuthorizingStep
  <2>2. using[b] \in Ids /\ using[b] \in Stored(active) /\ active[using[b]] # None
    BY AuthorizingStep DEF Stored
  <2>3. /\ active[using[b]] \in Nat /\ born[using[b]] \in Nat
        /\ now \in Nat /\ t \in Nat /\ now <= t + MaxLag
    BY <2>2 DEF SInv, Types, Instants
  <2>4. active[using[b]] <= born[using[b]] + Lifetime
    BY <2>2 DEF SInv, Deadlines
  <2> QED
    BY <2>1, <2>3, <2>4, SessionAssumption
<1> QED
  BY <1>1, SessionInvariance, PTL DEF Spec, SessionsRunOut

-----------------------------------------------------------------------------
(* A live session leaves the store only by its own logout or a restart.     *)
THEOREM LiveStay == Spec => LiveSessionsStay
<1> DEFINE Leaves(i) == active[i] # None /\ active'[i] = None /\ active[i] > now
           Restarted == made' = made /\ active' = [j \in Ids |-> None] /\ ended' = 1..made
           LoggedOut(i) == \E b \in Tabs :
                               step[b] = "logging out" /\ using[b] = i /\ token[b] = i
<1>1. ASSUME SInv, [Next]_vars, NEW i \in Ids, Leaves(i)
      PROVE  Restarted \/ LoggedOut(i)
  <2> USE SessionAssumption
  <2>0. Types
    BY <1>1 DEF SInv
  <2>p. \A t \in Instants : /\ At(t)[i] = active[i] /\ t \in Nat
                            /\ At(t) \in [Ids -> Nat \cup {None}]
    BY <1>1, <2>0, PurgeShrinks
  <2>q. active' # active /\ \A t \in Instants : active' # At(t)
    BY <1>1, <2>p
  <2>1. CASE \E c \in Tabs : Browse(c)
    <3>1. PICK c \in Tabs : Browse(c)
      BY <2>1
    <3>2. CASE Create(c)
      <4>1. PICK t \in Instants :
                \/ Purge(t)
                \/ active' = [At(t) EXCEPT ![made + 1] = t + Lifetime]
        BY <3>2 DEF Create
      <4>2. active'[i] # None
        BY <1>1, <2>p, <2>q, <4>1 DEF Purge
      <4> QED
        BY <1>1, <4>2
    <3>3. CASE Logout(c)
      <4>1. PICK t \in Instants :
                token[c] = using[c] /\ active' = [At(t) EXCEPT ![using[c]] = None]
        BY <3>3 DEF Logout
      <4>2. using[c] = i
        BY <1>1, <2>p, <4>1
      <4> QED
        BY <3>3, <4>1, <4>2 DEF Logout
    <3>4. CASE Login(c) \/ Load(c) \/ Refuse(c) \/ Submit(c)
      BY <2>q, <3>4 DEF Login, Load, Refuse, Submit, LooksUp, Purge, store
    <3>5. CASE Verify(c) \/ VerifyAgain(c) \/ End(c)
      BY <2>q, <3>5 DEF Verify, VerifyAgain, End, Verified, LooksUp, Purge, store
    <3> QED
      BY <3>1, <3>2, <3>3, <3>4, <3>5 DEF Browse
  <2>2. CASE Restart
    BY <2>2 DEF Restart, browser
  <2>3. CASE (\E c \in Browsers : Forget(c)) \/ Tick \/ UNCHANGED vars
    BY <2>q, <2>3 DEF Forget, Tick, store, vars
  <2> QED
    BY <1>1, <2>1, <2>2, <2>3 DEF Next
<1>2. SInv /\ [Next]_vars => [\A i \in Ids : Leaves(i) => Restarted \/ LoggedOut(i)]_vars
  BY <1>1
<1>3. (\A i \in Ids : Leaves(i) => Restarted \/ LoggedOut(i)) =>
      \A i \in Ids :
           /\ active[i] # None /\ active'[i] = None
           /\ active[i] > now
           => \/ made' = made /\ active' = [j \in Ids |-> None] /\ ended' = 1..made
              \/ \E b \in Tabs : step[b] = "logging out" /\ using[b] = i /\ token[b] = i
  OBVIOUS
<1> QED
  BY <1>2, <1>3, SessionInvariance, PTL DEF Spec, LiveSessionsStay

(* A login is turned away only while Capacity sessions live.                *)
THEOREM FullMeansFull == Spec => RoomIsUsed
<1> DEFINE Living == {i \in 1..made \ ended : now < born[i] + Lifetime + MaxLag}
<1>1. ASSUME SInv, [Next]_vars, NEW b \in Tabs,
             step[b] = "authenticating", step'[b] = "full"
      PROVE  Cardinality(Living) >= Capacity
  <2> USE SessionAssumption
  <2>0. Types /\ Deadlines /\ Within
    BY <1>1 DEF SInv
  <2>1. Create(b)
    <3>1. CASE \E c \in Tabs : Browse(c)
      <4>1. PICK c \in Tabs : Browse(c)
        BY <3>1
      <4>2. CASE Create(c)
        <5>1. c = b
          BY <1>1, <2>0, <4>2 DEF Create, Goto, Types
        <5> QED
          BY <4>2, <5>1
      <4>3. CASE Login(c) \/ Load(c) \/ Refuse(c) \/ Logout(c) \/ End(c)
        BY <1>1, <2>0, <4>3 DEF Login, Load, Refuse, Logout, End, Goto, Types
      <4>4. CASE Submit(c)
        BY <1>1, <2>0, <4>4 DEF Submit, Goto, Types
      <4>5. CASE Verify(c) \/ VerifyAgain(c)
        BY <1>1, <2>0, <4>5 DEF Verify, VerifyAgain, Goto, Types
      <4> QED
        BY <4>1, <4>2, <4>3, <4>4, <4>5 DEF Browse
    <3>2. CASE (\E c \in Browsers : Forget(c)) \/ Tick \/ Restart \/ UNCHANGED vars
      BY <1>1, <3>2 DEF Forget, Tick, Restart, vars
    <3> QED
      BY <1>1, <3>1, <3>2 DEF Next
  <2>2. PICK t \in Instants : Cardinality(Stored(At(t))) >= Capacity
    BY <1>1, <2>0, <2>1 DEF Create, Goto, Types
  <2>3. /\ At(t) \in [Ids -> Nat \cup {None}]
        /\ \A i \in Ids : At(t)[i] # None => At(t)[i] = active[i] /\ active[i] > t
        /\ t \in Nat /\ t <= now /\ now <= t + MaxLag
    BY <2>0, PurgeShrinks
  <2>4. Stored(At(t)) \subseteq Living
    <3> SUFFICES ASSUME NEW i \in Ids, At(t)[i] # None PROVE i \in Living
      BY DEF Stored
    <3>1. i \in Stored(active) /\ active[i] \in Nat /\ active[i] > t
      BY <2>0, <2>3 DEF Stored, Types
    <3>2. i <= made /\ i \notin ended /\ active[i] <= born[i] + Lifetime
      BY <2>0, <3>1 DEF Deadlines
    <3>3. i \in 1..made /\ now \in Nat /\ born[i] \in Nat
      BY <2>0, <3>2 DEF Types, Ids
    <3>4. now < born[i] + Lifetime + MaxLag
      BY <2>3, <3>1, <3>2, <3>3
    <3> QED
      BY <3>2, <3>3, <3>4
  <2>5. IsFiniteSet(Living)
    <3>1. IsFiniteSet(1..made)
      BY <2>0, FS_Interval DEF Types
    <3> QED
      BY <3>1, FS_Subset
  <2>6. Cardinality(Stored(At(t))) <= Cardinality(Living) /\ IsFiniteSet(Stored(At(t)))
    BY <2>4, <2>5, FS_Subset
  <2>7. Cardinality(Stored(At(t))) \in Nat /\ Cardinality(Living) \in Nat
    BY <2>5, <2>6, FS_CardinalityType
  <2> QED
    BY <2>2, <2>6, <2>7
<1>2. SInv /\ [Next]_vars =>
          [\A b \in Tabs :
               step[b] = "authenticating" /\ step'[b] = "full" =>
                   Cardinality({i \in 1..made \ ended : now < born[i] + Lifetime + MaxLag})
                       >= Capacity]_vars
  BY <1>1
<1> QED
  BY <1>2, SessionInvariance, PTL DEF Spec, RoomIsUsed
=============================================================================
