---------------------------- MODULE AdminSessions ----------------------------
(***************************************************************************)
(* Administrator sessions (src/auth/sessions.rs) and the forms they         *)
(* authorize (src/routes/): a login makes a session in a bounded in-memory  *)
(* store, its cookie names it, a page loaded with it carries its CSRF       *)
(* token, and a form changes sites only if the two belong together in a     *)
(* live session.  A form with a password waits for a worker in between and  *)
(* is checked again afterwards.                                             *)
(*                                                                          *)
(* A session is the number of its random identifier; its CSRF token, which  *)
(* no other session has, is named by the same number.  Every operation on   *)
(* the store first samples the clock and then takes the store's lock, so    *)
(* it may act on an instant a little in the past.                           *)
(***************************************************************************)
EXTENDS Naturals, FiniteSets

CONSTANTS
    None,               \* no session, no cookie, no token
    Browsers, Tabs, BrowserOf,  \* the tabs of a browser share its cookies
    Capacity,           \* MAX_SESSIONS
    Lifetime,           \* SESSION_LIFETIME
    MaxLag,             \* bound on the time from sampling the clock to the lock
    MaxIds,             \* bound on the sessions ever made
    MaxTime             \* bound on the clock

ASSUME SessionAssumption ==
    /\ {Capacity, Lifetime} \subseteq Nat \ {0}
    /\ {MaxLag, MaxIds, MaxTime} \subseteq Nat
    /\ BrowserOf \in [Tabs -> Browsers] /\ None \notin Nat

Ids == 1..MaxIds

VARIABLES
    now,        \* the monotonic clock
    active,     \* Sessions.active: the deadline of each session in the store
    made,       \* how many identifiers have been drawn
    jar,        \* the session each browser's cookie names
    page,       \* the token in the page each tab last loaded
    step,       \* where the request of each tab is
    using,      \* the session the request came with
    token,      \* the token it was submitted with
    born,       \* history: when each session was made
    ended       \* history: sessions whose logout succeeded or whose process ended

vars == <<now, active, made, jar, page, step, using, token, born, ended>>
store == <<active, made>>
browser == <<jar, page>>
request == <<using, token>>
history == <<born, ended>>

Instants == {t \in 0..now : now <= t + MaxLag}
Cookie(b) == jar[BrowserOf[b]]
Goto(b, place) == step' = [step EXCEPT ![b] = place]

(* lock_at: the store without the sessions expired at t. *)
At(t) == [i \in Ids |-> IF active[i] # None /\ active[i] > t THEN active[i] ELSE None]
Stored(table) == {i \in Ids : table[i] # None}

Purge(t) == active' = At(t) /\ UNCHANGED made

(* Mistaken: an access renews the session.                                  *)
LooksUpRefreshing(i, t) ==
    /\ At(t)[i] # None
    /\ active' = [At(t) EXCEPT ![i] = t + Lifetime]
    /\ UNCHANGED made

(* csrf_at and verify_at find session i. *)
LooksUp(i, t) == At(t)[i] # None /\ Purge(t)

(* verify_at. *)
Verified(b, t) == token[b] = using[b] /\ LooksUp(using[b], t)

-----------------------------------------------------------------------------
(* POST /login, up to the password worker; an older session is left alone.  *)
Login(b) ==
    /\ step[b] = "idle"
    /\ Goto(b, "authenticating")
    /\ UNCHANGED <<now, store, browser, request, history>>

(* Mistaken: expired sessions count against the capacity.                   *)
CreateUnpurged(b) ==
    /\ step[b] = "authenticating"
    /\ IF Cardinality(Stored(active)) >= Capacity
       THEN Goto(b, "full") /\ UNCHANGED <<store, jar, born>>
       ELSE /\ made < MaxIds
            /\ active' = [active EXCEPT ![made + 1] = now + Lifetime]
            /\ made' = made + 1
            /\ born' = [born EXCEPT ![made + 1] = now]
            /\ jar' = [jar EXCEPT ![BrowserOf[b]] = made + 1]
            /\ Goto(b, "idle")
    /\ UNCHANGED <<now, page, request, ended>>

(* Mistaken: the oldest session makes room.                                 *)
CreateEvicting(b) ==
    /\ step[b] = "authenticating" /\ made < MaxIds
    /\ \E i \in Ids :
        active' = [active EXCEPT ![i] = None, ![made + 1] = now + Lifetime]
    /\ made' = made + 1
    /\ born' = [born EXCEPT ![made + 1] = now]
    /\ jar' = [jar EXCEPT ![BrowserOf[b]] = made + 1]
    /\ Goto(b, "idle")
    /\ UNCHANGED <<now, page, request, ended>>

(* A correct password: create_at.  The response may not reach the browser.  *)
Create(b) ==
    /\ step[b] = "authenticating"
    /\ \E t \in Instants :
        IF Cardinality(Stored(At(t))) >= Capacity
        THEN Goto(b, "full") /\ Purge(t) /\ UNCHANGED <<jar, born>>
        ELSE /\ made < MaxIds
             /\ made' = made + 1
             /\ born' = [born EXCEPT ![made + 1] = now]
             /\ active' = [At(t) EXCEPT ![made + 1] = t + Lifetime]
             /\ jar' \in {jar, [jar EXCEPT ![BrowserOf[b]] = made + 1]}
             /\ Goto(b, "idle")
    /\ UNCHANGED <<now, page, request, ended>>

(* Any page with a form: admin::session and the token it shows.             *)
Load(b) ==
    /\ step[b] = "idle" /\ Cookie(b) # None
    /\ \E t \in Instants :
        LooksUp(Cookie(b), t)
    /\ page' = [page EXCEPT ![b] = Cookie(b)]
    /\ UNCHANGED <<now, jar, step, request, history>>

(* A page or form whose session is gone redirects to the login or is        *)
(* forbidden; looking for it has purged the store.                          *)
Refuse(b) ==
    /\ step[b] = "idle" /\ Cookie(b) # None
    /\ \E t \in Instants : At(t)[Cookie(b)] = None /\ Purge(t)
    /\ UNCHANGED <<now, browser, step, request, history>>

(* A form arrives with the cookie's session and the page's token; its body  *)
(* is still to be read.  Only forms other than logout look the session up.  *)
Submit(b) ==
    /\ step[b] = "idle" /\ Cookie(b) # None
    /\ using' = [using EXCEPT ![b] = Cookie(b)]
    /\ token' = [token EXCEPT ![b] = page[b]]
    /\ \/ Goto(b, "logging out") /\ UNCHANGED store
       \/ \E t \in Instants :
            /\ LooksUp(Cookie(b), t)
            /\ \E form \in {"reading", "reading password"} : Goto(b, form)
    /\ UNCHANGED <<now, browser, history>>

(* The first verify_form; a form without a password goes on to the sites.   *)
Verify(b) ==
    /\ step[b] \in {"reading", "reading password"}
    /\ \E t \in Instants :
        /\ Verified(b, t)
        /\ Goto(b, IF step[b] = "reading" THEN "authorized" ELSE "hashing")
    /\ UNCHANGED <<now, browser, request, history>>

(* Mistaken: the check before the worker was enough.                        *)
VerifyAgainNot(b) ==
    /\ step[b] = "hashing"
    /\ Goto(b, "authorized")
    /\ UNCHANGED <<now, store, browser, request, history>>

(* The second verify_form, after the password worker.                       *)
VerifyAgain(b) ==
    /\ step[b] = "hashing"
    /\ \E t \in Instants :
        /\ Verified(b, t)
        /\ Goto(b, "authorized")
    /\ UNCHANGED <<now, browser, request, history>>

(* logout_at; the response that clears the cookie may be lost.              *)
Logout(b) ==
    /\ step[b] = "logging out"
    /\ \E t \in Instants :
        /\ token[b] = using[b] /\ At(t)[using[b]] # None
        /\ active' = [At(t) EXCEPT ![using[b]] = None]
    /\ ended' = ended \cup {using[b]}
    /\ jar' \in {jar, [jar EXCEPT ![BrowserOf[b]] = None]}
    /\ Goto(b, "idle")
    /\ using' = [using EXCEPT ![b] = None]
    /\ token' = [token EXCEPT ![b] = None]
    /\ UNCHANGED <<now, made, page, born>>

(* A request ends: refused at one of its checks, with an error, cancelled   *)
(* by its client, or its change handed to the sites.                        *)
End(b) ==
    /\ step[b] # "idle"
    /\ (\E t \in Instants : Purge(t)) \/ UNCHANGED store
    /\ Goto(b, "idle")
    /\ using' = [using EXCEPT ![b] = None]
    /\ token' = [token EXCEPT ![b] = None]
    /\ UNCHANGED <<now, browser, history>>

(* The cookie has a lifetime of its own. *)
Forget(b) ==
    /\ jar[b] # None
    /\ jar' = [jar EXCEPT ![b] = None]
    /\ UNCHANGED <<now, store, page, step, request, history>>

Tick ==
    /\ now < MaxTime
    /\ now' = now + 1
    /\ UNCHANGED <<store, browser, step, request, history>>

(* Sessions::new in a new process; cookies stay valid, the key persists.    *)
Restart ==
    /\ active' = [i \in Ids |-> None]
    /\ ended' = 1..made
    /\ step' = [b \in Tabs |-> "idle"]
    /\ using' = [b \in Tabs |-> None]
    /\ token' = [b \in Tabs |-> None]
    /\ UNCHANGED <<now, made, browser, born>>

-----------------------------------------------------------------------------
Init ==
    /\ now = 0 /\ made = 0
    /\ active = [i \in Ids |-> None]
    /\ jar = [b \in Browsers |-> None] /\ page = [b \in Tabs |-> None]
    /\ step = [b \in Tabs |-> "idle"]
    /\ using = [b \in Tabs |-> None] /\ token = [b \in Tabs |-> None]
    /\ born = [i \in Ids |-> 0] /\ ended = {}

Browse(b) ==
    \/ Login(b) \/ Create(b) \/ Load(b) \/ Refuse(b) \/ Submit(b)
    \/ Verify(b) \/ VerifyAgain(b) \/ Logout(b) \/ End(b)

Next ==
    \/ \E b \in Tabs : Browse(b)
    \/ \E b \in Browsers : Forget(b)
    \/ Tick \/ Restart

Spec == Init /\ [][Next]_vars

-----------------------------------------------------------------------------
(***************************************************************************)
(* Properties.                                                              *)
(***************************************************************************)

Steps == {"idle", "authenticating", "full", "logging out", "reading", "reading password",
          "hashing", "authorized"}

(* Every variable stays in its type, the store within its capacity, and a   *)
(* stored deadline is Lifetime after the clock reading of its login.        *)
TypeOK ==
    /\ now \in Nat /\ made \in 0..MaxIds
    /\ active \in [Ids -> Nat \cup {None}]
    /\ jar \in [Browsers -> Ids \cup {None}] /\ page \in [Tabs -> Ids \cup {None}]
    /\ step \in [Tabs -> Steps]
    /\ using \in [Tabs -> Ids \cup {None}] /\ token \in [Tabs -> Ids \cup {None}]
    /\ born \in [Ids -> Nat] /\ ended \subseteq Ids
    /\ Cardinality(Stored(active)) <= Capacity
    /\ \A i \in Stored(active) :
        /\ i <= made /\ i \notin ended
        /\ active[i] <= born[i] + Lifetime /\ born[i] + Lifetime <= active[i] + MaxLag

Authorizes(b) == step[b] # "authorized" /\ step'[b] = "authorized"

(* Once a logout has answered or the process has been replaced, no form of  *)
(* that session is let through to the sites, not even one whose password    *)
(* was being hashed meanwhile: "A queued password operation must not        *)
(* authorize a newly revoked session."                                      *)
FormsFollowLogout == [][\A b \in Tabs : Authorizes(b) => using[b] \notin ended]_vars

(* No form is let through later than Lifetime after the login that made its *)
(* session, however often the session was used: "Looks up ... without       *)
(* refreshing its deadline."                                                *)
SessionsRunOut ==
    [][\A b \in Tabs : Authorizes(b) => now < born[using[b]] + Lifetime + MaxLag]_vars

(* A session leaves the store before its time only by its own logout or a   *)
(* restart, never for another browser's login, lookup or logout: "without   *)
(* displacing existing live sessions."                                      *)
LiveSessionsStay ==
    [][\A i \in Ids :
           /\ active[i] # None /\ active'[i] = None
           /\ active[i] > now
           => \/ made' = made /\ active' = [j \in Ids |-> None] /\ ended' = 1..made
              \/ \E b \in Tabs : step[b] = "logging out" /\ using[b] = i /\ token[b] = i]_vars

(* A correct password is turned away only while Capacity sessions are alive *)
(* that nobody has ended: expired and revoked ones take up no room.         *)
RoomIsUsed ==
    [][\A b \in Tabs :
           step[b] = "authenticating" /\ step'[b] = "full" =>
               Cardinality({i \in 1..made \ ended : now < born[i] + Lifetime + MaxLag})
                   >= Capacity]_vars
=============================================================================
