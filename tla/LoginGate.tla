------------------------------ MODULE LoginGate ------------------------------
(***************************************************************************)
(* The shared limits on password work (src/auth/password.rs,                *)
(* src/auth/limiter.rs): every admin login, site unlock and site password   *)
(* hashing takes one admission for its whole request and one worker permit  *)
(* for the Argon2 job, a failed check is counted for its client address in  *)
(* a bounded sliding-window history, and an address with too many recent    *)
(* failures gets its answers late.                                          *)
(*                                                                          *)
(* The job owns its permit and runs on a blocking thread: when the client   *)
(* goes away the request is dropped at its await and the job runs on.       *)
(***************************************************************************)
EXTENDS Naturals, FiniteSets, Sequences

CONSTANTS
    None,               \* no answer yet
    Checks,             \* logins and unlocks, each submitted once
    Hashings,           \* forms and patches that set a site password
    Addresses, From,    \* client addresses, and where each check comes from
    Admission,          \* MAX_ADMITTED_LOGINS
    Workers,            \* MAX_PASSWORD_WORKERS
    Threshold,          \* FAILURE_THRESHOLD
    Window,             \* FAILURE_WINDOW
    Delay,              \* FAILURE_DELAY
    MaxAddresses,       \* MAX_FAILURE_IPS
    MaxTime             \* bound on the clock, but for a delay to end

Requests == Checks \cup Hashings

ASSUME GateAssumption ==
    /\ Checks \cap Hashings = {} /\ From \in [Checks -> Addresses]
    /\ {Admission, Workers, Threshold, Window, Delay, MaxAddresses} \subseteq Nat \ {0}
    /\ MaxTime \in Nat

VARIABLES
    now,        \* the monotonic clock
    failures,   \* Limiter.failures; an address without history is not in it
    admission,  \* permits left in Auth.login_admission
    workers,    \* permits left in Auth.password_workers
    step,       \* where each request is in password_job
    job,        \* where its blocking job is
    result,     \* the answer each request will get, and its delay
    due,        \* when a delayed answer may go out
    log         \* history: every failure counted for an address, in completion order

vars == <<now, failures, admission, workers, step, job, result, due, log>>
limiter == <<failures, log>>

Tracked(table) == {a \in Addresses : table[a] # <<>>}

(* retain: the elements at the indices that stay, in their order.  The n-th *)
(* of these is the one with n of them up to it.                             *)
Retained(history, stay) ==
    LET Nth(n) == CHOOSE i \in stay : Cardinality({k \in stay : k <= i}) = n
    IN  [n \in 1..Cardinality(stay) |-> history[Nth(n)]]

(* Mistaken: a failure is kept for one tick more than the window.           *)
LiveLonger(history) ==
    Retained(history, {i \in DOMAIN history : now <= history[i] + Window})

(* Failures inside the window. *)
Live(history) == Retained(history, {i \in DOMAIN history : now < history[i] + Window})

(* Mistaken: never drops a failure while it is live.                        *)
CountedAll(history) == Append(history, now)

(* The last Threshold failures, this one included. *)
Counted(history) ==
    Append(IF Len(history) = Threshold THEN Tail(history) ELSE history, now)

-----------------------------------------------------------------------------
(* A request's end gives its admission back. *)
End(r) ==
    /\ step' = [step EXCEPT ![r] = "done"]
    /\ admission' = admission + 1

Answer(r, a, delay) == result' = [result EXCEPT ![r] = [answer |-> a, delay |-> delay]]

Admit(r) ==
    /\ step[r] = "new"
    /\ IF admission = 0
       THEN /\ step' = [step EXCEPT ![r] = "done"]
            /\ Answer(r, "busy", 0)
            /\ UNCHANGED admission
       ELSE /\ step' = [step EXCEPT ![r] = "admitted"]
            /\ admission' = admission - 1
            /\ UNCHANGED result
    /\ UNCHANGED <<now, limiter, workers, job, due>>

(* try_acquire_owned, and spawn_blocking with the permit. *)
Acquire(r) ==
    /\ step[r] = "admitted"
    /\ IF workers = 0
       THEN End(r) /\ Answer(r, "busy", 0) /\ UNCHANGED <<workers, job>>
       ELSE /\ workers' = workers - 1
            /\ job' = [job EXCEPT ![r] = "running"]
            /\ step' = [step EXCEPT ![r] = "working"]
            /\ UNCHANGED <<admission, result>>
    /\ UNCHANGED <<now, limiter, due>>

Conclude(r, a, delay) ==
    /\ job' = [job EXCEPT ![r] = "ended"]
    /\ Answer(r, a, delay)

(* The job of hash_password, or one that fails before it knows its outcome. *)
Compute(r) ==
    /\ job[r] = "running"
    /\ \E a \in {"broken"} \cup (IF r \in Hashings THEN {"hashed"} ELSE {}) :
        Conclude(r, a, 0)
    /\ UNCHANGED <<now, limiter, admission, workers, step, due>>

(* Mistaken: accounts only for a request somebody still waits for.          *)
CheckWhileAwaited(r) ==
    /\ job[r] = "running" /\ r \in Checks
    /\ IF step[r] = "gone"
       THEN job' = [job EXCEPT ![r] = "ended"] /\ UNCHANGED <<result, limiter>>
       ELSE /\ Conclude(r, "wrong", 0)
            /\ failures' = [failures EXCEPT ![From[r]] = Counted(Live(@))]
            /\ log' = [log EXCEPT ![From[r]] = Append(@, now)]
    /\ UNCHANGED <<now, admission, workers, step, due>>

(* The job of verify_password: Limiter::complete runs under its lock.       *)
Check(r) ==
    /\ job[r] = "running" /\ r \in Checks
    /\ LET live == [a \in Addresses |-> Live(failures[a])]
           delay == IF Len(live[From[r]]) >= Threshold THEN Delay ELSE 0
       IN  \/ /\ Conclude(r, "right", delay)
              /\ failures' = live
              /\ UNCHANGED log
           \/ /\ Cardinality(Tracked(live)) >= MaxAddresses
              /\ From[r] \notin Tracked(live)
              /\ Conclude(r, "refused", 0)
              /\ failures' = live
              /\ UNCHANGED log
           \/ /\ Cardinality(Tracked(live)) >= MaxAddresses => From[r] \in Tracked(live)
              /\ Conclude(r, "wrong", delay)
              /\ failures' = [live EXCEPT ![From[r]] = Counted(@)]
              /\ log' = [log EXCEPT ![From[r]] = Append(@, now)]
    /\ UNCHANGED <<now, admission, workers, step, due>>

(* Mistaken: the waiting request gives the permit back.                     *)
FreeWorkerIfAwaited(r) ==
    /\ job[r] = "ended"
    /\ job' = [job EXCEPT ![r] = "over"]
    /\ workers' = IF step[r] = "gone" THEN workers ELSE workers + 1
    /\ UNCHANGED <<now, limiter, admission, step, result, due>>

(* The closure's end drops the permit. *)
FreeWorker(r) ==
    /\ job[r] = "ended"
    /\ job' = [job EXCEPT ![r] = "over"]
    /\ workers' = workers + 1
    /\ UNCHANGED <<now, limiter, admission, step, result, due>>

(* The request resumes with the job's result, and sleeps if it must.        *)
Resume(r) ==
    /\ step[r] = "working" /\ job[r] = "over"
    /\ IF result[r].delay = 0
       THEN End(r) /\ UNCHANGED due
       ELSE /\ step' = [step EXCEPT ![r] = "sleeping"]
            /\ due' = [due EXCEPT ![r] = now + result[r].delay]
            /\ UNCHANGED admission
    /\ UNCHANGED <<now, limiter, workers, job, result>>

Wake(r) ==
    /\ step[r] = "sleeping" /\ now >= due[r]
    /\ End(r)
    /\ due' = [due EXCEPT ![r] = 0]
    /\ UNCHANGED <<now, limiter, workers, job, result>>

(* Mistaken: the permit belongs to the request and goes with it.            *)
GoAwayWithPermit(r) ==
    /\ step[r] \in {"working", "sleeping"}
    /\ step' = [step EXCEPT ![r] = "gone"]
    /\ admission' = admission + 1
    /\ workers' = IF step[r] = "working" THEN workers + 1 ELSE workers
    /\ UNCHANGED <<now, limiter, job, result, due>>

(* The client disconnects at one of the two awaits. *)
GoAway(r) ==
    /\ step[r] \in {"working", "sleeping"}
    /\ step' = [step EXCEPT ![r] = "gone"]
    /\ admission' = admission + 1
    /\ UNCHANGED <<now, limiter, workers, job, result, due>>

Tick ==
    /\ now < MaxTime \/ \E r \in Requests : step[r] = "sleeping" /\ now < due[r]
    /\ now' = now + 1
    /\ UNCHANGED <<limiter, admission, workers, step, job, result, due>>

-----------------------------------------------------------------------------
Init ==
    /\ now = 0
    /\ failures = [a \in Addresses |-> <<>>] /\ log = [a \in Addresses |-> <<>>]
    /\ admission = Admission /\ workers = Workers
    /\ step = [r \in Requests |-> "new"]
    /\ job = [r \in Requests |-> "none"]
    /\ result = [r \in Requests |-> None]
    /\ due = [r \in Requests |-> 0]

Handle(r) == Acquire(r) \/ Resume(r) \/ Wake(r)
Work(r) == Compute(r) \/ Check(r) \/ FreeWorker(r)

Next ==
    \/ \E r \in Requests : Admit(r) \/ Handle(r) \/ Work(r) \/ GoAway(r)
    \/ Tick

(* Threads and timers go on; clients need not come or go.                   *)
Fairness ==
    /\ \A r \in Requests : WF_vars(Handle(r)) /\ WF_vars(Work(r))
    /\ WF_vars(Tick)

Spec == Init /\ [][Next]_vars /\ Fairness

-----------------------------------------------------------------------------
(***************************************************************************)
(* Properties.                                                              *)
(***************************************************************************)

(* An answer is late exactly if Threshold failures of the same address were *)
(* counted inside the window before it: neither the bound on the history    *)
(* nor its pruning, nor the order of the checks, lose or keep one           *)
(* (FAILURE_THRESHOLD, FAILURE_WINDOW).                                     *)
DelayIsExact ==
    [][\A r \in Checks :
           job[r] = "running" /\ job'[r] = "ended" /\ result'[r].answer \in {"right", "wrong"} =>
               LET counted == log[From[r]]
                   recent == {i \in DOMAIN counted : now < counted[i] + Window}
               IN  result'[r].delay = IF Cardinality(recent) >= Threshold THEN Delay ELSE 0]_vars

(* The history of an address is the tail of its counted failures, and as    *)
(* many addresses as the table holds: no live window is evicted for another *)
(* address ("Never evict a live failure window").                           *)
HistoryIsTheLog ==
    /\ Cardinality(Tracked(failures)) <= MaxAddresses
    /\ \A a \in Addresses :
        LET times == Live(log[a])
        IN  Live(failures[a]) =
                IF Len(times) <= Threshold THEN times
                ELSE SubSeq(times, Len(times) - Threshold + 1, Len(times))

(* Cancellation, refusals and failed work neither leak a permit nor free    *)
(* one whose job still runs, so at most Workers hashes run and at most      *)
(* Admission requests wait ("Cancellation cannot free a working slot").     *)
PermitsMatchWork ==
    /\ workers + Cardinality({r \in Requests : job[r] \in {"running", "ended"}}) = Workers
    /\ admission + Cardinality({r \in Requests :
                       step[r] \in {"admitted", "working", "sleeping"}}) = Admission

(* A guess that a worker started comes to its verdict even if its client    *)
(* goes away, and by then as many failures have been counted against its    *)
(* address as guesses from there proved wrong ("cannot ... skip failure     *)
(* accounting"); that what is counted is remembered is HistoryIsTheLog.     *)
WrongFrom(a) ==
    {r \in Checks : From[r] = a /\ result[r] # None /\ result[r].answer = "wrong"}
GuessesAreAccounted ==
    \A r \in Checks :
        job[r] = "running" ~> /\ result[r] # None
                              /\ Len(log[From[r]]) = Cardinality(WrongFrom(From[r]))

(* Every permit comes back: a burst of requests, delays and disconnections  *)
(* never locks passwords out for good.                                      *)
PermitsComeBack == []<>(admission = Admission /\ workers = Workers)
=============================================================================
