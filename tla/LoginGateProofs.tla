--------------------------- MODULE LoginGateProofs ---------------------------
(* Three results about the gate, for any limits.  Permits match work: the   *)
(* counts in PermitsMatchWork are inductive together with how far a request *)
(* and its job may be apart.  Delays are exact and histories follow the     *)
(* log: a history is an end of its address's log, at most Threshold long,   *)
(* and pruning by the window keeps an end because the log is ordered.       *)
EXTENDS LoginGate, FiniteSetTheorems, SequenceTheorems, TLAPS

Running == {r \in Requests : job[r] \in {"running", "ended"}}
Admitted == {r \in Requests : step[r] \in {"admitted", "working", "sleeping"}}

GateInv ==
    /\ step \in [Requests -> {"new", "admitted", "working", "sleeping", "gone", "done"}]
    /\ job \in [Requests -> {"none", "running", "ended", "over"}]
    /\ workers \in Nat /\ admission \in Nat
    /\ \A r \in Requests : step[r] \in {"new", "admitted"} => job[r] = "none"
    /\ workers + Cardinality(Running) = Workers
    /\ admission + Cardinality(Admitted) = Admission

(* A permit taken by one more request, and one given back.                  *)
LEMMA Taken ==
    ASSUME NEW S, IsFiniteSet(S), NEW r, r \notin S,
           NEW left \in Nat, left # 0, NEW all, left + Cardinality(S) = all
    PROVE  /\ left - 1 \in Nat
           /\ (left - 1) + Cardinality(S \cup {r}) = all
<1>1. Cardinality(S) \in Nat
  BY FS_CardinalityType
<1>2. Cardinality(S \cup {r}) = Cardinality(S) + 1
  BY FS_AddElement
<1> QED
  BY <1>1, <1>2

LEMMA GivenBack ==
    ASSUME NEW S, IsFiniteSet(S), NEW r \in S,
           NEW left \in Nat, NEW all, left + Cardinality(S) = all
    PROVE  /\ left + 1 \in Nat
           /\ (left + 1) + Cardinality(S \ {r}) = all
<1>1. Cardinality(S) \in Nat /\ Cardinality(S \ {r}) \in Nat
  BY FS_CardinalityType, FS_Subset
<1>2. Cardinality(S \ {r}) = Cardinality(S) - 1
  BY FS_RemoveElement
<1> QED
  BY <1>1, <1>2

LEMMA FiniteHolders ==
    ASSUME IsFiniteSet(Requests)
    PROVE  IsFiniteSet(Running) /\ IsFiniteSet(Admitted)
BY FS_Subset DEF Running, Admitted

LEMMA GateInit == ASSUME Init PROVE GateInv
<1>1. Running = {} /\ Admitted = {}
  BY DEF Init, Running, Admitted
<1>2. Admission \in Nat /\ Workers \in Nat
  BY GateAssumption
<1> QED
  BY <1>1, <1>2, FS_EmptySet DEF Init, GateInv

(* What a request's end, departure or admission does to the counts.         *)
LEMMA Leaves ==
    ASSUME GateInv, IsFiniteSet(Requests), NEW r \in Requests,
           step[r] \in {"admitted", "working", "sleeping"},
           NEW place \in {"gone", "done"}, step' = [step EXCEPT ![r] = place],
           admission' = admission + 1, UNCHANGED <<workers, job>>
    PROVE  GateInv'
<1>1. Admitted' = Admitted \ {r}
  BY DEF GateInv, Admitted
<1>2. Running' = Running
  BY DEF Running
<1>3. r \in Admitted
  BY DEF Admitted
<1>4. admission' \in Nat /\ admission' + Cardinality(Admitted') = Admission
  BY <1>1, <1>3, GivenBack, FiniteHolders DEF GateInv
<1> QED
  BY <1>2, <1>4 DEF GateInv

(* A job or a request that moves on and keeps what it holds.                *)
LEMMA JobMoves ==
    ASSUME GateInv, NEW r \in Requests, job[r] = "running",
           job' = [job EXCEPT ![r] = "ended"], UNCHANGED <<workers, admission, step>>
    PROVE  GateInv'
<1>1. Running' = Running /\ Admitted' = Admitted
  BY DEF GateInv, Running, Admitted
<1> QED
  BY <1>1 DEF GateInv

LEMMA GateStep ==
    ASSUME GateInv, IsFiniteSet(Requests), [Next]_vars
    PROVE  GateInv'
<1>1. ASSUME NEW r \in Requests, Admit(r) PROVE GateInv'
  <2>1. CASE admission = 0
    <3>1. Running' = Running /\ Admitted' = Admitted
      BY <1>1, <2>1 DEF Admit, GateInv, Running, Admitted
    <3> QED
      BY <1>1, <2>1, <3>1 DEF Admit, GateInv
  <2>2. CASE admission # 0
    <3>1. Admitted' = Admitted \cup {r} /\ r \notin Admitted /\ Running' = Running
      BY <1>1, <2>2 DEF Admit, GateInv, Running, Admitted
    <3>2. admission' = admission - 1
      BY <1>1, <2>2 DEF Admit
    <3>3. admission' \in Nat /\ admission' + Cardinality(Admitted') = Admission
      BY <2>2, <3>1, <3>2, Taken, FiniteHolders DEF GateInv
    <3> QED
      BY <1>1, <2>2, <3>1, <3>3 DEF Admit, GateInv
  <2> QED
    BY <2>1, <2>2
<1>2. ASSUME NEW r \in Requests, Acquire(r) PROVE GateInv'
  <2>1. CASE workers = 0
    BY <1>2, <2>1, Leaves DEF Acquire, End
  <2>2. CASE workers # 0
    <3>1. Running' = Running \cup {r} /\ r \notin Running /\ Admitted' = Admitted
      BY <1>2, <2>2 DEF Acquire, GateInv, Running, Admitted
    <3>2. workers' = workers - 1
      BY <1>2, <2>2 DEF Acquire
    <3>3. workers' \in Nat /\ workers' + Cardinality(Running') = Workers
      BY <2>2, <3>1, <3>2, Taken, FiniteHolders DEF GateInv
    <3> QED
      BY <1>2, <2>2, <3>1, <3>3 DEF Acquire, GateInv
  <2> QED
    BY <2>1, <2>2
<1>3. ASSUME NEW r \in Requests, Resume(r) PROVE GateInv'
  <2>1. CASE result[r].delay = 0
    BY <1>3, <2>1, Leaves DEF Resume, End
  <2>2. CASE result[r].delay # 0
    <3>1. Running' = Running /\ Admitted' = Admitted
      BY <1>3, <2>2 DEF Resume, GateInv, Running, Admitted
    <3> QED
      BY <1>3, <2>2, <3>1 DEF Resume, GateInv
  <2> QED
    BY <2>1, <2>2
<1>4. ASSUME NEW r \in Requests, Wake(r) \/ GoAway(r) PROVE GateInv'
  BY <1>4, Leaves DEF Wake, GoAway, End
<1>5. ASSUME NEW r \in Requests, Compute(r) PROVE GateInv'
  BY <1>5, JobMoves DEF Compute, Conclude
<1>6. ASSUME NEW r \in Requests, Check(r) PROVE GateInv'
  <2>1. job[r] = "running" /\ job' = [job EXCEPT ![r] = "ended"]
    BY <1>6 DEF Check, Conclude
  <2> QED
    BY <1>6, <2>1, JobMoves DEF Check
<1>7. ASSUME NEW r \in Requests, FreeWorker(r) PROVE GateInv'
  <2>1. Running' = Running \ {r} /\ r \in Running /\ Admitted' = Admitted
    BY <1>7 DEF FreeWorker, GateInv, Running, Admitted
  <2>2. workers' \in Nat /\ workers' + Cardinality(Running') = Workers
    BY <1>7, <2>1, GivenBack, FiniteHolders DEF FreeWorker, GateInv
  <2> QED
    BY <1>7, <2>1, <2>2 DEF FreeWorker, GateInv
<1>8. CASE Tick \/ UNCHANGED vars
  <2>1. UNCHANGED <<workers, admission, step, job>>
    BY <1>8 DEF Tick, vars
  <2> QED
    BY <2>1 DEF GateInv, Running, Admitted
<1> QED
  BY <1>1, <1>2, <1>3, <1>4, <1>5, <1>6, <1>7, <1>8 DEF Next, Handle, Work

(* However requests come, fail, are delayed and disconnect, a worker permit *)
(* is out exactly for each job that has not ended and an admission for each *)
(* request that waits: none leaks and none is freed early                   *)
(* (password.rs:184-209).                                                   *)
THEOREM PermitsMatch == ASSUME IsFiniteSet(Requests) PROVE Spec => []PermitsMatchWork
<1>1. Init => GateInv
  BY GateInit
<1>2. GateInv /\ [Next]_vars => GateInv'
  BY GateStep
<1>3. GateInv => PermitsMatchWork
  BY DEF GateInv, PermitsMatchWork, Running, Admitted
<1> QED
  BY <1>1, <1>2, <1>3, PTL DEF Spec

-----------------------------------------------------------------------------
(***************************************************************************)
(* The failure histories.  Failures are timed under the limiter's lock, so  *)
(* every history is in order and what retain keeps of it is its end; and a  *)
(* history is the end of the log of its address, from which nothing that is *)
(* still inside the window is missing unless Threshold later failures are   *)
(* there.                                                                   *)
(***************************************************************************)

Ordered(h) == \A i, k \in 1..Len(h) : i <= k => h[i] <= h[k]
Past(h) == \A i \in 1..Len(h) : h[i] <= now
InWindow(h) == {i \in DOMAIN h : now < h[i] + Window}

(* h is what is left of h0 when its first d elements are dropped.           *)
Drops(h, d, h0) ==
    /\ h \in Seq(Nat) /\ Len(h) = Len(h0) - d
    /\ \A i \in 1..Len(h) : h[i] = h0[d + i]

(* The history h of an address whose counted failures are those of all.     *)
Ends(h, all) ==
    /\ Len(h) <= Threshold /\ Len(h) <= Len(all)
    /\ Drops(h, Len(all) - Len(h), all)
    /\ Len(h) < Threshold => \A i \in 1..(Len(all) - Len(h)) : all[i] + Window <= now

HistoryInv ==
    /\ now \in Nat
    /\ failures \in [Addresses -> Seq(Nat)] /\ log \in [Addresses -> Seq(Nat)]
    /\ \A a \in Addresses :
        /\ Ordered(log[a]) /\ Past(log[a])
        /\ Ends(failures[a], log[a])

(* A set of numbers that has no gaps from 1 up is an interval.              *)
LEMMA Downward ==
    ASSUME NEW n \in Nat, NEW D \in SUBSET (1..n),
           \A i \in D : \A k \in 1..i : k \in D
    PROVE  Cardinality(D) \in 0..n /\ D = 1..Cardinality(D)
<1>1. IsFiniteSet(1..n) /\ Cardinality(1..n) = n
  BY FS_Interval
<1>2. IsFiniteSet(D) /\ Cardinality(D) \in Nat /\ Cardinality(D) <= n
  BY <1>1, FS_Subset, FS_CardinalityType
<1>3. \A i \in D : i <= Cardinality(D)
  <2> TAKE i \in D
  <2>1. i \in Nat /\ (1..i) \in SUBSET D
    OBVIOUS
  <2>2. Cardinality(1..i) = i
    BY <2>1, FS_Interval
  <2> QED
    BY <1>2, <2>1, <2>2, FS_Subset
<1>4. D \in SUBSET (1..Cardinality(D))
  BY <1>2, <1>3
<1>5. IsFiniteSet(1..Cardinality(D)) /\ Cardinality(1..Cardinality(D)) = Cardinality(D)
  BY <1>2, FS_Interval
<1>6. 1..Cardinality(D) = D
  BY <1>4, <1>5, FS_Subset
<1> QED
  BY <1>2, <1>6

(* How many numbers there are from d + 1 to n.                              *)
LEMMA HowMany ==
    ASSUME NEW d \in Nat, NEW n \in Nat, d <= n
    PROVE  Cardinality((d + 1)..n) = n - d
<1>1. d + 1 \in Int /\ n \in Int
  OBVIOUS
<1> DEFINE from == d + 1
<1>2. from \in Int
  BY <1>1
<1> HIDE DEF from
<1>3. Cardinality(from..n) = IF from > n THEN 0 ELSE n - from + 1
  BY <1>1, <1>2, FS_Interval
<1> USE DEF from
<1>4. CASE d + 1 > n
  BY <1>3, <1>4
<1>5. CASE ~(d + 1 > n)
  BY <1>3, <1>5
<1> QED
  BY <1>4, <1>5

(* Retaining all but the first d elements.                                  *)
LEMMA RetainsEnd ==
    ASSUME NEW h \in Seq(Nat), NEW d \in 0..Len(h)
    PROVE  /\ Drops(Retained(h, (d + 1)..Len(h)), d, h)
           /\ Cardinality((d + 1)..Len(h)) = Len(h) - d
<1> DEFINE stay == (d + 1)..Len(h)
           Nth(n) == CHOOSE i \in stay : Cardinality({k \in stay : k <= i}) = n
<1>0. d \in Nat /\ Len(h) \in Nat /\ d <= Len(h)
  OBVIOUS
<1>1. Cardinality(stay) = Len(h) - d
  BY <1>0, HowMany
<1>2. \A i \in stay : Cardinality({k \in stay : k <= i}) = i - d
  <2> TAKE i \in stay
  <2>1. {k \in stay : k <= i} = (d + 1)..i
    BY <1>0
  <2>2. Cardinality((d + 1)..i) = i - d
    BY <1>0, HowMany
  <2> QED
    BY <2>1, <2>2
<1>3. \A n \in 1..(Len(h) - d) : Nth(n) = d + n
  <2> TAKE n \in 1..(Len(h) - d)
  <2>1. d + n \in stay /\ Cardinality({k \in stay : k <= d + n}) = n
    BY <1>2
  <2>2. \A i \in stay : Cardinality({k \in stay : k <= i}) = n => i = d + n
    BY <1>2
  <2> HIDE DEF stay
  <2> QED
    BY <2>1, <2>2
<1>4. Retained(h, stay) = [n \in 1..(Len(h) - d) |-> h[Nth(n)]]
  BY <1>1 DEF Retained
<1> HIDE DEF Nth
<1>5. \A n \in 1..(Len(h) - d) : h[Nth(n)] = h[d + n] /\ h[d + n] \in Nat
  <2> TAKE n \in 1..(Len(h) - d)
  <2>1. Nth(n) = d + n
    BY <1>3
  <2>2. d + n \in 1..Len(h)
    BY <1>0
  <2> QED
    BY <2>1, <2>2
<1>6. Retained(h, stay) \in Seq(Nat) /\ Len(Retained(h, stay)) = Len(h) - d
  <2> DEFINE m == Len(h) - d
             f == Retained(h, stay)
  <2>1. m \in Nat
    BY <1>0
  <2>2. f \in [1..m -> Nat]
    BY <1>4, <1>5
  <2> HIDE DEF m, f
  <2>3. f \in Seq(Nat) /\ Len(f) = m
    BY <2>1, <2>2
  <2> QED
    BY <2>3 DEF m, f
<1> QED
  BY <1>1, <1>4, <1>5, <1>6 DEF Drops

(* What is live of an ordered history is its end.                           *)
LEMMA LiveIsEnd ==
    ASSUME now \in Nat, NEW h \in Seq(Nat), Ordered(h)
    PROVE  \E d \in 0..Len(h) :
               /\ Drops(Live(h), d, h)
               /\ Cardinality(InWindow(h)) = Len(h) - d
               /\ \A i \in 1..Len(h) : now < h[i] + Window <=> d < i
<1> DEFINE D == {i \in 1..Len(h) : h[i] + Window <= now}
           d == Cardinality(D)
<1>0. Window \in Nat
  BY GateAssumption
<1>1. \A i \in D : \A k \in 1..i : k \in D
  BY <1>0 DEF Ordered
<1>2. d \in 0..Len(h) /\ D = 1..d
  <2>1. Len(h) \in Nat /\ D \in SUBSET (1..Len(h))
    OBVIOUS
  <2> HIDE DEF D
  <2> QED
    BY <1>1, <2>1, Downward
<1> HIDE DEF d
<1>3. \A i \in 1..Len(h) : now < h[i] + Window <=> d < i
  BY <1>0, <1>2
<1>4. InWindow(h) = (d + 1)..Len(h)
  BY <1>2, <1>3 DEF InWindow
<1>5. Live(h) = Retained(h, (d + 1)..Len(h))
  BY <1>4 DEF Live, InWindow
<1> QED
  BY <1>2, <1>3, <1>4, <1>5, RetainsEnd

(* At most the last Threshold elements of a sequence.                       *)
Latest(times) ==
    IF Len(times) <= Threshold THEN times
    ELSE SubSeq(times, Len(times) - Threshold + 1, Len(times))

LEMMA ThresholdIsPositive == Threshold \in Nat /\ Threshold > 0 /\ Window \in Nat
BY GateAssumption

(* What the limiter knows of an address after pruning is what the log says: *)
(* the live failures if they are fewer than Threshold, else the latest.     *)
LEMMA LiveAgrees ==
    ASSUME now \in Nat, NEW h \in Seq(Nat), NEW all \in Seq(Nat), Ordered(all), Ends(h, all)
    PROVE  /\ Ends(Live(h), all)
           /\ Live(h) = Latest(Live(all))
           /\ Len(Live(h)) >= Threshold <=> Cardinality(InWindow(all)) >= Threshold
<1> DEFINE e == Len(all) - Len(h)
<1>0. /\ e \in Nat /\ Len(h) \in Nat /\ Len(all) \in Nat /\ Len(all) = e + Len(h)
      /\ Len(h) <= Threshold
      /\ Len(h) < Threshold => \A i \in 1..e : all[i] + Window <= now
      /\ \A i \in 1..Len(h) : h[i] = all[e + i]
  BY DEF Ends, Drops
<1>1. Ordered(h)
  <2> SUFFICES ASSUME NEW i \in 1..Len(h), NEW k \in 1..Len(h), i <= k PROVE h[i] <= h[k]
    BY DEF Ordered
  <2>1. e + i \in 1..Len(all) /\ e + k \in 1..Len(all) /\ e + i <= e + k
    BY <1>0
  <2> HIDE DEF e
  <2> QED
    BY <1>0, <2>1 DEF Ordered
<1> HIDE DEF e
<1>2. PICK d \in 0..Len(h) :
          /\ Drops(Live(h), d, h)
          /\ \A i \in 1..Len(h) : now < h[i] + Window <=> d < i
  BY <1>1, LiveIsEnd
<1>3. PICK c \in 0..Len(all) :
          /\ Drops(Live(all), c, all)
          /\ Cardinality(InWindow(all)) = Len(all) - c
          /\ \A i \in 1..Len(all) : now < all[i] + Window <=> c < i
  BY LiveIsEnd
<1>4. /\ d \in Nat /\ c \in Nat /\ d <= Len(h) /\ c <= Len(all)
      /\ Live(h) \in Seq(Nat) /\ Len(Live(h)) = Len(h) - d
      /\ \A i \in 1..(Len(h) - d) : Live(h)[i] = h[d + i]
      /\ Live(all) \in Seq(Nat) /\ Len(Live(all)) = Len(all) - c
      /\ \A i \in 1..(Len(all) - c) : Live(all)[i] = all[c + i]
  BY <1>0, <1>2, <1>3 DEF Drops
<1>5. \A i \in 1..(Len(h) - d) : Live(h)[i] = all[e + d + i]
  <2> TAKE i \in 1..(Len(h) - d)
  <2>1. d + i \in 1..Len(h)
    BY <1>0, <1>4
  <2>2. e + (d + i) = e + d + i
    BY <1>0, <1>4
  <2> QED
    BY <1>0, <1>4, <2>1, <2>2
<1>n. /\ e \in Nat /\ d \in Nat /\ c \in Nat /\ Len(h) \in Nat /\ Len(all) \in Nat
      /\ Len(all) = e + Len(h) /\ d <= Len(h) /\ c <= Len(all) /\ Len(h) <= Threshold
      /\ Threshold \in Nat /\ Threshold > 0
  BY <1>0, <1>4, ThresholdIsPositive
<1>e. \A i \in 1..Len(all) : all[i] \in Nat /\ (all[i] + Window <= now <=> ~(c < i))
  <2> TAKE i \in 1..Len(all)
  <2>1. all[i] \in Nat /\ (now < all[i] + Window <=> c < i)
    BY <1>3
  <2> QED
    BY <2>1, ThresholdIsPositive
<1>h. \A i \in 1..Len(h) : d < i <=> c < e + i
  <2> TAKE i \in 1..Len(h)
  <2>1. e + i \in 1..Len(all)
    BY <1>n
  <2>2. h[i] = all[e + i]
    BY <1>0
  <2> QED
    BY <1>2, <1>3, <2>1, <2>2
(* Either retain cut the history in the log's own place, or the history is  *)
(* full, all of it is live, and so is the failure before it.                *)
<1>6. \/ c = e + d
      \/ d = 0 /\ Len(h) = Threshold /\ c < e
  <2>1. CASE c < e
    <3>1. e \in 1..Len(all) /\ e \in 1..e
      BY <1>n, <2>1
    <3>2. ~(all[e] + Window <= now)
      BY <1>e, <2>1, <3>1
    <3>3. Len(h) = Threshold
      BY <1>0, <1>n, <3>1, <3>2
    <3>4. ASSUME d > 0 PROVE FALSE
      <4>1. d \in 1..Len(h) /\ c < e + d /\ ~(d < d)
        BY <1>n, <2>1, <3>4
      <4> QED
        BY <1>h, <4>1
    <3> QED
      BY <1>n, <2>1, <3>3, <3>4
  <2>2. CASE ~(c < e)
    <3>1. ASSUME c < e + d PROVE FALSE
      <4>1. d \in 1..Len(h) /\ ~(d < d)
        BY <1>n, <2>2, <3>1
      <4> QED
        BY <1>h, <3>1, <4>1
    <3>2. ASSUME c > e + d PROVE FALSE
      <4>1. c - e \in 1..Len(h) /\ d < c - e /\ ~(c < e + (c - e))
        BY <1>n, <2>2, <3>2
      <4> QED
        BY <1>h, <4>1
    <3> QED
      BY <1>n, <2>2, <3>1, <3>2
  <2> QED
    BY <2>1, <2>2
<1>7. CASE c = e + d
  <2>1. Len(Live(h)) = Len(Live(all)) /\ Len(Live(h)) <= Threshold /\ Len(Live(h)) = Len(all) - c
    <3>1. Len(Live(h)) = Len(h) - d /\ Len(Live(all)) = Len(all) - c
      BY <1>4
    <3> QED
      BY <1>n, <1>7, <3>1
  <2>2. \A i \in 1..Len(Live(h)) : Live(h)[i] = Live(all)[i]
    <3> TAKE i \in 1..Len(Live(h))
    <3>1. i \in 1..(Len(h) - d) /\ i \in 1..(Len(all) - c)
      BY <1>4, <2>1
    <3>2. Live(h)[i] = all[e + d + i] /\ Live(all)[i] = all[c + i]
      BY <1>4, <1>5, <3>1
    <3> QED
      BY <1>7, <3>2
  <2>3. Live(h) = Live(all)
    <3>1. Live(h) \in Seq(Nat) /\ Live(all) \in Seq(Nat)
      BY <1>4
    <3> QED
      BY <2>1, <2>2, <3>1, SeqEqual
  <2>4. Live(h) = Latest(Live(all))
    BY <2>1, <2>3 DEF Latest
  <2>5. Ends(Live(h), all)
    <3>1. Len(all) - Len(Live(h)) = c /\ Len(Live(h)) <= Len(all)
      BY <1>n, <2>1
    <3>2. \A i \in 1..c : all[i] + Window <= now
      <4> TAKE i \in 1..c
      <4>1. i \in 1..Len(all) /\ ~(c < i)
        BY <1>n
      <4> QED
        BY <1>e, <4>1
    <3>3. Drops(Live(h), c, all)
      BY <1>3, <2>3
    <3> QED
      BY <2>1, <3>1, <3>2, <3>3 DEF Ends
  <2> QED
    BY <1>3, <2>1, <2>4, <2>5
<1>8. CASE d = 0 /\ Len(h) = Threshold /\ c < e
  <2>1. Live(h) = h
    <3>1. Live(h) \in Seq(Nat) /\ Len(Live(h)) = Len(h)
      BY <1>4, <1>n, <1>8
    <3>2. \A i \in 1..Len(h) : Live(h)[i] = h[i]
      <4> TAKE i \in 1..Len(h)
      <4>1. i \in 1..(Len(h) - d) /\ d + i = i
        BY <1>n, <1>8
      <4> QED
        BY <1>4, <4>1
    <3> QED
      BY <3>1, <3>2, SeqEqual
  <2> DEFINE n == Len(Live(all))
  <2>2. n \in Nat /\ n > Threshold /\ n = Len(all) - c /\ n - Threshold \in Nat
    <3>1. n = Len(all) - c
      BY <1>4
    <3> QED
      BY <1>n, <1>8, <3>1
  <2>c. c + n = e + Threshold
    <3> HIDE DEF n
    <3> DEFINE l == Len(all)
    <3>1. l \in Nat /\ l = e + Threshold /\ n = l - c
      BY <1>n, <1>8, <2>2
    <3>2. c \in Nat /\ e \in Nat /\ Threshold \in Nat /\ n \in Nat
      BY <1>n, <2>2
    <3> HIDE DEF l
    <3> QED
      BY ONLY <3>1, <3>2
  <2>3. Live(h) = Latest(Live(all))
    <3> DEFINE s == SubSeq(Live(all), n - Threshold + 1, n)
    <3>1. Live(all) \in Seq(Nat)
      BY <1>4
    <3>2. s \in Seq(Nat) /\ Len(s) = Threshold
          /\ \A i \in 1..Threshold : s[i] = Live(all)[n - Threshold + i]
      <4> DEFINE m == n - Threshold + 1
      <4>1. m \in 1..n /\ n \in 1..n /\ m <= n /\ n - m + 1 = Threshold
        BY <1>n, <2>2
      <4>2. SubSeq(Live(all), m, n) \in Seq(Nat)
            /\ Len(SubSeq(Live(all), m, n)) = Threshold
            /\ \A i \in 1..Threshold : SubSeq(Live(all), m, n)[i] = Live(all)[m + i - 1]
        <5>1. m \in Int /\ n \in Int /\ \A i \in m..n : Live(all)[i] \in Nat
          BY <3>1, <4>1
        <5> HIDE DEF m, n
        <5>2. /\ SubSeq(Live(all), m, n) \in Seq(Nat)
              /\ Len(SubSeq(Live(all), m, n)) = IF m <= n THEN n - m + 1 ELSE 0
              /\ \A i \in 1..n - m + 1 : SubSeq(Live(all), m, n)[i] = Live(all)[m + i - 1]
          BY <5>1, SubSeqProperties
        <5> QED
          BY <4>1, <5>2
      <4>3. \A i \in 1..Threshold : m + i - 1 = n - Threshold + i
        BY <1>n, <2>2
      <4> QED
        BY <4>2, <4>3
    <3>3. \A i \in 1..Threshold : s[i] = h[i]
      <4> TAKE i \in 1..Threshold
      <4> DEFINE k == n - Threshold + i
      <4>1. k \in 1..(Len(all) - c) /\ c + k = e + i /\ i \in 1..Len(h)
        <5>1. i \in Nat /\ 1 <= i /\ i <= Threshold
          BY <1>n
        <5> HIDE DEF n
        <5>2. k \in Int /\ 1 <= k /\ k <= n
          BY <1>n, <2>2, <5>1
        <5>3. k \in 1..(Len(all) - c)
          <6> HIDE DEF k
          <6> QED
            BY <2>2, <5>2
        <5>4. c + k = e + i
          <6>1. i \in Nat /\ c \in Nat /\ e \in Nat /\ n \in Nat /\ Threshold \in Nat
            BY <1>n, <2>2, <5>1
          <6> QED
            BY ONLY <2>c, <6>1
        <5>5. i \in 1..Len(h)
          BY <1>8
        <5> QED
          BY <5>3, <5>4, <5>5
      <4>2. s[i] = Live(all)[k]
        BY <3>2
      <4> HIDE DEF k, s
      <4>3. Live(all)[k] = all[c + k]
        BY <1>4, <4>1
      <4>4. h[i] = all[e + i]
        BY <1>0, <4>1
      <4> QED
        BY <4>1, <4>2, <4>3, <4>4
    <3>4. s = h
      <4> HIDE DEF s
      <4>1. s \in Seq(Nat) /\ h \in Seq(Nat) /\ Len(s) = Len(h) /\ \A i \in 1..Len(s) : s[i] = h[i]
        BY <1>8, <3>2, <3>3
      <4> QED
        BY <4>1, SeqEqual
    <3>5. Latest(Live(all)) = s
      <4>1. ~(Len(Live(all)) <= Threshold)
        BY <1>n, <2>2
      <4> QED
        BY <4>1 DEF Latest
    <3> QED
      BY <2>1, <3>4, <3>5
  <2>4. Len(Live(h)) >= Threshold /\ Cardinality(InWindow(all)) >= Threshold
    BY <1>3, <1>8, <1>n, <2>1, <2>2
  <2> QED
    BY <2>1, <2>3, <2>4
<1> QED
  BY <1>6, <1>7, <1>8

(* Indices in a sequence of l + f failures out of e + l + f, and one more.  *)
LEMMA Indices ==
    ASSUME NEW e \in Nat, NEW f \in Nat, NEW l \in Nat
    PROVE  /\ \A i \in 1..(e + f + l + 1) : i = e + f + l + 1 \/ i \in 1..(e + f + l)
           /\ \A i \in 1..(l + 1) : i = l + 1 \/ i \in 1..l
           /\ \A i \in 1..l : f + i \in 1..(f + l) /\ e + f + i \in 1..(e + f + l)
           /\ \A i \in 1..l : e + (f + i) = e + f + i
           /\ \A i \in 1..e : i \in 1..(e + l)
  OBVIOUS

(* The failures before one more are ordered and past, so it ends them.      *)
LEMMA OneMore ==
    ASSUME now \in Nat, NEW all \in Seq(Nat), Ordered(all), Past(all)
    PROVE  Ordered(Append(all, now)) /\ Past(Append(all, now))
<1> DEFINE more == Append(all, now)
<1>1. PICK n \in Nat : n = Len(all)
  OBVIOUS
<1>2. /\ more \in Seq(Nat) /\ Len(more) = n + 1 /\ more[n + 1] = now
      /\ \A i \in 1..n : more[i] = all[i]
  BY <1>1, AppendProperties
<1> HIDE DEF more
<1>3. /\ \A i \in 1..n : all[i] <= now
      /\ \A i, k \in 1..n : i <= k => all[i] <= all[k]
  BY <1>1 DEF Past, Ordered
<1>4. \A i \in 1..(n + 1) : more[i] <= now
  <2> TAKE i \in 1..(n + 1)
  <2>1. i = n + 1 \/ i \in 1..n
    OBVIOUS
  <2>2. now <= now
    OBVIOUS
  <2> QED
    BY ONLY <1>2, <1>3, <2>1, <2>2
<1>5. ASSUME NEW i \in 1..(n + 1), NEW k \in 1..(n + 1), i <= k
      PROVE  more[i] <= more[k]
  <2>1. CASE k = n + 1
    BY <1>2, <1>4, <2>1
  <2>2. CASE k # n + 1
    <3>1. i \in 1..n /\ k \in 1..n
      BY <1>5, <2>2
    <3> QED
      BY ONLY <1>2, <1>3, <1>5, <3>1
  <2> QED
    BY <2>1, <2>2
<1>6. 1..Len(more) = 1..(n + 1)
  BY <1>2
<1>7. Ordered(more) /\ Past(more)
  BY ONLY <1>4, <1>5, <1>6 DEF Ordered, Past
<1> QED
  BY ONLY <1>7 DEF more

(* The limiter drops no failure but the oldest of Threshold ones.           *)
LEMMA OneCounted ==
    ASSUME now \in Nat, NEW h \in Seq(Nat), Len(h) <= Threshold
    PROVE  \E f, g \in Nat :
             /\ Len(h) = f + g /\ g + 1 <= Threshold
             /\ g + 1 < Threshold => f = 0 /\ Len(h) < Threshold
             /\ Counted(h) \in Seq(Nat) /\ Len(Counted(h)) = g + 1
             /\ Counted(h)[g + 1] = now
             /\ \A i \in 1..g : Counted(h)[i] = h[f + i]
<1>0. Threshold \in Nat /\ Threshold > 0 /\ Len(h) \in Nat
  BY ThresholdIsPositive
<1>1. CASE Len(h) = Threshold
  <2>1. PICK g \in Nat : Len(h) = 1 + g
    BY <1>0, <1>1
  <2>2. h # <<>>
    BY <2>1
  <2>3. /\ Tail(h) \in Seq(Nat) /\ Len(Tail(h)) = Len(h) - 1
        /\ \A i \in 1..Len(Tail(h)) : Tail(h)[i] = h[i + 1]
    BY <2>2, HeadTailProperties
  <2>4. Len(Tail(h)) = g /\ \A i \in 1..g : Tail(h)[i] = h[1 + i]
    BY <2>1, <2>3
  <2>5. Counted(h) = Append(Tail(h), now)
    BY <1>1 DEF Counted
  <2>6. /\ Counted(h) \in Seq(Nat) /\ Len(Counted(h)) = g + 1
        /\ Counted(h)[g + 1] = now
        /\ \A i \in 1..g : Counted(h)[i] = Tail(h)[i]
    <3>1. Tail(h) \in Seq(Nat)
      BY <2>3
    <3>2. /\ Append(Tail(h), now) \in Seq(Nat)
          /\ Len(Append(Tail(h), now)) = Len(Tail(h)) + 1
          /\ Append(Tail(h), now)[Len(Tail(h)) + 1] = now
          /\ \A i \in 1..Len(Tail(h)) : Append(Tail(h), now)[i] = Tail(h)[i]
      BY <3>1, AppendProperties
    <3> QED
      BY ONLY <2>4, <2>5, <3>2
  <2>7. g + 1 <= Threshold /\ ~(g + 1 < Threshold)
    BY <1>0, <1>1, <2>1
  <2>8. \A i \in 1..g : Counted(h)[i] = h[1 + i]
    BY ONLY <2>4, <2>6
  <2>9. 1 \in Nat
    OBVIOUS
  <2> QED
    BY ONLY <2>1, <2>6, <2>7, <2>8, <2>9
<1>2. CASE Len(h) # Threshold
  <2>1. PICK g \in Nat : g = Len(h)
    BY <1>0
  <2>2. Counted(h) = Append(h, now)
    BY <1>2 DEF Counted
  <2>3. /\ Counted(h) \in Seq(Nat) /\ Len(Counted(h)) = g + 1
        /\ Counted(h)[g + 1] = now
        /\ \A i \in 1..g : Counted(h)[i] = h[i]
    BY <2>1, <2>2, AppendProperties
  <2>4. /\ Len(h) = 0 + g /\ g + 1 <= Threshold /\ Len(h) < Threshold
        /\ \A i \in 1..g : 0 + i = i
    BY <1>0, <1>2, <2>1
  <2> QED
    BY ONLY 0 \in Nat, <2>1, <2>3, <2>4
<1> QED
  BY <1>1, <1>2

(* One more counted failure, and at most Threshold of them kept.            *)
LEMMA CountedAgrees ==
    ASSUME now \in Nat, NEW h \in Seq(Nat), NEW all \in Seq(Nat),
           Ordered(all), Past(all), Ends(h, all)
    PROVE  /\ Counted(h) \in Seq(Nat) /\ Append(all, now) \in Seq(Nat)
           /\ Counted(h) # <<>>
           /\ Ordered(Append(all, now)) /\ Past(Append(all, now))
           /\ Ends(Counted(h), Append(all, now))
<1> DEFINE more == Append(all, now)
<1>1. Len(h) <= Threshold /\ Threshold \in Nat
  BY ThresholdIsPositive DEF Ends
<1>2. PICK f, g \in Nat :
             /\ Len(h) = f + g /\ g + 1 <= Threshold
             /\ g + 1 < Threshold => f = 0 /\ Len(h) < Threshold
             /\ Counted(h) \in Seq(Nat) /\ Len(Counted(h)) = g + 1
             /\ Counted(h)[g + 1] = now
             /\ \A i \in 1..g : Counted(h)[i] = h[f + i]
  BY <1>1, OneCounted
<1>3. PICK e \in Nat : Len(all) = e + f + g
  <2>1. Len(h) <= Len(all)
    BY DEF Ends
  <2>2. PICK n, l \in Nat : n = Len(all) /\ l = Len(h)
    OBVIOUS
  <2>3. l <= n /\ l = f + g
    BY ONLY <1>2, <2>1, <2>2
  <2>4. n - (f + g) \in Nat /\ n = (n - (f + g)) + f + g
    BY <2>3
  <2> QED
    BY ONLY <2>2, <2>4
<1>4. /\ \A i \in 1..(f + g) : h[i] = all[e + i]
      /\ Len(h) < Threshold => \A i \in 1..e : all[i] + Window <= now
  <2>1. Len(all) - Len(h) = e
    BY <1>2, <1>3
  <2>2. \A i \in 1..Len(h) : h[i] = all[Len(all) - Len(h) + i]
    BY DEF Ends, Drops
  <2>3. Len(h) < Threshold => \A i \in 1..e : all[i] + Window <= now
    BY <2>1 DEF Ends, Drops
  <2> QED
    BY ONLY <1>2, <2>1, <2>2, <2>3
<1>5. /\ more \in Seq(Nat) /\ Len(more) = e + f + g + 1 /\ more[e + f + g + 1] = now
      /\ \A i \in 1..(e + f + g) : more[i] = all[i]
  BY <1>3, AppendProperties
<1>6. Ordered(more) /\ Past(more)
  BY OneMore
<1> HIDE DEF more
<1>7. /\ Len(more) - Len(Counted(h)) = e + f /\ Len(Counted(h)) <= Len(more)
      /\ Len(Counted(h)) <= Threshold /\ Counted(h) # <<>>
  BY <1>2, <1>5
<1>8. \A i \in 1..(g + 1) : Counted(h)[i] = more[e + f + i]
  <2> TAKE i \in 1..(g + 1)
  <2>1. CASE i = g + 1
    <3>1. e + f + i = e + f + g + 1
      BY <2>1
    <3> QED
      BY ONLY <1>2, <1>5, <2>1, <3>1
  <2>2. CASE i # g + 1
    <3>1. i \in 1..g
      BY <2>2
    <3>2. f + i \in 1..(f + g) /\ e + f + i \in 1..(e + f + g) /\ e + (f + i) = e + f + i
      BY ONLY e \in Nat, f \in Nat, g \in Nat, <3>1, Indices
    <3>3. Counted(h)[i] = h[f + i] /\ h[f + i] = all[e + (f + i)]
          /\ more[e + f + i] = all[e + f + i]
      BY ONLY <1>2, <1>4, <1>5, <3>1, <3>2
    <3> QED
      BY ONLY <3>2, <3>3
  <2> QED
    BY <2>1, <2>2
<1>9. ASSUME g + 1 < Threshold, NEW i \in 1..(e + f) PROVE more[i] + Window <= now
  <2>1. f = 0 /\ Len(h) < Threshold
    BY ONLY <1>2, <1>9
  <2>2. i \in 1..e /\ i \in 1..(e + f + g)
    BY <2>1
  <2> QED
    BY ONLY <1>4, <1>5, <2>1, <2>2
<1>10. 1..Len(Counted(h)) = 1..(g + 1) /\ (Len(Counted(h)) < Threshold <=> g + 1 < Threshold)
  BY <1>2
<1>11. Ends(Counted(h), more)
  <2>1. Len(Counted(h)) = Len(more) - (e + f)
    BY <1>2, <1>5
  <2>2. Drops(Counted(h), e + f, more)
    BY ONLY <1>2, <1>8, <1>10, <2>1 DEF Drops
  <2>3. Len(Counted(h)) < Threshold => \A i \in 1..(e + f) : more[i] + Window <= now
    BY ONLY <1>9, <1>10
  <2> QED
    BY ONLY <1>7, <2>2, <2>3 DEF Ends
<1> QED
  BY ONLY <1>2, <1>5, <1>6, <1>7, <1>11 DEF more

LEMMA HistoryInit == ASSUME Init PROVE HistoryInv
<1>1. <<>> \in Seq(Nat) /\ Len(<<>>) = 0
  OBVIOUS
<1>2. Ordered(<<>>) /\ Ends(<<>>, <<>>)
  BY <1>1, ThresholdIsPositive DEF Ordered, Ends, Drops
<1> QED
  BY <1>1, <1>2 DEF Init, HistoryInv, Past

(* What a check does to the history of an address.                          *)
LEMMA CheckHistories ==
    ASSUME HistoryInv, NEW r \in Requests, Check(r), NEW a \in Addresses
    PROVE  \/ /\ failures'[a] = Live(failures[a]) /\ log'[a] = log[a]
           \/ /\ failures'[a] = Counted(Live(failures[a])) /\ log'[a] = Append(log[a], now)
<1>1. From[r] \in Addresses
  BY GateAssumption DEF Check
<1> QED
  BY <1>1 DEF Check, Conclude, HistoryInv

LEMMA HistoryStep ==
    ASSUME HistoryInv, [Next]_vars
    PROVE  HistoryInv'
<1>1. ASSUME NEW r \in Requests, Check(r) PROVE HistoryInv'
  <2>1. now' = now /\ DOMAIN failures' = Addresses /\ DOMAIN log' = Addresses
    BY <1>1 DEF Check, Conclude, HistoryInv
  <2>2. failures' = [a \in Addresses |-> failures'[a]] /\ log' = [a \in Addresses |-> log'[a]]
    BY <1>1 DEF Check, Conclude, HistoryInv
  <2>3. ASSUME NEW a \in Addresses
        PROVE  /\ failures'[a] \in Seq(Nat) /\ log'[a] \in Seq(Nat)
               /\ Ordered(log'[a]) /\ Past(log[a])'
               /\ Ends(failures'[a], log'[a])
    <3> DEFINE h == failures[a]
               all == log[a]
    <3>1. /\ h \in Seq(Nat) /\ all \in Seq(Nat) /\ now \in Nat
          /\ Ordered(all) /\ Past(all)
          /\ Ends(h, all)
      BY DEF HistoryInv
    <3> HIDE DEF h, all
    <3>2. Ends(Live(h), all)
      BY <3>1, LiveAgrees
    <3>3. Live(h) \in Seq(Nat)
      BY <3>2 DEF Ends, Drops
    <3>4. /\ Counted(Live(h)) \in Seq(Nat) /\ Append(all, now) \in Seq(Nat)
          /\ Ordered(Append(all, now)) /\ Past(Append(all, now))
          /\ Ends(Counted(Live(h)), Append(all, now))
      BY <3>1, <3>2, <3>3, CountedAgrees
    <3>5. \/ failures'[a] = Live(h) /\ log'[a] = all
          \/ failures'[a] = Counted(Live(h)) /\ log'[a] = Append(all, now)
      BY <1>1, CheckHistories DEF h, all
    <3> QED
      BY <2>1, <3>1, <3>2, <3>3, <3>4, <3>5 DEF Past
  <2>4. failures' \in [Addresses -> Seq(Nat)] /\ log' \in [Addresses -> Seq(Nat)]
    BY <2>2, <2>3
  <2>5. \A a \in Addresses : Ends(failures[a], log[a])'
    BY <2>1, <2>3 DEF Ends, Drops
  <2>6. \A a \in Addresses : Ordered(log[a])' /\ Past(log[a])'
    BY <2>1, <2>3 DEF Ordered
  <2>7. now' \in Nat
    BY <2>1 DEF HistoryInv
  <2> QED
    BY <2>4, <2>5, <2>6, <2>7 DEF HistoryInv
<1>2. CASE Tick
  <2>1. now' = now + 1 /\ now \in Nat /\ failures' = failures /\ log' = log
    BY <1>2 DEF Tick, limiter, HistoryInv
  <2>2. ASSUME NEW a \in Addresses
        PROVE  /\ \A i \in 1..Len(log[a]) : log[a][i] <= now + 1
               /\ \A i \in 1..Len(log[a]) : log[a][i] + Window <= now => log[a][i] + Window <= now + 1
    <3>1. /\ \A i \in 1..Len(log[a]) : log[a][i] \in Nat /\ log[a][i] <= now
      BY DEF HistoryInv, Past
    <3> QED
      BY <2>1, <3>1, ThresholdIsPositive
  <2>3. ASSUME NEW a \in Addresses, Len(failures[a]) < Threshold,
               NEW i \in 1..(Len(log[a]) - Len(failures[a]))
        PROVE  log[a][i] + Window <= now + 1
    <3>1. log[a][i] + Window <= now
      BY <2>3 DEF HistoryInv, Ends
    <3> DEFINE h == failures[a]
               all == log[a]
               n == Len(all)
               dropped == n - Len(h)
    <3>2. dropped \in Int /\ n \in Nat /\ dropped <= n /\ i \in 1..dropped
      <4>1. h \in Seq(Nat) /\ all \in Seq(Nat)
        BY DEF HistoryInv
      <4>2. Len(h) \in Nat /\ n \in Nat
        <5> HIDE DEF h, all
        <5> QED
          BY <4>1
      <4>3. i \in 1..dropped
        OBVIOUS
      <4> HIDE DEF h, all, n
      <4> QED
        BY <4>2, <4>3
    <3>3. i \in 1..Len(log[a])
      <4> HIDE DEF dropped, n
      <4>1. i \in 1..n
        BY <3>2
      <4> QED
        BY <4>1 DEF n
    <3> QED
      BY <2>2, <3>1, <3>3
  <2> QED
    BY <2>1, <2>2, <2>3 DEF HistoryInv, Ends, Drops, Ordered, Past
<1>3. CASE UNCHANGED <<now, failures, log>>
  BY <1>3 DEF HistoryInv, Ends, Drops, Ordered, Past
<1>4. CASE UNCHANGED vars
  BY <1>3, <1>4 DEF vars, limiter
<1>5. ASSUME NEW r \in Requests,
             Admit(r) \/ Handle(r) \/ Compute(r) \/ FreeWorker(r) \/ GoAway(r)
      PROVE  HistoryInv'
  <2>1. UNCHANGED <<now, failures, log>>
    BY <1>5 DEF Admit, Handle, Acquire, Resume, Wake, Compute, FreeWorker, GoAway, limiter
  <2> QED
    BY <1>3, <2>1
<1> QED
  BY <1>1, <1>2, <1>4, <1>5 DEF Next, Work
AnswersInv == DOMAIN job = Requests /\ DOMAIN result = Requests

LEMMA AnswersStep ==
    ASSUME AnswersInv, [Next]_vars
    PROVE  AnswersInv'
BY DEF AnswersInv, Next, Handle, Work, vars, Admit, Acquire, Resume, Wake, Compute, Check,
       FreeWorker, GoAway, Tick, Conclude, Answer, End

(* Only a job that ends gives an answer, and only a check a right or wrong  *)
(* one.                                                                     *)
LEMMA WhoAnswers ==
    ASSUME AnswersInv, [Next]_vars, NEW r \in Checks, job[r] = "running", job'[r] = "ended",
           result'[r].answer \in {"right", "wrong"}
    PROVE  Check(r)
<1>0. r \in Requests
  BY DEF Requests
<1>1. ASSUME NEW q \in Requests, Compute(q) PROVE FALSE
  <2>1. PICK a \in {"broken", "hashed"} : Conclude(q, a, 0)
    BY <1>1 DEF Compute
  <2>2. q = r
    BY <1>0, <2>1 DEF Conclude, AnswersInv
  <2>3. result'[r].answer = a
    BY <1>0, <2>1, <2>2 DEF Conclude, Answer, AnswersInv
  <2> QED
    BY <2>3
<1>2. ASSUME NEW q \in Requests, Check(q) PROVE q = r
  BY <1>0, <1>2 DEF Check, Conclude, AnswersInv
<1>3. ASSUME NEW q \in Requests,
             Admit(q) \/ Acquire(q) \/ Resume(q) \/ Wake(q) \/ FreeWorker(q) \/ GoAway(q)
      PROVE  FALSE
  <2>1. CASE Acquire(q)
    BY <1>0, <2>1 DEF Acquire, AnswersInv
  <2>2. CASE FreeWorker(q)
    BY <1>0, <2>2 DEF FreeWorker, AnswersInv
  <2> QED
    BY <1>3, <2>1, <2>2 DEF Admit, Resume, Wake, GoAway
<1>4. CASE Tick \/ UNCHANGED vars
  BY <1>4 DEF Tick, vars
<1> QED
  BY <1>1, <1>2, <1>3, <1>4 DEF Next, Handle, Work

(* An answer is late exactly if the log has Threshold failures of the       *)
(* address inside the window: what Limiter::complete reads from a history   *)
(* of at most Threshold failures is what all of them would say              *)
(* (limiter.rs:33-67).                                                      *)
THEOREM DelaysAreExact == Spec => DelayIsExact
<1> DEFINE Exact(r) ==
             result'[r].delay =
                 IF Cardinality(InWindow(log[From[r]])) >= Threshold THEN Delay ELSE 0
<1>1. Init => HistoryInv /\ AnswersInv
  BY HistoryInit DEF Init, AnswersInv
<1>2. HistoryInv /\ AnswersInv /\ [Next]_vars => (HistoryInv /\ AnswersInv)'
  BY HistoryStep, AnswersStep
<1>3. ASSUME HistoryInv, AnswersInv, [Next]_vars, NEW r \in Checks,
             job[r] = "running", job'[r] = "ended",
             result'[r].answer \in {"right", "wrong"}
      PROVE  Exact(r)
  <2>1. Check(r)
    BY <1>3, WhoAnswers
  <2>2. From[r] \in Addresses /\ r \in Requests
    BY GateAssumption DEF Requests
  <2> DEFINE delay == IF Len(Live(failures[From[r]])) >= Threshold THEN Delay ELSE 0
  <2>3. \E a \in {"right", "wrong", "refused"} :
          /\ a # "refused" => result' = [result EXCEPT ![r] = [answer |-> a, delay |-> delay]]
          /\ a = "refused" => result' = [result EXCEPT ![r] = [answer |-> a, delay |-> 0]]
    BY <2>1, <2>2 DEF Check, Conclude, Answer
  <2>4. result'[r].delay = delay
    BY <1>3, <2>2, <2>3 DEF AnswersInv
  <2>5. Len(Live(failures[From[r]])) >= Threshold
          <=> Cardinality(InWindow(log[From[r]])) >= Threshold
    BY <1>3, <2>2, LiveAgrees DEF HistoryInv, Ends, Drops
  <2> QED
    BY <2>4, <2>5
<1>4. HistoryInv /\ AnswersInv /\ [Next]_vars =>
        [\A r \in Checks :
           job[r] = "running" /\ job'[r] = "ended" /\ result'[r].answer \in {"right", "wrong"} =>
               LET counted == log[From[r]]
                   recent == {i \in DOMAIN counted : now < counted[i] + Window}
               IN  result'[r].delay = IF Cardinality(recent) >= Threshold THEN Delay ELSE 0]_vars
  BY <1>3 DEF InWindow
<1> QED
  BY <1>1, <1>2, <1>4, PTL DEF Spec, DelayIsExact

(* An empty history stays empty when it is pruned.                          *)
LEMMA LiveOfNone == ASSUME HistoryInv PROVE Live(<<>>) = <<>>
<1>1. <<>> \in Seq(Nat) /\ Ordered(<<>>) /\ Len(<<>>) = 0
  BY DEF Ordered
<1>2. \E d \in 0..Len(<<>>) : Drops(Live(<<>>), d, <<>>)
  BY <1>1, LiveIsEnd DEF HistoryInv
<1>3. Live(<<>>) \in Seq(Nat) /\ Len(Live(<<>>)) = 0
  BY <1>1, <1>2 DEF Drops
<1> QED
  BY <1>3

TableInv == Cardinality(Tracked(failures)) <= MaxAddresses

LEMMA TableStep ==
    ASSUME IsFiniteSet(Addresses), HistoryInv, TableInv, [Next]_vars
    PROVE  TableInv'
<1> DEFINE T == Tracked(failures)
           L == {a \in Addresses : Live(failures[a]) # <<>>}
<1>1. /\ IsFiniteSet(L) /\ Cardinality(L) \in Nat /\ MaxAddresses \in Nat
      /\ Cardinality(L) <= MaxAddresses
  <2>1. T \in SUBSET Addresses /\ L \in SUBSET T
    BY LiveOfNone DEF Tracked
  <2> HIDE DEF T, L
  <2>2. IsFiniteSet(T) /\ IsFiniteSet(L) /\ Cardinality(L) <= Cardinality(T)
    BY <2>1, FS_Subset
  <2>3. Cardinality(L) \in Nat /\ Cardinality(T) \in Nat /\ MaxAddresses \in Nat
    BY <2>2, FS_CardinalityType, GateAssumption
  <2> QED
    BY <2>2, <2>3 DEF TableInv, T
<1>2. ASSUME NEW r \in Requests, Check(r) PROVE TableInv'
  <2> DEFINE live == [a \in Addresses |-> Live(failures[a])]
  <2>1. Tracked(live) = L
    BY DEF Tracked
  <2>2. From[r] \in Addresses
    BY <1>2, GateAssumption DEF Check
  <2>3. \/ failures' = live
        \/ /\ Cardinality(Tracked(live)) >= MaxAddresses => From[r] \in Tracked(live)
           /\ failures' = [live EXCEPT ![From[r]] = Counted(@)]
    BY <1>2 DEF Check
  <2> HIDE DEF L, live
  <2>4. CASE failures' = live
    BY <1>1, <2>1, <2>4 DEF TableInv, Tracked
  <2>5. CASE /\ Cardinality(L) >= MaxAddresses => From[r] \in L
             /\ failures' = [live EXCEPT ![From[r]] = Counted(@)]
    <3>1. Live(failures[From[r]]) \in Seq(Nat)
      BY <2>2, LiveAgrees DEF HistoryInv, Ends, Drops
    <3>2. Counted(Live(failures[From[r]])) # <<>>
      BY <2>2, LiveAgrees, <3>1, CountedAgrees DEF HistoryInv
    <3>3. Tracked(failures') = L \cup {From[r]}
      BY <2>2, <2>5, <3>2 DEF live, L, Tracked
    <3>4. /\ From[r] \in L => Cardinality(L \cup {From[r]}) = Cardinality(L)
          /\ From[r] \notin L => Cardinality(L \cup {From[r]}) = Cardinality(L) + 1
      BY <1>1, FS_AddElement
    <3>5. Cardinality(L \cup {From[r]}) <= MaxAddresses
      BY <1>1, <2>5, <3>4
    <3> QED
      BY <3>3, <3>5 DEF TableInv, Tracked
  <2> QED
    BY <2>1, <2>3, <2>4, <2>5
<1>3. CASE failures' = failures
  BY <1>3 DEF TableInv, Tracked
<1>4. ASSUME NEW r \in Requests,
             Admit(r) \/ Handle(r) \/ Compute(r) \/ FreeWorker(r) \/ GoAway(r)
      PROVE  failures' = failures
  BY <1>4 DEF Admit, Handle, Acquire, Resume, Wake, Compute, FreeWorker, GoAway, limiter
<1>5. CASE Tick \/ UNCHANGED vars
  BY <1>3, <1>5 DEF Tick, vars, limiter
<1> QED
  BY <1>2, <1>3, <1>4, <1>5 DEF Next, Work

(* However failures come and expire, the table holds what its addresses'    *)
(* logs say, the newest Threshold of what is inside the window, and no more *)
(* addresses than it may (limiter.rs:39-66).                                *)
THEOREM HistoriesFollowTheLog ==
    ASSUME IsFiniteSet(Addresses) PROVE Spec => []HistoryIsTheLog
<1>1. Init => HistoryInv /\ TableInv
  <2>1. Init => Tracked(failures) = {}
    BY DEF Init, Tracked
  <2> QED
    BY <2>1, HistoryInit, FS_EmptySet, GateAssumption DEF TableInv
<1>2. HistoryInv /\ TableInv /\ [Next]_vars => (HistoryInv /\ TableInv)'
  BY HistoryStep, TableStep
<1>3. HistoryInv /\ TableInv => HistoryIsTheLog
  <2> SUFFICES ASSUME HistoryInv, TableInv, NEW a \in Addresses
               PROVE  Live(failures[a]) = Latest(Live(log[a]))
    BY DEF HistoryIsTheLog, TableInv, Latest
  <2> QED
    BY LiveAgrees DEF HistoryInv, Ends, Drops
<1> QED
  BY <1>1, <1>2, <1>3, PTL DEF Spec
=============================================================================
