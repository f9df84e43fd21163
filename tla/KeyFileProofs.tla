---------------------------- MODULE KeyFileProofs ----------------------------
(***************************************************************************)
(* The properties of KeyFile for any number of boots and any key length.    *)
(***************************************************************************)
EXTENDS KeyFile, TLAPS

Types ==
    /\ file \in Files \cup {None}
    /\ synced \in {"no", "data", "entry"}
    /\ step \in [Boots -> {"new", "creating", "found", "reading", "writing", "syncing",
                           "syncing directory", "loaded", "failed"}]
    /\ key \in [Boots -> Boots \cup {None}]
    /\ created \subseteq Boots /\ unplugged \subseteq Boots

Making == {"writing", "syncing", "syncing directory"}

(* A boot that is making the file made the one that is there.               *)
MakerOwns ==
    \A b \in Boots :
        /\ step[b] \in Making => file # None /\ file.of = b
        /\ step[b] = "reading" => file # None

(* While the machine stays up, the keys that were returned are the file's;  *)
(* a key whose creation succeeded is the file's for good.                   *)
KeysAreTheFile ==
    \A b \in Boots :
        /\ key[b] # None => step[b] = "loaded"
        /\ key[b] # None /\ b \notin unplugged => file # None /\ key[b] = file.of
        /\ b \in created => file # None /\ file.of = b /\ key[b] = b /\ synced = "entry"

KInv == Types /\ MakerOwns /\ KeysAreTheFile

LEMMA InitKInv == Init => KInv
  BY KeyAssumption DEF Init, KInv, Types, MakerOwns, KeysAreTheFile, Making

(* The steps of one boot. *)
LEMMA BootKInv ==
    ASSUME KInv, NEW b \in Boots,
           \/ Look(b) \/ Create(b) \/ LookAgain(b) \/ Read(b)
           \/ Write(b) \/ Sync(b) \/ SyncDirectory(b) \/ Fail(b)
    PROVE  KInv'
<1> USE KeyAssumption DEF Goto, Load, history
<1>a. [of |-> b, length |-> 0] \in Files /\ [of |-> b, length |-> 0] # None
  BY DEF Files
<1>b. ASSUME Write(b) PROVE file' \in Files /\ file' # None /\ file'.of = file.of
  <2>1. file \in Files
    BY <1>b DEF KInv, Types, MakerOwns, Making, Write
  <2>2. PICK n \in file.length + 1..KeyBytes : file' = [file EXCEPT !.length = n]
    BY <1>b DEF Write
  <2>3. file' \in Files /\ file'.of = file.of
    BY <2>1, <2>2 DEF Files
  <2> QED
    BY <2>3
<1>1. Types'
  <2>1. CASE Look(b) \/ LookAgain(b) \/ Fail(b)
    BY <2>1 DEF KInv, Types, Look, LookAgain, Examine, Fail
  <2>2. CASE Create(b)
    BY <2>2, <1>a DEF KInv, Types, Create
  <2>3. CASE Read(b)
    BY <2>3 DEF KInv, Types, MakerOwns, Read, Files
  <2>4. CASE Write(b)
    BY <2>4, <1>b DEF KInv, Types, Write
  <2>5. CASE Sync(b)
    BY <2>5 DEF KInv, Types, Sync
  <2>6. CASE SyncDirectory(b)
    <3>1. key' \in [Boots -> Boots \cup {None}] /\ step' \in [Boots -> {"new", "creating",
              "found", "reading", "writing", "syncing", "syncing directory", "loaded", "failed"}]
      BY <2>6 DEF KInv, Types, SyncDirectory
    <3> QED
      BY <2>6, <3>1 DEF KInv, Types, SyncDirectory
  <2> QED
    BY <2>1, <2>2, <2>3, <2>4, <2>5, <2>6
<1>2. MakerOwns'
  <2>1. CASE Look(b) \/ LookAgain(b) \/ Fail(b)
    BY <2>1 DEF KInv, Types, MakerOwns, Making, Look, LookAgain, Examine, Fail
  <2>2. CASE Create(b)
    <3>1. CASE file # None
      BY <2>2, <3>1 DEF KInv, Types, MakerOwns, Making, Create
    <3>2. CASE file = None
      <4>1. \A c \in Boots : step[c] \notin Making \cup {"reading"}
        BY <3>2 DEF KInv, MakerOwns
      <4>2. file'.of = b /\ file' # None /\ step' = [step EXCEPT ![b] = "writing"]
        BY <2>2, <3>2, <1>a DEF Create
      <4> QED
        BY <4>1, <4>2 DEF KInv, Types, MakerOwns, Making
    <3> QED
      BY <3>1, <3>2
  <2>3. CASE Write(b)
    BY <2>3, <1>b DEF KInv, Types, MakerOwns, Making, Write
  <2>4. CASE Read(b) \/ Sync(b) \/ SyncDirectory(b)
    BY <2>4 DEF KInv, Types, MakerOwns, Making, Read, Sync, SyncDirectory
  <2> QED
    BY <2>1, <2>2, <2>3, <2>4
<1>3. KeysAreTheFile'
  <2>1. CASE Look(b) \/ LookAgain(b) \/ Fail(b)
    BY <2>1 DEF KInv, Types, KeysAreTheFile, Look, LookAgain, Examine, Fail
  <2>2. CASE Create(b)
    BY <2>2, <1>a DEF KInv, Types, KeysAreTheFile, Create
  <2>3. CASE Read(b)
    BY <2>3 DEF KInv, Types, MakerOwns, KeysAreTheFile, Read
  <2>4. CASE Write(b)
    BY <2>4, <1>b DEF KInv, Types, MakerOwns, KeysAreTheFile, Making, Write
  (* A second maker of the file there is would be its first one. *)
  <2>5. CASE Sync(b)
    BY <2>5 DEF KInv, Types, MakerOwns, KeysAreTheFile, Making, Sync
  <2>6. CASE SyncDirectory(b)
    BY <2>6 DEF KInv, Types, MakerOwns, KeysAreTheFile, Making, SyncDirectory
  <2> QED
    BY <2>1, <2>2, <2>3, <2>4, <2>5, <2>6
<1> QED
  BY <1>1, <1>2, <1>3 DEF KInv

LEMMA PowerKInv == ASSUME KInv, PowerLoss PROVE KInv'
<1> USE KeyAssumption
<1>1. Types'
  <2>1. Survivors \subseteq Files \cup {None}
    <3>1. CASE file = None \/ synced = "entry"
      BY <3>1 DEF KInv, Types, Survivors
    <3>2. CASE ~(file = None \/ synced = "entry")
      <4>1. file \in Files
        BY <3>2 DEF KInv, Types
      <4>2. /\ file.of \in Boots /\ file.length \in 0..KeyBytes
            /\ 0..file.length \subseteq 0..KeyBytes
        BY <4>1 DEF Files
      <4>3. Survivors \subseteq {None} \cup [of : {file.of}, length : 0..KeyBytes]
        BY <3>2, <4>2 DEF Survivors
      <4> QED
        BY <4>2, <4>3 DEF Files
    <3> QED
      BY <3>1, <3>2
  <2> QED
    BY <2>1 DEF KInv, Types, PowerLoss
<1>2. MakerOwns'
  BY DEF KInv, Types, MakerOwns, Making, PowerLoss
<1>3. KeysAreTheFile'
  BY DEF KInv, Types, KeysAreTheFile, PowerLoss, Survivors
<1> QED
  BY <1>1, <1>2, <1>3 DEF KInv

(* The inductive invariant holds in every reachable state. *)
THEOREM KeyInvariance == Spec => []KInv
<1>1. KInv /\ UNCHANGED vars => KInv'
  BY DEF KInv, Types, MakerOwns, KeysAreTheFile, vars
<1>2. KInv /\ [Next]_vars => KInv'
  BY <1>1, BootKInv, PowerKInv DEF Next
<1> QED
  BY InitKInv, <1>2, PTL DEF Spec

(* However boots race and die, the keys they return while the machine stays *)
(* up are one key.                                                          *)
THEOREM OneKeyPerMachine == Spec => []KeysAgree
<1>1. KInv => KeysAgree
  BY DEF KInv, KeysAreTheFile, KeysAgree
<1> QED
  BY <1>1, KeyInvariance, PTL

(* A created key is returned by every later boot, power losses included.    *)
THEOREM CreationLasts == Spec => CreatedKeyLasts
<1>1. ASSUME KInv, [Next]_vars, NEW b \in created, NEW c \in Boots,
             key[c] = None, key'[c] # None
      PROVE  key'[c] = key[b]
  <2>1. file # None /\ file.of = b /\ key[b] = b
    BY <1>1 DEF KInv, Types, KeysAreTheFile
  <2>2. Read(c) \/ SyncDirectory(c)
    BY <1>1, KeyAssumption DEF KInv, Types, Next, vars, history, Look, Create, LookAgain, Read, Write,
       Sync, SyncDirectory, Fail, PowerLoss, Goto, Load
  <2>3. CASE Read(c)
    BY <2>1, <2>3, <1>1 DEF Read, Load, KInv, Types
  <2>4. CASE SyncDirectory(c)
    BY <2>1, <2>4, <1>1 DEF SyncDirectory, Load, KInv, Types, MakerOwns, Making
  <2> QED
    BY <2>2, <2>3, <2>4
<1>2. KInv /\ [Next]_vars => [\A b \in created, c \in Boots :
           key[c] = None /\ key'[c] # None => key'[c] = key[b]]_vars
  BY <1>1
<1> QED
  BY <1>2, KeyInvariance, PTL DEF Spec, CreatedKeyLasts
=============================================================================
