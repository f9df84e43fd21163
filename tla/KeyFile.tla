------------------------------- MODULE KeyFile -------------------------------
(***************************************************************************)
(* The signing key's file (src/auth/key.rs): a boot without a configured    *)
(* key reads secret.key, or draws a key and creates the file exclusively,   *)
(* writes it, syncs it and then its directory.  Boots may race on one data  *)
(* directory, fail, or be killed at any step, and the machine may lose      *)
(* power.  Nothing else changes the file, so the comparisons of its inode   *)
(* always agree.                                                            *)
(***************************************************************************)
EXTENDS Naturals

CONSTANTS
    None,           \* no file, no key
    Boots,          \* processes, each started once; a key is named by who drew it
    KeyBytes        \* MASTER_KEY_BYTES

(* Who drew the key, and how much of it is written. *)
Files == [of : Boots, length : 0..KeyBytes]

ASSUME KeyAssumption == KeyBytes \in Nat \ {0} /\ None \notin Boots /\ None \notin Files

VARIABLES
    file,           \* secret.key as processes see it
    synced,         \* how much of it survives a power loss: "no", "data", "entry"
    step,           \* where each boot is in load_persisted
    key,            \* what load returned to it
    created,        \* history: boots whose creation succeeded
    unplugged       \* history: boots whose machine has lost power since

vars == <<file, synced, step, key, created, unplugged>>
history == <<created, unplugged>>

Goto(b, place) == step' = [step EXCEPT ![b] = place]
Load(b, k) == Goto(b, "loaded") /\ key' = [key EXCEPT ![b] = k]

(* read_existing, up to the length in its metadata.                         *)
Examine(b) ==
    /\ file # None
    /\ Goto(b, IF file.length = KeyBytes THEN "reading" ELSE "failed")

Look(b) ==
    /\ step[b] = "new"
    /\ \/ file = None /\ Goto(b, "creating")
       \/ Examine(b)
    /\ UNCHANGED <<file, synced, key, history>>

(* Mistaken: opens with create and truncate instead of create_new.          *)
CreateOrTruncate(b) ==
    /\ step[b] = "creating"
    /\ file' = [of |-> b, length |-> 0]
    /\ synced' = "no"
    /\ Goto(b, "writing")
    /\ UNCHANGED <<key, history>>

Create(b) ==
    /\ step[b] = "creating"
    /\ \/ /\ file = None
          /\ file' = [of |-> b, length |-> 0]
          /\ synced' = "no"
          /\ Goto(b, "writing")
       \/ file # None /\ Goto(b, "found") /\ UNCHANGED <<file, synced>>
    /\ UNCHANGED <<key, history>>

LookAgain(b) ==
    /\ step[b] = "found"
    /\ Examine(b)
    /\ UNCHANGED <<file, synced, key, history>>

Read(b) ==
    /\ step[b] = "reading"
    /\ Load(b, file.of)
    /\ UNCHANGED <<file, synced, history>>

(* write_all, in as many writes as the kernel takes.                        *)
Write(b) ==
    /\ step[b] = "writing"
    /\ \E n \in file.length + 1..KeyBytes :
        /\ file' = [file EXCEPT !.length = n]
        /\ Goto(b, IF n = KeyBytes THEN "syncing" ELSE "writing")
    /\ UNCHANGED <<synced, key, history>>

Sync(b) ==
    /\ step[b] = "syncing"
    /\ synced' = "data"
    /\ Goto(b, "syncing directory")
    /\ UNCHANGED <<file, key, history>>

(* Mistaken: the directory is not synced.                                   *)
SyncDirectoryNot(b) ==
    /\ step[b] = "syncing directory"
    /\ Load(b, b)
    /\ created' = created \cup {b}
    /\ UNCHANGED <<file, synced, unplugged>>

SyncDirectory(b) ==
    /\ step[b] = "syncing directory"
    /\ synced' = "entry"
    /\ Load(b, b)
    /\ created' = created \cup {b}
    /\ UNCHANGED <<file, unplugged>>

(* Any call fails, or the process is killed; the file is left as it is.     *)
Fail(b) ==
    /\ step[b] \notin {"new", "loaded", "failed"}
    /\ Goto(b, "failed")
    /\ UNCHANGED <<file, synced, key, history>>

(* What of the file is on the disk when power is lost, and stays there.     *)
Survivors ==
    IF file = None \/ synced = "entry" THEN {file}
    ELSE {None} \cup [of : {file.of},
                      length : IF synced = "data" THEN {file.length} ELSE 0..file.length]

PowerLoss ==
    /\ file' \in Survivors
    /\ synced' = "entry"
    /\ step' = [b \in Boots |-> IF step[b] \in {"new", "loaded"} THEN step[b] ELSE "failed"]
    /\ unplugged' = {b \in Boots : key[b] # None}
    /\ UNCHANGED <<key, created>>

-----------------------------------------------------------------------------
Init ==
    /\ file = None /\ synced = "entry"
    /\ step = [b \in Boots |-> "new"]
    /\ key = [b \in Boots |-> None]
    /\ created = {} /\ unplugged = {}

Next ==
    \/ \E b \in Boots : \/ Look(b) \/ Create(b) \/ LookAgain(b) \/ Read(b)
                        \/ Write(b) \/ Sync(b) \/ SyncDirectory(b) \/ Fail(b)
    \/ PowerLoss

Spec == Init /\ [][Next]_vars

-----------------------------------------------------------------------------
(***************************************************************************)
(* Properties.                                                              *)
(***************************************************************************)

(* Processes that have loaded a key while the machine was up sign with the  *)
(* same one, however their boots raced and whichever of them died halfway:  *)
(* none keeps a key that lost the race for the file (create_new).           *)
KeysAgree ==
    \A b, c \in Boots \ unplugged :
        key[b] # None /\ key[c] # None => key[b] = key[c]

(* Once a boot has returned the key it created, no later boot returns       *)
(* another one, power losses included: file and directory are synced before *)
(* the first cookie is signed.                                              *)
CreatedKeyLasts ==
    [][\A b \in created, c \in Boots :
           key[c] = None /\ key'[c] # None => key'[c] = key[b]]_vars
=============================================================================
