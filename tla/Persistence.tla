---------------------------- MODULE Persistence ----------------------------
(***************************************************************************)
(* The coordinator's files: places that change while they are written,     *)
(* writes that fail, and a coordinator that is killed at any moment and    *)
(* started again.  A state of the places is a number that grows with every *)
(* change of what is kept; who has acquired a place is not kept.           *)
(***************************************************************************)
EXTENDS Naturals

CONSTANTS MaxChanges, MaxCrashes

VARIABLES
    up, places, acquired,       \* the coordinator: its places, and whether one is acquired
    scheduled,  \* save_scheduled
    pc,         \* of save(): "idle", "resources", "replace_resources", "places", "replace_places"
    snapshot,   \* the copy that is written
    temp,       \* the temporary files: what is in them, by file; Empty when there is none
    disk,       \* the files: the state of the places in each
    failed,     \* a save() failed and there was no change since
    crashes
vars == <<up, places, acquired, scheduled, pc, snapshot, temp, disk, failed, crashes>>

Files == {"resources", "places"}
Empty == [exists |-> FALSE, whole |-> FALSE, state |-> 0]
Content(whole, state) == [exists |-> TRUE, whole |-> whole, state |-> state]

\* The type invariant.
TypeOK ==
    /\ up \in BOOLEAN /\ acquired \in BOOLEAN /\ scheduled \in BOOLEAN /\ failed \in BOOLEAN
    /\ places \in 0..MaxChanges /\ snapshot \in 0..MaxChanges
    /\ pc \in {"idle", "resources", "replace_resources", "places", "replace_places"}
    /\ DOMAIN temp = Files /\ DOMAIN disk = Files /\ crashes \in 0..MaxCrashes

Init ==
    /\ up = TRUE /\ places = 0 /\ acquired = FALSE /\ scheduled = FALSE /\ pc = "idle" /\ snapshot = 0
    /\ temp = [f \in Files |-> Empty]
    /\ disk = [f \in Files |-> Empty]           \* the first start: there is no file
    /\ failed = FALSE /\ crashes = 0

\* A handler changes a place and asks for a save, whatever save() is doing.
Change ==
    /\ up /\ places < MaxChanges
    /\ places' = places + 1 /\ scheduled' = TRUE /\ failed' = FALSE
    /\ UNCHANGED <<up, acquired, pc, snapshot, temp, disk, crashes>>

\* Acquiring and releasing ask for a save too.
Acquire ==
    /\ up
    /\ acquired' = ~acquired /\ scheduled' = TRUE /\ failed' = FALSE
    /\ UNCHANGED <<up, places, pc, snapshot, temp, disk, crashes>>

\* _poll_step_save looks every 15 seconds.
Due == up /\ pc = "idle" /\ scheduled

\* The flag is cleared before the copies are made.
SaveBegin ==
    /\ Due
    /\ scheduled' = FALSE
    /\ snapshot' = places /\ pc' = "resources"
    /\ UNCHANGED <<up, places, acquired, temp, disk, failed, crashes>>

Writes(file, next) ==
    \/ temp' = [temp EXCEPT ![file] = Content(TRUE, snapshot)] /\ pc' = next /\ UNCHANGED failed
    \/ temp' = [temp EXCEPT ![file] = Empty] /\ pc' = "idle" /\ failed' = ~scheduled    \* unlinked; the error is printed

\* atomic_replace, in a thread: a temporary file is written and synced ...
WriteTemp(file) ==
    /\ up /\ pc = file
    /\ IF ~temp[file].exists
       THEN temp' = [temp EXCEPT ![file] = Content(FALSE, snapshot)] /\ UNCHANGED <<pc, failed>>
       ELSE Writes(file, IF file = "resources" THEN "replace_resources" ELSE "replace_places")
    /\ UNCHANGED <<up, places, acquired, scheduled, snapshot, disk, crashes>>

Replace_clears(file) ==
    /\ up /\ pc = (IF file = "resources" THEN "replace_resources" ELSE "replace_places")
    /\ disk' = [disk EXCEPT ![file] = temp[file]] /\ temp' = [temp EXCEPT ![file] = Empty]
    /\ pc' = (IF file = "resources" THEN "places" ELSE "idle") /\ scheduled' = FALSE
    /\ UNCHANGED <<up, places, acquired, snapshot, failed, crashes>>

\* ... and takes the place of the old one.
Replace(file) ==
    /\ up /\ pc = (IF file = "resources" THEN "replace_resources" ELSE "replace_places")
    /\ disk' = [disk EXCEPT ![file] = temp[file]] /\ temp' = [temp EXCEPT ![file] = Empty]
    /\ pc' = IF file = "resources" THEN "places" ELSE "idle"
    /\ UNCHANGED <<up, places, acquired, scheduled, snapshot, failed, crashes>>

Crash ==
    /\ up /\ crashes < MaxCrashes
    /\ up' = FALSE /\ crashes' = crashes + 1
    /\ scheduled' = FALSE /\ pc' = "idle" /\ failed' = FALSE
    /\ UNCHANGED <<places, acquired, snapshot, temp, disk>>

\* load(): places.yaml only, and nothing of what was acquired.  Temporary files
\* of the former life stay where they are, under names that are not used again.
Restart ==
    /\ ~up
    /\ disk["places"].exists => disk["places"].whole
    /\ up' = TRUE /\ acquired' = FALSE
    /\ places' = IF disk["places"].exists THEN disk["places"].state ELSE 0
    /\ temp' = [f \in Files |-> Empty]
    /\ UNCHANGED <<scheduled, pc, snapshot, disk, failed, crashes>>

Next ==
    \/ Change \/ Acquire \/ SaveBegin \/ Crash \/ Restart
    \/ \E file \in Files : WriteTemp(file) \/ Replace(file)

Spec == Init /\ [][Next]_vars
-----------------------------------------------------------------------------
\* When nothing is scheduled and nothing is being written, the file has the
\* coordinator's places, unless the last attempt to write it failed: what
\* changes during a save asks for another one.
DiskUpToDate == (up /\ pc = "idle" /\ ~scheduled /\ ~failed) => (disk["places"].exists => disk["places"].state = places)
                                                               /\ (~disk["places"].exists => places = 0)

\* Whenever the coordinator is killed, the files are whole, and there are never
\* places without the resources that were saved with them.
DiskWhole == \A f \in Files : disk[f].exists => disk[f].whole
ResourcesFirst == disk["places"].exists => disk["resources"].exists

PersistenceHonest == DiskUpToDate /\ DiskWhole /\ ResourcesFirst
-----------------------------------------------------------------------------
(***************************************************************************)
(* The inductive invariant, in the middle of save() as well: a written     *)
(* temporary file has the copy, the copy is current or another save is     *)
(* due, and resources.yaml is there before places.yaml is written.         *)
(***************************************************************************)
Contents == [exists : BOOLEAN, whole : BOOLEAN, state : 0..MaxChanges]
Written(file) == temp[file].exists /\ temp[file].whole /\ temp[file].state = snapshot

SaveInv ==
    /\ TypeOK /\ temp \in [Files -> Contents] /\ disk \in [Files -> Contents]
    /\ ~up => pc = "idle"
    /\ pc = "replace_resources" => Written("resources")
    /\ pc = "replace_places" => Written("places")
    /\ pc \in {"places", "replace_places"} => disk["resources"].exists
    /\ pc # "idle" => scheduled \/ snapshot = places
    /\ PersistenceHonest
=============================================================================
