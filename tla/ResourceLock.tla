---------------------------- MODULE ResourceLock ----------------------------
(***************************************************************************)
(* What a user may rely on when acquiring a place, without exporters,      *)
(* commands, timeouts or orphans: a place has no resources or all it was   *)
(* granted together, no resource is granted twice, and only a place that   *)
(* is acquired has any.  The class Place (labgrid/remote/common.py) keeps  *)
(* this state: acquired, and acquired_resources.                           *)
(***************************************************************************)
CONSTANTS Place, Resource

VARIABLES
  status,   \* self.places and place.acquired: missing, free or acquired
  has       \* the resources in place.acquired_resources

vars == <<status, has>>

Init ==
  /\ status \in [Place -> {"missing", "free"}]
  /\ has = [p \in Place |-> {}]

(* AddPlace, or the default place of an exporter.                          *)
Add(p) ==
  /\ status[p] = "missing"
  /\ status' = [status EXCEPT ![p] = "free"]
  /\ UNCHANGED has

(* DeletePlace: what the place had is free again.                          *)
Delete(p) ==
  /\ status[p] # "missing"
  /\ status' = [status EXCEPT ![p] = "missing"]
  /\ has' = [has EXCEPT ![p] = {}]

(* A user asks for the place, and it is his.                               *)
Lock(p) ==
  /\ status[p] = "free"
  /\ status' = [status EXCEPT ![p] = "acquired"]
  /\ UNCHANGED has

(* All the resources of the place, at once, and only if nobody has them.   *)
Grant(p, S) ==
  /\ status[p] = "acquired" /\ has[p] = {}
  /\ \A q \in Place : has[q] \cap S = {}
  /\ has' = [has EXCEPT ![p] = S]
  /\ UNCHANGED status

(* And back, at once.                                                      *)
TakeBack(p) ==
  /\ status[p] = "acquired"
  /\ has' = [has EXCEPT ![p] = {}]
  /\ UNCHANGED status

(* Once nothing is left the place can be acquired by the next user.        *)
Unlock(p) ==
  /\ status[p] = "acquired" /\ has[p] = {}
  /\ status' = [status EXCEPT ![p] = "free"]
  /\ UNCHANGED has

Next ==
  \E p \in Place :
    \/ Add(p) \/ Delete(p) \/ Lock(p) \/ TakeBack(p) \/ Unlock(p)
    \/ \E S \in SUBSET Resource : Grant(p, S)

Spec == Init /\ [][Next]_vars
=============================================================================
