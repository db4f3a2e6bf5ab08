---------------------------- MODULE Reservations ----------------------------
(***************************************************************************)
(* Reservations of places in labgrid/remote/coordinator.py: the RPCs that  *)
(* create, cancel and refresh them, the RPCs on places that they depend    *)
(* on, and schedule_reservations(), which most of these RPCs end with and  *)
(* a poll task calls every 15 seconds.  All of them hold the coordinator's *)
(* lock from beginning to end, and no other reads what is modelled here,   *)
(* so each is one step; a handler that is cancelled ends early.            *)
(*                                                                         *)
(* Time is the flag lapsed of a reservation: its timeout lies in the past. *)
(* Refreshing clears the flag; it can be set at any moment, since nothing  *)
(* bounds how long the lock is kept or how long a client stays silent.     *)
(*                                                                         *)
(* A tag is an element of Tag; ("name", name), which schedule_reservations *)
(* adds to every place, is the place itself.  A filter is a set of tags.   *)
(***************************************************************************)
EXTENDS Scheduling

CONSTANTS
  Place, Tag, Token, User,
  Filter,   \* the filters clients ask for, sets of tags and place names
  Prio,     \* the priorities they ask for, a set of integers
  None

ASSUME ReservationAssumption ==
  /\ Filter \subseteq SUBSET (Tag \cup Place)
  /\ Prio \subseteq Int
  /\ Place \cap Tag = {}
  /\ None \notin Place \cup Token \cup User

VARIABLES
  res,      \* self.reservations: a record for each token in use, else None
  older,    \* created: the tokens in use that were created before this one
  exists,   \* self.places: the names in use
  acq,      \* place.acquired: a user or None
  resv,     \* place.reservation: a token or None
  tags,     \* place.tags
  renewed   \* history: the names that were added while a reservation still had
            \* the deleted place of that name, since schedule_reservations()
            \* last came to its end
placeVars == <<exists, acq, tags>>
copyVars == <<resv, renewed>>
vars == <<res, older, placeVars, copyVars>>

State == {"waiting", "allocated", "acquired", "expired", "invalid"}

Reservation ==
  [owner : User, filter : Filter, prio : Prio, state : State,
   alloc : Place \cup {None}, lapsed : BOOLEAN]

ASSUME NoneAssumption == None \notin Reservation

InUse(rs) == {t \in Token : rs[t] # None}

(* The reservations in use are finitely many and were created one after    *)
(* the other.                                                              *)
CreationOrder(rs, o) ==
  /\ IsFiniteSet(InUse(rs))
  /\ o \in [Token -> SUBSET InUse(rs)]
  /\ \A t \in Token : t \notin o[t]
  /\ \A t, u \in InUse(rs) : t \in o[u] \/ u \in o[t] \/ t = u
  /\ \A t, u \in Token : t \in o[u] => o[t] \subseteq o[u]

(* One type invariant for the module.                                      *)
TypeOK ==
  /\ res \in [Token -> Reservation \cup {None}]
  /\ CreationOrder(res, older)
  /\ exists \in SUBSET Place /\ renewed \in SUBSET Place
  /\ acq \in [Place -> User \cup {None}]
  /\ resv \in [Place -> Token \cup {None}]
  /\ tags \in [Place -> SUBSET Tag]

Init ==
  /\ res = [t \in Token |-> None]
  /\ older = [t \in Token |-> {}]
  /\ exists \in SUBSET Place
  /\ renewed = {}
  /\ acq = [p \in Place |-> None]
  /\ resv = [p \in Place |-> None]
  /\ tags \in {T \in [Place -> SUBSET Tag] : \A p \in Place \ exists : T[p] = {}}

-----------------------------------------------------------------------------
(* schedule_reservations(), a function of what the caller has done to the  *)
(* reservations rs, the order o of their creation, and place.acquired (ac).*)

Refreshed(r) == [r EXCEPT !.lapsed = FALSE]

(* The first loop: acquired reservations are refreshed; a lapsed one       *)
(* expires, and is removed when it has lapsed again.                       *)
Expire_acquired_too(rs) ==
  [t \in Token |->
     IF rs[t] = None THEN None
     ELSE IF ~rs[t].lapsed THEN rs[t]
     ELSE IF rs[t].state = "expired" THEN None
     ELSE Refreshed([rs[t] EXCEPT !.state = "expired", !.alloc = None])]

Expire_keeps_allocation(rs) ==
  [t \in Token |->
     IF rs[t] = None THEN None
     ELSE IF rs[t].state = "acquired" THEN Refreshed(rs[t])
     ELSE IF ~rs[t].lapsed THEN rs[t]
     ELSE IF rs[t].state = "expired" THEN None
     ELSE Refreshed([rs[t] EXCEPT !.state = "expired"])]

Expire(rs) ==
  [t \in Token |->
     IF rs[t] = None THEN None
     ELSE IF rs[t].state = "acquired" THEN Refreshed(rs[t])
     ELSE IF ~rs[t].lapsed THEN rs[t]
     ELSE IF rs[t].state = "expired" THEN None
     ELSE Refreshed([rs[t] EXCEPT !.state = "expired", !.alloc = None])]

(* The second loop: the allocated place is gone, was acquired, or was      *)
(* released.                                                               *)
Transition(rs, ac) ==
  [t \in Token |->
     IF rs[t] = None \/ rs[t].alloc = None THEN rs[t]
     ELSE IF rs[t].alloc \notin exists
     THEN Refreshed([rs[t] EXCEPT !.state = "invalid", !.alloc = None])
     ELSE IF ac[rs[t].alloc] # None /\ rs[t].state = "allocated"
     THEN Refreshed([rs[t] EXCEPT !.state = "acquired"])
     ELSE IF ac[rs[t].alloc] = None /\ rs[t].state = "acquired"
     THEN Refreshed([rs[t] EXCEPT !.state = "allocated"])
     ELSE rs[t]]

Allocated(rs) == {rs[t].alloc : t \in InUse(rs)} \ {None}

Available(ac) == {p \in exists : ac[p] = None /\ resv[p] = None}

(* sorted(..., key = (-prio, created)): t comes before u.                  *)
Before_lowest_first(rs, o, t, u) ==
  \/ rs[t].prio < rs[u].prio
  \/ rs[t].prio = rs[u].prio /\ t \in o[u]

Before(rs, o, t, u) ==
  \/ rs[t].prio > rs[u].prio
  \/ rs[t].prio = rs[u].prio /\ t \in o[u]

Pending(rs) == {t \in InUse(rs) : rs[t].state = "waiting"}

(* The list of filters handed to schedule(): n |-> the n-th reservation.   *)
Sorted(rs, o) ==
  [n \in 1..Cardinality(Pending(rs)) |->
     CHOOSE t \in Pending(rs) :
       Cardinality({u \in Pending(rs) : Before(rs, o, u, t)}) = n - 1]

Suits(f, p) == f \subseteq tags[p] \cup {p}

(* What schedule() can return for the reservations rs: token -> place.     *)
Allocations(rs, o, ac) ==
  LET list == Sorted(rs, o)
      match == [n \in DOMAIN list |-> {p \in Available(ac) : Suits(rs[list[n]].filter, p)}]
  IN {[t \in {list[n] : n \in DOMAIN a} |-> a[CHOOSE n \in DOMAIN a : list[n] = t]] :
        a \in ScheduleOverlaps(match, Available(ac), DOMAIN list)}

Apply(rs, allocation) ==
  [t \in Token |->
     IF t \in DOMAIN allocation
     THEN Refreshed([rs[t] EXCEPT !.state = "allocated", !.alloc = allocation[t]])
     ELSE rs[t]]

(* place.reservation, recomputed for every place.                          *)
Reserved(rs) ==
  [p \in Place |->
     IF \E t \in InUse(rs) : rs[t].alloc = p
     THEN CHOOSE t \in InUse(rs) : rs[t].alloc = p
     ELSE None]

Kept(o, rs) ==
  [t \in Token |-> IF rs[t] = None THEN {} ELSE o[t] \cap InUse(rs)]

(* "inconsistent allocation": the assert between the two halves fails.     *)
Inconsistent(rs, ac) == Available(ac) \cap Allocated(rs) # {}

(* The whole function.  A failing assert leaves what was done before it,   *)
(* and the copies in the places as they were.                              *)
ScheduleReservations(rs, o, ac) ==
  LET now == Transition(Expire(rs), ac) IN
  /\ older' = Kept(o, now)
  /\ IF Inconsistent(now, ac)
     THEN res' = now /\ UNCHANGED copyVars
     ELSE \E allocation \in Allocations(now, Kept(o, now), ac) :
            /\ res' = Apply(now, allocation)
            /\ resv' = Reserved(Apply(now, allocation)) /\ renewed' = {}

-----------------------------------------------------------------------------
(* The RPCs on reservations.                                               *)

(* The token is random, so it is not one that anything still refers to.    *)
CreateReservation(u, f, prio) ==
  \E t \in Token :
    /\ res[t] = None /\ \A p \in Place : resv[p] # t
    /\ ScheduleReservations(
         [res EXCEPT ![t] = [owner |-> u, filter |-> f, prio |-> prio,
                             state |-> "waiting", alloc |-> None, lapsed |-> FALSE]],
         [older EXCEPT ![t] = InUse(res)], acq)
    /\ UNCHANGED placeVars

CancelReservation(t) ==
  /\ res[t] # None
  /\ LET rest == [res EXCEPT ![t] = None]
     IN  ScheduleReservations(rest, Kept(older, rest), acq)
  /\ UNCHANGED placeVars

PollReservation(t) ==
  /\ res[t] # None
  /\ res' = [res EXCEPT ![t] = Refreshed(@)]
  /\ UNCHANGED <<older, placeVars, copyVars>>

(* _poll_step_schedule.                                                    *)
PollSchedule_only_expires ==
  /\ res' = Expire(res)
  /\ older' = Kept(older, res')
  /\ resv' = Reserved(res') /\ renewed' = {}
  /\ UNCHANGED placeVars

PollSchedule ==
  /\ ScheduleReservations(res, older, acq)
  /\ UNCHANGED placeVars

(* 60 seconds (300 for an invalid reservation) pass without a refresh.     *)
Lapse(t) ==
  /\ res[t] # None /\ ~res[t].lapsed
  /\ res' = [res EXCEPT ![t].lapsed = TRUE]
  /\ UNCHANGED <<older, placeVars, copyVars>>

-----------------------------------------------------------------------------
(* The RPCs on places.                                                     *)

MayAcquire_any_user(u, p) == p \in exists /\ acq[p] = None

(* A reservation that no longer exists is a KeyError.                      *)
MayAcquire(u, p) ==
  /\ p \in exists /\ acq[p] = None
  /\ resv[p] # None => res[resv[p]] # None /\ res[resv[p]].owner = u

(* AcquirePlace when its resources are acquired; if they are not, it       *)
(* leaves nothing changed.                                                 *)
AcquirePlace(u, p) ==
  /\ MayAcquire(u, p)
  /\ acq' = [acq EXCEPT ![p] = u]
  /\ ScheduleReservations(res, older, acq')
  /\ UNCHANGED <<exists, tags>>

(* Cancelled while it awaits an exporter, it leaves the place acquired.    *)
AcquireCancelled(u, p) ==
  /\ MayAcquire(u, p)
  /\ acq' = [acq EXCEPT ![p] = u]
  /\ UNCHANGED <<res, older, exists, tags, copyVars>>

(* Cancelled while it awaits an exporter, it changes nothing.              *)
ReleasePlace(p) ==
  /\ p \in exists /\ acq[p] # None
  /\ acq' = [acq EXCEPT ![p] = None]
  /\ ScheduleReservations(res, older, acq')
  /\ UNCHANGED <<exists, tags>>

(* A new Place object: no tags, not acquired, not reserved.                *)
AddPlace(p) ==
  /\ p \notin exists
  /\ exists' = exists \cup {p}
  /\ renewed' = renewed \cup ({p} \cap Allocated(res))
  /\ UNCHANGED <<res, older, acq, resv, tags>>

(* DeletePlace looks neither at the reservation nor at place.acquired; the *)
(* Place object and all it says are gone.                                  *)
DeletePlace(p) ==
  /\ p \in exists
  /\ exists' = exists \ {p}
  /\ acq' = [acq EXCEPT ![p] = None]
  /\ resv' = [resv EXCEPT ![p] = None]
  /\ tags' = [tags EXCEPT ![p] = {}]
  /\ UNCHANGED <<res, older, renewed>>

SetPlaceTags(p, T) ==
  /\ p \in exists /\ tags[p] # T
  /\ tags' = [tags EXCEPT ![p] = T]
  /\ UNCHANGED <<res, older, exists, acq, copyVars>>

-----------------------------------------------------------------------------
Next ==
  \/ \E u \in User, f \in Filter, n \in Prio : CreateReservation(u, f, n)
  \/ \E t \in Token : CancelReservation(t) \/ PollReservation(t) \/ Lapse(t)
  \/ PollSchedule
  \/ \E p \in Place :
       \/ \E u \in User : AcquirePlace(u, p) \/ AcquireCancelled(u, p)
       \/ ReleasePlace(p) \/ AddPlace(p) \/ DeletePlace(p)
       \/ \E T \in SUBSET Tag : SetPlaceTags(p, T)

(* The poll task calls schedule_reservations() again and again.            *)
Spec == Init /\ [][Next]_vars /\ WF_vars(PollSchedule)

-----------------------------------------------------------------------------
(* Two reservations are never allocated the same place: the asserts        *)
(* "conflicting allocation" of schedule_reservations() hold.               *)
AllocationsDisjoint ==
  \A t, u \in InUse(res) :
    (res[t].alloc # None /\ res[t].alloc = res[u].alloc) => t = u

(* "The primary information is stored in the reservations and the places   *)
(* only have a copy": between the RPCs the copy is exact, and allocated or *)
(* acquired reservations are exactly the ones with a place.                *)
CopyIsAlwaysExact ==
  /\ \A p \in exists, t \in Token :
       resv[p] = t <=> (res[t] # None /\ res[t].alloc = p)
  /\ \A t \in InUse(res) :
       res[t].alloc # None <=> res[t].state \in {"allocated", "acquired"}

(* That does not hold for a place whose name was added again while a       *)
(* reservation still had the deleted one: the new Place object has no copy *)
(* of it, and schedule_reservations() fails before it makes one.  While it *)
(* fails no copy is cleared either, so others may have one too many.       *)
CopyIsExact ==
  /\ \A p \in exists \ renewed, t \in InUse(res) : res[t].alloc = p => resv[p] = t
  /\ renewed = {} => \A p \in exists, t \in Token :
                       resv[p] = t => res[t] # None /\ res[t].alloc = p
  /\ \A t \in InUse(res) :
       res[t].alloc # None <=> res[t].state \in {"allocated", "acquired"}

(* The state between two RPCs: all of the above.                           *)
ReservationsConsistent == TypeOK /\ AllocationsDisjoint /\ CopyIsExact

(* While a place is allocated for a reservation, only the owner of the     *)
(* reservation can lock that place.                                        *)
LocksOnlyAsOwner(places) ==
  \A p \in places :
    (acq[p] = None /\ acq'[p] # None) =>
      \A t \in InUse(res) : res[t].alloc = p => res[t].owner = acq'[p]

OnlyOwnerEverLocks == [][LocksOnlyAsOwner(Place)]_vars

(* That holds but for a place whose name was added again meanwhile, which  *)
(* anybody can lock.                                                       *)
OnlyOwnerLocks == [][LocksOnlyAsOwner(Place \ renewed)]_vars

(* A reservation in state acquired does not expire as long as its place is *)
(* locked, however late the next call of schedule_reservations() is.       *)
StaysAcquired(t) ==
  ( /\ res[t].state = "acquired" /\ res[t].alloc \in exists
    /\ acq[res[t].alloc] # None /\ res'[t] # None )
  => res'[t].state # "expired"

(* The call that locks the place of a reservation does not take the place  *)
(* from it.                                                                *)
KeepsPlace(t) ==
  ( /\ res[t].alloc \in exists
    /\ acq[res[t].alloc] = None /\ acq'[res[t].alloc] # None )
  => res'[t] # None /\ res'[t].alloc = res[t].alloc

LockingAlwaysKeepsReservation == [][\A t \in InUse(res) : KeepsPlace(t)]_vars

(* That does not hold of a reservation whose timeout has passed when its   *)
(* owner comes: the schedule_reservations() at the end of AcquirePlace     *)
(* expires it first.  It holds of every other.                             *)
ReservedWhileUsed ==
  [][\A t \in InUse(res) : StaysAcquired(t) /\ (res[t].lapsed \/ KeepsPlace(t))]_vars

(* A place newly allocated to t is not one that a reservation of higher    *)
(* priority, or of the same priority and older, is left waiting for.       *)
PriorityRespected ==
  [][\A t, u \in InUse(res') :
       ( /\ res'[t].alloc # None
         /\ (res[t] = None \/ res[t].alloc # res'[t].alloc)
         /\ res'[u].state = "waiting"
         /\ \/ res'[u].prio > res'[t].prio
            \/ /\ res'[u].prio = res'[t].prio
               /\ u \in older'[t] )
       => ~Suits(res'[u].filter, res'[t].alloc)]_vars

(* As soon as any matching place becomes free, the reservation state will  *)
(* change from waiting to allocated: a reservation does not wait for ever  *)
(* beside a place that suits it and that nobody has or is promised.        *)
WaitsBeside(t, p) ==
  /\ res[t] # None /\ res[t].state = "waiting"
  /\ p \in exists /\ acq[p] = None /\ resv[p] = None
  /\ Suits(res[t].filter, p)

FreePlaceIsAlwaysUsed == \A t \in Token, p \in Place : ~<>[]WaitsBeside(t, p)

(* That does not hold while schedule_reservations() fails each time it is  *)
(* called, for a place whose name was added again: its reservation is      *)
(* refreshed by its owner for as long as he likes.  Only then.             *)
FreePlaceIsUsed ==
  \A t \in Token, p \in Place : <>[]WaitsBeside(t, p) => <>[](renewed # {})
=============================================================================
