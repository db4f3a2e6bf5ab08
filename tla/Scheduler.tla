------------------------------ MODULE Scheduler ------------------------------
(***************************************************************************)
(* schedule_overlaps() of labgrid/remote/scheduler.py as a state machine:  *)
(* one action per iteration of its while loop, over every possible         *)
(* relation between filters and places.                                    *)
(***************************************************************************)
EXTENDS Scheduling

CONSTANTS NumFilters, Places

ASSUME NumFiltersAssumption == NumFilters \in Nat

Filters == 1..NumFilters

VARIABLES match,       \* which places satisfy which filter
          places,      \* the places not allocated yet
          filters,     \* the filters not allocated yet
          allocation,  \* the dict built so far: filter -> place
          running      \* the loop has not been left
vars == <<match, places, filters, allocation, running>>

\* Lists and dict are well-formed, and every filter is either served or still
\* in the list: the assert that an unserved filter has no allocation.
TypeOK ==
  /\ match \in [Filters -> SUBSET Places]
  /\ places \in SUBSET Places
  /\ filters \in SUBSET Filters
  /\ DOMAIN allocation = Filters \ filters
  /\ \A f \in DOMAIN allocation : allocation[f] \in Places
  /\ running \in BOOLEAN

Init ==
  /\ match \in [Filters -> SUBSET Places]
  /\ places = Places
  /\ filters = Filters
  /\ allocation = [f \in {} |-> 0]
  /\ running = TRUE

-----------------------------------------------------------------------------
(* An iteration with a non-empty result: the new allocations are taken out *)
(* of both lists and added to the dict.                                    *)
Iterate_keeps_places ==
  /\ running
  /\ Interested(match, places, filters) # {}
  /\ \E new \in StepAllocations(match, places, filters) :
       /\ filters' = filters \ DOMAIN new
       /\ allocation' = Merge(allocation, new)
  /\ UNCHANGED <<match, places, running>>

Iterate_keeps_filters ==
  /\ running
  /\ Interested(match, places, filters) # {}
  /\ \E new \in StepAllocations(match, places, filters) :
       /\ places' = places \ Given(new)
       /\ allocation' = Merge(allocation, new)
  /\ UNCHANGED <<match, filters, running>>

Iterate ==
  /\ running
  /\ Interested(match, places, filters) # {}
  /\ \E new \in StepAllocations(match, places, filters) :
       /\ places' = places \ Given(new)
       /\ filters' = filters \ DOMAIN new
       /\ allocation' = Merge(allocation, new)
  /\ UNCHANGED <<match, running>>

(* "if not new: break".                                                    *)
Leave_when_all_served ==
  /\ running
  /\ filters = {}
  /\ running' = FALSE
  /\ UNCHANGED <<match, places, filters, allocation>>

Leave_after_first_round ==
  /\ running
  /\ \/ Interested(match, places, filters) = {}
     \/ DOMAIN allocation # {}
  /\ running' = FALSE
  /\ UNCHANGED <<match, places, filters, allocation>>

Leave ==
  /\ running
  /\ Interested(match, places, filters) = {}
  /\ running' = FALSE
  /\ UNCHANGED <<match, places, filters, allocation>>

Next == Iterate \/ Leave

(* The loop is one synchronous Python function: it never pauses.           *)
Spec == Init /\ [][Next]_vars /\ WF_vars(Next)

-----------------------------------------------------------------------------
(* No place is given to two filters, and a place that was given away is no *)
(* longer offered to the remaining filters.                                *)
NoDoubleAllocation ==
  /\ \A f, g \in DOMAIN allocation : allocation[f] = allocation[g] => f = g
  /\ \A f \in DOMAIN allocation : allocation[f] \notin places

(* Every allocated place carries the tags its filter asks for, and is      *)
(* never taken past a more important filter that wanted it and is still    *)
(* unserved: although a round serves the scarcest places first and not the *)
(* first filters first, priority decides between the rivals for a place.   *)
NoPriorityInversion ==
  \A f \in DOMAIN allocation :
    /\ allocation[f] \in match[f]
    /\ \A g \in Filters :
         (g < f /\ allocation[f] \in match[g]) => g \in DOMAIN allocation

(* When the loop ends, a filter stays unserved only because every place    *)
(* with the right tags went to a more important filter: no matching place  *)
(* is left idle, and none was given to a later filter.                     *)
JustifiedWaiting ==
  ~running =>
    \A f \in Filters \ DOMAIN allocation : \A p \in match[f] :
      \E g \in DOMAIN allocation : g < f /\ allocation[g] = p

(* The while loop ends: every iteration removes a filter.                  *)
Terminates == <>(~running)
=============================================================================
