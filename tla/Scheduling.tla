----------------------------- MODULE Scheduling -----------------------------
(***************************************************************************)
(* The pure part of labgrid/remote/scheduler.py: which filters of a list   *)
(* are matched with which places in one round of schedule_step().          *)
(*                                                                         *)
(* A filter is its position in the list handed to schedule(): the caller   *)
(* (Coordinator.schedule_reservations) sorts that list by priority and     *)
(* age, so a smaller number is a more important filter.  The comparison of *)
(* tag sets, f.tags.issubset(place.tags), is the relation match:           *)
(* match[f] is the set of places whose tags satisfy filter f.              *)
(*                                                                         *)
(* The list of places comes from a Python set, so its order is arbitrary.  *)
(* When several places of a round have the same first filter, the dict     *)
(* assignment in the loop keeps the last of them in that order, hence any  *)
(* of them: StepAllocations is the set of the outcomes.                    *)
(***************************************************************************)
EXTENDS Integers, FiniteSets

(* The filters of `filters' that place p satisfies: interest[place].       *)
Interest(match, filters, p) == {f \in filters : p \in match[f]}

(* The keys of the dict interest: the places at least one filter wants.    *)
Interested(match, places, filters) ==
  {p \in places : Interest(match, filters, p) # {}}

(* interest_filters.pop(0): the first filter in list order that wants p.   *)
FirstInterest_pop_last(match, filters, p) ==
  CHOOSE f \in Interest(match, filters, p) :
    \A g \in Interest(match, filters, p) : g =< f

FirstInterest(match, filters, p) ==
  CHOOSE f \in Interest(match, filters, p) :
    \A g \in Interest(match, filters, p) : f =< g

(* The places wanted by the least number of filters ("limit").             *)
Tight(match, places, filters) ==
  {p \in Interested(match, places, filters) :
     \A q \in Interested(match, places, filters) :
       Cardinality(Interest(match, filters, p))
         =< Cardinality(Interest(match, filters, q))}

(* The filters that a round allocates.                                     *)
StepFilters(match, places, filters) ==
  {FirstInterest(match, filters, p) : p \in Tight(match, places, filters)}

(* schedule_step(): the allocations one call can return; {<<>>}, the empty *)
(* dict, exactly when no filter is interested in a place.                  *)
StepAllocations(match, places, filters) ==
  {a \in [StepFilters(match, places, filters) -> Tight(match, places, filters)] :
     \A f \in StepFilters(match, places, filters) :
       FirstInterest(match, filters, a[f]) = f}

(* allocation.update(new), as the inner loop of schedule_overlaps() does.  *)
Merge(allocation, new) ==
  [f \in DOMAIN allocation \cup DOMAIN new |->
     IF f \in DOMAIN new THEN new[f] ELSE allocation[f]]

(* The places an allocation gives away.                                    *)
Given(allocation) == {allocation[f] : f \in DOMAIN allocation}

(* schedule_overlaps(): all that the loop can return, as one value.  The   *)
(* module Scheduler describes the same loop step by step.                  *)
ScheduleOverlaps(match, places, filters) ==
  LET Loop[F \in SUBSET filters] ==
        [P \in SUBSET places |->
           IF Interested(match, P, F) = {} THEN {[f \in {} |-> 0]}
           ELSE UNION {{Merge(new, rest) : rest \in Loop[F \ DOMAIN new][P \ Given(new)]} :
                         new \in StepAllocations(match, P, F)}]
  IN Loop[filters][places]
=============================================================================
