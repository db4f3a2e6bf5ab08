--------------------------- MODULE SchedulerProofs ---------------------------
(***************************************************************************)
(* Proofs about schedule_overlaps() for every number of filters, every set *)
(* of places and every relation between them.                              *)
(***************************************************************************)
EXTENDS Scheduler, SchedulingLemmas

(* What the loop maintains besides the properties themselves: a place is   *)
(* either still in the list or given away, and the loop is only left when  *)
(* no remaining filter wants a remaining place.                            *)
Bookkeeping ==
  /\ places = Places \ Given(allocation)
  /\ ~running => Interested(match, places, filters) = {}

(* The inductive invariant of the loop.                                    *)
IInv ==
  /\ TypeOK
  /\ NoDoubleAllocation
  /\ NoPriorityInversion
  /\ Bookkeeping

-----------------------------------------------------------------------------
(* The invariant holds when the loop is entered.                           *)
LEMMA InitIInv == Init => IInv
BY DEF Init, IInv, TypeOK, NoDoubleAllocation, NoPriorityInversion,
       Bookkeeping, Given

(* An iteration preserves the invariant.                                   *)
LEMMA IterateIInv == IInv /\ Iterate => IInv'
<1> SUFFICES ASSUME IInv, Iterate PROVE IInv'
  OBVIOUS
<1> USE NumFiltersAssumption
<1>1. Filters \in SUBSET Nat
  BY DEF Filters
<1>2. filters \in SUBSET Nat /\ filters \in SUBSET Filters
  BY <1>1 DEF IInv, TypeOK
<1>3. PICK new \in StepAllocations(match, places, filters) :
        /\ places' = places \ Given(new)
        /\ filters' = filters \ DOMAIN new
        /\ allocation' = Merge(allocation, new)
  BY DEF Iterate
<1>4. match' = match /\ running' = running /\ running
  BY DEF Iterate
<1>5. /\ DOMAIN new \subseteq filters
      /\ new \in [DOMAIN new -> places]
      /\ \A f \in DOMAIN new : new[f] \in match[f]
      /\ \A f \in DOMAIN new : \A g \in filters : new[f] \in match[g] => f =< g
      /\ \A f, g \in DOMAIN new : new[f] = new[g] => f = g
  BY <1>2, StepAllocationFacts
<1>6. DOMAIN allocation' = DOMAIN allocation \cup DOMAIN new
  BY <1>3 DEF Merge
<1>7. \A f \in DOMAIN new : allocation'[f] = new[f]
  BY <1>3 DEF Merge
<1>8. \A f \in DOMAIN allocation : f \notin DOMAIN new
  BY <1>5 DEF IInv, TypeOK
<1>9. \A f \in DOMAIN allocation : allocation'[f] = allocation[f]
  BY <1>3, <1>8 DEF Merge
<1>10. TypeOK'
  <2>1. DOMAIN allocation' = Filters \ filters'
    BY <1>3, <1>5, <1>6, <1>2 DEF IInv, TypeOK
  <2>2. ASSUME NEW f \in DOMAIN allocation' PROVE allocation'[f] \in Places
    BY <1>5, <1>6, <1>7, <1>9 DEF IInv, TypeOK
  <2> QED BY <2>1, <2>2, <1>3, <1>4 DEF IInv, TypeOK
<1>11. NoDoubleAllocation'
  <2>1. \A f \in DOMAIN allocation : allocation[f] \notin places
    BY DEF IInv, NoDoubleAllocation
  <2>2. \A f \in DOMAIN new : new[f] \in places /\ new[f] \in Given(new)
    BY <1>5 DEF Given
  <2>3. ASSUME NEW f \in DOMAIN allocation', NEW g \in DOMAIN allocation',
               allocation'[f] = allocation'[g]
        PROVE  f = g
    BY <2>1, <2>2, <2>3, <1>5, <1>6, <1>7, <1>9 DEF IInv, NoDoubleAllocation
  <2>4. ASSUME NEW f \in DOMAIN allocation' PROVE allocation'[f] \notin places'
    BY <2>1, <2>2, <1>3, <1>6, <1>7, <1>9
  <2> QED BY <2>3, <2>4 DEF NoDoubleAllocation
<1>12. NoPriorityInversion'
  <2>1. ASSUME NEW f \in DOMAIN allocation, NEW g \in Filters,
               g < f, allocation'[f] \in match[g]
        PROVE  g \in DOMAIN allocation'
    BY <2>1, <1>6, <1>9 DEF IInv, NoPriorityInversion
  <2>2. ASSUME NEW f \in DOMAIN new, NEW g \in Filters,
               g < f, allocation'[f] \in match[g]
        PROVE  g \in DOMAIN allocation'
    <3>1. f \in Nat /\ g \in Nat
      BY <1>1, <1>2, <1>5
    <3>2. g \notin filters
      BY <2>2, <3>1, <1>5, <1>7
    <3> QED BY <3>2, <1>6 DEF IInv, TypeOK
  <2>3. ASSUME NEW f \in DOMAIN allocation' PROVE allocation'[f] \in match[f]
    BY <1>5, <1>6, <1>7, <1>9 DEF IInv, NoPriorityInversion
  <2> QED BY <2>1, <2>2, <2>3, <1>4, <1>6 DEF NoPriorityInversion, Filters
<1>13. Bookkeeping'
  <2>1. Given(allocation') = Given(allocation) \cup Given(new)
    BY <1>6, <1>7, <1>9 DEF Given
  <2> QED BY <2>1, <1>3, <1>4 DEF IInv, Bookkeeping
<1> QED BY <1>10, <1>11, <1>12, <1>13 DEF IInv

(* Leaving the loop, and stuttering, preserve the invariant.               *)
LEMMA LeaveIInv == IInv /\ (Leave \/ UNCHANGED vars) => IInv'
<1> SUFFICES ASSUME IInv, Leave \/ UNCHANGED vars PROVE IInv'
  OBVIOUS
<1>1. /\ UNCHANGED <<match, places, filters, allocation>>
      /\ running' \in BOOLEAN
      /\ ~running' => Interested(match, places, filters) = {}
  BY DEF IInv, TypeOK, Bookkeeping, Leave, vars
<1>2. TypeOK' /\ NoDoubleAllocation' /\ NoPriorityInversion'
  BY <1>1 DEF IInv, TypeOK, NoDoubleAllocation, NoPriorityInversion
<1>3. Bookkeeping'
  BY <1>1 DEF IInv, Bookkeeping
<1> QED BY <1>2, <1>3 DEF IInv

-----------------------------------------------------------------------------
(* The invariant holds throughout schedule_overlaps().                     *)
THEOREM InvariantHolds == Spec => []IInv
<1>1. Init => IInv
  BY InitIInv
<1>2. IInv /\ [Next]_vars => IInv'
  BY IterateIInv, LeaveIInv DEF Next
<1> QED BY <1>1, <1>2, PTL DEF Spec

(* Type correctness, which includes "assert f not in allocation": the      *)
(* remaining filters are exactly the ones without an allocation.           *)
THEOREM TypeCorrect == Spec => []TypeOK
<1>1. IInv => TypeOK
  BY DEF IInv
<1> QED BY <1>1, InvariantHolds, PTL

(* schedule_overlaps() never gives one place to two filters.               *)
THEOREM NeverDoubleAllocates == Spec => []NoDoubleAllocation
<1>1. IInv => NoDoubleAllocation
  BY DEF IInv
<1> QED BY <1>1, InvariantHolds, PTL

(* schedule_overlaps() never serves a filter with a place that a more      *)
(* important, unserved filter wants.                                       *)
THEOREM NeverInvertsPriority == Spec => []NoPriorityInversion
<1>1. IInv => NoPriorityInversion
  BY DEF IInv
<1> QED BY <1>1, InvariantHolds, PTL

(* When schedule_overlaps() returns, whoever is left without a place lost  *)
(* every suitable place to a more important filter.                        *)
THEOREM WaitingIsJustified == Spec => []JustifiedWaiting
<1>1. IInv => JustifiedWaiting
  <2> SUFFICES ASSUME IInv, ~running,
                      NEW f \in Filters \ DOMAIN allocation, NEW p \in match[f]
               PROVE  \E g \in DOMAIN allocation : g < f /\ allocation[g] = p
    BY DEF JustifiedWaiting
  <2>1. f \in filters /\ p \in Places
    BY DEF IInv, TypeOK
  <2>2. p \notin places
    BY <2>1 DEF IInv, Bookkeeping, Interested, Interest
  <2>3. PICK g \in DOMAIN allocation : allocation[g] = p
    BY <2>1, <2>2 DEF IInv, Bookkeeping, Given
  <2>4. f \in Nat /\ g \in Nat /\ g \in Filters /\ g # f
    BY NumFiltersAssumption DEF IInv, TypeOK, Filters
  <2>5. ~(f < g)
    BY <2>3, <2>4 DEF IInv, NoPriorityInversion
  <2> QED BY <2>3, <2>4, <2>5
<1> QED BY <1>1, InvariantHolds, PTL
=============================================================================
