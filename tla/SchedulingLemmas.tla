--------------------------- MODULE SchedulingLemmas ---------------------------
(***************************************************************************)
(* What the operators of Scheduling return, for every relation between     *)
(* filters and places: the facts that the proofs about the scheduler and   *)
(* about the coordinator's reservations rest on.                           *)
(***************************************************************************)
EXTENDS Scheduling, FiniteSetTheorems, WellFoundedInduction, TLAPS

(* Every non-empty set of naturals has a least element.                    *)
LEMMA NatMin ==
  ASSUME NEW T \in SUBSET Nat, T # {}
  PROVE  \E x \in T : \A y \in T : x =< y
<1>1. PICK x \in T : \A y \in T : ~ (<<y, x>> \in OpToRel(<, Nat))
  BY NatLessThanWellFounded, WFMin
<1>2. \A y \in T : ~(y < x)
  BY <1>1 DEF OpToRel
<1>3. \A y \in T : x =< y
  BY <1>2
<1> QED BY <1>3

(* Every set that holds 0 and the successor of each of its naturals holds  *)
(* all of them: induction without an operator as a parameter.              *)
LEMMA NatSetInduction ==
  ASSUME NEW S, 0 \in S, \A n \in Nat : n \in S => n + 1 \in S
  PROVE  Nat \subseteq S
<1> SUFFICES ASSUME Nat \ S # {} PROVE FALSE
  OBVIOUS
<1>1. PICK x \in Nat \ S : \A y \in Nat \ S : x =< y
  BY NatMin
<1>2. x # 0 /\ x - 1 \in Nat /\ ~(x =< x - 1)
  OBVIOUS
<1>3. x - 1 \in S => x \in S
  BY <1>2
<1> QED BY <1>1, <1>2, <1>3

(* interest_filters.pop(0) returns the most important filter that wants p. *)
LEMMA FirstInterestIsMin ==
  ASSUME NEW m, NEW F \in SUBSET Nat, NEW p, Interest(m, F, p) # {}
  PROVE  /\ FirstInterest(m, F, p) \in F
         /\ p \in m[FirstInterest(m, F, p)]
         /\ \A g \in F : p \in m[g] => FirstInterest(m, F, p) =< g
<1>1. Interest(m, F, p) \in SUBSET Nat
  BY DEF Interest
<1>2. \E f \in Interest(m, F, p) : \A g \in Interest(m, F, p) : f =< g
  BY <1>1, NatMin
<1>3. /\ FirstInterest(m, F, p) \in Interest(m, F, p)
      /\ \A g \in Interest(m, F, p) : FirstInterest(m, F, p) =< g
  BY <1>2 DEF FirstInterest
<1> QED BY <1>3 DEF Interest

(* What one call of schedule_step() returns: distinct remaining places for *)
(* remaining filters, each filter the most important one for its place.    *)
LEMMA StepAllocationFacts ==
  ASSUME NEW m, NEW P, NEW F \in SUBSET Nat,
         NEW a \in StepAllocations(m, P, F)
  PROVE  /\ DOMAIN a \subseteq F
         /\ a \in [DOMAIN a -> P]
         /\ \A f \in DOMAIN a : a[f] \in m[f]
         /\ \A f \in DOMAIN a : \A g \in F : a[f] \in m[g] => f =< g
         /\ \A f, g \in DOMAIN a : a[f] = a[g] => f = g
<1> DEFINE D == StepFilters(m, P, F)
           T == Tight(m, P, F)
<1>1. /\ a \in [D -> T]
      /\ DOMAIN a = D
      /\ \A f \in D : FirstInterest(m, F, a[f]) = f
  BY DEF StepAllocations
<1>2. \A p \in T : p \in P /\ Interest(m, F, p) # {}
  BY DEF Tight, Interested
<1>3. ASSUME NEW f \in D
      PROVE  /\ a[f] \in P
             /\ f \in F
             /\ a[f] \in m[f]
             /\ \A g \in F : a[f] \in m[g] => f =< g
  <2>1. a[f] \in T
    BY <1>1
  <2>2. a[f] \in P /\ Interest(m, F, a[f]) # {}
    BY <2>1, <1>2
  <2>3. FirstInterest(m, F, a[f]) = f
    BY <1>1
  <2>4. /\ FirstInterest(m, F, a[f]) \in F
        /\ a[f] \in m[FirstInterest(m, F, a[f])]
        /\ \A g \in F : a[f] \in m[g] => FirstInterest(m, F, a[f]) =< g
    BY <2>2, FirstInterestIsMin
  <2> QED BY <2>2, <2>3, <2>4
<1>4. ASSUME NEW f \in D, NEW g \in D, a[f] = a[g]
      PROVE  f = g
  BY <1>1, <1>4
<1> HIDE DEF D, T
<1> QED BY <1>1, <1>3, <1>4

-----------------------------------------------------------------------------
(* A round in which some filter wants some place allocates something.      *)
LEMMA StepAllocates ==
  ASSUME NEW m, NEW P, NEW F \in SUBSET Nat, IsFiniteSet(F),
         Interested(m, P, F) # {}, NEW a \in StepAllocations(m, P, F)
  PROVE  /\ DOMAIN a \subseteq F
         /\ DOMAIN a # {}
<1> DEFINE I == Interested(m, P, F)
           size(p) == Cardinality(Interest(m, F, p))
           N == {size(p) : p \in I}
<1>1. \A p : size(p) \in Nat
  BY FS_Subset, FS_CardinalityType DEF Interest
<1>2. N \in SUBSET Nat /\ N # {}
  BY <1>1
<1>3. PICK k \in N : \A j \in N : k =< j
  BY <1>2, NatMin
<1>4. PICK p \in I : size(p) = k
  BY <1>3
<1>5. \A q \in I : size(p) =< size(q)
  BY <1>3, <1>4
<1>6. p \in Tight(m, P, F)
  BY <1>5 DEF Tight
<1>7. FirstInterest(m, F, p) \in StepFilters(m, P, F)
  BY <1>6 DEF StepFilters
<1>8. DOMAIN a = StepFilters(m, P, F)
  BY DEF StepAllocations
<1>9. DOMAIN a \subseteq F
  BY StepAllocationFacts
<1> QED BY <1>7, <1>8, <1>9

(* An iteration of the loop for places P and filters F, given in L what    *)
(* the loop does with fewer filters.                                       *)
Iteration(m, L, P, F) ==
  IF Interested(m, P, F) = {} THEN {[f \in {} |-> 0]}
  ELSE UNION {{Merge(new, rest) : rest \in L[F \ DOMAIN new][P \ Given(new)]} :
                new \in StepAllocations(m, P, F)}

(* The same for all sets of places.                                        *)
Row(m, S, L, F) == [P \in SUBSET S |-> Iteration(m, L, P, F)]

(* It depends on L for fewer filters only.                                 *)
LEMMA IterationDependence ==
  ASSUME NEW m, NEW G \in SUBSET Nat, IsFiniteSet(G), NEW L, NEW M,
         NEW F \in SUBSET G, NEW P,
         \A E \in SUBSET G : Cardinality(E) < Cardinality(F) => L[E] = M[E]
  PROVE  Iteration(m, L, P, F) = Iteration(m, M, P, F)
<1> SUFFICES ASSUME Interested(m, P, F) # {} PROVE Iteration(m, L, P, F) = Iteration(m, M, P, F)
  BY DEF Iteration
<1>1. IsFiniteSet(F) /\ F \in SUBSET Nat
  BY FS_Subset
<1>2. ASSUME NEW new \in StepAllocations(m, P, F)
      PROVE  L[F \ DOMAIN new] = M[F \ DOMAIN new]
  <2>1. DOMAIN new \subseteq F /\ DOMAIN new # {}
    BY <1>1, StepAllocates
  <2> DEFINE E == F \ DOMAIN new
  <2>2. E \in SUBSET F /\ E # F
    BY <2>1
  <2>3. Cardinality(E) =< Cardinality(F) /\ Cardinality(F) # Cardinality(E)
    BY <1>1, <2>2, FS_Subset
  <2>4. Cardinality(E) \in Nat /\ Cardinality(F) \in Nat
    BY <1>1, <2>2, FS_Subset, FS_CardinalityType
  <2>5. Cardinality(E) < Cardinality(F)
    BY <2>3, <2>4
  <2>6. E \in SUBSET G
    BY <2>2
  <2> QED BY <2>5, <2>6
<1> DEFINE Of(K) == {{Merge(new, rest) : rest \in K[F \ DOMAIN new][P \ Given(new)]} :
                       new \in StepAllocations(m, P, F)}
<1>3. Of(L) = Of(M)
  BY <1>2
<1>4. Iteration(m, L, P, F) = UNION Of(L) /\ Iteration(m, M, P, F) = UNION Of(M)
  BY DEF Iteration
<1> QED BY <1>3, <1>4

(* The recursion of ScheduleOverlaps has a solution: by induction on the   *)
(* number of filters it is given.                                          *)
LEMMA LoopExists ==
  ASSUME NEW m, NEW S, NEW G \in SUBSET Nat, IsFiniteSet(G)
  PROVE  \E L : L = [F \in SUBSET G |-> Row(m, S, L, F)]
<1> DEFINE Below(n) == {F \in SUBSET G : Cardinality(F) < n}
           Solution(n) == \E L : L = [F \in Below(n) |-> Row(m, S, L, F)]
           Solved == {n \in Nat : Solution(n)}
<1>1. \A F \in SUBSET G : Cardinality(F) \in Nat
  BY FS_Subset, FS_CardinalityType
<1>2. 0 \in Solved
  <2>1. Below(0) = {}
    BY <1>1
  <2>2. [F \in {} |-> 0] = [F \in Below(0) |-> Row(m, S, [E \in {} |-> 0], F)]
    BY <2>1
  <2> QED BY <2>2
<1>3. ASSUME NEW n \in Nat, n \in Solved
      PROVE  n + 1 \in Solved
  <2>1. PICK L : L = [F \in Below(n) |-> Row(m, S, L, F)]
    BY <1>3
  <2> DEFINE M == [F \in Below(n + 1) |-> Row(m, S, L, F)]
  <2>2. ASSUME NEW F \in Below(n + 1)
        PROVE  Row(m, S, L, F) = Row(m, S, M, F)
    <3>1. ASSUME NEW E \in SUBSET G, Cardinality(E) < Cardinality(F)
          PROVE  L[E] = M[E]
      <4>1. E \in Below(n) /\ E \in Below(n + 1)
        BY <3>1, <1>1
      <4>2. L[E] = Row(m, S, L, E)
        BY <2>1, <4>1
      <4>3. M[E] = Row(m, S, L, E)
        BY <4>1
      <4> QED BY <4>2, <4>3
    <3>2. F \in SUBSET G
      OBVIOUS
    <3>3. ASSUME NEW P \in SUBSET S
          PROVE  Iteration(m, L, P, F) = Iteration(m, M, P, F)
      <4> HIDE DEF M, Below, Solution
      <4> QED BY <3>1, <3>2, IterationDependence
    <3> QED BY <3>3 DEF Row
  <2>3. M = [F \in Below(n + 1) |-> Row(m, S, M, F)]
    BY <2>2
  <2>4. Solution(n + 1)
    <3> HIDE DEF M, Below
    <3> QED BY <2>3
  <2> HIDE DEF Solution
  <2> QED BY <2>4
<1>4. Cardinality(G) + 1 \in Solved
  <2> HIDE DEF Solved
  <2> QED BY <1>1, <1>2, <1>3, NatSetInduction
<1>5. Below(Cardinality(G) + 1) = SUBSET G
  <2>1. \A F \in SUBSET G : Cardinality(F) =< Cardinality(G)
    BY FS_Subset
  <2> QED BY <2>1, <1>1
<1>6. PICK L : L = [F \in Below(Cardinality(G) + 1) |-> Row(m, S, L, F)]
  BY <1>4
<1> QED BY <1>5, <1>6

(* What schedule() promises of an allocation a: filters get places that    *)
(* satisfy them, each its own; no place goes past a more important filter  *)
(* that wants it and gets nothing; and no filter is left without a place   *)
(* while one that it wants is left.                                        *)
FairAllocation(m, P, F, a) ==
  /\ DOMAIN a \subseteq F
  /\ \A f \in DOMAIN a : a[f] \in P /\ a[f] \in m[f]
  /\ \A f, g \in DOMAIN a : a[f] = a[g] => f = g
  /\ \A f \in DOMAIN a, g \in F \ DOMAIN a : a[f] \in m[g] => f =< g
  /\ \A p \in P, g \in F \ DOMAIN a : p \in m[g] => p \in Given(a)

(* One iteration establishes it, if the ones that follow do.               *)
LEMMA IterationFair ==
  ASSUME NEW m, NEW L, NEW P, NEW F \in SUBSET Nat,
         NEW a \in Iteration(m, L, P, F),
         \A new \in StepAllocations(m, P, F) :
           \A rest \in L[F \ DOMAIN new][P \ Given(new)] :
             FairAllocation(m, P \ Given(new), F \ DOMAIN new, rest)
  PROVE  FairAllocation(m, P, F, a)
<1>1. CASE Interested(m, P, F) = {}
  <2>1. a = [f \in {} |-> 0]
    BY <1>1 DEF Iteration
  <2>2. \A p \in P, g \in F : p \notin m[g]
    BY <1>1 DEF Interested, Interest
  <2> QED BY <2>1, <2>2 DEF FairAllocation
<1>2. CASE Interested(m, P, F) # {}
  <2>1. PICK new \in StepAllocations(m, P, F) :
          \E rest \in L[F \ DOMAIN new][P \ Given(new)] : a = Merge(new, rest)
    BY <1>2 DEF Iteration
  <2>2. PICK rest \in L[F \ DOMAIN new][P \ Given(new)] : a = Merge(new, rest)
    BY <2>1
  <2>3. FairAllocation(m, P \ Given(new), F \ DOMAIN new, rest)
    BY <2>2
  <2>4. /\ DOMAIN new \subseteq F
        /\ \A f \in DOMAIN new : new[f] \in P
        /\ \A f \in DOMAIN new : new[f] \in m[f]
        /\ \A f \in DOMAIN new : \A g \in F : new[f] \in m[g] => f =< g
        /\ \A f, g \in DOMAIN new : new[f] = new[g] => f = g
    BY StepAllocationFacts
  <2>5. /\ DOMAIN a = DOMAIN new \cup DOMAIN rest
        /\ DOMAIN rest \subseteq F \ DOMAIN new
        /\ \A f \in DOMAIN rest : a[f] = rest[f] /\ rest[f] \in P \ Given(new)
        /\ \A f \in DOMAIN new : a[f] = new[f] /\ new[f] \in Given(new)
    BY <2>2, <2>3 DEF FairAllocation, Merge, Given
  <2>6. Given(a) = Given(new) \cup Given(rest)
    BY <2>5 DEF Given
  <2>7. DOMAIN a \subseteq F /\ \A f \in DOMAIN a : a[f] \in P /\ a[f] \in m[f]
    BY <2>3, <2>4, <2>5 DEF FairAllocation
  <2>8. \A f, g \in DOMAIN a : a[f] = a[g] => f = g
    BY <2>3, <2>4, <2>5 DEF FairAllocation
  <2>9. \A f \in DOMAIN a, g \in F \ DOMAIN a : a[f] \in m[g] => f =< g
    BY <2>3, <2>4, <2>5 DEF FairAllocation
  <2>10. \A p \in P, g \in F \ DOMAIN a : p \in m[g] => p \in Given(a)
    BY <2>3, <2>5, <2>6 DEF FairAllocation
  <2> QED BY <2>7, <2>8, <2>9, <2>10 DEF FairAllocation
<1> QED BY <1>1, <1>2

(* Every result of schedule_overlaps() is such an allocation.              *)
LEMMA ScheduleOverlapsFair ==
  ASSUME NEW m, NEW S, NEW G \in SUBSET Nat, IsFiniteSet(G),
         NEW a \in ScheduleOverlaps(m, S, G)
  PROVE  FairAllocation(m, S, G, a)
<1> DEFINE Loop == CHOOSE L : L = [F \in SUBSET G |-> Row(m, S, L, F)]
<1>1. ScheduleOverlaps(m, S, G) = Loop[G][S]
  BY DEF ScheduleOverlaps, Iteration, Row
<1>2. Loop = [F \in SUBSET G |-> Row(m, S, Loop, F)]
  <2>1. \E L : L = [F \in SUBSET G |-> Row(m, S, L, F)]
    BY LoopExists, ZenonT(40)
  <2> QED BY <2>1, ZenonT(40)
<1> HIDE DEF Loop
<1>3. \A F \in SUBSET G, P \in SUBSET S : Loop[F][P] = Iteration(m, Loop, P, F)
  BY <1>2 DEF Row
<1> DEFINE FairBelow(n) == \A F \in SUBSET G, P \in SUBSET S :
                             Cardinality(F) < n =>
                               \A b \in Loop[F][P] : FairAllocation(m, P, F, b)
           Fair == {n \in Nat : FairBelow(n)}
<1>4. \A F \in SUBSET G : IsFiniteSet(F) /\ Cardinality(F) \in Nat
  BY FS_Subset, FS_CardinalityType
<1>5. 0 \in Fair
  BY <1>4
<1>6. ASSUME NEW n \in Nat, n \in Fair
      PROVE  n + 1 \in Fair
  <2> SUFFICES FairBelow(n + 1)
    <3> HIDE DEF FairBelow
    <3> QED OBVIOUS
  <2> SUFFICES ASSUME NEW F \in SUBSET G, NEW P \in SUBSET S,
                      Cardinality(F) < n + 1, NEW b \in Loop[F][P]
               PROVE  FairAllocation(m, P, F, b)
    OBVIOUS
  <2>1. b \in Iteration(m, Loop, P, F) /\ F \in SUBSET Nat
    BY <1>3
  <2>2. CASE Interested(m, P, F) = {}
    <3>1. b = [f \in {} |-> 0]
      BY <2>1, <2>2 DEF Iteration
    <3>2. \A p \in P, g \in F : p \notin m[g]
      BY <2>2 DEF Interested, Interest
    <3> QED BY <3>1, <3>2 DEF FairAllocation
  <2>3. CASE Interested(m, P, F) # {}
    <3>1. ASSUME NEW new \in StepAllocations(m, P, F),
                 NEW rest \in Loop[F \ DOMAIN new][P \ Given(new)]
          PROVE  FairAllocation(m, P \ Given(new), F \ DOMAIN new, rest)
      <4>1. DOMAIN new \subseteq F /\ DOMAIN new # {}
        BY <1>4, <2>1, <2>3, StepAllocates
      <4> DEFINE E == F \ DOMAIN new
      <4>2. E \in SUBSET F /\ E # F /\ E \in SUBSET G
        BY <4>1
      <4>3. Cardinality(E) =< Cardinality(F) /\ Cardinality(F) # Cardinality(E)
        BY <1>4, <4>2, FS_Subset
      <4>4. Cardinality(E) < n
        BY <1>4, <4>2, <4>3
      <4> QED BY <1>6, <4>2, <4>4
    <3> QED BY <2>1, <3>1, IterationFair
  <2> QED BY <2>2, <2>3
<1>7. Cardinality(G) + 1 \in Fair
  <2> HIDE DEF Fair
  <2> QED BY <1>4, <1>5, <1>6, NatSetInduction
<1> QED BY <1>1, <1>4, <1>7

-----------------------------------------------------------------------------
(* sorted() numbers a finite set: in a strict total order, where before[x] *)
(* holds the elements before x, every number below the size of the set is  *)
(* the number of elements before exactly one element.                      *)
LEMMA Ranks ==
  ASSUME NEW S, IsFiniteSet(S), NEW before \in [S -> SUBSET S],
         \A x \in S : x \notin before[x],
         \A x, y \in S : x \in before[y] \/ y \in before[x] \/ x = y,
         \A x, y \in S : x \in before[y] => before[x] \subseteq before[y]
  PROVE  /\ \A x \in S : Cardinality(before[x]) \in 0..(Cardinality(S) - 1)
         /\ \A x, y \in S : x \in before[y] =>
              Cardinality(before[x]) < Cardinality(before[y])
         /\ \A n \in 1..Cardinality(S) : \E x \in S : Cardinality(before[x]) = n - 1
         /\ \A x, y \in S : Cardinality(before[x]) = Cardinality(before[y]) => x = y
<1> DEFINE rank(x) == Cardinality(before[x])
           size == Cardinality(S)
<1>1. size \in Nat
  BY FS_CardinalityType
<1>2. \A x \in S : IsFiniteSet(before[x]) /\ rank(x) \in Nat
  BY FS_Subset, FS_CardinalityType
<1>3. ASSUME NEW x \in S PROVE rank(x) < size
  <2>1. before[x] \in SUBSET S /\ before[x] # S
    OBVIOUS
  <2>2. rank(x) =< size /\ size # rank(x)
    BY <2>1, FS_Subset
  <2> QED BY <1>1, <1>2, <2>2
<1>4. ASSUME NEW x \in S, NEW y \in S, x \in before[y] PROVE rank(x) < rank(y)
  <2>1. before[x] \in SUBSET before[y] /\ before[x] # before[y]
    BY <1>4
  <2>2. rank(x) =< rank(y) /\ rank(y) # rank(x)
    BY <1>2, <2>1, FS_Subset
  <2> QED BY <1>2, <2>2
<1>5. ASSUME NEW x \in S, NEW y \in S, rank(x) = rank(y) PROVE x = y
  <2>1. rank(x) \in Nat /\ rank(y) \in Nat
    BY <1>2
  <2>2. ~(rank(x) < rank(y)) /\ ~(rank(y) < rank(x))
    BY <1>5, <2>1
  <2> HIDE DEF rank
  <2>3. x \notin before[y] /\ y \notin before[x]
    BY <1>4, <2>2
  <2> QED BY <2>3
<1> DEFINE T == 0..(size - 1)
           r == [x \in S |-> rank(x)]
<1>6. IsFiniteSet(T) /\ Cardinality(T) = size
  BY <1>1, FS_Interval
<1>7. r \in Injection(S, T)
  <2>1. r \in [S -> T]
    BY <1>1, <1>2, <1>3
  <2>2. \A x, y \in S : r[x] = r[y] => x = y
    BY <1>5
  <2> HIDE DEF r, T
  <2> QED BY <2>1, <2>2 DEF Injection, IsInjective
<1>8. r \in Surjection(S, T)
  <2> HIDE DEF r, T
  <2> QED BY <1>6, <1>7, FS_Injection
<1>9. ASSUME NEW n \in 1..size PROVE \E x \in S : rank(x) = n - 1
  <2>1. n - 1 \in T
    BY <1>1
  <2>2. \E x \in S : r[x] = n - 1
    <3> HIDE DEF r, T
    <3> QED BY <1>8, <2>1 DEF Surjection
  <2> QED BY <2>2
<1> QED BY <1>1, <1>2, <1>3, <1>4, <1>5, <1>9
=============================================================================
