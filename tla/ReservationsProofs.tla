-------------------------- MODULE ReservationsProofs --------------------------
(***************************************************************************)
(* Proofs about the reservations of places, for any places, tokens, users, *)
(* filters and priorities.                                                 *)
(***************************************************************************)
EXTENDS Reservations, SchedulingLemmas

(* The reservations rs are well-typed, no two have the same place, and     *)
(* exactly the allocated and acquired ones have one.                       *)
Sound(rs) ==
  /\ rs \in [Token -> Reservation \cup {None}]
  /\ \A t, u \in InUse(rs) :
       (rs[t].alloc # None /\ rs[t].alloc = rs[u].alloc) => t = u
  /\ \A t \in InUse(rs) : rs[t].alloc # None <=> rs[t].state \in {"allocated", "acquired"}

(* What ReservationsConsistent rests on when places come and go: what is   *)
(* deleted leaves no copy behind for the next place of its name.           *)
Placed == \A p \in Place \ exists : resv[p] = None

(* The inductive invariant.                                                *)
IInv == ReservationsConsistent /\ Placed

-----------------------------------------------------------------------------
(* The list of filters: each pending reservation has its position, and     *)
(* what comes before another has the smaller one.                          *)
LEMMA SortedFacts ==
  ASSUME NEW rs \in [Token -> Reservation \cup {None}], NEW o, CreationOrder(rs, o)
  PROVE  LET list == Sorted(rs, o)
             N == 1..Cardinality(Pending(rs))
         IN  /\ IsFiniteSet(N) /\ N \in SUBSET Nat
             /\ DOMAIN list = N
             /\ \A n \in N : list[n] \in Pending(rs)
             /\ \A n, k \in N : list[n] = list[k] => n = k
             /\ \A t \in Pending(rs) : \E n \in N : list[n] = t
             /\ \A n, k \in N : Before(rs, o, list[n], list[k]) => n < k
<1> DEFINE list == Sorted(rs, o)
           S == Pending(rs)
           N == 1..Cardinality(S)
           before == [t \in S |-> {u \in S : Before(rs, o, u, t)}]
           rank(t) == Cardinality(before[t])
<1>1. /\ S \in SUBSET InUse(rs)
      /\ IsFiniteSet(S)
      /\ Cardinality(S) \in Nat
  BY FS_Subset, FS_CardinalityType DEF CreationOrder, Pending
<1>2. IsFiniteSet(N) /\ N \in SUBSET Nat
  BY <1>1, FS_Interval
<1>3. \A t \in S : rs[t].prio \in Int /\ t \in Token
  BY <1>1, ReservationAssumption DEF InUse, Reservation
<1>4. before \in [S -> SUBSET S]
  OBVIOUS
<1>5. \A t \in S : t \notin before[t]
  BY <1>3 DEF Before, CreationOrder
<1>6. \A t, u \in S : t \in before[u] \/ u \in before[t] \/ t = u
  BY <1>1, <1>3 DEF Before, CreationOrder
<1>7. ASSUME NEW t \in S, NEW u \in S, t \in before[u]
      PROVE  before[t] \subseteq before[u]
  <2>1. ASSUME NEW v \in before[t] PROVE v \in before[u]
    <3>1. v \in S /\ Before(rs, o, v, t) /\ Before(rs, o, t, u)
      BY <1>7, <2>1
    <3>2. t \in o[u] => o[t] \subseteq o[u]
      BY <1>3 DEF CreationOrder
    <3>3. Before(rs, o, v, u)
      BY <1>3, <3>1, <3>2 DEF Before
    <3> QED BY <3>1, <3>3
  <2> QED BY <2>1
<1>8. /\ \A t \in S : rank(t) \in 0..(Cardinality(S) - 1)
      /\ \A t, u \in S : t \in before[u] => rank(t) < rank(u)
      /\ \A n \in N : \E t \in S : rank(t) = n - 1
      /\ \A t, u \in S : rank(t) = rank(u) => t = u
  <2> HIDE DEF before, S
  <2> QED BY <1>1, <1>4, <1>5, <1>6, <1>7, Ranks
<1>9. DOMAIN list = N
  BY DEF Sorted
<1>10. \A n \in N : list[n] = CHOOSE t \in S : rank(t) = n - 1
  BY DEF Sorted
<1> HIDE DEF before, S, N, list
<1>11. \A n \in N : list[n] \in S /\ rank(list[n]) = n - 1
  <2>1. ASSUME NEW n \in N PROVE list[n] \in S /\ rank(list[n]) = n - 1
    <3>1. \E t \in S : rank(t) = n - 1
      BY <1>8
    <3> QED BY <3>1, <1>10
  <2> QED BY <2>1
<1>12. \A n, k \in N : list[n] = list[k] => n = k
  BY <1>2, <1>11
<1>13. ASSUME NEW t \in S PROVE \E n \in N : list[n] = t
  <2> DEFINE n == rank(t) + 1
  <2>1. n \in N /\ rank(t) = n - 1
    BY <1>1, <1>8 DEF N
  <2>2. rank(list[n]) = rank(t) /\ list[n] \in S
    BY <2>1, <1>11
  <2> QED BY <2>1, <2>2, <1>8
<1>14. ASSUME NEW n \in N, NEW k \in N, Before(rs, o, list[n], list[k])
       PROVE  n < k
  <2>1. list[n] \in before[list[k]]
    BY <1>11, <1>14 DEF before
  <2>2. rank(list[n]) < rank(list[k])
    BY <2>1, <1>8, <1>11
  <2> QED BY <2>2, <1>2, <1>11
<1> QED BY <1>2, <1>9, <1>11, <1>12, <1>13, <1>14 DEF S, N, list

(* What schedule() gives to which reservations.  The conjuncts after the   *)
(* first four: nobody is passed over for a later reservation, and no place *)
(* that suits somebody who is left waiting is left.                        *)
LEMMA AllocationFacts ==
  ASSUME NEW rs \in [Token -> Reservation \cup {None}], NEW o, CreationOrder(rs, o),
         NEW ac, NEW al \in Allocations(rs, o, ac)
  PROVE  /\ DOMAIN al \subseteq Pending(rs)
         /\ \A t \in DOMAIN al : al[t] \in Available(ac)
         /\ \A t \in DOMAIN al : Suits(rs[t].filter, al[t])
         /\ \A t, u \in DOMAIN al : al[t] = al[u] => t = u
         /\ \A t \in DOMAIN al, u \in Pending(rs) \ DOMAIN al :
              Before(rs, o, u, t) => ~Suits(rs[u].filter, al[t])
         /\ \A p \in Available(ac), u \in Pending(rs) \ DOMAIN al :
              Suits(rs[u].filter, p) => \E t \in DOMAIN al : al[t] = p
<1> DEFINE list == Sorted(rs, o)
           N == 1..Cardinality(Pending(rs))
           match == [n \in DOMAIN list |-> {p \in Available(ac) : Suits(rs[list[n]].filter, p)}]
<1>1. /\ IsFiniteSet(N) /\ N \in SUBSET Nat
      /\ DOMAIN list = N
      /\ \A n \in N : list[n] \in Pending(rs)
      /\ \A n, k \in N : list[n] = list[k] => n = k
      /\ \A t \in Pending(rs) : \E n \in N : list[n] = t
      /\ \A n, k \in N : Before(rs, o, list[n], list[k]) => n < k
  BY SortedFacts
<1>2. PICK a \in ScheduleOverlaps(match, Available(ac), DOMAIN list) :
        al = [t \in {list[n] : n \in DOMAIN a} |-> a[CHOOSE n \in DOMAIN a : list[n] = t]]
  BY DEF Allocations
<1> HIDE DEF list, N, match
<1>3. FairAllocation(match, Available(ac), N, a)
  BY <1>1, <1>2, ScheduleOverlapsFair
<1>4. \A n \in N : match[n] = {p \in Available(ac) : Suits(rs[list[n]].filter, p)}
  BY <1>1 DEF match
<1>5. DOMAIN a \subseteq N
  BY <1>3 DEF FairAllocation
<1>6. DOMAIN al = {list[n] : n \in DOMAIN a}
  BY <1>2
<1>7. ASSUME NEW n \in DOMAIN a
      PROVE  list[n] \in DOMAIN al /\ al[list[n]] = a[n]
  <2>1. (CHOOSE k \in DOMAIN a : list[k] = list[n]) = n
    BY <1>1, <1>5
  <2> QED BY <2>1, <1>2, <1>6
<1>8. \A t \in DOMAIN al : \E n \in DOMAIN a : list[n] = t
  BY <1>6
<1>9. ASSUME NEW t \in DOMAIN al
      PROVE  /\ t \in Pending(rs)
             /\ al[t] \in Available(ac)
             /\ Suits(rs[t].filter, al[t])
  <2>1. PICK n \in DOMAIN a : list[n] = t
    BY <1>8
  <2>2. a[n] \in Available(ac) /\ a[n] \in match[n]
    BY <1>3 DEF FairAllocation
  <2>3. n \in N /\ list[n] \in Pending(rs)
    BY <1>1, <1>5
  <2>4. Suits(rs[list[n]].filter, a[n])
    BY <2>2, <2>3, <1>4
  <2>5. al[t] = a[n]
    BY <2>1, <1>7
  <2> QED BY <2>1, <2>2, <2>3, <2>4, <2>5
<1>10. ASSUME NEW t \in DOMAIN al, NEW u \in DOMAIN al, al[t] = al[u]
       PROVE  t = u
  <2>1. PICK n \in DOMAIN a : list[n] = t
    BY <1>8
  <2>2. PICK k \in DOMAIN a : list[k] = u
    BY <1>8
  <2>3. a[n] = a[k]
    BY <2>1, <2>2, <1>7, <1>10
  <2>4. n = k
    BY <2>3, <1>3 DEF FairAllocation
  <2> QED BY <2>1, <2>2, <2>4
<1>11. ASSUME NEW u \in Pending(rs) \ DOMAIN al
       PROVE  \E k \in N \ DOMAIN a : list[k] = u
  BY <1>1, <1>7
<1>12. ASSUME NEW t \in DOMAIN al, NEW u \in Pending(rs) \ DOMAIN al, Before(rs, o, u, t)
       PROVE  ~Suits(rs[u].filter, al[t])
  <2>1. PICK n \in DOMAIN a : list[n] = t
    BY <1>8
  <2>2. PICK k \in N \ DOMAIN a : list[k] = u
    BY <1>11
  <2>3. k < n
    BY <2>1, <2>2, <1>1, <1>5, <1>12
  <2>4. a[n] \in match[k] => n =< k
    BY <1>3 DEF FairAllocation
  <2>5. n \in Nat /\ k \in Nat
    BY <1>1, <1>5
  <2>6. a[n] \notin match[k]
    BY <2>3, <2>4, <2>5
  <2> QED BY <2>1, <2>2, <2>6, <1>4, <1>7, <1>9
<1>13. ASSUME NEW p \in Available(ac), NEW u \in Pending(rs) \ DOMAIN al,
              Suits(rs[u].filter, p)
       PROVE  \E t \in DOMAIN al : al[t] = p
  <2>1. PICK k \in N \ DOMAIN a : list[k] = u
    BY <1>11
  <2>2. p \in match[k]
    BY <2>1, <1>4, <1>13
  <2>3. PICK n \in DOMAIN a : a[n] = p
    BY <2>2, <1>3 DEF FairAllocation, Given
  <2> QED BY <2>3, <1>7
<1> QED BY <1>9, <1>10, <1>12, <1>13

-----------------------------------------------------------------------------
(* When reservations go away, the others keep their order.                 *)
LEMMA KeptOrder ==
  ASSUME NEW rs, NEW o, CreationOrder(rs, o), NEW now, InUse(now) \in SUBSET InUse(rs)
  PROVE  CreationOrder(now, Kept(o, now))
<1> DEFINE k == Kept(o, now)
<1>1. IsFiniteSet(InUse(now))
  BY FS_Subset DEF CreationOrder
<1>2. \A t \in Token : k[t] = IF now[t] = None THEN {} ELSE o[t] \cap InUse(now)
  BY DEF Kept
<1>3. k \in [Token -> SUBSET InUse(now)]
  BY DEF Kept
<1> HIDE DEF k
<1>4. \A t \in Token : t \notin k[t]
  BY <1>2 DEF CreationOrder
<1>5. \A t \in InUse(now) : t \in Token /\ now[t] # None /\ t \in InUse(rs)
  BY DEF InUse
<1>6. /\ \A t, u \in InUse(rs) : t \in o[u] \/ u \in o[t] \/ t = u
      /\ \A t, u \in Token : t \in o[u] => o[t] \subseteq o[u]
  BY DEF CreationOrder
<1>7. ASSUME NEW t \in InUse(now), NEW u \in InUse(now)
      PROVE  t \in k[u] \/ u \in k[t] \/ t = u
  <2>1. k[t] = o[t] \cap InUse(now) /\ k[u] = o[u] \cap InUse(now)
    BY <1>2, <1>5
  <2>2. t \in o[u] \/ u \in o[t] \/ t = u
    BY <1>5, <1>6
  <2> QED BY <2>1, <2>2
<1>8. ASSUME NEW t \in Token, NEW u \in Token, t \in k[u]
      PROVE  k[t] \subseteq k[u]
  <2>1. k[u] = o[u] \cap InUse(now)
    BY <1>2, <1>8
  <2>2. k[t] \subseteq o[t] \cap InUse(now)
    BY <1>2
  <2> QED BY <2>1, <2>2, <1>6, <1>8
<1> QED BY <1>1, <1>3, <1>4, <1>7, <1>8 DEF CreationOrder, k

(* The first half of schedule_reservations(): no reservation gets a place, *)
(* some lose theirs or go away, and whoever has a place then has one that  *)
(* exists.                                                                 *)
LEMMA NowFacts ==
  ASSUME NEW rs, Sound(rs), NEW o, CreationOrder(rs, o), NEW ac,
         NEW now, now = Transition(Expire(rs), ac)
  PROVE  /\ Sound(now)
         /\ CreationOrder(now, Kept(o, now))
         /\ \A t \in InUse(now) :
              /\ t \in InUse(rs)
              /\ now[t].alloc \in {rs[t].alloc, None}
              /\ now[t].alloc \in exists \cup {None}
<1> USE DEF InUse
<1>1. /\ rs \in [Token -> Reservation \cup {None}]
      /\ None \notin Reservation
  BY NoneAssumption DEF Sound
<1> DEFINE ex == Expire(rs)
<1>2. ASSUME NEW t \in Token
      PROVE  /\ ex[t] \in Reservation \cup {None}
             /\ ex[t] # None => /\ rs[t] # None
                                /\ ex[t].alloc \in {rs[t].alloc, None}
                                /\ ex[t].alloc # None <=> ex[t].state \in {"allocated", "acquired"}
  <2>1. rs[t] # None => (rs[t].alloc # None <=> rs[t].state \in {"allocated", "acquired"})
    BY DEF Sound
  <2>2. ex[t] = IF rs[t] = None THEN None
                ELSE IF rs[t].state = "acquired" THEN Refreshed(rs[t])
                ELSE IF ~rs[t].lapsed THEN rs[t]
                ELSE IF rs[t].state = "expired" THEN None
                ELSE Refreshed([rs[t] EXCEPT !.state = "expired", !.alloc = None])
    BY DEF Expire
  <2> HIDE DEF ex
  <2>3. rs[t] # None =>
          /\ Refreshed(rs[t]) \in Reservation
          /\ Refreshed(rs[t]).alloc = rs[t].alloc /\ Refreshed(rs[t]).state = rs[t].state
    BY <1>1 DEF Reservation, Refreshed
  <2>4. rs[t] # None =>
          LET r == Refreshed([rs[t] EXCEPT !.state = "expired", !.alloc = None])
          IN  r \in Reservation /\ r.alloc = None /\ r.state = "expired"
    BY <1>1 DEF Reservation, Refreshed, State
  <2> QED BY <1>1, <2>1, <2>2, <2>3, <2>4
<1> HIDE DEF ex
<1>3. ASSUME NEW t \in Token
      PROVE  /\ now[t] \in Reservation \cup {None}
             /\ now[t] # None => /\ rs[t] # None
                                 /\ now[t].alloc \in {rs[t].alloc, None}
                                 /\ now[t].alloc \in exists \cup {None}
                                 /\ now[t].alloc # None <=> now[t].state \in {"allocated", "acquired"}
  <2>1. now[t] = IF ex[t] = None \/ ex[t].alloc = None THEN ex[t]
                 ELSE IF ex[t].alloc \notin exists
                 THEN Refreshed([ex[t] EXCEPT !.state = "invalid", !.alloc = None])
                 ELSE IF ac[ex[t].alloc] # None /\ ex[t].state = "allocated"
                 THEN Refreshed([ex[t] EXCEPT !.state = "acquired"])
                 ELSE IF ac[ex[t].alloc] = None /\ ex[t].state = "acquired"
                 THEN Refreshed([ex[t] EXCEPT !.state = "allocated"])
                 ELSE ex[t]
    BY DEF Transition, ex
  <2> QED BY <1>1, <1>2, <2>1 DEF Reservation, Refreshed, State
<1>4. now = [t \in Token |-> now[t]]
  BY DEF Transition
<1>5. Sound(now)
  <2>1. now \in [Token -> Reservation \cup {None}]
    BY <1>3, <1>4
  <2>2. ASSUME NEW t \in InUse(now), NEW u \in InUse(now),
               now[t].alloc # None, now[t].alloc = now[u].alloc
        PROVE  t = u
    BY <2>2, <1>3 DEF Sound
  <2> QED BY <2>1, <2>2, <1>3 DEF Sound
<1>6. CreationOrder(now, Kept(o, now))
  BY <1>3, KeptOrder
<1> QED BY <1>3, <1>5, <1>6

(* What schedule_reservations() leaves behind when it comes to its end.    *)
LEMMA ScheduleEnds ==
  ASSUME NEW rs, Sound(rs), NEW o, CreationOrder(rs, o), NEW ac,
         exists \in SUBSET Place,
         ~Inconsistent(Transition(Expire(rs), ac), ac),
         ScheduleReservations(rs, o, ac)
  PROVE  /\ Sound(res')
         /\ CreationOrder(res', older')
         /\ \A t \in InUse(res') : res'[t].alloc \in exists \cup {None}
         /\ resv' \in [Place -> Token \cup {None}] /\ renewed' = {}
         /\ \A p \in Place, t \in Token :
              resv'[p] = t <=> (res'[t] # None /\ res'[t].alloc = p)
<1> DEFINE now == Transition(Expire(rs), ac)
           k == Kept(o, now)
<1>1. /\ Sound(now)
      /\ CreationOrder(now, k)
      /\ \A t \in InUse(now) :
           /\ t \in InUse(rs)
           /\ now[t].alloc \in {rs[t].alloc, None}
           /\ now[t].alloc \in exists \cup {None}
  BY NowFacts
<1>2. /\ older' = k /\ renewed' = {}
      /\ \E al \in Allocations(now, k, ac) :
           res' = Apply(now, al) /\ resv' = Reserved(Apply(now, al))
  BY DEF ScheduleReservations
<1>4. ~Inconsistent(now, ac)
  OBVIOUS
<1> HIDE DEF now, k
<1>3. /\ None \notin Place /\ None \notin Token
      /\ None \notin Reservation
  BY NoneAssumption, ReservationAssumption
<1>5. PICK al \in Allocations(now, k, ac) :
        res' = Apply(now, al) /\ resv' = Reserved(Apply(now, al))
  BY <1>2
<1>6. /\ DOMAIN al \subseteq Pending(now)
      /\ \A t \in DOMAIN al : al[t] \in Available(ac)
      /\ \A t, u \in DOMAIN al : al[t] = al[u] => t = u
  BY <1>1, AllocationFacts DEF Sound
<1>7. ASSUME NEW t \in Token
      PROVE  /\ t \in DOMAIN al =>
                  /\ res'[t] \in Reservation
                  /\ now[t] # None
                  /\ res'[t].state = "allocated"
                  /\ res'[t].alloc = al[t] /\ al[t] \in exists
             /\ t \notin DOMAIN al => res'[t] = now[t]
  <2>1. now[t] \in Reservation \cup {None}
    BY <1>1 DEF Sound
  <2>2. t \in DOMAIN al => now[t] # None /\ al[t] \in exists /\ al[t] \in Place
    BY <1>6 DEF Pending, InUse, Available
  <2>3. res'[t] = IF t \in DOMAIN al
                  THEN Refreshed([now[t] EXCEPT !.state = "allocated", !.alloc = al[t]])
                  ELSE now[t]
    BY <1>5 DEF Apply
  <2>4. CASE t \in DOMAIN al
    <3> DEFINE r == [now[t] EXCEPT !.state = "allocated", !.alloc = al[t]]
    <3>1. now[t] \in Reservation
      BY <2>1, <2>2, <2>4
    <3>2. /\ r \in Reservation
          /\ r.state = "allocated" /\ r.alloc = al[t]
      BY <3>1, <2>2, <2>4 DEF Reservation, State
    <3>3. /\ Refreshed(r) \in Reservation
          /\ Refreshed(r).state = r.state /\ Refreshed(r).alloc = r.alloc
      <4> HIDE DEF r
      <4> QED BY <3>2 DEF Refreshed, Reservation
    <3> QED BY <3>2, <3>3, <2>2, <2>3, <2>4
  <2> QED BY <2>3, <2>4
<1>8. InUse(res') = InUse(now)
  BY <1>3, <1>7 DEF InUse
<1>9. Sound(res')
  <2>1. res' \in [Token -> Reservation \cup {None}]
    <3>1. res' = [t \in Token |-> res'[t]]
      BY <1>5 DEF Apply
    <3> QED BY <3>1, <1>1, <1>7 DEF Sound
  <2>2. ASSUME NEW t \in InUse(res'), NEW u \in InUse(res'),
               res'[t].alloc # None, res'[t].alloc = res'[u].alloc
        PROVE  t = u
    <3>1. t \in Token /\ u \in Token /\ t \in InUse(now) /\ u \in InUse(now)
      BY <1>8 DEF InUse
    <3>2. \A x \in DOMAIN al, y \in InUse(now) : now[y].alloc # al[x]
      BY <1>4, <1>6, <1>1, <1>3 DEF Inconsistent, Allocated, Available
    <3>3. CASE t \in DOMAIN al /\ u \in DOMAIN al
      BY <3>1, <3>3, <2>2, <1>6, <1>7
    <3>4. CASE t \in DOMAIN al /\ u \notin DOMAIN al
      BY <3>1, <3>2, <3>4, <2>2, <1>7
    <3>5. CASE t \notin DOMAIN al /\ u \in DOMAIN al
      BY <3>1, <3>2, <3>5, <2>2, <1>7
    <3>6. CASE t \notin DOMAIN al /\ u \notin DOMAIN al
      BY <3>1, <3>6, <2>2, <1>1, <1>7 DEF Sound
    <3> QED BY <3>3, <3>4, <3>5, <3>6
  <2>3. ASSUME NEW t \in InUse(res')
        PROVE  res'[t].alloc # None <=> res'[t].state \in {"allocated", "acquired"}
    <3>1. t \in Token /\ t \in InUse(now)
      BY <1>8 DEF InUse
    <3> QED BY <3>1, <1>1, <1>3, <1>7 DEF Sound, Reservation
  <2> QED BY <2>1, <2>2, <2>3 DEF Sound
<1>10. CreationOrder(res', older')
  BY <1>1, <1>2, <1>8 DEF CreationOrder
<1>11. \A t \in InUse(res') : res'[t].alloc \in exists \cup {None}
  BY <1>1, <1>7, <1>8 DEF InUse
<1>12. ASSUME NEW p \in Place
       PROVE  /\ resv'[p] \in Token \cup {None}
              /\ \A t \in Token :
                   resv'[p] = t <=> (res'[t] # None /\ res'[t].alloc = p)
  <2>1. resv'[p] = IF \E t \in InUse(res') : res'[t].alloc = p
                   THEN CHOOSE t \in InUse(res') : res'[t].alloc = p
                   ELSE None
    BY <1>5 DEF Reserved
  <2>2. CASE \E t \in InUse(res') : res'[t].alloc = p
    <3>1. resv'[p] \in InUse(res') /\ res'[resv'[p]].alloc = p
      BY <2>1, <2>2
    <3>2. \A t \in InUse(res') : res'[t].alloc = p => t = resv'[p]
      BY <3>1, <1>3, <1>9 DEF Sound
    <3> QED BY <3>1, <3>2 DEF InUse
  <2>3. CASE ~\E t \in InUse(res') : res'[t].alloc = p
    BY <2>1, <2>3, <1>3 DEF InUse
  <2> QED BY <2>2, <2>3
<1>13. resv' \in [Place -> Token \cup {None}]
  <2>1. resv' = [p \in Place |-> resv'[p]]
    BY <1>5 DEF Reserved
  <2> QED BY <2>1, <1>12
<1> QED BY <1>2, <1>9, <1>10, <1>11, <1>12, <1>13

(* The state of the copies when schedule_reservations() is called for the  *)
(* reservations rs.                                                        *)
Copied(rs) ==
  /\ resv \in [Place -> Token \cup {None}] /\ renewed \in SUBSET Place
  /\ \A p \in Place \ exists : resv[p] = None
  /\ \A t \in InUse(rs) : rs[t].alloc \in exists \ renewed => resv[rs[t].alloc] = t

(* It is called with the reservations rs in order o and acquired places    *)
(* ac.  The assert on inconsistent allocations fails only for a name that  *)
(* was added again; if it does not, the copies are exact at the end.       *)
LEMMA ScheduleFacts ==
  ASSUME NEW rs, Sound(rs), NEW o, CreationOrder(rs, o), NEW ac,
         exists \in SUBSET Place, Copied(rs),
         ScheduleReservations(rs, o, ac)
  PROVE  /\ Sound(res')
         /\ CreationOrder(res', older')
         /\ resv' \in [Place -> Token \cup {None}] /\ renewed' \in SUBSET Place
         /\ \A p \in Place \ exists : resv'[p] = None
         /\ \A t \in InUse(res') : res'[t].alloc \in exists \ renewed' => resv'[res'[t].alloc] = t
         /\ renewed' = {} => \A p \in exists, t \in Token :
                               resv'[p] = t => res'[t] # None /\ res'[t].alloc = p
<1> DEFINE now == Transition(Expire(rs), ac)
<1>1. /\ Sound(now)
      /\ CreationOrder(now, Kept(o, now))
      /\ \A t \in InUse(now) :
           /\ t \in InUse(rs)
           /\ now[t].alloc \in {rs[t].alloc, None}
  BY NowFacts
<1>2. None \notin Place /\ None \notin Token
  BY ReservationAssumption
<1>3. CASE Inconsistent(now, ac)
  <2>1. res' = now /\ older' = Kept(o, now) /\ resv' = resv /\ renewed' = renewed
    BY <1>3 DEF ScheduleReservations, copyVars
  <2> HIDE DEF now
  <2>2. PICK p \in Available(ac), t \in InUse(now) : now[t].alloc = p
    BY <1>3 DEF Inconsistent, Allocated
  <2>3. p \in exists /\ p \in Place /\ resv[p] = None
    BY <2>2 DEF Available
  <2>4. rs[t].alloc = p /\ t \in InUse(rs) /\ t \in Token
    BY <1>1, <1>2, <2>2, <2>3 DEF InUse
  <2>5. renewed # {}
    BY <2>3, <2>4, <1>2 DEF Copied
  <2>6. ASSUME NEW u \in InUse(now), now[u].alloc \in exists \ renewed
        PROVE  resv[now[u].alloc] = u
    <3>1. u \in InUse(rs) /\ rs[u].alloc = now[u].alloc
      BY <1>1, <1>2, <2>6
    <3> QED BY <3>1, <2>6 DEF Copied
  <2> QED BY <1>1, <2>1, <2>5, <2>6 DEF Copied
<1>4. CASE ~Inconsistent(now, ac)
  <2>1. /\ Sound(res')
        /\ CreationOrder(res', older')
        /\ \A t \in InUse(res') : res'[t].alloc \in exists \cup {None}
        /\ resv' \in [Place -> Token \cup {None}] /\ renewed' = {}
        /\ \A p \in Place, t \in Token :
             resv'[p] = t <=> (res'[t] # None /\ res'[t].alloc = p)
    BY <1>4, ScheduleEnds
  <2>2. \A p \in Place \ exists : resv'[p] = None
    BY <1>2, <2>1 DEF InUse
  <2>3. \A t \in InUse(res') : res'[t].alloc \in exists => resv'[res'[t].alloc] = t
    BY <2>1 DEF InUse
  <2> QED BY <2>1, <2>2, <2>3
<1> QED BY <1>3, <1>4

-----------------------------------------------------------------------------
(* The handlers that end with schedule_reservations().                     *)

(* At the start of a handler every place of a reservation that exists      *)
(* carries its token, unless its name was added again.                     *)
LEMMA Carried ==
  ASSUME IInv
  PROVE  /\ Sound(res) /\ CreationOrder(res, older)
         /\ exists \in SUBSET Place
         /\ acq \in [Place -> User \cup {None}]
         /\ Copied(res)
<1>1. /\ Sound(res) /\ CreationOrder(res, older) /\ exists \in SUBSET Place
      /\ acq \in [Place -> User \cup {None}]
  BY DEF IInv, ReservationsConsistent, TypeOK, AllocationsDisjoint, CopyIsExact, Sound
<1>2. Copied(res)
  BY DEF IInv, Placed, ReservationsConsistent, TypeOK, CopyIsExact, Copied
<1> QED BY <1>1, <1>2

(* Such a handler does no more to the places than set or clear an acquired,*)
(* and hands over sound reservations: the ones in use, without those it    *)
(* removes, and new ones that wait for a place.                            *)
Handed(rs, o) ==
  /\ Sound(rs) /\ CreationOrder(rs, o)
  /\ Copied(rs)
  /\ \A t \in InUse(rs) : rs[t] = res[t] \/ (res[t] = None /\ rs[t].alloc = None)
  /\ ScheduleReservations(rs, o, acq')

HandsOver ==
  /\ UNCHANGED <<exists, tags>>
  /\ acq' \in [Place -> User \cup {None}]
  /\ \E rs, o : Handed(rs, o)

(* It preserves the invariant.                                             *)
LEMMA Scheduled == IInv /\ HandsOver => IInv'
<1> SUFFICES ASSUME IInv, HandsOver PROVE IInv'
  OBVIOUS
<1>1. /\ UNCHANGED <<exists, tags>>
      /\ acq' \in [Place -> User \cup {None}]
  BY DEF HandsOver
<1>2. PICK rs, o : Handed(rs, o)
  BY DEF HandsOver
<1>3. /\ Sound(res')
      /\ CreationOrder(res', older')
      /\ resv' \in [Place -> Token \cup {None}] /\ renewed' \in SUBSET Place
      /\ \A p \in Place \ exists : resv'[p] = None
      /\ \A t \in InUse(res') : res'[t].alloc \in exists \ renewed' => resv'[res'[t].alloc] = t
      /\ renewed' = {} => \A p \in exists, t \in Token :
                            resv'[p] = t => res'[t] # None /\ res'[t].alloc = p
  BY <1>2, Carried, ScheduleFacts DEF Handed
<1>4. TypeOK'
  BY <1>3, <1>1 DEF IInv, ReservationsConsistent, TypeOK, Sound
<1>5. AllocationsDisjoint'
  BY <1>3 DEF Sound, AllocationsDisjoint
<1>6. CopyIsExact'
  BY <1>3, <1>1 DEF Sound, CopyIsExact
<1>7. Placed'
  BY <1>3, <1>1 DEF Placed
<1> QED BY <1>4, <1>5, <1>6, <1>7 DEF IInv, ReservationsConsistent

(* The new reservation is the last one, and waits.                         *)
LEMMA CreateReservationHandsOver ==
  ASSUME IInv, NEW u \in User, NEW f \in Filter, NEW n \in Prio, CreateReservation(u, f, n)
  PROVE  HandsOver
<1> DEFINE new == [owner |-> u, filter |-> f, prio |-> n,
                   state |-> "waiting", alloc |-> None, lapsed |-> FALSE]
<1>1. PICK t \in Token :
        /\ res[t] = None
        /\ ScheduleReservations([res EXCEPT ![t] = new], [older EXCEPT ![t] = InUse(res)], acq)
  BY DEF CreateReservation
<1>2. UNCHANGED placeVars
  BY DEF CreateReservation
<1> DEFINE rs == [res EXCEPT ![t] = new]
           o == [older EXCEPT ![t] = InUse(res)]
<1>3. /\ res \in [Token -> Reservation \cup {None}]
      /\ new \in Reservation /\ new # None
      /\ older \in [Token -> SUBSET InUse(res)]
  <2>1. new \in Reservation
    BY DEF Reservation, State
  <2> QED BY <2>1, NoneAssumption, Carried DEF Sound, CreationOrder
<1>4. /\ rs \in [Token -> Reservation \cup {None}]
      /\ \A x \in Token : rs[x] = IF x = t THEN new ELSE res[x]
      /\ o \in [Token -> SUBSET Token]
      /\ \A x \in Token : o[x] = IF x = t THEN InUse(res) ELSE older[x]
  BY <1>3 DEF InUse
<1>5. new.alloc = None /\ new.state = "waiting"
  OBVIOUS
<1> HIDE DEF new, rs, o
<1>6. InUse(rs) = InUse(res) \cup {t} /\ t \notin InUse(res)
  BY <1>1, <1>3, <1>4 DEF InUse
<1>7. Sound(rs)
  BY <1>4, <1>5, <1>6, Carried DEF Sound, InUse
<1>8. CreationOrder(rs, o)
  <2>1. IsFiniteSet(InUse(rs))
    BY <1>6, Carried, FS_AddElement DEF CreationOrder
  <2>2. o \in [Token -> SUBSET InUse(rs)]
    BY <1>3, <1>4, <1>6
  <2>3. \A x \in Token : x \notin o[x]
    BY <1>4, <1>6, Carried DEF CreationOrder
  <2>4. \A x, y \in InUse(rs) : x \in o[y] \/ y \in o[x] \/ x = y
    <3>1. \A x \in InUse(rs) : x \in Token
      BY DEF InUse
    <3> QED BY <3>1, <1>4, <1>6, Carried DEF CreationOrder
  <2>5. ASSUME NEW x \in Token, NEW y \in Token, x \in o[y]
        PROVE  o[x] \subseteq o[y]
    <3>1. x \in InUse(res) /\ x # t
      BY <1>3, <1>4, <1>6, <2>5
    <3>2. o[x] = older[x] /\ older[x] \subseteq InUse(res)
      BY <1>3, <1>4, <3>1
    <3> QED BY <1>4, <2>5, <3>2, Carried DEF CreationOrder
  <2> QED BY <2>1, <2>2, <2>3, <2>4, <2>5 DEF CreationOrder
<1>9. Copied(rs)
  <2>1. \A x \in InUse(rs) : rs[x].alloc \in exists \ renewed => resv[rs[x].alloc] = x
    BY <1>4, <1>5, <1>6, Carried, ReservationAssumption DEF InUse, Copied
  <2> QED BY <2>1, Carried DEF Copied
<1>10. acq' = acq /\ UNCHANGED <<exists, tags>>
  BY <1>2 DEF placeVars
<1>11. ScheduleReservations(rs, o, acq')
  BY <1>1, <1>10 DEF rs, o, new
<1>12. \A x \in InUse(rs) : rs[x] = res[x] \/ (res[x] = None /\ rs[x].alloc = None)
  BY <1>1, <1>4, <1>5 DEF InUse
<1>13. Handed(rs, o)
  BY <1>7, <1>8, <1>9, <1>11, <1>12 DEF Handed
<1> QED BY <1>10, <1>13, Carried DEF HandsOver

LEMMA CancelReservationHandsOver ==
  ASSUME IInv, NEW t \in Token, CancelReservation(t)
  PROVE  HandsOver
<1> DEFINE rest == [res EXCEPT ![t] = None]
<1>1. ScheduleReservations(rest, Kept(older, rest), acq)
  BY DEF CancelReservation
<1>2. acq' = acq /\ UNCHANGED <<exists, tags>>
  BY DEF CancelReservation, placeVars
<1>3. /\ rest \in [Token -> Reservation \cup {None}]
      /\ \A x \in Token : rest[x] = IF x = t THEN None ELSE res[x]
  BY Carried DEF Sound
<1> HIDE DEF rest
<1>4. InUse(rest) = InUse(res) \ {t}
  BY <1>3 DEF InUse
<1>5. Sound(rest)
  BY <1>3, <1>4, Carried DEF Sound, InUse
<1>6. CreationOrder(rest, Kept(older, rest))
  BY <1>4, Carried, KeptOrder
<1>7. Copied(rest)
  BY <1>3, <1>4, Carried DEF InUse, Copied
<1>8. Handed(rest, Kept(older, rest))
  BY <1>1, <1>2, <1>3, <1>5, <1>6, <1>7 DEF Handed, InUse
<1> QED BY <1>2, <1>8, Carried DEF HandsOver

(* PollSchedule, AcquirePlace and ReleasePlace hand over what is there.    *)
LEMMA RescheduleHandsOver ==
  ASSUME IInv,
         PollSchedule \/ \E p \in Place : ReleasePlace(p) \/ \E u \in User : AcquirePlace(u, p)
  PROVE  HandsOver
<1> DEFINE Asked == /\ UNCHANGED <<exists, tags>>
                    /\ acq' \in [Place -> User \cup {None}]
                    /\ ScheduleReservations(res, older, acq')
<1>1. Asked
  <2>1. CASE PollSchedule
    BY <2>1, Carried DEF PollSchedule, placeVars
  <2>2. ASSUME NEW p \in Place, ReleasePlace(p)
        PROVE  Asked
    BY <2>2, Carried DEF ReleasePlace
  <2>3. ASSUME NEW p \in Place, NEW u \in User, AcquirePlace(u, p)
        PROVE  Asked
    BY <2>3, Carried DEF AcquirePlace
  <2> QED BY <2>1, <2>2, <2>3
<1>2. Handed(res, older)
  BY <1>1, Carried DEF Handed
<1> QED BY <1>1, <1>2 DEF HandsOver

-----------------------------------------------------------------------------
(* The handlers that do not.                                               *)

(* Refreshing a reservation and letting it lapse change neither its place  *)
(* nor its state.                                                          *)
LEMMA TimeoutIInv ==
  ASSUME IInv, NEW t \in Token, PollReservation(t) \/ Lapse(t)
  PROVE  IInv'
<1>1. /\ res[t] # None
      /\ UNCHANGED <<older, exists, acq, tags, resv, renewed>>
      /\ \E b \in BOOLEAN : res' = [res EXCEPT ![t].lapsed = b]
  BY DEF PollReservation, Lapse, Refreshed, placeVars, copyVars
<1>2. PICK b \in BOOLEAN : res' = [res EXCEPT ![t].lapsed = b]
  BY <1>1
<1>3. res \in [Token -> Reservation \cup {None}] /\ None \notin Reservation
  BY Carried, NoneAssumption DEF Sound
<1>4. /\ res' \in [Token -> Reservation \cup {None}]
      /\ \A x \in Token : /\ res'[x] = None <=> res[x] = None
                          /\ res[x] # None => /\ res'[x].alloc = res[x].alloc
                                              /\ res'[x].state = res[x].state
  <2>1. [res[t] EXCEPT !.lapsed = b] \in Reservation
    BY <1>1, <1>3 DEF Reservation
  <2>2. /\ [res[t] EXCEPT !.lapsed = b].alloc = res[t].alloc
        /\ [res[t] EXCEPT !.lapsed = b].state = res[t].state
    BY <1>1, <1>3 DEF Reservation
  <2> QED BY <2>1, <2>2, <1>1, <1>2, <1>3
<1>5. InUse(res') = InUse(res)
  BY <1>4 DEF InUse
<1>6. TypeOK'
  BY <1>1, <1>4, <1>5 DEF IInv, ReservationsConsistent, TypeOK, CreationOrder
<1>7. AllocationsDisjoint'
  BY <1>4, <1>5 DEF IInv, ReservationsConsistent, AllocationsDisjoint, InUse
<1>8. CopyIsExact'
  BY <1>1, <1>4, <1>5 DEF IInv, ReservationsConsistent, CopyIsExact, InUse
<1>9. Placed'
  BY <1>1, <1>4, <1>5 DEF IInv, Placed, InUse
<1> QED BY <1>6, <1>7, <1>8, <1>9 DEF IInv, ReservationsConsistent

(* A place that is added has no copy, and says so if it ought to have one. *)
LEMMA AddPlaceIInv ==
  ASSUME IInv, NEW p \in Place, AddPlace(p)
  PROVE  IInv'
<1>1. /\ p \notin exists
      /\ exists' = exists \cup {p}
      /\ renewed' = renewed \cup ({p} \cap Allocated(res))
      /\ UNCHANGED <<res, older, acq, resv, tags>>
  BY DEF AddPlace
<1>2. resv[p] = None /\ None \notin Place /\ None \notin Token
  BY <1>1, ReservationAssumption DEF IInv, Placed
<1>3. TypeOK' /\ AllocationsDisjoint'
  BY <1>1 DEF IInv, ReservationsConsistent, TypeOK, CreationOrder, AllocationsDisjoint, InUse
<1>4. CopyIsExact'
  <2>1. \A t \in InUse(res) : res[t].alloc = p => p \in renewed'
    BY <1>1, <1>2 DEF Allocated
  <2>2. renewed' = {} => renewed = {}
    BY <1>1
  <2> QED BY <1>1, <1>2, <2>1, <2>2 DEF IInv, ReservationsConsistent, CopyIsExact, InUse
<1>5. Placed'
  BY <1>1 DEF IInv, Placed
<1> QED BY <1>3, <1>4, <1>5 DEF IInv, ReservationsConsistent

(* A place that is deleted takes its copy with it.                         *)
LEMMA DeletePlaceIInv ==
  ASSUME IInv, NEW p \in Place, DeletePlace(p)
  PROVE  IInv'
<1>1. /\ exists' = exists \ {p}
      /\ acq' = [acq EXCEPT ![p] = None]
      /\ resv' = [resv EXCEPT ![p] = None]
      /\ tags' = [tags EXCEPT ![p] = {}]
      /\ UNCHANGED <<res, older, renewed>>
  BY DEF DeletePlace
<1>2. TypeOK' /\ AllocationsDisjoint'
  BY <1>1 DEF IInv, ReservationsConsistent, TypeOK, CreationOrder, AllocationsDisjoint, InUse
<1>3. CopyIsExact'
  BY <1>1 DEF IInv, ReservationsConsistent, TypeOK, CopyIsExact, InUse
<1>4. Placed'
  BY <1>1 DEF IInv, ReservationsConsistent, TypeOK, Placed
<1> QED BY <1>2, <1>3, <1>4 DEF IInv, ReservationsConsistent

(* A cancelled AcquirePlace, which changes no reservation and no copy.     *)
LEMMA AcquireCancelledIInv ==
  ASSUME IInv, NEW p \in Place, NEW u \in User, AcquireCancelled(u, p)
  PROVE  IInv'
<1>1. UNCHANGED <<res, older, exists, resv, renewed, tags>> /\ acq' = [acq EXCEPT ![p] = u]
  BY DEF AcquireCancelled, copyVars
<1>2. TypeOK' /\ AllocationsDisjoint' /\ CopyIsExact' /\ Placed'
  BY <1>1 DEF IInv, ReservationsConsistent, TypeOK, CreationOrder,
              AllocationsDisjoint, CopyIsExact, Placed, InUse
<1> QED BY <1>2 DEF IInv, ReservationsConsistent

(* SetPlaceTags, and steps that change nothing.                            *)
LEMMA TagsIInv ==
  ASSUME IInv,
         UNCHANGED vars \/ \E p \in Place, T \in SUBSET Tag : SetPlaceTags(p, T)
  PROVE  IInv'
<1>1. /\ UNCHANGED <<res, older, exists, acq, resv, renewed>>
      /\ tags' \in [Place -> SUBSET Tag]
  BY DEF IInv, ReservationsConsistent, TypeOK, vars, placeVars, copyVars, SetPlaceTags
<1>2. TypeOK' /\ AllocationsDisjoint' /\ CopyIsExact' /\ Placed'
  BY <1>1 DEF IInv, ReservationsConsistent, TypeOK, CreationOrder,
              AllocationsDisjoint, CopyIsExact, Placed, InUse
<1> QED BY <1>2 DEF IInv, ReservationsConsistent

-----------------------------------------------------------------------------
(* Between two RPCs the reservations are disjoint and the copies in the    *)
(* places are exact, whatever is created, cancelled, deleted and forgotten *)
(* in between; but for names that are added again while a reservation has  *)
(* the deleted place.                                                      *)
LEMMA InvariantHolds == Spec => []IInv
<1>1. Init => IInv
  <2> SUFFICES ASSUME Init PROVE IInv
    OBVIOUS
  <2>1. InUse(res) = {}
    BY DEF Init, InUse
  <2>2. TypeOK
    BY <2>1, FS_EmptySet DEF Init, TypeOK, CreationOrder
  <2> QED BY <2>1, <2>2, ReservationAssumption
          DEF Init, IInv, ReservationsConsistent, AllocationsDisjoint, CopyIsExact, Placed
<1>2. IInv /\ [Next]_vars => IInv'
  <2> SUFFICES ASSUME IInv, [Next]_vars PROVE IInv'
    OBVIOUS
  <2>1. ASSUME NEW u \in User, NEW f \in Filter, NEW n \in Prio, CreateReservation(u, f, n)
        PROVE  IInv'
    BY <2>1, CreateReservationHandsOver, Scheduled
  <2>2. ASSUME NEW t \in Token, CancelReservation(t) PROVE IInv'
    BY <2>2, CancelReservationHandsOver, Scheduled
  <2>3. ASSUME NEW t \in Token, PollReservation(t) \/ Lapse(t) PROVE IInv'
    BY <2>3, TimeoutIInv
  <2>4. ASSUME PollSchedule \/ \E p \in Place : ReleasePlace(p) \/ \E u \in User : AcquirePlace(u, p)
        PROVE  IInv'
    BY <2>4, RescheduleHandsOver, Scheduled
  <2>5. ASSUME NEW p \in Place, AddPlace(p) PROVE IInv'
    BY <2>5, AddPlaceIInv
  <2>6. ASSUME NEW p \in Place, DeletePlace(p) PROVE IInv'
    BY <2>6, DeletePlaceIInv
  <2>7. ASSUME NEW p \in Place, NEW u \in User, AcquireCancelled(u, p) PROVE IInv'
    BY <2>7, AcquireCancelledIInv
  <2>8. ASSUME UNCHANGED vars \/ \E p \in Place, T \in SUBSET Tag : SetPlaceTags(p, T)
        PROVE  IInv'
    BY <2>8, TagsIInv
  <2> QED BY <2>1, <2>2, <2>3, <2>4, <2>5, <2>6, <2>7, <2>8 DEF Next
<1> QED BY <1>1, <1>2, PTL DEF Spec

(* ReservationsConsistent: no place is allocated to two reservations, and  *)
(* place.reservation is an exact copy, but for a name that is added again  *)
(* while a reservation has the deleted place.                              *)
THEOREM AlwaysConsistent == Spec => []ReservationsConsistent
<1>1. IInv => ReservationsConsistent
  BY DEF IInv
<1> QED BY <1>1, InvariantHolds, PTL

(* OnlyOwnerLocks: AcquirePlace asks the copy in the place, and the copy   *)
(* is exact, but for a name that is added again.                           *)
THEOREM OwnersLock == Spec => OnlyOwnerLocks
<1>1. IInv /\ [Next]_vars => [LocksOnlyAsOwner(Place \ renewed)]_vars
  <2> SUFFICES ASSUME IInv, Next,
                      NEW p \in Place \ renewed, acq[p] = None, acq'[p] # None,
                      NEW t \in InUse(res), res[t].alloc = p
               PROVE  res[t].owner = acq'[p]
    BY DEF LocksOnlyAsOwner
  <2>1. acq \in [Place -> User \cup {None}]
    BY Carried
  <2>2. PICK q \in Place, u \in User : AcquirePlace(u, q) \/ AcquireCancelled(u, q)
    BY <2>1 DEF Next, CreateReservation, CancelReservation, PollReservation, Lapse,
                PollSchedule, ReleasePlace, AddPlace, DeletePlace, SetPlaceTags, placeVars
  <2>3. MayAcquire(u, q) /\ acq' = [acq EXCEPT ![q] = u]
    BY <2>2 DEF AcquirePlace, AcquireCancelled
  <2>4. q = p /\ acq'[p] = u /\ p \in exists
    BY <2>1, <2>3 DEF MayAcquire
  <2>5. resv[p] = t /\ t # None
    BY <2>4, Carried, ReservationAssumption DEF InUse, Copied
  <2> QED BY <2>3, <2>4, <2>5 DEF MayAcquire
<1>2. Spec => [][LocksOnlyAsOwner(Place \ renewed)]_vars
  BY <1>1, InvariantHolds, PTL DEF Spec
<1> QED BY <1>2 DEF OnlyOwnerLocks

(* Every handler hands over reservations to schedule_reservations(), or    *)
(* changes no reservation but for its timeout.                             *)
LEMMA Handlers ==
  ASSUME IInv, Next
  PROVE  \/ HandsOver
         \/ /\ older' = older
            /\ InUse(res') = InUse(res)
            /\ \A t \in InUse(res) : /\ res'[t].alloc = res[t].alloc
                                     /\ res'[t].state = res[t].state
<1> USE DEF InUse
<1>1. ASSUME NEW u \in User, NEW f \in Filter, NEW n \in Prio, CreateReservation(u, f, n)
      PROVE  HandsOver
  BY <1>1, CreateReservationHandsOver
<1>2. ASSUME NEW t \in Token, CancelReservation(t) PROVE HandsOver
  BY <1>2, CancelReservationHandsOver
<1>3. ASSUME PollSchedule \/ \E p \in Place : ReleasePlace(p) \/ \E u \in User : AcquirePlace(u, p)
      PROVE  HandsOver
  BY <1>3, RescheduleHandsOver
<1> DEFINE Still == /\ older' = older
                    /\ InUse(res') = InUse(res)
                    /\ \A t \in InUse(res) : /\ res'[t].alloc = res[t].alloc
                                             /\ res'[t].state = res[t].state
<1>4. ASSUME NEW t \in Token, PollReservation(t) \/ Lapse(t) PROVE Still
  <2>1. res \in [Token -> Reservation \cup {None}] /\ None \notin Reservation
    BY Carried, NoneAssumption DEF Sound
  <2>2. /\ res[t] # None /\ older' = older
        /\ \E b \in BOOLEAN : res' = [res EXCEPT ![t].lapsed = b]
    BY <1>4 DEF PollReservation, Lapse, Refreshed
  <2>3. PICK b \in BOOLEAN : res' = [res EXCEPT ![t].lapsed = b]
    BY <2>2
  <2>4. /\ [res[t] EXCEPT !.lapsed = b] \in Reservation
        /\ [res[t] EXCEPT !.lapsed = b].alloc = res[t].alloc
        /\ [res[t] EXCEPT !.lapsed = b].state = res[t].state
    BY <2>1, <2>2 DEF Reservation
  <2> QED BY <2>1, <2>2, <2>3, <2>4
<1>5. ASSUME NEW p \in Place,
             \/ AddPlace(p) \/ DeletePlace(p)
             \/ \E T \in SUBSET Tag : SetPlaceTags(p, T)
             \/ \E u \in User : AcquireCancelled(u, p)
      PROVE  Still
  BY <1>5 DEF AddPlace, DeletePlace, SetPlaceTags, AcquireCancelled
<1> HIDE DEF Still
<1>6. HandsOver \/ Still
  BY <1>1, <1>2, <1>3, <1>4, <1>5 DEF Next
<1> QED BY <1>6 DEF Still

(* What becomes in schedule_reservations() of a reservation that does not  *)
(* expire: it stays, with its place.                                       *)
LEMMA Fate ==
  ASSUME NEW rs, NEW o, Handed(rs, o), NEW t \in InUse(rs),
         rs[t].state = "acquired" \/ (rs[t].state = "allocated" /\ ~rs[t].lapsed),
         rs[t].alloc \in exists, rs[t].alloc # None
  PROVE  /\ res'[t] # None
         /\ res'[t].state \in {"allocated", "acquired"}
         /\ res'[t].alloc = rs[t].alloc
<1> DEFINE now == Transition(Expire(rs), acq')
           k == Kept(o, now)
<1>1. Sound(now) /\ CreationOrder(now, k)
  BY NowFacts DEF Handed
<1>2. t \in Token /\ rs[t] # None /\ rs[t] \in Reservation
  BY DEF Handed, Sound, InUse
<1> DEFINE r == Expire(rs)[t]
<1>3. /\ r \in Reservation /\ r # None
      /\ r.state = rs[t].state /\ r.alloc = rs[t].alloc
  <2>1. r = IF rs[t].state = "acquired" THEN Refreshed(rs[t]) ELSE rs[t]
    BY <1>2 DEF Expire
  <2> HIDE DEF r, now, k
  <2>2. /\ Refreshed(rs[t]) \in Reservation
        /\ Refreshed(rs[t]).state = rs[t].state /\ Refreshed(rs[t]).alloc = rs[t].alloc
    BY <1>2 DEF Reservation, Refreshed
  <2> QED BY <1>2, <2>1, <2>2, NoneAssumption
<1>4. now[t] = IF r = None \/ r.alloc = None THEN r
               ELSE IF r.alloc \notin exists
               THEN Refreshed([r EXCEPT !.state = "invalid", !.alloc = None])
               ELSE IF acq'[r.alloc] # None /\ r.state = "allocated"
               THEN Refreshed([r EXCEPT !.state = "acquired"])
               ELSE IF acq'[r.alloc] = None /\ r.state = "acquired"
               THEN Refreshed([r EXCEPT !.state = "allocated"])
               ELSE r
  BY <1>2 DEF Transition
<1> HIDE DEF r, now, k
<1>5. now[t] \in {r, Refreshed([r EXCEPT !.state = "acquired"]),
                  Refreshed([r EXCEPT !.state = "allocated"])}
  BY <1>3, <1>4
<1>6. ASSUME NEW x \in {"acquired", "allocated"}
      PROVE  /\ Refreshed([r EXCEPT !.state = x]) \in Reservation
             /\ Refreshed([r EXCEPT !.state = x]).state = x
             /\ Refreshed([r EXCEPT !.state = x]).alloc = r.alloc
  BY <1>3 DEF Reservation, Refreshed, State
<1>7. /\ now[t] # None
      /\ now[t].state \in {"allocated", "acquired"}
      /\ now[t].alloc = rs[t].alloc
  BY <1>3, <1>5, <1>6, NoneAssumption
<1>8. ASSUME NEW al \in Allocations(now, k, acq'), res' = Apply(now, al)
      PROVE  res'[t] = now[t]
  <2>1. DOMAIN al \subseteq Pending(now)
    BY <1>1, AllocationFacts DEF Sound
  <2>2. t \notin DOMAIN al
    BY <1>7, <2>1 DEF Pending
  <2> QED BY <1>2, <1>8, <2>2 DEF Apply
<1> QED BY <1>7, <1>8 DEF Handed, ScheduleReservations, now, k

(* A token that is not in use when it is called is not afterwards.         *)
LEMMA NoneAppears ==
  ASSUME NEW rs, NEW o, Handed(rs, o), NEW t \in Token, rs[t] = None
  PROVE  res'[t] = None
<1> DEFINE now == Transition(Expire(rs), acq')
           k == Kept(o, now)
<1>1. Sound(now) /\ CreationOrder(now, k)
  BY NowFacts DEF Handed
<1>2. now[t] = None
  BY DEF Expire, Transition
<1> HIDE DEF now, k
<1>3. ASSUME NEW al \in Allocations(now, k, acq'), res' = Apply(now, al)
      PROVE  res'[t] = None
  <2>1. DOMAIN al \subseteq Pending(now)
    BY <1>1, AllocationFacts DEF Sound
  <2> QED BY <1>2, <1>3, <2>1 DEF Apply, Pending, InUse
<1> QED BY <1>2, <1>3 DEF Handed, ScheduleReservations, now, k

(* ReservedWhileUsed: a reservation whose place is locked is refreshed and *)
(* not timed out, however late schedule_reservations() is called, and the  *)
(* call that locks it leaves the place to it unless it came too late.      *)
THEOREM UsedStayReserved == Spec => ReservedWhileUsed
<1> DEFINE Stay == \A t \in InUse(res) : StaysAcquired(t) /\ (res[t].lapsed \/ KeepsPlace(t))
<1>1. IInv /\ [Next]_vars => [Stay]_vars
  <2> SUFFICES ASSUME IInv, Next, NEW t \in InUse(res)
               PROVE  StaysAcquired(t) /\ (res[t].lapsed \/ KeepsPlace(t))
    OBVIOUS
  <2>1. /\ t \in Token /\ res[t] # None
        /\ \A p \in exists : p # None
        /\ res[t].alloc # None => res[t].state \in {"allocated", "acquired"}
    BY Carried, ReservationAssumption DEF Sound, InUse
  <2>2. StaysAcquired(t)
    <3> SUFFICES ASSUME res[t].state = "acquired", res[t].alloc \in exists, res'[t] # None
                 PROVE  res'[t].state # "expired"
      BY DEF StaysAcquired
    <3>1. ASSUME NEW rs, NEW o, Handed(rs, o) PROVE res'[t].state # "expired"
      <4>1. rs[t] # None
        BY <2>1, <3>1, NoneAppears
      <4>2. rs[t] = res[t] /\ t \in InUse(rs)
        BY <2>1, <3>1, <4>1 DEF Handed, InUse
      <4>3. res'[t].state \in {"allocated", "acquired"}
        BY <2>1, <3>1, <4>2, Fate
      <4> QED BY <4>3
    <3>2. CASE HandsOver
      BY <3>1, <3>2 DEF HandsOver
    <3>3. CASE ~HandsOver
      BY <3>3, Handlers
    <3> QED BY <3>2, <3>3
  <2>3. res[t].lapsed \/ KeepsPlace(t)
    <3> SUFFICES ASSUME ~res[t].lapsed, res[t].alloc \in exists,
                        acq[res[t].alloc] = None, acq'[res[t].alloc] # None
                 PROVE  res'[t] # None /\ res'[t].alloc = res[t].alloc
      BY DEF KeepsPlace
    <3>1. acq \in [Place -> User \cup {None}] /\ exists \in SUBSET Place
      BY Carried
    <3>2. PICK q \in Place, u \in User : AcquirePlace(u, q) \/ AcquireCancelled(u, q)
      BY <3>1 DEF Next, CreateReservation, CancelReservation, PollReservation, Lapse,
                  PollSchedule, ReleasePlace, AddPlace, DeletePlace, SetPlaceTags, placeVars
    <3>3. CASE AcquireCancelled(u, q)
      BY <2>1, <3>3 DEF AcquireCancelled
    <3>4. CASE AcquirePlace(u, q)
      <4>1. Handed(res, older)
        BY <3>4, Carried DEF Handed, AcquirePlace
      <4> QED BY <2>1, <4>1, Fate
    <3> QED BY <3>2, <3>3, <3>4
  <2> QED BY <2>2, <2>3
<1> HIDE DEF Stay
<1>2. Spec => [][Stay]_vars
  BY <1>1, InvariantHolds, PTL DEF Spec
<1> QED BY <1>2 DEF Stay, ReservedWhileUsed

(* Whom schedule_reservations() passes over: nobody with a higher priority *)
(* or, at the same priority, an earlier reservation that the place suits.  *)
LEMMA NobodyPassedOver ==
  ASSUME HandsOver,
         NEW t \in InUse(res'), NEW u \in InUse(res'),
         res'[t].alloc # None, res[t] = None \/ res[t].alloc # res'[t].alloc,
         res'[u].state = "waiting", Before(res', older', u, t)
  PROVE  ~Suits(res'[u].filter, res'[t].alloc)
<1>1. PICK rs, o : Handed(rs, o)
  BY DEF HandsOver
<1> DEFINE now == Transition(Expire(rs), acq')
           k == Kept(o, now)
<1>2. /\ Sound(now)
      /\ CreationOrder(now, k)
      /\ \A x \in InUse(now) : x \in InUse(rs) /\ now[x].alloc \in {rs[x].alloc, None}
  BY <1>1, NowFacts DEF Handed
<1>3. older' = k /\ (res' = now \/ \E al \in Allocations(now, k, acq') : res' = Apply(now, al))
  BY <1>1 DEF Handed, ScheduleReservations
<1> HIDE DEF now, k
<1>4. ~(t \in InUse(now) /\ res'[t].alloc = now[t].alloc)
  BY <1>1, <1>2 DEF Handed, InUse
<1>5. PICK al \in Allocations(now, k, acq') : res' = Apply(now, al)
  BY <1>3, <1>4
<1>6. /\ DOMAIN al \subseteq Pending(now)
      /\ \A x \in DOMAIN al, y \in Pending(now) \ DOMAIN al :
           Before(now, k, y, x) => ~Suits(now[y].filter, al[x])
  BY <1>2, AllocationFacts DEF Sound
<1>7. t \in Token /\ u \in Token
  BY DEF InUse
<1>8. \A x \in Token : res'[x] = IF x \in DOMAIN al
                                 THEN Refreshed([now[x] EXCEPT !.state = "allocated", !.alloc = al[x]])
                                 ELSE now[x]
  BY <1>5 DEF Apply
<1>9. t \in DOMAIN al
  BY <1>4, <1>7, <1>8 DEF InUse
<1>10. now[t] \in Reservation
  BY <1>2, <1>6, <1>9 DEF Sound, Pending, InUse
<1>11. res'[t].alloc = al[t] /\ res'[t].prio = now[t].prio
  BY <1>7, <1>8, <1>9, <1>10 DEF Refreshed, Reservation
<1>12. u \notin DOMAIN al
  <2> SUFFICES ASSUME u \in DOMAIN al PROVE FALSE
    OBVIOUS
  <2>1. now[u] \in Reservation
    BY <1>2, <1>6 DEF Sound, Pending, InUse
  <2>2. res'[u].state = "allocated"
    BY <1>7, <1>8, <2>1 DEF Refreshed, Reservation
  <2> QED BY <2>2
<1>13. res'[u] = now[u] /\ u \in Pending(now) \ DOMAIN al
  BY <1>7, <1>8, <1>12 DEF Pending, InUse
<1>14. Before(now, k, u, t)
  BY <1>3, <1>11, <1>13 DEF Before
<1> QED BY <1>6, <1>9, <1>11, <1>13, <1>14

(* PriorityRespected: a place that is newly allocated goes past no waiting *)
(* reservation that comes before in the list.                              *)
THEOREM PriorityHolds == Spec => PriorityRespected
<1> DEFINE Fair ==
      \A t, u \in InUse(res') :
        ( /\ res'[t].alloc # None
          /\ (res[t] = None \/ res[t].alloc # res'[t].alloc)
          /\ res'[u].state = "waiting"
          /\ \/ res'[u].prio > res'[t].prio
             \/ /\ res'[u].prio = res'[t].prio
                /\ u \in older'[t] )
        => ~Suits(res'[u].filter, res'[t].alloc)
<1>1. IInv /\ [Next]_vars => [Fair]_vars
  <2> SUFFICES ASSUME IInv, Next,
                      NEW t \in InUse(res'), NEW u \in InUse(res'),
                      res'[t].alloc # None, res[t] = None \/ res[t].alloc # res'[t].alloc,
                      res'[u].state = "waiting", Before(res', older', u, t)
               PROVE  ~Suits(res'[u].filter, res'[t].alloc)
    BY DEF Before
  <2>1. CASE HandsOver
    BY <2>1, NobodyPassedOver
  <2>2. CASE ~HandsOver
    BY <2>2, Handlers DEF InUse
  <2> QED BY <2>1, <2>2
<1> HIDE DEF Fair
<1>2. Spec => [][Fair]_vars
  BY <1>1, InvariantHolds, PTL DEF Spec
<1> QED BY <1>2 DEF Fair, PriorityRespected
=============================================================================
