-------------------------- MODULE CoordinatorProofs --------------------------
(***************************************************************************)
(* Proofs about the coordinator and its exporters for every set of         *)
(* exporters, resources and places, without the bounds of the instances    *)
(* that TLC checks: no resource is in two lists, the state is well-typed,  *)
(* and the coordinator with its streams, timeouts and orphans implements   *)
(* the lock of module ResourceLock.                                        *)
(***************************************************************************)
EXTENDS Coordinator, TLAPS

(* The resources an AcquirePlace in progress has laid claim to.            *)
Claimed == todo \cup cur \cup got

(* No two references of S are to one resource.                             *)
Distinct(S) == \A x, y \in S : x.res = y.res => x = y

(* The check "all resources need to be free" stays true while AcquirePlace *)
(* waits for the exporters: nothing it claims gets into the list of any    *)
(* place, although streams end and begin meanwhile.  This is what makes    *)
(* ResourceExclusive inductive.                                            *)
ClaimsStand ==
  lock = "acquire" =>
    /\ Distinct(Claimed)
    /\ \A p \in Place : \A x \in Claimed, y \in held[p] : x.res # y.res

(* The inductive invariant for ResourceExclusive.                          *)
ExclusiveInv ==
  /\ DOMAIN held = Place
  /\ lock = "idle" => cur = {}
  /\ ResourceExclusive
  /\ ClaimsStand

-----------------------------------------------------------------------------
(* A reference keeps naming the same resource when its exporter is gone.   *)
LEMMA DetachKeepsResource ==
  ASSUME NEW x, NEW e
  PROVE  Detach(x, e).res = x.res
BY DEF Detach

(* An equal resource of equal references stays so after a Detach.          *)
LEMMA DetachAllFacts ==
  ASSUME NEW S, NEW e
  PROVE  /\ \A y \in DetachAll(S, e) : \E x \in S : y = Detach(x, e) /\ y.res = x.res
         /\ S = {} => DetachAll(S, e) = {}
BY DetachKeepsResource DEF DetachAll

(* Nothing is acquired in the initial state.                               *)
LEMMA InitExclusive == Init => ExclusiveInv
BY DEF Init, ExclusiveInv, ResourceExclusive, ClaimsStand

(* Steps that leave the lists of the places and the lock's holder alone.   *)
LEMMA UnchangedExclusive ==
  ExclusiveInv /\ UNCHANGED <<held, lock, todo, got, cur>> => ExclusiveInv'
BY DEF ExclusiveInv, ResourceExclusive, ClaimsStand, Claimed, Distinct

(* The steps of AcquirePlace.                                              *)
LEMMA AcquireExclusive ==
  ASSUME ExclusiveInv,
         \/ \E p \in Place, R \in SUBSET Resource : AcquirePlace(p, R)
         \/ AcquireSend \/ AcquireResume \/ AcquireFinish
  PROVE  ExclusiveInv'
<1>1. ASSUME NEW p \in Place, NEW R \in SUBSET Resource, AcquirePlace(p, R)
      PROVE  ExclusiveInv'
  <2>1. /\ held' = held /\ lock' = "acquire" /\ cur' = {} /\ got' = {}
        /\ todo' = {LiveRef(r) : r \in R}
        /\ \A r \in R : \A q \in Place : r \notin Paths(held[q])
    BY <1>1 DEF AcquirePlace, AllFree, LockFree, ExclusiveInv
  <2>2. \A x \in Claimed' : \E r \in R : x = LiveRef(r) /\ x.res = r
    BY <2>1 DEF Claimed, LiveRef
  <2>3. Distinct(Claimed')
    BY <2>2 DEF Distinct
  <2>4. \A q \in Place : \A x \in Claimed', y \in held[q] : x.res # y.res
    BY <2>1, <2>2 DEF Paths
  <2> QED BY <2>1, <2>3, <2>4 DEF ExclusiveInv, ResourceExclusive, ClaimsStand
<1>2. ASSUME AcquireSend
      PROVE  ExclusiveInv'
  <2>1. /\ held' = held /\ lock = "acquire" /\ lock' # "idle" /\ cur = {}
        /\ lock' = "acquire" => Claimed' \subseteq Claimed
    BY <1>2 DEF AcquireSend, AcquireFailed, Send, Claimed, placeVars
  <2> QED BY <2>1 DEF ExclusiveInv, ResourceExclusive, ClaimsStand, Distinct
<1>3. ASSUME AcquireResume
      PROVE  ExclusiveInv'
  <2>1. /\ held' = held /\ lock = "acquire" /\ lock' # "idle" /\ cur' = {}
        /\ lock' = "acquire" => Claimed' \subseteq Claimed
    BY <1>3 DEF AcquireResume, AcquireFailed, Awaited, Claimed, placeVars
  <2> QED BY <2>1 DEF ExclusiveInv, ResourceExclusive, ClaimsStand, Distinct
<1>4. ASSUME AcquireFinish
      PROVE  ExclusiveInv'
  <2>1. /\ held' = [held EXCEPT ![opPlace] = @ \cup got]
        /\ lock = "acquire" /\ lock' = "idle" /\ cur' = {}
    BY <1>4 DEF AcquireFinish
  <2>2. /\ Distinct(got)
        /\ \A p \in Place : \A x \in got, y \in held[p] : x.res # y.res
    BY <2>1 DEF ExclusiveInv, ClaimsStand, Claimed, Distinct
  <2>3. \A p \in Place : held'[p] = IF p = opPlace THEN held[p] \cup got ELSE held[p]
    BY <2>1 DEF ExclusiveInv
  <2>4. ResourceExclusive'
    <3> SUFFICES ASSUME NEW p \in Place, NEW q \in Place,
                        NEW x \in held'[p], NEW y \in held'[q], x.res = y.res
                 PROVE  p = q /\ x = y
      BY DEF ResourceExclusive
    <3>1. /\ x \in held[p] \/ (p = opPlace /\ x \in got)
          /\ y \in held[q] \/ (q = opPlace /\ y \in got)
      BY <2>3
    <3>2. CASE x \in held[p] /\ y \in held[q]
      BY <3>2 DEF ExclusiveInv, ResourceExclusive
    <3>3. CASE x \in got \/ y \in got
      BY <2>2, <3>1, <3>3 DEF Distinct
    <3> QED BY <3>1, <3>2, <3>3
  <2> QED BY <2>1, <2>4 DEF ExclusiveInv, ClaimsStand
<1> QED BY <1>1, <1>2, <1>3, <1>4

(* The steps of ReleasePlace, DeletePlace and a cancelled handler: lists   *)
(* only become shorter.                                                    *)
LEMMA ReleaseExclusive ==
  ASSUME ExclusiveInv,
         \/ \E p \in Place : ReleasePlace(p) \/ DeletePlace(p)
         \/ ReleaseSend \/ ReleaseResume \/ ReleaseFinish \/ Cancel
  PROVE  ExclusiveInv'
<1>1. ASSUME NEW p \in Place, ReleasePlace(p) \/ DeletePlace(p)
      PROVE  ExclusiveInv'
  <2>1. /\ held' = [held EXCEPT ![p] = {}]
        /\ lock = "idle" /\ lock' # "acquire" /\ cur' = cur
    BY <1>1 DEF ReleasePlace, DeletePlace, LockFree, opVars
  <2>2. \A q \in Place : held'[q] \subseteq held[q]
    BY <2>1 DEF ExclusiveInv
  <2> QED BY <2>1, <2>2 DEF ExclusiveInv, ResourceExclusive, ClaimsStand
<1>2. ASSUME ReleaseSend \/ ReleaseResume \/ ReleaseFinish \/ Cancel
      PROVE  ExclusiveInv'
  <2>1. /\ held' = held /\ lock' # "acquire"
        /\ lock' = "idle" => cur' = {}
    BY <1>2 DEF ReleaseSend, ReleaseResume, ReleaseFinish, Cancel, Send, Awaited, placeVars
  <2> QED BY <2>1 DEF ExclusiveInv, ResourceExclusive, ClaimsStand
<1> QED BY <1>1, <1>2

(* The steps of _synchronize_resources.  Only the last one touches a list, *)
(* and puts the new object of a resource where the old one was.            *)
LEMMA SyncExclusive ==
  ASSUME ExclusiveInv,
         \/ SyncStart \/ SyncReleaseAny \/ SyncReleaseResume \/ SyncReleaseEnd
         \/ SyncAcquire \/ SyncAcquireResume \/ SyncReplace
  PROVE  ExclusiveInv'
<1>1. ASSUME SyncStart \/ SyncReleaseResume \/ SyncReleaseEnd \/ SyncAcquireResume
      PROVE  ExclusiveInv'
  <2>1. /\ held' = held /\ lock' # "acquire" /\ lock' # "idle"
    BY <1>1 DEF SyncStart, SyncReleaseResume, SyncReleaseEnd, SyncAcquireResume, placeVars
  <2> QED BY <2>1 DEF ExclusiveInv, ResourceExclusive, ClaimsStand
<1>2. ASSUME SyncReleaseAny
      PROVE  ExclusiveInv'
  <2>1. /\ held' = held /\ lock' = "sync_release"
    BY <1>2 DEF SyncReleaseAny, SyncRelease, placeVars
  <2> QED BY <2>1 DEF ExclusiveInv, ResourceExclusive, ClaimsStand
<1>3. ASSUME SyncAcquire
      PROVE  ExclusiveInv'
  <2>1. /\ held' = held /\ lock' # "acquire"
        /\ lock' = "idle" => cur' = {}
    BY <1>3 DEF SyncAcquire, SyncOver, placeVars
  <2> QED BY <2>1 DEF ExclusiveInv, ResourceExclusive, ClaimsStand
<1>4. ASSUME SyncReplace
      PROVE  ExclusiveInv'
  <2>1. PICK S \in SUBSET {x \in ToReplace : Replaceable(x)} :
          held' = [p \in Place |->
                     {IF x \in S THEN Replacement(x.res) ELSE x : x \in held[p]}]
    BY <1>4 DEF SyncReplace
  <2>2. lock' = "idle" /\ cur' = {}
    BY <1>4 DEF SyncReplace, SyncOver
  <2> DEFINE New(x) == IF x \in S THEN Replacement(x.res) ELSE x
  <2>3. ASSUME NEW x PROVE New(x).res = x.res
    <3>1. CASE x \in S
      <4>1. \E n \in acqd : n.res = x.res
        BY <3>1 DEF ToReplace, Paths
      <4>2. Replacement(x.res).res = x.res
        BY <4>1 DEF Replacement
      <4> QED BY <3>1, <4>2
    <3>2. CASE x \notin S
      BY <3>2
    <3> QED BY <3>1, <3>2
  <2>4. \A p \in Place : held'[p] = {New(x) : x \in held[p]}
    BY <2>1
  <2>5. DOMAIN held' = Place
    BY <2>1
  <2> HIDE DEF New
  <2>6. ASSUME NEW p \in Place, NEW q \in Place,
               NEW x \in held'[p], NEW y \in held'[q], x.res = y.res
        PROVE  p = q /\ x = y
    <3>1. PICK x0 \in held[p] : x = New(x0)
      BY <2>4
    <3>2. PICK y0 \in held[q] : y = New(y0)
      BY <2>4
    <3>3. x0.res = y0.res
      BY <2>3, <2>6, <3>1, <3>2
    <3>4. p = q /\ x0 = y0
      BY <3>3 DEF ExclusiveInv, ResourceExclusive
    <3> QED BY <3>1, <3>2, <3>4
  <2> QED BY <2>2, <2>5, <2>6 DEF ExclusiveInv, ResourceExclusive, ClaimsStand
<1> QED BY <1>1, <1>2, <1>3, <1>4

(* The end of an exporter's stream turns objects into orphans in every     *)
(* list at once, those of the lock's holder included.                      *)
LEMMA TeardownExclusive ==
  ASSUME ExclusiveInv, NEW e \in Exporter, Teardown(e)
  PROVE  ExclusiveInv'
<1>1. CASE blocked[e] # None
  BY <1>1, UnchangedExclusive DEF Teardown
<1>2. CASE blocked[e] = None
  <2>1. /\ held' = [p \in Place |-> DetachAll(held[p], e)]
        /\ todo' = DetachAll(todo, e) /\ got' = DetachAll(got, e)
        /\ cur' = DetachAll(cur, e) /\ lock' = lock
    BY <1>2 DEF Teardown
  <2>2. \A p \in Place : \A y \in held'[p] :
          \E x \in held[p] : y = Detach(x, e) /\ y.res = x.res
    BY <2>1, DetachAllFacts
  <2>3. \A y \in Claimed' : \E x \in Claimed : y = Detach(x, e) /\ y.res = x.res
    BY <2>1, DetachAllFacts DEF Claimed
  <2>4. lock' = "idle" => cur' = {}
    BY <2>1, DetachAllFacts DEF ExclusiveInv
  <2>5. ResourceExclusive'
    <3> SUFFICES ASSUME NEW p \in Place, NEW q \in Place,
                        NEW x \in held'[p], NEW y \in held'[q], x.res = y.res
                 PROVE  p = q /\ x = y
      BY DEF ResourceExclusive
    <3>1. PICK x0 \in held[p] : x = Detach(x0, e) /\ x.res = x0.res
      BY <2>2
    <3>2. PICK y0 \in held[q] : y = Detach(y0, e) /\ y.res = y0.res
      BY <2>2
    <3>3. p = q /\ x0 = y0
      BY <3>1, <3>2 DEF ExclusiveInv, ResourceExclusive
    <3> QED BY <3>1, <3>2, <3>3
  <2>6. ClaimsStand'
    <3> SUFFICES ASSUME lock' = "acquire" PROVE
          /\ Distinct(Claimed')
          /\ \A p \in Place : \A x \in Claimed', y \in held'[p] : x.res # y.res
      BY DEF ClaimsStand
    <3>1. /\ Distinct(Claimed)
          /\ \A p \in Place : \A x \in Claimed, y \in held[p] : x.res # y.res
      BY <2>1 DEF ExclusiveInv, ClaimsStand
    <3>2. Distinct(Claimed')
      BY <2>3, <3>1 DEF Distinct
    <3>3. \A p \in Place : \A x \in Claimed', y \in held'[p] : x.res # y.res
      BY <2>2, <2>3, <3>1
    <3> QED BY <3>2, <3>3
  <2> QED BY <2>1, <2>4, <2>5, <2>6 DEF ExclusiveInv
<1> QED BY <1>1, <1>2

(* Everything else leaves the lists and the holder's resources alone.      *)
LEMMA OtherExclusive ==
  ASSUME ExclusiveInv,
         \/ Timeout
         \/ \E p \in Place : AddPlace(p)
         \/ \E e \in Exporter : Receive(e) \/ Unblock(e) \/ ExporterStep(e)
         \/ \E r \in Resource : ResourceStep(r)
         \/ UNCHANGED vars
  PROVE  ExclusiveInv'
<1>1. UNCHANGED <<held, lock, todo, got, cur>>
  BY DEF Timeout, AddPlace, Receive, Unblock, ExporterStep, Connect, Handle,
         HandleStopFails, Crash, ResourceStep, AddResource, PollBreaks,
         PollReports, vars, opVars, placeVars
<1> QED BY <1>1, UnchangedExclusive

(* Every step keeps the invariant.                                         *)
LEMMA NextExclusive == ExclusiveInv /\ [Next]_vars => ExclusiveInv'
BY AcquireExclusive, ReleaseExclusive, SyncExclusive, TeardownExclusive, OtherExclusive
   DEF Next, Request, Proceed, Stream

(* No resource ever belongs to two places: for any number of exporters,    *)
(* resources and places, and whatever fails when.                          *)
THEOREM Exclusive == Spec => []ResourceExclusive
<1>1. Init => ExclusiveInv
  BY InitExclusive
<1>2. ExclusiveInv /\ [Next]_vars => ExclusiveInv'
  BY NextExclusive
<1>3. ExclusiveInv => ResourceExclusive
  BY DEF ExclusiveInv
<1> QED BY <1>1, <1>2, <1>3, PTL DEF Spec

-----------------------------------------------------------------------------
(* An object that is not detached is in its session: whoever looks up its  *)
(* acquired field finds one.                                               *)
Present(S) == \A x \in S : x.kind = "live" => imported[x.res] # Absent

LivePresent ==
  /\ \A p \in Place : Present(held[p])
  /\ Present(todo) /\ Present(got) /\ Present(cur) /\ Present(acqd)
  /\ \A x \in orph : x.kind = "orphan"

(* What the exporter's poll has yet to report is a broken resource.        *)
DirtyIsBroken == \A r \in dirty : xacq[r] = Broken

TypeInv == TypeOK /\ LivePresent /\ DirtyIsBroken

-----------------------------------------------------------------------------
(* The initial state is well-typed.                                        *)
LEMMA InitTypes == Init => TypeInv
<1> SUFFICES ASSUME Init PROVE TypeInv
  OBVIOUS
<1>1. /\ wire \in [Exporter -> Seq(Command)]
      /\ inbox \in [Exporter -> Seq(Update \cup Response)]
      /\ pending \in [Exporter -> Seq(PendingCommand)]
  BY DEF Init
<1>2. place \in [Place -> {"missing", "free", "acquired"}]
  BY DEF Init
<1>3. TypeOK
  BY <1>1, <1>2 DEF Init, TypeOK
<1>4. LivePresent /\ DirtyIsBroken
  BY DEF Init, LivePresent, DirtyIsBroken, Present
<1> QED BY <1>3, <1>4 DEF TypeInv

(* Sending a command: the queues stay well-typed.                          *)
LEMMA SendTypes ==
  ASSUME TypeInv, NEW x \in Ref, NEW to \in Place \cup {None}, Send(x, to)
  PROVE  /\ pending' \in [Exporter -> Seq(PendingCommand)]
         /\ wire' \in [Exporter -> Seq(Command)]
         /\ inbox' = inbox
         /\ cur' = {x}
         /\ wait' = "waiting"
<1> USE ConstantsAssumption
<1> DEFINE e == exporterOf[x.res]
           c == [res |-> x.res, to |-> to]
           d == [res |-> x.res, to |-> to, expired |-> FALSE]
<1>1. e \in Exporter /\ c \in Command /\ d \in PendingCommand
  BY DEF Ref, Command, PendingCommand
<1>2. pending[e] \in Seq(PendingCommand) /\ wire[e] \in Seq(Command)
  BY <1>1 DEF TypeInv, TypeOK
<1>3. Append(pending[e], d) \in Seq(PendingCommand) /\ Append(wire[e], c) \in Seq(Command)
  BY <1>1, <1>2
<1>4. /\ pending' = pending \/ pending' = [pending EXCEPT ![e] = Append(@, d)]
      /\ wire' = wire \/ wire' = [wire EXCEPT ![e] = Append(@, c)]
      /\ inbox' = inbox /\ cur' = {x} /\ wait' = "waiting"
  BY DEF Send
<1> HIDE DEF e, c, d
<1>5. pending' \in [Exporter -> Seq(PendingCommand)]
  <2>1. CASE pending' = pending
    BY <2>1 DEF TypeInv, TypeOK
  <2>2. CASE pending' = [pending EXCEPT ![e] = Append(@, d)]
    BY <2>2, <1>1, <1>3 DEF TypeInv, TypeOK
  <2> QED BY <1>4, <2>1, <2>2
<1>6. wire' \in [Exporter -> Seq(Command)]
  <2>1. CASE wire' = wire
    BY <2>1 DEF TypeInv, TypeOK
  <2>2. CASE wire' = [wire EXCEPT ![e] = Append(@, c)]
    BY <2>2, <1>1, <1>3 DEF TypeInv, TypeOK
  <2> QED BY <1>4, <2>1, <2>2
<1> QED BY <1>4, <1>5, <1>6

(* Detaching a set of references keeps it a set of references, none of     *)
(* them to the exporter's objects.                                         *)
LEMMA DetachTypes ==
  ASSUME TypeInv, NEW e \in Exporter, NEW S \in SUBSET Ref, Present(S)
  PROVE  /\ DetachAll(S, e) \in SUBSET Ref
         /\ \A x \in DetachAll(S, e) :
              x.kind = "live" => exporterOf[x.res] # e /\ imported[x.res] # Absent
<1> SUFFICES ASSUME NEW x \in S
             PROVE  /\ Detach(x, e) \in Ref
                    /\ Detach(x, e).kind = "live" =>
                         /\ exporterOf[Detach(x, e).res] # e
                         /\ imported[Detach(x, e).res] # Absent
  BY DEF DetachAll
<1>1. x \in Ref /\ (x.kind = "live" => imported[x.res] # Absent)
  BY DEF Present
<1>2. imported[x.res] \in Acquirer \cup {Absent}
  BY <1>1 DEF TypeInv, TypeOK, Ref
<1>3. CASE x.kind = "live" /\ exporterOf[x.res] = e
  BY <1>1, <1>2, <1>3 DEF Detach, Ref
<1>4. CASE ~(x.kind = "live" /\ exporterOf[x.res] = e)
  BY <1>1, <1>4 DEF Detach
<1> QED BY <1>3, <1>4

-----------------------------------------------------------------------------
(* The steps of AcquirePlace.                                              *)
LEMMA AcquireTypes ==
  ASSUME TypeInv,
         \/ \E p \in Place, R \in SUBSET Resource : AcquirePlace(p, R)
         \/ AcquireSend \/ AcquireResume \/ AcquireFinish
  PROVE  TypeInv'
<1> USE ConstantsAssumption
<1> USE DEF exporterVars, sessionVars, placeVars, netVars, syncVars, opVars
<1>1. ASSUME NEW p \in Place, NEW R \in SUBSET Resource, AcquirePlace(p, R)
      PROVE  TypeInv'
  <2>1. todo' \in SUBSET Ref /\ Present(todo')
    BY <1>1 DEF AcquirePlace, LiveRef, Ref, Acquirer, Present
  <2> QED BY <1>1, <2>1 DEF AcquirePlace, TypeInv, TypeOK, LivePresent, DirtyIsBroken, Present
<1>2. ASSUME AcquireSend
      PROVE  TypeInv'
  <2>1. PICK x \in todo :
          IF session[exporterOf[x.res]] = "none"
          THEN AcquireFailed /\ UNCHANGED <<netVars, cur, wait>>
          ELSE /\ Send(x, opPlace)
               /\ todo' = todo \ {x}
               /\ UNCHANGED <<lock, got>>
    BY <1>2 DEF AcquireSend
  <2>2. /\ UNCHANGED <<exporterVars, sessionVars, placeVars, syncVars, opPlace, crashes>>
        /\ x \in Ref /\ opPlace \in Place \cup {None} /\ Present({x})
    BY <1>2, <2>1 DEF AcquireSend, TypeInv, TypeOK, LivePresent, Present
  <2>3. CASE session[exporterOf[x.res]] = "none"
    BY <2>1, <2>2, <2>3 DEF AcquireFailed, TypeInv, TypeOK, LivePresent, DirtyIsBroken, Present
  <2>4. CASE session[exporterOf[x.res]] # "none"
    <3>1. /\ pending' \in [Exporter -> Seq(PendingCommand)]
          /\ wire' \in [Exporter -> Seq(Command)]
          /\ inbox' = inbox /\ cur' = {x} /\ wait' = "waiting"
          /\ todo' = todo \ {x} /\ UNCHANGED <<lock, got>>
      BY <2>1, <2>2, <2>4, SendTypes
    <3> QED BY <2>2, <3>1 DEF TypeInv, TypeOK, LivePresent, DirtyIsBroken, Present
  <2> QED BY <2>3, <2>4
<1>3. ASSUME AcquireResume
      PROVE  TypeInv'
  BY <1>3 DEF AcquireResume, AcquireFailed, Awaited, TypeInv, TypeOK, LivePresent,
              DirtyIsBroken, Present
<1>4. ASSUME AcquireFinish
      PROVE  TypeInv'
  <2>1. \A p \in Place : held'[p] = IF p = opPlace THEN held[p] \cup got ELSE held[p]
    BY <1>4 DEF AcquireFinish, TypeInv, TypeOK
  <2>2. held' \in [Place -> SUBSET Ref]
    BY <1>4 DEF AcquireFinish, TypeInv, TypeOK
  <2>3. \A p \in Place : Present(held'[p])
    BY <2>1 DEF TypeInv, LivePresent, Present
  <2> QED BY <1>4, <2>2, <2>3 DEF AcquireFinish, TypeInv, TypeOK, LivePresent,
              DirtyIsBroken, Present
<1> QED BY <1>1, <1>2, <1>3, <1>4

(* The steps of ReleasePlace.                                              *)
LEMMA ReleaseTypes ==
  ASSUME TypeInv,
         \/ \E p \in Place : ReleasePlace(p) \/ AddPlace(p) \/ DeletePlace(p)
         \/ ReleaseSend \/ ReleaseResume \/ ReleaseFinish
  PROVE  TypeInv'
<1> USE ConstantsAssumption
<1> USE DEF exporterVars, sessionVars, placeVars, netVars, syncVars, opVars
<1>1. ASSUME NEW p \in Place, ReleasePlace(p) \/ DeletePlace(p)
      PROVE  TypeInv'
  <2>1. /\ held' = [held EXCEPT ![p] = {}]
        /\ todo' \in {todo, held[p]}
        /\ lock' \in {lock, "release"} /\ opPlace' \in {opPlace, p}
        /\ place' \in {place, [place EXCEPT ![p] = "missing"]}
        /\ UNCHANGED <<exporterVars, sessionVars, netVars, syncVars, got, cur, wait, crashes>>
    BY <1>1 DEF ReleasePlace, DeletePlace
  <2>2. \A q \in Place : held'[q] \subseteq held[q]
    BY <2>1 DEF TypeInv, TypeOK
  <2>3. place' \in [Place -> {"missing", "free", "acquired"}]
    BY <2>1 DEF TypeInv, TypeOK
  <2>4. todo' \in SUBSET Ref /\ Present(todo')
    BY <2>1 DEF TypeInv, TypeOK, LivePresent, Present
  <2>5. TypeOK'
    BY <2>1, <2>3, <2>4 DEF TypeInv, TypeOK
  <2> QED BY <2>1, <2>2, <2>4, <2>5 DEF TypeInv, LivePresent, DirtyIsBroken, Present
<1>2. ASSUME NEW p \in Place, AddPlace(p)
      PROVE  TypeInv'
  BY <1>2 DEF AddPlace, TypeInv, TypeOK, LivePresent, DirtyIsBroken, Present
<1>3. ASSUME ReleaseSend
      PROVE  TypeInv'
  <2>1. PICK x \in todo :
          IF x.kind = "orphan"
          THEN todo' = todo \ {x} /\ UNCHANGED <<lock, opPlace, netVars, cur, wait>>
          ELSE IF session[exporterOf[x.res]] = "none"
          THEN lock' = "idle" /\ opPlace' = None /\ todo' = {} /\ UNCHANGED <<netVars, cur, wait>>
          ELSE Send(x, None) /\ todo' = todo \ {x} /\ UNCHANGED <<lock, opPlace>>
    BY <1>3 DEF ReleaseSend
  <2>2. /\ UNCHANGED <<exporterVars, sessionVars, placeVars, syncVars, got, crashes>>
        /\ x \in Ref /\ Present({x})
    BY <1>3, <2>1 DEF ReleaseSend, TypeInv, TypeOK, LivePresent, Present
  <2>3. CASE x.kind = "orphan" \/ session[exporterOf[x.res]] = "none"
    BY <2>1, <2>2, <2>3 DEF TypeInv, TypeOK, LivePresent, DirtyIsBroken, Present
  <2>4. CASE x.kind # "orphan" /\ session[exporterOf[x.res]] # "none"
    <3>1. /\ pending' \in [Exporter -> Seq(PendingCommand)]
          /\ wire' \in [Exporter -> Seq(Command)]
          /\ inbox' = inbox /\ cur' = {x} /\ wait' = "waiting"
          /\ todo' = todo \ {x} /\ UNCHANGED <<lock, opPlace>>
      BY <2>1, <2>2, <2>4, SendTypes
    <3> QED BY <2>2, <3>1 DEF TypeInv, TypeOK, LivePresent, DirtyIsBroken, Present
  <2> QED BY <2>3, <2>4
<1>4. ASSUME ReleaseResume \/ ReleaseFinish
      PROVE  TypeInv'
  BY <1>4 DEF ReleaseResume, ReleaseFinish, Awaited, TypeInv, TypeOK, LivePresent,
              DirtyIsBroken, Present
<1> QED BY <1>1, <1>2, <1>3, <1>4

(* The steps of _synchronize_resources that send nothing.                  *)
LEMMA SyncTypes ==
  ASSUME TypeInv,
         \/ SyncStart \/ SyncReleaseResume \/ SyncReleaseEnd
         \/ SyncAcquireResume \/ SyncReplace
  PROVE  TypeInv'
<1> USE ConstantsAssumption
<1> USE DEF exporterVars, sessionVars, placeVars, netVars, syncVars, opVars
<1>1. ASSUME SyncStart
      PROVE  TypeInv'
  <2>1. AcquiredRefs \in SUBSET Ref /\ Present(AcquiredRefs)
    BY DEF AcquiredRefs, LiveRef, Ref, Acquirer, Present
  <2>2. Unused \in SUBSET Ref /\ Present(Unused)
    BY <2>1 DEF Unused, Present
  <2>3. Orphans \in SUBSET Ref /\ \A x \in Orphans : x.kind = "orphan"
    BY DEF Orphans, HeldRefs, TypeInv, TypeOK
  <2> QED BY <1>1, <2>1, <2>2, <2>3
          DEF SyncStart, TypeInv, TypeOK, LivePresent, DirtyIsBroken, Present
<1>2. ASSUME SyncReleaseResume
      PROVE  TypeInv'
  BY <1>2 DEF SyncReleaseResume, Elapsed, Awaited, TypeInv, TypeOK, LivePresent,
              DirtyIsBroken, Present
<1>3. ASSUME SyncReleaseEnd
      PROVE  TypeInv'
  BY <1>3 DEF SyncReleaseEnd, TypeInv, TypeOK, LivePresent, DirtyIsBroken, Present
<1>4. ASSUME SyncAcquireResume
      PROVE  TypeInv'
  BY <1>4 DEF SyncAcquireResume, Elapsed, Awaited, TypeInv, TypeOK, LivePresent,
              DirtyIsBroken, Present
<1>5. ASSUME SyncReplace
      PROVE  TypeInv'
  <2>1. PICK S \in SUBSET {x \in ToReplace : Replaceable(x)} :
          held' = [p \in Place |->
                     {IF x \in S THEN Replacement(x.res) ELSE x : x \in held[p]}]
    BY <1>5 DEF SyncReplace
  <2>2. ASSUME NEW x \in S PROVE Replacement(x.res) \in acqd
    <3>1. \E n \in acqd : n.res = x.res
      BY DEF ToReplace, Paths
    <3> QED BY <3>1 DEF Replacement
  <2>3. ASSUME NEW p \in Place, NEW y \in held'[p]
        PROVE  y \in Ref /\ (y.kind = "live" => imported[y.res] # Absent)
    <3>1. y \in acqd \/ y \in held[p]
      BY <2>1, <2>2
    <3> QED BY <3>1 DEF TypeInv, TypeOK, LivePresent, Present
  <2>4. held' \in [Place -> SUBSET Ref]
    BY <2>1, <2>3
  <2>5. TypeOK'
    BY <1>5, <2>4 DEF SyncReplace, SyncOver, TypeInv, TypeOK
  <2> QED BY <1>5, <2>3, <2>5
          DEF SyncReplace, SyncOver, TypeInv, LivePresent, DirtyIsBroken, Present
<1> QED BY <1>1, <1>2, <1>3, <1>4, <1>5

(* The steps of _synchronize_resources that may send a command.            *)
LEMMA SyncSendTypes ==
  ASSUME TypeInv, SyncReleaseAny \/ SyncAcquire
  PROVE  TypeInv'
<1> USE ConstantsAssumption
<1> USE DEF exporterVars, sessionVars, placeVars, netVars, syncVars, opVars
<1>1. ASSUME NEW x \in todo, SyncRelease(x)
      PROVE  TypeInv'
  <2>1. /\ todo' \subseteq todo /\ acqd' \subseteq acqd
        /\ UNCHANGED <<exporterVars, sessionVars, placeVars, late, orph, lock, opPlace, got, crashes>>
        /\ UNCHANGED <<netVars, cur, wait>> \/ Send(x, None)
    <3>1. AcquiredBy(x) \in Acquirer \cup {Absent}
      BY DEF AcquiredBy, TypeInv, TypeOK, Ref
    <3>2. AcquiredBy(x) # Absent
      BY DEF AcquiredBy, TypeInv, TypeOK, Ref, LivePresent, Present, Acquirer
    <3>3. \A q \in Place : place[q] \in {"missing", "free", "acquired"}
      BY DEF TypeInv, TypeOK
    <3> QED BY <1>1, <3>1, <3>2, <3>3 DEF SyncRelease, Acquirer
  <2>2. x \in Ref /\ Present({x})
    BY DEF TypeInv, TypeOK, LivePresent, Present
  <2>3. CASE UNCHANGED <<netVars, cur, wait>>
    BY <2>1, <2>3 DEF TypeInv, TypeOK, LivePresent, DirtyIsBroken, Present
  <2>4. CASE Send(x, None)
    <3>1. /\ pending' \in [Exporter -> Seq(PendingCommand)]
          /\ wire' \in [Exporter -> Seq(Command)]
          /\ inbox' = inbox /\ cur' = {x} /\ wait' = "waiting"
      BY <2>2, <2>4, SendTypes
    <3> QED BY <2>1, <2>2, <3>1 DEF TypeInv, TypeOK, LivePresent, DirtyIsBroken, Present
  <2> QED BY <2>1, <2>3, <2>4
<1>2. ASSUME SyncAcquire
      PROVE  TypeInv'
  <2>1. PICK x \in todo :
          IF x.acq \in Place /\ place[x.acq] # "acquired"
          THEN SyncOver /\ todo' = {} /\ UNCHANGED <<netVars, cur, wait>>
          ELSE /\ todo' = todo \ {x}
               /\ IF x.acq = Broken \/ session[exporterOf[x.res]] = "none"
                       \/ imported[x.res] # None
                  THEN UNCHANGED <<netVars, cur, wait>>
                  ELSE Send(LiveRef(x.res), x.acq)
               /\ UNCHANGED <<lock, syncVars>>
    BY <1>2 DEF SyncAcquire
  <2>2. /\ UNCHANGED <<exporterVars, sessionVars, placeVars, opPlace, got, crashes>>
        /\ x \in Ref
    BY <1>2, <2>1 DEF SyncAcquire, TypeInv, TypeOK
  <2>3. CASE UNCHANGED <<netVars, cur, wait>>
    BY <2>1, <2>2, <2>3 DEF SyncOver, TypeInv, TypeOK, LivePresent, DirtyIsBroken, Present
  <2>4. CASE ~UNCHANGED <<netVars, cur, wait>>
    <3>1. /\ Send(LiveRef(x.res), x.acq) /\ x.acq # Broken /\ imported[x.res] = None
          /\ todo' = todo \ {x} /\ UNCHANGED <<lock, syncVars>>
      BY <2>1, <2>4
    <3>2. LiveRef(x.res) \in Ref /\ x.acq \in Place \cup {None}
      BY <2>2, <3>1 DEF LiveRef, Ref, Acquirer
    <3>3. Present({LiveRef(x.res)})
      BY <3>1 DEF LiveRef, Present
    <3>4. /\ pending' \in [Exporter -> Seq(PendingCommand)]
          /\ wire' \in [Exporter -> Seq(Command)]
          /\ inbox' = inbox /\ cur' = {LiveRef(x.res)} /\ wait' = "waiting"
      BY <3>1, <3>2, SendTypes
    <3> QED BY <2>2, <3>1, <3>2, <3>3, <3>4
            DEF TypeInv, TypeOK, LivePresent, DirtyIsBroken, Present
  <2> QED BY <2>3, <2>4
<1> QED BY <1>1, <1>2 DEF SyncReleaseAny

(* Marking a command as expired keeps the pending commands well-typed.     *)
LEMMA ExpiredTypes ==
  ASSUME TypeInv, NEW x \in Ref
  PROVE  Expired(x) \in [Exporter -> Seq(PendingCommand)]
<1> USE ConstantsAssumption
<1> DEFINE e == exporterOf[x.res]
           s == pending[e]
<1>1. e \in Exporter /\ s \in Seq(PendingCommand)
  BY DEF TypeInv, TypeOK, Ref
<1>2. CASE s = <<>>
  BY <1>2 DEF Expired, TypeInv, TypeOK
<1>3. CASE s # <<>>
  <2> DEFINE t == [s EXCEPT ![Len(s)].expired = TRUE]
  <2>1. Len(s) \in 1..Len(s) /\ s[Len(s)] \in PendingCommand
    BY <1>1, <1>3
  <2>2. [s[Len(s)] EXCEPT !.expired = TRUE] \in PendingCommand
    BY <2>1 DEF PendingCommand
  <2>3. t \in Seq(PendingCommand)
    BY <1>1, <2>1, <2>2
  <2>4. Expired(x) = [pending EXCEPT ![e] = t]
    BY <1>3 DEF Expired
  <2> HIDE DEF t, e
  <2> QED BY <1>1, <2>3, <2>4 DEF TypeInv, TypeOK
<1> QED BY <1>2, <1>3

(* The awaited command times out, or its handler is cancelled.             *)
LEMMA TimeoutTypes ==
  ASSUME TypeInv, Timeout \/ Cancel
  PROVE  TypeInv'
<1> USE ConstantsAssumption
<1> USE DEF exporterVars, sessionVars, placeVars, netVars, syncVars, opVars
<1>1. PICK x \in cur : pending' \in {pending, Expired(x)}
  BY DEF Timeout, Cancel
<1>2. pending' \in [Exporter -> Seq(PendingCommand)]
  BY <1>1, ExpiredTypes DEF TypeInv, TypeOK
<1>3. CASE Timeout
  BY <1>2, <1>3 DEF Timeout, TypeInv, TypeOK, LivePresent, DirtyIsBroken, Present
<1>4. CASE Cancel
  BY <1>2, <1>4 DEF Cancel, Awaited, TypeInv, TypeOK, LivePresent, DirtyIsBroken, Present
<1> QED BY <1>3, <1>4

-----------------------------------------------------------------------------
(* The end of a stream: every reference to an object of the exporter is    *)
(* detached in the same step in which the object leaves its session.       *)
LEMMA TeardownTypes ==
  ASSUME TypeInv, NEW e \in Exporter, Teardown(e)
  PROVE  TypeInv'
<1> USE ConstantsAssumption
<1> USE DEF exporterVars, sessionVars, placeVars, netVars, syncVars, opVars
<1>1. /\ blocked' \in [Exporter -> Resource \cup {None}]
      /\ inbox' \in [Exporter -> Seq(Update \cup Response)]
      /\ pending' \in [Exporter -> Seq(PendingCommand)]
      /\ session' \in [Exporter -> {"none", "open", "zombie"}]
      /\ UNCHANGED <<exporterVars, place, wire, late, orph, lock, opPlace, wait, crashes>>
  <2>1. /\ blocked' = [blocked EXCEPT ![e] = None]
        /\ inbox' = [inbox EXCEPT ![e] = <<>>]
        /\ pending' = [pending EXCEPT ![e] = <<>>]
        /\ \E s \in {"none", "zombie"} : session' = [session EXCEPT ![e] = s]
        /\ UNCHANGED <<exporterVars, place, wire, late, orph, lock, opPlace, wait, crashes>>
    BY DEF Teardown
  <2>2. blocked' \in [Exporter -> Resource \cup {None}]
    BY <2>1 DEF TypeInv, TypeOK
  <2>3. /\ inbox' \in [Exporter -> Seq(Update \cup Response)]
        /\ pending' \in [Exporter -> Seq(PendingCommand)]
    BY <2>1 DEF TypeInv, TypeOK
  <2>4. session' \in [Exporter -> {"none", "open", "zombie"}]
    BY <2>1 DEF TypeInv, TypeOK
  <2> QED BY <2>1, <2>2, <2>3, <2>4
<1>2. CASE blocked[e] # None
  BY <1>1, <1>2 DEF Teardown, TypeInv, TypeOK, LivePresent, DirtyIsBroken, Present
<1>3. CASE blocked[e] = None
  <2>1. /\ imported' = [r \in Resource |-> IF r \in Of(e) THEN Absent ELSE imported[r]]
        /\ held' = [p \in Place |-> DetachAll(held[p], e)]
        /\ todo' = DetachAll(todo, e) /\ got' = DetachAll(got, e)
        /\ cur' = DetachAll(cur, e) /\ acqd' = DetachAll(acqd, e)
    BY <1>3 DEF Teardown
  <2>2. ASSUME NEW S \in SUBSET Ref, Present(S)
        PROVE  /\ DetachAll(S, e) \in SUBSET Ref
               /\ \A x \in DetachAll(S, e) : x.kind = "live" => imported'[x.res] # Absent
    <3>1. /\ DetachAll(S, e) \in SUBSET Ref
          /\ \A x \in DetachAll(S, e) :
               x.kind = "live" => exporterOf[x.res] # e /\ imported[x.res] # Absent
      BY <2>2, DetachTypes
    <3> QED BY <2>1, <3>1 DEF Of, Ref
  <2>3. /\ \A p \in Place : held[p] \in SUBSET Ref /\ Present(held[p])
        /\ todo \in SUBSET Ref /\ Present(todo)
        /\ got \in SUBSET Ref /\ Present(got)
        /\ cur \in SUBSET Ref /\ Present(cur)
        /\ acqd \in SUBSET Ref /\ Present(acqd)
    BY DEF TypeInv, TypeOK, LivePresent
  <2>4. /\ held' \in [Place -> SUBSET Ref]
        /\ todo' \in SUBSET Ref /\ got' \in SUBSET Ref
        /\ cur' \in SUBSET Ref /\ acqd' \in SUBSET Ref
    BY <2>1, <2>2, <2>3
  <2>5. imported' \in [Resource -> Acquirer \cup {Absent}]
    BY <2>1 DEF TypeInv, TypeOK
  <2>6. TypeOK'
    BY <1>1, <2>4, <2>5 DEF TypeInv, TypeOK
  <2>7. LivePresent'
    <3>1. \A p \in Place : Present(held[p])'
      BY <2>1, <2>2, <2>3 DEF Present
    <3>2. Present(todo)' /\ Present(got)' /\ Present(cur)' /\ Present(acqd)'
      BY <2>1, <2>2, <2>3 DEF Present
    <3> QED BY <1>1, <3>1, <3>2 DEF TypeInv, LivePresent
  <2> QED BY <1>1, <2>6, <2>7 DEF TypeInv, DirtyIsBroken
<1> QED BY <1>2, <1>3

(* The messages from an exporter.                                          *)
LEMMA ReceiveTypes ==
  ASSUME TypeInv, NEW e \in Exporter, Receive(e) \/ Unblock(e)
  PROVE  TypeInv'
<1> USE ConstantsAssumption
<1> USE DEF exporterVars, sessionVars, placeVars, netVars, syncVars, opVars
<1>1. \A r \in Resource : WithDefaultPlace(r) \in [Place -> {"missing", "free", "acquired"}]
  BY DEF WithDefaultPlace, TypeInv, TypeOK
<1>2. ASSUME Unblock(e)
      PROVE  TypeInv'
  <2>1. blocked[e] \in Resource
    BY <1>2 DEF Unblock, TypeInv, TypeOK
  <2>2. place' \in [Place -> {"missing", "free", "acquired"}]
    BY <1>1, <1>2, <2>1 DEF Unblock
  <2> QED BY <1>2, <2>2 DEF Unblock, TypeInv, TypeOK, LivePresent, DirtyIsBroken, Present
<1>3. ASSUME Receive(e)
      PROVE  TypeInv'
  <2> DEFINE m == Head(inbox[e])
  <2>1. inbox[e] \in Seq(Update \cup Response) /\ inbox[e] # <<>>
    BY <1>3 DEF Receive, TypeInv, TypeOK
  <2>2. m \in Update \cup Response /\ Tail(inbox[e]) \in Seq(Update \cup Response)
    BY <2>1
  <2>3. inbox' \in [Exporter -> Seq(Update \cup Response)]
    BY <1>3, <2>2 DEF Receive, TypeInv, TypeOK
  <2>4. UNCHANGED <<exporterVars, session, held, wire, syncVars,
                    lock, opPlace, todo, got, cur, crashes>>
    BY <1>3 DEF Receive
  <2>5. CASE ReceiveUpdate(e)
    <3>1. m \in Update
      BY <2>2, <2>5 DEF ReceiveUpdate, Update, Response
    <3>2. m.res \in Resource /\ m.acq \in Acquirer /\ m.acq # Absent
      BY <3>1 DEF Update, Acquirer
    <3>3. imported' = [imported EXCEPT ![m.res] = m.acq]
      BY <2>5 DEF ReceiveUpdate
    <3>4. /\ imported' \in [Resource -> Acquirer \cup {Absent}]
          /\ \A r \in Resource : imported[r] # Absent => imported'[r] # Absent
      BY <3>2, <3>3 DEF TypeInv, TypeOK
    <3>5. UNCHANGED <<pending, wait>>
      BY <2>5 DEF ReceiveUpdate
    <3>8. place' \in [Place -> {"missing", "free", "acquired"}]
      <4>1. place' = place \/ place' = WithDefaultPlace(m.res)
        BY <2>5 DEF ReceiveUpdate
      <4> QED BY <1>1, <3>2, <4>1 DEF TypeInv, TypeOK
    <3>9. blocked' \in [Exporter -> Resource \cup {None}]
      <4>1. blocked' = blocked \/ blocked' = [blocked EXCEPT ![e] = m.res]
        BY <2>5 DEF ReceiveUpdate
      <4> QED BY <3>2, <4>1 DEF TypeInv, TypeOK
    <3>6. TypeOK'
      BY <2>3, <2>4, <3>4, <3>5, <3>8, <3>9 DEF TypeInv, TypeOK
    <3>7. LivePresent'
      BY <2>4, <3>4 DEF TypeInv, TypeOK, LivePresent, Present, Ref
    <3> QED BY <2>4, <3>6, <3>7 DEF TypeInv, DirtyIsBroken
  <2>6. CASE ReceiveResponse(e)
    <3>1. pending[e] \in Seq(PendingCommand) /\ pending[e] # <<>>
      BY <2>6 DEF ReceiveResponse, TypeInv, TypeOK
    <3>2. Tail(pending[e]) \in Seq(PendingCommand)
      BY <3>1
    <3>3. pending' \in [Exporter -> Seq(PendingCommand)]
      BY <2>6, <3>2 DEF ReceiveResponse, TypeInv, TypeOK
    <3>4. wait' \in {wait, "ok", "failed"} /\ UNCHANGED <<imported, place, blocked>>
      BY <2>6 DEF ReceiveResponse
    <3> QED BY <2>3, <2>4, <3>3, <3>4
            DEF TypeInv, TypeOK, LivePresent, DirtyIsBroken, Present
  <2> QED BY <1>3, <2>5, <2>6 DEF Receive
<1> QED BY <1>2, <1>3

-----------------------------------------------------------------------------
(* An answer keeps the inbox well-typed.                                   *)
LEMMA AnswerTypes ==
  ASSUME TypeInv, NEW e \in Exporter, NEW c \in Command,
         NEW a \in Acquirer \cup {Absent}, NEW ok \in BOOLEAN, Answer(e, c, a, ok)
  PROVE  inbox' \in [Exporter -> Seq(Update \cup Response)]
<1> DEFINE M == Update \cup Response
           u == IF a = Absent THEN <<>> ELSE <<Updated(c.res, a)>>
           d == [kind |-> "resp", res |-> c.res, to |-> c.to, ok |-> ok]
           t == (inbox[e] \o u) \o <<d>>
<1>1. inbox[e] \in Seq(M)
  BY DEF TypeInv, TypeOK
<1>2. a # Absent => Updated(c.res, a) \in M
  BY DEF Updated, Update, Command
<1>3. d \in M
  BY DEF Response, Command
<1>4. inbox' = [inbox EXCEPT ![e] = t]
  BY DEF Answer
<1>5. u \in Seq(M) /\ <<d>> \in Seq(M)
  <2> HIDE DEF M, d
  <2> QED BY <1>2, <1>3
<1>6. t \in Seq(M)
  <2> HIDE DEF M, u, d
  <2> QED BY <1>1, <1>5
<1> HIDE DEF t, M
<1>7. inbox' \in [Exporter -> Seq(M)]
  BY <1>4, <1>6 DEF TypeInv, TypeOK, M
<1> QED BY <1>7 DEF M

(* The steps of an exporter.                                               *)
LEMMA ExporterTypes ==
  ASSUME TypeInv, NEW e \in Exporter, ExporterStep(e)
  PROVE  TypeInv'
<1> USE ConstantsAssumption
<1> USE DEF exporterVars, sessionVars, placeVars, netVars, syncVars, opVars
<1>1. ASSUME Connect(e)
      PROVE  TypeInv'
  BY <1>1 DEF Connect, TypeInv, TypeOK, LivePresent, DirtyIsBroken, Present
<1>2. ASSUME Gone(e)
      PROVE  /\ link' \in [Exporter -> {"up", "down"}]
             /\ xacq' \in [Resource -> Acquirer \cup {Absent}]
             /\ dirty' \in SUBSET Resource
             /\ wire' \in [Exporter -> Seq(Command)]
             /\ \A r \in dirty' : xacq'[r] = Broken
  BY <1>2 DEF Gone, TypeInv, TypeOK, DirtyIsBroken
<1>3. ASSUME Crash(e)
      PROVE  TypeInv'
  <2>1. Gone(e) /\ crashes' = crashes + 1
        /\ UNCHANGED <<sessionVars, placeVars, inbox, pending, syncVars, opVars>>
    BY <1>3 DEF Crash
  <2> QED BY <1>2, <2>1 DEF TypeInv, TypeOK, LivePresent, DirtyIsBroken, Present
<1>4. ASSUME wire[e] # <<>>
      PROVE  Head(wire[e]) \in Command /\ Tail(wire[e]) \in Seq(Command)
  BY <1>4 DEF TypeInv, TypeOK
<1>5. ASSUME HandleStopFails(e)
      PROVE  TypeInv'
  <2>1. /\ Gone(e) /\ crashes' = crashes + 1 /\ wire[e] # <<>>
        /\ Answer(e, Head(wire[e]), Broken, FALSE)
        /\ UNCHANGED <<sessionVars, placeVars, pending, syncVars, opVars>>
    BY <1>5 DEF HandleStopFails
  <2>2. inbox' \in [Exporter -> Seq(Update \cup Response)]
    <3>1. Broken \in Acquirer \cup {Absent} /\ FALSE \in BOOLEAN
      BY DEF Acquirer
    <3> QED BY <1>4, <2>1, <3>1, AnswerTypes
  <2>3. TypeOK'
    BY <1>2, <2>1, <2>2 DEF TypeInv, TypeOK
  <2>4. LivePresent'
    BY <2>1 DEF TypeInv, LivePresent, Present
  <2>5. DirtyIsBroken'
    BY <1>2, <2>1 DEF DirtyIsBroken
  <2> QED BY <2>3, <2>4, <2>5 DEF TypeInv
<1>6. ASSUME Handle(e)
      PROVE  TypeInv'
  <2> DEFINE c == Head(wire[e])
  <2>1. /\ wire[e] # <<>>
        /\ HandleAcquire(e, c) \/ HandleRelease(e, c)
        /\ wire' = [wire EXCEPT ![e] = Tail(@)]
        /\ UNCHANGED <<sessionVars, placeVars, pending, syncVars, opVars, crashes>>
    BY <1>6 DEF Handle
  <2>2. c \in Command /\ wire' \in [Exporter -> Seq(Command)]
    BY <1>4, <2>1 DEF TypeInv, TypeOK
  <2> HIDE DEF c
  <2>3. xacq[c.res] \in Acquirer \cup {Absent} /\ c.res \in Resource /\ c.to \in Place \cup {None}
    BY <2>2 DEF Command, TypeInv, TypeOK
  <2>4. /\ UNCHANGED <<link, dirty>>
        /\ \E a \in Acquirer \cup {Absent} : Answer(e, c, a, TRUE) \/ Answer(e, c, a, FALSE)
        /\ \/ UNCHANGED xacq
           \/ /\ xacq[c.res] # Broken
              /\ \E v \in Acquirer : xacq' = [xacq EXCEPT ![c.res] = v]
    <3>1. CASE HandleAcquire(e, c)
      BY <2>3, <3>1 DEF HandleAcquire, Acquirer
    <3>2. CASE HandleRelease(e, c)
      BY <2>3, <3>2 DEF HandleRelease, Acquirer
    <3> QED BY <2>1, <3>1, <3>2
  <2>5. inbox' \in [Exporter -> Seq(Update \cup Response)]
    <3>1. PICK a \in Acquirer \cup {Absent} : Answer(e, c, a, TRUE) \/ Answer(e, c, a, FALSE)
      BY <2>4
    <3> QED BY <2>2, <3>1, AnswerTypes
  <2>6. xacq' \in [Resource -> Acquirer \cup {Absent}] /\ DirtyIsBroken'
    <3>1. CASE UNCHANGED xacq
      BY <2>4, <3>1 DEF TypeInv, TypeOK, DirtyIsBroken
    <3>2. CASE ~UNCHANGED xacq
      <4>1. PICK v \in Acquirer : xacq' = [xacq EXCEPT ![c.res] = v]
        BY <2>4, <3>2
      <4>2. c.res \notin dirty
        BY <2>4, <3>2 DEF TypeInv, DirtyIsBroken
      <4>3. xacq' \in [Resource -> Acquirer \cup {Absent}]
        BY <4>1 DEF TypeInv, TypeOK
      <4>4. \A r \in dirty : xacq'[r] = Broken
        BY <4>1, <4>2 DEF TypeInv, TypeOK, DirtyIsBroken
      <4> QED BY <2>4, <4>3, <4>4 DEF DirtyIsBroken
    <3> QED BY <3>1, <3>2
  <2> QED BY <2>1, <2>2, <2>4, <2>5, <2>6 DEF TypeInv, TypeOK, LivePresent, Present
<1> QED BY <1>1, <1>3, <1>5, <1>6 DEF ExporterStep

(* The steps of a resource of an exporter.                                 *)
LEMMA ResourceTypes ==
  ASSUME TypeInv, NEW r \in Resource, ResourceStep(r)
  PROVE  TypeInv'
<1> USE ConstantsAssumption
<1> USE DEF exporterVars, sessionVars, placeVars, netVars, syncVars, opVars
<1> DEFINE M == Update \cup Response
           e == exporterOf[r]
<1>1. ASSUME NEW a \in Acquirer, inbox' = [inbox EXCEPT ![e] = Append(@, Updated(r, a))]
      PROVE  inbox' \in [Exporter -> Seq(M)]
  <2>1. Updated(r, a) \in M
    BY DEF Updated, Update
  <2>2. e \in Exporter /\ inbox \in [Exporter -> Seq(M)] /\ inbox[e] \in Seq(M)
    BY DEF TypeInv, TypeOK
  <2> HIDE DEF e, M
  <2>3. Append(inbox[e], Updated(r, a)) \in Seq(M)
    BY <2>1, <2>2
  <2> QED BY <1>1, <2>2, <2>3
<1>2. ASSUME AddResource(r)
      PROVE  TypeInv'
  <2>1. inbox' \in [Exporter -> Seq(M)]
    BY <1>1, <1>2 DEF AddResource, Acquirer
  <2>2. xacq' \in [Resource -> Acquirer \cup {Absent}] /\ DirtyIsBroken'
    BY <1>2 DEF AddResource, TypeInv, TypeOK, DirtyIsBroken, Acquirer
  <2> QED BY <1>2, <2>1, <2>2 DEF AddResource, TypeInv, TypeOK, LivePresent, Present
<1>3. ASSUME PollBreaks(r)
      PROVE  TypeInv'
  <2>1. xacq' \in [Resource -> Acquirer \cup {Absent}] /\ DirtyIsBroken'
    BY <1>3 DEF PollBreaks, TypeInv, TypeOK, DirtyIsBroken, Acquirer
  <2> QED BY <1>3, <2>1 DEF PollBreaks, TypeInv, TypeOK, LivePresent, Present
<1>4. ASSUME PollReports(r)
      PROVE  TypeInv'
  <2>1. xacq[r] = Broken /\ Broken \in Acquirer
    BY <1>4 DEF PollReports, TypeInv, DirtyIsBroken, Acquirer
  <2>2. inbox' \in [Exporter -> Seq(M)]
    BY <1>1, <1>4, <2>1 DEF PollReports
  <2> QED BY <1>4, <2>2 DEF PollReports, TypeInv, TypeOK, LivePresent, DirtyIsBroken, Present
<1> QED BY <1>2, <1>3, <1>4 DEF ResourceStep

-----------------------------------------------------------------------------
(* Every step keeps the invariant.                                         *)
LEMMA NextTypes == TypeInv /\ [Next]_vars => TypeInv'
<1> SUFFICES ASSUME TypeInv, [Next]_vars PROVE TypeInv'
  OBVIOUS
<1>1. CASE UNCHANGED vars
  BY <1>1 DEF vars, exporterVars, sessionVars, placeVars, netVars, syncVars, opVars,
              TypeInv, TypeOK, LivePresent, DirtyIsBroken, Present
<1>2. ASSUME NEW p \in Place, Request(p)
      PROVE  TypeInv'
  BY <1>2, AcquireTypes, ReleaseTypes DEF Request
<1>3. CASE SyncStart \/ Proceed \/ Timeout \/ Cancel
  BY <1>3, AcquireTypes, ReleaseTypes, SyncTypes, SyncSendTypes, TimeoutTypes DEF Proceed
<1>4. ASSUME NEW e \in Exporter, Stream(e) \/ ExporterStep(e)
      PROVE  TypeInv'
  BY <1>4, ReceiveTypes, TeardownTypes, ExporterTypes DEF Stream
<1>5. ASSUME NEW r \in Resource, ResourceStep(r)
      PROVE  TypeInv'
  BY <1>5, ResourceTypes
<1> QED BY <1>1, <1>2, <1>3, <1>4, <1>5 DEF Next

(* The state of the coordinator and of the exporters stays well-typed; in  *)
(* particular no reference the coordinator follows leads to a resource     *)
(* that is no longer there.                                                *)
THEOREM TypeCorrect == Spec => [](TypeOK /\ LivePresent)
<1>1. TypeInv => TypeOK /\ LivePresent
  BY DEF TypeInv
<1> QED BY <1>1, InitTypes, NextTypes, PTL DEF Spec

-----------------------------------------------------------------------------
(* Between AcquirePlace and the end of its loop, and between the first     *)
(* step of a release and its last, the place is locked and has nothing.    *)
LockInv ==
  /\ HeldOnlyWhenAcquired
  /\ lock \in {"acquire", "release"} =>
       opPlace \in Place /\ place[opPlace] = "acquired" /\ held[opPlace] = {}

(* The inductive invariant of the refinement.                              *)
Inv == TypeInv /\ ExclusiveInv /\ LockInv

-----------------------------------------------------------------------------
(* In the initial state no place has anything.                             *)
LEMMA InitLock == Init => LockInv /\ RL!Init
<1> SUFFICES ASSUME Init PROVE LockInv /\ RL!Init
  OBVIOUS
<1>1. Lists = [p \in Place |-> {}]
  BY DEF Init, Lists, Paths
<1> QED BY <1>1 DEF Init, LockInv, HeldOnlyWhenAcquired, RL!Init

(* Most steps touch neither a place nor a list; the lock may be given back *)
(* or pass from acquiring to releasing what was acquired.                  *)
LEMMA QuietStep ==
  ASSUME LockInv, UNCHANGED <<place, held>>,
         lock' \in {"acquire", "release"} =>
           lock \in {"acquire", "release"} /\ opPlace' = opPlace
  PROVE  LockInv' /\ UNCHANGED RL!vars
BY DEF LockInv, HeldOnlyWhenAcquired, RL!vars, Lists

(* The name of the place that an AcquirePlace or ReleasePlace works for is *)
(* written down when it begins, and its list is filled in one step.        *)
LEMMA AcquireStep ==
  ASSUME Inv,
         \/ \E p \in Place, R \in SUBSET Resource : AcquirePlace(p, R)
         \/ AcquireSend \/ AcquireResume \/ AcquireFinish
  PROVE  LockInv' /\ [RL!Next]_(RL!vars)
<1>1. ASSUME NEW p \in Place, NEW R \in SUBSET Resource, AcquirePlace(p, R)
      PROVE  LockInv' /\ RL!Lock(p)
  <2>1. /\ place[p] = "free" /\ place' = [place EXCEPT ![p] = "acquired"]
        /\ held' = held /\ lock' = "acquire" /\ opPlace' = p
    BY <1>1 DEF AcquirePlace
  <2>2. place \in [Place -> {"missing", "free", "acquired"}]
    BY DEF Inv, TypeInv, TypeOK
  <2>3. held[p] = {}
    BY <2>1 DEF Inv, LockInv, HeldOnlyWhenAcquired
  <2>4. Lists' = Lists
    BY <2>1 DEF Lists
  <2> QED BY <2>1, <2>2, <2>3, <2>4 DEF Inv, LockInv, HeldOnlyWhenAcquired, RL!Lock
<1>2. ASSUME AcquireSend \/ AcquireResume
      PROVE  LockInv' /\ UNCHANGED RL!vars
  <2>1. /\ UNCHANGED <<place, held, opPlace>>
        /\ lock = "acquire"
    BY <1>2 DEF AcquireSend, AcquireResume, placeVars
  <2> QED BY <2>1, QuietStep DEF Inv
<1>3. ASSUME AcquireFinish
      PROVE  LockInv' /\ RL!Grant(opPlace, Paths(got)) /\ opPlace \in Place
             /\ Paths(got) \in SUBSET Resource
  <2>1. /\ lock = "acquire" /\ lock' = "idle" /\ place' = place
        /\ held' = [held EXCEPT ![opPlace] = @ \cup got]
    BY <1>3 DEF AcquireFinish
  <2>2. /\ opPlace \in Place /\ place[opPlace] = "acquired" /\ held[opPlace] = {}
        /\ held \in [Place -> SUBSET Ref] /\ got \in SUBSET Ref
    BY <2>1 DEF Inv, LockInv, TypeInv, TypeOK
  <2>3. \A q \in Place : held'[q] = IF q = opPlace THEN got ELSE held[q]
    BY <2>1, <2>2
  <2>4. Lists' = [Lists EXCEPT ![opPlace] = Paths(got)]
    BY <2>2, <2>3 DEF Lists
  <2>5. \A q \in Place : Lists[q] \cap Paths(got) = {}
    BY <2>1 DEF Inv, ExclusiveInv, ClaimsStand, Claimed, Lists, Paths
  <2>6. Lists[opPlace] = {}
    BY <2>2 DEF Lists, Paths
  <2>7. Paths(got) \in SUBSET Resource
    BY <2>2 DEF Paths, Ref
  <2>8. LockInv'
    BY <2>1, <2>2, <2>3 DEF Inv, LockInv, HeldOnlyWhenAcquired
  <2> QED BY <2>1, <2>2, <2>4, <2>5, <2>6, <2>7, <2>8 DEF RL!Grant
<1> QED BY <1>1, <1>2, <1>3 DEF RL!Next

(* A release takes back everything in its first step, and frees the place  *)
(* in its last.                                                            *)
LEMMA ReleaseStep ==
  ASSUME Inv,
         \/ \E p \in Place : ReleasePlace(p) \/ AddPlace(p) \/ DeletePlace(p)
         \/ ReleaseSend \/ ReleaseResume \/ ReleaseFinish \/ Cancel \/ Timeout
  PROVE  LockInv' /\ [RL!Next]_(RL!vars)
<1> USE DEF Inv
<1>0. /\ place \in [Place -> {"missing", "free", "acquired"}]
      /\ held \in [Place -> SUBSET Ref]
  BY DEF TypeInv, TypeOK
<1>1. ASSUME NEW p \in Place, held' = [held EXCEPT ![p] = {}]
      PROVE  Lists' = [Lists EXCEPT ![p] = {}]
  <2>1. \A q \in Place : held'[q] = IF q = p THEN {} ELSE held[q]
    BY <1>0, <1>1
  <2> QED BY <2>1 DEF Lists, Paths
<1>2. ASSUME NEW p \in Place, ReleasePlace(p)
      PROVE  LockInv' /\ RL!TakeBack(p)
  <2>1. /\ place[p] = "acquired" /\ place' = place
        /\ held' = [held EXCEPT ![p] = {}]
        /\ lock' = "release" /\ opPlace' = p
    BY <1>2 DEF ReleasePlace
  <2> QED BY <1>0, <1>1, <2>1 DEF LockInv, HeldOnlyWhenAcquired, RL!TakeBack
<1>3. ASSUME NEW p \in Place, DeletePlace(p)
      PROVE  LockInv' /\ RL!Delete(p)
  <2>1. /\ place[p] # "missing" /\ place' = [place EXCEPT ![p] = "missing"]
        /\ held' = [held EXCEPT ![p] = {}]
        /\ lock' = "idle"
    BY <1>3 DEF DeletePlace, LockFree, opVars
  <2> QED BY <1>0, <1>1, <2>1 DEF LockInv, HeldOnlyWhenAcquired, RL!Delete
<1>4. ASSUME NEW p \in Place, AddPlace(p)
      PROVE  LockInv' /\ RL!Add(p)
  <2>1. /\ place[p] = "missing" /\ place' = [place EXCEPT ![p] = "free"]
        /\ held' = held /\ lock' = "idle"
    BY <1>4 DEF AddPlace, LockFree, opVars
  <2>2. Lists' = Lists
    BY <2>1 DEF Lists
  <2> QED BY <1>0, <2>1, <2>2 DEF LockInv, HeldOnlyWhenAcquired, RL!Add
<1>5. ASSUME ReleaseSend \/ ReleaseResume \/ Cancel \/ Timeout
      PROVE  LockInv' /\ UNCHANGED RL!vars
  <2>1. /\ UNCHANGED <<place, held>>
        /\ lock' \in {"acquire", "release"} => lock' = lock /\ opPlace' = opPlace
    BY <1>5 DEF ReleaseSend, ReleaseResume, Cancel, Timeout, placeVars
  <2> QED BY <2>1, QuietStep
<1>6. ASSUME ReleaseFinish
      PROVE  LockInv' /\ RL!Unlock(opPlace) /\ opPlace \in Place
  <2>1. /\ lock = "release" /\ lock' = "idle" /\ held' = held
        /\ place' = [place EXCEPT ![opPlace] = "free"]
    BY <1>6 DEF ReleaseFinish
  <2>2. opPlace \in Place /\ place[opPlace] = "acquired" /\ held[opPlace] = {}
    BY <2>1 DEF LockInv
  <2>3. Lists' = Lists /\ Lists[opPlace] = {}
    BY <2>1, <2>2 DEF Lists, Paths
  <2> QED BY <1>0, <2>1, <2>2, <2>3 DEF LockInv, HeldOnlyWhenAcquired, RL!Unlock
<1> QED BY <1>2, <1>3, <1>4, <1>5, <1>6 DEF RL!Next

(* Replacing an orphan by the new object of its resource is not visible.   *)
LEMMA SyncStep ==
  ASSUME Inv,
         \/ SyncStart \/ SyncReleaseAny \/ SyncReleaseResume \/ SyncReleaseEnd
         \/ SyncAcquire \/ SyncAcquireResume \/ SyncReplace
  PROVE  LockInv' /\ UNCHANGED RL!vars
<1>1. CASE \/ SyncStart \/ SyncReleaseAny \/ SyncReleaseResume \/ SyncReleaseEnd
           \/ SyncAcquire \/ SyncAcquireResume
  <2>1. UNCHANGED <<place, held>> /\ lock' \notin {"acquire", "release"}
    BY <1>1 DEF SyncStart, SyncReleaseAny, SyncRelease, SyncReleaseResume,
                SyncReleaseEnd, SyncAcquire, SyncAcquireResume, SyncOver, placeVars
  <2> QED BY <2>1, QuietStep DEF Inv
<1>2. CASE SyncReplace
  <2>1. PICK S \in SUBSET {x \in ToReplace : Replaceable(x)} :
          held' = [p \in Place |->
                     {IF x \in S THEN Replacement(x.res) ELSE x : x \in held[p]}]
    BY <1>2 DEF SyncReplace
  <2>2. lock' = "idle" /\ place' = place
    BY <1>2 DEF SyncReplace, SyncOver
  <2> DEFINE New(x) == IF x \in S THEN Replacement(x.res) ELSE x
  <2>3. ASSUME NEW x PROVE New(x).res = x.res
    <3>1. CASE x \in S
      <4>1. \E n \in acqd : n.res = x.res
        BY <3>1 DEF ToReplace, Paths
      <4>2. Replacement(x.res).res = x.res
        BY <4>1 DEF Replacement
      <4> QED BY <3>1, <4>2
    <3>2. CASE x \notin S
      BY <3>2
    <3> QED BY <3>1, <3>2
  <2>4. \A p \in Place : held'[p] = {New(x) : x \in held[p]}
    BY <2>1
  <2> HIDE DEF New
  <2>5. \A p \in Place : Paths(held[p])' = Paths(held[p])
    <3> SUFFICES ASSUME NEW p \in Place
                 PROVE  {y.res : y \in held'[p]} = {x.res : x \in held[p]}
      BY DEF Paths
    <3> QED BY <2>3, <2>4
  <2>6. Lists' = Lists
    BY <2>5 DEF Lists
  <2>7. \A p \in Place : held'[p] # {} => held[p] # {}
    BY <2>4
  <2> QED BY <2>2, <2>6, <2>7 DEF Inv, LockInv, HeldOnlyWhenAcquired, RL!vars
<1> QED BY <1>1, <1>2

(* Neither is the end of a stream: an object becomes an orphan, but the    *)
(* place keeps the resource.                                               *)
LEMMA TeardownStep ==
  ASSUME Inv, NEW e \in Exporter, Teardown(e)
  PROVE  LockInv' /\ UNCHANGED RL!vars
<1>1. UNCHANGED <<place, lock, opPlace>>
  BY DEF Teardown
<1>2. CASE blocked[e] # None
  <2>1. held' = held
    BY <1>2 DEF Teardown
  <2> QED BY <1>1, <2>1, QuietStep DEF Inv
<1>3. CASE blocked[e] = None
  <2>1. \A p \in Place : held'[p] = {Detach(x, e) : x \in held[p]}
    BY <1>3 DEF Teardown, DetachAll
  <2>2. \A x : Detach(x, e).res = x.res
    BY DetachKeepsResource
  <2>3. \A p \in Place : Paths(held[p])' = Paths(held[p])
    <3> SUFFICES ASSUME NEW p \in Place
                 PROVE  {y.res : y \in held'[p]} = {x.res : x \in held[p]}
      BY DEF Paths
    <3> QED BY <2>1, <2>2
  <2>4. Lists' = Lists
    BY <2>3 DEF Lists
  <2>5. \A p \in Place : held'[p] = {} <=> held[p] = {}
    BY <2>1
  <2> QED BY <1>1, <2>4, <2>5 DEF Inv, LockInv, HeldOnlyWhenAcquired, RL!vars
<1> QED BY <1>2, <1>3

(* The group of a resource that is new may name a place that does not      *)
(* exist: it is added.                                                     *)
LEMMA DefaultPlaceStep ==
  ASSUME Inv, NEW r \in Resource, place' = WithDefaultPlace(r), UNCHANGED <<held, lock, opPlace>>
  PROVE  LockInv' /\ [RL!Next]_(RL!vars)
<1>0. place \in [Place -> {"missing", "free", "acquired"}]
  BY DEF Inv, TypeInv, TypeOK
<1>1. Lists' = Lists
  BY DEF Lists
<1>2. \A p \in Place : place'[p] = IF p = defaultPlace[r] /\ place[p] = "missing"
                                   THEN "free" ELSE place[p]
  BY DEF WithDefaultPlace
<1>3. LockInv'
  BY <1>2 DEF Inv, LockInv, HeldOnlyWhenAcquired
<1>4. CASE defaultPlace[r] \in Place /\ place[defaultPlace[r]] = "missing"
  <2>1. place' = [place EXCEPT ![defaultPlace[r]] = "free"]
    BY <1>0, <1>4 DEF WithDefaultPlace
  <2>2. RL!Add(defaultPlace[r])
    BY <1>1, <1>4, <2>1 DEF RL!Add
  <2> QED BY <1>3, <1>4, <2>2 DEF RL!Next
<1>5. CASE ~(defaultPlace[r] \in Place /\ place[defaultPlace[r]] = "missing")
  <2>1. place' = place
    BY <1>0, <1>5 DEF WithDefaultPlace
  <2> QED BY <1>1, <1>3, <2>1 DEF RL!vars
<1> QED BY <1>4, <1>5

(* The streams.                                                            *)
LEMMA StreamStep ==
  ASSUME Inv, NEW e \in Exporter, Stream(e)
  PROVE  LockInv' /\ [RL!Next]_(RL!vars)
<1>1. CASE Teardown(e)
  BY <1>1, TeardownStep
<1>2. CASE Unblock(e)
  <2>1. /\ blocked[e] \in Resource
        /\ place' = WithDefaultPlace(blocked[e]) /\ UNCHANGED <<held, lock, opPlace>>
    BY <1>2 DEF Unblock, opVars, Inv, TypeInv, TypeOK
  <2> QED BY <2>1, DefaultPlaceStep
<1>3. CASE Receive(e)
  <2>1. UNCHANGED <<held, lock, opPlace>>
    BY <1>3 DEF Receive
  <2>2. CASE ReceiveResponse(e)
    BY <2>1, <2>2, QuietStep DEF ReceiveResponse, Inv
  <2>3. CASE ReceiveUpdate(e)
    <3>1. Head(inbox[e]) \in Update \cup Response
      <4>1. inbox[e] \in Seq(Update \cup Response) /\ inbox[e] # <<>>
        BY <1>3 DEF Receive, Inv, TypeInv, TypeOK
      <4> QED BY <4>1
    <3>2. Head(inbox[e]).res \in Resource
      BY <3>1 DEF Update, Response
    <3>3. place' = place \/ place' = WithDefaultPlace(Head(inbox[e]).res)
      BY <2>3 DEF ReceiveUpdate
    <3> QED BY <2>1, <3>2, <3>3, QuietStep, DefaultPlaceStep DEF Inv
  <2> QED BY <1>3, <2>2, <2>3 DEF Receive
<1> QED BY <1>1, <1>2, <1>3 DEF Stream

(* The exporters.                                                          *)
LEMMA ExporterSideStep ==
  ASSUME Inv,
         \/ \E e \in Exporter : ExporterStep(e)
         \/ \E r \in Resource : ResourceStep(r)
         \/ UNCHANGED vars
  PROVE  LockInv' /\ UNCHANGED RL!vars
<1>1. UNCHANGED <<place, held, lock, opPlace>>
  BY DEF ExporterStep, Connect, Handle, HandleStopFails, Crash, ResourceStep,
         AddResource, PollBreaks, PollReports, vars, opVars, placeVars
<1> QED BY <1>1, QuietStep DEF Inv

(* Every step of the coordinator and its exporters is a step of the lock,  *)
(* or none, and keeps the invariant.                                       *)
LEMMA NextLock == Inv /\ [Next]_vars => Inv' /\ [RL!Next]_(RL!vars)
<1> SUFFICES ASSUME Inv, [Next]_vars PROVE Inv' /\ [RL!Next]_(RL!vars)
  OBVIOUS
<1>1. TypeInv' /\ ExclusiveInv'
  BY NextTypes, NextExclusive DEF Inv
<1>2. LockInv' /\ [RL!Next]_(RL!vars)
  BY AcquireStep, ReleaseStep, SyncStep, StreamStep, ExporterSideStep
     DEF Next, Request, Proceed
<1> QED BY <1>1, <1>2 DEF Inv

(* The coordinator implements the lock: a place gets all its resources in  *)
(* one step and loses them in one step, whatever fails in between.         *)
THEOREM Refines == Spec => ImplementsResourceLock
<1>1. Init => Inv /\ RL!Init
  BY InitTypes, InitExclusive, InitLock DEF Inv
<1>2. Inv /\ [Next]_vars => Inv' /\ [RL!Next]_(RL!vars)
  BY NextLock
<1> QED BY <1>1, <1>2, PTL DEF Spec, ImplementsResourceLock, RL!Spec

(* A place that nobody has acquired has no resources.                      *)
THEOREM OnlyAcquiredHold == Spec => []HeldOnlyWhenAcquired
<1>1. Init => Inv
  BY InitTypes, InitExclusive, InitLock DEF Inv
<1>2. Inv => HeldOnlyWhenAcquired
  BY DEF Inv, LockInv
<1> QED BY <1>1, <1>2, NextLock, PTL DEF Spec
-----------------------------------------------------------------------------
(***************************************************************************)
(* What the coordinator believes about the resources of a place, against   *)
(* what the exporters have recorded and the messages that are still under  *)
(* way: proofs for all values of the constants that the two agree.         *)
(***************************************************************************)

(* Without a process nothing is sent or recorded, and only an open session *)
(* has messages.                                                           *)
LinkInv ==
  \A e \in Exporter :
    /\ link[e] = "up" => session[e] = "open"
    /\ link[e] = "down" => wire[e] = <<>> /\ \A r \in Of(e) : xacq[r] = Absent
    /\ session[e] # "open" => pending[e] = <<>> /\ inbox[e] = <<>>
    /\ session[e] = "none" => \A r \in Of(e) : imported[r] = Absent

(* The messages of s are about resources of exporter e.                    *)
AboutOwn(s, e) == \A i \in 1..Len(s) : exporterOf[s[i].res] = e

StreamInv ==
  \A e \in Exporter :
    /\ AboutOwn(pending[e], e) /\ AboutOwn(wire[e], e) /\ AboutOwn(inbox[e], e)
    /\ InOrder(inbox[e], wire[e], pending[e], link[e] = "up")

(* A command that has not expired is the last one sent, and the holder of  *)
(* the lock still waits for it.                                            *)
Fresh(pend) ==
  \A i \in 1..Len(pend) : ~pend[i].expired =>
    /\ i = Len(pend) /\ wait = "waiting"
    /\ \E x \in cur : cur = {x} /\ x.res = pend[i].res
    /\ lock = "acquire" => pend[i].to = opPlace

FreshInv == \A e \in Exporter : Fresh(pending[e])

(* m reports that r is acquired for p, or broken.                          *)
IsUpdate(m, r) == m.kind = "upd" /\ m.res = r
Taken(m, r, p) == IsUpdate(m, r) /\ m.acq \in {p, Broken}

(* If response i of box is the last one under way and grants a resource,   *)
(* the update to it goes just before (or is the last message read), and    *)
(* the exporter has not released it since.                                 *)
Grants(box, i) ==
  /\ box[i].kind = "resp" /\ box[i].ok /\ box[i].to # None
  /\ \A j \in RespAt(box) : j =< i

Granted(box, connected, imp, rec) ==
  \A i \in 1..Len(box) : Grants(box, i) =>
    /\ i = 1 => imp[box[i].res] = box[i].to
    /\ i > 1 => box[i - 1] = Updated(box[i].res, box[i].to)
    /\ \A j \in 1..Len(box) :
         (j > i /\ IsUpdate(box[j], box[i].res)) => box[j].acq \in {box[i].to, Broken}
    /\ connected => rec[box[i].res] \in {box[i].to, Broken}

GrantInv == \A e \in Exporter : Granted(inbox[e], link[e] = "up", imported, xacq)

(* The commands of s to resource r are to acquire it for p.                *)
Told(s, r, p) == \A i \in 1..Len(s) : s[i].res = r => s[i].to = p

(* Once r is acquired for p (or broken) for the coordinator, or in one of  *)
(* the updates under way, it is so in all later ones, and for the          *)
(* exporter: v is what the coordinator knows, rec what the exporter does.  *)
Chain(v, box, connected, rec, r, p) ==
  /\ \A j \in 1..Len(box) :
       (IsUpdate(box[j], r) /\ (v \in {p, Broken} \/ \E i \in 1..Len(box) : i < j /\ Taken(box[i], r, p)))
         => box[j].acq \in {p, Broken}
  /\ (connected /\ (v \in {p, Broken} \/ \E i \in 1..Len(box) : Taken(box[i], r, p)))
       => rec \in {p, Broken}

(* Place p may lay claim to r: nobody but p acquires it, and nothing under *)
(* way releases it.                                                        *)
Claim(r, p) ==
  LET e == exporterOf[r] IN
  /\ Told(pending[e], r, p) /\ Told(wire[e], r, p)
  /\ Chain(imported[r], inbox[e], link[e] = "up", xacq[r], r, p)

Owned(x, p) ==
  /\ x.kind # "dead" /\ AcquiredBy(x) \in {p, Broken}
  /\ Claim(x.res, p)

(* An exporter has come back while somebody has the lock: no answer of its *)
(* is read before the lock is free, for its first update waits for it.     *)
Reborn(r) ==
  LET e == exporterOf[r] IN
  imported[r] = Absent \/ blocked[e] # None \/ session[e] = "zombie"

HeldInv == \A p \in Place : \A x \in held[p] : Owned(x, p)

AcquireInv ==
  lock = "acquire" =>
    /\ \A x \in got : Owned(x, opPlace)
    /\ wait = "ok" => \A x \in cur : Owned(x, opPlace)
    /\ \A x \in todo \cup cur : x.kind # "live" => Reborn(x.res)

ReleaseInv ==
  lock = "release" =>
    /\ \A x \in todo : Owned(x, opPlace)
    /\ Distinct(todo)
    /\ \A p \in Place : \A x \in todo, y \in held[p] : x.res # y.res

SyncInv ==
  /\ lock = "sync_release" => \A x \in todo : x.res \notin Paths(HeldRefs)
  /\ lock = "sync_acquire" => todo \subseteq orph
  /\ lock \in {"sync_release", "sync_acquire"} =>
       /\ orph \subseteq Orphans
       /\ \A x \in acqd \cup cur \cup todo : x.kind = "dead" => x.acq = None

NetInv == LinkInv /\ StreamInv /\ GrantInv
HolderInv == AcquireInv /\ ReleaseInv /\ SyncInv

(* The inductive invariant of the agreement.                               *)
MsgInv == Inv /\ NetInv /\ FreshInv /\ HeldInv /\ HolderInv

-----------------------------------------------------------------------------
(* What follows about Matched, Granted and Chain speaks of any sequences   *)
(* of messages and commands.                                               *)

(* The rest of a sequence after its head.                                  *)
LEMMA TailAt ==
  ASSUME NEW M, NEW s \in Seq(M), s # <<>>
  PROVE  /\ Tail(s) \in Seq(M) /\ Len(s) \in Nat /\ Len(s) > 0
         /\ Len(Tail(s)) = Len(s) - 1
         /\ Head(s) = s[1]
         /\ \A i \in 1..Len(Tail(s)) : i + 1 \in 1..Len(s) /\ Tail(s)[i] = s[i + 1]
OBVIOUS

(* A sequence with one more element.                                       *)
LEMMA AppendAt ==
  ASSUME NEW M, NEW s \in Seq(M), NEW m \in M
  PROVE  /\ Append(s, m) \in Seq(M) /\ Len(s) \in Nat
         /\ Len(Append(s, m)) = Len(s) + 1
         /\ Append(s, m)[Len(s) + 1] = m
         /\ \A i \in 1..Len(s) : Append(s, m)[i] = s[i]
OBVIOUS

(* A command is sent over a connection.                                    *)
LEMMA MatchedSend ==
  ASSUME NEW M, NEW C, NEW D, NEW box \in Seq(M), NEW wr \in Seq(C), NEW pend \in Seq(D),
         NEW c \in C, NEW d \in D, Same(c, d), InOrder(box, wr, pend, TRUE)
  PROVE  InOrder(box, Append(wr, c), Append(pend, d), TRUE)
<1>1. PICK n \in 0..Len(pend) : \E pos \in [1..n -> RespAt(box)] : Matched(box, wr, pend, TRUE, n, pos)
  BY DEF InOrder
<1>2. PICK pos \in [1..n -> RespAt(box)] : Matched(box, wr, pend, TRUE, n, pos)
  BY <1>1
<1> DEFINE w == Append(wr, c)
           q == Append(pend, d)
<1>3. /\ Len(w) = Len(wr) + 1 /\ w[Len(wr) + 1] = c /\ Len(wr) \in Nat
      /\ \A i \in 1..Len(wr) : w[i] = wr[i]
  BY AppendAt
<1>4. /\ Len(q) = Len(pend) + 1 /\ q[Len(pend) + 1] = d /\ Len(pend) \in Nat
      /\ \A i \in 1..Len(pend) : q[i] = pend[i]
  BY AppendAt
<1> HIDE DEF w, q
<1>5. n + Len(wr) = Len(pend)
  BY <1>2 DEF Matched
<1>6. \A i \in 1..n : Same(box[pos[i]], q[i])
  <2>1. \A i \in 1..n : i \in 1..Len(pend) /\ q[i] = pend[i]
    BY <1>4
  <2> QED BY <1>2, <2>1 DEF Matched
<1>7. \A i \in 1..Len(w) : Same(w[i], q[n + i])
  <2> SUFFICES ASSUME NEW i \in 1..Len(w) PROVE Same(w[i], q[n + i])
    OBVIOUS
  <2>1. CASE i = Len(wr) + 1
    BY <2>1, <1>3, <1>4, <1>5
  <2>2. CASE i # Len(wr) + 1
    <3>1. i \in 1..Len(wr) /\ n + i \in 1..Len(pend)
      BY <2>2, <1>3, <1>5
    <3> QED BY <3>1, <1>2, <1>3, <1>4 DEF Matched
  <2> QED BY <2>1, <2>2
<1>8. Matched(box, w, q, TRUE, n, pos)
  BY <1>2, <1>3, <1>4, <1>5, <1>6, <1>7 DEF Matched
<1>9. n \in 0..Len(q)
  BY <1>4
<1>10. InOrder(box, w, q, TRUE)
  BY <1>8, <1>9 DEF InOrder
<1> QED BY <1>10 DEF w, q

(* A command is sent to an exporter that is gone.                          *)
LEMMA MatchedLost ==
  ASSUME NEW M, NEW D, NEW box \in Seq(M), NEW pend \in Seq(D), NEW d \in D,
         InOrder(box, <<>>, pend, FALSE)
  PROVE  InOrder(box, <<>>, Append(pend, d), FALSE)
<1>1. PICK n \in 0..Len(pend) : \E pos \in [1..n -> RespAt(box)] : Matched(box, <<>>, pend, FALSE, n, pos)
  BY DEF InOrder
<1>2. PICK pos \in [1..n -> RespAt(box)] : Matched(box, <<>>, pend, FALSE, n, pos)
  BY <1>1
<1> DEFINE q == Append(pend, d)
<1>4. /\ Len(q) = Len(pend) + 1 /\ Len(pend) \in Nat
      /\ \A i \in 1..Len(pend) : q[i] = pend[i]
  BY AppendAt
<1> HIDE DEF q
<1>5. Matched(box, <<>>, q, FALSE, n, pos) /\ n \in 0..Len(q)
  BY <1>2, <1>4 DEF Matched
<1>6. InOrder(box, <<>>, q, FALSE)
  BY <1>5 DEF InOrder
<1> QED BY <1>6 DEF q

(* A command expires.                                                      *)
LEMMA MatchedExpire ==
  ASSUME NEW box, NEW wr, NEW pend, NEW q, NEW connected, Len(q) = Len(pend),
         \A i \in 1..Len(pend) : q[i].res = pend[i].res /\ q[i].to = pend[i].to,
         Len(pend) \in Nat, Len(wr) \in Nat, InOrder(box, wr, pend, connected)
  PROVE  InOrder(box, wr, q, connected)
<1>1. PICK n \in 0..Len(pend) : \E pos \in [1..n -> RespAt(box)] : Matched(box, wr, pend, connected, n, pos)
  BY DEF InOrder
<1>2. PICK pos \in [1..n -> RespAt(box)] : Matched(box, wr, pend, connected, n, pos)
  BY <1>1
<1>3. \A i \in 1..n : i \in 1..Len(pend)
  OBVIOUS
<1>4. \A i \in 1..Len(wr) : n + i \in 1..Len(pend)
  BY <1>2 DEF Matched
<1>5. Matched(box, wr, q, connected, n, pos)
  BY <1>2, <1>3, <1>4 DEF Matched, Same
<1> QED BY <1>5 DEF InOrder

(* An update is read.                                                      *)
LEMMA MatchedUpdate ==
  ASSUME NEW M, NEW box \in Seq(M), NEW wr, NEW pend, NEW connected, box # <<>>,
         Head(box).kind # "resp", Len(pend) \in Nat, InOrder(box, wr, pend, connected)
  PROVE  InOrder(Tail(box), wr, pend, connected)
<1>1. PICK n \in 0..Len(pend) : \E pos \in [1..n -> RespAt(box)] : Matched(box, wr, pend, connected, n, pos)
  BY DEF InOrder
<1>2. PICK pos \in [1..n -> RespAt(box)] : Matched(box, wr, pend, connected, n, pos)
  BY <1>1
<1> DEFINE b == Tail(box)
           f == [i \in 1..n |-> pos[i] - 1]
<1>3. /\ Len(box) \in Nat /\ Len(box) > 0 /\ Len(b) = Len(box) - 1 /\ Head(box) = box[1]
      /\ \A i \in 1..Len(b) : i + 1 \in 1..Len(box) /\ b[i] = box[i + 1]
  BY TailAt
<1> HIDE DEF b
<1>4. ASSUME NEW i \in 1..n
      PROVE  /\ pos[i] \in 2..Len(box) /\ f[i] = pos[i] - 1 /\ f[i] \in 1..Len(b)
             /\ b[f[i]] = box[pos[i]] /\ f[i] \in RespAt(b)
  <2>1. pos[i] \in 1..Len(box) /\ box[pos[i]].kind = "resp"
    BY DEF RespAt
  <2>2. pos[i] \in 2..Len(box) /\ f[i] = pos[i] - 1 /\ f[i] \in 1..Len(b)
    BY <1>3, <2>1
  <2>3. b[f[i]] = box[pos[i]]
    BY <1>3, <2>2
  <2> QED BY <2>1, <2>2, <2>3 DEF RespAt
<1>5. \A i, j \in 1..n : i < j => f[i] < f[j]
  <2> SUFFICES ASSUME NEW i \in 1..n, NEW j \in 1..n, i < j
               PROVE  f[i] < f[j]
    OBVIOUS
  <2>1. pos[i] < pos[j]
    BY <1>2 DEF Matched
  <2>2. /\ pos[i] \in 2..Len(box) /\ f[i] = pos[i] - 1
        /\ pos[j] \in 2..Len(box) /\ f[j] = pos[j] - 1
    BY <1>4
  <2> HIDE DEF f
  <2> QED BY <2>1, <2>2
<1>6. ASSUME NEW k \in RespAt(b)
      PROVE  \E i \in 1..n : f[i] = k
  <2>0. k \in 1..Len(b) /\ b[k].kind = "resp"
    BY DEF RespAt
  <2>1. k \in Int /\ k + 1 \in 1..Len(box) /\ box[k + 1].kind = "resp"
    BY <1>3, <2>0
  <2>2. k + 1 \in RespAt(box)
    BY <2>1 DEF RespAt
  <2>3. PICK i \in 1..n : pos[i] = k + 1
    BY <1>2, <2>2 DEF Matched
  <2>4. f[i] = k
    BY <2>1, <2>3, <1>4
  <2> QED BY <2>4
<1>7. f \in [1..n -> RespAt(b)]
  BY <1>4
<1>8. \A i \in 1..n : Same(b[f[i]], pend[i])
  BY <1>2, <1>4 DEF Matched
<1> HIDE DEF f
<1>9. Matched(b, wr, pend, connected, n, f)
  BY <1>2, <1>5, <1>6, <1>8 DEF Matched
<1>10. InOrder(b, wr, pend, connected)
  BY <1>7, <1>9 DEF InOrder
<1> QED BY <1>10 DEF b

(* A response is read: it answers the first command that is expected.      *)
LEMMA MatchedResponse ==
  ASSUME NEW M, NEW D, NEW box \in Seq(M), NEW wr, NEW pend \in Seq(D), NEW connected,
         box # <<>>, Head(box).kind = "resp", Len(wr) \in Nat,
         InOrder(box, wr, pend, connected)
  PROVE  /\ pend # <<>> /\ Same(Head(box), Head(pend))
         /\ InOrder(Tail(box), wr, Tail(pend), connected)
         /\ Len(pend) = 1 => RespAt(box) = {1} /\ Len(wr) = 0
<1>1. PICK n \in 0..Len(pend) : \E pos \in [1..n -> RespAt(box)] : Matched(box, wr, pend, connected, n, pos)
  BY DEF InOrder
<1>2. PICK pos \in [1..n -> RespAt(box)] : Matched(box, wr, pend, connected, n, pos)
  BY <1>1
<1> DEFINE b == Tail(box)
           q == Tail(pend)
           f == [i \in 1..(n - 1) |-> pos[i + 1] - 1]
<1>3. /\ Len(box) \in Nat /\ Len(box) > 0 /\ Len(b) = Len(box) - 1 /\ Head(box) = box[1]
      /\ \A i \in 1..Len(b) : i + 1 \in 1..Len(box) /\ b[i] = box[i + 1]
  BY TailAt
<1>4. 1 \in RespAt(box)
  BY <1>3 DEF RespAt
<1>5. n \in Nat /\ n >= 1 /\ pos[1] = 1 /\ Len(pend) \in Nat /\ Len(pend) >= n
  <2>1. PICK i \in 1..n : pos[i] = 1
    BY <1>2, <1>4 DEF Matched
  <2>2. n >= 1 /\ n \in Nat /\ Len(pend) \in Nat /\ Len(pend) >= n
    OBVIOUS
  <2>3. pos[1] \in 1..Len(box)
    BY <2>2 DEF RespAt
  <2>4. i > 1 => pos[1] < 1
    BY <1>2, <2>1, <2>2 DEF Matched
  <2> QED BY <2>1, <2>2, <2>3, <2>4
<1>6. pend # <<>>
  BY <1>5
<1>7. /\ Len(q) = Len(pend) - 1 /\ Head(pend) = pend[1]
      /\ \A i \in 1..Len(q) : i + 1 \in 1..Len(pend) /\ q[i] = pend[i + 1]
  BY <1>6, TailAt
<1> HIDE DEF b, q
<1>8. ASSUME NEW i \in 1..(n - 1)
      PROVE  /\ i + 1 \in 1..n /\ pos[i + 1] \in 2..Len(box) /\ f[i] = pos[i + 1] - 1
             /\ f[i] \in RespAt(b) /\ b[f[i]] = box[pos[i + 1]]
             /\ q[i] = pend[i + 1]
  <2>1. i + 1 \in 1..n /\ 1 \in 1..n /\ 1 < i + 1
    BY <1>5
  <2>2. pos[i + 1] \in 1..Len(box) /\ box[pos[i + 1]].kind = "resp"
    BY <2>1 DEF RespAt
  <2>3. pos[1] < pos[i + 1]
    BY <1>2, <2>1 DEF Matched
  <2>4. pos[i + 1] \in 2..Len(box) /\ f[i] = pos[i + 1] - 1 /\ f[i] \in 1..Len(b)
    BY <1>3, <1>5, <2>2, <2>3
  <2>5. b[f[i]] = box[pos[i + 1]]
    BY <1>3, <2>4
  <2>6. q[i] = pend[i + 1]
    BY <1>5, <1>7
  <2> QED BY <2>1, <2>2, <2>4, <2>5, <2>6 DEF RespAt
<1>9. f \in [1..(n - 1) -> RespAt(b)]
  BY <1>8
<1>10. \A i, j \in 1..(n - 1) : i < j => f[i] < f[j]
  <2> SUFFICES ASSUME NEW i \in 1..(n - 1), NEW j \in 1..(n - 1), i < j
               PROVE  f[i] < f[j]
    OBVIOUS
  <2>1. pos[i + 1] < pos[j + 1]
    <3>1. i + 1 \in 1..n /\ j + 1 \in 1..n /\ i + 1 < j + 1
      BY <1>5
    <3> QED BY <1>2, <3>1 DEF Matched
  <2>2. /\ f[i] = pos[i + 1] - 1 /\ pos[i + 1] \in 2..Len(box)
        /\ f[j] = pos[j + 1] - 1 /\ pos[j + 1] \in 2..Len(box)
    BY <1>8
  <2> HIDE DEF f
  <2> QED BY <1>3, <2>1, <2>2
<1>11. ASSUME NEW k \in RespAt(b)
       PROVE  \E i \in 1..(n - 1) : f[i] = k
  <2>0. k \in 1..Len(b) /\ b[k].kind = "resp"
    BY DEF RespAt
  <2>1. k + 1 \in RespAt(box) /\ k \in Int /\ k >= 1
    BY <1>3, <2>0 DEF RespAt
  <2>2. PICK i \in 1..n : pos[i] = k + 1
    BY <1>2, <2>1 DEF Matched
  <2>3. i - 1 \in 1..(n - 1)
    BY <1>5, <2>1, <2>2
  <2>4. f[i - 1] = pos[(i - 1) + 1] - 1
    BY <2>3, <1>8
  <2>5. f[i - 1] = k
    <3> HIDE DEF f
    <3> QED BY <2>1, <2>2, <2>4
  <2> QED BY <2>3, <2>5
<1>12. \A i \in 1..(n - 1) : Same(b[f[i]], q[i])
  BY <1>2, <1>8 DEF Matched
<1>13. ASSUME NEW i \in 1..Len(wr)
       PROVE  Same(wr[i], q[(n - 1) + i])
  <2>1. Same(wr[i], pend[n + i]) /\ n + Len(wr) =< Len(pend)
    BY <1>2 DEF Matched
  <2>2. (n - 1) + i \in 1..Len(q) /\ ((n - 1) + i) + 1 = n + i
    BY <1>5, <1>7, <2>1
  <2>3. q[(n - 1) + i] = pend[n + i]
    BY <1>7, <2>2
  <2> QED BY <2>1, <2>3
<1> HIDE DEF f
<1>14. Matched(b, wr, q, connected, n - 1, f)
  BY <1>2, <1>5, <1>7, <1>10, <1>11, <1>12, <1>13 DEF Matched
<1>15. InOrder(b, wr, q, connected)
  <2>1. n - 1 \in 0..Len(q)
    BY <1>5, <1>7
  <2> QED BY <2>1, <1>9, <1>14 DEF InOrder
<1>16. Same(Head(box), Head(pend))
  <2>1. 1 \in 1..n
    BY <1>5
  <2> QED BY <2>1, <1>2, <1>3, <1>5, <1>7 DEF Matched
<1>17. ASSUME Len(pend) = 1
       PROVE  RespAt(box) = {1} /\ Len(wr) = 0
  <2>1. n = 1 /\ Len(wr) = 0
    BY <1>2, <1>5, <1>17 DEF Matched
  <2>2. \A k \in RespAt(box) : k = 1
    BY <1>2, <1>5, <2>1 DEF Matched
  <2> QED BY <1>4, <2>1, <2>2
<1> QED BY <1>6, <1>15, <1>16, <1>17 DEF b, q

(* The exporter sends an update.                                           *)
LEMMA MatchedNews ==
  ASSUME NEW M, NEW box \in Seq(M), NEW m \in M, NEW wr, NEW pend, NEW connected,
         m.kind # "resp", InOrder(box, wr, pend, connected)
  PROVE  InOrder(Append(box, m), wr, pend, connected)
<1>1. PICK n \in 0..Len(pend) : \E pos \in [1..n -> RespAt(box)] : Matched(box, wr, pend, connected, n, pos)
  BY DEF InOrder
<1>2. PICK pos \in [1..n -> RespAt(box)] : Matched(box, wr, pend, connected, n, pos)
  BY <1>1
<1> DEFINE b == Append(box, m)
<1>3. /\ Len(b) = Len(box) + 1 /\ Len(box) \in Nat /\ b[Len(box) + 1] = m
      /\ \A i \in 1..Len(box) : b[i] = box[i]
  BY AppendAt
<1> HIDE DEF b
<1>4. RespAt(b) = RespAt(box)
  <2>1. ASSUME NEW k \in RespAt(b)
        PROVE  k \in RespAt(box)
    <3>1. k \in 1..Len(b) /\ b[k].kind = "resp"
      BY DEF RespAt
    <3>2. k # Len(box) + 1
      BY <1>3, <3>1
    <3>3. k \in 1..Len(box)
      BY <1>3, <3>1, <3>2
    <3> QED BY <1>3, <3>1, <3>3 DEF RespAt
  <2>2. ASSUME NEW k \in RespAt(box)
        PROVE  k \in RespAt(b)
    <3>1. k \in 1..Len(box) /\ box[k].kind = "resp"
      BY DEF RespAt
    <3> QED BY <1>3, <3>1 DEF RespAt
  <2> QED BY <2>1, <2>2
<1>5. \A i \in 1..n : b[pos[i]] = box[pos[i]]
  BY <1>3 DEF RespAt
<1>6. Matched(b, wr, pend, connected, n, pos)
  BY <1>2, <1>4, <1>5 DEF Matched
<1>7. InOrder(b, wr, pend, connected)
  BY <1>4, <1>6 DEF InOrder
<1> QED BY <1>7 DEF b

(* The exporter answers the command at the head of its queue.              *)
LEMMA MatchedAnswer ==
  ASSUME NEW M, NEW C, NEW box \in Seq(M), NEW m \in M, NEW wr \in Seq(C), NEW pend,
         NEW connected, Len(pend) \in Nat,
         wr # <<>>, m.kind = "resp", Same(m, Head(wr)), InOrder(box, wr, pend, connected)
  PROVE  InOrder(Append(box, m), Tail(wr), pend, connected)
<1>1. PICK n \in 0..Len(pend) : \E pos \in [1..n -> RespAt(box)] : Matched(box, wr, pend, connected, n, pos)
  BY DEF InOrder
<1>2. PICK pos \in [1..n -> RespAt(box)] : Matched(box, wr, pend, connected, n, pos)
  BY <1>1
<1> DEFINE b == Append(box, m)
           w == Tail(wr)
           f == [i \in 1..(n + 1) |-> IF i = n + 1 THEN Len(box) + 1 ELSE pos[i]]
<1>3. /\ Len(b) = Len(box) + 1 /\ Len(box) \in Nat /\ b[Len(box) + 1] = m
      /\ \A i \in 1..Len(box) : b[i] = box[i]
  BY AppendAt
<1>4. /\ Len(wr) \in Nat /\ Len(wr) > 0 /\ Len(w) = Len(wr) - 1 /\ Head(wr) = wr[1]
      /\ \A i \in 1..Len(w) : i + 1 \in 1..Len(wr) /\ w[i] = wr[i + 1]
  BY TailAt
<1> HIDE DEF b, w
<1>5. /\ n \in Nat /\ n + Len(wr) =< Len(pend)
      /\ connected => n + Len(wr) = Len(pend)
  BY <1>2 DEF Matched
<1>6. ASSUME NEW i \in 1..n
      PROVE  /\ i \in 1..(n + 1) /\ f[i] = pos[i] /\ pos[i] \in 1..Len(box)
             /\ b[f[i]] = box[pos[i]] /\ f[i] \in RespAt(b)
  <2>1. pos[i] \in 1..Len(box) /\ box[pos[i]].kind = "resp"
    BY DEF RespAt
  <2>2. i \in 1..(n + 1) /\ f[i] = pos[i]
    BY <1>5
  <2>3. b[f[i]] = box[pos[i]]
    BY <1>3, <2>1, <2>2
  <2>4. f[i] \in 1..Len(b)
    BY <1>3, <2>1, <2>2
  <2> QED BY <2>1, <2>2, <2>3, <2>4 DEF RespAt
<1>7. /\ n + 1 \in 1..(n + 1) /\ f[n + 1] = Len(box) + 1
      /\ b[f[n + 1]] = m /\ f[n + 1] \in RespAt(b)
  BY <1>3, <1>5 DEF RespAt
<1>8. \A i \in 1..(n + 1) : i = n + 1 \/ i \in 1..n
  BY <1>5
<1>9. f \in [1..(n + 1) -> RespAt(b)]
  BY <1>6, <1>7, <1>8
<1> HIDE DEF f
<1>10. ASSUME NEW i \in 1..(n + 1), NEW j \in 1..(n + 1), i < j
       PROVE  f[i] < f[j]
  <2>1. i \in 1..n
    BY <1>5, <1>8, <1>10
  <2>2. CASE j \in 1..n
    BY <1>2, <1>6, <1>10, <2>1, <2>2 DEF Matched
  <2>3. CASE j = n + 1
    BY <1>3, <1>6, <1>7, <2>1, <2>3
  <2> QED BY <1>8, <2>2, <2>3
<1>11. ASSUME NEW k \in RespAt(b)
       PROVE  \E i \in 1..(n + 1) : f[i] = k
  <2>1. k \in 1..Len(b) /\ b[k].kind = "resp"
    BY DEF RespAt
  <2>2. CASE k = Len(box) + 1
    BY <2>2, <1>7
  <2>3. CASE k # Len(box) + 1
    <3>1. k \in 1..Len(box)
      BY <1>3, <2>1, <2>3
    <3>2. k \in RespAt(box)
      BY <1>3, <2>1, <3>1 DEF RespAt
    <3>3. PICK i \in 1..n : pos[i] = k
      BY <1>2, <3>2 DEF Matched
    <3> QED BY <3>3, <1>6
  <2> QED BY <2>2, <2>3
<1>12. ASSUME NEW i \in 1..(n + 1)
       PROVE  Same(b[f[i]], pend[i])
  <2>1. CASE i \in 1..n
    BY <1>2, <1>6, <2>1 DEF Matched
  <2>2. CASE i = n + 1
    <3>1. 1 \in 1..Len(wr)
      BY <1>4
    <3>2. Same(wr[1], pend[n + 1])
      BY <1>2, <3>1 DEF Matched
    <3> QED BY <1>4, <1>7, <2>2, <3>2 DEF Same
  <2> QED BY <1>8, <2>1, <2>2
<1>13. ASSUME NEW i \in 1..Len(w)
       PROVE  Same(w[i], pend[(n + 1) + i])
  <2>1. i + 1 \in 1..Len(wr) /\ w[i] = wr[i + 1]
    BY <1>4
  <2>2. Same(wr[i + 1], pend[n + (i + 1)])
    BY <1>2, <2>1 DEF Matched
  <2>3. (n + 1) + i = n + (i + 1)
    BY <1>4, <1>5
  <2> QED BY <2>1, <2>2, <2>3
<1>14. Matched(b, w, pend, connected, n + 1, f)
  <2>0. (n + 1) + Len(w) = n + Len(wr)
    BY <1>4, <1>5
  <2>1. /\ (n + 1) + Len(w) =< Len(pend)
        /\ connected => (n + 1) + Len(w) = Len(pend)
    BY <1>5, <2>0
  <2>2. \A i, j \in 1..(n + 1) : i < j => f[i] < f[j]
    BY <1>10
  <2> QED BY <2>1, <2>2, <1>11, <1>12, <1>13 DEF Matched
<1>15. n + 1 \in 0..Len(pend)
  BY <1>4, <1>5
<1>16. InOrder(b, w, pend, connected)
  BY <1>9, <1>14, <1>15 DEF InOrder
<1> QED BY <1>16 DEF b, w

(* The exporter goes: what it has answered may still be read.              *)
LEMMA MatchedGone ==
  ASSUME NEW C, NEW box, NEW wr \in Seq(C), NEW pend, NEW connected, Len(pend) \in Nat,
         InOrder(box, wr, pend, connected)
  PROVE  InOrder(box, <<>>, pend, FALSE)
<1>1. PICK n \in 0..Len(pend) : \E pos \in [1..n -> RespAt(box)] : Matched(box, wr, pend, connected, n, pos)
  BY DEF InOrder
<1>2. PICK pos \in [1..n -> RespAt(box)] : Matched(box, wr, pend, connected, n, pos)
  BY <1>1
<1>3. Matched(box, <<>>, pend, FALSE, n, pos)
  BY <1>2 DEF Matched
<1> QED BY <1>3 DEF InOrder

(* Nothing is under way.                                                   *)
LEMMA MatchedNothing ==
  ASSUME NEW connected
  PROVE  InOrder(<<>>, <<>>, <<>>, connected)
<1> DEFINE f == [i \in 1..0 |-> 0]
<1>1. RespAt(<<>>) = {}
  BY DEF RespAt
<1>2. f \in [1..0 -> RespAt(<<>>)]
  OBVIOUS
<1>3. Matched(<<>>, <<>>, <<>>, connected, 0, f)
  BY <1>1 DEF Matched
<1>4. 0 \in 0..Len(<<>>)
  OBVIOUS
<1> HIDE DEF f
<1> QED BY <1>2, <1>3, <1>4 DEF InOrder

(* What holds of all commands of a sequence holds of its tail, of the      *)
(* sequence with one more like them, and if only "expired" changes.        *)
LEMMA ToldSteps ==
  ASSUME NEW M, NEW s \in Seq(M), NEW r, NEW p, Told(s, r, p)
  PROVE  /\ s # <<>> => Told(Tail(s), r, p)
         /\ \A m \in M : (m.res = r => m.to = p) => Told(Append(s, m), r, p)
         /\ \A t : (Len(t) = Len(s) /\ \A i \in 1..Len(s) : t[i].res = s[i].res /\ t[i].to = s[i].to)
                     => Told(t, r, p)
<1>1. s # <<>> => Told(Tail(s), r, p)
  BY TailAt DEF Told
<1>2. ASSUME NEW m \in M, m.res = r => m.to = p
      PROVE  Told(Append(s, m), r, p)
  <2> DEFINE t == Append(s, m)
  <2>1. /\ Len(t) = Len(s) + 1 /\ t[Len(s) + 1] = m /\ Len(s) \in Nat
        /\ \A i \in 1..Len(s) : t[i] = s[i]
    BY AppendAt
  <2> HIDE DEF t
  <2>2. \A i \in 1..Len(t) : i = Len(s) + 1 \/ i \in 1..Len(s)
    BY <2>1
  <2>3. Told(t, r, p)
    BY <2>1, <2>2, <1>2 DEF Told
  <2> QED BY <2>3 DEF t
<1>3. ASSUME NEW t, Len(t) = Len(s),
             \A i \in 1..Len(s) : t[i].res = s[i].res /\ t[i].to = s[i].to
      PROVE  Told(t, r, p)
  BY <1>3 DEF Told
<1> QED BY <1>1, <1>2, <1>3

LEMMA AboutSteps ==
  ASSUME NEW M, NEW s \in Seq(M), NEW e, AboutOwn(s, e)
  PROVE  /\ s # <<>> => AboutOwn(Tail(s), e) /\ exporterOf[Head(s).res] = e
         /\ \A m \in M : exporterOf[m.res] = e => AboutOwn(Append(s, m), e)
         /\ \A t : (Len(t) = Len(s) /\ \A i \in 1..Len(s) : t[i].res = s[i].res)
                     => AboutOwn(t, e)
<1>1. s # <<>> => AboutOwn(Tail(s), e) /\ exporterOf[Head(s).res] = e
  BY TailAt DEF AboutOwn
<1>2. ASSUME NEW m \in M, exporterOf[m.res] = e
      PROVE  AboutOwn(Append(s, m), e)
  <2> DEFINE t == Append(s, m)
  <2>1. /\ Len(t) = Len(s) + 1 /\ t[Len(s) + 1] = m /\ Len(s) \in Nat
        /\ \A i \in 1..Len(s) : t[i] = s[i]
    BY AppendAt
  <2> HIDE DEF t
  <2>2. \A i \in 1..Len(t) : i = Len(s) + 1 \/ i \in 1..Len(s)
    BY <2>1
  <2>3. AboutOwn(t, e)
    BY <2>1, <2>2, <1>2 DEF AboutOwn
  <2> QED BY <2>3 DEF t
<1>3. ASSUME NEW t, Len(t) = Len(s), \A i \in 1..Len(s) : t[i].res = s[i].res
      PROVE  AboutOwn(t, e)
  BY <1>3 DEF AboutOwn
<1> QED BY <1>1, <1>2, <1>3

(* The chain of what is known about r, when the exporter records something *)
(* and sends a message.                                                    *)
LEMMA ChainAppend ==
  ASSUME NEW M, NEW box \in Seq(M), NEW m \in M, NEW v, NEW old, NEW rec, NEW r, NEW p,
         Chain(v, box, TRUE, old, r, p),
         old \in {p, Broken} => rec \in {p, Broken},
         IsUpdate(m, r) => (old \in {p, Broken} => m.acq \in {p, Broken})
                           /\ (m.acq \in {p, Broken} => rec \in {p, Broken})
  PROVE  Chain(v, Append(box, m), TRUE, rec, r, p)
<1> DEFINE b == Append(box, m)
           T == {p, Broken}
<1>1. /\ Len(b) = Len(box) + 1 /\ b[Len(box) + 1] = m /\ Len(box) \in Nat
      /\ \A i \in 1..Len(box) : b[i] = box[i]
  BY AppendAt
<1> HIDE DEF b
<1>2. \A i \in 1..Len(b) : i = Len(box) + 1 \/ i \in 1..Len(box)
  BY <1>1
<1>3. (v \in T \/ \E i \in 1..Len(box) : Taken(box[i], r, p)) => old \in T
  BY DEF Chain
<1>4. ASSUME NEW j \in 1..Len(b), IsUpdate(b[j], r),
             v \in T \/ \E i \in 1..Len(b) : i < j /\ Taken(b[i], r, p)
      PROVE  b[j].acq \in T
  <2>1. v \in T \/ \E i \in 1..Len(box) : i < j /\ Taken(box[i], r, p)
    BY <1>1, <1>2, <1>4
  <2>2. CASE j \in 1..Len(box)
    BY <1>1, <1>4, <2>1, <2>2 DEF Chain
  <2>3. CASE j = Len(box) + 1
    BY <1>1, <1>3, <1>4, <2>1, <2>3
  <2> QED BY <1>2, <2>2, <2>3
<1>5. ASSUME v \in T \/ \E i \in 1..Len(b) : Taken(b[i], r, p)
      PROVE  rec \in T
  <2>1. CASE v \in T
    BY <1>3, <2>1
  <2>2. ASSUME NEW i \in 1..Len(b), Taken(b[i], r, p)
        PROVE  rec \in T
    <3>1. CASE i \in 1..Len(box)
      BY <1>1, <1>3, <2>2, <3>1
    <3>2. CASE i = Len(box) + 1
      BY <1>1, <2>2, <3>2 DEF Taken
    <3> QED BY <1>2, <3>1, <3>2
  <2> QED BY <1>5, <2>1, <2>2
<1>6. Chain(v, b, TRUE, rec, r, p)
  BY <1>4, <1>5 DEF Chain
<1> QED BY <1>6 DEF b

(* ... when the coordinator reads a message ...                            *)
LEMMA ChainTail ==
  ASSUME NEW M, NEW box \in Seq(M), box # <<>>, NEW v, NEW connected, NEW rec, NEW r, NEW p,
         Chain(v, box, connected, rec, r, p), NEW w,
         w = IF IsUpdate(Head(box), r) THEN Head(box).acq ELSE v
  PROVE  /\ Chain(w, Tail(box), connected, rec, r, p)
         /\ v \in {p, Broken} => w \in {p, Broken}
<1> DEFINE b == Tail(box)
           T == {p, Broken}
<1>1. /\ Len(box) \in Nat /\ Len(box) > 0 /\ Len(b) = Len(box) - 1 /\ Head(box) = box[1]
      /\ \A i \in 1..Len(b) : i + 1 \in 1..Len(box) /\ b[i] = box[i + 1]
  BY TailAt
<1> HIDE DEF b
<1>2. 1 \in 1..Len(box)
  BY <1>1
<1>3. w \in T => v \in T \/ Taken(box[1], r, p)
  BY <1>1 DEF Taken
<1>4. v \in T => w \in T
  BY <1>1, <1>2 DEF Chain
<1>5. ASSUME NEW j \in 1..Len(b), IsUpdate(b[j], r),
             w \in T \/ \E i \in 1..Len(b) : i < j /\ Taken(b[i], r, p)
      PROVE  b[j].acq \in T
  <2>1. j + 1 \in 1..Len(box) /\ b[j] = box[j + 1] /\ 1 < j + 1
    BY <1>1
  <2>2. CASE w \in T
    BY <1>2, <1>3, <1>5, <2>1, <2>2 DEF Chain
  <2>3. ASSUME NEW i \in 1..Len(b), i < j, Taken(b[i], r, p)
        PROVE  b[j].acq \in T
    <3>1. i + 1 \in 1..Len(box) /\ b[i] = box[i + 1] /\ i + 1 < j + 1
      BY <1>1, <2>3
    <3> QED BY <1>5, <2>1, <2>3, <3>1 DEF Chain
  <2> QED BY <1>5, <2>2, <2>3
<1>6. ASSUME connected, w \in T \/ \E i \in 1..Len(b) : Taken(b[i], r, p)
      PROVE  rec \in T
  <2>1. CASE w \in T
    BY <1>2, <1>3, <1>6, <2>1 DEF Chain
  <2>2. ASSUME NEW i \in 1..Len(b), Taken(b[i], r, p)
        PROVE  rec \in T
    <3>1. i + 1 \in 1..Len(box) /\ b[i] = box[i + 1]
      BY <1>1
    <3> QED BY <1>6, <2>2, <3>1 DEF Chain
  <2> QED BY <1>6, <2>1, <2>2
<1>7. Chain(w, b, connected, rec, r, p)
  BY <1>5, <1>6 DEF Chain
<1> QED BY <1>4, <1>7 DEF b

(* ... when the exporter changes its record alone, or goes; and when       *)
(* nothing is known yet.                                                   *)
LEMMA ChainOther ==
  ASSUME NEW v, NEW box, NEW connected, NEW old, NEW rec, NEW r, NEW p
  PROVE  /\ Chain(v, box, connected, old, r, p) => Chain(v, box, FALSE, rec, r, p)
         /\ (Chain(v, box, connected, old, r, p) /\ (old \in {p, Broken} => rec \in {p, Broken}))
              => Chain(v, box, connected, rec, r, p)
         /\ v \notin {p, Broken} => Chain(v, <<>>, connected, rec, r, p)
<1>1. Chain(v, box, connected, old, r, p) => Chain(v, box, FALSE, rec, r, p)
  BY DEF Chain
<1>2. (Chain(v, box, connected, old, r, p) /\ (old \in {p, Broken} => rec \in {p, Broken}))
        => Chain(v, box, connected, rec, r, p)
  BY DEF Chain
<1>3. v \notin {p, Broken} => Chain(v, <<>>, connected, rec, r, p)
  <2>1. \A i \in 1..Len(<<>>) : FALSE
    OBVIOUS
  <2> QED BY <2>1 DEF Chain
<1> QED BY <1>1, <1>2, <1>3

(* A grant, when a message is read ...                                     *)
LEMMA GrantedTail ==
  ASSUME NEW M, NEW box \in Seq(M), box # <<>>, NEW connected, NEW imp, NEW now, NEW rec,
         Granted(box, connected, imp, rec),
         Head(box).kind = "upd" => now[Head(box).res] = Head(box).acq
  PROVE  Granted(Tail(box), connected, now, rec)
<1> DEFINE b == Tail(box)
<1>1. /\ Len(box) \in Nat /\ Len(box) > 0 /\ Len(b) = Len(box) - 1 /\ Head(box) = box[1]
      /\ \A i \in 1..Len(b) : i + 1 \in 1..Len(box) /\ b[i] = box[i + 1]
  BY TailAt
<1> HIDE DEF b
<1>2. ASSUME NEW i \in 1..Len(b), Grants(b, i)
      PROVE  /\ i = 1 => now[b[i].res] = b[i].to
             /\ i > 1 => b[i - 1] = Updated(b[i].res, b[i].to)
             /\ \A j \in 1..Len(b) :
                  (j > i /\ IsUpdate(b[j], b[i].res)) => b[j].acq \in {b[i].to, Broken}
             /\ connected => rec[b[i].res] \in {b[i].to, Broken}
  <2> DEFINE k == i + 1
  <2>1. k \in 1..Len(box) /\ b[i] = box[k] /\ k > 1 /\ k - 1 = i
    BY <1>1
  <2>2. \A j \in RespAt(box) : j =< k
    <3> SUFFICES ASSUME NEW j \in RespAt(box), j > k PROVE FALSE
      BY <2>1 DEF RespAt
    <3>1. j \in 1..Len(box) /\ box[j].kind = "resp"
      BY DEF RespAt
    <3>2. j - 1 \in 1..Len(b) /\ (j - 1) + 1 = j
      BY <1>1, <2>1, <3>1
    <3>3. b[j - 1] = box[j]
      BY <1>1, <3>2
    <3>4. j - 1 \in RespAt(b)
      BY <3>1, <3>2, <3>3 DEF RespAt
    <3>5. j - 1 =< i
      BY <1>2, <3>4 DEF Grants
    <3> QED BY <2>1, <3>1, <3>5
  <2>3. Grants(box, k)
    BY <1>2, <2>1, <2>2 DEF Grants
  <2>4. /\ box[k - 1] = Updated(box[k].res, box[k].to)
        /\ \A j \in 1..Len(box) :
             (j > k /\ IsUpdate(box[j], box[k].res)) => box[j].acq \in {box[k].to, Broken}
        /\ connected => rec[box[k].res] \in {box[k].to, Broken}
    BY <2>1, <2>3 DEF Granted
  <2> HIDE DEF k
  <2>5. /\ \A j \in 1..Len(b) :
             (j > i /\ IsUpdate(b[j], b[i].res)) => b[j].acq \in {b[i].to, Broken}
        /\ connected => rec[b[i].res] \in {b[i].to, Broken}
    <3> SUFFICES ASSUME NEW j \in 1..Len(b), j > i, IsUpdate(b[j], b[i].res)
                 PROVE  b[j].acq \in {b[i].to, Broken}
      BY <2>1, <2>4
    <3>1. j + 1 \in 1..Len(box) /\ b[j] = box[j + 1] /\ j + 1 > k
      BY <1>1, <2>1
    <3> QED BY <2>1, <2>4, <3>1
  <2>6. CASE i = 1
    <3>1. Head(box) = Updated(b[i].res, b[i].to)
      BY <1>1, <2>1, <2>4, <2>6
    <3>2. now[b[i].res] = b[i].to
      BY <3>1 DEF Updated
    <3> QED BY <3>2, <2>6, <2>5
  <2>7. CASE i # 1
    <3>1. i - 1 \in 1..Len(b) /\ (i - 1) + 1 = k - 1 /\ i > 1
      BY <1>1, <2>1, <2>7
    <3>2. b[i - 1] = box[k - 1]
      BY <1>1, <3>1
    <3> QED BY <2>1, <2>4, <2>5, <2>7, <3>1, <3>2
  <2> QED BY <2>6, <2>7
<1>3. Granted(b, connected, now, rec)
  BY <1>2 DEF Granted
<1> QED BY <1>3 DEF b

(* ... when the exporter sends an update ...                               *)
LEMMA GrantedNews ==
  ASSUME NEW M, NEW box \in Seq(M), NEW m \in M, NEW imp, NEW old, NEW rec,
         Granted(box, TRUE, imp, old), m.kind = "upd",
         m.acq = Broken \/ old[m.res] = Absent,
         \A i \in 1..Len(box) : rec[box[i].res] = old[box[i].res] \/ old[box[i].res] = Absent,
         \A i \in 1..Len(box) : box[i].kind = "resp" => box[i].to # Absent
  PROVE  Granted(Append(box, m), TRUE, imp, rec)
<1> USE ConstantsAssumption
<1> DEFINE b == Append(box, m)
<1>1. /\ Len(b) = Len(box) + 1 /\ b[Len(box) + 1] = m /\ Len(box) \in Nat
      /\ \A i \in 1..Len(box) : b[i] = box[i]
  BY AppendAt
<1> HIDE DEF b
<1>2. \A i \in 1..Len(b) : i = Len(box) + 1 \/ i \in 1..Len(box)
  BY <1>1
<1>3. ASSUME NEW i \in 1..Len(b), Grants(b, i)
      PROVE  /\ i = 1 => imp[b[i].res] = b[i].to
             /\ i > 1 => b[i - 1] = Updated(b[i].res, b[i].to)
             /\ \A j \in 1..Len(b) :
                  (j > i /\ IsUpdate(b[j], b[i].res)) => b[j].acq \in {b[i].to, Broken}
             /\ rec[b[i].res] \in {b[i].to, Broken}
  <2>1. i \in 1..Len(box) /\ b[i] = box[i]
    <3>1. i # Len(box) + 1
      BY <1>1, <1>3 DEF Grants
    <3> QED BY <1>1, <1>2, <3>1
  <2>2. \A j \in RespAt(box) : j =< i
    <3> SUFFICES ASSUME NEW j \in RespAt(box) PROVE j \in RespAt(b)
      BY <1>3 DEF Grants
    <3>1. j \in 1..Len(box) /\ box[j].kind = "resp"
      BY DEF RespAt
    <3> QED BY <1>1, <3>1 DEF RespAt
  <2>3. Grants(box, i)
    BY <1>3, <2>1, <2>2 DEF Grants
  <2>4. /\ i = 1 => imp[box[i].res] = box[i].to
        /\ i > 1 => box[i - 1] = Updated(box[i].res, box[i].to)
        /\ \A j \in 1..Len(box) :
             (j > i /\ IsUpdate(box[j], box[i].res)) => box[j].acq \in {box[i].to, Broken}
        /\ old[box[i].res] \in {box[i].to, Broken}
    BY <2>1, <2>3 DEF Granted
  <2>5. old[box[i].res] # Absent
    BY <2>1, <2>3, <2>4 DEF Grants
  <2>6. i > 1 => b[i - 1] = box[i - 1]
    BY <1>1, <2>1
  <2>7. ASSUME NEW j \in 1..Len(b), j > i, IsUpdate(b[j], b[i].res)
        PROVE  b[j].acq \in {b[i].to, Broken}
    <3>1. CASE j \in 1..Len(box)
      BY <1>1, <2>1, <2>4, <2>7, <3>1
    <3>2. CASE j = Len(box) + 1
      BY <1>1, <2>1, <2>5, <2>7, <3>2 DEF IsUpdate
    <3> QED BY <1>2, <3>1, <3>2
  <2> QED BY <2>1, <2>4, <2>5, <2>6, <2>7
<1>4. Granted(b, TRUE, imp, rec)
  BY <1>3 DEF Granted
<1> QED BY <1>4 DEF b

(* ... or a response: only the last one counts ...                         *)
LEMMA GrantedAnswer ==
  ASSUME NEW M, NEW box \in Seq(M), NEW m \in M, NEW connected, NEW imp, NEW rec,
         m.kind = "resp",
         m.ok /\ m.to # None =>
           /\ Len(box) > 0 /\ box[Len(box)] = Updated(m.res, m.to)
           /\ rec[m.res] \in {m.to, Broken}
  PROVE  Granted(Append(box, m), connected, imp, rec)
<1> DEFINE b == Append(box, m)
<1>1. /\ Len(b) = Len(box) + 1 /\ b[Len(box) + 1] = m /\ Len(box) \in Nat
      /\ \A i \in 1..Len(box) : b[i] = box[i]
  BY AppendAt
<1> HIDE DEF b
<1>2. Len(b) \in RespAt(b)
  BY <1>1 DEF RespAt
<1>3. ASSUME NEW i \in 1..Len(b), Grants(b, i)
      PROVE  /\ i = 1 => imp[b[i].res] = b[i].to
             /\ i > 1 => b[i - 1] = Updated(b[i].res, b[i].to)
             /\ \A j \in 1..Len(b) :
                  (j > i /\ IsUpdate(b[j], b[i].res)) => b[j].acq \in {b[i].to, Broken}
             /\ connected => rec[b[i].res] \in {b[i].to, Broken}
  <2>1. Len(b) =< i
    BY <1>2, <1>3 DEF Grants
  <2>2. i = Len(box) + 1 /\ b[i] = m
    BY <1>1, <2>1
  <2>3. m.ok /\ m.to # None
    BY <1>3, <2>2 DEF Grants
  <2>4. Len(box) > 0 /\ i - 1 = Len(box) /\ b[i - 1] = box[Len(box)]
    BY <1>1, <2>2, <2>3
  <2>5. \A j \in 1..Len(b) : ~(j > i)
    BY <1>1, <2>2
  <2> QED BY <1>1, <2>2, <2>3, <2>4, <2>5
<1>4. Granted(b, connected, imp, rec)
  BY <1>3 DEF Granted
<1> QED BY <1>4 DEF b

(* ... when something else changes.                                        *)
LEMMA GrantedOther ==
  ASSUME NEW box, NEW connected, NEW now, NEW imp, NEW imp2, NEW rec, NEW rec2,
         Granted(box, connected, imp, rec), Len(box) \in Nat,
         now => connected,
         \A i \in 1..Len(box) :
           /\ imp2[box[i].res] = imp[box[i].res]
           /\ now => rec2[box[i].res] = rec[box[i].res] \/ rec2[box[i].res] = Broken
  PROVE  Granted(box, now, imp2, rec2)
<1>1. ASSUME NEW i \in 1..Len(box), Grants(box, i)
      PROVE  /\ i = 1 => imp2[box[i].res] = box[i].to
             /\ i > 1 => box[i - 1] = Updated(box[i].res, box[i].to)
             /\ \A j \in 1..Len(box) :
                  (j > i /\ IsUpdate(box[j], box[i].res)) => box[j].acq \in {box[i].to, Broken}
             /\ now => rec2[box[i].res] \in {box[i].to, Broken}
  BY <1>1 DEF Granted
<1> QED BY <1>1 DEF Granted

-----------------------------------------------------------------------------
(* From here on the lemmas speak of states.  The types they need.          *)
LEMMA Types ==
  ASSUME TypeInv
  PROVE  /\ exporterOf \in [Resource -> Exporter]
         /\ \A e \in Exporter :
              /\ link[e] \in {"up", "down"} /\ session[e] \in {"none", "open", "zombie"}
              /\ blocked[e] \in Resource \cup {None}
              /\ inbox[e] \in Seq(Update \cup Response)
              /\ wire[e] \in Seq(Command) /\ pending[e] \in Seq(PendingCommand)
              /\ Len(inbox[e]) \in Nat /\ Len(wire[e]) \in Nat /\ Len(pending[e]) \in Nat
              /\ \A i \in 1..Len(inbox[e]) :
                   /\ inbox[e][i] \in Update \cup Response
                   /\ inbox[e][i].res \in Resource
                   /\ inbox[e][i].kind \in {"upd", "resp"}
                   /\ inbox[e][i].kind = "resp" => inbox[e][i].to \in Place \cup {None}
                   /\ inbox[e][i].kind = "upd" => inbox[e][i].acq \in Acquirer
              /\ \A i \in 1..Len(wire[e]) :
                   wire[e][i].res \in Resource /\ wire[e][i].to \in Place \cup {None}
              /\ \A i \in 1..Len(pending[e]) :
                   /\ pending[e][i].res \in Resource /\ pending[e][i].to \in Place \cup {None}
                   /\ pending[e][i].expired \in BOOLEAN
         /\ \A r \in Resource :
              /\ xacq[r] \in Acquirer \cup {Absent} /\ imported[r] \in Acquirer \cup {Absent}
              /\ exporterOf[r] \in Exporter
         /\ held \in [Place -> SUBSET Ref]
         /\ todo \in SUBSET Ref /\ got \in SUBSET Ref /\ cur \in SUBSET Ref
         /\ acqd \in SUBSET Ref /\ orph \in SUBSET Ref
         /\ \A x \in Ref : x.res \in Resource /\ x.kind \in {"live", "orphan", "dead"}
                           /\ x.acq \in Acquirer
<1> USE ConstantsAssumption DEF TypeInv, TypeOK
<1>1. exporterOf \in [Resource -> Exporter]
  OBVIOUS
<1>2. ASSUME NEW e \in Exporter
      PROVE  /\ link[e] \in {"up", "down"} /\ session[e] \in {"none", "open", "zombie"}
             /\ blocked[e] \in Resource \cup {None}
             /\ inbox[e] \in Seq(Update \cup Response)
             /\ wire[e] \in Seq(Command) /\ pending[e] \in Seq(PendingCommand)
             /\ Len(inbox[e]) \in Nat /\ Len(wire[e]) \in Nat /\ Len(pending[e]) \in Nat
  OBVIOUS
<1>3. ASSUME NEW e \in Exporter, NEW i \in 1..Len(inbox[e])
      PROVE  /\ inbox[e][i] \in Update \cup Response
             /\ inbox[e][i].res \in Resource
             /\ inbox[e][i].kind \in {"upd", "resp"}
             /\ inbox[e][i].kind = "resp" => inbox[e][i].to \in Place \cup {None}
             /\ inbox[e][i].kind = "upd" => inbox[e][i].acq \in Acquirer
  <2>1. inbox[e][i] \in Update \cup Response
    BY <1>2
  <2> QED BY <2>1 DEF Update, Response
<1>4. ASSUME NEW e \in Exporter, NEW i \in 1..Len(wire[e])
      PROVE  wire[e][i].res \in Resource /\ wire[e][i].to \in Place \cup {None}
  <2>1. wire[e][i] \in Command
    BY <1>2
  <2> QED BY <2>1 DEF Command
<1>5. ASSUME NEW e \in Exporter, NEW i \in 1..Len(pending[e])
      PROVE  /\ pending[e][i].res \in Resource /\ pending[e][i].to \in Place \cup {None}
             /\ pending[e][i].expired \in BOOLEAN
  <2>1. pending[e][i] \in PendingCommand
    BY <1>2
  <2> QED BY <2>1 DEF PendingCommand
<1>6. \A r \in Resource :
        /\ xacq[r] \in Acquirer \cup {Absent} /\ imported[r] \in Acquirer \cup {Absent}
        /\ exporterOf[r] \in Exporter
  OBVIOUS
<1>7. \A x \in Ref : x.res \in Resource /\ x.kind \in {"live", "orphan", "dead"} /\ x.acq \in Acquirer
  BY DEF Ref
<1>8. /\ held \in [Place -> SUBSET Ref]
      /\ todo \in SUBSET Ref /\ got \in SUBSET Ref /\ cur \in SUBSET Ref
      /\ acqd \in SUBSET Ref /\ orph \in SUBSET Ref
  OBVIOUS
<1> HIDE DEF TypeInv, TypeOK
<1> QED BY <1>1, <1>2, <1>3, <1>4, <1>5, <1>6, <1>7, <1>8

(* The commands of the exporters whose streams a Send or an expiry leaves  *)
(* alone, and the one it touches.                                          *)
LEMMA SendFacts ==
  ASSUME TypeInv, NEW x \in Ref, NEW to \in Place \cup {None}, Send(x, to)
  PROVE  LET f == exporterOf[x.res]
             c == [res |-> x.res, to |-> to]
             d == [res |-> x.res, to |-> to, expired |-> FALSE]
         IN /\ \A e \in Exporter : e # f => pending'[e] = pending[e] /\ wire'[e] = wire[e]
            /\ pending'[f] = IF session[f] = "open" THEN Append(pending[f], d) ELSE pending[f]
            /\ wire'[f] = IF session[f] = "open" /\ link[f] = "up"
                          THEN Append(wire[f], c) ELSE wire[f]
            /\ f \in Exporter /\ c \in Command /\ d \in PendingCommand
            /\ inbox' = inbox /\ cur' = {x} /\ wait' = "waiting"
<1> DEFINE f == exporterOf[x.res]
           c == [res |-> x.res, to |-> to]
           d == [res |-> x.res, to |-> to, expired |-> FALSE]
<1>1. f \in Exporter /\ c \in Command /\ d \in PendingCommand
  BY ConstantsAssumption DEF Ref, Command, PendingCommand
<1>2. pending \in [Exporter -> Seq(PendingCommand)] /\ wire \in [Exporter -> Seq(Command)]
  BY DEF TypeInv, TypeOK
<1>3. /\ pending' = IF session[f] = "open" THEN [pending EXCEPT ![f] = Append(@, d)] ELSE pending
      /\ wire' = IF session[f] = "open" /\ link[f] = "up"
                 THEN [wire EXCEPT ![f] = Append(@, c)] ELSE wire
      /\ inbox' = inbox /\ cur' = {x} /\ wait' = "waiting"
  BY DEF Send
<1> HIDE DEF f, c, d
<1>4. \A e \in Exporter : e # f => pending'[e] = pending[e] /\ wire'[e] = wire[e]
  BY <1>1, <1>2, <1>3
<1>5. pending'[f] = IF session[f] = "open" THEN Append(pending[f], d) ELSE pending[f]
  BY <1>1, <1>2, <1>3
<1>6. wire'[f] = IF session[f] = "open" /\ link[f] = "up" THEN Append(wire[f], c) ELSE wire[f]
  BY <1>1, <1>2, <1>3
<1> QED BY <1>1, <1>3, <1>4, <1>5, <1>6 DEF f, c, d

LEMMA ExpiredFacts ==
  ASSUME TypeInv, NEW x \in Ref, pending' = Expired(x)
  PROVE  LET f == exporterOf[x.res] IN
         /\ \A e \in Exporter : e # f => pending'[e] = pending[e]
         /\ f \in Exporter /\ Len(pending'[f]) = Len(pending[f])
         /\ \A i \in 1..Len(pending[f]) :
              /\ pending'[f][i].res = pending[f][i].res
              /\ pending'[f][i].to = pending[f][i].to
              /\ i # Len(pending[f]) => pending'[f][i] = pending[f][i]
              /\ i = Len(pending[f]) => pending'[f][i].expired
<1> DEFINE f == exporterOf[x.res]
           s == pending[f]
           d == [s[Len(s)] EXCEPT !.expired = TRUE]
           t == [s EXCEPT ![Len(s)] = d]
<1>1. f \in Exporter /\ pending \in [Exporter -> Seq(PendingCommand)]
  BY ConstantsAssumption DEF Ref, TypeInv, TypeOK
<1>2. CASE s = <<>>
  <2>1. pending' = pending /\ Len(s) = 0
    BY <1>2 DEF Expired
  <2> QED BY <1>1, <2>1
<1>3. CASE s # <<>>
  <2>1. pending' = [pending EXCEPT ![f] = t]
    BY <1>3 DEF Expired
  <2>2. s \in Seq(PendingCommand) /\ Len(s) \in Nat /\ Len(s) \in 1..Len(s)
    BY <1>1, <1>3
  <2>3. s[Len(s)] \in PendingCommand
    BY <2>2
  <2>4. d.res = s[Len(s)].res /\ d.to = s[Len(s)].to /\ d.expired = TRUE
    BY <2>3 DEF PendingCommand
  <2> HIDE DEF d
  <2>5. Len(t) = Len(s) /\ \A i \in 1..Len(s) : t[i] = IF i = Len(s) THEN d ELSE s[i]
    BY <2>2
  <2> HIDE DEF t
  <2>6. pending'[f] = t /\ \A e \in Exporter : e # f => pending'[e] = pending[e]
    BY <1>1, <2>1
  <2> QED BY <1>1, <2>4, <2>5, <2>6
<1> QED BY <1>2, <1>3

(* Nobody waits: all commands under way have expired.                      *)
LEMMA NothingFresh ==
  ASSUME FreshInv, wait # "waiting" \/ cur = {}
  PROVE  \A e \in Exporter : \A i \in 1..Len(pending[e]) : pending[e][i].expired
BY DEF FreshInv, Fresh

(* A command is sent.  A claim to another resource stands, and one for the *)
(* same place.                                                             *)
LEMMA SendNet ==
  ASSUME TypeInv, NetInv, NEW x \in Ref, NEW to \in Place \cup {None}, Send(x, to),
         UNCHANGED <<exporterVars, sessionVars>>
  PROVE  /\ NetInv'
         /\ \A r \in Resource, p \in Place :
              (Claim(r, p) /\ (x.res = r => to = p)) => Claim(r, p)'
<1> DEFINE f == exporterOf[x.res]
           c == [res |-> x.res, to |-> to]
           d == [res |-> x.res, to |-> to, expired |-> FALSE]
<1>1. /\ \A e \in Exporter : e # f => pending'[e] = pending[e] /\ wire'[e] = wire[e]
      /\ pending'[f] = IF session[f] = "open" THEN Append(pending[f], d) ELSE pending[f]
      /\ wire'[f] = IF session[f] = "open" /\ link[f] = "up" THEN Append(wire[f], c) ELSE wire[f]
      /\ f \in Exporter /\ c \in Command /\ d \in PendingCommand
      /\ inbox' = inbox
  BY SendFacts
<1>2. c.res = x.res /\ c.to = to /\ d.res = x.res /\ d.to = to /\ Same(c, d)
  BY DEF Same
<1>3. exporterOf[x.res] = f
  OBVIOUS
<1> HIDE DEF c, d, f
<1>4. UNCHANGED <<link, xacq, session, imported, blocked>>
  BY DEF exporterVars, sessionVars
<1>5. LinkInv'
  <2> SUFFICES ASSUME NEW e \in Exporter
               PROVE  /\ link[e] = "up" => session[e] = "open"
                      /\ link[e] = "down" => wire'[e] = <<>> /\ \A r \in Of(e) : xacq[r] = Absent
                      /\ session[e] # "open" => pending'[e] = <<>> /\ inbox[e] = <<>>
                      /\ session[e] = "none" => \A r \in Of(e) : imported[r] = Absent
    BY <1>1, <1>4 DEF LinkInv, Of
  <2>1. CASE e # f
    BY <1>1, <2>1 DEF NetInv, LinkInv
  <2>2. CASE e = f
    <3>1. link[e] = "down" => wire'[e] = wire[e]
      BY <1>1, <2>2
    <3>2. session[e] # "open" => pending'[e] = pending[e]
      BY <1>1, <2>2
    <3> QED BY <3>1, <3>2 DEF NetInv, LinkInv
  <2> QED BY <2>1, <2>2
<1>6. GrantInv'
  BY <1>1, <1>4 DEF NetInv, GrantInv
<1>7. ASSUME NEW e \in Exporter
      PROVE  /\ AboutOwn(pending[e], e)' /\ AboutOwn(wire[e], e)' /\ AboutOwn(inbox[e], e)'
             /\ InOrder(inbox[e], wire[e], pending[e], link[e] = "up")'
  <2>1. /\ AboutOwn(pending[e], e) /\ AboutOwn(wire[e], e) /\ AboutOwn(inbox[e], e)
        /\ InOrder(inbox[e], wire[e], pending[e], link[e] = "up")
    BY DEF NetInv, StreamInv
  <2>2. CASE e # f \/ session[f] # "open"
    <3>1. pending'[e] = pending[e] /\ wire'[e] = wire[e]
      BY <1>1, <2>2
    <3> QED BY <1>1, <1>4, <2>1, <3>1
  <2>3. ASSUME e = f, session[f] = "open"
        PROVE  /\ AboutOwn(pending[e], e)' /\ AboutOwn(wire[e], e)' /\ AboutOwn(inbox[e], e)'
               /\ InOrder(inbox[e], wire[e], pending[e], link[e] = "up")'
    <3>1. /\ pending[e] \in Seq(PendingCommand) /\ wire[e] \in Seq(Command)
          /\ inbox[e] \in Seq(Update \cup Response) /\ link[e] \in {"up", "down"}
      BY Types
    <3>0. pending'[e] = Append(pending[e], d)
      BY <1>1, <2>3
    <3>2. AboutOwn(pending'[e], e)
      <4>1. exporterOf[d.res] = e /\ d \in PendingCommand
        BY <1>1, <1>2, <1>3, <2>3
      <4>2. AboutOwn(Append(pending[e], d), e)
        BY <2>1, <3>1, <4>1, AboutSteps
      <4> QED BY <3>0, <4>2
    <3>3. CASE link[e] = "up"
      <4>1. wire'[e] = Append(wire[e], c)
        BY <1>1, <2>3, <3>3
      <4>2. AboutOwn(wire'[e], e)
        <5>1. exporterOf[c.res] = e /\ c \in Command
          BY <1>1, <1>2, <1>3, <2>3
        <5>2. AboutOwn(Append(wire[e], c), e)
          BY <2>1, <3>1, <5>1, AboutSteps
        <5> QED BY <4>1, <5>2
      <4>3. InOrder(inbox[e], wire[e], pending[e], TRUE)
        BY <2>1, <3>3
      <4>4. InOrder(inbox[e], Append(wire[e], c), Append(pending[e], d), TRUE)
        <5>1. c \in Command /\ d \in PendingCommand /\ Same(c, d)
          BY <1>1, <1>2
        <5> QED BY <3>1, <4>3, <5>1, MatchedSend
      <4>5. InOrder(inbox'[e], wire'[e], pending'[e], link'[e] = "up")
        BY <1>1, <1>4, <3>0, <3>3, <4>1, <4>4
      <4> QED BY <1>1, <2>1, <3>2, <4>2, <4>5
    <3>4. CASE link[e] = "down"
      <4>1. wire'[e] = wire[e] /\ wire[e] = <<>>
        BY <1>1, <2>3, <3>4 DEF NetInv, LinkInv
      <4>2. InOrder(inbox[e], <<>>, pending[e], FALSE)
        BY <2>1, <3>4, <4>1
      <4>3. InOrder(inbox[e], <<>>, Append(pending[e], d), FALSE)
        BY <1>1, <3>1, <4>2, MatchedLost
      <4>4. InOrder(inbox'[e], wire'[e], pending'[e], link'[e] = "up")
        BY <1>1, <1>4, <3>0, <3>4, <4>1, <4>3
      <4> QED BY <1>1, <2>1, <3>2, <4>1, <4>4
    <3> QED BY <3>1, <3>3, <3>4
  <2> QED BY <2>2, <2>3
<1>8. ASSUME NEW r \in Resource, NEW p \in Place, Claim(r, p), x.res = r => to = p
      PROVE  Claim(r, p)'
  <2> DEFINE e == exporterOf[r]
  <2>1. /\ Told(pending[e], r, p) /\ Told(wire[e], r, p)
        /\ Chain(imported[r], inbox[e], link[e] = "up", xacq[r], r, p)
    BY <1>8 DEF Claim
  <2>2. /\ e \in Exporter /\ pending[e] \in Seq(PendingCommand) /\ wire[e] \in Seq(Command)
    BY Types
  <2> HIDE DEF e
  <2>3. Told(pending'[e], r, p)
    <3>1. pending'[e] = pending[e] \/ pending'[e] = Append(pending[e], d)
      BY <1>1, <2>2
    <3> QED BY <1>1, <1>2, <1>8, <2>1, <2>2, <3>1, ToldSteps
  <2>4. Told(wire'[e], r, p)
    <3>1. wire'[e] = wire[e] \/ wire'[e] = Append(wire[e], c)
      BY <1>1, <2>2
    <3> QED BY <1>1, <1>2, <1>8, <2>1, <2>2, <3>1, ToldSteps
  <2> QED BY <1>1, <1>4, <2>1, <2>3, <2>4 DEF Claim, e
<1>9. StreamInv'
  BY <1>7 DEF StreamInv
<1> QED BY <1>5, <1>6, <1>8, <1>9 DEF NetInv

(* Neither a message nor what somebody knows changes.                      *)
LEMMA QuietNet ==
  ASSUME UNCHANGED <<link, xacq, session, imported, wire, inbox, pending>>
  PROVE  /\ NetInv => NetInv'
         /\ \A r, p : Claim(r, p) => Claim(r, p)'
         /\ \A x, p : Owned(x, p) => Owned(x, p)'
<1>1. NetInv => NetInv'
  BY DEF NetInv, LinkInv, StreamInv, GrantInv
<1>2. \A r, p : Claim(r, p) => Claim(r, p)'
  BY DEF Claim
<1>3. \A x, p : Owned(x, p) => Owned(x, p)'
  BY <1>2 DEF Owned, AcquiredBy
<1> QED BY <1>1, <1>2, <1>3

(* A command expires because nobody awaits it any more: then no command    *)
(* under way is awaited.                                                   *)
LEMMA ExpireNet ==
  ASSUME TypeInv, NetInv, FreshInv, NEW x \in cur, pending' = Expired(x),
         UNCHANGED <<link, xacq, session, imported, wire, inbox>>
  PROVE  /\ NetInv' /\ FreshInv'
         /\ \A r \in Resource : \A p : Claim(r, p) => Claim(r, p)'
         /\ \A y \in Ref : \A p : Owned(y, p) => Owned(y, p)'
<1> DEFINE f == exporterOf[x.res]
<1>1. x \in Ref
  BY Types
<1>2. /\ \A e \in Exporter : e # f => pending'[e] = pending[e]
      /\ f \in Exporter /\ Len(pending'[f]) = Len(pending[f])
      /\ \A i \in 1..Len(pending[f]) :
           /\ pending'[f][i].res = pending[f][i].res
           /\ pending'[f][i].to = pending[f][i].to
           /\ i # Len(pending[f]) => pending'[f][i] = pending[f][i]
           /\ i = Len(pending[f]) => pending'[f][i].expired
  BY <1>1, ExpiredFacts
<1> HIDE DEF f
<1>3. \A e \in Exporter :
        /\ Len(pending'[e]) = Len(pending[e])
        /\ \A i \in 1..Len(pending[e]) :
             pending'[e][i].res = pending[e][i].res /\ pending'[e][i].to = pending[e][i].to
  BY <1>2
<1>4. FreshInv'
  <2> SUFFICES ASSUME NEW e \in Exporter, NEW i \in 1..Len(pending'[e]), ~pending'[e][i].expired
               PROVE  FALSE
    BY DEF FreshInv, Fresh
  <2>1. i \in 1..Len(pending[e])
    BY <1>3
  <2>2. CASE e # f
    <3>1. ~pending[e][i].expired
      BY <1>2, <2>2
    <3>2. PICK y \in cur : cur = {y} /\ y.res = pending[e][i].res
      BY <2>1, <3>1 DEF FreshInv, Fresh
    <3>3. exporterOf[pending[e][i].res] = e
      BY <2>1 DEF NetInv, StreamInv, AboutOwn
    <3> QED BY <2>2, <3>2, <3>3 DEF f
  <2>3. CASE e = f
    <3>1. i # Len(pending[f]) /\ ~pending[f][i].expired
      BY <1>2, <2>1, <2>3
    <3> QED BY <1>2, <2>1, <2>3, <3>1 DEF FreshInv, Fresh
  <2> QED BY <2>2, <2>3
<1>5. LinkInv'
  <2>1. \A e \in Exporter : pending[e] = <<>> => pending'[e] = <<>>
    <3> SUFFICES ASSUME NEW e \in Exporter, pending[e] = <<>> PROVE pending'[e] = <<>>
      OBVIOUS
    <3>1. CASE e # f
      BY <1>2, <3>1
    <3>2. CASE e = f
      BY <3>2, <1>1 DEF Expired, f
    <3> QED BY <3>1, <3>2
  <2> QED BY <2>1 DEF NetInv, LinkInv
<1>6. StreamInv'
  <2> SUFFICES ASSUME NEW e \in Exporter
               PROVE  /\ AboutOwn(pending'[e], e) /\ AboutOwn(wire[e], e) /\ AboutOwn(inbox[e], e)
                      /\ InOrder(inbox[e], wire[e], pending'[e], link[e] = "up")
    BY DEF StreamInv
  <2>1. /\ AboutOwn(pending[e], e) /\ AboutOwn(wire[e], e) /\ AboutOwn(inbox[e], e)
        /\ InOrder(inbox[e], wire[e], pending[e], link[e] = "up")
    BY DEF NetInv, StreamInv
  <2>2. Len(pending[e]) \in Nat /\ Len(wire[e]) \in Nat
    BY Types
  <2>3. AboutOwn(pending'[e], e)
    BY <1>3, <2>1 DEF AboutOwn
  <2>4. InOrder(inbox[e], wire[e], pending'[e], link[e] = "up")
    BY <1>3, <2>1, <2>2, MatchedExpire
  <2> QED BY <2>1, <2>3, <2>4
<1>7. GrantInv'
  BY DEF NetInv, GrantInv
<1>8. ASSUME NEW r \in Resource, NEW p, Claim(r, p)
      PROVE  Claim(r, p)'
  <2>1. Told(pending[exporterOf[r]], r, p) /\ exporterOf[r] \in Exporter
    BY <1>8, Types DEF Claim
  <2>2. Told(pending'[exporterOf[r]], r, p)
    BY <1>3, <2>1 DEF Told
  <2> QED BY <1>8, <2>2 DEF Claim
<1>9. \A y \in Ref : \A p : Owned(y, p) => Owned(y, p)'
  BY <1>8, Types DEF Owned, AcquiredBy
<1> QED BY <1>4, <1>5, <1>6, <1>7, <1>8, <1>9 DEF NetInv


(* What both kinds of message have in common.                              *)
LEMMA ReceiveFacts ==
  ASSUME TypeInv, NetInv, NEW e \in Exporter, Receive(e)
  PROVE  LET m == Head(inbox[e]) IN
         /\ inbox[e] \in Seq(Update \cup Response) /\ inbox[e] # <<>>
         /\ m \in Update \cup Response /\ exporterOf[m.res] = e /\ m.res \in Resource
         /\ m.kind = "upd" => m.acq \in Acquirer
         /\ inbox'[e] = Tail(inbox[e])
         /\ \A g \in Exporter : g # e => inbox'[g] = inbox[g]
         /\ session[e] = "open" /\ blocked[e] = None
         /\ UNCHANGED <<link, xacq, session, wire, lock, opPlace, cur>>
<1>1. /\ session[e] = "open" /\ blocked[e] = None /\ inbox[e] # <<>>
      /\ inbox' = [inbox EXCEPT ![e] = Tail(@)]
      /\ UNCHANGED <<link, xacq, session, wire, lock, opPlace, cur>>
  BY DEF Receive, exporterVars
<1>2. inbox \in [Exporter -> Seq(Update \cup Response)]
  BY DEF TypeInv, TypeOK
<1>3. inbox'[e] = Tail(inbox[e]) /\ \A g \in Exporter : g # e => inbox'[g] = inbox[g]
  BY <1>1, <1>2
<1>4. AboutOwn(inbox[e], e)
  BY DEF NetInv, StreamInv
<1>5. exporterOf[Head(inbox[e]).res] = e
  BY <1>1, <1>2, <1>4, AboutSteps
<1>6. Head(inbox[e]) = inbox[e][1] /\ 1 \in 1..Len(inbox[e])
  BY <1>1, <1>2, TailAt
<1>7. /\ Head(inbox[e]) \in Update \cup Response /\ Head(inbox[e]).res \in Resource
      /\ Head(inbox[e]).kind = "upd" => Head(inbox[e]).acq \in Acquirer
  <2>1. \A i \in 1..Len(inbox[e]) :
          /\ inbox[e][i] \in Update \cup Response /\ inbox[e][i].res \in Resource
          /\ inbox[e][i].kind = "upd" => inbox[e][i].acq \in Acquirer
    BY Types
  <2> QED BY <1>6, <2>1
<1> QED BY <1>1, <1>2, <1>3, <1>5, <1>7

(* Exporter e sends that a resource is acquired, free or broken.           *)
LEMMA UpdateNet ==
  ASSUME TypeInv, NetInv, FreshInv, NEW e \in Exporter, Receive(e), ReceiveUpdate(e)
  PROVE  /\ NetInv' /\ FreshInv' /\ wait' = wait
         /\ \A r \in Resource : \A p : Claim(r, p) => Claim(r, p)'
         /\ \A y \in Ref : \A p : Owned(y, p) => Owned(y, p)'
<1> DEFINE m == Head(inbox[e])
<1>1. /\ inbox[e] \in Seq(Update \cup Response) /\ inbox[e] # <<>>
      /\ m \in Update \cup Response /\ exporterOf[m.res] = e /\ m.res \in Resource
      /\ inbox'[e] = Tail(inbox[e])
      /\ \A g \in Exporter : g # e => inbox'[g] = inbox[g]
      /\ session[e] = "open"
      /\ UNCHANGED <<link, xacq, session, wire, lock, opPlace, cur>>
  BY ReceiveFacts
<1>2. /\ m.kind = "upd" /\ imported' = [imported EXCEPT ![m.res] = m.acq]
      /\ UNCHANGED <<pending, wait>>
  BY DEF ReceiveUpdate
<1>3. Head(inbox[e]) = m
  OBVIOUS
<1> HIDE DEF m
<1>4. \A r \in Resource : imported'[r] = IF r = m.res THEN m.acq ELSE imported[r]
  BY <1>2 DEF TypeInv, TypeOK
<1>5. LinkInv'
  <2> SUFFICES ASSUME NEW g \in Exporter
               PROVE  /\ link[g] = "up" => session[g] = "open"
                      /\ link[g] = "down" => wire[g] = <<>> /\ \A r \in Of(g) : xacq[r] = Absent
                      /\ session[g] # "open" => pending[g] = <<>> /\ inbox'[g] = <<>>
                      /\ session[g] = "none" => \A r \in Of(g) : imported'[r] = Absent
    BY <1>1, <1>2 DEF LinkInv, Of
  <2>1. \A r \in Of(g) : g # e => imported'[r] = imported[r]
    BY <1>1, <1>4 DEF Of
  <2> QED BY <1>1, <2>1 DEF NetInv, LinkInv
<1>6. StreamInv'
  <2> SUFFICES ASSUME NEW g \in Exporter
               PROVE  /\ AboutOwn(pending[g], g) /\ AboutOwn(wire[g], g) /\ AboutOwn(inbox'[g], g)
                      /\ InOrder(inbox'[g], wire[g], pending[g], link[g] = "up")
    BY <1>1, <1>2 DEF StreamInv
  <2>1. /\ AboutOwn(pending[g], g) /\ AboutOwn(wire[g], g) /\ AboutOwn(inbox[g], g)
        /\ InOrder(inbox[g], wire[g], pending[g], link[g] = "up")
    BY DEF NetInv, StreamInv
  <2>2. CASE g # e
    BY <1>1, <2>1, <2>2
  <2>3. CASE g = e
    <3>1. Len(pending[e]) \in Nat
      BY Types
    <3>2. InOrder(Tail(inbox[e]), wire[e], pending[e], link[e] = "up")
      BY <1>1, <1>2, <1>3, <2>1, <2>3, <3>1, MatchedUpdate
    <3>3. AboutOwn(Tail(inbox[e]), e)
      BY <1>1, <2>1, <2>3, AboutSteps
    <3> QED BY <1>1, <2>1, <2>3, <3>2, <3>3
  <2> QED BY <2>2, <2>3
<1>7. GrantInv'
  <2> SUFFICES ASSUME NEW g \in Exporter
               PROVE  Granted(inbox'[g], link[g] = "up", imported', xacq)
    BY <1>1 DEF GrantInv
  <2>1. Granted(inbox[g], link[g] = "up", imported, xacq)
    BY DEF NetInv, GrantInv
  <2>2. CASE g # e
    <3>1. \A i \in 1..Len(inbox[g]) : imported'[inbox[g][i].res] = imported[inbox[g][i].res]
      BY <1>1, <1>4, <2>2, Types DEF NetInv, StreamInv, AboutOwn
    <3>2. Len(inbox[g]) \in Nat
      BY Types
    <3>3. Granted(inbox[g], link[g] = "up", imported', xacq)
      BY <2>1, <3>1, <3>2, GrantedOther
    <3> QED BY <1>1, <2>2, <3>3
  <2>3. CASE g = e
    <3>1. imported'[Head(inbox[e]).res] = Head(inbox[e]).acq
      BY <1>1, <1>3, <1>4
    <3>2. Granted(Tail(inbox[e]), link[e] = "up", imported', xacq)
      BY <1>1, <2>1, <2>3, <3>1, GrantedTail
    <3> QED BY <1>1, <2>3, <3>2
  <2> QED BY <2>2, <2>3
<1>8. FreshInv'
  BY <1>1, <1>2 DEF FreshInv, Fresh
<1>9. ASSUME NEW r \in Resource, NEW p, Claim(r, p)
      PROVE  /\ Claim(r, p)'
             /\ imported[r] \in {p, Broken} => imported'[r] \in {p, Broken}
  <2> DEFINE g == exporterOf[r]
  <2>1. /\ Told(pending[g], r, p) /\ Told(wire[g], r, p)
        /\ Chain(imported[r], inbox[g], link[g] = "up", xacq[r], r, p)
        /\ g \in Exporter
    BY <1>9, Types DEF Claim
  <2> HIDE DEF g
  <2>2. CASE g # e
    <3>1. imported'[r] = imported[r] /\ inbox'[g] = inbox[g]
      BY <1>1, <1>4, <2>1, <2>2 DEF g
    <3> QED BY <1>1, <1>2, <2>1, <3>1 DEF Claim, g
  <2>3. CASE g = e
    <3>1. imported'[r] = IF IsUpdate(Head(inbox[e]), r) THEN Head(inbox[e]).acq ELSE imported[r]
      BY <1>2, <1>3, <1>4 DEF IsUpdate
    <3>2. /\ Chain(imported'[r], Tail(inbox[e]), link[e] = "up", xacq[r], r, p)
          /\ imported[r] \in {p, Broken} => imported'[r] \in {p, Broken}
      BY <1>1, <2>1, <2>3, <3>1, ChainTail
    <3> QED BY <1>1, <1>2, <2>1, <2>3, <3>2 DEF Claim, g
  <2> QED BY <2>2, <2>3
<1>10. ASSUME NEW y \in Ref, NEW p, Owned(y, p)
       PROVE  Owned(y, p)'
  <2>1. y.res \in Resource /\ Claim(y.res, p) /\ y.kind # "dead" /\ AcquiredBy(y) \in {p, Broken}
    BY <1>10, Types DEF Owned
  <2>2. Claim(y.res, p)' /\ (imported[y.res] \in {p, Broken} => imported'[y.res] \in {p, Broken})
    BY <1>9, <2>1
  <2> QED BY <2>1, <2>2 DEF Owned, AcquiredBy
<1> QED BY <1>2, <1>5, <1>6, <1>7, <1>8, <1>9, <1>10 DEF NetInv

(* Exporter e answers.  A positive answer to an acquire that is still      *)
(* awaited means that the resource is acquired, and stays so.              *)
LEMMA ResponseNet ==
  ASSUME TypeInv, NetInv, FreshInv, NEW e \in Exporter, Receive(e), ReceiveResponse(e),
         lock = "acquire" => opPlace \in Place
  PROVE  /\ NetInv' /\ FreshInv' /\ imported' = imported
         /\ \A r \in Resource : \A p : Claim(r, p) => Claim(r, p)'
         /\ \A y \in Ref : \A p : Owned(y, p) => Owned(y, p)'
         /\ (lock = "acquire" /\ wait' = "ok" /\ wait # "ok") =>
              \A x \in cur : /\ exporterOf[x.res] = e
                             /\ imported[x.res] = opPlace /\ Claim(x.res, opPlace)'
<1> DEFINE m == Head(inbox[e])
           h == Head(pending[e])
<1>1. /\ inbox[e] \in Seq(Update \cup Response) /\ inbox[e] # <<>>
      /\ m \in Update \cup Response /\ exporterOf[m.res] = e /\ m.res \in Resource
      /\ inbox'[e] = Tail(inbox[e])
      /\ \A g \in Exporter : g # e => inbox'[g] = inbox[g]
      /\ session[e] = "open"
      /\ UNCHANGED <<link, xacq, session, wire, lock, opPlace, cur>>
  BY ReceiveFacts
<1>2. /\ m.kind = "resp" /\ UNCHANGED imported
      /\ pending' = [pending EXCEPT ![e] = Tail(@)]
      /\ wait' = IF h.expired THEN wait ELSE IF m.ok THEN "ok" ELSE "failed"
  BY DEF ReceiveResponse
<1>3. Head(inbox[e]) = m /\ Head(pending[e]) = h
  OBVIOUS
<1> HIDE DEF m, h
<1>4. /\ pending[e] \in Seq(PendingCommand) /\ wire[e] \in Seq(Command)
      /\ Len(wire[e]) \in Nat /\ Len(pending[e]) \in Nat
  BY Types
<1>5. pending'[e] = Tail(pending[e]) /\ \A g \in Exporter : g # e => pending'[g] = pending[g]
  BY <1>2 DEF TypeInv, TypeOK
<1>6. /\ pending[e] # <<>> /\ Same(m, h)
      /\ InOrder(Tail(inbox[e]), wire[e], Tail(pending[e]), link[e] = "up")
      /\ Len(pending[e]) = 1 => RespAt(inbox[e]) = {1} /\ Len(wire[e]) = 0
  <2>1. InOrder(inbox[e], wire[e], pending[e], link[e] = "up")
    BY DEF NetInv, StreamInv
  <2> QED BY <1>1, <1>2, <1>3, <1>4, <2>1, MatchedResponse
<1>7. /\ h = pending[e][1] /\ 1 \in 1..Len(pending[e])
      /\ Len(Tail(pending[e])) = Len(pending[e]) - 1
      /\ \A i \in 1..Len(Tail(pending[e])) :
           i + 1 \in 1..Len(pending[e]) /\ Tail(pending[e])[i] = pending[e][i + 1]
  BY <1>3, <1>4, <1>6, TailAt
<1>8. LinkInv'
  BY <1>1, <1>2, <1>5 DEF NetInv, LinkInv, Of
<1>9. StreamInv'
  <2> SUFFICES ASSUME NEW g \in Exporter
               PROVE  /\ AboutOwn(pending'[g], g) /\ AboutOwn(wire[g], g) /\ AboutOwn(inbox'[g], g)
                      /\ InOrder(inbox'[g], wire[g], pending'[g], link[g] = "up")
    BY <1>1 DEF StreamInv
  <2>1. /\ AboutOwn(pending[g], g) /\ AboutOwn(wire[g], g) /\ AboutOwn(inbox[g], g)
        /\ InOrder(inbox[g], wire[g], pending[g], link[g] = "up")
    BY DEF NetInv, StreamInv
  <2>2. CASE g # e
    BY <1>1, <1>5, <2>1, <2>2
  <2>3. CASE g = e
    <3>1. AboutOwn(Tail(inbox[e]), e) /\ AboutOwn(Tail(pending[e]), e)
      BY <1>1, <1>4, <1>6, <2>1, <2>3, AboutSteps
    <3> QED BY <1>1, <1>5, <1>6, <2>1, <2>3, <3>1
  <2> QED BY <2>2, <2>3
<1>10. GrantInv'
  <2> SUFFICES ASSUME NEW g \in Exporter
               PROVE  Granted(inbox'[g], link[g] = "up", imported, xacq)
    BY <1>1, <1>2 DEF GrantInv
  <2>1. Granted(inbox[g], link[g] = "up", imported, xacq)
    BY DEF NetInv, GrantInv
  <2>2. CASE g # e
    BY <1>1, <2>1, <2>2
  <2>3. CASE g = e
    <3>1. Granted(Tail(inbox[e]), link[e] = "up", imported, xacq)
      BY <1>1, <1>2, <1>3, <2>1, <2>3, GrantedTail
    <3> QED BY <1>1, <2>3, <3>1
  <2> QED BY <2>2, <2>3
<1>11. ASSUME ~h.expired
       PROVE  /\ Len(pending[e]) = 1
              /\ \E x \in cur : cur = {x} /\ x.res = h.res
              /\ exporterOf[h.res] = e
              /\ lock = "acquire" => h.to = opPlace
  <2>1. AboutOwn(pending[e], e) /\ Fresh(pending[e])
    BY DEF NetInv, StreamInv, FreshInv
  <2> QED BY <1>7, <1>11, <2>1 DEF Fresh, AboutOwn
<1>12. FreshInv'
  <2> SUFFICES ASSUME NEW g \in Exporter, NEW i \in 1..Len(pending'[g]), ~pending'[g][i].expired
               PROVE  /\ i = Len(pending'[g]) /\ wait' = "waiting"
                      /\ \E x \in cur : cur = {x} /\ x.res = pending'[g][i].res
                      /\ lock = "acquire" => pending'[g][i].to = opPlace
    BY <1>1 DEF FreshInv, Fresh
  <2>0. Fresh(pending[g])
    BY DEF FreshInv
  <2>1. CASE g # e
    <3>1. /\ i \in 1..Len(pending[g]) /\ ~pending[g][i].expired /\ pending'[g] = pending[g]
      BY <1>5, <2>1
    <3>2. /\ i = Len(pending[g]) /\ wait = "waiting"
          /\ \E x \in cur : cur = {x} /\ x.res = pending[g][i].res
          /\ lock = "acquire" => pending[g][i].to = opPlace
      BY <2>0, <3>1 DEF Fresh
    <3>3. exporterOf[pending[g][i].res] = g
      BY <3>1 DEF NetInv, StreamInv, AboutOwn
    <3>4. h.expired
      BY <1>11, <2>1, <3>2, <3>3
    <3> QED BY <1>2, <3>1, <3>2, <3>4
  <2>2. CASE g = e
    <3>1. /\ i + 1 \in 1..Len(pending[e]) /\ pending'[e][i] = pending[e][i + 1]
          /\ Len(pending'[e]) = Len(pending[e]) - 1
      BY <1>5, <1>7, <2>2
    <3>2. /\ i + 1 = Len(pending[e]) /\ wait = "waiting"
          /\ \E x \in cur : cur = {x} /\ x.res = pending[e][i + 1].res
          /\ lock = "acquire" => pending[e][i + 1].to = opPlace
      BY <2>0, <2>2, <3>1 DEF Fresh
    <3>3. h.expired
      BY <1>11, <2>2, <3>1
    <3>4. i = Len(pending'[e])
      BY <3>1, <3>2, <1>4, <2>2
    <3> QED BY <1>2, <2>2, <3>1, <3>2, <3>3, <3>4
  <2> QED BY <2>1, <2>2
<1>13. ASSUME NEW r \in Resource, NEW p, Claim(r, p)
       PROVE  Claim(r, p)'
  <2> DEFINE g == exporterOf[r]
  <2>1. /\ Told(pending[g], r, p) /\ Told(wire[g], r, p)
        /\ Chain(imported[r], inbox[g], link[g] = "up", xacq[r], r, p)
        /\ g \in Exporter
    BY <1>13, Types DEF Claim
  <2> HIDE DEF g
  <2>2. CASE g # e
    BY <1>1, <1>2, <1>5, <2>1, <2>2 DEF Claim, g
  <2>3. CASE g = e
    <3>1. Told(Tail(pending[e]), r, p)
      BY <1>4, <1>6, <2>1, <2>3, ToldSteps
    <3>2. imported[r] = IF IsUpdate(Head(inbox[e]), r) THEN Head(inbox[e]).acq ELSE imported[r]
      BY <1>2, <1>3 DEF IsUpdate
    <3>3. Chain(imported[r], Tail(inbox[e]), link[e] = "up", xacq[r], r, p)
      BY <1>1, <2>1, <2>3, <3>2, ChainTail
    <3> QED BY <1>1, <1>2, <1>5, <2>1, <2>3, <3>1, <3>3 DEF Claim, g
  <2> QED BY <2>2, <2>3
<1>14. ASSUME NEW y \in Ref, NEW p, Owned(y, p)
       PROVE  Owned(y, p)'
  <2>1. y.res \in Resource /\ Claim(y.res, p) /\ y.kind # "dead" /\ AcquiredBy(y) \in {p, Broken}
    BY <1>14, Types DEF Owned
  <2> QED BY <1>2, <1>13, <2>1 DEF Owned, AcquiredBy
<1>15. ASSUME lock = "acquire", wait' = "ok", wait # "ok", NEW x \in cur
       PROVE  /\ exporterOf[x.res] = e
              /\ imported[x.res] = opPlace /\ Claim(x.res, opPlace)'
  <2>1. ~h.expired /\ m.ok
    BY <1>2, <1>15
  <2>2. /\ x.res = h.res /\ h.to = opPlace /\ exporterOf[x.res] = e
        /\ Len(pending[e]) = 1 /\ RespAt(inbox[e]) = {1} /\ Len(wire[e]) = 0
    BY <1>6, <1>11, <1>15, <2>1
  <2>3. /\ m = inbox[e][1] /\ 1 \in 1..Len(inbox[e])
        /\ Len(Tail(inbox[e])) = Len(inbox[e]) - 1 /\ Len(inbox[e]) \in Nat
        /\ \A i \in 1..Len(Tail(inbox[e])) :
             i + 1 \in 1..Len(inbox[e]) /\ Tail(inbox[e])[i] = inbox[e][i + 1]
    BY <1>1, <1>3, TailAt
  <2>4. m.res = x.res /\ m.to = opPlace
    BY <1>6, <2>2 DEF Same
  <2>5. Grants(inbox[e], 1)
    BY <1>2, <1>15, <2>1, <2>2, <2>3, <2>4, ConstantsAssumption DEF Grants
  <2>6. /\ imported[x.res] = opPlace
        /\ \A j \in 1..Len(inbox[e]) :
             (j > 1 /\ IsUpdate(inbox[e][j], x.res)) => inbox[e][j].acq \in {opPlace, Broken}
        /\ link[e] = "up" => xacq[x.res] \in {opPlace, Broken}
    <3>1. Granted(inbox[e], link[e] = "up", imported, xacq)
      BY DEF NetInv, GrantInv
    <3> QED BY <2>3, <2>4, <2>5, <3>1 DEF Granted
  <2>7. \A j \in 1..Len(Tail(inbox[e])) :
          IsUpdate(Tail(inbox[e])[j], x.res) => Tail(inbox[e])[j].acq \in {opPlace, Broken}
    <3> SUFFICES ASSUME NEW j \in 1..Len(Tail(inbox[e])), IsUpdate(Tail(inbox[e])[j], x.res)
                 PROVE  Tail(inbox[e])[j].acq \in {opPlace, Broken}
      OBVIOUS
    <3>1. j + 1 \in 1..Len(inbox[e]) /\ j + 1 > 1 /\ Tail(inbox[e])[j] = inbox[e][j + 1]
      BY <2>3
    <3> QED BY <2>6, <3>1
  <2>8. Chain(imported[x.res], Tail(inbox[e]), link[e] = "up", xacq[x.res], x.res, opPlace)
    BY <2>6, <2>7 DEF Chain
  <2>9. Told(pending'[e], x.res, opPlace) /\ Told(wire[e], x.res, opPlace)
    BY <1>5, <1>7, <2>2 DEF Told
  <2> QED BY <1>1, <1>2, <2>2, <2>6, <2>8, <2>9 DEF Claim
<1> QED BY <1>2, <1>8, <1>9, <1>10, <1>12, <1>13, <1>14, <1>15 DEF NetInv

(* Only exporter e and its stream change, and what they do is in order.    *)
LEMMA OneExporter ==
  ASSUME TypeInv, NetInv, FreshInv, NEW e \in Exporter,
         UNCHANGED <<imported, pending, cur, wait, lock, opPlace>>,
         \A g \in Exporter : g # e =>
           inbox'[g] = inbox[g] /\ wire'[g] = wire[g] /\ link'[g] = link[g] /\ session'[g] = session[g],
         \A r \in Resource : exporterOf[r] # e => xacq'[r] = xacq[r],
         link'[e] = "up" => session'[e] = "open",
         link'[e] = "down" => wire'[e] = <<>> /\ \A r \in Of(e) : xacq'[r] = Absent,
         session'[e] # "open" => pending[e] = <<>> /\ inbox'[e] = <<>>,
         session'[e] = "none" => \A r \in Of(e) : imported[r] = Absent,
         AboutOwn(wire'[e], e), AboutOwn(inbox'[e], e),
         InOrder(inbox'[e], wire'[e], pending[e], link'[e] = "up"),
         Granted(inbox'[e], link'[e] = "up", imported, xacq'),
         \A r \in Of(e), p \in Place : Claim(r, p) =>
           Told(wire'[e], r, p) /\ Chain(imported[r], inbox'[e], link'[e] = "up", xacq'[r], r, p)
  PROVE  /\ NetInv' /\ FreshInv'
         /\ \A r \in Resource, p \in Place : Claim(r, p) => Claim(r, p)'
         /\ \A y \in Ref, p \in Place : Owned(y, p) => Owned(y, p)'
<1>1. LinkInv'
  <2> SUFFICES ASSUME NEW g \in Exporter
               PROVE  /\ link'[g] = "up" => session'[g] = "open"
                      /\ link'[g] = "down" => wire'[g] = <<>> /\ \A r \in Of(g) : xacq'[r] = Absent
                      /\ session'[g] # "open" => pending[g] = <<>> /\ inbox'[g] = <<>>
                      /\ session'[g] = "none" => \A r \in Of(g) : imported[r] = Absent
    BY DEF LinkInv, Of
  <2>1. CASE g = e
    BY <2>1
  <2>2. CASE g # e
    BY <2>2 DEF NetInv, LinkInv, Of
  <2> QED BY <2>1, <2>2
<1>2. StreamInv'
  <2> SUFFICES ASSUME NEW g \in Exporter
               PROVE  /\ AboutOwn(pending[g], g) /\ AboutOwn(wire'[g], g) /\ AboutOwn(inbox'[g], g)
                      /\ InOrder(inbox'[g], wire'[g], pending[g], link'[g] = "up")
    BY DEF StreamInv
  <2>1. /\ AboutOwn(pending[g], g) /\ AboutOwn(wire[g], g) /\ AboutOwn(inbox[g], g)
        /\ InOrder(inbox[g], wire[g], pending[g], link[g] = "up")
    BY DEF NetInv, StreamInv
  <2>2. CASE g = e
    BY <2>1, <2>2
  <2>3. CASE g # e
    BY <2>1, <2>3
  <2> QED BY <2>2, <2>3
<1>3. GrantInv'
  <2> SUFFICES ASSUME NEW g \in Exporter
               PROVE  Granted(inbox'[g], link'[g] = "up", imported, xacq')
    BY DEF GrantInv
  <2>1. CASE g = e
    BY <2>1
  <2>2. CASE g # e
    <3>1. Granted(inbox[g], link[g] = "up", imported, xacq) /\ AboutOwn(inbox[g], g)
      BY DEF NetInv, GrantInv, StreamInv
    <3>2. Len(inbox[g]) \in Nat
      BY Types
    <3>3. \A i \in 1..Len(inbox[g]) : xacq'[inbox[g][i].res] = xacq[inbox[g][i].res]
      BY <2>2, <3>1, Types DEF AboutOwn
    <3>4. Granted(inbox[g], link[g] = "up", imported, xacq')
      BY <3>1, <3>2, <3>3, GrantedOther
    <3> QED BY <2>2, <3>4
  <2> QED BY <2>1, <2>2
<1>4. FreshInv'
  BY DEF FreshInv, Fresh
<1>5. ASSUME NEW r \in Resource, NEW p \in Place, Claim(r, p)
      PROVE  Claim(r, p)'
  <2>1. /\ Told(pending[exporterOf[r]], r, p) /\ Told(wire[exporterOf[r]], r, p)
        /\ Chain(imported[r], inbox[exporterOf[r]], link[exporterOf[r]] = "up", xacq[r], r, p)
        /\ exporterOf[r] \in Exporter
    BY <1>5, Types DEF Claim
  <2>2. CASE exporterOf[r] = e
    BY <1>5, <2>1, <2>2 DEF Claim, Of
  <2>3. CASE exporterOf[r] # e
    BY <2>1, <2>3 DEF Claim
  <2> QED BY <2>2, <2>3
<1>6. \A y \in Ref, p \in Place : Owned(y, p) => Owned(y, p)'
  BY <1>5, Types DEF Owned, AcquiredBy
<1> QED BY <1>1, <1>2, <1>3, <1>4, <1>5, <1>6 DEF NetInv

(* What holds of exporter e now.                                           *)
LEMMA ExporterNow ==
  ASSUME TypeInv, NetInv, NEW e \in Exporter
  PROVE  /\ AboutOwn(pending[e], e) /\ AboutOwn(wire[e], e) /\ AboutOwn(inbox[e], e)
         /\ InOrder(inbox[e], wire[e], pending[e], link[e] = "up")
         /\ Granted(inbox[e], link[e] = "up", imported, xacq)
         /\ link[e] = "up" => session[e] = "open"
         /\ link[e] = "down" => wire[e] = <<>> /\ \A r \in Of(e) : xacq[r] = Absent
         /\ session[e] # "open" => pending[e] = <<>> /\ inbox[e] = <<>>
         /\ session[e] = "none" => \A r \in Of(e) : imported[r] = Absent
         /\ \A r \in Of(e), p \in Place : Claim(r, p) =>
              /\ r \in Resource /\ Told(wire[e], r, p)
              /\ Chain(imported[r], inbox[e], link[e] = "up", xacq[r], r, p)
BY DEF NetInv, LinkInv, StreamInv, GrantInv, Claim, Of

(* An exporter connects.                                                   *)
LEMMA ConnectNet ==
  ASSUME TypeInv, NetInv, FreshInv, NEW e \in Exporter, Connect(e)
  PROVE  /\ NetInv' /\ FreshInv'
         /\ \A r \in Resource, p \in Place : Claim(r, p) => Claim(r, p)'
         /\ \A y \in Ref, p \in Place : Owned(y, p) => Owned(y, p)'
<1>1. /\ link[e] = "down" /\ session[e] = "none"
      /\ link' = [link EXCEPT ![e] = "up"] /\ session' = [session EXCEPT ![e] = "open"]
      /\ UNCHANGED <<imported, pending, cur, wait, lock, opPlace, inbox, wire, xacq>>
  BY DEF Connect, netVars, opVars
<1>2. /\ link'[e] = "up" /\ session'[e] = "open"
      /\ \A g \in Exporter : g # e => link'[g] = link[g] /\ session'[g] = session[g]
  BY <1>1 DEF TypeInv, TypeOK
<1>3. /\ wire[e] = <<>> /\ pending[e] = <<>> /\ inbox[e] = <<>>
      /\ \A r \in Of(e) : imported[r] = Absent
      /\ AboutOwn(wire[e], e) /\ AboutOwn(inbox[e], e)
      /\ \A r \in Of(e), p \in Place : Claim(r, p) => Told(wire[e], r, p)
  BY <1>1, ExporterNow
<1>4. InOrder(inbox[e], wire[e], pending[e], TRUE)
  BY <1>3, MatchedNothing
<1>5. Granted(inbox[e], TRUE, imported, xacq)
  BY <1>3 DEF Granted
<1>6. \A r \in Of(e), p \in Place : Chain(imported[r], inbox[e], TRUE, xacq[r], r, p)
  <2> SUFFICES ASSUME NEW r \in Of(e), NEW p \in Place
               PROVE  Chain(imported[r], <<>>, TRUE, xacq[r], r, p)
    BY <1>3
  <2>1. imported[r] \notin {p, Broken}
    BY <1>3, ConstantsAssumption
  <2> QED BY <2>1, ChainOther
<1>7. (link'[e] = "up") = TRUE
  BY <1>2
<1> QED BY <1>1, <1>2, <1>3, <1>4, <1>5, <1>6, <1>7, OneExporter

(* The process of an exporter ends.                                        *)
LEMMA CrashNet ==
  ASSUME TypeInv, NetInv, FreshInv, NEW e \in Exporter, Crash(e)
  PROVE  /\ NetInv' /\ FreshInv'
         /\ \A r \in Resource, p \in Place : Claim(r, p) => Claim(r, p)'
         /\ \A y \in Ref, p \in Place : Owned(y, p) => Owned(y, p)'
<1>1. /\ link[e] = "up" /\ Gone(e)
      /\ UNCHANGED <<imported, pending, cur, wait, lock, opPlace, inbox, session>>
  BY DEF Crash, sessionVars, opVars
<1>2. /\ link'[e] = "down" /\ wire'[e] = <<>>
      /\ \A g \in Exporter : g # e => link'[g] = link[g] /\ wire'[g] = wire[g]
      /\ \A r \in Of(e) : xacq'[r] = Absent
      /\ \A r \in Resource : exporterOf[r] # e => xacq'[r] = xacq[r]
  BY <1>1 DEF Gone, TypeInv, TypeOK, Of
<1>3. /\ pending[e] \in Seq(PendingCommand) /\ wire[e] \in Seq(Command) /\ Len(pending[e]) \in Nat
      /\ Len(inbox[e]) \in Nat
  BY Types
<1>4. InOrder(inbox[e], wire'[e], pending[e], FALSE)
  BY <1>2, <1>3, ExporterNow, MatchedGone
<1>5. Granted(inbox[e], FALSE, imported, xacq')
  BY <1>3, ExporterNow, GrantedOther
<1>6. AboutOwn(wire'[e], e) /\ \A r, p : Told(wire'[e], r, p)
  BY <1>2 DEF AboutOwn, Told
<1>7. \A r \in Of(e), p \in Place : Claim(r, p) => Chain(imported[r], inbox[e], FALSE, xacq'[r], r, p)
  BY ExporterNow, ChainOther
<1>8. (link'[e] = "up") = FALSE
  BY <1>2
<1> QED BY <1>1, <1>2, <1>4, <1>5, <1>6, <1>7, <1>8, ExporterNow, OneExporter

(* A resource appears or breaks, or its breaking is reported.              *)
LEMMA ResourceNet ==
  ASSUME TypeInv, NetInv, FreshInv, NEW r \in Resource, ResourceStep(r)
  PROVE  /\ NetInv' /\ FreshInv'
         /\ \A s \in Resource, p \in Place : Claim(s, p) => Claim(s, p)'
         /\ \A y \in Ref, p \in Place : Owned(y, p) => Owned(y, p)'
<1> DEFINE e == exporterOf[r]
<1>0. e \in Exporter /\ exporterOf[r] = e
  BY Types
<1> HIDE DEF e
<1>1. UNCHANGED <<imported, pending, cur, wait, lock, opPlace, session, link, wire>>
  BY DEF ResourceStep, AddResource, PollBreaks, PollReports, sessionVars, opVars, netVars
<1>2. link[e] = "up"
  <2>1. CASE AddResource(r)
    BY <1>0, <2>1 DEF AddResource
  <2>2. CASE PollBreaks(r) \/ PollReports(r)
    <3>1. xacq[r] \in Place \/ xacq[r] = Broken
      BY <2>2 DEF PollBreaks, PollReports, TypeInv, DirtyIsBroken
    <3>2. xacq[r] # Absent
      BY <3>1, ConstantsAssumption
    <3> QED BY <1>0, <3>2, ExporterNow, Types DEF Of
  <2> QED BY <2>1, <2>2 DEF ResourceStep
<1>3. (link'[e] = "up") = TRUE /\ session[e] = "open"
  BY <1>0, <1>1, <1>2, ExporterNow
<1>4. /\ inbox[e] \in Seq(Update \cup Response) /\ Len(inbox[e]) \in Nat
      /\ AboutOwn(inbox[e], e) /\ AboutOwn(wire[e], e)
      /\ InOrder(inbox[e], wire[e], pending[e], TRUE)
      /\ Granted(inbox[e], TRUE, imported, xacq)
      /\ \A s \in Of(e), p \in Place : Claim(s, p) =>
           /\ s \in Resource /\ Told(wire[e], s, p)
           /\ Chain(imported[s], inbox[e], TRUE, xacq[s], s, p)
  <2>1. (link[e] = "up") = TRUE
    BY <1>2
  <2> QED BY <1>0, <2>1, ExporterNow, Types
<1>5. CASE PollBreaks(r)
  <2>1. /\ xacq[r] \in Place /\ xacq' = [xacq EXCEPT ![r] = Broken] /\ inbox' = inbox
    BY <1>5 DEF PollBreaks, netVars
  <2>2. \A s \in Resource : xacq'[s] = IF s = r THEN Broken ELSE xacq[s]
    BY <2>1 DEF TypeInv, TypeOK
  <2>3. Granted(inbox[e], TRUE, imported, xacq')
    <3>1. \A i \in 1..Len(inbox[e]) :
            xacq'[inbox[e][i].res] = xacq[inbox[e][i].res] \/ xacq'[inbox[e][i].res] = Broken
      BY <1>0, <2>2, Types
    <3> QED BY <1>4, <3>1, GrantedOther
  <2>4. \A s \in Of(e), p \in Place : Claim(s, p) =>
          Chain(imported[s], inbox[e], TRUE, xacq'[s], s, p)
    BY <1>4, <2>2, ChainOther
  <2>5. \A s \in Resource : exporterOf[s] # e => xacq'[s] = xacq[s]
    BY <1>0, <2>2
  <2> QED BY <1>0, <1>1, <1>2, <1>3, <1>4, <2>1, <2>3, <2>4, <2>5, OneExporter
<1>6. CASE AddResource(r) \/ PollReports(r)
  <2>1. PICK a \in Acquirer :
          /\ (a = Broken /\ xacq[r] = Broken) \/ xacq[r] = Absent
          /\ inbox' = [inbox EXCEPT ![e] = Append(@, Updated(r, a))]
          /\ \A s \in Resource : xacq'[s] = IF s = r THEN a ELSE xacq[s]
    <3>1. CASE AddResource(r)
      <4>1. /\ xacq[r] = Absent /\ xacq' = [xacq EXCEPT ![r] = None]
            /\ inbox' = [inbox EXCEPT ![e] = Append(@, Updated(r, None))]
        BY <3>1 DEF AddResource, e
      <4> QED BY <4>1 DEF TypeInv, TypeOK, Acquirer
    <3>2. CASE PollReports(r)
      <4>1. /\ xacq[r] = Broken /\ xacq' = xacq
            /\ inbox' = [inbox EXCEPT ![e] = Append(@, Updated(r, Broken))]
        BY <3>2 DEF PollReports, e, TypeInv, DirtyIsBroken
      <4> QED BY <4>1 DEF Acquirer
    <3> QED BY <1>6, <3>1, <3>2
  <2> DEFINE m == Updated(r, a)
  <2>2. /\ m \in Update \cup Response /\ m.kind = "upd" /\ m.res = r /\ m.acq = a
    BY DEF Updated, Update
  <2> HIDE DEF m
  <2>3. inbox'[e] = Append(inbox[e], m) /\ \A g \in Exporter : g # e => inbox'[g] = inbox[g]
    BY <1>0, <2>1 DEF m, TypeInv, TypeOK
  <2>4. AboutOwn(Append(inbox[e], m), e)
    BY <1>0, <1>4, <2>2, AboutSteps
  <2>5. InOrder(Append(inbox[e], m), wire[e], pending[e], TRUE)
    BY <1>4, <2>2, MatchedNews
  <2>6. Granted(Append(inbox[e], m), TRUE, imported, xacq')
    <3>1. \A i \in 1..Len(inbox[e]) : inbox[e][i].kind = "resp" => inbox[e][i].to # Absent
      BY <1>0, Types, ConstantsAssumption
    <3>2. \A i \in 1..Len(inbox[e]) :
            xacq'[inbox[e][i].res] = xacq[inbox[e][i].res] \/ xacq[inbox[e][i].res] = Absent
      BY <1>0, <2>1, Types
    <3> QED BY <1>4, <2>1, <2>2, <3>1, <3>2, GrantedNews
  <2>7. ASSUME NEW s \in Of(e), NEW p \in Place, Claim(s, p)
        PROVE  Chain(imported[s], Append(inbox[e], m), TRUE, xacq'[s], s, p)
    <3>1. s \in Resource /\ Chain(imported[s], inbox[e], TRUE, xacq[s], s, p)
      BY <1>4, <2>7
    <3>2. Absent \notin {p, Broken}
      BY ConstantsAssumption
    <3>3. xacq[s] \in {p, Broken} => xacq'[s] \in {p, Broken}
      BY <2>1, <3>1, <3>2
    <3>4. IsUpdate(m, s) => /\ xacq[s] \in {p, Broken} => m.acq \in {p, Broken}
                            /\ m.acq \in {p, Broken} => xacq'[s] \in {p, Broken}
      BY <2>1, <2>2, <3>1, <3>2 DEF IsUpdate
    <3> QED BY <1>4, <2>2, <3>1, <3>3, <3>4, ChainAppend
  <2>8. \A s \in Resource : exporterOf[s] # e => xacq'[s] = xacq[s]
    BY <1>0, <2>1
  <2>9. /\ AboutOwn(inbox'[e], e) /\ AboutOwn(wire'[e], e)
        /\ InOrder(inbox'[e], wire'[e], pending[e], link'[e] = "up")
        /\ Granted(inbox'[e], link'[e] = "up", imported, xacq')
        /\ \A s \in Of(e), p \in Place : Claim(s, p) =>
             Told(wire'[e], s, p) /\ Chain(imported[s], inbox'[e], link'[e] = "up", xacq'[s], s, p)
    BY <1>1, <1>3, <1>4, <2>3, <2>4, <2>5, <2>6, <2>7
  <2> HIDE DEF m
  <2> QED BY <1>0, <1>1, <1>2, <1>3, <2>3, <2>8, <2>9, OneExporter
<1> QED BY <1>5, <1>6 DEF ResourceStep

(* An answer puts one or two messages into the inbox.                      *)
LEMMA AnswerFacts ==
  ASSUME TypeInv, NEW e \in Exporter, NEW c \in Command,
         NEW a \in Acquirer \cup {Absent}, NEW ok \in BOOLEAN, Answer(e, c, a, ok)
  PROVE  \E d \in Response :
           /\ d.res = c.res /\ d.to = c.to /\ d.ok = ok
           /\ inbox'[e] = Append(IF a = Absent THEN inbox[e]
                                 ELSE Append(inbox[e], Updated(c.res, a)), d)
           /\ \A g \in Exporter : g # e => inbox'[g] = inbox[g]
<1> DEFINE M == Update \cup Response
           s == inbox[e]
           u == Updated(c.res, a)
           d == [kind |-> "resp", res |-> c.res, to |-> c.to, ok |-> ok]
<1>1. s \in Seq(M)
  BY Types
<1>2. d \in Response /\ d \in M /\ d.res = c.res /\ d.to = c.to /\ d.ok = ok
  BY DEF Response, Command
<1>3. a # Absent => u \in M
  BY DEF Updated, Update, Command
<1>4. inbox' = [inbox EXCEPT ![e] = s \o (IF a = Absent THEN <<>> ELSE <<u>>) \o <<d>>]
  BY DEF Answer
<1> HIDE DEF u, d, s, M
<1>5. s \o (IF a = Absent THEN <<>> ELSE <<u>>) \o <<d>>
        = Append(IF a = Absent THEN s ELSE Append(s, u), d)
  <2>1. CASE a = Absent
    <3>1. (s \o <<>>) \o <<d>> = Append(s, d)
      BY <1>1, <1>2
    <3> QED BY <2>1, <3>1
  <2>2. CASE a # Absent
    <3>1. (s \o <<u>>) \o <<d>> = Append(Append(s, u), d)
      BY <1>1, <1>2, <1>3, <2>2
    <3> QED BY <2>2, <3>1
  <2> QED BY <2>1, <2>2
<1>6. /\ inbox'[e] = Append(IF a = Absent THEN s ELSE Append(s, u), d)
      /\ \A g \in Exporter : g # e => inbox'[g] = inbox[g]
  BY <1>4, <1>5 DEF TypeInv, TypeOK
<1> QED BY <1>2, <1>6 DEF s, u

(* The answer to command c: next is what is then under way, and rec what   *)
(* the exporter has recorded, where it had old.                            *)
Reply(box, next, c, a, d, old, rec) ==
  /\ d \in Response /\ Same(d, c)
  /\ next = Append(IF a = Absent THEN box ELSE Append(box, Updated(d.res, a)), d)
  /\ rec[d.res] = IF a = Absent THEN old[d.res] ELSE a
  /\ \A r \in Resource : r # d.res => rec[r] = old[r]
  /\ d.to # None => a \in {d.to, Broken, Absent}
  /\ d.to # None /\ d.ok => a = d.to

(* The exporter answers the command at the head of its queue: it records a *)
(* (unless that is Absent) and says so before its response d.              *)
LEMMA AnswerNet ==
  ASSUME TypeInv, NetInv, NEW e \in Exporter, link[e] = "up", wire[e] # <<>>,
         NEW a \in Acquirer \cup {Absent}, NEW d, NEW rec, NEW next,
         Reply(inbox[e], next, Head(wire[e]), a, d, xacq, rec)
  PROVE  /\ AboutOwn(next, e) /\ AboutOwn(Tail(wire[e]), e)
         /\ InOrder(next, Tail(wire[e]), pending[e], TRUE)
         /\ Granted(next, TRUE, imported, rec)
         /\ \A r \in Of(e), p \in Place : Claim(r, p) =>
              /\ Told(Tail(wire[e]), r, p)
              /\ Chain(imported[r], next, TRUE, rec[r], r, p)
         /\ Tail(wire[e]) \in Seq(Command) /\ Len(next) \in Nat
<1> DEFINE M == Update \cup Response
           s == inbox[e]
           c == Head(wire[e])
           u == Updated(d.res, a)
           t == IF a = Absent THEN s ELSE Append(s, u)
<1>0. /\ d \in Response /\ Same(d, c) /\ next = Append(t, d)
      /\ rec[d.res] = IF a = Absent THEN xacq[d.res] ELSE a
      /\ \A r \in Resource : r # d.res => rec[r] = xacq[r]
      /\ d.to # None => a \in {d.to, Broken, Absent}
      /\ d.to # None /\ d.ok => a = d.to
  BY DEF Reply
<1>1. /\ s \in Seq(M) /\ wire[e] \in Seq(Command) /\ Len(pending[e]) \in Nat
      /\ AboutOwn(s, e) /\ AboutOwn(wire[e], e)
      /\ InOrder(s, wire[e], pending[e], TRUE)
      /\ \A r \in Of(e), p \in Place : Claim(r, p) =>
           /\ r \in Resource /\ Told(wire[e], r, p)
           /\ Chain(imported[r], s, TRUE, xacq[r], r, p)
  <2>1. (link[e] = "up") = TRUE
    OBVIOUS
  <2> QED BY <2>1, ExporterNow, Types
<1>2. /\ d \in M /\ d.kind = "resp" /\ d.res = c.res /\ d.to = c.to
      /\ d.res \in Resource /\ d.to \in Place \cup {None}
  BY <1>0 DEF Response, Same
<1>3. a # Absent => u \in M /\ u.kind = "upd" /\ u.res = d.res /\ u.acq = a
  BY <1>2 DEF Updated, Update
<1>4. next = Append(t, d)
  BY <1>0
<1> HIDE DEF u, s, M
<1>5. t \in Seq(M)
  BY <1>1, <1>3
<1>6. exporterOf[d.res] = e /\ AboutOwn(Tail(wire[e]), e) /\ Tail(wire[e]) \in Seq(Command)
  BY <1>1, <1>2, AboutSteps, TailAt
<1>7. AboutOwn(t, e) /\ InOrder(t, wire[e], pending[e], TRUE)
  <2>1. CASE a = Absent
    BY <1>1, <2>1
  <2>2. CASE a # Absent
    <3>1. AboutOwn(Append(s, u), e)
      BY <1>1, <1>3, <1>6, <2>2, AboutSteps
    <3>2. InOrder(Append(s, u), wire[e], pending[e], TRUE)
      BY <1>1, <1>3, <2>2, MatchedNews
    <3> QED BY <2>2, <3>1, <3>2
  <2> QED BY <2>1, <2>2
<1>8. ASSUME NEW r \in Of(e), NEW p \in Place, Claim(r, p)
      PROVE  Told(Tail(wire[e]), r, p) /\ Chain(imported[r], t, TRUE, rec[r], r, p)
  <2>1. r \in Resource /\ Told(wire[e], r, p) /\ Chain(imported[r], s, TRUE, xacq[r], r, p)
    BY <1>1, <1>8
  <2>2. Told(Tail(wire[e]), r, p)
    BY <1>1, <2>1, ToldSteps
  <2>3. d.res = r => d.to = p
    <3>1. c = wire[e][1] /\ 1 \in 1..Len(wire[e])
      BY <1>1, TailAt
    <3> QED BY <1>2, <2>1, <3>1 DEF Told
  <2>4. p # None
    BY ConstantsAssumption
  <2>5. CASE a = Absent
    <3>1. rec[r] = xacq[r]
      BY <1>0, <2>1, <2>5
    <3> QED BY <2>1, <2>2, <2>5, <3>1
  <2>6. CASE a # Absent
    <3>1. d.res = r => a \in {p, Broken} /\ rec[r] = a
      BY <1>0, <2>3, <2>4, <2>6
    <3>2. d.res # r => rec[r] = xacq[r]
      BY <1>0, <2>1
    <3>3. IsUpdate(u, r) => /\ xacq[r] \in {p, Broken} => u.acq \in {p, Broken}
                            /\ u.acq \in {p, Broken} => rec[r] \in {p, Broken}
      BY <1>3, <2>6, <3>1 DEF IsUpdate
    <3>4. xacq[r] \in {p, Broken} => rec[r] \in {p, Broken}
      BY <3>1, <3>2
    <3>5. Chain(imported[r], Append(s, u), TRUE, rec[r], r, p)
      BY <1>1, <1>3, <2>1, <2>6, <3>3, <3>4, ChainAppend
    <3> QED BY <2>2, <2>6, <3>5
  <2> QED BY <2>5, <2>6
<1>9. d.ok /\ d.to # None =>
        Len(t) > 0 /\ t[Len(t)] = Updated(d.res, d.to) /\ rec[d.res] \in {d.to, Broken}
  <2> SUFFICES ASSUME d.ok, d.to # None
               PROVE  Len(t) > 0 /\ t[Len(t)] = u /\ a = d.to /\ rec[d.res] = d.to
    BY DEF u
  <2>1. a = d.to /\ a # Absent /\ rec[d.res] = a
    BY <1>0, <1>2, ConstantsAssumption
  <2>2. t = Append(s, u) /\ Len(t) = Len(s) + 1 /\ t[Len(s) + 1] = u /\ Len(s) \in Nat
    BY <1>1, <1>3, <2>1, AppendAt
  <2> QED BY <2>1, <2>2
<1> HIDE DEF t
<1>10. AboutOwn(Append(t, d), e)
  BY <1>2, <1>5, <1>6, <1>7, AboutSteps
<1>11. InOrder(Append(t, d), Tail(wire[e]), pending[e], TRUE)
  <2>1. Same(d, Head(wire[e]))
    BY <1>2 DEF Same
  <2> QED BY <1>1, <1>2, <1>5, <1>7, <2>1, MatchedAnswer
<1>12. Granted(Append(t, d), TRUE, imported, rec)
  BY <1>2, <1>5, <1>9, GrantedAnswer
<1>13. ASSUME NEW r \in Of(e), NEW p \in Place, Claim(r, p)
       PROVE  Chain(imported[r], Append(t, d), TRUE, rec[r], r, p)
  <2>1. ~IsUpdate(d, r)
    BY <1>2 DEF IsUpdate
  <2>2. Chain(imported[r], t, TRUE, rec[r], r, p)
    BY <1>8, <1>13
  <2> QED BY <1>2, <1>5, <2>1, <2>2, ChainAppend
<1>14. Len(Append(t, d)) \in Nat
  BY <1>2, <1>5
<1> QED BY <1>4, <1>6, <1>8, <1>10, <1>11, <1>12, <1>13, <1>14

(* An exporter handles a command.                                          *)
LEMMA HandleNet ==
  ASSUME TypeInv, NetInv, FreshInv, NEW e \in Exporter, Handle(e)
  PROVE  /\ NetInv' /\ FreshInv'
         /\ \A r \in Resource, p \in Place : Claim(r, p) => Claim(r, p)'
         /\ \A y \in Ref, p \in Place : Owned(y, p) => Owned(y, p)'
<1> USE ConstantsAssumption
<1> DEFINE c == Head(wire[e])
<1>1. /\ link[e] = "up" /\ wire[e] # <<>>
      /\ HandleAcquire(e, c) \/ HandleRelease(e, c)
      /\ wire' = [wire EXCEPT ![e] = Tail(@)]
      /\ UNCHANGED <<imported, pending, cur, wait, lock, opPlace, session>>
  BY DEF Handle, sessionVars, opVars
<1>2. c \in Command
  BY <1>1, Types
<1>3. c = Head(wire[e])
  OBVIOUS
<1> HIDE DEF c
<1>4. c.res \in Resource /\ c.to \in Place \cup {None} /\ xacq[c.res] \in Acquirer \cup {Absent}
  BY <1>2, Types DEF Command
<1>5. link' = link
  BY <1>1 DEF HandleAcquire, HandleRelease
<1>6. PICK a \in Acquirer \cup {Absent}, ok \in BOOLEAN :
        /\ Answer(e, c, a, ok)
        /\ xacq' = IF a = Absent THEN xacq ELSE [xacq EXCEPT ![c.res] = a]
        /\ c.to # None => a \in {c.to, Broken, Absent}
        /\ ok = TRUE /\ c.to # None => a = c.to
  <2> DEFINE Good(a, ok) ==
               /\ Answer(e, c, a, ok)
               /\ xacq' = IF a = Absent THEN xacq ELSE [xacq EXCEPT ![c.res] = a]
               /\ c.to # None => a \in {c.to, Broken, Absent}
               /\ ok = TRUE /\ c.to # None => a = c.to
  <2>1. CASE HandleAcquire(e, c)
    <3>1. \/ Answer(e, c, Absent, FALSE) /\ xacq' = xacq
          \/ Answer(e, c, c.to, TRUE) /\ xacq' = [xacq EXCEPT ![c.res] = c.to] /\ c.to # None
          \/ Answer(e, c, Broken, FALSE) /\ xacq' = [xacq EXCEPT ![c.res] = Broken]
      BY <2>1 DEF HandleAcquire
    <3>2. c.to # Absent /\ c.to \in Acquirer /\ Broken \in Acquirer
      BY <1>4 DEF Acquirer
    <3>3. Good(Absent, FALSE) \/ Good(c.to, TRUE) \/ Good(Broken, FALSE)
      BY <3>1, <3>2
    <3> HIDE DEF Good
    <3>4. \E a \in Acquirer \cup {Absent}, ok \in BOOLEAN : Good(a, ok)
      BY <3>2, <3>3
    <3> QED BY <3>4 DEF Good
  <2>2. CASE HandleRelease(e, c)
    <3>1. /\ c.to = None
          /\ \/ Answer(e, c, Broken, FALSE) /\ xacq[c.res] = Broken /\ xacq' = xacq
             \/ Answer(e, c, Absent, FALSE) /\ xacq' = xacq
             \/ Answer(e, c, None, TRUE) /\ xacq' = [xacq EXCEPT ![c.res] = None]
      BY <1>4, <2>2 DEF HandleRelease, Acquirer
    <3>2. xacq[c.res] = Broken => xacq = [xacq EXCEPT ![c.res] = Broken]
      BY <1>4 DEF TypeInv, TypeOK
    <3>3. Good(Absent, FALSE) \/ Good(None, TRUE) \/ Good(Broken, FALSE)
      BY <3>1, <3>2
    <3> HIDE DEF Good
    <3>4. \E a \in Acquirer \cup {Absent}, ok \in BOOLEAN : Good(a, ok)
      BY <3>3 DEF Acquirer
    <3> QED BY <3>4 DEF Good
  <2> QED BY <1>1, <2>1, <2>2
<1>7. /\ xacq'[c.res] = IF a = Absent THEN xacq[c.res] ELSE a
      /\ \A r \in Resource : r # c.res => xacq'[r] = xacq[r]
  BY <1>4, <1>6 DEF TypeInv, TypeOK
<1>8. /\ \A g \in Exporter : g # e => inbox'[g] = inbox[g]
      /\ AboutOwn(inbox'[e], e) /\ AboutOwn(Tail(wire[e]), e)
      /\ InOrder(inbox'[e], Tail(wire[e]), pending[e], TRUE)
      /\ Granted(inbox'[e], TRUE, imported, xacq')
      /\ \A r \in Of(e), p \in Place : Claim(r, p) =>
           Told(Tail(wire[e]), r, p) /\ Chain(imported[r], inbox'[e], TRUE, xacq'[r], r, p)
  <2>1. PICK d \in Response :
          /\ d.res = c.res /\ d.to = c.to /\ d.ok = ok
          /\ inbox'[e] = Append(IF a = Absent THEN inbox[e]
                                ELSE Append(inbox[e], Updated(c.res, a)), d)
          /\ \A g \in Exporter : g # e => inbox'[g] = inbox[g]
    BY <1>2, <1>6, AnswerFacts
  <2>2. Same(d, Head(wire[e]))
    BY <1>3, <2>1 DEF Same
  <2>3. /\ d.to # None => a \in {d.to, Broken, Absent}
        /\ d.to # None /\ d.ok => a = d.to
    BY <1>6, <2>1
  <2>4. Reply(inbox[e], inbox'[e], Head(wire[e]), a, d, xacq, xacq')
    BY <1>7, <2>1, <2>2, <2>3 DEF Reply
  <2>5. a \in Acquirer \cup {Absent}
    OBVIOUS
  <2> QED BY <1>1, <2>1, <2>4, <2>5, AnswerNet
<1>9. wire'[e] = Tail(wire[e]) /\ \A g \in Exporter : g # e => wire'[g] = wire[g]
  BY <1>1 DEF TypeInv, TypeOK
<1>10. (link'[e] = "up") = TRUE /\ session[e] = "open" /\ exporterOf[c.res] = e
  <2>1. wire[e] \in Seq(Command) /\ AboutOwn(wire[e], e)
    BY ExporterNow, Types
  <2>2. exporterOf[Head(wire[e]).res] = e
    BY <1>1, <2>1, AboutSteps
  <2> QED BY <1>1, <1>3, <1>5, <2>2, ExporterNow
<1>11. /\ AboutOwn(wire'[e], e) /\ AboutOwn(inbox'[e], e)
       /\ InOrder(inbox'[e], wire'[e], pending[e], link'[e] = "up")
       /\ Granted(inbox'[e], link'[e] = "up", imported, xacq')
  BY <1>8, <1>9, <1>10
<1>12. \A r \in Resource : exporterOf[r] # e => xacq'[r] = xacq[r]
  BY <1>7, <1>10
<1>13. \A r \in Of(e), p \in Place : Claim(r, p) =>
         Told(wire'[e], r, p) /\ Chain(imported[r], inbox'[e], link'[e] = "up", xacq'[r], r, p)
  <2> SUFFICES ASSUME NEW r \in Of(e), NEW p \in Place, Claim(r, p)
               PROVE  /\ Told(wire'[e], r, p)
                      /\ Chain(imported[r], inbox'[e], link'[e] = "up", xacq'[r], r, p)
    OBVIOUS
  <2>1. Told(Tail(wire[e]), r, p) /\ Chain(imported[r], inbox'[e], TRUE, xacq'[r], r, p)
    BY <1>8
  <2> QED BY <2>1, <1>9, <1>10
<1> QED BY <1>1, <1>5, <1>8, <1>9, <1>10, <1>11, <1>12, <1>13, OneExporter

(* An exporter fails to stop a resource, answers and ends.                 *)
LEMMA StopFailsNet ==
  ASSUME TypeInv, NetInv, FreshInv, NEW e \in Exporter, HandleStopFails(e)
  PROVE  /\ NetInv' /\ FreshInv'
         /\ \A r \in Resource, p \in Place : Claim(r, p) => Claim(r, p)'
         /\ \A y \in Ref, p \in Place : Owned(y, p) => Owned(y, p)'
<1> USE ConstantsAssumption
<1> DEFINE c == Head(wire[e])
           rec == [xacq EXCEPT ![c.res] = Broken]
<1>1. /\ link[e] = "up" /\ wire[e] # <<>> /\ Gone(e)
      /\ c.to = None /\ Answer(e, c, Broken, FALSE)
      /\ UNCHANGED <<imported, pending, cur, wait, lock, opPlace, session>>
  BY DEF HandleStopFails, sessionVars, opVars
<1>2. c \in Command
  BY <1>1, Types
<1>3. c = Head(wire[e]) /\ Broken \in Acquirer \cup {Absent} /\ FALSE \in BOOLEAN
  BY DEF Acquirer
<1> HIDE DEF c
<1>4. c.res \in Resource
  BY <1>2 DEF Command
<1>5. /\ rec[c.res] = IF Broken = Absent THEN xacq[c.res] ELSE Broken
      /\ \A r \in Resource : r # c.res => rec[r] = xacq[r]
  BY <1>4 DEF TypeInv, TypeOK
<1> HIDE DEF rec
<1>6. /\ \A g \in Exporter : g # e => inbox'[g] = inbox[g]
      /\ AboutOwn(inbox'[e], e)
      /\ InOrder(inbox'[e], Tail(wire[e]), pending[e], TRUE)
      /\ Granted(inbox'[e], TRUE, imported, rec)
      /\ \A r \in Of(e), p \in Place : Claim(r, p) =>
           Told(Tail(wire[e]), r, p) /\ Chain(imported[r], inbox'[e], TRUE, rec[r], r, p)
      /\ Tail(wire[e]) \in Seq(Command) /\ Len(inbox'[e]) \in Nat
  <2>1. PICK d \in Response :
          /\ d.res = c.res /\ d.to = c.to
          /\ inbox'[e] = Append(IF Broken = Absent THEN inbox[e]
                                ELSE Append(inbox[e], Updated(c.res, Broken)), d)
          /\ \A g \in Exporter : g # e => inbox'[g] = inbox[g]
    <3> DEFINE ok == FALSE
    <3>1. ok \in BOOLEAN /\ Answer(e, c, Broken, ok)
      BY <1>1
    <3> HIDE DEF ok
    <3> QED BY <1>2, <1>3, <3>1, AnswerFacts
  <2>2. Same(d, Head(wire[e])) /\ d.to = None
    BY <1>1, <1>3, <2>1 DEF Same
  <2>3. Reply(inbox[e], inbox'[e], Head(wire[e]), Broken, d, xacq, rec)
    BY <1>5, <2>1, <2>2 DEF Reply
  <2> QED BY <1>1, <1>3, <2>1, <2>3, AnswerNet
<1>7. /\ link'[e] = "down" /\ wire'[e] = <<>>
      /\ \A g \in Exporter : g # e => link'[g] = link[g] /\ wire'[g] = wire[g]
      /\ \A r \in Of(e) : xacq'[r] = Absent
      /\ \A r \in Resource : exporterOf[r] # e => xacq'[r] = xacq[r]
  BY <1>1 DEF Gone, TypeInv, TypeOK, Of
<1>8. InOrder(inbox'[e], <<>>, pending[e], FALSE)
  <2>1. Len(pending[e]) \in Nat
    BY Types
  <2> QED BY <1>6, <2>1, MatchedGone
<1>9. Granted(inbox'[e], FALSE, imported, xacq')
  BY <1>6, GrantedOther
<1>10. \A r \in Of(e), p \in Place : Claim(r, p) =>
         Chain(imported[r], inbox'[e], FALSE, xacq'[r], r, p)
  BY <1>6, ChainOther
<1>11. AboutOwn(wire'[e], e) /\ \A r, p : Told(wire'[e], r, p)
  BY <1>7 DEF AboutOwn, Told
<1>12. (link'[e] = "up") = FALSE /\ session[e] = "open"
  BY <1>1, <1>7, ExporterNow
<1>13. /\ AboutOwn(wire'[e], e) /\ AboutOwn(inbox'[e], e)
       /\ InOrder(inbox'[e], wire'[e], pending[e], link'[e] = "up")
       /\ Granted(inbox'[e], link'[e] = "up", imported, xacq')
  BY <1>6, <1>7, <1>8, <1>9, <1>11, <1>12
<1>14. \A r \in Of(e), p \in Place : Claim(r, p) =>
         Told(wire'[e], r, p) /\ Chain(imported[r], inbox'[e], link'[e] = "up", xacq'[r], r, p)
  BY <1>10, <1>11, <1>12
<1> QED BY <1>1, <1>6, <1>7, <1>12, <1>13, <1>14, OneExporter

-----------------------------------------------------------------------------
(* The steps of the coordinator.  First what they have in common.          *)

(* The holder of the lock takes a step that sends nothing and no longer    *)
(* awaits anything.                                                        *)
LEMMA QuietStepNet ==
  ASSUME NetInv, FreshInv, wait # "waiting" \/ cur = {},
         UNCHANGED <<link, xacq, session, imported, wire, inbox, pending>>
  PROVE  /\ NetInv' /\ FreshInv'
         /\ \A y, p : Owned(y, p) => Owned(y, p)'
<1>1. \A e \in Exporter : \A i \in 1..Len(pending[e]) : pending[e][i].expired
  BY NothingFresh
<1>2. FreshInv'
  BY <1>1 DEF FreshInv, Fresh
<1> QED BY <1>2, QuietNet

(* It sends a command: this is then the only one that is awaited.          *)
LEMMA SendFresh ==
  ASSUME TypeInv, FreshInv, cur = {}, NEW x \in Ref, NEW to \in Place \cup {None}, Send(x, to),
         lock' = "acquire" => to = opPlace'
  PROVE  FreshInv'
<1> DEFINE f == exporterOf[x.res]
           d == [res |-> x.res, to |-> to, expired |-> FALSE]
<1>1. /\ \A e \in Exporter : e # f => pending'[e] = pending[e]
      /\ pending'[f] = IF session[f] = "open" THEN Append(pending[f], d) ELSE pending[f]
      /\ f \in Exporter /\ d \in PendingCommand
      /\ cur' = {x} /\ wait' = "waiting"
  BY SendFacts
<1>2. d.res = x.res /\ d.to = to
  OBVIOUS
<1>3. \A e \in Exporter : \A i \in 1..Len(pending[e]) : pending[e][i].expired
  BY NothingFresh
<1> HIDE DEF d, f
<1> SUFFICES ASSUME NEW e \in Exporter, NEW i \in 1..Len(pending'[e]), ~pending'[e][i].expired
             PROVE  /\ i = Len(pending'[e]) /\ pending'[e][i].res = x.res
                    /\ pending'[e][i].to = to
  BY <1>1 DEF FreshInv, Fresh
<1>4. pending'[e] # pending[e]
  BY <1>3
<1>5. e = f /\ pending'[e] = Append(pending[e], d)
  BY <1>1, <1>4
<1>6. /\ Len(pending'[e]) = Len(pending[e]) + 1 /\ Len(pending[e]) \in Nat
      /\ pending'[e][Len(pending[e]) + 1] = d
      /\ \A j \in 1..Len(pending[e]) : pending'[e][j] = pending[e][j]
  <2>1. pending[e] \in Seq(PendingCommand)
    BY Types
  <2> QED BY <1>1, <1>5, <2>1, AppendAt
<1>7. i = Len(pending[e]) + 1
  BY <1>3, <1>6
<1> QED BY <1>2, <1>6, <1>7

(* It sends a command, and what is owned by another place, or by the one   *)
(* it sends for, stays so.                                                 *)
LEMMA SendOwned ==
  ASSUME TypeInv, NetInv, FreshInv, cur = {},
         NEW x \in Ref, NEW to \in Place \cup {None}, Send(x, to),
         UNCHANGED <<exporterVars, sessionVars>>,
         lock' = "acquire" => to = opPlace'
  PROVE  /\ NetInv' /\ FreshInv' /\ cur' = {x} /\ wait' = "waiting"
         /\ \A y \in Ref, p \in Place :
              (Owned(y, p) /\ (x.res = y.res => to = p)) => Owned(y, p)'
<1>1. NetInv' /\ \A r \in Resource, p \in Place : (Claim(r, p) /\ (x.res = r => to = p)) => Claim(r, p)'
  BY SendNet
<1>2. imported' = imported
  BY DEF sessionVars
<1>3. \A y \in Ref, p \in Place : (Owned(y, p) /\ (x.res = y.res => to = p)) => Owned(y, p)'
  BY <1>1, <1>2, Types DEF Owned, AcquiredBy
<1>4. cur' = {x} /\ wait' = "waiting"
  BY DEF Send
<1> QED BY <1>1, <1>3, <1>4, SendFresh

(* The holder of the lock waits, and what it knows stays as it is.         *)
LEMMA HolderWaits ==
  ASSUME Inv, HeldInv, HolderInv,
         UNCHANGED <<held, lock, opPlace, todo, got, cur, acqd, orph>>,
         \A y \in Ref, p \in Place : Owned(y, p) => Owned(y, p)',
         lock = "acquire" => \A r \in Resource : Reborn(r) => Reborn(r)',
         (lock = "acquire" /\ wait' = "ok" /\ wait # "ok") => \A x \in cur : Owned(x, opPlace)'
  PROVE  HeldInv' /\ HolderInv'
<1>1. /\ lock \in {"acquire", "release"} => opPlace \in Place
      /\ \A p \in Place : held[p] \subseteq Ref
      /\ todo \subseteq Ref /\ got \subseteq Ref /\ cur \subseteq Ref
      /\ \A x \in Ref : x.res \in Resource
  BY Types DEF Inv, LockInv
<1>2. HeldInv'
  BY <1>1 DEF HeldInv
<1>3. AcquireInv'
  BY <1>1 DEF HolderInv, AcquireInv
<1>4. ReleaseInv'
  BY <1>1 DEF HolderInv, ReleaseInv
<1>5. SyncInv'
  BY DEF HolderInv, SyncInv, Paths, HeldRefs, Orphans
<1> QED BY <1>2, <1>3, <1>4, <1>5 DEF HolderInv

(* The lock is given back.                                                 *)
LEMMA HolderDone == lock' = "idle" => HolderInv'
BY DEF HolderInv, AcquireInv, ReleaseInv, SyncInv

(* The list of a place that keeps what it has stays its own.               *)
LEMMA HeldKept ==
  ASSUME TypeInv, HeldInv, \A p \in Place : held'[p] \subseteq held[p],
         \A p \in Place : \A y \in held[p] : Owned(y, p) => Owned(y, p)'
  PROVE  HeldInv'
BY Types DEF HeldInv

-----------------------------------------------------------------------------
(* AcquirePlace: what it has got is its own, and what it has yet to ask    *)
(* for is in the list of nobody.                                           *)
LEMMA AcquireMsg ==
  ASSUME MsgInv,
         \/ \E p \in Place, R \in SUBSET Resource : AcquirePlace(p, R)
         \/ AcquireSend \/ AcquireResume \/ AcquireFinish
  PROVE  NetInv' /\ FreshInv' /\ HeldInv' /\ HolderInv'
<1> USE DEF MsgInv
<1>0. /\ TypeInv /\ ClaimsStand /\ (lock = "idle" => cur = {})
      /\ lock = "acquire" => opPlace \in Place
      /\ \A p \in Place : held[p] \subseteq Ref
      /\ todo \subseteq Ref /\ got \subseteq Ref /\ cur \subseteq Ref
  BY Types DEF Inv, ExclusiveInv, LockInv
<1>1. ASSUME NEW p \in Place, NEW R \in SUBSET Resource, AcquirePlace(p, R)
      PROVE  NetInv' /\ FreshInv' /\ HeldInv' /\ HolderInv'
  <2>1. /\ lock = "idle" /\ cur = {} /\ cur' = {} /\ got' = {}
        /\ todo' = {LiveRef(r) : r \in R} /\ lock' = "acquire" /\ held' = held
        /\ UNCHANGED <<link, xacq, session, imported, wire, inbox, pending>>
    BY <1>0, <1>1 DEF AcquirePlace, LockFree, exporterVars, sessionVars, netVars
  <2>2. NetInv' /\ FreshInv' /\ \A y, q : Owned(y, q) => Owned(y, q)'
    BY <2>1, QuietStepNet
  <2>3. HeldInv'
    BY <1>0, <2>1, <2>2, HeldKept
  <2>4. \A x \in todo' : x.kind = "live"
    BY <2>1 DEF LiveRef
  <2>5. HolderInv'
    BY <2>1, <2>4 DEF HolderInv, AcquireInv, ReleaseInv, SyncInv
  <2> QED BY <2>2, <2>3, <2>5
<1>2. ASSUME AcquireFailed, lock = "acquire", cur' = {}, held' = held,
             UNCHANGED <<link, xacq, session, imported, wire, inbox, pending, opPlace>>,
             wait # "waiting" \/ cur = {}
      PROVE  NetInv' /\ FreshInv' /\ HeldInv' /\ HolderInv'
  <2>1. lock' = "release" /\ todo' = got
    BY <1>2 DEF AcquireFailed
  <2>2. NetInv' /\ FreshInv' /\ \A y, q : Owned(y, q) => Owned(y, q)'
    BY <1>2, QuietStepNet
  <2>3. HeldInv'
    BY <1>0, <1>2, <2>2, HeldKept
  <2>4. \A x \in got : Owned(x, opPlace)
    BY <1>2 DEF HolderInv, AcquireInv
  <2>5. Distinct(got) /\ \A p \in Place : \A x \in got, y \in held[p] : x.res # y.res
    BY <1>0, <1>2 DEF ClaimsStand, Claimed, Distinct
  <2>6. Distinct(todo')
    BY <2>1, <2>5
  <2>7. ReleaseInv'
    BY <1>2, <2>1, <2>2, <2>4, <2>5, <2>6 DEF ReleaseInv, Distinct
  <2>8. HolderInv'
    BY <2>1, <2>7 DEF HolderInv, AcquireInv, SyncInv
  <2> QED BY <2>2, <2>3, <2>8
<1>3. ASSUME AcquireSend
      PROVE  NetInv' /\ FreshInv' /\ HeldInv' /\ HolderInv'
  <2>1. /\ lock = "acquire" /\ cur = {} /\ held' = held /\ opPlace' = opPlace
        /\ UNCHANGED <<exporterVars, sessionVars>>
        /\ UNCHANGED <<link, xacq, session, imported, blocked>>
    BY <1>3 DEF AcquireSend, exporterVars, sessionVars, placeVars
  <2>2. PICK x \in todo :
          IF session[exporterOf[x.res]] = "none"
          THEN AcquireFailed /\ UNCHANGED <<netVars, cur, wait>>
          ELSE Send(x, opPlace) /\ todo' = todo \ {x} /\ UNCHANGED <<lock, got>>
    BY <1>3 DEF AcquireSend
  <2>3. CASE session[exporterOf[x.res]] = "none"
    BY <1>2, <2>1, <2>2, <2>3 DEF netVars
  <2>4. CASE session[exporterOf[x.res]] # "none"
    <3>1. /\ Send(x, opPlace) /\ todo' = todo \ {x} /\ lock' = lock /\ got' = got
          /\ x \in Ref /\ opPlace \in Place \cup {None}
      BY <1>0, <2>1, <2>2, <2>4
    <3>2. /\ NetInv' /\ FreshInv' /\ cur' = {x} /\ wait' = "waiting"
          /\ \A y \in Ref, p \in Place :
               (Owned(y, p) /\ (x.res = y.res => opPlace = p)) => Owned(y, p)'
      BY <1>0, <2>1, <3>1, SendOwned
    <3>3. \A p \in Place : \A y \in held[p] : x.res # y.res
      BY <1>0, <2>1, <2>2 DEF ClaimsStand, Claimed
    <3>4. HeldInv'
      BY <1>0, <2>1, <3>2, <3>3, HeldKept
    <3>5. \A y \in got : Owned(y, opPlace)'
      <4>1. \A y \in got : Owned(y, opPlace) /\ y \in Ref
        BY <1>0, <2>1 DEF HolderInv, AcquireInv
      <4> QED BY <1>0, <2>1, <3>2, <4>1
    <3>6. \A y \in todo : y.kind # "live" => Reborn(y.res)'
      BY <2>1 DEF HolderInv, AcquireInv, Reborn
    <3>7. AcquireInv'
      BY <2>1, <2>2, <3>1, <3>2, <3>5, <3>6 DEF AcquireInv
    <3>8. HolderInv'
      BY <2>1, <3>1, <3>7 DEF HolderInv, ReleaseInv, SyncInv
    <3> QED BY <3>2, <3>4, <3>8
  <2> QED BY <2>3, <2>4
<1>4. ASSUME AcquireResume
      PROVE  NetInv' /\ FreshInv' /\ HeldInv' /\ HolderInv'
  <2>1. /\ lock = "acquire" /\ wait # "waiting" /\ cur' = {} /\ wait' = "none"
        /\ held' = held /\ opPlace' = opPlace
        /\ UNCHANGED <<link, xacq, session, imported, blocked, wire, inbox, pending>>
    BY <1>4 DEF AcquireResume, Answered, Awaited, exporterVars, sessionVars, placeVars, netVars
  <2>2. CASE wait = "ok"
    <3>1. got' = got \cup cur /\ lock' = lock /\ todo' = todo
      BY <1>4, <2>2 DEF AcquireResume
    <3>2. NetInv' /\ FreshInv' /\ \A y, q : Owned(y, q) => Owned(y, q)'
      BY <2>1, QuietStepNet
    <3>3. HeldInv'
      BY <1>0, <2>1, <3>2, HeldKept
    <3>4. \A y \in got \cup cur : Owned(y, opPlace)
      BY <2>1, <2>2 DEF HolderInv, AcquireInv
    <3>5. \A y \in todo : y.kind # "live" => Reborn(y.res)'
      BY <2>1 DEF HolderInv, AcquireInv, Reborn
    <3>6. AcquireInv'
      BY <2>1, <3>1, <3>2, <3>4, <3>5 DEF AcquireInv
    <3>7. HolderInv'
      BY <2>1, <3>1, <3>6 DEF HolderInv, ReleaseInv, SyncInv
    <3> QED BY <3>2, <3>3, <3>7
  <2>3. CASE wait # "ok"
    <3>1. AcquireFailed
      BY <1>4, <2>3 DEF AcquireResume
    <3> QED BY <1>2, <2>1, <3>1
  <2> QED BY <2>2, <2>3
<1>5. ASSUME AcquireFinish
      PROVE  NetInv' /\ FreshInv' /\ HeldInv' /\ HolderInv'
  <2>1. /\ lock = "acquire" /\ cur = {} /\ lock' = "idle"
        /\ held' = [held EXCEPT ![opPlace] = @ \cup got]
        /\ UNCHANGED <<link, xacq, session, imported, wire, inbox, pending>>
    BY <1>5 DEF AcquireFinish, exporterVars, sessionVars, netVars
  <2>2. NetInv' /\ FreshInv' /\ \A y, q : Owned(y, q) => Owned(y, q)'
    BY <2>1, QuietStepNet
  <2>3. \A y \in got : Owned(y, opPlace)
    BY <2>1 DEF HolderInv, AcquireInv
  <2>4. ASSUME NEW p \in Place, NEW y \in held'[p]
        PROVE  Owned(y, p)
    <3>1. y \in held[p] \/ (p = opPlace /\ y \in got)
      BY <1>0, <2>1, Types
    <3> QED BY <2>3, <3>1 DEF HeldInv
  <2>5. HeldInv'
    BY <2>2, <2>4 DEF HeldInv
  <2> QED BY <2>1, <2>2, <2>5, HolderDone
<1> QED BY <1>1, <1>3, <1>4, <1>5

(* ReleasePlace: what it has to release is its own still, and in the list  *)
(* of nobody.                                                              *)
LEMMA ReleaseMsg ==
  ASSUME MsgInv,
         (\E p \in Place : ReleasePlace(p)) \/ ReleaseSend \/ ReleaseResume \/ ReleaseFinish
  PROVE  NetInv' /\ FreshInv' /\ HeldInv' /\ HolderInv'
<1> USE DEF MsgInv
<1>0. /\ TypeInv /\ ResourceExclusive /\ (lock = "idle" => cur = {})
      /\ lock = "release" => opPlace \in Place
      /\ held \in [Place -> SUBSET Ref] /\ todo \subseteq Ref
  BY Types DEF Inv, ExclusiveInv, LockInv
<1>1. ASSUME NEW p \in Place, ReleasePlace(p)
      PROVE  NetInv' /\ FreshInv' /\ HeldInv' /\ HolderInv'
  <2>1. /\ lock = "idle" /\ cur = {} /\ lock' = "release" /\ opPlace' = p
        /\ todo' = held[p] /\ held' = [held EXCEPT ![p] = {}]
        /\ UNCHANGED <<link, xacq, session, imported, wire, inbox, pending>>
    BY <1>0, <1>1 DEF ReleasePlace, LockFree, exporterVars, sessionVars, netVars
  <2>2. NetInv' /\ FreshInv' /\ \A y, q : Owned(y, q) => Owned(y, q)'
    BY <2>1, QuietStepNet
  <2>3. held'[p] = {} /\ \A q \in Place : q # p => held'[q] = held[q]
    BY <1>0, <2>1
  <2>4. HeldInv'
    BY <1>0, <2>2, <2>3, HeldKept
  <2>5. Distinct(held[p])
    BY <1>0 DEF ResourceExclusive, Distinct
  <2>6. \A q \in Place : \A x \in held[p], y \in held'[q] : x.res # y.res
    BY <1>0, <2>3 DEF ResourceExclusive
  <2>7. \A x \in held[p] : Owned(x, p)'
    BY <2>2 DEF HeldInv
  <2>8. ReleaseInv'
    BY <2>1, <2>5, <2>6, <2>7 DEF ReleaseInv, Distinct
  <2>9. HolderInv'
    BY <2>1, <2>8 DEF HolderInv, AcquireInv, SyncInv
  <2> QED BY <2>2, <2>4, <2>9
<1>2. ASSUME lock = "release", wait # "waiting" \/ cur = {}, todo' \subseteq todo, held' = held,
             lock' = "idle" \/ (lock' = lock /\ opPlace' = opPlace),
             UNCHANGED <<link, xacq, session, imported, wire, inbox, pending>>
      PROVE  NetInv' /\ FreshInv' /\ HeldInv' /\ HolderInv'
  <2>2. NetInv' /\ FreshInv' /\ \A y, q : Owned(y, q) => Owned(y, q)'
    BY <1>2, QuietStepNet
  <2>3. HeldInv'
    BY <1>0, <1>2, <2>2, HeldKept
  <2>4. ReleaseInv'
    BY <1>2, <2>2 DEF HolderInv, ReleaseInv, Distinct
  <2>5. HolderInv'
    BY <1>2, <2>4 DEF HolderInv, AcquireInv, SyncInv
  <2> QED BY <2>2, <2>3, <2>5
<1>3. ASSUME ReleaseSend
      PROVE  NetInv' /\ FreshInv' /\ HeldInv' /\ HolderInv'
  <2>1. /\ lock = "release" /\ cur = {} /\ held' = held
        /\ UNCHANGED <<exporterVars, sessionVars>>
        /\ UNCHANGED <<link, xacq, session, imported>>
    BY <1>3 DEF ReleaseSend, exporterVars, sessionVars, placeVars
  <2>2. PICK x \in todo :
          \/ todo' = todo \ {x} /\ UNCHANGED <<lock, opPlace, netVars>>
          \/ lock' = "idle" /\ todo' = {} /\ UNCHANGED netVars
          \/ Send(x, None) /\ todo' = todo \ {x} /\ UNCHANGED <<lock, opPlace>>
    BY <1>3 DEF ReleaseSend
  <2>3. CASE todo' = todo \ {x} /\ UNCHANGED <<lock, opPlace, netVars>>
    BY <1>2, <2>1, <2>3 DEF netVars
  <2>4. CASE lock' = "idle" /\ todo' = {} /\ UNCHANGED netVars
    BY <1>2, <2>1, <2>4 DEF netVars
  <2>5. CASE Send(x, None) /\ todo' = todo \ {x} /\ UNCHANGED <<lock, opPlace>>
    <3>1. x \in Ref /\ None \in Place \cup {None} /\ lock' # "acquire"
      BY <1>0, <2>1, <2>5
    <3>2. /\ NetInv' /\ FreshInv'
          /\ \A y \in Ref, p \in Place :
               (Owned(y, p) /\ (x.res = y.res => None = p)) => Owned(y, p)'
      BY <1>0, <2>1, <2>5, <3>1, SendOwned
    <3>3. /\ \A p \in Place : \A y \in held[p] : x.res # y.res
          /\ \A y \in todo' : x.res # y.res /\ y \in todo /\ y \in Ref /\ Owned(y, opPlace)
          /\ Distinct(todo)
          /\ \A p \in Place : \A z \in todo, y \in held[p] : z.res # y.res
      BY <1>0, <2>1, <2>2, <2>5 DEF HolderInv, ReleaseInv, Distinct
    <3>4. HeldInv'
      BY <1>0, <2>1, <3>2, <3>3, HeldKept
    <3>5. \A y \in todo' : Owned(y, opPlace)'
      <4>1. opPlace \in Place /\ opPlace' = opPlace
        BY <1>0, <2>1, <2>5
      <4>3. \A y \in todo' : y \in Ref /\ Owned(y, opPlace) /\ x.res # y.res
        BY <3>3
      <4> QED BY <3>2, <4>1, <4>3
    <3>6. ReleaseInv'
      BY <2>1, <2>5, <3>3, <3>5 DEF ReleaseInv, Distinct
    <3>7. HolderInv'
      BY <2>1, <2>5, <3>6 DEF HolderInv, AcquireInv, SyncInv
    <3> QED BY <3>2, <3>4, <3>7
  <2> QED BY <2>2, <2>3, <2>4, <2>5
<1>4. ASSUME ReleaseResume
      PROVE  NetInv' /\ FreshInv' /\ HeldInv' /\ HolderInv'
  BY <1>2, <1>4 DEF ReleaseResume, Answered, exporterVars, sessionVars, placeVars, netVars
<1>5. ASSUME ReleaseFinish
      PROVE  NetInv' /\ FreshInv' /\ HeldInv' /\ HolderInv'
  BY <1>2, <1>5 DEF ReleaseFinish, exporterVars, sessionVars, netVars
<1> QED BY <1>1, <1>3, <1>4, <1>5

(* A resource that SyncRelease frees is in the list of nobody, and one     *)
(* that SyncAcquire acquires again is an orphan of the place it is for.    *)
LEMMA SyncSendMsg ==
  ASSUME MsgInv, SyncReleaseAny \/ SyncAcquire
  PROVE  NetInv' /\ FreshInv' /\ HeldInv' /\ HolderInv'
<1> USE DEF MsgInv
<1>0. /\ TypeInv /\ ResourceExclusive /\ ConstantsAssumption
      /\ held \in [Place -> SUBSET Ref] /\ todo \subseteq Ref /\ orph \subseteq Ref
  BY Types, ConstantsAssumption DEF Inv, ExclusiveInv
<1>1. ASSUME cur = {}, held' = held, UNCHANGED netVars, UNCHANGED <<exporterVars, sessionVars>>
      PROVE  NetInv' /\ FreshInv' /\ HeldInv'
  <2>1. UNCHANGED <<link, xacq, session, imported, wire, inbox, pending>>
    BY <1>1 DEF exporterVars, sessionVars, netVars
  <2>2. NetInv' /\ FreshInv' /\ \A y, q : Owned(y, q) => Owned(y, q)'
    BY <1>1, <2>1, QuietStepNet
  <2> QED BY <1>0, <1>1, <2>2, HeldKept
<1>2. ASSUME NEW x \in todo, SyncRelease(x)
      PROVE  NetInv' /\ FreshInv' /\ HeldInv' /\ HolderInv'
  <2>1. /\ lock = "sync_release" /\ cur = {} /\ held' = held /\ lock' = lock
        /\ orph' = orph
        /\ UNCHANGED <<exporterVars, sessionVars>>
    BY <1>2 DEF SyncRelease, placeVars
  <2>2. /\ \A y \in todo : y.res \notin Paths(HeldRefs)
        /\ orph \subseteq Orphans
        /\ \A y \in acqd \cup cur \cup todo : y.kind = "dead" => y.acq = None
    BY <2>1 DEF HolderInv, SyncInv
  <2>3. /\ todo' \subseteq todo /\ acqd' \subseteq acqd
        /\ \/ UNCHANGED netVars /\ cur' = cur
           \/ Send(x, None)
    <3>1. AcquiredBy(x) \in Acquirer \cup {Absent}
      BY <1>0 DEF AcquiredBy, TypeInv, TypeOK, Ref
    <3>2. AcquiredBy(x) # Absent
      BY <1>0 DEF AcquiredBy, TypeInv, TypeOK, Ref, LivePresent, Present, Acquirer, ConstantsAssumption
    <3>3. \A q \in Place : place[q] \in {"missing", "free", "acquired"}
      BY <1>0 DEF TypeInv, TypeOK
    <3> QED BY <1>0, <1>2, <3>1, <3>2, <3>3 DEF SyncRelease, Acquirer, netVars, ConstantsAssumption
  <2>4. cur' \subseteq cur \cup {x}
    BY <2>3 DEF Send
  <2>5. HolderInv'
    <3>1. SyncInv'
      BY <2>1, <2>2, <2>3, <2>4 DEF SyncInv, Paths, HeldRefs, Orphans
    <3> QED BY <2>1, <3>1 DEF HolderInv, AcquireInv, ReleaseInv
  <2>6. CASE UNCHANGED netVars
    BY <1>1, <2>1, <2>5, <2>6
  <2>7. CASE Send(x, None)
    <3>1. x \in Ref /\ None \in Place \cup {None} /\ lock' # "acquire"
      BY <1>0, <2>1
    <3>2. /\ NetInv' /\ FreshInv'
          /\ \A y \in Ref, p \in Place :
               (Owned(y, p) /\ (x.res = y.res => None = p)) => Owned(y, p)'
      BY <1>0, <2>1, <2>7, <3>1, SendOwned
    <3>3. \A p \in Place : \A y \in held[p] : x.res # y.res
      BY <2>2 DEF Paths, HeldRefs
    <3>4. HeldInv'
      BY <1>0, <2>1, <3>2, <3>3, HeldKept
    <3> QED BY <2>5, <3>2, <3>4
  <2> QED BY <2>3, <2>6, <2>7
<1>3. ASSUME SyncAcquire
      PROVE  NetInv' /\ FreshInv' /\ HeldInv' /\ HolderInv'
  <2>1. /\ lock = "sync_acquire" /\ cur = {} /\ held' = held
        /\ UNCHANGED <<exporterVars, sessionVars>>
    BY <1>3 DEF SyncAcquire, placeVars
  <2>2. PICK x \in todo :
          \/ lock' = "idle" /\ UNCHANGED netVars
          \/ /\ todo' = todo \ {x} /\ UNCHANGED <<lock, syncVars>>
             /\ \/ UNCHANGED netVars /\ cur' = cur
                \/ x.acq # Broken /\ Send(LiveRef(x.res), x.acq)
    BY <1>3 DEF SyncAcquire, SyncOver, netVars
  <2>3. CASE lock' = "idle" /\ UNCHANGED netVars
    BY <1>1, <2>1, <2>3, HolderDone
  <2>4. ASSUME todo' = todo \ {x}, UNCHANGED <<lock, syncVars>>,
               \A y \in cur' : y.kind = "live"
        PROVE  HolderInv'
    <3>1. UNCHANGED <<acqd, orph>> /\ todo \subseteq orph /\ orph \subseteq Orphans
          /\ \A y \in acqd \cup cur \cup todo : y.kind = "dead" => y.acq = None
      BY <2>1, <2>4 DEF HolderInv, SyncInv, syncVars
    <3>2. SyncInv'
      BY <2>1, <2>4, <3>1 DEF SyncInv, HeldRefs, Orphans
    <3> QED BY <2>1, <2>4, <3>2 DEF HolderInv, AcquireInv, ReleaseInv
  <2>5. CASE todo' = todo \ {x} /\ UNCHANGED <<lock, syncVars>> /\ UNCHANGED netVars /\ cur' = cur
    BY <1>1, <2>1, <2>4, <2>5
  <2>6. ASSUME todo' = todo \ {x}, UNCHANGED <<lock, syncVars>>, x.acq # Broken,
               Send(LiveRef(x.res), x.acq)
        PROVE  NetInv' /\ FreshInv' /\ HeldInv' /\ HolderInv'
    <3>1. PICK p \in Place : x \in held[p] /\ x.kind = "orphan"
      BY <2>1 DEF HolderInv, SyncInv, Orphans, HeldRefs
    <3>2. x.acq = p /\ x \in Ref /\ lock' # "acquire"
      <4>1. x \in Ref /\ Owned(x, p)
        BY <1>0, <3>1 DEF HeldInv
      <4> QED BY <2>1, <2>6, <3>1, <4>1 DEF Owned, AcquiredBy
    <3> DEFINE n == LiveRef(x.res)
    <3>3. n \in Ref /\ n.res = x.res /\ n.kind = "live" /\ p \in Place \cup {None} /\ Send(n, p)
      BY <2>6, <3>2, Types, <1>0 DEF LiveRef, Ref, Acquirer
    <3> HIDE DEF n
    <3>4. /\ NetInv' /\ FreshInv' /\ cur' = {n}
          /\ \A y \in Ref, q \in Place :
               (Owned(y, q) /\ (n.res = y.res => p = q)) => Owned(y, q)'
      BY <1>0, <2>1, <3>2, <3>3, SendOwned
    <3>5. \A q \in Place : \A y \in held[q] : n.res = y.res => p = q
      BY <1>0, <3>1, <3>3 DEF ResourceExclusive
    <3>6. HeldInv'
      BY <1>0, <2>1, <3>4, <3>5, HeldKept
    <3> QED BY <2>4, <2>6, <3>3, <3>4, <3>6
  <2> QED BY <2>2, <2>3, <2>5, <2>6
<1> QED BY <1>2, <1>3 DEF SyncReleaseAny

(* The other steps of _synchronize_resources.  A reference that replaces   *)
(* an orphan is acquired by the same place.                                *)
LEMMA SyncMsg ==
  ASSUME MsgInv,
         SyncStart \/ SyncReleaseResume \/ SyncReleaseEnd \/ SyncAcquireResume \/ SyncReplace
  PROVE  NetInv' /\ FreshInv' /\ HeldInv' /\ HolderInv'
<1> USE DEF MsgInv
<1>0. /\ TypeInv /\ ResourceExclusive /\ ConstantsAssumption /\ (lock = "idle" => cur = {})
      /\ held \in [Place -> SUBSET Ref]
  BY ConstantsAssumption, Types DEF Inv, ExclusiveInv
<1>1. /\ UNCHANGED <<link, xacq, session, imported, wire, inbox, pending>>
      /\ wait # "waiting" \/ cur = {}
  BY <1>0 DEF SyncStart, SyncReleaseResume, SyncReleaseEnd, SyncAcquireResume, SyncReplace, LockFree,
              Answered, exporterVars, sessionVars, netVars
<1>2. NetInv' /\ FreshInv' /\ \A y, q : Owned(y, q) => Owned(y, q)'
  BY <1>1, QuietStepNet
<1>3. held' = held => HeldInv'
  BY <1>0, <1>2, HeldKept
<1>4. CASE SyncStart
  <2>1. /\ held' = held /\ lock' = "sync_release" /\ cur' = {}
        /\ todo' = Unused /\ acqd' = AcquiredRefs /\ orph' = Orphans
    BY <1>0, <1>4 DEF SyncStart, LockFree, placeVars
  <2>2. \A x \in AcquiredRefs : x.kind = "live"
    BY DEF AcquiredRefs, LiveRef
  <2>3. SyncInv'
    BY <2>1, <2>2 DEF SyncInv, Unused, Orphans, HeldRefs
  <2>4. HolderInv'
    BY <2>1, <2>3 DEF HolderInv, AcquireInv, ReleaseInv
  <2> QED BY <1>2, <1>3, <2>1, <2>4
<1>5. CASE SyncReleaseResume \/ SyncReleaseEnd \/ SyncAcquireResume
  <2>1. /\ held' = held /\ lock \in {"sync_release", "sync_acquire"}
        /\ lock' \in {"sync_release", "sync_acquire"}
        /\ orph' = orph /\ acqd' \subseteq acqd \cup cur /\ cur' \subseteq cur
        /\ lock' = "sync_release" => lock = "sync_release" /\ todo' = todo
        /\ lock' = "sync_acquire" => todo' \subseteq orph \/ (lock = "sync_acquire" /\ todo' \subseteq todo)
    BY <1>5 DEF SyncReleaseResume, SyncReleaseEnd, SyncAcquireResume, placeVars, syncVars, Awaited
  <2>2. /\ orph \subseteq Orphans
        /\ \A x \in acqd \cup cur \cup todo : x.kind = "dead" => x.acq = None
        /\ lock = "sync_acquire" => todo \subseteq orph
        /\ lock = "sync_release" => \A x \in todo : x.res \notin Paths(HeldRefs)
    BY <2>1 DEF HolderInv, SyncInv
  <2>3. \A x \in orph : x.kind # "dead"
    BY <2>2 DEF Orphans
  <2>4. lock' = "sync_acquire" => todo' \subseteq orph
    BY <2>1, <2>2
  <2>5. \A x \in acqd' \cup cur' \cup todo' : x.kind = "dead" => x.acq = None
    BY <2>1, <2>2, <2>3, <2>4
  <2>6. lock' = "sync_release" => \A x \in todo' : x.res \notin Paths(HeldRefs)
    BY <2>1, <2>2
  <2>7. orph' \subseteq Orphans' /\ HeldRefs' = HeldRefs
    BY <2>1, <2>2 DEF Orphans, HeldRefs
  <2>8. SyncInv'
    BY <2>1, <2>4, <2>5, <2>6, <2>7 DEF SyncInv
  <2>9. HolderInv'
    BY <2>1, <2>8 DEF HolderInv, AcquireInv, ReleaseInv
  <2> QED BY <1>2, <1>3, <2>1, <2>9
<1>6. CASE SyncReplace
  <2>1. lock = "sync_acquire" /\ lock' = "idle"
    BY <1>6 DEF SyncReplace, SyncOver
  <2>2. PICK S \in SUBSET {x \in ToReplace : Replaceable(x)} :
          held' = [p \in Place |->
                    {IF x \in S THEN Replacement(x.res) ELSE x : x \in held[p]}]
    BY <1>6 DEF SyncReplace
  <2>3. ASSUME NEW p \in Place, NEW x \in held[p], x \in S
        PROVE  Owned(Replacement(x.res), p)
    <3>1. x \in ToReplace /\ Replaceable(x)
      BY <2>2, <2>3
    <3>2. \E n \in acqd : n.res = x.res
      BY <3>1 DEF ToReplace, Paths
    <3> DEFINE n == Replacement(x.res)
    <3>3. n \in acqd /\ n.res = x.res
      BY <3>2 DEF Replacement
    <3> HIDE DEF n
    <3>4. AcquiredBy(n) = x.acq /\ x.acq \in Place /\ x \in held[x.acq]
      BY <3>1, <3>3 DEF Replaceable
    <3>5. x.acq = p
      BY <1>0, <3>4 DEF ResourceExclusive
    <3>6. n.kind = "dead" => n.acq = None
      BY <2>1, <3>3 DEF HolderInv, SyncInv
    <3>7. n.kind # "dead"
      BY <1>0, <3>4, <3>6 DEF AcquiredBy, ConstantsAssumption
    <3>8. Claim(x.res, p)
      BY DEF HeldInv, Owned
    <3>9. Owned(n, p)
      BY <3>3, <3>4, <3>5, <3>7, <3>8 DEF Owned
    <3> QED BY <3>9 DEF n
  <2>4. ASSUME NEW p \in Place, NEW y \in held'[p]
        PROVE  Owned(y, p)
    <3>1. PICK x \in held[p] : y = IF x \in S THEN Replacement(x.res) ELSE x
      BY <2>2
    <3> QED BY <2>3, <3>1 DEF HeldInv
  <2>5. HeldInv'
    BY <1>2, <2>4 DEF HeldInv
  <2> QED BY <1>2, <2>1, <2>5, HolderDone
<1> QED BY <1>4, <1>5, <1>6

(* AddPlace and DeletePlace, a default place, a command that is given up.  *)
LEMMA PlaceMsg ==
  ASSUME MsgInv,
         \/ \E p \in Place : AddPlace(p) \/ DeletePlace(p)
         \/ \E e \in Exporter : Unblock(e)
         \/ Timeout \/ Cancel
  PROVE  NetInv' /\ FreshInv' /\ HeldInv' /\ HolderInv'
<1> USE DEF MsgInv
<1>0. /\ TypeInv /\ (lock = "idle" => cur = {}) /\ cur \subseteq Ref
      /\ held \in [Place -> SUBSET Ref]
  BY Types DEF Inv, ExclusiveInv
<1>1. ASSUME lock = "idle", lock' = "idle", \A p \in Place : held'[p] \subseteq held[p],
             UNCHANGED <<link, xacq, session, imported, wire, inbox, pending>>
      PROVE  NetInv' /\ FreshInv' /\ HeldInv' /\ HolderInv'
  <2>1. NetInv' /\ FreshInv' /\ \A y, q : Owned(y, q) => Owned(y, q)'
    BY <1>0, <1>1, QuietStepNet
  <2> QED BY <1>0, <1>1, <2>1, HeldKept, HolderDone
<1>2. ASSUME NEW p \in Place, AddPlace(p)
      PROVE  NetInv' /\ FreshInv' /\ HeldInv' /\ HolderInv'
  BY <1>1, <1>2 DEF AddPlace, LockFree, exporterVars, sessionVars, netVars, opVars
<1>3. ASSUME NEW p \in Place, DeletePlace(p)
      PROVE  NetInv' /\ FreshInv' /\ HeldInv' /\ HolderInv'
  <2>1. \A q \in Place : held'[q] \subseteq held[q]
    BY <1>0, <1>3 DEF DeletePlace
  <2> QED BY <1>1, <1>3, <2>1 DEF DeletePlace, LockFree, exporterVars, sessionVars, netVars, opVars
<1>4. ASSUME NEW e \in Exporter, Unblock(e)
      PROVE  NetInv' /\ FreshInv' /\ HeldInv' /\ HolderInv'
  BY <1>1, <1>4 DEF Unblock, exporterVars, netVars, opVars
<1>5. CASE Timeout
  <2>1. /\ wait' = "timeout"
        /\ UNCHANGED <<link, xacq, session, imported, blocked, wire, inbox>>
        /\ UNCHANGED <<held, lock, opPlace, todo, got, cur, acqd, orph>>
    BY <1>5 DEF Timeout, exporterVars, sessionVars, placeVars, syncVars
  <2>2. PICK x \in cur : pending' = Expired(x)
    BY <1>5 DEF Timeout
  <2>3. NetInv' /\ FreshInv' /\ \A y \in Ref : \A p : Owned(y, p) => Owned(y, p)'
    BY <1>0, <2>1, <2>2, ExpireNet
  <2>4. \A r \in Resource : Reborn(r) => Reborn(r)'
    BY <2>1 DEF Reborn
  <2> QED BY <2>1, <2>3, <2>4, HolderWaits
<1>6. CASE Cancel
  <2>1. /\ lock' = "idle" /\ held' = held
        /\ UNCHANGED <<link, xacq, session, imported, wire, inbox>>
    BY <1>6 DEF Cancel, exporterVars, sessionVars, placeVars
  <2>2. PICK x \in cur : pending' = IF wait = "waiting" THEN Expired(x) ELSE pending
    BY <1>6 DEF Cancel
  <2>3. CASE wait = "waiting"
    <3>1. NetInv' /\ FreshInv' /\ \A y \in Ref : \A p : Owned(y, p) => Owned(y, p)'
      BY <1>0, <2>1, <2>2, <2>3, ExpireNet
    <3>2. HeldInv'
      BY <1>0, <2>1, <3>1, HeldKept
    <3> QED BY <2>1, <3>1, <3>2, HolderDone
  <2>4. CASE wait # "waiting"
    <3>1. NetInv' /\ FreshInv' /\ \A y, p : Owned(y, p) => Owned(y, p)'
      BY <2>1, <2>2, <2>4, QuietStepNet
    <3>2. HeldInv'
      BY <1>0, <2>1, <3>1, HeldKept
    <3> QED BY <2>1, <3>1, <3>2, HolderDone
  <2> QED BY <2>3, <2>4
<1> QED BY <1>2, <1>3, <1>4, <1>5, <1>6

-----------------------------------------------------------------------------
(* The streams and the exporters.  The holder of the lock waits meanwhile. *)

(* A stream ends: its objects become orphans of their places, and what the *)
(* holder of the lock still asks of them is not answered.                  *)
LEMMA TeardownNet ==
  ASSUME TypeInv, NetInv, FreshInv, NEW e \in Exporter, Teardown(e)
  PROVE  /\ NetInv' /\ FreshInv'
         /\ \A r \in Resource, p \in Place : Claim(r, p) => Claim(r, p)'
         /\ \A r \in Resource : Reborn(r) => Reborn(r)'
<1> USE ConstantsAssumption
<1>1. /\ session[e] = "open" /\ link[e] = "down"
      /\ UNCHANGED <<link, xacq, wire, lock, opPlace, wait>>
  BY DEF Teardown, exporterVars
<1>2. /\ session'[e] # "open" /\ inbox'[e] = <<>> /\ pending'[e] = <<>> /\ blocked'[e] = None
      /\ \A g \in Exporter : g # e => /\ session'[g] = session[g] /\ inbox'[g] = inbox[g]
                                      /\ pending'[g] = pending[g] /\ blocked'[g] = blocked[g]
      /\ session'[e] = "none" => \A r \in Of(e) : imported'[r] = Absent
      /\ \A r \in Resource : exporterOf[r] # e => imported'[r] = imported[r]
      /\ \A r \in Of(e) : imported'[r] = Absent \/ session'[e] = "zombie"
  BY DEF Teardown, TypeInv, TypeOK, Of
<1>3. wire[e] = <<>> /\ \A r \in Of(e) : xacq[r] = Absent
  BY <1>1, ExporterNow
<1>4. LinkInv'
  <2> SUFFICES ASSUME NEW g \in Exporter
               PROVE  /\ link[g] = "up" => session'[g] = "open"
                      /\ link[g] = "down" => wire[g] = <<>> /\ \A r \in Of(g) : xacq[r] = Absent
                      /\ session'[g] # "open" => pending'[g] = <<>> /\ inbox'[g] = <<>>
                      /\ session'[g] = "none" => \A r \in Of(g) : imported'[r] = Absent
    BY <1>1 DEF LinkInv, Of
  <2>1. CASE g = e
    BY <1>1, <1>2, <1>3, <2>1
  <2>2. CASE g # e
    BY <1>2, <2>2 DEF NetInv, LinkInv, Of
  <2> QED BY <2>1, <2>2
<1>5. StreamInv'
  <2> SUFFICES ASSUME NEW g \in Exporter
               PROVE  /\ AboutOwn(pending'[g], g) /\ AboutOwn(wire[g], g) /\ AboutOwn(inbox'[g], g)
                      /\ InOrder(inbox'[g], wire[g], pending'[g], link[g] = "up")
    BY <1>1 DEF StreamInv
  <2>1. CASE g = e
    <3>1. InOrder(<<>>, <<>>, <<>>, link[g] = "up") /\ AboutOwn(<<>>, g)
      BY MatchedNothing DEF AboutOwn
    <3> QED BY <1>2, <1>3, <2>1, <3>1
  <2>2. CASE g # e
    BY <1>2, <2>2 DEF NetInv, StreamInv
  <2> QED BY <2>1, <2>2
<1>6. GrantInv'
  <2> SUFFICES ASSUME NEW g \in Exporter
               PROVE  Granted(inbox'[g], link[g] = "up", imported', xacq)
    BY <1>1 DEF GrantInv
  <2>1. CASE g = e
    BY <1>2, <2>1 DEF Granted
  <2>2. CASE g # e
    <3>1. Granted(inbox[g], link[g] = "up", imported, xacq) /\ AboutOwn(inbox[g], g)
      BY DEF NetInv, GrantInv, StreamInv
    <3>2. Len(inbox[g]) \in Nat
      BY Types
    <3>3. \A i \in 1..Len(inbox[g]) : imported'[inbox[g][i].res] = imported[inbox[g][i].res]
      BY <1>2, <2>2, <3>1, Types DEF AboutOwn
    <3>4. Granted(inbox[g], link[g] = "up", imported', xacq)
      BY <3>1, <3>2, <3>3, GrantedOther
    <3> QED BY <1>2, <2>2, <3>4
  <2> QED BY <2>1, <2>2
<1>7. FreshInv'
  <2> SUFFICES ASSUME NEW g \in Exporter, NEW i \in 1..Len(pending'[g]), ~pending'[g][i].expired
               PROVE  /\ i = Len(pending'[g]) /\ wait = "waiting"
                      /\ \E y \in cur' : cur' = {y} /\ y.res = pending'[g][i].res
                      /\ lock = "acquire" => pending'[g][i].to = opPlace
    BY <1>1 DEF FreshInv, Fresh
  <2>1. g # e /\ pending'[g] = pending[g]
    BY <1>2
  <2>2. /\ i = Len(pending[g]) /\ wait = "waiting"
        /\ \E x \in cur : cur = {x} /\ x.res = pending[g][i].res
        /\ lock = "acquire" => pending[g][i].to = opPlace
    BY <2>1 DEF FreshInv, Fresh
  <2>3. PICK x \in cur : cur = {x} /\ x.res = pending[g][i].res
    BY <2>2
  <2>4. cur' = cur \/ cur' = DetachAll(cur, e)
    BY DEF Teardown
  <2>5. DetachAll(cur, e) = {Detach(x, e)} /\ Detach(x, e).res = x.res
    BY <2>3, DetachKeepsResource DEF DetachAll
  <2> QED BY <2>1, <2>2, <2>3, <2>4, <2>5
<1>8. ASSUME NEW r \in Resource, NEW p \in Place, Claim(r, p)
      PROVE  Claim(r, p)'
  <2> DEFINE g == exporterOf[r]
  <2>1. /\ Told(pending[g], r, p) /\ Told(wire[g], r, p)
        /\ Chain(imported[r], inbox[g], link[g] = "up", xacq[r], r, p)
        /\ g \in Exporter
    BY <1>8, Types DEF Claim
  <2>2. CASE g = e
    <3>1. Told(<<>>, r, p)
      BY DEF Told
    <3>2. Chain(imported'[r], <<>>, FALSE, xacq[r], r, p)
      BY DEF Chain
    <3>3. (link[e] = "up") = FALSE
      BY <1>1
    <3> QED BY <1>1, <1>2, <1>3, <2>2, <3>1, <3>2, <3>3 DEF Claim
  <2>3. CASE g # e
    BY <1>1, <1>2, <2>1, <2>3 DEF Claim
  <2> QED BY <2>2, <2>3
<1>9. \A r \in Resource : Reborn(r) => Reborn(r)'
  BY <1>1, <1>2, Types DEF Reborn, Of
<1> QED BY <1>4, <1>5, <1>6, <1>7, <1>8, <1>9 DEF NetInv

LEMMA TeardownMsg ==
  ASSUME MsgInv, NEW e \in Exporter, Teardown(e)
  PROVE  NetInv' /\ FreshInv' /\ HeldInv' /\ HolderInv'
<1> USE DEF MsgInv
<1>0. /\ TypeInv /\ LivePresent /\ ConstantsAssumption
      /\ lock \in {"acquire", "release"} => opPlace \in Place
      /\ held \in [Place -> SUBSET Ref]
      /\ todo \subseteq Ref /\ got \subseteq Ref /\ cur \subseteq Ref /\ acqd \subseteq Ref
      /\ orph \subseteq Ref
      /\ \A x \in Ref : x.res \in Resource
  BY Types, ConstantsAssumption DEF Inv, TypeInv, LockInv
<1>1. /\ NetInv' /\ FreshInv'
      /\ \A r \in Resource, p \in Place : Claim(r, p) => Claim(r, p)'
      /\ \A r \in Resource : Reborn(r) => Reborn(r)'
  BY <1>0, TeardownNet
<1>2. UNCHANGED <<orph, lock, opPlace, wait>>
  BY DEF Teardown
<1>3. CASE blocked[e] # None
  <2>1. UNCHANGED <<held, lock, opPlace, todo, got, cur, acqd, orph, imported>> /\ wait' = wait
    BY <1>3 DEF Teardown
  <2>2. \A y \in Ref, p \in Place : Owned(y, p) => Owned(y, p)'
    BY <1>0, <1>1, <2>1 DEF Owned, AcquiredBy
  <2> QED BY <1>1, <2>1, <2>2, HolderWaits
<1>4. CASE blocked[e] = None
  <2> DEFINE D(x) == Detach(x, e)
  <2>1. /\ \A p \in Place : held'[p] = {D(x) : x \in held[p]}
        /\ todo' = {D(x) : x \in todo} /\ got' = {D(x) : x \in got}
        /\ cur' = {D(x) : x \in cur} /\ acqd' = {D(x) : x \in acqd}
        /\ \A r \in Of(e) : imported'[r] = Absent
        /\ \A r \in Resource : exporterOf[r] # e => imported'[r] = imported[r]
    BY <1>4 DEF Teardown, DetachAll, Of
  <2>2. ASSUME NEW x \in Ref
        PROVE  /\ D(x).res = x.res /\ x.res \in Resource
               /\ x.kind # "live" => D(x) = x
               /\ (x.kind = "live" /\ exporterOf[x.res] # e) => D(x) = x
               /\ (x.kind = "live" /\ exporterOf[x.res] = e) =>
                    /\ D(x).acq = imported[x.res]
                    /\ D(x).kind = IF imported[x.res] = None THEN "dead" ELSE "orphan"
                    /\ imported'[x.res] = Absent
    BY <1>0, <2>1 DEF Detach, Of
  <2> HIDE DEF D
  <2>3. ASSUME NEW x \in Ref, NEW p \in Place, Owned(x, p), NEW y, y = D(x)
        PROVE  Owned(y, p)'
    <3>1. Claim(x.res, p)' /\ x.kind # "dead" /\ AcquiredBy(x) \in {p, Broken}
      BY <1>1, <2>2, <2>3 DEF Owned
    <3>2. p # None /\ Broken # None
      BY <1>0 DEF ConstantsAssumption
    <3>3. CASE x.kind = "live" /\ exporterOf[x.res] = e
      BY <2>2, <2>3, <3>1, <3>2, <3>3 DEF Owned, AcquiredBy
    <3>4. CASE x.kind # "live"
      BY <2>2, <2>3, <3>1, <3>4 DEF Owned, AcquiredBy
    <3>5. CASE x.kind = "live" /\ exporterOf[x.res] # e
      BY <2>1, <2>2, <2>3, <3>1, <3>5 DEF Owned, AcquiredBy
    <3> QED BY <3>3, <3>4, <3>5
  <2>4. HeldInv'
    <3> SUFFICES ASSUME NEW p \in Place, NEW y \in held'[p]
                 PROVE  Owned(y, p)'
      BY DEF HeldInv
    <3>1. PICK x \in held[p] : y = D(x)
      BY <2>1
    <3>2. x \in Ref /\ Owned(x, p)
      BY <1>0 DEF HeldInv
    <3> QED BY <2>3, <3>1, <3>2
  <2>5. ASSUME NEW x \in Ref, x.kind # "live" => Reborn(x.res)
        PROVE  Reborn(x.res)' \/ D(x).kind = "live"
    BY <1>1, <2>2, <2>5 DEF Reborn
  <2>6. AcquireInv'
    <3> SUFFICES ASSUME lock = "acquire"
                 PROVE  /\ \A y \in got' : Owned(y, opPlace)'
                        /\ wait = "ok" => \A y \in cur' : Owned(y, opPlace)'
                        /\ \A y \in todo' \cup cur' : y.kind # "live" => Reborn(y.res)'
      BY <1>2 DEF AcquireInv
    <3>1. /\ \A x \in got : Owned(x, opPlace)
          /\ wait = "ok" => \A x \in cur : Owned(x, opPlace)
          /\ \A x \in todo \cup cur : x.kind # "live" => Reborn(x.res)
      BY DEF HolderInv, AcquireInv
    <3>2. opPlace \in Place /\ opPlace' = opPlace
      BY <1>0, <1>2
    <3>3. \A x \in Ref : \A y : (Owned(x, opPlace) /\ y = D(x)) => Owned(y, opPlace)'
      BY <2>3, <3>2
    <3>4. ASSUME NEW y \in todo' \cup cur', y.kind # "live"
          PROVE  Reborn(y.res)'
      <4>1. PICK x \in todo \cup cur : y = D(x)
        BY <2>1
      <4>2. x \in Ref /\ (x.kind # "live" => Reborn(x.res)) /\ y.res = x.res
        BY <1>0, <2>2, <3>1, <4>1
      <4>3. Reborn(x.res)'
        BY <2>5, <3>4, <4>1, <4>2
      <4> QED BY <4>2, <4>3
    <3>5. \A y \in got' : Owned(y, opPlace)'
      <4>1. \A y \in got' : \E x \in got : y = D(x)
        BY <2>1
      <4> QED BY <1>0, <3>1, <3>3, <4>1
    <3>6. wait = "ok" => \A y \in cur' : Owned(y, opPlace)'
      <4>1. \A y \in cur' : \E x \in cur : y = D(x)
        BY <2>1
      <4> QED BY <1>0, <3>1, <3>3, <4>1
    <3> QED BY <3>4, <3>5, <3>6
  <2>7. ReleaseInv'
    <3> SUFFICES ASSUME lock = "release"
                 PROVE  /\ \A y \in todo' : Owned(y, opPlace)'
                        /\ Distinct(todo')
                        /\ \A p \in Place : \A x \in todo', y \in held'[p] : x.res # y.res
      BY <1>2 DEF ReleaseInv, Distinct
    <3>1. /\ \A x \in todo : Owned(x, opPlace)
          /\ Distinct(todo)
          /\ \A p \in Place : \A x \in todo, y \in held[p] : x.res # y.res
      BY DEF HolderInv, ReleaseInv
    <3>2. \A y \in todo' : Owned(y, opPlace)'
      <4>1. opPlace \in Place /\ opPlace' = opPlace
        BY <1>0, <1>2
      <4>2. \A x \in Ref : \A y : (Owned(x, opPlace) /\ y = D(x)) => Owned(y, opPlace)'
        BY <2>3, <4>1
      <4>3. \A y \in todo' : \E x \in todo : y = D(x)
        BY <2>1
      <4> QED BY <1>0, <3>1, <4>2, <4>3
    <3>3. \A x \in todo : D(x).res = x.res
      BY <1>0, <2>2
    <3>4. \A p \in Place : \A y \in held[p] : D(y).res = y.res
      BY <1>0, <2>2
    <3>5. Distinct(todo')
      BY <2>1, <3>1, <3>3 DEF Distinct
    <3>6. \A p \in Place : \A x \in todo', y \in held'[p] : x.res # y.res
      BY <2>1, <3>1, <3>3, <3>4
    <3> QED BY <3>2, <3>5, <3>6
  <2>8. SyncInv'
    <3>1. \A p \in Place : \A y \in held[p] : D(y).res = y.res /\ (y.kind = "orphan" => D(y) = y)
      BY <1>0, <2>2
    <3>2. ASSUME lock = "sync_release"
          PROVE  \A y \in todo' : y.res \notin Paths(HeldRefs')
      <4>1. \A x \in todo : D(x).res = x.res /\ x.res \notin Paths(HeldRefs)
        BY <1>0, <2>2, <3>2 DEF HolderInv, SyncInv
      <4>2. \A y \in HeldRefs' : y.res \in Paths(HeldRefs)
        BY <2>1, <3>1 DEF HeldRefs, Paths
      <4> QED BY <2>1, <4>1, <4>2 DEF Paths
    <3>3. ASSUME lock = "sync_acquire"
          PROVE  todo' \subseteq orph
      <4>1. \A x \in todo : x \in orph /\ x.kind = "orphan" /\ D(x) = x
        BY <1>0, <2>2, <3>3 DEF HolderInv, SyncInv, LivePresent
      <4> QED BY <2>1, <4>1
    <3>4. ASSUME lock \in {"sync_release", "sync_acquire"}
          PROVE  /\ orph \subseteq Orphans'
                 /\ \A y \in acqd' \cup cur' \cup todo' : y.kind = "dead" => y.acq = None
      <4>1. /\ orph \subseteq Orphans
            /\ \A x \in acqd \cup cur \cup todo : x.kind = "dead" => x.acq = None
        BY <3>4 DEF HolderInv, SyncInv
      <4>2. Orphans \subseteq Orphans'
        BY <2>1, <3>1 DEF Orphans, HeldRefs
      <4>3. \A x \in acqd \cup cur \cup todo : D(x).kind = "dead" => D(x).acq = None
        BY <1>0, <2>2, <4>1
      <4> QED BY <2>1, <4>1, <4>2, <4>3
    <3> QED BY <1>2, <3>2, <3>3, <3>4 DEF SyncInv
  <2> QED BY <1>1, <2>4, <2>6, <2>7, <2>8 DEF HolderInv
<1> QED BY <1>3, <1>4

(* A message is read.  A positive answer that is awaited is the grant of   *)
(* the resource, and the object asked about is still the exporter's.       *)
LEMMA ReceiveMsg ==
  ASSUME MsgInv, NEW e \in Exporter, Receive(e)
  PROVE  NetInv' /\ FreshInv' /\ HeldInv' /\ HolderInv'
<1> USE DEF MsgInv
<1>0. /\ TypeInv /\ ConstantsAssumption /\ cur \subseteq Ref
      /\ lock = "acquire" => opPlace \in Place
  BY ConstantsAssumption, Types DEF Inv, LockInv
<1>1. /\ session[e] = "open" /\ blocked[e] = None
      /\ UNCHANGED <<held, lock, opPlace, todo, got, cur, acqd, orph, session>>
  BY DEF Receive, syncVars
<1>2. CASE ReceiveUpdate(e)
  <2>1. /\ NetInv' /\ FreshInv' /\ wait' = wait
        /\ \A y \in Ref : \A p : Owned(y, p) => Owned(y, p)'
    BY <1>0, <1>2, UpdateNet
  <2>2. ASSUME lock = "acquire", NEW r \in Resource, Reborn(r)
        PROVE  Reborn(r)'
    <3> DEFINE m == Head(inbox[e])
    <3>1. /\ imported' = [imported EXCEPT ![m.res] = m.acq]
          /\ IF imported[m.res] # Absent THEN blocked' = blocked
             ELSE blocked' = [blocked EXCEPT ![e] = m.res]
      BY <1>2, <2>2 DEF ReceiveUpdate
    <3>2. m.res \in Resource /\ exporterOf[m.res] = e
      BY <1>0, ReceiveFacts
    <3> HIDE DEF m
    <3>3. m.res # None /\ blocked'[e] \in {blocked[e], m.res}
          /\ (imported[m.res] = Absent => blocked'[e] = m.res)
          /\ \A g \in Exporter : g # e => blocked'[g] = blocked[g]
      BY <1>0, <3>1, <3>2 DEF TypeInv, TypeOK, ConstantsAssumption
    <3>4. \A s \in Resource : s # m.res => imported'[s] = imported[s]
      BY <1>0, <3>1 DEF TypeInv, TypeOK
    <3>5. exporterOf[r] \in Exporter
      BY <1>0 DEF ConstantsAssumption
    <3>6. CASE r = m.res
      BY <1>1, <2>2, <3>2, <3>3, <3>6 DEF Reborn
    <3>7. CASE r # m.res
      BY <1>1, <2>2, <3>3, <3>4, <3>5, <3>7 DEF Reborn
    <3> QED BY <3>6, <3>7
  <2> QED BY <1>1, <2>1, <2>2, HolderWaits
<1>3. CASE ReceiveResponse(e)
  <2>1. /\ NetInv' /\ FreshInv' /\ imported' = imported
        /\ \A y \in Ref : \A p : Owned(y, p) => Owned(y, p)'
        /\ (lock = "acquire" /\ wait' = "ok" /\ wait # "ok") =>
             \A x \in cur : /\ exporterOf[x.res] = e
                            /\ imported[x.res] = opPlace /\ Claim(x.res, opPlace)'
    BY <1>0, <1>3, ResponseNet
  <2>2. \A r \in Resource : Reborn(r) => Reborn(r)'
    BY <1>1, <1>3, <2>1 DEF ReceiveResponse, Reborn
  <2>3. ASSUME lock = "acquire", wait' = "ok", wait # "ok", NEW x \in cur
        PROVE  Owned(x, opPlace)'
    <3>1. /\ exporterOf[x.res] = e /\ imported[x.res] = opPlace /\ Claim(x.res, opPlace)'
          /\ opPlace' = opPlace /\ opPlace \in Place
      BY <1>0, <1>1, <2>1, <2>3
    <3>2. x.kind = "live"
      <4>1. ~Reborn(x.res)
        BY <1>0, <1>1, <3>1 DEF Reborn, ConstantsAssumption
      <4> QED BY <2>3, <4>1 DEF HolderInv, AcquireInv
    <3> QED BY <2>1, <3>1, <3>2 DEF Owned, AcquiredBy
  <2> QED BY <1>1, <2>1, <2>2, <2>3, HolderWaits
<1> QED BY <1>2, <1>3 DEF Receive

(* The exporters.                                                          *)
LEMMA ExporterMsg ==
  ASSUME MsgInv,
         \/ \E e \in Exporter : ExporterStep(e)
         \/ \E r \in Resource : ResourceStep(r)
  PROVE  NetInv' /\ FreshInv' /\ HeldInv' /\ HolderInv'
<1> USE DEF MsgInv
<1>0. TypeInv
  BY DEF Inv
<1>1. NetInv' /\ FreshInv' /\ \A y \in Ref, p \in Place : Owned(y, p) => Owned(y, p)'
  BY <1>0, ConnectNet, HandleNet, StopFailsNet, CrashNet, ResourceNet DEF ExporterStep
<1>2. /\ UNCHANGED <<held, lock, opPlace, todo, got, cur, acqd, orph, imported, blocked>>
      /\ wait' = wait
  BY DEF ExporterStep, ResourceStep, Connect, Handle, HandleStopFails, Crash, AddResource, PollBreaks,
         PollReports, sessionVars, placeVars, syncVars, opVars
<1>3. \A e \in Exporter : session[e] = "zombie" => session'[e] = "zombie"
  BY <1>0 DEF ExporterStep, ResourceStep, Connect, Handle, HandleStopFails, Crash, AddResource,
         PollBreaks, PollReports, sessionVars, TypeInv, TypeOK
<1>4. \A r \in Resource : Reborn(r) => Reborn(r)'
  BY <1>0, <1>2, <1>3, Types DEF Reborn
<1> QED BY <1>1, <1>2, <1>4, HolderWaits

-----------------------------------------------------------------------------
(* Initially nothing is under way.                                         *)
LEMMA InitMsg == Init => MsgInv
<1> SUFFICES ASSUME Init PROVE MsgInv
  OBVIOUS
<1>1. Inv
  BY InitTypes, InitExclusive, InitLock DEF Inv
<1>2. /\ \A e \in Exporter : /\ link[e] = "down" /\ session[e] = "none"
                             /\ wire[e] = <<>> /\ inbox[e] = <<>> /\ pending[e] = <<>>
      /\ \A r \in Resource : xacq[r] = Absent /\ imported[r] = Absent
      /\ \A p \in Place : held[p] = {}
      /\ lock = "idle"
  BY DEF Init
<1>3. LinkInv /\ GrantInv /\ FreshInv
  BY <1>2 DEF LinkInv, GrantInv, Granted, FreshInv, Fresh, Of
<1>4. StreamInv
  <2>1. \A e \in Exporter : InOrder(<<>>, <<>>, <<>>, link[e] = "up")
    BY MatchedNothing
  <2> QED BY <1>2, <2>1 DEF StreamInv, AboutOwn
<1>5. HeldInv /\ HolderInv
  BY <1>2 DEF HeldInv, HolderInv, AcquireInv, ReleaseInv, SyncInv
<1> QED BY <1>1, <1>3, <1>4, <1>5 DEF MsgInv, NetInv

(* Every step keeps the invariant.                                         *)
LEMMA NextMsg == MsgInv /\ [Next]_vars => MsgInv'
<1> SUFFICES ASSUME MsgInv, [Next]_vars PROVE MsgInv'
  OBVIOUS
<1>1. Inv'
  BY NextLock DEF MsgInv
<1>2. NetInv' /\ FreshInv' /\ HeldInv' /\ HolderInv'
  <2>1. CASE UNCHANGED vars
    BY <2>1 DEF vars, exporterVars, sessionVars, placeVars, netVars, syncVars, opVars, MsgInv,
                NetInv, LinkInv, StreamInv, GrantInv, FreshInv, Fresh, HeldInv, HolderInv, AcquireInv,
                ReleaseInv, SyncInv, Owned, Claim, AcquiredBy, Reborn, HeldRefs, Orphans
  <2>2. CASE Next
    BY <2>2, AcquireMsg, ReleaseMsg, SyncSendMsg, SyncMsg, PlaceMsg, TeardownMsg, ReceiveMsg, ExporterMsg
       DEF Next, Request, Proceed, Stream
  <2> QED BY <2>1, <2>2
<1> QED BY <1>1, <1>2 DEF MsgInv

(* What the invariant says of the resources of a place, of a release and   *)
(* of the messages under way.                                              *)
LEMMA MsgImplies ==
  MsgInv => Agreement /\ ReleaseCompletes /\ ResponseMatchesCommand
<1> SUFFICES ASSUME MsgInv PROVE Agreement /\ ReleaseCompletes /\ ResponseMatchesCommand
  OBVIOUS
<1>0. TypeInv /\ NetInv /\ HeldInv /\ ConstantsAssumption
      /\ held \in [Place -> SUBSET Ref] /\ todo \subseteq Ref
  BY ConstantsAssumption, Types DEF MsgInv, Inv
<1>1. HeldIsOwn
  BY <1>0 DEF HeldInv, Owned, HeldIsOwn
<1>2. ExporterAgrees
  <2> SUFFICES ASSUME NEW p \in Place, NEW x \in held[p], x.kind = "live",
                      link[exporterOf[x.res]] = "up"
               PROVE  xacq[x.res] \in {p, Broken}
    BY DEF ExporterAgrees
  <2>1. imported[x.res] \in {p, Broken} /\ Claim(x.res, p)
    BY <1>0 DEF HeldInv, Owned, AcquiredBy
  <2> QED BY <2>1 DEF Claim, Chain
<1>3. ReleaseCompletes
  <2> SUFFICES ASSUME lock = "release", NEW x \in todo, x.kind # "orphan"
               PROVE  session[exporterOf[x.res]] # "none"
    BY DEF ReleaseCompletes
  <2>1. x \in Ref /\ Owned(x, opPlace) /\ opPlace \in Place
    BY <1>0 DEF MsgInv, Inv, LockInv, HolderInv, ReleaseInv
  <2>2. x.kind = "live" /\ imported[x.res] \in {opPlace, Broken} /\ x.res \in Resource
    BY <2>1, <1>0, Types DEF Owned, AcquiredBy
  <2>3. imported[x.res] # Absent
    BY <1>0, <2>1, <2>2 DEF ConstantsAssumption
  <2> QED BY <1>0, <2>2, <2>3, Types DEF NetInv, LinkInv, Of
<1>4. ResponseMatchesCommand
  BY <1>0 DEF NetInv, StreamInv, ResponseMatchesCommand
<1> QED BY <1>1, <1>2, <1>3, <1>4 DEF Agreement

(* What a place has is its own for the coordinator, and for the exporter   *)
(* as long as it is connected: late answers, commands that expired,        *)
(* restarts and the poll's repairs never leave the two sides with          *)
(* different owners.                                                       *)
THEOREM Agrees == Spec => []Agreement
<1>1. MsgInv => Agreement
  BY MsgImplies
<1> QED BY <1>1, InitMsg, NextMsg, PTL DEF Spec

(* A release never follows a reference to an object whose session is gone. *)
THEOREM ReleaseNeverStuck == Spec => []ReleaseCompletes
<1>1. MsgInv => ReleaseCompletes
  BY MsgImplies
<1> QED BY <1>1, InitMsg, NextMsg, PTL DEF Spec

(* The responses carry no identification, and yet pop(0) always finds the  *)
(* command that is answered, expired or not.                               *)
THEOREM ResponsesMatch == Spec => []ResponseMatchesCommand
<1>1. MsgInv => ResponseMatchesCommand
  BY MsgImplies
<1> QED BY <1>1, InitMsg, NextMsg, PTL DEF Spec

(* All the safety properties of the coordinator and its exporters.         *)
THEOREM CoordinatorConsistent == Spec => []Consistent
<1>1. MsgInv => Consistent
  <2> SUFFICES ASSUME MsgInv PROVE Consistent
    OBVIOUS
  <2>1. TypeOK /\ ResourceExclusive /\ HeldOnlyWhenAcquired
    BY DEF MsgInv, Inv, TypeInv, ExclusiveInv, LockInv
  <2> QED BY <2>1, MsgImplies DEF Consistent
<1> QED BY <1>1, InitMsg, NextMsg, PTL DEF Spec
=============================================================================
