----------------------------- MODULE Coordinator -----------------------------
(***************************************************************************)
(* How the coordinator (labgrid/remote/coordinator.py) and the exporters   *)
(* (labgrid/remote/exporter.py) agree on who has acquired which resource.  *)
(*                                                                         *)
(* The coordinator is one asyncio event loop.  Every RPC handler and every *)
(* poll step that touches places takes self.lock; while it waits for an    *)
(* exporter's answer the lock stays taken, but the streams to the          *)
(* exporters go on being served.  Between two points where it can be       *)
(* suspended the holder of the lock runs alone: it takes its steps while   *)
(* the rest of the event loop stands still (see LoopFree), and only the    *)
(* exporters and the network go on.                                        *)
(*                                                                         *)
(* A ResourceImport object is referred to after it has been taken out of   *)
(* its session, so a reference is a record: "live" refers to the object    *)
(* that is now in session.groups (its acquired field is imported[res]);    *)
(* "orphan" and "dead" are objects whose exporter has gone, the first with *)
(* orphaned = True, and keep the acquired field they had then.             *)
(*                                                                         *)
(* Which resources match a place is edited freely by AddPlaceMatch and     *)
(* DeletePlaceMatch and only read when a place is acquired: AcquirePlace   *)
(* takes any set of the known resources as the matching ones.              *)
(***************************************************************************)
EXTENDS Integers, Sequences, FiniteSets

CONSTANTS
  Exporter, Resource, Place,
  exporterOf,     \* [Resource -> Exporter]: resource.path[0]
  defaultPlace,   \* [Resource -> Place or None]: the group name, if a number
  Faulty,         \* the resources whose start or stop can fail
  None,           \* acquired = None; also "no place", "no resource"
  Broken,         \* acquired = "<broken>"
  Absent,         \* there is no such resource (now)
  MaxCrashes,     \* bound: how often exporters disconnect
  MaxBacklog      \* bound: unanswered commands when a new RPC is let in

ASSUME ConstantsAssumption ==
  /\ exporterOf \in [Resource -> Exporter]
  /\ defaultPlace \in [Resource -> Place \cup {None}]
  /\ Faulty \subseteq Resource
  /\ MaxCrashes \in Nat /\ MaxBacklog \in Nat
  /\ Broken # Absent
  /\ {None, Broken, Absent} \cap Place = {}
  /\ None \notin {Broken, Absent} \cup Resource

VARIABLES
  link,      \* is the exporter's process running and connected
  xacq,      \* the exporter's own acquired field of each resource
  dirty,     \* broken resources the exporter's poll has yet to report
  wire,      \* commands on their way to the exporter
  inbox,     \* messages on their way from the exporter
  session,   \* the coordinator's entry in self.exporters
  imported,  \* ResourceImport.acquired of each resource in session.groups
  blocked,   \* the request_task waits for the lock to add a default place
  pending,   \* pending_commands of the ExporterStream
  place,     \* self.places: missing, free or acquired by somebody
  held,      \* place.acquired_resources
  lock,      \* what the holder of self.lock is doing
  opPlace,   \* the place it works for
  todo,      \* the resources its loop has not come to
  got,       \* the list "acquired" of _acquire_resources
  cur,       \* the resource whose command it awaits (at most one)
  wait,      \* the state of that command
  late,      \* Timeout(5.0) of _synchronize_resources has expired
  acqd,      \* acquired_resources of _synchronize_resources
  orph,      \* orphaned_resources of _synchronize_resources
  crashes    \* how often an exporter was lost so far

exporterVars == <<link, xacq, dirty>>
sessionVars == <<session, imported, blocked>>
placeVars == <<place, held>>
netVars == <<wire, inbox, pending>>
syncVars == <<late, acqd, orph>>
opVars == <<lock, opPlace, todo, got, cur, wait>>
vars == <<exporterVars, sessionVars, placeVars, netVars, syncVars, opVars, crashes>>

Acquirer == Place \cup {None, Broken}
Ref == [res : Resource, kind : {"live", "orphan", "dead"}, acq : Acquirer]
Command == [res : Resource, to : Place \cup {None}]
PendingCommand == [res : Resource, to : Place \cup {None}, expired : BOOLEAN]
Update == [kind : {"upd"}, res : Resource, acq : Acquirer]
Response == [kind : {"resp"}, res : Resource, to : Place \cup {None}, ok : BOOLEAN]

(* One type invariant for the module.                                      *)
TypeOK ==
  /\ link \in [Exporter -> {"up", "down"}]
  /\ xacq \in [Resource -> Acquirer \cup {Absent}]
  /\ dirty \in SUBSET Resource
  /\ wire \in [Exporter -> Seq(Command)]
  /\ inbox \in [Exporter -> Seq(Update \cup Response)]
  /\ session \in [Exporter -> {"none", "open", "zombie"}]
  /\ imported \in [Resource -> Acquirer \cup {Absent}]
  /\ blocked \in [Exporter -> Resource \cup {None}]
  /\ pending \in [Exporter -> Seq(PendingCommand)]
  /\ place \in [Place -> {"missing", "free", "acquired"}]
  /\ held \in [Place -> SUBSET Ref]
  /\ lock \in {"idle", "acquire", "release", "sync_release", "sync_acquire"}
  /\ opPlace \in Place \cup {None}
  /\ todo \in SUBSET Ref /\ got \in SUBSET Ref /\ cur \in SUBSET Ref
  /\ wait \in {"none", "waiting", "ok", "failed", "timeout"}
  /\ late \in BOOLEAN /\ acqd \in SUBSET Ref /\ orph \in SUBSET Ref
  /\ crashes \in Nat

Init ==
  /\ link = [e \in Exporter |-> "down"]
  /\ xacq = [r \in Resource |-> Absent]
  /\ dirty = {}
  /\ wire = [e \in Exporter |-> <<>>]
  /\ inbox = [e \in Exporter |-> <<>>]
  /\ session = [e \in Exporter |-> "none"]
  /\ imported = [r \in Resource |-> Absent]
  /\ blocked = [e \in Exporter |-> None]
  /\ pending = [e \in Exporter |-> <<>>]
  /\ place \in [Place -> {"missing", "free"}]
  /\ held = [p \in Place |-> {}]
  /\ lock = "idle" /\ opPlace = None
  /\ todo = {} /\ got = {} /\ cur = {} /\ wait = "none"
  /\ late = FALSE /\ acqd = {} /\ orph = {}
  /\ crashes = 0

-----------------------------------------------------------------------------
(* References to resources.                                                *)

LiveRef(r) == [res |-> r, kind |-> "live", acq |-> None]

(* resource.acquired, read now.                                            *)
AcquiredBy(x) == IF x.kind = "live" THEN imported[x.res] ELSE x.acq

Paths(S) == {x.res : x \in S}

(* set_resource(..., None) on the object behind x when exporter e is gone. *)
Detach_too_late(x, e) ==
  IF x.kind = "live" /\ exporterOf[x.res] = e
  THEN [res |-> x.res, kind |-> "orphan", acq |-> Absent]
  ELSE x

Detach(x, e) ==
  IF x.kind = "live" /\ exporterOf[x.res] = e
  THEN [res |-> x.res,
        kind |-> IF imported[x.res] = None THEN "dead" ELSE "orphan",
        acq |-> imported[x.res]]
  ELSE x

DetachAll(S, e) == {Detach(x, e) : x \in S}

Of(e) == {r \in Resource : exporterOf[r] = e}

-----------------------------------------------------------------------------
(* The lock and the commands of its holder.                                *)

(* A new request is let in: nobody has the lock, and the bound on the      *)
(* commands the exporters have not answered yet.                           *)
LockFree ==
  /\ lock = "idle"
  /\ \A e \in Exporter : Len(pending[e]) =< MaxBacklog

(* The holder of the lock is suspended, waiting for a command: the event   *)
(* loop is free to run its other tasks.                                    *)
LoopFree == lock = "idle" \/ cur # {}

(* queue.put_nowait(cmd) followed by cmd.wait(): the stream's sender moves *)
(* the command to pending_commands and onto the wire.  Nobody empties the  *)
(* queue of a zombie session.                                              *)
Send(x, to) ==
  LET e == exporterOf[x.res] IN
  /\ pending' = IF session[e] = "open"
                THEN [pending EXCEPT ![e] =
                        Append(@, [res |-> x.res, to |-> to, expired |-> FALSE])]
                ELSE pending
  /\ wire' = IF session[e] = "open" /\ link[e] = "up"
             THEN [wire EXCEPT ![e] = Append(@, [res |-> x.res, to |-> to])]
             ELSE wire
  /\ cur' = {x}
  /\ wait' = "waiting"
  /\ UNCHANGED inbox

(* The command is no longer awaited.                                       *)
Awaited == cur' = {} /\ wait' = "none"

Answered == wait \in {"ok", "failed", "timeout"}

(* ExporterCommand.wait() is left without a response: the finally block    *)
(* marks the command as expired.  It stays in pending_commands, for its    *)
(* answer may still come.                                                  *)
Expired(x) ==
  LET e == exporterOf[x.res] IN
  IF pending[e] = <<>> THEN pending
  ELSE [pending EXCEPT ![e][Len(pending[e])].expired = TRUE]

(* asyncio.wait_for(..., 10) gives up.                                     *)
Timeout_forgets ==
  /\ wait = "waiting"
  /\ wait' = "timeout"
  /\ \E x \in cur :
       LET e == exporterOf[x.res] IN
       pending' = IF pending[e] = <<>> THEN pending
                  ELSE [pending EXCEPT ![e] = SubSeq(@, 1, Len(@) - 1)]
  /\ UNCHANGED <<exporterVars, sessionVars, placeVars, wire, inbox, syncVars,
                 lock, opPlace, todo, got, cur, crashes>>

Timeout_rearms == wait = "waiting" /\ UNCHANGED vars

Timeout ==
  /\ wait = "waiting"
  /\ wait' = "timeout"
  /\ \E x \in cur : pending' = Expired(x)
  /\ UNCHANGED <<exporterVars, sessionVars, placeVars, wire, inbox, syncVars,
                 lock, opPlace, todo, got, cur, crashes>>

(* The client goes away during AcquirePlace or ReleasePlace, and gRPC      *)
(* cancels the handler where it waits.  CancelledError is not an           *)
(* Exception: no cleanup runs and only the lock is given back.             *)
Cancel ==
  /\ lock \in {"acquire", "release"}
  /\ \E x \in cur : pending' = IF wait = "waiting" THEN Expired(x) ELSE pending
  /\ lock' = "idle" /\ opPlace' = None /\ todo' = {} /\ got' = {}
  /\ Awaited
  /\ UNCHANGED <<exporterVars, sessionVars, placeVars, wire, inbox, syncVars, crashes>>

-----------------------------------------------------------------------------
(* AcquirePlace and _acquire_resources.                                    *)

(* "all resources need to be free": not acquired, and not in the list of   *)
(* any place, not even as an orphan.                                       *)
AllFree_trusts_exporters(R) ==
  \A r \in R : imported[r] = None

AllFree(R) ==
  \A r \in R :
    /\ imported[r] = None
    /\ \A q \in Place : r \notin Paths(held[q])

(* If a resource is not free, AcquirePlace reverts place.acquired in the   *)
(* same step and nothing has changed.                                      *)
AcquirePlace(p, R) ==
  /\ LockFree
  /\ place[p] = "free"
  /\ R \subseteq {r \in Resource : imported[r] # Absent}
  /\ AllFree(R)
  /\ place' = [place EXCEPT ![p] = "acquired"]
  /\ lock' = "acquire"
  /\ opPlace' = p
  /\ todo' = {LiveRef(r) : r \in R}
  /\ got' = {}
  /\ UNCHANGED <<exporterVars, sessionVars, held, netVars, syncVars, cur, wait, crashes>>

(* "except Exception": the cleanup of _acquire_resources releases what was *)
(* acquired so far.                                                        *)
AcquireFailed ==
  /\ lock' = "release"
  /\ todo' = got
  /\ got' = {}

(* _acquire_resource: without a session, get_exporter_by_name() is None    *)
(* and its attribute access fails.                                         *)
AcquireSend ==
  /\ lock = "acquire" /\ cur = {}
  /\ \E x \in todo :
       IF session[exporterOf[x.res]] = "none"
       THEN AcquireFailed /\ UNCHANGED <<netVars, cur, wait>>
       ELSE /\ Send(x, opPlace)
            /\ todo' = todo \ {x}
            /\ UNCHANGED <<lock, got>>
  /\ UNCHANGED <<exporterVars, sessionVars, placeVars, syncVars, opPlace, crashes>>

AcquireResume_ignores_timeout ==
  /\ lock = "acquire" /\ Answered
  /\ IF wait # "failed"
     THEN got' = got \cup cur /\ UNCHANGED <<lock, todo>>
     ELSE AcquireFailed
  /\ Awaited
  /\ UNCHANGED <<exporterVars, sessionVars, placeVars, netVars, syncVars, opPlace, crashes>>

AcquireResume_lists_at_once ==
  /\ lock = "acquire" /\ Answered
  /\ IF wait = "ok"
     THEN /\ held' = [held EXCEPT ![opPlace] = @ \cup cur]
          /\ UNCHANGED <<lock, todo, got>>
     ELSE AcquireFailed /\ UNCHANGED held
  /\ Awaited
  /\ UNCHANGED <<exporterVars, sessionVars, place, netVars, syncVars, opPlace, crashes>>

AcquireResume ==
  /\ lock = "acquire" /\ Answered
  /\ IF wait = "ok"
     THEN got' = got \cup cur /\ UNCHANGED <<lock, todo>>
     ELSE AcquireFailed
  /\ Awaited
  /\ UNCHANGED <<exporterVars, sessionVars, placeVars, netVars, syncVars, opPlace, crashes>>

AcquireFinish ==
  /\ lock = "acquire" /\ cur = {} /\ todo = {}
  /\ held' = [held EXCEPT ![opPlace] = @ \cup got]
  /\ lock' = "idle" /\ opPlace' = None /\ got' = {}
  /\ UNCHANGED <<exporterVars, sessionVars, place, netVars, syncVars, todo, cur, wait, crashes>>

-----------------------------------------------------------------------------
(* ReleasePlace and _release_resources; the second half also runs as the   *)
(* cleanup of a failed AcquirePlace, and ends in place.acquired = None     *)
(* there too.                                                              *)

ReleasePlace(p) ==
  /\ LockFree
  /\ place[p] = "acquired"
  /\ held' = [held EXCEPT ![p] = {}]
  /\ lock' = "release" /\ opPlace' = p /\ todo' = held[p]
  /\ UNCHANGED <<exporterVars, sessionVars, place, netVars, syncVars, got, cur, wait, crashes>>

(* An orphan is skipped.  A resource that is not orphaned but has no       *)
(* session would end the RPC with the place still acquired.                *)
ReleaseSend ==
  /\ lock = "release" /\ cur = {}
  /\ \E x \in todo :
       IF x.kind = "orphan"
       THEN todo' = todo \ {x} /\ UNCHANGED <<lock, opPlace, netVars, cur, wait>>
       ELSE IF session[exporterOf[x.res]] = "none"
       THEN lock' = "idle" /\ opPlace' = None /\ todo' = {} /\ UNCHANGED <<netVars, cur, wait>>
       ELSE Send(x, None) /\ todo' = todo \ {x} /\ UNCHANGED <<lock, opPlace>>
  /\ UNCHANGED <<exporterVars, sessionVars, placeVars, syncVars, got, crashes>>

(* A refused release and a timeout are logged; the loop goes on.           *)
ReleaseResume ==
  /\ lock = "release" /\ Answered
  /\ Awaited
  /\ UNCHANGED <<exporterVars, sessionVars, placeVars, netVars, syncVars,
                 lock, opPlace, todo, got, crashes>>

ReleaseFinish ==
  /\ lock = "release" /\ cur = {} /\ todo = {}
  /\ place' = [place EXCEPT ![opPlace] = "free"]
  /\ lock' = "idle" /\ opPlace' = None
  /\ UNCHANGED <<exporterVars, sessionVars, held, netVars, syncVars, todo, got, cur, wait, crashes>>

-----------------------------------------------------------------------------
(* _synchronize_resources, run by a poll task every 15 seconds.            *)

HeldRefs == UNION {held[p] : p \in Place}
Orphans == {x \in HeldRefs : x.kind = "orphan"}

AcquiredRefs == {LiveRef(r) : r \in {s \in Resource : imported[s] \notin {Absent, None}}}

(* Neither used by a place nor an orphan of one.                           *)
Unused == {x \in AcquiredRefs : x.res \notin Paths(HeldRefs)}

(* A run that finds nothing to release and no orphan changes nothing.      *)
SyncStart ==
  /\ LockFree
  /\ Unused # {} \/ Orphans # {}
  /\ lock' = "sync_release"
  /\ todo' = Unused
  /\ acqd' = AcquiredRefs
  /\ orph' = Orphans
  /\ late' = FALSE
  /\ UNCHANGED <<exporterVars, sessionVars, placeVars, netVars, opPlace, got, cur, wait, crashes>>

(* One turn of the loop over to_release.  resource.acquired is read again  *)
(* now, for it may have changed while an earlier turn waited.  With a      *)
(* place that does not exist, _release_resources fails on None and the     *)
(* loop is left.                                                           *)
SyncRelease_only_unknown(x) ==
  /\ lock = "sync_release" /\ cur = {} /\ ~late
  /\ x \in todo
  /\ todo' = IF AcquiredBy(x) \in Place \cup {Broken} THEN todo \ {x} ELSE {}
  /\ UNCHANGED <<exporterVars, sessionVars, placeVars, netVars, syncVars,
                 lock, opPlace, got, cur, wait, crashes>>

SyncRelease(x) ==
  /\ lock = "sync_release" /\ cur = {} /\ ~late
  /\ x \in todo
  /\ LET q == AcquiredBy(x) IN
     CASE q = Broken ->
            todo' = todo \ {x} /\ UNCHANGED <<acqd, netVars, cur, wait>>
       [] q = None ->
            todo' = {} /\ UNCHANGED <<acqd, netVars, cur, wait>>
       [] q \in Place /\ place[q] = "missing" ->
            todo' = {} /\ UNCHANGED <<acqd, netVars, cur, wait>>
       [] q \in Place /\ place[q] = "acquired" ->
            todo' = todo \ {x} /\ UNCHANGED <<acqd, netVars, cur, wait>>
       [] q \in Place /\ place[q] = "free" ->
            /\ todo' = todo \ {x}
            /\ IF x.kind = "orphan"
               THEN acqd' = acqd \ {x} /\ UNCHANGED <<netVars, cur, wait>>
               ELSE Send(x, None) /\ UNCHANGED acqd
  /\ UNCHANGED <<exporterVars, sessionVars, placeVars, late, orph, lock, opPlace, got, crashes>>

(* Time passes while a command is awaited: Timeout(5.0) has expired after  *)
(* a command that timed out, and may have after any other.                 *)
Elapsed == late' \in IF wait = "timeout" THEN {TRUE} ELSE {late, TRUE}

SyncReleaseResume ==
  /\ lock = "sync_release" /\ Answered
  /\ acqd' = acqd \ cur
  /\ Elapsed
  /\ Awaited
  /\ UNCHANGED <<exporterVars, sessionVars, placeVars, netVars, orph,
                 lock, opPlace, todo, got, crashes>>

(* The loop over to_acquire begins: orphans that are not acquired again.   *)
SyncReleaseEnd_inverted ==
  /\ lock = "sync_release" /\ cur = {} /\ (todo = {} \/ late)
  /\ lock' = "sync_acquire"
  /\ todo' = {x \in orph : x.res \in Paths(acqd)}
  /\ UNCHANGED <<exporterVars, sessionVars, placeVars, netVars, syncVars,
                 opPlace, got, cur, wait, crashes>>

SyncReleaseEnd ==
  /\ lock = "sync_release" /\ cur = {} /\ (todo = {} \/ late)
  /\ lock' = "sync_acquire"
  /\ todo' = {x \in orph : x.res \notin Paths(acqd)}
  /\ UNCHANGED <<exporterVars, sessionVars, placeVars, netVars, syncVars,
                 opPlace, got, cur, wait, crashes>>

SyncOver == lock' = "idle" /\ late' = FALSE /\ acqd' = {} /\ orph' = {}

(* One turn of the loop over to_acquire.  The asserts are outside the try: *)
(* a failing one ends the whole run.                                       *)
SyncAcquire ==
  /\ lock = "sync_acquire" /\ cur = {} /\ ~late
  /\ \E x \in todo :
       LET r == x.res IN
       IF x.acq \in Place /\ place[x.acq] # "acquired"
       THEN SyncOver /\ todo' = {} /\ UNCHANGED <<netVars, cur, wait>>
       ELSE /\ todo' = todo \ {x}
            /\ IF x.acq = Broken \/ session[exporterOf[r]] = "none" \/ imported[r] # None
               THEN UNCHANGED <<netVars, cur, wait>>
               ELSE Send(LiveRef(r), x.acq)
            /\ UNCHANGED <<lock, syncVars>>
  /\ UNCHANGED <<exporterVars, sessionVars, placeVars, opPlace, got, crashes>>

SyncAcquireResume ==
  /\ lock = "sync_acquire" /\ Answered
  /\ IF wait = "ok"
     THEN acqd' = acqd \cup cur /\ UNCHANGED todo
     ELSE todo' = {} /\ UNCHANGED acqd
  /\ Elapsed
  /\ Awaited
  /\ UNCHANGED <<exporterVars, sessionVars, placeVars, netVars, orph,
                 lock, opPlace, got, crashes>>

(* The orphans whose resource is acquired again.                           *)
ToReplace == {x \in orph : x.res \in Paths(acqd)}

(* The asserts of the replacement loop hold for x.                         *)
Replaceable(x) ==
  /\ \A n \in acqd : n.res = x.res => AcquiredBy(n) = x.acq
  /\ x.acq \in Place /\ place[x.acq] = "acquired"
  /\ x \in held[x.acq]

Replacement(r) == CHOOSE n \in acqd : n.res = r

(* The last loop, in one step: it replaces every orphan, or those it comes *)
(* to before an assert fails.                                              *)
SyncReplace ==
  /\ lock = "sync_acquire" /\ cur = {} /\ (todo = {} \/ late)
  /\ LET good == {x \in ToReplace : Replaceable(x)} IN
     \E S \in SUBSET good :
       /\ ToReplace = good => S = good
       /\ held' = [p \in Place |->
                     {IF x \in S THEN Replacement(x.res) ELSE x : x \in held[p]}]
  /\ SyncOver /\ todo' = {}
  /\ UNCHANGED <<exporterVars, sessionVars, place, netVars, opPlace, got, cur, wait, crashes>>

-----------------------------------------------------------------------------
(* AddPlace and DeletePlace.  The coordinator does not ask whether the     *)
(* place is acquired.                                                      *)

AddPlace(p) ==
  /\ LockFree
  /\ place[p] = "missing"
  /\ place' = [place EXCEPT ![p] = "free"]
  /\ UNCHANGED <<exporterVars, sessionVars, held, netVars, syncVars, opVars, crashes>>

DeletePlace(p) ==
  /\ LockFree
  /\ place[p] # "missing"
  /\ place' = [place EXCEPT ![p] = "missing"]
  /\ held' = [held EXCEPT ![p] = {}]
  /\ UNCHANGED <<exporterVars, sessionVars, netVars, syncVars, opVars, crashes>>

-----------------------------------------------------------------------------
(* ExporterStream: the coordinator's end of an exporter's connection.      *)

(* _add_default_place.                                                     *)
WithDefaultPlace(r) ==
  [p \in Place |-> IF p = defaultPlace[r] /\ place[p] = "missing" THEN "free" ELSE place[p]]

(* A resource message.  The first one for a resource (Action.ADD) also     *)
(* needs the lock; until it gets it the task reads no further message.     *)
ReceiveUpdate_without_lock(e) ==
  LET m == Head(inbox[e]) IN
  /\ m.kind = "upd"
  /\ imported' = [imported EXCEPT ![m.res] = m.acq]
  /\ place' = IF imported[m.res] = Absent THEN WithDefaultPlace(m.res) ELSE place
  /\ UNCHANGED <<blocked, pending, wait>>

ReceiveUpdate(e) ==
  LET m == Head(inbox[e]) IN
  /\ m.kind = "upd"
  /\ imported' = [imported EXCEPT ![m.res] = m.acq]
  /\ IF imported[m.res] # Absent THEN UNCHANGED <<place, blocked>>
     ELSE IF lock = "idle"
     THEN place' = WithDefaultPlace(m.res) /\ UNCHANGED blocked
     ELSE blocked' = [blocked EXCEPT ![e] = m.res] /\ UNCHANGED place
  /\ UNCHANGED <<pending, wait>>

(* A response: pending_commands.pop(0).complete(...).                      *)
ReceiveResponse(e) ==
  LET m == Head(inbox[e]) IN
  /\ m.kind = "resp"
  /\ pending[e] # <<>>
  /\ pending' = [pending EXCEPT ![e] = Tail(@)]
  /\ wait' = IF Head(pending[e]).expired THEN wait
             ELSE IF m.ok THEN "ok" ELSE "failed"
  /\ UNCHANGED <<imported, place, blocked>>

Receive(e) ==
  /\ LoopFree
  /\ session[e] = "open" /\ blocked[e] = None
  /\ inbox[e] # <<>>
  /\ ReceiveUpdate(e) \/ ReceiveResponse(e)
  /\ inbox' = [inbox EXCEPT ![e] = Tail(@)]
  /\ UNCHANGED <<exporterVars, session, held, wire, syncVars,
                 lock, opPlace, todo, got, cur, crashes>>

(* The waiting request_task gets the lock.                                 *)
Unblock(e) ==
  /\ lock = "idle" /\ blocked[e] # None
  /\ place' = WithDefaultPlace(blocked[e])
  /\ blocked' = [blocked EXCEPT ![e] = None]
  /\ UNCHANGED <<exporterVars, session, imported, held, netVars, syncVars, opVars, crashes>>

(* The stream has ended.  Cancelling a request_task that waits for the     *)
(* lock raises CancelledError at "await running_request_task", and the     *)
(* rest of the finally block is skipped: the session stays registered      *)
(* though nobody serves it.                                                *)
Teardown(e) ==
  /\ LoopFree
  /\ session[e] = "open" /\ link[e] = "down"
  /\ blocked' = [blocked EXCEPT ![e] = None]
  /\ inbox' = [inbox EXCEPT ![e] = <<>>]
  /\ pending' = [pending EXCEPT ![e] = <<>>]
  /\ IF blocked[e] # None
     THEN /\ session' = [session EXCEPT ![e] = "zombie"]
          /\ UNCHANGED <<imported, held, todo, got, cur, acqd>>
     ELSE /\ session' = [session EXCEPT ![e] = "none"]
          /\ imported' = [r \in Resource |-> IF r \in Of(e) THEN Absent ELSE imported[r]]
          /\ held' = [p \in Place |-> DetachAll(held[p], e)]
          /\ todo' = DetachAll(todo, e) /\ got' = DetachAll(got, e)
          /\ cur' = DetachAll(cur, e) /\ acqd' = DetachAll(acqd, e)
  /\ UNCHANGED <<exporterVars, place, wire, late, orph, lock, opPlace, wait, crashes>>

-----------------------------------------------------------------------------
(* The exporter.                                                           *)

(* run() and the startup message; a second exporter of the same name is    *)
(* turned away ("already connected") and exits.                            *)
Connect(e) ==
  /\ LoopFree
  /\ link[e] = "down" /\ session[e] = "none"
  /\ link' = [link EXCEPT ![e] = "up"]
  /\ session' = [session EXCEPT ![e] = "open"]
  /\ UNCHANGED <<xacq, dirty, imported, blocked, placeVars, netVars, syncVars, opVars, crashes>>

Updated(r, a) == [kind |-> "upd", res |-> r, acq |-> a]

(* add_resource().                                                         *)
AddResource(r) ==
  LET e == exporterOf[r] IN
  /\ link[e] = "up" /\ xacq[r] = Absent
  /\ xacq' = [xacq EXCEPT ![r] = None]
  /\ inbox' = [inbox EXCEPT ![e] = Append(@, Updated(r, None))]
  /\ UNCHANGED <<link, dirty, sessionVars, placeVars, wire, pending, syncVars, opVars, crashes>>

(* The answer to command c: update_resource() (if a is not Absent), then   *)
(* the response.                                                           *)
Answer(e, c, a, ok) ==
  inbox' = [inbox EXCEPT ![e] =
              @ \o (IF a = Absent THEN <<>> ELSE <<Updated(c.res, a)>>)
                \o <<[kind |-> "resp", res |-> c.res, to |-> c.to, ok |-> ok]>>]

(* Exporter.acquire(): refused if already acquired (or broken); if the     *)
(* start fails, the resource is broken.                                    *)
HandleAcquire(e, c) ==
  /\ c.to # None
  /\ IF xacq[c.res] # None
     THEN Answer(e, c, Absent, FALSE) /\ UNCHANGED xacq
     ELSE \/ /\ xacq' = [xacq EXCEPT ![c.res] = c.to]
             /\ Answer(e, c, c.to, TRUE)
          \/ /\ c.res \in Faulty
             /\ xacq' = [xacq EXCEPT ![c.res] = Broken]
             /\ Answer(e, c, Broken, FALSE)
  /\ UNCHANGED <<link, dirty>>

(* Exporter.release().                                                     *)
HandleRelease(e, c) ==
  /\ c.to = None
  /\ CASE xacq[c.res] = Broken -> Answer(e, c, Broken, FALSE) /\ UNCHANGED xacq
       [] xacq[c.res] \in {None, Absent} -> Answer(e, c, Absent, FALSE) /\ UNCHANGED xacq
       [] xacq[c.res] \in Place ->
            /\ xacq' = [xacq EXCEPT ![c.res] = None]
            /\ Answer(e, c, None, TRUE)
  /\ UNCHANGED <<link, dirty>>

(* message_pump() handles a command.                                       *)
Handle(e) ==
  /\ link[e] = "up" /\ wire[e] # <<>>
  /\ HandleAcquire(e, Head(wire[e])) \/ HandleRelease(e, Head(wire[e]))
  /\ wire' = [wire EXCEPT ![e] = Tail(@)]
  /\ UNCHANGED <<sessionVars, placeVars, pending, syncVars, opVars, crashes>>

(* The exporter's process ends.                                            *)
Gone(e) ==
  /\ link' = [link EXCEPT ![e] = "down"]
  /\ xacq' = [r \in Resource |-> IF r \in Of(e) THEN Absent ELSE xacq[r]]
  /\ dirty' = dirty \ Of(e)
  /\ wire' = [wire EXCEPT ![e] = <<>>]

(* A stop that fails marks the resource as broken and is raised again; the *)
(* update and the negative response are queued, then message_pump() and    *)
(* with it the exporter end.                                               *)
HandleStopFails(e) ==
  /\ link[e] = "up" /\ wire[e] # <<>>
  /\ LET c == Head(wire[e]) IN
     /\ c.to = None /\ c.res \in Faulty /\ xacq[c.res] \in Place
     /\ Answer(e, c, Broken, FALSE)
  /\ crashes < MaxCrashes /\ crashes' = crashes + 1
  /\ Gone(e)
  /\ UNCHANGED <<sessionVars, placeVars, pending, syncVars, opVars>>

(* poll(): an acquired resource fails to start or to stop.  The exception  *)
(* keeps _poll_step from sending the update ...                            *)
PollBreaks(r) ==
  /\ r \in Faulty /\ xacq[r] \in Place
  /\ xacq' = [xacq EXCEPT ![r] = Broken]
  /\ dirty' = dirty \cup {r}
  /\ UNCHANGED <<link, sessionVars, placeVars, netVars, syncVars, opVars, crashes>>

(* ... which the next poll sends.                                          *)
PollReports(r) ==
  /\ r \in dirty
  /\ dirty' = dirty \ {r}
  /\ inbox' = [inbox EXCEPT ![exporterOf[r]] = Append(@, Updated(r, xacq[r]))]
  /\ UNCHANGED <<link, xacq, sessionVars, placeVars, wire, pending, syncVars, opVars, crashes>>

(* The exporter stops, crashes or loses the connection (and starts over).  *)
(* Messages it has sent may still be read before the stream is torn down.  *)
Crash(e) ==
  /\ link[e] = "up"
  /\ crashes < MaxCrashes /\ crashes' = crashes + 1
  /\ Gone(e)
  /\ UNCHANGED <<sessionVars, placeVars, inbox, pending, syncVars, opVars>>

-----------------------------------------------------------------------------
Request(p) ==
  \/ \E R \in SUBSET Resource : AcquirePlace(p, R)
  \/ ReleasePlace(p) \/ AddPlace(p) \/ DeletePlace(p)

SyncReleaseAny == \E x \in todo : SyncRelease(x)

(* The steps of the task that holds the lock, apart from its timeout.      *)
Proceed ==
  \/ AcquireSend \/ AcquireResume \/ AcquireFinish
  \/ ReleaseSend \/ ReleaseResume \/ ReleaseFinish
  \/ SyncReleaseAny \/ SyncReleaseResume \/ SyncReleaseEnd
  \/ SyncAcquire \/ SyncAcquireResume \/ SyncReplace

Stream(e) == Receive(e) \/ Unblock(e) \/ Teardown(e)

ExporterStep(e) == Connect(e) \/ Handle(e) \/ HandleStopFails(e) \/ Crash(e)

ResourceStep(r) == AddResource(r) \/ PollBreaks(r) \/ PollReports(r)

Next ==
  \/ \E p \in Place : Request(p)
  \/ SyncStart \/ Proceed \/ Timeout \/ Cancel
  \/ \E e \in Exporter : Stream(e) \/ ExporterStep(e)
  \/ \E r \in Resource : ResourceStep(r)

Spec == Init /\ [][Next]_vars

(* The event loop runs a task that can go on, and its timers fire: this    *)
(* much needs no exporter to cooperate.                                    *)
TimedSpec == Spec /\ WF_vars(Proceed) /\ WF_vars(Timeout)

(* A connected exporter in working order handles its commands and exports  *)
(* its resources, the streams are served, and the poll task comes round.   *)
(* asyncio.Lock is first come, first served, so the poll task does not     *)
(* starve; random.shuffle ("don't get stuck on a problematic resource")    *)
(* puts each resource first from time to time.                             *)
FairSpec ==
  /\ TimedSpec
  /\ SF_vars(SyncStart)
  /\ \A r \in Resource : SF_vars(SyncRelease(LiveRef(r))) /\ WF_vars(AddResource(r))
  /\ \A e \in Exporter : SF_vars(Stream(e)) /\ WF_vars(Handle(e))

-----------------------------------------------------------------------------
(* No resource is in the acquired_resources of two places, nor twice in    *)
(* the one of a place - whatever exporters disconnect, restart, answer     *)
(* late or fail in between.                                                *)
ResourceExclusive ==
  \A p, q \in Place : \A x \in held[p], y \in held[q] :
    x.res = y.res => p = q /\ x = y

(* What a place has is its own: the object is still the exporter's, or is  *)
(* an orphan that can be acquired again; and it says it is acquired by     *)
(* this place unless it broke.                                             *)
HeldIsOwn ==
  \A p \in Place : \A x \in held[p] :
    x.kind # "dead" /\ AcquiredBy(x) \in {p, Broken}

(* Only an acquired place has resources.                                   *)
HeldOnlyWhenAcquired ==
  \A p \in Place : held[p] # {} => place[p] = "acquired"

(* What the coordinator believes about a resource a place has is what the  *)
(* exporter has recorded: while a place has a resource of a connected      *)
(* exporter, the exporter has started it for that place (or it broke).     *)
ExporterAgrees ==
  \A p \in Place : \A x \in held[p] :
    (x.kind = "live" /\ link[exporterOf[x.res]] = "up")
      => xacq[x.res] \in {p, Broken}

(* The two sides agree on what a place has: both of the above.             *)
Agreement == HeldIsOwn /\ ExporterAgrees

(* A release never meets a resource that has neither been orphaned nor has *)
(* a session: _release_resources would end with an AttributeError, leaving *)
(* the place acquired but stripped of its resources.                       *)
ReleaseCompletes ==
  lock = "release" =>
    \A x \in todo : x.kind = "orphan" \/ session[exporterOf[x.res]] # "none"

RespAt(box) == {i \in 1..Len(box) : box[i].kind = "resp"}

Same(m, c) == m.res = c.res /\ m.to = c.to

(* pos enumerates the n responses in box, and these and then the commands  *)
(* in wr are what pend expects; with connected = FALSE some never arrive.  *)
Matched(box, wr, pend, connected, n, pos) ==
  /\ n + Len(wr) =< Len(pend)
  /\ connected => n + Len(wr) = Len(pend)
  /\ \A i, j \in 1..n : i < j => pos[i] < pos[j]
  /\ \A k \in RespAt(box) : \E i \in 1..n : pos[i] = k
  /\ \A i \in 1..n : Same(box[pos[i]], pend[i])
  /\ \A i \in 1..Len(wr) : Same(wr[i], pend[n + i])

InOrder(box, wr, pend, connected) ==
  \E n \in 0..Len(pend) : \E pos \in [1..n -> RespAt(box)] :
    Matched(box, wr, pend, connected, n, pos)

(* Responses carry no identification: pop(0) relies on the responses under *)
(* way and the commands under way being, in this order, the pending ones.  *)
ResponseMatchesCommand ==
  \A e \in Exporter :
    session[e] = "open" => InOrder(inbox[e], wire[e], pending[e], link[e] = "up")

(* The safety properties of this module together.                          *)
Consistent ==
  /\ TypeOK /\ ResourceExclusive /\ Agreement /\ HeldOnlyWhenAcquired
  /\ ReleaseCompletes /\ ResponseMatchesCommand

(* Seen from the places alone, the coordinator is a lock that grants all   *)
(* resources of a place at once and takes them back at once: whatever      *)
(* exporters crash, answer late or come back in between, and however many  *)
(* messages a request takes, nobody sees half of it in a list.             *)
Lists == [p \in Place |-> Paths(held[p])]
RL == INSTANCE ResourceLock WITH status <- place, has <- Lists
(* AcquirePlace, ReleasePlace and all that goes wrong in them implement it. *)
ImplementsResourceLock == RL!Spec

(* The lock is always given back, even by a task that waits for a dead     *)
(* exporter, or for a response that is stuck behind an update whose        *)
(* handler itself waits for the lock.                                      *)
LockReleased == lock # "idle" ~> lock = "idle"

(* The exporter has recorded r for a place that nobody has acquired: a     *)
(* lost or late acquire, a failed release, a place deleted and re-created. *)
Leaked(r) == xacq[r] \in Place /\ place[xacq[r]] = "free"

(* _synchronize_resources finds and releases what is leaked.               *)
LeakReleased == \A r \in Resource : Leaked(r) ~> ~Leaked(r)

(* The comment in _synchronize_resources says the same of every place that *)
(* is not acquired, and of an unknown place the code logs a warning before *)
(* it tries to release the resource.                                       *)
UnknownPlaceReleased ==
  \A r \in Resource, p \in Place :
    (xacq[r] = p /\ place[p] = "missing") ~> ~(xacq[r] = p /\ place[p] = "missing")

(* No orphan has broken, nor has what the exporter offers in its place.    *)
NoneBroken ==
  \A x \in HeldRefs : x.kind = "orphan" => x.acq # Broken /\ imported[x.res] # Broken

(* If the exporter is back for good, and from some time on no run uses up  *)
(* its five seconds, then an orphaned resource does not stay one: it is    *)
(* acquired again and replaced in the place, or released.  This is not so  *)
(* while any place has an orphan that broke, or whose resource is broken   *)
(* now: "assert oldresource.acquired == newresource.acquired" may then end *)
(* every run before it comes to the other orphans.                         *)
OrphanRecovered ==
  \A r \in Resource :
    <>[](link[exporterOf[r]] = "up" /\ ~late /\ NoneBroken) => []<>(r \notin Paths(Orphans))

(* A disconnected exporter is removed, so that it can connect again.       *)
ExporterKicked ==
  \A e \in Exporter : link[e] = "down" ~> session[e] = "none"

(* The asserts in the replacement loop of _synchronize_resources hold.     *)
ReplaceAssertsHold ==
  (lock = "sync_acquire" /\ cur = {} /\ (todo = {} \/ late)) =>
    \A x \in ToReplace : Replaceable(x)
=============================================================================
