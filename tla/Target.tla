------------------------------- MODULE Target -------------------------------
(***************************************************************************)
(* A target: its resources and drivers, and the activation of a driver     *)
(* with everything it is bound to.                                         *)
(*                                                                         *)
(* activate and deactivate call themselves, each other (resolve_conflicts, *)
(* update_resources) and the hooks of the objects; the model keeps the     *)
(* calls on an explicit stack, one record per call in progress, and takes  *)
(* one action per step between two calls.  Every exception unwinds the     *)
(* whole stack, because nothing in target.py catches one.  What changes    *)
(* from outside, the availability of managed resources, changes when a     *)
(* resource is polled, which is in the middle of an activation too.        *)
(***************************************************************************)
EXTENDS Integers, Sequences, FiniteSets

CONSTANTS
    Resources,    \* the target's resources, a sequence: the order of binding
    Drivers,      \* the target's drivers, a sequence: the order of binding
    Managed,      \* the resources that come and go
    Suppliers,    \* Suppliers[d]: what the driver is bound to
    Consoles,     \* the drivers that resolve conflicts between their clients
    Stays         \* the drivers with skip_deactivate_on_export

Elements(s) == {s[i] : i \in 1..Len(s)}
Res == Elements(Resources)
Drv == Elements(Drivers)
Objects == Res \cup Drv
SuppliersOf(x) == IF x \in Drv THEN Suppliers[x] ELSE {}
Clients(s) == {d \in Drv : s \in Suppliers[d]}
Reversed(s) == [i \in 1..Len(s) |-> s[Len(s) + 1 - i]]

\* bind_driver looks for the suppliers among what is bound already.
ASSUME BindingOrder ==
    /\ Resources \in Seq(Res) /\ Drivers \in Seq(Drv) /\ Res \cap Drv = {}
    /\ \A i, j \in 1..Len(Drivers) : Drivers[i] = Drivers[j] => i = j
    /\ \A i \in 1..Len(Drivers) :
          Suppliers[Drivers[i]] \subseteq Res \cup {Drivers[j] : j \in 1..i - 1}

\* What an object stands on: itself, its suppliers, what those stand on.
Closed(S) == \A x \in S : SuppliersOf(x) \subseteq S
Needs == [x \in Objects |->
    {y \in Objects : \A S \in SUBSET Objects : x \in S /\ Closed(S) => y \in S}]

\* Nothing stands on two clients of a console: "don't activate strategies, they
\* usually have conflicting bindings" (activate).
NoRivals ==
    \A x \in Objects, k \in Consoles : \A c, d \in Needs[x] \cap Clients(k) : c = d

VARIABLES
    state,     \* BindingState: "bound" or "active"; binding is over
    avail,     \* Resource.avail
    fresh,     \* update_resources ran within the last 0.1 s
    stack,     \* the calls in progress, innermost last
    result,    \* how the last call from outside ended
    lost       \* drivers that lost a supplier while they were being activated
vars == <<state, avail, fresh, stack, result, lost>>

(***************************************************************************)
(* A call: its function, the object it is about, the client it resolves    *)
(* conflicts for, where it is, and what its loop has still to do.          *)
(***************************************************************************)
NoOne == "no one"
Frame(fn, x, client, todo) == [x |-> x, fn |-> fn, client |-> client, todo |-> todo, pc |-> "start"]
Top == stack[Len(stack)]
At(fn, pc) == stack # <<>> /\ Top.fn = fn /\ Top.pc = pc
Below == SubSeq(stack, 1, Len(stack) - 1)
Goto(pc, todo) == Append(Below, [Top EXCEPT !.pc = pc, !.todo = todo])

activate(c) == Frame("activate", c, NoOne, SuppliersOf(c))
deactivate(c) == Frame("deactivate", c, NoOne, Clients(c))
resolve_conflicts(s, client) == Frame("resolve_conflicts", s, client, Clients(s) \ {client})
update_resources == Frame("update_resources", NoOne, NoOne, Resources)
await_resources(rs) == Frame("await_resources", NoOne, NoOne, rs)
deactivate_each(s) == Frame("deactivate_each", NoOne, NoOne, s)
export == Frame("export", NoOne, NoOne, Reversed(Drivers))

Raise == stack' = <<>> /\ result' = "error"
Return == stack' = Below /\ result' = IF Len(stack) = 1 THEN "ok" ELSE result

\* The type invariant.
TypeOK ==
    /\ state \in [Objects -> {"bound", "active"}]
    /\ avail \in [Res -> BOOLEAN]
    /\ fresh \in BOOLEAN
    /\ result \in {"none", "ok", "error"}
    /\ lost \subseteq Drv
    /\ \A i \in 1..Len(stack) : stack[i].x \in Objects \cup {NoOne} /\ stack[i].client \in Objects \cup {NoOne}

Init ==
    /\ state = [x \in Objects |-> "bound"]
    /\ avail \in {a \in [Res -> BOOLEAN] : \A r \in Res \ Managed : a[r]}
    /\ fresh = FALSE
    /\ stack = <<>>
    /\ result = "none"
    /\ lost = {}

-----------------------------------------------------------------------------
(***************************************************************************)
(* Calls from outside: a strategy, a test, the end of the session.         *)
(***************************************************************************)
Begin(frame) ==
    /\ stack = <<>>
    /\ stack' = <<frame>>
    /\ result' = "none"
    /\ UNCHANGED <<state, avail, fresh, lost>>

CallActivate(c) == Begin(activate(c))
CallDeactivate(c) == Begin(deactivate(c))
CallAwait(r) == Begin(await_resources({r}))
\* deactivate_all_drivers() and then the resources.
Cleanup == Begin(deactivate_each(Reversed(Resources \o Drivers)))
Export == Begin(export)

DeactivateEach ==
    /\ At("deactivate_each", "start")
    /\ IF Top.todo = <<>>
       THEN Return
       ELSE /\ stack' = Append(Goto("start", Tail(Top.todo)), deactivate(Head(Top.todo)))
            /\ UNCHANGED result
    /\ UNCHANGED <<state, avail, fresh, lost>>

\* export() deactivates the drivers that do not ask to stay.
ExportDriver ==
    /\ At("export", "start")
    /\ IF Top.todo = <<>>
       THEN Return
       ELSE LET next == Goto("start", Tail(Top.todo))
                d == Head(Top.todo)
            IN /\ stack' = IF d \in Stays THEN next ELSE Append(next, deactivate(d))
               /\ UNCHANGED result
    /\ UNCHANGED <<state, avail, fresh, lost>>

-----------------------------------------------------------------------------
(***************************************************************************)
(* activate: an active object is done.  Otherwise await the resources      *)
(* among the suppliers, activate the suppliers one by one, letting each    *)
(* resolve conflicts, and call on_activate.                                *)
(***************************************************************************)
ActivateStart ==
    /\ At("activate", "start")
    /\ IF state[Top.x] = "active"
       THEN Return
       ELSE /\ stack' = Append(Goto("suppliers", Top.todo), await_resources(SuppliersOf(Top.x) \cap Res))
            /\ UNCHANGED result
    /\ UNCHANGED <<state, avail, fresh, lost>>

ActivateSupplier(s) ==
    /\ At("activate", "suppliers")
    /\ s \in Top.todo
    /\ LET next == Append(Below, [Top EXCEPT !.pc = "resolve", !.client = s])
       IN stack' = IF state[s] # "active" THEN Append(next, activate(s)) ELSE next
    /\ UNCHANGED <<state, avail, fresh, result, lost>>


\* Bug: the supplier is not asked to resolve conflicts.
ActivateResolve_unresolved ==
    /\ At("activate", "resolve")
    /\ stack' = Append(Below, [Top EXCEPT !.pc = "suppliers", !.client = NoOne, !.todo = @ \ {Top.client}])
    /\ UNCHANGED <<state, avail, fresh, result, lost>>

ActivateResolve ==
    /\ At("activate", "resolve")
    /\ LET s == Top.client
           next == Append(Below, [Top EXCEPT !.pc = "suppliers", !.client = NoOne, !.todo = @ \ {s}])
       IN stack' = IF s \in Consoles THEN Append(next, resolve_conflicts(s, Top.x)) ELSE next
    /\ UNCHANGED <<state, avail, fresh, result, lost>>

\* on_activate may raise: then the suppliers stay active, the client does not.
OnActivate ==
    /\ At("activate", "suppliers") /\ Top.todo = {}
    /\ \/ state' = [state EXCEPT ![Top.x] = "active"] /\ Return
       \/ Top.x \in Drv /\ Raise /\ UNCHANGED state
    /\ UNCHANGED <<avail, fresh, lost>>

\* A console makes sure that nobody else uses it.
ResolveConflicts ==
    /\ At("resolve_conflicts", "start")
    /\ IF Top.todo = {}
       THEN Return
       ELSE \E other \in Top.todo :
                /\ stack' = Append(Goto("start", Top.todo \ {other}), deactivate(other))
                /\ UNCHANGED result
    /\ UNCHANGED <<state, avail, fresh, lost>>

-----------------------------------------------------------------------------

(***************************************************************************)
(* deactivate: first the clients, then on_deactivate.                      *)
(***************************************************************************)
DeactivateStart ==
    /\ At("deactivate", "start")
    /\ IF state[Top.x] = "bound"
       THEN Return
       ELSE stack' = Goto("clients", Top.todo) /\ UNCHANGED result
    /\ UNCHANGED <<state, avail, fresh, lost>>

DeactivateClient(cli) ==
    /\ At("deactivate", "clients")
    /\ cli \in Top.todo
    /\ stack' = Append(Goto("clients", Top.todo \ {cli}), deactivate(cli))
    /\ UNCHANGED <<state, avail, fresh, result, lost>>


\* Bug: the hook runs before the loop over the clients is through.
OnDeactivate_early ==
    /\ At("deactivate", "clients")
    /\ \/ state' = [state EXCEPT ![Top.x] = "bound"] /\ lost' = lost \ {Top.x} /\ Return
       \/ Top.x \in Drv /\ Raise /\ UNCHANGED <<state, lost>>
    /\ UNCHANGED <<avail, fresh>>

OnDeactivate ==
    /\ At("deactivate", "clients") /\ Top.todo = {}
    /\ \/ /\ state' = [state EXCEPT ![Top.x] = "bound"]
          /\ lost' = lost \ {Top.x}
          /\ Return
       \/ Top.x \in Drv /\ Raise /\ UNCHANGED <<state, lost>>
    /\ UNCHANGED <<avail, fresh>>

-----------------------------------------------------------------------------
(***************************************************************************)
(* update_resources: unless it ran a moment ago, poll each resource in     *)
(* turn and deactivate those that are active and gone.  A poll asks the    *)
(* manager, which looks at all its resources.                              *)
(***************************************************************************)
Polled == {a \in [Res -> BOOLEAN] : \A r \in Res \ Managed : a[r] = avail[r]}

UpdateStart ==
    /\ At("update_resources", "start")
    /\ IF fresh
       THEN Return /\ UNCHANGED fresh
       ELSE fresh' = TRUE /\ stack' = Goto("resources", Top.todo) /\ UNCHANGED result
    /\ UNCHANGED <<state, avail, lost>>

\* Drivers whose activation has passed a supplier that needs this resource.
Undermined(r) ==
    {stack[i].x : i \in {j \in 1..Len(stack) :
        /\ stack[j].fn = "activate"
        /\ \E s \in SuppliersOf(stack[j].x) \ stack[j].todo : r \in Needs[s]}}

UpdateResource ==
    /\ At("update_resources", "resources")
    /\ IF Top.todo = <<>>
       THEN Return /\ UNCHANGED <<avail, lost>>
       ELSE LET r == Head(Top.todo) IN
            /\ avail' \in IF r \in Managed THEN Polled ELSE {avail}
            /\ IF ~avail'[r] /\ state[r] = "active"
               THEN /\ stack' = Append(Goto("resources", Tail(Top.todo)), deactivate(r))
                    /\ lost' = lost \cup Undermined(r)
               ELSE stack' = Goto("resources", Tail(Top.todo)) /\ UNCHANGED lost
            /\ UNCHANGED result
    /\ UNCHANGED <<state, fresh>>

(***************************************************************************)
(* await_resources: update, then poll what is not there yet until it is or *)
(* the time is over, and update again.                                     *)
(***************************************************************************)
AwaitStart ==
    /\ At("await_resources", "start")
    /\ stack' = Append(Goto("check", Top.todo), update_resources)
    /\ UNCHANGED <<state, avail, fresh, result, lost>>

AwaitCheck ==
    /\ At("await_resources", "check")
    /\ LET waiting == {r \in Top.todo : ~avail[r]}
       IN IF waiting = {} THEN Return ELSE stack' = Goto("poll", waiting) /\ UNCHANGED result
    /\ UNCHANGED <<state, avail, fresh, lost>>

AwaitPoll ==
    /\ At("await_resources", "poll") /\ Top.todo # {}
    /\ LET waiting == {r \in Top.todo : ~avail[r]}
       IN /\ avail' \in IF waiting = {} THEN {avail} ELSE Polled
          /\ stack' = Goto("poll", waiting)
    /\ UNCHANGED <<state, fresh, result, lost>>


\* Bug: the time counts only while something is there again.
AwaitExpired_progress ==
    /\ At("await_resources", "poll") /\ \E r \in Top.todo : avail[r]
    /\ Raise
    /\ UNCHANGED <<state, avail, fresh, lost>>

AwaitExpired ==
    /\ At("await_resources", "poll") /\ Top.todo # {}
    /\ Raise
    /\ UNCHANGED <<state, avail, fresh, lost>>

AwaitDone ==
    /\ At("await_resources", "poll") /\ Top.todo = {}
    /\ stack' = Append(Goto("last", {}), update_resources)
    /\ UNCHANGED <<state, avail, fresh, result, lost>>

AwaitReturn ==
    /\ At("await_resources", "last")
    /\ Return
    /\ UNCHANGED <<state, avail, fresh, lost>>

\* Time passes.
Age ==
    /\ fresh
    /\ fresh' = FALSE
    /\ UNCHANGED <<state, avail, stack, result, lost>>

-----------------------------------------------------------------------------
Call ==
    \/ \E c \in Drv : CallActivate(c) \/ CallDeactivate(c)
    \/ \E r \in Res : CallAwait(r) \/ CallDeactivate(r)
    \/ Cleanup
    \/ Export

\* Everything a call does by itself; the wait for resources may go on.
Step ==
    \/ DeactivateEach \/ ExportDriver
    \/ ActivateStart \/ ActivateResolve \/ OnActivate \/ ResolveConflicts
    \/ \E s \in Objects : ActivateSupplier(s)
    \/ DeactivateStart \/ OnDeactivate
    \/ \E cli \in Drv : DeactivateClient(cli)
    \/ UpdateStart \/ UpdateResource
    \/ AwaitStart \/ AwaitCheck \/ AwaitExpired \/ AwaitDone \/ AwaitReturn

Next == Call \/ Step \/ AwaitPoll \/ Age
Spec == Init /\ [][Next]_vars
\* A call goes on, and a timeout expires: one thread with nothing to wait for.
FairSpec == Spec /\ WF_vars(Step)

-----------------------------------------------------------------------------
\* deactivate() promises that no client has an inactive supplier, whichever
\* call ended how, except for a client whose supplier went away in the middle
\* of its activation.
ActiveClientsSupplied ==
    stack = <<>> =>
        \A d \in Drv \ lost : state[d] = "active" => \A s \in Suppliers[d] : state[s] = "active"

\* update_resources() is said to ensure consistent binding states, but it also
\* runs inside an activation that relies on a supplier it takes away.
SuppliersNeverLost ==
    stack = <<>> =>
        \A d \in Drv : state[d] = "active" => \A s \in Suppliers[d] : state[s] = "active"

\* Two drivers never talk on the same console.
OneClientPerConsole ==
    stack = <<>> => \A k \in Consoles : Cardinality({d \in Clients(k) : state[d] = "active"}) <= 1

\* What the calls leave behind: all of the above.
BindingsConsistent == TypeOK /\ ActiveClientsSupplied /\ OneClientPerConsole

\* A driver whose on_deactivate runs has no active client any more.
TeardownInOrder ==
    [][\A x \in Objects : state[x] = "active" /\ state'[x] = "bound"
            => \A d \in Clients(x) : state[d] = "bound"]_vars

\* Every call ends, however resources come and go.
CallsEnd == (stack # <<>>) ~> (stack = <<>>)
=============================================================================
