----------------------------- MODULE Publishing -----------------------------
(***************************************************************************)
(* How clients see the coordinator's places and resources.                 *)
(*                                                                         *)
(* A client holds a copy of all places and resources.  The copy is filled  *)
(* by its stream: a snapshot after each subscription, then an update for    *)
(* every change.  Changes are requested with RPCs beside the stream, which *)
(* is why a client sends a `sync' through the stream after each RPC and    *)
(* waits for it to come back.  An RPC has the coordinator's lock from its   *)
(* beginning to its end.  AcquirePlace and ReleasePlace wait for exporters  *)
(* in between, and the streams, which take no lock, go on: a snapshot shows *)
(* what such an RPC has done so far.  What the exporters answer is in the   *)
(* Coordinator module; here an RPC that waits may end in any way it can.    *)
(* Persistence has the file that places are loaded from; here a restart    *)
(* finds what was saved, or nothing.                                       *)
(***************************************************************************)
EXTENDS Integers, Sequences, Functions

CONSTANTS
    Clients,        \* client processes, named as their users are
    Places,         \* names of places
    Groups,         \* the names that are numbers, and groups of the exporter
    MaxStarts,      \* bound: starts of client processes
    MaxEvents       \* bound: commands, changes of the resource, crashes

NoOne == "nobody"

ASSUME PublishingAssumption ==
    /\ Groups \subseteq Places
    /\ MaxStarts \in Nat /\ MaxEvents \in Nat
    /\ NoOne \notin Clients
ASSUME NamesAssumption == Places \cap {"none", "lost"} = {}

Fresh == [has |-> {}, acquired |-> NoOne, allowed |-> {}]
\* _add_default_place: a place with one match, for the group of its name.
Default == [Fresh EXCEPT !.has = {"match"}]

VARIABLES
    up,          \* the coordinator runs
    places,      \* the coordinator's places
    resource,    \* the one resource: 0, not exported, or its last state
    session,     \* the clients whose startup was received
    in, out,     \* per client: the two directions of its stream
    pump,        \* per client: the task that reads the stream
    copy,        \* per client: its places
    known,       \* per client: its resource, 0 never heard of, -1 without data
    cmd,         \* per client: the command it executes
    spent,       \* what is used up of the bounds
    lock,        \* the client whose RPC has the lock and waits for exporters
    adding,      \* the group whose default place waits for the lock; "lost":
                 \* the exporter left while it waited, and stays listed
    recent,      \* per place: what it was since it was last published
    since        \* per client: what its place was since its RPC took effect
service == <<up, places, resource, lock, adding, recent>>
coordinator == <<service, session>>
client == <<pump, copy, known, cmd>>
vars == <<coordinator, client, in, out, spent, since>>

(***************************************************************************)
(* Messages of a stream.  An update message replaces places, removes        *)
(* places, or replaces the data of the resource; or it answers a sync.     *)
(***************************************************************************)
Empty == [p \in {} |-> Fresh]
Nothing == [set |-> Empty, del |-> {}, res |-> {}, sync |-> FALSE]
PlaceMsg(p, value) == [Nothing EXCEPT !.set = [x \in {p} |-> value]]
Idle == [phase |-> "off", op |-> "none", place |-> "none", arg |-> NoOne]
Value(f, p) == IF p \in DOMAIN f THEN {f[p]} ELSE {}
With(f, p, v) == [x \in DOMAIN f \cup {p} |-> IF x = p THEN v ELSE f[x]]

\* What load() keeps of the places in a file.
Durable(f) == [p \in DOMAIN f |-> [f[p] EXCEPT !.acquired = NoOne, !.allowed = {}]]

Attributes == {"alias", "tag", "comment", "match"}
PlaceValues == [has : SUBSET Attributes, acquired : Clients \cup {NoOne}, allowed : SUBSET Clients]
SomePlaces == UNION {[S -> PlaceValues] : S \in SUBSET Places}
States == 0..MaxEvents + 1
Kinds == {"startup", "places", "resources", "sync"}
Message == [set : SomePlaces, del : SUBSET Places, res : SUBSET States, sync : BOOLEAN]
Phases == {"off", "starting", "idle", "calling", "answered", "syncing"}
Operations ==
    {"none", "AddPlace", "DeletePlace", "AddPlaceAlias", "DeletePlaceAlias", "SetPlaceTags", "SetPlaceComment",
     "AddPlaceMatch", "DeletePlaceMatch", "AcquirePlace", "ReleasePlace", "AllowPlace"}
CommandStates == [phase : Phases, op : Operations, place : Places \cup {"none"}, arg : Clients \cup {NoOne}]

\* The type invariant.
TypeOK ==
    /\ up \in BOOLEAN
    /\ places \in SomePlaces /\ resource \in States
    /\ session \subseteq Clients
    /\ lock \in Clients \cup {NoOne} /\ adding \in Places \cup {"none", "lost"}
    /\ recent \in [Places -> SUBSET SUBSET PlaceValues]
    /\ in \in [Clients -> Seq(Kinds)]
    /\ out \in [Clients -> Seq(Message)]
    /\ pump \in [Clients -> {"off", "running", "dead"}]
    /\ copy \in [Clients -> SomePlaces] /\ known \in [Clients -> States \cup {-1}]
    /\ cmd \in [Clients -> CommandStates]
    /\ spent \in [events : 0..MaxEvents, starts : 0..MaxStarts]
    /\ since \in [Clients -> SUBSET SUBSET PlaceValues]

Init ==
    /\ up = TRUE
    /\ \/ places = Empty /\ resource = 0
       \/ \E u \in {NoOne} \cup Clients :
            places = [p \in Places |-> [Default EXCEPT !.acquired = u]] /\ resource = 1
    /\ lock = NoOne /\ adding = "none"
    /\ recent = [p \in Places |-> {Value(places, p)}]
    /\ in = [c \in Clients |-> <<>>] /\ out = [c \in Clients |-> <<>>]
    \* One client has been there for a while.
    /\ \E first \in Clients :
        /\ session = {first}
        /\ pump = [c \in Clients |-> IF c = first THEN "running" ELSE "off"]
        /\ copy = [c \in Clients |-> IF c = first THEN places ELSE Empty]
        /\ known = [c \in Clients |-> IF c = first THEN resource ELSE 0]
        /\ cmd = [c \in Clients |-> IF c = first THEN [Idle EXCEPT !.phase = "idle"] ELSE Idle]
    /\ spent = [events |-> 0, starts |-> 0]
    /\ since = [c \in Clients |-> {}]

SpendEvent == spent.events < MaxEvents /\ spent' = [spent EXCEPT !.events = @ + 1]
SpendStart == spent.starts < MaxStarts /\ spent' = [spent EXCEPT !.starts = @ + 1]

-----------------------------------------------------------------------------
(***************************************************************************)
(* The client.                                                             *)
(***************************************************************************)
\* ClientSession.start: three messages and the first sync.
Start(c) ==
    /\ cmd[c].phase = "off" /\ up
    /\ SpendStart
    /\ pump' = [pump EXCEPT ![c] = "running"]
    /\ copy' = [copy EXCEPT ![c] = Empty] /\ known' = [known EXCEPT ![c] = 0]
    /\ cmd' = [cmd EXCEPT ![c] = [Idle EXCEPT !.phase = "starting"]]
    /\ in' = [in EXCEPT ![c] = <<"startup", "places", "resources", "sync">>]
    /\ out' = [out EXCEPT ![c] = <<>>]
    /\ UNCHANGED <<coordinator, since>>

\* stop() and close(), or the process is killed: the coordinator forgets the
\* session with its queue, and cancels the handler of an RPC that waits, which
\* leaves the place as it is.
Stop(c) ==
    /\ cmd[c].phase # "off"
    /\ cmd' = [cmd EXCEPT ![c] = Idle]
    /\ pump' = [pump EXCEPT ![c] = "off"]
    /\ copy' = [copy EXCEPT ![c] = Empty] /\ known' = [known EXCEPT ![c] = 0]
    /\ session' = session \ {c}
    /\ in' = [in EXCEPT ![c] = <<>>] /\ out' = [out EXCEPT ![c] = <<>>]
    /\ since' = [since EXCEPT ![c] = {}]
    /\ lock' = IF lock = c THEN NoOne ELSE lock
    /\ UNCHANGED <<up, places, resource, adding, recent, spent>>

(***************************************************************************)
(* A command looks at the copy of the place before it sends a request.     *)
(***************************************************************************)
IdleInCopy(c, p) == p \in DOMAIN copy[c] /\ copy[c][p].acquired = NoOne
AcquiredInCopy(c, p) == p \in DOMAIN copy[c] /\ copy[c][p].acquired # NoOne
Allowed(c, p) == AcquiredInCopy(c, p) /\ (c = copy[c][p].acquired \/ c \in copy[c][p].allowed)

Call(c, p, op, arg) ==
    /\ cmd[c].phase = "idle"
    /\ SpendEvent
    /\ cmd' = [cmd EXCEPT ![c] = [phase |-> "calling", op |-> op, place |-> p, arg |-> arg]]
    /\ UNCHANGED <<coordinator, in, out, pump, copy, known, since>>

add_place(c, p) == Call(c, p, "AddPlace", NoOne)
del_place(c, p) == IdleInCopy(c, p) /\ Call(c, p, "DeletePlace", NoOne)
add_alias(c, p) == IdleInCopy(c, p) /\ Call(c, p, "AddPlaceAlias", NoOne)
del_alias(c, p) == IdleInCopy(c, p) /\ Call(c, p, "DeletePlaceAlias", NoOne)
set_comment(c, p) == p \in DOMAIN copy[c] /\ Call(c, p, "SetPlaceComment", NoOne)
set_tags(c, p) == p \in DOMAIN copy[c] /\ Call(c, p, "SetPlaceTags", NoOne)
\* A pattern that matches is skipped.
add_match(c, p) == IdleInCopy(c, p) /\ "match" \notin copy[c][p].has /\ Call(c, p, "AddPlaceMatch", NoOne)
add_named_match(c, p) == IdleInCopy(c, p) /\ Call(c, p, "AddPlaceMatch", NoOne)
\* One that does not match is reported and sent nevertheless.
del_match(c, p) == IdleInCopy(c, p) /\ Call(c, p, "DeletePlaceMatch", NoOne)
\* check_matches: every match has a resource; one without data is an error.
Matched(c, p) == "match" \in copy[c][p].has => known[c] > 0
acquire(c, p) == IdleInCopy(c, p) /\ Matched(c, p) /\ Call(c, p, "AcquirePlace", NoOne)
release(c, p) == AcquiredInCopy(c, p) /\ Call(c, p, "ReleasePlace", NoOne)
release_from(c, p, u) == AcquiredInCopy(c, p) /\ Call(c, p, "ReleasePlace", u)
allow(c, p, u) == Allowed(c, p) /\ Call(c, p, "AllowPlace", u)

Command(c, p) ==
    \/ add_place(c, p) \/ del_place(c, p)
    \/ add_alias(c, p) \/ del_alias(c, p) \/ set_comment(c, p) \/ set_tags(c, p)
    \/ add_match(c, p) \/ add_named_match(c, p) \/ del_match(c, p)
    \/ acquire(c, p) \/ release(c, p)
    \/ \E u \in Clients : release_from(c, p, u) \/ allow(c, p, u)

\* Bug: the command is over when its RPC returns.
Sync_at_once(c) ==
    /\ cmd[c].phase = "answered"
    /\ cmd' = [cmd EXCEPT ![c] = [Idle EXCEPT !.phase = "idle"]]
    /\ since' = [since EXCEPT ![c] = {}]
    /\ UNCHANGED <<coordinator, in, out, pump, copy, known, spent>>

\* The RPC returned: sync_with_coordinator().
Sync(c) ==
    /\ cmd[c].phase = "answered"
    /\ cmd' = [cmd EXCEPT ![c].phase = "syncing"]
    /\ in' = IF pump[c] = "running" THEN [in EXCEPT ![c] = Append(@, "sync")] ELSE in
    /\ UNCHANGED <<coordinator, out, pump, copy, known, spent, since>>

\* The RPC failed with the coordinator.
RpcLost(c) ==
    /\ cmd[c].phase \in {"calling", "answered"} /\ c \notin session /\ pump[c] # "off" /\ lock # c
    /\ cmd' = [cmd EXCEPT ![c] = [Idle EXCEPT !.phase = "idle"]]
    /\ since' = [since EXCEPT ![c] = {}]
    /\ UNCHANGED <<coordinator, in, out, pump, copy, known, spent>>

(***************************************************************************)
(* message_pump.  An update for an unknown resource, and one for a known   *)
(* one that is gone, leave an entry; the deletion of an unknown place is a *)
(* KeyError, which ends the pump.  However the pump ends, it wakes the     *)
(* tasks that wait for a sync.                                             *)
(***************************************************************************)
Wake(c) == CASE cmd[c].phase = "starting" -> Idle     \* start() raises ServerError
             [] cmd[c].phase = "syncing" -> [Idle EXCEPT !.phase = "idle"]
             [] OTHER -> cmd[c]
\* The coordinator knows the stream, or will: it has not been cut off.
Connected(c) == c \in session \/ (in[c] # <<>> /\ Head(in[c]) = "startup")
Ends(c) == IF cmd[c].phase = "starting" THEN "off" ELSE "dead"

Apply(f, msg) == [p \in (DOMAIN f \cup DOMAIN msg.set) \ msg.del |->
                    IF p \in DOMAIN msg.set THEN msg.set[p] ELSE f[p]]
ApplyResource(k, msg) == IF msg.res = {} THEN k
                         ELSE LET r == CHOOSE r \in msg.res : TRUE IN IF r = 0 THEN -1 ELSE r

Receive(c) ==
    /\ pump[c] = "running" /\ out[c] # <<>>
    /\ LET msg == Head(out[c]) IN
       IF msg.del \subseteq DOMAIN copy[c]
       THEN /\ copy' = [copy EXCEPT ![c] = Apply(@, msg)]
            /\ known' = [known EXCEPT ![c] = ApplyResource(@, msg)]
            /\ cmd' = [cmd EXCEPT ![c] = IF msg.sync THEN [Idle EXCEPT !.phase = "idle"] ELSE @]
            /\ since' = [since EXCEPT ![c] = IF msg.sync THEN {} ELSE @]
            /\ out' = [out EXCEPT ![c] = Tail(@)]
            /\ UNCHANGED <<session, pump, in>>
       ELSE /\ pump' = [pump EXCEPT ![c] = Ends(c)]
            /\ cmd' = [cmd EXCEPT ![c] = Wake(c)]
            /\ session' = IF Ends(c) = "off" THEN session \ {c} ELSE session
            /\ in' = [in EXCEPT ![c] = <<>>] /\ out' = [out EXCEPT ![c] = <<>>]
            /\ UNCHANGED <<copy, known, since>>
    /\ UNCHANGED <<service, spent>>

\* The stream ended with the coordinator; what was sent since is lost.
StreamBreaks(c) ==
    /\ pump[c] = "running" /\ ~Connected(c)
    /\ pump' = [pump EXCEPT ![c] = Ends(c)]
    /\ cmd' = [cmd EXCEPT ![c] = Wake(c)]
    /\ in' = [in EXCEPT ![c] = <<>>]
    /\ UNCHANGED <<coordinator, out, copy, known, spent, since>>

-----------------------------------------------------------------------------
(***************************************************************************)
(* The coordinator's end of the stream.                                    *)
(***************************************************************************)
\* Bug: a client is told only what was published since it asked for updates.
Put_unstarted(msg) == [c \in Clients |-> IF c \in session /\ in[c] = <<>> THEN Append(out[c], msg) ELSE out[c]]

Put(msg) == [c \in Clients |-> IF c \in session THEN Append(out[c], msg) ELSE out[c]]

ClientStream(c) ==
    /\ up /\ in[c] # <<>> /\ Connected(c)
    /\ in' = [in EXCEPT ![c] = Tail(@)]
    /\ LET answer(msg) == out' = [out EXCEPT ![c] = Append(@, msg)] /\ UNCHANGED session
       IN CASE Head(in[c]) = "startup" -> session' = session \cup {c} /\ UNCHANGED out
            [] Head(in[c]) = "places" -> answer([Nothing EXCEPT !.set = places])
            [] Head(in[c]) = "resources" ->
                    answer([Nothing EXCEPT !.res = IF resource = 0 THEN {} ELSE {resource}])
            [] OTHER -> answer([Nothing EXCEPT !.sync = TRUE])
    /\ UNCHANGED <<service, client, spent, since>>

(***************************************************************************)
(* The RPCs, one at a time.  A refused one raises in the client; one that   *)
(* took effect publishes the place and schedules a save.                   *)
(***************************************************************************)
Calling(c, op) == up /\ lock = NoOne /\ cmd[c].phase = "calling" /\ cmd[c].op = op
Place(c) == cmd[c].place

\* The place p changes, and nobody is told.
Unpublished(new, p) ==
    /\ places' = new
    /\ recent' = [recent EXCEPT ![p] = @ \cup {Value(new, p)}]

Fail(c) ==
    /\ lock' = NoOne
    /\ cmd' = [cmd EXCEPT ![c] = [Idle EXCEPT !.phase = "idle"]]
    /\ UNCHANGED <<up, resource, session, adding, in, out, pump, copy, known, spent, since>>

Refuse(c) == Fail(c) /\ UNCHANGED <<places, recent>>

\* What clients that have been answered must see from now on.
Since(new, c, p) ==
    [d \in Clients |->
        IF d = c THEN {Value(new, p)}
        ELSE IF cmd[d].phase \in {"answered", "syncing"} /\ cmd[d].place = p
             THEN since[d] \cup {Value(new, p)} ELSE since[d]]

Done(c, new, msg) ==
    /\ places' = new
    /\ out' = Put(msg)
    /\ cmd' = [cmd EXCEPT ![c].phase = "answered"]
    /\ since' = Since(new, c, Place(c))
    /\ recent' = [recent EXCEPT ![Place(c)] = {Value(new, Place(c))}]
    /\ lock' = NoOne
    /\ UNCHANGED <<up, resource, session, adding, in, pump, copy, known, spent>>

Change(c, value) == Done(c, With(places, Place(c), value), PlaceMsg(Place(c), value))
Exists(c) == Place(c) \in DOMAIN places
Has(c) == places[Place(c)].has
Edit(c, possible, has) ==
    IF Exists(c) /\ possible THEN Change(c, [places[Place(c)] EXCEPT !.has = has]) ELSE Refuse(c)

AddPlace(c) ==
    /\ Calling(c, "AddPlace")
    /\ IF Exists(c) THEN Refuse(c) ELSE Change(c, Fresh)
DeletePlace(c) ==
    /\ Calling(c, "DeletePlace")
    /\ IF Exists(c)
       THEN Done(c, Restrict(places, DOMAIN places \ {Place(c)}), [Nothing EXCEPT !.del = {Place(c)}])
       ELSE Refuse(c)
AddPlaceAlias(c) ==
    /\ Calling(c, "AddPlaceAlias")
    /\ Edit(c, TRUE, Has(c) \cup {"alias"})
\* An alias that is not there is a KeyError, which is not caught.
DeletePlaceAlias(c) ==
    /\ Calling(c, "DeletePlaceAlias")
    /\ Edit(c, Exists(c) /\ "alias" \in Has(c), Has(c) \ {"alias"})
\* Tags with and without a value.
SetPlaceTags(c) ==
    /\ Calling(c, "SetPlaceTags")
    /\ \E tags \in SUBSET {"tag"} : Edit(c, TRUE, (Has(c) \ {"tag"}) \cup tags)
SetPlaceComment(c) ==
    /\ Calling(c, "SetPlaceComment")
    /\ \E comment \in SUBSET {"comment"} : Edit(c, TRUE, (Has(c) \ {"comment"}) \cup comment)
AddPlaceMatch(c) ==
    /\ Calling(c, "AddPlaceMatch")
    /\ Edit(c, Exists(c) /\ "match" \notin Has(c), Has(c) \cup {"match"})
DeletePlaceMatch(c) ==
    /\ Calling(c, "DeletePlaceMatch")
    /\ Edit(c, Exists(c) /\ "match" \in Has(c), Has(c) \ {"match"})
\* The handler has the lock, and waits for exporters.
Await(c) == lock' = c /\ UNCHANGED <<up, resource, session, adding, client, in, out, spent, since>>
Waiting(c, op) == lock = c /\ cmd[c].op = op

\* Bug: the client has looked already.
AcquirePlace_trusts_client(c) ==
    /\ Calling(c, "AcquirePlace")
    /\ IF c \in session /\ Exists(c)
       THEN Change(c, [places[Place(c)] EXCEPT !.acquired = c])
       ELSE Refuse(c)

\* Nothing is awaited without a resource; one that is not free is refused at once.
\* Otherwise the place is acquired before anything is known of the resource.
AcquirePlace(c) ==
    /\ Calling(c, "AcquirePlace")
    /\ LET acquired == [places[Place(c)] EXCEPT !.acquired = c] IN
       IF ~(c \in session /\ Exists(c) /\ places[Place(c)].acquired = NoOne) THEN Refuse(c)
       ELSE IF "match" \notin Has(c) \/ resource = 0 THEN Change(c, acquired)
       ELSE Refuse(c) \/ (Await(c) /\ Unpublished(With(places, Place(c), acquired), Place(c)))
Acquired(c) == Waiting(c, "AcquirePlace") /\ Change(c, places[Place(c)])
\* "revert earlier change"
AcquireFails(c) ==
    /\ Waiting(c, "AcquirePlace")
    /\ Fail(c)
    /\ Unpublished(With(places, Place(c), [places[Place(c)] EXCEPT !.acquired = NoOne]), Place(c))

\* With a user, a place that somebody else has is left alone: no error.  A place
\* has resources, or has not, or they have been left by their exporter.
ReleasePlace(c) ==
    /\ Calling(c, "ReleasePlace")
    /\ LET from == cmd[c].arg IN
       IF ~Exists(c) THEN Refuse(c)
       ELSE LET owner == places[Place(c)].acquired IN
            IF from # NoOne /\ owner # from
            THEN /\ cmd' = [cmd EXCEPT ![c].phase = "answered"]
                 /\ since' = [since EXCEPT ![c] = recent[Place(c)]]
                 /\ UNCHANGED <<coordinator, in, out, pump, copy, known, spent>>
            ELSE IF owner = NoOne THEN Refuse(c)
            ELSE \/ Change(c, [places[Place(c)] EXCEPT !.acquired = NoOne, !.allowed = {}])
                 \/ resource # 0 /\ Await(c) /\ UNCHANGED <<places, recent>>
Released(c) ==
    Waiting(c, "ReleasePlace") /\ Change(c, [places[Place(c)] EXCEPT !.acquired = NoOne, !.allowed = {}])

\* There is another resource to release, but its exporter has gone: an
\* AttributeError, which leaves the place as it is.
Raises(c) == lock = c /\ resource = 0 /\ Refuse(c)

AllowPlace(c) ==
    /\ Calling(c, "AllowPlace")
    /\ IF c \in session /\ Exists(c) /\ places[Place(c)].acquired = c
       THEN Change(c, [places[Place(c)] EXCEPT !.allowed = @ \cup {cmd[c].arg}])
       ELSE Refuse(c)

Serve(c) ==
    \/ AddPlace(c) \/ DeletePlace(c)
    \/ AddPlaceAlias(c) \/ DeletePlaceAlias(c) \/ SetPlaceTags(c) \/ SetPlaceComment(c)
    \/ AddPlaceMatch(c) \/ DeletePlaceMatch(c)
    \/ AcquirePlace(c) \/ Acquired(c) \/ AcquireFails(c)
    \/ ReleasePlace(c) \/ Released(c) \/ Raises(c) \/ AllowPlace(c)

(***************************************************************************)
(* The exporter sends its resource, or leaves.  A new one gets a default   *)
(* place, which is not published, and for which the handler of the          *)
(* exporter's stream takes the lock; until it has it, it reads nothing.     *)
(***************************************************************************)
AddDefaultPlace(group) ==
    IF group \in Groups \ DOMAIN places
    THEN Unpublished(With(places, group, Default), group)
    ELSE UNCHANGED <<places, recent>>

SetResource(group) ==
    /\ up /\ adding = "none" /\ SpendEvent
    /\ resource' = spent'.events + 1
    /\ out' = Put([Nothing EXCEPT !.res = {resource'}])
    /\ \/ resource # 0 /\ UNCHANGED <<places, recent, adding>>
       \/ resource = 0 /\ lock = NoOne /\ AddDefaultPlace(group) /\ UNCHANGED adding
       \/ resource = 0 /\ lock # NoOne /\ adding' = group /\ UNCHANGED <<places, recent>>
    /\ UNCHANGED <<up, lock, session, client, in, since>>
AddsDefaultPlace ==
    /\ adding \in Places /\ lock = NoOne
    /\ AddDefaultPlace(adding)
    /\ adding' = "none"
    /\ UNCHANGED <<up, resource, lock, session, client, in, out, spent, since>>

ExporterLeaves ==
    /\ up /\ resource # 0 /\ adding = "none"
    /\ resource' = 0
    /\ out' = Put([Nothing EXCEPT !.res = {0}])
    /\ UNCHANGED <<up, places, lock, adding, recent, session, client, in, spent, since>>
\* The handler that waits for the lock is cancelled, and with it the end of the
\* other one, which would remove the exporter.
ExporterLost ==
    /\ adding \in Places
    /\ adding' = "lost"
    /\ UNCHANGED <<up, places, resource, lock, recent, session, client, in, out, spent, since>>

-----------------------------------------------------------------------------
Crash ==
    /\ up /\ SpendEvent
    /\ up' = FALSE
    /\ session' = {}
    /\ in' = [c \in Clients |-> <<>>] /\ out' = [c \in Clients |-> <<>>]
    /\ resource' = 0 /\ lock' = NoOne /\ adding' = "none"
    /\ UNCHANGED <<places, recent, client, since>>

Restart ==
    /\ ~up
    /\ up' = TRUE
    /\ places' \in {Durable(places), Empty}
    /\ recent' = [p \in Places |-> {Value(places', p)}]
    /\ UNCHANGED <<resource, lock, adding, session, client, in, out, spent, since>>

Next ==
    \/ \E c \in Clients :
        \/ Start(c) \/ Stop(c) \/ Sync(c) \/ RpcLost(c)
        \/ Receive(c) \/ StreamBreaks(c)
        \/ ClientStream(c) \/ Serve(c)
        \/ \E p \in Places : Command(c, p)
    \/ \E group \in Places : SetResource(group)
    \/ AddsDefaultPlace \/ ExporterLeaves \/ ExporterLost
    \/ Crash \/ Restart

Spec == Init /\ [][Next]_vars
-----------------------------------------------------------------------------
\* What messages tell of a place or the resource: one value, or nothing.
About(msg, p) == IF p \in msg.del THEN {{}} ELSE {{v} : v \in Value(msg.set, p)}
AboutResource(msg) == {IF r = 0 THEN -1 ELSE r : r \in msg.res}
Told(s, p) == [i \in 1..Len(s) |-> About(s[i], p)]
ToldResource(s) == [i \in 1..Len(s) |-> AboutResource(s[i])]

\* What was v is w when all is read: the last message that tells of it tells w.
Becomes(v, told, w) ==
    \/ v = w /\ \A i \in DOMAIN told : told[i] = {}
    \/ \E i \in DOMAIN told : told[i] = {w} /\ \A j \in DOMAIN told : j > i => told[j] = {}

PlaceExact(c, p) == \E w \in recent[p] : Becomes(Value(copy[c], p), Told(out[c], p), w)
ResourceExact(c) ==
    \E r \in IF resource = 0 THEN {0, -1} ELSE {resource} : Becomes(known[c], ToldResource(out[c]), r)

\* A client that has subscribed has, once it has read what is under way, each
\* place as the coordinator has it, or had it since it last published it, and
\* the resource as it is; snapshots and updates cannot get into the wrong order.
CopyExact ==
    \A c \in session : pump[c] = "running" =>
        /\ "places" \notin Range(in[c]) => \A p \in Places : PlaceExact(c, p)
        /\ "resources" \notin Range(in[c]) => ResourceExact(c)

\* Stronger, and not true: each place as it is.  A default place is not
\* published, nor is what AcquirePlace does before the exporters have answered,
\* when it is reverted or the handler is cancelled.
CopyAlwaysExact ==
    \A c \in session : pump[c] = "running" /\ "places" \notin Range(in[c]) =>
        \A p \in Places : Becomes(Value(copy[c], p), Told(out[c], p), Value(places, p))

\* When a command returns, the client's copy shows its change or a later one.  A
\* release-from that finds the place free, or with another user, changes nothing:
\* the copy shows the place as it was then, or had been since it was published.
ReadYourWrites ==
    [][\A c \in Clients :
        cmd[c].phase \in {"answered", "syncing"} /\ cmd'[c].phase = "idle" /\ pump'[c] = "running" /\ c \in session
            => Value(copy'[c], cmd[c].place) \in since[c]]_vars

\* A place passes from one user to another only after a release, although
\* clients decide on copies that may be out of date.
NoTakeover ==
    [][\A p \in DOMAIN places \cap DOMAIN places' :
        places[p].acquired # NoOne => places'[p].acquired \in {places[p].acquired, NoOne}]_vars

\* Somebody who waits for a sync gets it from the stream, or is woken when
\* the living pump notices the end of the stream.
SyncUnderWay ==
    \A c \in Clients : cmd[c].phase = "syncing" /\ pump[c] = "running" /\ c \in session =>
        \/ \E i \in 1..Len(in[c]) : in[c][i] = "sync"
        \/ \E i \in 1..Len(out[c]) : out[c][i].sync

\* Waiting for the first sync, start() cannot be left alone by its pump.
StartReturns == \A c \in Clients : cmd[c].phase = "starting" => pump[c] = "running"

\* What a connected client can rely on: all of the above.
ClientsServed == TypeOK /\ CopyExact /\ SyncUnderWay /\ StartReturns

\* cancel_pending_syncs() is there so that nobody waits for a pump that has
\* ended; but a sync may begin after it.
SyncCancelled == \A c \in Clients : cmd[c].phase = "syncing" => pump[c] = "running"
=============================================================================
