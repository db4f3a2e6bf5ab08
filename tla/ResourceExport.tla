--------------------------- MODULE ResourceExport ---------------------------
(***************************************************************************)
(* One resource on its way from the exporter to a client's target:         *)
(* ResourceExport (remote/exporter.py) polls the local resource, starts    *)
(* and stops what exports it and publishes the result; RemotePlaceManager  *)
(* (resource/remote.py) makes a resource of it and keeps it up to date.    *)
(* How commands and updates travel is the subject of module Coordinator,   *)
(* how the client's entry follows it, of module Publishing.                 *)
(***************************************************************************)
EXTENDS Naturals

CONSTANTS Exports, Classes,     \* the tables of exporter and client (ExportTables)
          Unreadable,   \* the classes that cannot be read
          Exported,     \* the local classes of this instance
          Paths,        \* values of what the exported parameters depend on
          Ports,        \* what get_free_port() may return
          Place         \* places

VARIABLES
    cls,        \* the class of the local resource
    local,      \* the local resource: avail and its path (or index)
    e,          \* the export
    running,    \* servers (ser2net) of this export, or the exported GPIO
    system,     \* GPIOs exported by somebody else
    published,  \* the last update sent to the coordinator
    client      \* the client's resource: made of it and polled
vars == <<cls, local, e, running, system, published, client>>

None == "none"
Broken == "<broken>"
Serial == {"USBSerialPort", "RawSerialPort"}
Gpio == {"SysfsGPIO", "MatchedSysfsGPIO"}
HasStart == cls \in Serial \cup Gpio
StartParams == IF HasStart THEN local.path ELSE "{}"
\* Local resources without a manager: always there, and always the same.
Static == {"RawSerialPort", "NetworkInterface", "SysfsGPIO", "NetworkService", "HTTPVideoStream",
           "TFTPProvider", "HTTPProvider", "NFSProvider", "AndroidNetFastboot", "YKUSHPowerPort"}
Nothing == [acquired |-> None, avail |-> FALSE, path |-> None, port |-> 0, broken |-> FALSE]

\* What self.data of the export says.
View(x) == [acquired |-> x.acquired, avail |-> x.avail, path |-> x.path,
            port |-> x.sent, broken |-> x.told]

\* The type invariant.
TypeOK ==
    /\ cls \in Exported
    /\ local \in [avail : BOOLEAN, path : Paths]
    /\ e.acquired \in Place \cup {None, Broken}
    /\ e.start \in Paths \cup {None, "{}"} /\ e.port \in {0} \cup Ports
    /\ running \subseteq [path : Paths, port : {0} \cup Ports]
    /\ client.state \in {"none", "made", "refused"}

\* acquired, avail and the parameters (path, sent, told) are in data; start is
\* start_params; port belongs to the server; made is what export_path was
\* made of; raised: the last poll raised.
Init ==
    /\ cls \in Exported
    /\ local \in [avail : IF cls \in Static THEN {TRUE} ELSE BOOLEAN, path : Paths]
    /\ e = [made |-> IF local.avail THEN local.path ELSE None, told |-> FALSE,
            acquired |-> None, avail |-> FALSE, path |-> None, sent |-> 0, start |-> None,
            broken |-> FALSE, port |-> 0, systemExported |-> FALSE, raised |-> FALSE]
    /\ running = {}
    /\ system \in SUBSET (IF cls \in Gpio THEN Paths ELSE {})
    /\ published = Nothing
    /\ client = [state |-> "none", avail |-> FALSE, path |-> None, port |-> 0]

(***************************************************************************)
(* start() and stop(): the sets of what can come of them, as pairs of the  *)
(* export and its servers.                                                 *)
(***************************************************************************)
Break(x) == [x EXCEPT !.broken = TRUE, !.acquired = Broken, !.raised = TRUE]

AlreadyExported(procs) == system \cup {r.path : r \in procs}

StartSerial(x, procs) ==
    LET began == {[x EXCEPT !.port = p] : p \in Ports}
    IN {<<[b EXCEPT !.start = local.path], procs \cup {[path |-> local.path, port |-> b.port]}>> : b \in began}
       \cup {<<Break(b), procs>> : b \in began}

\* export_path is not that of a GPIO found later, or found elsewhere.
StartGpio(x, procs) ==
    IF x.made \in AlreadyExported(procs)
    THEN {<<[x EXCEPT !.start = local.path, !.systemExported = TRUE], procs>>}
    ELSE (IF local.path \in AlreadyExported(procs) THEN {} ELSE
            {<<[x EXCEPT !.start = local.path], procs \cup {[path |-> local.path, port |-> 0]}>>})
         \cup {<<Break(x), procs>>}

Start(x, procs) ==
    IF cls \in Serial THEN StartSerial(x, procs)
    ELSE IF cls \in Gpio THEN StartGpio(x, procs)
    ELSE {<<[x EXCEPT !.start = StartParams], procs>>}

Stop(x, procs) ==
    LET stopped == [x EXCEPT !.port = 0, !.start = None]
        mine == {r \in procs : IF cls \in Gpio THEN r.path = x.start ELSE r.port = x.port}
    IN IF ~HasStart \/ x.systemExported THEN {<<stopped, procs>>}
       \* a server that is still there after kill(), a GPIO that is not
       ELSE {<<stopped, procs \ mine>>, <<Break([x EXCEPT !.port = 0]), procs>>}

\* Go on with f unless it has raised.
Then(outcomes, f(_, _)) ==
    UNION {IF o[1].raised THEN {o} ELSE f(o[1], o[2]) : o \in outcomes}

Refresh_untold(x, procs) ==
    {<<[x EXCEPT !.avail = local.avail /\ ~x.broken, !.path = local.path, !.sent = x.port], procs>>}
\* The end of poll(): what has changed goes into data.
Refresh(x, procs) ==
    {<<[x EXCEPT !.avail = local.avail /\ ~x.broken, !.path = local.path,
                   !.sent = x.port, !.told = x.broken], procs>>}

Settled_without_restart(x, procs) ==
    CASE x.broken -> {<<x, procs>>}
      [] local.avail /\ x.acquired # None /\ x.start = None /\ ~x.broken -> Start(x, procs)
      [] ~(local.avail /\ x.acquired # None) /\ x.start # None /\ ~x.broken -> Stop(x, procs)
      [] OTHER -> {<<x, procs>>}

Settled(x, procs) ==
    CASE x.broken -> {<<x, procs>>}
      [] local.avail /\ x.acquired # None /\ x.start = None /\ ~x.broken -> Start(x, procs)
      [] local.avail /\ x.acquired # None /\ x.start \notin {None, StartParams} /\ ~x.broken ->
            Then(Stop(x, procs), Start)
      [] ~(local.avail /\ x.acquired # None) /\ x.start # None /\ ~x.broken -> Stop(x, procs)
      [] OTHER -> {<<x, procs>>}

Polled(x, procs) == Then(Settled([x EXCEPT !.raised = FALSE], procs), Refresh)

(***************************************************************************)
(* The exporter.                                                           *)
(***************************************************************************)
\* update_resource: a parameter that as_pb2 cannot translate raises.  The
\* extra of an SNMPEthernetPort has a table of MAC addresses once it has seen
\* some (here: on one of the paths).
Translates(x) == cls # "SNMPEthernetPort" \/ x.path = CHOOSE p \in Paths : TRUE
Send(x) == published' = IF Translates(x) THEN View(x) ELSE published

Idle == cls \notin Unreadable

\* _poll_step for this resource, and the poll of add_resource: an exception
\* of poll() means that nothing is sent; otherwise only changes are.
Poll ==
    /\ Idle
    /\ \E o \in Polled(e, running) :
        /\ e' = o[1] /\ running' = o[2]
        /\ IF o[1].raised \/ View(o[1]) = View(e) THEN UNCHANGED published ELSE Send(o[1])
    /\ UNCHANGED <<cls, local, system, client>>

\* Exporter.acquire and release: an update is sent in any case.
Acquire(p) ==
    /\ Idle /\ e.acquired = None
    /\ \E o \in Polled([e EXCEPT !.acquired = p], running) :
        e' = o[1] /\ running' = o[2] /\ Send(o[1])
    /\ UNCHANGED <<cls, local, system, client>>

Release ==
    /\ Idle /\ e.acquired \in Place
    /\ \E o \in Polled([e EXCEPT !.acquired = None], running) :
        e' = o[1] /\ running' = o[2] /\ Send(o[1])
    /\ UNCHANGED <<cls, local, system, client>>

\* A broken resource is not released, but the update is sent.
ReleaseBroken ==
    /\ Idle /\ e.broken
    /\ Send(e)
    /\ UNCHANGED <<cls, local, e, running, system, client>>

\* The device appears, disappears or changes its path; its server does not
\* notice, but may exit on its own.
LocalChanges ==
    /\ cls \notin Static
    /\ local' \in [avail : BOOLEAN, path : Paths]
    /\ UNCHANGED <<cls, e, running, system, published, client>>

ServerExits ==
    /\ cls \in Serial
    /\ \E r \in running : running' = running \ {r}
    /\ UNCHANGED <<cls, local, e, system, published, client>>

(***************************************************************************)
(* The client.                                                             *)
(***************************************************************************)
\* factory.make_resource: parameters that the class does not know are left
\* out, but all that it needs must be there; poll() knows no such mercy.
Constructible(c) ==
    /\ Exports[c].as \in DOMAIN Classes
    /\ Classes[Exports[c].as].needed \subseteq Exports[c].params
Updatable(c) ==
    /\ Exports[c].as \in DOMAIN Classes
    /\ Exports[c].params \subseteq Classes[Exports[c].as].known

\* RemotePlaceManager.on_resource_added, for an acquired place.
Expand ==
    /\ client.state = "none"
    /\ published.acquired \in Place
    /\ client' = IF Constructible(cls)
                 THEN [state |-> "made", avail |-> published.avail, path |-> published.path, port |-> published.port]
                 ELSE [client EXCEPT !.state = "refused"]
    /\ UNCHANGED <<cls, local, e, running, system, published>>

\* RemotePlaceManager.poll: every attribute is set to that of the entry.
ClientPoll ==
    /\ client.state = "made"
    /\ client' = IF Updatable(cls)
                 THEN [client EXCEPT !.avail = published.avail, !.path = published.path, !.port = published.port]
                 ELSE [client EXCEPT !.state = "refused"]
    /\ UNCHANGED <<cls, local, e, running, system, published>>

Next ==
    \/ Poll \/ Release \/ ReleaseBroken \/ LocalChanges \/ ServerExits
    \/ \E p \in Place : Acquire(p)
    \/ Expand \/ ClientPoll

Spec == Init /\ [][Next]_vars
-----------------------------------------------------------------------------
\* The tables of exporter and client fit: whatever can be exported can be
\* used, except for a hub (there is no RemoteUSBHub).
Usable == client.state = "refused" => cls = "USBHub"

\* What an export that is in order says is so: a place that has the resource
\* finds a server for the device at the published port, unless that server
\* has exited by itself.
Serves ==
    (cls \in Serial /\ e.acquired \in Place /\ e.avail /\ ~e.raised) =>
        /\ e.sent = e.port /\ e.port # 0
        /\ \A r \in running : r.port = e.port => r.path = e.path

\* A resource nobody has is not served, unless stopping failed, or the GPIO
\* was taken for one that the system had exported.
NothingLeftRunning ==
    (e.acquired = None /\ ~e.systemExported) => running = {} /\ e.start = None

\* There are never two servers for one export that is in order.
OneServer == (~e.broken /\ ~e.systemExported) => \A r, s \in running : r = s

ExportsHonest == Usable /\ Serves /\ NothingLeftRunning /\ OneServer

\* The coordinator and the clients hear that an export is broken, although
\* the poll that found out has not sent anything.
BrokenUnseen == e.broken /\ Translates(e) /\ published.acquired # Broken
-----------------------------------------------------------------------------
(***************************************************************************)
(* The inductive invariant: what runs is what start_params stands for, and *)
(* data was last written by a poll that did not raise.                     *)
(***************************************************************************)
Export == [made : Paths \cup {None}, told : BOOLEAN, acquired : Place \cup {None, Broken}, avail : BOOLEAN,
           path : Paths \cup {None}, sent : {0} \cup Ports, start : Paths \cup {None, "{}"}, broken : BOOLEAN,
           port : {0} \cup Ports, systemExported : BOOLEAN, raised : BOOLEAN]

\* An export that is in order has at most the server it started.
Tidy(x, procs) ==
    /\ x \in Export /\ procs \subseteq [path : Paths, port : {0} \cup Ports]
    /\ x.broken <=> x.acquired = Broken
    /\ x.systemExported => cls \in Gpio
    /\ cls \in Serial /\ ~x.broken => (x.start = None <=> x.port = 0)
    /\ cls \notin Serial => x.port = 0
    /\ ~HasStart => procs = {}
    /\ HasStart /\ ~x.broken => x.start # "{}"
    /\ ~x.broken /\ ~x.systemExported => procs \subseteq (IF x.start = None THEN {} ELSE {[path |-> x.start, port |-> x.port]})

\* What an export is started for, and what data says of it.
Current(x) ==
    /\ x.acquired = None => x.start = None
    /\ x.raised => x.broken
    /\ HasStart /\ x.acquired \in Place /\ x.avail => x.start = x.path /\ x.path # None /\ x.sent = x.port

\* Only what can be read is published, and only what is published is used.
Readable ==
    /\ published.acquired # None \/ client.state # "none" => Idle
    /\ client = [state |-> client.state, avail |-> client.avail, path |-> client.path, port |-> client.port]

ExportsInv == TypeOK /\ Tidy(e, running) /\ Current(e) /\ Readable /\ ExportsHonest
=============================================================================
