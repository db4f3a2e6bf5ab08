--------------------------- MODULE SSHConnections ---------------------------
(***************************************************************************)
(* SSHConnectionManager and one SSHConnection of it (util/ssh.py): a       *)
(* control master, own or found, a keepalive beside it, and forwardings    *)
(* that are shared by all who ask for the same destination.                *)
(***************************************************************************)
EXTENDS Naturals, FiniteSets

CONSTANTS Users,        \* code that asks the manager for forwardings
          Dests,        \* destinations of forwardings
          MaxPort       \* local ports, in the order in which they are handed out

VARIABLES
    external,   \* the user's own control master runs
    managed,    \* the manager has the connection
    c,          \* the connection object: connected, own (it has a socket), stuck (a master that
                \* failed to start is remembered), keepalive, forwards and rforwards (local, remote)
    master,     \* the own control master runs
    live,       \* <<dest, port>> forwarded by a master, <<dest, 0>> when it is a remote forwarding
    ports,      \* ports handed out
    has,        \* what the users got: <<dest, port>>
    told,       \* the connection object was disconnected and connected again
    lost,       \* the link went down, or a command of ours failed
    result
vars == <<external, managed, c, master, live, ports, has, told, lost, result>>

Fresh == [connected |-> FALSE, own |-> FALSE, stuck |-> FALSE, keepalive |-> "none", forwards |-> {}, rforwards |-> {}]
None == <<>>
Up == IF c.own THEN master ELSE external

\* The type invariant.
TypeOK ==
    /\ external \in BOOLEAN /\ managed \in BOOLEAN /\ master \in BOOLEAN
    /\ c.keepalive \in {"none", "running", "dead"}
    /\ c.forwards \subseteq Dests \X (1..MaxPort) /\ live \subseteq Dests \X (0..MaxPort) /\ c.rforwards \subseteq Dests
    /\ ports \in 0..MaxPort
    /\ result \in {"none", "ok", "not_connected", "error"}

Init ==
    /\ external \in BOOLEAN
    /\ managed = FALSE /\ c = Fresh /\ master = FALSE /\ live = {} /\ ports = 0
    /\ has = [u \in Users |-> None]
    /\ told = FALSE /\ lost = FALSE /\ result = "none"

IsConnected == c.connected /\ c.keepalive = "running"
Raise(why) == result' = why /\ UNCHANGED <<external, managed, c, master, live, ports, has, told, lost>>

\* _check_external_master asks ssh; _open_connection starts a master of its own
\* when there is none.
CheckExternalMaster == external
Open(connection) == [connection EXCEPT !.connected = TRUE, !.own = ~CheckExternalMaster, !.keepalive = "running"]

\* get(): a connection that the manager has is returned as it is.  Otherwise
\* a new one looks for a master, or starts one.
Get ==
    /\ ~managed
    /\ \/ /\ managed' = TRUE /\ result' = "ok"
          /\ c' = Open(Fresh)
          /\ master' = (master \/ ~external)
          /\ told' = FALSE
       \/ result' = "error" /\ ~external /\ UNCHANGED <<managed, c, master, told>>
    /\ UNCHANGED <<external, live, ports, has, lost>>

\* connect() on the connection object itself.  A master that could not be
\* started stays in _master, and the assertion stops all later attempts.
Connect ==
    /\ managed /\ ~c.connected
    /\ \/ /\ external \/ ~c.stuck
          /\ c' = Open(c) /\ master' = (master \/ ~external)
          /\ told' = TRUE /\ result' = "ok"
       \/ /\ ~external
          /\ c' = [c EXCEPT !.stuck = TRUE]
          /\ result' = "error" /\ UNCHANGED <<master, told>>
    /\ UNCHANGED <<external, managed, live, ports, has, lost>>

\* run, run_check, get_file and put_file: a process of their own.
Use ==
    /\ managed /\ IsConnected
    /\ \E how \in {"ok", "error"} : Raise(how)

Wanted(d) == {f \in c.forwards : f[1] = d}
AddForward_unrecorded(u, d) ==
    /\ managed /\ IsConnected /\ has[u] = None /\ ports < MaxPort
    /\ ports' = ports + 1
    /\ live' = live \cup {<<d, ports + 1>>} /\ has' = [has EXCEPT ![u] = <<d, ports + 1>>] /\ result' = "ok"
    /\ UNCHANGED <<external, managed, c, master, told, lost>>

\* request_forward: one forwarding for each destination.
AddForward(u, d) ==
    /\ managed /\ IsConnected /\ has[u] = None
    /\ \/ /\ Wanted(d) # {}
          /\ \E f \in Wanted(d) : has' = [has EXCEPT ![u] = f]
          /\ result' = "ok" /\ UNCHANGED <<c, live, ports>>
       \/ /\ Wanted(d) = {} /\ Up /\ ports < MaxPort
          /\ LET f == <<d, ports + 1>> IN
             /\ c' = [c EXCEPT !.forwards = @ \cup {f}]
             /\ live' = live \cup {f}
             /\ has' = [has EXCEPT ![u] = f]
          /\ ports' = ports + 1 /\ result' = "ok"
       \/ Wanted(d) = {} /\ result' = "error" /\ UNCHANGED <<c, live, ports, has>>
    /\ UNCHANGED <<external, managed, master, told, lost>>

\* remove_forward: forgotten first, then cancelled, whoever else uses it.
RemoveForward(u) ==
    /\ managed /\ IsConnected /\ has[u] # None /\ has[u] \in c.forwards
    /\ c' = [c EXCEPT !.forwards = @ \ {has[u]}]
    /\ has' = [v \in Users |-> IF has[v] = has[u] THEN None ELSE has[v]]
    /\ \/ live' = live \ {has[u]} /\ result' = "ok" /\ UNCHANGED lost
       \/ UNCHANGED live /\ result' = "error" /\ lost' = TRUE
    /\ UNCHANGED <<external, managed, master, ports, told>>

\* Remote forwardings are not shared and not counted.
AddRemote(d) ==
    /\ managed /\ IsConnected
    /\ \/ Up /\ live' = live \cup {<<d, 0>>} /\ c' = [c EXCEPT !.rforwards = @ \cup {d}] /\ result' = "ok"
       \/ result' = "error" /\ UNCHANGED <<live, c>>
    /\ UNCHANGED <<external, managed, master, ports, has, told, lost>>

RemoveRemote(d) ==
    /\ managed /\ IsConnected /\ d \in c.rforwards
    /\ c' = [c EXCEPT !.rforwards = @ \ {d}]
    /\ \/ live' = live \ {<<d, 0>>} /\ result' = "ok" /\ UNCHANGED lost
       \/ UNCHANGED live /\ result' = "error" /\ lost' = TRUE
    /\ UNCHANGED <<external, managed, master, ports, has, told>>

\* _check_connected, for all that needs the connection.
NotConnected ==
    /\ managed /\ ~IsConnected
    /\ Raise("not_connected")

\* disconnect(): the keepalive, then the own master; the table of forwardings
\* stays.  close() of the manager drops the connection afterwards.
Stopped == [c EXCEPT !.connected = FALSE, !.own = FALSE, !.keepalive = "none"]
Disconnect(drop) ==
    /\ managed /\ IsConnected
    /\ c' = Stopped
    /\ \/ master' = (master /\ ~c.own) /\ live' = (IF c.own THEN {} ELSE live) /\ result' = "ok" /\ UNCHANGED lost
       \/ c.own /\ UNCHANGED <<master, live>> /\ result' = "error" /\ lost' = TRUE
    /\ managed' = (result' # "ok" \/ ~drop)
    /\ has' = [u \in Users |-> None]
    /\ UNCHANGED <<external, ports, told>>

\* remove_connection: only what is not connected.
RemoveConnection ==
    /\ managed /\ ~IsConnected
    /\ managed' = FALSE /\ c' = Fresh /\ result' = "ok"
    /\ has' = [u \in Users |-> None]
    /\ UNCHANGED <<external, master, live, ports, told, lost>>

\* The program ends: cleanup() of the connection cancels the forwardings
\* before it disconnects; the first command that fails leaves the rest to
\* close_all() of the manager, which only disconnects.
Cancelled == live \ (c.forwards \cup (c.rforwards \X {0}))
Cleanup ==
    /\ managed /\ IsConnected
    /\ \E cancelled, stopped \in BOOLEAN :
       /\ live' = IF c.own /\ stopped THEN {} ELSE IF cancelled THEN Cancelled ELSE live
       /\ master' = (master /\ ~stopped)
       /\ lost' = (lost \/ ~cancelled \/ ~stopped)
       /\ result' = IF cancelled /\ stopped THEN "ok" ELSE "error"
    /\ managed' = FALSE /\ c' = Fresh /\ has' = [u \in Users |-> None]
    /\ UNCHANGED <<external, ports, told>>

\* The link goes down: a master and the keepalive end.
LinkLost ==
    /\ managed /\ c.keepalive = "running"
    /\ c' = [c EXCEPT !.keepalive = "dead"]
    /\ master' = IF c.own THEN FALSE ELSE master
    /\ external' = IF c.own THEN external ELSE FALSE
    /\ live' = {} /\ lost' = TRUE
    /\ UNCHANGED <<managed, ports, has, told, result>>

Next ==
    \/ Get \/ Connect \/ Use \/ NotConnected \/ RemoveConnection \/ Cleanup \/ LinkLost
    \/ \E d \in Dests : AddRemote(d) \/ RemoveRemote(d)
    \/ \E drop \in BOOLEAN : Disconnect(drop)
    \/ \E u \in Users : RemoveForward(u) \/ \E d \in Dests : AddForward(u, d)

Spec == Init /\ [][Next]_vars
-----------------------------------------------------------------------------
\* Whoever was given a port for a destination can use it, until it is removed
\* or the link is lost.  (A connection object that is connected again hands
\* out the ports of its former life.)
PortsWork == (~told /\ ~lost) => \A u \in Users : has[u] # None => has[u] \in live

\* Two who asked for the same destination share a port, two who did not never
\* do.
PortsShared == \A u, v \in Users : (has[u] # None /\ has[v] # None /\ ~told) =>
                    (has[u][1] = has[v][1] <=> has[u][2] = has[v][2])

\* Nothing is left on this side when the connection is closed, unless a
\* command of ours failed; a forwarding through the user's own master outlives
\* disconnect(), and only cleanup() removes it.
NothingLeft == (~c.connected /\ ~lost) => ~master /\ (external \/ live = {})

SSHHonest == PortsWork /\ PortsShared /\ NothingLeft
-----------------------------------------------------------------------------
(***************************************************************************)
(* The inductive invariant: what the connection object knows agrees with   *)
(* what the masters do, as long as nothing was lost.                       *)
(***************************************************************************)
Connections == [connected : BOOLEAN, own : BOOLEAN, stuck : BOOLEAN, keepalive : {"none", "running", "dead"},
                forwards : SUBSET (Dests \X (1..MaxPort)), rforwards : SUBSET Dests]
Tables ==
    /\ c \in Connections /\ told \in BOOLEAN /\ lost \in BOOLEAN
    /\ has \in [Users -> {None} \cup (Dests \X (1..MaxPort))]

\* A destination is forwarded once, and a port is handed out once.
ForwardsApart == \A f, g \in c.forwards : f[2] <= ports /\ (f[1] = g[1] \/ f[2] = g[2] => f = g)

\* What the users have is in the table of a connection that is up, and what
\* is in the table of its first life is forwarded.
HasForwards ==
    /\ \A u \in Users : has[u] # None => managed /\ c.connected /\ has[u] \in c.forwards
    /\ (c.connected /\ ~told /\ ~lost) => c.forwards \subseteq live

\* Own masters run for connections that are up; the user's own one replaces them.
MastersKnown ==
    /\ c.connected => managed /\ c.keepalive # "none"
    /\ c.keepalive = "dead" => lost
    /\ ~lost => /\ c.connected => (c.own <=> ~external)
                /\ master => c.connected /\ c.own

SSHInv == TypeOK /\ Tables /\ ForwardsApart /\ HasForwards /\ MastersKnown /\ SSHHonest
=============================================================================
