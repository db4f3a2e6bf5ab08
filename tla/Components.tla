----------------------------- MODULE Components -----------------------------
(***************************************************************************)
(* The parts of labgrid that do not interact with each other: boards and   *)
(* what is attached to them, and the programs around a place.  Each has a  *)
(* module of its own; one of them is examined in each behaviour, and the   *)
(* slots are the variables of whichever it is.                             *)
(***************************************************************************)
EXTENDS Naturals, Sequences, FiniteSets, UdevClasses, ExportTables

CONSTANTS
    Examined,                               \* the components of this instance
    Index,                                  \* Outlets
    Drivers, Clients, ClientOf, MaxNumber,  \* SharedOutputs
    AgentCalls, Modules, Methods,           \* Agent
    Users, Dests, MaxPort,                  \* SSHConnections
    ConsoleKinds, MaxLines, MaxBoots, MaxSaid,     \* Console
    N, MaxVia, GraphCalls,                  \* GraphStrategy
    MaxEvents, MaxQueue,                    \* Udev
    Names, MaxResources, CommandCalls,      \* Commands
    MaxRounds,                              \* ConsoleSession
    MaxAttempts, Scopes, Ports,             \* SSHDriver
    MaxChanges, MaxCrashes,                 \* Persistence
    Exported, Paths, ExportPorts, Place     \* ResourceExport

ASSUME AgentAssumption == AgentCalls \in Nat /\ Modules \cap {"plain", "fd", "close"} = {}
ASSUME OutputsAssumption == IsFiniteSet(Drivers) /\ ClientOf \in [Drivers -> Clients] /\ MaxNumber \in Nat \ {0}
ASSUME IndexAssumption == Index \subseteq 0..99
ASSUME ExportsAssumption ==
    /\ Exported \subseteq DOMAIN Exports /\ 0 \notin ExportPorts
    /\ Paths \cap {"none", "{}"} = {} /\ Place \cap {"none", "<broken>"} = {}
ASSUME BoundAssumption ==
    /\ MaxPort \in Nat /\ MaxRounds \in Nat /\ MaxAttempts \in Nat /\ MaxChanges \in Nat /\ MaxCrashes \in Nat
    /\ MaxResources \in Nat /\ CommandCalls \in Nat
ASSUME GraphAssumption == N \in Nat \ {0} /\ MaxVia \in Nat /\ GraphCalls \in Nat

VARIABLES
    bench,      \* the component that is examined
    s1, s2, s3, s4, s5, s6, s7, s8, s9, s10, s11, s12, s13
slots == <<s1, s2, s3, s4, s5, s6, s7, s8, s9, s10, s11, s12, s13>>
vars == <<bench, slots>>

Unused == "unused"
-----------------------------------------------------------------------------
(***************************************************************************)
(* Boards and what is attached to them.                                    *)
(***************************************************************************)
O == INSTANCE Outlets WITH backend <- s1, index <- s2, other <- s3,
        inverted <- s4, port <- s5, relay <- s6, session <- s7, phase <- s8, wasOff <- s9, result <- s10
OInit == bench = "outlets" /\ O!Init /\ s11 = Unused /\ s12 = Unused /\ s13 = Unused
ONext == bench = "outlets" /\ O!Next /\ UNCHANGED <<bench, s11, s12, s13>>

S == INSTANCE SharedOutputs WITH device <- s1, number <- s2,
        refs <- s3, proxy <- s4, call <- s5, byte <- s6, lines <- s7, claim <- s8, done <- s9,
        cut <- s10, astray <- s11
SInit == bench = "outputs" /\ S!Init /\ s12 = Unused /\ s13 = Unused
SNext == bench = "outputs" /\ S!Next /\ UNCHANGED <<bench, s12, s13>>

A == INSTANCE Agent WITH MaxCalls <- AgentCalls, remote <- s1, alive <- s2,
        wrapper <- s3, stdin <- s4, stdout <- s5, fdpass <- s6, registered <- s7, loaded <- s8, calls <- s9,
        pending <- s10, what <- s11, got <- s12, upset <- s13
AInit == bench = "agent" /\ A!Init
ANext == bench = "agent" /\ A!Next /\ UNCHANGED bench

H == INSTANCE SSHConnections WITH external <- s1,
        managed <- s2, c <- s3, master <- s4, live <- s5, ports <- s6, has <- s7, told <- s8, lost <- s9,
        result <- s10
HInit == bench = "ssh" /\ H!Init /\ s11 = Unused /\ s12 = Unused /\ s13 = Unused
HNext == bench = "ssh" /\ H!Next /\ UNCHANGED <<bench, s11, s12, s13>>

C == INSTANCE Console WITH Kinds <- ConsoleKinds, kind <- s1, secret <- s2, board <- s3, knows <- s4, boots <- s5, typed <- s6, said <- s7,
        lines <- s8, d <- s9
CInit == bench = "console" /\ C!Init /\ s10 = Unused /\ s11 = Unused /\ s12 = Unused /\ s13 = Unused
CNext == bench = "console" /\ C!Next /\ UNCHANGED <<bench, s10, s11, s12, s13>>

G == INSTANCE GraphStrategy WITH MaxCalls <- GraphCalls, deps <- s1, path <- s2, running <- s3,
        frames <- s4, log <- s5, calls <- s6, caught <- s7, result <- s8
GInit == bench = "graph" /\ G!Init /\ s9 = Unused /\ s10 = Unused /\ s11 = Unused /\ s12 = Unused /\ s13 = Unused
GNext == bench = "graph" /\ G!Next /\ UNCHANGED <<bench, s9, s10, s11, s12, s13>>

U == INSTANCE Udev WITH Taken <- Taken, kind <- s1, here <- s2, nodes <- s3, events <- s4,
        queue <- s5, plan <- s6, rs <- s7, missed <- s8, odd <- s9
UInit == bench = "udev" /\ U!Init /\ s10 = Unused /\ s11 = Unused /\ s12 = Unused /\ s13 = Unused
UNext == bench = "udev" /\ U!Next /\ UNCHANGED <<bench, s10, s11, s12, s13>>
-----------------------------------------------------------------------------
(***************************************************************************)
(* The programs around a place.                                            *)
(***************************************************************************)
K == INSTANCE Commands WITH MaxCalls <- CommandCalls, cmd <- s1, resources <- s2, drivers <- s3, calls <- s4, last <- s5
KInit == bench = "commands" /\ K!Init /\ s6 = Unused /\ s7 = Unused /\ s8 = Unused /\ s9 = Unused /\ s10 = Unused /\ s11 = Unused /\ s12 = Unused /\ s13 = Unused
KNext == bench = "commands" /\ K!Next /\ UNCHANGED <<bench, s6, s7, s8, s9, s10, s11, s12, s13>>

M == INSTANCE ConsoleSession WITH loop <- s1, acquired <- s2, allowed <- s3, avail <- s4,
        pc <- s5, microcom <- s6, code <- s7, deaf <- s8, overdue <- s9, rounds <- s10, result <- s11
MInit == bench = "microcom" /\ M!Init /\ s12 = Unused /\ s13 = Unused
MNext == bench = "microcom" /\ M!Next /\ UNCHANGED <<bench, s12, s13>>
MSteps == bench = "microcom" /\ M!Steps /\ UNCHANGED <<bench, s12, s13>>

D == INSTANCE SSHDriver WITH status <- s1, n <- s2,
        ssh <- s3, control <- s4, dirs <- s5, passfiles <- s6, keepalive <- s7, board <- s8, password <- s9,
        scope <- s10, forwarded <- s11, crossed <- s12, result <- s13
DInit == bench = "sshdriver" /\ D!Init
DNext == bench = "sshdriver" /\ D!Next /\ UNCHANGED bench

T == INSTANCE Strategies WITH kind <- s1, status <- s2, broken <- s3, todo <- s4, active <- s5, board <- s6,
        forced <- s7, leftover <- s8, result <- s9
TInit == bench = "strategy" /\ T!Init /\ s10 = Unused /\ s11 = Unused /\ s12 = Unused /\ s13 = Unused
TNext == bench = "strategy" /\ T!Next /\ UNCHANGED <<bench, s10, s11, s12, s13>>

P == INSTANCE Persistence WITH up <- s1, places <- s2, acquired <- s3,
        scheduled <- s4, pc <- s5, snapshot <- s6, temp <- s7, disk <- s8, failed <- s9, crashes <- s10
PInit == bench = "files" /\ P!Init /\ s11 = Unused /\ s12 = Unused /\ s13 = Unused
PNext == bench = "files" /\ P!Next /\ UNCHANGED <<bench, s11, s12, s13>>

E == INSTANCE ResourceExport WITH Ports <- ExportPorts, cls <- s1, local <- s2, e <- s3, running <- s4, system <- s5, published <- s6,
        client <- s7
EInit == bench = "exports" /\ E!Init /\ s8 = Unused /\ s9 = Unused /\ s10 = Unused /\ s11 = Unused /\ s12 = Unused /\ s13 = Unused
ENext == bench = "exports" /\ E!Next /\ UNCHANGED <<bench, s8, s9, s10, s11, s12, s13>>
EPoll == bench = "exports" /\ E!Poll /\ UNCHANGED <<bench, s8, s9, s10, s11, s12, s13>>
-----------------------------------------------------------------------------
Init == /\ bench \in Examined
        /\ \/ OInit \/ SInit \/ AInit \/ HInit \/ CInit \/ GInit \/ UInit
           \/ KInit \/ MInit \/ DInit \/ TInit \/ PInit \/ EInit
Next == \/ ONext \/ SNext \/ ANext \/ HNext \/ CNext \/ GNext \/ UNext
        \/ KNext \/ MNext \/ DNext \/ TNext \/ PNext \/ ENext
Spec == Init /\ [][Next]_vars /\ WF_vars(EPoll) /\ WF_vars(MSteps)
-----------------------------------------------------------------------------
\* Power backends and digital outputs report what they did and reach only the
\* outlet they are configured for (power/*.py, the drivers of relays).
OutletsOK == bench = "outlets" => O!TypeOK /\ O!OutletsHonest

\* Drivers that share one FTDI chip through agents keep each other's lines
\* (ftdigpiodriver.py, agents/ftdi_gpio.py).
SharedOK == bench = "outputs" => S!TypeOK /\ S!SharedSafely

\* A call through an agent gets its own answer (agentwrapper.py, agent.py).
AgentOK == bench = "agent" => A!TypeOK /\ A!AgentHonest

\* Forwardings work and nothing is left behind (util/ssh.py).
SSHOK == bench = "ssh" => H!TypeOK /\ H!SSHHonest

\* A command on a serial console returns its own output, and a driver that
\* lost track finds the prompt again (shelldriver.py and the boot loaders).
ConsoleOK == bench = "console" => C!TypeOK /\ C!ConsoleHonest

\* A transition runs the states in an order that respects the dependencies
\* (graphstrategy.py).
GraphOK == bench = "graph" => G!TypeOK /\ G!GraphHonest

\* Resources on USB are the devices that are there (udev.py).
UdevOK == bench = "udev" => U!TypeOK /\ U!UdevHonest

\* Switching an outlet leaves all others as they are.
OutletsApart == [][bench = "outlets" => O!OthersUntouched]_vars

\* A command works on the device that was meant, with the driver for it
\* (client.py, target.py).
CommandsOK == bench = "commands" => K!TypeOK /\ K!CommandsHonest

\* microcom does not outlive the right to use the place (client.py).
ConsoleSessionOK == bench = "microcom" => M!TypeOK /\ M!ConsoleSessionHonest

\* Commands go through a living master and a deactivated driver leaves none
\* (sshdriver.py).
SSHDriverOK == bench = "sshdriver" => D!TypeOK /\ D!SSHDriverHonest

\* The status of a strategy is what the board and the drivers are in
\* (strategy/*.py).
StrategiesOK == bench = "strategy" => T!TypeOK /\ T!StrategiesHonest

\* The coordinator's files are whole and up to date (coordinator.py).
PersistenceOK == bench = "files" => P!TypeOK /\ P!PersistenceHonest

\* What an exporter publishes is what is there (exporter.py).
ExportsOK == bench = "exports" => E!TypeOK /\ E!ExportsHonest

\* What must not last: a microcom without a place to use (client.py), and a broken
\* export that the coordinator has not been told of (exporter.py).
Unsettled == \/ bench = "microcom" /\ M!Lingers
             \/ bench = "exports" /\ E!BrokenUnseen
\* Neither lasts, although nothing but the next check or poll ends it.
Settles == Unsettled ~> ~Unsettled
=============================================================================
