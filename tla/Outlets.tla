------------------------------ MODULE Outlets ------------------------------
(***************************************************************************)
(* Switched outlets: the power backends of driver/power/, the digital      *)
(* output drivers, and the drivers that implement PowerProtocol with them. *)
(*                                                                         *)
(* A backend is a record of what its power_set and power_get (or set and   *)
(* get) do with the number of a port.  The device at the other end is      *)
(* external: an outlet has a number, and switches when a command names it. *)
(***************************************************************************)
EXTENDS Integers

CONSTANT Index          \* The port numbers a configuration can contain, of 0..99.

(***************************************************************************)
(* What a reply can show of an outlet, and how replies are read.  `Raise'  *)
(* stands for an exception, `Nothing' for a function that falls off its    *)
(* end and returns None.                                                   *)
(***************************************************************************)
Shown == {"on", "off", "turning_on", "turning_off"}
Settled == {"on", "off"}
Flip(s) == [on |-> "off", off |-> "on", turning_on |-> "turning_off", turning_off |-> "turning_on"][s]
Raise == "raise"
Nothing == "none"

Decode(on, off, else) == [s \in Shown |-> IF s \in on THEN "on" ELSE IF s \in off THEN "off" ELSE else]
Strict == Decode({"on"}, {"off"}, Raise)      \* both values are compared
OnlyOn == Decode({"on"}, {}, "off")           \* value == "1"
OnlyOff == Decode({}, {"off"}, "on")          \* value != "Disabled"

Same == [i \in Index |-> i]

(***************************************************************************)
(* has: the outlets of the device, as far as the code does not care.        *)
(* valid: the numbers the assertions let pass.  sets, reads: the outlet a  *)
(* command switches and the one whose state is read, for each number.      *)
(* fails: the numbers for which reading raises, whatever the device says.  *)
(* decode: see above.  port: what the backend does with its argument of    *)
(* this name: it is asserted to be None, it is needed for the URL, or      *)
(* neither.  PORT: the module has a constant of this name.  checked: a     *)
(* refused command raises.  confirm: the reply to a command is read back.  *)
(* login: how a session on the device ends.  invert: the wiring can be     *)
(* inverted.  readable: get() asks the device.  cycles: cycle() is off,     *)
(* a delay and on, or one command to the device, or as configured.  slow:   *)
(* the device shows for a while that it is switching.                       *)
(***************************************************************************)
Backend == [has |-> Index, valid |-> Index, sets |-> Same, reads |-> Same, fails |-> {}, decode |-> Strict,
            port |-> "none", PORT |-> FALSE, checked |-> TRUE, confirm |-> FALSE,
            login |-> "no", invert |-> FALSE, readable |-> TRUE, cycles |-> "steps", slow |-> FALSE]

Minimum(S) == CHOOSE m \in S : \A x \in S : m <= x

\* Positions in a word: a mask printed with `width' digits has bit b at this
\* place from the left, and bit b of a reply belongs to this outlet.
FromLeft(b, width) == width - b
ByBit(b, first) == b - first + 1

apc == [Backend EXCEPT !.valid = Index \cap 1..8]
digipower == [Backend EXCEPT !.valid = Index \cap 1..8, !.port = "url", !.PORT = TRUE,
                             !.sets = [i \in Index |-> FromLeft(8 - i, 8)],
                             !.reads = [i \in Index |-> (9 + i) - 9]]
\* 1 << (index - 1): a shift by -1 raises.
digitalloggers_http == [Backend EXCEPT !.reads = [i \in Index |-> ByBit(i - 1, 0)], !.fails = Index \cap {0}]
digitalloggers_restapi == Backend
eaton == [Backend EXCEPT !.slow = TRUE, !.valid = Index \cap 1..16, !.port = "any", !.checked = FALSE,
                         !.decode = Decode({"on", "turning_on"}, {"off", "turning_off"}, Raise)]
eg_pms2_network == [Backend EXCEPT !.valid = Index \cap 1..4, !.port = "url", !.PORT = TRUE,
                                   !.decode = OnlyOn, !.login = "after"]
eth008 == [Backend EXCEPT !.valid = Index \cap 1..8, !.port = "url", !.PORT = TRUE, !.confirm = TRUE]
gude == [Backend EXCEPT !.valid = Index \cap 1..8, !.port = "url", !.PORT = TRUE]
\* get_state() takes the first line that starts with the number: 2 is found
\* before 20 because the page lists the ports in order.
gude24 == LET starts(i) == {j \in 1..24 : i = j \/ i = j \div 10}
          IN [Backend EXCEPT !.valid = Index \cap 1..24, !.port = "url", !.PORT = TRUE, !.confirm = TRUE,
                             !.reads = [i \in Index |-> IF starts(i) = {} THEN i ELSE Minimum(starts(i))]]
gude8031 == [Backend EXCEPT !.valid = Index \cap 1..20, !.port = "url", !.PORT = TRUE, !.decode = OnlyOn]
gude8225 == [Backend EXCEPT !.valid = Index \cap 1..12, !.port = "url", !.PORT = TRUE, !.decode = OnlyOn]
gude8316 == [Backend EXCEPT !.valid = Index \cap 1..8, !.port = "url", !.PORT = TRUE]
mfi_mpower == [Backend EXCEPT !.port = "any"]
netio == [Backend EXCEPT !.valid = Index \cap 1..4, !.port = "url", !.PORT = TRUE]
netio_kshell == [Backend EXCEPT !.valid = Index \cap 1..4, !.port = "url", !.PORT = TRUE, !.decode = OnlyOn]
pe6216 == [Backend EXCEPT !.slow = TRUE, !.valid = Index \cap 1..16, !.port = "url", !.PORT = TRUE,
                          !.decode = Decode({"on"}, {"off", "turning_on", "turning_off"}, Raise)]
poe_mib == [Backend EXCEPT !.port = "any", !.checked = FALSE]
poe_netgear_plus == [Backend EXCEPT !.port = "any", !.login = "finally",
                                    !.sets = [i \in Index |-> i + 1], !.reads = [i \in Index |-> i + 1]]
raritan == [Backend EXCEPT !.port = "any", !.checked = FALSE]
rest == [Backend EXCEPT !.decode = OnlyOn]
\* socket_states[index - 1], of a list as long as the device has outlets (two
\* in the example): number 0 is the last one, a number after the last raises.
rpm1521 == LET last == 2
           IN [Backend EXCEPT !.port = "any", !.decode = OnlyOn, !.fails = {i \in Index : i > last},
                              !.reads = [i \in Index |-> IF i = 0 THEN last ELSE i]]
sentry_one_group == LET outlet(i) == ((i - 1) % 8) + 1
                    IN [Backend EXCEPT !.valid = Index \cap 1..48, !.slow = TRUE,
                                       !.sets = [i \in Index |-> outlet(i)],
                                       !.reads = [i \in Index |-> outlet(i)],
                                       !.decode = Decode({"on", "turning_on"}, {"off"}, Nothing)]
\* Groups of eight outlets: the table INDEX_TO_OID.
sentry == LET oid(i) == <<((i - 1) \div 8) + 1, ((i - 1) % 8) + 1>>
              outlet(o) == 8 * (o[1] - 1) + o[2]
          IN [Backend EXCEPT !.valid = Index \cap 1..48, !.slow = TRUE,
                             !.sets = [i \in Index |-> outlet(oid(i))],
                             !.reads = [i \in Index |-> outlet(oid(i))],
                             !.decode = Decode({"on", "turning_on"}, {"off"}, Nothing)]
shelly_gen1 == Backend
shelly_gen2 == Backend
siglent_same_bit == [Backend EXCEPT !.valid = Index \cap 1..2, !.checked = FALSE,
                                    !.reads = [i \in Index |-> ByBit(i + 4, 4)]]
siglent == [Backend EXCEPT !.valid = Index \cap 1..2, !.checked = FALSE, !.reads = [i \in Index |-> ByBit(i + 3, 4)]]
simplerest == [Backend EXCEPT !.decode = OnlyOn]
tinycontrol == [Backend EXCEPT !.decode = OnlyOn]
tinycontrol_tcpdu == [Backend EXCEPT !.decode = OnlyOn]
\* A strip of six: children[0..5] (len(strip.children) > index).
tplink == [Backend EXCEPT !.valid = Index \cap 0..5]
ubus == [Backend EXCEPT !.decode = OnlyOff]

\* Digital outputs.
ModbusCoil == [Backend EXCEPT !.invert = TRUE, !.port = "any"]
WaveShareCoil == [Backend EXCEPT !.valid = Index \cap 0..7, !.invert = TRUE, !.port = "any"]
HttpDigitalOutput == [Backend EXCEPT !.port = "any"]
Eth008Output == [Backend EXCEPT !.valid = Index \cap 1..8, !.invert = TRUE, !.port = "any",
                                !.reads = [i \in Index |-> ByBit(i - 1, 0)]]
SerialPortOutput == [Backend EXCEPT !.invert = TRUE, !.port = "any"]
FileOutput == [Backend EXCEPT !.decode = OnlyOn, !.port = "any"]
LXAIOBusPIO == [Backend EXCEPT !.invert = TRUE, !.port = "any"]
OneWirePIO == [Backend EXCEPT !.invert = TRUE, !.port = "any"]
GpioOutput == [Backend EXCEPT !.invert = TRUE, !.port = "any"]
DeditecRelais == [Backend EXCEPT !.valid = Index \cap 1..8, !.invert = TRUE, !.port = "any",
                                 !.sets = [i \in Index |-> ByBit(i - 1, 0)],
                                 !.reads = [i \in Index |-> ByBit(i - 1, 0)]]
HIDRelayDcttech == [Backend EXCEPT !.valid = Index \cap 1..8, !.invert = TRUE, !.port = "any",
                                   !.reads = [i \in Index |-> ByBit(i - 1, 0)]]
HIDRelayLcus == [Backend EXCEPT !.valid = Index \cap 1..8, !.invert = TRUE, !.port = "any",
                                !.decode = Decode({}, {}, "off"), !.readable = FALSE]
\* Tools started by a power driver of their own.
SiSPM == [Backend EXCEPT !.port = "any"]
YKUSH == [Backend EXCEPT !.port = "any"]
UhubCtl == [Backend EXCEPT !.port = "any"]
PDUDaemon == [Backend EXCEPT !.port = "any", !.decode = [s \in Shown |-> Raise], !.cycles = "device"]
\* There is no get() in these two.
ExternalCommand == [Backend EXCEPT !.port = "any", !.decode = [s \in Shown |-> Raise], !.cycles = "either"]
Manual == [Backend EXCEPT !.port = "any", !.decode = [s \in Shown |-> Raise], !.cycles = "device"]

NetworkPower == {apc, digipower, digitalloggers_http, digitalloggers_restapi, eaton,
                 eg_pms2_network, eth008, gude, gude24, gude8031, gude8225, gude8316,
                 mfi_mpower, netio, netio_kshell, pe6216, poe_mib, poe_netgear_plus,
                 raritan, rest, rpm1521, sentry, shelly_gen1, shelly_gen2, siglent,
                 simplerest, tinycontrol, tinycontrol_tcpdu, tplink, ubus}
DigitalOutputs == {ModbusCoil, WaveShareCoil, HttpDigitalOutput, Eth008Output,
                   SerialPortOutput, FileOutput, LXAIOBusPIO, OneWirePIO, GpioOutput,
                   DeditecRelais, HIDRelayDcttech, HIDRelayLcus}
OwnTools == {SiSPM, YKUSH, UhubCtl, PDUDaemon, ExternalCommand, Manual}
Backends == NetworkPower \cup DigitalOutputs \cup OwnTools

VARIABLES
    backend,    \* what the driver works with
    index,      \* the port of this driver
    other,      \* a port of the same device that another place uses
    inverted,   \* the resource's invert
    port,       \* the driver's _port: "unset" before on_activate
    relay,      \* the device: what it shows of the outlets in question
    session,    \* we are logged in at the device
    phase,      \* "idle", or "pause": cycle() between off and on
    wasOff,     \* the outlet was off since cycle() began
    result      \* of the last operation
config == <<backend, index, other, inverted>>
vars == <<config, port, relay, session, phase, wasOff, result>>

Results == {"none", "is_on", "is_off", "cycled", "assert", "error",
            "says_on", "says_off", "says_none"}

Outlet == backend.sets[index]
Level(value) == IF inverted THEN Flip(value) ELSE value

\* The type invariant.
TypeOK ==
    /\ backend \in Backends
    /\ index \in backend.has /\ other \in backend.has
    /\ inverted \in BOOLEAN /\ session \in BOOLEAN /\ wasOff \in BOOLEAN
    /\ port \in {"unset", "None", "number"}
    /\ \A o \in DOMAIN relay : relay[o] \in Shown
    /\ phase \in {"idle", "pause"}
    /\ result \in Results

Init ==
    /\ backend \in Backends
    /\ index \in backend.has
    /\ other \in backend.has \ {index}
    /\ inverted \in IF backend.invert THEN BOOLEAN ELSE {FALSE}
    /\ port = "unset"
    /\ relay \in [{backend.sets[index], backend.sets[other], backend.reads[index]} -> Settled]
    /\ session = FALSE
    /\ phase = "idle"
    /\ wasOff = FALSE
    /\ result = "none"

\* on_activate: a backend with a PORT gets it (or the port of the forwarding
\* to it); a host that is a URL is forwarded inside the URL.
Activate ==
    /\ port = "unset"
    /\ port' = IF backend.PORT THEN "number" ELSE "None"
    /\ UNCHANGED <<config, relay, session, phase, wasOff, result>>

\* The assertions of power_set and power_get, and the URL they build.
Accepts ==
    /\ index \in backend.valid
    /\ backend.port = "none" => port = "None"
    /\ backend.port = "url" => port = "number"

(***************************************************************************)
(* A command: what the device does with it, and whether its answer comes   *)
(* back.  Only a device whose answer is read back is known to ignore       *)
(* commands (gude24: blocked by another user).                             *)
(***************************************************************************)
Effects == {"executed", "refused"} \cup (IF backend.confirm THEN {"ignored"} ELSE {})
Moves(value) == IF ~backend.slow THEN {value}
                ELSE IF value = "on" THEN {"on", "turning_on"} ELSE {"off", "turning_off"}

Succeeds(effect, answered) ==
    \/ effect = "executed" /\ (answered \/ ~backend.checked)
    \/ effect = "refused" /\ ~backend.checked
Switched(effect, value) ==
    IF effect = "executed" THEN {[relay EXCEPT ![Outlet] = s] : s \in Moves(Level(value))} ELSE {relay}

\* eg_pms2_network logs in first and logs out if nothing raised before;
\* poe_netgear_plus does so in a finally block.
SessionsAfter(ok) == IF backend.login = "after" /\ ~ok THEN {session, TRUE} ELSE {FALSE}

Command(value, done, next) ==
    \E effect \in Effects, answered \in BOOLEAN :
        /\ relay' \in Switched(effect, value)
        /\ session' \in SessionsAfter(Succeeds(effect, answered))
        /\ IF Succeeds(effect, answered)
           THEN result' = done /\ phase' = next
           ELSE result' = "error" /\ phase' = "idle"

Asserts ==
    /\ ~Accepts
    /\ result' = "assert"
    /\ phase' = "idle"
    /\ UNCHANGED <<relay, session>>

Active == port # "unset" /\ phase = "idle"

On ==
    /\ Active
    /\ (Accepts /\ Command("on", "is_on", "idle")) \/ Asserts
    /\ wasOff' = FALSE
    /\ UNCHANGED <<config, port>>

Off ==
    /\ Active
    /\ (Accepts /\ Command("off", "is_off", "idle")) \/ Asserts
    /\ wasOff' = FALSE
    /\ UNCHANGED <<config, port>>

\* cycle: off(), time.sleep(delay), on().  An exception leaves it.
CycleOff ==
    /\ Active /\ backend.cycles # "device"
    /\ (Accepts /\ Command("off", "none", "pause")) \/ Asserts
    /\ wasOff' = (phase' = "pause" /\ relay'[Outlet] \in Moves(Level("off")))
    /\ UNCHANGED <<config, port>>

CycleOn ==
    /\ phase = "pause"
    /\ Command("on", "cycled", "idle")
    /\ UNCHANGED <<config, port, wasOff>>

\* cmd_cycle, reboot, or the person in the laboratory.
CycleAtOnce ==
    /\ Active /\ backend.cycles # "steps" /\ Accepts
    /\ Command("on", "cycled", "idle")
    /\ wasOff' = (result' = "cycled")
    /\ UNCHANGED <<config, port>>

Answer == LET said == backend.decode[relay[backend.reads[index]]]
          IN IF said \in Settled THEN Level(said) ELSE said

Get ==
    /\ Active
    /\ \/ /\ Accepts
          /\ \E answered \in BOOLEAN :
                /\ result' = IF ~answered \/ index \in backend.fails \/ Answer = Raise THEN "error" ELSE
                             [on |-> "says_on", off |-> "says_off", none |-> "says_none"][Answer]
                /\ session' \in SessionsAfter(answered)
          /\ UNCHANGED <<relay, phase>>
       \/ Asserts
    /\ wasOff' = FALSE
    /\ UNCHANGED <<config, port>>

\* Another place's driver uses another port of this device.
OtherSet(value) ==
    /\ other \in backend.valid
    /\ relay' = [relay EXCEPT ![backend.sets[other]] = value]
    /\ UNCHANGED <<config, port, session, phase, wasOff, result>>

\* A device that switches with a delay arrives.
Settle(o) ==
    /\ relay[o] \in Shown \ Settled
    /\ relay' = [relay EXCEPT ![o] = IF relay[o] = "turning_on" THEN "on" ELSE "off"]
    /\ result' = IF o = Outlet THEN "none" ELSE result
    /\ UNCHANGED <<config, port, session, phase, wasOff>>

Next ==
    \/ Activate
    \/ On \/ Off \/ CycleOff \/ CycleOn \/ CycleAtOnce \/ Get
    \/ \E value \in Settled : OtherSet(value)
    \/ \E o \in DOMAIN relay : Settle(o)

Spec == Init /\ [][Next]_vars
-----------------------------------------------------------------------------
\* What get() returns is what the outlet of this port is: the numbers, bits
\* and words that power_set writes and power_get reads belong together.  True
\* of every backend and number but one, index 0 of rpm1521: nothing refuses it,
\* and power_get reads the last outlet (rpm1521.py:58).
GetAlwaysTellsTruth ==
    backend.readable =>
        /\ result = "says_on" => relay[Outlet] \in Moves(Level("on"))
        /\ result = "says_off" => relay[Outlet] # Level("on")

\* The same where the number is not that one.
ReadsAnother == backend = rpm1521 /\ index = 0
GetTellsTruth == ReadsAnother \/ GetAlwaysTellsTruth

\* on(), off() and cycle() that return have switched the outlet, if the
\* backend looks at the answer to its command; a cycle had it off before.
SuccessMeansSwitched ==
    backend.checked =>
        /\ result = "is_on" => relay[Outlet] \in Moves(Level("on"))
        /\ result = "is_off" => relay[Outlet] \in Moves(Level("off"))
        /\ result = "cycled" => wasOff /\ relay[Outlet] \in Moves(Level("on"))

\* An assertion fails for a port that the device does not have, and never
\* because on_activate prepared the wrong kind of address.
AssertsOnlyOnIndex == result = "assert" => index \notin backend.valid

\* Only a failed operation leaves the device reserved for this host.
SessionFreed == session => phase = "idle" /\ result \in {"error", "none", "assert"}

OutletsHonest == GetTellsTruth /\ SuccessMeansSwitched /\ AssertsOnlyOnIndex /\ SessionFreed

\* No operation of this driver moves the outlet of another place.
OwnStep == On \/ Off \/ CycleOff \/ CycleOn \/ CycleAtOnce \/ Get
OthersUntouched == OwnStep => relay'[backend.sets[other]] = relay[backend.sets[other]]
-----------------------------------------------------------------------------
(***************************************************************************)
(* The inductive invariant: on_activate has prepared the address that the  *)
(* backend asserts, and whatever succeeded has passed its assertions.      *)
(***************************************************************************)
\* The numbers of commands and of replies belong together, but for these, and
\* no two ports of a device share an outlet.
Paired(b, but) ==
    /\ b.has \subseteq Index
    /\ \A i \in (b.has \cap b.valid) \ but : b.reads[i] = b.sets[i]
    /\ \A i, j \in b.has : b.sets[i] = b.sets[j] => i = j

\* The words of a reply are those of the state.
Read(b) ==
    /\ b.decode \in [Shown -> {"on", "off", Raise, Nothing}]
    /\ b.readable => \A s \in Settled : b.decode[s] \in Settled => b.decode[s] = s
    /\ b.slow => b.decode["turning_off"] # "on"

\* The address and the options of a backend fit each other.
Fitting(b) ==
    /\ b.port = "none" => ~b.PORT
    /\ b.port = "url" => b.PORT
    /\ b.slow => ~b.invert

SoundBut(b, but) == Paired(b, but) /\ Read(b) /\ Fitting(b)
Sound(b) == SoundBut(b, IF b = rpm1521 THEN {0} ELSE {})

Addressed == port \in {"unset", IF backend.PORT THEN "number" ELSE "None"}
Wired ==
    /\ other # index
    /\ inverted => backend.invert
    /\ relay \in [{backend.sets[index], backend.sets[other], backend.reads[index]} ->
                    IF backend.slow THEN Shown ELSE Settled]
Passed ==
    /\ phase = "pause" => port # "unset" /\ index \in backend.valid /\ result = "none" /\ (backend.checked => wasOff)
    /\ result \in {"is_on", "is_off", "cycled", "says_on", "says_off", "says_none"} => index \in backend.valid

OutletsInv == TypeOK /\ Addressed /\ Wired /\ Passed /\ OutletsHonest
=============================================================================
