--------------------------- MODULE SharedOutputs ---------------------------
(***************************************************************************)
(* Outputs of one USB device that several drivers switch: the lines of an  *)
(* FTDI chip (ftdigpiodriver.py, agents/ftdigpio.py) and the relays of an  *)
(* HID relay board (usbhidrelay.py, agents/usb_hid_relay.py).              *)
(*                                                                         *)
(* A driver talks to an agent process on the host of the device.  The      *)
(* drivers of one client process share the agent of an FTDI interface and  *)
(* count their references; every HID relay driver has an agent of its own. *)
(* An agent is loaded for the number that the device has then; each call   *)
(* names the number that the device has now, and the agent opens that one. *)
(* Across agents only the kernel's claim of the interface excludes others. *)
(***************************************************************************)
EXTENDS Naturals, FiniteSets, Functions

CONSTANTS Drivers,      \* each drives a line of its own
          Clients,      \* client processes
          ClientOf,     \* [Drivers -> Clients]
          MaxNumber     \* bound: how often the device is plugged in again

VARIABLES
    device,     \* "ftdi" or "hid"
    number,     \* the device's number on its bus, as the resource says it
    refs,       \* _shared_agents: references by client and number
    proxy,      \* the agent of a driver: the number it was loaded for, or 0
    call,       \* the set() that a driver's agent executes: step and value
    byte,       \* FTDI: what the call has read of the pins
    lines,      \* the outputs
    claim,      \* the agent that has claimed the interface, or NoAgent
    done,       \* how the last set() of a driver ended, since the device is plugged in
    cut,        \* drivers whose agent has been closed while they use it
    astray      \* history: the keys of agents that on_deactivate counted wrongly
vars == <<device, number, refs, proxy, call, byte, lines, claim, done, cut, astray>>

NoAgent == <<>>
Idle == <<"idle", FALSE>>
NoByte == [l \in Drivers |-> FALSE]
Numbers == 1..MaxNumber
Shares == device = "ftdi"

\* The process that serves a driver, and the drivers it serves.
Agent(d) == IF Shares THEN <<ClientOf[d], proxy[d]>> ELSE <<d, proxy[d]>>
Served(a) == {d \in Drivers : proxy[d] # 0 /\ Agent(d) = a}
Calling(d) == call[d] # Idle
\* A client process does one thing at a time.
Free(d) == \A other \in Drivers : ClientOf[other] = ClientOf[d] => ~Calling(other)
Key(d) == <<ClientOf[d], proxy[d]>>
\* The drivers that an entry of _shared_agents serves: a driver whose agent was
\* closed keeps its proxy, and no later agent under the same key is its own.
UsersOf(c, n) == {d \in Drivers : ClientOf[d] = c /\ proxy[d] = n /\ d \notin cut}

\* The type invariant.
TypeOK ==
    /\ device \in {"ftdi", "hid"}
    /\ number \in Numbers
    /\ refs \in [Clients \X Numbers -> 0..Cardinality(Drivers)]
    /\ proxy \in [Drivers -> {0} \cup Numbers]
    /\ call \in [Drivers -> {"idle", "claim", "read", "write", "release", "close"} \X BOOLEAN]
    /\ lines \in [Drivers -> BOOLEAN] /\ byte \in [Drivers -> [Drivers -> BOOLEAN]]
    /\ done \in [Drivers -> {"none", "on", "off", "error"}]
    /\ cut \subseteq Drivers /\ astray \subseteq Clients \X Numbers

Init ==
    /\ device \in {"ftdi", "hid"}
    /\ number = 1
    /\ refs = [k \in Clients \X Numbers |-> 0]
    /\ proxy = [d \in Drivers |-> 0]
    /\ call = [d \in Drivers |-> Idle]
    /\ lines = NoByte
    /\ byte = [d \in Drivers |-> NoByte]
    /\ claim = NoAgent
    /\ done = [d \in Drivers |-> "none"]
    /\ cut = {} /\ astray = {}

\* The device is plugged in again and the resource follows.  The kernel's
\* claim belonged to the old device, and calls on it fail; the outputs are
\* what they were, if they had power, or all off.
Replug ==
    /\ number < MaxNumber
    /\ number' = number + 1
    /\ claim' = NoAgent
    /\ lines' \in {lines, NoByte}
    /\ call' = [d \in Drivers |-> Idle]
    /\ byte' = [d \in Drivers |-> NoByte]
    /\ done' = [d \in Drivers |-> IF Calling(d) THEN "error" ELSE "none"]
    /\ UNCHANGED <<device, refs, proxy, cut, astray>>

\* on_activate: an FTDI agent is shared under <<host, bus, number>>.
Activate(d) ==
    /\ proxy[d] = 0 /\ Free(d)
    /\ proxy' = [proxy EXCEPT ![d] = number]
    /\ refs' = IF Shares THEN [refs EXCEPT ![<<ClientOf[d], number>>] = @ + 1] ELSE refs
    /\ done' = [done EXCEPT ![d] = "none"]
    /\ UNCHANGED <<device, number, call, byte, lines, claim, cut, astray>>

\* on_deactivate of the FTDI driver: _release_agent looks the agent up under
\* the number the resource has now, returns if there is none, and closes it
\* with the last reference, whoever still uses it.
ReleaseAgent(d) ==
    LET key == <<ClientOf[d], number>>
        last == refs[key] = 1
    IN
    /\ refs' = [refs EXCEPT ![key] = IF @ > 0 THEN @ - 1 ELSE 0]
    /\ cut' = (IF last THEN cut \cup UsersOf(ClientOf[d], number) ELSE cut) \ {d}
    /\ astray' = IF Key(d) = key THEN astray ELSE astray \cup {Key(d), key}
    /\ claim' = IF last /\ claim = key THEN NoAgent ELSE claim

\* The relay driver closes its own agent.
CloseAgent(d) ==
    /\ claim' = IF claim = Agent(d) THEN NoAgent ELSE claim
    /\ UNCHANGED <<refs, cut, astray>>

Deactivate(d) ==
    /\ proxy[d] # 0 /\ Free(d)
    /\ IF Shares THEN ReleaseAgent(d) ELSE CloseAgent(d)
    /\ proxy' = [proxy EXCEPT ![d] = 0]
    /\ done' = [done EXCEPT ![d] = "none"]
    /\ UNCHANGED <<device, number, call, byte, lines>>

\* set() of a driver that is active: the client waits for the agent.
Set(d, value) ==
    /\ proxy[d] # 0 /\ Free(d)
    /\ call' = [call EXCEPT ![d] = <<"claim", value>>]
    /\ done' = [done EXCEPT ![d] = "none"]
    /\ UNCHANGED <<device, number, refs, proxy, byte, lines, claim, cut, astray>>

Ends(d, how) ==
    /\ call' = [call EXCEPT ![d] = Idle]
    /\ done' = [done EXCEPT ![d] = how]
Proceeds(d, to) ==
    /\ call' = [call EXCEPT ![d] = <<to, @[2]>>]
    /\ UNCHANGED done
At(d, step) == call[d][1] = step

Claim_detaches_others(d) ==
    /\ At(d, "claim")
    /\ \/ /\ d \notin cut
          /\ claim' = Agent(d)
          /\ Proceeds(d, IF Shares THEN "read" ELSE "write")
       \/ Ends(d, "error") /\ UNCHANGED claim
    /\ UNCHANGED <<device, number, refs, proxy, byte, lines, cut, astray>>

\* The agent opens the device that the call names and claims its interface:
\* refused while another process has it (FTDI gives up at once, the relay
\* after a second), and anything else may be wrong with the device as well.
\* A closed agent answers nothing.
Claim(d) ==
    /\ At(d, "claim")
    /\ \/ /\ claim \in {NoAgent, Agent(d)} /\ d \notin cut
          /\ claim' = Agent(d)
          /\ Proceeds(d, IF Shares THEN "read" ELSE "write")
       \/ Ends(d, "error") /\ UNCHANGED claim
    /\ UNCHANGED <<device, number, refs, proxy, byte, lines, cut, astray>>

\* FTDIGPIO.set: _read_gpio_byte, before the whole byte is written back.
ReadByte(d) ==
    /\ At(d, "read")
    /\ \/ byte' = [byte EXCEPT ![d] = lines] /\ Proceeds(d, "write")
       \/ Proceeds(d, "close") /\ UNCHANGED byte
    /\ UNCHANGED <<device, number, refs, proxy, lines, claim, cut, astray>>

\* A transfer that fails leaves the relay's _claimed() without a release:
\* there is no try around its yield.
Write(d) ==
    /\ At(d, "write")
    /\ \/ /\ lines' = [(IF Shares THEN byte[d] ELSE lines) EXCEPT ![d] = call[d][2]]
          /\ Proceeds(d, "release")
       \/ /\ IF Shares THEN Proceeds(d, "close") ELSE Ends(d, "error")
          /\ UNCHANGED lines
    /\ byte' = [byte EXCEPT ![d] = NoByte]
    /\ UNCHANGED <<device, number, refs, proxy, claim, cut, astray>>

\* release_interface; FTDIGPIO.close() in a finally block.
Release(d) ==
    /\ At(d, "release") \/ At(d, "close")
    /\ claim' = NoAgent
    /\ Ends(d, IF At(d, "close") THEN "error" ELSE IF call[d][2] THEN "on" ELSE "off")
    /\ UNCHANGED <<device, number, refs, proxy, byte, lines, cut, astray>>

Next ==
    \/ Replug
    \/ \E d \in Drivers :
        \/ Activate(d) \/ Deactivate(d)
        \/ \E value \in BOOLEAN : Set(d, value)
        \/ Claim(d) \/ ReadByte(d) \/ Write(d) \/ Release(d)

Spec == Init /\ [][Next]_vars
-----------------------------------------------------------------------------
\* A set() that returned has set its line, and no other driver's reading,
\* changing and writing of the whole byte takes that back.
NoLostUpdate == \A d \in Drivers :
    /\ done[d] = "on" => lines[d]
    /\ done[d] = "off" => ~lines[d]

\* An agent has as many references as drivers that use it.  It does not once
\* a driver has been deactivated under another number than it was activated
\* under: on_deactivate then leaves a reference to the agent of before, which
\* lives on, and takes one from the agent of today, which may be closed under a
\* driver that uses it (ftdigpiodriver.py:70).
AgentsAreAlwaysCounted == Shares =>
    \A c \in Clients, n \in Numbers : refs[<<c, n>>] = Cardinality(UsersOf(c, n))

\* The same of every agent that no such on_deactivate has touched, and nothing
\* else closes an agent under its users.
AgentsAreCounted == Shares =>
    /\ \A c \in Clients, n \in Numbers :
          <<c, n>> \notin astray => refs[<<c, n>>] = Cardinality(UsersOf(c, n))
    /\ \A d \in cut : Key(d) \in astray

\* The interface stays claimed between two calls only after a failed call of
\* the relay's agent; everybody else is then refused.
ClaimLeftByFailure ==
    (claim # NoAgent /\ \A d \in Served(claim) : ~Calling(d)) =>
        device = "hid" /\ \E d \in Served(claim) : done[d] = "error"

SharedSafely == NoLostUpdate /\ AgentsAreCounted /\ ClaimLeftByFailure
-----------------------------------------------------------------------------
(***************************************************************************)
(* The inductive invariant: one call in a client at a time, the interface  *)
(* belongs to the one that is in the middle of its transfer, and what it   *)
(* has read is still so.                                                   *)
(***************************************************************************)
Holding(d) == call[d][1] \in {"read", "write", "release", "close"}
CallsApart ==
    /\ \A d, e \in Drivers : Calling(d) /\ Calling(e) /\ ClientOf[d] = ClientOf[e] => d = e
    /\ \A d \in Drivers : Calling(d) => call[d][1] # "idle" /\ proxy[d] # 0 /\ done[d] = "none"
TransfersApart ==
    \A d \in Drivers :
        /\ Holding(d) => claim = Agent(d)
        /\ Shares /\ At(d, "write") => byte[d] = lines
        /\ At(d, "release") => lines[d] = call[d][2]
ClaimKnown ==
    claim # NoAgent => \E d \in Drivers :
        proxy[d] # 0 /\ claim = Agent(d) /\ (Holding(d) \/ (~Shares /\ (Calling(d) \/ done[d] = "error")))

\* Only the agents under the number of today are taken and returned, those of
\* tomorrow are not there yet, and an agent without references has no users.
CountsKnown ==
    /\ \A d \in Drivers : proxy[d] <= number
    /\ \A c \in Clients, k \in Numbers :
        /\ k > number \/ ~Shares => refs[<<c, k>>] = 0
        /\ k = number /\ Shares => refs[<<c, k>>] <= Cardinality(UsersOf(c, k))
        /\ Shares /\ refs[<<c, k>>] = 0 => UsersOf(c, k) = {}
    /\ \A d \in cut : Shares /\ proxy[d] # 0
    /\ AgentsAreCounted

SharedInv == TypeOK /\ CallsApart /\ TransfersApart /\ ClaimKnown /\ CountsKnown /\ SharedSafely
=============================================================================
