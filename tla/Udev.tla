-------------------------------- MODULE Udev --------------------------------
(***************************************************************************)
(* Resources on USB, found by what udev says of them.                      *)
(*                                                                         *)
(* A thread queues every event of the kernel; a resource looks at the      *)
(* devices that are there when it is created, and polls work off the       *)
(* queue, which may tell what a resource has seen already.  The name of    *)
(* what belongs to a plugged device is the number of its incarnation.      *)
(***************************************************************************)
EXTENDS Integers, Sequences

CONSTANTS MaxEvents, MaxQueue,   \* bounds: events of the kernel, how many wait
          Taken                  \* the kinds of devices that a class takes

Classes == DOMAIN Taken

VARIABLES
    kind,       \* what the two devices are that come and go, a sequence
    here,       \* here[d]: the incarnation that is there, 0 for none, and its path
    nodes,      \* nodes[d]: the children a switch has got so far
    events,     \* events of the kernel so far
    queue,      \* what the thread has queued
    plan,       \* the classes of the resources still to be created
    rs,         \* the resources in their order: class, device, paths of a switch
    missed,     \* resources that missed a device or an event, as something raised
    odd         \* devices that were unbound or renamed
vars == <<kind, here, nodes, events, queue, plan, rs, missed, odd>>
kernel == <<kind, here, nodes, events, odd>>

Devices == 1..2
NoDevice == [d |-> 0, path |-> 0]
Gone == [n |-> 0, path |-> 0]
There(d) == here[d] # Gone
Resource(cls) == [cls |-> cls, device |-> NoDevice, disk |-> 0, control |-> 0]

\* Resource.avail, which the switches override.
SDMuxAvail(r) == r.disk # 0 /\ r.control # 0
SDWire3Avail(r) == r.control # 0
Avail(r) == CASE r.cls \in {"USBSDMuxDevice", "USBSDWireDevice"} -> SDMuxAvail(r)
              [] r.cls = "USBSDWire3Device" -> SDWire3Avail(r)
              [] OTHER -> r.device # NoDevice

\* The type invariant.
TypeOK ==
    /\ \A d \in Devices : here[d].n \in 0..MaxEvents /\ nodes[d] \subseteq {"disk", "scsi_generic"}
    /\ events \in 1..MaxEvents /\ Len(queue) <= MaxQueue
    /\ \A i \in DOMAIN rs : rs[i].cls \in Classes /\ rs[i].device.d \in {0} \cup Devices
    /\ missed \subseteq DOMAIN rs /\ odd \subseteq Devices

\* A device that the class cannot stand: without capabilities, with too few pins.
Unfit(k) == [k EXCEPT !.id = IF k.sub = "video4linux" THEN "unprobed" ELSE "too_few"]

\* Two classes take any device: these are enough to try.
Samples(cls) == IF cls \in {"SigrokUSBDevice", "USBFlashableDevice"}
                THEN {k \in Taken[cls] : k.id \in {"any", "hub"}} ELSE Taken[cls]

Init ==
    /\ \E cls \in Classes : \E k \in Samples(cls) :
        \/ plan = <<cls>> /\ kind = <<k, k>>
        \/ /\ plan = <<cls, cls>> /\ cls \in {"USBVideo", "MatchedSysfsGPIO"}
           /\ kind = <<k, Unfit(k)>>
    /\ here \in [Devices -> {Gone, [n |-> 1, path |-> 1]}]
    /\ kind[1] = kind[2] /\ There(2) => There(1)
    /\ nodes = [d \in Devices |-> {}]
    /\ events = 1 /\ queue = <<>> /\ rs = <<>> /\ missed = {} /\ odd = {}

-----------------------------------------------------------------------------
(***************************************************************************)
(* The kernel, and the thread that listens to it.  Of the events of a      *)
(* switch's children nothing is told: no resource here takes them.         *)
(***************************************************************************)
Tell(d, path, action) ==
    /\ events < MaxEvents /\ events' = events + 1
    /\ Len(queue) < MaxQueue
    /\ queue' = Append(queue, [d |-> d, path |-> path, action |-> action])
    /\ UNCHANGED <<kind, plan, rs, missed>>

Plug(d) ==
    /\ ~There(d) /\ Tell(d, 1, "add")
    /\ here' = [here EXCEPT ![d] = [n |-> events', path |-> 1]]
    /\ odd' = odd \ {d} /\ UNCHANGED nodes
Unplug(d) ==
    /\ There(d) /\ Tell(d, here[d].path, "remove")
    /\ here' = [here EXCEPT ![d] = Gone] /\ nodes' = [nodes EXCEPT ![d] = {}]
    /\ UNCHANGED odd
Unbind(d) ==
    /\ There(d) /\ kind[d].sub = "usb" /\ d \notin odd
    /\ Tell(d, here[d].path, "unbind")
    /\ odd' = odd \cup {d} /\ UNCHANGED <<here, nodes>>
Bind(d) ==
    /\ There(d) /\ kind[d].sub = "usb" /\ d \in odd
    /\ Tell(d, here[d].path, "bind")
    /\ UNCHANGED <<here, nodes, odd>>
Change(d) ==
    /\ There(d) /\ Tell(d, here[d].path, "change")
    /\ odd' = (IF here[d].path = 1 THEN odd \ {d} ELSE odd) /\ UNCHANGED <<here, nodes>>
Rename(d) ==
    /\ There(d) /\ kind[d].sub = "net" /\ here[d].path = 1
    /\ Tell(d, 2, "move")
    /\ here' = [here EXCEPT ![d].path = 2]
    /\ odd' = odd \cup {d} /\ UNCHANGED nodes
Child(d, child) ==
    /\ There(d) /\ kind[d].id \in {"sdmux", "sdwire", "sdwire3"} /\ child \notin nodes[d]
    /\ nodes' = [nodes EXCEPT ![d] = @ \cup {child}]
    /\ UNCHANGED <<kind, here, events, queue, plan, rs, missed, odd>>

-----------------------------------------------------------------------------
(***************************************************************************)
(* A new resource looks at what is there, in any order.  The manager has   *)
(* it in its list before, also if this raises.                             *)
(***************************************************************************)
Create ==
    /\ plan # <<>>
    /\ LET cls == Head(plan)
           fits == {d \in Devices : There(d) /\ kind[d] \in Taken[cls]}
           raises == cls = "USBVideo" /\ \E d \in Devices : There(d) /\ kind[d].id = "unprobed"
           r == Resource(cls)
       IN \/ /\ \E d \in fits : rs' = Append(rs, [r EXCEPT !.device = [d |-> d, path |-> here[d].path]])
             /\ UNCHANGED missed
          \/ /\ fits = {} /\ ~raises
             /\ rs' = Append(rs, r) /\ UNCHANGED missed
          \/ /\ raises
             /\ rs' = Append(rs, r) /\ missed' = missed \cup {Len(rs')}
    /\ plan' = Tail(plan)
    /\ UNCHANGED <<kernel, queue>>

(***************************************************************************)
(* try_match: a resource without a device looks whether this one fits,     *)
(* another one whether it is its own.                                      *)
(***************************************************************************)
Device(e) == [d |-> e.d, path |-> e.path]
Matches(r, e) == IF r.device = NoDevice THEN kind[e.d] \in Taken[r.cls] ELSE r.device = Device(e)
NewDevice(r, e) == CASE e.action \in {"add", "change", "move"} -> Device(e)
                     [] e.action \in {"unbind", "remove"} -> NoDevice
                     [] OTHER -> r.device

\* Bug: the paths of a switch outlive it.
try_match_keeps_paths(r, e) ==
    IF ~Matches(r, e) THEN r ELSE [r EXCEPT !.device = NewDevice(r, e)]

try_match(r, e) ==
    IF ~Matches(r, e) THEN r
    ELSE LET new == [r EXCEPT !.device = NewDevice(r, e)]
         IN IF new.device = NoDevice THEN Resource(r.cls) ELSE new    \* update()

\* filter_match of USBVideo and update of MatchedSysfsGPIO.
Raises(r, e) ==
    \/ r.cls = "USBVideo" /\ r.device = NoDevice /\ kind[e.d].id = "unprobed"
    \/ r.cls = "MatchedSysfsGPIO" /\ Matches(r, e) /\ NewDevice(r, e) # NoDevice /\ kind[e.d].id = "too_few"

\* poll of the manager takes events from the queue, until it is empty or its
\* time is over.  One that raises keeps this event from the resources behind it.
PollEvent ==
    /\ queue # <<>> /\ queue' = Tail(queue)
    /\ LET e == Head(queue)
           raising == {i \in DOMAIN rs : Raises(rs[i], e)}
           reached == {i \in DOMAIN rs : \A j \in raising : i <= j}
       IN /\ rs' = [i \in DOMAIN rs |-> IF i \in reached THEN try_match(rs[i], e) ELSE rs[i]]
          /\ missed' = missed \cup {i \in DOMAIN rs \ reached : Matches(rs[i], e)}
    /\ UNCHANGED <<kernel, plan>>

\* poll of a switch that is not available goes on to look for what it needs: a
\* disk and a generic device, or a disk and the serial number.
PollSwitch(i) ==
    /\ rs[i].cls \in {"USBSDMuxDevice", "USBSDWireDevice", "USBSDWire3Device"}
    /\ rs[i].device # NoDevice /\ ~Avail(rs[i])
    /\ LET d == rs[i].device.d
           found(child, old) == IF child \in nodes[d] THEN here[d].n ELSE old
       IN rs' = [rs EXCEPT ![i].disk = found("disk", @),
                           ![i].control = IF rs[i].cls = "USBSDMuxDevice" THEN found("scsi_generic", @) ELSE 1]
    /\ UNCHANGED <<kernel, queue, plan, missed>>

Next ==
    \/ \E d \in Devices :
        \/ Plug(d) \/ Unplug(d) \/ Unbind(d) \/ Bind(d) \/ Change(d) \/ Rename(d)
        \/ \E child \in {"disk", "scsi_generic"} : Child(d, child)
    \/ Create \/ PollEvent
    \/ \E i \in DOMAIN rs : PollSwitch(i)

Spec == Init /\ [][Next]_vars
-----------------------------------------------------------------------------
Told(i) == queue = <<>> /\ i \notin missed
Fits(i, d) == kind[d] \in Taken[rs[i].cls]

\* When the queue is empty no resource has a device that is gone, whatever it
\* had seen before the events were worked off, unless the device was renamed
\* or an event was lost to an exception.
NoGhosts ==
    \A i \in DOMAIN rs :
        LET own == rs[i].device
        IN Told(i) /\ own # NoDevice /\ own.d \notin odd => There(own.d) /\ here[own.d].path = own.path

\* And a resource that only one device fits has it, unless the device was
\* unbound: a new binding is no event that counts.
DevicesFound ==
    \A i \in DOMAIN rs, d \in Devices :
        Told(i) /\ There(d) /\ d \notin odd /\ {x \in Devices : Fits(i, x)} = {d} => rs[i].device.d = d

\* The paths of a switch are those of the incarnation that is there.
PathsCurrent ==
    \A i \in DOMAIN rs :
        LET r == rs[i]
        IN Told(i) /\ r.device.d \notin odd =>
            /\ r.disk # 0 => r.device # NoDevice /\ r.disk = here[r.device.d].n
            /\ r.cls = "USBSDMuxDevice" /\ r.control # 0 => r.device # NoDevice /\ r.control = here[r.device.d].n

UdevHonest == NoGhosts /\ DevicesFound /\ PathsCurrent
=============================================================================
