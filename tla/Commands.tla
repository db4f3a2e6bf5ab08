------------------------------ MODULE Commands ------------------------------
(***************************************************************************)
(* The commands of labgrid-client that work on an acquired place, up to    *)
(* the driver they use: which resource a command picks, which driver it    *)
(* makes for it, and what that driver is bound to.                         *)
(*                                                                         *)
(* The target has the resources of the place, in their order, and the      *)
(* drivers that earlier commands made (a session may run several).         *)
(***************************************************************************)
EXTENDS Naturals, Sequences, FiniteSets, FiniteSetsExt

CONSTANTS Names,        \* names of resources; one may be "default"
          MaxResources, MaxCalls

VARIABLES
    cmd,        \* the command
    resources,  \* the target's resources: class and name
    drivers,    \* the target's drivers: class, name, and what they are bound to
    calls,      \* commands run
    last        \* the last one: the name given, the driver used, how it ended
vars == <<cmd, resources, drivers, calls, last>>

Unnamed == ""
Super == {<<"WaveshareModbusTCPCoil", "ModbusTCPCoil">>, <<"NetworkAndroidFastboot", "RemoteAndroidUSBFastboot">>}
IsA(c, class) == c = class \/ <<c, class>> \in Super

(***************************************************************************)
(* The one binding that matters of each driver: alternative classes.       *)
(***************************************************************************)
Bindings == [
    NetworkPowerDriver |-> {"NetworkPowerPort"},
    USBPowerDriver |-> {"USBPowerPort", "NetworkUSBPowerPort"},
    SiSPMPowerDriver |-> {"SiSPMPowerPort", "NetworkSiSPMPowerPort"},
    PDUDaemonDriver |-> {"PDUDaemonPort"},
    TasmotaPowerDriver |-> {"TasmotaPowerPort"},
    YKUSHPowerDriver |-> {"YKUSHPowerPort", "NetworkYKUSHPowerPort"},
    GpioDigitalOutputDriver |-> {"SysfsGPIO", "MatchedSysfsGPIO", "NetworkSysfsGPIO"},
    DigitalOutputPowerDriver |-> {"DigitalOutputProtocol"},
    WaveShareModbusCoilDriver |-> {"WaveshareModbusTCPCoil"},
    ModbusCoilDriver |-> {"ModbusTCPCoil"},
    Eth008DigitalOutputDriver |-> {"Eth008DigitalOutput"},
    OneWirePIODriver |-> {"OneWirePIO"},
    HttpDigitalOutputDriver |-> {"HttpDigitalOutput"},
    DeditecRelaisDriver |-> {"DeditecRelais8", "NetworkDeditecRelais8"},
    FTDIGPIODriver |-> {"FTDIGPIO", "NetworkFTDIGPIO"},
    LXAIOBusPIODriver |-> {"LXAIOBusPIO", "NetworkLXAIOBusPIO"},
    HIDRelayDriver |-> {"HIDRelay", "NetworkHIDRelay"},
    IMXUSBDriver |-> {"IMXUSBLoader", "NetworkIMXUSBLoader", "MXSUSBLoader", "NetworkMXSUSBLoader"},
    MXSUSBDriver |-> {"MXSUSBLoader", "NetworkMXSUSBLoader"},
    OpenOCDDriver |-> {"AlteraUSBBlaster", "NetworkAlteraUSBBlaster", "USBDebugger", "NetworkUSBDebugger"},
    RKUSBDriver |-> {"RKUSBLoader", "NetworkRKUSBLoader"},
    USBSDMuxDriver |-> {"USBSDMuxDevice", "NetworkUSBSDMuxDevice"},
    USBSDWireDriver |-> {"USBSDWireDevice", "NetworkUSBSDWireDevice"},
    USBSDWire3Driver |-> {"USBSDWire3Device", "NetworkUSBSDWire3Device"},
    LXAUSBMuxDriver |-> {"LXAUSBMux", "NetworkLXAUSBMux"},
    USBVideoDriver |-> {"USBVideo", "NetworkUSBVideo"},
    HTTPVideoDriver |-> {"HTTPVideoStream"},
    USBAudioInputDriver |-> {"USBAudioInput", "NetworkUSBAudioInput"},
    RawNetworkInterfaceDriver |-> {"NetworkInterface", "RemoteNetworkInterface", "USBNetworkInterface"},
    USBTMCDriver |-> {"USBTMC", "NetworkUSBTMC"},
    USBStorageDriver |-> {"USBMassStorage", "NetworkUSBMassStorage", "USBSDMuxDevice", "NetworkUSBSDMuxDevice",
                          "USBSDWireDevice", "NetworkUSBSDWireDevice", "USBSDWire3Device", "NetworkUSBSDWire3Device"},
    DFUDriver |-> {"DFUDevice", "NetworkDFUDevice"},
    AndroidFastbootDriver |-> {"AndroidUSBFastboot", "RemoteAndroidUSBFastboot",
                               "AndroidNetFastboot", "RemoteAndroidNetFastboot"},
    FlashScriptDriver |-> {"USBFlashableDevice", "NetworkUSBFlashableDevice"},
    SSHDriver |-> {"NetworkService"}]
\* Drivers with a second binding: a name cannot say which one is meant.
Twofold == {"FTDIGPIODriver"}
Outputs == {"GpioDigitalOutputDriver", "WaveShareModbusCoilDriver", "ModbusCoilDriver", "Eth008DigitalOutputDriver",
            "OneWirePIODriver", "HttpDigitalOutputDriver", "DeditecRelaisDriver", "FTDIGPIODriver",
            "LXAIOBusPIODriver", "HIDRelayDriver"}
Powers == {"NetworkPowerDriver", "USBPowerDriver", "SiSPMPowerDriver", "PDUDaemonDriver", "TasmotaPowerDriver",
           "YKUSHPowerDriver", "DigitalOutputPowerDriver"}

(***************************************************************************)
(* Each command: the drivers that are asked for first by their protocol,   *)
(* then for each resource class the drivers to make, in the order of the   *)
(* code; how it may end besides "ok" once it has its driver.               *)
(***************************************************************************)
Looks(protocol, table, ends) == [protocol |-> protocol, table |-> table, ends |-> ends]
Directly(driver, ends) == [protocol |-> {}, table |-> <<>>, driver |-> driver, ends |-> ends]

power == Looks(Powers, <<
    <<"NetworkPowerPort", <<"NetworkPowerDriver">>>>, <<"NetworkUSBPowerPort", <<"USBPowerDriver">>>>,
    <<"NetworkSiSPMPowerPort", <<"SiSPMPowerDriver">>>>, <<"PDUDaemonPort", <<"PDUDaemonDriver">>>>,
    <<"TasmotaPowerPort", <<"TasmotaPowerDriver">>>>, <<"NetworkYKUSHPowerPort", <<"YKUSHPowerDriver">>>>,
    <<"NetworkSysfsGPIO", <<"GpioDigitalOutputDriver", "DigitalOutputPowerDriver">>>>>>, {"exception"})

digital_io_modbus_first == Looks(Outputs, <<
    <<"ModbusTCPCoil", <<"ModbusCoilDriver">>>>, <<"WaveshareModbusTCPCoil", <<"WaveShareModbusCoilDriver">>>>,
    <<"Eth008DigitalOutput", <<"Eth008DigitalOutputDriver">>>>, <<"OneWirePIO", <<"OneWirePIODriver">>>>,
    <<"HttpDigitalOutput", <<"HttpDigitalOutputDriver">>>>, <<"NetworkDeditecRelais8", <<"DeditecRelaisDriver">>>>,
    <<"NetworkSysfsGPIO", <<"GpioDigitalOutputDriver">>>>, <<"NetworkFTDIGPIO", <<"FTDIGPIODriver">>>>,
    <<"NetworkLXAIOBusPIO", <<"LXAIOBusPIODriver">>>>, <<"NetworkHIDRelay", <<"HIDRelayDriver">>>>>>, {"exception"})

digital_io == Looks(Outputs, <<
    <<"WaveshareModbusTCPCoil", <<"WaveShareModbusCoilDriver">>>>, <<"ModbusTCPCoil", <<"ModbusCoilDriver">>>>,
    <<"Eth008DigitalOutput", <<"Eth008DigitalOutputDriver">>>>, <<"OneWirePIO", <<"OneWirePIODriver">>>>,
    <<"HttpDigitalOutput", <<"HttpDigitalOutputDriver">>>>, <<"NetworkDeditecRelais8", <<"DeditecRelaisDriver">>>>,
    <<"NetworkSysfsGPIO", <<"GpioDigitalOutputDriver">>>>, <<"NetworkFTDIGPIO", <<"FTDIGPIODriver">>>>,
    <<"NetworkLXAIOBusPIO", <<"LXAIOBusPIODriver">>>>, <<"NetworkHIDRelay", <<"HIDRelayDriver">>>>>>, {"exception"})

bootstrap == Looks({"IMXUSBDriver", "MXSUSBDriver", "OpenOCDDriver", "RKUSBDriver"}, <<
    <<"NetworkIMXUSBLoader", <<"IMXUSBDriver">>>>, <<"NetworkMXSUSBLoader", <<"MXSUSBDriver">>>>,
    <<"NetworkAlteraUSBBlaster", <<"OpenOCDDriver">>>>, <<"NetworkUSBDebugger", <<"OpenOCDDriver">>>>,
    <<"NetworkRKUSBLoader", <<"RKUSBDriver">>>>>>, {"user_error", "exception"})

sd_mux == Looks({}, <<
    <<"NetworkUSBSDMuxDevice", <<"USBSDMuxDriver">>>>, <<"NetworkUSBSDWireDevice", <<"USBSDWireDriver">>>>,
    <<"NetworkUSBSDWire3Device", <<"USBSDWire3Driver">>>>>>, {"user_error", "exception"})

usb_mux == Looks({}, << <<"NetworkLXAUSBMux", <<"LXAUSBMuxDriver">>>> >>, {"exception"})

video == Looks({"USBVideoDriver", "HTTPVideoDriver"}, <<
    <<"USBVideo", <<"USBVideoDriver">>>>, <<"NetworkUSBVideo", <<"USBVideoDriver">>>>,
    <<"HTTPVideoStream", <<"HTTPVideoDriver">>>>>>, {"interactive", "exception"})

dfu == Directly("DFUDriver", {"user_error", "exception"})
fastboot == Directly("AndroidFastbootDriver", {"user_error", "exception"})
flashscript == Directly("FlashScriptDriver", {"exception"})
audio == Directly("USBAudioInputDriver", {"interactive", "exception"})
netns == Directly("RawNetworkInterfaceDriver", {"interactive", "exception"})
tmc == Directly("USBTMCDriver", {"user_error", "exception"})
write_files == Directly("USBStorageDriver", {"user_error", "exception"})
write_image == Directly("USBStorageDriver", {"user_error", "exception"})

Commands == [power |-> power, io |-> digital_io, bootstrap |-> bootstrap, sd_mux |-> sd_mux, usb_mux |-> usb_mux,
             video |-> video, dfu |-> dfu, fastboot |-> fastboot, flashscript |-> flashscript, audio |-> audio,
             netns |-> netns, tmc |-> tmc, write_files |-> write_files, write_image |-> write_image, ssh |-> Directly("SSHDriver", {"interactive"})]
Scans(c) == Commands[c].table # <<>>
Direct(c) == Commands[c].driver

\* Classes of resources that are worth having on the target of a command.
Relevant(c) == IF c = "ssh" THEN {"NetworkService", "EthernetPort"}
               ELSE IF Scans(c) THEN {Commands[c].table[i][1] : i \in DOMAIN Commands[c].table}
               ELSE Bindings[Direct(c)] \cup {"NetworkAndroidFastboot", "NetworkPowerPort"}

\* The type invariant.
TypeOK ==
    /\ cmd \in DOMAIN Commands /\ calls \in 0..MaxCalls
    /\ \A i \in DOMAIN drivers : drivers[i].cls \in DOMAIN Bindings

\* A place never has two resources of one class and name.
Init ==
    /\ cmd \in DOMAIN Commands
    /\ \E k \in 0..MaxResources : resources \in [1..k -> [cls : Relevant(cmd), name : Names]]
    /\ \A i, j \in DOMAIN resources : resources[i] = resources[j] => i = j
    /\ drivers = <<>> /\ calls = 0
    /\ last = [name |-> Unnamed, driver |-> 0, end |-> "none"]

(***************************************************************************)
(* Target.get_resource and Target.get_driver: an index, or 0.              *)
(***************************************************************************)
get_resource(res, class, name) ==
    LET of == {i \in DOMAIN res : IsA(res[i].cls, class)}
        found == {i \in of : name = Unnamed \/ res[i].name = name}
        default == {i \in of : res[i].name = "default"}
        picked == IF name = Unnamed /\ default # {} /\ Cardinality(found) # 1 THEN {Max(default)} ELSE found
    IN  IF Cardinality(picked) = 1 THEN Max(picked) ELSE 0

get_driver(drvs, classes, name) ==
    LET found == {i \in DOMAIN drvs : drvs[i].cls \in classes /\ (name = Unnamed \/ drvs[i].name = name)}
    IN  IF Cardinality(found) = 1 THEN Max(found) ELSE 0

\* bind_driver: every class of the set is looked for, and one has to be found.
Suppliers(res, drvs, driver, name) ==
    IF driver = "DigitalOutputPowerDriver"
    THEN {<<"driver", i>> : i \in {get_driver(drvs, Outputs, name)} \ {0}}
    ELSE {<<"resource", get_resource(res, class, name)>> : class \in {b \in Bindings[driver] : get_resource(res, b, name) # 0}}

\* How the failure to bind ends the command: the class of the one error there
\* is, or a NoSupplierFoundError that main() has no clause for.
Unbound(driver) == IF driver = "DigitalOutputPowerDriver" THEN "no_driver"
                   ELSE IF Cardinality(Bindings[driver]) = 1 THEN "no_resource" ELSE "exception"

(***************************************************************************)
(* _get_driver_or_new: the new list of drivers, the driver, and an error.  *)
(* The name goes to the driver, and to its binding, which has to be its    *)
(* only one.  OpenOCDDriver is made without telling the binding.           *)
(***************************************************************************)
_get_driver_or_new(res, drvs, driver, name) ==
    LET known == get_driver(drvs, {driver}, name)
        to == IF driver = "OpenOCDDriver" THEN Unnamed ELSE name
        suppliers == Suppliers(res, drvs, driver, to)
    IN  IF known # 0 THEN [drivers |-> drvs, driver |-> known, end |-> "ok"]
        ELSE IF driver \in Twofold /\ name # Unnamed THEN [drivers |-> drvs, driver |-> 0, end |-> "exception"]
        ELSE IF Cardinality(suppliers) # 1
        THEN [drivers |-> drvs, driver |-> 0, end |-> IF suppliers = {} THEN Unbound(driver) ELSE "exception"]
        ELSE [drivers |-> Append(drvs, [cls |-> driver, name |-> name, supplier |-> CHOOSE s \in suppliers : TRUE]),
              driver |-> Len(drvs) + 1, end |-> "ok"]

Both(res, drvs, made, name) ==
    LET first == _get_driver_or_new(res, drvs, made[1], name)
    IN  IF Len(made) = 1 \/ first.end # "ok" THEN first
        ELSE _get_driver_or_new(res, first.drivers, made[2], name)

\* The first clause of the command that a resource satisfies, or 0.
Clause(c, class) == LET some == {k \in DOMAIN Commands[c].table : IsA(class, Commands[c].table[k][1])}
                    IN  IF some = {} THEN 0 ELSE Min(some)
Usable(c, name) == {i \in DOMAIN resources : (name = Unnamed \/ resources[i].name = name) /\ Clause(c, resources[i].cls) # 0}

Found(name) ==
    LET known == get_driver(drivers, Commands[cmd].protocol, name)
    IN  IF known # 0 THEN [drivers |-> drivers, driver |-> known, end |-> "ok"]
        ELSE IF Usable(cmd, name) = {} THEN [drivers |-> drivers, driver |-> 0, end |-> "user_error"]
        ELSE Both(resources, drivers, Commands[cmd].table[Clause(cmd, resources[Min(Usable(cmd, name))].cls)][2], name)

Finish(found, name) ==
    /\ drivers' = found.drivers
    /\ \E end \in IF found.end = "ok" THEN {"ok"} \cup Commands[cmd].ends ELSE {found.end} :
          last' = [name |-> name, driver |-> found.driver, end |-> end]

Scan(name) ==
    /\ calls < MaxCalls /\ Scans(cmd)
    /\ Finish(Found(name), name)
    /\ calls' = calls + 1 /\ UNCHANGED <<cmd, resources>>

Take(name) ==
    /\ calls < MaxCalls /\ ~Scans(cmd) /\ cmd # "ssh"
    /\ Finish(_get_driver_or_new(resources, drivers, Direct(cmd), name), name)
    /\ calls' = calls + 1 /\ UNCHANGED <<cmd, resources>>

(***************************************************************************)
(* _get_ssh: a NetworkService, or one that is made up from the newest      *)
(* address the EthernetPort has seen, or from the address of the only      *)
(* other NetworkService; the driver gets the name of the resource.         *)
(***************************************************************************)
Made == [cls |-> "NetworkService", name |-> Unnamed]
Ssh(name) ==
    /\ calls < MaxCalls /\ cmd = "ssh"
    /\ LET known == get_driver(drivers, {"SSHDriver"}, name)
           service == get_resource(resources, "NetworkService", name)
           port == get_resource(resources, "EthernetPort", Unnamed)
           other == get_resource(resources, "NetworkService", Unnamed)
           with == Append(resources, Made)
       IN  \/ /\ known # 0
              /\ Finish([drivers |-> drivers, driver |-> known, end |-> "ok"], name) /\ UNCHANGED resources
           \/ /\ known = 0 /\ service # 0
              /\ Finish(_get_driver_or_new(resources, drivers, "SSHDriver", resources[service].name), name)
              /\ UNCHANGED resources
           \/ /\ known = 0 /\ service = 0 /\ (port # 0 \/ other # 0)
              /\ \/ Finish(_get_driver_or_new(with, drivers, "SSHDriver", Unnamed), name) /\ resources' = with
                 \/ \* no address, or more than one: there is no driver to call
                    Finish([drivers |-> drivers, driver |-> 0, end |-> "exception"], name) /\ UNCHANGED resources
           \/ /\ known = 0 /\ service = 0 /\ port = 0 /\ other = 0
              /\ Finish([drivers |-> drivers, driver |-> 0, end |-> "no_resource"], name) /\ UNCHANGED resources
    /\ calls' = calls + 1 /\ UNCHANGED cmd

Next == \E name \in Names \cup {Unnamed} : Scan(name) \/ Take(name) \/ Ssh(name)

Spec == Init /\ [][Next]_vars
-----------------------------------------------------------------------------
Device(i) == IF drivers[i].supplier[1] = "resource" THEN resources[drivers[i].supplier[2]]
             ELSE resources[drivers[drivers[i].supplier[2]].supplier[2]]
Ran == last.driver # 0 /\ last.end \in {"ok"} \cup Commands[cmd].ends
Used == drivers[last.driver]

\* A command that was given a name works on the device of that name.  (ssh
\* makes up a service when there is none of the name, and bootstrap does not
\* pass the name on to OpenOCD.)
NamedDevice ==
    (Ran /\ last.name # Unnamed /\ cmd # "ssh" /\ Used.cls # "OpenOCDDriver") => Device(last.driver).name = last.name

\* The same without the second exception.
NamedDeviceAlways == (Ran /\ last.name # Unnamed /\ cmd # "ssh") => Device(last.driver).name = last.name

\* A device is driven by the driver that is meant for its class, not by one
\* for a more general class, unless a resource called "default" took the place
\* of the one the command had found.
RightDriver ==
    (Ran /\ (\E d \in DOMAIN Bindings : Device(last.driver).cls \in Bindings[d]) /\ Device(last.driver).name # "default")
    => \/ Device(last.driver).cls \in Bindings[Used.cls]
       \/ Used.supplier[1] = "driver"

\* One usable device is enough for a command to find it, whatever its name;
\* only a driver with a second binding cannot be used by name.
OneIsEnough ==
    (calls = 1 /\ Scans(cmd) /\ Cardinality(Usable(cmd, Unnamed)) = 1 /\ last.driver = 0) =>
        \/ last.name # Unnamed /\ Usable(cmd, last.name) = {}
        \/ last.name # Unnamed /\ \E i \in Usable(cmd, last.name) : resources[i].cls = "NetworkFTDIGPIO"

\* Commands of one session use each other's drivers and do not make one twice
\* for a name.  (Without a name, two drivers that fit are as good as none, and
\* one more is made.)
NoDoubles == \A i, j \in DOMAIN drivers :
    (drivers[i].cls = drivers[j].cls /\ drivers[i].name = drivers[j].name /\ drivers[i].name # Unnamed) => i = j

CommandsHonest == NamedDevice /\ RightDriver /\ OneIsEnough /\ NoDoubles
-----------------------------------------------------------------------------
(***************************************************************************)
(* The inductive invariant: what each driver is bound to.                  *)
(***************************************************************************)
ResourceRecords == [cls : Relevant(cmd), name : Names \cup {Unnamed}]
DriverRecords == [cls : DOMAIN Bindings, name : Names \cup {Unnamed}, supplier : {"resource", "driver"} \X Nat]

\* The driver is for the class of the resource, not for a more general one.
MeantFor(driver, resource) ==
    resource.cls \in Bindings[driver] \/ resource.name = "default" \/ resource.cls = "NetworkAndroidFastboot"

\* The i-th driver has what its name says: a resource, or the output of another driver.
Supplied(res, drvs, i) ==
    LET d == drvs[i]
        k == drvs[i].supplier[2]
    IN  IF d.cls = "DigitalOutputPowerDriver"
        THEN /\ d.supplier[1] = "driver" /\ k \in DOMAIN drvs /\ drvs[k].cls \in Outputs
             /\ d.name # Unnamed => drvs[k].name = d.name
        ELSE /\ d.supplier[1] = "resource" /\ k \in DOMAIN res /\ MeantFor(d.cls, res[k])
             /\ (d.name # Unnamed /\ d.cls # "OpenOCDDriver") => res[k].name = d.name

LastKnown ==
    /\ last.driver \in {0} \cup DOMAIN drivers
    /\ (last.driver # 0 /\ last.name # Unnamed /\ cmd # "ssh") => Used.name = last.name

CommandsInv ==
    /\ TypeOK /\ resources \in Seq(ResourceRecords) /\ drivers \in Seq(DriverRecords)
    /\ \A i \in DOMAIN drivers : Supplied(resources, drivers, i)
    /\ LastKnown /\ (calls = 0 => drivers = <<>>)
    /\ OneIsEnough /\ NoDoubles
=============================================================================
