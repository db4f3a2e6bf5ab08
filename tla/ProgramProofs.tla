---------------------------- MODULE ProgramProofs ----------------------------
(***************************************************************************)
(* The programs around a place, for every value of the constants: the      *)
(* commands that work on it, the session of microcom, the SSH driver,      *)
(* strategies, the coordinator's files and the exporter.                   *)
(*                                                                         *)
(* The inductive invariant of a component, named ...Inv and stated in its  *)
(* module, holds initially and is kept by every step.  The theorems at the *)
(* end draw the conclusions for the specification that examines the        *)
(* components, which is where TLC checks the same properties.              *)
(***************************************************************************)
EXTENDS Components, TLAPS, FiniteSetTheorems, WellFoundedInduction
-----------------------------------------------------------------------------
(***************************************************************************)
(* The commands that work on a place (client.py, target.py).               *)
(***************************************************************************)
\* Commands is instantiated: its Cardinality is that of FiniteSets.
LEMMA CardinalityK == \A X : K!Cardinality(X) = Cardinality(X)
BY DEF K!Cardinality, Cardinality

\* The least element of a set of naturals, which a clause of a command is chosen by.
LEMMA LeastOf ==
    ASSUME NEW X \in SUBSET Nat, X # {}
    PROVE  K!Min(X) \in X /\ \A y \in X : K!Min(X) =< y
<1>1. PICK x \in X : \A y \in X : ~ (<<y, x>> \in OpToRel(<, Nat))
  BY NatLessThanWellFounded, WFMin
<1>2. \A y \in X : ~(y < x)
  BY <1>1 DEF OpToRel
<1>3. \A y \in X : x =< y
  BY <1>2
<1> QED BY <1>3 DEF K!Min

\* The greatest element of a set of indices.
LEMMA GreatestOf ==
    ASSUME NEW n \in Nat, NEW X \in SUBSET (1..n), X # {}
    PROVE  K!Max(X) \in X
<1> DEFINE Y == {n - x : x \in X}
<1>1. Y \in SUBSET Nat /\ Y # {}
  <2>1. \A x \in X : x \in 1..n
    OBVIOUS
  <2>2. \A x \in 1..n : n - x \in Nat
    OBVIOUS
  <2> QED BY <2>1, <2>2
<1>2. K!Min(Y) \in Y /\ \A y \in Y : K!Min(Y) =< y
  BY <1>1, LeastOf
<1>3. PICK x \in X : K!Min(Y) = n - x
  BY <1>2
<1>4. \A y \in X : x >= y
  <2> SUFFICES ASSUME NEW y \in X PROVE x >= y
    OBVIOUS
  <2>1. n - y \in Y
    OBVIOUS
  <2>2. n - x =< n - y
    BY <1>2, <1>3, <2>1
  <2> QED BY <2>2
<1> QED BY <1>4 DEF K!Max

\* A set with one element is that element's, and the greatest of it is the element.
LEMMA OnlyOne ==
    /\ \A x \in Nat : K!Max({x}) = x /\ K!Cardinality({x}) = 1
    /\ \A n \in Nat : \A X \in SUBSET (1..n) : K!Cardinality(X) = 1 => \E x \in 1..n : X = {x}
    /\ K!Cardinality({}) = 0
<1>1. ASSUME NEW x \in Nat PROVE K!Max({x}) = x /\ K!Cardinality({x}) = 1
  <2>1. \A y \in {x} : x >= y
    OBVIOUS
  <2>2. K!Max({x}) \in {x}
    BY <2>1 DEF K!Max
  <2> QED BY <2>2, FS_Singleton, CardinalityK
<1>2. ASSUME NEW n \in Nat, NEW X \in SUBSET (1..n), K!Cardinality(X) = 1 PROVE \E x \in 1..n : X = {x}
  <2>1. IsFiniteSet(1..n)
    BY FS_Interval
  <2>2. IsFiniteSet(X)
    BY <2>1, FS_Subset
  <2>3. \E x : X = {x}
    BY <1>2, <2>2, FS_Singleton, CardinalityK
  <2> QED BY <2>3
<1> QED BY <1>1, <1>2, FS_EmptySet, CardinalityK

\* What Target.get_resource returns: a resource of the class and name, and without a name
\* either the only one or one that is called default (target.py).
LEMMA ResourceFound ==
    ASSUME NEW X, NEW res \in Seq(X), NEW class, NEW name,
           NEW k, k = K!get_resource(res, class, name), k # 0
    PROVE  /\ k \in DOMAIN res /\ k \in Nat /\ K!IsA(res[k].cls, class)
           /\ name # K!Unnamed => res[k].name = name
           /\ \/ res[k].name = "default"
              \/ \A i \in DOMAIN res : K!IsA(res[i].cls, class) /\ (name = K!Unnamed \/ res[i].name = name) => i = k
<1> DEFINE of == {i \in DOMAIN res : K!IsA(res[i].cls, class)}
           found == {i \in of : name = K!Unnamed \/ res[i].name = name}
           default == {i \in of : res[i].name = "default"}
           picked == IF name = K!Unnamed /\ default # {} /\ K!Cardinality(found) # 1 THEN {K!Max(default)} ELSE found
<1>1. K!Cardinality(picked) = 1 /\ k = K!Max(picked)
  BY DEF K!get_resource
<1>2. Len(res) \in Nat /\ DOMAIN res = 1..Len(res)
  OBVIOUS
<1>5. found \in SUBSET (1..Len(res)) /\ default \in SUBSET (1..Len(res))
  BY <1>2
<1> HIDE DEF found, default, picked
<1>3. CASE name = K!Unnamed /\ default # {} /\ K!Cardinality(found) # 1
  <2>1. K!Max(default) \in default
    BY <1>2, <1>3, <1>5, GreatestOf
  <2>2. picked = {K!Max(default)}
    BY <1>3 DEF picked
  <2>4. K!Max(default) \in 1..Len(res)
    BY <1>5, <2>1
  <2>5. K!Max(default) \in Nat
    BY <1>2, <2>4
  <2>3. k = K!Max(default)
    BY <1>1, <2>2, <2>5, OnlyOne
  <2>6. k \in DOMAIN res /\ k \in Nat
    BY <1>2, <2>3, <2>4, <2>5
  <2>7. K!IsA(res[k].cls, class) /\ res[k].name = "default"
    BY <2>1, <2>3 DEF default
  <2> QED BY <1>3, <2>6, <2>7
<1>4. CASE ~(name = K!Unnamed /\ default # {} /\ K!Cardinality(found) # 1)
  <2>1. K!Cardinality(found) = 1 /\ k = K!Max(found)
    BY <1>1, <1>4 DEF picked
  <2>2. PICK x \in 1..Len(res) : found = {x}
    <3>1. \A Y \in SUBSET (1..Len(res)) : K!Cardinality(Y) = 1 => \E x \in 1..Len(res) : Y = {x}
      BY <1>2, OnlyOne
    <3> QED BY <1>5, <2>1, <3>1
  <2>3. k = x
    BY <2>1, <2>2, OnlyOne
  <2>4. k \in found /\ \A i \in found : i = k
    BY <2>2, <2>3
  <2>5. k \in DOMAIN res /\ k \in Nat
    BY <1>2, <2>2, <2>3
  <2> QED BY <2>4, <2>5 DEF found
<1> QED BY <1>3, <1>4

\* A driver that get_driver looks for.
FoundBy(driver, classes, name) == driver.cls \in classes /\ (name = K!Unnamed \/ driver.name = name)

\* What Target.get_driver returns has the class and the name (target.py).
LEMMA DriverFound ==
    ASSUME NEW X, NEW drvs \in Seq(X), NEW classes, NEW name, NEW k, k = K!get_driver(drvs, classes, name), k # 0
    PROVE  k \in DOMAIN drvs /\ k \in Nat /\ FoundBy(drvs[k], classes, name)
<1> DEFINE found == {i \in DOMAIN drvs : FoundBy(drvs[i], classes, name)}
<1>1. k = IF K!Cardinality(found) = 1 THEN K!Max(found) ELSE 0
  BY DEF K!get_driver, FoundBy
<1>2. Len(drvs) \in Nat /\ DOMAIN drvs = 1..Len(drvs)
  OBVIOUS
<1>3. found \in SUBSET (1..Len(drvs))
  BY <1>2
<1> HIDE DEF found
<1>4. K!Cardinality(found) = 1 /\ k = K!Max(found)
  BY <1>1
<1>5. PICK x \in 1..Len(drvs) : found = {x}
  <2>1. \A Y \in SUBSET (1..Len(drvs)) : K!Cardinality(Y) = 1 => \E x \in 1..Len(drvs) : Y = {x}
    BY <1>2, OnlyOne
  <2> QED BY <1>3, <1>4, <2>1
<1>6. k = x /\ k \in Nat
  BY <1>4, <1>5, OnlyOne
<1> QED BY <1>2, <1>5, <1>6 DEF found

\* The only driver that fits is found.
LEMMA DriverAlone ==
    ASSUME NEW X, NEW drvs \in Seq(X), NEW classes, NEW name, NEW i \in DOMAIN drvs,
           FoundBy(drvs[i], classes, name), \A j \in DOMAIN drvs : FoundBy(drvs[j], classes, name) => i = j
    PROVE  K!get_driver(drvs, classes, name) = i
<1> DEFINE found == {j \in DOMAIN drvs : FoundBy(drvs[j], classes, name)}
<1>1. K!get_driver(drvs, classes, name) = IF K!Cardinality(found) = 1 THEN K!Max(found) ELSE 0
  BY DEF K!get_driver, FoundBy
<1>2. found = {i} /\ i \in Nat
  OBVIOUS
<1> HIDE DEF found
<1> QED BY <1>1, <1>2, OnlyOne

\* The bindings: only ModbusCoilDriver can be bound to the general class of coils, and the
\* deprecated class of fastboot devices is in none.
LEMMA BindingsFit ==
    /\ DOMAIN K!Bindings = {"NetworkPowerDriver", "USBPowerDriver", "SiSPMPowerDriver", "PDUDaemonDriver", "TasmotaPowerDriver",
          "YKUSHPowerDriver", "GpioDigitalOutputDriver", "DigitalOutputPowerDriver", "WaveShareModbusCoilDriver",
          "ModbusCoilDriver", "Eth008DigitalOutputDriver", "OneWirePIODriver", "HttpDigitalOutputDriver",
          "DeditecRelaisDriver", "FTDIGPIODriver", "LXAIOBusPIODriver", "HIDRelayDriver", "IMXUSBDriver", "MXSUSBDriver",
          "OpenOCDDriver", "RKUSBDriver", "USBSDMuxDriver", "USBSDWireDriver", "USBSDWire3Driver", "LXAUSBMuxDriver",
          "USBVideoDriver", "HTTPVideoDriver", "USBAudioInputDriver", "RawNetworkInterfaceDriver", "USBTMCDriver",
          "USBStorageDriver", "DFUDriver", "AndroidFastbootDriver", "FlashScriptDriver", "SSHDriver"}
    /\ \A d \in DOMAIN K!Bindings : /\ "ModbusTCPCoil" \in K!Bindings[d] => d = "ModbusCoilDriver"
                                    /\ "NetworkAndroidFastboot" \notin K!Bindings[d]
<1>1. DOMAIN K!Bindings = {"NetworkPowerDriver", "USBPowerDriver", "SiSPMPowerDriver", "PDUDaemonDriver", "TasmotaPowerDriver",
          "YKUSHPowerDriver", "GpioDigitalOutputDriver", "DigitalOutputPowerDriver", "WaveShareModbusCoilDriver",
          "ModbusCoilDriver", "Eth008DigitalOutputDriver", "OneWirePIODriver", "HttpDigitalOutputDriver",
          "DeditecRelaisDriver", "FTDIGPIODriver", "LXAIOBusPIODriver", "HIDRelayDriver", "IMXUSBDriver", "MXSUSBDriver",
          "OpenOCDDriver", "RKUSBDriver", "USBSDMuxDriver", "USBSDWireDriver", "USBSDWire3Driver", "LXAUSBMuxDriver",
          "USBVideoDriver", "HTTPVideoDriver", "USBAudioInputDriver", "RawNetworkInterfaceDriver", "USBTMCDriver",
          "USBStorageDriver", "DFUDriver", "AndroidFastbootDriver", "FlashScriptDriver", "SSHDriver"}
  BY DEF K!Bindings
<1>2. ASSUME NEW d \in DOMAIN K!Bindings PROVE /\ "ModbusTCPCoil" \in K!Bindings[d] => d = "ModbusCoilDriver"
                                               /\ "NetworkAndroidFastboot" \notin K!Bindings[d]
  BY DEF K!Bindings
<1> QED BY <1>1, <1>2

\* The commands that work on a place.
LEMMA CommandNames ==
    DOMAIN K!Commands = {"power", "io", "bootstrap", "sd_mux", "usb_mux", "video", "dfu", "fastboot", "flashscript", "audio",
                         "netns", "tmc", "write_files", "write_image", "ssh"}
BY DEF K!Commands

\* One clause of a command: the resource class and what is made for it fit each other.
ClauseSound(c, t) ==
    /\ t[1] \in K!Bindings[t[2][1]] /\ t[2][1] \in DOMAIN K!Bindings
    /\ t[2][1] # "DigitalOutputPowerDriver"
    /\ Len(t[2]) = 1 \/ (Len(t[2]) = 2 /\ t[2][1] = "GpioDigitalOutputDriver" /\ t[2][2] = "DigitalOutputPowerDriver")
    /\ t[2][1] = "FTDIGPIODriver" => t[1] = "NetworkFTDIGPIO"
    /\ t[2][1] = "ModbusCoilDriver" => c = "io" /\ t[1] = "ModbusTCPCoil"

\* All clauses of a command do, and io asks for the special class of coils first.
ClausesSound(c) ==
    /\ DOMAIN K!Commands[c].table \subseteq Nat \ {0}
    /\ \A k \in DOMAIN K!Commands[c].table : ClauseSound(c, K!Commands[c].table[k])
    /\ c = "io" => 1 \in DOMAIN K!Commands[c].table /\ K!Commands[c].table[1][1] = "WaveshareModbusTCPCoil"

\* In the tables of client.py, each class of resource has a driver that can be bound to it.
LEMMA TablesSound ==
    \A c \in DOMAIN K!Commands :
        /\ K!Scans(c) => ClausesSound(c) /\ c # "ssh"
        /\ ~K!Scans(c) /\ c # "ssh" =>
              K!Direct(c) \in DOMAIN K!Bindings \ {"DigitalOutputPowerDriver", "ModbusCoilDriver"}
<1>1. ClausesSound("power")
  <2>1. K!Commands["power"].table = <<
        <<"NetworkPowerPort", <<"NetworkPowerDriver">>>>, <<"NetworkUSBPowerPort", <<"USBPowerDriver">>>>,
        <<"NetworkSiSPMPowerPort", <<"SiSPMPowerDriver">>>>, <<"PDUDaemonPort", <<"PDUDaemonDriver">>>>,
        <<"TasmotaPowerPort", <<"TasmotaPowerDriver">>>>, <<"NetworkYKUSHPowerPort", <<"YKUSHPowerDriver">>>>,
        <<"NetworkSysfsGPIO", <<"GpioDigitalOutputDriver", "DigitalOutputPowerDriver">>>> >>
    BY DEF K!Commands, K!power, K!Looks
  <2>2. DOMAIN K!Commands["power"].table = 1..7
    BY <2>1
  <2>3. ASSUME NEW k \in 1..7 PROVE ClauseSound("power", K!Commands["power"].table[k])
    BY <2>1, SMTT(60) DEF ClauseSound, K!Bindings
  <2> QED BY <2>2, <2>3 DEF ClausesSound
<1>2. ClausesSound("io")
  <2>1. K!Commands["io"].table = <<
        <<"WaveshareModbusTCPCoil", <<"WaveShareModbusCoilDriver">>>>,
        <<"ModbusTCPCoil", <<"ModbusCoilDriver">>>>,
        <<"Eth008DigitalOutput", <<"Eth008DigitalOutputDriver">>>>, <<"OneWirePIO", <<"OneWirePIODriver">>>>,
        <<"HttpDigitalOutput", <<"HttpDigitalOutputDriver">>>>,
        <<"NetworkDeditecRelais8", <<"DeditecRelaisDriver">>>>,
        <<"NetworkSysfsGPIO", <<"GpioDigitalOutputDriver">>>>, <<"NetworkFTDIGPIO", <<"FTDIGPIODriver">>>>,
        <<"NetworkLXAIOBusPIO", <<"LXAIOBusPIODriver">>>>, <<"NetworkHIDRelay", <<"HIDRelayDriver">>>> >>
    BY DEF K!Commands, K!digital_io, K!Looks
  <2>2. DOMAIN K!Commands["io"].table = 1..10
    BY <2>1
  <2>3. ASSUME NEW k \in 1..10 PROVE ClauseSound("io", K!Commands["io"].table[k])
    BY <2>1, SMTT(60) DEF ClauseSound, K!Bindings
  <2>4. K!Commands["io"].table[1][1] = "WaveshareModbusTCPCoil"
    BY <2>1
  <2> QED BY <2>2, <2>3, <2>4 DEF ClausesSound
<1>3. ClausesSound("bootstrap")
  <2>1. K!Commands["bootstrap"].table = <<
        <<"NetworkIMXUSBLoader", <<"IMXUSBDriver">>>>, <<"NetworkMXSUSBLoader", <<"MXSUSBDriver">>>>,
        <<"NetworkAlteraUSBBlaster", <<"OpenOCDDriver">>>>, <<"NetworkUSBDebugger", <<"OpenOCDDriver">>>>,
        <<"NetworkRKUSBLoader", <<"RKUSBDriver">>>> >>
    BY DEF K!Commands, K!bootstrap, K!Looks
  <2>2. DOMAIN K!Commands["bootstrap"].table = 1..5
    BY <2>1
  <2>3. ASSUME NEW k \in 1..5 PROVE ClauseSound("bootstrap", K!Commands["bootstrap"].table[k])
    BY <2>1, SMTT(60) DEF ClauseSound, K!Bindings
  <2> QED BY <2>2, <2>3 DEF ClausesSound
<1>4. ClausesSound("sd_mux")
  <2>1. K!Commands["sd_mux"].table = <<
        <<"NetworkUSBSDMuxDevice", <<"USBSDMuxDriver">>>>, <<"NetworkUSBSDWireDevice", <<"USBSDWireDriver">>>>,
        <<"NetworkUSBSDWire3Device", <<"USBSDWire3Driver">>>> >>
    BY DEF K!Commands, K!sd_mux, K!Looks
  <2>2. DOMAIN K!Commands["sd_mux"].table = 1..3
    BY <2>1
  <2>3. ASSUME NEW k \in 1..3 PROVE ClauseSound("sd_mux", K!Commands["sd_mux"].table[k])
    BY <2>1, SMTT(60) DEF ClauseSound, K!Bindings
  <2> QED BY <2>2, <2>3 DEF ClausesSound
<1>5. ClausesSound("usb_mux")
  <2>1. K!Commands["usb_mux"].table = <<
        <<"NetworkLXAUSBMux", <<"LXAUSBMuxDriver">>>> >>
    BY DEF K!Commands, K!usb_mux, K!Looks
  <2>2. DOMAIN K!Commands["usb_mux"].table = 1..1
    BY <2>1
  <2>3. ASSUME NEW k \in 1..1 PROVE ClauseSound("usb_mux", K!Commands["usb_mux"].table[k])
    BY <2>1, SMTT(60) DEF ClauseSound, K!Bindings
  <2> QED BY <2>2, <2>3 DEF ClausesSound
<1>6. ClausesSound("video")
  <2>1. K!Commands["video"].table = <<
        <<"USBVideo", <<"USBVideoDriver">>>>, <<"NetworkUSBVideo", <<"USBVideoDriver">>>>,
        <<"HTTPVideoStream", <<"HTTPVideoDriver">>>> >>
    BY DEF K!Commands, K!video, K!Looks
  <2>2. DOMAIN K!Commands["video"].table = 1..3
    BY <2>1
  <2>3. ASSUME NEW k \in 1..3 PROVE ClauseSound("video", K!Commands["video"].table[k])
    BY <2>1, SMTT(60) DEF ClauseSound, K!Bindings
  <2> QED BY <2>2, <2>3 DEF ClausesSound
<1>7. ASSUME NEW c \in {"dfu", "fastboot", "flashscript", "audio", "netns", "tmc", "write_files", "write_image", "ssh"}
      PROVE  /\ ~K!Scans(c)
             /\ K!Direct(c) \in DOMAIN K!Bindings \ {"DigitalOutputPowerDriver", "ModbusCoilDriver"}
  BY <1>7, BindingsFit DEF K!Scans, K!Direct, K!Commands, K!Directly, K!dfu, K!fastboot, K!flashscript, K!audio, K!netns, K!tmc,
     K!write_files, K!write_image
<1>8. ASSUME NEW c \in {"power", "io", "bootstrap", "sd_mux", "usb_mux", "video"} PROVE K!Scans(c) /\ ClausesSound(c)
  <2>1. K!Scans(c)
    BY <1>8 DEF K!Scans, K!Commands, K!Looks, K!power, K!digital_io, K!bootstrap, K!sd_mux, K!usb_mux, K!video
  <2> QED BY <1>1, <1>2, <1>3, <1>4, <1>5, <1>6, <2>1
<1> QED BY <1>7, <1>8, CommandNames
\* What a sequence is after something was added to it.
LEMMA AppendAt ==
    ASSUME NEW X, NEW s \in Seq(X), NEW m \in X
    PROVE  /\ Append(s, m) \in Seq(X) /\ Len(s) \in Nat /\ Len(Append(s, m)) = Len(s) + 1
           /\ DOMAIN s = 1..Len(s) /\ DOMAIN Append(s, m) = 1..Len(s) + 1
           /\ Append(s, m)[Len(s) + 1] = m
           /\ \A i \in 1..Len(s) : Append(s, m)[i] = s[i]
           /\ s = <<>> => Append(s, m) = <<m>>
<1>1. /\ Append(s, m) \in Seq(X) /\ Len(s) \in Nat /\ Len(Append(s, m)) = Len(s) + 1
      /\ DOMAIN s = 1..Len(s) /\ Append(s, m)[Len(s) + 1] = m
  OBVIOUS
<1>2. DOMAIN Append(s, m) = 1..Len(s) + 1
  BY <1>1
<1>3. \A i \in 1..Len(s) : Append(s, m)[i] = s[i]
  OBVIOUS
<1>4. s = <<>> => Append(s, m) = <<m>>
  OBVIOUS
<1> QED BY <1>1, <1>2, <1>3, <1>4

\* No two drivers of one class and name.
NamedApart(drvs) == \A i, j \in DOMAIN drvs :
    (drvs[i].cls = drvs[j].cls /\ drvs[i].name = drvs[j].name /\ drvs[i].name # K!Unnamed) => i = j

\* The drivers of a target whose resources are res.
Sensible(res, drvs) ==
    /\ drvs \in Seq(K!DriverRecords) /\ NamedApart(drvs)
    /\ \A i \in DOMAIN drvs : K!Supplied(res, drvs, i)

\* What comes back from looking for a driver and making one.
Provided(res, classes, name, r) ==
    /\ Sensible(res, r.drivers)
    /\ r.end = "ok" => r.driver # 0
    /\ r.driver # 0 => /\ r.end = "ok" /\ r.driver \in DOMAIN r.drivers
                       /\ r.drivers[r.driver].cls \in classes
                       /\ name # K!Unnamed => r.drivers[r.driver].name = name

\* A resource that a driver finds is one that it is meant for.
LEMMA MeantSupplier ==
    ASSUME NEW res \in Seq(K!ResourceRecords), NEW driver \in DOMAIN K!Bindings, NEW name,
           NEW class \in K!Bindings[driver], NEW k, k = K!get_resource(res, class, name), k # 0,
           driver = "ModbusCoilDriver" => \E m \in DOMAIN res : res[m].cls = "ModbusTCPCoil" /\ (name = K!Unnamed \/ res[m].name = name)
    PROVE  k \in DOMAIN res /\ k \in Nat /\ K!MeantFor(driver, res[k]) /\ (name # K!Unnamed => res[k].name = name)
<1>1. /\ k \in DOMAIN res /\ k \in Nat /\ K!IsA(res[k].cls, class)
      /\ name # K!Unnamed => res[k].name = name
      /\ \/ res[k].name = "default"
         \/ \A i \in DOMAIN res : K!IsA(res[i].cls, class) /\ (name = K!Unnamed \/ res[i].name = name) => i = k
  BY ResourceFound
<1>2. ASSUME res[k].cls = class \/ res[k].name = "default" \/ res[k].cls = "NetworkAndroidFastboot"
      PROVE  K!MeantFor(driver, res[k])
  BY <1>2 DEF K!MeantFor
<1>3. ASSUME res[k].cls # class, res[k].name # "default", res[k].cls # "NetworkAndroidFastboot"
      PROVE  K!MeantFor(driver, res[k])
  <2>1. res[k].cls = "WaveshareModbusTCPCoil" /\ class = "ModbusTCPCoil"
    BY <1>1, <1>3 DEF K!IsA, K!Super
  <2>2. driver = "ModbusCoilDriver"
    BY <2>1, BindingsFit
  <2>3. PICK m \in DOMAIN res : res[m].cls = "ModbusTCPCoil" /\ (name = K!Unnamed \/ res[m].name = name)
    BY <2>2
  <2>4. m = k
    BY <1>1, <1>3, <2>1, <2>3 DEF K!IsA
  <2> QED BY <2>1, <2>3, <2>4
<1> QED BY <1>1, <1>2, <1>3

NewTo(drvs, d) == \A i \in DOMAIN drvs : d.cls = drvs[i].cls /\ d.name = drvs[i].name => d.name = K!Unnamed

\* The supplier of a driver is another one's output, or a resource.
SuppliedByDriver(drvs, d) ==
    /\ d.supplier[1] = "driver" /\ d.supplier[2] \in DOMAIN drvs /\ drvs[d.supplier[2]].cls \in K!Outputs
    /\ d.name # K!Unnamed => drvs[d.supplier[2]].name = d.name
SuppliedByResource(res, d) ==
    /\ d.supplier[1] = "resource" /\ d.supplier[2] \in DOMAIN res /\ K!MeantFor(d.cls, res[d.supplier[2]])
    /\ (d.name # K!Unnamed /\ d.cls # "OpenOCDDriver") => res[d.supplier[2]].name = d.name

\* A driver that can be added to a list, and the list with it.
Addable(res, drvs, d) ==
    /\ d \in K!DriverRecords /\ NewTo(drvs, d)
    /\ IF d.cls = "DigitalOutputPowerDriver" THEN SuppliedByDriver(drvs, d) ELSE SuppliedByResource(res, d)
Added(res, drvs, d, new) ==
    Sensible(res, new) /\ Len(drvs) + 1 \in DOMAIN new /\ Len(drvs) + 1 # 0 /\ new[Len(drvs) + 1] = d

\* One driver more leaves the others what they are.
LEMMA DriverAdded ==
    ASSUME NEW res \in Seq(K!ResourceRecords), NEW drvs, Sensible(res, drvs), NEW d, Addable(res, drvs, d)
    PROVE  Added(res, drvs, d, Append(drvs, d))
<1> DEFINE new == Append(drvs, d)
<1>0. /\ d \in K!DriverRecords /\ NewTo(drvs, d)
      /\ IF d.cls = "DigitalOutputPowerDriver" THEN SuppliedByDriver(drvs, d) ELSE SuppliedByResource(res, d)
  BY DEF Addable
<1>1. drvs \in Seq(K!DriverRecords) /\ NamedApart(drvs) /\ \A i \in DOMAIN drvs : K!Supplied(res, drvs, i)
  BY DEF Sensible
<1>2. /\ new \in Seq(K!DriverRecords) /\ Len(drvs) \in Nat /\ DOMAIN drvs = 1..Len(drvs) /\ DOMAIN new = 1..Len(drvs) + 1
      /\ new[Len(drvs) + 1] = d /\ \A i \in 1..Len(drvs) : new[i] = drvs[i]
  BY <1>0, <1>1, AppendAt
<1> HIDE DEF new
<1>3. \A i \in DOMAIN drvs : i \in DOMAIN new /\ new[i] = drvs[i]
  BY <1>2
<1>4. \A i \in DOMAIN new : i \in DOMAIN drvs \/ i = Len(drvs) + 1
  BY <1>2
<1>5. NamedApart(new)
  <2> SUFFICES ASSUME NEW i \in DOMAIN new, NEW j \in DOMAIN new, new[i].cls = new[j].cls, new[i].name = new[j].name,
                      new[i].name # K!Unnamed
               PROVE  i = j
    BY DEF NamedApart
  <2>1. CASE i \in DOMAIN drvs /\ j \in DOMAIN drvs
    BY <1>1, <1>3, <2>1 DEF NamedApart
  <2>2. CASE i = Len(drvs) + 1 /\ j \in DOMAIN drvs
    BY <1>0, <1>2, <1>3, <2>2 DEF NewTo
  <2>3. CASE i \in DOMAIN drvs /\ j = Len(drvs) + 1
    BY <1>0, <1>2, <1>3, <2>3 DEF NewTo
  <2> QED BY <1>4, <2>1, <2>2, <2>3
<1>6. ASSUME NEW i \in DOMAIN drvs PROVE K!Supplied(res, new, i)
  <2>1. K!Supplied(res, drvs, i) /\ new[i] = drvs[i]
    BY <1>1, <1>3
  <2>2. CASE drvs[i].cls = "DigitalOutputPowerDriver"
    <3>1. drvs[i].supplier[2] \in DOMAIN new /\ new[drvs[i].supplier[2]] = drvs[drvs[i].supplier[2]]
      BY <1>3, <2>1, <2>2 DEF K!Supplied
    <3> QED BY <2>1, <2>2, <3>1 DEF K!Supplied
  <2>3. CASE drvs[i].cls # "DigitalOutputPowerDriver"
    BY <2>1, <2>3 DEF K!Supplied
  <2> QED BY <2>2, <2>3
<1>7. K!Supplied(res, new, Len(drvs) + 1)
  BY <1>0, <1>2, <1>3 DEF K!Supplied, SuppliedByDriver, SuppliedByResource
<1>8. Sensible(res, new)
  BY <1>2, <1>4, <1>5, <1>6, <1>7 DEF Sensible
<1> QED BY <1>2, <1>8 DEF Added, new

\* _get_driver_or_new returns a driver of the class and name, or an error.
LEMMA GetOrNew ==
    ASSUME NEW res \in Seq(K!ResourceRecords), NEW drvs, Sensible(res, drvs),
           NEW driver \in DOMAIN K!Bindings, NEW name \in Names \cup {K!Unnamed},
           driver = "ModbusCoilDriver" => \E m \in DOMAIN res : res[m].cls = "ModbusTCPCoil" /\ (name = K!Unnamed \/ res[m].name = name)
    PROVE  Provided(res, {driver}, name, K!_get_driver_or_new(res, drvs, driver, name))
<1>1. PICK r, known, to, suppliers :
        /\ r = K!_get_driver_or_new(res, drvs, driver, name) /\ known = K!get_driver(drvs, {driver}, name)
        /\ to = (IF driver = "OpenOCDDriver" THEN K!Unnamed ELSE name) /\ suppliers = K!Suppliers(res, drvs, driver, to)
  OBVIOUS
<1>2. \/ known # 0 /\ r = [drivers |-> drvs, driver |-> known, end |-> "ok"]
      \/ \E end \in {"exception", "no_driver", "no_resource"} : r = [drivers |-> drvs, driver |-> 0, end |-> end]
      \/ \E one \in suppliers : known = 0 /\ r = [drivers |-> Append(drvs, [cls |-> driver, name |-> name, supplier |-> one]),
                                                  driver |-> Len(drvs) + 1, end |-> "ok"]
  <2>1. K!Cardinality({}) # 1
    BY OnlyOne
  <2>2. ASSUME K!Cardinality(suppliers) = 1 PROVE suppliers # {}
    BY <2>1, <2>2
  <2>3. suppliers # {} => (CHOOSE s \in suppliers : TRUE) \in suppliers
    OBVIOUS
  <2> QED BY <1>1, <2>2, <2>3 DEF K!_get_driver_or_new, K!Unbound
<1>3. drvs \in Seq(K!DriverRecords) /\ NamedApart(drvs)
  BY DEF Sensible
<1>4. known # 0 => known \in DOMAIN drvs /\ FoundBy(drvs[known], {driver}, name)
  BY <1>1, <1>3, DriverFound
<1>5. CASE known # 0 /\ r = [drivers |-> drvs, driver |-> known, end |-> "ok"]
  BY <1>1, <1>4, <1>5 DEF Provided, FoundBy
<1>6. CASE \E end \in {"exception", "no_driver", "no_resource"} : r = [drivers |-> drvs, driver |-> 0, end |-> end]
  BY <1>1, <1>6 DEF Provided
<1>7. ASSUME NEW one \in suppliers, known = 0,
             r = [drivers |-> Append(drvs, [cls |-> driver, name |-> name, supplier |-> one]), driver |-> Len(drvs) + 1, end |-> "ok"]
      PROVE  Provided(res, {driver}, name, r)
  <2>1. ASSUME NEW i \in DOMAIN drvs, driver = drvs[i].cls, name = drvs[i].name, name # K!Unnamed PROVE FALSE
    <3>1. \A j \in DOMAIN drvs : FoundBy(drvs[j], {driver}, name) => i = j
      BY <1>3, <2>1 DEF NamedApart, FoundBy
    <3>2. FoundBy(drvs[i], {driver}, name)
      BY <2>1 DEF FoundBy
    <3>3. i # 0
      BY <1>3
    <3>4. known = i
      BY <1>1, <1>3, <3>1, <3>2, DriverAlone
    <3> QED BY <1>7, <3>3, <3>4
  <2>2. PICK d, new : d = [cls |-> driver, name |-> name, supplier |-> one] /\ new = Append(drvs, d)
    OBVIOUS
  <2>3. new = Append(drvs, d)
    BY <2>2
  <2>4. /\ d.cls = driver /\ d.name = name /\ d.supplier = one
        /\ r.drivers = new /\ r.driver = Len(drvs) + 1 /\ r.end = "ok"
    BY <1>7, <2>2
  <2>5. ASSUME Addable(res, drvs, d) PROVE Provided(res, {driver}, name, r)
    <3>1. Added(res, drvs, d, new)
      BY <2>3, <2>5, DriverAdded
    <3> QED BY <2>4, <3>1 DEF Added, Provided
  <2>6. CASE driver = "DigitalOutputPowerDriver"
    <3>1. PICK j : j = K!get_driver(drvs, K!Outputs, name) /\ j # 0 /\ one = <<"driver", j>>
      BY <1>1, <1>7, <2>6 DEF K!Suppliers
    <3>2. j \in DOMAIN drvs /\ j \in Nat /\ FoundBy(drvs[j], K!Outputs, name)
      BY <1>3, <3>1, DriverFound
    <3>3. d \in K!DriverRecords /\ one[1] = "driver" /\ one[2] = j
      BY <2>2, <3>1, <3>2 DEF K!DriverRecords
    <3>4. NewTo(drvs, d)
      BY <2>1, <2>4 DEF NewTo
    <3>5. d.cls = "DigitalOutputPowerDriver" /\ SuppliedByDriver(drvs, d)
      BY <2>4, <2>6, <3>2, <3>3 DEF FoundBy, SuppliedByDriver
    <3> QED BY <2>5, <3>3, <3>4, <3>5 DEF Addable
  <2>7. CASE driver # "DigitalOutputPowerDriver"
    <3>1. PICK class \in K!Bindings[driver] : \E j : j = K!get_resource(res, class, to) /\ j # 0 /\ one = <<"resource", j>>
      BY <1>1, <1>7, <2>7 DEF K!Suppliers
    <3>2. PICK k : k = K!get_resource(res, class, to) /\ k # 0 /\ one = <<"resource", k>>
      BY <3>1
    <3>3. driver = "ModbusCoilDriver" => \E m \in DOMAIN res : res[m].cls = "ModbusTCPCoil" /\ (to = K!Unnamed \/ res[m].name = to)
      BY <1>1
    <3>4. k \in DOMAIN res /\ k \in Nat /\ K!MeantFor(driver, res[k]) /\ (to # K!Unnamed => res[k].name = to)
      BY <3>2, <3>3, MeantSupplier
    <3>5. d \in K!DriverRecords /\ one[1] = "resource" /\ one[2] = k
      BY <2>2, <3>2, <3>4 DEF K!DriverRecords
    <3>6. NewTo(drvs, d)
      BY <2>1, <2>4 DEF NewTo
    <3>7. d.cls # "DigitalOutputPowerDriver" /\ SuppliedByResource(res, d)
      BY <1>1, <2>4, <2>7, <3>4, <3>5 DEF SuppliedByResource
    <3> QED BY <2>5, <3>5, <3>6, <3>7 DEF Addable
  <2> QED BY <2>6, <2>7
<1> QED BY <1>1, <1>2, <1>5, <1>6, <1>7

\* The only resource that fits is found, whether it is named or not.
LEMMA ResourceAlone ==
    ASSUME NEW X, NEW res \in Seq(X), NEW class, NEW name, NEW i \in DOMAIN res,
           K!IsA(res[i].cls, class), name = K!Unnamed \/ res[i].name = name,
           \A j \in DOMAIN res : K!IsA(res[j].cls, class) => j = i
    PROVE  K!get_resource(res, class, name) = i
<1> DEFINE of == {j \in DOMAIN res : K!IsA(res[j].cls, class)}
           found == {j \in of : name = K!Unnamed \/ res[j].name = name}
           default == {j \in of : res[j].name = "default"}
           picked == IF name = K!Unnamed /\ default # {} /\ K!Cardinality(found) # 1 THEN {K!Max(default)} ELSE found
<1>1. K!get_resource(res, class, name) = IF K!Cardinality(picked) = 1 THEN K!Max(picked) ELSE 0
  BY DEF K!get_resource
<1>2. found = {i} /\ i \in Nat
  OBVIOUS
<1> HIDE DEF found, default
<1>3. K!Cardinality(found) = 1 /\ K!Max(found) = i
  BY <1>2, OnlyOne
<1>4. picked = found
  BY <1>3
<1> QED BY <1>1, <1>3, <1>4

\* The clause of a command that is used for a class is the first that fits it.
LEMMA ClauseChosen ==
    ASSUME NEW c \in DOMAIN K!Commands, K!Scans(c), NEW class, NEW k, k = K!Clause(c, class)
    PROVE  /\ k # 0 => /\ k \in DOMAIN K!Commands[c].table /\ K!IsA(class, K!Commands[c].table[k][1])
                       /\ \A j \in DOMAIN K!Commands[c].table : K!IsA(class, K!Commands[c].table[j][1]) => k =< j
           /\ \A j \in DOMAIN K!Commands[c].table : K!IsA(class, K!Commands[c].table[j][1]) => k # 0
<1> DEFINE some == {j \in DOMAIN K!Commands[c].table : K!IsA(class, K!Commands[c].table[j][1])}
<1>1. k = IF some = {} THEN 0 ELSE K!Min(some)
  BY DEF K!Clause
<1>2. some \subseteq Nat \ {0}
  BY TablesSound DEF ClausesSound
<1>3. some # {} => K!Min(some) \in some /\ \A y \in some : K!Min(some) =< y
  BY <1>2, LeastOf
<1> HIDE DEF some
<1>4. some # {} => k \in some /\ k # 0 /\ \A y \in some : k =< y
  BY <1>1, <1>2, <1>3
<1> QED BY <1>1, <1>4 DEF some

\* The resource m and the clause k are what a command works with; made is what it makes.
Chosen(c, name, m, k, made) ==
    /\ m \in DOMAIN s2 /\ (name = K!Unnamed \/ s2[m].name = name)
    /\ k \in DOMAIN K!Commands[c].table /\ K!IsA(s2[m].cls, K!Commands[c].table[k][1])
    /\ made[1] \in DOMAIN K!Bindings /\ K!Commands[c].table[k][1] \in K!Bindings[made[1]]
    /\ made[1] # "DigitalOutputPowerDriver"
    /\ Len(made) = 1 \/ (Len(made) = 2 /\ made[1] = "GpioDigitalOutputDriver" /\ made[2] = "DigitalOutputPowerDriver")
    /\ made[1] = "FTDIGPIODriver" => K!Commands[c].table[k][1] = "NetworkFTDIGPIO"
    /\ made[1] = "ModbusCoilDriver" => s2[m].cls = "ModbusTCPCoil"

\* The first usable resource, and the clause of the command for it.
LEMMA FirstUsable ==
    ASSUME NEW c \in DOMAIN K!Commands, K!Scans(c), s2 \in Seq(K!ResourceRecords), NEW name, K!Usable(c, name) # {},
           NEW m, m = K!Min(K!Usable(c, name)), NEW k, k = K!Clause(c, s2[m].cls), NEW made, made = K!Commands[c].table[k][2]
    PROVE  Chosen(c, name, m, k, made)
<1>1. K!Usable(c, name) \subseteq DOMAIN s2 /\ DOMAIN s2 \subseteq Nat
  <2>1. DOMAIN s2 \subseteq Nat
    OBVIOUS
  <2> QED BY <2>1, Zenon DEF K!Usable
<1>2. m \in K!Usable(c, name)
  BY <1>1, LeastOf
<1>3. m \in DOMAIN s2 /\ (name = K!Unnamed \/ s2[m].name = name) /\ k # 0
  BY <1>2 DEF K!Usable
<1>4. /\ k \in DOMAIN K!Commands[c].table /\ K!IsA(s2[m].cls, K!Commands[c].table[k][1])
      /\ \A j \in DOMAIN K!Commands[c].table : K!IsA(s2[m].cls, K!Commands[c].table[j][1]) => k =< j
  BY <1>3, ClauseChosen
<1>5. ClausesSound(c)
  BY TablesSound
<1>6. ClauseSound(c, K!Commands[c].table[k])
  BY <1>4, <1>5 DEF ClausesSound
<1>7. ASSUME made[1] = "ModbusCoilDriver" PROVE s2[m].cls = "ModbusTCPCoil"
  <2>1. c = "io" /\ K!Commands[c].table[k][1] = "ModbusTCPCoil"
    BY <1>6, <1>7 DEF ClauseSound
  <2>2. 1 \in DOMAIN K!Commands[c].table /\ K!Commands[c].table[1][1] = "WaveshareModbusTCPCoil"
    BY <1>5, <2>1 DEF ClausesSound
  <2>3. k \in Nat \ {0} /\ k # 1
    BY <1>4, <1>5, <2>1, <2>2 DEF ClausesSound
  <2>4. ~K!IsA(s2[m].cls, "WaveshareModbusTCPCoil")
    BY <1>4, <2>2, <2>3
  <2> QED BY <1>4, <2>1, <2>4 DEF K!IsA, K!Super
<1>8. /\ made[1] \in DOMAIN K!Bindings /\ K!Commands[c].table[k][1] \in K!Bindings[made[1]]
      /\ made[1] # "DigitalOutputPowerDriver"
      /\ Len(made) = 1 \/ (Len(made) = 2 /\ made[1] = "GpioDigitalOutputDriver" /\ made[2] = "DigitalOutputPowerDriver")
      /\ made[1] = "FTDIGPIODriver" => K!Commands[c].table[k][1] = "NetworkFTDIGPIO"
  BY <1>6 DEF ClauseSound
<1> QED BY <1>3, <1>4, <1>7, <1>8 DEF Chosen

\* A command that scans for resources has the driver it looked for.
LEMMA ScanProvides ==
    ASSUME s1 \in DOMAIN K!Commands, K!Scans(s1), s2 \in Seq(K!ResourceRecords), Sensible(s2, s3), NEW name \in Names \cup {K!Unnamed},
           NEW r, r = K!Found(name)
    PROVE  Provided(s2, DOMAIN K!Bindings, name, r)
<1>1. PICK known : known = K!get_driver(s3, K!Commands[s1].protocol, name)
  OBVIOUS
<1>2. s3 \in Seq(K!DriverRecords)
  BY DEF Sensible
<1>3. CASE known # 0
  <2>1. r = [drivers |-> s3, driver |-> known, end |-> "ok"]
    BY <1>1, <1>3 DEF K!Found
  <2>2. known \in DOMAIN s3 /\ FoundBy(s3[known], K!Commands[s1].protocol, name)
    BY <1>1, <1>2, <1>3, DriverFound
  <2>4. s3[known] \in K!DriverRecords
    BY <1>2, <2>2
  <2>3. s3[known].cls \in DOMAIN K!Bindings
    BY <2>4 DEF K!DriverRecords
  <2> QED BY <1>3, <2>1, <2>2, <2>3 DEF Provided, FoundBy
<1>4. CASE known = 0 /\ K!Usable(s1, name) = {}
  <2>1. r = [drivers |-> s3, driver |-> 0, end |-> "user_error"]
    BY <1>1, <1>4 DEF K!Found
  <2> QED BY <2>1 DEF Provided
<1>5. CASE known = 0 /\ K!Usable(s1, name) # {}
  <2>1. PICK m, k, made : m = K!Min(K!Usable(s1, name)) /\ k = K!Clause(s1, s2[m].cls) /\ made = K!Commands[s1].table[k][2]
    OBVIOUS
  <2>2. r = K!Both(s2, s3, made, name)
    BY <1>1, <1>5, <2>1 DEF K!Found
  <2>3. /\ m \in DOMAIN s2 /\ (name = K!Unnamed \/ s2[m].name = name) /\ made[1] \in DOMAIN K!Bindings
        /\ Len(made) = 1 \/ (Len(made) = 2 /\ made[2] = "DigitalOutputPowerDriver")
        /\ made[1] = "ModbusCoilDriver" => s2[m].cls = "ModbusTCPCoil"
    <3>1. Chosen(s1, name, m, k, made)
      BY <1>5, <2>1, FirstUsable
    <3> QED BY <3>1 DEF Chosen
  <2>4. PICK first : first = K!_get_driver_or_new(s2, s3, made[1], name)
    OBVIOUS
  <2>5. Provided(s2, {made[1]}, name, first)
    BY <2>3, <2>4, GetOrNew
  <2>6. CASE Len(made) = 1 \/ first.end # "ok"
    <3>1. r = first
      BY <2>2, <2>4, <2>6 DEF K!Both
    <3> QED BY <2>3, <2>5, <3>1 DEF Provided
  <2>7. CASE ~(Len(made) = 1 \/ first.end # "ok")
    <3>1. r = K!_get_driver_or_new(s2, first.drivers, "DigitalOutputPowerDriver", name)
      BY <2>2, <2>3, <2>4, <2>7 DEF K!Both
    <3>2. "DigitalOutputPowerDriver" \in DOMAIN K!Bindings
      BY BindingsFit
    <3>3. Sensible(s2, first.drivers)
      BY <2>5 DEF Provided
    <3>4. Provided(s2, {"DigitalOutputPowerDriver"}, name, r)
      BY <3>1, <3>2, <3>3, GetOrNew
    <3> QED BY <3>2, <3>4 DEF Provided
  <2> QED BY <2>6, <2>7
<1> QED BY <1>3, <1>4, <1>5

\* Where nothing was made before, the one usable resource is enough.
LEMMA OneUsed ==
    ASSUME s1 \in DOMAIN K!Commands, K!Scans(s1), s2 \in Seq(K!ResourceRecords), s3 = <<>>, NEW name \in Names \cup {K!Unnamed},
           NEW u, K!Usable(s1, K!Unnamed) = {u}, K!Usable(s1, name) # {}, name # K!Unnamed => s2[u].cls # "NetworkFTDIGPIO",
           NEW r, r = K!Found(name)
    PROVE  r.driver # 0
<1>1. PICK known, m, k, made :
        /\ known = K!get_driver(s3, K!Commands[s1].protocol, name)
        /\ m = K!Min(K!Usable(s1, name)) /\ k = K!Clause(s1, s2[m].cls) /\ made = K!Commands[s1].table[k][2]
  OBVIOUS
<1>2. CASE known # 0
  BY <1>1, <1>2 DEF K!Found
<1>3. CASE known = 0
  <2> DEFINE t == K!Commands[s1].table[k][1]
  <2>1. r = K!Both(s2, s3, made, name)
    BY <1>1, <1>3 DEF K!Found
  <2>2. /\ m \in DOMAIN s2 /\ (name = K!Unnamed \/ s2[m].name = name)
        /\ k \in DOMAIN K!Commands[s1].table /\ K!IsA(s2[m].cls, t)
        /\ made[1] \in DOMAIN K!Bindings /\ t \in K!Bindings[made[1]] /\ made[1] # "DigitalOutputPowerDriver"
        /\ Len(made) = 1 \/ (Len(made) = 2 /\ made[1] = "GpioDigitalOutputDriver" /\ made[2] = "DigitalOutputPowerDriver")
        /\ made[1] = "FTDIGPIODriver" => t = "NetworkFTDIGPIO"
    <3>1. K!Usable(s1, name) # {} /\ m = K!Min(K!Usable(s1, name)) /\ k = K!Clause(s1, s2[m].cls)
          /\ made = K!Commands[s1].table[k][2]
      BY <1>1
    <3>2. Chosen(s1, name, m, k, made)
      BY <3>1, FirstUsable
    <3> QED BY <3>2 DEF Chosen
  <2>3. ASSUME NEW j \in DOMAIN s2 PROVE j = u
    <3>1. s2[j] \in K!ResourceRecords
      BY <2>3
    <3>2. s2[j].cls \in K!Relevant(s1)
      BY <3>1 DEF K!ResourceRecords
    <3>3. K!Relevant(s1) = {K!Commands[s1].table[i][1] : i \in DOMAIN K!Commands[s1].table}
      BY TablesSound DEF K!Relevant
    <3>4. PICK i \in DOMAIN K!Commands[s1].table : s2[j].cls = K!Commands[s1].table[i][1]
      BY <3>2, <3>3
    <3>5. K!Clause(s1, s2[j].cls) # 0
      BY <3>4, ClauseChosen DEF K!IsA
    <3>6. j \in K!Usable(s1, K!Unnamed)
      BY <3>5 DEF K!Usable
    <3> QED BY <3>6
  <2>4. m = u
    BY <2>2, <2>3
  <2>5. PICK first, to, suppliers :
          /\ first = K!_get_driver_or_new(s2, s3, made[1], name)
          /\ to = (IF made[1] = "OpenOCDDriver" THEN K!Unnamed ELSE name)
          /\ suppliers = K!Suppliers(s2, s3, made[1], to)
    OBVIOUS
  <2> HIDE DEF t
  <2>6. ~(made[1] \in K!Twofold /\ name # K!Unnamed)
    BY <2>2, <2>4 DEF K!Twofold, K!IsA, K!Super
  <2>7. K!get_resource(s2, t, to) = u /\ u # 0
    <3>1. u \in DOMAIN s2 /\ (to = K!Unnamed \/ s2[u].name = to) /\ K!IsA(s2[u].cls, t)
      BY <2>2, <2>4, <2>5
    <3>2. \A j \in DOMAIN s2 : K!IsA(s2[j].cls, t) => j = u
      BY <2>3
    <3>3. u # 0
      BY <3>1
    <3> QED BY <3>1, <3>2, <3>3, ResourceAlone
  <2>8. ASSUME NEW class, K!get_resource(s2, class, to) # 0 PROVE K!get_resource(s2, class, to) = u
    <3>1. K!get_resource(s2, class, to) \in DOMAIN s2
      BY <2>8, ResourceFound
    <3> QED BY <2>3, <3>1
  <2>9. suppliers = {<<"resource", u>>}
    BY <2>2, <2>5, <2>7, <2>8 DEF K!Suppliers
  <2>10. K!Cardinality(suppliers) = 1
    BY <2>9, FS_Singleton, CardinalityK
  <2>11. K!get_driver(s3, {made[1]}, name) = 0
    <3>1. s3 \in Seq(K!DriverRecords) /\ DOMAIN s3 = {}
      OBVIOUS
    <3> QED BY <3>1, DriverFound
  <2>12. PICK g : /\ g.cls = made[1] /\ g.name = name
                  /\ first = [drivers |-> Append(s3, g), driver |-> Len(s3) + 1, end |-> "ok"]
    <3>1. PICK g : g = [cls |-> made[1], name |-> name, supplier |-> CHOOSE s \in suppliers : TRUE]
      OBVIOUS
    <3>2. first = [drivers |-> Append(s3, g), driver |-> Len(s3) + 1, end |-> "ok"]
      BY <2>5, <2>6, <2>10, <2>11, <3>1 DEF K!_get_driver_or_new
    <3>3. g.cls = made[1] /\ g.name = name
      BY <3>1
    <3> QED BY <3>2, <3>3
  <2>13. first.drivers = <<g>> /\ first.driver # 0 /\ first.end = "ok"
    BY <2>12
  <2>14. CASE Len(made) = 1
    BY <2>1, <2>5, <2>13, <2>14 DEF K!Both
  <2>15. CASE Len(made) = 2 /\ made[1] = "GpioDigitalOutputDriver" /\ made[2] = "DigitalOutputPowerDriver"
    <3>1. r = K!_get_driver_or_new(s2, <<g>>, "DigitalOutputPowerDriver", name)
      BY <2>1, <2>5, <2>13, <2>15 DEF K!Both
    <3>2. K!get_driver(<<g>>, K!Outputs, name) = 1
      <4>1. <<g>> \in Seq({g}) /\ DOMAIN <<g>> = {1} /\ <<g>>[1] = g
        OBVIOUS
      <4>2. FoundBy(g, K!Outputs, name)
        BY <2>12, <2>15 DEF FoundBy, K!Outputs
      <4> QED BY <4>1, <4>2, DriverAlone
    <3>3. PICK more : more = K!Suppliers(s2, <<g>>, "DigitalOutputPowerDriver", name)
      OBVIOUS
    <3>4. more = {<<"driver", 1>>}
      BY <3>2, <3>3 DEF K!Suppliers
    <3>5. K!Cardinality(more) = 1
      BY <3>4, FS_Singleton, CardinalityK
    <3>6. Len(<<g>>) + 1 # 0
      OBVIOUS
    <3> QED BY <3>1, <3>3, <3>5, <3>6 DEF K!_get_driver_or_new, K!Twofold
  <2> QED BY <2>2, <2>14, <2>15
<1> QED BY <1>2, <1>3

\* What holds of a session's drivers after a command.
LEMMA CommandEnds ==
    ASSUME K!CommandsInv, NEW name \in Names \cup {K!Unnamed}, NEW r, K!Finish(r, name),
           s1' = s1, s4 < CommandCalls, s4' = s4 + 1, s2' \in Seq(K!ResourceRecords), Sensible(s2', r.drivers),
           r.driver # 0 => r.driver \in DOMAIN r.drivers,
           (r.driver # 0 /\ name # K!Unnamed /\ s1 # "ssh") => r.drivers[r.driver].name = name,
           K!OneIsEnough'
    PROVE  K!CommandsInv'
<1>1. s3' = r.drivers /\ s5'.name = name /\ s5'.driver = r.driver
  BY DEF K!Finish
<1>2. K!ResourceRecords' = K!ResourceRecords /\ K!DriverRecords' = K!DriverRecords
  BY DEF K!ResourceRecords, K!DriverRecords
<1>3. s3' \in Seq(K!DriverRecords) /\ K!NoDoubles' /\ \A i \in DOMAIN s3' : K!Supplied(s2, s3, i)'
  BY <1>1 DEF Sensible, NamedApart, K!NoDoubles, K!Supplied
<1>4. s1' \in DOMAIN K!Commands /\ s4' \in 0..CommandCalls /\ s4' # 0
  BY BoundAssumption DEF K!CommandsInv, K!TypeOK
<1>5. \A i \in DOMAIN s3' : s3'[i].cls \in DOMAIN K!Bindings
  <2>1. \A i \in DOMAIN s3' : s3'[i] \in K!DriverRecords
    BY <1>3
  <2> QED BY <2>1 DEF K!DriverRecords
<1>6. K!TypeOK'
  BY <1>4, <1>5 DEF K!TypeOK
<1>7. K!LastKnown'
  BY <1>1 DEF K!LastKnown, K!Used
<1> QED BY <1>2, <1>3, <1>4, <1>6, <1>7 DEF K!CommandsInv

\* The invariant says what the lemmas about lists of drivers ask for.
LEMMA SessionSensible ==
    ASSUME K!CommandsInv
    PROVE  /\ s1 \in DOMAIN K!Commands /\ s2 \in Seq(K!ResourceRecords) /\ s3 \in Seq(K!DriverRecords) /\ Sensible(s2, s3)
           /\ K!ResourceRecords' = [cls : K!Relevant(s1'), name : Names \cup {K!Unnamed}]
  BY DEF K!CommandsInv, K!TypeOK, Sensible, NamedApart, K!NoDoubles, K!ResourceRecords

\* A command that scans for resources.
LEMMA ScanStep ==
    ASSUME K!CommandsInv, NEW name \in Names \cup {K!Unnamed}, K!Scan(name)
    PROVE  K!CommandsInv'
<1>1. PICK r : r = K!Found(name)
  OBVIOUS
<1>2. /\ s4 < CommandCalls /\ K!Scans(s1) /\ K!Finish(r, name) /\ s4' = s4 + 1 /\ s1' = s1 /\ s2' = s2
  BY <1>1 DEF K!Scan
<1>3. s1 \in DOMAIN K!Commands /\ s2 \in Seq(K!ResourceRecords) /\ Sensible(s2, s3) /\ s4 \in Nat
  BY SessionSensible, BoundAssumption DEF K!CommandsInv, K!TypeOK
<1>4. Provided(s2, DOMAIN K!Bindings, name, r)
  BY <1>1, <1>2, <1>3, ScanProvides
<1>5. s3' = r.drivers /\ s5'.name = name /\ s5'.driver = r.driver
  BY <1>2 DEF K!Finish
<1>6. \A n : K!Usable(s1, n)' = K!Usable(s1, n)
  BY <1>2 DEF K!Usable
<1>7. ASSUME s4' = 1, K!Cardinality(K!Usable(s1, K!Unnamed)) = 1, r.driver = 0
      PROVE  name # K!Unnamed /\ (K!Usable(s1, name) = {} \/ \E i \in K!Usable(s1, name) : s2[i].cls = "NetworkFTDIGPIO")
  <2>1. s3 = <<>>
    BY <1>2, <1>3, <1>7 DEF K!CommandsInv
  <2>2. PICK u : K!Usable(s1, K!Unnamed) = {u}
    <3>1. K!Usable(s1, K!Unnamed) \in SUBSET (1..Len(s2)) /\ Len(s2) \in Nat
      BY <1>3 DEF K!Usable
    <3> QED BY <1>7, <3>1, OnlyOne
  <2>3. K!Usable(s1, name) \subseteq {u}
    BY <2>2 DEF K!Usable
  <2>4. ~(K!Usable(s1, name) # {} /\ (name # K!Unnamed => s2[u].cls # "NetworkFTDIGPIO"))
    BY <1>1, <1>2, <1>3, <1>7, <2>1, <2>2, OneUsed
  <2> QED BY <2>2, <2>3, <2>4
<1>8. K!OneIsEnough'
  <2>1. K!Usable(s1, K!Unnamed)' = K!Usable(s1, K!Unnamed) /\ K!Usable(s1, s5.name)' = K!Usable(s1, name)
    BY <1>2, <1>5 DEF K!Usable, K!Clause
  <2> QED BY <1>2, <1>5, <1>7, <2>1 DEF K!OneIsEnough
<1>9. s2' \in Seq(K!ResourceRecords) /\ Sensible(s2', r.drivers)
  BY <1>2, <1>3, <1>4 DEF Provided
<1>10. /\ r.driver # 0 => r.driver \in DOMAIN r.drivers
       /\ (r.driver # 0 /\ name # K!Unnamed /\ s1 # "ssh") => r.drivers[r.driver].name = name
  BY <1>4 DEF Provided
<1> QED BY <1>2, <1>8, <1>9, <1>10, CommandEnds

\* A command that knows the driver it needs.
LEMMA TakeStep ==
    ASSUME K!CommandsInv, NEW name \in Names \cup {K!Unnamed}, K!Take(name)
    PROVE  K!CommandsInv'
<1>1. PICK r : r = K!_get_driver_or_new(s2, s3, K!Direct(s1), name)
  OBVIOUS
<1>2. /\ s4 < CommandCalls /\ ~K!Scans(s1) /\ s1 # "ssh" /\ K!Finish(r, name) /\ s4' = s4 + 1 /\ s1' = s1 /\ s2' = s2
  BY <1>1 DEF K!Take
<1>3. s1 \in DOMAIN K!Commands /\ s2 \in Seq(K!ResourceRecords) /\ Sensible(s2, s3)
  BY SessionSensible
<1>4. K!Direct(s1) \in DOMAIN K!Bindings /\ K!Direct(s1) # "ModbusCoilDriver"
  BY <1>2, <1>3, TablesSound
<1>5. Provided(s2, {K!Direct(s1)}, name, r)
  BY <1>1, <1>3, <1>4, GetOrNew
<1>6. K!OneIsEnough'
  BY <1>2 DEF K!OneIsEnough
<1>7. /\ s2' \in Seq(K!ResourceRecords) /\ Sensible(s2', r.drivers)
      /\ r.driver # 0 => r.driver \in DOMAIN r.drivers
      /\ (r.driver # 0 /\ name # K!Unnamed /\ s1 # "ssh") => r.drivers[r.driver].name = name
  BY <1>2, <1>3, <1>5 DEF Provided
<1> QED BY <1>2, <1>6, <1>7, CommandEnds

\* A resource more leaves the drivers as they were.
LEMMA ResourceAdded ==
    ASSUME NEW res \in Seq(K!ResourceRecords), NEW drvs, Sensible(res, drvs), NEW x \in K!ResourceRecords
    PROVE  Append(res, x) \in Seq(K!ResourceRecords) /\ Sensible(Append(res, x), drvs)
<1>1. /\ Append(res, x) \in Seq(K!ResourceRecords)
      /\ \A k \in DOMAIN res : k \in DOMAIN Append(res, x) /\ Append(res, x)[k] = res[k]
  BY AppendAt
<1>2. \A i \in DOMAIN drvs : K!Supplied(Append(res, x), drvs, i)
  BY <1>1 DEF Sensible, K!Supplied
<1> QED BY <1>1, <1>2 DEF Sensible

\* ssh, with the service of the name or one that is made up.
LEMMA SshStep ==
    ASSUME K!CommandsInv, NEW name \in Names \cup {K!Unnamed}, K!Ssh(name)
    PROVE  K!CommandsInv'
<1>1. s1 = "ssh" /\ s4 < CommandCalls /\ s4' = s4 + 1 /\ s1' = s1
  BY DEF K!Ssh
<1>2. s1 \in DOMAIN K!Commands /\ s2 \in Seq(K!ResourceRecords) /\ s3 \in Seq(K!DriverRecords) /\ Sensible(s2, s3)
  BY SessionSensible
<1>3. "SSHDriver" \in DOMAIN K!Bindings /\ "SSHDriver" # "ModbusCoilDriver" /\ ~K!Scans("ssh")
  BY <1>1, <1>2, TablesSound, CommandNames, BindingsFit DEF K!Direct
<1>4. K!OneIsEnough'
  BY <1>1, <1>3 DEF K!OneIsEnough
<1>5. ASSUME NEW r, K!Finish(r, name), s2' \in Seq(K!ResourceRecords), Sensible(s2', r.drivers),
             r.driver # 0 => r.driver \in DOMAIN r.drivers
      PROVE  K!CommandsInv'
  BY <1>1, <1>4, <1>5, CommandEnds
<1>6. ASSUME NEW res \in Seq(K!ResourceRecords), Sensible(res, s3), s2' = res, NEW n \in Names \cup {K!Unnamed},
             NEW r, r = K!_get_driver_or_new(res, s3, "SSHDriver", n), K!Finish(r, name)
      PROVE  K!CommandsInv'
  <2>1. Provided(res, {"SSHDriver"}, n, r)
    BY <1>3, <1>6, GetOrNew
  <2>2. Sensible(s2', r.drivers) /\ (r.driver # 0 => r.driver \in DOMAIN r.drivers)
    BY <1>6, <2>1 DEF Provided
  <2> QED BY <1>5, <1>6, <2>2
<1>7. ASSUME NEW known, known = K!get_driver(s3, {"SSHDriver"}, name), known # 0, s2' = s2,
             NEW r, r.drivers = s3, r.driver = known, K!Finish(r, name)
      PROVE  K!CommandsInv'
  <2>1. known \in DOMAIN s3
    BY <1>2, <1>7, DriverFound
  <2> QED BY <1>2, <1>5, <1>7, <2>1
<1>8. ASSUME s2' = s2, NEW r, r.drivers = s3, r.driver = 0, K!Finish(r, name)
      PROVE  K!CommandsInv'
  BY <1>2, <1>5, <1>8
<1>9. ASSUME NEW service, service = K!get_resource(s2, "NetworkService", name), service # 0, s2' = s2,
             K!Finish(K!_get_driver_or_new(s2, s3, "SSHDriver", s2[service].name), name)
      PROVE  K!CommandsInv'
  <2>1. service \in DOMAIN s2
    BY <1>2, <1>9, ResourceFound
  <2>2. s2[service] \in K!ResourceRecords
    BY <1>2, <2>1
  <2>3. s2[service].name \in Names \cup {K!Unnamed}
    BY <2>2 DEF K!ResourceRecords
  <2> QED BY <1>2, <1>6, <1>9, <2>3
<1>10. ASSUME s2' = Append(s2, K!Made),
              K!Finish(K!_get_driver_or_new(Append(s2, K!Made), s3, "SSHDriver", K!Unnamed), name)
       PROVE  K!CommandsInv'
  <2>1. K!Made \in K!ResourceRecords
    BY <1>1 DEF K!Made, K!ResourceRecords, K!Relevant
  <2>2. Append(s2, K!Made) \in Seq(K!ResourceRecords) /\ Sensible(Append(s2, K!Made), s3)
    BY <1>2, <2>1, ResourceAdded
  <2> QED BY <1>6, <1>10, <2>2
<1>11. PICK known, service, port, other, with :
        /\ known = K!get_driver(s3, {"SSHDriver"}, name) /\ service = K!get_resource(s2, "NetworkService", name)
        /\ port = K!get_resource(s2, "EthernetPort", K!Unnamed) /\ other = K!get_resource(s2, "NetworkService", K!Unnamed)
        /\ with = Append(s2, K!Made)
  OBVIOUS
<1>12. \/ /\ known # 0
          /\ K!Finish([drivers |-> s3, driver |-> known, end |-> "ok"], name) /\ s2' = s2
       \/ /\ service # 0
          /\ K!Finish(K!_get_driver_or_new(s2, s3, "SSHDriver", s2[service].name), name)
          /\ s2' = s2
       \/ K!Finish(K!_get_driver_or_new(with, s3, "SSHDriver", K!Unnamed), name) /\ s2' = with
       \/ K!Finish([drivers |-> s3, driver |-> 0, end |-> "exception"], name) /\ s2' = s2
       \/ K!Finish([drivers |-> s3, driver |-> 0, end |-> "no_resource"], name) /\ s2' = s2
  BY <1>11 DEF K!Ssh
<1>13. CASE known # 0 /\ K!Finish([drivers |-> s3, driver |-> known, end |-> "ok"], name) /\ s2' = s2
  <2>1. PICK r : r = [drivers |-> s3, driver |-> known, end |-> "ok"]
    OBVIOUS
  <2> QED BY <1>7, <1>11, <1>13, <2>1
<1>14. ASSUME NEW end, K!Finish([drivers |-> s3, driver |-> 0, end |-> end], name), s2' = s2 PROVE K!CommandsInv'
  <2>1. PICK r : r = [drivers |-> s3, driver |-> 0, end |-> end]
    OBVIOUS
  <2> QED BY <1>8, <1>14, <2>1
<1> QED BY <1>9, <1>10, <1>11, <1>12, <1>13, <1>14

\* A session that ran no command yet has no driver.
LEMMA CommandsInit == K!Init => K!CommandsInv
<1> SUFFICES ASSUME K!Init PROVE K!CommandsInv
  OBVIOUS
<1>1. s1 \in DOMAIN K!Commands /\ s3 = <<>> /\ s4 = 0 /\ s5.name = K!Unnamed /\ s5.driver = 0
  BY DEF K!Init
<1>2. s2 \in Seq(K!ResourceRecords)
  <2>1. PICK k \in 0..MaxResources : s2 \in [1..k -> [cls : K!Relevant(s1), name : Names]]
    BY DEF K!Init
  <2>2. [cls : K!Relevant(s1), name : Names] \subseteq K!ResourceRecords
    BY DEF K!ResourceRecords
  <2>3. k \in Nat
    BY BoundAssumption
  <2> HIDE DEF K!ResourceRecords
  <2>4. s2 \in [1..k -> K!ResourceRecords]
    BY <2>1, <2>2
  <2> QED BY <2>3, <2>4
<1>3. s3 \in Seq(K!DriverRecords) /\ DOMAIN s3 = {} /\ s4 \in 0..CommandCalls
  BY <1>1, BoundAssumption
<1> QED BY <1>1, <1>2, <1>3 DEF K!CommandsInv, K!TypeOK, K!LastKnown, K!OneIsEnough, K!NoDoubles

\* A command that finds no change to make leaves all of it.
LEMMA CommandsStutter == ASSUME K!CommandsInv, UNCHANGED K!vars PROVE K!CommandsInv'
<1>1. s1' = s1 /\ s2' = s2 /\ s3' = s3 /\ s4' = s4 /\ s5' = s5
  BY DEF K!vars
<1>2. K!TypeOK' /\ K!LastKnown' /\ K!NoDoubles' /\ (s4' = 0 => s3' = <<>>)
  BY <1>1 DEF K!CommandsInv, K!TypeOK, K!LastKnown, K!NoDoubles, K!Used
<1>3. s2' \in Seq(K!ResourceRecords)' /\ s3' \in Seq(K!DriverRecords)' /\ \A i \in DOMAIN s3' : K!Supplied(s2, s3, i)'
  BY <1>1 DEF K!CommandsInv, K!ResourceRecords, K!DriverRecords, K!Supplied
<1>4. K!OneIsEnough'
  BY <1>1 DEF K!CommandsInv, K!OneIsEnough, K!Usable
<1> QED BY <1>2, <1>3, <1>4 DEF K!CommandsInv

\* Every command keeps the invariant, with or without a name, and however it ends.
LEMMA CommandsStep == K!CommandsInv /\ [K!Next]_(K!vars) => K!CommandsInv'
<1> SUFFICES ASSUME K!CommandsInv, [K!Next]_(K!vars) PROVE K!CommandsInv'
  OBVIOUS
<1>1. CASE UNCHANGED K!vars
  BY <1>1, CommandsStutter
<1>2. CASE K!Next
  <2>1. PICK name \in Names \cup {K!Unnamed} : K!Scan(name) \/ K!Take(name) \/ K!Ssh(name)
    BY <1>2 DEF K!Next
  <2> QED BY <2>1, ScanStep, TakeStep, SshStep
<1> QED BY <1>1, <1>2

\* What the invariant says of the drivers says what device a command works on.
LEMMA CommandsAreHonest == K!CommandsInv => K!TypeOK /\ K!CommandsHonest
<1> SUFFICES ASSUME K!CommandsInv PROVE K!TypeOK /\ K!CommandsHonest
  OBVIOUS
<1>1. /\ s3 \in Seq(K!DriverRecords) /\ K!TypeOK /\ K!LastKnown /\ K!OneIsEnough /\ K!NoDoubles
      /\ \A i \in DOMAIN s3 : K!Supplied(s2, s3, i)
  BY DEF K!CommandsInv
<1>2. ASSUME K!Ran
      PROVE  /\ s5.driver \in DOMAIN s3 /\ K!Used.cls \in DOMAIN K!Bindings
             /\ (s5.name # K!Unnamed /\ s1 # "ssh") => K!Used.name = s5.name
  <2>1. s5.driver \in DOMAIN s3 /\ ((s5.name # K!Unnamed /\ s1 # "ssh") => K!Used.name = s5.name)
    BY <1>1, <1>2 DEF K!Ran, K!LastKnown
  <2> QED BY <1>1, <2>1 DEF K!TypeOK, K!Used
<1>3. K!NamedDevice
  <2> SUFFICES ASSUME K!Ran, s5.name # K!Unnamed, s1 # "ssh", K!Used.cls # "OpenOCDDriver"
               PROVE  K!Device(s5.driver).name = s5.name
    BY DEF K!NamedDevice
  <2>1. PICK i : i = s5.driver /\ i \in DOMAIN s3 /\ s3[i].name = s5.name /\ s3[i].cls # "OpenOCDDriver"
    BY <1>2 DEF K!Used
  <2>2. K!Supplied(s2, s3, i)
    BY <1>1, <2>1
  <2>3. CASE s3[i].cls # "DigitalOutputPowerDriver"
    <3>1. s3[i].supplier[1] = "resource" /\ s2[s3[i].supplier[2]].name = s5.name
      BY <2>1, <2>2, <2>3 DEF K!Supplied
    <3> QED BY <2>1, <3>1 DEF K!Device
  <2>4. CASE s3[i].cls = "DigitalOutputPowerDriver"
    <3>1. PICK k \in DOMAIN s3 : /\ k = s3[i].supplier[2] /\ s3[i].supplier[1] = "driver" /\ s3[k].cls \in K!Outputs
                                 /\ s3[k].name = s5.name
      BY <2>1, <2>2, <2>4 DEF K!Supplied
    <3>2. s3[k].cls # "DigitalOutputPowerDriver" /\ s3[k].cls # "OpenOCDDriver"
      BY <3>1 DEF K!Outputs
    <3>3. K!Supplied(s2, s3, k)
      BY <1>1
    <3>4. s2[s3[k].supplier[2]].name = s5.name
      BY <2>1, <3>1, <3>2, <3>3 DEF K!Supplied
    <3>5. s3[i].supplier[1] # "resource"
      BY <3>1
    <3> QED BY <2>1, <3>1, <3>4, <3>5 DEF K!Device
  <2> QED BY <2>3, <2>4
<1>4. K!RightDriver
  <2> SUFFICES ASSUME K!Ran, NEW d \in DOMAIN K!Bindings, K!Device(s5.driver).cls \in K!Bindings[d],
                      K!Device(s5.driver).name # "default", K!Used.supplier[1] # "driver"
               PROVE  K!Device(s5.driver).cls \in K!Bindings[K!Used.cls]
    BY DEF K!RightDriver
  <2>1. PICK i : i = s5.driver /\ i \in DOMAIN s3 /\ K!Used = s3[i]
    BY <1>2 DEF K!Used
  <2>2. K!Supplied(s2, s3, i)
    BY <1>1, <2>1
  <2>3. s3[i].supplier[1] = "resource" /\ K!MeantFor(s3[i].cls, s2[s3[i].supplier[2]])
    BY <2>1, <2>2 DEF K!Supplied
  <2>4. K!Device(s5.driver) = s2[s3[i].supplier[2]]
    BY <2>1, <2>3 DEF K!Device
  <2>5. K!Device(s5.driver).cls # "NetworkAndroidFastboot"
    BY BindingsFit
  <2> QED BY <2>1, <2>3, <2>4, <2>5 DEF K!MeantFor
<1> QED BY <1>1, <1>3, <1>4 DEF K!CommandsHonest

-----------------------------------------------------------------------------
(***************************************************************************)
(* Graph strategies (strategy/graphstrategy.py).                           *)
(***************************************************************************)
\* Induction over the naturals with a set instead of an operator.
LEMMA SetInduction ==
    ASSUME NEW X, 0 \in X, \A n \in Nat : n \in X => n + 1 \in X
    PROVE  Nat \subseteq X
<1> SUFFICES ASSUME Nat \ X # {} PROVE FALSE
  OBVIOUS
<1>1. PICK x \in Nat \ X : \A y \in Nat \ X : x =< y
  BY LeastOf
<1>2. x # 0 /\ x - 1 \in Nat /\ ~(x =< x - 1)
  OBVIOUS
<1>3. x - 1 \in X => x \in X
  BY <1>2
<1> QED BY <1>1, <1>2, <1>3

\* What the graphs of a strategy are: dependencies are smaller states, only the root has none.
LEMMA GraphFacts ==
    ASSUME s1 \in G!Graphs
    PROVE  /\ \A of \in G!States : s1[of] \in Seq(G!States) /\ \A x \in G!Range(s1[of]) : x \in Nat /\ 1 =< x /\ x < of
           /\ \A of \in G!States : s1[of] = <<>> <=> of = 1
           /\ \A of \in G!States : s1[of] # <<>> => s1[of][1] \in G!Range(s1[of])
           /\ G!States = 1..N /\ N \in Nat
<1>1. G!States = 1..N /\ N \in Nat /\ 1 \in 1..N
  BY GraphAssumption DEF G!States
<1>2. s1 \in [G!States -> G!Lists(G!States, N - 1)] /\ s1[1] = <<>>
      /\ \A of \in G!States \ {1} : s1[of] # <<>> /\ G!Range(s1[of]) \subseteq 1..(of - 1)
  BY DEF G!Graphs
<1>3. ASSUME NEW of \in G!States
      PROVE  /\ s1[of] \in Seq(G!States) /\ \A x \in G!Range(s1[of]) : x \in Nat /\ 1 =< x /\ x < of
             /\ s1[of] = <<>> <=> of = 1
             /\ s1[of] # <<>> => s1[of][1] \in G!Range(s1[of])
  <2>1. s1[of] \in G!Lists(G!States, N - 1)
    BY <1>2
  <2>2. PICK k \in 0..(N - 1) : s1[of] \in [1..k -> G!States]
    BY <2>1 DEF G!Lists
  <2>3. k \in Nat
    BY <1>1
  <2> HIDE DEF G!States
  <2>4. s1[of] \in Seq(G!States)
    BY <2>2, <2>3
  <2>5. s1[of] # <<>> => 1 \in DOMAIN s1[of]
    BY <2>4
  <2>6. s1[of] # <<>> => s1[of][1] \in G!Range(s1[of])
    BY <2>5 DEF G!Range
  <2>7. s1[of] = <<>> <=> of = 1
    BY <1>2
  <2>8. \A x \in G!Range(s1[of]) : x \in Nat /\ 1 =< x /\ x < of
    <3>1. CASE of = 1
      BY <2>7, <3>1 DEF G!Range
    <3>2. CASE of # 1
      <4>1. G!Range(s1[of]) \subseteq 1..(of - 1) /\ of \in Nat
        BY <1>1, <1>2, <3>2
      <4> QED BY <4>1
    <3> QED BY <3>1, <3>2
  <2> QED BY <2>4, <2>6, <2>7, <2>8
<1> QED BY <1>1, <1>3

\* The least element of a set of positions, which a CHOOSE of the model means.
LEMMA LeastPosition ==
    ASSUME NEW X \in SUBSET Nat, X # {}
    PROVE  (CHOOSE i \in X : \A j \in X : i =< j) \in X
<1>1. K!Min(X) \in X /\ \A y \in X : K!Min(X) =< y
  BY LeastOf
<1> QED BY <1>1

\* The loop over via does remove something definite: by induction from the last position on.
LEMMA RemovedExists ==
    ASSUME NEW m \in Nat, NEW via, NEW left \in SUBSET (1..m), NEW of
    PROVE  \E R \in SUBSET left : \A i \in left : i \in R <=> G!Hit(via, left, of, R, i)
<1> DEFINE From(n) == \E R \in SUBSET left : \A i \in left : /\ i > m - n => (i \in R <=> G!Hit(via, left, of, R, i))
                                                             /\ i \in R => i > m - n
           Some == {n \in Nat : From(n)}
<1>1. 0 \in Some
  <2>1. \A i \in left : ~(i > m - 0)
    OBVIOUS
  <2>2. {} \in SUBSET left
    OBVIOUS
  <2> QED BY <2>1, <2>2
<1>2. ASSUME NEW n \in Nat, n \in Some PROVE n + 1 \in Some
  <2>1. PICK R \in SUBSET left : \A i \in left : /\ i > m - n => (i \in R <=> G!Hit(via, left, of, R, i))
                                                 /\ i \in R => i > m - n
    BY <1>2
  <2> DEFINE p == m - n
             Q == IF p \in left /\ G!Hit(via, left, of, R, p) THEN R \cup {p} ELSE R
  <2>2. /\ p \in Int /\ Q \in SUBSET left /\ \A i \in left : i \in Int
        /\ \A i \in left : i > m - (n + 1) <=> (i > p \/ i = p)
    OBVIOUS
  <2>3. \A j \in left : j > p => (j \in Q <=> j \in R)
    OBVIOUS
  <2>4. \A j \in R : j > p
    BY <2>1
  <2>5. ASSUME NEW i \in left, i > p \/ i = p PROVE G!Hit(via, left, of, Q, i) <=> G!Hit(via, left, of, R, i)
    <3>1. \A j \in Q : i < j => j \in R
      BY <2>2, <2>5
    <3>2. R \subseteq Q
      OBVIOUS
    <3> HIDE DEF Q
    <3> QED BY <3>1, <3>2 DEF G!Hit
  <2>6. p \in left => (p \in Q <=> G!Hit(via, left, of, R, p))
    <3>1. p \notin R
      BY <2>2, <2>4
    <3> QED BY <3>1
  <2>7. \A i \in left : i \in Q => i > p \/ i = p
    BY <2>4
  <2> HIDE DEF p, Q
  <2>8. ASSUME NEW i \in left PROVE /\ i > m - (n + 1) => (i \in Q <=> G!Hit(via, left, of, Q, i))
                                    /\ i \in Q => i > m - (n + 1)
    <3>1. CASE i > p
      <4>1. i \in R <=> G!Hit(via, left, of, R, i)
        BY <2>1, <3>1 DEF p
      <4> QED BY <2>2, <2>3, <2>5, <3>1, <4>1
    <3>2. CASE i = p
      BY <2>2, <2>5, <2>6, <3>2
    <3>3. CASE ~(i > p \/ i = p)
      BY <2>2, <2>7, <3>3
    <3> QED BY <3>1, <3>2, <3>3
  <2>9. From(n + 1)
    BY <2>2, <2>8
  <2> QED BY <2>9
<1>3. m \in Some
  <2> HIDE DEF Some
  <2> QED BY <1>1, <1>2, SetInduction
<1>4. \A i \in left : i > m - m
  OBVIOUS
<1> QED BY <1>3, <1>4

\* What one state of the climb removes, and where it goes on.
GoesOn(via, left, of, R, next) ==
    /\ R \in SUBSET left /\ left \ R \in SUBSET DOMAIN via
    /\ next \in G!Range(s1[of]) /\ next \in G!States /\ next < of
    /\ Len(via) <= 2 => \A i \in R : via[i] = next

\* The loop over via removes dependencies, and climbs to a smaller state.
LEMMA NextState ==
    ASSUME s1 \in G!Graphs, NEW via \in Seq(G!States), NEW left \in SUBSET DOMAIN via,
           NEW of \in G!States, s1[of] # <<>>, NEW R, R = G!Removed(via, left, of),
           NEW next, next = G!next_state(via, R, of)
    PROVE  GoesOn(via, left, of, R, next)
<1>1. Len(via) \in Nat /\ DOMAIN via = 1..Len(via) /\ left \in SUBSET Nat
  OBVIOUS
<1>2. R \in SUBSET left /\ \A i \in left : i \in R <=> G!Hit(via, left, of, R, i)
  <2>1. \E Q \in SUBSET left : \A i \in left : i \in Q <=> G!Hit(via, left, of, Q, i)
    BY <1>1, RemovedExists
  <2> QED BY <2>1 DEF G!Removed
<1>3. \A i \in R : via[i] \in G!Range(s1[of])
  BY <1>2 DEF G!Hit
<1>4. PICK least : least = CHOOSE i \in R : \A j \in R : i =< j
  OBVIOUS
<1>5. R # {} => least \in R
  BY <1>1, <1>2, <1>4, LeastPosition
<1>6. next = IF R = {} THEN s1[of][1] ELSE via[least]
  BY <1>4 DEF G!next_state
<1>7. next \in G!Range(s1[of])
  BY <1>3, <1>5, <1>6, GraphFacts
<1>8. next \in G!States /\ next < of
  BY <1>7, GraphFacts
<1>9. ASSUME Len(via) <= 2, NEW i \in R, NEW j \in R, i < j PROVE FALSE
  <2>1. PICK k \in left : i < k /\ k < j
    BY <1>2, <1>9 DEF G!Hit
  <2> QED BY <1>1, <1>2, <1>9, <2>1
<1>10. ASSUME Len(via) <= 2, NEW i \in R PROVE via[i] = next
  <2>1. i \in Nat /\ least \in Nat /\ least \in R
    BY <1>1, <1>2, <1>5, <1>10
  <2>2. i = least
    BY <1>9, <1>10, <2>1
  <2> QED BY <1>6, <1>10, <2>2
<1> QED BY <1>2, <1>7, <1>8, <1>10 DEF GoesOn

\* A path goes on to a state that depends on its last one.
LEMMA RootedAppend ==
    ASSUME s1 \in G!Graphs, NEW p, G!Rooted(s1, p), NEW of \in G!States,
           p[Len(p)] \in G!Range(s1[of]), p[Len(p)] < of
    PROVE  G!Rooted(s1, Append(p, of))
<1>1. p \in Seq(G!States) /\ p # <<>> /\ p[1] = 1 /\ Len(p) \in Nat \ {0} /\ DOMAIN p = 1..Len(p)
  BY DEF G!Rooted
<1> DEFINE q == Append(p, of)
<1>2. /\ q \in Seq(G!States) /\ Len(q) = Len(p) + 1 /\ DOMAIN q = 1..Len(p) + 1
      /\ q[Len(p) + 1] = of /\ \A i \in 1..Len(p) : q[i] = p[i]
  BY <1>1, AppendAt
<1> HIDE DEF q
<1>3. q # <<>> /\ q[1] = 1
  BY <1>1, <1>2
<1>4. ASSUME NEW k \in 2..Len(q) PROVE q[k - 1] \in G!Range(s1[q[k]])
  <2>1. CASE k = Len(p) + 1
    BY <1>1, <1>2, <2>1
  <2>2. CASE k # Len(p) + 1
    <3>1. k \in 2..Len(p) /\ k \in 1..Len(p) /\ k - 1 \in 1..Len(p)
      BY <1>1, <1>2, <2>2
    <3>2. p[k - 1] \in G!Range(s1[p[k]])
      BY <3>1 DEF G!Rooted
    <3> QED BY <1>2, <3>1, <3>2
  <2> QED BY <2>1, <2>2
<1>5. ASSUME NEW i \in DOMAIN q, NEW j \in DOMAIN q, i < j PROVE q[i] < q[j]
  <2>1. i \in 1..Len(p) /\ q[i] = p[i]
    BY <1>1, <1>2, <1>5
  <2>2. CASE j = Len(p) + 1
    <3>1. i = Len(p) \/ p[i] < p[Len(p)]
      <4>1. i = Len(p) \/ i < Len(p)
        BY <1>1, <2>1
      <4>2. Len(p) \in DOMAIN p
        BY <1>1
      <4> QED BY <1>1, <2>1, <4>1, <4>2 DEF G!Rooted
    <3>2. p[i] \in Nat /\ p[Len(p)] \in Nat /\ of \in Nat
      <4>1. p[i] \in G!States /\ p[Len(p)] \in G!States
        BY <1>1, <2>1
      <4> QED BY <4>1, GraphFacts
    <3> QED BY <1>2, <2>1, <2>2, <3>1, <3>2
  <2>3. CASE j # Len(p) + 1
    <3>1. j \in 1..Len(p) /\ q[j] = p[j]
      BY <1>1, <1>2, <2>3
    <3> QED BY <1>1, <1>5, <2>1, <3>1 DEF G!Rooted
  <2> QED BY <2>2, <2>3
<1>6. G!Rooted(s1, q)
  BY <1>2, <1>3, <1>4, <1>5 DEF G!Rooted
<1> QED BY <1>6 DEF q

\* The path of a state without dependencies.
LEMMA RootedAlone ==
    ASSUME s1 \in G!Graphs, NEW of \in G!States, s1[of] = <<>>
    PROVE  G!Rooted(s1, <<of>>)
<1>1. of = 1
  BY GraphFacts
<1>2. <<of>> \in Seq(G!States) /\ <<of>>[1] = of /\ Len(<<of>>) = 1 /\ DOMAIN <<of>> = {1} /\ <<of>> # <<>>
  OBVIOUS
<1> QED BY <1>1, <1>2 DEF G!Rooted

\* The climb from a state looks at smaller states only.
LEMMA ClimbDepends ==
    ASSUME s1 \in G!Graphs, NEW via \in Seq(G!States), NEW left \in SUBSET DOMAIN via,
           NEW of \in G!States, NEW L, NEW L2, \A e \in G!States : e < of => L[e] = L2[e]
    PROVE  G!Climb(via, L, of, left) = G!Climb(via, L2, of, left)
<1>1. CASE s1[of] = <<>>
  BY <1>1 DEF G!Climb
<1>2. CASE s1[of] # <<>>
  <2>1. PICK R : R = G!Removed(via, left, of)
    OBVIOUS
  <2>2. PICK next : next = G!next_state(via, R, of)
    OBVIOUS
  <2>3. GoesOn(via, left, of, R, next)
    BY <1>2, <2>1, <2>2, NextState
  <2>4. L[next] = L2[next]
    BY <2>3 DEF GoesOn
  <2> QED BY <1>2, <2>1, <2>2, <2>4 DEF G!Climb
<1> QED BY <1>1, <1>2

\* The climb is defined for every state: by induction on the states.
LEMMA ClimbExists ==
    ASSUME s1 \in G!Graphs, NEW via \in Seq(G!States)
    PROVE  \E L : L = [of \in G!States |-> [left \in SUBSET DOMAIN via |-> G!Climb(via, L, of, left)]]
<1> DEFINE Row(L, of) == [left \in SUBSET DOMAIN via |-> G!Climb(via, L, of, left)]
           Below(n) == {of \in G!States : of < n}
           Solution(n) == \E L : L = [of \in Below(n) |-> Row(L, of)]
           Solved == {n \in Nat : Solution(n)}
<1>1. G!States = 1..N /\ N \in Nat
  BY GraphFacts
<1>2. 0 \in Solved
  <2>1. Below(0) = {}
    BY <1>1
  <2>2. [of \in {} |-> 0] = [of \in Below(0) |-> Row([e \in {} |-> 0], of)]
    BY <2>1
  <2> QED BY <2>2
<1>3. ASSUME NEW n \in Nat, n \in Solved PROVE n + 1 \in Solved
  <2>1. PICK L : L = [of \in Below(n) |-> Row(L, of)]
    BY <1>3
  <2> DEFINE L2 == [of \in Below(n + 1) |-> Row(L, of)]
  <2>2. ASSUME NEW of \in Below(n + 1) PROVE Row(L, of) = Row(L2, of)
    <3>1. ASSUME NEW e \in G!States, e < of PROVE L[e] = L2[e]
      <4>1. e \in Below(n) /\ e \in Below(n + 1)
        BY <1>1, <3>1
      <4> HIDE DEF Row
      <4>2. L[e] = Row(L, e)
        BY <2>1, <4>1
      <4>3. L2[e] = Row(L, e)
        BY <4>1
      <4> QED BY <4>2, <4>3
    <3>2. of \in G!States
      OBVIOUS
    <3>3. ASSUME NEW left \in SUBSET DOMAIN via PROVE G!Climb(via, L, of, left) = G!Climb(via, L2, of, left)
      <4> HIDE DEF L2, Below, Solution
      <4> QED BY <3>1, <3>2, ClimbDepends
    <3> QED BY <3>3
  <2>3. L2 = [of \in Below(n + 1) |-> Row(L2, of)]
    <3> HIDE DEF Row
    <3> QED BY <2>2
  <2>4. Solution(n + 1)
    <3> HIDE DEF L2, Below
    <3> QED BY <2>3
  <2> HIDE DEF Solution
  <2> QED BY <2>4
<1>4. N + 1 \in Solved
  <2> HIDE DEF Solved
  <2> QED BY <1>1, <1>2, <1>3, SetInduction
<1>5. Below(N + 1) = G!States
  BY <1>1
<1>6. PICK L : L = [of \in Below(N + 1) |-> Row(L, of)]
  BY <1>4
<1> QED BY <1>5, <1>6

\* What a climb that began with the positions in left has found.
Reached(via, of, left, found) ==
    /\ G!Rooted(s1, found.path) /\ found.path[Len(found.path)] = of
    /\ found.left \subseteq left
    /\ Len(via) <= 2 => \A i \in left \ found.left : via[i] \in G!Range(found.path)

\* One state of the climb, if those above it have found what they should.
LEMMA ClimbReaches ==
    ASSUME s1 \in G!Graphs, NEW via \in Seq(G!States), NEW left \in SUBSET DOMAIN via,
           NEW of \in G!States, NEW L,
           \A e \in G!States, l \in SUBSET DOMAIN via : e < of => Reached(via, e, l, L[e][l])
    PROVE  Reached(via, of, left, G!Climb(via, L, of, left))
<1>1. CASE s1[of] = <<>>
  <2>1. G!Climb(via, L, of, left) = [path |-> <<of>>, left |-> left]
    BY <1>1 DEF G!Climb
  <2>2. G!Rooted(s1, <<of>>)
    BY <1>1, RootedAlone
  <2>3. <<of>>[Len(<<of>>)] = of
    OBVIOUS
  <2> QED BY <2>1, <2>2, <2>3 DEF Reached
<1>2. CASE s1[of] # <<>>
  <2>1. PICK R : R = G!Removed(via, left, of)
    OBVIOUS
  <2>2. PICK next : next = G!next_state(via, R, of)
    OBVIOUS
  <2>3. PICK above : above = L[next][left \ R]
    OBVIOUS
  <2>4. G!Climb(via, L, of, left) = [path |-> Append(above.path, of), left |-> above.left]
    BY <1>2, <2>1, <2>2, <2>3 DEF G!Climb
  <2>4a. GoesOn(via, left, of, R, next)
    BY <1>2, <2>1, <2>2, NextState
  <2>5. /\ R \in SUBSET left /\ left \ R \in SUBSET DOMAIN via
        /\ next \in G!Range(s1[of]) /\ next \in G!States /\ next < of
        /\ Len(via) <= 2 => \A i \in R : via[i] = next
    BY <2>4a DEF GoesOn
  <2>6. Reached(via, next, left \ R, above)
    BY <2>3, <2>5
  <2>7. /\ G!Rooted(s1, above.path) /\ above.path[Len(above.path)] = next
        /\ above.left \subseteq left \ R
        /\ Len(via) <= 2 => \A i \in (left \ R) \ above.left : via[i] \in G!Range(above.path)
    BY <2>6 DEF Reached
  <2> DEFINE p == above.path
  <2>8. p \in Seq(G!States) /\ p # <<>> /\ Len(p) \in Nat \ {0} /\ DOMAIN p = 1..Len(p)
    BY <2>7 DEF G!Rooted
  <2> HIDE DEF p
  <2>9. G!Rooted(s1, Append(p, of))
    BY <2>5, <2>7, RootedAppend DEF p
  <2>10. /\ DOMAIN Append(p, of) = 1..Len(p) + 1 /\ Append(p, of)[Len(p) + 1] = of
         /\ Len(Append(p, of)) = Len(p) + 1 /\ \A i \in 1..Len(p) : Append(p, of)[i] = p[i]
    BY <2>8, AppendAt
  <2>11. G!Range(p) \subseteq G!Range(Append(p, of))
    <3>1. \A i \in 1..Len(p) : i \in 1..Len(p) + 1
      BY <2>8
    <3> QED BY <2>8, <2>10, <3>1 DEF G!Range
  <2>12. next \in G!Range(p)
    BY <2>7, <2>8 DEF G!Range, p
  <2>13. ASSUME Len(via) <= 2, NEW i \in left \ above.left PROVE via[i] \in G!Range(Append(p, of))
    BY <2>5, <2>7, <2>11, <2>12, <2>13 DEF p
  <2>14. Append(p, of)[Len(Append(p, of))] = of
    BY <2>8, <2>10
  <2> QED BY <2>4, <2>5, <2>7, <2>9, <2>13, <2>14 DEF Reached, p
<1> QED BY <1>1, <1>2

\* What find_abs_path finds: by induction on the states.
LEMMA FindAbsPath ==
    ASSUME s1 \in G!Graphs, NEW via \in Seq(G!States), NEW state \in G!States,
           NEW found, found = G!find_abs_path(state, via), found.left = {}
    PROVE  /\ G!Rooted(s1, found.path)
           /\ Len(via) <= 2 => G!Range(via) \subseteq G!Range(found.path)
<1> DEFINE L == CHOOSE M2 : M2 = [of \in G!States |-> [left \in SUBSET DOMAIN via |-> G!Climb(via, M2, of, left)]]
<1>1. found = L[state][DOMAIN via]
  BY DEF G!find_abs_path
<1>2. L = [of \in G!States |-> [left \in SUBSET DOMAIN via |-> G!Climb(via, L, of, left)]]
  BY ClimbExists
<1> HIDE DEF L
<1>3. ASSUME NEW of \in G!States, NEW left \in SUBSET DOMAIN via
      PROVE  L[of][left] = G!Climb(via, L, of, left)
  <2>1. L[of] = [l \in SUBSET DOMAIN via |-> G!Climb(via, L, of, l)]
    BY <1>2
  <2> QED BY <2>1
<1> DEFINE Below(n) == \A of \in G!States, left \in SUBSET DOMAIN via : of < n => Reached(via, of, left, L[of][left])
           Good == {n \in Nat : Below(n)}
<1>4. G!States = 1..N /\ N \in Nat
  BY GraphFacts
<1>5. 0 \in Good
  BY <1>4
<1>6. ASSUME NEW n \in Nat, n \in Good PROVE n + 1 \in Good
  <2>1. ASSUME NEW of \in G!States, NEW left \in SUBSET DOMAIN via, of < n + 1
        PROVE  Reached(via, of, left, L[of][left])
    <3>1. \A e \in G!States : e < of => e < n
      BY <1>4, <2>1
    <3>2. \A e \in G!States, l \in SUBSET DOMAIN via : e < of => Reached(via, e, l, L[e][l])
      BY <1>6, <3>1
    <3>3. Reached(via, of, left, G!Climb(via, L, of, left))
      BY <3>2, ClimbReaches
    <3> QED BY <1>3, <3>3
  <2> QED BY <2>1
<1>7. N + 1 \in Good
  <2> HIDE DEF Good
  <2> QED BY <1>4, <1>5, <1>6, SetInduction
<1>8. state < N + 1
  BY <1>4
<1>9. Reached(via, state, DOMAIN via, found)
  BY <1>1, <1>7, <1>8
<1> QED BY <1>9 DEF Reached, G!Range

\* A sequence from which the first is taken.
LEMMA TailAt ==
    ASSUME NEW X, NEW s \in Seq(X), s # <<>>
    PROVE  /\ Tail(s) \in Seq(X) /\ Len(s) \in Nat \ {0} /\ Len(Tail(s)) = Len(s) - 1
           /\ Head(s) = s[1] /\ s[1] \in X /\ DOMAIN s = 1..Len(s) /\ DOMAIN Tail(s) = 1..Len(s) - 1
           /\ \A i \in 1..Len(s) - 1 : i + 1 \in 1..Len(s) /\ Tail(s)[i] = s[i + 1]
           /\ Len(s) = 1 => Tail(s) = <<>>
<1>1. /\ Tail(s) \in Seq(X) /\ Len(s) \in Nat \ {0} /\ Len(Tail(s)) = Len(s) - 1
      /\ Head(s) = s[1] /\ s[1] \in X /\ DOMAIN s = 1..Len(s) /\ DOMAIN Tail(s) = 1..Len(s) - 1
      /\ \A i \in 1..Len(s) - 1 : i + 1 \in 1..Len(s) /\ Tail(s)[i] = s[i + 1]
  OBVIOUS
<1>2. Len(s) = 1 => Tail(s) = <<>>
  BY <1>1
<1> QED BY <1>1, <1>2

\* Sequences that are put together, and sequences that are the same.
LEMMA ConcatAt ==
    ASSUME NEW X, NEW s \in Seq(X), NEW t \in Seq(X)
    PROVE  /\ s \o t \in Seq(X) /\ Len(s) \in Nat /\ Len(t) \in Nat /\ Len(s \o t) = Len(s) + Len(t)
           /\ DOMAIN s = 1..Len(s) /\ DOMAIN t = 1..Len(t)
           /\ \A i \in 1..Len(s) : (s \o t)[i] = s[i]
           /\ \A i \in 1..Len(t) : (s \o t)[Len(s) + i] = t[i]
<1>1. s \o t \in Seq(X) /\ Len(s) \in Nat /\ Len(t) \in Nat /\ Len(s \o t) = Len(s) + Len(t)
      /\ DOMAIN s = 1..Len(s) /\ DOMAIN t = 1..Len(t)
  OBVIOUS
<1>2. \A i \in 1..Len(s) : (s \o t)[i] = s[i]
  OBVIOUS
<1>3. \A i \in 1..Len(t) : (s \o t)[Len(s) + i] = t[i]
  OBVIOUS
<1> QED BY <1>1, <1>2, <1>3

\* Two sequences with the same elements.
LEMMA SameSequence ==
    ASSUME NEW X, NEW s \in Seq(X), NEW t \in Seq(X), Len(s) = Len(t), \A i \in 1..Len(s) : s[i] = t[i]
    PROVE  s = t
OBVIOUS

\* A sequence whose front and rest are known.
LEMMA SplitAt ==
    ASSUME NEW X, NEW s \in Seq(X), NEW t \in Seq(X), NEW u \in Seq(X), Len(u) = Len(s) + Len(t),
           \A i \in 1..Len(s) : s[i] = u[i], \A i \in 1..Len(t) : t[i] = u[Len(s) + i]
    PROVE  s \o t = u
<1>1. PICK q : q = s \o t
  OBVIOUS
<1>2. q \in Seq(X) /\ Len(s) \in Nat /\ Len(t) \in Nat /\ Len(q) = Len(s) + Len(t)
      /\ (\A i \in 1..Len(s) : q[i] = s[i]) /\ (\A i \in 1..Len(t) : q[Len(s) + i] = t[i])
  BY <1>1, ConcatAt
<1>3. ASSUME NEW i \in 1..Len(q) PROVE q[i] = u[i]
  <2>1. CASE i =< Len(s)
    <3>1. i \in 1..Len(s)
      BY <1>2, <2>1
    <3> QED BY <1>2, <3>1
  <2>2. CASE i > Len(s)
    <3>1. PICK j : j = i - Len(s)
      OBVIOUS
    <3>2. j \in 1..Len(t) /\ i = Len(s) + j
      BY <1>2, <2>2, <3>1
    <3> QED BY <1>2, <3>2
  <2>3. i \in Nat
    BY <1>2
  <2> QED BY <1>2, <2>1, <2>2, <2>3
<1>4. q = u
  BY <1>2, <1>3, SameSequence
<1> QED BY <1>1, <1>4

\* A graph strategy begins without a path and without a transition.
LEMMA GraphInit == G!Init => G!GraphInv
<1> SUFFICES ASSUME G!Init PROVE G!GraphInv
  OBVIOUS
<1>1. s1 \in G!Graphs /\ s2 = <<>> /\ s3 = FALSE /\ s4 = <<>> /\ s5 = <<>> /\ s6 = 0 /\ s8 = "none"
  BY DEF G!Init
<1>2. s4 \in Seq(G!Frames) /\ s5 \in Seq(G!States) /\ DOMAIN s4 = {} /\ Len(s4) = 0 /\ s6 \in 0..GraphCalls
  BY <1>1, GraphAssumption
<1>3. \A i \in DOMAIN s4 : G!Sound(s1, s4[i])
  BY <1>2
<1>4. G!Uncaught
  BY <1>1, <1>2 DEF G!Uncaught
<1> QED BY <1>1, <1>2, <1>3, <1>4 DEF G!GraphInv

\* The invariant after a step, put together.
LEMMA Reassembled ==
    ASSUME G!GraphInv, s1' = s1, s2' = <<>> \/ G!Rooted(s1, s2'), s4' \in Seq(G!Frames), s5' \in Seq(G!States),
           s3' \in BOOLEAN, s6' \in 0..GraphCalls, s8' \in {"none", "moved", "nothing", "raised"},
           \A i \in DOMAIN s4' : G!Sound(s1, s4'[i]), ~s7' => G!Uncaught'
    PROVE  G!GraphInv'
<1>1. s1' \in G!Graphs
  BY DEF G!GraphInv
<1> QED BY <1>1 DEF G!GraphInv

\* All transitions but the innermost.
LEMMA PopFrames ==
    ASSUME G!GraphInv, s4 # <<>>
    PROVE  /\ G!Pop \in Seq(G!Frames) /\ \A i \in DOMAIN G!Pop : G!Sound(s1, G!Pop[i])
           /\ Len(s4) \in Nat \ {0} /\ DOMAIN s4 = 1..Len(s4) /\ Len(s4) \in DOMAIN s4
           /\ G!Top = s4[Len(s4)] /\ G!Top \in G!Frames /\ G!Sound(s1, G!Top)
           /\ Len(s4) = 1 => G!Pop = <<>>
<1>1. s4 \in Seq(G!Frames) /\ \A i \in DOMAIN s4 : G!Sound(s1, s4[i])
  BY DEF G!GraphInv
<1>2. Len(s4) \in Nat \ {0} /\ DOMAIN s4 = 1..Len(s4) /\ Len(s4) \in DOMAIN s4 /\ s4[Len(s4)] \in G!Frames
  BY <1>1
<1>3. G!Top = s4[Len(s4)] /\ G!Pop = SubSeq(s4, 1, Len(s4) - 1)
  BY DEF G!Top, G!Pop
<1>4. G!Sound(s1, G!Top) /\ G!Top \in G!Frames
  BY <1>1, <1>2, <1>3
<1>5. PICK q : q = SubSeq(s4, 1, Len(s4) - 1)
  OBVIOUS
<1>6. q \in Seq(G!Frames) /\ DOMAIN q = 1..(Len(s4) - 1) /\ (\A i \in 1..(Len(s4) - 1) : q[i] = s4[i])
      /\ (Len(s4) = 1 => q = <<>>)
  BY <1>1, <1>2, <1>5
<1>7. \A i \in DOMAIN q : G!Sound(s1, q[i])
  <2>1. \A i \in 1..(Len(s4) - 1) : i \in 1..Len(s4)
    BY <1>2
  <2> QED BY <1>1, <1>2, <1>6, <2>1
<1> QED BY <1>2, <1>3, <1>4, <1>5, <1>6, <1>7

\* A refusal or another exception that arrives.
LEMMA RaisedKeeps ==
    ASSUME G!GraphInv, G!Raised(s4), s1' = s1, s3' = FALSE, s4 = <<>> => ~s3 \/ s7, s6' \in 0..GraphCalls
    PROVE  G!GraphInv'
<1>1. s4 \in Seq(G!Frames) /\ s5 \in Seq(G!States) /\ (s2 = <<>> \/ G!Rooted(s1, s2))
      /\ (\A i \in DOMAIN s4 : G!Sound(s1, s4[i])) /\ s8 \in {"none", "moved", "nothing", "raised"}
      /\ (~s7 => G!Uncaught)
  BY DEF G!GraphInv
<1>2. CASE s4 = <<>> /\ s8' = "raised" /\ UNCHANGED <<s7, s2, s5>> /\ s4' = s4
  <2>1. ~s7' => G!Uncaught'
    <3>1. s7' = s7 /\ s2' = s2 /\ s5' = s5 /\ s4' = <<>> /\ s4 = <<>>
      BY <1>2
    <3>2. Len(s4') = 0 /\ DOMAIN s4' = {}
      BY <3>1
    <3> QED BY <1>1, <3>1, <3>2 DEF G!Uncaught
  <2> QED BY <1>1, <1>2, <2>1, Reassembled
<1>3. CASE s4 # <<>> /\ s7' = TRUE /\ UNCHANGED <<s8, s2, s5>> /\ s4' = s4
  <2>1. ~s7' => G!Uncaught'
    BY <1>3
  <2> QED BY <1>1, <1>3, <2>1, Reassembled
<1>4. CASE s8' = "raised" /\ UNCHANGED s7 /\ s2' = <<>> /\ s5' = <<>> /\ s4' = <<>>
  <2>1. Len(s4') = 0 /\ DOMAIN s4' = {} /\ s4' \in Seq(G!Frames) /\ s5' \in Seq(G!States)
    BY <1>4
  <2>2. G!Uncaught'
    BY <1>4, <2>1 DEF G!Uncaught
  <2> QED BY <1>4, <2>1, <2>2, Reassembled
<1> QED BY <1>2, <1>3, <1>4 DEF G!Raised

\* The rest of a path continues what was done, or is all of it.
LEMMA RestOfPath ==
    ASSUME s2 \in Seq(G!States), NEW abs \in Seq(G!States), NEW rest, rest = G!find_rel_path(abs)
    PROVE  rest \in Seq(G!States) /\ (rest = abs \/ (s2 # <<>> /\ s2 \o rest = abs))
<1>1. Len(abs) \in Nat /\ Len(s2) \in Nat
  OBVIOUS
<1>2. CASE Len(abs) > Len(s2) /\ SubSeq(abs, 1, Len(s2)) = s2
  <2>1. rest = SubSeq(abs, Len(s2) + 1, Len(abs))
    BY <1>2 DEF G!find_rel_path
  <2>2. /\ rest \in Seq(G!States) /\ Len(rest) = Len(abs) - Len(s2)
        /\ \A i \in 1..(Len(abs) - Len(s2)) : rest[i] = abs[Len(s2) + i]
    BY <1>1, <1>2, <2>1
  <2>3. \A i \in 1..Len(s2) : s2[i] = abs[i]
    BY <1>1, <1>2
  <2>4. s2 \o rest = abs
    <3>1. Len(abs) = Len(s2) + Len(rest) /\ \A i \in 1..Len(rest) : rest[i] = abs[Len(s2) + i]
      BY <1>1, <2>2
    <3> QED BY <2>2, <2>3, <3>1, SplitAt
  <2>5. s2 = <<>> => rest = abs
    <3>1. ASSUME s2 = <<>> PROVE rest = SubSeq(abs, 1, Len(abs))
      BY <2>1, <3>1
    <3>2. SubSeq(abs, 1, Len(abs)) = abs
      OBVIOUS
    <3> QED BY <3>1, <3>2
  <2> QED BY <2>2, <2>4, <2>5
<1>3. CASE ~(Len(abs) > Len(s2) /\ SubSeq(abs, 1, Len(s2)) = s2)
  BY <1>3 DEF G!find_rel_path
<1> QED BY <1>2, <1>3

\* What the invariant says of the variables, and that the calls are counted.
LEMMA GraphParts ==
    ASSUME G!GraphInv
    PROVE  /\ s1 \in G!Graphs /\ s4 \in Seq(G!Frames) /\ s5 \in Seq(G!States) /\ (s2 = <<>> \/ G!Rooted(s1, s2))
           /\ s2 \in Seq(G!States) /\ s3 \in BOOLEAN /\ s6 \in 0..GraphCalls
           /\ s8 \in {"none", "moved", "nothing", "raised"}
           /\ \A i \in DOMAIN s4 : G!Sound(s1, s4[i])
           /\ ~s7 => G!Uncaught
           /\ G!Begins => s6' \in 0..GraphCalls
<1>1. /\ s1 \in G!Graphs /\ s4 \in Seq(G!Frames) /\ s5 \in Seq(G!States) /\ (s2 = <<>> \/ G!Rooted(s1, s2))
      /\ s3 \in BOOLEAN /\ s6 \in 0..GraphCalls
      /\ s8 \in {"none", "moved", "nothing", "raised"}
      /\ \A i \in DOMAIN s4 : G!Sound(s1, s4[i])
      /\ ~s7 => G!Uncaught
  BY DEF G!GraphInv
<1>2. s2 \in Seq(G!States)
  <2>1. CASE s2 = <<>>
    BY <2>1
  <2>2. CASE G!Rooted(s1, s2)
    BY <2>2 DEF G!Rooted
  <2> QED BY <1>1, <2>1, <2>2
<1>3. G!Begins => s6' \in 0..GraphCalls
  BY <1>1, GraphAssumption DEF G!Begins
<1> QED BY <1>1, <1>2, <1>3

\* transition() while another one runs: the refusal clears the flag.
LEMMA RefusedKeeps == ASSUME G!GraphInv, G!Refused PROVE G!GraphInv'
<1>1. G!Raised(s4) /\ s1' = s1 /\ s3' = FALSE /\ s3 /\ G!Begins
  BY DEF G!Refused
<1>2. s6' \in 0..GraphCalls
  BY <1>1, GraphParts
<1>3. s4 = <<>> => ~s3 \/ s7
  BY GraphParts DEF G!Uncaught
<1> QED BY <1>1, <1>2, <1>3, RaisedKeeps

\* transition() that has found a path.
LEMMA MovesKeeps ==
    ASSUME G!GraphInv, NEW state \in G!States, NEW via \in G!Vias,
           NEW found, found = G!find_abs_path(state, via), ~s3, G!Begins, G!Moves(found, via)
    PROVE  G!GraphInv'
<1>1. PICK abs : abs = found.path
  OBVIOUS
<1>2. PICK rest : rest = G!find_rel_path(abs)
  OBVIOUS
<1>3. PICK new : new = [abs |-> abs, rest |-> rest, at |-> "loop", via |-> via]
  OBVIOUS
<1>4. /\ s3' = TRUE /\ s4' = Append(s4, new) /\ s1' = s1 /\ s2' = s2 /\ s5' = s5 /\ s7' = s7
      /\ s8' \in {"none", s8} /\ found.left = {}
  BY <1>1, <1>2, <1>3 DEF G!Moves
<1>5. via \in Seq(G!States)
  <2>1. via \in G!Lists(G!States \ {1}, MaxVia)
    BY DEF G!Vias
  <2>2. PICK k \in 0..MaxVia : via \in [1..k -> G!States \ {1}]
    BY <2>1 DEF G!Lists
  <2>3. k \in Nat
    BY GraphAssumption
  <2>4. via \in [1..k -> G!States]
    BY <2>2
  <2> QED BY <2>3, <2>4
<1>6. G!Rooted(s1, abs) /\ (Len(via) <= 2 => G!Range(via) \subseteq G!Range(abs))
  <2>1. s1 \in G!Graphs
    BY GraphParts
  <2> QED BY <1>1, <1>4, <1>5, <2>1, FindAbsPath
<1>7. abs \in Seq(G!States)
  BY <1>6 DEF G!Rooted
<1>8. rest \in Seq(G!States) /\ (rest = abs \/ (s2 # <<>> /\ s2 \o rest = abs))
  BY <1>2, <1>7, GraphParts, RestOfPath
<1>9. new \in G!Frames
  BY <1>3, <1>5, <1>7, <1>8 DEF G!Frames
<1>10. G!Sound(s1, new)
  BY <1>3, <1>6 DEF G!Sound
<1>11. /\ s4 \in Seq(G!Frames) /\ s4' \in Seq(G!Frames) /\ Len(s4) \in Nat /\ Len(s4') = Len(s4) + 1
       /\ DOMAIN s4 = 1..Len(s4) /\ DOMAIN s4' = 1..Len(s4) + 1
       /\ s4'[Len(s4) + 1] = new /\ \A i \in 1..Len(s4) : s4'[i] = s4[i]
  <2>1. s4 \in Seq(G!Frames)
    BY GraphParts
  <2> HIDE DEF G!Frames
  <2> QED BY <1>4, <1>9, <2>1, AppendAt
<1>12. \A i \in DOMAIN s4' : G!Sound(s1, s4'[i])
  <2>1. ASSUME NEW i \in DOMAIN s4' PROVE G!Sound(s1, s4'[i])
    <3>1. CASE i = Len(s4) + 1
      BY <1>10, <1>11, <3>1
    <3>2. CASE i # Len(s4) + 1
      <4>1. i \in 1..Len(s4)
        BY <1>11, <3>2
      <4>2. i \in DOMAIN s4 /\ s4'[i] = s4[i]
        BY <1>11, <4>1
      <4>3. G!Sound(s1, s4[i])
        BY <4>2, GraphParts
      <4> QED BY <4>2, <4>3
    <3> QED BY <3>1, <3>2
  <2> QED BY <2>1
<1>13. ASSUME ~s7' PROVE G!Uncaught'
  <2>1. G!Uncaught /\ ~s7
    BY <1>4, <1>13, GraphParts
  <2>2. s4 = <<>> /\ (s2 # <<>> => s5 = s2)
    BY <2>1 DEF G!Uncaught
  <2>3. Len(s4') = 1 /\ s4'[1] = new /\ DOMAIN s4' = 1..1 /\ s4' # <<>>
    <3>1. Len(s4) = 0 /\ 0 + 1 = 1
      BY <2>2
    <3>2. Len(s4') = 1 /\ s4'[1] = new /\ DOMAIN s4' = 1..1
      BY <1>11, <3>1
    <3>3. s4' # <<>>
      <4>1. 1 \in DOMAIN s4'
        BY <3>2
      <4>2. DOMAIN <<>> = {}
        OBVIOUS
      <4> QED BY <4>1, <4>2
    <3> QED BY <3>2, <3>3
  <2>4. G!OnTheWay(s5', new)
    BY <1>3, <1>4, <1>8, <2>2 DEF G!OnTheWay
  <2>5. \A i \in DOMAIN s4' : G!OnTheWay(s5', s4'[i])
    BY <2>3, <2>4
  <2> QED BY <1>4, <2>3, <2>5 DEF G!Uncaught
<1>14. s2' = <<>> \/ G!Rooted(s1, s2')
  BY <1>4, GraphParts
<1>15. s5' \in Seq(G!States) /\ s3' \in BOOLEAN /\ s6' \in 0..GraphCalls /\ s8' \in {"none", "moved", "nothing", "raised"}
  BY <1>4, GraphParts
<1> QED BY <1>4, <1>11, <1>12, <1>13, <1>14, <1>15, Reassembled

\* transition() while no other one runs.
LEMMA TransitionKeeps ==
    ASSUME G!GraphInv, NEW state \in G!States, NEW via \in G!Vias, G!Transition(state, via)
    PROVE  G!GraphInv'
<1>1. PICK found : found = G!find_abs_path(state, via) /\ (G!NoPath(found) \/ G!Nothing(found) \/ G!Moves(found, via))
  BY DEF G!Transition
<1>2. G!Begins /\ ~s3
  BY DEF G!Transition
<1>3. s6' \in 0..GraphCalls
  BY <1>2, GraphParts
<1>4. CASE G!NoPath(found)
  <2>1. G!Raised(s4) /\ s1' = s1 /\ s3' = s3
    BY <1>4 DEF G!NoPath
  <2>2. s3' = FALSE /\ (s4 = <<>> => ~s3 \/ s7)
    BY <1>2, <2>1, GraphParts
  <2> QED BY <1>3, <2>1, <2>2, RaisedKeeps
<1>5. CASE G!Nothing(found)
  <2>1. s1' = s1 /\ s2' = s2 /\ s3' = s3 /\ s4' = s4 /\ s5' = s5 /\ s7' = s7 /\ s8' \in {"nothing", s8}
    BY <1>5 DEF G!Nothing
  <2>2. ~s7' => G!Uncaught'
    BY <2>1, GraphParts DEF G!Uncaught
  <2>3. /\ s2' = <<>> \/ G!Rooted(s1, s2')
        /\ s4' \in Seq(G!Frames) /\ s5' \in Seq(G!States) /\ s3' \in BOOLEAN
        /\ s8' \in {"none", "moved", "nothing", "raised"}
        /\ \A i \in DOMAIN s4' : G!Sound(s1, s4'[i])
    BY <2>1, GraphParts
  <2> QED BY <1>3, <2>1, <2>2, <2>3, Reassembled
<1>6. CASE G!Moves(found, via)
  BY <1>1, <1>2, <1>6, MovesKeeps
<1> QED BY <1>1, <1>4, <1>5, <1>6

\* A sequence with one of its elements replaced.
LEMMA ReplaceAt ==
    ASSUME NEW X, NEW s \in Seq(X), NEW n \in 1..Len(s), NEW g \in X, NEW q, q = [s EXCEPT ![n] = g]
    PROVE  /\ q \in Seq(X) /\ Len(q) = Len(s) /\ DOMAIN q = 1..Len(s) /\ q[n] = g
           /\ \A i \in 1..Len(s) : i # n => q[i] = s[i]
<1>1. s \in [1..Len(s) -> X] /\ Len(s) \in Nat
  OBVIOUS
<1>2. q \in [1..Len(s) -> X] /\ q[n] = g /\ \A i \in 1..Len(s) : i # n => q[i] = s[i]
  BY <1>1
<1>3. q \in Seq(X) /\ Len(q) = Len(s) /\ DOMAIN q = 1..Len(s)
  BY <1>1, <1>2
<1> QED BY <1>2, <1>3

\* The loop over the path begins a method, after all drivers were deactivated for the root.
LEMMA MethodKeeps == ASSUME G!GraphInv, G!Method PROVE G!GraphInv'
<1> DEFINE n == Len(s4)
<1>1. PICK f : f = s4[n]
  OBVIOUS
<1>2. PICK g : g = [f EXCEPT !.at = "method"]
  OBVIOUS
<1>3. /\ s4 # <<>> /\ f.at = "loop" /\ f.rest # <<>> /\ s4' = [s4 EXCEPT ![n].at = "method"]
      /\ s5' = IF Head(f.rest) = 1 THEN <<>> ELSE s5
      /\ s1' = s1 /\ s2' = s2 /\ s3' = s3 /\ s6' = s6 /\ s7' = s7 /\ s8' = s8
  BY <1>1 DEF G!Method, G!Top
<1>4. n \in Nat \ {0} /\ DOMAIN s4 = 1..n /\ n \in DOMAIN s4 /\ f \in G!Frames /\ G!Sound(s1, f)
  BY <1>1, <1>3, PopFrames
<1>5. s4 \in Seq(G!Frames)
  BY GraphParts
<1>6. g \in G!Frames /\ g.at = "method" /\ g.abs = f.abs /\ g.rest = f.rest /\ g.via = f.via
  BY <1>2, <1>4 DEF G!Frames
<1>7. G!Sound(s1, g)
  BY <1>3, <1>4, <1>6 DEF G!Sound
<1>8. s4' = [s4 EXCEPT ![n] = g]
  BY <1>1, <1>2, <1>3
<1> HIDE DEF n
<1>9. s4' \in Seq(G!Frames) /\ DOMAIN s4' = 1..n /\ Len(s4') = n /\ s4'[n] = g /\ \A i \in 1..n : i # n => s4'[i] = s4[i]
  <2>1. n \in 1..Len(s4) /\ n = Len(s4)
    BY <1>4 DEF n
  <2> HIDE DEF G!Frames
  <2> QED BY <1>5, <1>6, <1>8, <2>1, ReplaceAt
<1>10. \A i \in DOMAIN s4' : G!Sound(s1, s4'[i])
  BY <1>4, <1>7, <1>9, GraphParts
<1>11. f.abs \in Seq(G!States) /\ f.rest \in Seq(G!States)
  BY <1>4 DEF G!Frames
<1>12. s5' \in Seq(G!States) /\ s5 \in Seq(G!States)
  BY <1>3, GraphParts
<1>13. ASSUME ~s7' PROVE G!Uncaught'
  <2>1. G!Uncaught
    BY <1>3, <1>13, GraphParts
  <2>2. n = 1 /\ s3
    BY <1>3, <1>4, <2>1 DEF G!Uncaught, n
  <2>3. G!OnTheWay(s5, f)
    BY <1>1, <1>4, <2>1, <2>2 DEF G!Uncaught
  <2>4. s5' \o g.rest = g.abs
    <3>1. f.abs # <<>> /\ f.abs[1] = 1 /\ \A i, j \in DOMAIN f.abs : i < j => f.abs[i] < f.abs[j]
      BY <1>4 DEF G!Sound, G!Rooted
    <3>2. Head(f.rest) = f.rest[1] /\ Len(f.rest) \in Nat \ {0}
      BY <1>3, <1>11
    <3>3. CASE f.rest = f.abs
      <4>1. s5' = <<>>
        BY <1>3, <3>1, <3>2, <3>3
      <4>2. <<>> \o f.abs = f.abs
        BY <1>11
      <4> QED BY <1>6, <3>3, <4>1, <4>2
    <3>4. CASE s5 \o f.rest = f.abs
      <4>1. Len(s5) \in Nat /\ f.abs[Len(s5) + 1] = f.rest[1] /\ Len(f.abs) = Len(s5) + Len(f.rest)
            /\ DOMAIN f.abs = 1..Len(f.abs)
        <5>1. 1 \in 1..Len(f.rest)
          BY <3>2
        <5>2. PICK q : q = s5 \o f.rest
          OBVIOUS
        <5>3. /\ Len(s5) \in Nat /\ Len(q) = Len(s5) + Len(f.rest) /\ q \in Seq(G!States)
              /\ \A i \in 1..Len(f.rest) : q[Len(s5) + i] = f.rest[i]
          BY <1>11, <1>12, <5>2, ConcatAt
        <5> QED BY <3>4, <5>1, <5>2, <5>3
      <4>2. CASE s5 = <<>>
        BY <1>3, <1>6, <3>4, <4>2
      <4>3. CASE s5 # <<>>
        <5>1. Len(s5) # 0
          BY <1>12, <4>3
        <5>2. 1 \in DOMAIN f.abs /\ Len(s5) + 1 \in DOMAIN f.abs /\ 1 < Len(s5) + 1
          BY <3>2, <4>1, <5>1
        <5>3. f.abs[1] < f.abs[Len(s5) + 1]
          BY <3>1, <5>2
        <5>4. Head(f.rest) # 1
          BY <3>1, <3>2, <4>1, <5>3
        <5> QED BY <1>3, <1>6, <3>4, <5>4
      <4> QED BY <4>2, <4>3
    <3> QED BY <2>3, <3>3, <3>4 DEF G!OnTheWay
  <2>5. \A i \in DOMAIN s4' : G!OnTheWay(s5', s4'[i])
    <3>1. G!OnTheWay(s5', g)
      BY <2>4 DEF G!OnTheWay
    <3>2. \A i \in DOMAIN s4' : i = n
      BY <1>9, <2>2
    <3> QED BY <1>9, <3>1, <3>2
  <2>6. s4' # <<>>
    BY <1>4, <1>9
  <2>7. s3' = s3 /\ Len(s4') = 1
    BY <1>3, <1>9, <2>2
  <2> QED BY <2>2, <2>5, <2>6, <2>7 DEF G!Uncaught
<1>14. s2' = <<>> \/ G!Rooted(s1, s2')
  BY <1>3, GraphParts
<1>15. s3' \in BOOLEAN /\ s6' \in 0..GraphCalls /\ s8' \in {"none", "moved", "nothing", "raised"}
  BY <1>3, GraphParts
<1> QED BY <1>3, <1>9, <1>10, <1>12, <1>13, <1>14, <1>15, Reassembled

\* A state method returns: it is the next of what was done.
LEMMA MethodReturnsKeeps == ASSUME G!GraphInv, G!MethodReturns PROVE G!GraphInv'
<1> DEFINE n == Len(s4)
<1>1. PICK f : f = s4[n]
  OBVIOUS
<1>2. PICK g : g = [f EXCEPT !.at = "loop", !.rest = Tail(f.rest)]
  OBVIOUS
<1>3. /\ s4 # <<>> /\ f.at = "method" /\ s4' = [s4 EXCEPT ![n].at = "loop", ![n].rest = Tail(@)]
      /\ s5' = Append(s5, Head(f.rest))
      /\ s1' = s1 /\ s2' = s2 /\ s3' = s3 /\ s6' = s6 /\ s7' = s7 /\ s8' = s8
  BY <1>1 DEF G!MethodReturns, G!InMethod, G!Top
<1>4. n \in Nat \ {0} /\ DOMAIN s4 = 1..n /\ n \in DOMAIN s4 /\ f \in G!Frames /\ G!Sound(s1, f)
  BY <1>1, <1>3, PopFrames
<1>5. s4 \in Seq(G!Frames) /\ s5 \in Seq(G!States)
  BY GraphParts
<1>6. f.rest \in Seq(G!States) /\ f.rest # <<>> /\ f.abs \in Seq(G!States)
  BY <1>3, <1>4 DEF G!Sound, G!Frames
<1>7. PICK head, tail : head = Head(f.rest) /\ tail = Tail(f.rest)
  OBVIOUS
<1>8. /\ tail \in Seq(G!States) /\ head \in G!States /\ head = f.rest[1] /\ Len(f.rest) \in Nat \ {0}
      /\ Len(tail) = Len(f.rest) - 1 /\ \A i \in 1..Len(f.rest) - 1 : i + 1 \in 1..Len(f.rest) /\ tail[i] = f.rest[i + 1]
  BY <1>6, <1>7, TailAt
<1>9. g \in G!Frames /\ g.at = "loop" /\ g.abs = f.abs /\ g.rest = tail /\ g.via = f.via
  BY <1>2, <1>4, <1>7, <1>8 DEF G!Frames
<1>10. G!Sound(s1, g)
  BY <1>4, <1>9 DEF G!Sound
<1>11. s4' = [s4 EXCEPT ![n] = g]
  BY <1>1, <1>2, <1>3, <1>4, <1>5
<1> HIDE DEF n
<1>12. s4' \in Seq(G!Frames) /\ DOMAIN s4' = 1..n /\ Len(s4') = n /\ s4'[n] = g /\ \A i \in 1..n : i # n => s4'[i] = s4[i]
  <2>1. n \in 1..Len(s4) /\ n = Len(s4)
    BY <1>4 DEF n
  <2> HIDE DEF G!Frames
  <2> QED BY <1>5, <1>9, <1>11, <2>1, ReplaceAt
<1>13. \A i \in DOMAIN s4' : G!Sound(s1, s4'[i])
  BY <1>4, <1>10, <1>12, GraphParts
<1>14. /\ s5' \in Seq(G!States) /\ Len(s5) \in Nat /\ Len(s5') = Len(s5) + 1
       /\ s5'[Len(s5) + 1] = head /\ \A i \in 1..Len(s5) : s5'[i] = s5[i]
  BY <1>3, <1>5, <1>7, <1>8, AppendAt
<1>15. ASSUME ~s7' PROVE G!Uncaught'
  <2>1. G!Uncaught
    BY <1>3, <1>15, GraphParts
  <2>2. n = 1 /\ s3
    BY <1>3, <1>4, <2>1 DEF G!Uncaught, n
  <2>3. G!OnTheWay(s5, f)
    BY <1>1, <1>4, <2>1, <2>2 DEF G!Uncaught
  <2>4. PICK q : q = s5 \o f.rest
    OBVIOUS
  <2>5. q = f.abs
    BY <1>3, <2>3, <2>4 DEF G!OnTheWay
  <2>6. /\ q \in Seq(G!States) /\ Len(q) = Len(s5) + Len(f.rest)
        /\ \A i \in 1..Len(s5) : q[i] = s5[i]
        /\ \A i \in 1..Len(f.rest) : q[Len(s5) + i] = f.rest[i]
    BY <1>5, <1>6, <2>4, ConcatAt
  <2>7. s5' \o tail = q
    <3>1. Len(q) = Len(s5') + Len(tail)
      <4>1. PICK a, b : a = Len(s5) /\ b = Len(f.rest)
        OBVIOUS
      <4>2. a \in Nat /\ b \in Nat \ {0} /\ Len(q) = a + b /\ Len(s5') = a + 1 /\ Len(tail) = b - 1
        BY <1>8, <1>14, <2>6, <4>1
      <4> QED BY <4>2
    <3>2. ASSUME NEW i \in 1..Len(s5') PROVE s5'[i] = q[i]
      <4>1. CASE i = Len(s5) + 1
        <5>1. 1 \in 1..Len(f.rest)
          BY <1>8
        <5> QED BY <1>8, <1>14, <2>6, <4>1, <5>1
      <4>2. CASE i # Len(s5) + 1
        <5>1. i \in 1..Len(s5)
          BY <1>14, <4>2
        <5> QED BY <1>14, <2>6, <5>1
      <4> QED BY <4>1, <4>2
    <3>3. ASSUME NEW i \in 1..Len(tail) PROVE tail[i] = q[Len(s5') + i]
      <4>1. i \in 1..Len(f.rest) - 1 /\ Len(s5') + i = Len(s5) + (i + 1)
        BY <1>8, <1>14
      <4> QED BY <1>8, <2>6, <4>1
    <3> QED BY <1>8, <1>14, <2>6, <3>1, <3>2, <3>3, SplitAt
  <2>8. \A i \in DOMAIN s4' : G!OnTheWay(s5', s4'[i])
    <3>1. G!OnTheWay(s5', g)
      BY <1>9, <2>5, <2>7 DEF G!OnTheWay
    <3>2. \A i \in DOMAIN s4' : i = n
      BY <1>12, <2>2
    <3> QED BY <1>12, <3>1, <3>2
  <2>9. s4' # <<>> /\ s3' = s3 /\ Len(s4') = 1
    BY <1>3, <1>4, <1>12, <2>2
  <2> QED BY <2>2, <2>8, <2>9 DEF G!Uncaught
<1>16. s2' = <<>> \/ G!Rooted(s1, s2')
  BY <1>3, GraphParts
<1>17. s3' \in BOOLEAN /\ s6' \in 0..GraphCalls /\ s8' \in {"none", "moved", "nothing", "raised"}
  BY <1>3, GraphParts
<1> QED BY <1>3, <1>12, <1>13, <1>14, <1>15, <1>16, <1>17, Reassembled

\* A state method raises: invalidate() forgets the path.
LEMMA MethodRaisesKeeps == ASSUME G!GraphInv, G!MethodRaises PROVE G!GraphInv'
<1>1. /\ s4 # <<>> /\ s3' = FALSE /\ s1' = s1 /\ s6' = s6 /\ s2' = <<>> /\ s5' = <<>>
      /\ \/ s4' = <<>> /\ s8' = "raised"
         \/ s4' = G!Pop /\ s7' = TRUE /\ s8' = s8
  BY DEF G!MethodRaises, G!InMethod
<1>2. s5' \in Seq(G!States) /\ s6' \in 0..GraphCalls /\ s8' \in {"none", "moved", "nothing", "raised"}
  BY <1>1, GraphParts
<1>3. CASE s4' = <<>>
  <2>1. Len(s4') = 0 /\ DOMAIN s4' = {} /\ s4' \in Seq(G!Frames)
    BY <1>3
  <2>2. G!Uncaught'
    BY <1>1, <1>3, <2>1 DEF G!Uncaught
  <2> QED BY <1>1, <1>2, <2>1, <2>2, Reassembled
<1>4. CASE s4' = G!Pop /\ s7' = TRUE
  <2>1. s4' \in Seq(G!Frames) /\ \A i \in DOMAIN s4' : G!Sound(s1, s4'[i])
    BY <1>1, <1>4, PopFrames
  <2>2. ~s7' => G!Uncaught'
    BY <1>4
  <2> QED BY <1>1, <1>2, <2>1, <2>2, Reassembled
<1> QED BY <1>1, <1>3, <1>4

\* The loop over the path has ended.
LEMMA FinishedKeeps == ASSUME G!GraphInv, G!Finished PROVE G!GraphInv'
<1>1. PICK f : f = G!Top
  OBVIOUS
<1>2. /\ s4 # <<>> /\ f.at = "loop" /\ f.rest = <<>> /\ s2' = f.abs /\ s4' = G!Pop /\ s3' = FALSE
      /\ s8' \in {"moved", s8} /\ s1' = s1 /\ s5' = s5 /\ s6' = s6 /\ s7' = s7
  BY <1>1 DEF G!Finished
<1>3. /\ s4' \in Seq(G!Frames) /\ \A i \in DOMAIN s4' : G!Sound(s1, s4'[i])
      /\ Len(s4) \in Nat \ {0} /\ DOMAIN s4 = 1..Len(s4) /\ Len(s4) \in DOMAIN s4
      /\ f = s4[Len(s4)] /\ f \in G!Frames /\ G!Sound(s1, f)
      /\ Len(s4) = 1 => s4' = <<>>
  BY <1>1, <1>2, PopFrames
<1>4. G!Rooted(s1, f.abs) /\ f.abs # <<>>
  BY <1>3 DEF G!Sound, G!Rooted
<1>5. ASSUME ~s7' PROVE G!Uncaught'
  <2>1. G!Uncaught
    BY <1>2, <1>5, GraphParts
  <2>2. Len(s4) = 1 /\ G!OnTheWay(s5, f)
    <3>1. Len(s4) = 1
      BY <1>3, <2>1 DEF G!Uncaught
    <3> QED BY <1>3, <2>1, <3>1 DEF G!Uncaught
  <2>3. s4' = <<>> /\ Len(s4') = 0 /\ DOMAIN s4' = {}
    BY <1>3, <2>2
  <2>4. s5' = s2'
    <3>1. s5 \o <<>> = f.abs
      BY <1>2, <1>4, <2>2 DEF G!OnTheWay
    <3>2. s5 \in Seq(G!States)
      BY GraphParts
    <3>3. s5 \o <<>> = s5
      BY <3>2
    <3> QED BY <1>2, <3>1, <3>3
  <2> QED BY <1>2, <2>3, <2>4 DEF G!Uncaught
<1>6. s5' \in Seq(G!States) /\ s6' \in 0..GraphCalls /\ s8' \in {"none", "moved", "nothing", "raised"}
  BY <1>2, GraphParts
<1> QED BY <1>2, <1>3, <1>4, <1>5, <1>6, Reassembled

\* invalidate(), called by the user.
LEMMA InvalidateKeeps == ASSUME G!GraphInv, G!Invalidate PROVE G!GraphInv'
<1>1. s4 = <<>> /\ s2' = <<>> /\ s5' = <<>> /\ s1' = s1 /\ s3' = s3 /\ s4' = s4 /\ s6' = s6 /\ s7' = s7 /\ s8' = s8
  BY DEF G!Invalidate, G!Outside
<1>2. ~s7' => G!Uncaught'
  <2>1. Len(s4') = 0 /\ DOMAIN s4' = {} /\ s4' = <<>>
    BY <1>1
  <2> QED BY <1>1, <2>1, GraphParts DEF G!Uncaught
<1>3. /\ s4' \in Seq(G!Frames) /\ s5' \in Seq(G!States) /\ s3' \in BOOLEAN /\ s6' \in 0..GraphCalls
      /\ s8' \in {"none", "moved", "nothing", "raised"} /\ \A i \in DOMAIN s4' : G!Sound(s1, s4'[i])
  BY <1>1, GraphParts
<1> QED BY <1>1, <1>2, <1>3, Reassembled

\* A step of another component.
LEMMA GraphStutter == ASSUME G!GraphInv, UNCHANGED G!vars PROVE G!GraphInv'
<1>1. s1' = s1 /\ s2' = s2 /\ s3' = s3 /\ s4' = s4 /\ s5' = s5 /\ s6' = s6 /\ s7' = s7 /\ s8' = s8
  BY DEF G!vars
<1>2. ~s7' => G!Uncaught'
  BY <1>1, GraphParts DEF G!Uncaught
<1>3. /\ s4' \in Seq(G!Frames) /\ s5' \in Seq(G!States) /\ s3' \in BOOLEAN /\ s6' \in 0..GraphCalls
      /\ s8' \in {"none", "moved", "nothing", "raised"} /\ \A i \in DOMAIN s4' : G!Sound(s1, s4'[i])
      /\ s2' = <<>> \/ G!Rooted(s1, s2')
  BY <1>1, GraphParts
<1> QED BY <1>1, <1>2, <1>3, Reassembled

\* Every step of a graph strategy preserves the invariant.
LEMMA GraphStep == G!GraphInv /\ [G!Next]_G!vars => G!GraphInv'
<1> SUFFICES ASSUME G!GraphInv, [G!Next]_G!vars PROVE G!GraphInv'
  OBVIOUS
<1>1. CASE G!Refused
  BY <1>1, RefusedKeeps
<1>2. CASE G!Method
  BY <1>2, MethodKeeps
<1>3. CASE G!MethodReturns
  BY <1>3, MethodReturnsKeeps
<1>4. CASE G!MethodRaises
  BY <1>4, MethodRaisesKeeps
<1>5. CASE G!Finished
  BY <1>5, FinishedKeeps
<1>6. CASE G!Invalidate
  BY <1>6, InvalidateKeeps
<1>7. CASE \E state \in G!States, via \in G!Vias : G!Transition(state, via)
  BY <1>7, TransitionKeeps
<1>8. CASE UNCHANGED G!vars
  BY <1>8, GraphStutter
<1> QED BY <1>1, <1>2, <1>3, <1>4, <1>5, <1>6, <1>7, <1>8 DEF G!Next

\* The invariant is enough.
LEMMA GraphIsHonest == G!GraphInv => G!TypeOK /\ G!GraphHonest
<1> SUFFICES ASSUME G!GraphInv PROVE G!TypeOK /\ G!GraphHonest
  OBVIOUS
<1>1. G!Range(s2) \subseteq G!States /\ G!Distinct(s2)
  <2>1. CASE s2 = <<>>
    BY <2>1 DEF G!Range, G!Distinct
  <2>2. CASE G!Rooted(s1, s2)
    <3>1. s2 \in Seq(G!States) /\ DOMAIN s2 = 1..Len(s2) /\ Len(s2) \in Nat
          /\ \A i, j \in DOMAIN s2 : i < j => s2[i] < s2[j]
      BY <2>2 DEF G!Rooted
    <3>2. \A i \in DOMAIN s2 : i \in Nat /\ s2[i] \in Nat
      BY <3>1, GraphParts, GraphFacts
    <3>3. ASSUME NEW i \in DOMAIN s2, NEW j \in DOMAIN s2, s2[i] = s2[j] PROVE i = j
      <4>1. ~(i < j) /\ ~(j < i)
        BY <3>1, <3>2, <3>3
      <4> QED BY <3>2, <4>1
    <3>4. G!Range(s2) \subseteq G!States
      BY <3>1 DEF G!Range
    <3> QED BY <3>3, <3>4 DEF G!Distinct
  <2> QED BY <2>1, <2>2, GraphParts
<1>2. ASSUME NEW i \in DOMAIN s4
      PROVE  /\ G!Range(s4[i].rest) \subseteq G!States
             /\ Len(s4[i].via) <= 2 => G!Range(s4[i].via) \subseteq G!Range(s4[i].abs)
             /\ s4[i].abs[1] = 1
             /\ \A k \in 2..Len(s4[i].abs) : s4[i].abs[k - 1] \in G!Range(s1[s4[i].abs[k]])
  <2>1. s4[i] \in G!Frames /\ G!Sound(s1, s4[i])
    BY GraphParts
  <2>2. s4[i].rest \in Seq(G!States)
    BY <2>1 DEF G!Frames
  <2>3. G!Range(s4[i].rest) \subseteq G!States
    BY <2>2 DEF G!Range
  <2> QED BY <2>1, <2>3 DEF G!Sound, G!Rooted
<1>3. G!TypeOK
  BY <1>1, <1>2, GraphParts DEF G!TypeOK
<1>4. G!PathIsHistory /\ G!FlagHeld
  BY GraphParts DEF G!PathIsHistory, G!FlagHeld, G!Uncaught, G!Outside
<1>5. G!ViaHonoured
  BY <1>2 DEF G!ViaHonoured
<1> QED BY <1>3, <1>4, <1>5 DEF G!GraphHonest

-----------------------------------------------------------------------------
(***************************************************************************)
(* The session that microcom runs in (client.py).                          *)
(***************************************************************************)
\* A session that waits for the resource of its console satisfies the invariant.
LEMMA ConsoleSessionInit == M!Init => M!ConsoleSessionInv
BY BoundAssumption DEF M!Init, M!ConsoleSessionInv, M!TypeOK, M!MicrocomKnown, M!ConsoleSessionHonest, M!Noticed, M!NoOrphan, M!ExitHonest, M!ExitCode, M!Running, M!Codes

\* Every step of the session and of the coordinator keeps the invariant.
LEMMA ConsoleSessionStep == M!ConsoleSessionInv /\ [M!Next]_M!vars => M!ConsoleSessionInv'
<1> SUFFICES ASSUME M!ConsoleSessionInv, [M!Next]_M!vars PROVE M!ConsoleSessionInv'
  OBVIOUS
<1> USE BoundAssumption DEF M!ConsoleSessionInv, M!TypeOK, M!MicrocomKnown, M!ConsoleSessionHonest, M!Noticed, M!NoOrphan, M!ExitHonest, M!ExitCode, M!Running, M!Codes
<1>1. CASE M!AwaitResource
  BY <1>1 DEF M!AwaitResource, M!Ends, M!Client
<1>2. CASE M!StartMicrocom
  BY <1>2 DEF M!StartMicrocom, M!Ends, M!Client
<1>3. CASE M!Watch
  BY <1>3 DEF M!Watch, M!Ends, M!Client, M!Return, M!Allowed
<1>4. CASE M!Terminate
  BY <1>4 DEF M!Terminate, M!Ends, M!Client
<1>5. CASE M!Kill
  BY <1>5 DEF M!Kill, M!Ends, M!Client
<1>6. CASE M!SleepEnds
  BY <1>6 DEF M!SleepEnds, M!Client
<1>7. CASE M!PlaceChanges
  BY <1>7 DEF M!PlaceChanges
<1>8. CASE M!PortChanges
  BY <1>8 DEF M!PortChanges
<1>9. CASE M!MicrocomEnds
  BY <1>9 DEF M!MicrocomEnds
<1>10. CASE UNCHANGED M!vars
  BY <1>10 DEF M!vars
<1> QED BY <1>1, <1>2, <1>3, <1>4, <1>5, <1>6, <1>7, <1>8, <1>9, <1>10 DEF M!Next

-----------------------------------------------------------------------------
(***************************************************************************)
(* SSHDriver (driver/sshdriver.py).                                        *)
(***************************************************************************)
\* A driver that was only bound satisfies the invariant.
LEMMA SSHDriverInit == ASSUME D!Init PROVE D!SSHDriverInv
<1> USE BoundAssumption DEF D!Init, D!SSHDriverInv, D!TypeOK, D!ControlKnown, D!ScopesKnown, D!SSHDriverHonest, D!CommandsReachMaster, D!NothingLeft, D!PasswordRemoved, D!ForwardsWork, D!Alive, D!Mastered, D!Fates, D!Attempts, D!Closed
<1>1. D!TypeOK
  <2>1. s3 \in [D!Attempts -> D!Fates] /\ s5 \subseteq D!Attempts /\ s6 \subseteq D!Attempts
    OBVIOUS
  <2>2. s4 \in 0..MaxAttempts /\ s2 \in 0..MaxAttempts
    OBVIOUS
  <2>3. s1 \in {"bound", "connecting", "active"} /\ s7 \in {"none", "running", "dead"} /\ s8 \in BOOLEAN /\ s9 \in BOOLEAN
    OBVIOUS
  <2> QED BY <2>1, <2>2, <2>3
<1>2. D!ControlKnown
  OBVIOUS
<1>3. D!ScopesKnown
  OBVIOUS
<1>4. D!CommandsReachMaster
  OBVIOUS
<1>5. D!NothingLeft
  OBVIOUS
<1>6. D!PasswordRemoved
  OBVIOUS
<1>7. D!ForwardsWork
  OBVIOUS
<1> QED BY <1>1, <1>2, <1>3, <1>4, <1>5, <1>6, <1>7

\* Every step of the driver, of its masters and of the board keeps the invariant.
LEMMA SSHDriverStep == D!SSHDriverInv /\ [D!Next]_D!vars => D!SSHDriverInv'
<1> SUFFICES ASSUME D!SSHDriverInv, [D!Next]_D!vars PROVE D!SSHDriverInv'
  OBVIOUS
<1> USE BoundAssumption DEF D!SSHDriverInv, D!TypeOK, D!ControlKnown, D!ScopesKnown, D!SSHDriverHonest, D!CommandsReachMaster, D!NothingLeft, D!PasswordRemoved, D!ForwardsWork, D!Alive, D!Mastered, D!Fates, D!Attempts, D!Closed
<1>1. CASE D!Activate
  BY <1>1 DEF D!Activate
<1>2. CASE D!AttemptConnects
  BY <1>2 DEF D!AttemptConnects, D!Attempt, D!StartKeepalive
<1>3. CASE D!AttemptBreaks
  BY <1>3 DEF D!AttemptBreaks, D!Attempt
<1>4. CASE D!Deactivate
  BY <1>4 DEF D!Deactivate, D!StopKeepalive, D!CleanupOwnMaster
<1>5. ASSUME NEW fate \in {"refused", "trying"}, D!AttemptFails(fate) PROVE D!SSHDriverInv'
  BY <1>5 DEF D!AttemptFails, D!Attempt
<1>6. CASE D!Run \/ D!RunRefused
  BY <1>6 DEF D!Run, D!RunRefused, D!Answers
<1>7. CASE D!Interact \/ D!Transfer
  BY <1>7 DEF D!Interact, D!Transfer, D!Answers
<1>8. ASSUME NEW remotes, NEW version, NEW sftp, NEW scp, D!Scp(remotes, version, sftp, scp) PROVE D!SSHDriverInv'
  BY <1>8 DEF D!Scp, D!Answers
<1>9. ASSUME NEW s \in Scopes, D!ForwardClose(s) PROVE D!SSHDriverInv'
  <2>1. D!TypeOK'
    BY <1>9 DEF D!ForwardClose
  <2>2. D!ControlKnown'
    BY <1>9 DEF D!ForwardClose
  <2>3. D!ScopesKnown'
    BY <1>9 DEF D!ForwardClose
  <2>4. D!CommandsReachMaster'
    BY <1>9 DEF D!ForwardClose
  <2>5. D!NothingLeft'
    BY <1>9 DEF D!ForwardClose
  <2>6. D!PasswordRemoved'
    BY <1>9 DEF D!ForwardClose
  <2>7. D!ForwardsWork'
    BY <1>9 DEF D!ForwardClose
  <2> QED BY <2>1, <2>2, <2>3, <2>4, <2>5, <2>6, <2>7
<1>10. ASSUME NEW s \in Scopes, NEW port \in Ports, D!ForwardOpen(s, port) PROVE D!SSHDriverInv'
  <2>1. D!TypeOK'
    BY <1>10 DEF D!ForwardOpen
  <2>2. D!ControlKnown'
    BY <1>10 DEF D!ForwardOpen
  <2>3. D!ScopesKnown'
    <3>1. <<port, s4>> \in ({0} \cup Ports) \X (0..MaxAttempts) /\ s4 <= s2
      OBVIOUS
    <3>2. s10' = [s10 EXCEPT ![s] = <<port, s4>>] \/ s10' = s10
      BY <1>10 DEF D!ForwardOpen
    <3>3. s2' = s2
      BY <1>10 DEF D!ForwardOpen
    <3>4. s10' \in [Scopes -> ({0} \cup Ports) \X (0..MaxAttempts)]
      BY <3>1, <3>2
    <3>5. \A t \in Scopes : s10'[t][2] <= s2
      BY <3>1, <3>2
    <3> QED BY <3>3, <3>4, <3>5
  <2>4. D!CommandsReachMaster'
    BY <1>10 DEF D!ForwardOpen
  <2>5. D!NothingLeft'
    BY <1>10 DEF D!ForwardOpen
  <2>6. D!PasswordRemoved'
    BY <1>10 DEF D!ForwardOpen
  <2>7. D!ForwardsWork'
    BY <1>10 DEF D!ForwardOpen
  <2> QED BY <2>1, <2>2, <2>3, <2>4, <2>5, <2>6, <2>7
<1>11. CASE D!BoardDown
  <2>1. D!TypeOK'
    BY <1>11 DEF D!BoardDown
  <2>2. D!ControlKnown'
    BY <1>11 DEF D!BoardDown
  <2>3. D!ScopesKnown'
    BY <1>11 DEF D!BoardDown
  <2>4. D!CommandsReachMaster'
    BY <1>11 DEF D!BoardDown
  <2>5. D!NothingLeft'
    BY <1>11 DEF D!BoardDown
  <2>6. D!PasswordRemoved'
    BY <1>11 DEF D!BoardDown
  <2>7. D!ForwardsWork'
    BY <1>11 DEF D!BoardDown
  <2> QED BY <2>1, <2>2, <2>3, <2>4, <2>5, <2>6, <2>7
<1>12. CASE D!BoardUp
  BY <1>12 DEF D!BoardUp
<1>13. ASSUME NEW i \in D!Attempts, D!LateEnd(i) PROVE D!SSHDriverInv'
  BY <1>13 DEF D!LateEnd
<1>14. CASE UNCHANGED D!vars
  BY <1>14 DEF D!vars
<1> QED BY <1>1, <1>2, <1>3, <1>4, <1>5, <1>6, <1>7, <1>8, <1>9, <1>10, <1>11, <1>12, <1>13, <1>14 DEF D!Next

-----------------------------------------------------------------------------
(***************************************************************************)
(* The coordinator's files (coordinator.py).                               *)
(***************************************************************************)
\* A coordinator that starts with empty files satisfies the invariant.
LEMMA SaveInit == P!Init => P!SaveInv
<1> SUFFICES ASSUME P!Init PROVE P!SaveInv
  OBVIOUS
<1> USE BoundAssumption DEF P!Init, P!Empty, P!Files
<1>1. s7 \in [P!Files -> P!Contents] /\ s8 \in [P!Files -> P!Contents]
  BY DEF P!Contents
<1>2. P!TypeOK
  <2>1. DOMAIN s7 = P!Files /\ DOMAIN s8 = P!Files /\ s5 = "idle"
    BY <1>1
  <2>2. s2 \in 0..MaxChanges /\ s6 \in 0..MaxChanges /\ s10 \in 0..MaxCrashes
    OBVIOUS
  <2>3. s1 \in BOOLEAN /\ s3 \in BOOLEAN /\ s4 \in BOOLEAN /\ s9 \in BOOLEAN
    OBVIOUS
  <2> QED BY <2>1, <2>2, <2>3 DEF P!TypeOK
<1>3. P!PersistenceHonest
  BY DEF P!PersistenceHonest, P!DiskUpToDate, P!DiskWhole, P!ResourcesFirst
<1> QED BY <1>1, <1>2, <1>3 DEF P!SaveInv

\* Every change, every step of save(), a crash and a restart keep the invariant.
LEMMA SaveStep == P!SaveInv /\ [P!Next]_P!vars => P!SaveInv'
<1> SUFFICES ASSUME P!SaveInv, [P!Next]_P!vars PROVE P!SaveInv'
  OBVIOUS
<1> USE BoundAssumption DEF P!SaveInv, P!TypeOK, P!PersistenceHonest, P!DiskUpToDate, P!DiskWhole, P!ResourcesFirst, P!Written
<1>1. CASE P!Change
  <2>1. s2' \in 0..MaxChanges
    BY <1>1 DEF P!Change
  <2> QED BY <1>1, <2>1 DEF P!Change
<1>2. CASE P!Acquire
  BY <1>2 DEF P!Acquire
<1>3. CASE P!SaveBegin
  BY <1>3 DEF P!SaveBegin, P!Due
<1>4. CASE P!Crash
  <2>1. s10' \in 0..MaxCrashes
    BY <1>4 DEF P!Crash
  <2> QED BY <1>4, <2>1 DEF P!Crash
<1>5. CASE P!Restart
  <2>1. s7' \in [P!Files -> P!Contents]
    <3>1. P!Empty \in P!Contents
      BY DEF P!Empty, P!Contents
    <3> QED BY <1>5, <3>1 DEF P!Restart
  <2>2. s2' \in 0..MaxChanges
    <3>1. s8["places"].state \in 0..MaxChanges
      BY DEF P!Contents, P!Files
    <3> QED BY <1>5, <3>1 DEF P!Restart
  <2> QED BY <1>5, <2>1, <2>2 DEF P!Restart, P!Files
<1>6. ASSUME NEW file \in P!Files, P!WriteTemp(file) PROVE P!SaveInv'
  <2>1. file = "resources" \/ file = "places"
    BY DEF P!Files
  <2>2. s8' = s8 /\ UNCHANGED <<s1, s2, s3, s4, s6, s10>> /\ s1 /\ s5 = file
    BY <1>6 DEF P!WriteTemp
  <2>3. \A w \in BOOLEAN : P!Content(w, s6) \in P!Contents
    BY DEF P!Content, P!Contents
  <2>4. P!Empty \in P!Contents
    BY DEF P!Empty, P!Contents
  <2>5. CASE ~s7[file].exists
    <3>1. s7' = [s7 EXCEPT ![file] = P!Content(FALSE, s6)] /\ UNCHANGED <<s5, s9>>
      BY <1>6, <2>5 DEF P!WriteTemp
    <3>2. s7' \in [P!Files -> P!Contents]
      BY <2>3, <3>1
    <3> QED BY <2>1, <2>2, <3>1, <3>2
  <2>6. CASE s7[file].exists
    <3>0. P!Writes(file, IF file = "resources" THEN "replace_resources" ELSE "replace_places")
      BY <1>6, <2>6 DEF P!WriteTemp
    <3>1. CASE s7' = [s7 EXCEPT ![file] = P!Content(TRUE, s6)] /\ s9' = s9
               /\ s5' = IF file = "resources" THEN "replace_resources" ELSE "replace_places"
      <4>1. s7'[file] = P!Content(TRUE, s6) /\ s7' \in [P!Files -> P!Contents]
        BY <2>3, <3>1
      <4>2. s7'[file].exists /\ s7'[file].whole /\ s7'[file].state = s6
        BY <4>1 DEF P!Content
      <4>3. CASE file = "resources"
        BY <2>2, <3>1, <4>1, <4>2, <4>3
      <4>4. CASE file = "places"
        BY <2>2, <3>1, <4>1, <4>2, <4>4
      <4> QED BY <2>1, <4>3, <4>4
    <3>2. CASE s7' = [s7 EXCEPT ![file] = P!Empty] /\ s5' = "idle" /\ s9' = ~s4
      <4>1. s7' \in [P!Files -> P!Contents]
        BY <2>4, <3>2
      <4> QED BY <2>1, <2>2, <3>2, <4>1
    <3> QED BY <3>0, <3>1, <3>2 DEF P!Writes
  <2> QED BY <2>5, <2>6
<1>7. ASSUME NEW file \in P!Files, P!Replace(file) PROVE P!SaveInv'
  <2>1. P!Empty \in P!Contents
    BY DEF P!Empty, P!Contents
  <2>2. s8' = [s8 EXCEPT ![file] = s7[file]] /\ s7' = [s7 EXCEPT ![file] = P!Empty]
    BY <1>7 DEF P!Replace
  <2>3. s8' \in [P!Files -> P!Contents] /\ s7' \in [P!Files -> P!Contents]
    BY <2>1, <2>2
  <2>4. CASE file = "resources"
    BY <1>7, <2>2, <2>3, <2>4 DEF P!Replace, P!Files
  <2>5. CASE file = "places"
    BY <1>7, <2>2, <2>3, <2>5 DEF P!Replace, P!Files
  <2> QED BY <2>4, <2>5 DEF P!Files
<1>8. CASE UNCHANGED P!vars
  BY <1>8 DEF P!vars
<1> QED BY <1>1, <1>2, <1>3, <1>4, <1>5, <1>6, <1>7, <1>8 DEF P!Next

-----------------------------------------------------------------------------
(***************************************************************************)
(* Strategies (strategy/*.py).                                             *)
(***************************************************************************)
Goes == T!Deactivate \/ T!Activate \/ T!Use \/ T!SetStatus

\* Where a body is says what its next step is, and where it is after it.
LEMMA NextInBody ==
    ASSUME s4 \in Seq(T!Orders), NEW body, NEW n \in Nat, NEW k, T!Within(body, n, k)
    PROVE  /\ s4 # <<>> /\ T!Step = body[k] /\ k \in 1..n /\ Tail(s4) \in Seq(T!Orders)
           /\ s4' = Tail(s4) => IF k = n THEN s4' = <<>> ELSE T!Within(body, n, k + 1)' /\ s4' # <<>>
<1>1. /\ k \in 1..n /\ Len(s4) = n + 1 - k /\ \A i \in 1..(n + 1 - k) : s4[i] = body[k - 1 + i]
  BY DEF T!Within, T!Stretch
<1>2. s4 # <<>>
  BY <1>1
<1>3. Head(s4) = s4[1] /\ s4[1] = body[k]
  BY <1>1, <1>2
<1>4. Tail(s4) \in Seq(T!Orders) /\ Len(Tail(s4)) = n - k /\ \A i \in 1..(n - k) : Tail(s4)[i] = s4[i + 1]
  BY <1>1, <1>2
<1>5. ASSUME s4' = Tail(s4), k = n PROVE s4' = <<>>
  BY <1>4, <1>5
<1>6. ASSUME s4' = Tail(s4), k # n PROVE T!Within(body, n, k + 1)' /\ s4' # <<>>
  <2>1. k + 1 \in 1..n /\ n + 1 - (k + 1) = n - k
    BY <1>1, <1>6
  <2>2. \A i \in 1..(n - k) : i + 1 \in 1..(n + 1 - k) /\ k - 1 + (i + 1) = (k + 1) - 1 + i
    BY <1>1
  <2>3. \A i \in 1..(n - k) : s4'[i] = body[(k + 1) - 1 + i]
    BY <1>1, <1>4, <1>6, <2>2
  <2>4. s4' # <<>>
    <3>1. Len(s4') = n - k /\ n - k # 0
      BY <1>1, <1>4, <1>6
    <3>2. s4' = <<>> => Len(s4') = 0
      OBVIOUS
    <3> QED BY <3>1, <3>2
  <2> QED BY <1>4, <1>6, <2>1, <2>3, <2>4 DEF T!Within, T!Stretch
<1> QED BY <1>1, <1>2, <1>3, <1>4, <1>5, <1>6 DEF T!Step

\* What a step does, by its kind.
LEMMA StrategyActivates ==
    ASSUME T!TypeOK, NEW x \in {"power", "console", "loader", "shell", "docker"}, T!Step = <<"activate", x>>, Goes
    PROVE  /\ s5' = IF x \in {"loader", "shell"} THEN (s5 \ {"loader", "shell"}) \cup {"console", x} ELSE s5 \cup {x}
           /\ s6' \in {"off", "loader", "linux", "booting"}
           /\ x \in s5 \/ x \notin {"loader", "shell"} => s6' = s6
           /\ x \notin s5 /\ x = "loader" => s6' = "loader"
           /\ x \notin s5 /\ x = "shell" => s6' = "linux"
           /\ s4' = Tail(s4) /\ UNCHANGED <<s1, s2, s3, s7, s8, s9>>
<1>1. T!Step[1] = "activate" /\ T!Step[2] = x
  OBVIOUS
<1>2. T!Activate
  BY <1>1 DEF Goes, T!Deactivate, T!Use, T!SetStatus
<1>3. s6 \in {"off", "loader", "linux", "booting"}
  BY DEF T!TypeOK
<1>4. s4' = Tail(s4) /\ UNCHANGED <<s1, s2, s3, s7, s8, s9>>
  BY <1>2 DEF T!Activate, T!Goes
<1>5. s5' = IF x \in {"loader", "shell"} THEN (s5 \ {"loader", "shell"}) \cup {"console", x} ELSE s5 \cup {x}
  BY <1>1, <1>2 DEF T!Activate
<1>6. x \in s5 \/ s6 \in T!Prompt(x) \/ (s6 = "booting" /\ x \in {"loader", "shell"})
  BY <1>1, <1>2 DEF T!Activate
<1>7. x \notin s5 => s6' = [off |-> s6, loader |-> s6, linux |-> s6,
                 booting |-> CASE x = "loader" -> "loader" [] x = "shell" -> "linux" [] OTHER -> s6][s6]
  BY <1>1, <1>2 DEF T!Activate
<1>8. x \in s5 => s6' = s6
  BY <1>1, <1>2 DEF T!Activate
<1>9. CASE x \notin s5 /\ x \notin {"loader", "shell"}
  BY <1>3, <1>4, <1>5, <1>7, <1>9
<1>10. CASE x \notin s5 /\ x = "loader"
  BY <1>3, <1>4, <1>5, <1>6, <1>7, <1>10 DEF T!Prompt
<1>11. CASE x \notin s5 /\ x = "shell"
  BY <1>3, <1>4, <1>5, <1>6, <1>7, <1>11 DEF T!Prompt
<1>12. CASE x \in s5
  BY <1>3, <1>4, <1>5, <1>8, <1>12
<1> QED BY <1>9, <1>10, <1>11, <1>12

\* What using a driver does to the board.
LEMMA StrategyUses ==
    ASSUME T!TypeOK, NEW x \in {"off", "docker_off", "cycle", "boot", "await_boot", "run", "on"}, T!Step = <<"use", x>>, Goes
    PROVE  /\ x = "await_boot" => s6 = "booting"
           /\ s6' = CASE x \in {"off", "docker_off"} -> "off"
                      [] x \in {"cycle", "boot"} -> "booting"
                      [] x = "on" -> "linux"
                      [] OTHER -> s6
           /\ s6' \in {"off", "loader", "linux", "booting"}
           /\ s4' = Tail(s4) /\ UNCHANGED <<s1, s2, s3, s5, s7, s8, s9>>
<1>1. T!Step[1] = "use" /\ T!Step[2] = x
  OBVIOUS
<1>2. T!Use
  BY <1>1 DEF Goes, T!Deactivate, T!Activate, T!SetStatus
<1> QED BY <1>1, <1>2 DEF T!Use, T!Goes, T!TypeOK

\* What deactivating a driver does, and that a console takes the drivers on it along.
LEMMA StrategyDeactivates ==
    ASSUME NEW x, T!Step = <<"deactivate", x>>, Goes
    PROVE  /\ s5' = s5 \ (IF x = "console" THEN {"console", "loader", "shell"} ELSE {x})
           /\ x = "console" => T!Quiet' /\ ~s8'
           /\ s8' => s8
           /\ s4' = Tail(s4) /\ UNCHANGED <<s1, s2, s3, s6, s7, s9>>
<1>1. T!Step[1] = "deactivate" /\ T!Step[2] = x
  OBVIOUS
<1>2. T!Deactivate
  BY <1>1 DEF Goes, T!Activate, T!Use, T!SetStatus
<1>3. s5' = s5 \ (IF x = "console" THEN {"console", "loader", "shell"} ELSE {x})
  BY <1>1, <1>2 DEF T!Deactivate
<1>4. s8' = (s8 /\ s5' \cap {"loader", "shell"} # {})
  BY <1>2 DEF T!Deactivate
<1>5. x = "console" => s5' \cap {"loader", "shell"} = {}
  BY <1>3
<1>6. s4' = Tail(s4) /\ UNCHANGED <<s1, s2, s3, s6, s7, s9>>
  BY <1>2 DEF T!Deactivate, T!Goes
<1> QED BY <1>3, <1>4, <1>5, <1>6 DEF T!Quiet

\* What entering a status does, at the end of a transition and of a force().
LEMMA StrategySets ==
    ASSUME NEW x, NEW how \in {"status", "force"}, T!Step = <<how, x>>, Goes
    PROVE  /\ s2' = x /\ s7' = (how = "force") /\ s9' = "done"
           /\ s8' <=> (s8 \/ (how = "force" /\ x = "off" /\ s5 \cap {"loader", "shell"} # {}))
           /\ how = "status" => (s8' <=> s8)
           /\ how = "force" => s7' /\ (s8 => s8')
           /\ how = "force" /\ x = "off" => s8' \/ T!Quiet'
           /\ s4' = Tail(s4) /\ UNCHANGED <<s1, s3, s5, s6>>
<1>1. T!Step[1] = how /\ T!Step[2] = x /\ (T!Step = <<"force", "off">> <=> how = "force" /\ x = "off")
  OBVIOUS
<1>2. T!SetStatus
  BY <1>1 DEF Goes, T!Activate, T!Use, T!Deactivate
<1>3. /\ s2' = x /\ s7' = (how = "force") /\ s9' = "done"
      /\ s8' <=> (s8 \/ (how = "force" /\ x = "off" /\ s5 \cap {"loader", "shell"} # {}))
      /\ s4' = Tail(s4) /\ UNCHANGED <<s1, s3, s5, s6>>
  BY <1>1, <1>2 DEF T!SetStatus, T!Goes, T!Do
<1>4. how = "force" /\ x = "off" => s8' \/ T!Quiet'
  BY <1>3 DEF T!Quiet
<1>5. how = "force" => s7'
  BY <1>3
<1> HIDE DEF Goes
<1>6. how = "status" => (s8' <=> s8)
  BY <1>3
<1> QED BY <1>3, <1>4, <1>5, <1>6

\* What a step keeps of the types.
Kept == /\ s1' = s1 /\ s3' = s3 /\ s2' \in T!Statuses \cup {"unknown"}
        /\ s5' \subseteq {"power", "console", "loader", "shell", "docker"}
        /\ s6' \in {"off", "loader", "linux", "booting"}
        /\ s9' \in {"none", "done", "nothing", "failed", "refused"}
        /\ s4' = Tail(s4)
        /\ s1 = "docker" => s5' \subseteq {"docker"}
        /\ s1 = "shell" => "loader" \notin s5'


\* The steps of this body, one after the other.
LEMMA LoaderGoes ==
    ASSUME T!StrategiesInv, T!HasLoader, NEW n \in {4, 8, 13}, NEW k \in 1..13, T!Within(T!LoaderBody, n, k), T!LoaderKnown(k)
    PROVE  /\ Goes => Kept /\ (k < n => T!LoaderKnown(k + 1)') /\ (k = n => T!Resting')
           /\ T!Step[1] = "use" => T!Driver \in s5
<1>1. T!TypeOK /\ s4 \in Seq(T!Orders) /\ n \in Nat /\ k <= n
  BY DEF T!StrategiesInv, T!Within
<1>2. T!Step = T!LoaderBody[k]
  BY <1>1, NextInBody
<1>3. s1 \in T!Kinds /\ s2 \in T!Statuses \cup {"unknown"} /\ s5 \subseteq {"power", "console", "loader", "shell", "docker"}
      /\ s6 \in {"off", "loader", "linux", "booting"} /\ s9 \in {"none", "done", "nothing", "failed", "refused"}
      /\ (s1 = "docker" => s5 \subseteq {"docker"}) /\ (s1 = "shell" => "loader" \notin s5)
  BY DEF T!StrategiesInv, T!TypeOK, T!DriversReady
<1> DEFINE Goal == /\ Goes => Kept /\ (k < n => T!LoaderKnown(k + 1)') /\ (k = n => T!Resting')
                   /\ T!Step[1] = "use" => T!Driver \in s5
<1>4. CASE k = 1
  <2>1. T!Step = <<"deactivate", "console">> /\ T!Step[1] = "deactivate" /\ T!Step[2] = "console"
    BY <1>2, <1>4 DEF T!LoaderBody, T!Do
  <2>3. ASSUME Goes PROVE Kept
    BY <1>1, <1>3, <2>1, <2>3, StrategyDeactivates DEF Kept, T!Statuses, T!HasLoader, T!Kinds
  <2>4. ASSUME Goes, k < n PROVE T!LoaderKnown(k + 1)'
    <3>1. k + 1 = 2
      BY <1>4
    <3>2. T!LoaderKnown(2)'
      BY <1>1, <1>3, <2>1, <2>4, <1>4, StrategyDeactivates DEF T!LoaderKnown, T!ShellKnown, T!OffKnown, T!Quiet, T!KnownLoader, T!KnownShell, T!Prompts, T!AtPrompt
    <3> QED BY <3>1, <3>2
  <2>5. k # n
    BY <1>4
  <2> QED BY <2>1, <2>3, <2>4, <2>5
<1>5. CASE k = 2
  <2>1. T!Step = <<"activate", "power">> /\ T!Step[1] = "activate" /\ T!Step[2] = "power"
    BY <1>2, <1>5 DEF T!LoaderBody, T!Do
  <2>3. ASSUME Goes PROVE Kept
    BY <1>1, <1>3, <2>1, <2>3, StrategyActivates DEF Kept, T!Statuses, T!HasLoader, T!Kinds
  <2>4. ASSUME Goes, k < n PROVE T!LoaderKnown(k + 1)'
    <3>1. k + 1 = 3
      BY <1>5
    <3>2. T!LoaderKnown(3)'
      BY <1>1, <1>3, <2>1, <2>4, <1>5, StrategyActivates DEF T!LoaderKnown, T!ShellKnown, T!OffKnown, T!Quiet, T!KnownLoader, T!KnownShell, T!Prompts, T!AtPrompt
    <3> QED BY <3>1, <3>2
  <2>5. k # n
    BY <1>5
  <2> QED BY <2>1, <2>3, <2>4, <2>5
<1>6. CASE k = 3
  <2>1. T!Step = <<"use", "off">> /\ T!Step[1] = "use" /\ T!Step[2] = "off"
    BY <1>2, <1>6 DEF T!LoaderBody, T!Do
  <2>2. T!Driver = "power" /\ "power" \in s5
    BY <2>1, <1>6 DEF T!Driver, T!LoaderKnown, T!ShellKnown, T!OffKnown, T!Quiet, T!KnownLoader, T!KnownShell, T!Prompts, T!AtPrompt
  <2>3. ASSUME Goes PROVE Kept
    BY <1>1, <1>3, <2>1, <2>3, StrategyUses DEF Kept, T!Statuses, T!HasLoader, T!Kinds
  <2>4. ASSUME Goes, k < n PROVE T!LoaderKnown(k + 1)'
    <3>1. k + 1 = 4
      BY <1>6
    <3>2. T!LoaderKnown(4)'
      BY <1>1, <1>3, <2>1, <2>4, <1>6, StrategyUses DEF T!LoaderKnown, T!ShellKnown, T!OffKnown, T!Quiet, T!KnownLoader, T!KnownShell, T!Prompts, T!AtPrompt
    <3> QED BY <3>1, <3>2
  <2>5. k # n
    BY <1>6
  <2> QED BY <2>1, <2>2, <2>3, <2>4, <2>5
<1>7. CASE k = 4
  <2>1. T!Step = <<"status", "off">> /\ T!Step[1] = "status" /\ T!Step[2] = "off"
    BY <1>2, <1>7 DEF T!LoaderBody, T!Do
  <2>3. ASSUME Goes PROVE Kept
    BY <1>1, <1>3, <2>1, <2>3, StrategySets DEF Kept, T!Statuses, T!HasLoader, T!Kinds
  <2>4. ASSUME Goes, k < n PROVE T!LoaderKnown(k + 1)'
    <3>1. k + 1 = 5
      BY <1>7
    <3>2. T!LoaderKnown(5)'
      BY <1>1, <1>3, <2>1, <2>4, <1>7, StrategySets DEF T!LoaderKnown, T!ShellKnown, T!OffKnown, T!Quiet, T!KnownLoader, T!KnownShell, T!Prompts, T!AtPrompt
    <3> QED BY <3>1, <3>2
  <2>5. ASSUME Goes PROVE T!Resting'
    BY <1>1, <1>3, <2>1, <2>5, <1>7, StrategySets DEF T!Resting, T!HasLoader, T!Kinds, T!LoaderKnown, T!ShellKnown, T!OffKnown, T!Quiet, T!KnownLoader, T!KnownShell, T!Prompts, T!AtPrompt
  <2> QED BY <2>1, <2>3, <2>4, <2>5
<1>8. CASE k = 5
  <2>1. T!Step = <<"activate", "console">> /\ T!Step[1] = "activate" /\ T!Step[2] = "console"
    BY <1>2, <1>8 DEF T!LoaderBody, T!Do
  <2>3. ASSUME Goes PROVE Kept
    BY <1>1, <1>3, <2>1, <2>3, StrategyActivates DEF Kept, T!Statuses, T!HasLoader, T!Kinds
  <2>4. ASSUME Goes, k < n PROVE T!LoaderKnown(k + 1)'
    <3>1. k + 1 = 6
      BY <1>8
    <3>2. T!LoaderKnown(6)'
      BY <1>1, <1>3, <2>1, <2>4, <1>8, StrategyActivates DEF T!LoaderKnown, T!ShellKnown, T!OffKnown, T!Quiet, T!KnownLoader, T!KnownShell, T!Prompts, T!AtPrompt
    <3> QED BY <3>1, <3>2
  <2>5. k # n
    BY <1>8
  <2> QED BY <2>1, <2>3, <2>4, <2>5
<1>9. CASE k = 6
  <2>1. T!Step = <<"use", "cycle">> /\ T!Step[1] = "use" /\ T!Step[2] = "cycle"
    BY <1>2, <1>9 DEF T!LoaderBody, T!Do
  <2>2. T!Driver = "power" /\ "power" \in s5
    BY <2>1, <1>9 DEF T!Driver, T!LoaderKnown, T!ShellKnown, T!OffKnown, T!Quiet, T!KnownLoader, T!KnownShell, T!Prompts, T!AtPrompt
  <2>3. ASSUME Goes PROVE Kept
    BY <1>1, <1>3, <2>1, <2>3, StrategyUses DEF Kept, T!Statuses, T!HasLoader, T!Kinds
  <2>4. ASSUME Goes, k < n PROVE T!LoaderKnown(k + 1)'
    <3>1. k + 1 = 7
      BY <1>9
    <3>2. T!LoaderKnown(7)'
      BY <1>1, <1>3, <2>1, <2>4, <1>9, StrategyUses DEF T!LoaderKnown, T!ShellKnown, T!OffKnown, T!Quiet, T!KnownLoader, T!KnownShell, T!Prompts, T!AtPrompt
    <3> QED BY <3>1, <3>2
  <2>5. k # n
    BY <1>9
  <2> QED BY <2>1, <2>2, <2>3, <2>4, <2>5
<1>10. CASE k = 7
  <2>1. T!Step = <<"activate", "loader">> /\ T!Step[1] = "activate" /\ T!Step[2] = "loader"
    BY <1>2, <1>10 DEF T!LoaderBody, T!Do
  <2>3. ASSUME Goes PROVE Kept
    BY <1>1, <1>3, <2>1, <2>3, StrategyActivates DEF Kept, T!Statuses, T!HasLoader, T!Kinds
  <2>4. ASSUME Goes, k < n PROVE T!LoaderKnown(k + 1)'
    <3>1. k + 1 = 8
      BY <1>10
    <3>2. T!LoaderKnown(8)'
      BY <1>1, <1>3, <2>1, <2>4, <1>10, StrategyActivates DEF T!LoaderKnown, T!ShellKnown, T!OffKnown, T!Quiet, T!KnownLoader, T!KnownShell, T!Prompts, T!AtPrompt
    <3> QED BY <3>1, <3>2
  <2>5. k # n
    BY <1>10
  <2> QED BY <2>1, <2>3, <2>4, <2>5
<1>11. CASE k = 8
  <2>1. T!Step = <<"status", "loader">> /\ T!Step[1] = "status" /\ T!Step[2] = "loader"
    BY <1>2, <1>11 DEF T!LoaderBody, T!Do
  <2>3. ASSUME Goes PROVE Kept
    BY <1>1, <1>3, <2>1, <2>3, StrategySets DEF Kept, T!Statuses, T!HasLoader, T!Kinds
  <2>4. ASSUME Goes, k < n PROVE T!LoaderKnown(k + 1)'
    <3>1. k + 1 = 9
      BY <1>11
    <3>2. T!LoaderKnown(9)'
      BY <1>1, <1>3, <2>1, <2>4, <1>11, StrategySets DEF T!LoaderKnown, T!ShellKnown, T!OffKnown, T!Quiet, T!KnownLoader, T!KnownShell, T!Prompts, T!AtPrompt
    <3> QED BY <3>1, <3>2
  <2>5. ASSUME Goes PROVE T!Resting'
    BY <1>1, <1>3, <2>1, <2>5, <1>11, StrategySets DEF T!Resting, T!HasLoader, T!Kinds, T!LoaderKnown, T!ShellKnown, T!OffKnown, T!Quiet, T!KnownLoader, T!KnownShell, T!Prompts, T!AtPrompt
  <2> QED BY <2>1, <2>3, <2>4, <2>5
<1>12. CASE k = 9
  <2>1. T!Step = <<"use", "boot">> /\ T!Step[1] = "use" /\ T!Step[2] = "boot"
    BY <1>2, <1>12 DEF T!LoaderBody, T!Do
  <2>2. T!Driver = "loader" /\ "loader" \in s5
    BY <2>1, <1>12 DEF T!Driver, T!LoaderKnown, T!ShellKnown, T!OffKnown, T!Quiet, T!KnownLoader, T!KnownShell, T!Prompts, T!AtPrompt
  <2>3. ASSUME Goes PROVE Kept
    BY <1>1, <1>3, <2>1, <2>3, StrategyUses DEF Kept, T!Statuses, T!HasLoader, T!Kinds
  <2>4. ASSUME Goes, k < n PROVE T!LoaderKnown(k + 1)'
    <3>1. k + 1 = 10
      BY <1>12
    <3>2. T!LoaderKnown(10)'
      BY <1>1, <1>3, <2>1, <2>4, <1>12, StrategyUses DEF T!LoaderKnown, T!ShellKnown, T!OffKnown, T!Quiet, T!KnownLoader, T!KnownShell, T!Prompts, T!AtPrompt
    <3> QED BY <3>1, <3>2
  <2>5. k # n
    BY <1>12
  <2> QED BY <2>1, <2>2, <2>3, <2>4, <2>5
<1>13. CASE k = 10
  <2>1. T!Step = <<"use", "await_boot">> /\ T!Step[1] = "use" /\ T!Step[2] = "await_boot"
    BY <1>2, <1>13 DEF T!LoaderBody, T!Do
  <2>2. T!Driver = "loader" /\ "loader" \in s5
    BY <2>1, <1>13 DEF T!Driver, T!LoaderKnown, T!ShellKnown, T!OffKnown, T!Quiet, T!KnownLoader, T!KnownShell, T!Prompts, T!AtPrompt
  <2>3. ASSUME Goes PROVE Kept
    BY <1>1, <1>3, <2>1, <2>3, StrategyUses DEF Kept, T!Statuses, T!HasLoader, T!Kinds
  <2>4. ASSUME Goes, k < n PROVE T!LoaderKnown(k + 1)'
    <3>1. k + 1 = 11
      BY <1>13
    <3>2. T!LoaderKnown(11)'
      BY <1>1, <1>3, <2>1, <2>4, <1>13, StrategyUses DEF T!LoaderKnown, T!ShellKnown, T!OffKnown, T!Quiet, T!KnownLoader, T!KnownShell, T!Prompts, T!AtPrompt
    <3> QED BY <3>1, <3>2
  <2>5. k # n
    BY <1>13
  <2> QED BY <2>1, <2>2, <2>3, <2>4, <2>5
<1>14. CASE k = 11
  <2>1. T!Step = <<"activate", "shell">> /\ T!Step[1] = "activate" /\ T!Step[2] = "shell"
    BY <1>2, <1>14 DEF T!LoaderBody, T!Do
  <2>3. ASSUME Goes PROVE Kept
    BY <1>1, <1>3, <2>1, <2>3, StrategyActivates DEF Kept, T!Statuses, T!HasLoader, T!Kinds
  <2>4. ASSUME Goes, k < n PROVE T!LoaderKnown(k + 1)'
    <3>1. k + 1 = 12
      BY <1>14
    <3>2. T!LoaderKnown(12)'
      BY <1>1, <1>3, <2>1, <2>4, <1>14, StrategyActivates DEF T!LoaderKnown, T!ShellKnown, T!OffKnown, T!Quiet, T!KnownLoader, T!KnownShell, T!Prompts, T!AtPrompt
    <3> QED BY <3>1, <3>2
  <2>5. k # n
    BY <1>14
  <2> QED BY <2>1, <2>3, <2>4, <2>5
<1>15. CASE k = 12
  <2>1. T!Step = <<"use", "run">> /\ T!Step[1] = "use" /\ T!Step[2] = "run"
    BY <1>2, <1>15 DEF T!LoaderBody, T!Do
  <2>2. T!Driver = "shell" /\ "shell" \in s5
    BY <2>1, <1>15 DEF T!Driver, T!LoaderKnown, T!ShellKnown, T!OffKnown, T!Quiet, T!KnownLoader, T!KnownShell, T!Prompts, T!AtPrompt
  <2>3. ASSUME Goes PROVE Kept
    BY <1>1, <1>3, <2>1, <2>3, StrategyUses DEF Kept, T!Statuses, T!HasLoader, T!Kinds
  <2>4. ASSUME Goes, k < n PROVE T!LoaderKnown(k + 1)'
    <3>1. k + 1 = 13
      BY <1>15
    <3>2. T!LoaderKnown(13)'
      BY <1>1, <1>3, <2>1, <2>4, <1>15, StrategyUses DEF T!LoaderKnown, T!ShellKnown, T!OffKnown, T!Quiet, T!KnownLoader, T!KnownShell, T!Prompts, T!AtPrompt
    <3> QED BY <3>1, <3>2
  <2>5. k # n
    BY <1>15
  <2> QED BY <2>1, <2>2, <2>3, <2>4, <2>5
<1>16. CASE k = 13
  <2>1. T!Step = <<"status", "shell">> /\ T!Step[1] = "status" /\ T!Step[2] = "shell"
    BY <1>2, <1>16 DEF T!LoaderBody, T!Do
  <2>3. ASSUME Goes PROVE Kept
    BY <1>1, <1>3, <2>1, <2>3, StrategySets DEF Kept, T!Statuses, T!HasLoader, T!Kinds
  <2>4. ~(k < n)
    BY <1>1, <1>16
  <2>5. ASSUME Goes PROVE T!Resting'
    BY <1>1, <1>3, <2>1, <2>5, <1>16, StrategySets DEF T!Resting, T!HasLoader, T!Kinds, T!LoaderKnown, T!ShellKnown, T!OffKnown, T!Quiet, T!KnownLoader, T!KnownShell, T!Prompts, T!AtPrompt
  <2> QED BY <2>1, <2>3, <2>4, <2>5
<1> QED BY <1>4, <1>5, <1>6, <1>7, <1>8, <1>9, <1>10, <1>11, <1>12, <1>13, <1>14, <1>15, <1>16

\* The steps of this body, one after the other.
LEMMA ShellGoes ==
    ASSUME T!StrategiesInv, s1 = "shell", NEW n \in {4, 9}, NEW k \in 1..9, T!Within(T!ShellBody, n, k), T!ShellKnown(k)
    PROVE  /\ Goes => Kept /\ (k < n => T!ShellKnown(k + 1)') /\ (k = n => T!Resting')
           /\ T!Step[1] = "use" => T!Driver \in s5
<1>1. T!TypeOK /\ s4 \in Seq(T!Orders) /\ n \in Nat /\ k <= n
  BY DEF T!StrategiesInv, T!Within
<1>2. T!Step = T!ShellBody[k]
  BY <1>1, NextInBody
<1>3. s1 \in T!Kinds /\ s2 \in T!Statuses \cup {"unknown"} /\ s5 \subseteq {"power", "console", "loader", "shell", "docker"}
      /\ s6 \in {"off", "loader", "linux", "booting"} /\ s9 \in {"none", "done", "nothing", "failed", "refused"}
      /\ (s1 = "docker" => s5 \subseteq {"docker"}) /\ (s1 = "shell" => "loader" \notin s5)
  BY DEF T!StrategiesInv, T!TypeOK, T!DriversReady
<1> DEFINE Goal == /\ Goes => Kept /\ (k < n => T!ShellKnown(k + 1)') /\ (k = n => T!Resting')
                   /\ T!Step[1] = "use" => T!Driver \in s5
<1>4. CASE k = 1
  <2>1. T!Step = <<"deactivate", "console">> /\ T!Step[1] = "deactivate" /\ T!Step[2] = "console"
    BY <1>2, <1>4 DEF T!ShellBody, T!Do
  <2>3. ASSUME Goes PROVE Kept
    BY <1>1, <1>3, <2>1, <2>3, StrategyDeactivates DEF Kept, T!Statuses, T!HasLoader, T!Kinds
  <2>4. ASSUME Goes, k < n PROVE T!ShellKnown(k + 1)'
    <3>1. k + 1 = 2
      BY <1>4
    <3>2. T!ShellKnown(2)'
      BY <1>1, <1>3, <2>1, <2>4, <1>4, StrategyDeactivates DEF T!LoaderKnown, T!ShellKnown, T!OffKnown, T!Quiet, T!KnownLoader, T!KnownShell, T!Prompts, T!AtPrompt
    <3> QED BY <3>1, <3>2
  <2>5. k # n
    BY <1>4
  <2> QED BY <2>1, <2>3, <2>4, <2>5
<1>5. CASE k = 2
  <2>1. T!Step = <<"activate", "power">> /\ T!Step[1] = "activate" /\ T!Step[2] = "power"
    BY <1>2, <1>5 DEF T!ShellBody, T!Do
  <2>3. ASSUME Goes PROVE Kept
    BY <1>1, <1>3, <2>1, <2>3, StrategyActivates DEF Kept, T!Statuses, T!HasLoader, T!Kinds
  <2>4. ASSUME Goes, k < n PROVE T!ShellKnown(k + 1)'
    <3>1. k + 1 = 3
      BY <1>5
    <3>2. T!ShellKnown(3)'
      BY <1>1, <1>3, <2>1, <2>4, <1>5, StrategyActivates DEF T!LoaderKnown, T!ShellKnown, T!OffKnown, T!Quiet, T!KnownLoader, T!KnownShell, T!Prompts, T!AtPrompt
    <3> QED BY <3>1, <3>2
  <2>5. k # n
    BY <1>5
  <2> QED BY <2>1, <2>3, <2>4, <2>5
<1>6. CASE k = 3
  <2>1. T!Step = <<"use", "off">> /\ T!Step[1] = "use" /\ T!Step[2] = "off"
    BY <1>2, <1>6 DEF T!ShellBody, T!Do
  <2>2. T!Driver = "power" /\ "power" \in s5
    BY <2>1, <1>6 DEF T!Driver, T!LoaderKnown, T!ShellKnown, T!OffKnown, T!Quiet, T!KnownLoader, T!KnownShell, T!Prompts, T!AtPrompt
  <2>3. ASSUME Goes PROVE Kept
    BY <1>1, <1>3, <2>1, <2>3, StrategyUses DEF Kept, T!Statuses, T!HasLoader, T!Kinds
  <2>4. ASSUME Goes, k < n PROVE T!ShellKnown(k + 1)'
    <3>1. k + 1 = 4
      BY <1>6
    <3>2. T!ShellKnown(4)'
      BY <1>1, <1>3, <2>1, <2>4, <1>6, StrategyUses DEF T!LoaderKnown, T!ShellKnown, T!OffKnown, T!Quiet, T!KnownLoader, T!KnownShell, T!Prompts, T!AtPrompt
    <3> QED BY <3>1, <3>2
  <2>5. k # n
    BY <1>6
  <2> QED BY <2>1, <2>2, <2>3, <2>4, <2>5
<1>7. CASE k = 4
  <2>1. T!Step = <<"status", "off">> /\ T!Step[1] = "status" /\ T!Step[2] = "off"
    BY <1>2, <1>7 DEF T!ShellBody, T!Do
  <2>3. ASSUME Goes PROVE Kept
    BY <1>1, <1>3, <2>1, <2>3, StrategySets DEF Kept, T!Statuses, T!HasLoader, T!Kinds
  <2>4. ASSUME Goes, k < n PROVE T!ShellKnown(k + 1)'
    <3>1. k + 1 = 5
      BY <1>7
    <3>2. T!ShellKnown(5)'
      BY <1>1, <1>3, <2>1, <2>4, <1>7, StrategySets DEF T!LoaderKnown, T!ShellKnown, T!OffKnown, T!Quiet, T!KnownLoader, T!KnownShell, T!Prompts, T!AtPrompt
    <3> QED BY <3>1, <3>2
  <2>5. ASSUME Goes PROVE T!Resting'
    BY <1>1, <1>3, <2>1, <2>5, <1>7, StrategySets DEF T!Resting, T!HasLoader, T!Kinds, T!LoaderKnown, T!ShellKnown, T!OffKnown, T!Quiet, T!KnownLoader, T!KnownShell, T!Prompts, T!AtPrompt
  <2> QED BY <2>1, <2>3, <2>4, <2>5
<1>8. CASE k = 5
  <2>1. T!Step = <<"activate", "console">> /\ T!Step[1] = "activate" /\ T!Step[2] = "console"
    BY <1>2, <1>8 DEF T!ShellBody, T!Do
  <2>3. ASSUME Goes PROVE Kept
    BY <1>1, <1>3, <2>1, <2>3, StrategyActivates DEF Kept, T!Statuses, T!HasLoader, T!Kinds
  <2>4. ASSUME Goes, k < n PROVE T!ShellKnown(k + 1)'
    <3>1. k + 1 = 6
      BY <1>8
    <3>2. T!ShellKnown(6)'
      BY <1>1, <1>3, <2>1, <2>4, <1>8, StrategyActivates DEF T!LoaderKnown, T!ShellKnown, T!OffKnown, T!Quiet, T!KnownLoader, T!KnownShell, T!Prompts, T!AtPrompt
    <3> QED BY <3>1, <3>2
  <2>5. k # n
    BY <1>8
  <2> QED BY <2>1, <2>3, <2>4, <2>5
<1>9. CASE k = 6
  <2>1. T!Step = <<"use", "cycle">> /\ T!Step[1] = "use" /\ T!Step[2] = "cycle"
    BY <1>2, <1>9 DEF T!ShellBody, T!Do
  <2>2. T!Driver = "power" /\ "power" \in s5
    BY <2>1, <1>9 DEF T!Driver, T!LoaderKnown, T!ShellKnown, T!OffKnown, T!Quiet, T!KnownLoader, T!KnownShell, T!Prompts, T!AtPrompt
  <2>3. ASSUME Goes PROVE Kept
    BY <1>1, <1>3, <2>1, <2>3, StrategyUses DEF Kept, T!Statuses, T!HasLoader, T!Kinds
  <2>4. ASSUME Goes, k < n PROVE T!ShellKnown(k + 1)'
    <3>1. k + 1 = 7
      BY <1>9
    <3>2. T!ShellKnown(7)'
      BY <1>1, <1>3, <2>1, <2>4, <1>9, StrategyUses DEF T!LoaderKnown, T!ShellKnown, T!OffKnown, T!Quiet, T!KnownLoader, T!KnownShell, T!Prompts, T!AtPrompt
    <3> QED BY <3>1, <3>2
  <2>5. k # n
    BY <1>9
  <2> QED BY <2>1, <2>2, <2>3, <2>4, <2>5
<1>10. CASE k = 7
  <2>1. T!Step = <<"activate", "shell">> /\ T!Step[1] = "activate" /\ T!Step[2] = "shell"
    BY <1>2, <1>10 DEF T!ShellBody, T!Do
  <2>3. ASSUME Goes PROVE Kept
    BY <1>1, <1>3, <2>1, <2>3, StrategyActivates DEF Kept, T!Statuses, T!HasLoader, T!Kinds
  <2>4. ASSUME Goes, k < n PROVE T!ShellKnown(k + 1)'
    <3>1. k + 1 = 8
      BY <1>10
    <3>2. T!ShellKnown(8)'
      BY <1>1, <1>3, <2>1, <2>4, <1>10, StrategyActivates DEF T!LoaderKnown, T!ShellKnown, T!OffKnown, T!Quiet, T!KnownLoader, T!KnownShell, T!Prompts, T!AtPrompt
    <3> QED BY <3>1, <3>2
  <2>5. k # n
    BY <1>10
  <2> QED BY <2>1, <2>3, <2>4, <2>5
<1>11. CASE k = 8
  <2>1. T!Step = <<"use", "run">> /\ T!Step[1] = "use" /\ T!Step[2] = "run"
    BY <1>2, <1>11 DEF T!ShellBody, T!Do
  <2>2. T!Driver = "shell" /\ "shell" \in s5
    BY <2>1, <1>11 DEF T!Driver, T!LoaderKnown, T!ShellKnown, T!OffKnown, T!Quiet, T!KnownLoader, T!KnownShell, T!Prompts, T!AtPrompt
  <2>3. ASSUME Goes PROVE Kept
    BY <1>1, <1>3, <2>1, <2>3, StrategyUses DEF Kept, T!Statuses, T!HasLoader, T!Kinds
  <2>4. ASSUME Goes, k < n PROVE T!ShellKnown(k + 1)'
    <3>1. k + 1 = 9
      BY <1>11
    <3>2. T!ShellKnown(9)'
      BY <1>1, <1>3, <2>1, <2>4, <1>11, StrategyUses DEF T!LoaderKnown, T!ShellKnown, T!OffKnown, T!Quiet, T!KnownLoader, T!KnownShell, T!Prompts, T!AtPrompt
    <3> QED BY <3>1, <3>2
  <2>5. k # n
    BY <1>11
  <2> QED BY <2>1, <2>2, <2>3, <2>4, <2>5
<1>12. CASE k = 9
  <2>1. T!Step = <<"status", "shell">> /\ T!Step[1] = "status" /\ T!Step[2] = "shell"
    BY <1>2, <1>12 DEF T!ShellBody, T!Do
  <2>3. ASSUME Goes PROVE Kept
    BY <1>1, <1>3, <2>1, <2>3, StrategySets DEF Kept, T!Statuses, T!HasLoader, T!Kinds
  <2>4. ~(k < n)
    BY <1>1, <1>12
  <2>5. ASSUME Goes PROVE T!Resting'
    BY <1>1, <1>3, <2>1, <2>5, <1>12, StrategySets DEF T!Resting, T!HasLoader, T!Kinds, T!LoaderKnown, T!ShellKnown, T!OffKnown, T!Quiet, T!KnownLoader, T!KnownShell, T!Prompts, T!AtPrompt
  <2> QED BY <2>1, <2>3, <2>4, <2>5
<1> QED BY <1>4, <1>5, <1>6, <1>7, <1>8, <1>9, <1>10, <1>11, <1>12

\* The steps of this body, one after the other.
LEMMA AccessibleGoes ==
    ASSUME T!StrategiesInv, s1 = "docker", NEW n \in {3}, NEW k \in 1..3, T!Within(T!AccessibleBody, n, k), T!DockerKnown(k, "linux")
    PROVE  /\ Goes => Kept /\ (k < n => T!DockerKnown(k + 1, "linux")') /\ (k = n => T!Resting')
           /\ T!Step[1] = "use" => T!Driver \in s5
<1>1. T!TypeOK /\ s4 \in Seq(T!Orders) /\ n \in Nat /\ k <= n
  BY DEF T!StrategiesInv, T!Within
<1>2. T!Step = T!AccessibleBody[k]
  BY <1>1, NextInBody
<1>3. s1 \in T!Kinds /\ s2 \in T!Statuses \cup {"unknown"} /\ s5 \subseteq {"power", "console", "loader", "shell", "docker"}
      /\ s6 \in {"off", "loader", "linux", "booting"} /\ s9 \in {"none", "done", "nothing", "failed", "refused"}
      /\ (s1 = "docker" => s5 \subseteq {"docker"}) /\ (s1 = "shell" => "loader" \notin s5)
  BY DEF T!StrategiesInv, T!TypeOK, T!DriversReady
<1> DEFINE Goal == /\ Goes => Kept /\ (k < n => T!DockerKnown(k + 1, "linux")') /\ (k = n => T!Resting')
                   /\ T!Step[1] = "use" => T!Driver \in s5
<1>4. CASE k = 1
  <2>1. T!Step = <<"activate", "docker">> /\ T!Step[1] = "activate" /\ T!Step[2] = "docker"
    BY <1>2, <1>4 DEF T!AccessibleBody, T!Do
  <2>3. ASSUME Goes PROVE Kept
    BY <1>1, <1>3, <2>1, <2>3, StrategyActivates DEF Kept, T!Statuses, T!HasLoader, T!Kinds
  <2>4. ASSUME Goes, k < n PROVE T!DockerKnown(k + 1, "linux")'
    <3>1. k + 1 = 2
      BY <1>4
    <3>2. T!DockerKnown(2, "linux")'
      BY <1>1, <1>3, <2>1, <2>4, <1>4, StrategyActivates DEF T!DockerKnown, T!Quiet, T!KnownLoader, T!KnownShell, T!Prompts, T!AtPrompt
    <3> QED BY <3>1, <3>2
  <2>5. k # n
    BY <1>4
  <2> QED BY <2>1, <2>3, <2>4, <2>5
<1>5. CASE k = 2
  <2>1. T!Step = <<"use", "on">> /\ T!Step[1] = "use" /\ T!Step[2] = "on"
    BY <1>2, <1>5 DEF T!AccessibleBody, T!Do
  <2>2. T!Driver = "docker" /\ "docker" \in s5
    BY <2>1, <1>5 DEF T!Driver, T!DockerKnown, T!Quiet, T!KnownLoader, T!KnownShell, T!Prompts, T!AtPrompt
  <2>3. ASSUME Goes PROVE Kept
    BY <1>1, <1>3, <2>1, <2>3, StrategyUses DEF Kept, T!Statuses, T!HasLoader, T!Kinds
  <2>4. ASSUME Goes, k < n PROVE T!DockerKnown(k + 1, "linux")'
    <3>1. k + 1 = 3
      BY <1>5
    <3>2. T!DockerKnown(3, "linux")'
      BY <1>1, <1>3, <2>1, <2>4, <1>5, StrategyUses DEF T!DockerKnown, T!Quiet, T!KnownLoader, T!KnownShell, T!Prompts, T!AtPrompt
    <3> QED BY <3>1, <3>2
  <2>5. k # n
    BY <1>5
  <2> QED BY <2>1, <2>2, <2>3, <2>4, <2>5
<1>6. CASE k = 3
  <2>1. T!Step = <<"status", "accessible">> /\ T!Step[1] = "status" /\ T!Step[2] = "accessible"
    BY <1>2, <1>6 DEF T!AccessibleBody, T!Do
  <2>3. ASSUME Goes PROVE Kept
    BY <1>1, <1>3, <2>1, <2>3, StrategySets DEF Kept, T!Statuses, T!HasLoader, T!Kinds
  <2>4. ~(k < n)
    BY <1>1, <1>6
  <2>5. ASSUME Goes PROVE T!Resting'
    BY <1>1, <1>3, <2>1, <2>5, <1>6, StrategySets DEF T!Resting, T!HasLoader, T!Kinds, T!DockerKnown, T!Quiet, T!KnownLoader, T!KnownShell, T!Prompts, T!AtPrompt
  <2> QED BY <2>1, <2>3, <2>4, <2>5
<1> QED BY <1>4, <1>5, <1>6

\* The steps of this body, one after the other.
LEMMA GoneGoes ==
    ASSUME T!StrategiesInv, s1 = "docker", NEW n \in {4}, NEW k \in 1..4, T!Within(T!GoneBody, n, k), T!DockerKnown(k, "off")
    PROVE  /\ Goes => Kept /\ (k < n => T!DockerKnown(k + 1, "off")') /\ (k = n => T!Resting')
           /\ T!Step[1] = "use" => T!Driver \in s5
<1>1. T!TypeOK /\ s4 \in Seq(T!Orders) /\ n \in Nat /\ k <= n
  BY DEF T!StrategiesInv, T!Within
<1>2. T!Step = T!GoneBody[k]
  BY <1>1, NextInBody
<1>3. s1 \in T!Kinds /\ s2 \in T!Statuses \cup {"unknown"} /\ s5 \subseteq {"power", "console", "loader", "shell", "docker"}
      /\ s6 \in {"off", "loader", "linux", "booting"} /\ s9 \in {"none", "done", "nothing", "failed", "refused"}
      /\ (s1 = "docker" => s5 \subseteq {"docker"}) /\ (s1 = "shell" => "loader" \notin s5)
  BY DEF T!StrategiesInv, T!TypeOK, T!DriversReady
<1> DEFINE Goal == /\ Goes => Kept /\ (k < n => T!DockerKnown(k + 1, "off")') /\ (k = n => T!Resting')
                   /\ T!Step[1] = "use" => T!Driver \in s5
<1>4. CASE k = 1
  <2>1. T!Step = <<"activate", "docker">> /\ T!Step[1] = "activate" /\ T!Step[2] = "docker"
    BY <1>2, <1>4 DEF T!GoneBody, T!Do
  <2>3. ASSUME Goes PROVE Kept
    BY <1>1, <1>3, <2>1, <2>3, StrategyActivates DEF Kept, T!Statuses, T!HasLoader, T!Kinds
  <2>4. ASSUME Goes, k < n PROVE T!DockerKnown(k + 1, "off")'
    <3>1. k + 1 = 2
      BY <1>4
    <3>2. T!DockerKnown(2, "off")'
      BY <1>1, <1>3, <2>1, <2>4, <1>4, StrategyActivates DEF T!DockerKnown, T!Quiet, T!KnownLoader, T!KnownShell, T!Prompts, T!AtPrompt
    <3> QED BY <3>1, <3>2
  <2>5. k # n
    BY <1>4
  <2> QED BY <2>1, <2>3, <2>4, <2>5
<1>5. CASE k = 2
  <2>1. T!Step = <<"use", "docker_off">> /\ T!Step[1] = "use" /\ T!Step[2] = "docker_off"
    BY <1>2, <1>5 DEF T!GoneBody, T!Do
  <2>2. T!Driver = "docker" /\ "docker" \in s5
    BY <2>1, <1>5 DEF T!Driver, T!DockerKnown, T!Quiet, T!KnownLoader, T!KnownShell, T!Prompts, T!AtPrompt
  <2>3. ASSUME Goes PROVE Kept
    BY <1>1, <1>3, <2>1, <2>3, StrategyUses DEF Kept, T!Statuses, T!HasLoader, T!Kinds
  <2>4. ASSUME Goes, k < n PROVE T!DockerKnown(k + 1, "off")'
    <3>1. k + 1 = 3
      BY <1>5
    <3>2. T!DockerKnown(3, "off")'
      BY <1>1, <1>3, <2>1, <2>4, <1>5, StrategyUses DEF T!DockerKnown, T!Quiet, T!KnownLoader, T!KnownShell, T!Prompts, T!AtPrompt
    <3> QED BY <3>1, <3>2
  <2>5. k # n
    BY <1>5
  <2> QED BY <2>1, <2>2, <2>3, <2>4, <2>5
<1>6. CASE k = 3
  <2>1. T!Step = <<"deactivate", "docker">> /\ T!Step[1] = "deactivate" /\ T!Step[2] = "docker"
    BY <1>2, <1>6 DEF T!GoneBody, T!Do
  <2>3. ASSUME Goes PROVE Kept
    BY <1>1, <1>3, <2>1, <2>3, StrategyDeactivates DEF Kept, T!Statuses, T!HasLoader, T!Kinds
  <2>4. ASSUME Goes, k < n PROVE T!DockerKnown(k + 1, "off")'
    <3>1. k + 1 = 4
      BY <1>6
    <3>2. T!DockerKnown(4, "off")'
      <4>1. s5' = s5 \ {"docker"} /\ s6' = s6 /\ s5 \subseteq {"docker"}
        BY <1>3, <2>1, <2>4, StrategyDeactivates
      <4>2. s5' = {}
        BY <4>1
      <4>3. s6 = "off"
        BY <1>6 DEF T!DockerKnown
      <4> QED BY <4>1, <4>2, <4>3 DEF T!DockerKnown
    <3> QED BY <3>1, <3>2
  <2>5. k # n
    BY <1>6
  <2> QED BY <2>1, <2>3, <2>4, <2>5
<1>7. CASE k = 4
  <2>1. T!Step = <<"status", "gone">> /\ T!Step[1] = "status" /\ T!Step[2] = "gone"
    BY <1>2, <1>7 DEF T!GoneBody, T!Do
  <2>3. ASSUME Goes PROVE Kept
    BY <1>1, <1>3, <2>1, <2>3, StrategySets DEF Kept, T!Statuses, T!HasLoader, T!Kinds
  <2>4. ~(k < n)
    BY <1>1, <1>7
  <2>5. ASSUME Goes PROVE T!Resting'
    BY <1>1, <1>3, <2>1, <2>5, <1>7, StrategySets DEF T!Resting, T!HasLoader, T!Kinds, T!DockerKnown, T!Quiet, T!KnownLoader, T!KnownShell, T!Prompts, T!AtPrompt
  <2> QED BY <2>1, <2>3, <2>4, <2>5
<1> QED BY <1>4, <1>5, <1>6, <1>7

\* The steps of a forced status, one after the other.
LEMMA PowersLoader ==
    ASSUME T!StrategiesInv, s1 = "barebox", NEW k \in 1..3, T!Within(<<T!Do("activate", "power"), T!Do("activate", "loader"), T!Do("force", "loader")>>, 3, k), (T!Prompts /\ (k = 3 => T!UpKnown("loader")))
    PROVE  /\ T!Step[1] # "use"
           /\ Goes => Kept /\ (k < 3 => (T!Prompts /\ (k + 1 = 3 => T!UpKnown("loader")))') /\ (k = 3 => T!Resting')
<1>1. T!TypeOK /\ s4 \in Seq(T!Orders)
  BY DEF T!StrategiesInv
<1>2. T!Step = <<T!Do("activate", "power"), T!Do("activate", "loader"), T!Do("force", "loader")>>[k]
  BY <1>1, NextInBody
<1>3. s1 \in T!Kinds /\ s2 \in T!Statuses \cup {"unknown"} /\ s5 \subseteq {"power", "console", "loader", "shell", "docker"}
      /\ s6 \in {"off", "loader", "linux", "booting"} /\ s9 \in {"none", "done", "nothing", "failed", "refused"}
      /\ (s1 = "docker" => s5 \subseteq {"docker"}) /\ (s1 = "shell" => "loader" \notin s5)
  BY DEF T!StrategiesInv, T!TypeOK, T!DriversReady
<1>4. CASE k = 1
  <2>1. T!Step = <<"activate", "power">>
    BY <1>2, <1>4 DEF T!Do
  <2>3. ASSUME Goes PROVE Kept
    BY <1>1, <1>3, <2>1, <2>3, StrategyActivates DEF Kept, T!Statuses, T!HasLoader, T!Kinds
  <2>4. ASSUME Goes PROVE (T!Prompts /\ (k + 1 = 3 => T!UpKnown("loader")))'
    BY <1>1, <1>3, <2>1, <2>4, <1>4, StrategyActivates DEF T!UpKnown, T!Quiet, T!KnownLoader, T!KnownShell, T!Prompts, T!AtPrompt
  <2>5. T!Step[1] # "use"
    BY <2>1
  <2> QED BY <2>3, <2>4, <2>5, <1>4
<1>5. CASE k = 2
  <2>1. T!Step = <<"activate", "loader">>
    BY <1>2, <1>5 DEF T!Do
  <2>3. ASSUME Goes PROVE Kept
    BY <1>1, <1>3, <2>1, <2>3, StrategyActivates DEF Kept, T!Statuses, T!HasLoader, T!Kinds
  <2>4. ASSUME Goes PROVE (T!Prompts /\ (k + 1 = 3 => T!UpKnown("loader")))'
    BY <1>1, <1>3, <2>1, <2>4, <1>5, StrategyActivates DEF T!UpKnown, T!Quiet, T!KnownLoader, T!KnownShell, T!Prompts, T!AtPrompt
  <2>5. T!Step[1] # "use"
    BY <2>1
  <2> QED BY <2>3, <2>4, <2>5, <1>5
<1>6. CASE k = 3
  <2>1. T!Step = <<"force", "loader">>
    BY <1>2, <1>6 DEF T!Do
  <2>3. ASSUME Goes PROVE Kept
    BY <1>1, <1>3, <2>1, <2>3, StrategySets DEF Kept, T!Statuses, T!HasLoader, T!Kinds
  <2>4. ASSUME Goes PROVE T!Resting'
    BY <1>1, <1>3, <2>1, <2>4, <1>6, StrategySets DEF T!Resting, T!HasLoader, T!Kinds, T!UpKnown, T!Quiet, T!KnownLoader, T!KnownShell, T!Prompts, T!AtPrompt
  <2>5. T!Step[1] # "use"
    BY <2>1
  <2> QED BY <2>3, <2>4, <2>5, <1>6
<1> QED BY <1>4, <1>5, <1>6

\* The steps of a forced status, one after the other.
LEMMA PowersShell ==
    ASSUME T!StrategiesInv, s1 \in {"barebox", "shell"}, NEW k \in 1..3, T!Within(<<T!Do("activate", "power"), T!Do("activate", "shell"), T!Do("force", "shell")>>, 3, k), (T!Prompts /\ (k = 3 => T!UpKnown("shell")))
    PROVE  /\ T!Step[1] # "use"
           /\ Goes => Kept /\ (k < 3 => (T!Prompts /\ (k + 1 = 3 => T!UpKnown("shell")))') /\ (k = 3 => T!Resting')
<1>1. T!TypeOK /\ s4 \in Seq(T!Orders)
  BY DEF T!StrategiesInv
<1>2. T!Step = <<T!Do("activate", "power"), T!Do("activate", "shell"), T!Do("force", "shell")>>[k]
  BY <1>1, NextInBody
<1>3. s1 \in T!Kinds /\ s2 \in T!Statuses \cup {"unknown"} /\ s5 \subseteq {"power", "console", "loader", "shell", "docker"}
      /\ s6 \in {"off", "loader", "linux", "booting"} /\ s9 \in {"none", "done", "nothing", "failed", "refused"}
      /\ (s1 = "docker" => s5 \subseteq {"docker"}) /\ (s1 = "shell" => "loader" \notin s5)
  BY DEF T!StrategiesInv, T!TypeOK, T!DriversReady
<1>4. CASE k = 1
  <2>1. T!Step = <<"activate", "power">>
    BY <1>2, <1>4 DEF T!Do
  <2>3. ASSUME Goes PROVE Kept
    BY <1>1, <1>3, <2>1, <2>3, StrategyActivates DEF Kept, T!Statuses, T!HasLoader, T!Kinds
  <2>4. ASSUME Goes PROVE (T!Prompts /\ (k + 1 = 3 => T!UpKnown("shell")))'
    BY <1>1, <1>3, <2>1, <2>4, <1>4, StrategyActivates DEF T!UpKnown, T!Quiet, T!KnownLoader, T!KnownShell, T!Prompts, T!AtPrompt
  <2>5. T!Step[1] # "use"
    BY <2>1
  <2> QED BY <2>3, <2>4, <2>5, <1>4
<1>5. CASE k = 2
  <2>1. T!Step = <<"activate", "shell">>
    BY <1>2, <1>5 DEF T!Do
  <2>3. ASSUME Goes PROVE Kept
    BY <1>1, <1>3, <2>1, <2>3, StrategyActivates DEF Kept, T!Statuses, T!HasLoader, T!Kinds
  <2>4. ASSUME Goes PROVE (T!Prompts /\ (k + 1 = 3 => T!UpKnown("shell")))'
    BY <1>1, <1>3, <2>1, <2>4, <1>5, StrategyActivates DEF T!UpKnown, T!Quiet, T!KnownLoader, T!KnownShell, T!Prompts, T!AtPrompt
  <2>5. T!Step[1] # "use"
    BY <2>1
  <2> QED BY <2>3, <2>4, <2>5, <1>5
<1>6. CASE k = 3
  <2>1. T!Step = <<"force", "shell">>
    BY <1>2, <1>6 DEF T!Do
  <2>3. ASSUME Goes PROVE Kept
    BY <1>1, <1>3, <2>1, <2>3, StrategySets DEF Kept, T!Statuses, T!HasLoader, T!Kinds
  <2>4. ASSUME Goes PROVE T!Resting'
    BY <1>1, <1>3, <2>1, <2>4, <1>6, StrategySets DEF T!Resting, T!HasLoader, T!Kinds, T!UpKnown, T!Quiet, T!KnownLoader, T!KnownShell, T!Prompts, T!AtPrompt
  <2>5. T!Step[1] # "use"
    BY <2>1
  <2> QED BY <2>3, <2>4, <2>5, <1>6
<1> QED BY <1>4, <1>5, <1>6

\* The steps of a forced status, one after the other.
LEMMA ForcesLoader ==
    ASSUME T!StrategiesInv, s1 = "uboot", NEW k \in 1..2, T!Within(<<T!Do("activate", "loader"), T!Do("force", "loader")>>, 2, k), (T!Prompts /\ (k = 2 => T!UpKnown("loader")))
    PROVE  /\ T!Step[1] # "use"
           /\ Goes => Kept /\ (k < 2 => (T!Prompts /\ (k + 1 = 2 => T!UpKnown("loader")))') /\ (k = 2 => T!Resting')
<1>1. T!TypeOK /\ s4 \in Seq(T!Orders)
  BY DEF T!StrategiesInv
<1>2. T!Step = <<T!Do("activate", "loader"), T!Do("force", "loader")>>[k]
  BY <1>1, NextInBody
<1>3. s1 \in T!Kinds /\ s2 \in T!Statuses \cup {"unknown"} /\ s5 \subseteq {"power", "console", "loader", "shell", "docker"}
      /\ s6 \in {"off", "loader", "linux", "booting"} /\ s9 \in {"none", "done", "nothing", "failed", "refused"}
      /\ (s1 = "docker" => s5 \subseteq {"docker"}) /\ (s1 = "shell" => "loader" \notin s5)
  BY DEF T!StrategiesInv, T!TypeOK, T!DriversReady
<1>4. CASE k = 1
  <2>1. T!Step = <<"activate", "loader">>
    BY <1>2, <1>4 DEF T!Do
  <2>3. ASSUME Goes PROVE Kept
    BY <1>1, <1>3, <2>1, <2>3, StrategyActivates DEF Kept, T!Statuses, T!HasLoader, T!Kinds
  <2>4. ASSUME Goes PROVE (T!Prompts /\ (k + 1 = 2 => T!UpKnown("loader")))'
    BY <1>1, <1>3, <2>1, <2>4, <1>4, StrategyActivates DEF T!UpKnown, T!Quiet, T!KnownLoader, T!KnownShell, T!Prompts, T!AtPrompt
  <2>5. T!Step[1] # "use"
    BY <2>1
  <2> QED BY <2>3, <2>4, <2>5, <1>4
<1>5. CASE k = 2
  <2>1. T!Step = <<"force", "loader">>
    BY <1>2, <1>5 DEF T!Do
  <2>3. ASSUME Goes PROVE Kept
    BY <1>1, <1>3, <2>1, <2>3, StrategySets DEF Kept, T!Statuses, T!HasLoader, T!Kinds
  <2>4. ASSUME Goes PROVE T!Resting'
    BY <1>1, <1>3, <2>1, <2>4, <1>5, StrategySets DEF T!Resting, T!HasLoader, T!Kinds, T!UpKnown, T!Quiet, T!KnownLoader, T!KnownShell, T!Prompts, T!AtPrompt
  <2>5. T!Step[1] # "use"
    BY <2>1
  <2> QED BY <2>3, <2>4, <2>5, <1>5
<1> QED BY <1>4, <1>5

\* The steps of a forced status, one after the other.
LEMMA ForcesShell ==
    ASSUME T!StrategiesInv, s1 = "uboot", NEW k \in 1..2, T!Within(<<T!Do("activate", "shell"), T!Do("force", "shell")>>, 2, k), (T!Prompts /\ (k = 2 => T!UpKnown("shell")))
    PROVE  /\ T!Step[1] # "use"
           /\ Goes => Kept /\ (k < 2 => (T!Prompts /\ (k + 1 = 2 => T!UpKnown("shell")))') /\ (k = 2 => T!Resting')
<1>1. T!TypeOK /\ s4 \in Seq(T!Orders)
  BY DEF T!StrategiesInv
<1>2. T!Step = <<T!Do("activate", "shell"), T!Do("force", "shell")>>[k]
  BY <1>1, NextInBody
<1>3. s1 \in T!Kinds /\ s2 \in T!Statuses \cup {"unknown"} /\ s5 \subseteq {"power", "console", "loader", "shell", "docker"}
      /\ s6 \in {"off", "loader", "linux", "booting"} /\ s9 \in {"none", "done", "nothing", "failed", "refused"}
      /\ (s1 = "docker" => s5 \subseteq {"docker"}) /\ (s1 = "shell" => "loader" \notin s5)
  BY DEF T!StrategiesInv, T!TypeOK, T!DriversReady
<1>4. CASE k = 1
  <2>1. T!Step = <<"activate", "shell">>
    BY <1>2, <1>4 DEF T!Do
  <2>3. ASSUME Goes PROVE Kept
    BY <1>1, <1>3, <2>1, <2>3, StrategyActivates DEF Kept, T!Statuses, T!HasLoader, T!Kinds
  <2>4. ASSUME Goes PROVE (T!Prompts /\ (k + 1 = 2 => T!UpKnown("shell")))'
    BY <1>1, <1>3, <2>1, <2>4, <1>4, StrategyActivates DEF T!UpKnown, T!Quiet, T!KnownLoader, T!KnownShell, T!Prompts, T!AtPrompt
  <2>5. T!Step[1] # "use"
    BY <2>1
  <2> QED BY <2>3, <2>4, <2>5, <1>4
<1>5. CASE k = 2
  <2>1. T!Step = <<"force", "shell">>
    BY <1>2, <1>5 DEF T!Do
  <2>3. ASSUME Goes PROVE Kept
    BY <1>1, <1>3, <2>1, <2>3, StrategySets DEF Kept, T!Statuses, T!HasLoader, T!Kinds
  <2>4. ASSUME Goes PROVE T!Resting'
    BY <1>1, <1>3, <2>1, <2>4, <1>5, StrategySets DEF T!Resting, T!HasLoader, T!Kinds, T!UpKnown, T!Quiet, T!KnownLoader, T!KnownShell, T!Prompts, T!AtPrompt
  <2>5. T!Step[1] # "use"
    BY <2>1
  <2> QED BY <2>3, <2>4, <2>5, <1>5
<1> QED BY <1>4, <1>5

\* The steps of a forced status, one after the other.
LEMMA ForcesOff ==
    ASSUME T!StrategiesInv, s1 = "uboot", NEW k \in 1..2, T!Within(<<T!Do("activate", "power"), T!Do("force", "off")>>, 2, k), (T!Prompts /\ (k = 2 => "power" \in s5))
    PROVE  /\ T!Step[1] # "use"
           /\ Goes => Kept /\ (k < 2 => (T!Prompts /\ (k + 1 = 2 => "power" \in s5))') /\ (k = 2 => T!Resting')
<1>1. T!TypeOK /\ s4 \in Seq(T!Orders)
  BY DEF T!StrategiesInv
<1>2. T!Step = <<T!Do("activate", "power"), T!Do("force", "off")>>[k]
  BY <1>1, NextInBody
<1>3. s1 \in T!Kinds /\ s2 \in T!Statuses \cup {"unknown"} /\ s5 \subseteq {"power", "console", "loader", "shell", "docker"}
      /\ s6 \in {"off", "loader", "linux", "booting"} /\ s9 \in {"none", "done", "nothing", "failed", "refused"}
      /\ (s1 = "docker" => s5 \subseteq {"docker"}) /\ (s1 = "shell" => "loader" \notin s5)
  BY DEF T!StrategiesInv, T!TypeOK, T!DriversReady
<1>4. CASE k = 1
  <2>1. T!Step = <<"activate", "power">>
    BY <1>2, <1>4 DEF T!Do
  <2>3. ASSUME Goes PROVE Kept
    BY <1>1, <1>3, <2>1, <2>3, StrategyActivates DEF Kept, T!Statuses, T!HasLoader, T!Kinds
  <2>4. ASSUME Goes PROVE (T!Prompts /\ (k + 1 = 2 => "power" \in s5))'
    BY <1>1, <1>3, <2>1, <2>4, <1>4, StrategyActivates DEF T!UpKnown, T!Quiet, T!KnownLoader, T!KnownShell, T!Prompts, T!AtPrompt
  <2>5. T!Step[1] # "use"
    BY <2>1
  <2> QED BY <2>3, <2>4, <2>5, <1>4
<1>5. CASE k = 2
  <2>1. T!Step = <<"force", "off">>
    BY <1>2, <1>5 DEF T!Do
  <2>3. ASSUME Goes PROVE Kept
    BY <1>1, <1>3, <2>1, <2>3, StrategySets DEF Kept, T!Statuses, T!HasLoader, T!Kinds
  <2>4. ASSUME Goes PROVE T!Resting'
    BY <1>1, <1>3, <2>1, <2>4, <1>5, StrategySets DEF T!Resting, T!HasLoader, T!Kinds, T!UpKnown, T!Quiet, T!KnownLoader, T!KnownShell, T!Prompts, T!AtPrompt
  <2>5. T!Step[1] # "use"
    BY <2>1
  <2> QED BY <2>3, <2>4, <2>5, <1>5
<1> QED BY <1>4, <1>5

\* The steps of a forced status, one after the other.
LEMMA ShellForcesOff ==
    ASSUME T!StrategiesInv, s1 = "shell", NEW k \in 1..3, T!Within(<<T!Do("deactivate", "shell"), T!Do("activate", "power"), T!Do("force", "off")>>, 3, k), (T!Prompts /\ (k > 1 => T!Quiet) /\ (k = 3 => "power" \in s5))
    PROVE  /\ T!Step[1] # "use"
           /\ Goes => Kept /\ (k < 3 => (T!Prompts /\ (k + 1 > 1 => T!Quiet) /\ (k + 1 = 3 => "power" \in s5))') /\ (k = 3 => T!Resting')
<1>1. T!TypeOK /\ s4 \in Seq(T!Orders)
  BY DEF T!StrategiesInv
<1>2. T!Step = <<T!Do("deactivate", "shell"), T!Do("activate", "power"), T!Do("force", "off")>>[k]
  BY <1>1, NextInBody
<1>3. s1 \in T!Kinds /\ s2 \in T!Statuses \cup {"unknown"} /\ s5 \subseteq {"power", "console", "loader", "shell", "docker"}
      /\ s6 \in {"off", "loader", "linux", "booting"} /\ s9 \in {"none", "done", "nothing", "failed", "refused"}
      /\ (s1 = "docker" => s5 \subseteq {"docker"}) /\ (s1 = "shell" => "loader" \notin s5)
  BY DEF T!StrategiesInv, T!TypeOK, T!DriversReady
<1>4. CASE k = 1
  <2>1. T!Step = <<"deactivate", "shell">>
    BY <1>2, <1>4 DEF T!Do
  <2>3. ASSUME Goes PROVE Kept
    BY <1>1, <1>3, <2>1, <2>3, StrategyDeactivates DEF Kept, T!Statuses, T!HasLoader, T!Kinds
  <2>4. ASSUME Goes PROVE (T!Prompts /\ (k + 1 > 1 => T!Quiet) /\ (k + 1 = 3 => "power" \in s5))'
    BY <1>1, <1>3, <2>1, <2>4, <1>4, StrategyDeactivates DEF T!UpKnown, T!Quiet, T!KnownLoader, T!KnownShell, T!Prompts, T!AtPrompt
  <2>5. T!Step[1] # "use"
    BY <2>1
  <2> QED BY <2>3, <2>4, <2>5, <1>4
<1>5. CASE k = 2
  <2>1. T!Step = <<"activate", "power">>
    BY <1>2, <1>5 DEF T!Do
  <2>3. ASSUME Goes PROVE Kept
    BY <1>1, <1>3, <2>1, <2>3, StrategyActivates DEF Kept, T!Statuses, T!HasLoader, T!Kinds
  <2>4. ASSUME Goes PROVE (T!Prompts /\ (k + 1 > 1 => T!Quiet) /\ (k + 1 = 3 => "power" \in s5))'
    BY <1>1, <1>3, <2>1, <2>4, <1>5, StrategyActivates DEF T!UpKnown, T!Quiet, T!KnownLoader, T!KnownShell, T!Prompts, T!AtPrompt
  <2>5. T!Step[1] # "use"
    BY <2>1
  <2> QED BY <2>3, <2>4, <2>5, <1>5
<1>6. CASE k = 3
  <2>1. T!Step = <<"force", "off">>
    BY <1>2, <1>6 DEF T!Do
  <2>3. ASSUME Goes PROVE Kept
    BY <1>1, <1>3, <2>1, <2>3, StrategySets DEF Kept, T!Statuses, T!HasLoader, T!Kinds
  <2>4. ASSUME Goes PROVE T!Resting'
    BY <1>1, <1>3, <2>1, <2>4, <1>6, StrategySets DEF T!Resting, T!HasLoader, T!Kinds, T!UpKnown, T!Quiet, T!KnownLoader, T!KnownShell, T!Prompts, T!AtPrompt
  <2>5. T!Step[1] # "use"
    BY <2>1
  <2> QED BY <2>3, <2>4, <2>5, <1>6
<1> QED BY <1>4, <1>5, <1>6

\* Stretches of a body that follow each other make a stretch.
LEMMA StretchJoins ==
    ASSUME NEW X, NEW s \in Seq(X), NEW t \in Seq(X), NEW body,
           NEW k \in Nat, NEW m \in Nat, NEW l \in Nat, T!Stretch(s, body, k, m), T!Stretch(t, body, k + m, l)
    PROVE  T!Stretch(s \o t, body, k, m + l) /\ s \o t \in Seq(X)
<1>0. Len(s) = m /\ Len(t) = l
  BY DEF T!Stretch
<1>1. Len(s) = m /\ Len(t) = l /\ Len(s \o t) = m + l /\ s \o t \in Seq(X)
  BY <1>0
<1>2. ASSUME NEW i \in 1..(m + l) PROVE (s \o t)[i] = body[k - 1 + i]
  <2>1. CASE i <= m
    <3>1. (s \o t)[i] = s[i] /\ i \in 1..m
      BY <1>1, <1>2, <2>1
    <3> QED BY <3>1 DEF T!Stretch
  <2>2. CASE i > m
    <3>1. (s \o t)[i] = t[i - m] /\ i - m \in 1..l /\ k + m - 1 + (i - m) = k - 1 + i
      BY <1>1, <1>2, <2>2, SMTT(30)
    <3> QED BY <3>1 DEF T!Stretch
  <2>3. i <= m \/ i > m
    BY <1>2
  <2> QED BY <2>1, <2>2, <2>3
<1> QED BY <1>1, <1>2 DEF T!Stretch

\* A stretch of a body is still one when the order after it is added.
LEMMA StretchEnds ==
    ASSUME NEW X, NEW s \in Seq(X), NEW last \in X, NEW body,
           NEW k \in Nat, NEW m \in Nat, T!Stretch(s, body, k, m), body[k + m] = last
    PROVE  T!Stretch(Append(s, last), body, k, m + 1) /\ Append(s, last) \in Seq(X)
<1>0. Len(s) = m
  BY DEF T!Stretch
<1>1. Len(s) = m /\ Len(Append(s, last)) = m + 1 /\ Append(s, last) \in Seq(X)
  BY <1>0
<1>2. ASSUME NEW i \in 1..(m + 1) PROVE Append(s, last)[i] = body[k - 1 + i]
  <2>1. CASE i <= m
    <3>1. Append(s, last)[i] = s[i] /\ i \in 1..m
      BY <1>1, <1>2, <2>1
    <3> QED BY <3>1 DEF T!Stretch
  <2>2. CASE i = m + 1
    <3>1. Append(s, last)[i] = last /\ k - 1 + i = k + m
      BY <1>1, <2>2
    <3> QED BY <3>1
  <2>3. i <= m \/ i = m + 1
    BY <1>2
  <2> QED BY <2>1, <2>2, <2>3
<1> QED BY <1>1, <1>2 DEF T!Stretch

\* transition() enters its body where the status says.
LEMMA OffEnters ==
    ASSUME NEW body, body[1] = T!ToOff[1], body[2] = T!ToOff[2], body[3] = T!ToOff[3], body[4] = T!Do("status", "off")
    PROVE  /\ T!Stretch(Append(T!ToOff, T!Do("status", "off")), body, 1, 4)
           /\ Append(T!ToOff, T!Do("status", "off")) \in Seq(T!Orders)
           /\ s2 = "off" => T!Stretch(T!Inner("off", T!ToOff), body, 5, 0)
           /\ s2 # "off" => T!Stretch(T!Inner("off", T!ToOff), body, 1, 4)
           /\ T!Inner("off", T!ToOff) \in Seq(T!Orders)
<1> DEFINE X == T!Orders
<1>0. /\ T!Do("deactivate", "console") \in X /\ T!Do("activate", "power") \in X /\ T!Do("use", "off") \in X
      /\ T!Do("status", "off") \in X
  BY DEF T!Do, T!Orders
<1> HIDE DEF X
<1>1. T!ToOff \in Seq(X) /\ T!Stretch(T!ToOff, body, 1, 3)
  <2>1. T!ToOff = <<T!Do("deactivate", "console"), T!Do("activate", "power"), T!Do("use", "off")>>
    BY DEF T!ToOff
  <2>2. /\ T!Do("deactivate", "console") \in X /\ T!Do("activate", "power") \in X /\ T!Do("use", "off") \in X
    BY <1>0
  <2>4. T!ToOff \in Seq(X) /\ Len(T!ToOff) = 3
    BY <2>1, <2>2
  <2>3. \A i \in 1..3 : T!ToOff[i] = body[1 - 1 + i]
    OBVIOUS
  <2> QED BY <2>4, <2>3 DEF T!Stretch
<1>2. T!Do("status", "off") \in X /\ <<T!Do("status", "off")>> \in Seq(X) /\ T!Stretch(<<T!Do("status", "off")>>, body, 4, 1)
  <2>1. T!Do("status", "off") \in X
    BY <1>0
  <2>2. Len(<<T!Do("status", "off")>>) = 1 /\ \A i \in 1..1 : <<T!Do("status", "off")>>[i] = body[4 - 1 + i]
    OBVIOUS
  <2> QED BY <2>1, <2>2 DEF T!Stretch
<1>3. T!Stretch(Append(T!ToOff, T!Do("status", "off")), body, 1, 3 + 1) /\ Append(T!ToOff, T!Do("status", "off")) \in Seq(X)
  BY <1>1, <1>2, StretchEnds
<1>4. T!Stretch(T!ToOff \o <<T!Do("status", "off")>>, body, 1, 3 + 1) /\ T!ToOff \o <<T!Do("status", "off")>> \in Seq(X)
  <2>1. T!Stretch(<<T!Do("status", "off")>>, body, 1 + 3, 1)
    BY <1>2
  <2> QED BY <1>1, <1>2, <2>1, StretchJoins
<1>5. T!Stretch(<<>>, body, 5, 0) /\ <<>> \in Seq(X)
  BY DEF T!Stretch
<1>6. T!Inner("off", T!ToOff) = IF s2 = "off" THEN <<>> ELSE T!ToOff \o <<T!Do("status", "off")>>
  BY DEF T!Inner
<1>7. X = T!Orders
  BY DEF X
<1>8. 3 + 1 = 4
  OBVIOUS
<1> QED BY <1>3, <1>4, <1>5, <1>6, <1>7, <1>8

\* A body with the status to enter at its end.
LEMMA OneOrder ==
    ASSUME NEW o \in T!Orders, NEW body, NEW k \in Nat, body[k] = o
    PROVE  T!Stretch(<<o>>, body, k, 1) /\ <<o>> \in Seq(T!Orders)
<1>1. Len(<<o>>) = 1 /\ <<o>> \in Seq(T!Orders)
  OBVIOUS
<1>2. \A i \in 1..1 : <<o>>[i] = body[k - 1 + i]
  OBVIOUS
<1> QED BY <1>1, <1>2 DEF T!Stretch

\* Three orders of a body in a row are a stretch of it.
LEMMA ThreeOrders ==
    ASSUME NEW X, NEW o1 \in X, NEW o2 \in X, NEW o3 \in X, NEW body, NEW k \in Nat,
           body[k] = o1, body[k + 1] = o2, body[k + 2] = o3
    PROVE  T!Stretch(<<o1, o2, o3>>, body, k, 3) /\ <<o1, o2, o3>> \in Seq(X)
<1>1. Len(<<o1, o2, o3>>) = 3 /\ <<o1, o2, o3>> \in Seq(X)
  OBVIOUS
<1>2. \A i \in 1..3 : <<o1, o2, o3>>[i] = body[k - 1 + i]
  OBVIOUS
<1> QED BY <1>1, <1>2 DEF T!Stretch

\* Four orders of a body in a row are a stretch of it.
LEMMA FourOrders ==
    ASSUME NEW X, NEW o1 \in X, NEW o2 \in X, NEW o3 \in X, NEW o4 \in X, NEW body, NEW k \in Nat,
           body[k] = o1, body[k + 1] = o2, body[k + 2] = o3, body[k + 3] = o4
    PROVE  T!Stretch(<<o1, o2, o3, o4>>, body, k, 4) /\ <<o1, o2, o3, o4>> \in Seq(X)
<1>1. Len(<<o1, o2, o3, o4>>) = 4 /\ <<o1, o2, o3, o4>> \in Seq(X)
  OBVIOUS
<1>2. \A i \in 1..4 : <<o1, o2, o3, o4>>[i] = body[k - 1 + i]
  OBVIOUS
<1> QED BY <1>1, <1>2 DEF T!Stretch

\* The orders that the bodies are made of.
LEMMA SomeOrders ==
    /\ T!Do("activate", "console") \in T!Orders /\ T!Do("use", "cycle") \in T!Orders
    /\ T!Do("activate", "loader") \in T!Orders /\ T!Do("status", "loader") \in T!Orders
    /\ T!Do("use", "boot") \in T!Orders /\ T!Do("use", "await_boot") \in T!Orders
    /\ T!Do("activate", "shell") \in T!Orders /\ T!Do("use", "run") \in T!Orders
    /\ T!Do("status", "shell") \in T!Orders /\ T!Do("activate", "docker") \in T!Orders
    /\ T!Do("use", "on") \in T!Orders /\ T!Do("status", "accessible") \in T!Orders
    /\ T!Do("use", "docker_off") \in T!Orders /\ T!Do("deactivate", "docker") \in T!Orders
    /\ T!Do("status", "gone") \in T!Orders /\ T!Do("activate", "power") \in T!Orders
    /\ T!Do("deactivate", "shell") \in T!Orders /\ T!Do("force", "off") \in T!Orders
    /\ T!Do("force", "loader") \in T!Orders /\ T!Do("force", "shell") \in T!Orders
BY DEF T!Do, T!Orders

\* transition() of a strategy with a boot loader.
LEMMA LoaderEnters ==
    ASSUME T!HasLoader, NEW to \in {"off", "loader", "shell"}, s2 # to
    PROVE  /\ Append(T!Body(to), T!Do("status", to)) \in Seq(T!Orders)
           /\ \E n \in {4, 8, 13}, k \in {1, 5, 9} :
                /\ k <= n /\ T!Stretch(Append(T!Body(to), T!Do("status", to)), T!LoaderBody, k, n + 1 - k)
                /\ (k = 5 => s2 = "off") /\ (k = 9 => s2 = "loader")
<1> DEFINE B == T!LoaderBody
<1>1. /\ B[1] = T!ToOff[1] /\ B[2] = T!ToOff[2] /\ B[3] = T!ToOff[3] /\ B[4] = T!Do("status", "off")
      /\ B[5] = T!Do("activate", "console") /\ B[6] = T!Do("use", "cycle") /\ B[7] = T!Do("activate", "loader")
      /\ B[8] = T!Do("status", "loader") /\ B[9] = T!Do("use", "boot") /\ B[10] = T!Do("use", "await_boot")
      /\ B[11] = T!Do("activate", "shell") /\ B[12] = T!Do("use", "run") /\ B[13] = T!Do("status", "shell")
  BY DEF T!LoaderBody, T!ToOff
<1> HIDE DEF B
<1>2. /\ T!Stretch(Append(T!ToOff, T!Do("status", "off")), B, 1, 4)
      /\ Append(T!ToOff, T!Do("status", "off")) \in Seq(T!Orders)
      /\ s2 = "off" => T!Stretch(T!Inner("off", T!ToOff), B, 5, 0)
      /\ s2 # "off" => T!Stretch(T!Inner("off", T!ToOff), B, 1, 4)
      /\ T!Inner("off", T!ToOff) \in Seq(T!Orders)
  BY <1>1, OffEnters
<1> DEFINE k0 == IF s2 = "off" THEN 5 ELSE 1
           L3 == <<T!Do("activate", "console"), T!Do("use", "cycle"), T!Do("activate", "loader")>>
           S4 == <<T!Do("use", "boot"), T!Do("use", "await_boot"), T!Do("activate", "shell"), T!Do("use", "run")>>
<1>3. k0 \in {1, 5} /\ 5 - k0 \in Nat /\ k0 + (5 - k0) = 5 /\ (5 - k0) + 3 = 8 - k0 /\ 8 - k0 \in Nat /\ k0 + (8 - k0) = 8
      /\ (8 - k0) + 1 = 9 - k0 /\ 9 - k0 \in Nat /\ k0 + (9 - k0) = 9 /\ k0 \in Nat /\ (9 - k0) + 4 = 13 - k0 /\ 13 - k0 \in Nat
      /\ k0 + (13 - k0) = 13 /\ (13 - k0) + 1 = 14 - k0
  OBVIOUS
<1>4. T!Stretch(T!Inner("off", T!ToOff), B, k0, 5 - k0)
  BY <1>2
<1>5. T!Stretch(L3, B, 5, 3) /\ L3 \in Seq(T!Orders)
  <2>1. B[5 + 1] = T!Do("use", "cycle") /\ B[5 + 2] = T!Do("activate", "loader")
    BY <1>1
  <2>2. B[5] = T!Do("activate", "console")
    BY <1>1
  <2>3. T!Do("activate", "console") \in T!Orders /\ T!Do("use", "cycle") \in T!Orders /\ T!Do("activate", "loader") \in T!Orders
    BY SomeOrders
  <2> QED BY <2>1, <2>2, <2>3, ThreeOrders
<1>6. T!Stretch(S4, B, 9, 4) /\ S4 \in Seq(T!Orders)
  <2>1. B[9 + 1] = T!Do("use", "await_boot") /\ B[9 + 2] = T!Do("activate", "shell") /\ B[9 + 3] = T!Do("use", "run")
    BY <1>1
  <2>2. B[9] = T!Do("use", "boot")
    BY <1>1
  <2>3. T!Do("use", "boot") \in T!Orders /\ T!Do("use", "await_boot") \in T!Orders /\ T!Do("activate", "shell") \in T!Orders
        /\ T!Do("use", "run") \in T!Orders
    BY SomeOrders
  <2> QED BY <2>1, <2>2, <2>3, FourOrders
<1> HIDE DEF L3, S4, k0
<1>7. T!ToLoader = T!Inner("off", T!ToOff) \o L3
  BY DEF T!ToLoader, L3
<1>8. T!Stretch(T!ToLoader, B, k0, 8 - k0) /\ T!ToLoader \in Seq(T!Orders)
  <2>1. T!Stretch(L3, B, k0 + (5 - k0), 3)
    BY <1>3, <1>5
  <2>2. T!Stretch(T!Inner("off", T!ToOff) \o L3, B, k0, (5 - k0) + 3) /\ T!Inner("off", T!ToOff) \o L3 \in Seq(T!Orders)
    BY <1>2, <1>3, <1>4, <1>5, <2>1, StretchJoins
  <2> QED BY <1>3, <1>7, <2>2
<1>9. /\ T!Stretch(Append(T!ToLoader, T!Do("status", "loader")), B, k0, 9 - k0)
      /\ Append(T!ToLoader, T!Do("status", "loader")) \in Seq(T!Orders)
  <2>1. B[k0 + (8 - k0)] = T!Do("status", "loader")
    BY <1>1, <1>3
  <2>2. /\ T!Stretch(Append(T!ToLoader, T!Do("status", "loader")), B, k0, (8 - k0) + 1)
        /\ Append(T!ToLoader, T!Do("status", "loader")) \in Seq(T!Orders)
    BY <1>3, <1>8, <2>1, SomeOrders, StretchEnds
  <2> QED BY <1>3, <2>2
<1>10. /\ T!Stretch(T!ToLoader \o <<T!Do("status", "loader")>>, B, k0, 9 - k0)
       /\ T!ToLoader \o <<T!Do("status", "loader")>> \in Seq(T!Orders)
  <2>1. T!Stretch(<<T!Do("status", "loader")>>, B, k0 + (8 - k0), 1) /\ <<T!Do("status", "loader")>> \in Seq(T!Orders)
    BY <1>1, <1>3, SomeOrders, OneOrder
  <2>2. /\ T!Stretch(T!ToLoader \o <<T!Do("status", "loader")>>, B, k0, (8 - k0) + 1)
        /\ T!ToLoader \o <<T!Do("status", "loader")>> \in Seq(T!Orders)
    BY <1>3, <1>8, <2>1, StretchJoins
  <2> QED BY <1>3, <2>2
<1> DEFINE k1 == IF s2 = "loader" THEN 9 ELSE k0
<1>11. k1 \in {1, 5, 9} /\ k1 \in Nat /\ 9 - k1 \in Nat /\ k1 + (9 - k1) = 9 /\ (9 - k1) + 4 = 13 - k1 /\ 13 - k1 \in Nat
       /\ k1 + (13 - k1) = 13 /\ (13 - k1) + 1 = 14 - k1 /\ (k1 = 5 => s2 = "off") /\ (k1 = 9 => s2 = "loader")
  BY <1>3 DEF k0
<1>12. T!Stretch(T!Inner("loader", T!ToLoader), B, k1, 9 - k1) /\ T!Inner("loader", T!ToLoader) \in Seq(T!Orders)
  <2>1. T!Stretch(<<>>, B, 9, 0) /\ <<>> \in Seq(T!Orders)
    BY DEF T!Stretch
  <2> QED BY <1>10, <2>1 DEF T!Inner
<1> HIDE DEF k1
<1>13. T!Body("shell") = T!Inner("loader", T!ToLoader) \o S4
  BY DEF T!Body, T!ToShell, S4
<1>14. T!Stretch(T!Body("shell"), B, k1, 13 - k1) /\ T!Body("shell") \in Seq(T!Orders)
  <2>1. T!Stretch(S4, B, k1 + (9 - k1), 4)
    BY <1>6, <1>11
  <2>2. T!Stretch(T!Inner("loader", T!ToLoader) \o S4, B, k1, (9 - k1) + 4) /\ T!Inner("loader", T!ToLoader) \o S4 \in Seq(T!Orders)
    BY <1>6, <1>11, <1>12, <2>1, StretchJoins
  <2> QED BY <1>11, <1>13, <2>2
<1>15. /\ T!Stretch(Append(T!Body("shell"), T!Do("status", "shell")), B, k1, 14 - k1)
       /\ Append(T!Body("shell"), T!Do("status", "shell")) \in Seq(T!Orders)
  <2>1. B[k1 + (13 - k1)] = T!Do("status", "shell")
    BY <1>1, <1>11
  <2>2. /\ T!Stretch(Append(T!Body("shell"), T!Do("status", "shell")), B, k1, (13 - k1) + 1)
        /\ Append(T!Body("shell"), T!Do("status", "shell")) \in Seq(T!Orders)
    BY <1>11, <1>14, <2>1, SomeOrders, StretchEnds
  <2> QED BY <1>11, <2>2
<1>16. T!Body("off") = T!ToOff /\ T!Body("loader") = T!ToLoader
  BY DEF T!Body
<1>17. CASE to = "off"
  <2>1. T!Stretch(Append(T!Body(to), T!Do("status", to)), B, 1, 4 + 1 - 1)
    BY <1>2, <1>16, <1>17
  <2> QED BY <1>2, <1>16, <1>17, <2>1 DEF B
<1>18. CASE to = "loader"
  <2>1. 8 + 1 - k0 = 9 - k0 /\ k0 <= 8 /\ (k0 = 5 => s2 = "off") /\ k0 # 9
    BY <1>3 DEF k0
  <2>2. T!Stretch(Append(T!Body(to), T!Do("status", to)), B, k0, 8 + 1 - k0)
    BY <1>9, <1>16, <1>18, <2>1
  <2> QED BY <1>3, <1>9, <1>16, <1>18, <2>1, <2>2 DEF B
<1>19. CASE to = "shell"
  <2>1. 13 + 1 - k1 = 14 - k1 /\ k1 <= 13
    BY <1>11
  <2>2. T!Stretch(Append(T!Body(to), T!Do("status", to)), B, k1, 13 + 1 - k1)
    BY <1>15, <1>19, <2>1
  <2> QED BY <1>11, <1>15, <1>19, <2>1, <2>2 DEF B
<1> QED BY <1>17, <1>18, <1>19

\* transition() of ShellStrategy.
LEMMA ShellEnters ==
    ASSUME s1 = "shell", NEW to \in {"off", "shell"}, s2 # to
    PROVE  /\ Append(T!Body(to), T!Do("status", to)) \in Seq(T!Orders)
           /\ \E n \in {4, 9}, k \in {1, 5} :
                /\ k <= n /\ T!Stretch(Append(T!Body(to), T!Do("status", to)), T!ShellBody, k, n + 1 - k)
                /\ (k = 5 => s2 = "off")
<1> DEFINE B == T!ShellBody
<1>1. /\ B[1] = T!ToOff[1] /\ B[2] = T!ToOff[2] /\ B[3] = T!ToOff[3] /\ B[4] = T!Do("status", "off")
      /\ B[5] = T!Do("activate", "console") /\ B[6] = T!Do("use", "cycle") /\ B[7] = T!Do("activate", "shell")
      /\ B[8] = T!Do("use", "run") /\ B[9] = T!Do("status", "shell")
  BY DEF T!ShellBody, T!ToOff
<1> HIDE DEF B
<1>2. /\ T!Stretch(Append(T!ToOff, T!Do("status", "off")), B, 1, 4)
      /\ Append(T!ToOff, T!Do("status", "off")) \in Seq(T!Orders)
      /\ s2 = "off" => T!Stretch(T!Inner("off", T!ToOff), B, 5, 0)
      /\ s2 # "off" => T!Stretch(T!Inner("off", T!ToOff), B, 1, 4)
      /\ T!Inner("off", T!ToOff) \in Seq(T!Orders)
  BY <1>1, OffEnters
<1> DEFINE k0 == IF s2 = "off" THEN 5 ELSE 1
           S4 == <<T!Do("activate", "console"), T!Do("use", "cycle"), T!Do("activate", "shell"), T!Do("use", "run")>>
<1>3. k0 \in {1, 5} /\ 5 - k0 \in Nat /\ k0 + (5 - k0) = 5 /\ (5 - k0) + 4 = 9 - k0 /\ 9 - k0 \in Nat /\ k0 + (9 - k0) = 9
      /\ (9 - k0) + 1 = 9 + 1 - k0 /\ k0 \in Nat /\ k0 <= 9 /\ (k0 = 5 => s2 = "off")
  OBVIOUS
<1>4. T!Stretch(T!Inner("off", T!ToOff), B, k0, 5 - k0)
  BY <1>2
<1>5. T!Stretch(S4, B, 5, 4) /\ S4 \in Seq(T!Orders)
  <2>1. B[5 + 1] = T!Do("use", "cycle") /\ B[5 + 2] = T!Do("activate", "shell") /\ B[5 + 3] = T!Do("use", "run")
    BY <1>1
  <2>2. B[5] = T!Do("activate", "console")
    BY <1>1
  <2>3. T!Do("activate", "console") \in T!Orders /\ T!Do("use", "cycle") \in T!Orders /\ T!Do("activate", "shell") \in T!Orders
        /\ T!Do("use", "run") \in T!Orders
    BY SomeOrders
  <2> QED BY <2>1, <2>2, <2>3, FourOrders
<1> HIDE DEF S4, k0
<1>6. T!Body("shell") = T!Inner("off", T!ToOff) \o S4 /\ T!Body("off") = T!ToOff
  BY DEF T!Body, T!ToShell, S4, T!HasLoader
<1>7. T!Stretch(T!Body("shell"), B, k0, 9 - k0) /\ T!Body("shell") \in Seq(T!Orders)
  <2>1. T!Stretch(S4, B, k0 + (5 - k0), 4)
    BY <1>3, <1>5
  <2>2. T!Stretch(T!Inner("off", T!ToOff) \o S4, B, k0, (5 - k0) + 4) /\ T!Inner("off", T!ToOff) \o S4 \in Seq(T!Orders)
    BY <1>2, <1>3, <1>4, <1>5, <2>1, StretchJoins
  <2> QED BY <1>3, <1>6, <2>2
<1>8. /\ T!Stretch(Append(T!Body("shell"), T!Do("status", "shell")), B, k0, 9 + 1 - k0)
      /\ Append(T!Body("shell"), T!Do("status", "shell")) \in Seq(T!Orders)
  <2>1. B[k0 + (9 - k0)] = T!Do("status", "shell")
    BY <1>1, <1>3
  <2>2. /\ T!Stretch(Append(T!Body("shell"), T!Do("status", "shell")), B, k0, (9 - k0) + 1)
        /\ Append(T!Body("shell"), T!Do("status", "shell")) \in Seq(T!Orders)
    BY <1>3, <1>7, <2>1, SomeOrders, StretchEnds
  <2> QED BY <1>3, <2>2
<1>9. CASE to = "off"
  <2>1. T!Stretch(Append(T!Body(to), T!Do("status", to)), B, 1, 4 + 1 - 1)
    BY <1>2, <1>6, <1>9
  <2> QED BY <1>2, <1>6, <1>9, <2>1 DEF B
<1>10. CASE to = "shell"
  BY <1>3, <1>8, <1>10 DEF B
<1> QED BY <1>9, <1>10

\* transition() of DockerStrategy.
LEMMA DockerEnters ==
    ASSUME NEW to \in {"accessible", "gone"}
    PROVE  /\ Append(T!Body(to), T!Do("status", to)) \in Seq(T!Orders)
           /\ to = "accessible" => T!Stretch(Append(T!Body(to), T!Do("status", to)), T!AccessibleBody, 1, 3)
           /\ to = "gone" => T!Stretch(Append(T!Body(to), T!Do("status", to)), T!GoneBody, 1, 4)
<1> DEFINE X == T!AccessibleBody
           Y == T!GoneBody
           D1 == T!Do("activate", "docker")
           D2 == T!Do("use", "on")
           D3 == T!Do("use", "docker_off")
           D4 == T!Do("deactivate", "docker")
<1>1. X[1] = D1 /\ X[2] = D2 /\ X[3] = T!Do("status", "accessible")
      /\ Y[1] = D1 /\ Y[2] = D3 /\ Y[3] = D4 /\ Y[4] = T!Do("status", "gone")
  BY DEF T!AccessibleBody, T!GoneBody
<1>2. T!Body("accessible") = <<D1, D2>> /\ T!Body("gone") = <<D1, D3, D4>>
  BY DEF T!Body, T!ToAccessible, T!ToGone
<1>3. D1 \in T!Orders /\ D2 \in T!Orders /\ D3 \in T!Orders /\ D4 \in T!Orders
      /\ T!Do("status", "accessible") \in T!Orders /\ T!Do("status", "gone") \in T!Orders
  BY SomeOrders
<1> HIDE DEF D1, D2, D3, D4, X, Y
<1>4. T!Stretch(<<D1, D2>>, X, 1, 2) /\ <<D1, D2>> \in Seq(T!Orders)
  <2>1. Len(<<D1, D2>>) = 2 /\ <<D1, D2>> \in Seq(T!Orders)
    BY <1>3
  <2>2. \A i \in 1..2 : <<D1, D2>>[i] = X[1 - 1 + i]
    BY <1>1
  <2> QED BY <2>1, <2>2 DEF T!Stretch
<1>5. T!Stretch(<<D1, D3, D4>>, Y, 1, 3) /\ <<D1, D3, D4>> \in Seq(T!Orders)
  <2>1. Y[1 + 1] = D3 /\ Y[1 + 2] = D4
    BY <1>1
  <2> QED BY <1>1, <1>3, <2>1, ThreeOrders
<1>6. X[1 + 2] = T!Do("status", "accessible") /\ Y[1 + 3] = T!Do("status", "gone") /\ 2 + 1 = 3 /\ 3 + 1 = 4
  BY <1>1
<1>7. CASE to = "accessible"
  <2>1. T!Stretch(Append(<<D1, D2>>, T!Do("status", "accessible")), X, 1, 2 + 1)
        /\ Append(<<D1, D2>>, T!Do("status", "accessible")) \in Seq(T!Orders)
    BY <1>3, <1>4, <1>6, StretchEnds
  <2> QED BY <1>2, <1>6, <1>7, <2>1 DEF X
<1>8. CASE to = "gone"
  <2>1. T!Stretch(Append(<<D1, D3, D4>>, T!Do("status", "gone")), Y, 1, 3 + 1)
        /\ Append(<<D1, D3, D4>>, T!Do("status", "gone")) \in Seq(T!Orders)
    BY <1>3, <1>5, <1>6, StretchEnds
  <2> QED BY <1>2, <1>6, <1>8, <2>1 DEF Y
<1> QED BY <1>7, <1>8

\* force(): the body, with the status at its end.
LEMMA ForceEnters ==
    ASSUME s1 \in {"barebox", "uboot", "shell"}, NEW to \in {"off", "loader", "shell"},
           T!ForceBody(to) # <<>>, s1 = "shell" => to # "loader"
    PROVE  LET body == T!ForceBody(to) \o <<T!Do("force", to)>>
           IN /\ body \in Seq(T!Orders)
              /\ \/ s1 # "uboot" /\ to # "off"
                    /\ T!Stretch(body, <<T!Do("activate", "power"), T!Do("activate", to), T!Do("force", to)>>, 1, 3)
                 \/ s1 = "uboot" /\ to # "off"
                    /\ T!Stretch(body, <<T!Do("activate", to), T!Do("force", to)>>, 1, 2)
                 \/ s1 = "uboot" /\ to = "off"
                    /\ T!Stretch(body, <<T!Do("activate", "power"), T!Do("force", "off")>>, 1, 2)
                 \/ s1 = "shell" /\ to = "off"
                    /\ T!Stretch(body, <<T!Do("deactivate", "shell"), T!Do("activate", "power"), T!Do("force", "off")>>, 1, 3)
<1> DEFINE F == T!Do("force", to)
<1>1. F \in T!Orders /\ T!Do("activate", "power") \in T!Orders /\ T!Do("deactivate", "shell") \in T!Orders
      /\ (to # "off" => T!Do("activate", to) \in T!Orders)
  BY SomeOrders
<1>2. <<F>> \in Seq(T!Orders)
  BY <1>1
<1> HIDE DEF F
\* One order, or two, with the last one behind.
<1>3. ASSUME NEW o1 \in T!Orders, NEW o2 \in T!Orders
      PROVE  /\ T!Stretch(<<o1, o2>> \o <<F>>, <<o1, o2, F>>, 1, 3) /\ <<o1, o2>> \o <<F>> \in Seq(T!Orders)
  <2>0. Len(<<o1, o2>>) = 2 /\ <<o1, o2>> \in Seq(T!Orders) /\ \A i \in 1..2 : <<o1, o2>>[i] = <<o1, o2, F>>[1 - 1 + i]
    BY <1>3
  <2>1. T!Stretch(<<o1, o2>>, <<o1, o2, F>>, 1, 2) /\ <<o1, o2>> \in Seq(T!Orders)
    BY <2>0 DEF T!Stretch
  <2>2. <<o1, o2, F>>[1 + 2] = F /\ 1 + 2 = 3 /\ 2 + 1 = 3 /\ <<o1, o2, F>>[3] = F
    OBVIOUS
  <2>3. T!Stretch(<<F>>, <<o1, o2, F>>, 3, 1)
    BY <1>1, <2>2, OneOrder
  <2>4. T!Stretch(<<o1, o2>> \o <<F>>, <<o1, o2, F>>, 1, 2 + 1) /\ <<o1, o2>> \o <<F>> \in Seq(T!Orders)
    <3>1. T!Stretch(<<F>>, <<o1, o2, F>>, 1 + 2, 1)
      BY <2>2, <2>3
    <3> QED BY <1>2, <2>1, <3>1, StretchJoins
  <2> QED BY <2>2, <2>4
<1>4. ASSUME NEW o1 \in T!Orders
      PROVE  /\ T!Stretch(<<o1>> \o <<F>>, <<o1, F>>, 1, 2) /\ <<o1>> \o <<F>> \in Seq(T!Orders)
  <2>0. Len(<<o1>>) = 1 /\ <<o1>> \in Seq(T!Orders) /\ \A i \in 1..1 : <<o1>>[i] = <<o1, F>>[1 - 1 + i]
    BY <1>4
  <2>1. T!Stretch(<<o1>>, <<o1, F>>, 1, 1) /\ <<o1>> \in Seq(T!Orders)
    BY <2>0 DEF T!Stretch
  <2>2. <<o1, F>>[2] = F /\ 1 + 1 = 2
    OBVIOUS
  <2>3. T!Stretch(<<F>>, <<o1, F>>, 2, 1)
    BY <1>1, <2>2, OneOrder
  <2>4. T!Stretch(<<o1>> \o <<F>>, <<o1, F>>, 1, 1 + 1) /\ <<o1>> \o <<F>> \in Seq(T!Orders)
    <3>1. T!Stretch(<<F>>, <<o1, F>>, 1 + 1, 1)
      BY <2>2, <2>3
    <3> QED BY <1>2, <2>1, <3>1, StretchJoins
  <2> QED BY <2>2, <2>4
<1>5. CASE s1 # "uboot" /\ to # "off"
  <2>1. T!ForceBody(to) = <<T!Do("activate", "power"), T!Do("activate", to)>>
    BY <1>5 DEF T!ForceBody
  <2> QED BY <1>1, <1>3, <1>5, <2>1 DEF F
<1>6. CASE s1 = "uboot" /\ to # "off"
  <2>1. T!ForceBody(to) = <<T!Do("activate", to)>>
    BY <1>6 DEF T!ForceBody
  <2> QED BY <1>1, <1>4, <1>6, <2>1 DEF F
<1>7. CASE s1 = "uboot" /\ to = "off"
  <2>1. T!ForceBody(to) = <<T!Do("activate", "power")>>
    BY <1>7 DEF T!ForceBody
  <2> QED BY <1>1, <1>4, <1>7, <2>1 DEF F
<1>8. CASE s1 = "shell" /\ to = "off"
  <2>1. T!ForceBody(to) = <<T!Do("deactivate", "shell"), T!Do("activate", "power")>>
    BY <1>8 DEF T!ForceBody
  <2> QED BY <1>1, <1>3, <1>8, <2>1 DEF F
<1>9. ~(s1 = "barebox" /\ to = "off")
  BY DEF T!ForceBody
<1> QED BY <1>5, <1>6, <1>7, <1>8, <1>9

\* What a step of a body leaves behind satisfies the invariant.
LEMMA StrategyMoved ==
    ASSUME T!StrategiesInv, ~s3, Kept, s4' \in Seq(T!Orders),
           \/ s4' = <<>> /\ T!Resting'
           \/ s4' # <<>> /\ T!Underway'
    PROVE  T!StrategiesInv'
<1>1. T!Statuses' = T!Statuses
  BY DEF Kept, T!Statuses, T!HasLoader
<1>2. T!TypeOK' /\ T!DriversReady'
  BY <1>1 DEF T!StrategiesInv, T!TypeOK, T!DriversReady, Kept
<1> QED BY <1>2 DEF T!StrategiesInv, Kept, T!Idle

\* A step in the middle of one of the bodies.
LEMMA StrategyGoes ==
    ASSUME T!StrategiesInv, ~T!Idle
    PROVE  /\ Goes => T!StrategiesInv'
           /\ T!Step[1] = "use" => T!Driver \in s5
<1>1. T!Underway /\ ~s3 /\ s4 \in Seq(T!Orders) /\ T!TypeOK
  BY DEF T!StrategiesInv
<1>2. ASSUME T!HasLoader, NEW n \in {4, 8, 13}, NEW k \in 1..13, T!Within(T!LoaderBody, n, k), T!LoaderKnown(k)
      PROVE  /\ Goes => T!StrategiesInv' 
             /\ T!Step[1] = "use" => T!Driver \in s5
  <2>1. Goes => Kept /\ (k < n => T!LoaderKnown(k + 1)') /\ (k = n => T!Resting')
    BY <1>2, LoaderGoes
  <2>2. T!Step[1] = "use" => T!Driver \in s5
    BY <1>2, LoaderGoes
  <2>3. ASSUME Goes PROVE T!StrategiesInv'
    <3>1. Kept /\ s4' = Tail(s4)
      BY <2>1, <2>3 DEF Kept
    <3>2. k \in 1..n /\ n \in Nat /\ s4' \in Seq(T!Orders) /\ (k = n => s4' = <<>>)
          /\ (k # n => T!Within(T!LoaderBody, n, k + 1)' /\ s4' # <<>>)
      <4>1. n \in Nat
        BY <1>2
      <4>2. /\ k \in 1..n /\ Tail(s4) \in Seq(T!Orders)
            /\ s4' = Tail(s4) => IF k = n THEN s4' = <<>> ELSE T!Within(T!LoaderBody, n, k + 1)' /\ s4' # <<>>
        BY <1>1, <1>2, <4>1, NextInBody
      <4> QED BY <3>1, <4>1, <4>2
    <3>3. k # n => k < n /\ k + 1 \in 1..13
      BY <1>2, <3>2
    <3>4. T!HasLoader'
      BY <1>2, <3>1 DEF T!HasLoader, Kept
    <3>5. k # n => T!Underway'
      BY <1>2, <2>1, <2>3, <3>2, <3>3, <3>4 DEF T!Underway
    <3> QED BY <1>1, <2>1, <2>3, <3>1, <3>2, <3>5, StrategyMoved
  <2> QED BY <2>2, <2>3
<1>3. ASSUME s1 = "shell", NEW n \in {4, 9}, NEW k \in 1..9, T!Within(T!ShellBody, n, k), T!ShellKnown(k)
      PROVE  /\ Goes => T!StrategiesInv' 
             /\ T!Step[1] = "use" => T!Driver \in s5
  <2>1. Goes => Kept /\ (k < n => T!ShellKnown(k + 1)') /\ (k = n => T!Resting')
    BY <1>3, ShellGoes
  <2>2. T!Step[1] = "use" => T!Driver \in s5
    BY <1>3, ShellGoes
  <2>3. ASSUME Goes PROVE T!StrategiesInv'
    <3>1. Kept /\ s4' = Tail(s4) /\ s1' = "shell"
      BY <1>3, <2>1, <2>3 DEF Kept
    <3>2. k \in 1..n /\ n \in Nat /\ s4' \in Seq(T!Orders) /\ (k = n => s4' = <<>>)
          /\ (k # n => T!Within(T!ShellBody, n, k + 1)' /\ s4' # <<>>)
      <4>1. n \in Nat
        BY <1>3
      <4> QED BY <1>1, <1>3, <3>1, <4>1, NextInBody, ZenonT(60)
    <3>3. k # n => k < n /\ k + 1 \in 1..9
      BY <1>3, <3>2
    <3>5. k # n => T!Underway'
      BY <1>3, <2>1, <2>3, <3>1, <3>2, <3>3 DEF T!Underway
    <3> QED BY <1>1, <2>1, <2>3, <3>1, <3>2, <3>5, StrategyMoved
  <2> QED BY <2>2, <2>3
<1>4. ASSUME s1 = "docker", NEW k \in 1..3, T!Within(T!AccessibleBody, 3, k), T!DockerKnown(k, "linux")
      PROVE  /\ Goes => T!StrategiesInv' 
             /\ T!Step[1] = "use" => T!Driver \in s5
  <2>1. Goes => Kept /\ (k < 3 => T!DockerKnown(k + 1, "linux")') /\ (k = 3 => T!Resting')
    BY <1>4, AccessibleGoes
  <2>2. T!Step[1] = "use" => T!Driver \in s5
    BY <1>4, AccessibleGoes
  <2>3. ASSUME Goes PROVE T!StrategiesInv'
    <3>1. Kept /\ s4' = Tail(s4) /\ s1' = "docker"
      BY <1>4, <2>1, <2>3 DEF Kept
    <3>2. s4' \in Seq(T!Orders) /\ (k = 3 => s4' = <<>>)
          /\ (k # 3 => T!Within(T!AccessibleBody, 3, k + 1)' /\ s4' # <<>>)
      BY <1>1, <1>4, <3>1, NextInBody
    <3>3. k # 3 => k < 3 /\ k + 1 \in 1..3
      BY <1>4
    <3>5. k # 3 => T!Underway'
      BY <1>4, <2>1, <2>3, <3>1, <3>2, <3>3 DEF T!Underway
    <3> QED BY <1>1, <2>1, <2>3, <3>1, <3>2, <3>5, StrategyMoved
  <2> QED BY <2>2, <2>3
<1>5. ASSUME s1 = "docker", NEW k \in 1..4, T!Within(T!GoneBody, 4, k), T!DockerKnown(k, "off")
      PROVE  /\ Goes => T!StrategiesInv' 
             /\ T!Step[1] = "use" => T!Driver \in s5
  <2>1. Goes => Kept /\ (k < 4 => T!DockerKnown(k + 1, "off")') /\ (k = 4 => T!Resting')
    BY <1>5, GoneGoes
  <2>2. T!Step[1] = "use" => T!Driver \in s5
    BY <1>5, GoneGoes
  <2>3. ASSUME Goes PROVE T!StrategiesInv'
    <3>1. Kept /\ s4' = Tail(s4) /\ s1' = "docker"
      BY <1>5, <2>1, <2>3 DEF Kept
    <3>2. s4' \in Seq(T!Orders) /\ (k = 4 => s4' = <<>>)
          /\ (k # 4 => T!Within(T!GoneBody, 4, k + 1)' /\ s4' # <<>>)
      BY <1>1, <1>5, <3>1, NextInBody
    <3>3. k # 4 => k < 4 /\ k + 1 \in 1..4
      BY <1>5
    <3>5. k # 4 => T!Underway'
      BY <1>5, <2>1, <2>3, <3>1, <3>2, <3>3 DEF T!Underway
    <3> QED BY <1>1, <2>1, <2>3, <3>1, <3>2, <3>5, StrategyMoved
  <2> QED BY <2>2, <2>3
<1>6. ASSUME s1 # "docker", NEW to \in T!Statuses, T!ForceKnown(to)
      PROVE  /\ Goes => T!StrategiesInv' 
             /\ T!Step[1] # "use"
  <2>1. ASSUME NEW body, NEW n \in {2, 3}, NEW k \in 1..n, T!Within(body, n, k), Goes, Kept,
               k # n => (T!Within(body, n, k + 1)' => T!ForceKnown(to)'), k = n => T!Resting'
        PROVE  T!StrategiesInv'
    <3>1. Kept /\ s4' = Tail(s4) /\ s1' # "docker" /\ to \in T!Statuses'
      BY <1>6, <2>1 DEF Kept, T!Statuses, T!HasLoader
    <3>2. n \in Nat /\ s4' \in Seq(T!Orders) /\ (k = n => s4' = <<>>) /\ (k # n => T!Within(body, n, k + 1)' /\ s4' # <<>>)
      <4>1. n \in Nat
        BY <2>1
      <4> QED BY <1>1, <2>1, <3>1, <4>1, NextInBody
    <3>3. k # n => T!Underway'
      BY <2>1, <3>1, <3>2 DEF T!Underway
    <3> QED BY <1>1, <2>1, <3>2, <3>3, StrategyMoved
  <2>2. T!Prompts /\ s1 \in T!Kinds
    BY <1>1, <1>6 DEF T!ForceKnown, T!TypeOK
  <2>3. ASSUME s1 # "uboot", to # "off", NEW k \in 1..3,
               T!Within(<<T!Do("activate", "power"), T!Do("activate", to), T!Do("force", to)>>, 3, k), k = 3 => T!UpKnown(to)
        PROVE  (Goes => T!StrategiesInv') /\ T!Step[1] # "use"
    <3>1. \/ to = "loader" /\ s1 = "barebox"
          \/ to = "shell" /\ s1 \in {"barebox", "shell"}
      BY <1>6, <2>2, <2>3 DEF T!Statuses, T!HasLoader, T!Kinds
    <3>2. (Goes => Kept /\ (k < 3 => T!Prompts' /\ (k + 1 = 3 => T!UpKnown(to)')) /\ (k = 3 => T!Resting')) /\ T!Step[1] # "use"
      <4>1. CASE to = "loader" /\ s1 = "barebox"
        BY <2>2, <2>3, <4>1, PowersLoader
      <4>2. CASE to = "shell" /\ s1 \in {"barebox", "shell"}
        BY <2>2, <2>3, <4>2, PowersShell
      <4> QED BY <3>1, <4>1, <4>2
    <3>3. ASSUME Goes PROVE T!StrategiesInv'
      <4>1. k # 3 => k < 3 /\ k + 1 \in 1..3
        BY <2>3
      <4>2. s1' # "uboot" /\ Kept
        BY <2>3, <3>2, <3>3 DEF Kept
      <4>3. k # 3 => (T!Within(<<T!Do("activate", "power"), T!Do("activate", to), T!Do("force", to)>>, 3, k + 1)' => T!ForceKnown(to)')
        BY <2>3, <3>2, <3>3, <4>1, <4>2 DEF T!ForceKnown
      <4> QED BY <2>1, <2>3, <3>2, <3>3, <4>2, <4>3
    <3> QED BY <3>2, <3>3
  <2>4. ASSUME s1 = "uboot", to # "off", NEW k \in 1..2,
               T!Within(<<T!Do("activate", to), T!Do("force", to)>>, 2, k), k = 2 => T!UpKnown(to)
        PROVE  (Goes => T!StrategiesInv') /\ T!Step[1] # "use"
    <3>1. to = "loader" \/ to = "shell"
      BY <1>6, <2>2, <2>4 DEF T!Statuses, T!HasLoader, T!Kinds
    <3>2. (Goes => Kept /\ (k < 2 => T!Prompts' /\ (k + 1 = 2 => T!UpKnown(to)')) /\ (k = 2 => T!Resting')) /\ T!Step[1] # "use"
      <4>1. CASE to = "loader"
        BY <2>2, <2>4, <4>1, ForcesLoader
      <4>2. CASE to = "shell"
        BY <2>2, <2>4, <4>2, ForcesShell
      <4> QED BY <3>1, <4>1, <4>2
    <3>3. ASSUME Goes PROVE T!StrategiesInv'
      <4>1. k # 2 => k < 2 /\ k + 1 \in 1..2
        BY <2>4
      <4>2. s1' = "uboot" /\ Kept
        BY <2>4, <3>2, <3>3 DEF Kept
      <4>3. k # 2 => (T!Within(<<T!Do("activate", to), T!Do("force", to)>>, 2, k + 1)' => T!ForceKnown(to)')
        BY <2>4, <3>2, <3>3, <4>1, <4>2 DEF T!ForceKnown
      <4> QED BY <2>1, <2>4, <3>2, <3>3, <4>2, <4>3
    <3> QED BY <3>2, <3>3
  <2>5. ASSUME s1 = "uboot", to = "off", NEW k \in 1..2,
               T!Within(<<T!Do("activate", "power"), T!Do("force", "off")>>, 2, k), k = 2 => "power" \in s5
        PROVE  (Goes => T!StrategiesInv') /\ T!Step[1] # "use"
    <3>2. (Goes => Kept /\ (k < 2 => T!Prompts' /\ (k + 1 = 2 => "power" \in s5')) /\ (k = 2 => T!Resting')) /\ T!Step[1] # "use"
      BY <2>2, <2>5, ForcesOff
    <3>3. ASSUME Goes PROVE T!StrategiesInv'
      <4>1. k # 2 => k < 2 /\ k + 1 \in 1..2
        BY <2>5
      <4>2. s1' = "uboot" /\ Kept
        BY <2>5, <3>2, <3>3 DEF Kept
      <4>3. k # 2 => (T!Within(<<T!Do("activate", "power"), T!Do("force", "off")>>, 2, k + 1)' => T!ForceKnown(to)')
        BY <2>5, <3>2, <3>3, <4>1, <4>2 DEF T!ForceKnown
      <4> QED BY <2>1, <2>5, <3>2, <3>3, <4>2, <4>3
    <3> QED BY <3>2, <3>3
  <2>6. ASSUME s1 = "shell", to = "off", NEW k \in 1..3,
               T!Within(<<T!Do("deactivate", "shell"), T!Do("activate", "power"), T!Do("force", "off")>>, 3, k),
               k > 1 => T!Quiet, k = 3 => "power" \in s5
        PROVE  (Goes => T!StrategiesInv') /\ T!Step[1] # "use"
    <3>2. (Goes => Kept /\ (k < 3 => T!Prompts' /\ (k + 1 > 1 => T!Quiet') /\ (k + 1 = 3 => "power" \in s5')) /\ (k = 3 => T!Resting'))
          /\ T!Step[1] # "use"
      BY <2>2, <2>6, ShellForcesOff
    <3>3. ASSUME Goes PROVE T!StrategiesInv'
      <4>1. k # 3 => k < 3 /\ k + 1 \in 1..3
        BY <2>6
      <4>2. s1' = "shell" /\ Kept
        BY <2>6, <3>2, <3>3 DEF Kept
      <4>3. k # 3 => (T!Within(<<T!Do("deactivate", "shell"), T!Do("activate", "power"), T!Do("force", "off")>>, 3, k + 1)'
                        => T!ForceKnown(to)')
        BY <2>6, <3>2, <3>3, <4>1, <4>2 DEF T!ForceKnown
      <4> QED BY <2>1, <2>6, <3>2, <3>3, <4>2, <4>3
    <3> QED BY <3>2, <3>3
  <2> QED BY <1>6, <2>3, <2>4, <2>5, <2>6 DEF T!ForceKnown
<1> QED BY <1>1, <1>2, <1>3, <1>4, <1>5, <1>6 DEF T!Underway

\* A strategy that was only bound satisfies the invariant.
LEMMA StrategyInit == ASSUME T!Init PROVE T!StrategiesInv
<1>1. T!TypeOK /\ T!DriversReady
  BY DEF T!Init, T!TypeOK, T!DriversReady, T!Kinds
<1>2. s4 \in Seq(T!Orders)
  BY DEF T!Init
<1>3. T!Resting
  BY DEF T!Init, T!Resting, T!Prompts, T!AtPrompt
<1> QED BY <1>1, <1>2, <1>3 DEF T!StrategiesInv, T!Idle, T!Init

\* A call that begins is at the first step of what it has to do.
LEMMA StrategyBegins ==
    ASSUME T!StrategiesInv, T!Idle, ~s3, UNCHANGED <<s1, s2, s3, s5, s6, s7, s8>>, s9' = "none",
           s4' \in Seq(T!Orders), s4' # <<>>, T!Underway'
    PROVE  T!StrategiesInv'
<1>1. T!TypeOK' /\ T!DriversReady'
  BY DEF T!StrategiesInv, T!TypeOK, T!DriversReady, T!Statuses, T!HasLoader
<1> QED BY <1>1 DEF T!StrategiesInv, T!Idle

\* Starting a transition keeps the invariant: its orders are a stretch of a body.
LEMMA StrategyTransition ==
    ASSUME T!StrategiesInv, NEW to \in T!Statuses, T!Transition(to) PROVE T!StrategiesInv'
<1>1. T!Idle /\ ~s3 /\ UNCHANGED <<s1, s2, s3, s5, s6, s7, s8>>
  BY DEF T!Transition, T!Outside
<1>2. T!Resting /\ T!TypeOK /\ s1 \in T!Kinds
  BY <1>1 DEF T!StrategiesInv, T!TypeOK
<1>3. CASE s2 = to
  <2>1. s4' = s4 /\ s9' = "nothing"
    BY <1>3 DEF T!Transition
  <2>2. T!TypeOK' /\ T!DriversReady'
    BY <1>1, <1>2, <2>1 DEF T!TypeOK, T!DriversReady, T!Statuses, T!HasLoader
  <2>3. T!Resting'
    BY <1>1, <1>2 DEF T!Resting, T!Prompts, T!AtPrompt, T!KnownLoader, T!KnownShell, T!Quiet
  <2> QED BY <1>1, <2>1, <2>2, <2>3 DEF T!StrategiesInv, T!Idle
<1>4. CASE s2 # to
  <2>1. s4' = Append(T!Body(to), T!Do("status", to)) /\ s9' = "none"
    BY <1>4 DEF T!Transition
  <2>2. CASE T!HasLoader
    <3>1. to \in {"off", "loader", "shell"}
      BY <2>2 DEF T!Statuses, T!HasLoader
    <3>2. PICK n \in {4, 8, 13}, k \in {1, 5, 9} :
            /\ k <= n /\ T!Stretch(s4', T!LoaderBody, k, n + 1 - k)
            /\ (k = 5 => s2 = "off") /\ (k = 9 => s2 = "loader")
      BY <1>4, <2>1, <2>2, <3>1, LoaderEnters
    <3>3. s4' \in Seq(T!Orders)
      BY <1>4, <2>1, <2>2, <3>1, LoaderEnters
    <3>4. k \in 1..n /\ k \in 1..13 /\ n + 1 - k \in Nat \ {0}
      BY <3>2
    <3>5. s4' # <<>>
      <4>1. Len(s4') # 0
        BY <3>2, <3>4 DEF T!Stretch
      <4>2. s4' = <<>> => Len(s4') = 0
        OBVIOUS
      <4> QED BY <4>1, <4>2
    <3>6. T!Within(T!LoaderBody, n, k)'
      BY <3>2, <3>4 DEF T!Within
    <3>7. T!LoaderKnown(k)'
      <4>1. T!LoaderKnown(k)
        <5>1. CASE k = 1
          BY <5>1 DEF T!LoaderKnown, T!OffKnown
        <5>2. CASE k = 5
          BY <1>2, <3>2, <5>2 DEF T!LoaderKnown, T!OffKnown, T!Resting
        <5>3. CASE k = 9
          BY <1>2, <3>2, <5>3 DEF T!LoaderKnown, T!OffKnown, T!Resting
        <5> QED BY <3>2, <5>1, <5>2, <5>3
      <4> QED BY <1>1, <4>1 DEF T!LoaderKnown, T!OffKnown, T!Quiet, T!KnownLoader, T!KnownShell
    <3>8. T!Underway'
      BY <1>1, <2>2, <3>2, <3>4, <3>6, <3>7 DEF T!Underway, T!HasLoader
    <3> QED BY <1>1, <2>1, <3>3, <3>5, <3>8, StrategyBegins
  <2>3. CASE s1 = "shell"
    <3>1. to \in {"off", "shell"}
      BY <2>3 DEF T!Statuses, T!HasLoader
    <3>2. PICK n \in {4, 9}, k \in {1, 5} :
            /\ k <= n /\ T!Stretch(s4', T!ShellBody, k, n + 1 - k)
            /\ (k = 5 => s2 = "off")
      BY <1>4, <2>1, <2>3, <3>1, ShellEnters
    <3>3. s4' \in Seq(T!Orders)
      BY <1>4, <2>1, <2>3, <3>1, ShellEnters
    <3>4. k \in 1..n /\ k \in 1..9 /\ n + 1 - k \in Nat \ {0}
      BY <3>2
    <3>5. s4' # <<>>
      <4>1. Len(s4') # 0
        BY <3>2, <3>4 DEF T!Stretch
      <4>2. s4' = <<>> => Len(s4') = 0
        OBVIOUS
      <4> QED BY <4>1, <4>2
    <3>6. T!Within(T!ShellBody, n, k)'
      BY <3>2, <3>4 DEF T!Within
    <3>7. T!ShellKnown(k)'
      <4>1. T!ShellKnown(k)
        <5>1. CASE k = 1
          BY <5>1 DEF T!ShellKnown, T!OffKnown
        <5>2. CASE k = 5
          BY <1>2, <3>2, <5>2 DEF T!ShellKnown, T!OffKnown, T!Resting
        <5> QED BY <3>2, <5>1, <5>2
      <4> QED BY <1>1, <4>1 DEF T!ShellKnown, T!OffKnown, T!Quiet, T!KnownShell
    <3>8. T!Underway'
      BY <1>1, <2>3, <3>2, <3>4, <3>6, <3>7 DEF T!Underway
    <3> QED BY <1>1, <2>1, <3>3, <3>5, <3>8, StrategyBegins
  <2>4. CASE s1 = "docker"
    <3>1. to \in {"accessible", "gone"}
      BY <2>4 DEF T!Statuses, T!HasLoader
    <3>2. /\ s4' \in Seq(T!Orders)
          /\ to = "accessible" => T!Stretch(s4', T!AccessibleBody, 1, 3)
          /\ to = "gone" => T!Stretch(s4', T!GoneBody, 1, 4)
      BY <2>1, <3>1, DockerEnters
    <3>5. s4' # <<>>
      <4>1. Len(s4') # 0
        BY <3>1, <3>2 DEF T!Stretch
      <4>2. s4' = <<>> => Len(s4') = 0
        OBVIOUS
      <4> QED BY <4>1, <4>2
    <3>6. CASE to = "accessible"
      <4>1. T!Within(T!AccessibleBody, 3, 1)'
        BY <3>2, <3>6 DEF T!Within
      <4>2. T!DockerKnown(1, "linux")'
        BY DEF T!DockerKnown
      <4>3. s1' = "docker" /\ 1 \in 1..3
        BY <1>1, <2>4
      <4>4. T!Underway'
        BY <4>1, <4>2, <4>3 DEF T!Underway
      <4> QED BY <1>1, <2>1, <3>2, <3>5, <4>4, StrategyBegins
    <3>7. CASE to = "gone"
      <4>1. T!Within(T!GoneBody, 4, 1)'
        BY <3>2, <3>7 DEF T!Within
      <4>2. T!DockerKnown(1, "off")'
        BY DEF T!DockerKnown
      <4>3. s1' = "docker" /\ 1 \in 1..4
        BY <1>1, <2>4
      <4>4. T!Underway'
        BY <4>1, <4>2, <4>3 DEF T!Underway
      <4> QED BY <1>1, <2>1, <3>2, <3>5, <4>4, StrategyBegins
    <3> QED BY <3>1, <3>6, <3>7
  <2> QED BY <1>2, <2>2, <2>3, <2>4 DEF T!Kinds, T!HasLoader
<1> QED BY <1>3, <1>4

\* Starting a force() keeps the invariant.
LEMMA StrategyForce ==
    ASSUME T!StrategiesInv, NEW to \in T!Statuses, T!Force(to) PROVE T!StrategiesInv'
<1>1. T!Idle /\ ~s3 /\ s1 # "docker" /\ UNCHANGED <<s1, s2, s5, s6, s7, s8>>
  BY DEF T!Force, T!Outside
<1>2. T!Resting /\ T!TypeOK /\ s1 \in {"barebox", "uboot", "shell"}
  BY <1>1 DEF T!StrategiesInv, T!TypeOK, T!Kinds
<1>3. T!Prompts /\ to \in {"off", "loader", "shell"} /\ (s1 = "shell" => to # "loader")
  BY <1>1, <1>2 DEF T!Resting, T!Statuses, T!HasLoader
<1>4. CASE T!ForceBody(to) = <<>>
  <2>1. s3' = TRUE /\ s9' = "failed" /\ s4' = s4
    BY <1>4 DEF T!Force
  <2>2. T!TypeOK' /\ T!DriversReady'
    BY <1>1, <1>2, <2>1 DEF T!TypeOK, T!DriversReady, T!Statuses, T!HasLoader
  <2> QED BY <1>1, <2>1, <2>2 DEF T!StrategiesInv, T!Idle
<1>5. CASE T!ForceBody(to) # <<>>
  <2> DEFINE body == T!ForceBody(to) \o <<T!Do("force", to)>>
  <2>1. s4' = body /\ s9' = "none" /\ s3' = s3
    BY <1>5 DEF T!Force
  <2>2. /\ s4' \in Seq(T!Orders)
        /\ \/ s1 # "uboot" /\ to # "off"
              /\ T!Stretch(s4', <<T!Do("activate", "power"), T!Do("activate", to), T!Do("force", to)>>, 1, 3)
           \/ s1 = "uboot" /\ to # "off"
              /\ T!Stretch(s4', <<T!Do("activate", to), T!Do("force", to)>>, 1, 2)
           \/ s1 = "uboot" /\ to = "off"
              /\ T!Stretch(s4', <<T!Do("activate", "power"), T!Do("force", "off")>>, 1, 2)
           \/ s1 = "shell" /\ to = "off"
              /\ T!Stretch(s4', <<T!Do("deactivate", "shell"), T!Do("activate", "power"), T!Do("force", "off")>>, 1, 3)
    BY <1>2, <1>3, <1>5, <2>1, ForceEnters
  <2>3. s4' # <<>>
    <3>1. Len(s4') # 0
      BY <2>2 DEF T!Stretch
    <3>2. s4' = <<>> => Len(s4') = 0
      OBVIOUS
    <3> QED BY <3>1, <3>2
  <2>4. T!Prompts' /\ s1' = s1
    BY <1>1, <1>3 DEF T!Prompts, T!AtPrompt
  <2>5. T!ForceKnown(to)'
    <3>1. CASE s1 # "uboot" /\ to # "off" /\ T!Stretch(s4', <<T!Do("activate", "power"), T!Do("activate", to), T!Do("force", to)>>, 1, 3)
      <4>1. T!Within(<<T!Do("activate", "power"), T!Do("activate", to), T!Do("force", to)>>, 3, 1)'
        BY <3>1 DEF T!Within
      <4> QED BY <2>4, <3>1, <4>1 DEF T!ForceKnown
    <3>2. CASE s1 = "uboot" /\ to # "off" /\ T!Stretch(s4', <<T!Do("activate", to), T!Do("force", to)>>, 1, 2)
      <4>1. T!Within(<<T!Do("activate", to), T!Do("force", to)>>, 2, 1)'
        BY <3>2 DEF T!Within
      <4> QED BY <2>4, <3>2, <4>1 DEF T!ForceKnown
    <3>3. CASE s1 = "uboot" /\ to = "off" /\ T!Stretch(s4', <<T!Do("activate", "power"), T!Do("force", "off")>>, 1, 2)
      <4>1. T!Within(<<T!Do("activate", "power"), T!Do("force", "off")>>, 2, 1)'
        BY <3>3 DEF T!Within
      <4> QED BY <2>4, <3>3, <4>1 DEF T!ForceKnown
    <3>4. CASE s1 = "shell" /\ to = "off"
               /\ T!Stretch(s4', <<T!Do("deactivate", "shell"), T!Do("activate", "power"), T!Do("force", "off")>>, 1, 3)
      <4>1. T!Within(<<T!Do("deactivate", "shell"), T!Do("activate", "power"), T!Do("force", "off")>>, 3, 1)'
        BY <3>4 DEF T!Within
      <4> QED BY <2>4, <3>4, <4>1 DEF T!ForceKnown
    <3> QED BY <2>2, <3>1, <3>2, <3>3, <3>4
  <2>6. T!Underway'
    <3>1. to \in T!Statuses' /\ s1' # "docker"
      BY <1>1 DEF T!Statuses, T!HasLoader
    <3> QED BY <2>5, <3>1 DEF T!Underway
  <2> QED BY <1>1, <2>1, <2>2, <2>3, <2>6, StrategyBegins
<1> QED BY <1>4, <1>5

\* A driver that raises breaks the strategy and keeps the invariant.
LEMMA StrategyRaises ==
    ASSUME T!StrategiesInv, T!Raises PROVE T!StrategiesInv'
<1>1. ~T!Idle /\ s4' = <<>> /\ s3' = TRUE /\ UNCHANGED <<s1, s2, s5, s6, s7, s8>>
  BY DEF T!Raises, T!Outside
<1>2. T!Step[1] = "use" => T!Driver \in s5
  BY <1>1, StrategyGoes
<1>3. s9' = "failed"
  BY <1>2 DEF T!Raises
<1>4. T!TypeOK' /\ T!DriversReady'
  BY <1>1, <1>3 DEF T!StrategiesInv, T!TypeOK, T!DriversReady, T!Statuses, T!HasLoader
<1>5. s4' \in Seq(T!Orders)
  BY <1>1
<1> QED BY <1>1, <1>4, <1>5 DEF T!StrategiesInv, T!Idle

\* A broken strategy that refuses a transition keeps the invariant.
LEMMA StrategyRefused ==
    ASSUME T!StrategiesInv, T!Refused PROVE T!StrategiesInv'
<1>1. T!Idle /\ s3 /\ s9' = "refused" /\ UNCHANGED <<s1, s2, s3, s4, s5, s6, s7, s8>>
  BY DEF T!Refused, T!Outside
<1>2. T!TypeOK' /\ T!DriversReady'
  BY <1>1 DEF T!StrategiesInv, T!TypeOK, T!DriversReady, T!Statuses, T!HasLoader
<1> QED BY <1>1, <1>2 DEF T!StrategiesInv, T!Idle

\* Every step of a strategy and of its drivers keeps the invariant.
LEMMA StrategyStep == ASSUME T!StrategiesInv, [T!Next]_(T!vars) PROVE T!StrategiesInv'
<1>1. CASE UNCHANGED T!vars
  <2>1. UNCHANGED <<s1, s2, s3, s4, s5, s6, s7, s8, s9>>
    BY <1>1 DEF T!vars
  <2>2. T!TypeOK' /\ T!DriversReady' /\ (T!Idle' <=> T!Idle) /\ (T!HasLoader' <=> T!HasLoader) /\ T!Statuses' = T!Statuses
    BY <2>1 DEF T!StrategiesInv, T!TypeOK, T!DriversReady, T!Statuses, T!HasLoader, T!Idle
  <2>3. (T!Resting' <=> T!Resting) /\ (T!Prompts' <=> T!Prompts) /\ (T!Quiet' <=> T!Quiet)
    BY <2>1 DEF T!Resting, T!Prompts, T!AtPrompt, T!KnownLoader, T!KnownShell, T!Quiet
  <2>4. \A body, n, k : T!Within(body, n, k)' <=> T!Within(body, n, k)
    BY <2>1 DEF T!Within, T!Stretch
  <2>5. \A k : (T!LoaderKnown(k)' <=> T!LoaderKnown(k)) /\ (T!ShellKnown(k)' <=> T!ShellKnown(k))
    BY <2>1, <2>3 DEF T!LoaderKnown, T!ShellKnown, T!OffKnown, T!KnownLoader, T!KnownShell
  <2>6. \A k, x : T!DockerKnown(k, x)' <=> T!DockerKnown(k, x)
    BY <2>1 DEF T!DockerKnown
  <2>7. \A to : T!UpKnown(to)' <=> T!UpKnown(to)
    BY <2>1 DEF T!UpKnown, T!KnownLoader, T!KnownShell
  <2>8. \A to : T!ForceKnown(to)' <=> T!ForceKnown(to)
    BY <2>1, <2>3, <2>4, <2>7 DEF T!ForceKnown
  <2>9. T!Underway' <=> T!Underway
    BY <2>1, <2>2, <2>4, <2>5, <2>6, <2>8 DEF T!Underway
  <2> QED BY <2>1, <2>2, <2>3, <2>9 DEF T!StrategiesInv
<1>2. CASE T!Refused
  BY <1>2, StrategyRefused
<1>3. CASE T!Raises
  BY <1>3, StrategyRaises
<1>4. CASE Goes
  <2>1. ~T!Idle
    BY <1>4 DEF Goes, T!Deactivate, T!Activate, T!Use, T!SetStatus
  <2> QED BY <1>4, <2>1, StrategyGoes
<1>5. ASSUME NEW to \in T!Statuses, T!Transition(to) \/ T!Force(to) PROVE T!StrategiesInv'
  BY <1>5, StrategyTransition, StrategyForce
<1> QED BY <1>1, <1>2, <1>3, <1>4, <1>5 DEF T!Next, Goes

\* What is known of a strategy at rest is what its status says.
LEMMA StrategyTells == ASSUME T!StrategiesInv PROVE T!TypeOK /\ T!StrategiesHonest
<1>1. T!TypeOK /\ T!DriversReady
  BY DEF T!StrategiesInv
<1>2. ASSUME T!Idle, ~s3, ~s8 PROVE T!Resting
  BY <1>2 DEF T!StrategiesInv
<1>3. T!StatusIsTrue
  BY <1>2 DEF T!StatusIsTrue, T!Resting, T!KnownLoader, T!KnownShell, T!Quiet
<1> QED BY <1>1, <1>3 DEF T!StrategiesHonest

-----------------------------------------------------------------------------
(***************************************************************************)
(* Exports (remote/exporter.py).                                           *)
(***************************************************************************)
\* The client can be given the class of an entry, with its parameters.
Fits(c, entry) ==
    c \in {"USBHub", "NFSProvider"} \/ (/\ entry.as \in DOMAIN Classes
                                        /\ Classes[entry.as].needed \subseteq entry.params
                                        /\ entry.params \subseteq Classes[entry.as].known)
TableFits(t) == \A c \in DOMAIN t : Fits(c, t[c])

\* Two tables of exports whose entries fit give one whose entries fit.
LEMMA TablesMerge ==
    ASSUME NEW t, NEW u, TableFits(t), TableFits(u)
    PROVE  TableFits(t ++ u)
<1>1. TableFits(Merged(t, u))
  BY DEF TableFits, Merged
<1> QED BY <1>1 DEF ++

\* The classes of two tables together.
LEMMA MergedDomain ==
    ASSUME NEW t, NEW u
    PROVE  DOMAIN (t ++ u) = DOMAIN t \cup DOMAIN u
<1>1. DOMAIN Merged(t, u) = DOMAIN t \cup DOMAIN u
  BY DEF Merged
<1> QED BY <1>1 DEF ++

\* The classes that each table of the exporter has.
LEMMA ClassDomains ==
    /\ DOMAIN RemoteUSBResource =
          {"NetworkAndroidFastboot", "RemoteAndroidUSBFastboot", "NetworkDFUDevice",
           "NetworkIMXUSBLoader", "NetworkMXSUSBLoader", "NetworkRKUSBLoader", "NetworkAlteraUSBBlaster",
           "NetworkUSBMassStorage", "NetworkUSBVideo", "NetworkUSBTMC", "NetworkUSBDebugger", "NetworkLXAUSBMux"}
    /\ DOMAIN RemoteUSBAttributes =
          {"NetworkSigrokUSBDevice", "NetworkSigrokUSBSerialDevice", "NetworkUSBSDWireDevice", "NetworkUSBSDWire3Device",
           "NetworkSiSPMPowerPort", "NetworkUSBPowerPort", "NetworkUSBSDMuxDevice", "NetworkUSBAudioInput"}
    /\ DOMAIN RemoteUSBOutputs =
          {"NetworkDeditecRelais8", "NetworkHIDRelay", "NetworkFTDIGPIO", "NetworkUSBFlashableDevice"}
    /\ DOMAIN RemoteOthers =
          {"RemoteTFTPProvider", "RemoteHTTPProvider", "NetworkSysfsGPIO", "NetworkLXAIOBusPIO",
           "RemoteNetworkInterface", "RemoteNFSProvider", "RemoteAndroidNetFastboot"}
    /\ DOMAIN SameOnBothSides =
          {"NetworkSerialPort", "EthernetPort", "NetworkService", "HTTPVideoStream", "NetworkYKUSHPowerPort"}
<1>1. DOMAIN RemoteUSBResource =
          {"NetworkAndroidFastboot", "RemoteAndroidUSBFastboot", "NetworkDFUDevice",
           "NetworkIMXUSBLoader", "NetworkMXSUSBLoader", "NetworkRKUSBLoader", "NetworkAlteraUSBBlaster",
           "NetworkUSBMassStorage", "NetworkUSBVideo", "NetworkUSBTMC", "NetworkUSBDebugger", "NetworkLXAUSBMux"}
  BY DEF RemoteUSBResource, Under
<1>2. DOMAIN RemoteUSBAttributes =
          {"NetworkSigrokUSBDevice", "NetworkSigrokUSBSerialDevice", "NetworkUSBSDWireDevice", "NetworkUSBSDWire3Device",
           "NetworkSiSPMPowerPort", "NetworkUSBPowerPort", "NetworkUSBSDMuxDevice", "NetworkUSBAudioInput"}
  <2> DEFINE T1 == Under({"NetworkSigrokUSBDevice", "NetworkSigrokUSBSerialDevice"},
                         Takes(USB, {"driver", "channels", "channel_group"}))
             T2 == Under({"NetworkUSBSDWireDevice", "NetworkUSBSDWire3Device"}, Takes(USB, {"control_serial"}))
             T3 == Under({"NetworkSiSPMPowerPort", "NetworkUSBPowerPort"}, Takes(USB, {"index"}))
             T4 == [NetworkUSBSDMuxDevice |-> Takes(USB, {"control_path"}),
                    NetworkUSBAudioInput |-> Takes(USB, {"index", "alsa_name"})]
  <2>1. RemoteUSBAttributes = T1 ++ T2 ++ T3 ++ T4
    BY DEF RemoteUSBAttributes
  <2>2. DOMAIN T4 = {"NetworkUSBSDMuxDevice", "NetworkUSBAudioInput"}
    OBVIOUS
  <2>3. /\ DOMAIN T1 = {"NetworkSigrokUSBDevice", "NetworkSigrokUSBSerialDevice"}
        /\ DOMAIN T2 = {"NetworkUSBSDWireDevice", "NetworkUSBSDWire3Device"}
        /\ DOMAIN T3 = {"NetworkSiSPMPowerPort", "NetworkUSBPowerPort"}
    BY DEF Under
  <2> HIDE DEF T1, T2, T3, T4
  <2>4. DOMAIN (T1 ++ T2) = DOMAIN T1 \cup DOMAIN T2
    BY Zenon, MergedDomain
  <2>5. DOMAIN (T1 ++ T2 ++ T3) = DOMAIN (T1 ++ T2) \cup DOMAIN T3
    BY Zenon, MergedDomain
  <2>6. DOMAIN (T1 ++ T2 ++ T3 ++ T4) = DOMAIN (T1 ++ T2 ++ T3) \cup DOMAIN T4
    BY Zenon, MergedDomain
  <2> QED BY <2>1, <2>2, <2>3, <2>4, <2>5, <2>6
<1>3. DOMAIN RemoteUSBOutputs =
          {"NetworkDeditecRelais8", "NetworkHIDRelay", "NetworkFTDIGPIO", "NetworkUSBFlashableDevice"}
  <2> DEFINE T1 == Under({"NetworkDeditecRelais8", "NetworkHIDRelay"}, Takes(USB, {"index", "invert"}))
             T2 == [NetworkFTDIGPIO |-> Takes(USB, {"index", "interface", "invert"}),
                    NetworkUSBFlashableDevice |-> Takes(USB \cup {"devnode"}, {})]
  <2>1. RemoteUSBOutputs = T1 ++ T2
    BY DEF RemoteUSBOutputs
  <2>2. DOMAIN T2 = {"NetworkFTDIGPIO", "NetworkUSBFlashableDevice"}
    OBVIOUS
  <2>3. DOMAIN T1 = {"NetworkDeditecRelais8", "NetworkHIDRelay"}
    BY DEF Under
  <2> HIDE DEF T1, T2
  <2>4. DOMAIN (T1 ++ T2) = DOMAIN T1 \cup DOMAIN T2
    BY Zenon, MergedDomain
  <2> QED BY <2>1, <2>2, <2>3, <2>4
<1>4. DOMAIN RemoteOthers =
          {"RemoteTFTPProvider", "RemoteHTTPProvider", "NetworkSysfsGPIO", "NetworkLXAIOBusPIO",
           "RemoteNetworkInterface", "RemoteNFSProvider", "RemoteAndroidNetFastboot"}
  <2> DEFINE T1 == Under({"RemoteTFTPProvider", "RemoteHTTPProvider"}, Takes(Provider, {}))
             T2 == [NetworkSysfsGPIO |-> Takes({"host", "index"}, {"invert"}),
                    NetworkLXAIOBusPIO |-> Takes({"host", "node", "pin"}, {"invert"}),
                    RemoteNetworkInterface |-> Takes({"host"}, {"ifname"}),
                    RemoteNFSProvider |-> Takes({"host"}, {}),
                    RemoteAndroidNetFastboot |-> Takes({"host", "address"}, {"port", "protocol"})]
  <2>1. RemoteOthers = T1 ++ T2
    BY DEF RemoteOthers
  <2>2. DOMAIN T2 = {"NetworkSysfsGPIO", "NetworkLXAIOBusPIO", "RemoteNetworkInterface", "RemoteNFSProvider",
                     "RemoteAndroidNetFastboot"}
    OBVIOUS
  <2>3. DOMAIN T1 = {"RemoteTFTPProvider", "RemoteHTTPProvider"}
    BY DEF Under
  <2> HIDE DEF T1, T2
  <2>4. DOMAIN (T1 ++ T2) = DOMAIN T1 \cup DOMAIN T2
    BY Zenon, MergedDomain
  <2> QED BY <2>1, <2>2, <2>3, <2>4
<1>5. DOMAIN SameOnBothSides =
          {"NetworkSerialPort", "EthernetPort", "NetworkService", "HTTPVideoStream", "NetworkYKUSHPowerPort"}
  BY Zenon DEF SameOnBothSides
<1> QED BY <1>1, <1>2, <1>3, <1>4, <1>5

\* An entry of the first table is the entry of both together.
LEMMA MergedLeft ==
    ASSUME NEW t, NEW u, NEW c \in DOMAIN t
    PROVE  (t ++ u)[c] = t[c]
<1>1. Merged(t, u)[c] = t[c]
  BY DEF Merged
<1> QED BY <1>1 DEF ++

\* An entry that only the second table has is the entry of both together.
LEMMA MergedRight ==
    ASSUME NEW t, NEW u, NEW c \in DOMAIN u, c \notin DOMAIN t
    PROVE  (t ++ u)[c] = u[c]
<1>1. Merged(t, u)[c] = u[c]
  BY DEF Merged
<1> QED BY <1>1 DEF ++

\* No class is in two of the client's tables.
LEMMA ClassesLookup ==
    /\ \A c \in DOMAIN RemoteUSBResource : c \in DOMAIN Classes /\ Classes[c] = RemoteUSBResource[c]
    /\ \A c \in DOMAIN RemoteUSBAttributes : c \in DOMAIN Classes /\ Classes[c] = RemoteUSBAttributes[c]
    /\ \A c \in DOMAIN RemoteUSBOutputs : c \in DOMAIN Classes /\ Classes[c] = RemoteUSBOutputs[c]
    /\ \A c \in DOMAIN RemoteOthers : c \in DOMAIN Classes /\ Classes[c] = RemoteOthers[c]
    /\ \A c \in DOMAIN SameOnBothSides : c \in DOMAIN Classes /\ Classes[c] = SameOnBothSides[c]
<1> DEFINE T2 == RemoteUSBResource ++ RemoteUSBAttributes
           T3 == T2 ++ RemoteUSBOutputs
           T4 == T3 ++ RemoteOthers
<1>1. Classes = T4 ++ SameOnBothSides
  BY DEF Classes
<1>2. /\ DOMAIN T2 = DOMAIN RemoteUSBResource \cup DOMAIN RemoteUSBAttributes
      /\ DOMAIN T3 = DOMAIN T2 \cup DOMAIN RemoteUSBOutputs
      /\ DOMAIN T4 = DOMAIN T3 \cup DOMAIN RemoteOthers
      /\ DOMAIN Classes = DOMAIN T4 \cup DOMAIN SameOnBothSides
  <2>1. DOMAIN T2 = DOMAIN RemoteUSBResource \cup DOMAIN RemoteUSBAttributes
    BY Zenon, MergedDomain
  <2>2. DOMAIN T3 = DOMAIN T2 \cup DOMAIN RemoteUSBOutputs
    BY Zenon, MergedDomain
  <2>3. DOMAIN T4 = DOMAIN T3 \cup DOMAIN RemoteOthers
    BY Zenon, MergedDomain
  <2>4. DOMAIN Classes = DOMAIN T4 \cup DOMAIN SameOnBothSides
    BY <1>1, MergedDomain
  <2> QED BY <2>1, <2>2, <2>3, <2>4
<1>3. /\ \A c \in DOMAIN RemoteUSBResource : T2[c] = RemoteUSBResource[c]
      /\ \A c \in DOMAIN T2 : T3[c] = T2[c]
      /\ \A c \in DOMAIN T3 : T4[c] = T3[c]
      /\ \A c \in DOMAIN T4 : Classes[c] = T4[c]
  <2>1. \A c \in DOMAIN RemoteUSBResource : T2[c] = RemoteUSBResource[c]
    BY Zenon, MergedLeft
  <2>2. \A c \in DOMAIN T2 : T3[c] = T2[c]
    BY Zenon, MergedLeft
  <2>3. \A c \in DOMAIN T3 : T4[c] = T3[c]
    BY Zenon, MergedLeft
  <2>4. \A c \in DOMAIN T4 : Classes[c] = T4[c]
    BY <1>1, MergedLeft
  <2> QED BY <2>1, <2>2, <2>3, <2>4
<1>4. \A c \in DOMAIN RemoteUSBAttributes : T2[c] = RemoteUSBAttributes[c]
  <2>1. \A c \in DOMAIN RemoteUSBAttributes : c \notin DOMAIN RemoteUSBResource
    BY ClassDomains
  <2> QED BY <2>1, MergedRight
<1>5. \A c \in DOMAIN RemoteUSBOutputs : T3[c] = RemoteUSBOutputs[c]
  <2>1. \A c \in DOMAIN RemoteUSBOutputs : c \notin DOMAIN RemoteUSBResource /\ c \notin DOMAIN RemoteUSBAttributes
    BY ClassDomains
  <2>2. \A c \in DOMAIN RemoteUSBOutputs : c \notin DOMAIN T2
    BY <1>2, <2>1
  <2> QED BY <2>2, MergedRight
<1>6. \A c \in DOMAIN RemoteOthers : T4[c] = RemoteOthers[c]
  <2>1. \A c \in DOMAIN RemoteOthers : /\ c \notin DOMAIN RemoteUSBResource /\ c \notin DOMAIN RemoteUSBAttributes
                                       /\ c \notin DOMAIN RemoteUSBOutputs
    BY ClassDomains
  <2>2. \A c \in DOMAIN RemoteOthers : c \notin DOMAIN T3
    BY <1>2, <2>1
  <2> QED BY <2>2, MergedRight
<1>7. \A c \in DOMAIN SameOnBothSides : Classes[c] = SameOnBothSides[c]
  <2>1. \A c \in DOMAIN SameOnBothSides : /\ c \notin DOMAIN RemoteUSBResource /\ c \notin DOMAIN RemoteUSBAttributes
                                          /\ c \notin DOMAIN RemoteUSBOutputs /\ c \notin DOMAIN RemoteOthers
    BY ClassDomains
  <2>2. \A c \in DOMAIN SameOnBothSides : c \notin DOMAIN T4
    BY <1>2, <2>1
  <2> QED BY <1>1, <2>2, MergedRight
<1> HIDE DEF T2, T3, T4
<1> QED BY <1>2, <1>3, <1>4, <1>5, <1>6, <1>7

\* The parameters that USB devices with attributes are published with.
LEMMA AttributeEntries ==
    /\ \A c \in {"NetworkSigrokUSBDevice", "NetworkSigrokUSBSerialDevice"} : RemoteUSBAttributes[c] = Takes(USB, {"driver", "channels", "channel_group"})
    /\ \A c \in {"NetworkUSBSDWireDevice", "NetworkUSBSDWire3Device"} : RemoteUSBAttributes[c] = Takes(USB, {"control_serial"})
    /\ \A c \in {"NetworkSiSPMPowerPort", "NetworkUSBPowerPort"} : RemoteUSBAttributes[c] = Takes(USB, {"index"})
    /\ RemoteUSBAttributes["NetworkUSBSDMuxDevice"] = Takes(USB, {"control_path"})
    /\ RemoteUSBAttributes["NetworkUSBAudioInput"] = Takes(USB, {"index", "alsa_name"})
<1> DEFINE T1 == Under({"NetworkSigrokUSBDevice", "NetworkSigrokUSBSerialDevice"},
                       Takes(USB, {"driver", "channels", "channel_group"}))
           T2 == Under({"NetworkUSBSDWireDevice", "NetworkUSBSDWire3Device"}, Takes(USB, {"control_serial"}))
           T3 == Under({"NetworkSiSPMPowerPort", "NetworkUSBPowerPort"}, Takes(USB, {"index"}))
           Listed == T1 ++ T2 ++ T3
           Named == [NetworkUSBSDMuxDevice |-> Takes(USB, {"control_path"}),
                     NetworkUSBAudioInput |-> Takes(USB, {"index", "alsa_name"})]
<1>1. RemoteUSBAttributes = Listed ++ Named
  BY DEF RemoteUSBAttributes
<1>2. /\ DOMAIN T1 = {"NetworkSigrokUSBDevice", "NetworkSigrokUSBSerialDevice"}
      /\ DOMAIN T2 = {"NetworkUSBSDWireDevice", "NetworkUSBSDWire3Device"}
      /\ DOMAIN T3 = {"NetworkSiSPMPowerPort", "NetworkUSBPowerPort"}
      /\ \A c \in DOMAIN T1 : T1[c] = Takes(USB, {"driver", "channels", "channel_group"})
      /\ \A c \in DOMAIN T2 : T2[c] = Takes(USB, {"control_serial"})
      /\ \A c \in DOMAIN T3 : T3[c] = Takes(USB, {"index"})
  BY DEF Under
<1>3. /\ DOMAIN Listed = DOMAIN T1 \cup DOMAIN T2 \cup DOMAIN T3
      /\ \A c \in DOMAIN T1 : Listed[c] = T1[c]
      /\ \A c \in DOMAIN T2 \ DOMAIN T1 : Listed[c] = T2[c]
      /\ \A c \in DOMAIN T3 \ (DOMAIN T1 \cup DOMAIN T2) : Listed[c] = T3[c]
  <2> DEFINE T12 == T1 ++ T2
  <2> HIDE DEF T1, T2, T3
  <2>1. DOMAIN T12 = DOMAIN T1 \cup DOMAIN T2
    BY Zenon, MergedDomain
  <2>2. DOMAIN Listed = DOMAIN T12 \cup DOMAIN T3
    BY Zenon, MergedDomain
  <2>3. \A c \in DOMAIN T1 : T12[c] = T1[c]
    BY Zenon, MergedLeft
  <2>4. \A c \in DOMAIN T2 : c \notin DOMAIN T1 => T12[c] = T2[c]
    BY Zenon, MergedRight
  <2>5. \A c \in DOMAIN T12 : Listed[c] = T12[c]
    BY Zenon, MergedLeft
  <2>6. \A c \in DOMAIN T3 : c \notin DOMAIN T12 => Listed[c] = T3[c]
    BY Zenon, MergedRight
  <2> HIDE DEF T12, Listed
  <2> QED BY <2>1, <2>2, <2>3, <2>4, <2>5, <2>6
<1>4. \A c \in DOMAIN Listed : RemoteUSBAttributes[c] = Listed[c]
  <2> HIDE DEF Listed, Named
  <2>1. \A c \in DOMAIN Listed : (Listed ++ Named)[c] = Listed[c]
    BY Zenon, MergedLeft
  <2> QED BY <1>1, <2>1
<1>5. /\ \A c \in {"NetworkSigrokUSBDevice", "NetworkSigrokUSBSerialDevice"} :
           RemoteUSBAttributes[c] = Takes(USB, {"driver", "channels", "channel_group"})
      /\ \A c \in {"NetworkUSBSDWireDevice", "NetworkUSBSDWire3Device"} :
           RemoteUSBAttributes[c] = Takes(USB, {"control_serial"})
      /\ \A c \in {"NetworkSiSPMPowerPort", "NetworkUSBPowerPort"} : RemoteUSBAttributes[c] = Takes(USB, {"index"})
  <2> HIDE DEF Listed, Named, T1, T2, T3
  <2> QED BY <1>2, <1>3, <1>4
<1>6. "NetworkUSBSDMuxDevice" \notin DOMAIN Listed /\ "NetworkUSBAudioInput" \notin DOMAIN Listed
  <2> HIDE DEF Listed, T1, T2, T3
  <2> QED BY <1>2, <1>3
<1>7. RemoteUSBAttributes["NetworkUSBSDMuxDevice"] = Takes(USB, {"control_path"})
  <2>1. Named["NetworkUSBSDMuxDevice"] = Takes(USB, {"control_path"}) /\ "NetworkUSBSDMuxDevice" \in DOMAIN Named
    OBVIOUS
  <2> HIDE DEF Listed, Named
  <2> QED BY <1>1, <1>6, <2>1, MergedRight
<1>8. RemoteUSBAttributes["NetworkUSBAudioInput"] = Takes(USB, {"index", "alsa_name"})
  <2>1. Named["NetworkUSBAudioInput"] = Takes(USB, {"index", "alsa_name"}) /\ "NetworkUSBAudioInput" \in DOMAIN Named
    OBVIOUS
  <2> HIDE DEF Listed, Named
  <2> QED BY <1>1, <1>6, <2>1, MergedRight
<1> QED BY ONLY <1>5, <1>7, <1>8

\* The parameters that USB outputs are published with.
LEMMA OutputEntries ==
    /\ \A c \in {"NetworkDeditecRelais8", "NetworkHIDRelay"} : RemoteUSBOutputs[c] = Takes(USB, {"index", "invert"})
    /\ RemoteUSBOutputs["NetworkFTDIGPIO"] = Takes(USB, {"index", "interface", "invert"})
    /\ RemoteUSBOutputs["NetworkUSBFlashableDevice"] = Takes(USB \cup {"devnode"}, {})
<1> DEFINE Named == [NetworkFTDIGPIO |-> Takes(USB, {"index", "interface", "invert"}),
                     NetworkUSBFlashableDevice |-> Takes(USB \cup {"devnode"}, {})]
           Listed == Under({"NetworkDeditecRelais8", "NetworkHIDRelay"}, Takes(USB, {"index", "invert"}))
<1> USE DEF Under
<1>1. RemoteUSBOutputs = Listed ++ Named
  BY DEF RemoteUSBOutputs
<1>2. DOMAIN Listed = {"NetworkDeditecRelais8", "NetworkHIDRelay"}
  OBVIOUS
<1>3. \A c \in {"NetworkDeditecRelais8", "NetworkHIDRelay"} : RemoteUSBOutputs[c] = Takes(USB, {"index", "invert"})
  <2>1. \A c \in {"NetworkDeditecRelais8", "NetworkHIDRelay"} : Listed[c] = Takes(USB, {"index", "invert"})
    OBVIOUS
  <2> HIDE DEF Listed, Named
  <2> QED BY <1>1, <1>2, <2>1, MergedLeft
<1>4. RemoteUSBOutputs["NetworkFTDIGPIO"] = Takes(USB, {"index", "interface", "invert"})
  <2>1. Named["NetworkFTDIGPIO"] = Takes(USB, {"index", "interface", "invert"}) /\ "NetworkFTDIGPIO" \in DOMAIN Named
    OBVIOUS
  <2> HIDE DEF Listed, Named
  <2> QED BY <1>1, <1>2, <2>1, MergedRight
<1>5. RemoteUSBOutputs["NetworkUSBFlashableDevice"] = Takes(USB \cup {"devnode"}, {})
  <2>1. Named["NetworkUSBFlashableDevice"] = Takes(USB \cup {"devnode"}, {}) /\ "NetworkUSBFlashableDevice" \in DOMAIN Named
    OBVIOUS
  <2> HIDE DEF Listed, Named
  <2> QED BY <1>1, <1>2, <2>1, MergedRight
<1> QED BY ONLY <1>3, <1>4, <1>5

\* The parameters of the exports that are neither USB devices nor serial ports.
LEMMA OtherEntries ==
    /\ \A c \in {"RemoteTFTPProvider", "RemoteHTTPProvider"} : RemoteOthers[c] = Takes(Provider, {})
    /\ RemoteOthers["NetworkSysfsGPIO"] = Takes({"host", "index"}, {"invert"})
    /\ RemoteOthers["NetworkLXAIOBusPIO"] = Takes({"host", "node", "pin"}, {"invert"})
    /\ RemoteOthers["RemoteNetworkInterface"] = Takes({"host"}, {"ifname"})
    /\ RemoteOthers["RemoteNFSProvider"] = Takes({"host"}, {})
    /\ RemoteOthers["RemoteAndroidNetFastboot"] = Takes({"host", "address"}, {"port", "protocol"})
<1> DEFINE Named == [NetworkSysfsGPIO |-> Takes({"host", "index"}, {"invert"}),
                     NetworkLXAIOBusPIO |-> Takes({"host", "node", "pin"}, {"invert"}),
                     RemoteNetworkInterface |-> Takes({"host"}, {"ifname"}),
                     RemoteNFSProvider |-> Takes({"host"}, {}),
                     RemoteAndroidNetFastboot |-> Takes({"host", "address"}, {"port", "protocol"})]
           Listed == Under({"RemoteTFTPProvider", "RemoteHTTPProvider"}, Takes(Provider, {}))
<1> USE DEF Under
<1>1. RemoteOthers = Listed ++ Named
  BY DEF RemoteOthers
<1>2. DOMAIN Listed = {"RemoteTFTPProvider", "RemoteHTTPProvider"}
  OBVIOUS
<1>3. \A c \in {"RemoteTFTPProvider", "RemoteHTTPProvider"} : RemoteOthers[c] = Takes(Provider, {})
  <2>1. \A c \in {"RemoteTFTPProvider", "RemoteHTTPProvider"} : Listed[c] = Takes(Provider, {})
    OBVIOUS
  <2> HIDE DEF Listed, Named
  <2> QED BY <1>1, <1>2, <2>1, MergedLeft
<1>4. RemoteOthers["NetworkSysfsGPIO"] = Takes({"host", "index"}, {"invert"})
  <2>1. Named["NetworkSysfsGPIO"] = Takes({"host", "index"}, {"invert"}) /\ "NetworkSysfsGPIO" \in DOMAIN Named
    OBVIOUS
  <2> HIDE DEF Listed, Named
  <2> QED BY <1>1, <1>2, <2>1, MergedRight
<1>5. RemoteOthers["NetworkLXAIOBusPIO"] = Takes({"host", "node", "pin"}, {"invert"})
  <2>1. Named["NetworkLXAIOBusPIO"] = Takes({"host", "node", "pin"}, {"invert"}) /\ "NetworkLXAIOBusPIO" \in DOMAIN Named
    OBVIOUS
  <2> HIDE DEF Listed, Named
  <2> QED BY <1>1, <1>2, <2>1, MergedRight
<1>6. RemoteOthers["RemoteNetworkInterface"] = Takes({"host"}, {"ifname"})
  <2>1. Named["RemoteNetworkInterface"] = Takes({"host"}, {"ifname"}) /\ "RemoteNetworkInterface" \in DOMAIN Named
    OBVIOUS
  <2> HIDE DEF Listed, Named
  <2> QED BY <1>1, <1>2, <2>1, MergedRight
<1>7. RemoteOthers["RemoteNFSProvider"] = Takes({"host"}, {})
  <2>1. Named["RemoteNFSProvider"] = Takes({"host"}, {}) /\ "RemoteNFSProvider" \in DOMAIN Named
    OBVIOUS
  <2> HIDE DEF Listed, Named
  <2> QED BY <1>1, <1>2, <2>1, MergedRight
<1>8. RemoteOthers["RemoteAndroidNetFastboot"] = Takes({"host", "address"}, {"port", "protocol"})
  <2>1. Named["RemoteAndroidNetFastboot"] = Takes({"host", "address"}, {"port", "protocol"}) /\ "RemoteAndroidNetFastboot" \in DOMAIN Named
    OBVIOUS
  <2> HIDE DEF Listed, Named
  <2> QED BY <1>1, <1>2, <2>1, MergedRight
<1> QED BY ONLY <1>3, <1>4, <1>5, <1>6, <1>7, <1>8

\* What the exporter publishes fits the parameters of the client's classes.
LEMMA TablesFit == TableFits(Exports)
<1> USE ClassesLookup, ClassDomains DEF TableFits, Fits, As, Under, USB, Sigrok, Indexed, Relay, Provider, Takes
<1>1. TableFits(SerialPortExport)
  BY DEF SerialPortExport, SameOnBothSides
<1>2. TableFits(NetworkInterfaceExport)
  BY OtherEntries DEF NetworkInterfaceExport
<1>3. TableFits(USBGenericExport)
  BY DEF USBGenericExport, RemoteUSBResource
<1>4. TableFits(USBMuxExports)
  BY AttributeEntries DEF USBMuxExports
<1>5. TableFits(USBSigrokExport)
  BY AttributeEntries DEF USBSigrokExport
<1>6. TableFits(USBIndexedExports)
  BY AttributeEntries DEF USBIndexedExports
<1>7. TableFits(USBOutputExports)
  BY OutputEntries DEF USBOutputExports
<1>8. TableFits(USBGenericRemoteExport)
  BY DEF USBGenericRemoteExport, RemoteUSBResource
<1>9. TableFits(ProviderGenericExport)
  BY OtherEntries DEF ProviderGenericExport
<1>10. TableFits(EthernetPortExport)
  BY DEF EthernetPortExport, SameOnBothSides
<1>11. TableFits(GPIOSysFSExport)
  BY OtherEntries DEF GPIOSysFSExport
<1>12. TableFits(LocalParamsExports)
  BY OtherEntries DEF LocalParamsExports, SameOnBothSides
<1> QED BY ONLY TablesMerge, <1>1, <1>2, <1>3, <1>4, <1>5, <1>6, <1>7, <1>8, <1>9, <1>10, <1>11, <1>12 DEF Exports

\* The one class that a client cannot be given is the hub, which has no class of its own.
LEMMA ExportsUsable ==
    ASSUME NEW c \in DOMAIN Exports, c # "NFSProvider", ~E!Constructible(c) \/ ~E!Updatable(c)
    PROVE  c = "USBHub"
BY TablesFit DEF TableFits, Fits, E!Constructible, E!Updatable

\* A record of an export keeps its fields when some of them change.
LEMMA ExportFields ==
    ASSUME NEW x \in E!Export
    PROVE  /\ x.made \in Paths \cup {"none"} /\ x.acquired \in Place \cup {"none", "<broken>"}
           /\ x.path \in Paths \cup {"none"} /\ x.start \in Paths \cup {"none", "{}"}
           /\ x.sent \in {0} \cup ExportPorts /\ x.port \in {0} \cup ExportPorts
           /\ x.told \in BOOLEAN /\ x.avail \in BOOLEAN /\ x.broken \in BOOLEAN
           /\ x.systemExported \in BOOLEAN /\ x.raised \in BOOLEAN
BY DEF E!Export, E!None, E!Broken

\* What breaks is broken, and nobody has it.
LEMMA ExportBreaks ==
    ASSUME NEW x \in E!Export
    PROVE  /\ E!Break(x) \in E!Export
           /\ E!Break(x).broken /\ E!Break(x).raised /\ E!Break(x).acquired = "<broken>"
           /\ E!Break(x).start = x.start /\ E!Break(x).port = x.port
           /\ E!Break(x).systemExported = x.systemExported
BY DEF E!Break, E!Export, E!Broken

\* start(): the export has its server, or is broken.
LEMMA ExportStarts ==
    ASSUME NEW x, NEW procs, E!Tidy(x, procs), s2 \in [avail : BOOLEAN, path : Paths],
           ~x.broken, x.start = "none", ~x.raised, NEW o \in E!Start(x, procs)
    PROVE  /\ E!Tidy(o[1], o[2])
           /\ o[1].raised => o[1].broken
           /\ ~o[1].raised => /\ o[1].start = E!StartParams /\ o[1].acquired = x.acquired /\ ~o[1].broken
                              
<1> USE ExportsAssumption, ExportFields
<1>x. x \in E!Export /\ s2.path \in Paths
  BY DEF E!Tidy
<1>1. CASE s1 \in E!Serial
  <2>1. PICK p \in ExportPorts :
          LET began == [x EXCEPT !.port = p]
          IN \/ o = <<[began EXCEPT !.start = s2.path], procs \cup {[path |-> s2.path, port |-> began.port]}>>
             \/ o = <<E!Break(began), procs>>
    <3> DEFINE all == {[x EXCEPT !.port = p] : p \in ExportPorts}
    <3>1. PICK b \in all : \/ o = <<[b EXCEPT !.start = s2.path], procs \cup {[path |-> s2.path, port |-> b.port]}>>
                           \/ o = <<E!Break(b), procs>>
      <4>1. \/ o \in {<<[b EXCEPT !.start = s2.path], procs \cup {[path |-> s2.path, port |-> b.port]}>> : b \in all}
            \/ o \in {<<E!Break(b), procs>> : b \in all}
        BY <1>1 DEF E!Start, E!StartSerial
      <4> QED BY <4>1
    <3> QED BY <3>1
  <2> DEFINE began == [x EXCEPT !.port = p]
             up == [began EXCEPT !.start = s2.path]
  <2>2. /\ began \in E!Export /\ began.port = p /\ began.systemExported = x.systemExported
        /\ up \in E!Export /\ up.port = p /\ up.start = s2.path /\ up.systemExported = x.systemExported
        /\ up.acquired = x.acquired /\ up.broken = x.broken /\ up.raised = x.raised
    BY <1>x DEF E!Export
  <2>3. procs = {} /\ ~x.systemExported /\ s1 \notin E!Gpio /\ E!HasStart /\ E!StartParams = s2.path
    BY <1>1 DEF E!Tidy, E!HasStart, E!Serial, E!Gpio, E!StartParams, E!None
  <2>4. o = <<up, {[path |-> s2.path, port |-> p]}>> \/ o = <<E!Break(began), {}>>
    BY <2>1, <2>2, <2>3
  <2> HIDE DEF began, up
  <2>5. CASE o = <<up, {[path |-> s2.path, port |-> p]}>>
    <3>1. [path |-> s2.path, port |-> p] \in [path : Paths, port : {0} \cup ExportPorts]
      BY <1>x
    <3>2. p # 0 /\ s2.path # "none" /\ s2.path # "{}"
      BY <1>x
    <3> QED BY <1>1, <2>2, <2>3, <2>5, <3>1, <3>2 DEF E!Tidy, E!None, E!Broken
  <2>6. CASE o = <<E!Break(began), {}>>
    BY <1>1, <2>2, <2>3, <2>6, ExportBreaks DEF E!Tidy, E!None, E!Broken
  <2> QED BY <2>4, <2>5, <2>6
<1>2. CASE s1 \in E!Gpio
  <2> DEFINE up == [x EXCEPT !.start = s2.path]
             found == [[x EXCEPT !.start = s2.path] EXCEPT !.systemExported = TRUE]
  <2>1. \/ o = <<found, procs>>
        \/ o = <<up, procs \cup {[path |-> s2.path, port |-> 0]}>>
        \/ o = <<E!Break(x), procs>>
    BY <1>2 DEF E!Start, E!StartGpio, E!Gpio, E!Serial
  <2>2. /\ up \in E!Export /\ up.port = x.port /\ up.start = s2.path /\ up.systemExported = x.systemExported
        /\ up.acquired = x.acquired /\ up.broken = x.broken /\ up.raised = x.raised
    BY <1>x DEF E!Export
  <2>3. /\ found \in E!Export /\ found.port = x.port /\ found.start = s2.path /\ found.systemExported
        /\ found.acquired = x.acquired /\ found.broken = x.broken /\ found.raised = x.raised
    BY <1>x DEF E!Export
  <2>4. s1 \notin E!Serial /\ E!HasStart /\ E!StartParams = s2.path /\ x.port = 0 /\ (procs = {} \/ x.systemExported)
    BY <1>2 DEF E!Tidy, E!HasStart, E!Serial, E!Gpio, E!StartParams, E!None
  <2>5. /\ s2.path # "none" /\ s2.path # "{}" /\ procs \subseteq [path : Paths, port : {0} \cup ExportPorts]
        /\ procs \cup {[path |-> s2.path, port |-> 0]} \subseteq [path : Paths, port : {0} \cup ExportPorts]
    <3>1. [path |-> s2.path, port |-> 0] \in [path : Paths, port : {0} \cup ExportPorts]
      BY <1>x
    <3>2. s2.path # "none" /\ s2.path # "{}"
      BY <1>x
    <3> QED BY <3>1, <3>2 DEF E!Tidy
  <2> HIDE DEF up, found
  <2>6. CASE o = <<found, procs>>
    BY <1>2, <2>3, <2>4, <2>5, <2>6 DEF E!Tidy, E!None, E!Broken
  <2>7. CASE o = <<up, procs \cup {[path |-> s2.path, port |-> 0]}>>
    BY <1>2, <2>2, <2>4, <2>5, <2>7 DEF E!Tidy, E!None, E!Broken
  <2>8. CASE o = <<E!Break(x), procs>>
    BY <1>2, <1>x, <2>4, <2>5, <2>8, ExportBreaks DEF E!Tidy, E!None, E!Broken
  <2> QED BY <2>1, <2>6, <2>7, <2>8
<1>3. CASE s1 \notin E!Serial /\ s1 \notin E!Gpio
  <2> DEFINE up == [x EXCEPT !.start = "{}"]
  <2>1. o = <<up, procs>> /\ ~E!HasStart /\ E!StartParams = "{}"
    BY <1>3 DEF E!Start, E!StartParams, E!HasStart
  <2>2. /\ up \in E!Export /\ up.port = x.port /\ up.start = "{}" /\ up.systemExported = x.systemExported
        /\ up.acquired = x.acquired /\ up.broken = x.broken /\ up.raised = x.raised
    BY <1>x DEF E!Export
  <2> HIDE DEF up
  <2> QED BY <1>3, <2>1, <2>2 DEF E!Tidy, E!None, E!Broken
<1> QED BY <1>1, <1>2, <1>3

\* stop(): nothing is left of the server, or the export is broken.
LEMMA ExportStops ==
    ASSUME NEW x, NEW procs, E!Tidy(x, procs), ~x.broken, x.start # "none", ~x.raised, NEW o \in E!Stop(x, procs)
    PROVE  /\ E!Tidy(o[1], o[2])
           /\ o[1].raised => o[1].broken
           /\ ~o[1].raised => o[1].start = "none" /\ o[1].acquired = x.acquired /\ ~o[1].broken
<1> USE ExportsAssumption, ExportFields
<1>x. x \in E!Export
  BY DEF E!Tidy
<1> DEFINE mine == {r \in procs : IF s1 \in E!Gpio THEN r.path = x.start ELSE r.port = x.port}
           stopped == [[x EXCEPT !.port = 0] EXCEPT !.start = "none"]
<1>1. stopped \in E!Export /\ [x EXCEPT !.port = 0] \in E!Export
  BY <1>x DEF E!Export, E!None
<1>2. /\ stopped.start = "none" /\ stopped.acquired = x.acquired /\ stopped.broken = x.broken /\ stopped.raised = x.raised
      /\ stopped.systemExported = x.systemExported /\ stopped.port = 0
  BY <1>x DEF E!Export
<1>3. \/ o = <<stopped, procs>> /\ (~E!HasStart \/ x.systemExported)
      \/ o = <<stopped, procs \ mine>> /\ ~x.systemExported /\ E!HasStart
      \/ o = <<E!Break([x EXCEPT !.port = 0]), procs>> /\ E!HasStart /\ ~x.systemExported
  BY DEF E!Stop, E!None
<1>4. ~x.systemExported /\ E!HasStart => procs \ mine = {}
  <2>1. ASSUME ~x.systemExported, E!HasStart, NEW r \in procs PROVE r \in mine
    <3>1. r = [path |-> x.start, port |-> x.port]
      BY <2>1 DEF E!Tidy, E!None
    <3> QED BY <3>1
  <2> QED BY <2>1
<1>8. [x EXCEPT !.port = 0].systemExported = x.systemExported /\ [x EXCEPT !.port = 0].port = 0 /\ x.systemExported \in BOOLEAN
  BY <1>x DEF E!Export
<1> HIDE DEF stopped, mine
<1>5. CASE o = <<stopped, procs>> /\ (~E!HasStart \/ x.systemExported)
  BY <1>1, <1>2, <1>5 DEF E!Tidy, E!HasStart, E!Serial, E!Gpio, E!None, E!Broken
<1>6. CASE o = <<stopped, procs \ mine>> /\ ~x.systemExported /\ E!HasStart
  BY <1>1, <1>2, <1>4, <1>6 DEF E!Tidy, E!HasStart, E!Serial, E!Gpio, E!None, E!Broken
<1>7. CASE o = <<E!Break([x EXCEPT !.port = 0]), procs>> /\ E!HasStart /\ ~x.systemExported
  BY <1>1, <1>7, <1>8, ExportBreaks DEF E!Tidy, E!HasStart, E!Serial, E!Gpio, E!None, E!Broken
<1> QED BY <1>3, <1>5, <1>6, <1>7

\* What poll() has made of the export before the data is refreshed.
Made(x, o) ==
    /\ E!Tidy(o[1], o[2])
    /\ o[1].raised => o[1].broken
    /\ ~o[1].raised /\ ~o[1].broken =>
          /\ o[1].acquired = x.acquired
          /\ o[1].start = IF s2.avail /\ x.acquired # "none" THEN E!StartParams ELSE "none"

\* What starting or stopping its process makes of an export during poll().
LEMMA ExportSettles ==
    ASSUME NEW x, NEW procs, E!Tidy(x, procs), ~x.raised, s2 \in [avail : BOOLEAN, path : Paths],
           NEW o \in E!Settled(x, procs)
    PROVE  Made(x, o)
<1>x. x \in E!Export /\ E!StartParams # "none" /\ x.broken \in BOOLEAN /\ x.raised \in BOOLEAN /\ s2.avail \in BOOLEAN
  BY ExportFields, ExportsAssumption DEF E!Tidy, E!StartParams
<1> DEFINE wanted == s2.avail /\ x.acquired # "none"
<1>1. CASE x.broken
  <2>1. o = <<x, procs>>
    BY <1>1 DEF E!Settled
  <2> QED BY <1>1, <2>1 DEF Made
<1>2. CASE ~x.broken /\ wanted /\ x.start = "none"
  <2>1. o \in E!Start(x, procs)
    BY <1>2 DEF E!Settled, E!None
  <2> QED BY <1>2, <1>x, <2>1, ExportStarts DEF Made
<1>3. CASE ~x.broken /\ wanted /\ x.start # "none" /\ x.start # E!StartParams
  <2>1. o \in E!Then(E!Stop(x, procs), E!Start)
    BY <1>3 DEF E!Settled, E!None
  <2>2. PICK p \in E!Stop(x, procs) : o \in IF p[1].raised THEN {p} ELSE E!Start(p[1], p[2])
    BY <2>1 DEF E!Then
  <2>3. /\ E!Tidy(p[1], p[2])
        /\ p[1].raised => p[1].broken
        /\ ~p[1].raised => p[1].start = "none" /\ p[1].acquired = x.acquired /\ ~p[1].broken
    BY <1>3, <1>x, ExportStops
  <2>4. CASE p[1].raised
    BY <2>2, <2>3, <2>4 DEF Made
  <2>5. CASE ~p[1].raised
    <3>1. o \in E!Start(p[1], p[2])
      BY <2>2, <2>5
    <3> QED BY <1>3, <1>x, <2>3, <2>5, <3>1, ExportStarts DEF Made
  <2> QED BY <2>4, <2>5
<1>4. CASE ~x.broken /\ ~wanted /\ x.start # "none"
  <2>1. o \in E!Stop(x, procs)
    BY <1>4 DEF E!Settled, E!None
  <2> QED BY <1>4, <1>x, <2>1, ExportStops DEF Made
<1>5. CASE ~x.broken /\ x.start = IF wanted THEN E!StartParams ELSE "none"
  <2>1. o = <<x, procs>>
    BY <1>5, <1>x DEF E!Settled, E!None
  <2> QED BY <1>5, <2>1, <1>x DEF Made
<1> QED BY <1>1, <1>2, <1>3, <1>4, <1>5, <1>x

\* After poll() an export is tidy and its data is current.
LEMMA ExportPolled ==
    ASSUME NEW x, NEW procs, E!Tidy(x, procs), s2 \in [avail : BOOLEAN, path : Paths],
           NEW o \in E!Polled(x, procs)
    PROVE  E!Tidy(o[1], o[2]) /\ E!Current(o[1])
<1> DEFINE y == [x EXCEPT !.raised = FALSE]
<1>1. E!Tidy(y, procs) /\ ~y.raised
  <2>1. /\ y \in E!Export /\ y.acquired = x.acquired /\ y.start = x.start /\ y.port = x.port
        /\ y.broken = x.broken /\ y.systemExported = x.systemExported /\ y.raised = FALSE
    BY DEF E!Tidy, E!Export
  <2> HIDE DEF y
  <2> QED BY <2>1 DEF E!Tidy
<1>2. PICK p \in E!Settled(y, procs) : o \in IF p[1].raised THEN {p} ELSE E!Refresh(p[1], p[2])
  BY DEF E!Polled, E!Then
<1> HIDE DEF y
<1>3. Made(y, p)
  BY <1>1, <1>2, ExportSettles
<1>4. p[1] \in E!Export
  BY <1>3 DEF Made, E!Tidy
<1>5. CASE p[1].raised
  <2>1. o = p
    BY <1>2, <1>5
  <2>2. p[1].acquired = "<broken>"
    BY <1>3, <1>5 DEF Made, E!Tidy, E!Broken
  <2> QED BY <1>3, <1>5, <2>1, <2>2, ExportsAssumption DEF Made, E!Current, E!None
<1>6. CASE ~p[1].raised
  <2>0. PICK on \in BOOLEAN : on = (s2.avail /\ ~p[1].broken)
    OBVIOUS
  <2> DEFINE z == [[[[p[1] EXCEPT !.avail = on] EXCEPT !.path = s2.path]
                        EXCEPT !.sent = p[1].port] EXCEPT !.told = p[1].broken]
  <2>1. o = <<z, p[2]>>
    BY <1>2, <1>6, <2>0 DEF E!Refresh
  <2>2. /\ z \in E!Export /\ z.acquired = p[1].acquired /\ z.start = p[1].start /\ z.port = p[1].port
        /\ z.broken = p[1].broken /\ z.systemExported = p[1].systemExported /\ z.raised = p[1].raised
        /\ z.path = s2.path /\ z.sent = p[1].port /\ z.avail = on
    BY <1>4, ExportFields DEF E!Export
  <2> HIDE DEF z
  <2>3. E!Tidy(z, p[2])
    BY <1>3, <2>2 DEF Made, E!Tidy
  <2>4. E!Current(z)
    BY <1>3, <1>6, <2>0, <2>2, <2>3, ExportsAssumption DEF Made, E!Tidy, E!Current, E!StartParams, E!None, E!Broken
  <2> QED BY <2>1, <2>3, <2>4
<1> QED BY <1>5, <1>6

\* What the invariant says of an export is enough for its properties.
LEMMA ExportsTell ==
    s1 \in Exported /\ E!Tidy(s3, s4) /\ E!Current(s3) => E!Serves /\ E!NothingLeftRunning /\ E!OneServer
<1> SUFFICES ASSUME s1 \in Exported, E!Tidy(s3, s4), E!Current(s3)
             PROVE  E!Serves /\ E!NothingLeftRunning /\ E!OneServer
  OBVIOUS
<1> USE ExportsAssumption, ExportFields
<1>x. s3 \in E!Export
  BY DEF E!Tidy
<1>1. E!Serves
  <2> SUFFICES ASSUME s1 \in E!Serial, s3.acquired \in Place, s3.avail, ~s3.raised
               PROVE  s3.sent = s3.port /\ s3.port # 0 /\ \A r \in s4 : r.port = s3.port => r.path = s3.path
    BY DEF E!Serves
  <2>1. E!HasStart /\ ~s3.broken /\ s3.start = s3.path /\ s3.start # "none" /\ s3.sent = s3.port /\ s1 \notin E!Gpio /\ s3.start # "{}"
    BY <1>x DEF E!Tidy, E!Current, E!HasStart, E!None, E!Broken, E!Serial, E!Gpio
  <2>2. s4 \subseteq {[path |-> s3.start, port |-> s3.port]} /\ s3.port # 0
    BY <1>x, <2>1 DEF E!Tidy, E!None
  <2>3. ASSUME NEW r \in s4 PROVE r.path = s3.start
    <3>1. r = [path |-> s3.start, port |-> s3.port]
      BY <2>2
    <3> QED BY <3>1
  <2> QED BY <2>1, <2>2, <2>3
<1>2. E!NothingLeftRunning
  BY <1>x DEF E!Tidy, E!Current, E!NothingLeftRunning, E!None, E!Broken
<1>3. E!OneServer
  BY <1>x DEF E!Tidy, E!OneServer, E!None
<1> QED BY <1>1, <1>2, <1>3

\* An export that was just made, and not polled yet, satisfies the invariant.
LEMMA ExportsInit == ASSUME E!Init PROVE E!ExportsInv
<1> USE ExportsAssumption DEF E!Init
<1>1. s1 \in Exported /\ s2 \in [avail : BOOLEAN, path : Paths] /\ s4 = {}
  OBVIOUS
<1>2. /\ s3 \in E!Export /\ s3.acquired = "none" /\ s3.start = "none" /\ ~s3.broken /\ ~s3.raised /\ ~s3.systemExported
      /\ s3.port = 0
  BY <1>1 DEF E!Export, E!None
<1>3. E!Tidy(s3, s4)
  BY <1>1, <1>2 DEF E!Tidy, E!None, E!Broken
<1>4. E!Current(s3)
  BY <1>2 DEF E!Current, E!None
<1>5. E!Readable /\ E!Usable
  BY DEF E!Readable, E!Usable, E!Nothing, E!None
<1>6. E!TypeOK
  BY <1>1, <1>2, ExportFields DEF E!TypeOK, E!None, E!Broken, E!Nothing
<1> QED BY <1>1, <1>3, <1>4, <1>5, <1>6, ExportsTell DEF E!ExportsInv, E!ExportsHonest

\* A poll leaves the export as it should be, whatever it sends.
LEMMA ExportsPoll ==
    ASSUME E!ExportsInv, E!Idle, UNCHANGED <<s1, s2, s5, s7>>,
           NEW x, E!Tidy(x, s4), NEW o \in E!Polled(x, s4), s3' = o[1], s4' = o[2]
    PROVE  E!ExportsInv'
<1>1. s1 \in Exported /\ s2 \in [avail : BOOLEAN, path : Paths]
  BY DEF E!ExportsInv, E!TypeOK
<1>2. E!Tidy(s3', s4') /\ E!Current(s3')
  BY <1>1, ExportPolled
<1>3. E!Tidy(s3, s4)' /\ E!Current(s3)'
  BY <1>2 DEF E!Tidy, E!Current, E!HasStart
<1>4. (E!Serves /\ E!NothingLeftRunning /\ E!OneServer)'
  <2>1. (s1 \in Exported)'
    BY <1>1
  <2> QED BY <1>3, <2>1, ExportsTell, PTL
<1>5. E!Readable' /\ E!Usable'
  BY DEF E!ExportsInv, E!ExportsHonest, E!Readable, E!Usable, E!Idle
<1>6. E!TypeOK'
  <2>1. s3' \in E!Export /\ s4' \subseteq [path : Paths, port : {0} \cup ExportPorts]
    BY <1>2 DEF E!Tidy
  <2> QED BY <2>1, ExportFields DEF E!ExportsInv, E!TypeOK, E!None, E!Broken
<1> QED BY <1>3, <1>4, <1>5, <1>6 DEF E!ExportsInv, E!ExportsHonest

\* Every step of the exporter, of the device and of the coordinator keeps the invariant.
LEMMA ExportsStep == E!ExportsInv /\ [E!Next]_E!vars => E!ExportsInv'
<1> SUFFICES ASSUME E!ExportsInv, [E!Next]_E!vars PROVE E!ExportsInv'
  OBVIOUS
<1> USE ExportsAssumption
<1>t. E!TypeOK /\ E!Tidy(s3, s4) /\ E!Current(s3) /\ E!Readable /\ E!Usable /\ s3 \in E!Export
  BY DEF E!ExportsInv, E!ExportsHonest, E!Tidy
<1>1. CASE E!Poll
  BY <1>1, <1>t, ExportsPoll DEF E!Poll
<1>2. ASSUME NEW p \in Place, E!Acquire(p) PROVE E!ExportsInv'
  <2> DEFINE x == [s3 EXCEPT !.acquired = p]
  <2>1. E!Idle /\ UNCHANGED <<s1, s2, s5, s7>> /\ s3.acquired = "none"
        /\ \E o \in E!Polled(x, s4) : s3' = o[1] /\ s4' = o[2]
    BY <1>2 DEF E!Acquire, E!None
  <2>2. E!Tidy(x, s4)
    <3>1. /\ x \in E!Export /\ x.acquired = p /\ x.start = s3.start /\ x.port = s3.port /\ x.broken = s3.broken
          /\ x.systemExported = s3.systemExported /\ x.raised = s3.raised
      BY <1>t DEF E!Export
    <3> HIDE DEF x
    <3> QED BY <1>t, <2>1, <3>1 DEF E!Tidy, E!Broken
  <2> HIDE DEF x
  <2> QED BY <2>1, <2>2, ExportsPoll
<1>3. CASE E!Release
  <2> DEFINE x == [s3 EXCEPT !.acquired = "none"]
  <2>1. E!Idle /\ UNCHANGED <<s1, s2, s5, s7>> /\ s3.acquired \in Place
        /\ \E o \in E!Polled(x, s4) : s3' = o[1] /\ s4' = o[2]
    BY <1>3 DEF E!Release, E!None
  <2>2. E!Tidy(x, s4)
    <3>1. /\ x \in E!Export /\ x.acquired = "none" /\ x.start = s3.start /\ x.port = s3.port /\ x.broken = s3.broken
          /\ x.systemExported = s3.systemExported /\ x.raised = s3.raised
      BY <1>t DEF E!Export, E!None
    <3> HIDE DEF x
    <3> QED BY <1>t, <2>1, <3>1 DEF E!Tidy, E!Broken
  <2> HIDE DEF x
  <2> QED BY <2>1, <2>2, ExportsPoll
<1>4. ASSUME UNCHANGED <<s1, s3, s6, s7>>, s2' \in [avail : BOOLEAN, path : Paths], s4' \subseteq s4 PROVE E!ExportsInv'
  <2>1. E!Tidy(s3, s4)' /\ E!Current(s3)'
    BY <1>t, <1>4 DEF E!Tidy, E!Current, E!HasStart
  <2>2. E!TypeOK'
    BY <1>t, <1>4 DEF E!TypeOK
  <2>3. (s1 \in Exported)' /\ E!Readable' /\ E!Usable'
    BY <1>t, <1>4 DEF E!TypeOK, E!Readable, E!Usable, E!Idle
  <2>4. (E!Serves /\ E!NothingLeftRunning /\ E!OneServer)'
    BY <2>1, <2>3, ExportsTell, PTL
  <2> QED BY <2>1, <2>2, <2>3, <2>4 DEF E!ExportsInv, E!ExportsHonest
<1>5. CASE E!LocalChanges
  BY <1>4, <1>5 DEF E!LocalChanges
<1>6. CASE E!ServerExits
  BY <1>4, <1>6, <1>t DEF E!ServerExits, E!TypeOK
<1>7. CASE E!Expand \/ E!ClientPoll
  <2>1. UNCHANGED <<s1, s2, s3, s4, s5, s6>> /\ E!Idle
    BY <1>7, <1>t DEF E!Expand, E!ClientPoll, E!Readable, E!None
  <2>2. s7'.state \in {"none", "made", "refused"} /\ (s7'.state = "refused" => ~E!Constructible(s1) \/ ~E!Updatable(s1) \/ s7.state = "refused")
    <3>1. CASE E!Expand
      BY <3>1, <1>t DEF E!Expand, E!TypeOK, E!Readable
    <3>2. CASE E!ClientPoll
      BY <3>2, <1>t DEF E!ClientPoll, E!TypeOK, E!Readable
    <3> QED BY <1>7, <3>1, <3>2
  <2>3. E!Usable'
    <3>1. s1 \in DOMAIN Exports /\ s1 # "NFSProvider"
      BY <1>t, <2>1 DEF E!TypeOK, E!Idle, Unreadable
    <3> QED BY <1>t, <2>1, <2>2, <3>1, ExportsUsable DEF E!Usable
  <2>4. E!Readable' /\ E!TypeOK'
    <3>1. s7' = [state |-> s7'.state, avail |-> s7'.avail, path |-> s7'.path, port |-> s7'.port]
      <4> DEFINE shaped(c) == c = [state |-> c.state, avail |-> c.avail, path |-> c.path, port |-> c.port]
      <4>1. ASSUME NEW a, NEW b, NEW c, NEW d PROVE shaped([state |-> a, avail |-> b, path |-> c, port |-> d])
        OBVIOUS
      <4>2. shaped(s7)
        BY <1>t DEF E!Readable
      <4>3. \E a, b, c, d : s7' = [state |-> a, avail |-> b, path |-> c, port |-> d]
        <5>1. CASE E!Expand
          BY <4>2, <5>1 DEF E!Expand
        <5>2. CASE E!ClientPoll
          BY <4>2, <5>2 DEF E!ClientPoll
        <5> QED BY <1>7, <5>1, <5>2
      <4> QED BY <4>3
    <3> QED BY <1>t, <2>1, <2>2, <3>1 DEF E!Readable, E!TypeOK, E!Idle
  <2>5. E!Tidy(s3, s4)' /\ E!Current(s3)'
    BY <1>t, <2>1 DEF E!Tidy, E!Current, E!HasStart
  <2>6. (E!Serves /\ E!NothingLeftRunning /\ E!OneServer)'
    BY <1>t, <2>1 DEF E!ExportsInv, E!ExportsHonest, E!Serves, E!NothingLeftRunning, E!OneServer
  <2> QED BY <2>3, <2>4, <2>5, <2>6 DEF E!ExportsInv, E!ExportsHonest
<1>9. CASE E!ReleaseBroken
  <2>1. UNCHANGED <<s1, s2, s3, s4, s5, s7>> /\ E!Idle
    BY <1>9 DEF E!ReleaseBroken
  <2>2. E!Readable' /\ E!TypeOK' /\ E!Usable'
    BY <1>t, <2>1 DEF E!Readable, E!TypeOK, E!Usable, E!Idle
  <2>3. E!Tidy(s3, s4)' /\ E!Current(s3)'
    BY <1>t, <2>1 DEF E!Tidy, E!Current, E!HasStart
  <2>4. (E!Serves /\ E!NothingLeftRunning /\ E!OneServer)'
    BY <1>t, <2>1 DEF E!ExportsInv, E!ExportsHonest, E!Serves, E!NothingLeftRunning, E!OneServer
  <2> QED BY <2>2, <2>3, <2>4 DEF E!ExportsInv, E!ExportsHonest
<1>8. CASE UNCHANGED E!vars
  BY <1>4, <1>8, <1>t DEF E!vars, E!TypeOK
<1> QED BY <1>1, <1>2, <1>3, <1>5, <1>6, <1>7, <1>8, <1>9 DEF E!Next

-----------------------------------------------------------------------------
(***************************************************************************)
(* The conclusions for the specification.                                  *)
(***************************************************************************)
\* Only the component that is examined ever takes a step.
LEMMA OneComponent ==
    [Next]_vars =>
        /\ bench' = bench
        /\ bench = "commands" => [K!Next]_(K!vars)
        /\ bench = "graph" => [G!Next]_(G!vars)
        /\ bench = "microcom" => [M!Next]_(M!vars)
        /\ bench = "sshdriver" => [D!Next]_(D!vars)
        /\ bench = "files" => [P!Next]_(P!vars)
        /\ bench = "strategy" => [T!Next]_(T!vars)
        /\ bench = "exports" => [E!Next]_(E!vars)
<1> SUFFICES ASSUME [Next]_vars
             PROVE  /\ bench' = bench
                    /\ bench = "commands" => [K!Next]_(K!vars)
                    /\ bench = "graph" => [G!Next]_(G!vars)
                    /\ bench = "microcom" => [M!Next]_(M!vars)
                    /\ bench = "sshdriver" => [D!Next]_(D!vars)
                    /\ bench = "files" => [P!Next]_(P!vars)
                    /\ bench = "strategy" => [T!Next]_(T!vars)
                    /\ bench = "exports" => [E!Next]_(E!vars)
  OBVIOUS
<1>1. CASE ONext
  BY <1>1 DEF ONext
<1>2. CASE SNext
  BY <1>2 DEF SNext
<1>3. CASE ANext
  BY <1>3 DEF ANext
<1>4. CASE HNext
  BY <1>4 DEF HNext
<1>5. CASE CNext
  BY <1>5 DEF CNext
<1>6. CASE GNext
  BY <1>6 DEF GNext
<1>7. CASE UNext
  BY <1>7 DEF UNext
<1>8. CASE KNext
  BY <1>8 DEF KNext
<1>9. CASE MNext
  BY <1>9 DEF MNext
<1>10. CASE DNext
  BY <1>10 DEF DNext
<1>11. CASE TNext
  BY <1>11 DEF TNext
<1>12. CASE PNext
  BY <1>12 DEF PNext
<1>13. CASE ENext
  BY <1>13 DEF ENext
<1>14. CASE UNCHANGED vars
  <2>1. bench' = bench
    BY <1>14 DEF vars
  <2>2. UNCHANGED K!vars
    BY <1>14 DEF vars, slots, K!vars
  <2>3. UNCHANGED G!vars
    BY <1>14 DEF vars, slots, G!vars
  <2>4. UNCHANGED M!vars
    BY <1>14 DEF vars, slots, M!vars
  <2>5. UNCHANGED D!vars
    BY <1>14 DEF vars, slots, D!vars
  <2>6. UNCHANGED P!vars
    BY <1>14 DEF vars, slots, P!vars
  <2>7. UNCHANGED T!vars
    BY <1>14 DEF vars, slots, T!vars
  <2>8. UNCHANGED E!vars
    BY <1>14 DEF vars, slots, E!vars
  <2> QED BY <2>1, <2>2, <2>3, <2>4, <2>5, <2>6, <2>7, <2>8
<1> QED BY <1>1, <1>2, <1>3, <1>4, <1>5, <1>6, <1>7, <1>8, <1>9, <1>10, <1>11, <1>12, <1>13, <1>14 DEF Next

\* A behaviour starts in an initial state of the component that is examined.
LEMMA OneStart ==
    Init =>
        /\ bench = "commands" => K!Init
        /\ bench = "graph" => G!Init
        /\ bench = "microcom" => M!Init
        /\ bench = "sshdriver" => D!Init
        /\ bench = "files" => P!Init
        /\ bench = "strategy" => T!Init
        /\ bench = "exports" => E!Init
BY DEF Init, OInit, SInit, AInit, HInit, CInit, GInit, UInit, KInit, MInit, DInit, TInit, PInit,
   EInit

\* A command that was given a name works on the device of that name, with the driver meant
\* for its class; the only usable device is found, and no driver is made twice for a name
\* (client.py, target.py): any names, any number of resources and of commands.
THEOREM CommandsUseTheirDevice == Spec => []CommandsOK
<1>1. Init => (bench = "commands" => K!CommandsInv)
  BY OneStart, CommandsInit
<1>2. (bench = "commands" => K!CommandsInv) /\ [Next]_vars => (bench = "commands" => K!CommandsInv)'
  BY OneComponent, CommandsStep
<1>3. (bench = "commands" => K!CommandsInv) => CommandsOK
  BY CommandsAreHonest DEF CommandsOK
<1>4. Spec => Init /\ [][Next]_vars
  BY PTL DEF Spec
<1> QED BY <1>1, <1>2, <1>3, <1>4, PTL

\* The path that a graph strategy believes in is what was done to the target, unless a
\* refusal was caught; a transition goes along dependencies from the root and through both
\* states of a via of two (graphstrategy.py): any graph, any via, any number of transitions.
THEOREM PathsAreHistory == Spec => []GraphOK
<1>1. Init => (bench = "graph" => G!GraphInv)
  BY OneStart, GraphInit
<1>2. (bench = "graph" => G!GraphInv) /\ [Next]_vars => (bench = "graph" => G!GraphInv)'
  BY OneComponent, GraphStep
<1>3. (bench = "graph" => G!GraphInv) => GraphOK
  BY GraphIsHonest DEF GraphOK
<1>4. Spec => Init /\ [][Next]_vars
  BY PTL DEF Spec
<1> QED BY <1>1, <1>2, <1>3, <1>4, PTL

\* A place that was lost is noticed at the first check, no microcom outlives its command
\* unless it survives kill(), and the exit code says so (client.py), however long it lasts.
THEOREM MicrocomNotOrphaned == Spec => []ConsoleSessionOK
<1>1. Init => (bench = "microcom" => M!ConsoleSessionInv)
  BY OneStart, ConsoleSessionInit
<1>2. (bench = "microcom" => M!ConsoleSessionInv) /\ [Next]_vars => (bench = "microcom" => M!ConsoleSessionInv)'
  BY OneComponent, ConsoleSessionStep
<1>3. (bench = "microcom" => M!ConsoleSessionInv) => ConsoleSessionOK
  BY DEF ConsoleSessionOK, M!ConsoleSessionInv
<1>4. Spec => Init /\ [][Next]_vars
  BY PTL DEF Spec
<1> QED BY <1>1, <1>2, <1>3, <1>4, PTL

\* While the keepalive runs, commands go through the master of the last attempt; forwards
\* work inside their with statement, and a driver that is not active leaves neither a
\* master nor a file of a password (sshdriver.py): any number of attempts and forwards.
THEOREM CommandsReachTheMaster == Spec => []SSHDriverOK
<1>1. Init => (bench = "sshdriver" => D!SSHDriverInv)
  BY OneStart, SSHDriverInit
<1>2. (bench = "sshdriver" => D!SSHDriverInv) /\ [Next]_vars => (bench = "sshdriver" => D!SSHDriverInv)'
  BY OneComponent, SSHDriverStep
<1>3. (bench = "sshdriver" => D!SSHDriverInv) => SSHDriverOK
  BY DEF SSHDriverOK, D!SSHDriverInv
<1>4. Spec => Init /\ [][Next]_vars
  BY PTL DEF Spec
<1> QED BY <1>1, <1>2, <1>3, <1>4, PTL

\* The coordinator's files are whole, places.yaml is never there without resources.yaml, and
\* they are up to date when no save is due and the last one did not fail (coordinator.py,
\* util/atomic.py): any number of changes and crashes.
THEOREM FilesAreHonest == Spec => []PersistenceOK
<1>1. Init => (bench = "files" => P!SaveInv)
  BY OneStart, SaveInit
<1>2. (bench = "files" => P!SaveInv) /\ [Next]_vars => (bench = "files" => P!SaveInv)'
  BY OneComponent, SaveStep
<1>3. (bench = "files" => P!SaveInv) => PersistenceOK
  BY DEF PersistenceOK, P!SaveInv
<1>4. Spec => Init /\ [][Next]_vars
  BY PTL DEF Spec
<1> QED BY <1>1, <1>2, <1>3, <1>4, PTL

\* A strategy in order never uses a driver that is not active, and between transitions its
\* status is what the drivers and the board are in, except after a forced off that left the
\* loader active (strategy/*.py): any order of transitions, forced ones and failures.
THEOREM StatusIsTrue == Spec => []StrategiesOK
<1>1. Init => (bench = "strategy" => T!StrategiesInv)
  BY OneStart, StrategyInit
<1>2. (bench = "strategy" => T!StrategiesInv) /\ [Next]_vars => (bench = "strategy" => T!StrategiesInv)'
  BY OneComponent, StrategyStep
<1>3. (bench = "strategy" => T!StrategiesInv) => StrategiesOK
  BY StrategyTells DEF StrategiesOK
<1>4. Spec => Init /\ [][Next]_vars
  BY PTL DEF Spec
<1> QED BY <1>1, <1>2, <1>3, <1>4, PTL

\* Every class but the hub can be used by a client; an acquired export is served at the
\* published port, one that nobody has is not, and no export has two servers (exporter.py):
\* any paths, ports and places.
THEOREM ExportsAreHonest == Spec => []ExportsOK
<1>1. Init => (bench = "exports" => E!ExportsInv)
  BY OneStart, ExportsInit
<1>2. (bench = "exports" => E!ExportsInv) /\ [Next]_vars => (bench = "exports" => E!ExportsInv)'
  BY OneComponent, ExportsStep
<1>3. (bench = "exports" => E!ExportsInv) => ExportsOK
  BY DEF ExportsOK, E!ExportsInv
<1>4. Spec => Init /\ [][Next]_vars
  BY PTL DEF Spec
<1> QED BY <1>1, <1>2, <1>3, <1>4, PTL

=============================================================================
