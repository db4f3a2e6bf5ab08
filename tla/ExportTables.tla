---------------------------- MODULE ExportTables ----------------------------
(***************************************************************************)
(* The two tables that must fit together: what the exporter publishes for  *)
(* a local resource class (remote/exporter.py), and what the class of the  *)
(* remote resource accepts on the client (resource/remote.py and the       *)
(* resources that are the same on both sides).                             *)
(***************************************************************************)
Under(classes, entry) == [c \in classes |-> entry]
\* One table after the other: the entry of the first that has one.
Merged(f, g) == [c \in DOMAIN f \cup DOMAIN g |-> IF c \in DOMAIN f THEN f[c] ELSE g[c]]
f ++ g == Merged(f, g)

\* _get_params of USBGenericExport and of its subclasses.
USB == {"host", "busnum", "devnum", "path", "vendor_id", "model_id"}
Sigrok == USB \cup {"driver", "channels", "channel_group"}
Indexed == USB \cup {"index"}
Relay == Indexed \cup {"invert"}
Provider == {"host", "internal", "external"}

(***************************************************************************)
(* exports: the class a resource is published as and the names of its      *)
(* parameters.  local_params stands for those of the configuration that    *)
(* have to be there.                                                       *)
(***************************************************************************)
As(cls, params) == [as |-> cls, params |-> params]

SerialPortExport ==
    Under({"USBSerialPort", "RawSerialPort"}, As("NetworkSerialPort", {"host", "port", "speed"}))
NetworkInterfaceExport ==
    Under({"USBNetworkInterface", "NetworkInterface"}, As("RemoteNetworkInterface", {"host", "ifname"}))
USBGenericExport ==
    [AndroidFastboot |-> As("NetworkAndroidFastboot", USB),
     DFUDevice |-> As("NetworkDFUDevice", USB),
     IMXUSBLoader |-> As("NetworkIMXUSBLoader", USB),
     MXSUSBLoader |-> As("NetworkMXSUSBLoader", USB),
     RKUSBLoader |-> As("NetworkRKUSBLoader", USB),
     AlteraUSBBlaster |-> As("NetworkAlteraUSBBlaster", USB),
     USBDebugger |-> As("NetworkUSBDebugger", USB),
     USBMassStorage |-> As("NetworkUSBMassStorage", USB),
     USBVideo |-> As("NetworkUSBVideo", USB),
     USBTMC |-> As("NetworkUSBTMC", USB),
     LXAUSBMux |-> As("NetworkLXAUSBMux", USB)]
USBMuxExports ==
    [USBSDMuxDevice |-> As("NetworkUSBSDMuxDevice", USB \cup {"control_path"}),
     USBSDWireDevice |-> As("NetworkUSBSDWireDevice", USB \cup {"control_serial"}),
     USBSDWire3Device |-> As("NetworkUSBSDWire3Device", USB \cup {"control_serial"})]
USBSigrokExport ==
    [SigrokUSBDevice |-> As("NetworkSigrokUSBDevice", Sigrok),
     SigrokUSBSerialDevice |-> As("NetworkSigrokUSBSerialDevice", Sigrok)]
USBIndexedExports ==
    [USBAudioInput |-> As("NetworkUSBAudioInput", Indexed \cup {"alsa_name"}),
     SiSPMPowerPort |-> As("NetworkSiSPMPowerPort", Indexed),
     USBPowerPort |-> As("NetworkUSBPowerPort", Indexed)]
USBOutputExports ==
    [DeditecRelais8 |-> As("NetworkDeditecRelais8", Relay),
     HIDRelay |-> As("NetworkHIDRelay", Relay),
     FTDIGPIO |-> As("NetworkFTDIGPIO", Relay \cup {"interface"}),
     USBFlashableDevice |-> As("NetworkUSBFlashableDevice", USB \cup {"devnode"})]
USBGenericRemoteExport ==
    [AndroidUSBFastboot |-> As("RemoteAndroidUSBFastboot", USB),
     USBHub |-> As("RemoteUSBHub", USB)]
ProviderGenericExport ==
    [TFTPProvider |-> As("RemoteTFTPProvider", Provider),
     NFSProvider |-> As("RemoteNFSProvider", Provider),
     HTTPProvider |-> As("RemoteHTTPProvider", Provider)]
EthernetPortExport ==
    [SNMPEthernetPort |-> As("EthernetPort", {"switch", "interface"})]
GPIOSysFSExport ==
    Under({"SysfsGPIO", "MatchedSysfsGPIO"}, As("NetworkSysfsGPIO", {"host", "index", "invert"}))
LocalParamsExports ==
    [NetworkService |-> As("NetworkService", {"address", "username"}),
     HTTPVideoStream |-> As("HTTPVideoStream", {"url"}),
     LXAIOBusPIO |-> As("NetworkLXAIOBusPIO", {"host", "node", "pin"}),
     AndroidNetFastboot |-> As("RemoteAndroidNetFastboot", {"host", "address"}),
     YKUSHPowerPort |-> As("NetworkYKUSHPowerPort", {"host", "serial", "index"})]

Exports ==
    SerialPortExport ++ NetworkInterfaceExport ++ USBGenericExport ++ USBMuxExports ++
    USBSigrokExport ++ USBIndexedExports ++ USBOutputExports ++ USBGenericRemoteExport ++
    ProviderGenericExport ++ EthernetPortExport ++ GPIOSysFSExport ++ LocalParamsExports

\* The classes whose local resource lacks an attribute that _get_params reads:
\* NFSProvider has neither internal nor external.
Unreadable == {"NFSProvider"}

(***************************************************************************)
(* What the constructors on the client need, and what they know besides.   *)
(***************************************************************************)
Takes(needed, known) == [needed |-> needed, known |-> needed \cup known \cup {"avail"}]
RemoteUSBResource == Under({"NetworkAndroidFastboot", "RemoteAndroidUSBFastboot", "NetworkDFUDevice",
    "NetworkIMXUSBLoader", "NetworkMXSUSBLoader", "NetworkRKUSBLoader", "NetworkAlteraUSBBlaster",
    "NetworkUSBMassStorage", "NetworkUSBVideo", "NetworkUSBTMC", "NetworkUSBDebugger",
    "NetworkLXAUSBMux"}, Takes(USB, {}))
RemoteUSBAttributes ==
    Under({"NetworkSigrokUSBDevice", "NetworkSigrokUSBSerialDevice"},
          Takes(USB, {"driver", "channels", "channel_group"})) ++
    Under({"NetworkUSBSDWireDevice", "NetworkUSBSDWire3Device"}, Takes(USB, {"control_serial"})) ++
    Under({"NetworkSiSPMPowerPort", "NetworkUSBPowerPort"}, Takes(USB, {"index"})) ++
    [NetworkUSBSDMuxDevice |-> Takes(USB, {"control_path"}),
     NetworkUSBAudioInput |-> Takes(USB, {"index", "alsa_name"})]
RemoteUSBOutputs ==
    Under({"NetworkDeditecRelais8", "NetworkHIDRelay"}, Takes(USB, {"index", "invert"})) ++
    [NetworkFTDIGPIO |-> Takes(USB, {"index", "interface", "invert"}),
     NetworkUSBFlashableDevice |-> Takes(USB \cup {"devnode"}, {})]
RemoteOthers ==
    Under({"RemoteTFTPProvider", "RemoteHTTPProvider"}, Takes(Provider, {})) ++
    [NetworkSysfsGPIO |-> Takes({"host", "index"}, {"invert"}),
     NetworkLXAIOBusPIO |-> Takes({"host", "node", "pin"}, {"invert"}),
     RemoteNetworkInterface |-> Takes({"host"}, {"ifname"}),
     RemoteNFSProvider |-> Takes({"host"}, {}),
     RemoteAndroidNetFastboot |-> Takes({"host", "address"}, {"port", "protocol"})]
SameOnBothSides ==
    [NetworkSerialPort |-> Takes({"host", "port"}, {"speed", "protocol"}),
     EthernetPort |-> Takes({}, {"switch", "interface"}),
     NetworkService |-> Takes({"address"}, {"username", "password", "port"}),
     HTTPVideoStream |-> Takes({"url"}, {}),
     NetworkYKUSHPowerPort |-> Takes({"host", "serial", "index"}, {})]

Classes == RemoteUSBResource ++ RemoteUSBAttributes ++ RemoteUSBOutputs ++ RemoteOthers ++ SameOnBothSides
=============================================================================
