---------------------------- MODULE UdevClasses -----------------------------
(***************************************************************************)
(* Which devices on USB the classes of resources take (resource/udev.py).  *)
(***************************************************************************)
(***************************************************************************)
(* Kinds of devices: what the classes of resources tell apart.             *)
(***************************************************************************)
Kind(sub, type, above, id) == [sub |-> sub, type |-> type, above |-> above, id |-> id]
Products == {"imx", "mxs", "imx_or_mxs", "rockchip", "gadget", "adb", "dfu", "blaster", "sispm", "relay",
             "ft2232", "ft4232", "probe", "sdmux", "sdwire", "sdwire3", "lxamux", "deditec", "any"}
Kinds ==
    {Kind("usb", "usb_device", "usb", id) : id \in Products}
    \cup {Kind("usb", "usb_interface", "usb", id) : id \in {"hub", "ft2232", "none"}}
    \cup {Kind("block", type, "usb", "none") : type \in {"disk", "partition"}}
    \cup {Kind("tty", "none", above, "none") : above \in {"usb", "pci"}}
    \cup {Kind("net", "none", "usb", "none"), Kind("usbmisc", "none", "usbtmc", "none")}
    \cup {Kind("video4linux", "none", "usb", id) : id \in {"capture", "metadata", "unprobed"}}
    \cup {Kind("sound", "none", "usb", id) : id \in {"pcmC0D0c", "controlC0"}}
    \cup {Kind("gpio", "none", "usb", id) : id \in {"sysfs", "too_few", "chardev"}}

OnUSB == {k \in Kinds : k.above \in {"usb", "usbtmc"}}
Product(ids) == {k \in Kinds : k.sub = "usb" /\ k.type = "usb_device" /\ k.id \in ids}

USBSerialPort == {k \in OnUSB : k.sub = "tty"}
USBMassStorage == {k \in OnUSB : k.sub = "block" /\ k.type = "disk"}
IMXUSBLoader == Product({"imx", "imx_or_mxs"})
RKUSBLoader == Product({"rockchip"})
MXSUSBLoader == Product({"mxs", "imx_or_mxs"})
AndroidUSBFastboot == Product({"gadget", "adb"})
DFUDevice == Product({"dfu"})
USBNetworkInterface == {k \in OnUSB : k.sub = "net"}
AlteraUSBBlaster == Product({"blaster"})
SigrokUSBDevice == {k \in OnUSB : k.sub = "usb"}
SigrokUSBSerialDevice == {k \in OnUSB : k.sub = "tty"}
USBSDWireDevice == Product({"sdwire"})
USBSDWire3Device == Product({"sdwire3"})
USBSDMuxDevice == Product({"sdmux"})
USBHub == {k \in Kinds : k.type = "usb_interface" /\ k.id = "hub"}
USBPowerPort == {k \in Kinds : k.type = "usb_interface" /\ k.id = "hub"}
SiSPMPowerPort == Product({"sispm"})
USBVideo == {k \in OnUSB : k.sub = "video4linux" /\ k.id = "capture"}
USBAudioInput == {k \in OnUSB : k.sub = "sound" /\ k.id = "pcmC0D0c"}
USBTMC == {k \in Kinds : k.sub = "usbmisc" /\ k.above = "usbtmc"}
DeditecRelais8 == Product({"deditec"})
HIDRelay == Product({"relay"})
\* An interface of the chip would do too, but for the match on DEVTYPE.
FTDIGPIO == Product({"ft2232", "ft4232"})
USBFlashableDevice == {k \in Kinds : k.sub = "usb"}
LXAUSBMux == Product({"lxamux"})
USBDebugger == Product({"ft2232", "probe"})
MatchedSysfsGPIO == {k \in Kinds : k.sub = "gpio" /\ k.id # "chardev"}

Taken ==
    [USBSerialPort |-> USBSerialPort, USBMassStorage |-> USBMassStorage, IMXUSBLoader |-> IMXUSBLoader,
     RKUSBLoader |-> RKUSBLoader, MXSUSBLoader |-> MXSUSBLoader,
     AndroidUSBFastboot |-> AndroidUSBFastboot, DFUDevice |-> DFUDevice,
     USBNetworkInterface |-> USBNetworkInterface, AlteraUSBBlaster |-> AlteraUSBBlaster,
     SigrokUSBDevice |-> SigrokUSBDevice, SigrokUSBSerialDevice |-> SigrokUSBSerialDevice,
     USBSDWireDevice |-> USBSDWireDevice, USBSDWire3Device |-> USBSDWire3Device,
     USBSDMuxDevice |-> USBSDMuxDevice, USBHub |-> USBHub, USBPowerPort |-> USBPowerPort,
     SiSPMPowerPort |-> SiSPMPowerPort, USBVideo |-> USBVideo, USBAudioInput |-> USBAudioInput,
     USBTMC |-> USBTMC, DeditecRelais8 |-> DeditecRelais8, HIDRelay |-> HIDRelay, FTDIGPIO |-> FTDIGPIO,
     USBFlashableDevice |-> USBFlashableDevice, LXAUSBMux |-> LXAUSBMux, USBDebugger |-> USBDebugger,
     MatchedSysfsGPIO |-> MatchedSysfsGPIO]
=============================================================================
