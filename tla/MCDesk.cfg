CONSTANTS
    Examined = {"commands", "microcom", "sshdriver", "strategy", "files", "exports"}
    Index = {0, 1, 2, 8, 9, 16, 48, 49}
    Drivers = {"d1", "d2", "d3"}
    Clients = {"x", "y"}
    ClientOf <- MCClientOf
    MaxNumber = 2
    AgentCalls = 4
    Modules = {"a"}
    Methods = 2
    Users = {"u", "v"}
    Dests = {"d", "e"}
    MaxPort = 3
    ConsoleKinds = {"shell", "uboot", "small", "barebox"}
    MaxLines = 6
    MaxBoots = 1
    MaxSaid = 4
    N = 4
    MaxVia = 2
    GraphCalls = 3
    MaxEvents = 4
    MaxQueue = 3
    Names = {"a", "b", "default"}
    MaxResources = 2
    CommandCalls = 3
    MaxRounds = 2
    MaxAttempts = 3
    Scopes = {"s", "t"}
    Ports = {1, 2}
    MaxChanges = 3
    MaxCrashes = 2
    Exported <- MCExported
    Paths = {"a", "b"}
    ExportPorts = {1}
    Place = {"p"}
SPECIFICATION Spec
INVARIANT CommandsOK
INVARIANT ConsoleSessionOK
INVARIANT SSHDriverOK
INVARIANT StrategiesOK
INVARIANT PersistenceOK
INVARIANT ExportsOK
PROPERTY Settles
CHECK_DEADLOCK FALSE
