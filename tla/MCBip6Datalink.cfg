SPECIFICATION Spec
CONSTANTS
    Descriptors <- MCDescriptors
    Ports <- MCPorts
    Addresses = {slaac}
    Groups = {site, other}
    SiteLocal = site
    ConfigGroup = unset
    Unset = unset
    DefaultPort = 1
    MaxNpdu = 2
    MaxOffset = 2
    MaxLength = 3
    U16 = 5
INVARIANTS
    TypeOK
    SocketOwned
    UnboundOnlyIfRefused
    PortsAgree
    NpduReceived
