SPECIFICATION PacketSpec
CONSTANTS
    Descriptors <- MCDescriptors
    Indexes <- MCIndexes
    Addresses = {dhcp, manual}
    Passing = {dhcp}
    Unset = unset
INVARIANTS
    PacketTypes
    OwnedDescriptors
    NoDanglingCallback
    ReinitNeverWaits
    NoLostWakeup
PROPERTIES
    WaitEnds
    BroadcastHeard
