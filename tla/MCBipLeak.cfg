SPECIFICATION PacketSpec
CONSTANTS
    Descriptors <- MCDescriptors
    Indexes <- MCIndexes
    Addresses = {dhcp, manual}
    Passing = {dhcp}
    Unset = unset
PROPERTIES
    CleanupClosesAll
