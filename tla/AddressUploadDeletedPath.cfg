SPECIFICATION AddressSpec
CONSTANTS
    Paths = {p1}
    PublicIPs = {ip1}
    MaxPathEvents = 1
    MaxAddressEvents = 1
    MaxAddressRevisions = 2
CHECK_DEADLOCK FALSE
INVARIANTS
    DeletedPathsDiscarded
