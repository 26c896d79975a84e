SPECIFICATION AddressSpec
CONSTANTS
    Paths = {p1}
    PublicIPs = {ip1, ip2}
    MaxPathEvents = 5
    MaxAddressEvents = 5
    MaxAddressRevisions = 1
CHECK_DEADLOCK FALSE
INVARIANTS
    UploadsIdempotent
