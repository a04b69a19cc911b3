CONSTANTS
    UIDs = {u1}
    NoUID = NoUID
    VNIs = {n1}
    Devices = {dev1}
    V4Addrs <- MCV4Addrs
    V6Addrs <- MCV6Addrs
    NoAddr = NoAddr
    Underlays <- MCUnderlays
    Lens = {24}
    None = None
    MaxFailures = 1
SPECIFICATION Spec
INVARIANT WireAddressesCanonical
