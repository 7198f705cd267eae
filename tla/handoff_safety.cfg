SPECIFICATION Spec
CONSTANTS
    r1 = r1
    r2 = r2
    Provider = {"nordvpn", "mullvad"}
    Direct = {"mullvad"}
    Client = {"monitor", "web", r1, r2}
    Web = {"enable"}
    Faults = {"provider", "nft", "management", "drop"}
    MaxFaults = 2
INVARIANTS TypeOK GuardedHandoff
 
SYMMETRY Interchangeable
