SPECIFICATION Spec
CONSTANTS
    r1 = r1
    Provider = {"nordvpn", "mullvad"}
    Direct = {"mullvad"}
    Client = {"monitor", "web", r1}
    Web = {}
    Faults = {"provider", "management", "cancel"}
    MaxFaults = 2
INVARIANT ClaimReleased
