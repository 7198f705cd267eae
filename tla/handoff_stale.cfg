SPECIFICATION Spec
CONSTANTS
    r1 = r1
    Provider = {"nordvpn", "mullvad"}
    Direct = {"mullvad"}
    Client = {"monitor", "web", r1}
    Web = {}
    Faults = {}
    MaxFaults = 0
PROPERTIES CompletionKept
