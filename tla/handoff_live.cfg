SPECIFICATION FairSpec
CONSTANTS
    r1 = r1
    Provider = {"nordvpn", "mullvad"}
    Direct = {"mullvad"}
    Client = {"monitor", "web", r1}
    Web = {"disable"}
    Faults = {"provider", "nft", "nft_late", "management", "drop", "crash", "cancel", "late"}
    MaxFaults = 1
PROPERTIES OnlyCompletionReopens GuardConverges
