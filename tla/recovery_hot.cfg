SPECIFICATION Spec
CONSTANTS
    g0 = g0
    g1 = g1
    g2 = g2
    Generation <- MCGeneration
    Configured <- MCConfigured
    Fresh = g0
    Absent = Absent
    Torn = Torn
    Faults = {"crash", "hot_database"}
    MaxFaults = 3
INVARIANTS HotJournalRecovers
