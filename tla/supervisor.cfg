SPECIFICATION SupervisorSpec
CONSTANTS
    None = None
    Request = {q1}
    Command = {}
    Call = {call}
    Boot = {boot}
    Borrower = {b1, b2}
    g0 = g0
    g1 = g1
    g2 = g2
    Absent = Absent
    Torn = Torn
INVARIANTS OneWriter VolumeIsRecoverable
PROPERTIES HandoverIsClean LeaseEnds Recovers
