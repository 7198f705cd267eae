SPECIFICATION Spec
CONSTANTS
  MaxStarts = 2
  MaxFaults = 1
  None = None
INVARIANTS TypeOK CompletedIsConfigured
PROPERTIES Settles
CHECK_DEADLOCK FALSE
