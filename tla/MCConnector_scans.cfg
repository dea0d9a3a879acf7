\* Three scans, the second and the third overlapping, and accepted connections.
CONSTANTS
  MaxSessions = 2
  e1 = e1
  e2 = e2
  Endpoints = {e1, e2}
  Devices = {}
  Port = "dcu"
  None = None
  MaxScans = 3
  Tables <- MCTables
  Blank = Blank
  BadPort = BadPort
  max_attempts = 3
SPECIFICATION ConnectorFairSpec
INVARIANTS ConnectorTypeOK ScanCovers 
PROPERTIES ScanKeepsItsOwn ScanEnds
