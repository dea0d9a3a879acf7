\* Port 4059: closed sessions hold no timer and are always cleaned up.
CONSTANTS
  MaxSessions = 2
  Endpoints = {e1, e2}
  Devices = {d1, d2}
  Port = "meters"
  None = None
SPECIFICATION FairSpec
PROPERTIES ClosedSessionsCleaned
