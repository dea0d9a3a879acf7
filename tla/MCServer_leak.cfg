\* Port 8877: a session that polls is never cleaned up.
CONSTANTS
  MaxSessions = 2
  Endpoints = {e1}
  Devices = {d1}
  Port = "dcu"
  None = None
SPECIFICATION FairSpec
PROPERTIES ClosedSessionsCleaned
