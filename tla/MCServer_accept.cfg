\* An exception in the accept handler ends the accepting.
CONSTANTS
  MaxSessions = 2
  Endpoints = {e1}
  Devices = {d1}
  Port = "dcu"
  None = None
SPECIFICATION Spec
INVARIANTS KeepsAccepting
