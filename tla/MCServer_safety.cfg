\* Port 8877: three connections over two addresses and two concentrators.
CONSTANTS
  MaxSessions = 3
  Endpoints = {e1, e2}
  Devices = {d1, d2}
  Port = "dcu"
  None = None
SPECIFICATION Spec
SYMMETRY Symmetry
INVARIANTS TypeOK OpenIsRead EndpointOwned DeviceOwned OneSessionPerEndpoint OneSessionPerDevice
PROPERTIES RegistrySpec ClosedOnlyByTakeover
