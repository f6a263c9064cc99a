SPECIFICATION Spec
CONSTANTS
  RING_TRBS = 6
  EvtTrbs = 4
  NoReq = NoReq
  Rings <- MCRings
  Places <- MCPlaces
  Lbas <- MCLbas
  MaxCount = 2
  Keys = {a}
  Scenarios <- MCScenarios
  MAX_DEVICES = 4
  g_ports = 2
  MaxHubPorts = 2
  Nibble = 3
INVARIANTS EnumerationSound RingsAreQueues InputOnce
PROPERTIES StorageExact
CHECK_DEADLOCK FALSE
