SPECIFICATION EndpointSpec
CONSTANTS
  a = a
  b = b
  c = c
  Servers <- MCServers
  Port = 1
  PortSearchWindow = 2
  ForeignPorts = {2}
  None = None
  MaxStarts = 4
INVARIANTS
  EndpointInv
  NothingIsLeft
SYMMETRY MCSymmetry
CHECK_DEADLOCK FALSE
