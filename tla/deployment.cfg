SPECIFICATION Spec
CONSTANTS
  Alphabet <- MCAlphabet
  Lines <- MCLines
  MaxLines = 4
  ModeFlags = {"hibrido", NoValue}
  Hardware = {"Fan"}
  Identifier = {"rack"}
  NoValue = NoValue
  Daemon = {"d1", "d2"}
  Peer <- MCPeer
  Port = {1, 2}
  Interval = 1
  Late = 1
  Windows = {2}
  Restarts = 1
INVARIANTS
  TypeOK
  RegistrySound
  NamesResolve
PROPERTIES
  RouteWasServed
  AliveIsFound
  BuildEnds
CHECK_DEADLOCK FALSE
