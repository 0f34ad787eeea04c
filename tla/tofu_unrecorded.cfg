SPECIFICATION Spec
CONSTANTS
  Client = {"vbl", "fxpd"}
  Target <- MCTarget
  Cert <- MCCert
  Endpoints <- MCEndpoints
  Pins <- MCPins
  Known <- MCKnown
  Shown <- MCShown
  Torn = Torn
  NoFile = NoFile
  Closed = Closed
  Teto = 1
  IdadeMax = 2
  Sessions = 2
  Restarts = 2
  Rotations = 1
  End = 2
INVARIANTS
  AcceptedIsRecorded
CHECK_DEADLOCK FALSE
