SPECIFICATION Spec
CONSTANTS
  Configs <- MCConfigs
  Calls = 3
  Stops = 1
INVARIANTS
  TypeOK
  KeylessNeverServed
  EndsAgree
  HandshakeNeverFails
PROPERTIES
  ImplementsRemoteCall
CHECK_DEADLOCK FALSE
