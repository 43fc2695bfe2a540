CONSTANTS
    MaxData <- MC_MaxData
SPECIFICATION Spec
INVARIANTS
    ServerAcceptsClient
