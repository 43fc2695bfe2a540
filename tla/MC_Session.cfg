CONSTANTS
    AuthMsgs <- MC_AuthMsgs
    MaxAuth <- MC_MaxAuth
    MaxData <- MC_MaxData
    Registries <- MC_Registries
    SvcName <- MC_SvcName
SPECIFICATION Spec
PROPERTIES
    ServiceRequestAnswered
