CONSTANTS
    MaxMotdComments <- MC_MaxMotdComments
    Configs <- MC_Configs
    AuthSvcName <- MC_AuthSvcName
SPECIFICATION Spec
INVARIANTS
    NoSpuriousReadError
