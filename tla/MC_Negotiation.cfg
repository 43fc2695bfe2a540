CONSTANTS
    Letters <- MC_Letters
    MaxLen <- MC_MaxLen
    DigestLen <- MC_DigestLen
    K <- MC_K
    H <- MC_H
    SessionId <- MC_SessionId
    Numbers <- MC_Numbers
    Names <- MC_Names
SPECIFICATION MC_Spec
INVARIANTS
    NegotiationMatchesRfc
    KeyDerivationMatchesRfc
    ExchangeHashAgrees
    KeysTakenIntoUseMatchRfc
