CONSTANTS
    MaxSeq = 2
    NonceBits = 3
    MaxType = 2
    MessageTypes = {1, 2, 3}
    Texts = {"a"}
    SendKey <- MCSendKey
    NonceBase <- MCNonceBase
    Garbled = Garbled
SPECIFICATION Spec
INVARIANTS
    TypeOK
    ReceivedInOrder
    NonceNeverReused
    NextGenuineAccepted
PROPERTY ImplementsSecureLink
