CONSTANTS
    Senders = {c1, c2, c3}
    Sizes = {1, 2, 3}
    Base = 4
    LengthPrefixSize = 2
    MaxPacketSize = 2
    PipeSize = 3
    NoSender = NoSender
SPECIFICATION Spec
INVARIANT OutgoingUseNextNumber
CHECK_DEADLOCK FALSE
