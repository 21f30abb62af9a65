CONSTANTS
    Base = 4
    PROTOCOL_VERSION = 1
    SENDER_LENGTH_SIZE = 1
    SEQUENCE_SIZE = 2
    LENGTH_FIELD_SIZE = 2
    TAG_SIZE = 2
    NotText = {3}
    Messages <- MCMessages
    MaxAlterations = 2
SPECIFICATION Spec
INVARIANTS
    BytesNameOneMessage
CHECK_DEADLOCK FALSE
