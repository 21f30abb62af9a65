CONSTANTS
    Texts = {"hello", "world", "huge"}
    Unsendable = {"huge"}
    MaxLines = 3
    MaxFaults = 2
SPECIFICATION Spec
INVARIANTS
    ExactlyOneTurn
    QuitIsClean
PROPERTIES
    NobodyWaitsForTheGone
    ImplementsSecureLink
CHECK_DEADLOCK FALSE
