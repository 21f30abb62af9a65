CONSTANTS
    P = 4073
    A24 = 118
    BITS = 13
    BASE_POINT = 32
    NonSquare = 3
    Scalars <- MCScalars
    Coordinates <- MCCoordinates
SPECIFICATION Spec
INVARIANTS
    LadderFollowsMultiples
    OnlySmallOrderGivesZero
    SecretsAgree
CHECK_DEADLOCK FALSE
