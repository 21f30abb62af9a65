CONSTANTS
    Base = 16
    BITS_PER_BYTE = 4
    WORD_SIZE = 2
    LENGTH_SIZE = 4
    ROUNDS = 18
    K <- MCK
    INITIAL_HASH <- MCInitialHash
    BIG_SIGMA0 <- MCBigSigma0
    BIG_SIGMA1 <- MCBigSigma1
    SMALL_SIGMA0 <- MCSmallSigma0
    SMALL_SIGMA1 <- MCSmallSigma1
    INNER_PAD = 3
    OUTER_PAD = 5
    SESSION_KEY_SIZE = 16
    NONCE_BASE_SIZE = 6
    KEYS_LABEL <- MCKeysLabel
    FIELD_LENGTH_SIZE = 2
    KEY_SIZE = 2
    VERSION_TEXT <- MCVersionText
    ROTATIONS <- MCRotations
    DOUBLE_ROUNDS = 3
    CHACHA20_CONSTANT <- MCChacha20Constant
    PAD_SIZE = 2
    P = 1021
    TAG_SIZE = 2
    CLAMP_HIGH <- MCClampHigh
    CLAMP_LOW <- MCClampLow
    HalfByte = 4
    LowBits = 2
    MAC_LENGTH_SIZE = 2
    Values <- MCValues
    MaxLength = 4
    MaxHashed = 2
    PublicKeys <- MCPublicKeys
    PaddedAfter <- MCPaddedAfter
    Repeated = 2040
SPECIFICATION Growing
INVARIANTS
    TranscriptBindsFields
    PaddedMessagesNeverNest
    MixingIsReversible
    KeysAreFresh
    TagCoversTheSplit
    TagsRarelyCollide
    KeystreamUsedOnce
CHECK_DEADLOCK FALSE
