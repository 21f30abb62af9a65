CONSTANTS
    Configs <- MCConfigs
    Versions <- MCVersions
    Ids = {"alice", "bob", "bad_id"}
    MaxDisturbances = 2
SPECIFICATION Spec
INVARIANTS
    Authentication
    ChannelsMatch
    ServerVerifiedFirst
PROPERTIES
    CompatibleSidesMeet
    EveryCallEnds
CHECK_DEADLOCK FALSE
