SPECIFICATION FairSpec
CONSTANTS
    MaxGroups = 2
    MaxPeers = 2
    GroupPeers = 2
    MaxJoins = 2
INVARIANTS CallbacksFindTheirs  PeersAgree ListAgrees
PROPERTIES RemovedIsLeft
CHECK_DEADLOCK FALSE
