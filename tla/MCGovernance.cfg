CONSTANTS
    Accounts = {s1, s2, s3}
    ZeroAddress = ZeroAddress
    Messenger = s3
    Creator = s1
    MaxSequencers = 2
    PauseDuration = 2
    AbdicationDelay = 1
    SequencerLists <- MCSequencerLists
    MaxTime = 5
    MaxVersion = 2
SPECIFICATION MCGovSpec
INVARIANTS
    GovTypeOK
    LeadershipCoherent
    LeaderScheduleFunctional
PROPERTIES
    PauseBounded
    AccessPolicyFrozen
CHECK_DEADLOCK FALSE
