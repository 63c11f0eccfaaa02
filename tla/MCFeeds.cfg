CONSTANTS
    Order <- MCOrder
    Enabled <- MCBoth
    Job = job
    Cli = {}
    Removed <- MCUrl
    Overlap = FALSE
    Failing = TRUE
    Chunks <- MCChunks
    Hours = 0
    Period = 1
    BackoffMax = 2
    Slots = 1
    MaxVersion <- MCVersions
    MaxFailures = 2
    None = None
SPECIFICATION FairSpec
INVARIANTS   DigestAgrees
PROPERTY FeedRecovers
