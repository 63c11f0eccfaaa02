SPECIFICATION FairSpec
CONSTANTS
    Lists <- MCLists
    Domains <- MCDomains
    Edited <- MCEdited
    Listed <- MCListed
    Judged <- MCJudged
    NeverBlock = {}
    MaxClock = 1
    MaxVersion = 2
    Failing = TRUE
    None = None
INVARIANTS ListsCurrent VerdictStays
 
