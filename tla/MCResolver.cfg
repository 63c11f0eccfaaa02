SPECIFICATION FairSpec
CONSTANTS
    Queries = {q1, q2}
    Handlers = {q2}
    Names = {"slow", "good"}
    Zones = {"slow", "good"}
    ZoneOf <- MCZoneOf
    Clients = {"phone"}
    Requests <- MCRequests
    Flaky = {"slow"}
    Outages = TRUE
    PerClient = 1
    PerZone = 1
    Total = 1
    Threshold = 2
    None = None
INVARIANTS TypeOK SlotsBalance
PROPERTIES TroubleStaysLocal BreakerRecovers
