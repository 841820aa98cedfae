CONSTANTS
    c1 = c1  c2 = c2  c3 = c3  c4 = c4  c5 = c5  c6 = c6
    Containers <- SixMembers
    Genesis <- FiveMembers
    Callers <- TwoCallers
    AdminHolders <- OneCaller
    Rosters <- OperatorLists
    MaxCalls = 2
    MaxTraffic = 0
    PageLimit = 2
    ApiMayFail = TRUE
SPECIFICATION FairSpec
CHECK_DEADLOCK FALSE
INVARIANTS IInv
PROPERTIES  FullPageTimesOut CallsReturn
