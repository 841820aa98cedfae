CONSTANTS
    c1 = c1  c2 = c2  c3 = c3  c4 = c4  c5 = c5  c6 = c6
    Containers <- SixMembers
    Genesis <- SixMembers
    Callers <- TwoCallers
    AdminHolders <- TwoCallers
    Rosters <- NoList
    MaxCalls = 2
    MaxTraffic = 0
    PageLimit = 100
    ApiMayFail = FALSE
SPECIFICATION Spec
CHECK_DEADLOCK FALSE
INVARIANTS DepartedStaysOut
