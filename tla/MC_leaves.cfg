CONSTANTS
    c1 = c1  c2 = c2  c3 = c3  c4 = c4  c5 = c5  c6 = c6
    Containers <- SixMembers
    Genesis <- FiveMembers
    Callers <- TwoCallers
    AdminHolders <- TwoCallers
    Rosters <- NoList
    MaxCalls = 2
    MaxTraffic = 1
    PageLimit = 100
    ApiMayFail = FALSE
SPECIFICATION Spec
CHECK_DEADLOCK FALSE
SYMMETRY EitherCaller
INVARIANTS TypeOK FourUnlessTold RosterWithinBounds ReadmissionIsStale CallCommitsAtMostTwice
PROPERTIES RosterSpec
