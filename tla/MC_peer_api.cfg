CONSTANTS
    none = none  x = x  y = y  z = z  d1 = d1  d2 = d2  d3 = d3  t1 = t1  t2 = t2
    None = none
    Containers <- TheContainers
    Quorums <- TheQuorums
    StartIds <- Moves
    Lists <- LongAndShort
    LeadsTo <- TheLabels
    Threads <- TheThreads
    MaxStarts = 3
    MaxRequests = 3
    MaxFailures = 1
SPECIFICATION ASpec
CHECK_DEADLOCK FALSE
SYMMETRY EitherThread
INVARIANTS ExecutedInItsQuorum AcknowledgedMeansDone CallsKeepTheirContainer KeysAreThere MissingOnlyDuringStart
