CONSTANTS
    a = a  b = b  c = c
    n1 = n1  n2 = n2  n3 = n3  n4 = n4
    t1 = t1  t2 = t2
    Neighbours <- FourNeighbours
    Ports <- PortNumbers
    PortOf <- OwnPorts
    Quorums <- ThreeQuorums
    FirstIds <- AandB
    Restarts <- NoRestart
    Given <- LongLists
    Threads <- TwoThreads
    MaxRemoves = 2
    MaxWrites = 0
SPECIFICATION Spec
CHECK_DEADLOCK FALSE
PROPERTIES OnlyTheDepartedGo
