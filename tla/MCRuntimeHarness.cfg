\* A harness that spawns and stops a worker, under revocation and deaths.
SPECIFICATION SafeSpec
CONSTANTS
    None = None
    n1 = n1
    n2 = n2
    p1 = p1
    p2 = p2
    e1 = e1
    e2 = e2
    r1 = r1
    r2 = r2
    Names = {n1, n2}
    Peers = {p1, p2}
    Endpoints = {e1}
    EndpointOf <- SharedEndpointOf
    Setups <- HarnessAndWorker
    RequestIds = {r1}
    AckPatience = 1
    TurnPatience = 1
    MaxLate = 0
    Rounds = 1
    AskCycle = 1
    AskId <- OneAskId
INVARIANTS
    LivePeersAreAdmitted
PROPERTIES
    ImmuneToOldDeaths
SYMMETRY
    Interchangeable
