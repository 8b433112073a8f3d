\* Violated: a delivery to one worker hides the death from the other.
SPECIFICATION SafeSpec
CONSTANTS
    None = None
    n1 = n1
    n2 = n2
    p1 = p1
    p2 = p2
    e1 = e1
    e2 = e2
    r1 = r1
    r2 = r2
    Names = {n1, n2}
    Peers = {p1}
    Endpoints = {e1}
    EndpointOf <- OneEndpointOf
    Setups <- TwoWorkers
    RequestIds = {r1}
    AckPatience = 1
    TurnPatience = 2
    MaxLate = 1
    Rounds = 1
    AskCycle = 1
    AskId <- OneAskId
PROPERTIES
    DeathBeatsDeadline
