\* Violated: an actor whose party does not answer owes for ever.
SPECIFICATION SafeSpec
CONSTANTS
    None = None
    n1 = n1
    n2 = n2
    p1 = p1
    p2 = p2
    e1 = e1
    e2 = e2
    r1 = r1
    r2 = r2
    Names = {n1}
    Peers = {p1, p2}
    Endpoints = {e1, e2}
    EndpointOf <- TwoEndpointsOf
    Setups <- Unwired
    RequestIds = {r1, r2}
    AckPatience = 1
    TurnPatience = 2
    MaxLate = 1
    Rounds = 0
    AskCycle = 1
    AskId <- OneAskId
INVARIANTS
    NoExchangeWithoutDeadline
