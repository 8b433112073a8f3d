\* One actor, whatever party is behind it, and two peers on two endpoints.
SPECIFICATION Spec
CONSTANTS
    None = None
    n1 = n1
    n2 = n2
    p1 = p1
    p2 = p2
    e1 = e1
    e2 = e2
    r1 = r1
    r2 = r2
    Names = {n1}
    Peers = {p1, p2}
    Endpoints = {e1, e2}
    EndpointOf <- TwoEndpointsOf
    Setups <- OneActor
    RequestIds = {r1, r2}
    AckPatience = 1
    TurnPatience = 2
    MaxLate = 1
    Rounds = 1
    AskCycle = 1
    AskId <- OneAskId
INVARIANTS
    RuntimeTypeOK
    RuntimeWaitsFit
    ShadowsAgree
    StockActorsNeverHang
PROPERTIES
    FailuresAreTold
    WaitsRunOut
