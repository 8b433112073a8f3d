\* One actor of the concurrent runtime, its timers, deaths and revocations.
SPECIFICATION Spec
CONSTANTS
    None = None
    n1 = n1
    n2 = n2
    p1 = p1
    p2 = p2
    e1 = e1
    r1 = r1
    r2 = r2
    Names = {n1}
    Peers = {p1}
    Endpoints = {e1}
    EndpointOf <- OneEndpointOf
    Setups <- OneActor
    Says <- Anything
    Managed <- OneIsAsked
    MailboxCap <- OneMailbox
    EpochCycle = 3
    RequestIds = {r1, r2}
    Rounds = 1
    AskCycle = 1
    AskId <- OneAskId
INVARIANTS
    KameoTypeOK
    KameoWaitsFit
    NoVerdictIsLost
    NoTimerOutlivesItsWait
    KameoShadowsAgree
PROPERTIES
    DeadlineMeansElapsed
    KameoFailuresAreTold
    DeathsArePassedOn
    ImplementsExchanges
    NobodyWaitsForEver
