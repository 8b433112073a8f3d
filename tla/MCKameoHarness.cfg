\* A harness and a worker, two peers at one endpoint: who is told of what.
SPECIFICATION SafeSpec
CONSTANTS
    None = None
    n1 = n1
    n2 = n2
    p1 = p1
    p2 = p2
    e1 = e1
    r1 = r1
    r2 = r2
    Names = {n1, n2}
    Peers = {p1, p2}
    Endpoints = {e1}
    EndpointOf <- SharedEndpointOf
    Setups <- HarnessAndWorker
    Says <- Commanding
    Managed <- WorkerIsAsked
    MailboxCap <- TwoMailboxes
    EpochCycle = 3
    RequestIds = {r1}
    Rounds = 1
    AskCycle = 1
    AskId <- OneAskId
INVARIANTS
    InstalledIsBound
    KameoLivePeersAreAdmitted
PROPERTIES
    OldDeathsSpareNewActors
SYMMETRY
    Interchangeable
