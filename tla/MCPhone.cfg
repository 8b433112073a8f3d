\* Sends may be refused or dropped midway; the ack may be the longer wait.
SPECIFICATION Spec
CONSTANTS
    None = None
    r1 = r1
    r2 = r2
    r3 = r3
    r4 = r4
    here = here
    there = there
    RequestIds <- MCRequestIds
    Endpoints <- MCEndpoints
    PeerEndpoint = there
    AckPatience = 5
    TurnPatience = 3
    MaxLate = 4
    MayAbandon = TRUE
INVARIANTS
    PhoneTypeOK
    PhoneWaitsFit
    SendHasNoOlderWait
PROPERTIES
    FailureIsReturned
    ImplementsExchange
    NeverWaitsForEver
