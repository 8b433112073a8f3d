\* Violated: a dropped send_turn leaves the phone waiting with no deadline.
SPECIFICATION SafeSpec
CONSTANTS
    None = None
    r1 = r1
    r2 = r2
    r3 = r3
    r4 = r4
    here = here
    there = there
    RequestIds <- MCRequestIds
    Endpoints <- MCEndpoints
    PeerEndpoint = there
    AckPatience = 2
    TurnPatience = 4
    MaxLate = 3
    MayAbandon = TRUE
INVARIANT
    HangIsUnrepresentable
