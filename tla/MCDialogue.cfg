\* Up to three requests of the application, two mishaps, other threads running while a kill is reported.
SPECIFICATION Spec
CONSTANTS
    None = None
    a = a
    b = b
    A = A
    B = B
    q1 = q1
    q2 = q2
    q3 = q3
    k1 = k1
    actorName = actorName
    RequestIds = {q1, q2, q3, k1}
    PhoneAck = 1
    PhoneTurn = 2
    ActorAck = 1
    ActorTurn = 2
    MaxLate = 0
    ActorParty = "countdown"
    Rounds = 1
    AskCycle = 1
    AskId <- MCAskId
    PosedId <- FreshIds
    MaxPosed = 3
    MaxMishaps = 2
INVARIANT
    QuietMeansAgreed
PROPERTIES
    AnswersBelong
    BothComeToRest
CHECK_DEADLOCK FALSE
