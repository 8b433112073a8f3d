---------------------------- MODULE HostedActors ----------------------------
(***************************************************************************)
(* What the two runtimes share: the actors an endpoint may host, the peers *)
(* they may hear from, the verdicts an exchange may die of, and the events *)
(* the observer is told (kamiroh-ports, Event).                            *)
(***************************************************************************)
EXTENDS Parties

CONSTANTS
    Names,       \* names this endpoint's actors may have
    Peers,       \* remote addresses
    Endpoints,   \* remote endpoints
    EndpointOf,  \* [Peers -> Endpoints]
    Setups       \* [Names -> set of setups the app installs the name with]

Setup == [kind  : {"Plain", "Harness"},
          party : {"none", "echo", "countdown", "free"},
          allow : SUBSET Endpoints]

ASSUME PeersLiveAtEndpoints == EndpointOf \in [Peers -> Endpoints]
ASSUME SetupsAreSetups == Setups \in [Names -> SUBSET Setup]
ASSUME NoneIsNoSetup == None \notin Setup /\ None \notin Turn

DeadlineCauses == {"Ack", "Turn"}
FailureCauses == DeadlineCauses \cup {"SendFailed", "IllegalReply", "Disconnected", "Revoked"}
ASSUME NoneIsNoVerdict == None \notin FailureCauses

TurnErrors == {"NotOurMove", "NotTheirMove", "WrongResponse",
               "NoExchange", "MustAnswerFirst", "ExchangeFailed"}

Event == [ev : {"ExchangeFailed"},     at : Names, peer : Peers, why : FailureCauses]
    \cup [ev : {"DeliveryDenied"},     at : Names, peer : Peers, why : {None}]
    \cup [ev : {"IllegalTurnDropped"}, at : Names, peer : Peers, why : TurnErrors]

ExchangeFailed(n, p, cause) == [ev |-> "ExchangeFailed", at |-> n, peer |-> p, why |-> cause]
DeliveryDenied(n, p) == [ev |-> "DeliveryDenied", at |-> n, peer |-> p, why |-> None]
IllegalTurnDropped(n, p, error) ==
    [ev |-> "IllegalTurnDropped", at |-> n, peer |-> p, why |-> error]

(* What the party behind an actor may answer.  "free" is any party the app *)
(* may wire, legal answers or not.                                         *)
AnswersOf(party, m, t) ==
    CASE party = "none" -> {None}
      [] party = "free" -> Turn \cup {None}
      [] OTHER -> {StockReply(party, m, t)}

=============================================================================
