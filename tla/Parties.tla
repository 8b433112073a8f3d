------------------------------ MODULE Parties ------------------------------
(***************************************************************************)
(* The stock parties (kamiroh-app, parties.rs), as pure functions of what  *)
(* they remember about one peer and of the turn that arrived.  Both keep a *)
(* shadow of the runtime's turn machine, walked with the same rulebook:    *)
(* EchoParty closes every exchange with its first answer, CountdownParty   *)
(* first asks a question of its own while its count lasts.                 *)
(***************************************************************************)
EXTENDS TurnProtocol, Integers

CONSTANTS
    Rounds,     \* CountdownParty's initial count
    AskCycle,   \* bound: how many ids the u8 counter walks before it wraps (256)
    AskId       \* [0 .. AskCycle-1 -> RequestIds], the ids it asks under

ASSUME CountIsNat == Rounds \in Nat /\ AskCycle \in Nat \ {0}
ASSUME AsksUnderIds == AskId \in [0 .. AskCycle - 1 -> RequestIds]

Mind == [shadow : TurnState, remaining : 0 .. Rounds, next : 0 .. AskCycle - 1]

FreshMind == [shadow |-> Idle, remaining |-> Rounds, next |-> 0]

Asks(party, m) == party = "countdown" /\ m.remaining > 0

(* on_turn's answer: none to a turn its shadow refuses or that asks        *)
(* nothing.                                                                *)
StockReply(party, m, t) ==
    IF ~CanReceive(m.shadow, t) \/ t.req = None THEN None
    ELSE IF Asks(party, m) THEN Continue(t.req, AskId[m.next])
    ELSE Close(t.req)

(* on_turn's effect: the shadow takes the turn and, with it, the answer. *)
StockMind(party, m, t) ==
    IF ~CanReceive(m.shadow, t) THEN m
    ELSE IF t.req = None THEN [m EXCEPT !.shadow = AfterReceive(t)]
    ELSE IF Asks(party, m)
         THEN [shadow    |-> AfterSend(StockReply(party, m, t)),
               remaining |-> m.remaining - 1,
               next      |-> (m.next + 1) % AskCycle]
         ELSE [m EXCEPT !.shadow = AfterSend(StockReply(party, m, t))]

\* Defective variant: the party does not hear of failures.
DeafMind(m) == m

(* on_exchange_failed *)
FailedMind(m) == [m EXCEPT !.shadow = Fail(m.shadow)]

=============================================================================
