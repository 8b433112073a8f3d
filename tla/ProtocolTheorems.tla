-------------------------- MODULE ProtocolTheorems --------------------------
(***************************************************************************)
(* What the pure modules return, for any ids and counts: the moves of the  *)
(* turn machine, on which the proofs about every side of a conversation    *)
(* rest, and the answers and shadows of the stock parties, on which those  *)
(* about both runtimes do.  (To the phone's proofs the constants of        *)
(* Parties are of no use, and they cite nothing about them.)               *)
(***************************************************************************)
EXTENDS Parties, TLAPS

-----------------------------------------------------------------------------
(* The turn machine *)

(* Every state is of exactly one of four kinds, told apart by its tag, and *)
(* an exchange under way has an outstanding request.                       *)
LEMMA StateKinds ==
    ASSUME NEW s \in TurnState
    PROVE  /\ s.st \in {"Idle", "Failed", "AwaitingTheirTurn", "OweThem"}
           /\ s.st = "Idle" <=> s = Idle
           /\ s.st = "Failed" <=> s = Failed
           /\ Awaiting(s) => s.out \in RequestIds /\ s = AwaitingTheirTurn(s.out)
           /\ Owing(s) => s.out \in RequestIds /\ s = OweThem(s.out)
  BY DEF TurnState, Idle, Failed, Awaiting, Owing, AwaitingTheirTurn, OweThem

(* A turn carries a request half exactly when it does not close.           *)
LEMMA TurnHalves ==
    ASSUME NEW t \in Turn
    PROVE  /\ t.kind = "Close" <=> t.req = None
           /\ t.kind # "Close" <=> t.req \in RequestIds
  BY NoneIsNoId DEF Turn

(* Sending leaves the machine waiting for the peer or, after a Close, Idle. *)
LEMMA AfterSendMove ==
    ASSUME NEW t \in Turn
    PROVE  /\ AfterSend(t) \in TurnState
           /\ t.kind = "Close" => AfterSend(t) = Idle
           /\ t.kind # "Close" => /\ AfterSend(t) = AwaitingTheirTurn(t.req)
                                  /\ Awaiting(AfterSend(t))
           /\ ~Owing(AfterSend(t))
           /\ AfterSend(t).st # "Failed"
  BY TurnHalves
     DEF AfterSend, TurnState, Idle, Awaiting, Owing, AwaitingTheirTurn

(* Receiving leaves it owing an answer or, after a Close, Idle.            *)
LEMMA AfterReceiveMove ==
    ASSUME NEW t \in Turn
    PROVE  /\ AfterReceive(t) \in TurnState
           /\ t.kind = "Close" => AfterReceive(t) = Idle
           /\ t.kind # "Close" => Owing(AfterReceive(t))
           /\ ~Awaiting(AfterReceive(t))
           /\ AfterReceive(t).st # "Failed"
  BY TurnHalves
     DEF AfterReceive, TurnState, Idle, Awaiting, Owing, OweThem

(* fail() kills what is live and nothing else.                             *)
LEMMA FailMove ==
    ASSUME NEW s \in TurnState
    PROVE  /\ Fail(s) \in TurnState
           /\ ~Live(Fail(s))
           /\ Live(s) => Fail(s) = Failed
           /\ ~Live(s) => Fail(s) = s
  BY DEF Fail, Live, Awaiting, Owing, Failed, TurnState

-----------------------------------------------------------------------------
(* The stock parties *)

LEMMA FreshMindType == FreshMind \in Mind
  BY CountIsNat DEF FreshMind, Mind, Idle, TurnState

LEMMA FailedMindType ==
    ASSUME NEW m \in Mind
    PROVE  FailedMind(m) \in Mind /\ FailedMind(m).shadow = Fail(m.shadow)
  BY FailMove DEF FailedMind, Mind

(* What a stock party answers is a turn that answers the request posed,    *)
(* and it answers every turn that its shadow accepts and that poses one.   *)
LEMMA StockReplyType ==
    ASSUME NEW party, NEW m \in Mind, NEW t \in Turn
    PROVE  /\ StockReply(party, m, t) \in Turn \cup {None}
           /\ ~CanReceive(m.shadow, t) \/ t.req = None => StockReply(party, m, t) = None
           /\ CanReceive(m.shadow, t) /\ t.req # None =>
                 /\ StockReply(party, m, t) \in Turn
                 /\ StockReply(party, m, t).kind \in {"Continue", "Close"}
                 /\ StockReply(party, m, t).rsp = t.req
  <1>1. ~CanReceive(m.shadow, t) \/ t.req = None => StockReply(party, m, t) = None
    BY DEF StockReply
  <1>2. ASSUME CanReceive(m.shadow, t), t.req # None
        PROVE  /\ StockReply(party, m, t) \in Turn
               /\ StockReply(party, m, t).kind \in {"Continue", "Close"}
               /\ StockReply(party, m, t).rsp = t.req
    <2>1. t.req \in RequestIds /\ AskId[m.next] \in RequestIds
      BY <1>2, TurnHalves, AsksUnderIds DEF Mind
    <2>2. StockReply(party, m, t) \in {Continue(t.req, AskId[m.next]), Close(t.req)}
      BY <1>2 DEF StockReply
    <2>3. QED
      BY <2>1, <2>2 DEF Turn, Continue, Close
  <1>3. QED
    BY <1>1, <1>2

(* Its shadow takes the turn and then the answer.                          *)
LEMMA StockMindType ==
    ASSUME NEW party, NEW m \in Mind, NEW t \in Turn
    PROVE  /\ StockMind(party, m, t) \in Mind
           /\ CanReceive(m.shadow, t) /\ t.req = None =>
                 StockMind(party, m, t).shadow = AfterReceive(t)
           /\ CanReceive(m.shadow, t) /\ t.req # None =>
                 StockMind(party, m, t).shadow = AfterSend(StockReply(party, m, t))
  <1>1. CASE ~CanReceive(m.shadow, t)
    BY <1>1 DEF StockMind
  <1>2. CASE CanReceive(m.shadow, t) /\ t.req = None
    BY <1>2, AfterReceiveMove DEF StockMind, Mind
  <1>3. CASE CanReceive(m.shadow, t) /\ t.req # None
    <2>1. AfterSend(StockReply(party, m, t)) \in TurnState
      BY <1>3, StockReplyType, AfterSendMove
    <2>2. CASE ~Asks(party, m)
      BY <1>3, <2>1, <2>2 DEF StockMind, Mind
    <2>3. CASE Asks(party, m)
      <3>1. m.remaining - 1 \in 0 .. Rounds
        BY <2>3, CountIsNat DEF Asks, Mind
      <3>2. (m.next + 1) % AskCycle \in 0 .. AskCycle - 1
        BY CountIsNat DEF Mind
      <3>3. QED
        BY <1>3, <2>1, <2>3, <3>1, <3>2 DEF StockMind, Mind
    <2>4. QED
      BY <2>2, <2>3
  <1>4. QED
    BY <1>1, <1>2, <1>3

=============================================================================
