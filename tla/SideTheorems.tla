---------------------------- MODULE SideTheorems ----------------------------
(***************************************************************************)
(* What the operators of ConversationSide preserve and return, for any ids *)
(* and any patience: the lemmas that the proofs about Phone and            *)
(* LocalRuntime rest on.                                                   *)
(***************************************************************************)
EXTENDS ConversationSide, ProtocolTheorems

-----------------------------------------------------------------------------
(* A side of a conversation *)

LEMMA QuietType == Quiet \in Side
  BY DEF Quiet, Side, Idle, TurnState

(* Each operation yields a side again, and does to its fields what it says. *)
LEMMA WalkedSide ==
    ASSUME NEW c \in Side, NEW s \in TurnState
    PROVE  /\ Walked(c, s) \in Side
           /\ Walked(c, s).state = s
           /\ Walked(c, s).ack = c.ack
           /\ Walked(c, s).turn = c.turn
  BY DEF Walked, Side

LEMMA SettledSide ==
    ASSUME NEW c \in Side
    PROVE  /\ Settled(c) \in Side
           /\ Settled(c).state = c.state
           /\ ~Waiting(Settled(c))
  BY DEF Settled, Side, Waiting

LEMMA ArmedSide ==
    ASSUME NEW c \in Side, NEW t \in Turn
    PROVE  /\ Armed(c, t) \in Side
           /\ Armed(c, t).state = c.state
           /\ t.kind = "Close" => ~Waiting(Armed(c, t))
           /\ t.kind # "Close" => /\ Armed(c, t).turn = TurnPatience
                                  /\ Armed(c, t).turn # None
                                  /\ Armed(c, t).ack.id = t.req
  <1>1. /\ TurnPatience \in Int /\ AckPatience \in Int
        /\ TurnPatience # None
    BY PatienceIsFinite, NoneIsNoWait
  <1>2. CASE t.kind = "Close"
    BY <1>2, TurnHalves DEF Armed, Side, Waiting
  <1>3. CASE t.kind # "Close"
    <2>1. t.req \in RequestIds /\ t.req # None
      BY <1>3, TurnHalves, NoneIsNoId
    <2>2. [id |-> t.req, left |-> AckPatience] \in AckWait
      BY <1>1, <2>1 DEF AckWait
    <2>3. QED
      BY <1>1, <1>3, <2>1, <2>2 DEF Armed, Side
  <1>4. QED
    BY <1>2, <1>3

(* What sending a turn leaves fits the move: both waits, or none.          *)
LEMMA SentSide ==
    ASSUME NEW c \in Side, NEW t \in Turn
    PROVE  /\ Sent(c, t) \in Side
           /\ Sent(c, t).state = AfterSend(t)
           /\ WaitsFit(Sent(c, t))
  <1>1. PICK w \in Side : w = Walked(c, AfterSend(t)) /\ w.state = AfterSend(t)
    BY AfterSendMove, WalkedSide
  <1>2. Armed(w, t) \in Side /\ Armed(w, t).state = AfterSend(t)
    BY <1>1, ArmedSide
  <1>3. CASE t.kind = "Close"
    <2>1. ~Waiting(Armed(w, t))
      BY <1>3, ArmedSide
    <2>2. ~Awaiting(AfterSend(t))
      BY <1>3, AfterSendMove DEF Idle, Awaiting
    <2>3. QED
      BY <1>1, <1>2, <2>1, <2>2 DEF Sent, WaitsFit, AckFitsRequest, WaitsFitMove, Waiting
  <1>4. CASE t.kind # "Close"
    <2>1. /\ Armed(w, t).turn # None
          /\ Armed(w, t).ack.id = t.req
      BY <1>4, ArmedSide
    <2>2. Awaiting(AfterSend(t)) /\ AfterSend(t) = AwaitingTheirTurn(t.req)
      BY <1>4, AfterSendMove
    <2>3. QED
      BY <1>1, <1>2, <2>1, <2>2 DEF Sent, WaitsFit, AckFitsRequest, WaitsFitMove
  <1>5. QED
    BY <1>3, <1>4

(* A legal incoming turn leaves nothing to wait for.                       *)
LEMMA ReceivedSide ==
    ASSUME NEW c \in Side, NEW t \in Turn
    PROVE  /\ Received(c, t) \in Side
           /\ Received(c, t).state = AfterReceive(t)
           /\ ~Waiting(Received(c, t))
           /\ WaitsFit(Received(c, t))
  <1>1. /\ Walked(c, AfterReceive(t)) \in Side
        /\ Walked(c, AfterReceive(t)).state = AfterReceive(t)
    BY AfterReceiveMove, WalkedSide
  <1>2. /\ Received(c, t) \in Side
        /\ Received(c, t).state = AfterReceive(t)
        /\ ~Waiting(Received(c, t))
    BY <1>1, SettledSide DEF Received
  <1>3. QED
    BY <1>2, AfterReceiveMove DEF WaitsFit, AckFitsRequest, WaitsFitMove, Waiting

(* A verdict leaves nothing live, and nothing to wait for.                 *)
LEMMA BrokenSide ==
    ASSUME NEW c \in Side
    PROVE  /\ Broken(c) \in Side
           /\ Broken(c).state = Fail(c.state)
           /\ ~Live(Broken(c).state)
           /\ ~Waiting(Broken(c))
           /\ WaitsFit(Broken(c))
  <1>1. c.state \in TurnState
    BY DEF Side
  <1>2. /\ Walked(c, Fail(c.state)) \in Side
        /\ Walked(c, Fail(c.state)).state = Fail(c.state)
    BY <1>1, FailMove, WalkedSide
  <1>3. /\ Broken(c) \in Side
        /\ Broken(c).state = Fail(c.state)
        /\ ~Waiting(Broken(c))
    BY <1>2, SettledSide DEF Broken
  <1>4. ~Live(Broken(c).state)
    BY <1>1, <1>3, FailMove
  <1>5. QED
    BY <1>3, <1>4 DEF WaitsFit, AckFitsRequest, WaitsFitMove, Waiting, Live

(* A receipt settles the ack wait at most.                                 *)
LEMMA AckedSide ==
    ASSUME NEW c \in Side, NEW id
    PROVE  /\ Acked(c, id) \in Side
           /\ Acked(c, id).state = c.state
           /\ Acked(c, id).turn = c.turn
           /\ Acked(c, id).ack \in {c.ack, None}
  BY DEF Acked, Side

(* Time passing changes neither the move nor which waits are armed.        *)
LEMMA AgedSide ==
    ASSUME NEW c \in Side
    PROVE  /\ Aged(c) \in Side
           /\ Aged(c).state = c.state
           /\ Aged(c).turn = None <=> c.turn = None
           /\ Aged(c).ack = None <=> c.ack = None
           /\ c.ack # None => Aged(c).ack.id = c.ack.id
  <1>1. c.turn # None => c.turn - 1 \in Int /\ c.turn - 1 # None
    BY NoneIsNoWait DEF Side
  <1>2. c.ack # None =>
          /\ [c.ack EXCEPT !.left = c.ack.left - 1] \in AckWait
          /\ [c.ack EXCEPT !.left = c.ack.left - 1].id = c.ack.id
    BY DEF Side, AckWait
  <1>3. c.ack # None => [c.ack EXCEPT !.left = c.ack.left - 1] # None
    BY <1>2, NoneIsNoWait
  <1>4. QED
    BY <1>1, <1>2, <1>3 DEF Aged, Side

(* So acks and time keep waits that fit the move fitting it.               *)
LEMMA AckedFits ==
    ASSUME NEW c \in Side, NEW id
    PROVE  /\ AckFitsRequest(c) => AckFitsRequest(Acked(c, id))
           /\ WaitsFitMove(c) => WaitsFitMove(Acked(c, id))
  BY AckedSide DEF AckFitsRequest, WaitsFitMove

LEMMA AgedFits ==
    ASSUME NEW c \in Side
    PROVE  /\ AckFitsRequest(c) => AckFitsRequest(Aged(c))
           /\ WaitsFitMove(c) => WaitsFitMove(Aged(c))
  BY AgedSide DEF AckFitsRequest, WaitsFitMove

=============================================================================
