---------------------------- MODULE PhoneProofs ----------------------------
(***************************************************************************)
(* Phone keeps its waits fitting its move, returns every failure and       *)
(* implements Exchange's safety half, for any ids, patience and endpoints. *)
(*                                                                         *)
(* PhoneWaitsFit is not inductive: it speaks of a phone at rest only, and  *)
(* what SendAccepted arms depends on where BeginSend put the machine and   *)
(* on there being no older wait.  PhoneInv adds that, and what abandoned   *)
(* remembers of a dropped send.                                            *)
(***************************************************************************)
EXTENDS Phone, SideTheorems

-----------------------------------------------------------------------------
(* A pending send finds the machine where its turn put it, no wait armed.  *)
InFlightInv ==
    sending # None => /\ ~Waiting(phone)
                      /\ phone.state = AfterSend(sending)
                      /\ ~abandoned

(* At rest the waits fit the move, a dropped send's excepted.              *)
AtRestInv ==
    /\ AckFitsRequest(phone)
    /\ phone.turn # None => Awaiting(phone.state)
    /\ sending = None /\ Awaiting(phone.state) => phone.turn # None \/ abandoned

(* abandoned is about an exchange that is still waited for.                *)
AbandonedInv == abandoned => Awaiting(phone.state) /\ ~Waiting(phone)

PhoneInv == PhoneTypeOK /\ InFlightInv /\ AtRestInv /\ AbandonedInv

-----------------------------------------------------------------------------
(* Each action keeps PhoneInv; so does Next, and so does stuttering.       *)

LEMMA InitInv == Init => PhoneInv
  <1> SUFFICES ASSUME Init PROVE PhoneInv
    OBVIOUS
  <1>1. /\ phone \in Side
        /\ ~Awaiting(phone.state) /\ phone.ack = None /\ phone.turn = None
    BY QuietType DEF Init, Quiet, Awaiting, Idle
  <1>2. sending = None /\ told = None /\ abandoned = FALSE
    BY DEF Init
  <1>3. PhoneTypeOK
    BY <1>1, <1>2 DEF PhoneTypeOK
  <1>4. InFlightInv /\ AtRestInv /\ AbandonedInv
    BY <1>1, <1>2 DEF InFlightInv, AtRestInv, AbandonedInv, AckFitsRequest
  <1>5. QED
    BY <1>3, <1>4 DEF PhoneInv

(* CanSend refuses whoever waits for the peer, so there is no wait armed.  *)
LEMMA BeginSendInv ==
    ASSUME PhoneInv, NEW t \in Turn, BeginSend(t)
    PROVE  PhoneInv'
  <1>1. /\ phone \in Side /\ phone.state \in TurnState
        /\ t # None
    BY NoneIsNoTurn DEF PhoneInv, PhoneTypeOK, Side
  <1>2. ~Awaiting(phone.state)
    BY <1>1, StateKinds
       DEF BeginSend, CanSend, Opens, Idle, Failed, Awaiting, Owing
  <1>3. ~Waiting(phone) /\ ~abandoned
    BY <1>2 DEF PhoneInv, AtRestInv, AbandonedInv, AckFitsRequest, Waiting
  <1>4. /\ phone' \in Side
        /\ phone'.state = AfterSend(t)
        /\ phone'.ack = None /\ phone'.turn = None
    BY <1>1, <1>3, AfterSendMove, WalkedSide DEF BeginSend, Waiting
  <1>5. sending' = t /\ told' = None /\ abandoned' = abandoned
    BY DEF BeginSend
  <1>6. PhoneTypeOK'
    BY <1>4, <1>5 DEF PhoneInv, PhoneTypeOK
  <1>7. InFlightInv' /\ AtRestInv' /\ AbandonedInv'
    BY <1>1, <1>3, <1>4, <1>5
       DEF InFlightInv, AtRestInv, AbandonedInv, AckFitsRequest, Waiting
  <1>8. QED
    BY <1>6, <1>7 DEF PhoneInv

(* Arming what the pending turn asks for is as if it had been sent at once. *)
LEMMA SendAcceptedInv ==
    ASSUME PhoneInv, SendAccepted
    PROVE  PhoneInv'
  <1>1. /\ phone \in Side /\ sending \in Turn
        /\ phone.state = AfterSend(sending) /\ ~abandoned
    BY DEF PhoneInv, PhoneTypeOK, InFlightInv, SendAccepted
  <1>2. Walked(phone, AfterSend(sending)) = phone
    BY <1>1 DEF Walked, Side
  <1>3. phone' = Sent(phone, sending)
    BY <1>2 DEF SendAccepted, Sent
  <1>4. phone' \in Side /\ WaitsFit(phone)'
    BY <1>1, <1>3, SentSide
  <1>5. sending' = None /\ told' = None /\ abandoned' = abandoned
    BY DEF SendAccepted
  <1>6. PhoneTypeOK'
    BY <1>4, <1>5 DEF PhoneInv, PhoneTypeOK
  <1>7. InFlightInv' /\ AtRestInv' /\ AbandonedInv'
    BY <1>1, <1>4, <1>5
       DEF InFlightInv, AtRestInv, AbandonedInv, WaitsFit, WaitsFitMove
  <1>8. QED
    BY <1>6, <1>7 DEF PhoneInv

(* Whatever leaves no wait and nobody's answer owed, with no send pending, *)
(* leaves nothing to fit: a verdict, or a legal turn of the peer's.        *)
LEMMA RestedInv ==
    ASSUME PhoneInv,
           phone' \in Side, ~Waiting(phone)', ~Awaiting(phone.state)',
           sending' = None, told' \in Causes \cup {None}, abandoned' = FALSE
    PROVE  PhoneInv'
  BY DEF PhoneInv, PhoneTypeOK, InFlightInv, AtRestInv, AbandonedInv,
         AckFitsRequest, Waiting

LEMMA BrokenInv ==
    ASSUME PhoneInv, phone' = Broken(phone),
           sending' = None, told' \in Causes \cup {None}, abandoned' = FALSE
    PROVE  PhoneInv'
  <1>1. phone' \in Side /\ ~Waiting(phone)' /\ ~Live(phone.state)'
    BY BrokenSide DEF PhoneInv, PhoneTypeOK
  <1>2. QED
    BY <1>1, RestedInv DEF Live

LEMMA SendRefusedInv ==
    ASSUME PhoneInv, SendRefused
    PROVE  PhoneInv'
  <1>1. abandoned' = FALSE
    BY DEF PhoneInv, PhoneTypeOK, InFlightInv, SendRefused
  <1>2. QED
    BY <1>1, BrokenInv DEF SendRefused, Causes

(* A dropped send arms nothing; abandoned says so.                         *)
LEMMA SendAbandonedInv ==
    ASSUME PhoneInv, SendAbandoned
    PROVE  PhoneInv'
  BY DEF PhoneInv, PhoneTypeOK, InFlightInv, AtRestInv, AbandonedInv,
         SendAbandoned, Awaiting, Waiting, AckFitsRequest

LEMMA OnIncomingInv ==
    ASSUME PhoneInv, NEW t \in Turn, OnIncoming(t)
    PROVE  PhoneInv'
  <1>1. /\ phone' \in Side
        /\ phone'.state = AfterReceive(t)
        /\ ~Waiting(phone)'
    BY ReceivedSide DEF PhoneInv, PhoneTypeOK, OnIncoming
  <1>2. ~Awaiting(phone.state)'
    BY <1>1, AfterReceiveMove
  <1>3. QED
    BY <1>1, <1>2, RestedInv DEF OnIncoming, Unborrowed

LEMMA NoteAckInv ==
    ASSUME PhoneInv, NEW id \in RequestIds, NoteAck(id)
    PROVE  PhoneInv'
  <1>1. /\ phone' \in Side
        /\ phone'.state = phone.state
        /\ phone'.turn = phone.turn
        /\ phone'.ack \in {phone.ack, None}
        /\ AckFitsRequest(phone)'
    BY AckedSide, AckedFits DEF PhoneInv, PhoneTypeOK, AtRestInv, NoteAck
  <1>2. sending' = None /\ sending = None /\ told' = None /\ abandoned' = abandoned
    BY DEF NoteAck, Unborrowed
  <1>3. PhoneTypeOK' /\ InFlightInv'
    BY <1>1, <1>2 DEF PhoneInv, PhoneTypeOK, InFlightInv
  <1>4. AtRestInv' /\ AbandonedInv'
    BY <1>1, <1>2 DEF PhoneInv, AtRestInv, AbandonedInv, Waiting
  <1>5. QED
    BY <1>3, <1>4 DEF PhoneInv

LEMMA OnDeadlineElapsedInv ==
    ASSUME PhoneInv, OnDeadlineElapsed
    PROVE  PhoneInv'
  <1>1. abandoned' = FALSE
    BY DEF PhoneInv, PhoneTypeOK, AbandonedInv, OnDeadlineElapsed, Overdue
  <1>2. told' \in Causes
    BY DEF OnDeadlineElapsed, DueKind, Causes
  <1>3. QED
    BY <1>1, <1>2, BrokenInv DEF OnDeadlineElapsed, Unborrowed

LEMMA FailedByEvidenceInv ==
    ASSUME PhoneInv, NEW e \in Endpoints, OnPeerDeath(e) \/ OnRevoked(e)
    PROVE  PhoneInv'
  <1>1. PICK cause \in Causes : FailedByEvidence(e, cause)
    BY DEF OnPeerDeath, OnRevoked, Causes
  <1>2. QED
    BY <1>1, BrokenInv DEF FailedByEvidence, Unborrowed

LEMMA TickInv ==
    ASSUME PhoneInv, Tick
    PROVE  PhoneInv'
  <1>1. /\ phone' \in Side
        /\ phone'.state = phone.state
        /\ phone'.turn = None <=> phone.turn = None
        /\ AckFitsRequest(phone)'
    BY AgedSide, AgedFits DEF PhoneInv, PhoneTypeOK, AtRestInv, Tick
  <1>2. /\ sending' = sending /\ told' = None /\ abandoned' = abandoned
        /\ sending = None /\ ~abandoned
    BY DEF PhoneInv, InFlightInv, AbandonedInv, Tick
  <1>3. PhoneTypeOK' /\ InFlightInv' /\ AbandonedInv'
    BY <1>1, <1>2 DEF PhoneInv, PhoneTypeOK, InFlightInv, AbandonedInv
  <1>4. AtRestInv'
    BY <1>1, <1>2 DEF PhoneInv, AtRestInv
  <1>5. QED
    BY <1>3, <1>4 DEF PhoneInv

LEMMA NextInv == PhoneInv /\ [Next]_vars => PhoneInv'
  <1> SUFFICES ASSUME PhoneInv, [Next]_vars
               PROVE  PhoneInv'
    OBVIOUS
  <1>1. CASE \E t \in Turn : BeginSend(t) \/ OnIncoming(t)
    BY <1>1, BeginSendInv, OnIncomingInv
  <1>2. CASE SendAccepted \/ SendRefused \/ SendAbandoned
    BY <1>2, SendAcceptedInv, SendRefusedInv, SendAbandonedInv
  <1>3. CASE \E id \in RequestIds : NoteAck(id)
    BY <1>3, NoteAckInv
  <1>4. CASE OnDeadlineElapsed
    BY <1>4, OnDeadlineElapsedInv
  <1>5. CASE \E e \in Endpoints : OnPeerDeath(e) \/ OnRevoked(e)
    BY <1>5, FailedByEvidenceInv
  <1>6. CASE Tick
    BY <1>6, TickInv
  <1>7. CASE UNCHANGED vars
    BY <1>7 DEF vars, PhoneInv, PhoneTypeOK, InFlightInv, AtRestInv, AbandonedInv,
                AckFitsRequest, Waiting
  <1>8. QED
    BY <1>1, <1>2, <1>3, <1>4, <1>5, <1>6, <1>7 DEF Next

THEOREM PhoneInvariant == SafeSpec => []PhoneInv
  <1>1. Init => PhoneInv
    BY InitInv
  <1>2. PhoneInv /\ [Next]_vars => PhoneInv'
    BY NextInv
  <1>3. QED
    BY <1>1, <1>2, PTL DEF SafeSpec

-----------------------------------------------------------------------------
(* Type correctness: for every phone, whatever is fed to it, the machine   *)
(* and its waits are what phone.rs declares them to be.                    *)
THEOREM PhoneTypeCorrect == SafeSpec => []PhoneTypeOK
  <1>1. PhoneInv => PhoneTypeOK
    BY DEF PhoneInv
  <1>2. QED
    BY <1>1, PhoneInvariant, PTL

(* No phone at rest waits without a deadline, or keeps a deadline for what *)
(* is over - except after a dropped send_turn.                             *)
THEOREM PhoneWaitsAlwaysFit == SafeSpec => []PhoneWaitsFit
  <1>1. PhoneInv => PhoneWaitsFit
    BY DEF PhoneInv, AtRestInv, PhoneWaitsFit, WaitsFitMove
  <1>2. QED
    BY <1>1, PhoneInvariant, PTL

(* However send_turn's await ends, there is no older wait to leave behind. *)
THEOREM NoOlderWaitInFlight == SafeSpec => []SendHasNoOlderWait
  <1>1. PhoneInv => SendHasNoOlderWait
    BY DEF PhoneInv, InFlightInv, SendHasNoOlderWait
  <1>2. QED
    BY <1>1, PhoneInvariant, PTL

-----------------------------------------------------------------------------
(* What a phone promises: Move and its steps.                              *)

LEMMA MoveNow ==
    /\ phone.state = Idle    => Move = "nobody"
    /\ phone.state = Failed  => Move = "dead"
    /\ Owing(phone.state)    => Move = "ours"
    /\ Awaiting(phone.state) => Move = "theirs"
  BY DEF Move, Idle, Failed, Owing, Awaiting

LEMMA MoveNext ==
    /\ phone'.state = Idle    => Move' = "nobody"
    /\ phone'.state = Failed  => Move' = "dead"
    /\ Owing(phone'.state)    => Move' = "ours"
    /\ Awaiting(phone'.state) => Move' = "theirs"
  BY DEF Move, Idle, Failed, Owing, Awaiting

(* Where the machine stands still, so does the move.                       *)
LEMMA MoveStays ==
    ASSUME phone'.state = phone.state
    PROVE  Move' = Move
  BY DEF Move, Owing, Awaiting

LEMMA BrokenMove ==
    ASSUME PhoneInv, phone' = Broken(phone)
    PROVE  Promise!Die \/ Move' = Move
  <1>1. phone.state \in TurnState /\ phone'.state = Fail(phone.state)
    BY BrokenSide DEF PhoneInv, PhoneTypeOK, Side
  <1>2. CASE ~Live(phone.state)
    BY <1>1, <1>2, FailMove, MoveStays
  <1>3. CASE Live(phone.state)
    <2>1. Move' = "dead"
      BY <1>1, <1>3, FailMove, MoveNext
    <2>2. Move \in {"ours", "theirs"}
      BY <1>3, MoveNow DEF Live
    <2>3. QED
      BY <2>1, <2>2 DEF Promise!Die
  <1>4. QED
    BY <1>2, <1>3

(* Sending: an Open begins, a Continue alternates, a Close concludes.      *)
LEMMA BeginSendMove ==
    ASSUME PhoneInv, NEW t \in Turn, BeginSend(t)
    PROVE  Promise!Begin \/ Promise!Alternate \/ Promise!Conclude
  <1>1. phone \in Side /\ CanSend(phone.state, t)
    BY DEF PhoneInv, PhoneTypeOK, BeginSend
  <1>2. phone'.state = AfterSend(t)
    BY <1>1, AfterSendMove, WalkedSide DEF BeginSend
  <1>3. t.kind = "Close" => Move' = "nobody"
    BY <1>2, AfterSendMove, MoveNext
  <1>4. t.kind # "Close" => Move' = "theirs"
    BY <1>2, AfterSendMove, MoveNext
  <1>5. CASE Opens(phone.state, t)
    <2>1. Move \in {"nobody", "dead"}
      <3>1. phone.state \in TurnState /\ phone.state.st \in {"Idle", "Failed"}
        BY <1>1, <1>5 DEF Opens, Side
      <3>2. QED
        BY <3>1, StateKinds, MoveNow
    <2>2. Move' = "theirs"
      BY <1>4, <1>5 DEF Opens
    <2>3. QED
      BY <2>1, <2>2 DEF Promise!Begin
  <1>6. CASE Owing(phone.state) /\ Answers(phone.state, t)
    <2>1. Move = "ours"
      BY <1>6, MoveNow
    <2>2. QED
      BY <1>3, <1>4, <2>1 DEF Promise!Alternate, Promise!Conclude
  <1>7. QED
    BY <1>1, <1>5, <1>6 DEF CanSend

(* And receiving, from the other side.                                     *)
LEMMA OnIncomingMove ==
    ASSUME PhoneInv, NEW t \in Turn, OnIncoming(t)
    PROVE  Promise!Begin \/ Promise!Alternate \/ Promise!Conclude
  <1>1. phone \in Side /\ CanReceive(phone.state, t)
    BY DEF PhoneInv, PhoneTypeOK, OnIncoming
  <1>2. phone'.state = AfterReceive(t)
    BY <1>1, ReceivedSide DEF OnIncoming
  <1>3. t.kind = "Close" => Move' = "nobody"
    BY <1>2, AfterReceiveMove, MoveNext
  <1>4. t.kind # "Close" => Move' = "ours"
    BY <1>2, AfterReceiveMove, MoveNext
  <1>5. CASE Opens(phone.state, t)
    <2>1. Move \in {"nobody", "dead"}
      <3>1. phone.state \in TurnState /\ phone.state.st \in {"Idle", "Failed"}
        BY <1>1, <1>5 DEF Opens, Side
      <3>2. QED
        BY <3>1, StateKinds, MoveNow
    <2>2. Move' = "ours"
      BY <1>4, <1>5 DEF Opens
    <2>3. QED
      BY <2>1, <2>2 DEF Promise!Begin
  <1>6. CASE Awaiting(phone.state) /\ Answers(phone.state, t)
    <2>1. Move = "theirs"
      BY <1>6, MoveNow
    <2>2. QED
      BY <1>3, <1>4, <2>1 DEF Promise!Alternate, Promise!Conclude
  <1>7. QED
    BY <1>1, <1>5, <1>6 DEF CanReceive

LEMMA StepPromised == PhoneInv /\ [Next]_vars => Promise!Next \/ Move' = Move
  <1> SUFFICES ASSUME PhoneInv, [Next]_vars
               PROVE  Promise!Next \/ Move' = Move
    OBVIOUS
  <1> USE DEF Promise!Next
  <1>1. CASE \E t \in Turn : BeginSend(t) \/ OnIncoming(t)
    BY <1>1, BeginSendMove, OnIncomingMove
  <1>2. CASE SendAccepted
    <2>1. phone'.state = phone.state
      BY <1>2, ArmedSide DEF PhoneInv, PhoneTypeOK, SendAccepted
    <2>2. QED
      BY <2>1, MoveStays
  <1>3. CASE SendRefused
    BY <1>3, BrokenMove DEF SendRefused
  <1>4. CASE SendAbandoned
    BY <1>4, MoveStays DEF SendAbandoned
  <1>5. CASE \E id \in RequestIds : NoteAck(id)
    <2>1. phone'.state = phone.state
      BY <1>5, AckedSide DEF PhoneInv, PhoneTypeOK, NoteAck
    <2>2. QED
      BY <2>1, MoveStays
  <1>6. CASE OnDeadlineElapsed
    BY <1>6, BrokenMove DEF OnDeadlineElapsed
  <1>7. CASE \E e \in Endpoints : OnPeerDeath(e) \/ OnRevoked(e)
    BY <1>7, BrokenMove DEF OnPeerDeath, OnRevoked, FailedByEvidence
  <1>8. CASE Tick
    <2>1. phone'.state = phone.state
      BY <1>8, AgedSide DEF PhoneInv, PhoneTypeOK, Tick
    <2>2. QED
      BY <2>1, MoveStays
  <1>9. CASE UNCHANGED vars
    BY <1>9, MoveStays DEF vars
  <1>10. QED
    BY <1>1, <1>2, <1>3, <1>4, <1>5, <1>6, <1>7, <1>8, <1>9 DEF Next

(* Every phone implements Exchange: its exchanges alternate strictly, and  *)
(* one that is over or dead is only ever followed by a new one.            *)
THEOREM PhoneImplementsExchange == SafeSpec => ImplementsExchange
  <1>1. Init => Promise!Init
    BY MoveNow DEF Init, Quiet, Promise!Init
  <1>2. PhoneInv /\ [Next]_vars => [Promise!Next]_Move
    BY StepPromised
  <1>3. QED
    BY <1>1, <1>2, PhoneInvariant, PTL
       DEF SafeSpec, ImplementsExchange, Promise!SafeSpec

-----------------------------------------------------------------------------
(* Failures                                                                *)

(* What FailureIsReturned says of one step.                                *)
Told ==
    /\ Live(phone.state) /\ phone'.state = Failed => told' # None
    /\ told' # None => ~Live(phone'.state) /\ ~Waiting(phone')

LEMMA BrokenTold ==
    ASSUME PhoneInv, phone' = Broken(phone), told' \in Causes
    PROVE  Told
  BY BrokenSide, NoneIsNoCause DEF PhoneInv, PhoneTypeOK, Told

(* A call that returns no failure did not let the exchange die.            *)
LEMMA UntoldTold ==
    ASSUME told' = None, phone'.state.st # "Failed"
    PROVE  Told
  BY DEF Told, Failed

LEMMA SameStateTold ==
    ASSUME told' = None, phone'.state = phone.state
    PROVE  Told
  BY DEF Told, Failed, Live, Awaiting, Owing

LEMMA StepTold == PhoneInv /\ Next => Told
  <1> SUFFICES ASSUME PhoneInv, Next
               PROVE  Told
    OBVIOUS
  <1> USE DEF PhoneInv, PhoneTypeOK
  <1>1. CASE \E t \in Turn : BeginSend(t) \/ OnIncoming(t)
    <2>1. ASSUME NEW t \in Turn, BeginSend(t)
          PROVE  Told
      <3>1. phone'.state = AfterSend(t) /\ told' = None
        BY <2>1, AfterSendMove, WalkedSide DEF BeginSend
      <3>2. QED
        BY <3>1, AfterSendMove, UntoldTold
    <2>2. ASSUME NEW t \in Turn, OnIncoming(t)
          PROVE  Told
      <3>1. phone'.state = AfterReceive(t) /\ told' = None
        BY <2>2, ReceivedSide DEF OnIncoming
      <3>2. QED
        BY <3>1, AfterReceiveMove, UntoldTold
    <2>3. QED
      BY <1>1, <2>1, <2>2
  <1>2. CASE SendAccepted
    BY <1>2, ArmedSide, SameStateTold DEF SendAccepted
  <1>3. CASE SendRefused
    BY <1>3, BrokenTold DEF SendRefused, Causes
  <1>4. CASE SendAbandoned
    BY <1>4, SameStateTold DEF SendAbandoned
  <1>5. CASE \E id \in RequestIds : NoteAck(id)
    BY <1>5, AckedSide, SameStateTold DEF NoteAck
  <1>6. CASE OnDeadlineElapsed
    BY <1>6, BrokenTold DEF OnDeadlineElapsed, DueKind, Causes
  <1>7. CASE \E e \in Endpoints : OnPeerDeath(e) \/ OnRevoked(e)
    BY <1>7, BrokenTold DEF OnPeerDeath, OnRevoked, FailedByEvidence, Causes
  <1>8. CASE Tick
    BY <1>8, AgedSide, SameStateTold DEF Tick
  <1>9. QED
    BY <1>1, <1>2, <1>3, <1>4, <1>5, <1>6, <1>7, <1>8 DEF Next

(* No phone lets its exchange die silently, and none that reports a        *)
(* failure leaves anything live or armed.                                  *)
THEOREM PhoneReturnsFailures == SafeSpec => FailureIsReturned
  <1>1. PhoneInv /\ [Next]_vars => [Told]_vars
    BY StepTold
  <1>2. QED
    BY <1>1, PhoneInvariant, PTL DEF SafeSpec, FailureIsReturned, Told

=============================================================================
