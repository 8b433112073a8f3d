------------------------- MODULE LocalRuntimeProofs -------------------------
(***************************************************************************)
(* LocalRuntime keeps its safety properties for any names, peers,          *)
(* endpoints, ids, patiences and setups.                                   *)
(*                                                                         *)
(* RuntimeInv is inductive.  Beyond the properties the runs check it says  *)
(* where a stock party leaves the machine (it never owes between two       *)
(* steps), and that whatever is live at an endpoint known dead was live    *)
(* when that death was reported.                                           *)
(***************************************************************************)
EXTENDS LocalRuntime, SideTheorems

StockOwesNothing ==
    \A n \in Names, p \in Peers : Stock(n) => ~Owing(conv[n][p].state)

DeadAreMourned ==
    \A n \in Names, p \in Peers :
        Live(conv[n][p].state) /\ EndpointOf[p] \in dead => p \in mourned[n]

RuntimeInv ==
    /\ RuntimeTypeOK
    /\ RuntimeWaitsFit
    /\ LivePeersAreAdmitted
    /\ ShadowsAgree
    /\ StockOwesNothing
    /\ DeadAreMourned

-----------------------------------------------------------------------------
(* Steps that move no machine: only waits, guest lists and tombstones may  *)
(* change, guest lists growing and tombstones lifted.                      *)
LEMMA StandingStill ==
    ASSUME RuntimeInv,
           actor' \in [Names -> Setup \cup {None}],
           \A n \in Names : Up(n) => /\ actor'[n] # None
                                    /\ actor'[n].party = actor[n].party
                                    /\ actor[n].allow \subseteq actor'[n].allow,
           \A n \in Names : ~Up(n) => actor'[n] = None,
           conv' \in [Names -> [Peers -> Side]],
           \A n \in Names, p \in Peers : /\ conv'[n][p].state = conv[n][p].state
                                        /\ WaitsFit(conv'[n][p]),
           mind' = mind,
           dead' \subseteq dead,
           events' \subseteq Event,
           mourned' = mourned
    PROVE  RuntimeInv'
  <1>1. RuntimeTypeOK'
    BY DEF RuntimeInv, RuntimeTypeOK
  <1>2. RuntimeWaitsFit'
    BY DEF RuntimeWaitsFit
  <1>3. ASSUME NEW n \in Names, NEW p \in Peers
        PROVE  /\ Live(conv[n][p].state)' = Live(conv[n][p].state)
               /\ Owing(conv[n][p].state)' = Owing(conv[n][p].state)
    BY DEF Live, Owing, Awaiting
  <1>4. LivePeersAreAdmitted'
    BY <1>3 DEF RuntimeInv, LivePeersAreAdmitted, Up, Admitted
  <1>5. ShadowsAgree' /\ StockOwesNothing'
    BY <1>3 DEF RuntimeInv, ShadowsAgree, StockOwesNothing, Stock, Up
  <1>6. DeadAreMourned'
    BY <1>3 DEF RuntimeInv, DeadAreMourned
  <1>7. QED
    BY <1>1, <1>2, <1>4, <1>5, <1>6 DEF RuntimeInv

LEMMA AdmitInv ==
    ASSUME RuntimeInv, NEW n \in Names, NEW e \in Endpoints, Admit(n, e)
    PROVE  RuntimeInv'
  <1>1. actor[n] \in Setup
    BY DEF RuntimeInv, RuntimeTypeOK, Admit, Up
  <1>2. actor' = [actor EXCEPT ![n] = [actor[n] EXCEPT !.allow = actor[n].allow \cup {e}]]
    BY DEF Admit
  <1>3. /\ [actor[n] EXCEPT !.allow = actor[n].allow \cup {e}] \in Setup
        /\ [actor[n] EXCEPT !.allow = actor[n].allow \cup {e}].party = actor[n].party
        /\ actor[n].allow \subseteq [actor[n] EXCEPT !.allow = actor[n].allow \cup {e}].allow
    BY <1>1 DEF Setup
  <1>4. /\ actor' \in [Names -> Setup \cup {None}]
        /\ \A m \in Names : Up(m) => /\ actor'[m] # None
                                    /\ actor'[m].party = actor[m].party
                                    /\ actor[m].allow \subseteq actor'[m].allow
        /\ \A m \in Names : ~Up(m) => actor'[m] = None
    BY <1>1, <1>2, <1>3, NoneIsNoSetup DEF RuntimeInv, RuntimeTypeOK, Up
  <1>5. QED
    BY <1>4, StandingStill
       DEF Admit, RuntimeInv, RuntimeTypeOK, RuntimeWaitsFit

LEMMA QuietDeliveryInv ==
    ASSUME RuntimeInv, NEW n \in Names, NEW p \in Peers,
           Deny(n, p) \/ TakeInert(n, p) \/ \E t \in Turn : DropIllegalTurn(n, p, t)
    PROVE  RuntimeInv'
  <1>1. /\ actor' = actor /\ conv' = conv /\ mind' = mind
        /\ mourned' = mourned /\ dead' \subseteq dead
    BY DEF Deny, TakeInert, DropIllegalTurn, HeardFrom
  <1>2. events' \subseteq Event
    <2>1. ASSUME NEW t \in Turn, DropIllegalTurn(n, p, t)
          PROVE  events' \subseteq Event
      <3>1. conv[n][p].state \in TurnState
        BY DEF RuntimeInv, RuntimeTypeOK, Side
      <3>2. ReceiveError(conv[n][p].state, t) \in TurnErrors
        BY <3>1, StateKinds DEF ReceiveError, TurnErrors, Awaiting, Owing
      <3>3. QED
        BY <2>1, <3>2 DEF DropIllegalTurn, IllegalTurnDropped, Event
    <2>2. Deny(n, p) \/ TakeInert(n, p) => events' \subseteq Event
      BY DEF Deny, TakeInert, DeliveryDenied, Event
    <2>3. QED
      BY <2>1, <2>2
  <1>3. QED
    BY <1>1, <1>2, StandingStill DEF RuntimeInv, RuntimeTypeOK, RuntimeWaitsFit, Up

LEMMA TakeAckInv ==
    ASSUME RuntimeInv, NEW n \in Names, NEW p \in Peers, NEW id \in RequestIds,
           TakeAck(n, p, id)
    PROVE  RuntimeInv'
  <1>1. conv[n][p] \in Side /\ WaitsFit(conv[n][p])
    BY DEF RuntimeInv, RuntimeTypeOK, RuntimeWaitsFit
  <1>2. /\ Acked(conv[n][p], id) \in Side
        /\ Acked(conv[n][p], id).state = conv[n][p].state
        /\ WaitsFit(Acked(conv[n][p], id))
    BY <1>1, AckedSide, AckedFits DEF WaitsFit
  <1>3. conv' = [conv EXCEPT ![n] = [conv[n] EXCEPT ![p] = Acked(conv[n][p], id)]]
    BY DEF TakeAck
  <1>4. /\ conv' \in [Names -> [Peers -> Side]]
        /\ \A m \in Names, q \in Peers : /\ conv'[m][q].state = conv[m][q].state
                                       /\ WaitsFit(conv'[m][q])
    BY <1>2, <1>3 DEF RuntimeInv, RuntimeTypeOK, RuntimeWaitsFit
  <1>5. QED
    BY <1>4, StandingStill DEF TakeAck, HeardFrom, RuntimeInv, RuntimeTypeOK, Up

LEMMA TickInv ==
    ASSUME RuntimeInv, Tick
    PROVE  RuntimeInv'
  <1>1. ASSUME NEW n \in Names, NEW p \in Peers
        PROVE  /\ conv'[n][p] = Aged(conv[n][p])
               /\ conv'[n][p] \in Side
               /\ conv'[n][p].state = conv[n][p].state
               /\ WaitsFit(conv'[n][p])
    <2>1. conv[n][p] \in Side /\ WaitsFit(conv[n][p])
      BY DEF RuntimeInv, RuntimeTypeOK, RuntimeWaitsFit
    <2>2. conv'[n][p] = Aged(conv[n][p])
      BY DEF Tick
    <2>3. QED
      BY <2>1, <2>2, AgedSide, AgedFits DEF WaitsFit
  <1>2. conv' \in [Names -> [Peers -> Side]]
    BY <1>1 DEF Tick
  <1>3. QED
    BY <1>1, <1>2, StandingStill DEF Tick, RuntimeInv, RuntimeTypeOK, Up

-----------------------------------------------------------------------------
(* Installing and stopping: conversations start, or are forgotten, Quiet.  *)
LEMMA SettleInv ==
    ASSUME RuntimeInv, NEW n \in Names, NEW setup \in Setup \cup {None},
           Settle(n, setup), dead' \subseteq dead
    PROVE  RuntimeInv'
  <1>1. /\ Quiet \in Side /\ FreshMind \in Mind
        /\ Quiet.state = Idle /\ WaitsFit(Quiet) /\ FreshMind.shadow = Idle
        /\ ~Live(Idle) /\ ~Owing(Idle)
    BY QuietType, FreshMindType
       DEF Quiet, FreshMind, WaitsFit, AckFitsRequest, WaitsFitMove, Idle,
           Live, Awaiting, Owing
  <1>2. ASSUME NEW m \in Names, NEW p \in Peers
        PROVE  IF m = n
               THEN actor'[m] = setup /\ conv'[m][p] = Quiet /\ mind'[m][p] = FreshMind
               ELSE /\ actor'[m] = actor[m] /\ conv'[m] = conv[m]
                    /\ mind'[m] = mind[m] /\ mourned'[m] = mourned[m]
    BY DEF Settle, RuntimeInv, RuntimeTypeOK, NoConversations, NoMemories
  <1>3. RuntimeTypeOK'
    <2>1. NoConversations \in [Peers -> Side] /\ NoMemories \in [Peers -> Mind]
      BY <1>1 DEF NoConversations, NoMemories
    <2>2. QED
      BY <2>1 DEF Settle, RuntimeInv, RuntimeTypeOK
  <1>4. RuntimeWaitsFit'
    BY <1>1, <1>2 DEF RuntimeInv, RuntimeWaitsFit
  <1>5. LivePeersAreAdmitted'
    BY <1>1, <1>2 DEF RuntimeInv, LivePeersAreAdmitted, Up, Admitted
  <1>6. ShadowsAgree' /\ StockOwesNothing'
    BY <1>1, <1>2 DEF RuntimeInv, ShadowsAgree, StockOwesNothing, Stock, Up
  <1>7. DeadAreMourned'
    BY <1>1, <1>2 DEF RuntimeInv, DeadAreMourned
  <1>8. QED
    BY <1>3, <1>4, <1>5, <1>6, <1>7 DEF RuntimeInv

-----------------------------------------------------------------------------
(* Failing exchanges: what fail_exchange does to the peers it is called    *)
(* for, and to nobody else.                                                *)
OnlyBroken(n, ps) ==
    \A m \in Names, p \in Peers :
        IF m = n /\ p \in ps
        THEN /\ conv'[m][p] = Broken(conv[m][p])
             /\ mind'[m][p] = IF Stock(m) THEN FailedMind(mind[m][p]) ELSE mind[m][p]
        ELSE conv'[m][p] = conv[m][p] /\ mind'[m][p] = mind[m][p]

LEMMA FailExchangesEffect ==
    ASSUME RuntimeTypeOK, NEW n \in Names, NEW ps \in SUBSET Peers,
           NEW cause \in FailureCauses, FailExchanges(n, ps, cause)
    PROVE  /\ conv' \in [Names -> [Peers -> Side]]
           /\ mind' \in [Names -> [Peers -> Mind]]
           /\ events' \subseteq Event
           /\ OnlyBroken(n, ps)
  <1>1. BrokenAll(conv[n], ps) \in [Peers -> Side]
    BY BrokenSide DEF BrokenAll, RuntimeTypeOK
  <1>2. FailedMinds(n, mind[n], ps) \in [Peers -> Mind]
    BY FailedMindType DEF FailedMinds, RuntimeTypeOK
  <1>3. events' \subseteq Event
    BY DEF FailExchanges, ExchangeFailed, Event
  <1>4. /\ conv' = [conv EXCEPT ![n] = BrokenAll(conv[n], ps)]
        /\ mind' = [mind EXCEPT ![n] = FailedMinds(n, mind[n], ps)]
    BY DEF FailExchanges
  <1>5. /\ conv' \in [Names -> [Peers -> Side]]
        /\ mind' \in [Names -> [Peers -> Mind]]
    BY <1>1, <1>2, <1>4 DEF RuntimeTypeOK
  <1>6. OnlyBroken(n, ps)
    BY <1>4 DEF RuntimeTypeOK, OnlyBroken, BrokenAll, FailedMinds
  <1>7. QED
    BY <1>3, <1>5, <1>6

(* Exchanges only die: the invariant is kept if the guest lists lose only  *)
(* endpoints with nothing left alive, and new tombstones are mourned.      *)
LEMMA FailExchangesInv ==
    ASSUME RuntimeInv, NEW n \in Names, NEW ps \in SUBSET Peers,
           NEW cause \in FailureCauses, FailExchanges(n, ps, cause),
           actor' \in [Names -> Setup \cup {None}],
           \A m \in Names : Up(m) <=> actor'[m] # None,
           \A m \in Names : Up(m) => actor'[m].party = actor[m].party,
           \A m \in Names, p \in Peers :
               Admitted(m, p) /\ ~(m = n /\ p \in ps) /\ Live(conv[m][p].state)
                   => Admitted(m, p)',
           dead' \subseteq Endpoints,
           mourned' \in [Names -> SUBSET Peers],
           \A m \in Names, p \in Peers :
               p \in mourned[m] => p \in mourned'[m],
           \A m \in Names, p \in Peers :
               Live(conv[m][p].state) /\ EndpointOf[p] \in dead' \ dead => p \in mourned'[m]
    PROVE  RuntimeInv'
  <1>0. RuntimeTypeOK
    BY DEF RuntimeInv
  <1>1. /\ conv' \in [Names -> [Peers -> Side]]
        /\ mind' \in [Names -> [Peers -> Mind]]
        /\ events' \subseteq Event
        /\ OnlyBroken(n, ps)
    BY <1>0, FailExchangesEffect
  <1> USE DEF RuntimeInv
  <1>2. RuntimeTypeOK'
    BY <1>1 DEF RuntimeTypeOK
  <1>3. ASSUME NEW m \in Names, NEW p \in Peers, m = n /\ p \in ps
        PROVE  /\ conv'[m][p].state = Fail(conv[m][p].state)
               /\ ~Live(conv'[m][p].state)
               /\ WaitsFit(conv'[m][p])
    BY <1>1, <1>3, BrokenSide DEF RuntimeTypeOK, OnlyBroken
  <1>4. RuntimeWaitsFit'
    BY <1>1, <1>3 DEF RuntimeWaitsFit, OnlyBroken
  <1>5. LivePeersAreAdmitted'
    <2>1. ASSUME NEW m \in Names, NEW p \in Peers, Live(conv'[m][p].state)
          PROVE  Up(m)' /\ Admitted(m, p)'
      <3>1. ~(m = n /\ p \in ps)
        BY <1>3, <2>1
      <3>2. Live(conv[m][p].state)
        BY <1>1, <2>1, <3>1 DEF OnlyBroken
      <3>3. QED
        BY <3>1, <3>2 DEF LivePeersAreAdmitted, Up
    <2>2. QED
      BY <2>1 DEF LivePeersAreAdmitted
  <1>6. ASSUME NEW m \in Names, NEW p \in Peers, Stock(m)'
        PROVE  /\ mind'[m][p].shadow = conv'[m][p].state
               /\ ~Owing(conv'[m][p].state)
    <2>1. Stock(m)
      BY <1>6 DEF Stock, Up
    <2>2. /\ mind[m][p] \in Mind
          /\ mind[m][p].shadow = conv[m][p].state
          /\ ~Owing(conv[m][p].state)
      BY <2>1 DEF RuntimeTypeOK, ShadowsAgree, StockOwesNothing
    <2>3. QED
      BY <1>1, <1>3, <2>1, <2>2, FailedMindType DEF Live, OnlyBroken
  <1>7. ShadowsAgree' /\ StockOwesNothing'
    BY <1>6 DEF ShadowsAgree, StockOwesNothing
  <1>8. DeadAreMourned'
    <2>1. ASSUME NEW m \in Names, NEW p \in Peers,
                 Live(conv'[m][p].state), EndpointOf[p] \in dead'
          PROVE  p \in mourned'[m]
      <3>1. Live(conv[m][p].state)
        BY <1>1, <1>3, <2>1 DEF OnlyBroken
      <3>2. QED
        BY <2>1, <3>1 DEF DeadAreMourned
    <2>2. QED
      BY <2>1 DEF DeadAreMourned
  <1>9. QED
    BY <1>2, <1>4, <1>5, <1>7, <1>8

LEMMA RevokeInv ==
    ASSUME RuntimeInv, NEW n \in Names, NEW e \in Endpoints, Revoke(n, e)
    PROVE  RuntimeInv'
  <1>1. actor[n] \in Setup /\ Up(n)
    BY DEF RuntimeInv, RuntimeTypeOK, Revoke, Up
  <1>2. actor' = [actor EXCEPT ![n] = [actor[n] EXCEPT !.allow = actor[n].allow \ {e}]]
    BY DEF Revoke
  <1>3. /\ [actor[n] EXCEPT !.allow = actor[n].allow \ {e}] \in Setup
        /\ [actor[n] EXCEPT !.allow = actor[n].allow \ {e}].party = actor[n].party
        /\ [actor[n] EXCEPT !.allow = actor[n].allow \ {e}].allow = actor[n].allow \ {e}
    BY <1>1 DEF Setup
  <1>4. /\ actor' \in [Names -> Setup \cup {None}]
        /\ \A m \in Names : Up(m) <=> actor'[m] # None
        /\ \A m \in Names : Up(m) => actor'[m].party = actor[m].party
    BY <1>1, <1>2, <1>3, NoneIsNoSetup DEF RuntimeInv, RuntimeTypeOK, Up
  <1>5. ASSUME NEW m \in Names, NEW p \in Peers,
               Admitted(m, p), ~(m = n /\ p \in LiveAt(n, e)), Live(conv[m][p].state)
        PROVE  Admitted(m, p)'
    <2>1. CASE m # n
      BY <1>2, <1>5, <2>1 DEF Admitted, RuntimeInv, RuntimeTypeOK
    <2>2. CASE m = n
      <3>1. EndpointOf[p] # e
        BY <1>5, <2>2 DEF LiveAt
      <3>2. QED
        BY <1>2, <1>3, <1>5, <2>2, <3>1 DEF Admitted, RuntimeInv, RuntimeTypeOK
    <2>3. QED
      BY <2>1, <2>2
  <1>6. /\ LiveAt(n, e) \in SUBSET Peers /\ "Revoked" \in FailureCauses
        /\ FailExchanges(n, LiveAt(n, e), "Revoked")
        /\ dead' = dead /\ mourned' = mourned
    BY DEF Revoke, LiveAt, FailureCauses
  <1>7. QED
    BY <1>4, <1>5, <1>6, FailExchangesInv DEF RuntimeInv, RuntimeTypeOK

LEMMA SweepDeadInv ==
    ASSUME RuntimeInv, NEW n \in Names, SweepDead(n)
    PROVE  RuntimeInv'
  <1>1. PICK p \in Doomed(n) : FailExchanges(n, LiveAt(n, EndpointOf[p]), "Disconnected")
    BY DEF SweepDead
  <1>2. /\ LiveAt(n, EndpointOf[p]) \in SUBSET Peers /\ "Disconnected" \in FailureCauses
        /\ actor' = actor /\ dead' = dead /\ mourned' = mourned
    BY DEF SweepDead, LiveAt, FailureCauses
  <1>3. QED
    BY <1>1, <1>2, FailExchangesInv DEF RuntimeInv, RuntimeTypeOK, Up, Admitted

LEMMA TakeDeathInv ==
    ASSUME RuntimeInv, NEW n \in Names, NEW e \in Endpoints, TakeDeath(n, e)
    PROVE  RuntimeInv'
  <1>1. /\ LiveAt(n, e) \in SUBSET Peers /\ "Disconnected" \in FailureCauses
        /\ FailExchanges(n, LiveAt(n, e), "Disconnected")
        /\ actor' = actor /\ dead' = dead \cup {e} /\ dead' \subseteq Endpoints
    BY DEF TakeDeath, LiveAt, FailureCauses, RuntimeInv, RuntimeTypeOK
  <1>2. mourned' = [m \in Names |-> mourned[m] \cup LiveAt(m, e)]
    BY DEF TakeDeath
  <1>3. /\ mourned' \in [Names -> SUBSET Peers]
        /\ \A m \in Names, p \in Peers : p \in mourned[m] => p \in mourned'[m]
    BY <1>2 DEF LiveAt, RuntimeInv, RuntimeTypeOK
  <1>4. \A m \in Names, p \in Peers :
            Live(conv[m][p].state) /\ EndpointOf[p] \in dead' \ dead => p \in mourned'[m]
    BY <1>1, <1>2 DEF LiveAt
  <1>5. QED
    BY <1>1, <1>3, <1>4, FailExchangesInv DEF RuntimeInv, RuntimeTypeOK, Up, Admitted

LEMMA TakeDeadlineInv ==
    ASSUME RuntimeInv, NEW n \in Names, TakeDeadline(n)
    PROVE  RuntimeInv'
  <1>1. PICK p \in Peers : FailExchanges(n, {p}, DueKind(conv[n][p]))
    BY DEF TakeDeadline
  <1>2. /\ {p} \in SUBSET Peers /\ DueKind(conv[n][p]) \in FailureCauses
        /\ actor' = actor /\ dead' = dead /\ mourned' = mourned
    BY DEF TakeDeadline, DueKind, FailureCauses, DeadlineCauses
  <1>3. QED
    BY <1>1, <1>2, FailExchangesInv DEF RuntimeInv, RuntimeTypeOK, Up, Admitted

-----------------------------------------------------------------------------
(* A turn and its answer *)

LEMMA VerdictType ==
    ASSUME NEW c, NEW reply \in Turn \cup {None}, NEW ok \in BOOLEAN
    PROVE  /\ ReplyVerdict(c, reply, ok) \in FailureCauses \cup {None}
           /\ ReplyVerdict(c, reply, ok) = None <=>
                 reply = None \/ (CanSend(c.state, reply) /\ ok)
  BY NoneIsNoVerdict DEF ReplyVerdict, FailureCauses

(* The three ways an answer ends: none was given, it went out, or it is    *)
(* the verdict on the exchange.                                            *)
LEMMA RepliedSide ==
    ASSUME NEW c \in Side, WaitsFit(c), NEW reply \in Turn \cup {None}, NEW ok \in BOOLEAN
    PROVE  /\ Replied(c, reply, ok) \in Side
           /\ WaitsFit(Replied(c, reply, ok))
           /\ reply = None => Replied(c, reply, ok) = c
           /\ reply # None /\ CanSend(c.state, reply) /\ ok =>
                 Replied(c, reply, ok).state = AfterSend(reply)
           /\ reply # None /\ CanSend(c.state, reply) /\ ~ok =>
                 Replied(c, reply, ok).state = Fail(AfterSend(reply))
           /\ ReplyVerdict(c, reply, ok) # None =>
                 /\ ~Live(Replied(c, reply, ok).state)
                 /\ ~Waiting(Replied(c, reply, ok))
  <1>1. CASE reply = None
    BY <1>1, VerdictType DEF Replied
  <1>2. CASE reply # None /\ ~CanSend(c.state, reply)
    BY <1>2, BrokenSide DEF Replied
  <1>3. CASE reply # None /\ CanSend(c.state, reply) /\ ok
    <2>1. /\ Sent(c, reply) \in Side /\ WaitsFit(Sent(c, reply))
          /\ Sent(c, reply).state = AfterSend(reply)
      BY <1>3, SentSide
    <2>2. Replied(c, reply, ok) = Sent(c, reply) /\ ReplyVerdict(c, reply, ok) = None
      BY <1>3, VerdictType DEF Replied
    <2>3. QED
      BY <1>3, <2>1, <2>2
  <1>4. CASE reply # None /\ CanSend(c.state, reply) /\ ~ok
    <2>1. Sent(c, reply) \in Side /\ Sent(c, reply).state = AfterSend(reply)
      BY <1>4, SentSide
    <2>2. Replied(c, reply, ok) = Broken(Sent(c, reply))
      BY <1>4 DEF Replied
    <2>3. QED
      BY <1>4, <2>1, <2>2, BrokenSide
  <1>5. QED
    BY <1>1, <1>2, <1>3, <1>4

(* What a stock party and the runtime make of the same turn: the machine   *)
(* and its shadow end up in the same place, and nothing is owed.           *)
LEMMA ShadowWalk ==
    ASSUME NEW party, NEW m \in Mind, NEW c \in Side, NEW t \in Turn, NEW ok \in BOOLEAN,
           m.shadow = c.state, CanReceive(c.state, t)
    PROVE  LET r       == Received(c, t)
               reply   == StockReply(party, m, t)
               verdict == ReplyVerdict(r, reply, ok)
               after   == StockMind(party, m, t)
           IN /\ verdict = None => after.shadow = Replied(r, reply, ok).state
              /\ verdict # None => Fail(after.shadow) = Replied(r, reply, ok).state
              /\ ~Owing(Replied(r, reply, ok).state)
  <1> DEFINE r == Received(c, t)
             reply == StockReply(party, m, t)
             verdict == ReplyVerdict(r, reply, ok)
             after == StockMind(party, m, t)
  <1>1. r \in Side /\ r.state = AfterReceive(t) /\ WaitsFit(r)
    BY ReceivedSide
  <1>2. reply \in Turn \cup {None}
    BY StockReplyType
  <1>3. CASE t.req = None
    <2>1. reply = None /\ after.shadow = AfterReceive(t)
      BY <1>3, StockReplyType, StockMindType
    <2>2. verdict = None /\ Replied(r, reply, ok) = r
      BY <1>2, <2>1, VerdictType DEF Replied
    <2>3. ~Owing(AfterReceive(t))
      BY <1>3, TurnHalves, AfterReceiveMove DEF Idle, Owing
    <2>4. QED
      BY <1>1, <2>1, <2>2, <2>3
  <1>4. CASE t.req # None
    <2>1. /\ reply \in Turn /\ reply # None
          /\ reply.kind \in {"Continue", "Close"} /\ reply.rsp = t.req
          /\ after.shadow = AfterSend(reply)
      BY <1>4, StockReplyType, StockMindType, NoneIsNoSetup
    <2>2. CanSend(r.state, reply)
      <3>1. r.state = OweThem(t.req)
        BY <1>1, <1>4, TurnHalves DEF AfterReceive
      <3>2. QED
        BY <2>1, <3>1 DEF CanSend, Answers, Owing, OweThem
    <2>3. ~Owing(AfterSend(reply)) /\ AfterSend(reply) \in TurnState
      BY <2>1, AfterSendMove
    <2>4. CASE ok
      <3>1. verdict = None /\ Replied(r, reply, ok).state = AfterSend(reply)
        BY <1>1, <1>2, <2>1, <2>2, <2>4, VerdictType, RepliedSide
      <3>2. QED
        BY <2>1, <2>3, <3>1
    <2>5. CASE ~ok
      <3>1. verdict # None /\ Replied(r, reply, ok).state = Fail(AfterSend(reply))
        BY <1>1, <1>2, <2>1, <2>2, <2>5, VerdictType, RepliedSide
      <3>2. ~Owing(Fail(AfterSend(reply)))
        BY <2>3, FailMove DEF Live
      <3>3. QED
        BY <2>1, <3>1, <3>2
    <2>6. QED
      BY <2>4, <2>5
  <1>5. QED
    BY <1>3, <1>4

LEMMA TakeTurnInv ==
    ASSUME RuntimeInv, NEW n \in Names, NEW p \in Peers, NEW t \in Turn,
           NEW reply \in Turn \cup {None}, NEW ok \in BOOLEAN,
           TakeTurn(n, p, t, reply, ok)
    PROVE  RuntimeInv'
  <1> DEFINE c       == Received(conv[n][p], t)
             verdict == ReplyVerdict(c, reply, ok)
             m       == IF Stock(n) THEN StockMind(actor[n].party, mind[n][p], t)
                                    ELSE mind[n][p]
             m2      == IF verdict # None /\ Stock(n) THEN FailedMind(m) ELSE m
             side    == Replied(c, reply, ok)
  <1>1. /\ Up(n) /\ Admitted(n, p)
        /\ CanReceive(conv[n][p].state, t)
        /\ reply \in Replies(n, p, t)
        /\ dead' = dead \ {EndpointOf[p]}
        /\ conv' = [conv EXCEPT ![n] = [conv[n] EXCEPT ![p] = side]]
        /\ mind' = [mind EXCEPT ![n] = [mind[n] EXCEPT ![p] = m2]]
        /\ events' = IF verdict = None THEN {} ELSE {ExchangeFailed(n, p, verdict)}
        /\ mourned' = [mourned EXCEPT ![n] = IF BeginsAnew(t, reply) THEN @ \ {p} ELSE @]
        /\ actor' = actor
    BY DEF TakeTurn, Ready, HeardFrom
  <1>2. /\ conv[n][p] \in Side /\ mind[n][p] \in Mind
        /\ mourned[n] \subseteq Peers
    BY DEF RuntimeInv, RuntimeTypeOK
  <1>3. c \in Side /\ WaitsFit(c)
    BY <1>2, ReceivedSide
  <1>4. side \in Side /\ WaitsFit(side)
    BY <1>3, RepliedSide
  <1>5. m2 \in Mind
    <2>1. m \in Mind
      BY <1>2, StockMindType
    <2>2. QED
      BY <2>1, FailedMindType
  <1>6. Stock(n) => m2.shadow = side.state /\ ~Owing(side.state)
    <2>1. SUFFICES ASSUME Stock(n)
                   PROVE  m2.shadow = side.state /\ ~Owing(side.state)
      OBVIOUS
    <2>2. mind[n][p].shadow = conv[n][p].state
      BY <2>1 DEF RuntimeInv, ShadowsAgree
    <2>3. reply = StockReply(actor[n].party, mind[n][p], t)
      BY <1>1, <2>1 DEF Replies, AnswersOf, Stock
    <2>4. m = StockMind(actor[n].party, mind[n][p], t) /\ m \in Mind
      BY <1>2, <2>1, StockMindType
    <2>5. /\ verdict = None => m.shadow = side.state
          /\ verdict # None => Fail(m.shadow) = side.state
          /\ ~Owing(side.state)
      BY <1>1, <1>2, <2>2, <2>3, <2>4, ShadowWalk
    <2>6. QED
      BY <2>1, <2>4, <2>5, FailedMindType
  <1>7. events' \subseteq Event
    <2>1. verdict \in FailureCauses \cup {None}
      BY VerdictType
    <2>2. QED
      BY <1>1, <2>1 DEF ExchangeFailed, Event
  <1> HIDE DEF c, verdict, m, m2, side
  <1>8. ASSUME NEW k \in Names, NEW q \in Peers
        PROVE  IF k = n /\ q = p
               THEN conv'[k][q] = side /\ mind'[k][q] = m2
               ELSE /\ conv'[k][q] = conv[k][q] /\ mind'[k][q] = mind[k][q]
                    /\ q \in mourned[k] => q \in mourned'[k]
    BY <1>1 DEF RuntimeInv, RuntimeTypeOK
  <1>9. RuntimeTypeOK'
    <2>1. /\ conv' \in [Names -> [Peers -> Side]]
          /\ mind' \in [Names -> [Peers -> Mind]]
          /\ mourned' \in [Names -> SUBSET Peers]
      BY <1>1, <1>2, <1>4, <1>5 DEF RuntimeInv, RuntimeTypeOK
    <2>2. QED
      BY <1>1, <1>7, <2>1 DEF RuntimeInv, RuntimeTypeOK
  <1>10. RuntimeWaitsFit'
    BY <1>4, <1>8 DEF RuntimeInv, RuntimeWaitsFit
  <1>11. LivePeersAreAdmitted'
    BY <1>1, <1>8 DEF RuntimeInv, LivePeersAreAdmitted, Up, Admitted
  <1>12. ShadowsAgree' /\ StockOwesNothing'
    BY <1>1, <1>6, <1>8 DEF RuntimeInv, ShadowsAgree, StockOwesNothing, Stock, Up
  <1>13. DeadAreMourned'
    BY <1>1, <1>8 DEF RuntimeInv, DeadAreMourned
  <1>14. QED
    BY <1>9, <1>10, <1>11, <1>12, <1>13 DEF RuntimeInv

-----------------------------------------------------------------------------
LEMMA InitInv == Init => RuntimeInv
  <1> SUFFICES ASSUME Init PROVE RuntimeInv
    OBVIOUS
  <1>1. /\ Quiet \in Side /\ FreshMind \in Mind /\ WaitsFit(Quiet)
        /\ ~Live(Quiet.state)
    BY QuietType, FreshMindType
       DEF Quiet, WaitsFit, AckFitsRequest, WaitsFitMove, Idle, Live, Awaiting, Owing
  <1>2. RuntimeTypeOK
    BY <1>1 DEF Init, RuntimeTypeOK, NoConversations, NoMemories
  <1>3. \A n \in Names, p \in Peers : conv[n][p] = Quiet /\ ~Up(n)
    BY DEF Init, NoConversations, Up
  <1>4. RuntimeWaitsFit /\ LivePeersAreAdmitted /\ DeadAreMourned
    BY <1>1, <1>3 DEF RuntimeWaitsFit, LivePeersAreAdmitted, DeadAreMourned
  <1>5. ShadowsAgree /\ StockOwesNothing
    BY <1>3 DEF ShadowsAgree, StockOwesNothing, Stock
  <1>6. QED
    BY <1>2, <1>4, <1>5 DEF RuntimeInv

LEMMA OperateInv ==
    ASSUME RuntimeInv, NEW n \in Names, Operate(n)
    PROVE  RuntimeInv'
  <1>1. ASSUME NEW s \in Setups[n], Install(n, s)
        PROVE  RuntimeInv'
    <2>1. s \in Setup
      BY SetupsAreSetups
    <2>2. QED
      BY <1>1, <2>1, SettleInv DEF Install
  <1>2. QED
    BY <1>1, AdmitInv, RevokeInv DEF Operate

LEMMA DeliverInv ==
    ASSUME RuntimeInv, NEW n \in Names, NEW p \in Peers, Deliver(n, p)
    PROVE  RuntimeInv'
  <1>1. ASSUME NEW m \in Names, Spawn(n, p, m)
        PROVE  RuntimeInv'
    <2>1. [kind |-> "Plain", party |-> "echo", allow |-> {EndpointOf[p]}] \in Setup
      BY PeersLiveAtEndpoints DEF Setup
    <2>2. QED
      BY <1>1, <2>1, SettleInv DEF Spawn, HeardFrom
  <1>2. ASSUME NEW m \in Names, Stop(n, p, m)
        PROVE  RuntimeInv'
    BY <1>2, SettleInv DEF Stop, HeardFrom
  <1>3. CASE Deny(n, p) \/ TakeInert(n, p) \/ \E t \in Turn : DropIllegalTurn(n, p, t)
    BY <1>3, QuietDeliveryInv
  <1>4. CASE \E id \in RequestIds : TakeAck(n, p, id)
    BY <1>4, TakeAckInv
  <1>5. CASE \E t \in Turn, reply \in Turn \cup {None}, ok \in BOOLEAN :
                TakeTurn(n, p, t, reply, ok)
    BY <1>5, TakeTurnInv
  <1>6. QED
    BY <1>1, <1>2, <1>3, <1>4, <1>5 DEF Deliver

LEMMA NextInv == RuntimeInv /\ [Next]_vars => RuntimeInv'
  <1> SUFFICES ASSUME RuntimeInv, [Next]_vars
               PROVE  RuntimeInv'
    OBVIOUS
  <1>1. CASE Tick
    BY <1>1, TickInv
  <1>2. ASSUME NEW n \in Names, Operate(n)
        PROVE  RuntimeInv'
    BY <1>2, OperateInv
  <1>3. ASSUME NEW n \in Names, Step(n)
        PROVE  RuntimeInv'
    BY <1>3, SweepDeadInv, TakeDeathInv, TakeDeadlineInv, DeliverInv DEF Step
  <1>4. CASE UNCHANGED vars
    BY <1>4, StandingStill DEF vars, RuntimeInv, RuntimeTypeOK, RuntimeWaitsFit, Up
  <1>5. QED
    BY <1>1, <1>2, <1>3, <1>4 DEF Next

THEOREM RuntimeInvariant == SafeSpec => []RuntimeInv
  <1>1. Init => RuntimeInv
    BY InitInv
  <1>2. RuntimeInv /\ [Next]_vars => RuntimeInv'
    BY NextInv
  <1>3. QED
    BY <1>1, <1>2, PTL DEF SafeSpec

(* Type correctness of the runtime's actors, conversations, parties and    *)
(* tombstones, whatever its peers, parties, transport and operator do.     *)
THEOREM RuntimeTypeCorrect == SafeSpec => []RuntimeTypeOK
  <1>1. RuntimeInv => RuntimeTypeOK
    BY DEF RuntimeInv
  <1>2. QED
    BY <1>1, RuntimeInvariant, PTL

(* No conversation waits for its peer without a deadline, none keeps one   *)
(* it has no use for.                                                      *)
THEOREM RuntimeWaitsAlwaysFit == SafeSpec => []RuntimeWaitsFit
  <1>1. RuntimeInv => RuntimeWaitsFit
    BY DEF RuntimeInv
  <1>2. QED
    BY <1>1, RuntimeInvariant, PTL

(* No exchange is ever live with an endpoint its actor does not admit.     *)
THEOREM OnlyAdmittedPeersLive == SafeSpec => []LivePeersAreAdmitted
  <1>1. RuntimeInv => LivePeersAreAdmitted
    BY DEF RuntimeInv
  <1>2. QED
    BY <1>1, RuntimeInvariant, PTL

(* A stock party's shadow never diverges from the runtime's machine.       *)
THEOREM ShadowsAlwaysAgree == SafeSpec => []ShadowsAgree
  <1>1. RuntimeInv => ShadowsAgree
    BY DEF RuntimeInv
  <1>2. QED
    BY <1>1, RuntimeInvariant, PTL

(* Behind a stock party every live exchange has a deadline running.        *)
THEOREM StockActorsHaveDeadlines == SafeSpec => []StockActorsNeverHang
  <1>1. RuntimeInv => StockActorsNeverHang
    BY DEF RuntimeInv, RuntimeWaitsFit, WaitsFit, WaitsFitMove,
           StockOwesNothing, StockActorsNeverHang, Live
  <1>2. QED
    BY <1>1, RuntimeInvariant, PTL

-----------------------------------------------------------------------------
(* Failures: what FailuresAreTold says of one conversation in one step.    *)
Told(n, p) ==
    /\ Live(conv[n][p].state) /\ conv'[n][p].state = Failed => FailureEvents(n, p)' # {}
    /\ FailureEvents(n, p)' # {} => ~Live(conv'[n][p].state) /\ ~Waiting(conv'[n][p])

(* Nothing failed, nothing told.                                           *)
LEMMA NothingToTell ==
    ASSUME NEW n \in Names, NEW p \in Peers,
           \A e \in events' : e.ev # "ExchangeFailed",
           conv'[n][p].state # Failed \/ conv'[n][p].state = conv[n][p].state
    PROVE  Told(n, p)
  BY DEF Told, FailureEvents, Live, Awaiting, Owing, Failed

(* fail_exchange tells of the peers it breaks, and of them only.           *)
LEMMA FailExchangesTold ==
    ASSUME RuntimeInv, NEW n \in Names, NEW ps \in SUBSET Peers,
           NEW cause \in FailureCauses, FailExchanges(n, ps, cause)
    PROVE  \A m \in Names, p \in Peers : Told(m, p)
  <1>0. RuntimeTypeOK
    BY DEF RuntimeInv
  <1>1. OnlyBroken(n, ps) /\ events' = {ExchangeFailed(n, p, cause) : p \in ps}
    BY <1>0, FailExchangesEffect DEF FailExchanges
  <1>2. ASSUME NEW m \in Names, NEW p \in Peers
        PROVE  Told(m, p)
    <2>1. CASE m = n /\ p \in ps
      <3>1. ~Live(conv'[m][p].state) /\ ~Waiting(conv'[m][p])
        BY <1>0, <1>1, <2>1, BrokenSide DEF OnlyBroken, RuntimeTypeOK
      <3>2. ExchangeFailed(m, p, cause) \in FailureEvents(m, p)'
        BY <1>1, <2>1 DEF FailureEvents, ExchangeFailed
      <3>3. QED
        BY <3>1, <3>2 DEF Told
    <2>2. CASE ~(m = n /\ p \in ps)
      <3>1. conv'[m][p] = conv[m][p]
        BY <1>1, <2>2 DEF OnlyBroken
      <3>2. FailureEvents(m, p)' = {}
        BY <1>1, <2>2 DEF FailureEvents, ExchangeFailed
      <3>3. QED
        BY <3>1, <3>2 DEF Told, Live, Awaiting, Owing, Failed
    <2>3. QED
      BY <2>1, <2>2
  <1>3. QED
    BY <1>2

LEMMA TakeTurnTold ==
    ASSUME RuntimeInv, NEW n \in Names, NEW p \in Peers, NEW t \in Turn,
           NEW reply \in Turn \cup {None}, NEW ok \in BOOLEAN,
           TakeTurn(n, p, t, reply, ok), NEW k \in Names, NEW q \in Peers
    PROVE  Told(k, q)
  <1> DEFINE c       == Received(conv[n][p], t)
             verdict == ReplyVerdict(c, reply, ok)
             side    == Replied(c, reply, ok)
  <1>1. /\ conv' = [conv EXCEPT ![n] = [conv[n] EXCEPT ![p] = side]]
        /\ events' = IF verdict = None THEN {} ELSE {ExchangeFailed(n, p, verdict)}
    BY DEF TakeTurn
  <1>2. c \in Side /\ WaitsFit(c) /\ c.state = AfterReceive(t)
    BY ReceivedSide DEF RuntimeInv, RuntimeTypeOK
  <1>3. verdict # None => ~Live(side.state) /\ ~Waiting(side)
    BY <1>2, RepliedSide
  <1>4. verdict = None => side.state # Failed
    <2>1. CASE reply = None
      BY <1>2, <2>1, RepliedSide, AfterReceiveMove DEF Failed
    <2>2. CASE reply # None
      BY <1>2, <2>2, RepliedSide, VerdictType, AfterSendMove DEF Failed
    <2>3. QED
      BY <2>1, <2>2
  <1> HIDE DEF c, verdict, side
  <1>5. CASE k = n /\ q = p
    <2>1. conv'[k][q] = side
      BY <1>1, <1>5 DEF RuntimeInv, RuntimeTypeOK
    <2>2. CASE verdict = None
      BY <1>1, <1>4, <2>1, <2>2, NothingToTell
    <2>3. CASE verdict # None
      <3>1. ExchangeFailed(k, q, verdict) \in FailureEvents(k, q)'
        BY <1>1, <1>5, <2>3 DEF FailureEvents, ExchangeFailed
      <3>2. QED
        BY <1>3, <2>1, <2>3, <3>1 DEF Told
    <2>4. QED
      BY <2>2, <2>3
  <1>6. CASE ~(k = n /\ q = p)
    <2>1. conv'[k][q] = conv[k][q]
      BY <1>1, <1>6 DEF RuntimeInv, RuntimeTypeOK
    <2>2. FailureEvents(k, q)' = {}
      BY <1>1, <1>6 DEF FailureEvents, ExchangeFailed
    <2>3. QED
      BY <2>1, <2>2 DEF Told, Live, Awaiting, Owing, Failed
  <1>7. QED
    BY <1>5, <1>6

LEMMA SettleTold ==
    ASSUME RuntimeInv, NEW n \in Names, NEW setup, Settle(n, setup),
           NEW k \in Names, NEW q \in Peers
    PROVE  Told(k, q)
  <1>1. conv'[k][q] = conv[k][q] \/ conv'[k][q] = Quiet
    BY DEF Settle, NoConversations, RuntimeInv, RuntimeTypeOK
  <1>2. Quiet.state # Failed /\ events' = {}
    BY DEF Settle, Quiet, Idle, Failed
  <1>3. QED
    BY <1>1, <1>2, NothingToTell

LEMMA StepTold == RuntimeInv /\ Next => \A k \in Names, q \in Peers : Told(k, q)
  <1> SUFFICES ASSUME RuntimeInv, Next, NEW k \in Names, NEW q \in Peers
               PROVE  Told(k, q)
    OBVIOUS
  <1>1. CASE Tick
    <2>1. conv[k][q] \in Side /\ conv'[k][q] = Aged(conv[k][q]) /\ events' = {}
      BY <1>1 DEF Tick, RuntimeInv, RuntimeTypeOK
    <2>2. QED
      BY <2>1, AgedSide, NothingToTell
  <1>2. ASSUME NEW n \in Names, Operate(n)
        PROVE  Told(k, q)
    <2>1. CASE \E s \in Setups[n] : Install(n, s)
      BY <2>1, SettleTold DEF Install
    <2>2. CASE \E e \in Endpoints : Admit(n, e)
      BY <2>2, NothingToTell DEF Admit
    <2>3. ASSUME NEW e \in Endpoints, Revoke(n, e)
          PROVE  Told(k, q)
      <3>1. /\ LiveAt(n, e) \in SUBSET Peers /\ "Revoked" \in FailureCauses
            /\ FailExchanges(n, LiveAt(n, e), "Revoked")
        BY <2>3 DEF Revoke, LiveAt, FailureCauses
      <3>2. QED
        BY <3>1, FailExchangesTold
    <2>4. QED
      BY <1>2, <2>1, <2>2, <2>3 DEF Operate
  <1>3. ASSUME NEW n \in Names, SweepDead(n)
        PROVE  Told(k, q)
    <2>1. PICK p \in Doomed(n) : FailExchanges(n, LiveAt(n, EndpointOf[p]), "Disconnected")
      BY <1>3 DEF SweepDead
    <2>2. LiveAt(n, EndpointOf[p]) \in SUBSET Peers /\ "Disconnected" \in FailureCauses
      BY DEF LiveAt, FailureCauses
    <2>3. QED
      BY <2>1, <2>2, FailExchangesTold
  <1>4. ASSUME NEW n \in Names, NEW e \in Endpoints, TakeDeath(n, e)
        PROVE  Told(k, q)
    <2>1. /\ LiveAt(n, e) \in SUBSET Peers /\ "Disconnected" \in FailureCauses
          /\ FailExchanges(n, LiveAt(n, e), "Disconnected")
      BY <1>4 DEF TakeDeath, LiveAt, FailureCauses
    <2>2. QED
      BY <2>1, FailExchangesTold
  <1>5. ASSUME NEW n \in Names, TakeDeadline(n)
        PROVE  Told(k, q)
    <2>1. PICK p \in Peers : FailExchanges(n, {p}, DueKind(conv[n][p]))
      BY <1>5 DEF TakeDeadline
    <2>2. {p} \in SUBSET Peers /\ DueKind(conv[n][p]) \in FailureCauses
      BY DEF DueKind, FailureCauses, DeadlineCauses
    <2>3. QED
      BY <2>1, <2>2, FailExchangesTold
  <1>6. ASSUME NEW n \in Names, NEW p \in Peers, Deliver(n, p)
        PROVE  Told(k, q)
    <2>1. CASE \/ Deny(n, p) \/ TakeInert(n, p)
               \/ \E t \in Turn : DropIllegalTurn(n, p, t)
      BY <2>1, NothingToTell
         DEF Deny, TakeInert, DropIllegalTurn, DeliveryDenied, IllegalTurnDropped
    <2>2. ASSUME NEW id \in RequestIds, TakeAck(n, p, id)
          PROVE  Told(k, q)
      <3>1. Acked(conv[n][p], id).state = conv[n][p].state
        BY AckedSide DEF RuntimeInv, RuntimeTypeOK
      <3>2. conv'[k][q].state = conv[k][q].state /\ events' = {}
        BY <2>2, <3>1 DEF TakeAck, RuntimeInv, RuntimeTypeOK
      <3>3. QED
        BY <3>2, NothingToTell
    <2>3. CASE \E m \in Names : Spawn(n, p, m) \/ Stop(n, p, m)
      BY <2>3, SettleTold DEF Spawn, Stop
    <2>4. CASE \E t \in Turn, reply \in Turn \cup {None}, ok \in BOOLEAN :
                  TakeTurn(n, p, t, reply, ok)
      BY <2>4, TakeTurnTold
    <2>5. QED
      BY <1>6, <2>1, <2>2, <2>3, <2>4 DEF Deliver
  <1>7. QED
    BY <1>1, <1>2, <1>3, <1>4, <1>5, <1>6 DEF Next, Step

(* No exchange of an installed actor dies silently, and whatever is        *)
(* announced as failed is over, with no wait left armed.                   *)
THEOREM RuntimeTellsFailures == SafeSpec => FailuresAreTold
  <1>1. RuntimeInv /\ [Next]_vars => [\A n \in Names, p \in Peers : Told(n, p)]_vars
    BY StepTold
  <1>2. QED
    BY <1>1, RuntimeInvariant, PTL DEF SafeSpec, FailuresAreTold, Told

-----------------------------------------------------------------------------
(* Deaths: what ImmuneToOldDeaths says of one conversation in one step.    *)
Mourned(n, p) == ExchangeFailed(n, p, "Disconnected") \in events' => p \in mourned'[n]

LEMMA FailExchangesMourned ==
    ASSUME NEW n \in Names, NEW ps \in SUBSET Peers, NEW cause,
           FailExchanges(n, ps, cause),
           cause = "Disconnected" => ps \subseteq mourned'[n],
           NEW k \in Names, NEW q \in Peers
    PROVE  Mourned(k, q)
  BY DEF Mourned, FailExchanges, ExchangeFailed

LEMMA StepMourned == RuntimeInv /\ Next => \A k \in Names, q \in Peers : Mourned(k, q)
  <1> SUFFICES ASSUME RuntimeInv, Next, NEW k \in Names, NEW q \in Peers
               PROVE  Mourned(k, q)
    OBVIOUS
  <1>1. ASSUME NEW n \in Names, SweepDead(n)
        PROVE  Mourned(k, q)
    <2>1. PICK p \in Doomed(n) : FailExchanges(n, LiveAt(n, EndpointOf[p]), "Disconnected")
      BY <1>1 DEF SweepDead
    <2>2. LiveAt(n, EndpointOf[p]) \subseteq mourned'[n]
      BY <1>1, <2>1 DEF SweepDead, Doomed, LiveAt, RuntimeInv, DeadAreMourned
    <2>3. LiveAt(n, EndpointOf[p]) \in SUBSET Peers
      BY DEF LiveAt
    <2>4. QED
      BY <2>1, <2>2, <2>3, FailExchangesMourned
  <1>2. ASSUME NEW n \in Names, NEW e \in Endpoints, TakeDeath(n, e)
        PROVE  Mourned(k, q)
    <2>1. /\ LiveAt(n, e) \in SUBSET Peers
          /\ FailExchanges(n, LiveAt(n, e), "Disconnected")
          /\ LiveAt(n, e) \subseteq mourned'[n]
      BY <1>2 DEF TakeDeath, LiveAt
    <2>2. QED
      BY <2>1, FailExchangesMourned
  <1>3. ASSUME NEW n \in Names, TakeDeadline(n)
        PROVE  Mourned(k, q)
    BY <1>3 DEF TakeDeadline, FailExchanges, ExchangeFailed, DueKind, Mourned
  <1>4. ASSUME NEW n \in Names, Operate(n)
        PROVE  Mourned(k, q)
    BY <1>4 DEF Operate, Install, Settle, Admit, Revoke, FailExchanges,
                ExchangeFailed, Mourned
  <1>5. ASSUME NEW n \in Names, NEW p \in Peers, Deliver(n, p)
        PROVE  Mourned(k, q)
    <2>1. CASE \E t \in Turn, reply \in Turn \cup {None}, ok \in BOOLEAN :
                  TakeTurn(n, p, t, reply, ok)
      <3>1. PICK t \in Turn, reply \in Turn \cup {None}, ok \in BOOLEAN :
                TakeTurn(n, p, t, reply, ok)
        BY <2>1
      <3>2. PICK verdict \in {None, "IllegalReply", "SendFailed"} :
                events' = IF verdict = None THEN {} ELSE {ExchangeFailed(n, p, verdict)}
        BY <3>1 DEF TakeTurn, ReplyVerdict
      <3>3. QED
        BY <3>2 DEF Mourned, ExchangeFailed
    <2>2. CASE \E m \in Names : Spawn(n, p, m) \/ Stop(n, p, m)
      BY <2>2 DEF Spawn, Stop, Settle, Mourned
    <2>3. CASE Deny(n, p) \/ TakeInert(n, p) \/ \E id \in RequestIds : TakeAck(n, p, id)
      BY <2>3 DEF Deny, TakeInert, TakeAck, DeliveryDenied, ExchangeFailed, Mourned
    <2>4. CASE \E t \in Turn : DropIllegalTurn(n, p, t)
      BY <2>4 DEF DropIllegalTurn, IllegalTurnDropped, ExchangeFailed, Mourned
    <2>5. QED
      BY <1>5, <2>1, <2>2, <2>3, <2>4 DEF Deliver
  <1>6. CASE Tick
    BY <1>6 DEF Tick, Mourned
  <1>7. QED
    BY <1>1, <1>2, <1>3, <1>4, <1>5, <1>6 DEF Next, Step

(* Only exchanges that were live when their peer's death was reported ever *)
(* fail as disconnected: none begun since, by whichever actor.             *)
THEOREM NoExchangeDiesOfOldDeaths == SafeSpec => ImmuneToOldDeaths
  <1>1. RuntimeInv /\ [Next]_vars
            => [\A n \in Names, p \in Peers : Mourned(n, p)]_vars
    BY StepMourned
  <1>2. QED
    BY <1>1, RuntimeInvariant, PTL DEF SafeSpec, ImmuneToOldDeaths, Mourned

=============================================================================
