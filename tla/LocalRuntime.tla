---------------------------- MODULE LocalRuntime ----------------------------
(***************************************************************************)
(* The toy runtime of one endpoint (kamiroh-app, runtime.rs): its actors,  *)
(* their guest lists, one PeerState per peer, the parties behind them, and *)
(* the runtime-wide memory of dead endpoints.                              *)
(*                                                                         *)
(* LocalRuntime::step(name) holds the whole runtime for one event of one   *)
(* actor, so each of its outcomes is one action: a sweep of known deaths,  *)
(* else a fresh death, else an elapsed deadline, else a delivery.  What    *)
(* arrives is the environment's choice (any peer, any message, any death   *)
(* report); whether the transport carries a reply is the parameter `ok`.   *)
(* The observer's events are a variable, emptied by every operation.       *)
(***************************************************************************)
EXTENDS ConversationSide, HostedActors

VARIABLES
    actor,    \* [Names -> setup of the installed actor, or None]
    conv,     \* [Names -> [Peers -> PeerState]], Quiet where none is kept
    mind,     \* [Names -> [Peers -> what a stock party remembers]]
    dead,     \* endpoints reported dead and not heard from since
    events,   \* what the last operation told the observer
    mourned   \* history: exchanges that were live when their peer's death was reported

vars == <<actor, conv, mind, dead, events, mourned>>

Up(n) == actor[n] # None
Stock(n) == Up(n) /\ actor[n].party \in {"echo", "countdown"}
Admitted(n, p) == EndpointOf[p] \in actor[n].allow

RuntimeTypeOK ==
    /\ actor \in [Names -> Setup \cup {None}]
    /\ conv \in [Names -> [Peers -> Side]]
    /\ mind \in [Names -> [Peers -> Mind]]
    /\ dead \subseteq Endpoints
    /\ events \subseteq Event
    /\ mourned \in [Names -> SUBSET Peers]

NoConversations == [p \in Peers |-> Quiet]
NoMemories == [p \in Peers |-> FreshMind]

Init ==
    /\ actor = [n \in Names |-> None]
    /\ conv = [n \in Names |-> NoConversations]
    /\ mind = [n \in Names |-> NoMemories]
    /\ dead = {}
    /\ events = {}
    /\ mourned = [n \in Names |-> {}]

-----------------------------------------------------------------------------
(* Failing exchanges: fail_exchange, for a set of peers at once.  The      *)
(* machine moves, the waits clear, the party is told, the event is out.    *)

BrokenAll(sides, ps) ==
    [p \in Peers |-> IF p \in ps THEN Broken(sides[p]) ELSE sides[p]]

FailedMinds(n, minds, ps) ==
    [p \in Peers |-> IF p \in ps /\ Stock(n) THEN FailedMind(minds[p]) ELSE minds[p]]

FailExchanges(n, ps, cause) ==
    /\ conv' = [conv EXCEPT ![n] = BrokenAll(conv[n], ps)]
    /\ mind' = [mind EXCEPT ![n] = FailedMinds(n, mind[n], ps)]
    /\ events' = {ExchangeFailed(n, p, cause) : p \in ps}

LiveAt(n, e) == {p \in Peers : Live(conv[n][p].state) /\ EndpointOf[p] = e}

Doomed(n) == {p \in Peers : Live(conv[n][p].state) /\ EndpointOf[p] \in dead}

-----------------------------------------------------------------------------
(* Between steps: install, admit, revoke. *)

Settle(n, setup) ==
    /\ actor' = [actor EXCEPT ![n] = setup]
    /\ conv' = [conv EXCEPT ![n] = NoConversations]
    /\ mind' = [mind EXCEPT ![n] = NoMemories]
    /\ mourned' = [mourned EXCEPT ![n] = {}]
    /\ events' = {}

Install(n, setup) ==
    /\ ~Up(n)
    /\ Settle(n, setup)
    /\ UNCHANGED dead

Admit(n, e) ==
    /\ Up(n)
    /\ actor' = [actor EXCEPT ![n].allow = @ \cup {e}]
    /\ events' = {}
    /\ UNCHANGED <<conv, mind, dead, mourned>>

\* Defective variant: the guest list changes, the live exchanges go on.
RevokeQuietly(n, e) ==
    /\ Up(n)
    /\ actor' = [actor EXCEPT ![n].allow = @ \ {e}]
    /\ events' = {}
    /\ UNCHANGED <<conv, mind, dead, mourned>>

Revoke(n, e) ==
    /\ Up(n)
    /\ actor' = [actor EXCEPT ![n].allow = @ \ {e}]
    /\ FailExchanges(n, LiveAt(n, e), "Revoked")
    /\ UNCHANGED <<dead, mourned>>

-----------------------------------------------------------------------------
(* step: deaths already known come first, one endpoint a step. *)

SweepDead(n) ==
    /\ Up(n)
    /\ \E p \in Doomed(n) : FailExchanges(n, LiveAt(n, EndpointOf[p]), "Disconnected")
    /\ UNCHANGED <<actor, dead, mourned>>

(* step: the race.  A fresh death outranks a deadline, and both outrank a  *)
(* delivery (wait.rs).                                                     *)

TakeDeath(n, e) ==
    /\ Up(n)
    /\ Doomed(n) = {}
    /\ dead' = dead \cup {e}
    /\ FailExchanges(n, LiveAt(n, e), "Disconnected")
    /\ mourned' = [m \in Names |-> mourned[m] \cup LiveAt(m, e)]
    /\ UNCHANGED actor

\* Defective variant: the comparison is the wrong way round.
LatestFirst(n, p) ==
    /\ Waiting(conv[n][p])
    /\ \A q \in Peers : Waiting(conv[n][q]) => DueLeft(conv[n][p]) >= DueLeft(conv[n][q])

(* earliest_due: which of two equally early waits is the map's choice. *)
Earliest(n, p) ==
    /\ Waiting(conv[n][p])
    /\ \A q \in Peers : Waiting(conv[n][q]) => DueLeft(conv[n][p]) <= DueLeft(conv[n][q])

TakeDeadline(n) ==
    /\ Up(n)
    /\ Doomed(n) = {}
    /\ \E p \in Peers :
          /\ Earliest(n, p)
          /\ Overdue(conv[n][p])
          /\ FailExchanges(n, {p}, DueKind(conv[n][p]))
    /\ UNCHANGED <<actor, dead, mourned>>

Ready(n) ==
    /\ Up(n)
    /\ Doomed(n) = {}
    /\ \A p \in Peers : Earliest(n, p) => ~Overdue(conv[n][p])

-----------------------------------------------------------------------------
(* step: a delivery from p.  Whatever it is, hearing from the endpoint     *)
(* clears its tombstone, before admission is asked.                        *)

\* Defective variant: a tombstone stands for good.
StaysDead(p) == dead' = dead

HeardFrom(p) == dead' = dead \ {EndpointOf[p]}

Deny(n, p) ==
    /\ Ready(n)
    /\ ~Admitted(n, p)
    /\ HeardFrom(p)
    /\ events' = {DeliveryDenied(n, p)}
    /\ UNCHANGED <<actor, conv, mind, mourned>>

(* A request, a ping, a command to a plain actor, a harness reply: nothing *)
(* kept changes, whether or not the answer can be sent.                    *)
TakeInert(n, p) ==
    /\ Ready(n)
    /\ Admitted(n, p)
    /\ HeardFrom(p)
    /\ events' = {}
    /\ UNCHANGED <<actor, conv, mind, mourned>>

TakeAck(n, p, id) ==
    /\ Ready(n)
    /\ Admitted(n, p)
    /\ HeardFrom(p)
    /\ conv' = [conv EXCEPT ![n][p] = Acked(conv[n][p], id)]
    /\ events' = {}
    /\ UNCHANGED <<actor, mind, mourned>>

(* Harness commands.  A spawned actor admits the controlling endpoint only *)
(* and has an EchoParty; a stopped one is forgotten with its conversations *)
(* and without a word to anyone.                                           *)
Commands(n, p) == Ready(n) /\ Admitted(n, p) /\ actor[n].kind = "Harness"

Spawn(n, p, m) ==
    /\ Commands(n, p)
    /\ ~Up(m)
    /\ HeardFrom(p)
    /\ Settle(m, [kind |-> "Plain", party |-> "echo", allow |-> {EndpointOf[p]}])

Stop(n, p, m) ==
    /\ Commands(n, p)
    /\ Up(m)
    /\ HeardFrom(p)
    /\ Settle(m, None)

-----------------------------------------------------------------------------
(* step: a turn from p. *)

DropIllegalTurn(n, p, t) ==
    /\ Ready(n)
    /\ Admitted(n, p)
    /\ ~CanReceive(conv[n][p].state, t)
    /\ HeardFrom(p)
    /\ events' = {IllegalTurnDropped(n, p, ReceiveError(conv[n][p].state, t))}
    /\ UNCHANGED <<actor, conv, mind, mourned>>

Replies(n, p, t) == AnswersOf(actor[n].party, mind[n][p], t)

(* Why the exchange fails over the answer, if it does. *)
ReplyVerdict(c, reply, ok) ==
    CASE reply = None -> None
      [] reply # None /\ ~CanSend(c.state, reply) -> "IllegalReply"
      [] reply # None /\ CanSend(c.state, reply) /\ ~ok -> "SendFailed"
      [] OTHER -> None

\* Defective variant: a refused answer leaves the machine where it moved it.
RepliedRegardless(c, reply, ok) ==
    IF reply = None \/ ~CanSend(c.state, reply) THEN c
    ELSE IF ok THEN Sent(c, reply) ELSE Settled(Sent(c, reply))

(* The side after the answer.  Waits are armed before the send, and an     *)
(* answer that is illegal or refused fails the exchange.                   *)
Replied(c, reply, ok) ==
    IF reply = None THEN c
    ELSE IF ~CanSend(c.state, reply) THEN Broken(c)
    ELSE IF ok THEN Sent(c, reply) ELSE Broken(Sent(c, reply))

BeginsAnew(t, reply) == t.kind = "Open" \/ (reply # None /\ reply.kind = "Open")

TakeTurn(n, p, t, reply, ok) ==
    LET c       == Received(conv[n][p], t)
        verdict == ReplyVerdict(c, reply, ok)
        m       == IF Stock(n) THEN StockMind(actor[n].party, mind[n][p], t) ELSE mind[n][p]
    IN /\ Ready(n)
       /\ Admitted(n, p)
       /\ CanReceive(conv[n][p].state, t)
       /\ reply \in Replies(n, p, t)
       /\ HeardFrom(p)
       /\ conv' = [conv EXCEPT ![n][p] = Replied(c, reply, ok)]
       /\ mind' = [mind EXCEPT ![n][p] =
                      IF verdict # None /\ Stock(n) THEN FailedMind(m) ELSE m]
       /\ events' = IF verdict = None THEN {} ELSE {ExchangeFailed(n, p, verdict)}
       /\ mourned' = [mourned EXCEPT ![n] = IF BeginsAnew(t, reply) THEN @ \ {p} ELSE @]
       /\ UNCHANGED actor

-----------------------------------------------------------------------------
(* Time, which stands still while somebody is MaxLate overdue. *)
Tick ==
    /\ \E n \in Names, p \in Peers : Waiting(conv[n][p])
    /\ \A n \in Names, p \in Peers : MayAge(conv[n][p])
    /\ conv' = [n \in Names |-> [p \in Peers |-> Aged(conv[n][p])]]
    /\ events' = {}
    /\ UNCHANGED <<actor, mind, dead, mourned>>

Operate(n) ==
    \/ \E s \in Setups[n] : Install(n, s)
    \/ \E e \in Endpoints : Admit(n, e) \/ Revoke(n, e)

Deliver(n, p) ==
    \/ Deny(n, p)
    \/ TakeInert(n, p)
    \/ \E id \in RequestIds : TakeAck(n, p, id)
    \/ \E m \in Names : Spawn(n, p, m) \/ Stop(n, p, m)
    \/ \E t \in Turn :
          \/ DropIllegalTurn(n, p, t)
          \/ \E reply \in Turn \cup {None}, ok \in BOOLEAN : TakeTurn(n, p, t, reply, ok)

Step(n) ==
    \/ SweepDead(n)
    \/ \E e \in Endpoints : TakeDeath(n, e)
    \/ TakeDeadline(n)
    \/ \E p \in Peers : Deliver(n, p)

Next == Tick \/ \E n \in Names : Operate(n) \/ Step(n)

SafeSpec == Init /\ [][Next]_vars

(* Every actor keeps being stepped while there is something for it to do,  *)
(* and the clock runs; nothing is assumed of the peers.                    *)
Fairness ==
    /\ WF_vars(Tick)
    /\ \A n \in Names : WF_vars(SweepDead(n)) /\ WF_vars(TakeDeadline(n))

Spec == SafeSpec /\ Fairness

-----------------------------------------------------------------------------
(* Across answers carried, refused, illegal or withheld, acks, deadlines,  *)
(* deaths and revocations, every conversation waits for a turn exactly     *)
(* when the move is the peer's, and for an ack only of the request now     *)
(* outstanding.                                                            *)
RuntimeWaitsFit == \A n \in Names, p \in Peers : WaitsFit(conv[n][p])

(* A live exchange is always with an endpoint its actor admits now:        *)
(* revocation leaves none alive behind it, and no delivery, spawn or       *)
(* reinstall brings one to life with a stranger (decision 28).             *)
LivePeersAreAdmitted ==
    \A n \in Names, p \in Peers : Live(conv[n][p].state) => Up(n) /\ Admitted(n, p)

(* A stock party's shadow is where the runtime's machine is, after every   *)
(* refused send, deadline, death and revocation: diverged, it would        *)
(* swallow a fresh Open (parties.rs 59-63).                                *)
ShadowsAgree ==
    \A n \in Names, p \in Peers : Stock(n) => mind[n][p].shadow = conv[n][p].state

(* Behind a stock party no exchange is ever left without a deadline.       *)
StockActorsNeverHang ==
    \A n \in Names, p \in Peers :
        Stock(n) /\ Live(conv[n][p].state) => conv[n][p].turn # None

(* What deadline.rs says of every conversation surface (lines 9-13), and   *)
(* what the Party contract makes of it: a turn that poses a request is     *)
(* answered, "enforced by the runtime's TurnState" (kamiroh-ports, lib.rs  *)
(* 110-113).  A party that answers nothing breaks it.                      *)
NoExchangeWithoutDeadline ==
    \A n \in Names, p \in Peers : Live(conv[n][p].state) => conv[n][p].turn # None

FailureEvents(n, p) == {e \in events : e.ev = "ExchangeFailed" /\ e.at = n /\ e.peer = p}

(* An exchange of an actor that stays installed dies only with an event,   *)
(* and an event leaves nothing live and no wait armed: failures are loud,  *)
(* and what is announced has happened (decision 25).                       *)
FailuresAreTold ==
    [][\A n \in Names, p \in Peers :
          /\ Live(conv[n][p].state) /\ conv'[n][p].state = Failed
                => FailureEvents(n, p)' # {}
          /\ FailureEvents(n, p)' # {}
                => ~Live(conv'[n][p].state) /\ ~Waiting(conv'[n][p])]_vars

(* The immunity ARCHITECTURE.md claims for this runtime (decision 27,      *)
(* lines 533-535): only an exchange that was live when a death of its      *)
(* endpoint was reported is ever failed as disconnected, none begun since. *)
ImmuneToOldDeaths ==
    [][\A n \in Names, p \in Peers :
          ExchangeFailed(n, p, "Disconnected") \in events' => p \in mourned'[n]]_vars

(* What runtime.rs says of watch_deaths (lines 149-151): a reported death  *)
(* fails the live exchanges it affects "well before any deadline", so      *)
(* their deadlines never get to.                                           *)
DeathBeatsDeadline ==
    [][\A n \in Names, p \in Peers, cause \in DeadlineCauses :
          ExchangeFailed(n, p, cause) \in events' => p \notin mourned'[n]]_vars

(* A turn wait ends or makes room for a newer one, again and again: with   *)
(* several peers waiting at once, none is passed over for ever.            *)
WaitsRunOut ==
    \A n \in Names, p \in Peers :
        []<>(conv[n][p].turn = None \/ conv[n][p].turn = TurnPatience)
=============================================================================
