---------------------------- MODULE KameoRuntime ----------------------------
(***************************************************************************)
(* The concurrent runtime of one endpoint (kamiroh-adapter-kameo).  Every  *)
(* actor is a host with a mailbox and handles one message at a time; what  *)
(* reaches it are deliveries moved in by its pump, reports of timer tasks, *)
(* deaths passed on by the watch_deaths task, and the operator's asks.     *)
(*                                                                         *)
(* A handler is cut where it awaits the party (for an answer, or to tell   *)
(* it of a failure) or the transport, and between the exchanges it fails   *)
(* one after another: `job` says where it stands.  Meanwhile the mailbox   *)
(* fills, timers of other conversations go off and the actor may be        *)
(* stopped.  Real time is left out: a timer task may report at any moment  *)
(* after it was spawned.                                                   *)
(***************************************************************************)
EXTENDS HostedActors, Sequences

CONSTANTS
    Says,         \* [Names -> set of bodies peers send there]
    Managed,      \* [Names -> endpoints the operator admits and revokes there]
    MailboxCap,   \* [Names -> messages its mailbox holds]: a tell awaits room
    EpochCycle    \* 2^64, PeerWaits::epoch being a u64

Body == [is : {"turn"}, turn : Turn]
   \cup [is : {"ack"}, id : RequestIds]
   \cup [is : {"spawn", "stop"}, name : Names]
   \cup [is : {"other"}]

ASSUME BodiesAreBodies == Says \in [Names -> SUBSET Body]
ASSUME ManagedAreEndpoints == Managed \in [Names -> SUBSET Endpoints]
ASSUME EpochsOutlastMailboxes ==
    /\ MailboxCap \in [Names -> Nat \ {0}] /\ EpochCycle \in Nat
    /\ \A n \in Names : EpochCycle > MailboxCap[n]
ASSUME NoneIsNobody == None \notin Endpoints /\ None \notin Names

VARIABLES
    actor,     \* [Names -> setup of the roster's entry, allowlist as it is now, or None]
    bound,     \* [Names -> whether an inbox is bound at the address]
    leaving,   \* [Names -> whether an aborted pump has yet to drop its inbox]
    conv,      \* [Names -> [Peers -> PeerWaits]], Fresh where none is kept
    mind,      \* [Names -> [Peers -> what a stock party remembers]]
    mailbox,   \* [Names -> what its host has yet to handle]
    job,       \* [Names -> the handler its host is in the middle of]
    sleeping,  \* [Names -> timer tasks that have not reported yet]
    fan,       \* the death watch_deaths is passing on, and to whom still
    events,    \* what the last step told the observer
    heard      \* history: [Names -> endpoints reported dead while it was hosted]

hostVars == <<conv, mind, mailbox, job, sleeping>>
vars == <<actor, bound, leaving, conv, mind, mailbox, job, sleeping, fan, events, heard>>

-----------------------------------------------------------------------------
(* A conversation's record, and the reports of the timers armed for it.    *)

PeerWaits == [state : TurnState, ack : RequestIds \cup {None}, turn : BOOLEAN,
              epoch : 0 .. EpochCycle - 1]

Fresh == [state |-> Idle, ack |-> None, turn |-> FALSE, epoch |-> 0]

Report == [peer : Peers, kind : DeadlineCauses, id : RequestIds \cup {None},
           epoch : 0 .. EpochCycle - 1]

AckReport(p, id, epoch) == [peer |-> p, kind |-> "Ack", id |-> id, epoch |-> epoch]
TurnReport(p, epoch) == [peer |-> p, kind |-> "Turn", id |-> None, epoch |-> epoch]

(* The timers whose handles c holds.  A sleeping one among them is what    *)
(* handle.abort() ends.                                                    *)
AckTimer(p, c) == IF c.ack = None THEN {} ELSE {AckReport(p, c.ack, c.epoch)}
TurnTimer(p, c) == IF c.turn THEN {TurnReport(p, c.epoch)} ELSE {}
Timers(p, c) == AckTimer(p, c) \cup TurnTimer(p, c)

NextEpoch(c) == (c.epoch + 1) % EpochCycle

\* Defective variant: the answer does not stand for its receipt.
SettledTurn(c) == [c EXCEPT !.turn = FALSE]

SettledAll(c) == [c EXCEPT !.ack = None, !.turn = FALSE]

\* Defective variant: a Close too is to be answered.
ArmedForAnyTurn(c, t) ==
    [c EXCEPT !.ack = IF t.req = None THEN @ ELSE t.req, !.turn = TRUE, !.epoch = NextEpoch(c)]

\* Defective variant: only the receipt is waited for.
ArmedForAckOnly(c, t) ==
    [c EXCEPT !.ack = IF t.req = None THEN @ ELSE t.req, !.epoch = NextEpoch(c)]

(* A new round of waits, for the turn that has just been sent. *)
ArmedAnew(c, t) ==
    [c EXCEPT !.ack   = IF t.req = None THEN @ ELSE t.req,
              !.turn  = t.kind # "Close",
              !.epoch = NextEpoch(c)]

(* fail_exchange's share of the record. *)
FailedConv(c) ==
    [SettledAll(c) EXCEPT !.state = Fail(c.state), !.epoch = NextEpoch(c)]

-----------------------------------------------------------------------------
(* Mailboxes and handlers *)

Deliver(p, b)  == [tag |-> "Deliver", from |-> p, body |-> b]
Elapsed(r)     == [tag |-> "DeadlineElapsed", report |-> r]
PeerDied(e)    == [tag |-> "PeerDied", endpoint |-> e]
AdmitMsg(e)    == [tag |-> "Admit", endpoint |-> e]
RevokeMsg(e)   == [tag |-> "Revoke", endpoint |-> e]

Message ==
         [tag : {"Deliver"}, from : Peers, body : Body]
    \cup [tag : {"DeadlineElapsed"}, report : Report]
    \cup [tag : {"PeerDied", "Admit", "Revoke"}, endpoint : Endpoints]

Resting            == [do |-> "rest"]
Thinking(p, t)     == [do |-> "think", peer |-> p, turn |-> t]
Sending(p, reply)  == [do |-> "send", peer |-> p, turn |-> reply]
Failing(ps, cause) == [do |-> "fail", rest |-> ps, why |-> cause]

(* The party is being told that the exchange with p has failed; those with *)
(* ps are to be failed next.                                               *)
Telling(p, cause, ps) == [do |-> "tell", peer |-> p, rest |-> ps, why |-> cause]

Job ==   {Resting}
    \cup [do : {"think", "send"}, peer : Peers, turn : Turn]
    \cup [do : {"fail"}, rest : SUBSET Peers, why : FailureCauses]
    \cup [do : {"tell"}, peer : Peers, rest : SUBSET Peers, why : FailureCauses]

(* A death under way: the host whose mailbox is awaited now, and those to  *)
(* come.  The roster's map has no order of its own.                        *)
NoFan == [endpoint |-> None, now |-> None, rest |-> {}]

Fans(e, hosts) ==
    IF hosts = {} THEN {NoFan}
    ELSE {[endpoint |-> e, now |-> n, rest |-> hosts \ {n}] : n \in hosts}

Up(n) == actor[n] # None
Stock(n) == Up(n) /\ actor[n].party \in {"echo", "countdown"}
Admitted(n, p) == EndpointOf[p] \in actor[n].allow
LiveAt(n, e) == {p \in Peers : Live(conv[n][p].state) /\ EndpointOf[p] = e}

Room(n) == Up(n) /\ Len(mailbox[n]) < MailboxCap[n]

Post(n, m) == mailbox' = [mailbox EXCEPT ![n] = Append(@, m)]

(* The host is free and m is the next message: it is taken out. *)
Handles(n, m) ==
    /\ Up(n)
    /\ job[n] = Resting
    /\ mailbox[n] # <<>> /\ Head(mailbox[n]) = m
    /\ mailbox' = [mailbox EXCEPT ![n] = Tail(@)]

Becomes(n, j) == job' = [job EXCEPT ![n] = j]

KameoTypeOK ==
    /\ actor \in [Names -> Setup \cup {None}]
    /\ bound \in [Names -> BOOLEAN]
    /\ leaving \in [Names -> BOOLEAN]
    /\ conv \in [Names -> [Peers -> PeerWaits]]
    /\ mind \in [Names -> [Peers -> Mind]]
    /\ mailbox \in [Names -> Seq(Message)]
    /\ job \in [Names -> Job]
    /\ sleeping \in [Names -> SUBSET Report]
    /\ fan \in {NoFan} \cup [endpoint : Endpoints, now : Names, rest : SUBSET Names]
    /\ events \subseteq Event
    /\ heard \in [Names -> SUBSET Endpoints]

Init ==
    /\ actor = [n \in Names |-> None]
    /\ bound = [n \in Names |-> FALSE]
    /\ leaving = [n \in Names |-> FALSE]
    /\ conv = [n \in Names |-> [p \in Peers |-> Fresh]]
    /\ mind = [n \in Names |-> [p \in Peers |-> FreshMind]]
    /\ mailbox = [n \in Names |-> <<>>]
    /\ job = [n \in Names |-> Resting]
    /\ sleeping = [n \in Names |-> {}]
    /\ fan = NoFan
    /\ events = {}
    /\ heard = [n \in Names |-> {}]

-----------------------------------------------------------------------------
(* The roster *)

(* A host appears or goes: nothing of another host of that name is left,   *)
(* on_stop having settled every timer.                                     *)
Blank(n, setup) ==
    /\ actor' = [actor EXCEPT ![n] = setup]
    /\ conv' = [conv EXCEPT ![n] = [p \in Peers |-> Fresh]]
    /\ mind' = [mind EXCEPT ![n] = [p \in Peers |-> FreshMind]]
    /\ job' = [job EXCEPT ![n] = Resting]
    /\ sleeping' = [sleeping EXCEPT ![n] = {}]
    /\ heard' = [heard EXCEPT ![n] = {}]

\* Defective variant: the roster alone is asked.
FreeInRoster(n) == ~Up(n)

(* install_inner's refusals: NameInUse by the roster, Bind by the registry *)
(* while an inbox is bound at the address.                                 *)
Installable(n) == ~Up(n) /\ ~bound[n]

\* Defective variant: deaths are passed on to names, whoever bears them now.
NamesStay(n) == UNCHANGED fan

(* A death being passed on goes to the hosts of its moment: a stopped one  *)
(* is told nothing, nor is its successor.                                  *)
RefsDie(n) ==
    fan' \in IF fan.now = n THEN Fans(fan.endpoint, fan.rest)
             ELSE {[fan EXCEPT !.rest = @ \ {n}]}

Started(n, setup) ==
    /\ Installable(n)
    /\ Blank(n, setup)
    /\ bound' = [bound EXCEPT ![n] = TRUE]
    /\ events' = {}
    /\ UNCHANGED <<leaving, fan>>

(* stop: out of the roster at once, the host killed with its mailbox and   *)
(* between two steps of a handler if it is in one; its pump ends later.    *)
Stopped(n) ==
    /\ Up(n)
    /\ Blank(n, None)
    /\ leaving' = [leaving EXCEPT ![n] = TRUE]
    /\ RefsDie(n)
    /\ events' = {}
    /\ UNCHANGED bound

Install(n, setup) == Started(n, setup) /\ UNCHANGED mailbox

Stop(n) == Stopped(n) /\ mailbox' = [mailbox EXCEPT ![n] = <<>>]

(* An aborted pump drops its inbox, which unbinds the address. *)
PumpEnds(n) ==
    /\ leaving[n]
    /\ leaving' = [leaving EXCEPT ![n] = FALSE]
    /\ bound' = [bound EXCEPT ![n] = FALSE]
    /\ events' = {}
    /\ UNCHANGED <<actor, hostVars, fan, heard>>

-----------------------------------------------------------------------------
(* What fills mailboxes *)

Pump(n, p, b) ==
    /\ bound[n] /\ ~leaving[n] /\ Room(n)
    /\ Post(n, Deliver(p, b))
    /\ events' = {}
    /\ UNCHANGED <<actor, bound, leaving, conv, mind, job, sleeping, fan, heard>>

Ask(n, m) ==
    /\ Room(n)
    /\ Post(n, m)
    /\ events' = {}
    /\ UNCHANGED <<actor, bound, leaving, conv, mind, job, sleeping, fan, heard>>

\* Defective variant: the timer task does not wait for room.
GoesOffOrGivesUp(n, r) ==
    /\ r \in sleeping[n]
    /\ sleeping' = [sleeping EXCEPT ![n] = @ \ {r}]
    /\ IF Room(n) THEN Post(n, Elapsed(r)) ELSE UNCHANGED mailbox
    /\ events' = {}
    /\ UNCHANGED <<actor, bound, leaving, conv, mind, job, fan, heard>>

GoesOff(n, r) ==
    /\ r \in sleeping[n] /\ Room(n)
    /\ sleeping' = [sleeping EXCEPT ![n] = @ \ {r}]
    /\ Post(n, Elapsed(r))
    /\ events' = {}
    /\ UNCHANGED <<actor, bound, leaving, conv, mind, job, fan, heard>>

(* watch_deaths: the hosts of the moment are told one after another.       *)
HearDeath(e) ==
    /\ fan = NoFan
    /\ fan' \in Fans(e, {n \in Names : Up(n)})
    /\ heard' = [n \in Names |-> IF Up(n) THEN heard[n] \cup {e} ELSE heard[n]]
    /\ events' = {}
    /\ UNCHANGED <<actor, bound, leaving, hostVars>>

PassOnDeath ==
    /\ fan # NoFan
    /\ Room(fan.now)
    /\ Post(fan.now, PeerDied(fan.endpoint))
    /\ fan' \in Fans(fan.endpoint, fan.rest)
    /\ events' = {}
    /\ UNCHANGED <<actor, bound, leaving, conv, mind, job, sleeping, heard>>

-----------------------------------------------------------------------------
(* Failing exchanges: the machine moves, the timers are aborted, the party *)
(* is awaited with the news, and only then is the event out.               *)

\* Defective variant: the waits are forgotten but their tasks sleep on.
AbortsNothing(n, p) == sleeping' = sleeping

Aborts(n, p) == sleeping' = [sleeping EXCEPT ![n] = @ \ Timers(p, conv[n][p])]

(* fail_exchange, up to where it awaits the party. *)
FailExchange(n, p, cause, rest) ==
    /\ conv' = [conv EXCEPT ![n][p] = FailedConv(@)]
    /\ Aborts(n, p)
    /\ Becomes(n, Telling(p, cause, rest))
    /\ events' = {}

(* The loop over the affected peers of a death or a revocation. *)
FailOn(n, ps, cause) == Becomes(n, IF ps = {} THEN Resting ELSE Failing(ps, cause))

FailNext(n) ==
    /\ job[n].do = "fail"
    /\ \E p \in job[n].rest : FailExchange(n, p, job[n].why, job[n].rest \ {p})
    /\ UNCHANGED <<actor, bound, leaving, mind, mailbox, fan, heard>>

\* Defective variant: the party is not told.
HearsNothing(n, p) == mind' = mind

(* on_exchange_failed *)
HearsOfFailure(n, p) ==
    mind' = [mind EXCEPT ![n][p] = IF Stock(n) THEN FailedMind(@) ELSE @]

(* The party has taken the news. *)
TellParty(n) ==
    /\ job[n].do = "tell"
    /\ HearsOfFailure(n, job[n].peer)
    /\ events' = {ExchangeFailed(n, job[n].peer, job[n].why)}
    /\ FailOn(n, job[n].rest, job[n].why)
    /\ UNCHANGED <<actor, bound, leaving, conv, mailbox, sleeping, fan, heard>>

-----------------------------------------------------------------------------
(* The handler of DeadlineElapsed *)

\* Defective variant: a wait of that kind is armed, no matter since when.
SomePending(c, r) == IF r.kind = "Ack" THEN c.ack = r.id ELSE c.turn

StillPending(c, r) ==
    /\ r.epoch = c.epoch
    /\ IF r.kind = "Ack" THEN c.ack = r.id ELSE c.turn

TakeElapsed(n, r) ==
    /\ Handles(n, Elapsed(r))
    /\ IF StillPending(conv[n][r.peer], r)
       THEN FailExchange(n, r.peer, r.kind, {})
       ELSE events' = {} /\ UNCHANGED <<conv, job, sleeping>>
    /\ UNCHANGED <<actor, bound, leaving, mind, fan, heard>>

(* The handlers of PeerDied, Admit and Revoke *)

TakePeerDied(n, e) ==
    /\ Handles(n, PeerDied(e))
    /\ FailOn(n, LiveAt(n, e), "Disconnected")
    /\ events' = {}
    /\ UNCHANGED <<actor, bound, leaving, conv, mind, sleeping, fan, heard>>

TakeAdmit(n, e) ==
    /\ Handles(n, AdmitMsg(e))
    /\ actor' = [actor EXCEPT ![n].allow = @ \cup {e}]
    /\ events' = {}
    /\ UNCHANGED <<bound, leaving, conv, mind, job, sleeping, fan, heard>>

\* Defective variant: the guest list changes, the live exchanges go on.
FailsNone(n, e) == UNCHANGED job

FailsGuests(n, e) == FailOn(n, LiveAt(n, e), "Revoked")

TakeRevoke(n, e) ==
    /\ Handles(n, RevokeMsg(e))
    /\ actor' = [actor EXCEPT ![n].allow = @ \ {e}]
    /\ FailsGuests(n, e)
    /\ events' = {}
    /\ UNCHANGED <<bound, leaving, conv, mind, sleeping, fan, heard>>

-----------------------------------------------------------------------------
(* The handler of Deliver *)

Deny(n, p, b) ==
    /\ Handles(n, Deliver(p, b))
    /\ ~Admitted(n, p)
    /\ events' = {DeliveryDenied(n, p)}
    /\ UNCHANGED <<actor, bound, leaving, conv, mind, job, sleeping, fan, heard>>

Hears(n, p, b) == Handles(n, Deliver(p, b)) /\ Admitted(n, p)

TakeAck(n, p, b) ==
    /\ b.is = "ack"
    /\ Hears(n, p, b)
    /\ IF conv[n][p].ack = b.id
       THEN /\ conv' = [conv EXCEPT ![n][p].ack = None]
            /\ sleeping' = [sleeping EXCEPT ![n] = @ \ AckTimer(p, conv[n][p])]
       ELSE UNCHANGED <<conv, sleeping>>
    /\ events' = {}
    /\ UNCHANGED <<actor, bound, leaving, mind, job, fan, heard>>

(* Harness commands; a controller's spawn admits its endpoint alone and    *)
(* has an EchoParty.  A harness may stop itself.                           *)
Spawns(n, b) == b.is = "spawn" /\ actor[n].kind = "Harness" /\ Installable(b.name)

Stops(n, b) == b.is = "stop" /\ actor[n].kind = "Harness" /\ Up(b.name)

Spawn(n, p, b) ==
    /\ Hears(n, p, b)
    /\ Spawns(n, b)
    /\ Started(b.name, [kind |-> "Plain", party |-> "echo", allow |-> {EndpointOf[p]}])

StopByCommand(n, p, b) ==
    /\ Up(n) /\ Stops(n, b) /\ Admitted(n, p)
    /\ job[n] = Resting
    /\ mailbox[n] # <<>> /\ Head(mailbox[n]) = Deliver(p, b)
    /\ Stopped(b.name)
    /\ mailbox' = [mailbox EXCEPT ![n] = Tail(@), ![b.name] = <<>>]

(* A request, a ping, a harness reply, a command that is refused: answered *)
(* or not, nothing kept changes.                                           *)
TakeInert(n, p, b) ==
    /\ Hears(n, p, b)
    /\ b.is \in {"other", "spawn", "stop"} /\ ~Spawns(n, b) /\ ~Stops(n, b)
    /\ events' = {}
    /\ UNCHANGED <<actor, bound, leaving, conv, mind, job, sleeping, fan, heard>>

DropIllegalTurn(n, p, b) ==
    /\ b.is = "turn"
    /\ Hears(n, p, b)
    /\ ~CanReceive(conv[n][p].state, b.turn)
    /\ events' = {IllegalTurnDropped(n, p, ReceiveError(conv[n][p].state, b.turn))}
    /\ UNCHANGED <<actor, bound, leaving, conv, mind, job, sleeping, fan, heard>>

(* A legal turn: every wait is settled, the receipt goes out, the party is *)
(* awaited.                                                                *)
TakeTurn(n, p, b) ==
    /\ b.is = "turn"
    /\ Hears(n, p, b)
    /\ CanReceive(conv[n][p].state, b.turn)
    /\ conv' = [conv EXCEPT ![n][p] = [SettledAll(@) EXCEPT !.state = AfterReceive(b.turn)]]
    /\ Aborts(n, p)
    /\ Becomes(n, Thinking(p, b.turn))
    /\ events' = {}
    /\ UNCHANGED <<actor, bound, leaving, mind, fan, heard>>

(* The party has made up its mind. *)
Answer(n, reply) ==
    LET p == job[n].peer
        t == job[n].turn
        m == IF Stock(n) THEN StockMind(actor[n].party, mind[n][p], t) ELSE mind[n][p]
    IN /\ reply \in AnswersOf(actor[n].party, mind[n][p], t)
       /\ mind' = [mind EXCEPT ![n][p] = m]
       /\ CASE reply = None ->
                 /\ Becomes(n, Resting)
                 /\ events' = {}
                 /\ UNCHANGED <<conv, sleeping>>
            [] reply # None /\ ~CanSend(conv[n][p].state, reply) ->
                 FailExchange(n, p, "IllegalReply", {})
            [] OTHER ->
                 /\ conv' = [conv EXCEPT ![n][p].state = AfterSend(reply)]
                 /\ Becomes(n, Sending(p, reply))
                 /\ events' = {}
                 /\ UNCHANGED sleeping
       /\ UNCHANGED <<actor, bound, leaving, mailbox, fan, heard>>

(* The transport has taken the answer, or refused it.  Only now are waits  *)
(* armed.                                                                  *)
SendReturns(n, ok) ==
    LET p == job[n].peer
        c == ArmedAnew(conv[n][p], job[n].turn)
    IN /\ job[n].do = "send"
       /\ IF ok
          THEN /\ conv' = [conv EXCEPT ![n][p] = c]
               /\ sleeping' = [sleeping EXCEPT ![n] = @ \cup Timers(p, c)]
               /\ Becomes(n, Resting)
               /\ events' = {}
          ELSE FailExchange(n, p, "SendFailed", {})
       /\ UNCHANGED <<actor, bound, leaving, mind, mailbox, fan, heard>>

-----------------------------------------------------------------------------
HandleDelivery(n, p, b) ==
    \/ Deny(n, p, b)
    \/ TakeAck(n, p, b)
    \/ Spawn(n, p, b)
    \/ StopByCommand(n, p, b)
    \/ TakeInert(n, p, b)
    \/ DropIllegalTurn(n, p, b)
    \/ TakeTurn(n, p, b)

Finish(n) ==
    \/ job[n].do = "think" /\ \E reply \in Turn \cup {None} : Answer(n, reply)
    \/ \E ok \in BOOLEAN : SendReturns(n, ok)
    \/ FailNext(n)
    \/ TellParty(n)

HandleReport(n, m) ==
    \/ m.tag = "DeadlineElapsed" /\ TakeElapsed(n, m.report)
    \/ m.tag = "PeerDied" /\ TakePeerDied(n, m.endpoint)
    \/ m.tag = "Admit" /\ TakeAdmit(n, m.endpoint)
    \/ m.tag = "Revoke" /\ TakeRevoke(n, m.endpoint)

HandleNext(n) ==
    /\ job[n] = Resting /\ mailbox[n] # <<>>
    /\ LET m == Head(mailbox[n])
       IN IF m.tag = "Deliver" THEN HandleDelivery(n, m.from, m.body) ELSE HandleReport(n, m)

HostStep(n) == HandleNext(n) \/ Finish(n)

TimerOf(n, p, kind) == \E r \in sleeping[n] : r.peer = p /\ r.kind = kind /\ GoesOff(n, r)

Environment(n) ==
    \/ \E s \in Setups[n] : Install(n, s)
    \/ Stop(n)
    \/ PumpEnds(n)
    \/ \E p \in Peers, b \in Says[n] : Pump(n, p, b)
    \/ \E e \in Managed[n] : Ask(n, AdmitMsg(e)) \/ Ask(n, RevokeMsg(e))

Next ==
    \/ \E n \in Names : HostStep(n) \/ Environment(n)
    \/ \E n \in Names, p \in Peers, kind \in DeadlineCauses : TimerOf(n, p, kind)
    \/ \E e \in Endpoints : HearDeath(e)
    \/ PassOnDeath

SafeSpec == Init /\ [][Next]_vars

(* Hosts are scheduled, the party and the transport answer in the end,     *)
(* aborted pumps are dropped; whoever awaits room in a mailbox gets it in  *)
(* the end (tokio's semaphore serves its waiters in order), which is       *)
(* strong fairness since others may fill the room in between.              *)
Fairness ==
    /\ \A n \in Names : WF_vars(HostStep(n)) /\ WF_vars(PumpEnds(n))
    /\ \A n \in Names, p \in Peers, kind \in DeadlineCauses : SF_vars(TimerOf(n, p, kind))
    /\ SF_vars(PassOnDeath)

Spec == SafeSpec /\ Fairness

-----------------------------------------------------------------------------
ThinkingOf(n, p) == job[n].do = "think" /\ job[n].peer = p
SendingTo(n, p)  == job[n].do = "send" /\ job[n].peer = p
TellingOf(n, p)  == job[n].do = "tell" /\ job[n].peer = p
AboutToFail(n, p) == job[n].do \in {"fail", "tell"} /\ p \in job[n].rest

Reported(n) == {mailbox[n][i].report :
                   i \in {j \in DOMAIN mailbox[n] : mailbox[n][j].tag = "DeadlineElapsed"}}

(* Every conversation waits for a turn exactly when the move is the        *)
(* peer's, and for an ack only of the request now outstanding; only while  *)
(* the transport is awaited has the machine run ahead of its waits.        *)
KameoWaitsFit ==
    \A n \in Names, p \in Peers :
        LET c == conv[n][p] IN
        IF SendingTo(n, p) THEN c.ack = None /\ ~c.turn
        ELSE /\ c.turn <=> Awaiting(c.state)
             /\ c.ack # None => c.state = AwaitingTheirTurn(c.ack)

(* An armed wait is never orphaned: its timer task sleeps, or its report   *)
(* is queued under an epoch the host will still recognise.                 *)
NoVerdictIsLost ==
    \A n \in Names, p \in Peers : Timers(p, conv[n][p]) \subseteq sleeping[n] \cup Reported(n)

(* No timer task outlives its wait (lib.rs 409-413): whatever was settled, *)
(* failed, superseded or stopped has had its task aborted.                 *)
NoTimerOutlivesItsWait ==
    \A n \in Names : sleeping[n] \subseteq UNION {Timers(p, conv[n][p]) : p \in Peers}

(* A live exchange is with an endpoint admitted now, or is about to be     *)
(* failed by the very handler that revoked it: whatever was queued before  *)
(* or after the revocation, when it has resolved no exchange is left       *)
(* (decision 28).                                                          *)
KameoLivePeersAreAdmitted ==
    \A n \in Names, p \in Peers :
        Live(conv[n][p].state) => Up(n) /\ (Admitted(n, p) \/ AboutToFail(n, p))

(* A stock party's shadow is where the host's machine is, whenever the     *)
(* party is not just thinking or being told that the exchange has failed.  *)
KameoShadowsAgree ==
    \A n \in Names, p \in Peers :
        Stock(n) /\ ~ThinkingOf(n, p) /\ ~TellingOf(n, p)
            => mind[n][p].shadow = conv[n][p].state

(* What is in the roster keeps its address: no pump of a stopped           *)
(* predecessor takes it away from the actor installed since.               *)
InstalledIsBound == \A n \in Names : Up(n) => bound[n]

(* A deadline begins to fail an exchange only after the timer armed for    *)
(* its present wait has gone off, whatever reports of older waits are      *)
(* still queued (tests/stale_turn_deadline.rs).                            *)
DeadlineMeansElapsed ==
    [][\A n \in Names, p \in Peers :
          TellingOf(n, p)' /\ job'[n] # job[n] =>
             /\ job'[n].why = "Turn"
                   => conv[n][p].turn /\ TurnTimer(p, conv[n][p]) \cap sleeping[n] = {}
             /\ job'[n].why = "Ack"
                   => conv[n][p].ack # None /\ AckTimer(p, conv[n][p]) \cap sleeping[n] = {}]_vars

FailureEvents(n, p) == {e \in events : e.ev = "ExchangeFailed" /\ e.at = n /\ e.peer = p}

(* An exchange that dies in an actor that is not stopped is owed to the    *)
(* party and to the observer from then on: the host does nothing else      *)
(* until the party has taken the news, the event follows under the cause   *)
(* it died of, and no event comes of anything else.  When it is out,       *)
(* nothing is live and no wait armed, whatever went off meanwhile.         *)
KameoFailuresAreTold ==
    [][\A n \in Names, p \in Peers :
          /\ Live(conv[n][p].state) /\ conv'[n][p].state = Failed => TellingOf(n, p)'
          /\ TellingOf(n, p) =>
                \/ ~Up(n)'
                \/ job'[n] = job[n] /\ FailureEvents(n, p)' = {}
                \/ FailureEvents(n, p)' = {ExchangeFailed(n, p, job[n].why)}
          /\ FailureEvents(n, p)' # {} =>
                /\ TellingOf(n, p)
                /\ ~Live(conv'[n][p].state) /\ Timers(p, conv'[n][p]) = {}]_vars

(* A death fails exchanges of the hosts of its moment only: an actor       *)
(* installed since hears nothing of it, not even under the name of one     *)
(* that was to be told.                                                    *)
OldDeathsSpareNewActors ==
    [][\A n \in Names, p \in Peers :
          ExchangeFailed(n, p, "Disconnected") \in events' => EndpointOf[p] \in heard[n]]_vars

(* The death watch is never stuck behind a full mailbox for good. *)
DeathsArePassedOn == []<>(fan = NoFan)

(* Each conversation of an actor that stays installed is a sequence of     *)
(* exchanges, as Exchange tells them, and its side never waits for ever,   *)
(* whatever the party answers, as long as party and transport return.      *)
Move(n, p) ==
    CASE conv[n][p].state = Idle   -> "nobody"
      [] conv[n][p].state = Failed -> "dead"
      [] Owing(conv[n][p].state)    -> "ours"
      [] Awaiting(conv[n][p].state) -> "theirs"

Promise(n, p) == INSTANCE Exchange WITH move <- Move(n, p)

ImplementsExchanges ==
    /\ \A n \in Names, p \in Peers : Promise(n, p)!Init
    /\ [][\A n \in Names, p \in Peers :
             Up(n) /\ Up(n)' => [Promise(n, p)!Next]_(Move(n, p))]_vars

NobodyWaitsForEver == \A n \in Names, p \in Peers : Promise(n, p)!Patient
=============================================================================
