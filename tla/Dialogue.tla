------------------------------ MODULE Dialogue ------------------------------
(***************************************************************************)
(* A conversation end to end: an application's Phone at endpoint A and an  *)
(* actor of a LocalRuntime at endpoint B, over a MemoryNet that may cut    *)
(* the two off, and with an application that may be killed and come back.  *)
(*                                                                         *)
(* The application is the one EMBEDDING.md describes (and tests drive): it *)
(* races its phone's deadline against its inbox, returns the receipt of    *)
(* every turn that poses a request, and answers what it owes.  The two     *)
(* sides have clocks of their own, and patiences of their own.             *)
(*                                                                         *)
(* Every turn carries, for the properties only, the exchange it was said   *)
(* in: <<how many the application had opened, how often it had returned>>. *)
(***************************************************************************)
EXTENDS Integers, Sequences

CONSTANTS
    RequestIds, None,
    PhoneAck, PhoneTurn,   \* the application's patience
    ActorAck, ActorTurn,   \* the actor's patience
    MaxLate,
    a, b,                  \* the two addresses
    A, B,                  \* their endpoints
    actorName,
    ActorParty,            \* "echo" or "countdown"
    Rounds, AskCycle, AskId,
    PosedId,               \* [1 .. MaxPosed -> RequestIds]: the ids the application uses
    MaxPosed,              \* bound: requests the application poses
    MaxMishaps             \* bound: partitions, kills and revocations

ASSUME TwoSides == a # b /\ A # B
ASSUME PatiencesAreFinite == {PhoneAck, PhoneTurn, ActorAck, ActorTurn, MaxLate} \subseteq Nat
ASSUME PartyIsStock ==
    /\ ActorParty \in {"echo", "countdown"}
    /\ Rounds \in Nat
    /\ AskCycle \in Nat \ {0}
    /\ AskId \in [0 .. AskCycle - 1 -> RequestIds]

(* Decision 23: an id is never used again by who poses requests under it.  *)
ASSUME PosedIdsAreFresh ==
    /\ MaxPosed \in Nat
    /\ PosedId \in [1 .. MaxPosed -> RequestIds]
    /\ \A i, j \in 1 .. MaxPosed : PosedId[i] = PosedId[j] => i = j

VARIABLES
    phone, sending, told, abandoned,              \* Phone
    actor, conv, mind, dead, events, mourned,     \* LocalRuntime
    net, watched, killing, inboxes, owner,        \* MemoryNet
    posed,      \* requests the application has posed
    mishaps,    \* mishaps so far
    lives,      \* how often the application has returned
    aExchange,  \* history: the exchange the phone is in, or was in last
    bExchange   \* history: the exchange the actor is in, or was in last

phoneVars   == <<phone, sending, told, abandoned>>
runtimeVars == <<actor, conv, mind, dead, events, mourned>>
netRest     == <<watched, killing, inboxes, owner>>
netVars     == <<net, netRest>>
history     == <<aExchange, bExchange>>
bounds      == <<posed, mishaps, lives>>
vars        == <<phoneVars, runtimeVars, netVars, bounds, history>>

watch == "runtime's watch"
aInbox == "application's inbox"
bInbox == "actor's inbox"

P == INSTANCE Phone WITH
        AckPatience <- PhoneAck, TurnPatience <- PhoneTurn,
        Endpoints <- {B}, PeerEndpoint <- B, MayAbandon <- FALSE

TheActor == [kind |-> "Plain", party |-> ActorParty, allow |-> {A}]

R == INSTANCE LocalRuntime WITH
        AckPatience <- ActorAck, TurnPatience <- ActorTurn,
        Names <- {actorName}, Peers <- {a}, Endpoints <- {A},
        EndpointOf <- [x \in {a} |-> A],
        Setups <- [n \in {actorName} |-> {TheActor}]

N == INSTANCE MemoryNet WITH
        Addresses <- {a, b}, NetEndpoints <- {A, B},
        HomeOf <- [x \in {a, b} |-> IF x = a THEN A ELSE B],
        ReceiptOf <- [e \in {A, B} |-> IF e = A THEN a ELSE b],
        Watches <- {watch}, Handles <- {aInbox, bInbox}, Nothing <- None

side == conv[actorName][a]

(* What the network carries: a turn, or the receipt of one.                *)
Message ==
         [turn : P!Turn, ack : {None},     x : Nat \X Nat]
    \cup [turn : {None}, ack : RequestIds, x : Nat \X Nat]

Parcel == [from : {a, b}, to : {a, b}, msg : Message]

(* None is neither an id, an instant, a turn nor an address, and it is no  *)
(* mailbox.                                                                *)
ASSUME NoneIsNothingElse ==
    /\ None \notin RequestIds \cup Int \cup {a, b}
    /\ None \notin P!AckWait /\ None \notin P!Turn
    /\ None \notin R!Setup /\ None \notin R!FailureCauses
    /\ None \notin Seq(Parcel)

-----------------------------------------------------------------------------
(* Messages *)
TurnMsg(t, x) == [turn |-> t, ack |-> None, x |-> x]
AckMsg(id, x) == [turn |-> None, ack |-> id, x |-> x]

(* The fast receipt of a turn that poses a request; its fate is ignored by *)
(* both sides.                                                             *)
Receipted(n, f, t, msg) ==
    IF msg.turn.req = None THEN n
    ELSE N!Posted(n, N!Delivery(f, t, AckMsg(msg.turn.req, msg.x)))

Waits(x) == N!Bound(net, x) /\ net.box[x] # <<>>
First(x) == Head(net.box[x]).msg
Taken(x) == [net EXCEPT !.box[x] = Tail(@)]

-----------------------------------------------------------------------------
Init ==
    /\ P!Init
    /\ actor = [n \in {actorName} |-> TheActor]
    /\ conv = [n \in {actorName} |-> R!NoConversations]
    /\ mind = [n \in {actorName} |-> R!NoMemories]
    /\ dead = {} /\ events = {} /\ mourned = [n \in {actorName} |-> {}]
    /\ net = [box |-> [x \in {a, b} |-> <<>>], held |-> <<>>, cut |-> {}]
    /\ watched = [w \in {watch} |-> <<>>]
    /\ killing = {}
    /\ inboxes = [h \in {aInbox, bInbox} |-> IF h = aInbox THEN a ELSE b]
    /\ owner = [x \in {a, b} |-> IF x = a THEN aInbox ELSE bInbox]
    /\ posed = 0 /\ mishaps = 0 /\ lives = 0
    /\ aExchange = <<0, 0>> /\ bExchange = <<0, 0>>

-----------------------------------------------------------------------------
(* The application *)

Running == inboxes[aInbox] # None

Open ==
    /\ Running
    /\ posed < MaxPosed
    /\ P!BeginSend(P!Open(PosedId[posed + 1]))
    /\ posed' = posed + 1
    /\ aExchange' = <<posed + 1, lives>>
    /\ UNCHANGED <<runtimeVars, netVars, mishaps, lives, bExchange>>

AnswerAndAsk ==
    /\ Running
    /\ posed < MaxPosed
    /\ P!BeginSend(P!Continue(phone.state.out, PosedId[posed + 1]))
    /\ posed' = posed + 1
    /\ UNCHANGED <<runtimeVars, netVars, mishaps, lives, history>>

AnswerAndClose ==
    /\ Running
    /\ P!BeginSend(P!Close(phone.state.out))
    /\ UNCHANGED <<runtimeVars, netVars, bounds, history>>

HandOver ==
    LET d == N!Delivery(a, b, TurnMsg(sending, aExchange))
    IN /\ Running
       /\ sending # None
       /\ IF N!Sendable(net, d) THEN P!SendAccepted ELSE P!SendRefused
       /\ net' = N!Posted(net, d)
       /\ UNCHANGED <<runtimeVars, netRest, bounds, history>>

(* An elapsed deadline outranks a queued delivery. *)
AppDeadline ==
    /\ Running
    /\ P!OnDeadlineElapsed
    /\ UNCHANGED <<runtimeVars, netVars, bounds, history>>

AppTurn ==
    /\ Running
    /\ sending = None
    /\ ~P!Overdue(phone)
    /\ Waits(a)
    /\ First(a).turn # None
    /\ net' = Receipted(Taken(a), a, b, First(a))
    /\ \/ P!OnIncoming(First(a).turn)
       \/ ~P!CanReceive(phone.state, First(a).turn) /\ UNCHANGED phoneVars
    /\ UNCHANGED <<runtimeVars, netRest, bounds, history>>

AppAck ==
    /\ Running
    /\ ~P!Overdue(phone)
    /\ Waits(a)
    /\ First(a).ack # None
    /\ net' = Taken(a)
    /\ P!NoteAck(First(a).ack)
    /\ UNCHANGED <<runtimeVars, netRest, bounds, history>>

AppTick == P!Tick /\ UNCHANGED <<runtimeVars, netVars, bounds, history>>

(* The application's mailbox is gone: it gives up its inbox and its phone, *)
(* and may come back with new ones.                                        *)
GoDown ==
    /\ Running
    /\ ~N!Bound(net, a)
    /\ N!DropInbox(aInbox)
    /\ phone' = P!Quiet /\ sending' = None /\ told' = None /\ abandoned' = FALSE
    /\ UNCHANGED <<runtimeVars, bounds, history>>

ComeBack ==
    /\ N!Register(a, aInbox)
    /\ lives' = lives + 1
    /\ UNCHANGED <<phoneVars, runtimeVars, posed, mishaps, history>>

-----------------------------------------------------------------------------
(* The actor: one LocalRuntime::step.  It is alone in its runtime, so a    *)
(* death it takes finds every exchange it concerns: nothing to sweep later. *)

ActorDeath ==
    /\ watched[watch] # <<>>
    /\ R!TakeDeath(actorName, Head(watched[watch]))
    /\ N!HearDeath(watch)
    /\ UNCHANGED <<phoneVars, bounds, history>>

Unalarmed == watched[watch] = <<>>

ActorDeadline ==
    /\ Unalarmed
    /\ R!TakeDeadline(actorName)
    /\ UNCHANGED <<phoneVars, netVars, bounds, history>>

ActorAckOrDenial ==
    /\ Unalarmed
    /\ Waits(b)
    /\ \/ R!Deny(actorName, a)
       \/ First(b).ack # None /\ R!TakeAck(actorName, a, First(b).ack)
       \/ First(b).turn # None /\ R!DropIllegalTurn(actorName, a, First(b).turn)
    /\ net' = Taken(b)
    /\ UNCHANGED <<phoneVars, netRest, bounds, history>>

(* The receipt goes out before the party thinks, the answer after. *)
ActorHearsTurn ==
    LET msg       == First(b)
        reply     == R!StockReply(ActorParty, mind[actorName][a], msg.turn)
        exchange  == IF msg.turn.kind = "Open" THEN msg.x ELSE bExchange
        receipted == Receipted(Taken(b), b, a, msg)
        answer    == N!Delivery(b, a, TurnMsg(reply, exchange))
    IN /\ Unalarmed
       /\ Waits(b)
       /\ msg.turn # None
       /\ R!TakeTurn(actorName, a, msg.turn, reply, N!Sendable(receipted, answer))
       /\ net' = IF reply = None THEN receipted ELSE N!Posted(receipted, answer)
       /\ bExchange' = exchange
       /\ UNCHANGED <<phoneVars, netRest, bounds, aExchange>>

ActorTick == R!Tick /\ UNCHANGED <<phoneVars, netVars, bounds, history>>

-----------------------------------------------------------------------------
(* Mishaps *)
Mishap ==
    /\ mishaps < MaxMishaps
    /\ mishaps' = mishaps + 1
    /\ UNCHANGED <<posed, lives, history>>

CutOff ==
    /\ Mishap
    /\ N!Partition(A, B)
    /\ UNCHANGED <<phoneVars, runtimeVars>>

Mend ==
    /\ net.cut # {}
    /\ N!Heal(A, B)
    /\ UNCHANGED <<phoneVars, runtimeVars, bounds, history>>

KillApp ==
    /\ Mishap
    /\ N!Bound(net, a)
    /\ N!Kill(A)
    /\ UNCHANGED <<phoneVars, runtimeVars>>

KillReported ==
    /\ \E w \in {watch} : N!ReportDeath(w, A)
    /\ UNCHANGED <<phoneVars, runtimeVars, bounds, history>>

RevokeApp ==
    /\ Mishap
    /\ R!Revoke(actorName, A)
    /\ UNCHANGED <<phoneVars, netVars>>

AdmitApp ==
    /\ ~R!Admitted(actorName, a)
    /\ R!Admit(actorName, A)
    /\ UNCHANGED <<phoneVars, netVars, bounds, history>>

-----------------------------------------------------------------------------
Answer == AnswerAndAsk \/ AnswerAndClose

Application ==
    \/ Open \/ Answer \/ HandOver \/ AppDeadline \/ AppTurn \/ AppAck
    \/ AppTick \/ GoDown \/ ComeBack

ActorStep == ActorDeath \/ ActorDeadline \/ ActorAckOrDenial \/ ActorHearsTurn

Mishaps == CutOff \/ Mend \/ KillApp \/ KillReported \/ RevokeApp \/ AdmitApp

Next == Application \/ ActorStep \/ ActorTick \/ Mishaps

SafeSpec == Init /\ [][Next]_vars

(* Both pumps keep pumping, both clocks run, the application answers what  *)
(* it owes.  Nothing says that a partition heals, that a killed            *)
(* application returns, or that a revoked one is admitted again.           *)
Fairness ==
    /\ WF_vars(Answer)
    /\ WF_vars(HandOver)
    /\ WF_vars(AppDeadline \/ AppTurn \/ AppAck \/ GoDown)
    /\ WF_vars(AppTick)
    /\ WF_vars(ActorStep)
    /\ WF_vars(ActorTick)
    /\ WF_vars(KillReported)

Spec == SafeSpec /\ Fairness

-----------------------------------------------------------------------------
(* An answer either side accepts was said in the exchange that side is in: *)
(* with ids that are not used twice, no late answer, held back by a        *)
(* partition or meant for an earlier life, is ever taken for the answer to *)
(* a newer request (decision 23: stragglers "fall to id mismatch").        *)
AnswersBelong ==
    [][/\ AppTurn /\ phone' # phone => First(a).x = aExchange
       /\ ActorHearsTurn /\ First(b).turn.kind # "Open" => First(b).x = bExchange]_vars

(* When the two are live in the same exchange and nothing is under way     *)
(* between them, they agree on whose move it is and on the request that is *)
(* to be answered.                                                         *)
NothingUnderWay ==
    /\ sending = None
    /\ N!Bound(net, a)
    /\ net.held = <<>>
    /\ \A x \in {a, b} : ~Waits(x)

QuietMeansAgreed ==
    /\ NothingUnderWay
    /\ aExchange = bExchange
    /\ P!Live(phone.state) /\ P!Live(side.state)
    => /\ phone.state.out = side.state.out
       /\ P!Owing(phone.state) <=> P!Awaiting(side.state)

(* Whatever was lost, cut off, killed or revoked, both sides come to rest: *)
(* no exchange stays live for ever on either side.                         *)
BothComeToRest == <>[](~P!Live(phone.state) /\ ~P!Live(side.state))
=============================================================================
