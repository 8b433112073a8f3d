---------------------------- MODULE KameoProofs ----------------------------
(***************************************************************************)
(* Theorems about the concurrent runtime, for any actors, peers, mailboxes *)
(* and bodies said to them.                                                *)
(*                                                                         *)
(* KameoInv says what is true of every host between two steps of whatever  *)
(* handler it is in the middle of: who is reachable (RosterOk), which task *)
(* belongs to which armed wait (TimersOk), which deaths are of the host's  *)
(* own time (MailOk), and where each conversation stands (Talk), one that  *)
(* has failed and whose party is yet to be told included.  A step touches  *)
(* one host, two for a harness command; Locally and TwoHosts put the       *)
(* others aside, OneTalk the other conversations of that host.             *)
(*                                                                         *)
(* QueueInv adds how old a queued report can be: the epoch cycle is longer *)
(* than any mailbox, so that an epoch names one round of waits.            *)
(***************************************************************************)
EXTENDS KameoRuntime, ProtocolTheorems, SequenceTheorems

-----------------------------------------------------------------------------
(* The invariant's parts                                                   *)

(* What a mailbox holds.                                                   *)
In(q) == {q[i] : i \in DOMAIN q}

(* Up is reachable, and nothing is left of a host that is not.             *)
RosterOk(n) ==
    /\ Up(n) => bound[n] /\ ~leaving[n]
    /\ leaving[n] => bound[n]
    /\ ~Up(n) => mailbox[n] = <<>> /\ job[n] = Resting

(* Timer tasks and armed waits belong together.                            *)
TimersOk(n) ==
    /\ \A r \in sleeping[n] : r \in Timers(r.peer, conv[n][r.peer])
    /\ \A p \in Peers : \A r \in Timers(p, conv[n][p]) :
          r \in sleeping[n] \/ Elapsed(r) \in In(mailbox[n])

(* Exchanges are failed one after another for no deadline; the deaths they *)
(* are failed for are of the host's own time...                            *)
Knows(n) ==
    \A p \in Peers :
        /\ AboutToFail(n, p) => job[n].why \notin DeadlineCauses
        /\ (AboutToFail(n, p) \/ TellingOf(n, p)) /\ job[n].why = "Disconnected"
              => EndpointOf[p] \in heard[n]

(* ... and so are those queued.                                            *)
MailOk(n) ==
    /\ \A m \in In(mailbox[n]) :
          /\ m.tag = "PeerDied" => m.endpoint \in heard[n]
          /\ m.tag = "DeadlineElapsed" /\ m.report.kind = "Ack" => m.report.id \in RequestIds
    /\ Knows(n)

Fits(n, p) ==
    LET c == conv[n][p] IN
    IF SendingTo(n, p) THEN c.ack = None /\ ~c.turn
    ELSE /\ c.turn <=> Awaiting(c.state)
         /\ c.ack # None => c.state = AwaitingTheirTurn(c.ack)

(* A conversation between two steps, inside the handler of a turn, and     *)
(* while the party is told that it has failed.                             *)
Talk(n, p) ==
    /\ Fits(n, p)
    /\ Live(conv[n][p].state) => Up(n) /\ (Admitted(n, p) \/ AboutToFail(n, p))
    /\ Stock(n) /\ ~ThinkingOf(n, p) /\ ~TellingOf(n, p)
          => mind[n][p].shadow = conv[n][p].state
    /\ TellingOf(n, p) =>
          /\ ~Live(conv[n][p].state)
          /\ Stock(n) => Fail(mind[n][p].shadow) = conv[n][p].state
    /\ ThinkingOf(n, p) =>
          /\ Admitted(n, p)
          /\ conv[n][p].ack = None /\ conv[n][p].turn = FALSE
          /\ conv[n][p].state = AfterReceive(job[n].turn)
          /\ Stock(n) => CanReceive(mind[n][p].shadow, job[n].turn)
    /\ SendingTo(n, p) => Admitted(n, p) /\ conv[n][p].state = AfterSend(job[n].turn)

HostOk(n) == RosterOk(n) /\ TimersOk(n) /\ MailOk(n) /\ \A p \in Peers : Talk(n, p)

(* Only hosts of the moment are still to be told of a death.               *)
FanInv ==
    fan # NoFan =>
        /\ fan.now \notin fan.rest
        /\ \A n \in {fan.now} \cup fan.rest : Up(n) /\ fan.endpoint \in heard[n]

KameoInv == KameoTypeOK /\ FanInv /\ \A n \in Names : HostOk(n)

SameHost(k) ==
    /\ actor'[k] = actor[k] /\ bound'[k] = bound[k] /\ leaving'[k] = leaving[k]
    /\ conv'[k] = conv[k] /\ mind'[k] = mind[k] /\ job'[k] = job[k]
    /\ mailbox'[k] = mailbox[k] /\ sleeping'[k] = sleeping[k] /\ heard'[k] = heard[k]

-----------------------------------------------------------------------------
(* Mailboxes                                                               *)

LEMMA PostedMail ==
    ASSUME NEW q \in Seq(Message), NEW m \in Message
    PROVE  Append(q, m) \in Seq(Message) /\ In(Append(q, m)) = In(q) \cup {m}
  <1>1. Append(q, m) \in Seq(Message)
    BY AppendProperties
  <1>2. /\ DOMAIN Append(q, m) = 1 .. Len(q) + 1 /\ DOMAIN q = 1 .. Len(q) /\ Len(q) \in Nat
        /\ \A i \in 1 .. Len(q) : Append(q, m)[i] = q[i]
        /\ Append(q, m)[Len(q) + 1] = m
    BY AppendProperties
  <1>3. In(Append(q, m)) = In(q) \cup {m}
    BY <1>2 DEF In
  <1>4. QED
    BY <1>1, <1>3

LEMMA TakenMail ==
    ASSUME NEW q \in Seq(Message), q # <<>>
    PROVE  /\ Head(q) \in Message /\ Tail(q) \in Seq(Message)
           /\ In(q) = In(Tail(q)) \cup {Head(q)}
  <1>1. Head(q) \in Message /\ Tail(q) \in Seq(Message)
    BY HeadTailProperties
  <1>2. /\ DOMAIN q = 1 .. Len(q) /\ Len(q) \in Nat \ {0} /\ Head(q) = q[1]
        /\ DOMAIN Tail(q) = 1 .. Len(q) - 1
        /\ \A i \in 1 .. Len(q) - 1 : Tail(q)[i] = q[i + 1]
    BY HeadTailProperties
  <1>3. ASSUME NEW x \in In(q) PROVE x \in In(Tail(q)) \cup {Head(q)}
    <2>1. PICK i \in 1 .. Len(q) : x = q[i]
      BY <1>2, <1>3 DEF In
    <2>2. CASE i = 1
      BY <1>2, <2>1, <2>2
    <2>3. CASE i # 1
      <3>1. i - 1 \in 1 .. Len(q) - 1 /\ Tail(q)[i - 1] = x
        BY <1>2, <2>1, <2>3
      <3>2. QED
        BY <1>2, <3>1 DEF In
    <2>4. QED
      BY <2>2, <2>3
  <1>4. ASSUME NEW x \in In(Tail(q)) \cup {Head(q)} PROVE x \in In(q)
    <2>1. CASE x = Head(q)
      BY <1>2, <2>1 DEF In
    <2>2. CASE x \in In(Tail(q))
      <3>1. PICK i \in 1 .. Len(q) - 1 : x = Tail(q)[i]
        BY <1>2, <2>2 DEF In
      <3>2. i + 1 \in 1 .. Len(q) /\ x = q[i + 1]
        BY <1>2, <3>1
      <3>3. QED
        BY <1>2, <3>2 DEF In
    <2>3. QED
      BY <1>4, <2>1, <2>2
  <1>5. QED
    BY <1>1, <1>3, <1>4

LEMMA NoMail == <<>> \in Seq(Message) /\ In(<<>>) = {}
  BY DEF In

(* What each message and body carries.                                     *)
LEMMA MessageKinds ==
    /\ \A p \in Peers, b \in Body : Deliver(p, b) \in Message
    /\ \A r \in Report : Elapsed(r) \in Message
    /\ \A e \in Endpoints : /\ PeerDied(e) \in Message
                            /\ AdmitMsg(e) \in Message
                            /\ RevokeMsg(e) \in Message
    /\ \A m \in Message :
          /\ m.tag \in {"Deliver", "DeadlineElapsed", "PeerDied", "Admit", "Revoke"}
          /\ m.tag = "Deliver" => m.from \in Peers /\ m.body \in Body
          /\ m.tag = "DeadlineElapsed" => m.report \in Report /\ m = Elapsed(m.report)
          /\ m.tag \in {"PeerDied", "Admit", "Revoke"} => m.endpoint \in Endpoints
    /\ \A b \in Body : b.is = "turn" => b.turn \in Turn
    /\ \A b \in Body : b.is \in {"spawn", "stop"} => b.name \in Names
  <1>1. /\ \A p \in Peers, b \in Body : Deliver(p, b) \in Message
        /\ \A r \in Report : Elapsed(r) \in Message
        /\ \A e \in Endpoints : /\ PeerDied(e) \in Message
                                /\ AdmitMsg(e) \in Message
                                /\ RevokeMsg(e) \in Message
    BY DEF Message, Deliver, Elapsed, PeerDied, AdmitMsg, RevokeMsg
  <1>2. ASSUME NEW m \in Message
        PROVE  /\ m.tag \in {"Deliver", "DeadlineElapsed", "PeerDied", "Admit", "Revoke"}
               /\ m.tag = "Deliver" => m.from \in Peers /\ m.body \in Body
               /\ m.tag = "DeadlineElapsed" => m.report \in Report /\ m = Elapsed(m.report)
               /\ m.tag \in {"PeerDied", "Admit", "Revoke"} => m.endpoint \in Endpoints
    BY DEF Message, Elapsed
  <1>3. ASSUME NEW b \in Body
        PROVE  /\ b.is = "turn" => b.turn \in Turn
               /\ b.is \in {"spawn", "stop"} => b.name \in Names
    BY DEF Body
  <1>4. QED
    BY <1>1, <1>2, <1>3

LEMMA JobKinds ==
    /\ Resting \in Job /\ Resting.do = "rest"
    /\ \A p \in Peers, t \in Turn :
          /\ Thinking(p, t) \in Job /\ Thinking(p, t).do = "think"
          /\ Thinking(p, t).peer = p /\ Thinking(p, t).turn = t
          /\ Sending(p, t) \in Job /\ Sending(p, t).do = "send"
          /\ Sending(p, t).peer = p /\ Sending(p, t).turn = t
    /\ \A ps \in SUBSET Peers, why \in FailureCauses :
          /\ Failing(ps, why) \in Job /\ Failing(ps, why).do = "fail"
          /\ Failing(ps, why).rest = ps /\ Failing(ps, why).why = why
    /\ \A p \in Peers, ps \in SUBSET Peers, why \in FailureCauses :
          /\ Telling(p, why, ps) \in Job /\ Telling(p, why, ps).do = "tell"
          /\ Telling(p, why, ps).peer = p
          /\ Telling(p, why, ps).rest = ps /\ Telling(p, why, ps).why = why
    /\ \A j \in Job :
          /\ j.do \in {"rest", "think", "send", "fail", "tell"}
          /\ j.do = "rest" => j = Resting
          /\ j.do \in {"think", "send"} => j.peer \in Peers /\ j.turn \in Turn
          /\ j.do \in {"fail", "tell"} => j.rest \in SUBSET Peers /\ j.why \in FailureCauses
          /\ j.do = "tell" => j.peer \in Peers
  <1>1. Resting \in Job /\ Resting.do = "rest"
    BY DEF Job, Resting
  <1>2. \A p \in Peers, t \in Turn :
           /\ Thinking(p, t) \in Job /\ Thinking(p, t).do = "think"
           /\ Thinking(p, t).peer = p /\ Thinking(p, t).turn = t
           /\ Sending(p, t) \in Job /\ Sending(p, t).do = "send"
           /\ Sending(p, t).peer = p /\ Sending(p, t).turn = t
    BY DEF Job, Thinking, Sending
  <1>3. \A ps \in SUBSET Peers, why \in FailureCauses :
           /\ Failing(ps, why) \in Job /\ Failing(ps, why).do = "fail"
           /\ Failing(ps, why).rest = ps /\ Failing(ps, why).why = why
    BY DEF Job, Failing
  <1>4. \A p \in Peers, ps \in SUBSET Peers, why \in FailureCauses :
           /\ Telling(p, why, ps) \in Job /\ Telling(p, why, ps).do = "tell"
           /\ Telling(p, why, ps).peer = p
           /\ Telling(p, why, ps).rest = ps /\ Telling(p, why, ps).why = why
    BY DEF Job, Telling
  <1>5. ASSUME NEW j \in Job
        PROVE  /\ j.do \in {"rest", "think", "send", "fail", "tell"}
               /\ j.do = "rest" => j = Resting
               /\ j.do \in {"think", "send"} => j.peer \in Peers /\ j.turn \in Turn
               /\ j.do \in {"fail", "tell"} => j.rest \in SUBSET Peers /\ j.why \in FailureCauses
               /\ j.do = "tell" => j.peer \in Peers
    BY DEF Job, Resting
  <1>6. QED
    BY <1>1, <1>2, <1>3, <1>4, <1>5

-----------------------------------------------------------------------------
(* A conversation's record and its timers                                  *)

LEMMA FreshWaits ==
    ASSUME NEW n \in Names
    PROVE  Fresh \in PeerWaits /\ ~Live(Fresh.state) /\ \A p \in Peers : Timers(p, Fresh) = {}
  BY EpochsOutlastMailboxes
     DEF Fresh, PeerWaits, Idle, TurnState, Live, Awaiting, Owing, Timers, AckTimer, TurnTimer

LEMMA EpochsCycle ==
    ASSUME NEW n \in Names, NEW c \in PeerWaits
    PROVE  NextEpoch(c) \in 0 .. EpochCycle - 1
  <1>1. EpochCycle \in Nat \ {0} /\ c.epoch \in Nat
    BY EpochsOutlastMailboxes DEF PeerWaits
  <1>2. QED
    BY <1>1 DEF NextEpoch

LEMMA FailedWaits ==
    ASSUME NEW n \in Names, NEW c \in PeerWaits
    PROVE  /\ FailedConv(c) \in PeerWaits
           /\ FailedConv(c).state = Fail(c.state)
           /\ FailedConv(c).ack = None /\ FailedConv(c).turn = FALSE
           /\ \A p \in Peers : Timers(p, FailedConv(c)) = {}
  <1>1. /\ FailedConv(c) \in PeerWaits
        /\ FailedConv(c).state = Fail(c.state)
        /\ FailedConv(c).ack = None /\ FailedConv(c).turn = FALSE
    BY EpochsCycle, FailMove DEF FailedConv, SettledAll, PeerWaits
  <1>2. QED
    BY <1>1 DEF Timers, AckTimer, TurnTimer

LEMMA ArmedWaits ==
    ASSUME NEW n \in Names, NEW c \in PeerWaits, NEW t \in Turn, c.ack = None
    PROVE  /\ ArmedAnew(c, t) \in PeerWaits
           /\ ArmedAnew(c, t).state = c.state
           /\ ArmedAnew(c, t).ack = t.req
           /\ ArmedAnew(c, t).turn <=> t.kind # "Close"
  BY EpochsCycle, TurnHalves DEF ArmedAnew, PeerWaits

(* A timer task is one of the record's own exactly when the host would     *)
(* still recognise its report.                                             *)
LEMMA TimerKinds ==
    ASSUME NEW c \in PeerWaits, NEW p \in Peers
    PROVE  /\ Timers(p, c) \subseteq Report
           /\ \A r \in Timers(p, c) : r.peer = p /\ StillPending(c, r)
           /\ \A r \in Timers(p, c) : r.kind = "Ack" => r.id \in RequestIds
           /\ c.ack = None /\ c.turn = FALSE => Timers(p, c) = {}
           /\ AckTimer(p, c) \subseteq Timers(p, c) /\ TurnTimer(p, c) \subseteq Timers(p, c)
  BY NoneIsNoId
     DEF Timers, AckTimer, TurnTimer, AckReport, TurnReport, Report, DeadlineCauses,
         PeerWaits, StillPending

-----------------------------------------------------------------------------
(* Types                                                                   *)

LEMMA InitType == Init => KameoTypeOK
  <1> SUFFICES ASSUME Init PROVE KameoTypeOK
    OBVIOUS
  <1>1. conv \in [Names -> [Peers -> PeerWaits]]
    BY FreshWaits DEF Init
  <1>2. QED
    BY <1>1, FreshMindType, NoMail, JobKinds DEF Init, KameoTypeOK

(* Handling a message takes it out of the mailbox.                         *)
LEMMA HandlesMail ==
    ASSUME KameoTypeOK, NEW n \in Names, NEW m, Handles(n, m)
    PROVE  /\ m \in Message /\ Up(n) /\ job[n] = Resting
           /\ mailbox' \in [Names -> Seq(Message)]
           /\ mailbox' = [mailbox EXCEPT ![n] = Tail(mailbox[n])]
           /\ In(mailbox[n]) = In(mailbox'[n]) \cup {m}
           /\ \A k \in Names \ {n} : mailbox'[k] = mailbox[k]
  <1>1. mailbox[n] \in Seq(Message) /\ mailbox[n] # <<>> /\ m = Head(mailbox[n])
    BY DEF KameoTypeOK, Handles
  <1>2. mailbox' = [mailbox EXCEPT ![n] = Tail(mailbox[n])]
    BY DEF Handles
  <1>3. QED
    BY <1>1, <1>2, TakenMail DEF KameoTypeOK, Handles

LEMMA PostType ==
    ASSUME KameoTypeOK, NEW n \in Names, NEW m \in Message, Post(n, m)
    PROVE  /\ mailbox' \in [Names -> Seq(Message)]
           /\ In(mailbox'[n]) = In(mailbox[n]) \cup {m}
           /\ \A k \in Names \ {n} : mailbox'[k] = mailbox[k]
  <1>1. mailbox[n] \in Seq(Message) /\ mailbox' = [mailbox EXCEPT ![n] = Append(mailbox[n], m)]
    BY DEF KameoTypeOK, Post
  <1>2. QED
    BY <1>1, PostedMail DEF KameoTypeOK

LEMMA EventTypes ==
    ASSUME NEW n \in Names, NEW p \in Peers
    PROVE  /\ \A cause \in FailureCauses : ExchangeFailed(n, p, cause) \in Event
           /\ DeliveryDenied(n, p) \in Event
           /\ \A error \in TurnErrors : IllegalTurnDropped(n, p, error) \in Event
  BY DEF Event, ExchangeFailed, DeliveryDenied, IllegalTurnDropped

(* Fans yields a death to pass on to these hosts, or none.                 *)
LEMMA FansType ==
    ASSUME NEW e \in Endpoints, NEW hosts \in SUBSET Names, NEW f \in Fans(e, hosts)
    PROVE  /\ f \in {NoFan} \cup [endpoint : Endpoints, now : Names, rest : SUBSET Names]
           /\ f # NoFan => /\ f.endpoint = e /\ f.now \notin f.rest
                           /\ f.now \in hosts /\ f.rest \subseteq hosts
  BY DEF Fans

LEMMA BlankType ==
    ASSUME KameoTypeOK, NEW n \in Names, NEW setup \in Setup \cup {None}, Blank(n, setup)
    PROVE  /\ actor' \in [Names -> Setup \cup {None}]
           /\ conv' \in [Names -> [Peers -> PeerWaits]]
           /\ mind' \in [Names -> [Peers -> Mind]]
           /\ job' \in [Names -> Job]
           /\ sleeping' \in [Names -> SUBSET Report]
           /\ heard' \in [Names -> SUBSET Endpoints]
  BY FreshWaits, FreshMindType, JobKinds DEF KameoTypeOK, Blank

LEMMA RefsType ==
    ASSUME KameoTypeOK, NEW n \in Names, RefsDie(n)
    PROVE  /\ fan' \in {NoFan} \cup [endpoint : Endpoints, now : Names, rest : SUBSET Names]
           /\ fan' # NoFan =>
                 /\ fan # NoFan /\ fan'.endpoint = fan.endpoint
                 /\ {fan'.now} \cup fan'.rest \subseteq {fan.now} \cup fan.rest
                 /\ fan.now \notin fan.rest =>
                       fan'.now \notin fan'.rest /\ n \notin {fan'.now} \cup fan'.rest
  <1>1. CASE fan.now = n
    <2>1. fan # NoFan /\ fan.endpoint \in Endpoints /\ fan.rest \in SUBSET Names
      BY <1>1, NoneIsNobody DEF KameoTypeOK, NoFan
    <2>2. fan' \in Fans(fan.endpoint, fan.rest)
      BY <1>1 DEF RefsDie
    <2>3. QED
      BY <1>1, <2>1, <2>2, FansType
  <1>2. CASE fan.now # n
    <2>1. fan' = [fan EXCEPT !.rest = @ \ {n}]
      BY <1>2 DEF RefsDie
    <2>2. CASE fan = NoFan
      BY <2>1, <2>2 DEF NoFan
    <2>3. CASE fan # NoFan
      <3>1. fan \in [endpoint : Endpoints, now : Names, rest : SUBSET Names]
        BY <2>3 DEF KameoTypeOK
      <3>2. QED
        BY <1>2, <2>1, <2>3, <3>1
    <2>4. QED
      BY <2>2, <2>3
  <1>3. QED
    BY <1>1, <1>2

(* Stopping and starting. *)
LEMMA StoppedType ==
    ASSUME KameoTypeOK, NEW n \in Names, Stopped(n),
           mailbox' \in [Names -> Seq(Message)]
    PROVE  KameoTypeOK'
  BY BlankType, RefsType DEF Stopped, KameoTypeOK

LEMMA StartedType ==
    ASSUME KameoTypeOK, NEW n \in Names, NEW setup \in Setup, Started(n, setup),
           mailbox' \in [Names -> Seq(Message)]
    PROVE  KameoTypeOK'
  BY BlankType DEF Started, KameoTypeOK

LEMMA PumpEndsType ==
    ASSUME KameoTypeOK, NEW n \in Names, PumpEnds(n)
    PROVE  KameoTypeOK'
  BY DEF PumpEnds, KameoTypeOK, hostVars

LEMMA PumpType ==
    ASSUME KameoTypeOK, NEW n \in Names, NEW p \in Peers, NEW b \in Body, Pump(n, p, b)
    PROVE  KameoTypeOK'
  BY MessageKinds, PostType DEF Pump, KameoTypeOK

LEMMA AskType ==
    ASSUME KameoTypeOK, NEW n \in Names, NEW m \in Message, Ask(n, m)
    PROVE  KameoTypeOK'
  BY PostType DEF Ask, KameoTypeOK

LEMMA GoesOffType ==
    ASSUME KameoTypeOK, NEW n \in Names, NEW r \in Report, GoesOff(n, r)
    PROVE  KameoTypeOK'
  BY MessageKinds, PostType DEF GoesOff, KameoTypeOK

LEMMA HearDeathType ==
    ASSUME KameoTypeOK, NEW e \in Endpoints, HearDeath(e)
    PROVE  KameoTypeOK'
  <1>1. {n \in Names : Up(n)} \in SUBSET Names
    OBVIOUS
  <1>2. fan' \in {NoFan} \cup [endpoint : Endpoints, now : Names, rest : SUBSET Names]
    BY <1>1, FansType DEF HearDeath
  <1>3. heard' \in [Names -> SUBSET Endpoints]
    BY DEF HearDeath, KameoTypeOK
  <1>4. QED
    BY <1>2, <1>3 DEF HearDeath, KameoTypeOK, hostVars

LEMMA FanIsOfNames ==
    ASSUME KameoTypeOK, fan # NoFan
    PROVE  fan.endpoint \in Endpoints /\ fan.now \in Names /\ fan.rest \in SUBSET Names
  BY DEF KameoTypeOK

LEMMA PassOnDeathType ==
    ASSUME KameoTypeOK, PassOnDeath
    PROVE  KameoTypeOK'
  <1>1. fan.endpoint \in Endpoints /\ fan.now \in Names /\ fan.rest \in SUBSET Names
    BY FanIsOfNames DEF PassOnDeath
  <1>2. fan' \in {NoFan} \cup [endpoint : Endpoints, now : Names, rest : SUBSET Names]
    BY <1>1, FansType DEF PassOnDeath
  <1>3. mailbox' \in [Names -> Seq(Message)]
    BY <1>1, MessageKinds, PostType DEF PassOnDeath
  <1>4. QED
    BY <1>2, <1>3 DEF PassOnDeath, KameoTypeOK

-----------------------------------------------------------------------------
(* What a step leaves of the invariant                                     *)

LEMMA OtherHosts ==
    ASSUME NEW k \in Names, HostOk(k), SameHost(k)
    PROVE  HostOk(k)'
  <1>1. RosterOk(k)' /\ TimersOk(k)' /\ MailOk(k)'
    BY DEF HostOk, SameHost, RosterOk, TimersOk, MailOk, Up, Knows, AboutToFail, TellingOf
  <1>2. ASSUME NEW p \in Peers PROVE Talk(k, p)'
    BY DEF HostOk, SameHost, Talk, Fits, Up, Stock, Admitted, AboutToFail,
       ThinkingOf, SendingTo, TellingOf
  <1>3. QED
    BY <1>1, <1>2 DEF HostOk

LEMMA Locally ==
    ASSUME KameoInv, KameoTypeOK', FanInv', NEW n \in Names, HostOk(n)',
           \A k \in Names \ {n} : SameHost(k)
    PROVE  KameoInv'
  BY OtherHosts DEF KameoInv

(* No host of a death under way goes. *)
LEMMA FanStays ==
    ASSUME KameoInv, UNCHANGED fan,
           \A k \in Names : Up(k) => Up(k)' /\ heard'[k] = heard[k]
    PROVE  FanInv'
  <1>1. fan # NoFan => fan.now \in Names /\ fan.rest \in SUBSET Names
    BY FanIsOfNames DEF KameoInv
  <1>2. QED
    BY <1>1 DEF KameoInv, FanInv

(* A conversation the step has nothing to do with.                         *)
LEMMA OtherTalk ==
    ASSUME NEW n \in Names, NEW q \in Peers, Talk(n, q), Up(n),
           actor'[n] # None, actor'[n].party = actor[n].party,
           actor[n].allow \subseteq actor'[n].allow,
           conv'[n][q] = conv[n][q], mind'[n][q] = mind[n][q],
           ~ThinkingOf(n, q), ~ThinkingOf(n, q)', ~SendingTo(n, q), ~SendingTo(n, q)',
           ~TellingOf(n, q), ~TellingOf(n, q)',
           AboutToFail(n, q) => AboutToFail(n, q)'
    PROVE  Talk(n, q)'
  <1>1. (conv[n][q].state)' = conv[n][q].state
    OBVIOUS
  <1>2. Fits(n, q)'
    BY DEF Talk, Fits
  <1>3. Live(conv[n][q].state)' => Up(n)' /\ (Admitted(n, q)' \/ AboutToFail(n, q)')
    BY DEF Talk, Live, Awaiting, Owing, Up, Admitted
  <1>4. Stock(n)' => (mind[n][q].shadow)' = (conv[n][q].state)'
    BY DEF Talk, Stock, Up
  <1>5. QED
    BY <1>2, <1>3, <1>4 DEF Talk

(* Messages are taken that concern no conversation.                        *)
LEMMA StillHost ==
    ASSUME KameoTypeOK, NEW n \in Names, HostOk(n), Up(n),
           actor'[n] # None, actor'[n].party = actor[n].party,
           actor[n].allow \subseteq actor'[n].allow,
           bound'[n] = bound[n], leaving'[n] = leaving[n], conv'[n] = conv[n],
           mind'[n] = mind[n], job'[n] = job[n], sleeping'[n] = sleeping[n],
           heard'[n] = heard[n],
           In(mailbox'[n]) \subseteq In(mailbox[n]),
           \A r \in Report : Elapsed(r) \in In(mailbox[n]) /\ StillPending(conv[n][r.peer], r)
                                => Elapsed(r) \in In(mailbox'[n])
    PROVE  HostOk(n)'
  <1>1. RosterOk(n)'
    BY DEF HostOk, RosterOk, Up
  <1>2. TimersOk(n)'
    <2>1. ASSUME NEW p \in Peers, NEW r \in Timers(p, conv[n][p])
          PROVE  r \in Report /\ r.peer = p /\ StillPending(conv[n][p], r)
      <3>1. conv[n][p] \in PeerWaits
        BY DEF KameoTypeOK
      <3>2. QED
        BY <2>1, <3>1, TimerKinds
    <2>2. TimersOk(n)
      BY DEF HostOk
    <2>3. QED
      BY <2>1, <2>2 DEF TimersOk
  <1>3. MailOk(n)'
    BY DEF HostOk, MailOk, Knows, AboutToFail, TellingOf
  <1>4. ASSUME NEW p \in Peers PROVE Talk(n, p)'
    BY DEF HostOk, Talk, Fits, Up, Stock, Admitted, AboutToFail,
       ThinkingOf, SendingTo, TellingOf
  <1>5. QED
    BY <1>1, <1>2, <1>3, <1>4 DEF HostOk

LEMMA StillInv ==
    ASSUME KameoInv, KameoTypeOK', NEW n \in Names, Up(n),
           actor'[n] # None, actor'[n].party = actor[n].party,
           actor[n].allow \subseteq actor'[n].allow,
           UNCHANGED <<bound, leaving, conv, mind, job, sleeping, heard, fan>>,
           \A k \in Names \ {n} : actor'[k] = actor[k] /\ mailbox'[k] = mailbox[k],
           In(mailbox'[n]) \subseteq In(mailbox[n]),
           \A r \in Report : Elapsed(r) \in In(mailbox[n]) /\ StillPending(conv[n][r.peer], r)
                                => Elapsed(r) \in In(mailbox'[n])
    PROVE  KameoInv'
  <1>1. HostOk(n)'
    BY StillHost DEF KameoInv
  <1>2. FanInv'
    BY FanStays DEF Up
  <1>3. QED
    BY <1>1, <1>2, Locally DEF SameHost

LEMMA DeliverKeepsReports ==
    ASSUME KameoTypeOK, NEW n \in Names, NEW m, Handles(n, m), m.tag # "DeadlineElapsed"
    PROVE  /\ In(mailbox'[n]) \subseteq In(mailbox[n])
           /\ \A r \in Report : Elapsed(r) \in In(mailbox[n]) => Elapsed(r) \in In(mailbox'[n])
  <1>1. In(mailbox[n]) = In(mailbox'[n]) \cup {m}
    BY HandlesMail
  <1>2. \A r \in Report : Elapsed(r) # m
    BY DEF Elapsed
  <1>3. QED
    BY <1>1, <1>2

LEMMA QuietDeliveryInv ==
    ASSUME KameoInv, NEW n \in Names, NEW p \in Peers, NEW b \in Body,
           Deny(n, p, b) \/ TakeInert(n, p, b) \/ DropIllegalTurn(n, p, b)
    PROVE  KameoInv'
  <1>1. /\ Handles(n, Deliver(p, b))
        /\ UNCHANGED <<actor, bound, leaving, conv, mind, job, sleeping, fan, heard>>
    BY DEF Deny, TakeInert, DropIllegalTurn, Hears
  <1>2. events' \subseteq Event
    <2>1. CASE Deny(n, p, b) \/ TakeInert(n, p, b)
      BY <2>1, EventTypes DEF Deny, TakeInert
    <2>2. CASE DropIllegalTurn(n, p, b)
      <3>1. ReceiveError(conv[n][p].state, b.turn) \in TurnErrors
        <4>1. conv[n][p].state \in TurnState
          BY DEF KameoInv, KameoTypeOK, PeerWaits
        <4>2. QED
          BY <4>1, StateKinds DEF ReceiveError, TurnErrors, Awaiting, Owing
      <3>2. QED
        BY <2>2, <3>1, EventTypes DEF DropIllegalTurn
    <2>3. QED
      BY <2>1, <2>2
  <1>3. KameoTypeOK'
    BY <1>1, <1>2, HandlesMail DEF KameoInv, KameoTypeOK
  <1>4. QED
    BY <1>1, <1>3, HandlesMail, DeliverKeepsReports, StillInv
       DEF KameoInv, KameoTypeOK, Deliver, Up

LEMMA TakeAdmitInv ==
    ASSUME KameoInv, NEW n \in Names, NEW e \in Endpoints, TakeAdmit(n, e)
    PROVE  KameoInv'
  <1>1. /\ Handles(n, AdmitMsg(e)) /\ Up(n)
        /\ UNCHANGED <<bound, leaving, conv, mind, job, sleeping, fan, heard>>
    BY DEF TakeAdmit, Handles
  <1>2. actor[n] \in Setup
    BY <1>1 DEF KameoInv, KameoTypeOK, Up
  <1> DEFINE s == [actor[n] EXCEPT !.allow = actor[n].allow \cup {e}]
  <1>3. s \in Setup /\ s.party = actor[n].party /\ actor[n].allow \subseteq s.allow
    BY <1>2 DEF Setup
  <1>4. actor' = [actor EXCEPT ![n] = s]
    BY DEF TakeAdmit
  <1> HIDE DEF s
  <1>5. /\ actor' \in [Names -> Setup \cup {None}] /\ actor'[n] = s
        /\ \A k \in Names \ {n} : actor'[k] = actor[k]
    BY <1>3, <1>4 DEF KameoInv, KameoTypeOK
  <1>6. KameoTypeOK'
    BY <1>1, <1>5, HandlesMail DEF TakeAdmit, KameoInv, KameoTypeOK
  <1>7. s # None
    BY <1>3, NoneIsNoSetup
  <1>8. QED
    BY <1>1, <1>3, <1>5, <1>6, <1>7, HandlesMail, DeliverKeepsReports, StillInv
       DEF KameoInv, AdmitMsg

-----------------------------------------------------------------------------
(* What fills mailboxes                                                    *)

LEMMA PostInv ==
    ASSUME KameoInv, KameoTypeOK', FanInv', NEW n \in Names, NEW m \in Message, Up(n), Post(n, m),
           m.tag # "DeadlineElapsed", m.tag = "PeerDied" => m.endpoint \in heard[n],
           UNCHANGED <<actor, bound, leaving, conv, mind, job, sleeping, heard>>
    PROVE  KameoInv'
  <1>1. /\ In(mailbox'[n]) = In(mailbox[n]) \cup {m}
        /\ \A k \in Names \ {n} : mailbox'[k] = mailbox[k]
    BY PostType DEF KameoInv
  <1>2. RosterOk(n)'
    BY DEF KameoInv, HostOk, RosterOk, Up
  <1>3. TimersOk(n)'
    BY <1>1 DEF KameoInv, HostOk, TimersOk
  <1>4. MailOk(n)'
    BY <1>1 DEF KameoInv, HostOk, MailOk, Knows, AboutToFail, TellingOf
  <1>5. ASSUME NEW p \in Peers PROVE Talk(n, p)'
    BY DEF KameoInv, HostOk, Talk, Fits, Up, Stock, Admitted, AboutToFail,
       ThinkingOf, SendingTo, TellingOf
  <1>6. QED
    BY <1>1, <1>2, <1>3, <1>4, <1>5, Locally DEF HostOk, SameHost

LEMMA PumpInv ==
    ASSUME KameoInv, NEW n \in Names, NEW p \in Peers, NEW b \in Body, Pump(n, p, b)
    PROVE  KameoInv'
  <1>1. Deliver(p, b) \in Message /\ Deliver(p, b).tag = "Deliver"
    BY MessageKinds DEF Deliver
  <1>2. KameoTypeOK'
    BY PumpType DEF KameoInv
  <1>3. FanInv'
    BY FanStays DEF Pump, Up
  <1>4. QED
    BY <1>1, <1>2, <1>3, PostInv DEF Pump, Room

LEMMA AskInv ==
    ASSUME KameoInv, NEW n \in Names, NEW e \in Endpoints,
           Ask(n, AdmitMsg(e)) \/ Ask(n, RevokeMsg(e))
    PROVE  KameoInv'
  <1>1. PICK m \in {AdmitMsg(e), RevokeMsg(e)} : Ask(n, m)
    OBVIOUS
  <1>2. m \in Message /\ m.tag \in {"Admit", "Revoke"}
    BY MessageKinds DEF AdmitMsg, RevokeMsg
  <1>3. KameoTypeOK'
    BY <1>1, <1>2, AskType DEF KameoInv
  <1>4. FanInv'
    BY <1>1, FanStays DEF Ask, Up
  <1>5. QED
    BY <1>1, <1>2, <1>3, <1>4, PostInv DEF Ask, Room

LEMMA PassOnDeathInv ==
    ASSUME KameoInv, PassOnDeath
    PROVE  KameoInv'
  <1>1. /\ fan # NoFan /\ fan.endpoint \in Endpoints /\ fan.now \in Names
        /\ fan.rest \in SUBSET Names
        /\ \A n \in {fan.now} \cup fan.rest : Up(n) /\ fan.endpoint \in heard[n]
    BY FanIsOfNames DEF PassOnDeath, KameoInv, FanInv
  <1> DEFINE n == fan.now
             m == PeerDied(fan.endpoint)
  <1>2. m \in Message /\ m.tag = "PeerDied" /\ m.endpoint \in heard[n]
    BY <1>1, MessageKinds DEF PeerDied
  <1>3. KameoTypeOK'
    BY PassOnDeathType DEF KameoInv
  <1>4. FanInv'
    <2>1. fan' # NoFan => /\ fan'.endpoint = fan.endpoint /\ fan'.now \notin fan'.rest
                          /\ fan'.now \in fan.rest /\ fan'.rest \subseteq fan.rest
      BY <1>1, FansType DEF PassOnDeath
    <2>2. QED
      BY <1>1, <2>1 DEF PassOnDeath, FanInv, Up
  <1>5. Post(n, m) /\ Up(n) /\ UNCHANGED <<actor, bound, leaving, conv, mind, job, sleeping, heard>>
    BY <1>1 DEF PassOnDeath
  <1> HIDE DEF m, n
  <1>6. n \in Names
    BY <1>1 DEF n
  <1>7. QED
    BY <1>2, <1>3, <1>4, <1>5, <1>6, PostInv

LEMMA GoesOffInv ==
    ASSUME KameoInv, NEW n \in Names, NEW r \in Report, GoesOff(n, r)
    PROVE  KameoInv'
  <1>1. KameoTypeOK'
    BY GoesOffType DEF KameoInv
  <1>2. /\ In(mailbox'[n]) = In(mailbox[n]) \cup {Elapsed(r)}
        /\ \A k \in Names \ {n} : mailbox'[k] = mailbox[k]
    BY PostType, MessageKinds DEF GoesOff, KameoInv
  <1>3. /\ r \in sleeping[n] /\ sleeping'[n] = sleeping[n] \ {r} /\ Up(n)
        /\ \A k \in Names \ {n} : sleeping'[k] = sleeping[k]
        /\ UNCHANGED <<actor, bound, leaving, conv, mind, job, fan, heard>>
    BY DEF GoesOff, KameoInv, KameoTypeOK, Room
  <1>4. RosterOk(n)'
    BY <1>3 DEF KameoInv, HostOk, RosterOk, Up
  <1>5. TimersOk(n)'
    BY <1>2, <1>3 DEF KameoInv, HostOk, TimersOk
  <1>6. MailOk(n)'
    <2>1. r.peer \in Peers /\ conv[n][r.peer] \in PeerWaits
      BY DEF Report, KameoInv, KameoTypeOK
    <2>2. r \in Timers(r.peer, conv[n][r.peer])
      BY <1>3 DEF KameoInv, HostOk, TimersOk
    <2>3. r.kind = "Ack" => r.id \in RequestIds
      BY <2>1, <2>2, TimerKinds
    <2>4. Elapsed(r).tag = "DeadlineElapsed" /\ Elapsed(r).report = r
      BY DEF Elapsed
    <2>5. QED
      BY <1>2, <1>3, <2>3, <2>4 DEF KameoInv, HostOk, MailOk, Knows, AboutToFail, TellingOf
  <1>7. ASSUME NEW p \in Peers PROVE Talk(n, p)'
    BY <1>3 DEF KameoInv, HostOk, Talk, Fits, Up, Stock, Admitted, AboutToFail,
       ThinkingOf, SendingTo, TellingOf
  <1>8. FanInv'
    BY <1>3, FanStays DEF Up
  <1>9. QED
    BY <1>1, <1>2, <1>3, <1>4, <1>5, <1>6, <1>7, <1>8, Locally DEF HostOk, SameHost

LEMMA HearDeathInv ==
    ASSUME KameoInv, NEW e \in Endpoints, HearDeath(e)
    PROVE  KameoInv'
  <1>1. KameoTypeOK'
    BY HearDeathType DEF KameoInv
  <1>2. \A n \in Names : heard[n] \subseteq heard'[n] /\ (Up(n) => e \in heard'[n])
    BY DEF HearDeath, KameoInv, KameoTypeOK
  <1>3. UNCHANGED <<actor, bound, leaving, conv, mind, job, mailbox, sleeping>>
    BY DEF HearDeath, hostVars
  <1>4. FanInv'
    <2>1. fan' # NoFan => /\ fan'.endpoint = e /\ fan'.now \notin fan'.rest
                          /\ \A n \in {fan'.now} \cup fan'.rest : n \in Names /\ Up(n)
      BY FansType DEF HearDeath
    <2>2. QED
      BY <1>2, <1>3, <2>1 DEF FanInv, Up
  <1>5. ASSUME NEW n \in Names PROVE HostOk(n)'
    <2>1. RosterOk(n)' /\ TimersOk(n)'
      BY <1>3 DEF KameoInv, HostOk, RosterOk, TimersOk, Up
    <2>2. MailOk(n)'
      BY <1>2, <1>3 DEF KameoInv, HostOk, MailOk, Knows, AboutToFail, TellingOf
    <2>3. ASSUME NEW p \in Peers PROVE Talk(n, p)'
      BY <1>3 DEF KameoInv, HostOk, Talk, Fits, Up, Stock, Admitted, AboutToFail,
       ThinkingOf, SendingTo, TellingOf
    <2>4. QED
      BY <2>1, <2>2, <2>3 DEF HostOk
  <1>6. QED
    BY <1>1, <1>4, <1>5 DEF KameoInv

LEMMA PumpEndsInv ==
    ASSUME KameoInv, NEW n \in Names, PumpEnds(n)
    PROVE  KameoInv'
  <1>1. KameoTypeOK'
    BY PumpEndsType DEF KameoInv
  <1>2. /\ leaving[n] /\ leaving'[n] = FALSE /\ bound'[n] = FALSE
        /\ \A k \in Names \ {n} : leaving'[k] = leaving[k] /\ bound'[k] = bound[k]
        /\ UNCHANGED <<actor, conv, mind, job, mailbox, sleeping, fan, heard>>
    BY DEF PumpEnds, hostVars, KameoInv, KameoTypeOK
  <1>3. RosterOk(n)'
    BY <1>2 DEF KameoInv, HostOk, RosterOk, Up
  <1>4. TimersOk(n)' /\ MailOk(n)'
    BY <1>2 DEF KameoInv, HostOk, TimersOk, MailOk, Knows, AboutToFail, TellingOf
  <1>5. ASSUME NEW p \in Peers PROVE Talk(n, p)'
    BY <1>2 DEF KameoInv, HostOk, Talk, Fits, Up, Stock, Admitted, AboutToFail,
       ThinkingOf, SendingTo, TellingOf
  <1>6. FanInv'
    BY <1>2, FanStays DEF Up
  <1>7. QED
    BY <1>1, <1>2, <1>3, <1>4, <1>5, <1>6, Locally DEF HostOk, SameHost

-----------------------------------------------------------------------------
(* Hosts that come and go                                                  *)

LEMMA BlankHost ==
    ASSUME KameoTypeOK, NEW n \in Names, NEW setup, Blank(n, setup)
    PROVE  /\ actor'[n] = setup /\ sleeping'[n] = {} /\ heard'[n] = {} /\ job'[n] = Resting
           /\ \A p \in Peers : conv'[n][p] = Fresh /\ mind'[n][p] = FreshMind
           /\ \A k \in Names \ {n} :
                 /\ actor'[k] = actor[k] /\ conv'[k] = conv[k] /\ mind'[k] = mind[k]
                 /\ job'[k] = job[k] /\ sleeping'[k] = sleeping[k] /\ heard'[k] = heard[k]
  BY DEF KameoTypeOK, Blank

(* Nothing of another host is left behind.                                 *)
LEMMA BlankOk ==
    ASSUME KameoTypeOK, NEW n \in Names, NEW setup, Blank(n, setup),
           mailbox'[n] = <<>>, RosterOk(n)'
    PROVE  HostOk(n)'
  <1>1. /\ sleeping'[n] = {} /\ job'[n] = Resting
        /\ \A p \in Peers : conv'[n][p] = Fresh /\ mind'[n][p] = FreshMind
    BY BlankHost
  <1>2. TimersOk(n)'
    <2>1. ASSUME NEW p \in Peers PROVE Timers(p, conv[n][p])' = {}
      <3>1. Timers(p, conv[n][p])' = Timers(p, conv'[n][p])
        BY DEF Timers, AckTimer, TurnTimer, AckReport, TurnReport
      <3>2. QED
        BY <1>1, <3>1, FreshWaits
    <2>2. QED
      BY <1>1, <2>1 DEF TimersOk
  <1>3. MailOk(n)'
    BY <1>1, NoMail, JobKinds DEF MailOk, Knows, AboutToFail, TellingOf
  <1>4. ASSUME NEW p \in Peers PROVE Talk(n, p)'
    <2>1. (job[n].do)' = "rest"
      BY <1>1, JobKinds
    <2>2. Fits(n, p)'
      BY <1>1, <2>1 DEF Fits, SendingTo, Fresh, Idle, Awaiting
    <2>3. ~Live(conv'[n][p].state) /\ mind'[n][p].shadow = conv'[n][p].state
      BY <1>1, FreshWaits DEF Fresh, FreshMind
    <2>4. QED
      BY <2>1, <2>2, <2>3 DEF Talk, ThinkingOf, SendingTo, TellingOf, Live, Awaiting, Owing
  <1>5. QED
    BY <1>2, <1>3, <1>4 DEF HostOk

(* The host that stops, and the death under way.                           *)
LEMMA StoppedHost ==
    ASSUME KameoInv, NEW n \in Names, Stopped(n), mailbox'[n] = <<>>
    PROVE  /\ HostOk(n)'
           /\ FanInv'
           /\ \A k \in Names \ {n} :
                 /\ actor'[k] = actor[k] /\ conv'[k] = conv[k] /\ mind'[k] = mind[k]
                 /\ job'[k] = job[k] /\ sleeping'[k] = sleeping[k] /\ heard'[k] = heard[k]
                 /\ bound'[k] = bound[k] /\ leaving'[k] = leaving[k]
  <1>1. /\ Up(n) /\ Blank(n, None) /\ RefsDie(n) /\ bound' = bound
        /\ leaving'[n] = TRUE /\ \A k \in Names \ {n} : leaving'[k] = leaving[k]
    BY DEF Stopped, KameoInv, KameoTypeOK
  <1>2. /\ actor'[n] = None /\ job'[n] = Resting
        /\ \A k \in Names \ {n} :
              /\ actor'[k] = actor[k] /\ conv'[k] = conv[k] /\ mind'[k] = mind[k]
              /\ job'[k] = job[k] /\ sleeping'[k] = sleeping[k] /\ heard'[k] = heard[k]
    BY <1>1, BlankHost DEF KameoInv
  <1>3. RosterOk(n)'
    BY <1>1, <1>2 DEF KameoInv, HostOk, RosterOk, Up
  <1>4. HostOk(n)'
    BY <1>1, <1>3, BlankOk DEF KameoInv
  <1>5. FanInv'
    <2>1. fan' # NoFan =>
             /\ fan # NoFan /\ fan'.endpoint = fan.endpoint
             /\ {fan'.now} \cup fan'.rest \subseteq {fan.now} \cup fan.rest
             /\ fan.now \notin fan.rest =>
                   fan'.now \notin fan'.rest /\ n \notin {fan'.now} \cup fan'.rest
      BY <1>1, RefsType DEF KameoInv
    <2>2. fan # NoFan => /\ fan.now \notin fan.rest
                         /\ fan.now \in Names /\ fan.rest \in SUBSET Names
                         /\ \A k \in {fan.now} \cup fan.rest : Up(k) /\ fan.endpoint \in heard[k]
      BY FanIsOfNames DEF KameoInv, FanInv
    <2>3. QED
      BY <1>2, <2>1, <2>2 DEF FanInv, Up
  <1>6. QED
    BY <1>1, <1>2, <1>4, <1>5

LEMMA StartedHost ==
    ASSUME KameoInv, NEW n \in Names, NEW setup \in Setup, Started(n, setup), mailbox'[n] = mailbox[n]
    PROVE  /\ HostOk(n)'
           /\ FanInv'
           /\ \A k \in Names \ {n} :
                 /\ actor'[k] = actor[k] /\ conv'[k] = conv[k] /\ mind'[k] = mind[k]
                 /\ job'[k] = job[k] /\ sleeping'[k] = sleeping[k] /\ heard'[k] = heard[k]
                 /\ bound'[k] = bound[k] /\ leaving'[k] = leaving[k]
  <1>1. /\ ~Up(n) /\ ~bound[n] /\ Blank(n, setup) /\ leaving' = leaving /\ fan' = fan
        /\ bound'[n] = TRUE /\ \A k \in Names \ {n} : bound'[k] = bound[k]
    BY DEF Started, Installable, KameoInv, KameoTypeOK
  <1>2. /\ actor'[n] = setup /\ job'[n] = Resting
        /\ \A k \in Names \ {n} :
              /\ actor'[k] = actor[k] /\ conv'[k] = conv[k] /\ mind'[k] = mind[k]
              /\ job'[k] = job[k] /\ sleeping'[k] = sleeping[k] /\ heard'[k] = heard[k]
    BY <1>1, BlankHost DEF KameoInv
  <1>3. ~leaving[n] /\ mailbox[n] = <<>>
    BY <1>1 DEF KameoInv, HostOk, RosterOk
  <1>4. setup # None
    BY NoneIsNoSetup
  <1>5. RosterOk(n)'
    BY <1>1, <1>2, <1>3, <1>4 DEF RosterOk, Up
  <1>6. HostOk(n)'
    BY <1>1, <1>3, <1>5, BlankOk DEF KameoInv
  <1>7. FanInv'
    <2>1. fan # NoFan => /\ fan.now \notin fan.rest
                         /\ fan.now \in Names /\ fan.rest \in SUBSET Names
                         /\ \A k \in {fan.now} \cup fan.rest : Up(k) /\ fan.endpoint \in heard[k]
      BY FanIsOfNames DEF KameoInv, FanInv
    <2>2. QED
      BY <1>1, <1>2, <2>1 DEF FanInv, Up
  <1>8. QED
    BY <1>1, <1>2, <1>6, <1>7

LEMMA InstallInv ==
    ASSUME KameoInv, NEW n \in Names, NEW setup \in Setup, Install(n, setup)
    PROVE  KameoInv'
  <1>1. Started(n, setup) /\ mailbox' = mailbox
    BY DEF Install
  <1>2. KameoTypeOK'
    BY <1>1, StartedType DEF KameoInv, KameoTypeOK
  <1>3. QED
    BY <1>1, <1>2, StartedHost, Locally DEF SameHost

LEMMA StopInv ==
    ASSUME KameoInv, NEW n \in Names, Stop(n)
    PROVE  KameoInv'
  <1>1. /\ Stopped(n) /\ mailbox'[n] = <<>> /\ mailbox' \in [Names -> Seq(Message)]
        /\ \A k \in Names \ {n} : mailbox'[k] = mailbox[k]
    BY NoMail DEF Stop, KameoInv, KameoTypeOK
  <1>2. KameoTypeOK'
    BY <1>1, StoppedType DEF KameoInv
  <1>3. QED
    BY <1>1, <1>2, StoppedHost, Locally DEF SameHost

(* Two hosts are touched: the commanded one and the harness, which only    *)
(* loses the command from its mailbox.                                     *)
LEMMA TwoHosts ==
    ASSUME KameoInv, KameoTypeOK', FanInv', NEW n \in Names, NEW w \in Names,
           HostOk(n)', HostOk(w)', \A k \in Names \ {n, w} : SameHost(k)
    PROVE  KameoInv'
  BY OtherHosts DEF KameoInv

LEMMA SpawnInv ==
    ASSUME KameoInv, NEW n \in Names, NEW p \in Peers, NEW b \in Body, Spawn(n, p, b)
    PROVE  KameoInv'
  <1>1. Handles(n, Deliver(p, b)) /\ b.is = "spawn" /\ ~Up(b.name)
    BY DEF Spawn, Hears, Spawns, Installable
  <1> DEFINE w == b.name
             s == [kind |-> "Plain", party |-> "echo", allow |-> {EndpointOf[p]}]
  <1>2. w \in Names /\ s \in Setup /\ Started(w, s) /\ ~Up(w)
    BY <1>1, MessageKinds, PeersLiveAtEndpoints DEF Setup, Spawn
  <1>3. Deliver(p, b).tag # "DeadlineElapsed"
    BY DEF Deliver
  <1> HIDE DEF w, s
  <1>4. /\ Up(n) /\ mailbox' \in [Names -> Seq(Message)]
        /\ \A k \in Names \ {n} : mailbox'[k] = mailbox[k]
        /\ In(mailbox'[n]) \subseteq In(mailbox[n])
        /\ \A r \in Report : Elapsed(r) \in In(mailbox[n]) => Elapsed(r) \in In(mailbox'[n])
    BY <1>1, <1>3, HandlesMail, DeliverKeepsReports DEF KameoInv
  <1>5. w # n /\ mailbox'[w] = mailbox[w]
    BY <1>2, <1>4
  <1>6. KameoTypeOK'
    BY <1>2, <1>4, StartedType DEF KameoInv
  <1>7. /\ HostOk(w)' /\ FanInv'
        /\ \A k \in Names \ {w} :
              /\ actor'[k] = actor[k] /\ conv'[k] = conv[k] /\ mind'[k] = mind[k]
              /\ job'[k] = job[k] /\ sleeping'[k] = sleeping[k] /\ heard'[k] = heard[k]
              /\ bound'[k] = bound[k] /\ leaving'[k] = leaving[k]
    BY <1>2, <1>5, StartedHost
  <1>8. HostOk(n)'
    <2>1. actor'[n] = actor[n] /\ actor[n] # None
      BY <1>4, <1>5, <1>7 DEF Up
    <2>2. QED
      BY <1>4, <1>5, <1>7, <2>1, StillHost DEF KameoInv
  <1>9. QED
    BY <1>2, <1>4, <1>6, <1>7, <1>8, TwoHosts DEF SameHost

LEMMA StopByCommandInv ==
    ASSUME KameoInv, NEW n \in Names, NEW p \in Peers, NEW b \in Body, StopByCommand(n, p, b)
    PROVE  KameoInv'
  <1> DEFINE w == b.name
  <1>1. b.is = "stop"
    BY DEF StopByCommand, Stops
  <1>2. w \in Names /\ Stopped(w)
    BY <1>1, MessageKinds DEF StopByCommand
  <1>3. /\ Up(n) /\ job[n] = Resting /\ mailbox[n] # <<>> /\ Head(mailbox[n]) = Deliver(p, b)
        /\ mailbox' = [mailbox EXCEPT ![n] = Tail(mailbox[n]), ![w] = <<>>]
    BY DEF StopByCommand
  <1> HIDE DEF w
  <1>4. mailbox[n] \in Seq(Message) /\ Tail(mailbox[n]) \in Seq(Message)
    BY <1>3, TakenMail DEF KameoInv, KameoTypeOK
  <1>5. /\ mailbox' \in [Names -> Seq(Message)] /\ mailbox'[w] = <<>>
        /\ \A k \in Names \ {n, w} : mailbox'[k] = mailbox[k]
        /\ n # w => mailbox'[n] = Tail(mailbox[n])
    BY <1>2, <1>3, <1>4, NoMail DEF KameoInv, KameoTypeOK
  <1>6. KameoTypeOK'
    BY <1>2, <1>5, StoppedType DEF KameoInv
  <1>7. /\ HostOk(w)' /\ FanInv'
        /\ \A k \in Names \ {w} :
              /\ actor'[k] = actor[k] /\ conv'[k] = conv[k] /\ mind'[k] = mind[k]
              /\ job'[k] = job[k] /\ sleeping'[k] = sleeping[k] /\ heard'[k] = heard[k]
              /\ bound'[k] = bound[k] /\ leaving'[k] = leaving[k]
    BY <1>2, <1>5, StoppedHost
  <1>8. CASE n = w
    BY <1>2, <1>5, <1>6, <1>7, <1>8, Locally DEF SameHost
  <1>9. CASE n # w
    <2>1. In(mailbox[n]) = In(mailbox'[n]) \cup {Deliver(p, b)}
      BY <1>3, <1>4, <1>5, <1>9, TakenMail
    <2>2. \A r \in Report : Elapsed(r) # Deliver(p, b)
      BY DEF Elapsed, Deliver
    <2>3. actor'[n] = actor[n] /\ actor[n] # None
      BY <1>3, <1>7, <1>9 DEF Up
    <2>4. HostOk(n)'
      BY <1>3, <1>7, <1>9, <2>1, <2>2, <2>3, StillHost DEF KameoInv
    <2>5. QED
      BY <1>2, <1>5, <1>6, <1>7, <2>4, TwoHosts DEF SameHost
  <1>10. QED
    BY <1>8, <1>9

-----------------------------------------------------------------------------
(* Steps of one conversation                                               *)

(* Waits of p's are settled, their tasks aborted.                          *)
LEMMA TimersSettled ==
    ASSUME KameoTypeOK, KameoTypeOK', NEW n \in Names, NEW p \in Peers, TimersOk(n),
           NEW gone \in SUBSET Timers(p, conv[n][p]),
           sleeping'[n] = sleeping[n] \ gone,
           Timers(p, conv'[n][p]) = Timers(p, conv[n][p]) \ gone,
           \A q \in Peers \ {p} : conv'[n][q] = conv[n][q],
           \A q \in Peers : \A r \in Timers(q, conv'[n][q]) :
              Elapsed(r) \in In(mailbox[n]) => Elapsed(r) \in In(mailbox'[n])
    PROVE  TimersOk(n)'
  <1>1. /\ \A q \in Peers \ {p} : Timers(q, conv'[n][q]) = Timers(q, conv[n][q])
        /\ Timers(p, conv'[n][p]) = Timers(p, conv[n][p]) \ gone
    OBVIOUS
  <1>2. ASSUME NEW q \in Peers, NEW r \in Timers(q, conv[n][q]) PROVE r.peer = q
    <2>1. conv[n][q] \in PeerWaits
      BY DEF KameoTypeOK
    <2>2. QED
      BY <1>2, <2>1, TimerKinds
  <1>3. ASSUME NEW r \in sleeping'[n] PROVE r \in Timers(r.peer, conv'[n][r.peer])
    <2>1. /\ r \in sleeping[n] /\ r \notin gone /\ r.peer \in Peers
          /\ r \in Timers(r.peer, conv[n][r.peer])
      BY <1>3 DEF TimersOk, KameoTypeOK, Report
    <2>2. QED
      BY <1>1, <2>1
  <1>4. ASSUME NEW q \in Peers, NEW r \in Timers(q, conv'[n][q])
        PROVE  r \in sleeping'[n] \/ Elapsed(r) \in In(mailbox'[n])
    <2>1. r \in Timers(q, conv[n][q]) /\ r \notin gone
      BY <1>1, <1>2, <1>4
    <2>2. r \in sleeping[n] \/ Elapsed(r) \in In(mailbox[n])
      BY <2>1 DEF TimersOk
    <2>3. QED
      BY <1>4, <2>1, <2>2
  <1>5. QED
    BY <1>3, <1>4 DEF TimersOk, Timers, AckTimer, TurnTimer, AckReport, TurnReport

(* One conversation moves; the host may set out to do something else.      *)
LEMMA OneTalk ==
    ASSUME KameoInv, KameoTypeOK', NEW n \in Names, NEW p \in Peers, Up(n),
           UNCHANGED <<actor, bound, leaving, fan, heard>>,
           \A q \in Peers \ {p} : conv'[n][q] = conv[n][q] /\ mind'[n][q] = mind[n][q],
           \A k \in Names \ {n} :
              /\ conv'[k] = conv[k] /\ mind'[k] = mind[k] /\ job'[k] = job[k]
              /\ mailbox'[k] = mailbox[k] /\ sleeping'[k] = sleeping[k],
           In(mailbox'[n]) \subseteq In(mailbox[n]),
           TimersOk(n)', Talk(n, p)',
           \A q \in Peers \ {p} :
              /\ ~ThinkingOf(n, q) /\ ~ThinkingOf(n, q)'
              /\ ~SendingTo(n, q) /\ ~SendingTo(n, q)'
              /\ ~TellingOf(n, q) /\ ~TellingOf(n, q)'
              /\ AboutToFail(n, q) => AboutToFail(n, q)',
           Knows(n)'
    PROVE  KameoInv'
  <1>1. RosterOk(n)'
    BY DEF KameoInv, HostOk, RosterOk, Up
  <1>2. MailOk(n)'
    BY DEF KameoInv, HostOk, MailOk
  <1>3. ASSUME NEW q \in Peers PROVE Talk(n, q)'
    <2>1. CASE q = p
      BY <2>1
    <2>2. CASE q # p
      <3>1. Talk(n, q)
        BY DEF KameoInv, HostOk
      <3>2. actor'[n] = actor[n] /\ actor'[n] # None
        BY DEF Up
      <3>3. QED
        BY <2>2, <3>1, <3>2, OtherTalk
    <2>3. QED
      BY <2>1, <2>2
  <1>4. FanInv'
    BY FanStays DEF Up
  <1>5. QED
    BY <1>1, <1>2, <1>3, <1>4, Locally DEF HostOk, SameHost

(* A resting host is in the middle of nobody's exchange.                   *)
LEMMA RestingIsIdle ==
    ASSUME NEW n \in Names, job[n] = Resting, NEW q \in Peers
    PROVE  ~ThinkingOf(n, q) /\ ~SendingTo(n, q) /\ ~AboutToFail(n, q) /\ ~TellingOf(n, q)
  BY JobKinds DEF ThinkingOf, SendingTo, TellingOf, AboutToFail

LEMMA RestingThen ==
    ASSUME NEW n \in Names, job'[n] = Resting, NEW q \in Peers
    PROVE  ~ThinkingOf(n, q)' /\ ~SendingTo(n, q)' /\ ~AboutToFail(n, q)' /\ ~TellingOf(n, q)'
  BY JobKinds DEF ThinkingOf, SendingTo, TellingOf, AboutToFail

(* Nobody is being failed: nothing is owed to a death. *)
LEMMA KnowsNobody ==
    ASSUME NEW n \in Names,
           \A q \in Peers : ~AboutToFail(n, q)' /\ ~TellingOf(n, q)'
    PROVE  Knows(n)'
  BY DEF Knows

(* What fail_exchange does to the record, the timers and the handler.      *)
LEMMA FailExchangeDoes ==
    ASSUME KameoTypeOK, NEW n \in Names, NEW p \in Peers, NEW cause \in FailureCauses,
           NEW rest \in SUBSET Peers, FailExchange(n, p, cause, rest)
    PROVE  /\ conv' \in [Names -> [Peers -> PeerWaits]]
           /\ sleeping' \in [Names -> SUBSET Report]
           /\ job' \in [Names -> Job]
           /\ events' = {}
           /\ conv'[n][p] = FailedConv(conv[n][p])
           /\ Timers(p, conv'[n][p]) = {}
           /\ sleeping'[n] = sleeping[n] \ Timers(p, conv[n][p])
           /\ job'[n].do = "tell" /\ job'[n].peer = p
           /\ job'[n].rest = rest /\ job'[n].why = cause
           /\ \A q \in Peers \ {p} : conv'[n][q] = conv[n][q]
           /\ \A k \in Names \ {n} : /\ conv'[k] = conv[k] /\ job'[k] = job[k]
                                     /\ sleeping'[k] = sleeping[k]
  <1> DEFINE c == FailedConv(conv[n][p])
             j == Telling(p, cause, rest)
  <1>1. conv[n][p] \in PeerWaits
    BY DEF KameoTypeOK
  <1>2. c \in PeerWaits /\ Timers(p, c) = {}
    BY <1>1, FailedWaits
  <1>3. /\ j \in Job /\ j.do = "tell" /\ j.peer = p /\ j.rest = rest /\ j.why = cause
    BY JobKinds
  <1>4. /\ conv' = [conv EXCEPT ![n][p] = c]
        /\ sleeping' = [sleeping EXCEPT ![n] = sleeping[n] \ Timers(p, conv[n][p])]
        /\ job' = [job EXCEPT ![n] = j]
        /\ events' = {}
    BY DEF FailExchange, Aborts, Becomes
  <1> HIDE DEF c, j
  <1>5. /\ conv' \in [Names -> [Peers -> PeerWaits]] /\ conv'[n][p] = c
        /\ \A q \in Peers \ {p} : conv'[n][q] = conv[n][q]
        /\ \A k \in Names \ {n} : conv'[k] = conv[k]
    BY <1>2, <1>4 DEF KameoTypeOK
  <1>6. /\ sleeping' \in [Names -> SUBSET Report]
        /\ sleeping'[n] = sleeping[n] \ Timers(p, conv[n][p])
        /\ \A k \in Names \ {n} : sleeping'[k] = sleeping[k]
    BY <1>4 DEF KameoTypeOK
  <1>7. /\ job' \in [Names -> Job] /\ job'[n] = j
        /\ \A k \in Names \ {n} : job'[k] = job[k]
    BY <1>3, <1>4 DEF KameoTypeOK
  <1>8. QED
    BY <1>2, <1>3, <1>4, <1>5, <1>6, <1>7 DEF c

(* The conversation fail_exchange leaves: dead, and a stock party's shadow *)
(* will be so too when it has been told.                                   *)
LEMMA FailedTalk ==
    ASSUME KameoTypeOK, NEW n \in Names, NEW p \in Peers, Up(n),
           conv'[n][p] = FailedConv(conv[n][p]), actor' = actor,
           Stock(n) => Fail(mind'[n][p].shadow) = Fail(conv[n][p].state),
           ~ThinkingOf(n, p)', ~SendingTo(n, p)', TellingOf(n, p)'
    PROVE  Talk(n, p)'
  <1>1. /\ conv[n][p] \in PeerWaits /\ conv[n][p].state \in TurnState
    BY DEF KameoTypeOK, PeerWaits
  <1>2. /\ conv'[n][p].state = Fail(conv[n][p].state)
        /\ conv'[n][p].ack = None /\ conv'[n][p].turn = FALSE
    BY <1>1, FailedWaits
  <1>3. ~Live(conv'[n][p].state)
    BY <1>1, <1>2, FailMove
  <1>4. Fits(n, p)'
    BY <1>2, <1>3 DEF Fits, Live, Awaiting
  <1>5. (Stock(n) => Fail(mind[n][p].shadow) = conv[n][p].state)'
    BY <1>2 DEF Stock, Up, Fail, Live, Awaiting, Owing
  <1>6. ~(Live(conv[n][p].state)')
    BY <1>3 DEF Live, Awaiting, Owing
  <1>7. QED
    BY <1>4, <1>5, <1>6 DEF Talk

(* The step that begins to fail an exchange, in whatever handler: others   *)
(* that were to be failed still are.                                       *)
LEMMA FailExchangeInv ==
    ASSUME KameoInv, NEW n \in Names, NEW p \in Peers, NEW cause \in FailureCauses,
           NEW rest \in SUBSET Peers,
           Up(n), FailExchange(n, p, cause, rest),
           UNCHANGED <<actor, bound, leaving, fan, heard>>,
           mailbox' \in [Names -> Seq(Message)], mind' \in [Names -> [Peers -> Mind]],
           Stock(n) => Fail(mind'[n][p].shadow) = Fail(conv[n][p].state),
           \A q \in Peers \ {p} : mind'[n][q] = mind[n][q],
           \A k \in Names \ {n} : mailbox'[k] = mailbox[k] /\ mind'[k] = mind[k],
           In(mailbox'[n]) \subseteq In(mailbox[n]),
           \A q \in Peers \ {p} : \A r \in Timers(q, conv[n][q]) :
              Elapsed(r) \in In(mailbox[n]) => Elapsed(r) \in In(mailbox'[n]),
           \A q \in Peers \ {p} :
              /\ ~ThinkingOf(n, q) /\ ~SendingTo(n, q) /\ ~TellingOf(n, q)
              /\ AboutToFail(n, q) => q \in rest,
           rest # {} => cause \notin DeadlineCauses,
           cause = "Disconnected" => \A q \in rest \cup {p} : EndpointOf[q] \in heard[n]
    PROVE  KameoInv'
  <1>1. KameoTypeOK
    BY DEF KameoInv
  <1>2. /\ conv' \in [Names -> [Peers -> PeerWaits]]
        /\ sleeping' \in [Names -> SUBSET Report]
        /\ job' \in [Names -> Job]
        /\ events' = {}
        /\ conv'[n][p] = FailedConv(conv[n][p])
        /\ Timers(p, conv'[n][p]) = {}
        /\ sleeping'[n] = sleeping[n] \ Timers(p, conv[n][p])
        /\ job'[n].do = "tell" /\ job'[n].peer = p
        /\ job'[n].rest = rest /\ job'[n].why = cause
        /\ \A q \in Peers \ {p} : conv'[n][q] = conv[n][q]
        /\ \A k \in Names \ {n} : /\ conv'[k] = conv[k] /\ job'[k] = job[k]
                                  /\ sleeping'[k] = sleeping[k]
    BY <1>1, FailExchangeDoes
  <1>3. KameoTypeOK'
    BY <1>1, <1>2 DEF KameoTypeOK
  <1>4. /\ \A q \in Peers : ~ThinkingOf(n, q)' /\ ~SendingTo(n, q)'
        /\ TellingOf(n, p)' /\ \A q \in Peers \ {p} : ~TellingOf(n, q)'
        /\ \A q \in Peers : AboutToFail(n, q)' <=> q \in rest
    BY <1>2 DEF ThinkingOf, SendingTo, TellingOf, AboutToFail
  <1>5. Talk(n, p)'
    BY <1>1, <1>2, <1>4, FailedTalk
  <1>6. TimersOk(n)'
    <2>1. TimersOk(n)
      BY DEF KameoInv, HostOk
    <2> DEFINE gone == Timers(p, conv[n][p])
    <2>2. gone \in SUBSET Timers(p, conv[n][p]) /\ sleeping'[n] = sleeping[n] \ gone
      BY <1>2
    <2>3. Timers(p, conv'[n][p]) = Timers(p, conv[n][p]) \ gone
      BY <1>2
    <2>4. \A q \in Peers : \A r \in Timers(q, conv'[n][q]) :
             Elapsed(r) \in In(mailbox[n]) => Elapsed(r) \in In(mailbox'[n])
      BY <1>2
    <2>5. \A q \in Peers \ {p} : conv'[n][q] = conv[n][q]
      BY <1>2
    <2> HIDE DEF gone
    <2>6. QED
      BY <1>1, <1>3, <2>1, <2>2, <2>3, <2>4, <2>5, TimersSettled
  <1>7. Knows(n)'
    BY <1>2, <1>4 DEF Knows
  <1>8. QED
    BY <1>2, <1>3, <1>4, <1>5, <1>6, <1>7, OneTalk

(* FailExchangeInv for the handler of a turn, which fails but one.         *)
LEMMA FailInTurnInv ==
    ASSUME KameoInv, NEW n \in Names, NEW p \in Peers, NEW cause \in {"IllegalReply", "SendFailed"},
           Up(n), FailExchange(n, p, cause, {}),
           UNCHANGED <<actor, bound, leaving, fan, heard, mailbox>>,
           mind' \in [Names -> [Peers -> Mind]],
           \A q \in Peers \ {p} : mind'[n][q] = mind[n][q],
           \A k \in Names \ {n} : mind'[k] = mind[k],
           job[n].do \in {"think", "send"}, job[n].peer = p,
           Stock(n) => Fail(mind'[n][p].shadow) = Fail(conv[n][p].state)
    PROVE  KameoInv'
  <1>1. /\ mailbox' \in [Names -> Seq(Message)] /\ In(mailbox'[n]) = In(mailbox[n])
        /\ \A k \in Names \ {n} : mailbox'[k] = mailbox[k]
    BY DEF KameoInv, KameoTypeOK
  <1>2. \A q \in Peers \ {p} : /\ ~ThinkingOf(n, q) /\ ~SendingTo(n, q)
                               /\ ~TellingOf(n, q) /\ ~AboutToFail(n, q)
    BY DEF ThinkingOf, SendingTo, TellingOf, AboutToFail
  <1>3. cause \in FailureCauses /\ cause # "Disconnected" /\ {} \in SUBSET Peers
    BY DEF FailureCauses
  <1>4. QED
    BY <1>1, <1>2, <1>3, FailExchangeInv

LEMMA FailNextInv ==
    ASSUME KameoInv, NEW n \in Names, FailNext(n)
    PROVE  KameoInv'
  <1>1. /\ job[n].do = "fail" /\ job[n] \in Job
        /\ UNCHANGED <<actor, bound, leaving, mind, mailbox, fan, heard>>
    BY DEF FailNext, KameoInv, KameoTypeOK
  <1>2. PICK p \in job[n].rest : FailExchange(n, p, job[n].why, job[n].rest \ {p})
    BY DEF FailNext
  <1>3. /\ p \in Peers /\ job[n].rest \in SUBSET Peers /\ job[n].why \in FailureCauses
    BY <1>1, JobKinds
  <1>4. Up(n)
    BY <1>1, JobKinds DEF KameoInv, HostOk, RosterOk
  <1>5. \A q \in Peers : /\ ~ThinkingOf(n, q) /\ ~SendingTo(n, q) /\ ~TellingOf(n, q)
                         /\ AboutToFail(n, q) <=> q \in job[n].rest
    BY <1>1 DEF ThinkingOf, SendingTo, TellingOf, AboutToFail
  <1>6. Stock(n) => Fail(mind'[n][p].shadow) = Fail(conv[n][p].state)
    BY <1>1, <1>3, <1>5 DEF KameoInv, HostOk, Talk
  <1>7. job[n].why = "Disconnected" => \A q \in job[n].rest : EndpointOf[q] \in heard[n]
    BY <1>3, <1>5 DEF KameoInv, HostOk, MailOk, Knows
  <1> DEFINE left == job[n].rest \ {p}
             why == job[n].why
  <1>8. /\ left \in SUBSET Peers /\ left \cup {p} = job[n].rest
        /\ \A q \in Peers \ {p} : AboutToFail(n, q) => q \in left
        /\ FailExchange(n, p, why, left) /\ why \in FailureCauses
    BY <1>2, <1>3, <1>5
  <1>9. /\ why = "Disconnected" => \A q \in left \cup {p} : EndpointOf[q] \in heard[n]
        /\ why \notin DeadlineCauses
    BY <1>3, <1>5, <1>7, <1>8 DEF KameoInv, HostOk, MailOk, Knows
  <1> HIDE DEF left, why
  <1>10. /\ mailbox' \in [Names -> Seq(Message)] /\ In(mailbox'[n]) = In(mailbox[n])
         /\ mind' \in [Names -> [Peers -> Mind]]
    BY <1>1 DEF KameoInv, KameoTypeOK
  <1>11. QED
    BY <1>1, <1>3, <1>4, <1>5, <1>6, <1>8, <1>9, <1>10, FailExchangeInv

(* The loop over these peers: the host rests when there are none.          *)
LEMMA FailOnDoes ==
    ASSUME KameoTypeOK, NEW n \in Names, NEW ps \in SUBSET Peers, NEW cause \in FailureCauses,
           FailOn(n, ps, cause)
    PROVE  /\ job' \in [Names -> Job]
           /\ \A k \in Names \ {n} : job'[k] = job[k]
           /\ job'[n].do \in {"rest", "fail"}
           /\ job'[n].do = "fail" => job'[n].why = cause
           /\ \A q \in Peers : /\ ~ThinkingOf(n, q)' /\ ~SendingTo(n, q)' /\ ~TellingOf(n, q)'
                               /\ AboutToFail(n, q)' <=> q \in ps
  <1> DEFINE j == IF ps = {} THEN Resting ELSE Failing(ps, cause)
  <1>1. /\ j \in Job /\ j.do \in {"rest", "fail"}
        /\ ps # {} => j.do = "fail" /\ j.rest = ps /\ j.why = cause
        /\ ps = {} => j.do = "rest"
    BY JobKinds
  <1>2. job' = [job EXCEPT ![n] = j]
    BY DEF FailOn, Becomes
  <1> HIDE DEF j
  <1>3. job' \in [Names -> Job] /\ job'[n] = j /\ \A k \in Names \ {n} : job'[k] = job[k]
    BY <1>1, <1>2 DEF KameoTypeOK
  <1>4. QED
    BY <1>1, <1>3 DEF ThinkingOf, SendingTo, TellingOf, AboutToFail

(* What the news does to the party and the handler.                        *)
LEMMA TellPartyDoes ==
    ASSUME KameoInv, NEW n \in Names, TellParty(n)
    PROVE  LET p == job[n].peer
           IN /\ p \in Peers /\ TellingOf(n, p) /\ Up(n)
              /\ job[n].do = "tell" /\ job[n].rest \in SUBSET Peers
              /\ job[n].why \in FailureCauses
              /\ FailOn(n, job[n].rest, job[n].why)
              /\ events' = {ExchangeFailed(n, p, job[n].why)}
              /\ UNCHANGED <<actor, bound, leaving, conv, mailbox, sleeping, fan, heard>>
              /\ mind' \in [Names -> [Peers -> Mind]]
              /\ Stock(n) => mind'[n][p].shadow = Fail(mind[n][p].shadow)
              /\ \A q \in Peers \ {p} : mind'[n][q] = mind[n][q]
              /\ \A k \in Names \ {n} : mind'[k] = mind[k]
  <1>1. PICK p : p = job[n].peer
    OBVIOUS
  <1>2. /\ job[n].do = "tell" /\ job[n] \in Job
        /\ UNCHANGED <<actor, bound, leaving, conv, mailbox, sleeping, fan, heard>>
        /\ FailOn(n, job[n].rest, job[n].why)
        /\ events' = {ExchangeFailed(n, p, job[n].why)}
    BY <1>1 DEF TellParty, KameoInv, KameoTypeOK
  <1>3. /\ p \in Peers /\ job[n].rest \in SUBSET Peers /\ job[n].why \in FailureCauses
    BY <1>1, <1>2, JobKinds
  <1>4. Up(n)
    BY <1>2, JobKinds DEF KameoInv, HostOk, RosterOk
  <1> DEFINE d == IF Stock(n) THEN FailedMind(mind[n][p]) ELSE mind[n][p]
  <1>5. mind' = [mind EXCEPT ![n][p] = d]
    BY <1>1 DEF TellParty, HearsOfFailure
  <1>6. d \in Mind /\ (Stock(n) => d.shadow = Fail(mind[n][p].shadow))
    BY <1>3, FailedMindType DEF KameoInv, KameoTypeOK
  <1> HIDE DEF d
  <1>7. /\ mind' \in [Names -> [Peers -> Mind]] /\ mind'[n][p] = d
        /\ \A q \in Peers \ {p} : mind'[n][q] = mind[n][q]
        /\ \A k \in Names \ {n} : mind'[k] = mind[k]
    BY <1>3, <1>5, <1>6 DEF KameoInv, KameoTypeOK
  <1>8. QED
    BY <1>1, <1>2, <1>3, <1>4, <1>6, <1>7 DEF TellingOf

LEMMA TellPartyInv ==
    ASSUME KameoInv, NEW n \in Names, TellParty(n)
    PROVE  KameoInv'
  <1>1. PICK p, ps, why : p = job[n].peer /\ ps = job[n].rest /\ why = job[n].why
    OBVIOUS
  <1>2. /\ p \in Peers /\ TellingOf(n, p) /\ Up(n)
        /\ job[n].do = "tell" /\ ps \in SUBSET Peers /\ why \in FailureCauses
        /\ FailOn(n, ps, why) /\ events' = {ExchangeFailed(n, p, why)}
        /\ UNCHANGED <<actor, bound, leaving, conv, mailbox, sleeping, fan, heard>>
        /\ mind' \in [Names -> [Peers -> Mind]]
        /\ Stock(n) => mind'[n][p].shadow = Fail(mind[n][p].shadow)
        /\ \A q \in Peers \ {p} : mind'[n][q] = mind[n][q]
        /\ \A k \in Names \ {n} : mind'[k] = mind[k]
    BY <1>1, TellPartyDoes
  <1>3. /\ job' \in [Names -> Job]
        /\ \A k \in Names \ {n} : job'[k] = job[k]
        /\ job'[n].do \in {"rest", "fail"}
        /\ job'[n].do = "fail" => job'[n].why = why
        /\ \A q \in Peers : /\ ~ThinkingOf(n, q)' /\ ~SendingTo(n, q)' /\ ~TellingOf(n, q)'
                            /\ AboutToFail(n, q)' <=> q \in ps
    BY <1>2, FailOnDoes DEF KameoInv
  <1>4. KameoTypeOK'
    BY <1>2, <1>3, EventTypes DEF KameoInv, KameoTypeOK
  <1>5. \A q \in Peers : /\ ~ThinkingOf(n, q) /\ ~SendingTo(n, q)
                         /\ AboutToFail(n, q) <=> q \in ps
                         /\ TellingOf(n, q) <=> q = p
    BY <1>1, <1>2 DEF ThinkingOf, SendingTo, TellingOf, AboutToFail
  <1>6. Talk(n, p)'
    <2>1. Talk(n, p)
      BY <1>2 DEF KameoInv, HostOk
    <2>2. ~Live(conv[n][p].state) /\ (Stock(n) => Fail(mind[n][p].shadow) = conv[n][p].state)
      BY <1>2, <2>1 DEF Talk
    <2>3. Fits(n, p)'
      BY <1>2, <1>3, <1>5, <2>1 DEF Talk, Fits
    <2>4. ~(Live(conv[n][p].state)')
      BY <1>2, <2>2 DEF Live, Awaiting, Owing
    <2>5. (Stock(n) => mind[n][p].shadow = conv[n][p].state)'
      BY <1>2, <2>2 DEF Stock, Up
    <2>6. QED
      BY <1>2, <1>3, <2>3, <2>4, <2>5 DEF Talk
  <1>7. TimersOk(n)'
    BY <1>2 DEF KameoInv, HostOk, TimersOk
  <1>8. Knows(n)'
    <2>1. \A q \in ps : /\ why \notin DeadlineCauses
                        /\ why = "Disconnected" => EndpointOf[q] \in heard[n]
      BY <1>1, <1>2, <1>5 DEF KameoInv, HostOk, MailOk, Knows
    <2>2. \A q \in Peers : AboutToFail(n, q)' => job'[n].why = why
      BY <1>3 DEF AboutToFail
    <2>3. QED
      BY <1>2, <1>3, <2>1, <2>2 DEF Knows
  <1>9. /\ In(mailbox'[n]) \subseteq In(mailbox[n])
        /\ \A q \in Peers \ {p} : conv'[n][q] = conv[n][q]
        /\ \A k \in Names \ {n} : /\ conv'[k] = conv[k] /\ mailbox'[k] = mailbox[k]
                                  /\ sleeping'[k] = sleeping[k]
    BY <1>2
  <1>10. QED
    BY <1>2, <1>3, <1>4, <1>5, <1>6, <1>7, <1>8, <1>9, OneTalk

LEMMA TakeElapsedInv ==
    ASSUME KameoInv, NEW n \in Names, NEW r \in Report, TakeElapsed(n, r)
    PROVE  KameoInv'
  <1> DEFINE p == r.peer
  <1>1. /\ Handles(n, Elapsed(r)) /\ p \in Peers /\ r.kind \in DeadlineCauses
        /\ UNCHANGED <<actor, bound, leaving, mind, fan, heard>>
    BY DEF TakeElapsed, Report
  <1>2. /\ Up(n) /\ job[n] = Resting
        /\ mailbox' \in [Names -> Seq(Message)]
        /\ In(mailbox[n]) = In(mailbox'[n]) \cup {Elapsed(r)}
        /\ \A k \in Names \ {n} : mailbox'[k] = mailbox[k]
    BY <1>1, HandlesMail DEF KameoInv
  <1>3. \A s \in Report : s # r => Elapsed(s) # Elapsed(r)
    BY DEF Elapsed
  <1>4. CASE StillPending(conv[n][p], r)
    <2>1. /\ FailExchange(n, p, r.kind, {}) /\ {} \in SUBSET Peers
          /\ r.kind \in FailureCauses /\ r.kind # "Disconnected"
      BY <1>1, <1>4 DEF TakeElapsed, FailureCauses, DeadlineCauses
    <2>2. mind' \in [Names -> [Peers -> Mind]]
      BY <1>1 DEF KameoInv, KameoTypeOK
    <2>3. \A q \in Peers : /\ ~ThinkingOf(n, q) /\ ~SendingTo(n, q)
                           /\ ~AboutToFail(n, q) /\ ~TellingOf(n, q)
      BY <1>2, RestingIsIdle
    <2>4. Stock(n) => Fail(mind'[n][p].shadow) = Fail(conv[n][p].state)
      BY <1>1, <2>3 DEF KameoInv, HostOk, Talk
    <2>5. ASSUME NEW q \in Peers \ {p}, NEW s \in Timers(q, conv[n][q]),
                 Elapsed(s) \in In(mailbox[n])
          PROVE  Elapsed(s) \in In(mailbox'[n])
      <3>1. conv[n][q] \in PeerWaits
        BY DEF KameoInv, KameoTypeOK
      <3>2. s \in Report /\ s.peer = q
        BY <2>5, <3>1, TimerKinds
      <3>3. QED
        BY <1>2, <1>3, <2>5, <3>2
    <2>6. In(mailbox'[n]) \subseteq In(mailbox[n])
      BY <1>2
    <2> DEFINE kind == r.kind
    <2> HIDE DEF p, kind
    <2>7. QED
      BY <1>1, <1>2, <2>1, <2>2, <2>3, <2>4, <2>5, <2>6, FailExchangeInv
  <1>5. CASE ~StillPending(conv[n][p], r)
    <2>1. events' = {} /\ UNCHANGED <<conv, job, sleeping>>
      BY <1>5 DEF TakeElapsed
    <2>2. KameoTypeOK'
      BY <1>1, <1>2, <2>1 DEF KameoInv, KameoTypeOK
    <2>3. \A s \in Report : Elapsed(s) \in In(mailbox[n]) /\ StillPending(conv[n][s.peer], s)
                               => Elapsed(s) \in In(mailbox'[n])
      BY <1>2, <1>3, <1>5
    <2>4. actor'[n] = actor[n] /\ actor[n] # None
      BY <1>1, <1>2 DEF Up
    <2>5. In(mailbox'[n]) \subseteq In(mailbox[n])
      BY <1>2
    <2>6. QED
      BY <1>1, <1>2, <2>1, <2>2, <2>3, <2>4, <2>5, StillInv
  <1>6. QED
    BY <1>4, <1>5

LEMMA TakeAckInv ==
    ASSUME KameoInv, NEW n \in Names, NEW p \in Peers, NEW b \in Body, TakeAck(n, p, b)
    PROVE  KameoInv'
  <1>1. /\ Handles(n, Deliver(p, b)) /\ Deliver(p, b).tag # "DeadlineElapsed"
        /\ UNCHANGED <<actor, bound, leaving, mind, job, fan, heard>> /\ events' = {}
    BY DEF TakeAck, Hears, Deliver
  <1>2. /\ Up(n) /\ job[n] = Resting
        /\ mailbox' \in [Names -> Seq(Message)]
        /\ In(mailbox'[n]) \subseteq In(mailbox[n])
        /\ \A k \in Names \ {n} : mailbox'[k] = mailbox[k]
        /\ \A r \in Report : Elapsed(r) \in In(mailbox[n]) => Elapsed(r) \in In(mailbox'[n])
    BY <1>1, HandlesMail, DeliverKeepsReports DEF KameoInv
  <1>3. actor'[n] = actor[n] /\ actor[n] # None
    BY <1>1, <1>2 DEF Up
  <1>4. CASE conv[n][p].ack = b.id
    <2> DEFINE c == [conv[n][p] EXCEPT !.ack = None]
               gone == AckTimer(p, conv[n][p])
    <2>1. conv[n][p] \in PeerWaits
      BY DEF KameoInv, KameoTypeOK
    <2>2. /\ c \in PeerWaits /\ c.ack = None /\ c.turn = conv[n][p].turn
          /\ c.state = conv[n][p].state /\ c.epoch = conv[n][p].epoch
      BY <2>1 DEF PeerWaits
    <2>3. /\ conv' = [conv EXCEPT ![n][p] = c]
          /\ sleeping' = [sleeping EXCEPT ![n] = sleeping[n] \ gone]
      BY <1>4 DEF TakeAck
    <2>4. gone \in SUBSET Timers(p, conv[n][p]) /\ Timers(p, c) = Timers(p, conv[n][p]) \ gone
      BY <2>2 DEF Timers, AckTimer, TurnTimer, AckReport, TurnReport
    <2> HIDE DEF c, gone
    <2>5. /\ conv' \in [Names -> [Peers -> PeerWaits]] /\ conv'[n][p] = c
          /\ \A q \in Peers \ {p} : conv'[n][q] = conv[n][q]
          /\ \A k \in Names \ {n} : conv'[k] = conv[k]
      BY <2>2, <2>3 DEF KameoInv, KameoTypeOK
    <2>6. /\ sleeping' \in [Names -> SUBSET Report] /\ sleeping'[n] = sleeping[n] \ gone
          /\ \A k \in Names \ {n} : sleeping'[k] = sleeping[k]
      BY <2>3 DEF KameoInv, KameoTypeOK
    <2>7. KameoTypeOK'
      BY <1>1, <1>2, <2>5, <2>6 DEF KameoInv, KameoTypeOK
    <2>8. TimersOk(n)'
      <3>1. TimersOk(n) /\ KameoTypeOK
        BY DEF KameoInv, HostOk
      <3>2. ASSUME NEW q \in Peers, NEW r \in Timers(q, conv'[n][q]),
                   Elapsed(r) \in In(mailbox[n])
            PROVE  Elapsed(r) \in In(mailbox'[n])
        <4>1. conv'[n][q] \in PeerWaits
          BY <2>5
        <4>2. r \in Report
          BY <3>2, <4>1, TimerKinds
        <4>3. QED
          BY <1>2, <3>2, <4>2
      <3>3. QED
        BY <2>4, <2>5, <2>6, <2>7, <3>1, <3>2, TimersSettled
    <2>9. \A q \in Peers : /\ ~ThinkingOf(n, q) /\ ~SendingTo(n, q)
                           /\ ~AboutToFail(n, q) /\ ~TellingOf(n, q)
      BY <1>2, RestingIsIdle
    <2>10. job'[n] = Resting
      BY <1>1, <1>2
    <2>11. /\ \A q \in Peers : /\ ~ThinkingOf(n, q)' /\ ~SendingTo(n, q)'
                               /\ ~AboutToFail(n, q)' /\ ~TellingOf(n, q)'
           /\ Knows(n)'
      BY <2>10, RestingThen, KnowsNobody
    <2>12. Talk(n, p)'
      <3>1. Talk(n, p)
        BY DEF KameoInv, HostOk
      <3>2. Fits(n, p)'
        BY <2>2, <2>5, <2>9, <2>11, <3>1 DEF Talk, Fits
      <3>3. (Live(conv[n][p].state) => Up(n) /\ (Admitted(n, p) \/ AboutToFail(n, p)))'
        BY <1>3, <2>2, <2>5, <2>9, <3>1 DEF Talk, Live, Awaiting, Owing, Up, Admitted
      <3>4. (Stock(n) => mind[n][p].shadow = conv[n][p].state)'
        BY <1>1, <1>3, <2>2, <2>5, <2>9, <3>1 DEF Talk, Stock, Up
      <3>5. QED
        BY <2>11, <3>2, <3>3, <3>4 DEF Talk
    <2>13. QED
      BY <1>1, <1>2, <2>5, <2>6, <2>7, <2>8, <2>9, <2>10, <2>11, <2>12, OneTalk
  <1>5. CASE conv[n][p].ack # b.id
    <2>1. UNCHANGED <<conv, sleeping>>
      BY <1>5 DEF TakeAck
    <2>2. KameoTypeOK'
      BY <1>1, <1>2, <2>1 DEF KameoInv, KameoTypeOK
    <2>3. QED
      BY <1>1, <1>2, <1>3, <2>1, <2>2, StillInv
  <1>6. QED
    BY <1>4, <1>5

(* A turn is taken: every wait of that conversation is settled.            *)
LEMMA TakeTurnInv ==
    ASSUME KameoInv, NEW n \in Names, NEW p \in Peers, NEW b \in Body, TakeTurn(n, p, b)
    PROVE  KameoInv'
  <1> DEFINE t == b.turn
             c == [SettledAll(conv[n][p]) EXCEPT !.state = AfterReceive(t)]
             gone == Timers(p, conv[n][p])
  <1>1. /\ Handles(n, Deliver(p, b)) /\ Deliver(p, b).tag # "DeadlineElapsed"
        /\ Admitted(n, p) /\ CanReceive(conv[n][p].state, t)
        /\ UNCHANGED <<actor, bound, leaving, mind, fan, heard>> /\ events' = {}
        /\ conv' = [conv EXCEPT ![n][p] = c]
        /\ sleeping' = [sleeping EXCEPT ![n] = sleeping[n] \ gone]
        /\ job' = [job EXCEPT ![n] = Thinking(p, t)]
    BY DEF TakeTurn, Hears, Deliver, Aborts, Becomes
  <1>2. t \in Turn
    BY MessageKinds DEF TakeTurn
  <1>3. /\ Up(n) /\ job[n] = Resting
        /\ mailbox' \in [Names -> Seq(Message)]
        /\ In(mailbox'[n]) \subseteq In(mailbox[n])
        /\ \A k \in Names \ {n} : mailbox'[k] = mailbox[k]
        /\ \A r \in Report : Elapsed(r) \in In(mailbox[n]) => Elapsed(r) \in In(mailbox'[n])
    BY <1>1, HandlesMail, DeliverKeepsReports DEF KameoInv
  <1>4. /\ conv[n][p] \in PeerWaits /\ c \in PeerWaits
        /\ c.state = AfterReceive(t) /\ c.ack = None /\ c.turn = FALSE
    <2>1. conv[n][p] \in PeerWaits /\ AfterReceive(t) \in TurnState
      BY <1>2, AfterReceiveMove DEF KameoInv, KameoTypeOK
    <2>2. QED
      BY <2>1 DEF PeerWaits, SettledAll
  <1>5. gone \in SUBSET Timers(p, conv[n][p]) /\ Timers(p, c) = Timers(p, conv[n][p]) \ gone
    BY <1>4, TimerKinds
  <1> HIDE DEF c, gone
  <1>6. /\ conv' \in [Names -> [Peers -> PeerWaits]] /\ conv'[n][p] = c
        /\ \A q \in Peers \ {p} : conv'[n][q] = conv[n][q]
        /\ \A k \in Names \ {n} : conv'[k] = conv[k]
    BY <1>1, <1>4 DEF KameoInv, KameoTypeOK
  <1>7. /\ sleeping' \in [Names -> SUBSET Report] /\ sleeping'[n] = sleeping[n] \ gone
        /\ \A k \in Names \ {n} : sleeping'[k] = sleeping[k]
    BY <1>1 DEF KameoInv, KameoTypeOK
  <1>8. /\ job' \in [Names -> Job] /\ job'[n] = Thinking(p, t)
        /\ job'[n].do = "think" /\ job'[n].peer = p /\ job'[n].turn = t
        /\ \A k \in Names \ {n} : job'[k] = job[k]
    BY <1>1, <1>2, JobKinds DEF KameoInv, KameoTypeOK
  <1>9. KameoTypeOK'
    BY <1>1, <1>3, <1>6, <1>7, <1>8 DEF KameoInv, KameoTypeOK
  <1>10. TimersOk(n)'
    <2>1. TimersOk(n) /\ KameoTypeOK
      BY DEF KameoInv, HostOk
    <2>2. ASSUME NEW q \in Peers, NEW r \in Timers(q, conv'[n][q]),
                 Elapsed(r) \in In(mailbox[n])
          PROVE  Elapsed(r) \in In(mailbox'[n])
      <3>1. conv'[n][q] \in PeerWaits
        BY <1>6
      <3>2. r \in Report
        BY <2>2, <3>1, TimerKinds
      <3>3. QED
        BY <1>3, <2>2, <3>2
    <2>3. QED
      BY <1>5, <1>6, <1>7, <1>9, <2>1, <2>2, TimersSettled
  <1>11. \A q \in Peers : /\ ~ThinkingOf(n, q) /\ ~SendingTo(n, q)
                          /\ ~AboutToFail(n, q) /\ ~TellingOf(n, q)
    BY <1>3, RestingIsIdle
  <1>12. /\ \A q \in Peers : ~SendingTo(n, q)' /\ ~AboutToFail(n, q)' /\ ~TellingOf(n, q)'
         /\ \A q \in Peers \ {p} : ~ThinkingOf(n, q)'
         /\ Knows(n)'
    BY <1>8, KnowsNobody DEF ThinkingOf, SendingTo, TellingOf, AboutToFail
  <1>13. Talk(n, p)'
    <2>1. Talk(n, p)
      BY DEF KameoInv, HostOk
    <2>2. ThinkingOf(n, p)' /\ Admitted(n, p)' /\ Up(n)'
      BY <1>1, <1>3, <1>8 DEF ThinkingOf, Admitted, Up
    <2>3. Fits(n, p)'
      BY <1>2, <1>4, <1>6, <1>12, AfterReceiveMove DEF Fits
    <2>4. (Stock(n) => CanReceive(mind[n][p].shadow, job[n].turn))'
      <3>1. Stock(n) => mind[n][p].shadow = conv[n][p].state
        BY <1>11, <2>1 DEF Talk
      <3>2. Stock(n)' => CanReceive(mind[n][p].shadow, t)
        BY <1>1, <3>1 DEF Stock, Up
      <3>3. QED
        BY <1>1, <1>8, <3>2 DEF CanReceive, Opens, Answers, Awaiting
    <2>5. (conv[n][p].ack = None /\ conv[n][p].turn = FALSE
             /\ conv[n][p].state = AfterReceive(job[n].turn))'
      BY <1>4, <1>6, <1>8 DEF AfterReceive, OweThem
    <2>6. QED
      BY <1>12, <2>2, <2>3, <2>4, <2>5 DEF Talk
  <1>14. QED
    BY <1>1, <1>3, <1>6, <1>7, <1>8, <1>9, <1>10, <1>11, <1>12, <1>13, OneTalk

(* What a stock party's shadow holds once it has thought.                  *)
LEMMA ThoughtOver ==
    ASSUME KameoInv, NEW n \in Names, job[n].do = "think",
           NEW reply, reply \in AnswersOf(actor[n].party, mind[n][job[n].peer], job[n].turn)
    PROVE  LET p == job[n].peer
               t == job[n].turn
               m == IF Stock(n) THEN StockMind(actor[n].party, mind[n][p], t) ELSE mind[n][p]
           IN /\ Up(n) /\ p \in Peers /\ t \in Turn /\ m \in Mind
              /\ reply \in Turn \cup {None}
              /\ Talk(n, p) /\ ThinkingOf(n, p)
              /\ Stock(n) /\ reply = None => m.shadow = conv[n][p].state
              /\ Stock(n) /\ reply # None =>
                    CanSend(conv[n][p].state, reply) /\ m.shadow = AfterSend(reply)
  <1> DEFINE p == job[n].peer
             t == job[n].turn
             party == actor[n].party
             m == IF Stock(n) THEN StockMind(party, mind[n][p], t) ELSE mind[n][p]
  <1>1. /\ p \in Peers /\ t \in Turn /\ mind[n][p] \in Mind
    BY JobKinds DEF KameoInv, KameoTypeOK
  <1>2. Up(n)
    BY JobKinds DEF KameoInv, HostOk, RosterOk
  <1>3. Talk(n, p) /\ ThinkingOf(n, p)
    BY <1>1 DEF KameoInv, HostOk, ThinkingOf
  <1>4. m \in Mind
    BY <1>1, StockMindType
  <1>5. reply \in Turn \cup {None}
    BY <1>1, StockReplyType DEF AnswersOf
  <1>6. ASSUME Stock(n)
        PROVE  /\ reply = None => m.shadow = conv[n][p].state
               /\ reply # None => CanSend(conv[n][p].state, reply) /\ m.shadow = AfterSend(reply)
    <2>1. reply = StockReply(party, mind[n][p], t)
      BY <1>6 DEF AnswersOf, Stock
    <2>2. CanReceive(mind[n][p].shadow, t) /\ conv[n][p].state = AfterReceive(t)
      BY <1>3, <1>6 DEF Talk
    <2>3. CASE t.req = None
      <3>1. reply = None /\ m.shadow = AfterReceive(t)
        BY <1>1, <1>6, <2>1, <2>2, <2>3, StockReplyType, StockMindType
      <3>2. QED
        BY <2>2, <3>1
    <2>4. CASE t.req # None
      <3>1. /\ reply \in Turn /\ reply.kind \in {"Continue", "Close"} /\ reply.rsp = t.req
            /\ m.shadow = AfterSend(reply)
        BY <1>1, <1>6, <2>1, <2>2, <2>4, StockReplyType, StockMindType
      <3>2. t.kind # "Close" /\ conv[n][p].state = OweThem(t.req)
        BY <1>1, <2>2, <2>4, TurnHalves DEF AfterReceive
      <3>3. CanSend(conv[n][p].state, reply)
        BY <3>1, <3>2 DEF CanSend, Owing, Answers, OweThem
      <3>4. QED
        BY <3>1, <3>3, NoneIsNoSetup
    <2>5. QED
      BY <2>3, <2>4
  <1>7. QED
    BY <1>1, <1>2, <1>3, <1>4, <1>5, <1>6

LEMMA AnswerInv ==
    ASSUME KameoInv, NEW n \in Names, job[n].do = "think", NEW reply, Answer(n, reply)
    PROVE  KameoInv'
  <1>1. PICK p, t : p = job[n].peer /\ t = job[n].turn
    OBVIOUS
  <1> DEFINE m == IF Stock(n) THEN StockMind(actor[n].party, mind[n][p], t) ELSE mind[n][p]
             x == [conv[n][p] EXCEPT !.state = AfterSend(reply)]
  <1>2. /\ reply \in AnswersOf(actor[n].party, mind[n][p], t)
        /\ UNCHANGED <<actor, bound, leaving, mailbox, fan, heard>>
    BY <1>1 DEF Answer
  <1>3. /\ Up(n) /\ p \in Peers /\ t \in Turn /\ m \in Mind
        /\ reply \in Turn \cup {None}
        /\ Talk(n, p) /\ ThinkingOf(n, p)
        /\ Stock(n) /\ reply = None => m.shadow = conv[n][p].state
        /\ Stock(n) /\ reply # None =>
              CanSend(conv[n][p].state, reply) /\ m.shadow = AfterSend(reply)
    BY <1>1, <1>2, ThoughtOver
  <1>4. /\ \A q \in Peers \ {p} : ~ThinkingOf(n, q)
        /\ \A q \in Peers : ~SendingTo(n, q) /\ ~AboutToFail(n, q) /\ ~TellingOf(n, q)
    BY <1>1 DEF ThinkingOf, SendingTo, TellingOf, AboutToFail
  <1>5. CASE reply = None
    <2>1. mind' = [mind EXCEPT ![n][p] = m] /\ job' = [job EXCEPT ![n] = Resting]
          /\ events' = {} /\ UNCHANGED <<conv, sleeping>>
      BY <1>1, <1>5 DEF Answer, Becomes
    <2> HIDE DEF m
    <2>2. /\ mind' \in [Names -> [Peers -> Mind]] /\ mind'[n][p] = m
          /\ \A q \in Peers \ {p} : mind'[n][q] = mind[n][q]
          /\ \A k \in Names \ {n} : mind'[k] = mind[k]
      BY <1>3, <2>1 DEF KameoInv, KameoTypeOK
    <2>3. /\ job' \in [Names -> Job] /\ job'[n] = Resting
          /\ \A k \in Names \ {n} : job'[k] = job[k]
      BY <2>1, JobKinds DEF KameoInv, KameoTypeOK
    <2>4. /\ \A q \in Peers : /\ ~ThinkingOf(n, q)' /\ ~SendingTo(n, q)'
                              /\ ~AboutToFail(n, q)' /\ ~TellingOf(n, q)'
          /\ Knows(n)'
      BY <2>3, RestingThen, KnowsNobody
    <2>5. KameoTypeOK'
      BY <1>2, <2>1, <2>2, <2>3 DEF KameoInv, KameoTypeOK
    <2>6. TimersOk(n)'
      BY <1>2, <2>1 DEF KameoInv, HostOk, TimersOk
    <2>7. Talk(n, p)'
      <3>1. Fits(n, p)'
        BY <1>3, <1>4, <2>1, <2>4 DEF Talk, Fits
      <3>2. (Live(conv[n][p].state) => Up(n) /\ (Admitted(n, p) \/ AboutToFail(n, p)))'
        BY <1>2, <1>3, <2>1 DEF Talk, Up, Admitted
      <3>3. (Stock(n) => mind[n][p].shadow = conv[n][p].state)'
        BY <1>2, <1>3, <1>5, <2>1, <2>2 DEF Stock, Up
      <3>4. QED
        BY <1>3, <2>4, <3>1, <3>2, <3>3 DEF Talk
    <2>8. /\ In(mailbox'[n]) \subseteq In(mailbox[n])
          /\ \A k \in Names \ {n} : /\ conv'[k] = conv[k] /\ mailbox'[k] = mailbox[k]
                                    /\ sleeping'[k] = sleeping[k]
          /\ \A q \in Peers \ {p} : conv'[n][q] = conv[n][q]
      BY <1>2, <2>1
    <2>9. QED
      BY <1>2, <1>3, <1>4, <2>2, <2>3, <2>4, <2>5, <2>6, <2>7, <2>8, OneTalk
  <1>6. CASE reply # None /\ ~CanSend(conv[n][p].state, reply)
    <2>1. FailExchange(n, p, "IllegalReply", {}) /\ mind' = [mind EXCEPT ![n][p] = m]
      BY <1>1, <1>6 DEF Answer
    <2>2. ~Stock(n)
      BY <1>3, <1>6
    <2> HIDE DEF m
    <2>3. /\ mind' \in [Names -> [Peers -> Mind]]
          /\ \A q \in Peers \ {p} : mind'[n][q] = mind[n][q]
          /\ \A k \in Names \ {n} : mind'[k] = mind[k]
      BY <1>3, <2>1 DEF KameoInv, KameoTypeOK
    <2>4. QED
      BY <1>1, <1>2, <1>3, <2>1, <2>2, <2>3, FailInTurnInv
  <1>7. CASE reply # None /\ CanSend(conv[n][p].state, reply)
    <2>1. /\ mind' = [mind EXCEPT ![n][p] = m] /\ job' = [job EXCEPT ![n] = Sending(p, reply)]
          /\ conv' = [conv EXCEPT ![n][p] = x]
          /\ events' = {} /\ UNCHANGED sleeping
      BY <1>1, <1>7 DEF Answer, Becomes
    <2>2. reply \in Turn
      BY <1>3, <1>7
    <2>3. /\ x \in PeerWaits /\ x.state = AfterSend(reply) /\ x.ack = None /\ x.turn = FALSE
          /\ Timers(p, x) = {} /\ Timers(p, conv[n][p]) = {}
      <3>1. conv[n][p] \in PeerWaits /\ conv[n][p].ack = None /\ conv[n][p].turn = FALSE
        BY <1>3 DEF KameoInv, KameoTypeOK, Talk
      <3>2. x \in PeerWaits /\ x.state = AfterSend(reply) /\ x.ack = None /\ x.turn = FALSE
        BY <2>2, <3>1, AfterSendMove DEF PeerWaits
      <3> HIDE DEF x
      <3>3. QED
        BY <1>3, <3>1, <3>2, TimerKinds
    <2> HIDE DEF m, x
    <2>4. /\ mind' \in [Names -> [Peers -> Mind]] /\ mind'[n][p] = m
          /\ \A q \in Peers \ {p} : mind'[n][q] = mind[n][q]
          /\ \A k \in Names \ {n} : mind'[k] = mind[k]
      BY <1>3, <2>1 DEF KameoInv, KameoTypeOK
    <2>5. /\ conv' \in [Names -> [Peers -> PeerWaits]] /\ conv'[n][p] = x
          /\ \A q \in Peers \ {p} : conv'[n][q] = conv[n][q]
          /\ \A k \in Names \ {n} : conv'[k] = conv[k]
      BY <1>3, <2>1, <2>3 DEF KameoInv, KameoTypeOK
    <2>6. /\ job' \in [Names -> Job] /\ job'[n] = Sending(p, reply)
          /\ job'[n].do = "send" /\ job'[n].peer = p /\ job'[n].turn = reply
          /\ \A k \in Names \ {n} : job'[k] = job[k]
      BY <1>3, <2>1, <2>2, JobKinds DEF KameoInv, KameoTypeOK
    <2>7. KameoTypeOK'
      BY <1>2, <2>1, <2>4, <2>5, <2>6 DEF KameoInv, KameoTypeOK
    <2>8. TimersOk(n)'
      <3>1. TimersOk(n) /\ KameoTypeOK
        BY DEF KameoInv, HostOk
      <3>2. {} \in SUBSET Timers(p, conv[n][p]) /\ sleeping'[n] = sleeping[n] \ {}
        BY <2>1
      <3>3. Timers(p, conv'[n][p]) = Timers(p, conv[n][p]) \ {}
        BY <2>3, <2>5
      <3>4. QED
        BY <1>2, <1>3, <2>5, <2>7, <3>1, <3>2, <3>3, TimersSettled
    <2>9. /\ \A q \in Peers : ~ThinkingOf(n, q)' /\ ~AboutToFail(n, q)' /\ ~TellingOf(n, q)'
          /\ \A q \in Peers \ {p} : ~SendingTo(n, q)'
          /\ SendingTo(n, p)' /\ Knows(n)'
      BY <2>6, KnowsNobody DEF ThinkingOf, SendingTo, TellingOf, AboutToFail
    <2>10. Talk(n, p)'
      <3>1. Admitted(n, p) /\ Admitted(n, p)' /\ Up(n)'
        BY <1>2, <1>3 DEF Talk, Admitted, Up
      <3>2. Fits(n, p)'
        BY <2>3, <2>5, <2>9 DEF Fits
      <3>3. (Stock(n) => mind[n][p].shadow = conv[n][p].state)'
        BY <1>2, <1>3, <1>7, <2>3, <2>4, <2>5 DEF Stock, Up
      <3>4. (conv[n][p].state = AfterSend(job[n].turn))'
        BY <2>3, <2>5, <2>6 DEF AfterSend, AwaitingTheirTurn
      <3>5. QED
        BY <1>3, <2>9, <3>1, <3>2, <3>3, <3>4 DEF Talk
    <2>11. /\ In(mailbox'[n]) \subseteq In(mailbox[n])
           /\ \A k \in Names \ {n} : mailbox'[k] = mailbox[k] /\ sleeping'[k] = sleeping[k]
      BY <1>2, <2>1
    <2>12. QED
      BY <1>2, <1>3, <1>4, <2>4, <2>5, <2>6, <2>7, <2>8, <2>9, <2>10, <2>11, OneTalk
  <1>8. QED
    BY <1>5, <1>6, <1>7

(* The waits are armed when the answer is out.                             *)
LEMMA SendReturnsInv ==
    ASSUME KameoInv, NEW n \in Names, NEW ok \in BOOLEAN, SendReturns(n, ok)
    PROVE  KameoInv'
  <1>1. PICK p, t : p = job[n].peer /\ t = job[n].turn
    OBVIOUS
  <1> DEFINE c == ArmedAnew(conv[n][p], t)
  <1>2. /\ job[n].do = "send"
        /\ UNCHANGED <<actor, bound, leaving, mind, mailbox, fan, heard>>
    BY DEF SendReturns
  <1>3. /\ p \in Peers /\ t \in Turn /\ Up(n)
        /\ conv[n][p] \in PeerWaits /\ mind[n][p] \in Mind
    BY <1>1, <1>2, JobKinds DEF KameoInv, KameoTypeOK, HostOk, RosterOk
  <1>4. Talk(n, p) /\ SendingTo(n, p)
    BY <1>1, <1>2, <1>3 DEF KameoInv, HostOk, SendingTo
  <1>5. /\ \A q \in Peers \ {p} : ~SendingTo(n, q)
        /\ \A q \in Peers : ~ThinkingOf(n, q) /\ ~AboutToFail(n, q) /\ ~TellingOf(n, q)
    BY <1>1, <1>2 DEF ThinkingOf, SendingTo, TellingOf, AboutToFail
  <1>6. /\ conv[n][p].ack = None /\ conv[n][p].turn = FALSE /\ Admitted(n, p)
        /\ conv[n][p].state = AfterSend(t)
        /\ Stock(n) => mind[n][p].shadow = conv[n][p].state
    BY <1>1, <1>3, <1>4, <1>5 DEF Talk, Fits, PeerWaits
  <1>7. CASE ~ok
    <2>1. FailExchange(n, p, "SendFailed", {})
      BY <1>1, <1>7 DEF SendReturns
    <2>2. mind' \in [Names -> [Peers -> Mind]]
      BY <1>2 DEF KameoInv, KameoTypeOK
    <2>3. QED
      BY <1>1, <1>2, <1>3, <1>6, <2>1, <2>2, FailInTurnInv
  <1>8. CASE ok
    <2>1. /\ conv' = [conv EXCEPT ![n][p] = c]
          /\ sleeping' = [sleeping EXCEPT ![n] = sleeping[n] \cup Timers(p, c)]
          /\ events' = {} /\ job' = [job EXCEPT ![n] = Resting]
      BY <1>1, <1>8 DEF SendReturns, Becomes
    <2>2. /\ c \in PeerWaits /\ c.state = AfterSend(t) /\ c.ack = t.req
          /\ c.turn <=> t.kind # "Close"
      BY <1>3, <1>6, ArmedWaits
    <2>3. Timers(p, conv[n][p]) = {} /\ Timers(p, c) \subseteq Report
          /\ \A r \in Timers(p, c) : r.peer = p
      BY <1>3, <1>6, <2>2, TimerKinds
    <2> HIDE DEF c
    <2>4. /\ conv' \in [Names -> [Peers -> PeerWaits]] /\ conv'[n][p] = c
          /\ \A q \in Peers \ {p} : conv'[n][q] = conv[n][q]
          /\ \A k \in Names \ {n} : conv'[k] = conv[k]
      BY <1>3, <2>1, <2>2 DEF KameoInv, KameoTypeOK
    <2>5. /\ sleeping' \in [Names -> SUBSET Report] /\ sleeping'[n] = sleeping[n] \cup Timers(p, c)
          /\ \A k \in Names \ {n} : sleeping'[k] = sleeping[k]
      BY <2>1, <2>3 DEF KameoInv, KameoTypeOK
    <2>6. /\ job' \in [Names -> Job] /\ job'[n] = Resting
          /\ \A k \in Names \ {n} : job'[k] = job[k]
      BY <2>1, JobKinds DEF KameoInv, KameoTypeOK
    <2>7. KameoTypeOK'
      BY <1>2, <2>1, <2>4, <2>5, <2>6 DEF KameoInv, KameoTypeOK
    <2>8. TimersOk(n)'
      <3>1. TimersOk(n)
        BY DEF KameoInv, HostOk
      <3>2. ASSUME NEW r \in sleeping'[n] PROVE r \in Timers(r.peer, conv'[n][r.peer])
        <4>1. CASE r \in Timers(p, c)
          BY <2>3, <2>4, <4>1
        <4>2. CASE r \in sleeping[n]
          <5>1. r.peer \in Peers /\ r \in Timers(r.peer, conv[n][r.peer])
            BY <3>1, <4>2 DEF TimersOk, KameoInv, KameoTypeOK, Report
          <5>2. r.peer # p
            BY <2>3, <5>1
          <5>3. QED
            BY <2>4, <5>1, <5>2
        <4>3. QED
          BY <2>5, <3>2, <4>1, <4>2
      <3>3. ASSUME NEW q \in Peers, NEW r \in Timers(q, conv'[n][q])
            PROVE  r \in sleeping'[n] \/ Elapsed(r) \in In(mailbox'[n])
        <4>1. CASE q = p
          BY <2>4, <2>5, <3>3, <4>1
        <4>2. CASE q # p
          <5>1. r \in Timers(q, conv[n][q])
            BY <2>4, <3>3, <4>2
          <5>2. r \in sleeping[n] \/ Elapsed(r) \in In(mailbox[n])
            BY <3>1, <5>1 DEF TimersOk
          <5>3. QED
            BY <1>2, <2>5, <5>2
        <4>3. QED
          BY <4>1, <4>2
      <3>4. QED
        BY <3>2, <3>3 DEF TimersOk, Timers, AckTimer, TurnTimer, AckReport, TurnReport
    <2>9. /\ \A q \in Peers : /\ ~ThinkingOf(n, q)' /\ ~SendingTo(n, q)'
                              /\ ~AboutToFail(n, q)' /\ ~TellingOf(n, q)'
          /\ Knows(n)'
      BY <2>6, RestingThen, KnowsNobody
    <2>10. Talk(n, p)'
      <3>1. Admitted(n, p)' /\ Up(n)'
        BY <1>2, <1>3, <1>6 DEF Admitted, Up
      <3>2. Fits(n, p)'
        <4>1. c.turn <=> Awaiting(c.state)
          BY <1>3, <2>2, AfterSendMove DEF Awaiting, Idle
        <4>2. c.ack # None => c.state = AwaitingTheirTurn(c.ack)
          BY <1>3, <2>2, AfterSendMove, TurnHalves
        <4>3. QED
          BY <1>3, <2>4, <2>9, <4>1, <4>2 DEF Fits, Awaiting, AwaitingTheirTurn
      <3>3. (Stock(n) => mind[n][p].shadow = conv[n][p].state)'
        BY <1>2, <1>6, <2>1, <2>2, <2>4 DEF Stock, Up
      <3>4. QED
        BY <1>3, <2>9, <3>1, <3>2, <3>3 DEF Talk
    <2>11. /\ In(mailbox'[n]) \subseteq In(mailbox[n])
           /\ \A k \in Names \ {n} : mailbox'[k] = mailbox[k] /\ mind'[k] = mind[k]
           /\ \A q \in Peers \ {p} : mind'[n][q] = mind[n][q]
      BY <1>2
    <2>12. QED
      BY <1>2, <1>3, <1>5, <2>4, <2>5, <2>6, <2>7, <2>8, <2>9, <2>10, <2>11, OneTalk
  <1>9. QED
    BY <1>7, <1>8

-----------------------------------------------------------------------------
(* Handlers that set out to fail several exchanges                         *)

LEMMA FailOnInv ==
    ASSUME KameoInv, NEW n \in Names, NEW e \in Endpoints, NEW m \in Message,
           NEW cause \in {"Disconnected", "Revoked"},
           Handles(n, m), m.tag # "DeadlineElapsed",
           FailOn(n, LiveAt(n, e), cause),
           cause = "Disconnected" => e \in heard[n],
           UNCHANGED <<bound, leaving, conv, mind, sleeping, fan, heard>>, events' = {},
           actor' \in [Names -> Setup \cup {None}], actor'[n] # None,
           actor'[n].party = actor[n].party, actor[n].allow \ {e} \subseteq actor'[n].allow,
           \A k \in Names \ {n} : actor'[k] = actor[k]
    PROVE  KameoInv'
  <1>1. /\ Up(n) /\ job[n] = Resting
        /\ mailbox' \in [Names -> Seq(Message)]
        /\ In(mailbox'[n]) \subseteq In(mailbox[n])
        /\ \A k \in Names \ {n} : mailbox'[k] = mailbox[k]
        /\ \A r \in Report : Elapsed(r) \in In(mailbox[n]) => Elapsed(r) \in In(mailbox'[n])
    BY HandlesMail, DeliverKeepsReports DEF KameoInv
  <1>2. /\ job' \in [Names -> Job]
        /\ \A k \in Names \ {n} : job'[k] = job[k]
        /\ job'[n].do \in {"rest", "fail"}
        /\ job'[n].do = "fail" => job'[n].why = cause
        /\ \A q \in Peers : /\ ~ThinkingOf(n, q)' /\ ~SendingTo(n, q)' /\ ~TellingOf(n, q)'
                            /\ AboutToFail(n, q)' <=> q \in LiveAt(n, e)
    <2>1. LiveAt(n, e) \in SUBSET Peers /\ cause \in FailureCauses
      BY DEF LiveAt, FailureCauses
    <2>2. QED
      BY <2>1, FailOnDoes DEF KameoInv
  <1>3. KameoTypeOK'
    BY <1>1, <1>2 DEF KameoInv, KameoTypeOK
  <1>4. RosterOk(n)'
    BY <1>1 DEF KameoInv, HostOk, RosterOk, Up
  <1>5. TimersOk(n)'
    <2>1. TimersOk(n)
      BY DEF KameoInv, HostOk
    <2>2. ASSUME NEW q \in Peers, NEW r \in Timers(q, conv[n][q])
          PROVE  r \in Report
      <3>1. conv[n][q] \in PeerWaits
        BY DEF KameoInv, KameoTypeOK
      <3>2. QED
        BY <2>2, <3>1, TimerKinds
    <2>3. QED
      BY <1>1, <2>1, <2>2 DEF TimersOk
  <1>6. MailOk(n)'
    <2>1. \A q \in Peers : AboutToFail(n, q)' => job'[n].why = cause /\ EndpointOf[q] = e
      BY <1>2 DEF AboutToFail, LiveAt
    <2>2. Knows(n)'
      BY <1>2, <2>1 DEF Knows, DeadlineCauses
    <2>3. QED
      BY <1>1, <2>2 DEF KameoInv, HostOk, MailOk
  <1>7. \A q \in Peers : /\ ~ThinkingOf(n, q) /\ ~SendingTo(n, q)
                         /\ ~AboutToFail(n, q) /\ ~TellingOf(n, q)
    BY <1>1, RestingIsIdle
  <1>8. ASSUME NEW q \in Peers PROVE Talk(n, q)'
    <2>1. Talk(n, q)
      BY DEF KameoInv, HostOk
    <2>2. Fits(n, q)'
      BY <1>2, <1>7, <2>1 DEF Talk, Fits
    <2>3. (Live(conv[n][q].state) => Up(n) /\ (Admitted(n, q) \/ AboutToFail(n, q)))'
      <3>1. Live(conv[n][q].state) => Admitted(n, q)
        BY <1>7, <2>1 DEF Talk
      <3>2. CASE EndpointOf[q] = e
        BY <1>2, <3>2 DEF LiveAt, Up, Live, Awaiting, Owing
      <3>3. CASE EndpointOf[q] # e
        BY <3>1, <3>3 DEF Admitted, Up
      <3>4. QED
        BY <3>2, <3>3
    <2>4. (Stock(n) => mind[n][q].shadow = conv[n][q].state)'
      BY <1>1, <1>7, <2>1 DEF Talk, Stock, Up
    <2>5. QED
      BY <1>2, <2>2, <2>3, <2>4 DEF Talk
  <1>9. FanInv'
    BY <1>1, FanStays DEF Up
  <1>10. QED
    BY <1>1, <1>2, <1>3, <1>4, <1>5, <1>6, <1>8, <1>9, Locally DEF HostOk, SameHost

LEMMA TakePeerDiedInv ==
    ASSUME KameoInv, NEW n \in Names, NEW e \in Endpoints, TakePeerDied(n, e)
    PROVE  KameoInv'
  <1>1. /\ Handles(n, PeerDied(e)) /\ FailOn(n, LiveAt(n, e), "Disconnected") /\ events' = {}
        /\ UNCHANGED <<actor, bound, leaving, conv, mind, sleeping, fan, heard>>
    BY DEF TakePeerDied
  <1>2. /\ PeerDied(e) \in Message /\ PeerDied(e) \in In(mailbox[n]) /\ Up(n)
    BY <1>1, HandlesMail DEF KameoInv
  <1>3. PeerDied(e).tag = "PeerDied" /\ PeerDied(e).endpoint = e
    BY DEF PeerDied
  <1>4. e \in heard[n]
    BY <1>2, <1>3 DEF KameoInv, HostOk, MailOk
  <1>5. actor' \in [Names -> Setup \cup {None}] /\ actor'[n] # None
    BY <1>1, <1>2 DEF KameoInv, KameoTypeOK, Up
  <1>6. QED
    BY <1>1, <1>2, <1>3, <1>4, <1>5, FailOnInv

LEMMA TakeRevokeInv ==
    ASSUME KameoInv, NEW n \in Names, NEW e \in Endpoints, TakeRevoke(n, e)
    PROVE  KameoInv'
  <1>1. /\ Handles(n, RevokeMsg(e)) /\ FailOn(n, LiveAt(n, e), "Revoked") /\ events' = {}
        /\ UNCHANGED <<bound, leaving, conv, mind, sleeping, fan, heard>>
    BY DEF TakeRevoke, FailsGuests
  <1>2. /\ RevokeMsg(e) \in Message /\ RevokeMsg(e).tag # "DeadlineElapsed" /\ Up(n)
    BY <1>1, HandlesMail DEF KameoInv, RevokeMsg
  <1>3. actor[n] \in Setup
    BY <1>2 DEF KameoInv, KameoTypeOK, Up
  <1> DEFINE s == [actor[n] EXCEPT !.allow = actor[n].allow \ {e}]
  <1>4. s \in Setup /\ s.party = actor[n].party /\ actor[n].allow \ {e} \subseteq s.allow
    BY <1>3 DEF Setup
  <1>5. actor' = [actor EXCEPT ![n] = s]
    BY DEF TakeRevoke
  <1>6. s # None
    BY <1>4, NoneIsNoSetup
  <1> HIDE DEF s
  <1>7. /\ actor' \in [Names -> Setup \cup {None}] /\ actor'[n] = s
        /\ \A k \in Names \ {n} : actor'[k] = actor[k]
    BY <1>4, <1>5 DEF KameoInv, KameoTypeOK
  <1>8. QED
    BY <1>1, <1>2, <1>4, <1>6, <1>7, FailOnInv

-----------------------------------------------------------------------------
(* The invariant *)

LEMMA InitInv == Init => KameoInv
  <1> SUFFICES ASSUME Init PROVE KameoInv
    OBVIOUS
  <1>1. KameoTypeOK
    BY InitType
  <1>2. FanInv
    BY DEF Init, FanInv
  <1>3. ASSUME NEW n \in Names PROVE HostOk(n)
    <2>1. /\ actor[n] = None /\ ~leaving[n] /\ job[n] = Resting /\ mailbox[n] = <<>>
          /\ sleeping[n] = {} /\ \A p \in Peers : conv[n][p] = Fresh /\ mind[n][p] = FreshMind
      BY DEF Init
    <2>2. RosterOk(n)
      BY <2>1 DEF RosterOk, Up
    <2>3. TimersOk(n)
      BY <2>1, FreshWaits DEF TimersOk
    <2>4. MailOk(n)
      BY <2>1, NoMail, JobKinds DEF MailOk, Knows, AboutToFail, TellingOf
    <2>5. ASSUME NEW p \in Peers PROVE Talk(n, p)
      <3>1. ~ThinkingOf(n, p) /\ ~SendingTo(n, p) /\ ~AboutToFail(n, p) /\ ~TellingOf(n, p)
        BY <2>1, RestingIsIdle
      <3>2. Fits(n, p)
        BY <2>1, <3>1 DEF Fits, Fresh, Idle, Awaiting
      <3>3. ~Live(conv[n][p].state)
        BY <2>1, FreshWaits
      <3>4. QED
        BY <2>1, <3>1, <3>2, <3>3 DEF Talk, Stock, Up
    <2>6. QED
      BY <2>2, <2>3, <2>4, <2>5 DEF HostOk
  <1>4. QED
    BY <1>1, <1>2, <1>3 DEF KameoInv

LEMMA HandleNextInv ==
    ASSUME KameoInv, NEW n \in Names, HandleNext(n)
    PROVE  KameoInv'
  <1>1. PICK m : m = Head(mailbox[n])
    OBVIOUS
  <1>2. m \in Message
    BY <1>1, TakenMail DEF HandleNext, KameoInv, KameoTypeOK
  <1>3. CASE m.tag = "Deliver"
    <2>1. PICK p, b : p = m.from /\ b = m.body
      OBVIOUS
    <2>2. p \in Peers /\ b \in Body
      BY <1>2, <1>3, <2>1, MessageKinds
    <2>3. HandleDelivery(n, p, b)
      BY <1>1, <1>3, <2>1 DEF HandleNext
    <2>4. CASE Deny(n, p, b) \/ TakeInert(n, p, b) \/ DropIllegalTurn(n, p, b)
      BY <2>2, <2>4, QuietDeliveryInv
    <2>5. CASE TakeAck(n, p, b)
      BY <2>2, <2>5, TakeAckInv
    <2>6. CASE Spawn(n, p, b)
      BY <2>2, <2>6, SpawnInv
    <2>7. CASE StopByCommand(n, p, b)
      BY <2>2, <2>7, StopByCommandInv
    <2>8. CASE TakeTurn(n, p, b)
      BY <2>2, <2>8, TakeTurnInv
    <2>9. QED
      BY <2>3, <2>4, <2>5, <2>6, <2>7, <2>8 DEF HandleDelivery
  <1>4. CASE m.tag # "Deliver"
    <2>1. HandleReport(n, m)
      BY <1>1, <1>4 DEF HandleNext
    <2>2. CASE m.tag = "DeadlineElapsed" /\ TakeElapsed(n, m.report)
      BY <1>2, <2>2, MessageKinds, TakeElapsedInv
    <2>3. CASE m.tag = "PeerDied" /\ TakePeerDied(n, m.endpoint)
      BY <1>2, <2>3, MessageKinds, TakePeerDiedInv
    <2>4. CASE m.tag = "Admit" /\ TakeAdmit(n, m.endpoint)
      BY <1>2, <2>4, MessageKinds, TakeAdmitInv
    <2>5. CASE m.tag = "Revoke" /\ TakeRevoke(n, m.endpoint)
      BY <1>2, <2>5, MessageKinds, TakeRevokeInv
    <2>6. QED
      BY <2>1, <2>2, <2>3, <2>4, <2>5 DEF HandleReport
  <1>5. QED
    BY <1>3, <1>4

LEMMA EnvironmentInv ==
    ASSUME KameoInv, NEW n \in Names, Environment(n)
    PROVE  KameoInv'
  <1>1. ASSUME NEW s \in Setups[n], Install(n, s) PROVE KameoInv'
    <2>1. s \in Setup
      BY SetupsAreSetups
    <2>2. QED
      BY <1>1, <2>1, InstallInv
  <1>2. CASE Stop(n)
    BY <1>2, StopInv
  <1>3. CASE PumpEnds(n)
    BY <1>3, PumpEndsInv
  <1>4. ASSUME NEW p \in Peers, NEW b \in Says[n], Pump(n, p, b) PROVE KameoInv'
    <2>1. b \in Body
      BY BodiesAreBodies
    <2>2. QED
      BY <1>4, <2>1, PumpInv
  <1>5. ASSUME NEW e \in Managed[n], Ask(n, AdmitMsg(e)) \/ Ask(n, RevokeMsg(e)) PROVE KameoInv'
    <2>1. e \in Endpoints
      BY ManagedAreEndpoints
    <2>2. QED
      BY <1>5, <2>1, AskInv
  <1>6. QED
    BY <1>1, <1>2, <1>3, <1>4, <1>5 DEF Environment

LEMMA StepInv == KameoInv /\ [Next]_vars => KameoInv'
  <1> SUFFICES ASSUME KameoInv, [Next]_vars PROVE KameoInv'
    OBVIOUS
  <1>1. ASSUME NEW n \in Names, HandleNext(n) PROVE KameoInv'
    BY <1>1, HandleNextInv
  <1>2. ASSUME NEW n \in Names, Finish(n) PROVE KameoInv'
    <2>1. CASE job[n].do = "think" /\ \E reply \in Turn \cup {None} : Answer(n, reply)
      BY <2>1, AnswerInv
    <2>2. CASE \E ok \in BOOLEAN : SendReturns(n, ok)
      BY <2>2, SendReturnsInv
    <2>3. CASE FailNext(n)
      BY <2>3, FailNextInv
    <2>4. CASE TellParty(n)
      BY <2>4, TellPartyInv
    <2>5. QED
      BY <1>2, <2>1, <2>2, <2>3, <2>4 DEF Finish
  <1>3. ASSUME NEW n \in Names, Environment(n) PROVE KameoInv'
    BY <1>3, EnvironmentInv
  <1>4. ASSUME NEW n \in Names, NEW p \in Peers, NEW kind \in DeadlineCauses, TimerOf(n, p, kind)
        PROVE  KameoInv'
    <2>1. PICK r \in sleeping[n] : GoesOff(n, r)
      BY <1>4 DEF TimerOf
    <2>2. r \in Report
      BY DEF KameoInv, KameoTypeOK
    <2>3. QED
      BY <2>1, <2>2, GoesOffInv
  <1>5. ASSUME NEW e \in Endpoints, HearDeath(e) PROVE KameoInv'
    BY <1>5, HearDeathInv
  <1>6. CASE PassOnDeath
    BY <1>6, PassOnDeathInv
  <1>7. CASE UNCHANGED vars
    <2>1. KameoTypeOK' /\ FanInv'
      BY <1>7 DEF vars, KameoInv, KameoTypeOK, FanInv, Up
    <2>2. \A n \in Names : SameHost(n)
      BY <1>7 DEF vars, SameHost
    <2>3. QED
      BY <2>1, <2>2, OtherHosts DEF KameoInv
  <1>8. QED
    BY <1>1, <1>2, <1>3, <1>4, <1>5, <1>6, <1>7 DEF Next, HostStep

(* The inductive invariant holds in every reachable state.                 *)
THEOREM KameoInvariant == SafeSpec => []KameoInv
  BY InitInv, StepInv, PTL DEF SafeSpec

(* The type invariant of the concurrent runtime, whatever is installed,    *)
(* said, admitted or cut off.                                              *)
THEOREM KameoTypeCorrect == SafeSpec => []KameoTypeOK
  <1>1. KameoInv => KameoTypeOK
    BY DEF KameoInv
  <1>2. QED
    BY <1>1, KameoInvariant, PTL

(* Every conversation waits for what its machine's state calls for, except *)
(* while its answer is with the transport.                                 *)
THEOREM KameoWaitsAlwaysFit == SafeSpec => []KameoWaitsFit
  <1>1. KameoInv => KameoWaitsFit
    BY DEF KameoInv, HostOk, Talk, Fits, KameoWaitsFit
  <1>2. QED
    BY <1>1, KameoInvariant, PTL

(* An armed wait always has a task asleep or a report in the mailbox.      *)
THEOREM VerdictsAreNeverLost == SafeSpec => []NoVerdictIsLost
  <1>1. KameoInv => NoVerdictIsLost
    <2> SUFFICES ASSUME KameoInv, NEW n \in Names, NEW p \in Peers,
                        NEW r \in Timers(p, conv[n][p]), r \notin sleeping[n]
                 PROVE  r \in Reported(n)
      BY DEF NoVerdictIsLost
    <2>1. Elapsed(r) \in In(mailbox[n])
      BY DEF KameoInv, HostOk, TimersOk
    <2>2. PICK i \in DOMAIN mailbox[n] : mailbox[n][i] = Elapsed(r)
      BY <2>1 DEF In
    <2>3. mailbox[n][i].tag = "DeadlineElapsed" /\ mailbox[n][i].report = r
      BY <2>2 DEF Elapsed
    <2>4. QED
      BY <2>3 DEF Reported
  <1>2. QED
    BY <1>1, KameoInvariant, PTL

(* A sleeping task is always one of a wait that is still armed.            *)
THEOREM TimersEndWithTheirWaits == SafeSpec => []NoTimerOutlivesItsWait
  <1>1. KameoInv => NoTimerOutlivesItsWait
    <2> SUFFICES ASSUME KameoInv, NEW n \in Names, NEW r \in sleeping[n]
                 PROVE  \E p \in Peers : r \in Timers(p, conv[n][p])
      BY DEF NoTimerOutlivesItsWait
    <2>1. r.peer \in Peers /\ r \in Timers(r.peer, conv[n][r.peer])
      BY DEF KameoInv, KameoTypeOK, Report, HostOk, TimersOk
    <2>2. QED
      BY <2>1
  <1>2. QED
    BY <1>1, KameoInvariant, PTL

(* Only admitted endpoints have live exchanges, those being failed for a   *)
(* revocation aside.                                                       *)
THEOREM KameoOnlyAdmittedLive == SafeSpec => []KameoLivePeersAreAdmitted
  <1>1. KameoInv => KameoLivePeersAreAdmitted
    BY DEF KameoInv, HostOk, Talk, KameoLivePeersAreAdmitted
  <1>2. QED
    BY <1>1, KameoInvariant, PTL

(* A stock party's shadow follows the machine through every failure.       *)
THEOREM KameoShadowsAlwaysAgree == SafeSpec => []KameoShadowsAgree
  <1>1. KameoInv => KameoShadowsAgree
    BY DEF KameoInv, HostOk, Talk, KameoShadowsAgree
  <1>2. QED
    BY <1>1, KameoInvariant, PTL

(* The pump of a stopped actor never unbinds its successor.                *)
THEOREM InstalledStaysBound == SafeSpec => []InstalledIsBound
  <1>1. KameoInv => InstalledIsBound
    BY DEF KameoInv, HostOk, RosterOk, InstalledIsBound
  <1>2. QED
    BY <1>1, KameoInvariant, PTL

-----------------------------------------------------------------------------
(* What a step may do to an exchange                                       *)

(* It stays where it is, is walked by a legal turn, or goes or comes with  *)
(* its host.                                                               *)
Walked(n, p) ==
    \/ conv'[n][p].state = conv[n][p].state
    \/ conv'[n][p].state = Idle /\ (~Up(n) \/ ~Up(n)')
    \/ \E t \in Turn :
          \/ CanReceive(conv[n][p].state, t) /\ conv'[n][p].state = AfterReceive(t)
          \/ CanSend(conv[n][p].state, t) /\ conv'[n][p].state = AfterSend(t)

(* The host goes on telling its party, or was not and is not; a stop ends  *)
(* it.                                                                     *)
TellsOn(n) ==
    \/ job'[n] = job[n]
    \/ job'[n].do # "tell" /\ (job[n].do # "tell" \/ ~Up(n)')

Walks == /\ \A e \in events' : e.ev # "ExchangeFailed"
         /\ \A n \in Names, p \in Peers : Walked(n, p)
         /\ \A n \in Names : TellsOn(n)

(* Evidence: of a death heard of, or of a report that is still pending.    *)
Founded(n, p, cause) ==
    /\ cause = "Disconnected" => EndpointOf[p] \in heard[n]
    /\ cause \in DeadlineCauses =>
          \E r \in Report :
              /\ r.peer = p /\ r.kind = cause /\ StillPending(conv[n][p], r)
              /\ mailbox[n] # <<>> /\ Head(mailbox[n]) = Elapsed(r)

FailsOne(n, p) ==
    /\ job[n].do # "tell"
    /\ \E cause \in FailureCauses, rest \in SUBSET Peers :
          FailExchange(n, p, cause, rest) /\ Founded(n, p, cause)

WalksOrFails(n) == Walks \/ (\E p \in Peers : FailsOne(n, p)) \/ TellParty(n)

(* One host sets out to do something else than telling.                    *)
LEMMA SetsOut ==
    ASSUME KameoInv, NEW n \in Names, job[n].do # "tell", NEW j, j.do # "tell",
           job' = [job EXCEPT ![n] = j]
    PROVE  \A k \in Names : TellsOn(k)
  <1>1. job'[n] = j /\ \A k \in Names \ {n} : job'[k] = job[k]
    BY DEF KameoInv, KameoTypeOK
  <1>2. QED
    BY <1>1 DEF TellsOn

LEMMA StillWalks ==
    ASSUME conv' = conv, \A e \in events' : e.ev # "ExchangeFailed",
           job' = job \/ \A n \in Names : TellsOn(n)
    PROVE  Walks
  BY DEF Walks, Walked, TellsOn

LEMMA NextWalks ==
    ASSUME KameoInv, NEW n \in Names, NEW p \in Peers,
           conv'[n][p].state # conv[n][p].state => Walked(n, p),
           \A q \in Peers \ {p} : conv'[n][q] = conv[n][q],
           \A k \in Names \ {n} : conv'[k] = conv[k],
           \A e \in events' : e.ev # "ExchangeFailed",
           job' = job \/ \A k \in Names : TellsOn(k)
    PROVE  Walks
  BY DEF Walks, Walked, TellsOn

LEMMA BlankWalks ==
    ASSUME KameoInv, NEW n \in Names, NEW setup, Blank(n, setup), ~Up(n) \/ setup = None,
           events' = {}
    PROVE  Walks
  <1>1. /\ actor'[n] = setup /\ job'[n] = Resting /\ \A p \in Peers : conv'[n][p] = Fresh
        /\ \A k \in Names \ {n} : conv'[k] = conv[k] /\ job'[k] = job[k]
    BY BlankHost DEF KameoInv
  <1>2. \A p \in Peers : Walked(n, p)
    BY <1>1 DEF Walked, Fresh, Up
  <1>3. TellsOn(n)
    <2>1. ~Up(n) => job[n] = Resting
      BY DEF KameoInv, HostOk, RosterOk
    <2>2. QED
      BY <1>1, <2>1, JobKinds DEF TellsOn, Up
  <1>4. QED
    BY <1>1, <1>2, <1>3 DEF Walks, Walked, TellsOn

LEMMA FinishWalksOrFails ==
    ASSUME KameoInv, NEW n \in Names, Finish(n)
    PROVE  WalksOrFails(n)
  <1>1. job[n] \in Job
    BY DEF KameoInv, KameoTypeOK
  <1>2. ASSUME job[n].do = "think", NEW reply \in Turn \cup {None}, Answer(n, reply)
        PROVE  WalksOrFails(n)
    <2>1. PICK p, t : p = job[n].peer /\ t = job[n].turn
      OBVIOUS
    <2> DEFINE x == [conv[n][p] EXCEPT !.state = AfterSend(reply)]
    <2>2. p \in Peers
      BY <1>2, <2>1, ThoughtOver DEF Answer
    <2>3. CASE reply = None
      <3>1. conv' = conv /\ events' = {} /\ job' = [job EXCEPT ![n] = Resting]
        BY <1>2, <2>3 DEF Answer, Becomes
      <3>2. QED
        BY <1>2, <3>1, JobKinds, SetsOut, StillWalks DEF WalksOrFails
    <2>4. CASE reply # None /\ ~CanSend(conv[n][p].state, reply)
      <3>1. FailExchange(n, p, "IllegalReply", {})
        BY <1>2, <2>1, <2>4 DEF Answer
      <3>2. QED
        BY <1>2, <2>2, <3>1 DEF WalksOrFails, FailsOne, Founded, FailureCauses, DeadlineCauses
    <2>5. CASE reply # None /\ CanSend(conv[n][p].state, reply)
      <3>1. /\ conv' = [conv EXCEPT ![n][p] = x] /\ events' = {}
            /\ job' = [job EXCEPT ![n] = Sending(p, reply)]
        BY <1>2, <2>1, <2>5 DEF Answer, Becomes
      <3>2. x.state = AfterSend(reply)
        BY <2>2 DEF KameoInv, KameoTypeOK, PeerWaits
      <3> HIDE DEF x
      <3>3. /\ conv'[n][p] = x
            /\ \A q \in Peers \ {p} : conv'[n][q] = conv[n][q]
            /\ \A k \in Names \ {n} : conv'[k] = conv[k]
        BY <2>2, <3>1 DEF KameoInv, KameoTypeOK
      <3>4. Walked(n, p)
        BY <1>2, <2>5, <3>2, <3>3 DEF Walked
      <3>5. \A k \in Names : TellsOn(k)
        <4>1. Sending(p, reply).do = "send"
          BY DEF Sending
        <4>2. QED
          BY <1>2, <3>1, <4>1, SetsOut
      <3>6. QED
        BY <2>2, <3>1, <3>3, <3>4, <3>5, NextWalks DEF WalksOrFails
    <2>6. QED
      BY <2>3, <2>4, <2>5
  <1>3. ASSUME NEW ok \in BOOLEAN, SendReturns(n, ok)
        PROVE  WalksOrFails(n)
    <2>1. PICK p, t : p = job[n].peer /\ t = job[n].turn
      OBVIOUS
    <2> DEFINE c == ArmedAnew(conv[n][p], t)
    <2>2. p \in Peers /\ job[n].do = "send"
      BY <1>1, <1>3, <2>1, JobKinds DEF SendReturns
    <2>3. CASE ~ok
      <3>1. FailExchange(n, p, "SendFailed", {})
        BY <1>3, <2>1, <2>3 DEF SendReturns
      <3>2. QED
        BY <2>2, <3>1 DEF WalksOrFails, FailsOne, Founded, FailureCauses, DeadlineCauses
    <2>4. CASE ok
      <3>1. /\ conv' = [conv EXCEPT ![n][p] = c] /\ events' = {}
            /\ job' = [job EXCEPT ![n] = Resting]
        BY <1>3, <2>1, <2>4 DEF SendReturns, Becomes
      <3>2. c.state = conv[n][p].state
        BY <2>2 DEF ArmedAnew, KameoInv, KameoTypeOK, PeerWaits
      <3> HIDE DEF c
      <3>3. /\ conv'[n][p] = c
            /\ \A q \in Peers \ {p} : conv'[n][q] = conv[n][q]
            /\ \A k \in Names \ {n} : conv'[k] = conv[k]
        BY <2>2, <3>1 DEF KameoInv, KameoTypeOK
      <3>4. \A k \in Names : TellsOn(k)
        BY <2>2, <3>1, JobKinds, SetsOut
      <3>5. QED
        BY <2>2, <3>1, <3>2, <3>3, <3>4, NextWalks DEF WalksOrFails
    <2>5. QED
      BY <2>3, <2>4
  <1>4. ASSUME FailNext(n)
        PROVE  WalksOrFails(n)
    <2>1. PICK p \in job[n].rest : FailExchange(n, p, job[n].why, job[n].rest \ {p})
      BY <1>4 DEF FailNext
    <2>2. /\ job[n].do = "fail" /\ job[n].rest \in SUBSET Peers
          /\ job[n].why \in FailureCauses /\ p \in Peers /\ AboutToFail(n, p)
      BY <1>1, <1>4, <2>1, JobKinds DEF FailNext, AboutToFail
    <2>3. /\ job[n].why \notin DeadlineCauses
          /\ job[n].why = "Disconnected" => EndpointOf[p] \in heard[n]
      BY <2>2 DEF KameoInv, HostOk, MailOk, Knows
    <2>4. Founded(n, p, job[n].why)
      BY <2>3 DEF Founded
    <2> DEFINE left == job[n].rest \ {p}
    <2>5. left \in SUBSET Peers /\ FailExchange(n, p, job[n].why, left)
      BY <2>1, <2>2
    <2> HIDE DEF left
    <2>6. QED
      BY <2>2, <2>4, <2>5 DEF WalksOrFails, FailsOne
  <1>5. QED
    BY <1>2, <1>3, <1>4 DEF Finish, WalksOrFails

LEMMA HandleWalksOrFails ==
    ASSUME KameoInv, NEW n \in Names, HandleNext(n)
    PROVE  WalksOrFails(n)
  <1>1. PICK m : m = Head(mailbox[n])
    OBVIOUS
  <1>2. m \in Message
    BY <1>1, TakenMail DEF HandleNext, KameoInv, KameoTypeOK
  <1>3. CASE m.tag = "Deliver"
    <2>1. PICK p, b : p = m.from /\ b = m.body
      OBVIOUS
    <2>2. p \in Peers /\ b \in Body
      BY <1>2, <1>3, <2>1, MessageKinds
    <2>3. HandleDelivery(n, p, b)
      BY <1>1, <1>3, <2>1 DEF HandleNext
    <2>4. CASE Deny(n, p, b) \/ TakeInert(n, p, b) \/ DropIllegalTurn(n, p, b)
      <3>1. conv' = conv /\ job' = job /\ \A e \in events' : e.ev # "ExchangeFailed"
        BY <2>4 DEF Deny, TakeInert, DropIllegalTurn, DeliveryDenied, IllegalTurnDropped
      <3>2. QED
        BY <3>1, StillWalks DEF WalksOrFails
    <2>5. CASE TakeAck(n, p, b)
      <3>1. CASE conv[n][p].ack # b.id
        BY <2>5, <3>1, StillWalks DEF TakeAck, WalksOrFails
      <3>2. CASE conv[n][p].ack = b.id
        <4> DEFINE c == [conv[n][p] EXCEPT !.ack = None]
        <4>1. conv' = [conv EXCEPT ![n][p] = c] /\ events' = {} /\ job' = job
          BY <2>5, <3>2 DEF TakeAck
        <4>2. c.state = conv[n][p].state
          BY <2>2 DEF KameoInv, KameoTypeOK, PeerWaits
        <4> HIDE DEF c
        <4>3. /\ conv'[n][p] = c
              /\ \A q \in Peers \ {p} : conv'[n][q] = conv[n][q]
              /\ \A k \in Names \ {n} : conv'[k] = conv[k]
          BY <2>2, <4>1 DEF KameoInv, KameoTypeOK
        <4>4. QED
          BY <2>2, <4>1, <4>2, <4>3, NextWalks DEF WalksOrFails
      <3>3. QED
        BY <3>1, <3>2
    <2>6. CASE Spawn(n, p, b)
      <3>1. b.name \in Names
        BY <2>2, <2>6, MessageKinds DEF Spawn, Spawns
      <3>2. QED
        BY <2>6, <3>1, BlankWalks DEF Spawn, Started, Installable, WalksOrFails
    <2>7. CASE StopByCommand(n, p, b)
      <3>1. b.name \in Names
        BY <2>2, <2>7, MessageKinds DEF StopByCommand, Stops
      <3>2. QED
        BY <2>7, <3>1, BlankWalks DEF StopByCommand, Stopped, WalksOrFails
    <2>8. CASE TakeTurn(n, p, b)
      <3> DEFINE c == [SettledAll(conv[n][p]) EXCEPT !.state = AfterReceive(b.turn)]
      <3>1. /\ b.turn \in Turn /\ CanReceive(conv[n][p].state, b.turn) /\ events' = {}
            /\ conv' = [conv EXCEPT ![n][p] = c] /\ job[n] = Resting
            /\ job' = [job EXCEPT ![n] = Thinking(p, b.turn)]
        BY <2>2, <2>8, MessageKinds DEF TakeTurn, Hears, Handles, Becomes
      <3>2. c.state = AfterReceive(b.turn)
        BY <2>2 DEF KameoInv, KameoTypeOK, PeerWaits, SettledAll
      <3> HIDE DEF c
      <3>3. /\ conv'[n][p] = c
            /\ \A q \in Peers \ {p} : conv'[n][q] = conv[n][q]
            /\ \A k \in Names \ {n} : conv'[k] = conv[k]
        BY <2>2, <3>1 DEF KameoInv, KameoTypeOK
      <3>4. Walked(n, p)
        BY <3>1, <3>2, <3>3 DEF Walked
      <3>5. \A k \in Names : TellsOn(k)
        <4>1. Thinking(p, b.turn).do = "think" /\ job[n].do # "tell"
          BY <3>1, JobKinds DEF Thinking
        <4>2. QED
          BY <3>1, <4>1, SetsOut
      <3>6. QED
        BY <2>2, <3>1, <3>3, <3>4, <3>5, NextWalks DEF WalksOrFails
    <2>9. QED
      BY <2>3, <2>4, <2>5, <2>6, <2>7, <2>8 DEF HandleDelivery
  <1>4. CASE m.tag # "Deliver"
    <2>1. HandleReport(n, m)
      BY <1>1, <1>4 DEF HandleNext
    <2>2. ASSUME m.tag = "DeadlineElapsed", TakeElapsed(n, m.report)
          PROVE  WalksOrFails(n)
      <3>1. m.report \in Report
        BY <1>2, <2>2, MessageKinds
      <3>2. m.report.peer \in Peers /\ m.report.kind \in DeadlineCauses
        BY <3>1 DEF Report
      <3>3. CASE ~StillPending(conv[n][m.report.peer], m.report)
        BY <2>2, <3>3, StillWalks DEF TakeElapsed, WalksOrFails
      <3>4. CASE StillPending(conv[n][m.report.peer], m.report)
        <4>1. Founded(n, m.report.peer, m.report.kind)
          BY <2>2, <3>1, <3>2, <3>4 DEF TakeElapsed, Handles, Founded, DeadlineCauses
        <4>2. FailExchange(n, m.report.peer, m.report.kind, {})
          BY <2>2, <3>4 DEF TakeElapsed
        <4>3. job[n].do # "tell"
          BY <2>2, JobKinds DEF TakeElapsed, Handles
        <4>4. QED
          BY <3>2, <4>1, <4>2, <4>3 DEF WalksOrFails, FailsOne, FailureCauses, DeadlineCauses
      <3>5. QED
        BY <3>3, <3>4
    <2>3. ASSUME \/ TakePeerDied(n, m.endpoint) \/ TakeAdmit(n, m.endpoint)
                 \/ TakeRevoke(n, m.endpoint)
          PROVE  WalksOrFails(n)
      <3>1. CASE TakeAdmit(n, m.endpoint)
        BY <3>1, StillWalks DEF TakeAdmit, WalksOrFails
      <3>2. ASSUME NEW cause, FailOn(n, LiveAt(n, m.endpoint), cause), job[n] = Resting,
                   conv' = conv, events' = {}
            PROVE  WalksOrFails(n)
        <4> DEFINE ps == LiveAt(n, m.endpoint)
                   j == IF ps = {} THEN Resting ELSE Failing(ps, cause)
        <4>1. j.do # "tell" /\ job[n].do # "tell"
          BY <3>2, JobKinds DEF Failing
        <4>2. job' = [job EXCEPT ![n] = j]
          BY <3>2 DEF FailOn, Becomes
        <4> HIDE DEF ps, j
        <4>3. QED
          BY <3>2, <4>1, <4>2, SetsOut, StillWalks DEF WalksOrFails
      <3>3. QED
        BY <2>3, <3>1, <3>2 DEF TakePeerDied, TakeRevoke, FailsGuests, Handles
    <2>4. QED
      BY <2>1, <2>2, <2>3 DEF HandleReport
  <1>5. QED
    BY <1>3, <1>4

LEMMA StepWalksOrFails ==
    ASSUME KameoInv, Next
    PROVE  \/ Walks
           \/ \E n \in Names, p \in Peers : FailsOne(n, p)
           \/ \E n \in Names : TellParty(n)
  <1>1. ASSUME NEW n \in Names, HostStep(n)
        PROVE  WalksOrFails(n)
    BY <1>1, HandleWalksOrFails, FinishWalksOrFails DEF HostStep
  <1>2. ASSUME NEW n \in Names, Environment(n) PROVE Walks
    <2>1. ASSUME NEW s \in Setups[n], Install(n, s) PROVE Walks
      BY <2>1, BlankWalks DEF Install, Started, Installable
    <2>2. CASE Stop(n)
      BY <2>2, BlankWalks DEF Stop, Stopped
    <2>3. CASE PumpEnds(n)
      BY <2>3, StillWalks DEF PumpEnds, hostVars
    <2>4. ASSUME NEW p \in Peers, NEW b \in Says[n], Pump(n, p, b) PROVE Walks
      BY <2>4, StillWalks DEF Pump
    <2>5. ASSUME NEW e \in Managed[n], Ask(n, AdmitMsg(e)) \/ Ask(n, RevokeMsg(e)) PROVE Walks
      BY <2>5, StillWalks DEF Ask
    <2>6. QED
      BY <1>2, <2>1, <2>2, <2>3, <2>4, <2>5 DEF Environment
  <1>3. ASSUME NEW n \in Names, NEW p \in Peers, NEW kind \in DeadlineCauses, TimerOf(n, p, kind)
        PROVE  Walks
    BY <1>3, StillWalks DEF TimerOf, GoesOff
  <1>4. ASSUME NEW e \in Endpoints, HearDeath(e) PROVE Walks
    BY <1>4, StillWalks DEF HearDeath, hostVars
  <1>5. CASE PassOnDeath
    BY <1>5, StillWalks DEF PassOnDeath
  <1>6. QED
    BY <1>1, <1>2, <1>3, <1>4, <1>5 DEF Next, WalksOrFails

LEMMA OneFails ==
    ASSUME KameoInv, NEW n \in Names, NEW p \in Peers, FailsOne(n, p)
    PROVE  /\ conv'[n][p].state = Fail(conv[n][p].state)
           /\ \A q \in Peers \ {p} : conv'[n][q] = conv[n][q]
           /\ \A k \in Names \ {n} : conv'[k] = conv[k] /\ job'[k] = job[k]
           /\ events' = {} /\ TellingOf(n, p)' /\ \A q \in Peers : ~TellingOf(n, q)
           /\ Founded(n, p, job'[n].why)
  <1>1. PICK cause \in FailureCauses, rest \in SUBSET Peers :
           FailExchange(n, p, cause, rest) /\ Founded(n, p, cause)
    BY DEF FailsOne
  <1>2. /\ conv'[n][p] = FailedConv(conv[n][p]) /\ events' = {}
        /\ job'[n].do = "tell" /\ job'[n].peer = p /\ job'[n].why = cause
        /\ \A q \in Peers \ {p} : conv'[n][q] = conv[n][q]
        /\ \A k \in Names \ {n} : conv'[k] = conv[k] /\ job'[k] = job[k]
    BY <1>1, FailExchangeDoes DEF KameoInv
  <1>3. conv'[n][p].state = Fail(conv[n][p].state)
    <2>1. conv[n][p] \in PeerWaits
      BY DEF KameoInv, KameoTypeOK
    <2>2. FailedConv(conv[n][p]).state = Fail(conv[n][p].state)
      BY <2>1, FailedWaits
    <2>3. QED
      BY <1>2, <2>2
  <1>4. TellingOf(n, p)' /\ \A q \in Peers : ~TellingOf(n, q)
    BY <1>2 DEF TellingOf, FailsOne
  <1>5. QED
    BY <1>1, <1>2, <1>3, <1>4

(* The event of a failed exchange finds nothing alive of it.               *)
LEMMA OneTells ==
    ASSUME KameoInv, NEW n \in Names, TellParty(n)
    PROVE  LET p == job[n].peer
           IN /\ p \in Peers /\ TellingOf(n, p) /\ conv' = conv
              /\ events' = {ExchangeFailed(n, p, job[n].why)}
              /\ job[n].why = "Disconnected" => EndpointOf[p] \in heard[n]
              /\ ~Live(conv[n][p].state) /\ Timers(p, conv[n][p]) = {}
              /\ job'[n].do # "tell" /\ \A k \in Names \ {n} : job'[k] = job[k]
  <1>1. PICK p, ps, why : p = job[n].peer /\ ps = job[n].rest /\ why = job[n].why
    OBVIOUS
  <1>2. /\ p \in Peers /\ TellingOf(n, p) /\ job[n].do = "tell"
        /\ ps \in SUBSET Peers /\ why \in FailureCauses /\ FailOn(n, ps, why)
        /\ events' = {ExchangeFailed(n, p, why)} /\ conv' = conv
    BY <1>1, TellPartyDoes
  <1>3. job'[n].do \in {"rest", "fail"} /\ \A k \in Names \ {n} : job'[k] = job[k]
    BY <1>2, FailOnDoes DEF KameoInv
  <1>4. why = "Disconnected" => EndpointOf[p] \in heard[n]
    BY <1>1, <1>2 DEF KameoInv, HostOk, MailOk, Knows
  <1>5. conv[n][p] \in PeerWaits /\ Talk(n, p) /\ ~SendingTo(n, p)
    BY <1>2 DEF KameoInv, KameoTypeOK, HostOk, SendingTo
  <1>6. ~Live(conv[n][p].state)
    BY <1>2, <1>5 DEF Talk
  <1>7. conv[n][p].ack = None /\ conv[n][p].turn = FALSE
    BY <1>5, <1>6 DEF Talk, Fits, Live, Awaiting, AwaitingTheirTurn, PeerWaits
  <1>8. Timers(p, conv[n][p]) = {}
    BY <1>2, <1>5, <1>7, TimerKinds
  <1>9. QED
    BY <1>1, <1>2, <1>3, <1>4, <1>6, <1>8

(* A legal turn never leads to Failed.                                     *)
LEMMA WalkedAlive ==
    ASSUME NEW n \in Names, NEW p \in Peers, Walked(n, p), Live(conv[n][p].state)
    PROVE  conv'[n][p].state # Failed
  BY AfterSendMove, AfterReceiveMove DEF Walked, Live, Awaiting, Owing, Failed, Idle

(* Deaths of before an actor's time leave its exchanges alone.             *)
THEOREM OldDeathsSpare == SafeSpec => OldDeathsSpareNewActors
  <1>1. ASSUME KameoInv, [Next]_vars
        PROVE  [\A n \in Names, p \in Peers :
                   ExchangeFailed(n, p, "Disconnected") \in events' => EndpointOf[p] \in heard[n]]_vars
    <2>1. CASE UNCHANGED vars
      BY <2>1
    <2>2. ASSUME Next, NEW n \in Names, NEW p \in Peers,
                 ExchangeFailed(n, p, "Disconnected") \in events'
          PROVE  EndpointOf[p] \in heard[n]
      <3>1. CASE Walks
        BY <2>2, <3>1 DEF Walks, ExchangeFailed
      <3>2. ASSUME NEW k \in Names, NEW q \in Peers, FailsOne(k, q)
            PROVE  EndpointOf[p] \in heard[n]
        <4>1. events' = {}
          BY <1>1, <3>2, OneFails
        <4>2. QED
          BY <2>2, <4>1
      <3>3. ASSUME NEW k \in Names, TellParty(k)
            PROVE  EndpointOf[p] \in heard[n]
        <4>1. /\ events' = {ExchangeFailed(k, job[k].peer, job[k].why)}
              /\ job[k].why = "Disconnected" => EndpointOf[job[k].peer] \in heard[k]
          BY <1>1, <3>3, OneTells
        <4>2. k = n /\ job[k].peer = p /\ job[k].why = "Disconnected"
          BY <2>2, <4>1 DEF ExchangeFailed
        <4>3. QED
          BY <4>1, <4>2
      <3>4. QED
        BY <1>1, <2>2, <3>1, <3>2, <3>3, StepWalksOrFails
    <2>3. QED
      BY <1>1, <2>1, <2>2
  <1>2. QED
    BY <1>1, KameoInvariant, PTL DEF SafeSpec, OldDeathsSpareNewActors

(* Nothing is owed to party or observer but by a death, and a death is     *)
(* owed until they are told or the host is gone.                           *)
THEOREM KameoTellsFailures == SafeSpec => KameoFailuresAreTold
  <1> DEFINE Owed(n, p) == Live(conv[n][p].state) /\ conv'[n][p].state = Failed
                              => TellingOf(n, p)'
             Kept(n, p) == TellingOf(n, p) =>
                              \/ ~Up(n)'
                              \/ job'[n] = job[n] /\ FailureEvents(n, p)' = {}
                              \/ FailureEvents(n, p)' = {ExchangeFailed(n, p, job[n].why)}
             Over(n, p) == FailureEvents(n, p)' # {} =>
                              /\ TellingOf(n, p)
                              /\ ~Live(conv'[n][p].state) /\ Timers(p, conv'[n][p]) = {}
             Told(n, p) == /\ Owed(n, p)
                           /\ Kept(n, p)
                           /\ Over(n, p)
  <1>1. ASSUME KameoInv, [Next]_vars
        PROVE  [\A n \in Names, p \in Peers : Told(n, p)]_vars
    <2>1. CASE UNCHANGED vars
      BY <2>1
    <2>2. ~Live(Failed)
      BY DEF Failed, Live, Awaiting, Owing
    <2>3. ASSUME Next, NEW n \in Names, NEW p \in Peers
          PROVE  Told(n, p)
      <3>1. CASE Walks
        <4>1. FailureEvents(n, p)' = {}
          BY <3>1 DEF Walks, FailureEvents
        <4>2. ~(Live(conv[n][p].state) /\ conv'[n][p].state = Failed)
          BY <3>1, WalkedAlive DEF Walks
        <4>3. TellingOf(n, p) => job'[n] = job[n] \/ ~Up(n)'
          BY <3>1 DEF Walks, TellsOn, TellingOf
        <4>4. QED
          BY <4>1, <4>2, <4>3
      <3>2. ASSUME NEW k \in Names, NEW q \in Peers, FailsOne(k, q)
            PROVE  Told(n, p)
        <4>1. /\ TellingOf(k, q)' /\ \A x \in Peers : ~TellingOf(k, x)
              /\ \A x \in Peers \ {q} : conv'[k][x] = conv[k][x]
              /\ \A m \in Names \ {k} : conv'[m] = conv[m] /\ job'[m] = job[m]
              /\ events' = {}
          BY <1>1, <3>2, OneFails
        <4>2. FailureEvents(n, p)' = {}
          BY <4>1 DEF FailureEvents
        <4>3. Owed(n, p)
          <5>1. CASE n = k /\ p = q
            BY <4>1, <5>1
          <5>2. CASE n # k \/ p # q
            BY <2>2, <4>1, <5>2
          <5>3. QED
            BY <5>1, <5>2
        <4>4. Kept(n, p)
          BY <4>1, <4>2
        <4>5. QED
          BY <4>2, <4>3, <4>4
      <3>3. ASSUME NEW k \in Names, TellParty(k)
            PROVE  Told(n, p)
        <4>1. PICK q, why : q = job[k].peer /\ why = job[k].why
          OBVIOUS
        <4>2. /\ q \in Peers /\ TellingOf(k, q) /\ conv' = conv
              /\ events' = {ExchangeFailed(k, q, why)}
              /\ ~Live(conv[k][q].state) /\ Timers(q, conv[k][q]) = {}
              /\ \A m \in Names \ {k} : job'[m] = job[m]
          BY <1>1, <3>3, <4>1, OneTells
        <4>3. Owed(n, p)
          BY <2>2, <4>2
        <4>4. CASE n = k /\ p = q
          <5>1. FailureEvents(n, p)' = {ExchangeFailed(n, p, why)}
            BY <4>2, <4>4 DEF FailureEvents, ExchangeFailed
          <5>2. QED
            BY <4>1, <4>2, <4>3, <4>4, <5>1
        <4>5. CASE n # k \/ p # q
          <5>1. FailureEvents(n, p)' = {}
            BY <4>2, <4>5 DEF FailureEvents, ExchangeFailed
          <5>2. TellingOf(n, p) => n # k
            BY <4>1, <4>5 DEF TellingOf
          <5>3. QED
            BY <4>2, <4>3, <5>1, <5>2
        <4>6. QED
          BY <4>4, <4>5
      <3>4. QED
        BY <1>1, <2>3, <3>1, <3>2, <3>3, StepWalksOrFails
    <2>4. QED
      BY <1>1, <2>1, <2>3
  <1>2. QED
    BY <1>1, KameoInvariant, PTL DEF SafeSpec, KameoFailuresAreTold

-----------------------------------------------------------------------------
(* Every conversation implements Exchange                                  *)

LEMMA MoveNow ==
    ASSUME NEW n \in Names, NEW p \in Peers
    PROVE  /\ conv[n][p].state = Idle    => Move(n, p) = "nobody"
           /\ conv[n][p].state = Failed  => Move(n, p) = "dead"
           /\ Owing(conv[n][p].state)    => Move(n, p) = "ours"
           /\ Awaiting(conv[n][p].state) => Move(n, p) = "theirs"
  BY DEF Move, Idle, Failed, Owing, Awaiting

LEMMA MoveNext ==
    ASSUME NEW n \in Names, NEW p \in Peers
    PROVE  /\ conv'[n][p].state = Idle    => Move(n, p)' = "nobody"
           /\ conv'[n][p].state = Failed  => Move(n, p)' = "dead"
           /\ Owing(conv'[n][p].state)    => Move(n, p)' = "ours"
           /\ Awaiting(conv'[n][p].state) => Move(n, p)' = "theirs"
  BY DEF Move, Idle, Failed, Owing, Awaiting

LEMMA MoveStays ==
    ASSUME NEW n \in Names, NEW p \in Peers, conv'[n][p].state = conv[n][p].state
    PROVE  Move(n, p)' = Move(n, p)
  BY DEF Move, Owing, Awaiting

LEMMA WalkedMove ==
    ASSUME KameoInv, NEW n \in Names, NEW p \in Peers, NEW t \in Turn,
           \/ CanReceive(conv[n][p].state, t) /\ conv'[n][p].state = AfterReceive(t)
           \/ CanSend(conv[n][p].state, t) /\ conv'[n][p].state = AfterSend(t)
    PROVE  Promise(n, p)!Begin \/ Promise(n, p)!Alternate \/ Promise(n, p)!Conclude
  <1>1. conv[n][p].state \in TurnState
    BY DEF KameoInv, KameoTypeOK, PeerWaits
  <1>2. t.kind = "Close" => Move(n, p)' = "nobody"
    BY AfterSendMove, AfterReceiveMove, MoveNext
  <1>3. t.kind # "Close" => Move(n, p)' \in {"ours", "theirs"}
    BY AfterSendMove, AfterReceiveMove, MoveNext
  <1>4. CASE Opens(conv[n][p].state, t)
    <2>1. Move(n, p) \in {"nobody", "dead"}
      BY <1>1, <1>4, StateKinds, MoveNow DEF Opens
    <2>2. Move(n, p)' \in {"ours", "theirs"}
      BY <1>3, <1>4 DEF Opens
    <2>3. QED
      BY <2>1, <2>2 DEF Promise!Begin
  <1>5. CASE ~Opens(conv[n][p].state, t) /\ Awaiting(conv[n][p].state)
    <2>1. Move(n, p) = "theirs"
      BY <1>5, MoveNow
    <2>2. conv'[n][p].state = AfterReceive(t)
      BY <1>5 DEF CanSend, Awaiting, Owing
    <2>3. t.kind # "Close" => Move(n, p)' = "ours"
      BY <2>2, AfterReceiveMove, MoveNext
    <2>4. QED
      BY <1>2, <2>1, <2>3 DEF Promise!Alternate, Promise!Conclude
  <1>6. CASE ~Opens(conv[n][p].state, t) /\ Owing(conv[n][p].state)
    <2>1. Move(n, p) = "ours"
      BY <1>6, MoveNow
    <2>2. conv'[n][p].state = AfterSend(t)
      BY <1>6 DEF CanReceive, Awaiting, Owing
    <2>3. t.kind # "Close" => Move(n, p)' = "theirs"
      BY <2>2, AfterSendMove, MoveNext
    <2>4. QED
      BY <1>2, <2>1, <2>3 DEF Promise!Alternate, Promise!Conclude
  <1>7. QED
    BY <1>4, <1>5, <1>6 DEF CanReceive, CanSend

LEMMA FailedMove ==
    ASSUME KameoInv, NEW n \in Names, NEW p \in Peers, conv'[n][p].state = Fail(conv[n][p].state)
    PROVE  Promise(n, p)!Die \/ Move(n, p)' = Move(n, p)
  <1>1. conv[n][p].state \in TurnState
    BY DEF KameoInv, KameoTypeOK, PeerWaits
  <1>2. CASE ~Live(conv[n][p].state)
    BY <1>1, <1>2, FailMove, MoveStays
  <1>3. CASE Live(conv[n][p].state)
    <2>1. Move(n, p)' = "dead"
      BY <1>1, <1>3, FailMove, MoveNext
    <2>2. Move(n, p) \in {"ours", "theirs"}
      BY <1>3, MoveNow DEF Live
    <2>3. QED
      BY <2>1, <2>2 DEF Promise!Die
  <1>4. QED
    BY <1>2, <1>3

LEMMA StepPromised ==
    ASSUME KameoInv, [Next]_vars, NEW n \in Names, NEW p \in Peers, Up(n), Up(n)'
    PROVE  Promise(n, p)!Next \/ Move(n, p)' = Move(n, p)
  <1> USE DEF Promise!Next
  <1>1. CASE UNCHANGED vars
    BY <1>1, MoveStays DEF vars
  <1>2. CASE Walks
    <2>1. Walked(n, p)
      BY <1>2 DEF Walks
    <2>2. QED
      BY <2>1, MoveStays, WalkedMove DEF Walked
  <1>3. ASSUME NEW k \in Names, NEW q \in Peers, FailsOne(k, q)
        PROVE  Promise(n, p)!Next \/ Move(n, p)' = Move(n, p)
    <2>1. CASE n = k /\ p = q
      BY <1>3, <2>1, OneFails, FailedMove
    <2>2. CASE n # k \/ p # q
      BY <1>3, <2>2, OneFails, MoveStays
    <2>3. QED
      BY <2>1, <2>2
  <1>4. ASSUME NEW k \in Names, TellParty(k)
        PROVE  Promise(n, p)!Next \/ Move(n, p)' = Move(n, p)
    BY <1>4, MoveStays DEF TellParty
  <1>5. QED
    BY <1>1, <1>2, <1>3, <1>4, StepWalksOrFails

(* Each conversation of an actor that stays installed is a sequence of     *)
(* exchanges that alternate strictly and are never resumed.                *)
THEOREM HostsImplementExchanges == SafeSpec => ImplementsExchanges
  <1>1. Init => \A n \in Names, p \in Peers : Promise(n, p)!Init
    BY MoveNow DEF Init, Fresh, Promise!Init
  <1>2. KameoInv /\ [Next]_vars =>
           [\A n \in Names, p \in Peers :
               Up(n) /\ Up(n)' => [Promise(n, p)!Next]_(Move(n, p))]_vars
    BY StepPromised
  <1>3. QED
    BY <1>1, <1>2, KameoInvariant, PTL DEF SafeSpec, ImplementsExchanges

-----------------------------------------------------------------------------
(* How old a queued report can be                                          *)

(* Rounds of waits since the one armed under `epoch`. *)
Age(epoch, c) == IF c.epoch >= epoch THEN c.epoch - epoch ELSE c.epoch - epoch + EpochCycle

Busy(n, p) == ThinkingOf(n, p) \/ SendingTo(n, p) \/ AboutToFail(n, p)

(* The epoch of p may still be moved on once by the handler at work, once  *)
(* by each message ahead: less than the cycle altogether, so that a report *)
(* under the present epoch is of the present round, and its task has gone  *)
(* off.                                                                    *)
InTime(n, i) ==
    LET r == mailbox[n][i].report
        age == Age(r.epoch, conv[n][r.peer])
    IN /\ age + i + (IF Busy(n, r.peer) THEN 1 ELSE 0) <= MailboxCap[n] + 1
       /\ age = 0 => r \notin sleeping[n]
       /\ r.kind = "Turn" => r.id = None

QueueOk(n) ==
    \A i \in DOMAIN mailbox[n] : mailbox[n][i].tag = "DeadlineElapsed" => InTime(n, i)

QueueInv == KameoInv /\ \A n \in Names : QueueOk(n)

LEMMA EpochTicks ==
    ASSUME NEW n \in Names, NEW c \in PeerWaits
    PROVE  NextEpoch(c) = IF c.epoch + 1 = EpochCycle THEN 0 ELSE c.epoch + 1
  <1>1. EpochCycle \in Nat \ {0} /\ c.epoch \in 0 .. EpochCycle - 1
    BY EpochsOutlastMailboxes DEF PeerWaits
  <1>2. CASE c.epoch + 1 = EpochCycle
    <2>1. EpochCycle % EpochCycle = 0
      BY <1>1
    <2>2. QED
      BY <1>2, <2>1 DEF NextEpoch
  <1>3. CASE c.epoch + 1 # EpochCycle
    <2>1. c.epoch + 1 \in 0 .. EpochCycle - 1
      BY <1>1, <1>3
    <2>2. \A x \in 0 .. EpochCycle - 1 : x % EpochCycle = x
      BY <1>1
    <2>3. QED
      BY <1>3, <2>1, <2>2 DEF NextEpoch
  <1>4. QED
    BY <1>2, <1>3

LEMMA AgeTicks ==
    ASSUME NEW n \in Names, NEW c \in PeerWaits, NEW d \in PeerWaits, NEW e \in 0 .. EpochCycle - 1
    PROVE  /\ Age(e, c) \in Nat /\ (Age(e, c) = 0 <=> e = c.epoch)
           /\ d.epoch = c.epoch => Age(e, d) = Age(e, c)
           /\ d.epoch = NextEpoch(c) /\ Age(e, c) + 1 < EpochCycle => Age(e, d) = Age(e, c) + 1
  <1>1. /\ EpochCycle \in Nat \ {0} /\ c.epoch \in 0 .. EpochCycle - 1
        /\ d.epoch \in 0 .. EpochCycle - 1
    BY EpochsOutlastMailboxes DEF PeerWaits
  <1>2. NextEpoch(c) = IF c.epoch + 1 = EpochCycle THEN 0 ELSE c.epoch + 1
    BY EpochTicks
  <1>3. QED
    BY <1>1, <1>2 DEF Age

(* The reports of a host grow older by at most what was set aside.         *)
LEMMA QueueStep ==
    ASSUME KameoTypeOK, KameoTypeOK', NEW n \in Names, QueueOk(n), NEW shift \in {0, 1},
           \A i \in DOMAIN mailbox'[n] :
              i + shift \in DOMAIN mailbox[n] /\ mailbox'[n][i] = mailbox[n][i + shift],
           \A q \in Peers :
              \/ /\ conv'[n][q].epoch = conv[n][q].epoch
                 /\ Busy(n, q)' => Busy(n, q) \/ shift = 1
                 /\ \A r \in sleeping'[n] : r.peer = q => r \in sleeping[n]
              \/ /\ conv'[n][q].epoch = NextEpoch(conv[n][q])
                 /\ ~Busy(n, q)'
                 /\ Busy(n, q) \/ shift = 1
    PROVE  QueueOk(n)'
  <1> SUFFICES ASSUME NEW i \in DOMAIN mailbox'[n], mailbox'[n][i].tag = "DeadlineElapsed"
               PROVE  InTime(n, i)'
    BY DEF QueueOk
  <1>1. mailbox[n] \in Seq(Message) /\ mailbox'[n] \in Seq(Message)
    BY DEF KameoTypeOK
  <1>2. i \in Nat \ {0}
    BY <1>1, LenProperties
  <1>3. PICK r : r = mailbox'[n][i].report
    OBVIOUS
  <1>4. PICK q : q = r.peer
    OBVIOUS
  <1>5. /\ i + shift \in DOMAIN mailbox[n] /\ mailbox[n][i + shift].tag = "DeadlineElapsed"
        /\ mailbox[n][i + shift].report = r
    BY <1>3
  <1>6. mailbox[n][i + shift] \in Message
    BY <1>1, <1>5, LenProperties, ElementOfSeq
  <1>7. r \in Report /\ q \in Peers /\ r.epoch \in 0 .. EpochCycle - 1
    BY <1>4, <1>5, <1>6, MessageKinds DEF Report
  <1>8. conv[n][q] \in PeerWaits /\ conv'[n][q] \in PeerWaits
    BY <1>7 DEF KameoTypeOK
  <1> DEFINE age == Age(r.epoch, conv[n][q])
             next == Age(r.epoch, conv'[n][q])
             cap == MailboxCap[n]
  <1>9. /\ age + i + shift + (IF Busy(n, q) THEN 1 ELSE 0) <= cap + 1
        /\ age = 0 => r \notin sleeping[n]
        /\ r.kind = "Turn" => r.id = None
    <2>1. InTime(n, i + shift)
      BY <1>5 DEF QueueOk
    <2>2. /\ age + (i + shift) + (IF Busy(n, q) THEN 1 ELSE 0) <= cap + 1
          /\ age = 0 => r \notin sleeping[n]
          /\ r.kind = "Turn" => r.id = None
      BY <1>4, <1>5, <2>1 DEF InTime
    <2>3. age \in Nat /\ cap \in Nat
      BY <1>7, <1>8, AgeTicks, EpochsOutlastMailboxes
    <2>4. QED
      BY <1>2, <2>2, <2>3
  <1>10. age \in Nat /\ cap \in Nat /\ EpochCycle \in Nat /\ EpochCycle > cap
    BY <1>7, <1>8, AgeTicks, EpochsOutlastMailboxes
  <1>11. CASE /\ conv'[n][q].epoch = conv[n][q].epoch
              /\ Busy(n, q)' => Busy(n, q) \/ shift = 1
              /\ \A s \in sleeping'[n] : s.peer = q => s \in sleeping[n]
    <2>1. next = age
      BY <1>7, <1>8, <1>11, AgeTicks
    <2>2. next = 0 => r \notin sleeping'[n]
      BY <1>4, <1>9, <1>11, <2>1
    <2>3. next + i + (IF Busy(n, q)' THEN 1 ELSE 0) <= cap + 1
      <3> HIDE DEF age, next, cap
      <3>1. CASE shift = 1
        BY <1>2, <1>9, <1>10, <1>11, <2>1, <3>1
      <3>2. CASE shift = 0
        BY <1>2, <1>9, <1>10, <1>11, <2>1, <3>2
      <3>3. QED
        BY <3>1, <3>2
    <2>4. QED
      BY <1>3, <1>4, <1>9, <2>2, <2>3 DEF InTime, Age
  <1>12. CASE /\ conv'[n][q].epoch = NextEpoch(conv[n][q])
              /\ ~Busy(n, q)'
              /\ Busy(n, q) \/ shift = 1
    <2>1. age + 1 + i <= cap + 1
      <3> HIDE DEF age, cap
      <3>1. CASE shift = 1
        BY <1>2, <1>9, <1>10, <1>12, <3>1
      <3>2. CASE shift = 0
        BY <1>2, <1>9, <1>10, <1>12, <3>2
      <3>3. QED
        BY <3>1, <3>2
    <2>2. age + 1 < EpochCycle
      <3> HIDE DEF age, cap
      <3>1. QED
        BY <1>2, <1>10, <2>1
    <2>3. next = age + 1
      BY <1>7, <1>8, <1>12, <2>2, AgeTicks
    <2>4. next + i <= cap + 1 /\ next # 0
      BY <1>10, <2>1, <2>3
    <2>5. next + i + 0 <= cap + 1
      BY <1>2, <1>10, <2>3, <2>4
    <2>6. QED
      BY <1>3, <1>4, <1>9, <1>12, <2>4, <2>5 DEF InTime, Age
  <1>13. QED
    BY <1>7, <1>11, <1>12

LEMMA TakenPlaces ==
    ASSUME KameoTypeOK, NEW n \in Names, mailbox[n] # <<>>, mailbox'[n] = Tail(mailbox[n])
    PROVE  \A i \in DOMAIN mailbox'[n] :
              i + 1 \in DOMAIN mailbox[n] /\ mailbox'[n][i] = mailbox[n][i + 1]
  <1>1. PICK s : s = mailbox[n]
    OBVIOUS
  <1>2. s \in Seq(Message) /\ s # <<>>
    BY <1>1 DEF KameoTypeOK
  <1>3. /\ DOMAIN s = 1 .. Len(s) /\ Len(s) \in Nat \ {0}
        /\ DOMAIN Tail(s) = 1 .. Len(s) - 1
        /\ \A i \in 1 .. Len(s) - 1 : Tail(s)[i] = s[i + 1]
    BY <1>2, HeadTailProperties
  <1>4. QED
    BY <1>1, <1>3

LEMMA SamePlaces ==
    ASSUME KameoTypeOK', NEW n \in Names, mailbox'[n] = mailbox[n]
    PROVE  \A i \in DOMAIN mailbox'[n] :
              i + 0 \in DOMAIN mailbox[n] /\ mailbox'[n][i] = mailbox[n][i + 0]
  <1>1. DOMAIN mailbox'[n] = 1 .. Len(mailbox'[n]) /\ Len(mailbox'[n]) \in Nat
    BY LenProperties DEF KameoTypeOK
  <1>2. \A i \in DOMAIN mailbox'[n] : i + 0 = i
    BY <1>1
  <1>3. QED
    BY <1>2

LEMMA SameQueue ==
    ASSUME KameoTypeOK, KameoTypeOK', NEW n \in Names, QueueOk(n), mailbox'[n] = mailbox[n],
           conv'[n] = conv[n], sleeping'[n] \subseteq sleeping[n],
           \A q \in Peers : Busy(n, q)' => Busy(n, q)
    PROVE  QueueOk(n)'
  BY SamePlaces, QueueStep

LEMMA QueueLocally ==
    ASSUME QueueInv, KameoInv', NEW n \in Names, QueueOk(n)',
           \A k \in Names \ {n} : /\ conv'[k] = conv[k] /\ job'[k] = job[k]
                                  /\ mailbox'[k] = mailbox[k] /\ sleeping'[k] = sleeping[k]
    PROVE  QueueInv'
  <1>1. ASSUME NEW k \in Names, k # n PROVE QueueOk(k)'
    <2>1. \A q \in Peers : Busy(k, q)' => Busy(k, q)
      BY <1>1 DEF Busy, ThinkingOf, SendingTo, AboutToFail
    <2>2. QED
      BY <1>1, <2>1, SameQueue DEF QueueInv, KameoInv
  <1>2. QED
    BY <1>1 DEF QueueInv

(* A message is taken and no wait is armed or failed.                      *)
LEMMA TakenQueue ==
    ASSUME QueueInv, KameoInv', NEW n \in Names, NEW m, Handles(n, m),
           \A q \in Peers : conv'[n][q].epoch = conv[n][q].epoch,
           sleeping'[n] \subseteq sleeping[n]
    PROVE  QueueOk(n)'
  <1>1. mailbox[n] # <<>> /\ mailbox'[n] = Tail(mailbox[n])
    BY DEF Handles, QueueInv, KameoInv, KameoTypeOK
  <1>2. QED
    BY <1>1, TakenPlaces, QueueStep DEF QueueInv, KameoInv

(* A message is posted, in what room there is.                             *)
LEMMA PostedQueue ==
    ASSUME QueueInv, KameoInv', NEW n \in Names, NEW m \in Message, Room(n), Post(n, m),
           sleeping'[n] \subseteq sleeping[n], UNCHANGED <<conv, job>>,
           m.tag = "DeadlineElapsed" =>
              /\ m.report \in Timers(m.report.peer, conv[n][m.report.peer])
              /\ m.report.peer \in Peers /\ m.report \notin sleeping'[n]
    PROVE  QueueOk(n)'
  <1>1. PICK s : s = mailbox[n]
    OBVIOUS
  <1>2. s \in Seq(Message) /\ Len(s) < MailboxCap[n] /\ MailboxCap[n] \in Nat /\ Len(s) \in Nat
    BY <1>1, LenProperties, EpochsOutlastMailboxes DEF Room, QueueInv, KameoInv, KameoTypeOK
  <1>3. mailbox'[n] = Append(s, m)
    BY <1>1 DEF Post, QueueInv, KameoInv, KameoTypeOK
  <1>4. /\ DOMAIN mailbox'[n] = 1 .. Len(s) + 1 /\ DOMAIN s = 1 .. Len(s)
        /\ \A i \in 1 .. Len(s) : mailbox'[n][i] = s[i]
        /\ mailbox'[n][Len(s) + 1] = m
    BY <1>2, <1>3, AppendProperties
  <1>5. \A q \in Peers : Busy(n, q)' <=> Busy(n, q)
    BY DEF Busy, ThinkingOf, SendingTo, AboutToFail
  <1>6. ASSUME NEW i \in DOMAIN mailbox'[n], mailbox'[n][i].tag = "DeadlineElapsed"
        PROVE  InTime(n, i)'
    <2>1. PICK r, q : r = mailbox'[n][i].report /\ q = r.peer
      OBVIOUS
    <2>2. mailbox'[n][i] \in Message
      BY <1>2, <1>3, <1>4, PostedMail, ElementOfSeq, LenProperties DEF KameoInv, KameoTypeOK
    <2>3. r \in Report /\ q \in Peers
      BY <1>6, <2>1, <2>2, MessageKinds DEF Report
    <2>4. conv[n][q] \in PeerWaits /\ conv'[n][q] = conv[n][q] /\ r.epoch \in 0 .. EpochCycle - 1
      BY <2>3 DEF QueueInv, KameoInv, KameoTypeOK, Report
    <2> DEFINE age == Age(r.epoch, conv[n][q])
               b == IF Busy(n, q) THEN 1 ELSE 0
    <2>5. /\ age + i + b <= MailboxCap[n] + 1
          /\ age = 0 => r \notin sleeping'[n]
          /\ r.kind = "Turn" => r.id = None
      <3>1. CASE i = Len(s) + 1
        <4>1. /\ mailbox'[n][i] = m /\ r \in Timers(q, conv[n][q]) /\ r \notin sleeping'[n]
          BY <1>4, <1>6, <2>1, <3>1
        <4>2. StillPending(conv[n][q], r)
          BY <2>3, <2>4, <4>1, TimerKinds
        <4>3. age = 0
          BY <2>4, <4>2, AgeTicks DEF StillPending
        <4>4. r.kind = "Turn" => r.id = None
          BY <4>1 DEF Timers, AckTimer, TurnTimer, AckReport, TurnReport
        <4>5. age + i + b <= MailboxCap[n] + 1
          <5>1. b \in {0, 1}
            OBVIOUS
          <5> HIDE DEF age, b
          <5>2. QED
            BY <1>2, <3>1, <4>3, <5>1
        <4>6. QED
          BY <4>1, <4>4, <4>5
      <3>2. CASE i # Len(s) + 1
        <4>1. i \in DOMAIN mailbox[n] /\ mailbox[n][i] = mailbox'[n][i]
          BY <1>1, <1>2, <1>4, <3>2
        <4>2. InTime(n, i)
          BY <1>6, <4>1 DEF QueueInv, QueueOk
        <4>3. QED
          BY <2>1, <4>1, <4>2 DEF InTime
      <3>3. QED
        BY <3>1, <3>2
    <2>6. QED
      BY <1>5, <2>1, <2>3, <2>4, <2>5 DEF InTime, Age
  <1>7. QED
    BY <1>6 DEF QueueOk

(* An exchange fails: one round more for its peer.                         *)
LEMMA FailedQueue ==
    ASSUME QueueInv, KameoInv', NEW n \in Names, NEW p \in Peers,
           NEW cause \in FailureCauses, NEW rest \in SUBSET Peers,
           FailExchange(n, p, cause, rest), p \notin rest,
           NEW shift \in {0, 1},
           \A i \in DOMAIN mailbox'[n] :
              i + shift \in DOMAIN mailbox[n] /\ mailbox'[n][i] = mailbox[n][i + shift],
           \A q \in rest \cup {p} : Busy(n, q) \/ shift = 1,
           \A k \in Names \ {n} : mailbox'[k] = mailbox[k]
    PROVE  QueueInv'
  <1>1. /\ conv'[n][p] = FailedConv(conv[n][p])
        /\ \A q \in Peers \ {p} : conv'[n][q] = conv[n][q]
        /\ sleeping'[n] = sleeping[n] \ Timers(p, conv[n][p])
        /\ job'[n].do = "tell" /\ job'[n].rest = rest
        /\ \A k \in Names \ {n} : /\ conv'[k] = conv[k] /\ job'[k] = job[k]
                                  /\ sleeping'[k] = sleeping[k]
    BY FailExchangeDoes DEF QueueInv, KameoInv
  <1>2. conv'[n][p].epoch = NextEpoch(conv[n][p])
    <2>1. conv[n][p] \in PeerWaits
      BY DEF QueueInv, KameoInv, KameoTypeOK
    <2>2. QED
      BY <1>1, <2>1 DEF FailedConv, SettledAll, PeerWaits
  <1>3. \A q \in Peers : Busy(n, q)' <=> q \in rest
    BY <1>1 DEF Busy, ThinkingOf, SendingTo, AboutToFail
  <1>4. QueueOk(n)'
    BY <1>1, <1>2, <1>3, QueueStep DEF QueueInv, KameoInv
  <1>5. QED
    BY <1>1, <1>4, QueueLocally

LEMMA FinishQueue ==
    ASSUME QueueInv, KameoInv', NEW n \in Names, Finish(n)
    PROVE  QueueInv'
  <1>1. job[n] \in Job /\ mailbox' = mailbox
    BY DEF QueueInv, KameoInv, KameoTypeOK, Finish, Answer, SendReturns, FailNext, TellParty
  <1>2. \A i \in DOMAIN mailbox'[n] :
           i + 0 \in DOMAIN mailbox[n] /\ mailbox'[n][i] = mailbox[n][i + 0]
    BY <1>1, SamePlaces DEF KameoInv
  <1>3. ASSUME job'[n] = Resting PROVE \A q \in Peers : ~Busy(n, q)'
    BY <1>3, RestingThen DEF Busy
  <1>4. ASSUME job[n].do = "think", NEW reply \in Turn \cup {None}, Answer(n, reply)
        PROVE  QueueInv'
    <2>1. PICK p, t : p = job[n].peer /\ t = job[n].turn
      OBVIOUS
    <2> DEFINE x == [conv[n][p] EXCEPT !.state = AfterSend(reply)]
    <2>2. p \in Peers
      BY <1>4, <2>1, ThoughtOver DEF Answer, QueueInv
    <2>3. Busy(n, p)
      BY <1>4, <2>1 DEF Busy, ThinkingOf
    <2>4. CASE reply = None
      <3>1. job' = [job EXCEPT ![n] = Resting] /\ UNCHANGED <<conv, sleeping>>
        BY <1>4, <2>4 DEF Answer, Becomes
      <3>2. job'[n] = Resting /\ \A k \in Names \ {n} : job'[k] = job[k]
        BY <3>1 DEF QueueInv, KameoInv, KameoTypeOK
      <3>3. QueueOk(n)'
        BY <1>1, <1>3, <3>1, <3>2, SameQueue DEF QueueInv, KameoInv
      <3>4. QED
        BY <1>1, <3>1, <3>2, <3>3, QueueLocally
    <2>5. CASE reply # None /\ ~CanSend(conv[n][p].state, reply)
      <3>1. FailExchange(n, p, "IllegalReply", {})
        BY <1>4, <2>1, <2>5 DEF Answer
      <3>2. "IllegalReply" \in FailureCauses /\ {} \in SUBSET Peers
        BY DEF FailureCauses
      <3>3. QED
        BY <1>1, <1>2, <2>2, <2>3, <3>1, <3>2, FailedQueue
    <2>6. CASE reply # None /\ CanSend(conv[n][p].state, reply)
      <3>1. /\ conv' = [conv EXCEPT ![n][p] = x] /\ sleeping' = sleeping
            /\ job' = [job EXCEPT ![n] = Sending(p, reply)]
        BY <1>4, <2>1, <2>6 DEF Answer, Becomes
      <3>2. x.epoch = conv[n][p].epoch
        BY <2>2 DEF QueueInv, KameoInv, KameoTypeOK, PeerWaits
      <3> HIDE DEF x
      <3>3. /\ conv'[n][p] = x
            /\ \A q \in Peers \ {p} : conv'[n][q] = conv[n][q]
            /\ \A k \in Names \ {n} : conv'[k] = conv[k] /\ job'[k] = job[k]
            /\ job'[n] = Sending(p, reply)
        BY <2>2, <3>1 DEF QueueInv, KameoInv, KameoTypeOK
      <3>4. \A q \in Peers : Busy(n, q)' => q = p
        BY <3>3 DEF Busy, ThinkingOf, SendingTo, AboutToFail, Sending
      <3>5. \A q \in Peers : conv'[n][q].epoch = conv[n][q].epoch
        BY <3>2, <3>3
      <3>6. QueueOk(n)'
        BY <1>2, <2>3, <3>1, <3>4, <3>5, QueueStep DEF QueueInv, KameoInv
      <3>7. QED
        BY <1>1, <3>1, <3>3, <3>6, QueueLocally
    <2>7. QED
      BY <2>4, <2>5, <2>6
  <1>5. ASSUME NEW ok \in BOOLEAN, SendReturns(n, ok)
        PROVE  QueueInv'
    <2>1. PICK p, t : p = job[n].peer /\ t = job[n].turn
      OBVIOUS
    <2> DEFINE c == ArmedAnew(conv[n][p], t)
    <2>2. p \in Peers /\ conv[n][p] \in PeerWaits /\ t \in Turn
      BY <1>1, <1>5, <2>1, JobKinds DEF SendReturns, QueueInv, KameoInv, KameoTypeOK
    <2>3. Busy(n, p)
      BY <1>5, <2>1 DEF SendReturns, Busy, SendingTo
    <2>4. CASE ~ok
      <3>1. /\ FailExchange(n, p, "SendFailed", {})
            /\ "SendFailed" \in FailureCauses /\ {} \in SUBSET Peers
        BY <1>5, <2>1, <2>4 DEF SendReturns, FailureCauses
      <3>2. QED
        BY <1>1, <1>2, <2>2, <2>3, <3>1, FailedQueue
    <2>5. CASE ok
      <3>1. /\ conv' = [conv EXCEPT ![n][p] = c]
            /\ sleeping' = [sleeping EXCEPT ![n] = sleeping[n] \cup Timers(p, c)]
            /\ job'[n] = Resting /\ \A k \in Names \ {n} : job'[k] = job[k]
        BY <1>5, <2>1, <2>5 DEF SendReturns, Becomes, QueueInv, KameoInv, KameoTypeOK
      <3>2. c.epoch = NextEpoch(conv[n][p])
        BY <2>2 DEF ArmedAnew, PeerWaits
      <3>3. \A r \in Timers(p, c) : r.peer = p
        BY DEF Timers, AckTimer, TurnTimer, AckReport, TurnReport
      <3> HIDE DEF c
      <3>4. /\ conv'[n][p] = c
            /\ \A q \in Peers \ {p} : conv'[n][q] = conv[n][q]
            /\ \A k \in Names \ {n} : conv'[k] = conv[k] /\ sleeping'[k] = sleeping[k]
            /\ sleeping'[n] = sleeping[n] \cup Timers(p, c)
        BY <2>2, <3>1 DEF QueueInv, KameoInv, KameoTypeOK
      <3>5. \A q \in Peers :
               \/ /\ conv'[n][q].epoch = conv[n][q].epoch
                  /\ ~Busy(n, q)'
                  /\ \A r \in sleeping'[n] : r.peer = q => r \in sleeping[n]
               \/ q = p /\ conv'[n][q].epoch = NextEpoch(conv[n][q]) /\ ~Busy(n, q)'
        BY <1>3, <3>1, <3>2, <3>3, <3>4
      <3>6. QueueOk(n)'
        BY <1>2, <2>3, <3>5, QueueStep DEF QueueInv, KameoInv
      <3>7. QED
        BY <1>1, <3>1, <3>4, <3>6, QueueLocally
    <2>6. QED
      BY <2>4, <2>5
  <1>6. ASSUME FailNext(n) PROVE QueueInv'
    <2>1. job[n].do = "fail" /\ job[n].rest \in SUBSET Peers /\ job[n].why \in FailureCauses
      BY <1>1, <1>6, JobKinds DEF FailNext
    <2>2. PICK p \in job[n].rest : FailExchange(n, p, job[n].why, job[n].rest \ {p})
      BY <1>6 DEF FailNext
    <2> DEFINE left == job[n].rest \ {p}
               why == job[n].why
    <2>3. /\ p \in Peers /\ left \in SUBSET Peers /\ p \notin left
          /\ FailExchange(n, p, why, left) /\ why \in FailureCauses
      BY <2>1, <2>2
    <2>4. \A q \in left \cup {p} : Busy(n, q)
      BY <2>1 DEF Busy, AboutToFail
    <2> HIDE DEF left, why
    <2>5. QED
      BY <1>1, <1>2, <2>3, <2>4, FailedQueue
  <1>7. ASSUME TellParty(n) PROVE QueueInv'
    <2>1. PICK ps, why : ps = job[n].rest /\ why = job[n].why
      OBVIOUS
    <2>2. /\ job[n].do = "tell" /\ ps \in SUBSET Peers /\ why \in FailureCauses
          /\ FailOn(n, ps, why) /\ UNCHANGED <<conv, mailbox, sleeping>>
      BY <1>7, <2>1, TellPartyDoes DEF QueueInv
    <2>3. /\ \A k \in Names \ {n} : job'[k] = job[k]
          /\ \A q \in Peers : /\ ~ThinkingOf(n, q)' /\ ~SendingTo(n, q)'
                              /\ AboutToFail(n, q)' <=> q \in ps
      BY <2>2, FailOnDoes DEF QueueInv, KameoInv
    <2>4. \A q \in Peers : Busy(n, q)' => Busy(n, q)
      BY <2>1, <2>2, <2>3 DEF Busy, AboutToFail
    <2>5. QueueOk(n)'
      BY <2>2, <2>4, SameQueue DEF QueueInv, KameoInv
    <2>6. QED
      BY <2>2, <2>3, <2>5, QueueLocally
  <1>8. QED
    BY <1>4, <1>5, <1>6, <1>7 DEF Finish

LEMMA EmptyQueue ==
    ASSUME NEW n \in Names, mailbox'[n] = <<>>
    PROVE  QueueOk(n)'
  <1>1. DOMAIN mailbox'[n] = {}
    BY EmptySeq
  <1>2. QED
    BY <1>1 DEF QueueOk

(* Of a report that is handled: it is of the present round or not pending. *)
LEMMA ReportQueue ==
    ASSUME QueueInv, KameoInv', NEW n \in Names, NEW r \in Report, TakeElapsed(n, r)
    PROVE  QueueInv'
  <1>1. Handles(n, Elapsed(r)) /\ r.peer \in Peers /\ r.kind \in FailureCauses
    BY DEF TakeElapsed, Report, FailureCauses, DeadlineCauses
  <1>2. /\ \A k \in Names \ {n} : mailbox'[k] = mailbox[k]
        /\ mailbox[n] # <<>> /\ mailbox'[n] = Tail(mailbox[n])
    BY <1>1, HandlesMail DEF QueueInv, KameoInv, Handles, KameoTypeOK
  <1>3. CASE ~StillPending(conv[n][r.peer], r)
    <2>1. UNCHANGED <<conv, job, sleeping>>
      BY <1>3 DEF TakeElapsed
    <2>2. QueueOk(n)'
      BY <1>1, <2>1, TakenQueue
    <2>3. QED
      BY <1>1, <1>2, <2>1, <2>2, QueueLocally
  <1>4. CASE StillPending(conv[n][r.peer], r)
    <2> DEFINE p == r.peer
               kind == r.kind
    <2>1. FailExchange(n, p, kind, {}) /\ {} \in SUBSET Peers
      BY <1>4 DEF TakeElapsed
    <2>2. \A i \in DOMAIN mailbox'[n] :
             i + 1 \in DOMAIN mailbox[n] /\ mailbox'[n][i] = mailbox[n][i + 1]
      BY <1>2, TakenPlaces DEF QueueInv, KameoInv
    <2>3. p \in Peers /\ kind \in FailureCauses
      BY <1>1
    <2> HIDE DEF p, kind
    <2>4. QED
      BY <1>2, <2>1, <2>2, <2>3, FailedQueue
  <1>5. QED
    BY <1>3, <1>4

LEMMA DeliveryQueue ==
    ASSUME QueueInv, KameoInv', NEW n \in Names, NEW p \in Peers, NEW b \in Body,
           HandleDelivery(n, p, b)
    PROVE  QueueInv'
  <1>1. conv[n][p] \in PeerWaits
    BY DEF QueueInv, KameoInv, KameoTypeOK
  <1>2. ASSUME NEW m, Handles(n, m)
        PROVE  \A k \in Names \ {n} : mailbox'[k] = mailbox[k]
    BY <1>2, HandlesMail DEF QueueInv, KameoInv
  <1>3. CASE Deny(n, p, b) \/ TakeInert(n, p, b) \/ DropIllegalTurn(n, p, b)
    <2>1. Handles(n, Deliver(p, b)) /\ UNCHANGED <<conv, job, sleeping>>
      BY <1>3 DEF Deny, TakeInert, DropIllegalTurn, Hears
    <2>2. QED
      BY <1>2, <2>1, TakenQueue, QueueLocally
  <1>4. CASE TakeAck(n, p, b)
    <2>1. Handles(n, Deliver(p, b)) /\ job' = job
      BY <1>4 DEF TakeAck, Hears
    <2>2. /\ \A q \in Peers : conv'[n][q].epoch = conv[n][q].epoch
          /\ sleeping'[n] \subseteq sleeping[n]
          /\ \A k \in Names \ {n} : conv'[k] = conv[k] /\ sleeping'[k] = sleeping[k]
      <3>1. CASE conv[n][p].ack # b.id
        BY <1>4, <3>1 DEF TakeAck
      <3>2. CASE conv[n][p].ack = b.id
        <4> DEFINE c == [conv[n][p] EXCEPT !.ack = None]
        <4>1. /\ conv' = [conv EXCEPT ![n][p] = c]
              /\ sleeping' = [sleeping EXCEPT ![n] = sleeping[n] \ AckTimer(p, conv[n][p])]
          BY <1>4, <3>2 DEF TakeAck
        <4>2. c.epoch = conv[n][p].epoch
          BY <1>1 DEF PeerWaits
        <4> HIDE DEF c
        <4>3. QED
          BY <4>1, <4>2 DEF QueueInv, KameoInv, KameoTypeOK
      <3>3. QED
        BY <3>1, <3>2
    <2>3. QED
      BY <1>2, <2>1, <2>2, TakenQueue, QueueLocally
  <1>5. CASE Spawn(n, p, b)
    <2>1. PICK w : w = b.name
      OBVIOUS
    <2>2. /\ Handles(n, Deliver(p, b)) /\ w \in Names /\ ~Up(w) /\ Up(n)
          /\ Blank(w, [kind |-> "Plain", party |-> "echo", allow |-> {EndpointOf[p]}])
      BY <1>5, <2>1, MessageKinds DEF Spawn, Hears, Handles, Spawns, Installable, Started
    <2>3. /\ w # n /\ mailbox'[w] = <<>>
      BY <1>2, <2>2 DEF QueueInv, KameoInv, HostOk, RosterOk
    <2>4. \A k \in Names \ {w} : conv'[k] = conv[k] /\ job'[k] = job[k] /\ sleeping'[k] = sleeping[k]
      BY <2>2, BlankHost DEF QueueInv, KameoInv
    <2>5. QueueOk(w)' /\ QueueOk(n)'
      BY <2>2, <2>3, <2>4, EmptyQueue, TakenQueue
    <2>6. ASSUME NEW k \in Names \ {n, w} PROVE QueueOk(k)'
      <3>1. \A q \in Peers : Busy(k, q)' => Busy(k, q)
        BY <2>4, <2>6 DEF Busy, ThinkingOf, SendingTo, AboutToFail
      <3>2. QED
        BY <1>2, <2>2, <2>4, <2>6, <3>1, SameQueue DEF QueueInv, KameoInv
    <2>7. QED
      BY <2>5, <2>6 DEF QueueInv
  <1>6. CASE StopByCommand(n, p, b)
    <2>1. PICK w : w = b.name
      OBVIOUS
    <2>2. /\ w \in Names /\ Blank(w, None) /\ mailbox[n] # <<>>
          /\ mailbox' = [mailbox EXCEPT ![n] = Tail(mailbox[n]), ![w] = <<>>]
      BY <1>6, <2>1, MessageKinds DEF StopByCommand, Stops, Stopped
    <2>3. /\ mailbox'[w] = <<>>
          /\ n # w => mailbox'[n] = Tail(mailbox[n])
          /\ \A k \in Names \ {n, w} : mailbox'[k] = mailbox[k]
      BY <2>2 DEF QueueInv, KameoInv, KameoTypeOK
    <2>4. \A k \in Names \ {w} : conv'[k] = conv[k] /\ job'[k] = job[k] /\ sleeping'[k] = sleeping[k]
      BY <2>2, BlankHost DEF QueueInv, KameoInv
    <2>5. QueueOk(w)'
      BY <2>2, <2>3, EmptyQueue
    <2>6. n # w => QueueOk(n)'
      BY <2>2, <2>3, <2>4, TakenPlaces, QueueStep DEF QueueInv, KameoInv
    <2>7. ASSUME NEW k \in Names \ {n, w} PROVE QueueOk(k)'
      <3>1. \A q \in Peers : Busy(k, q)' => Busy(k, q)
        BY <2>4, <2>7 DEF Busy, ThinkingOf, SendingTo, AboutToFail
      <3>2. QED
        BY <2>3, <2>4, <2>7, <3>1, SameQueue DEF QueueInv, KameoInv
    <2>8. QED
      BY <2>5, <2>6, <2>7 DEF QueueInv
  <1>7. CASE TakeTurn(n, p, b)
    <2> DEFINE c == [SettledAll(conv[n][p]) EXCEPT !.state = AfterReceive(b.turn)]
    <2>1. /\ Handles(n, Deliver(p, b))
          /\ conv' = [conv EXCEPT ![n][p] = c]
          /\ sleeping' = [sleeping EXCEPT ![n] = sleeping[n] \ Timers(p, conv[n][p])]
          /\ job' = [job EXCEPT ![n] = Thinking(p, b.turn)]
      BY <1>7 DEF TakeTurn, Hears, Aborts, Becomes
    <2>2. c.epoch = conv[n][p].epoch
      BY <1>1 DEF PeerWaits, SettledAll
    <2> HIDE DEF c
    <2>3. /\ \A q \in Peers : conv'[n][q].epoch = conv[n][q].epoch
          /\ sleeping'[n] \subseteq sleeping[n]
          /\ \A k \in Names \ {n} : conv'[k] = conv[k] /\ sleeping'[k] = sleeping[k] /\ job'[k] = job[k]
      BY <2>1, <2>2 DEF QueueInv, KameoInv, KameoTypeOK
    <2>4. QED
      BY <1>2, <2>1, <2>3, TakenQueue, QueueLocally
  <1>8. QED
    BY <1>3, <1>4, <1>5, <1>6, <1>7 DEF HandleDelivery

LEMMA HandleQueue ==
    ASSUME QueueInv, KameoInv', NEW n \in Names, HandleNext(n)
    PROVE  QueueInv'
  <1>1. PICK m : m = Head(mailbox[n])
    OBVIOUS
  <1>2. m \in Message
    BY <1>1, TakenMail DEF HandleNext, QueueInv, KameoInv, KameoTypeOK
  <1>3. CASE m.tag = "Deliver"
    <2>1. HandleDelivery(n, m.from, m.body)
      BY <1>1, <1>3 DEF HandleNext
    <2>2. QED
      BY <1>2, <1>3, <2>1, MessageKinds, DeliveryQueue
  <1>4. CASE m.tag # "Deliver"
    <2>1. HandleReport(n, m)
      BY <1>1, <1>4 DEF HandleNext
    <2>2. CASE m.tag = "DeadlineElapsed" /\ TakeElapsed(n, m.report)
      BY <1>2, <2>2, MessageKinds, ReportQueue
    <2>3. ASSUME \/ TakePeerDied(n, m.endpoint) \/ TakeAdmit(n, m.endpoint)
                 \/ TakeRevoke(n, m.endpoint)
          PROVE  QueueInv'
      <3>1. /\ \E x : Handles(n, x)
            /\ UNCHANGED <<conv, sleeping>>
            /\ \A k \in Names \ {n} : job'[k] = job[k]
        BY <2>3 DEF TakePeerDied, TakeAdmit, TakeRevoke, FailsGuests, FailOn, Becomes,
                    QueueInv, KameoInv, KameoTypeOK
      <3>2. PICK x : Handles(n, x)
        BY <3>1
      <3>3. \A k \in Names \ {n} : mailbox'[k] = mailbox[k]
        BY <3>2, HandlesMail DEF QueueInv, KameoInv
      <3>4. QED
        BY <3>1, <3>2, <3>3, TakenQueue, QueueLocally
    <2>4. QED
      BY <2>1, <2>2, <2>3 DEF HandleReport
  <1>5. QED
    BY <1>3, <1>4

LEMMA PostQueue ==
    ASSUME QueueInv, KameoInv', NEW n \in Names, NEW m \in Message, Room(n), Post(n, m),
           m.tag # "DeadlineElapsed", UNCHANGED <<conv, job, sleeping>>
    PROVE  QueueInv'
  <1>1. \A k \in Names \ {n} : mailbox'[k] = mailbox[k]
    BY PostType DEF QueueInv, KameoInv
  <1>2. QueueOk(n)'
    BY PostedQueue
  <1>3. QED
    BY <1>1, <1>2, QueueLocally

LEMMA GoesOffQueue ==
    ASSUME QueueInv, KameoInv', NEW n \in Names, NEW r \in Report, GoesOff(n, r)
    PROVE  QueueInv'
  <1>1. /\ Elapsed(r) \in Message /\ Elapsed(r).report = r /\ r.peer \in Peers
        /\ Room(n) /\ Post(n, Elapsed(r)) /\ r \in sleeping[n]
        /\ sleeping' = [sleeping EXCEPT ![n] = sleeping[n] \ {r}] /\ UNCHANGED <<conv, job>>
    BY MessageKinds DEF GoesOff, Elapsed, Report
  <1>2. r \in Timers(r.peer, conv[n][r.peer])
    BY <1>1 DEF QueueInv, KameoInv, HostOk, TimersOk
  <1>3. /\ sleeping'[n] = sleeping[n] \ {r}
        /\ \A k \in Names \ {n} : sleeping'[k] = sleeping[k]
    BY <1>1 DEF QueueInv, KameoInv, KameoTypeOK
  <1>4. \A k \in Names \ {n} : mailbox'[k] = mailbox[k]
    BY <1>1, PostType DEF QueueInv, KameoInv
  <1>5. QueueOk(n)'
    BY <1>1, <1>2, <1>3, PostedQueue
  <1>6. QED
    BY <1>1, <1>3, <1>4, <1>5, QueueLocally

LEMMA BlankQueue ==
    ASSUME QueueInv, KameoInv', NEW n \in Names, NEW setup, Blank(n, setup), mailbox'[n] = <<>>,
           \A k \in Names \ {n} : mailbox'[k] = mailbox[k]
    PROVE  QueueInv'
  <1>1. \A k \in Names \ {n} : conv'[k] = conv[k] /\ job'[k] = job[k] /\ sleeping'[k] = sleeping[k]
    BY BlankHost DEF QueueInv, KameoInv
  <1>2. QED
    BY <1>1, EmptyQueue, QueueLocally

LEMMA EnvironmentQueue ==
    ASSUME QueueInv, KameoInv', NEW n \in Names, Environment(n)
    PROVE  QueueInv'
  <1>1. ASSUME NEW s \in Setups[n], Install(n, s) PROVE QueueInv'
    <2>1. Blank(n, s) /\ mailbox' = mailbox /\ ~Up(n)
      BY <1>1 DEF Install, Started, Installable
    <2>2. mailbox'[n] = <<>>
      BY <2>1 DEF QueueInv, KameoInv, HostOk, RosterOk
    <2>3. QED
      BY <2>1, <2>2, BlankQueue
  <1>2. CASE Stop(n)
    <2>1. /\ Blank(n, None) /\ mailbox'[n] = <<>>
          /\ \A k \in Names \ {n} : mailbox'[k] = mailbox[k]
      BY <1>2 DEF Stop, Stopped, QueueInv, KameoInv, KameoTypeOK
    <2>2. QED
      BY <2>1, BlankQueue
  <1>3. CASE PumpEnds(n)
    <2>1. UNCHANGED <<conv, job, mailbox, sleeping>>
      BY <1>3 DEF PumpEnds, hostVars
    <2>2. \A q \in Peers : Busy(n, q)' => Busy(n, q)
      BY <2>1 DEF Busy, ThinkingOf, SendingTo, AboutToFail
    <2>3. QED
      BY <2>1, <2>2, SameQueue, QueueLocally DEF QueueInv, KameoInv
  <1>4. ASSUME NEW p \in Peers, NEW b \in Says[n], Pump(n, p, b) PROVE QueueInv'
    <2>1. Deliver(p, b) \in Message /\ Deliver(p, b).tag # "DeadlineElapsed"
      BY MessageKinds, BodiesAreBodies DEF Deliver
    <2>2. QED
      BY <1>4, <2>1, PostQueue DEF Pump
  <1>5. ASSUME NEW e \in Managed[n], Ask(n, AdmitMsg(e)) \/ Ask(n, RevokeMsg(e)) PROVE QueueInv'
    <2>1. PICK m \in {AdmitMsg(e), RevokeMsg(e)} : Ask(n, m)
      BY <1>5
    <2>2. m \in Message /\ m.tag # "DeadlineElapsed"
      BY MessageKinds, ManagedAreEndpoints DEF AdmitMsg, RevokeMsg
    <2>3. QED
      BY <2>1, <2>2, PostQueue DEF Ask
  <1>6. QED
    BY <1>1, <1>2, <1>3, <1>4, <1>5 DEF Environment

LEMMA StepQueue == QueueInv /\ KameoInv' /\ [Next]_vars => QueueInv'
  <1> SUFFICES ASSUME QueueInv, KameoInv', [Next]_vars PROVE QueueInv'
    OBVIOUS
  <1>1. ASSUME NEW n \in Names, HostStep(n) PROVE QueueInv'
    BY <1>1, HandleQueue, FinishQueue DEF HostStep
  <1>2. ASSUME NEW n \in Names, Environment(n) PROVE QueueInv'
    BY <1>2, EnvironmentQueue
  <1>3. ASSUME NEW n \in Names, NEW p \in Peers, NEW kind \in DeadlineCauses, TimerOf(n, p, kind)
        PROVE  QueueInv'
    <2>1. PICK r \in sleeping[n] : GoesOff(n, r)
      BY <1>3 DEF TimerOf
    <2>2. r \in Report
      BY DEF QueueInv, KameoInv, KameoTypeOK
    <2>3. QED
      BY <2>1, <2>2, GoesOffQueue
  <1>4. ASSUME UNCHANGED <<conv, job, mailbox, sleeping>> PROVE QueueInv'
    <2>1. ASSUME NEW n \in Names PROVE QueueOk(n)'
      <3>1. \A q \in Peers : Busy(n, q)' => Busy(n, q)
        BY <1>4 DEF Busy, ThinkingOf, SendingTo, AboutToFail
      <3>2. QED
        BY <1>4, <3>1, SameQueue DEF QueueInv, KameoInv
    <2>2. QED
      BY <2>1 DEF QueueInv
  <1>5. CASE \E e \in Endpoints : HearDeath(e)
    BY <1>4, <1>5 DEF HearDeath, hostVars
  <1>6. CASE PassOnDeath
    <2>1. PICK n, m : n = fan.now /\ m = PeerDied(fan.endpoint)
      OBVIOUS
    <2>2. n \in Names /\ m \in Message /\ m.tag # "DeadlineElapsed"
      BY <1>6, <2>1, FanIsOfNames, MessageKinds DEF PassOnDeath, PeerDied, QueueInv, KameoInv
    <2>3. QED
      BY <1>6, <2>1, <2>2, PostQueue DEF PassOnDeath
  <1>7. CASE UNCHANGED vars
    BY <1>4, <1>7 DEF vars
  <1>8. QED
    BY <1>1, <1>2, <1>3, <1>5, <1>6, <1>7 DEF Next

LEMMA QueueInvariant == SafeSpec => []QueueInv
  <1>1. Init /\ KameoInv => QueueInv
    <2> SUFFICES ASSUME Init, KameoInv, NEW n \in Names PROVE QueueOk(n)
      BY DEF QueueInv
    <2>1. mailbox[n] = <<>> /\ DOMAIN <<>> = {}
      BY EmptySeq DEF Init
    <2>2. QED
      BY <2>1 DEF QueueOk
  <1>2. QED
    BY <1>1, StepQueue, KameoInvariant, PTL DEF SafeSpec

(* A deadline means that the timer of the present round has gone off.      *)
THEOREM DeadlinesMeanElapsed == SafeSpec => DeadlineMeansElapsed
  <1> DEFINE Meant(n, p) ==
                TellingOf(n, p)' /\ job'[n] # job[n] =>
                   /\ job'[n].why = "Turn"
                         => conv[n][p].turn /\ TurnTimer(p, conv[n][p]) \cap sleeping[n] = {}
                   /\ job'[n].why = "Ack"
                         => conv[n][p].ack # None /\ AckTimer(p, conv[n][p]) \cap sleeping[n] = {}
  <1>1. ASSUME QueueInv, [Next]_vars
        PROVE  [\A n \in Names, p \in Peers : Meant(n, p)]_vars
    <2>1. CASE UNCHANGED vars
      BY <2>1
    <2>2. ASSUME Next, NEW n \in Names, NEW p \in Peers,
                 TellingOf(n, p)', job'[n] # job[n]
          PROVE  Founded(n, p, job'[n].why)
      <3>1. ~Walks
        BY <2>2 DEF Walks, TellsOn, TellingOf
      <3>2. ASSUME NEW k \in Names, TellParty(k) PROVE FALSE
        BY <1>1, <2>2, <3>2, OneTells DEF QueueInv, TellingOf
      <3>3. PICK k \in Names, q \in Peers : FailsOne(k, q)
        BY <1>1, <2>2, <3>1, <3>2, StepWalksOrFails DEF QueueInv
      <3>4. /\ TellingOf(k, q)' /\ Founded(k, q, job'[k].why)
            /\ \A m \in Names \ {k} : job'[m] = job[m]
        BY <1>1, <3>3, OneFails DEF QueueInv
      <3>5. k = n /\ q = p
        BY <2>2, <3>4 DEF TellingOf
      <3>6. QED
        BY <3>4, <3>5
    <2>3. ASSUME NEW n \in Names, NEW p \in Peers, NEW kind \in DeadlineCauses,
                 Founded(n, p, kind)
          PROVE  \E r \in Report :
                    /\ r.kind = kind /\ StillPending(conv[n][p], r) /\ r \notin sleeping[n]
                    /\ kind = "Turn" => r = TurnReport(p, conv[n][p].epoch)
                    /\ kind = "Ack" => /\ r.id \in RequestIds
                                       /\ r = AckReport(p, r.id, conv[n][p].epoch)
      <3>1. PICK r \in Report : /\ r.peer = p /\ r.kind = kind /\ StillPending(conv[n][p], r)
                                /\ mailbox[n] # <<>> /\ Head(mailbox[n]) = Elapsed(r)
        BY <2>3 DEF Founded
      <3>2. mailbox[n] \in Seq(Message) /\ conv[n][p] \in PeerWaits
        BY <1>1 DEF QueueInv, KameoInv, KameoTypeOK
      <3>3. 1 \in DOMAIN mailbox[n] /\ mailbox[n][1] = Elapsed(r)
        BY <3>1, <3>2, HeadTailProperties
      <3>4. /\ mailbox[n][1].tag = "DeadlineElapsed" /\ mailbox[n][1].report = r
            /\ Elapsed(r) \in In(mailbox[n])
        BY <3>3 DEF Elapsed, In
      <3>5. InTime(n, 1)
        BY <1>1, <3>3, <3>4 DEF QueueInv, QueueOk
      <3>6. r.epoch = conv[n][p].epoch /\ Age(r.epoch, conv[n][p]) = 0
        BY <3>1, <3>2, AgeTicks DEF StillPending, Report
      <3>7. r \notin sleeping[n] /\ (kind = "Turn" => r.id = None)
        BY <3>1, <3>4, <3>5, <3>6 DEF InTime
      <3>8. kind = "Ack" => r.id \in RequestIds
        BY <1>1, <3>1, <3>4, MessageKinds DEF QueueInv, KameoInv, HostOk, MailOk, Elapsed
      <3>9. r = [peer |-> p, kind |-> kind, id |-> r.id, epoch |-> conv[n][p].epoch]
        BY <3>1, <3>6 DEF Report
      <3>10. /\ kind = "Turn" => r = TurnReport(p, conv[n][p].epoch)
             /\ kind = "Ack" => r = AckReport(p, r.id, conv[n][p].epoch)
        BY <3>7, <3>9 DEF TurnReport, AckReport
      <3>11. QED
        BY <3>1, <3>7, <3>8, <3>10
    <2>4. ASSUME Next, NEW n \in Names, NEW p \in Peers PROVE Meant(n, p)
      <3>1. ASSUME Founded(n, p, "Turn")
            PROVE  conv[n][p].turn /\ TurnTimer(p, conv[n][p]) \cap sleeping[n] = {}
        <4>1. PICK r \in Report : /\ r.kind = "Turn" /\ StillPending(conv[n][p], r)
                                  /\ r \notin sleeping[n] /\ r = TurnReport(p, conv[n][p].epoch)
          BY <2>3, <3>1 DEF DeadlineCauses
        <4>2. conv[n][p].turn
          BY <4>1 DEF StillPending
        <4>3. QED
          BY <4>1, <4>2 DEF TurnTimer
      <3>2. ASSUME Founded(n, p, "Ack")
            PROVE  conv[n][p].ack # None /\ AckTimer(p, conv[n][p]) \cap sleeping[n] = {}
        <4>1. PICK r \in Report : /\ r.kind = "Ack" /\ StillPending(conv[n][p], r)
                                  /\ r \notin sleeping[n] /\ r.id \in RequestIds
                                  /\ r = AckReport(p, r.id, conv[n][p].epoch)
          BY <2>3, <3>2 DEF DeadlineCauses
        <4>2. conv[n][p].ack = r.id
          BY <4>1 DEF StillPending
        <4>3. QED
          BY <4>1, <4>2, NoneIsNoId DEF AckTimer
      <3>3. QED
        BY <2>2, <2>4, <3>1, <3>2
    <2>5. QED
      BY <1>1, <2>1, <2>4
  <1>2. QED
    BY <1>1, QueueInvariant, PTL DEF SafeSpec, DeadlineMeansElapsed

=============================================================================
