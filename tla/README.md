# kamiroh in TLA+

kamiroh lets named actors on different endpoints hold *conversations*: a
strict alternation of turns, each answering the last and posing the next
request, guarded by guest lists, bounded by deadlines, and ended at once by the
death or the revocation of a peer. This directory models the code that decides
who may say what when - the turn machine, the initiator's phone, the two runtimes
that host the actors (one stepped by hand, one concurrent), the stock parties,
the in-process network and the Iroh transport - checks it with TLC on small
instances, and proves with TLAPS the safety of the phone, both runtimes, both
networks and a conversation end to end for every value of the constants.

    tlc -config MCPhone.cfg MCPhone       # one run; the runs are listed below
    tlapm PhoneProofs.tla                 # proofs; also LocalRuntimeProofs, KameoProofs,
                                          # IrohProofs, MemoryNetProofs, DialogueProofs

Every module and definition is listed with the source lines it stands for in
`PROJECT.json`; paths below are relative to the repository's root.

## The system

| Component | State it keeps | Operations |
|---|---|---|
| Turn machine, `crates/kamiroh-domain/src/protocol.rs`, `vocabulary.rs` | one of Idle, AwaitingTheirTurn(r), OweThem(r), Failed | `on_outgoing`, `on_incoming`, `fail` |
| Phone, `crates/kamiroh-app/src/phone.rs` | turn machine, `ack_due`, `turn_due` | `open`, `open_many`, `send_turn`, `on_incoming`, `note_ack`, `next_due`, `on_deadline_elapsed`, `on_peer_death`, `on_revoked` |
| Local runtime, `crates/kamiroh-app/src/runtime.rs`, `wait.rs`, `admission.rs`, `inbound.rs` | per actor: guest list, party, per peer a `PeerState`; runtime-wide: endpoints known dead | `install*`, `admit`, `revoke`, `watch_deaths`, `step`, the harness's Spawn, Stop and Ping |
| Stock parties, `crates/kamiroh-app/src/parties.rs` | per peer a shadow turn machine; the countdown's count and next id | `on_turn`, `on_exchange_failed` |
| Memory network, `crates/kamiroh-adapter-memory/src/lib.rs` | mailboxes, held deliveries, partitioned pairs, death queues | `register`, `send`, `open_many`, `next`, `partition`, `heal`, `death_watch`, `next_death`, `kill_endpoint`, dropping an inbox |
| Kameo runtime, `crates/kamiroh-adapter-kameo/src/lib.rs` | the runtime's again, but every actor a task with a mailbox, a pump that fills it and a task per armed wait; `PeerWaits` with an epoch; no tombstones | `install*`, `stop`, `admit`, `revoke`, `watch_deaths`, the host's handlers, concurrently |
| Iroh transport, `crates/kamiroh-adapter-iroh/src/lib.rs` | one cached connection per peer, a reader and a watch task per connection, the queue of deaths | `send`, `open_many`, the accept loop, readers, watches, `close_connection`, `shutdown` |
| Ports, `crates/kamiroh-ports/src/lib.rs` | none: the traits between the above | |
| Conversation guard, `crates/kamiroh-app/src/conversation.rs` | the pair a harness answer must match | `begin`, `conclude` |
| Value types (`actor.rs`, `endpoint.rs`, `hex.rs`, `secret.rs`), test timer (`testing.rs`), facade, examples | none that matters here | |

How they interact. An application drives a **phone**: it calls `open` and
`send_turn`, races `next_due` against its inbox (`wait.rs`), and feeds the phone
whatever arrives: turns, acks, deaths, revocations. Turns go over a
**transport**. At the other end a **runtime** is stepped once per actor and
event: known deaths first, then a fresh death, then an elapsed deadline, then a
delivery, which must pass the guest list and the turn machine before the
**party** behind the actor sees it; the receipt goes out before the party
thinks, its answer afterwards. Both sides record a conversation in the same
three fields, and a stock party keeps a shadow of the machine again, told of
each failure by callback. The **Kameo runtime** does the same, but a handler
awaits party and transport while its mailbox fills with deliveries, deaths,
revocations and the reports of timers. Failures are the observer's to hear. Nothing is
negotiated: each side fails an exchange on its own evidence, and only a fresh
`Open` leaves `Failed`.

### What is hard about it

- **Two waits, armed and settled apart.** A sent turn arms an ack wait and a
  turn wait; an ack settles one, a turn both, a verdict both, a `Close` neither
  exists. A wait left behind fails a later exchange; a wait forgotten hangs.
- **Half-done sends.** The phone moves its machine before the transport is
  awaited and arms its waits afterwards; the runtime arms before it sends. Each
  can fail, and the phone's can be dropped midway.
- **Independent verdicts.** Deadlines, deaths and revocations end an exchange on
  one side while the other is still in it; their stragglers meet the next one.
- **Shared memory of deaths.** Tombstones belong to the runtime, sweeps to an
  actor's step, and any delivery from the endpoint clears the tombstone.
- **Copies of one machine.** The runtime's and the party's must not diverge.
- **Partitions hold, kills destroy, addresses return.** Held deliveries of
  several partitions share one list; mailboxes are found by address, whoever
  has registered it since; deaths are filed after the lock is released.
- **Reports that queue.** In the Kameo runtime a timer's report, a death and a
  revocation wait in the same bounded mailbox as the turns they race; by the time
  one is read, the wait it is about may be settled and armed again. An epoch tells
  reports apart. Whoever posts may itself wait for room.
- **Handlers cut in two.** The machine moves before the transport is awaited, the
  waits are armed after it; an exchange is dead before the party is awaited with the
  news, and announced after it. In between the actor may be stopped, and its
  name installed again while the old pump has yet to let go of the address.
- **Connections that cross.** Two endpoints may dial each other at once, each
  caching what it accepted last over what it dialled; an old connection's end
  races the new one's arrival, our own hang-ups look like the peer's, and a send
  is tried again on a stale connection.

The `hazards` of `PROJECT.json` list these one by one, at the line where each
bites, with the property that watches it or the reason why none does yet.

### What makes each component correct

- Turn machine and phone: strict alternation; the waits fit the move; each death
  of an exchange is returned by the call that caused it; no wait lasts for ever.
- Runtime: the same for each conversation; live exchanges only with admitted
  peers; failures announced exactly when they happen; a death fails what it
  found live and nothing begun since; no peer's wait is starved by another's.
- Kameo runtime: the same between any two steps of its handlers; besides, an armed
  wait has its timer or its report, and neither outlives it; a dead exchange is
  owed to the party and to the observer until both have it; what is installed keeps
  its address, and hears of no death older than itself; whoever waits for room gets it.
- Parties: their shadows agree with the runtime.
- Network: order per pair of addresses; nothing accepted is lost but with its
  mailbox; a mailbox lives as long as its inbox.
- Iroh transport: a death is reported when it is true, of a peer that has gone, and
  of the newest connection; none is swallowed; what is cached is watched; a frame
  arrives once at most, and has a reader to come to.
- Together: when nothing is under way the sides agree; no straggler passes for
  an answer; both come to rest.

## The modules

| Module | Models | Correspondence |
|---|---|---|
| `TurnProtocol` | `protocol.rs` | pure: `CanSend`/`AfterSend` is `on_outgoing`, `CanReceive`/`AfterReceive` is `on_incoming`, `Fail` is `fail`. Bodies of requests are left out: no rule reads them. |
| `ConversationSide` | the three fields and their handling that `Phone` and `PeerState` share | pure: `Sent`, `Received`, `Broken`, `Acked`, `Aged`. An instant is the time left until it, negative once past; only the order of instants is read by the code. |
| `Exchange` | what one side promises, abstractly | nobody's, ours, theirs or dead; `Patient`: it is not theirs for ever |
| `Phone` | `phone.rs` | one action per method; `send_turn` is `BeginSend` and then `SendAccepted`, `SendRefused` or `SendAbandoned` (the future dropped at its await). `told` is the failure a call returned. |
| `Parties` | `parties.rs` | pure: `StockReply`, `StockMind`, `FailedMind` |
| `HostedActors` | what the two runtimes share | names, peers, setups, events and the answers a party may give |
| `LocalRuntime` | `runtime.rs`, with `wait.rs`, `admission.rs`, `inbound.rs` | `step` holds the runtime exclusively, so each of its outcomes is one action; `ok` is the transport's verdict on a reply; `party = "free"` is any party an app may wire |
| `MemoryNet` | the memory adapter | the mutex-guarded part is one record, and each call under the lock a function of it; `kill_endpoint` is `Kill` and then one `ReportDeath` per watch. `Along` is the sequence a loop yields that does the same for each thing in turn: each target of a batch, each delivery a healing finds held |
| `MemoryTraffic` | the same network in use | one action per call of the adapter's interface, by any thread at any moment; sends are numbered, so that `InOrder` and `NothingVanishes` can tell them apart |
| `Dialogue` | a phone, an actor and the network together | composes the three by `INSTANCE`; the pump follows `tests/cucumber.rs` |
| `KameoRuntime` | the Kameo adapter's `lib.rs` | one action per message a host handles, cut where it awaits the party (for an answer, or to tell it of a failure) or the transport, and between the exchanges a death or a revocation fails (`job` says where the handler stands); `sleeping` are the timer tasks, `fan` the death `watch_deaths` is passing on, `leaving` a pump that has been aborted and not yet dropped |
| `IrohNet` | the Iroh adapter's `lib.rs` | a connection has an end at either node, and each opens and closes in its own time; `reading` and `watching` are the tasks spawned for it; a send is `Pick`, dial and `Write`, twice at most; the lock on the cache is held across a dial |
| `ProtocolTheorems`, `SideTheorems` | lemmas about the pure modules | see "Proved" |
| `PhoneProofs`, `LocalRuntimeProofs`, `KameoProofs`, `IrohProofs`, `MemoryNetProofs`, `DialogueProofs` | theorems | see "Proved" |
| `MCPhone`, `MCLocalRuntime`, `MCKameoRuntime`, `MCMemoryNet`, `MCIrohNet`, `MCDialogue` | instances for TLC | |

Two kinds of variables are not in the code. History variables exist for the
properties only and guard nothing: `abandoned` (a dropped send left this
exchange waiting), `mourned` (it was live when its peer's death was reported),
`owner` (the inbox for which a mailbox was registered), `aExchange`/`bExchange`
(the exchange each side is in), `heard` (the deaths of a Kameo host's own time),
`newest`, `told`, `hurt` and `got` (the connection a node came by last, whether a
death was reported since, who hung up or was cut off, what reached the router). And `told` and `events` hold what the last
operation returned or told the observer, so that properties can relate it to the
state it left. An operation the code refuses without any effect (a turn not
legal now, an address in use) is an action that is not enabled - except where
the refusal is seen by an observer.

## The runs

| Run | Asks | Bounds |
|---|---|---|
| `phone` | Do the waits fit the move, whatever is fed in and however sends end? Does each failure reach its caller? Does the phone implement `Exchange`, and never wait for ever? | 4 ids, 2 endpoints, ack patience 5, turn patience 3, polls up to 4 late |
| `runtime` | The same of every conversation of one actor - any party, stock or free, with legal, illegal, refused and withheld answers; do shadows agree; is no wait starved? | 2 peers at 2 endpoints, 2 ids, patiences 1 and 2, polls up to 1 late, a count of 1 |
| `runtime_harness` | Is every live peer admitted, and does no old death fail a new exchange, with actors spawned, stopped and reinstalled? | a harness and a worker, 2 peers at one endpoint (symmetric), 1 id, patience 1, polls on time |
| `memory_net` | Is order kept, and nothing lost, through partitions, heals, batches, kills and returns from any thread? | 3 endpoints with a receipt address each, 3 sends or batches, 1 kill, 2 inboxes, 1 watch |
| `dialogue` | End to end: do the sides agree when it is quiet, take no straggler for an answer, and come to rest? | 3 requests of the application and 1 of the actor, all with ids of their own, 2 mishaps (partition, kill, revocation), patiences 1 and 2, polls on time, other threads running during `kill_endpoint` |
| `kameo` | What `runtime` asks, with every handler cut at its awaits and reports queued behind turns; does each conversation implement `Exchange`, is each armed wait sure of its verdict, is the death watch never stuck? | 1 actor, countdown or free, a mailbox of 2, epochs modulo 3, 1 peer, 2 ids |
| `kameo_harness` | With a harness that stops and spawns a worker: does anything of a stopped actor reach its successor, and any exchange outlive its revocation? | mailboxes of 1 and 2, 2 peers at one endpoint (symmetric), 1 id |
| `iroh` | Are deaths current, true and never swallowed; do frames come once at most, and to a reader? | 2 nodes that may both dial, one sender each (a batch, a single), 3 connections, 1 fault (hang-up, break, shutdown or restart) |
| `phone_hang`, `runtime_wedge`, `runtime_tombstone`, `memory_net_drop` | Does the code keep four things its docs and comments say? It does not: see "Findings". | as above or smaller |

Why these bounds are enough. The machine's rules compare ids for equality only,
so one id for the request outstanding and one or two others make every late,
stray and duplicate case. Patiences need to differ, and both orders of the
two waits (ack first, turn first, tie) occur: in `phone` the ack patience is the
longer, in `runtime` the turn's. `MaxLate` bounds how late a poll may come (for TLC
only: no code does, and the proofs hold for any bound):
a poll later than that finds the same order of the same waits. Two peers show
whatever one conversation may do to another, and two endpoints whatever a report
about one may do to the other. In `memory_net` a third endpoint lets two
partitions overlap, which is what the shared list of held deliveries is
sensitive to, and a batch to two names plus its receipt is the longest unit the
network handles under one lock. In `dialogue` three requests allow an
exchange to die, a second to begin while its stragglers are held, and a
third after; two mishaps make a cut and a kill, or a kill and a
revocation. In `kameo` a mailbox of two lets a report queue behind the very turn that
settles the wait it is about, and a cycle of three is just above that capacity;
the proof needs no more (an epoch must outlast a mailbox), and the code's 2^64 is far
longer. Timer tasks may report at any moment, which includes every order a real
clock can produce. In `iroh` three connections are two dials that cross and a
successor to both; the proofs cover any number of them and of faults. The constant
`AskCycle` (256 in the code) is the range of the
countdown's `u8` counter; reuse of ids is deliberately left out of `dialogue`
(decision 23 makes ids that are not reused the application's duty).

Deadlock is checked in every run but `dialogue` and `iroh`, where requests or
sends and the mishaps are finite and the system rightly stops; `BothComeToRest`
says how `dialogue` does.

### Fairness

- `Phone`: the transport settles a send (`SendAccepted \/ SendRefused`), the
  clock runs, and the pump polls an elapsed deadline - `wait.rs` polls it before
  anything else. Nothing is assumed of the peer.
- `LocalRuntime`: the clock runs; each actor is stepped while a sweep or an
  elapsed deadline is waiting (`step` is called in a loop by whoever drives the
  runtime). Nothing is assumed of deliveries or deaths.
- `KameoRuntime`: hosts are scheduled and party and transport return
  (`HostStep`), an aborted pump is dropped (`PumpEnds`): weak fairness. A timer task
  and `watch_deaths` wait for room in a mailbox others fill meanwhile, so their room
  comes and goes; tokio's semaphore serves its waiters in order, which is strong
  fairness of `TimerOf` and `PassOnDeath`.
- `Dialogue`: both pumps and both clocks run, a begun `kill_endpoint` finishes,
  and the application answers what it owes. No partition need heal, no killed
  application return, no revoked one be admitted again.

`IrohNet` states none: all its properties are of safety. But for the strong
fairness just named, all of it is weak.

## Proved

All of it is about `SafeSpec` (no fairness; in `MemoryTraffic`, which states none, `Spec`) and for every value of the constants.

| Module | Theorem | Says |
|---|---|---|
| `PhoneProofs` | `PhoneTypeCorrect` | `[]PhoneTypeOK` |
| | `PhoneWaitsAlwaysFit` | `[]PhoneWaitsFit` |
| | `NoOlderWaitInFlight` | `[]SendHasNoOlderWait` |
| | `PhoneReturnsFailures` | `FailureIsReturned` |
| | `PhoneImplementsExchange` | `ImplementsExchange`: the phone refines the safety half of `Exchange` |
| `LocalRuntimeProofs` | `RuntimeTypeCorrect` | `[]RuntimeTypeOK` |
| | `RuntimeWaitsAlwaysFit` | `[]RuntimeWaitsFit` |
| | `OnlyAdmittedPeersLive` | `[]LivePeersAreAdmitted` |
| | `ShadowsAlwaysAgree` | `[]ShadowsAgree` |
| | `StockActorsHaveDeadlines` | `[]StockActorsNeverHang` |
| | `RuntimeTellsFailures` | `FailuresAreTold` |
| | `NoExchangeDiesOfOldDeaths` | `ImmuneToOldDeaths` |
| `KameoProofs` | `KameoTypeCorrect` | `[]KameoTypeOK` |
| | `KameoWaitsAlwaysFit` | `[]KameoWaitsFit` |
| | `VerdictsAreNeverLost` | `[]NoVerdictIsLost` |
| | `TimersEndWithTheirWaits` | `[]NoTimerOutlivesItsWait` |
| | `KameoOnlyAdmittedLive` | `[]KameoLivePeersAreAdmitted` |
| | `KameoShadowsAlwaysAgree` | `[]KameoShadowsAgree` |
| | `InstalledStaysBound` | `[]InstalledIsBound` |
| | `OldDeathsSpare` | `OldDeathsSpareNewActors` |
| | `KameoTellsFailures` | `KameoFailuresAreTold`: death, news and event, in this order and under one cause |
| | `HostsImplementExchanges` | `ImplementsExchanges`: each conversation refines the safety half of `Exchange` |
| | `DeadlinesMeanElapsed` | `DeadlineMeansElapsed`: no stale report fails anything |
| `IrohProofs` | `IrohTypeCorrect` | `[]IrohTypeOK` |
| | `DeathsAreNotSwallowed` | `[]NoDeathIsSwallowed` |
| | `OnlyTheGoneReported` | `[]OnlyTheGoneAreReported` |
| | `CachedAlwaysWatched` | `[]CachedIsWatched` |
| | `NoFrameOrphaned` | `[]FramesHaveReaders` |
| | `DeathsAreCurrent` | `ReportsAreCurrent` |
| | `FramesArriveOnce` | `[]AtMostOnce` |
| `MemoryNetProofs` | `OrderIsKept` | `[]InOrder` |
| | `NothingIsLostSilently` | `NothingVanishes` |
| | `HeldOnlyByPartitions` | a delivery is held only while its two endpoints are cut off from each other |
| `DialogueProofs` | `QuietSidesAlwaysAgree` | `[]QuietMeansAgreed` |
| | `AnswersAlwaysBelong` | `AnswersBelong`: no straggler is taken for an answer |

`ProtocolTheorems` says what a turn does to a machine, and what a stock party
answers and where its shadow ends up; `SideTheorems` what arming, settling,
failing, acking and ageing do to a side's three fields. The rest cites them.

**The phone.** `PhoneWaitsFit` alone is not inductive: it says nothing of a phone
whose send is pending, so it cannot tell what `SendAccepted` arms. `PhoneInv`
adds three things: while a send is pending no wait is armed and the machine
stands where the turn in flight put it (`InFlightInv`: `CanSend` refuses
whoever waits for the peer, and whoever does not wait has no wait armed); a turn
wait is only ever armed when the move is the peer's (`AtRestInv`); and an
abandoned exchange is one still waited for, without a wait (`AbandonedInv`), so
that the next verdict or turn ends it. Each action has a lemma. The refinement
needs the same invariant: a refused send is `Die`, or a stutter when the turn
was a `Close` and the machine stood at Idle already.

**The runtime.** `RuntimeInv` is the conjunction of the type invariant, of
`RuntimeWaitsFit`, `LivePeersAreAdmitted` and `ShadowsAgree`, and of two more.
`StockOwesNothing`: between two steps an actor with a stock party never owes a
turn - this is what makes `StockActorsNeverHang` follow from fitting waits.
`DeadAreMourned`: what is live at an endpoint with a tombstone was live when that
death was reported - this is what a sweep needs to know of the exchanges it
fails. It survives the clearing of tombstones because whatever begins a new
exchange is a delivery, and a delivery clears the tombstone first. The actions
fall into four groups, each with one lemma about all of its members: those that
move no machine (`StandingStill`), those that fail exchanges
(`FailExchangesInv`), those that start conversations afresh (`SettleInv`), and
a turn with its answer (`TakeTurnInv`). `ShadowWalk` is the crux of the last:
the party, which walks its shadow before its answer is sent, and the runtime,
which learns whether the answer is legal and was carried, end up in one place.

**The Kameo runtime.** `KameoInv` says what holds between two steps of whatever
handler a host is in the middle of. `RosterOk`: what is installed is bound, and
its pump not leaving, so that an aborted pump can only take away an address
nobody has. `TimersOk`: a sleeping task belongs to an armed wait, and an armed wait
has its task or its queued report. `MailOk` and `FanInv`: the
deaths queued, acted on or still on their way were heard while this host was
installed. `Talk`: waits fit the move, a live exchange is with an admitted peer or about
to be failed, the shadow agrees unless the party is thinking or being told, and what
the party is being told of has failed and has no wait. A step touches one
host - two when a harness stops or spawns another - and one conversation of it;
`Locally`, `TwoHosts` and `OneTalk` put the rest aside, and `StepWalksOrFails`
sums up each step for the action properties and the refinement.

`fail_exchange` is two steps: the machine fails and the timers are aborted, then the
party is awaited, and the event comes out after it. So `KameoFailuresAreTold` speaks
of an event that is owed: from its death on, while the actor is not stopped, the host
does nothing but bring the news to the party; the event that follows has the cause
the exchange died of, no event has another origin, and no wait has begun in between. A
stop at that moment, or a party that never returns, leaves the exchange failed and
untold; the property promises nothing of either. Whether the cause was right is the
other property's business: a deadline begins to fail an exchange only if
`DeadlineMeansElapsed`.

That no stale report fails an exchange needs `QueueInv`, about the age of a queued
report: the rounds of waits its conversation has begun since it was armed. A
round costs a message taken from in front of the report, so the age, plus the
report's position, plus the round the handler at work may still begin, never
exceeds the capacity and one; the age stays below the cycle, and a report under
the present epoch is of the present round.

**The Iroh transport.** `IrohInv` has, besides the properties, `Paired` (the two
ends of a connection name each other), `TasksInv` (which ends have a reader and a
watch), `CacheInv` (what is cached is the newest connection and watched; where
nothing is cached, the newest has ended), `HurtInv` (an end that was lost, or is
about to hear that it closed, has its peer or the network to blame) and `JobInv`
(what a send holds is a connection to where it sends). `OnceInv` is about frames:
those on the wire or read bear the number of a send that is over, of each send one
at most is on the wire, and what follows a frame that was read is its receipt.

**The memory network.** That deliveries of one address to another keep their order
is not inductive. A send to a partner who can be reached goes straight to the
mailbox; it overtakes nothing only if nothing for the same pair is held. So
`TrafficInv` says, besides types and order, that a held delivery's endpoints are cut
off from each other, that a cut is cut both ways, and that no number is above the
newest. Healing takes up the whole list of what is held and puts each delivery
through its one route again: what goes to a mailbox and what stays on the list are
complementary parts of the same list, and both keep its order. The laws of `Along`
on which this rests (it yields nothing for nothing, goes along a concatenation part
by part, and yields only what a route yields) are proved by induction over its
recursive function: first over the set of lengths for which it agrees with its
prefix, then over the set of sequences, which grow at the end. The prover cannot
take an induction theorem over predicates, but it can take one over a *set* of
numbers (`NatSetInduction`), and a set of sequences (`SeqSetInduction`) follows.

**The dialogue.** The two properties name the exchange each side is in, and neither
side of the code knows it: a phone compares ids, an actor's machine too. What makes
the ids enough is spread over both sides and whatever is on the way between them.
`DialogueInv` takes each line of the network (a mailbox, then what is held for it)
as the turns it says and the order among them, and `Talk` relates the two lines to
the two machines. The two directions need different arguments. *To the actor*
(`ToActorOk`): what is said there is in the order of its exchanges, the network
keeps that order through a cut and its heal, and only an `Open` may belong to a later
exchange than the actor's; so a turn that is no `Open` is of the actor's own, even
when the application has long moved on, died and come back. *To the application*
(`ToAppOk`): an actor may go on answering an exchange that the application has
given up, so order says nothing; but the id in an answer does. The application
poses each request under a new id, so an answer to its newest request can only have
been said in the exchange both are in. `OneToken` says that within that exchange the
move is in one place: with the application (or the turn it is sending), on the way
to the actor, or on the way back. `TheyAgree` says that if the actor waits, whatever
has the move answers what the actor waits for, and that with both waiting and the
application's mailbox alive the move is under way; with both lines empty it must
therefore be the application's. Every loss keeps `Talk`: each line may
forget turns, and a side may give up (`Weakened`); only the loss of a mailbox loses what an
actor's answer relied on, and then `up` is false until the application, coming back, has a
new phone that waits for nothing. The lemmas about `Talk` mention neither network nor
runtime. `DialogueProofs` gets the runtime's own invariant from `LocalRuntimeProofs`
(an `INSTANCE` whose assumptions are proved of these constants), and what becomes of a
line at a heal from the laws of `Along` in `MemoryNetProofs`.

Assumptions: the patiences and `MaxLate` are natural numbers, the countdown's
count too and its id cycle positive, `PeerEndpoint` is an endpoint, peers have
endpoints, setups are setups, and `None` is none of the values it stands in for;
in the Kameo runtime mailboxes hold at least one message, the epoch cycle is longer
than any mailbox, bodies are bodies and who is managed is an endpoint; in the Iroh
transport senders have homes and kinds, address books name nodes, bounds are numbers; in the
memory network routes and inboxes are of addresses, a batch stays at one endpoint,
borders and who may be killed are endpoints; in the dialogue the two addresses and
their endpoints differ, the actor's party is one of the stock parties, and the ids the
application poses requests under are never used twice (decision 23 makes that the
application's duty; the ids of the actor may be anything, the application's included).
They are ASSUMEs of the modules that declare the constants, and TLC evaluates
them in every run. TLC checks each property above on its instance; the proofs
say that they hold beyond its bounds.

Only model-checked: all liveness (`NeverWaitsForEver`, `WaitsRunOut`,
`DeathsArePassedOn`, `NobodyWaitsForEver`, `BothComeToRest`): fairness and ENABLED are
beyond the prover.

## Findings

1. `phone_hang`: a `send_turn` future dropped at its await leaves the phone
   waiting for its peer with no deadline: the wedge that decision 26 closed for
   failed sends is open for cancelled ones (`phone.rs:171`).
2. `runtime_wedge`: a party that answers a request with `None`, or no party, leaves
   the exchange live with no wait, and every later `Open` is refused; the
   `Party` contract says the runtime enforces an answer (`runtime.rs:550`).
3. `runtime_tombstone`: a delivery to one actor clears the tombstone before
   another has been swept, whose exchange then waits out its deadline
   (`runtime.rs:449`).
4. `memory_net_drop`: dropping the inbox of a killed endpoint takes away the mailbox
   registered since at its address (`kamiroh-adapter-memory/src/lib.rs:379`).

Short of a finding: `kill_endpoint` files its deaths after the network's lock is
released (same file, line 114), so one can fail the exchange of an endpoint that
has already come back. In `dialogue` other threads do run in between, and the sides
agree again whenever it is quiet.

## Not modelled

The conversation guard is one flag per request and answer of the harness protocol,
and nothing interleaves with it. Value types, hex and secret handling, the test
timer, the facade and the examples hold no state that a property could be about.
Within what is modelled: request bodies, text, logging, wakers (a poll that would
be woken is an action that is enabled), errors that change nothing (a failing
`bind`, a closed inbox). In `Phone` the batch `open_many`, whose network half is
`MemoryNet`'s `OpenMany` and `IrohNet`'s batches: several phones sharing one receipt
are not composed. In `Dialogue` a second phone: two ends that open at the same
moment each refuse the other's `Open` and wait for a deadline. In `IrohNet` the
router's bindings and inboxes (what reaches the router is `got`), the getters of
addresses, and frames this code never writes; and `hurt` is never
cleared, so `OnlyTheGoneAreReported` says no more of a peer that has once hung up, gone
down or been cut off. In
`LocalRuntime` a `step` or `revoke` future dropped at its await of party or transport:
the phone's dropped send is modelled, the runtime's is not. In `KameoRuntime` an
observer that calls back into the runtime, which its contract forbids (`lib.rs:127`),
and a pump that ends of its own because its inbox is closed (`lib.rs:224-229`): it
unbinds an actor that stays in the roster, so `InstalledIsBound` is about the pumps of
stopped actors. And any promise about the exchanges of a stopped actor: it drops
them without a word, in both runtimes.

## Plan

In the order of what it would cost to be wrong about it:

1. *Done.* Turn machine, side, phone, runtime, parties, network, and one
   conversation end to end; the safety of phone and runtime proved.
2. *Done.* `KameoRuntime`, with its proofs: the promises of `LocalRuntime` between any
   two steps of a handler, and `Exchange` for each conversation.
3. *Done.* `IrohNet`, with its proofs.
4. `FanOut`: `open_many` with one phone per target and the one receipt they share,
   over `MemoryNet`; and a dialogue of two phones that open at the same moment.
5. *Done.* The order the memory network keeps, and `Dialogue`'s two safety
   properties, for all constants.

Considered and dropped: that each conversation of `LocalRuntime` implements `Exchange`.
One step there takes a turn and answers it, which is two of `Exchange`'s; and any
two of the four standings are two steps of `Exchange` apart at most, so the abstract
specification with such a double step would forbid nothing. The same code with a step per half is
`KameoRuntime`'s, where the refinement says something and is proved.
