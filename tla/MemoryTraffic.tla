--------------------------- MODULE MemoryTraffic ---------------------------
(***************************************************************************)
(* The memory network in use: any thread may make any call at any time.    *)
(* What is sent is its serial number, so that order and loss can be told.  *)
(***************************************************************************)
EXTENDS MemoryNet, Functions

CONSTANTS
    Routes,     \* <<from, to>>: who sends to whom
    Batches,    \* [from, endpoint, targets]: the batches that may be opened
    Binders,    \* the addresses that register
    Mortal,     \* the endpoints that are killed
    Borders,    \* <<one, other>>: the pairs that are cut off and healed
    MaxSends,   \* bound: sends and batches
    MaxKills    \* bound

ASSUME RoutesAreOfAddresses == Routes \subseteq Addresses \X Addresses
ASSUME BatchesStayAtTheirEndpoint ==
    \A batch \in Batches :
        /\ batch.from \in Addresses
        /\ batch.endpoint \in NetEndpoints
        /\ batch.targets \in Seq({x \in Addresses : HomeOf[x] = batch.endpoint})
ASSUME BindersAreAddresses == Binders \subseteq Addresses
ASSUME MortalsAreEndpoints == Mortal \subseteq NetEndpoints
ASSUME BordersAreOfEndpoints == Borders \subseteq NetEndpoints \X NetEndpoints

Deliveries == [from : Addresses, to : Addresses, msg : Nat]

ASSUME NothingIsNoQueue == Nothing \notin Seq(Deliveries) /\ Nothing \notin Seq(NetEndpoints)

VARIABLES
    serial,   \* sends and batches accepted so far
    kills     \* endpoints killed so far

vars == <<netVars, serial, kills>>

Init == NetInit /\ serial = 0 /\ kills = 0

Post ==
    /\ serial < MaxSends
    /\ serial' = serial + 1
    /\ \/ \E r \in Routes : Send(r[1], r[2], serial')
       \/ \E batch \in Batches :
              OpenMany(batch.from, batch.endpoint, batch.targets, serial', serial')
    /\ UNCHANGED kills

KillOne ==
    /\ kills < MaxKills
    /\ kills' = kills + 1
    /\ \E e \in Mortal : Kill(e)
    /\ UNCHANGED serial

Calls ==
    \/ Post
    \/ KillOne
    \/ /\ \/ \E x \in Binders, h \in Handles : Register(x, h)
          \/ \E h \in Handles : DropInbox(h) \/ Take(h)
          \/ \E border \in Borders : \/ Partition(border[1], border[2])
                                    \/ Heal(border[1], border[2])
          \/ \E w \in Watches : Watch(w) \/ HearDeath(w)
          \/ \E w \in Watches, e \in NetEndpoints : ReportDeath(w, e)
       /\ UNCHANGED <<serial, kills>>

Spec == Init /\ [][Calls]_vars

-----------------------------------------------------------------------------
Queued(n, x) == IF Bound(n, x) THEN n.box[x] ELSE <<>>

(* What is on its way from one address to another, next delivery first.    *)
Line(n, f, t) == Along({<<f, t>>}, Queued(n, t) \o n.held)

Ascending(s) == \A i, j \in DOMAIN s : i < j => s[i].msg <= s[j].msg

(* Deliveries from one address to another are taken in the order they were *)
(* sent, through partitions, heals, kills and returns: what waits in the   *)
(* mailbox is older than anything still held back, and each is in order.   *)
InOrder == \A f \in Addresses, t \in Addresses : Ascending(Line(net, f, t))

(* A delivery the network accepted leaves it only by being taken, with its *)
(* mailbox, or, when it was held back, at the heal of the partition that   *)
(* held it, if there is no mailbox by then: a partition loses nothing,     *)
(* whichever other pairs are cut and healed meanwhile.                     *)
Contents(n) == Range(n.held) \cup UNION {Range(Queued(n, x)) : x \in Addresses}

NothingVanishes ==
    [][\A d \in Contents(net) :
          \/ d \in Contents(net')
          \/ /\ ~Bound(net', d.to)
             /\ d \in Range(net.held) => ~Cut(net', d)
          \/ /\ Queued(net, d.to) # <<>>
             /\ d = Head(net.box[d.to])
             /\ net'.box[d.to] = Tail(net.box[d.to])]_vars
=============================================================================
