----------------------------- MODULE MemoryNet -----------------------------
(***************************************************************************)
(* The in-process network (kamiroh-adapter-memory, lib.rs): mailboxes by   *)
(* address, endpoints that can be partitioned (deliveries are held, not    *)
(* lost) or killed (mailboxes vanish, every death watch hears of it).      *)
(*                                                                         *)
(* What is behind the one mutex is the record `net`, and what a call does  *)
(* to it under the lock is a function of it (Posted, Batched, Healed), so  *)
(* that a caller which sends twice in one step can compose them.  Death    *)
(* queues have locks of their own: kill_endpoint fills them one by one     *)
(* after it has let go of the mutex, and other threads may get in between. *)
(***************************************************************************)
EXTENDS Naturals, Sequences

CONSTANTS
    Addresses,
    NetEndpoints,
    HomeOf,       \* [Addresses -> NetEndpoints]
    ReceiptOf,    \* [NetEndpoints -> Addresses], batch_receipt_sender
    Watches,      \* subscriptions a death_watch() may create
    Handles,      \* inboxes that may be held at a time
    Nothing

ASSUME AddressesHaveHomes == HomeOf \in [Addresses -> NetEndpoints]
ASSUME ReceiptsComeFromHome ==
    /\ ReceiptOf \in [NetEndpoints -> Addresses]
    /\ \A e \in NetEndpoints : HomeOf[ReceiptOf[e]] = e

VARIABLES
    net,       \* box: [Addresses -> queue or Nothing]; held: queue; cut: pairs of endpoints
    watched,   \* [Watches -> queue of dead endpoints, or Nothing: no such watch]
    killing,   \* [watch, endpoint] reports a kill_endpoint call has yet to file
    inboxes,   \* [Handles -> address of the inbox, or Nothing: not handed out, or dropped]
    owner      \* history: [Addresses -> handle whose registration stands, or Nothing]

netVars == <<net, watched, killing, inboxes, owner>>

Delivery(f, t, m) == [from |-> f, to |-> t, msg |-> m]

Route(d)    == <<d.from, d.to>>
Bound(n, a) == n.box[a] # Nothing
Cut(n, d)   == <<HomeOf[d.from], HomeOf[d.to]>> \in n.cut

(* Of the deliveries in s, those on the given routes, in their order.      *)
Along(routes, s) ==
    LET upTo[i \in 0 .. Len(s)] ==
            IF i = 0 THEN <<>>
            ELSE IF Route(s[i]) \in routes THEN Append(upTo[i - 1], s[i])
            ELSE upTo[i - 1]
    IN upTo[Len(s)]

AllRoutes   == Addresses \X Addresses
RoutesTo(x) == Addresses \X {x}

-----------------------------------------------------------------------------
(* Under the mutex. *)

Boxed(n, d) == IF Bound(n, d.to) THEN [n EXCEPT !.box[d.to] = Append(@, d)] ELSE n

(* One after the other, to the mailboxes there are.                        *)
AllBoxed(n, posts) ==
    [n EXCEPT !.box = [x \in Addresses |->
        IF Bound(n, x) THEN n.box[x] \o Along(RoutesTo(x), posts) ELSE Nothing]]

\* Defective variant: a delivery to a cut-off endpoint is dropped, not held.
PostedOrDropped(n, d) == IF Cut(n, d) THEN n ELSE Boxed(n, d)

(* Transport::send: held without a word by a partition, whether or not the *)
(* mailbox exists; refused, with nothing changed, if there is no mailbox.  *)
Posted(n, d) == IF Cut(n, d) THEN [n EXCEPT !.held = Append(@, d)] ELSE Boxed(n, d)

Sendable(n, d) == Cut(n, d) \/ Bound(n, d.to)

(* Transport::open_many: the endpoint must have some mailbox; the receipt  *)
(* goes first, then the openings; names nobody holds are passed over.      *)
Reachable(n, e) == \E a \in Addresses : HomeOf[a] = e /\ Bound(n, a)

Batched(n, f, e, targets, m, receipt) ==
    LET posts == <<Delivery(ReceiptOf[e], f, receipt)>>
                    \o [i \in DOMAIN targets |-> Delivery(f, targets[i], m)]
        cut   == <<HomeOf[f], e>> \in n.cut
    IN IF cut THEN [n EXCEPT !.held = @ \o posts] ELSE AllBoxed(n, posts)

RoutesBetween(a, b) ==
    {r \in AllRoutes : <<HomeOf[r[1]], HomeOf[r[2]]>> \in {<<a, b>>, <<b, a>>}}

Partitioned(n, a, b) == [n EXCEPT !.cut = @ \cup {<<a, b>>, <<b, a>>}]

Opened(n, a, b, kept) ==
    [n EXCEPT !.cut = @ \ {<<a, b>>, <<b, a>>}, !.held = Along(kept, @)]

\* Defective variant: healing one pair forgets what is held for the others.
HealedAlone(n, a, b) ==
    AllBoxed(Opened(n, a, b, {}), Along(RoutesBetween(a, b), n.held))

\* Defective variant: what was held is handed over newest first.
HealedBackwards(n, a, b) ==
    LET flush == Along(RoutesBetween(a, b), n.held)
    IN AllBoxed(Opened(n, a, b, AllRoutes \ RoutesBetween(a, b)),
                [i \in DOMAIN flush |-> flush[Len(flush) + 1 - i]])

(* heal: what was held between the two goes to the mailboxes that still    *)
(* exist, in the order it was sent; the rest stays held.                   *)
Healed(n, a, b) ==
    AllBoxed(Opened(n, a, b, AllRoutes \ RoutesBetween(a, b)),
             Along(RoutesBetween(a, b), n.held))

-----------------------------------------------------------------------------
NetInit ==
    /\ net = [box |-> [a \in Addresses |-> Nothing], held |-> <<>>, cut |-> {}]
    /\ watched = [w \in Watches |-> Nothing]
    /\ killing = {}
    /\ inboxes = [h \in Handles |-> Nothing]
    /\ owner = [a \in Addresses |-> Nothing]

(* register and Registry::bind; AddressInUse changes nothing. *)
Register(a, h) ==
    /\ ~Bound(net, a)
    /\ inboxes[h] = Nothing
    /\ inboxes' = [inboxes EXCEPT ![h] = a]
    /\ net' = [net EXCEPT !.box[a] = <<>>]
    /\ owner' = [owner EXCEPT ![a] = h]
    /\ UNCHANGED <<watched, killing>>

(* Dropping an inbox takes away the mailbox that answers to its address -  *)
(* by address, whichever inbox that mailbox was registered for.            *)
DropInbox(h) ==
    LET home == inboxes[h]
    IN /\ home # Nothing
       /\ inboxes' = [inboxes EXCEPT ![h] = Nothing]
       /\ net' = [net EXCEPT !.box[home] = Nothing]
       /\ owner' = [owner EXCEPT ![home] = IF @ = h THEN Nothing ELSE @]
       /\ UNCHANGED <<watched, killing>>

(* NextDelivery::poll: the head of the mailbox at the inbox's address. *)
Take(h) ==
    LET home == inboxes[h]
    IN /\ home # Nothing
       /\ Bound(net, home)
       /\ net.box[home] # <<>>
       /\ net' = [net EXCEPT !.box[home] = Tail(@)]
       /\ UNCHANGED <<watched, killing, inboxes, owner>>

Send(f, t, m) ==
    /\ Sendable(net, Delivery(f, t, m))
    /\ net' = Posted(net, Delivery(f, t, m))
    /\ UNCHANGED <<watched, killing, inboxes, owner>>

OpenMany(f, e, targets, m, receipt) ==
    /\ Reachable(net, e)
    /\ net' = Batched(net, f, e, targets, m, receipt)
    /\ UNCHANGED <<watched, killing, inboxes, owner>>

Partition(a, b) ==
    /\ net' = Partitioned(net, a, b)
    /\ UNCHANGED <<watched, killing, inboxes, owner>>

Heal(a, b) ==
    /\ net' = Healed(net, a, b)
    /\ UNCHANGED <<watched, killing, inboxes, owner>>

Watch(w) ==
    /\ watched[w] = Nothing
    /\ watched' = [watched EXCEPT ![w] = <<>>]
    /\ UNCHANGED <<net, killing, inboxes, owner>>

(* kill_endpoint under the mutex: every mailbox of the endpoint vanishes,  *)
(* and the watches there are at this moment are noted.  One call at a time *)
(* per endpoint (bound).                                                   *)
Kill(e) ==
    /\ \A k \in killing : k.endpoint # e
    /\ net' = [net EXCEPT !.box = [a \in Addresses |->
                                      IF HomeOf[a] = e THEN Nothing ELSE net.box[a]]]
    /\ killing' = killing \cup
                  {[watch |-> w, endpoint |-> e] : w \in {x \in Watches : watched[x] # Nothing}}
    /\ owner' = [a \in Addresses |-> IF HomeOf[a] = e THEN Nothing ELSE owner[a]]
    /\ UNCHANGED <<watched, inboxes>>

(* kill_endpoint after the mutex: one watch's queue at a time. *)
ReportDeath(w, e) ==
    /\ [watch |-> w, endpoint |-> e] \in killing
    /\ killing' = killing \ {[watch |-> w, endpoint |-> e]}
    /\ watched' = [watched EXCEPT ![w] = Append(@, e)]
    /\ UNCHANGED <<net, inboxes, owner>>

HearDeath(w) ==
    /\ watched[w] \notin {Nothing, <<>>}
    /\ watched' = [watched EXCEPT ![w] = Tail(@)]
    /\ UNCHANGED <<net, killing, inboxes, owner>>

-----------------------------------------------------------------------------
(* What register() promises (line 71): "the mailbox lives until the        *)
(* returned inbox is dropped" - or its endpoint killed, which is what      *)
(* kill_endpoint is for.                                                   *)
MailboxOutlivesInbox == \A a \in Addresses : owner[a] # Nothing => Bound(net, a)
=============================================================================
