--------------------------- MODULE MCKameoRuntime ---------------------------
(* Model-checking instances of KameoRuntime. *)
EXTENDS KameoRuntime, TLC

CONSTANTS n1, n2, p1, p2, e1, r1, r2

OneEndpointOf == (p1 :> e1)
SharedEndpointOf == (p1 :> e1 @@ p2 :> e1)
OneAskId == (0 :> r1)

Plain(party) == [kind |-> "Plain", party |-> party, allow |-> {e1}]
Harness == [kind |-> "Harness", party |-> "none", allow |-> {e1}]

TurnsOf(ts) == {[is |-> "turn", turn |-> t] : t \in ts}
AcksOf(ids) == {[is |-> "ack", id |-> r] : r \in ids}

(* One actor: a stock party, or one that answers what it likes. *)
OneActor == (n1 :> {Plain("countdown"), Plain("free")})
OneMailbox == (n1 :> 2)
OneIsAsked == (n1 :> {e1})
Anything == (n1 :> TurnsOf({Open(r1), Close(r1), Close(r2)}) \cup AcksOf({r1, r2})
                       \cup {[is |-> "other"]})

(* A harness, small, beside the worker it stops and spawns afresh; two     *)
(* peers at one endpoint, either as good as the other.                     *)
HarnessAndWorker == (n1 :> {Harness} @@ n2 :> {Plain("countdown")})
TwoMailboxes == (n1 :> 1 @@ n2 :> 2)
WorkerIsAsked == (n1 :> {} @@ n2 :> {e1})
Commanding == (n1 :> {[is |-> "stop", name |-> n2], [is |-> "spawn", name |-> n2]}
            @@ n2 :> TurnsOf({Open(r1)}))

Interchangeable == Permutations({p1, p2})
=============================================================================
