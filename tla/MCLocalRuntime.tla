--------------------------- MODULE MCLocalRuntime ---------------------------
(* Model-checking instances of LocalRuntime.                                *)
EXTENDS LocalRuntime, TLC

CONSTANTS n1, n2, p1, p2, e1, e2, r1, r2

TwoEndpointsOf   == (p1 :> e1 @@ p2 :> e2)
SharedEndpointOf == (p1 :> e1 @@ p2 :> e1)
OneEndpointOf    == (p1 :> e1)
OneAskId == (0 :> r1)

Plain(party, allow) == [kind |-> "Plain", party |-> party, allow |-> allow]
Harness == [kind |-> "Harness", party |-> "none", allow |-> {e1}]

(* One actor: any party the app may wire, answering what it likes, or one  *)
(* of the stock parties, or none.                                          *)
OneActor == (n1 :> {Plain("free", {e1, e2}), Plain("none", {e1}),
                    Plain("echo", {e1}), Plain("countdown", {e1, e2})})

(* A party that answers as the Party contract asks, beside one that is not *)
(* wired at all.                                                           *)
Unwired == (n1 :> {Plain("none", {e1}), Plain("echo", {e1})})

(* A harness beside a worker it may stop and spawn afresh; two peers at     *)
(* one endpoint, either as good as the other.                               *)
HarnessAndWorker == (n1 :> {Harness} @@ n2 :> {Plain("countdown", {e1})})

Interchangeable == Permutations({p1, p2})

(* Two workers that converse with the same peer. *)
TwoWorkers == (n1 :> {Plain("countdown", {e1})} @@ n2 :> {Plain("countdown", {e1})})
=============================================================================
