---------------------------- MODULE MCMemoryNet ----------------------------
(* Model-checking instance of MemoryTraffic: three endpoints, an actor and a *)
(* receipt address at each.                                                  *)
EXTENDS MemoryTraffic, TLC

CONSTANTS a, b, c, A, B, C, ra, rb, rc, w1

MCAddresses == {a, b, c, ra, rb, rc}
MCEndpoints == {A, B, C}
MCHomeOf    == (a :> A @@ ra :> A @@ b :> B @@ rb :> B @@ c :> C @@ rc :> C)
MCReceiptOf == (A :> ra @@ B :> rb @@ C :> rc)
MCRoutes    == {r \in {a, c} \X {a, b, c} : r[1] # r[2]}
MCBatches   == {[from |-> a, endpoint |-> B, targets |-> <<b, b>>]}
MCBorders   == {<<A, B>>, <<A, C>>}
=============================================================================
