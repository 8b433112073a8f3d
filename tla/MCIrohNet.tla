----------------------------- MODULE MCIrohNet -----------------------------
(* A model-checking instance of IrohNet. *)
EXTENDS IrohNet, TLC

CONSTANTS a, b, s1, s2

OneSenderEach == (s1 :> a @@ s2 :> b)
BatchAndSingle == (s1 :> {"batch"} @@ s2 :> {"single"})
BookOfBoth == (a :> {b} @@ b :> {a})
=============================================================================
