------------------------------ MODULE MCPhone ------------------------------
(* Model-checking instance of Phone.  Four request ids, so that an ack or  *)
(* an answer can be late, stray or right; two endpoints, so that a death or *)
(* a revocation can be about the peer or about somebody else.               *)
EXTENDS Phone

CONSTANTS r1, r2, r3, r4, here, there

MCRequestIds == {r1, r2, r3, r4}
MCEndpoints  == {here, there}
=============================================================================
