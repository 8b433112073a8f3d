----------------------------- MODULE MCDialogue -----------------------------
(* Model-checking instances of Dialogue.                                    *)
EXTENDS Dialogue, TLC

CONSTANTS q1, q2, q3, k1

MCAskId == (0 :> k1)

(* The application never uses an id twice (ARCHITECTURE.md, line 607).      *)
FreshIds == <<q1, q2, q3>>
=============================================================================
