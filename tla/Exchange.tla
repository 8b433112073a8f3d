------------------------------ MODULE Exchange ------------------------------
(***************************************************************************)
(* What one side of a conversation promises, with messages, waits and      *)
(* clocks left out: whose move it is, and that waiting never lasts.        *)
(*                                                                         *)
(* Exchanges follow one another, each of them walked in strict             *)
(* alternation; a dead exchange is never resumed, only followed by a new   *)
(* one (ARCHITECTURE.md, decisions 10, 17 and 23).                         *)
(***************************************************************************)

VARIABLE move   \* "nobody", "ours", "theirs" or "dead"

Init == move = "nobody"

Begin ==
    /\ move \in {"nobody", "dead"}
    /\ move' \in {"ours", "theirs"}

Alternate ==
    \/ move = "ours"   /\ move' = "theirs"
    \/ move = "theirs" /\ move' = "ours"

Conclude ==
    /\ move \in {"ours", "theirs"}
    /\ move' = "nobody"

Die ==
    /\ move \in {"ours", "theirs"}
    /\ move' = "dead"

Next == Begin \/ Alternate \/ Conclude \/ Die

SafeSpec == Init /\ [][Next]_move

(* Decision 22: no side waits on the other for ever. *)
Patient == []<>(move # "theirs")

Spec == SafeSpec /\ Patient
=============================================================================
