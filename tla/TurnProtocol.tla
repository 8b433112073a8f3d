---------------------------- MODULE TurnProtocol ----------------------------
(***************************************************************************)
(* The turn machine of kamiroh-domain (protocol.rs): the pure rulebook     *)
(* that both ends of a conversation, and every party that shadows one,     *)
(* walk.  A turn is legal or it is refused and changes nothing, so each    *)
(* direction is one predicate (CanSend, CanReceive) and one successor      *)
(* (AfterSend, AfterReceive), which depends on the turn alone.             *)
(*                                                                         *)
(* Request bodies are left out: no rule reads them.  None is Rust's        *)
(* Option::None.                                                           *)
(***************************************************************************)
CONSTANTS
    RequestIds,   \* the ids a request half may carry
    None

ASSUME NoneIsNoId == None \notin RequestIds

-----------------------------------------------------------------------------
(* The machine's states: `out` is the outstanding request. *)

Idle   == [st |-> "Idle",   out |-> None]
Failed == [st |-> "Failed", out |-> None]
AwaitingTheirTurn(id) == [st |-> "AwaitingTheirTurn", out |-> id]
OweThem(id)           == [st |-> "OweThem",           out |-> id]

TurnState ==
         [st : {"Idle", "Failed"}, out : {None}]
    \cup [st : {"AwaitingTheirTurn", "OweThem"}, out : RequestIds]

Awaiting(s) == s.st = "AwaitingTheirTurn"
Owing(s)    == s.st = "OweThem"

(* An exchange is under way: what fail() and the runtime's sweeps match on. *)
Live(s) == Awaiting(s) \/ Owing(s)

-----------------------------------------------------------------------------
(* Turns: `rsp` is the request the response half answers, `req` the one    *)
(* the request half poses.                                                 *)

Open(id)          == [kind |-> "Open",     rsp |-> None,   req |-> id]
Continue(rsp, id) == [kind |-> "Continue", rsp |-> rsp,    req |-> id]
Close(rsp)        == [kind |-> "Close",    rsp |-> rsp,    req |-> None]

Turn ==
         [kind : {"Open"},     rsp : {None},     req : RequestIds]
    \cup [kind : {"Continue"}, rsp : RequestIds, req : RequestIds]
    \cup [kind : {"Close"},    rsp : RequestIds, req : {None}]

(* A fresh Open is the one way out of Idle and out of Failed. *)
Opens(s, t) == t.kind = "Open" /\ s.st \in {"Idle", "Failed"}

Answers(s, t) == t.kind \in {"Continue", "Close"} /\ t.rsp = s.out

-----------------------------------------------------------------------------
(* TurnState::on_outgoing *)

CanSend(s, t) == Opens(s, t) \/ (Owing(s) /\ Answers(s, t))

AfterSend(t) == IF t.kind = "Close" THEN Idle ELSE AwaitingTheirTurn(t.req)

-----------------------------------------------------------------------------
(* TurnState::on_incoming *)

\* Defective variant: the response half is not compared with the request.
ReceivesAnyAnswer(s, t) ==
    Opens(s, t) \/ (Awaiting(s) /\ t.kind \in {"Continue", "Close"})

CanReceive(s, t) == Opens(s, t) \/ (Awaiting(s) /\ Answers(s, t))

\* Defective variant: a Close is taken for one more move of the peer's.
OwesAfterAnything(t) == OweThem(t.req)

AfterReceive(t) == IF t.kind = "Close" THEN Idle ELSE OweThem(t.req)

ReceiveError(s, t) ==
    CASE s = Failed -> "ExchangeFailed"
      [] s = Idle   -> "NoExchange"
      [] Owing(s)   -> "NotTheirMove"
      [] Awaiting(s) /\ t.kind = "Open" -> "MustAnswerFirst"
      [] Awaiting(s) /\ t.kind # "Open" -> "WrongResponse"

-----------------------------------------------------------------------------
(* TurnState::fail: only a live exchange can die. *)

\* Defective variant: whatever the machine stood at, it has failed now.
FailsAnything(s) == Failed

Fail(s) == IF Live(s) THEN Failed ELSE s

=============================================================================
