-------------------------- MODULE ConversationSide --------------------------
(***************************************************************************)
(* One side's record of one conversation: the turn machine and the two     *)
(* waits armed against this side's own patience.  Phone (phone.rs) and     *)
(* PeerState (runtime.rs) keep exactly these three fields, with the same   *)
(* arming and settling, so both are modelled with the operators below.     *)
(*                                                                         *)
(* An instant is kept as the time left until it, which turns negative when *)
(* whoever polls the timer is late: the order of two instants, all the     *)
(* code looks at, is the order of the times left.                          *)
(***************************************************************************)
EXTENDS TurnProtocol, Integers

CONSTANTS
    AckPatience,   \* Deadlines::ack
    TurnPatience,  \* Deadlines::turn
    MaxLate        \* bound: how late, past an instant, a poll may come

AckWait == [id : RequestIds, left : Int]

ASSUME PatienceIsFinite == AckPatience \in Nat /\ TurnPatience \in Nat /\ MaxLate \in Nat
ASSUME NoneIsNoWait == None \notin Int /\ None \notin AckWait

Side == [state : TurnState, ack : AckWait \cup {None}, turn : Int \cup {None}]

Quiet == [state |-> Idle, ack |-> None, turn |-> None]

-----------------------------------------------------------------------------
(* Arming and settling *)

Settled(c) == [c EXCEPT !.ack = None, !.turn = None]

\* Defective variant: only the ack wait is armed.
ArmedForAckOnly(c, t) ==
    [c EXCEPT !.ack  = IF t.req = None THEN None ELSE [id |-> t.req, left |-> AckPatience],
              !.turn = None]

(* The waits a sent turn creates: the ack of its request half and, unless  *)
(* it closed the exchange, the peer's next turn.                           *)
Armed(c, t) ==
    [c EXCEPT !.ack  = IF t.req = None THEN None ELSE [id |-> t.req, left |-> AckPatience],
              !.turn = IF t.kind = "Close" THEN None ELSE TurnPatience]

Walked(c, s) == [c EXCEPT !.state = s]

Sent(c, t) == Armed(Walked(c, AfterSend(t)), t)

\* Defective variant: a legal turn leaves the waits of the last one armed.
ReceivedUnsettled(c, t) == Walked(c, AfterReceive(t))

(* A legal incoming turn settles both waits: it supersedes a missing ack. *)
Received(c, t) == Settled(Walked(c, AfterReceive(t)))

\* Defective variant: the exchange dies but its waits stay armed.
BrokenStillArmed(c) == Walked(c, Fail(c.state))

(* A failure verdict: fail() and both waits cleared. *)
Broken(c) == Settled(Walked(c, Fail(c.state)))

\* Defective variant: the receipt for a request settles the wait for its answer too.
AckSettlesBoth(c, id) ==
    IF c.ack # None /\ c.ack.id = id THEN Settled(c) ELSE c

Acked(c, id) ==
    IF c.ack # None /\ c.ack.id = id THEN [c EXCEPT !.ack = None] ELSE c

-----------------------------------------------------------------------------
(* Time *)

Waiting(c) == c.ack # None \/ c.turn # None

(* Phone::next_due: the earlier wait, the ack's on a tie. *)
DueKind(c) ==
    IF c.ack # None /\ (c.turn = None \/ c.ack.left <= c.turn) THEN "Ack" ELSE "Turn"

DueLeft(c) == IF DueKind(c) = "Ack" THEN c.ack.left ELSE c.turn

Overdue(c) == Waiting(c) /\ DueLeft(c) <= 0

MayAge(c) == Waiting(c) => DueLeft(c) > -MaxLate

Aged(c) ==
    [c EXCEPT !.ack  = IF c.ack  = None THEN None ELSE [c.ack EXCEPT !.left = c.ack.left - 1],
              !.turn = IF c.turn = None THEN None ELSE c.turn - 1]

-----------------------------------------------------------------------------
(* The waits of a side at rest: it waits for a turn exactly when the move  *)
(* is the peer's, and for an ack only of the request it has outstanding.   *)
AckFitsRequest(c) ==
    c.ack # None => c.turn # None /\ c.state = AwaitingTheirTurn(c.ack.id)

WaitsFitMove(c) == c.turn # None <=> Awaiting(c.state)

WaitsFit(c) == AckFitsRequest(c) /\ WaitsFitMove(c)

=============================================================================
