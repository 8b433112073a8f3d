------------------------------- MODULE Phone -------------------------------
(***************************************************************************)
(* The initiator's handle on one conversation (kamiroh-app, phone.rs).     *)
(*                                                                         *)
(* Every method is one action.  send_turn is the exception: it moves the   *)
(* machine, awaits the transport, and arms its waits only afterwards, so   *)
(* it is a beginning and one of three ends - the transport took the turn,  *)
(* refused it, or the caller dropped the future while it was pending.      *)
(* `&mut self` keeps every other method out in between; the clock runs on. *)
(*                                                                         *)
(* The environment is the app's pump: it may feed in any turn, ack, death  *)
(* or revocation, and it reports a deadline once next_due has passed.      *)
(***************************************************************************)
EXTENDS ConversationSide

CONSTANTS
    Endpoints,
    PeerEndpoint,   \* the endpoint this phone's peer lives at
    MayAbandon      \* whether the caller may drop a pending send_turn

ASSUME PeerIsAnEndpoint == PeerEndpoint \in Endpoints /\ MayAbandon \in BOOLEAN
ASSUME NoneIsNoTurn == None \notin Turn

VARIABLES
    phone,      \* state, ack_due, turn_due
    sending,    \* the turn a pending send_turn handed to the transport, or None
    told,       \* the failure the last call returned to its caller, or None
    abandoned   \* history: the live exchange was left waiting by a dropped send_turn

vars == <<phone, sending, told, abandoned>>

Causes == {"Ack", "Turn", "SendFailed", "Disconnected", "Revoked"}

ASSUME NoneIsNoCause == None \notin Causes

PhoneTypeOK ==
    /\ phone \in Side
    /\ sending \in Turn \cup {None}
    /\ told \in Causes \cup {None}
    /\ abandoned \in BOOLEAN

Init ==
    /\ phone = Quiet
    /\ sending = None
    /\ told = None
    /\ abandoned = FALSE

Unborrowed == sending = None

-----------------------------------------------------------------------------
(* open and send_turn *)

BeginSend(t) ==
    /\ Unborrowed
    /\ CanSend(phone.state, t)
    /\ phone' = Walked(phone, AfterSend(t))
    /\ sending' = t
    /\ told' = None
    /\ UNCHANGED abandoned

SendAccepted ==
    /\ sending # None
    /\ phone' = Armed(phone, sending)
    /\ sending' = None
    /\ told' = None
    /\ UNCHANGED abandoned

\* Defective variant: the error is returned with the machine left as it moved.
SendRefusedUnfailed ==
    /\ sending # None
    /\ phone' = Settled(phone)
    /\ sending' = None
    /\ told' = "SendFailed"
    /\ UNCHANGED abandoned

(* A refused Close finds the machine Idle already; fail() leaves it so. *)
SendRefused ==
    /\ sending # None
    /\ phone' = Broken(phone)
    /\ sending' = None
    /\ told' = "SendFailed"
    /\ UNCHANGED abandoned

(* Nothing after the await runs: no wait is armed, nothing fails. *)
SendAbandoned ==
    /\ MayAbandon
    /\ sending # None
    /\ sending' = None
    /\ told' = None
    /\ abandoned' = Awaiting(phone.state)
    /\ UNCHANGED phone

-----------------------------------------------------------------------------
(* What the pump feeds in.  A refused turn or a stray ack changes nothing, *)
(* and neither does a report for an endpoint that is not the peer's.       *)

OnIncoming(t) ==
    /\ Unborrowed
    /\ CanReceive(phone.state, t)
    /\ phone' = Received(phone, t)
    /\ told' = None
    /\ abandoned' = FALSE
    /\ UNCHANGED sending

NoteAck(id) ==
    /\ Unborrowed
    /\ phone' = Acked(phone, id)
    /\ told' = None
    /\ UNCHANGED <<sending, abandoned>>

(* The pump polls next_due afresh on every round (wait.rs), so the report  *)
(* is about a wait that is still pending.                                  *)
OnDeadlineElapsed ==
    /\ Unborrowed
    /\ Overdue(phone)
    /\ phone' = Broken(phone)
    /\ told' = DueKind(phone)
    /\ UNCHANGED <<sending, abandoned>>

FailedByEvidence(endpoint, cause) ==
    /\ Unborrowed
    /\ endpoint = PeerEndpoint
    /\ Live(phone.state)
    /\ phone' = Broken(phone)
    /\ told' = cause
    /\ abandoned' = FALSE
    /\ UNCHANGED sending

OnPeerDeath(endpoint) == FailedByEvidence(endpoint, "Disconnected")
OnRevoked(endpoint)   == FailedByEvidence(endpoint, "Revoked")

(* Time passes, during a pending send too. *)
Tick ==
    /\ Waiting(phone)
    /\ MayAge(phone)
    /\ phone' = Aged(phone)
    /\ told' = None
    /\ UNCHANGED <<sending, abandoned>>

-----------------------------------------------------------------------------
Next ==
    \/ \E t \in Turn : BeginSend(t) \/ OnIncoming(t)
    \/ SendAccepted \/ SendRefused \/ SendAbandoned
    \/ \E id \in RequestIds : NoteAck(id)
    \/ OnDeadlineElapsed
    \/ \E e \in Endpoints : OnPeerDeath(e) \/ OnRevoked(e)
    \/ Tick

SafeSpec == Init /\ [][Next]_vars

(* The transport settles every send, the clock runs, and the pump polls:   *)
(* nothing is assumed of the peer.                                         *)
Fairness ==
    /\ WF_vars(SendAccepted \/ SendRefused)
    /\ WF_vars(Tick)
    /\ WF_vars(OnDeadlineElapsed)

Spec == SafeSpec /\ Fairness

-----------------------------------------------------------------------------
(* Whatever the pump fed in and however the sends went, a phone at rest    *)
(* waits for the peer's turn exactly when the move is the peer's, and for  *)
(* an ack only of the request now outstanding - so next_due is never       *)
(* absent while the phone waits, and never about an exchange that is over. *)
(* Only a dropped send_turn leaves the wait out.                           *)
PhoneWaitsFit ==
    sending = None =>
        /\ AckFitsRequest(phone)
        /\ WaitsFitMove(phone) \/ abandoned

(* While send_turn is pending no wait is armed, and the machine stands     *)
(* where the turn in flight put it: whichever way the send ends, there is  *)
(* no older wait for it to leave behind.                                   *)
SendHasNoOlderWait ==
    sending # None => ~Waiting(phone) /\ phone.state = AfterSend(sending)

(* What deadline.rs says of every surface that waits (lines 9-13): a      *)
(* phone that waits for the peer's turn has a deadline running.            *)
HangIsUnrepresentable ==
    sending = None /\ Awaiting(phone.state) => phone.turn # None

(* A live exchange dies only in a call that returns the failure to its     *)
(* caller, and a call that returns one leaves nothing live and no wait     *)
(* armed: no verdict is silent, none is half applied.                      *)
FailureIsReturned ==
    [][/\ Live(phone.state) /\ phone'.state = Failed => told' # None
       /\ told' # None => ~Live(phone'.state) /\ ~Waiting(phone')]_vars

-----------------------------------------------------------------------------
(* A phone keeps the safety half of what Exchange promises: its moves      *)
(* alternate, and what is over or dead is only ever followed by a new      *)
(* exchange - a refused Close, say, does not kill what it has concluded.   *)
Move ==
    CASE phone.state = Idle    -> "nobody"
      [] phone.state = Failed  -> "dead"
      [] Owing(phone.state)    -> "ours"
      [] Awaiting(phone.state) -> "theirs"

Promise == INSTANCE Exchange WITH move <- Move

ImplementsExchange == Promise!SafeSpec

(* The other half, Exchange's Patient: with a pump that polls and a clock  *)
(* that runs the phone never waits for ever, whatever the peer does -      *)
(* unless its caller dropped the send that it would be waiting for.        *)
NeverWaitsForEver == []<>(Move # "theirs" \/ abandoned)
=============================================================================
