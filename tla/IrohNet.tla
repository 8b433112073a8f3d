------------------------------ MODULE IrohNet ------------------------------
(***************************************************************************)
(* The Iroh transport (kamiroh-adapter-iroh): endpoints that cache one     *)
(* connection per peer, dial when they have none or it proves stale,       *)
(* accept what others dial, read frames off every connection, and take a   *)
(* connection's end for the peer's death unless they hung up themselves or *)
(* a newer connection has superseded it.                                   *)
(*                                                                         *)
(* A node is a process with its endpoint; a connection has an end at       *)
(* either node, and each end opens and closes in its own time.  QUIC is    *)
(* external: it is modelled by what the adapter sees of it.  Names and     *)
(* inboxes are left out, `got` is what has reached the router; so are the  *)
(* errors of encoding and frames this code never writes.                   *)
(***************************************************************************)
EXTENDS Naturals, Sequences, FiniteSets

CONSTANTS
    Nodes,      \* endpoints
    Senders,    \* tasks that send, one frame at a time
    HomeOf,     \* [Senders -> Nodes]
    Book,       \* [Nodes -> the peers it has an address of]
    Kinds,      \* [Senders -> the kinds of frames they send: "single", "batch"]
    Sends,      \* bound: frames a sender sends
    MaxConns,   \* bound: connections ever made
    MaxFaults,  \* bound: hang-ups, broken connections, shutdowns and crashes
    None

ASSUME SendersHaveHomes == HomeOf \in [Senders -> Nodes]
ASSUME BookIsOfPeers == Book \in [Nodes -> SUBSET Nodes]
ASSUME FramesHaveKinds == Kinds \in [Senders -> SUBSET {"single", "batch"}]
ASSUME BoundsAreNumbers == Sends \in Nat /\ MaxConns \in Nat /\ MaxFaults \in Nat
ASSUME NoneIsNoNode == None \notin Nodes

Conns == 1 .. MaxConns        \* stable ids, in the order of the dials
NoConn == 0

Frame == [by : Senders, nr : 1 .. Sends, is : {"single", "batch", "receipt"}]

VARIABLES
    side,      \* [Conns -> [Nodes -> how the end there is]]
    peer,      \* [Conns -> [Nodes -> the node at the other end, or None]]
    dialled,   \* how many connections have been dialled
    cache,     \* [Nodes -> [Nodes -> the cached connection]]
    watching,  \* [Nodes -> connections whose end a task awaits]
    reading,   \* [Nodes -> connections a reader is on]
    fanning,   \* [Nodes -> [Conns -> the batch between receipt and fan-in, or None]]
    wire,      \* [Nodes -> [Conns -> frames on their way there or unread]]
    job,       \* [Senders -> the send it is in the middle of]
    sent,      \* [Senders -> frames it has begun to send]
    deaths,    \* [Nodes -> what its death watch yields, in this order]
    up,        \* [Nodes -> whether its endpoint is open]
    faults,    \* how many faults there have been
    got,       \* history: [Nodes -> frames that reached the router]
    newest,    \* history: [Nodes -> [Nodes -> connection cached last]]
    told,      \* history: [Nodes -> [Nodes -> a death reported since]]
    hurt       \* history: [Nodes -> peers that hung up, died or were cut off]

conns == <<side, peer, dialled>>
tasks == <<watching, reading, fanning>>
sends == <<job, sent>>
history == <<newest, told, hurt>>
vars == <<side, peer, dialled, cache, watching, reading, fanning, wire, job, sent,
          deaths, up, faults, got, newest, told, hurt>>

-----------------------------------------------------------------------------
SideState == {"none", "coming", "open", "local", "lost"}
Ended(c, n) == side[c][n] \in {"local", "lost"}

Resting == [do |-> "rest"]
Picking(m, f, attempt) == [do |-> "pick", to |-> m, frame |-> f, attempt |-> attempt]
Dialing(j)    == [j EXCEPT !.do = "dial"]
Writing(j, c) == [do |-> "write", to |-> j.to, frame |-> j.frame,
                  attempt |-> j.attempt, on |-> c]

Job == {Resting}
  \cup [do : {"pick", "dial"}, to : Nodes, frame : Frame, attempt : 0 .. 1]
  \cup [do : {"write"}, to : Nodes, frame : Frame, attempt : 0 .. 1, on : Conns]

Becomes(s, j) == job' = [job EXCEPT ![s] = j]

(* The lock on the cache is held across a dial, and by nobody between two  *)
(* steps otherwise.                                                        *)
Unlocked(n) == \A s \in Senders : HomeOf[s] = n => job[s].do # "dial"

IrohTypeOK ==
    /\ side \in [Conns -> [Nodes -> SideState]]
    /\ peer \in [Conns -> [Nodes -> Nodes \cup {None}]]
    /\ dialled \in 0 .. MaxConns
    /\ cache \in [Nodes -> [Nodes -> Conns \cup {NoConn}]]
    /\ watching \in [Nodes -> SUBSET Conns]
    /\ reading \in [Nodes -> SUBSET Conns]
    /\ fanning \in [Nodes -> [Conns -> Frame \cup {None}]]
    /\ wire \in [Nodes -> [Conns -> Seq(Frame)]]
    /\ job \in [Senders -> Job]
    /\ sent \in [Senders -> 0 .. Sends]
    /\ deaths \in [Nodes -> Seq(Nodes)]
    /\ up \in [Nodes -> BOOLEAN]
    /\ faults \in 0 .. MaxFaults
    /\ got \in [Nodes -> SUBSET Frame]
    /\ newest \in [Nodes -> [Nodes -> Conns \cup {NoConn}]]
    /\ told \in [Nodes -> [Nodes -> BOOLEAN]]
    /\ hurt \in [Nodes -> SUBSET Nodes]

Init ==
    /\ side = [c \in Conns |-> [n \in Nodes |-> "none"]]
    /\ peer = [c \in Conns |-> [n \in Nodes |-> None]]
    /\ dialled = 0
    /\ cache = [n \in Nodes |-> [m \in Nodes |-> NoConn]]
    /\ watching = [n \in Nodes |-> {}]
    /\ reading = [n \in Nodes |-> {}]
    /\ fanning = [n \in Nodes |-> [c \in Conns |-> None]]
    /\ wire = [n \in Nodes |-> [c \in Conns |-> <<>>]]
    /\ job = [s \in Senders |-> Resting]
    /\ sent = [s \in Senders |-> 0]
    /\ deaths = [n \in Nodes |-> <<>>]
    /\ up = [n \in Nodes |-> TRUE]
    /\ faults = 0
    /\ got = [n \in Nodes |-> {}]
    /\ newest = [n \in Nodes |-> [m \in Nodes |-> NoConn]]
    /\ told = [n \in Nodes |-> [m \in Nodes |-> FALSE]]
    /\ hurt = [n \in Nodes |-> {}]

-----------------------------------------------------------------------------
(* A connection to m is in place at n: cached over whatever was, and given *)
(* its reader and its watch.                                               *)

\* Defective variant: only accepted connections have a reader.
ServedIfAccepted(n, m, c) ==
    /\ cache' = [cache EXCEPT ![n][m] = c]
    /\ reading' = [reading EXCEPT ![n] = IF side[c][n] = "coming" THEN @ \cup {c} ELSE @]
    /\ watching' = [watching EXCEPT ![n] = @ \cup {c}]
    /\ newest' = [newest EXCEPT ![n][m] = c]
    /\ told' = [told EXCEPT ![n][m] = FALSE]

Served(n, m, c) ==
    /\ cache' = [cache EXCEPT ![n][m] = c]
    /\ reading' = [reading EXCEPT ![n] = @ \cup {c}]
    /\ watching' = [watching EXCEPT ![n] = @ \cup {c}]
    /\ newest' = [newest EXCEPT ![n][m] = c]
    /\ told' = [told EXCEPT ![n][m] = FALSE]

Accept(n, c) ==
    /\ up[n] /\ side[c][n] = "coming" /\ Unlocked(n)
    /\ side' = [side EXCEPT ![c][n] = "open"]
    /\ Served(n, peer[c][n], c)
    /\ UNCHANGED <<peer, dialled, fanning, wire, sends, deaths, up, faults, got, hurt>>

(* The handshake never completes: the dialler is gone. *)
AcceptFails(n, c) ==
    /\ side[c][n] = "coming" /\ Ended(c, peer[c][n])
    /\ side' = [side EXCEPT ![c][n] = "lost"]
    /\ wire' = [wire EXCEPT ![n][c] = <<>>]
    /\ UNCHANGED <<peer, dialled, cache, tasks, sends, deaths, up, faults, got, history>>

-----------------------------------------------------------------------------
(* send and open_many: up to two attempts, the second on a fresh dial.     *)

Send(s, m, kind) ==
    /\ job[s] = Resting /\ sent[s] < Sends /\ m # HomeOf[s]
    /\ sent' = [sent EXCEPT ![s] = @ + 1]
    /\ Becomes(s, Picking(m, [by |-> s, nr |-> sent[s] + 1, is |-> kind], 0))
    /\ UNCHANGED <<conns, cache, tasks, wire, deaths, up, faults, got, history>>

(* connection_to: the cached connection, or a dial if the peer is known. *)
Pick(s) ==
    LET n == HomeOf[s]
        j == job[s]
        c == cache[n][j.to]
        cached == j.attempt = 0 /\ c # NoConn
    IN /\ j.do = "pick" /\ Unlocked(n)
       /\ Becomes(s, IF cached THEN Writing(j, c)
                     ELSE IF j.to \in Book[n] THEN Dialing(j) ELSE Resting)
       /\ UNCHANGED <<conns, cache, tasks, wire, sent, deaths, up, faults, got, history>>

Connected(s) ==
    LET n == HomeOf[s]
        m == job[s].to
        c == dialled + 1
    IN /\ job[s].do = "dial" /\ up[n] /\ up[m] /\ dialled < MaxConns
       /\ dialled' = c
       /\ side' = [side EXCEPT ![c] = [@ EXCEPT ![n] = "open", ![m] = "coming"]]
       /\ peer' = [peer EXCEPT ![c] = [@ EXCEPT ![n] = m, ![m] = n]]
       /\ Served(n, m, c)
       /\ Becomes(s, Writing(job[s], c))
       /\ UNCHANGED <<fanning, wire, sent, deaths, up, faults, got, hurt>>

ConnectFails(s) ==
    /\ job[s].do = "dial"
    /\ Becomes(s, Resting)
    /\ UNCHANGED <<conns, cache, tasks, wire, sent, deaths, up, faults, got, history>>

(* A frame is on its way once its stream is finished; the end it goes to   *)
(* may have closed already.                                                *)
Written(c, m, f) ==
    wire' = [wire EXCEPT ![m][c] = IF Ended(c, m) THEN @ ELSE Append(@, f)]

\* Defective variant: how stopped() resolves decides whether to try again.
WriteConfirmed(s) ==
    LET j == job[s]
    IN /\ j.do = "write"
       /\ IF ~Ended(j.on, HomeOf[s])
          THEN Written(j.on, j.to, j.frame) ELSE UNCHANGED wire
       /\ \/ Becomes(s, Resting)
          \/ j.attempt = 0 /\ Becomes(s, Picking(j.to, j.frame, 1))
       /\ UNCHANGED <<conns, cache, tasks, sent, deaths, up, faults, got, history>>

\* Defective variant: a retry still has the stale connection in hand.
WriteOnStale(s) ==
    LET j == job[s]
    IN /\ j.do = "write"
       /\ IF ~Ended(j.on, HomeOf[s])
          THEN Written(j.on, j.to, j.frame) /\ Becomes(s, Resting)
          ELSE Becomes(s, [j EXCEPT !.do = "pick", !.attempt = 1]) /\ UNCHANGED wire
       /\ UNCHANGED <<conns, cache, tasks, sent, deaths, up, faults, got, history>>

(* send_frame fails before the stream is finished or not at all: it awaits *)
(* stopped(), whose result it ignores, and is Ok.                          *)
Write(s) ==
    LET n == HomeOf[s]
        c == job[s].on
    IN /\ job[s].do = "write"
       /\ IF ~Ended(c, n)
          THEN Written(c, job[s].to, job[s].frame) /\ Becomes(s, Resting)
          ELSE /\ Becomes(s, IF job[s].attempt = 0
                             THEN Picking(job[s].to, job[s].frame, 1) ELSE Resting)
               /\ UNCHANGED wire
       /\ UNCHANGED <<conns, cache, tasks, sent, deaths, up, faults, got, history>>

-----------------------------------------------------------------------------
(* The reader of a connection takes the frames in their order.  A batch is *)
(* receipted over the same connection before it is fanned in.              *)
Receipt(f) == [f EXCEPT !.is = "receipt"]

Reads(n, c, f) ==
    /\ c \in reading[n] /\ fanning[n][c] = None
    /\ wire[n][c] # <<>> /\ Head(wire[n][c]) = f

ReadSingle(n, c, f) ==
    /\ f.is # "batch"
    /\ Reads(n, c, f)
    /\ wire' = [wire EXCEPT ![n][c] = Tail(@)]
    /\ got' = [got EXCEPT ![n] = @ \cup {f}]
    /\ UNCHANGED <<conns, cache, tasks, sends, deaths, up, faults, history>>

ReadBatch(n, c, f) ==
    LET m == peer[c][n]
        rest == [wire EXCEPT ![n][c] = Tail(@)]
    IN /\ f.is = "batch"
       /\ Reads(n, c, f)
       /\ wire' = IF Ended(c, n) \/ Ended(c, m) THEN rest
                  ELSE [rest EXCEPT ![m][c] = Append(@, Receipt(f))]
       /\ fanning' = [fanning EXCEPT ![n][c] = f]
       /\ UNCHANGED <<conns, cache, watching, reading, sends, deaths, up, faults, got, history>>

FanIn(n, c) ==
    /\ fanning[n][c] # None
    /\ got' = [got EXCEPT ![n] = @ \cup {fanning[n][c]}]
    /\ fanning' = [fanning EXCEPT ![n][c] = None]
    /\ UNCHANGED <<conns, cache, watching, reading, wire, sends, deaths, up, faults, history>>

(* accept_uni fails on a closed connection; what was unread is lost. *)
ReaderEnds(n, c) ==
    /\ c \in reading[n] /\ fanning[n][c] = None /\ Ended(c, n)
    /\ reading' = [reading EXCEPT ![n] = @ \ {c}]
    /\ wire' = [wire EXCEPT ![n][c] = <<>>]
    /\ UNCHANGED <<conns, cache, watching, fanning, sends, deaths, up, faults, got, history>>

-----------------------------------------------------------------------------
(* watch_connection: a connection has ended at n.                          *)

\* Defective variant: any connection in the cache supersedes.
AnySupersedes(n, m, c) == cache[n][m] # NoConn

\* Defective variant: no connection is told from another.
NoneSupersedes(n, m, c) == FALSE

Superseded(n, m, c) == cache[n][m] \notin {NoConn, c}

\* Defective variant: our own hang-ups count.
AnyEnd(n, c) == TRUE

PeersDoing(n, c) == side[c][n] = "lost"

ReportDeath(n, m) ==
    /\ deaths' = [deaths EXCEPT ![n] = Append(@, m)]
    /\ told' = [told EXCEPT ![n][m] = TRUE]

\* Defective variant: the cache is left to the next send.
WatchFiresOnly(n, c) ==
    LET m == peer[c][n]
    IN /\ c \in watching[n] /\ Ended(c, n) /\ Unlocked(n)
       /\ watching' = [watching EXCEPT ![n] = @ \ {c}]
       /\ IF ~Superseded(n, m, c) /\ PeersDoing(n, c)
          THEN ReportDeath(n, m) ELSE UNCHANGED <<deaths, told>>
       /\ UNCHANGED <<conns, cache, reading, fanning, wire, sends, up, faults, got, newest, hurt>>

WatchFires(n, c) ==
    LET m == peer[c][n]
    IN /\ c \in watching[n] /\ Ended(c, n) /\ Unlocked(n)
       /\ watching' = [watching EXCEPT ![n] = @ \ {c}]
       /\ cache' = [cache EXCEPT ![n][m] = IF @ = c THEN NoConn ELSE @]
       /\ IF ~Superseded(n, m, c) /\ PeersDoing(n, c)
          THEN ReportDeath(n, m) ELSE UNCHANGED <<deaths, told>>
       /\ UNCHANGED <<conns, reading, fanning, wire, sends, up, faults, got, newest, hurt>>

-----------------------------------------------------------------------------
(* Hang-ups and faults *)

Strikes == faults < MaxFaults /\ faults' = faults + 1

(* An end that has closed stays closed for the reason it closed. *)
HungUp(c, n, how) == [side[c] EXCEPT ![n] = IF @ \in {"open", "coming"} THEN how ELSE @]

CloseConnection(n, m) ==
    LET c == cache[n][m]
    IN /\ Strikes /\ c # NoConn /\ Unlocked(n)
       /\ cache' = [cache EXCEPT ![n][m] = NoConn]
       /\ side' = [side EXCEPT ![c] = HungUp(c, n, "local")]
       /\ hurt' = [hurt EXCEPT ![m] = @ \cup {n}]
       /\ UNCHANGED <<peer, dialled, tasks, wire, sends, deaths, up, got, newest, told>>

(* The other end has closed, or is no more: a close frame or the idle      *)
(* timeout says so in the end.                                             *)
HearsClose(n, c) ==
    /\ side[c][n] = "open" /\ Ended(c, peer[c][n])
    /\ side' = [side EXCEPT ![c] = HungUp(c, n, "lost")]
    /\ UNCHANGED <<peer, dialled, cache, tasks, wire, sends, deaths, up, faults, got, history>>

(* The network loses a connection; one end notices first. *)
Breaks(n, c) ==
    LET m == peer[c][n]
    IN /\ Strikes /\ side[c][n] = "open"
       /\ side' = [side EXCEPT ![c] = HungUp(c, n, "lost")]
       /\ hurt' = [hurt EXCEPT ![n] = @ \cup {m}, ![m] = @ \cup {n}]
       /\ UNCHANGED <<peer, dialled, cache, tasks, wire, sends, deaths, up, got, newest, told>>

AllHungUp(n) == side' = [c \in Conns |-> HungUp(c, n, "local")]
LeavesAll(n) == hurt' = [m \in Nodes |-> IF m = n THEN hurt[m] ELSE hurt[m] \cup {n}]

Shutdown(n) ==
    /\ Strikes /\ up[n]
    /\ up' = [up EXCEPT ![n] = FALSE]
    /\ AllHungUp(n) /\ LeavesAll(n)
    /\ wire' = [wire EXCEPT ![n] =
                   [c \in Conns |-> IF side[c][n] = "coming" THEN <<>> ELSE @[c]]]
    /\ UNCHANGED <<peer, dialled, cache, tasks, sends, deaths, got, newest, told>>

(* The process dies, or has been shut down, and a new one with the same    *)
(* key takes its place.                                                    *)
Restart(n) ==
    /\ Strikes
    /\ AllHungUp(n) /\ LeavesAll(n)
    /\ cache' = [cache EXCEPT ![n] = [m \in Nodes |-> NoConn]]
    /\ watching' = [watching EXCEPT ![n] = {}]
    /\ reading' = [reading EXCEPT ![n] = {}]
    /\ fanning' = [fanning EXCEPT ![n] = [c \in Conns |-> None]]
    /\ wire' = [wire EXCEPT ![n] = [c \in Conns |-> <<>>]]
    /\ job' = [s \in Senders |-> IF HomeOf[s] = n THEN Resting ELSE job[s]]
    /\ deaths' = [deaths EXCEPT ![n] = <<>>]
    /\ up' = [up EXCEPT ![n] = TRUE]
    /\ newest' = [newest EXCEPT ![n] = [m \in Nodes |-> NoConn]]
    /\ told' = [told EXCEPT ![n] = [m \in Nodes |-> FALSE]]
    /\ UNCHANGED <<peer, dialled, sent, got>>

-----------------------------------------------------------------------------
SendStep(s) ==
    \/ Pick(s)
    \/ Connected(s)
    \/ ConnectFails(s)
    \/ Write(s)

ReaderStep(n, c) ==
    \/ \E f \in Frame : ReadSingle(n, c, f) \/ ReadBatch(n, c, f)
    \/ FanIn(n, c)
    \/ ReaderEnds(n, c)

Handshake(n, c) == Accept(n, c) \/ AcceptFails(n, c)

Fault(n) ==
    \/ \E m \in Nodes : CloseConnection(n, m)
    \/ \E c \in Conns : Breaks(n, c)
    \/ Shutdown(n)
    \/ Restart(n)

Progress ==
    \/ \E s \in Senders : SendStep(s)
    \/ \E n \in Nodes, c \in Conns :
          ReaderStep(n, c) \/ Handshake(n, c) \/ WatchFires(n, c) \/ HearsClose(n, c)

Next ==
    \/ Progress
    \/ \E s \in Senders, m \in Nodes : \E kind \in Kinds[s] : Send(s, m, kind)
    \/ \E n \in Nodes : Fault(n)

Spec == Init /\ [][Next]_vars

-----------------------------------------------------------------------------
(* A death is news of the newest connection: it is never reported while    *)
(* the connection n came by last is open, so that a report does not outrun *)
(* the reconnection (lib.rs 131-168).                                      *)
ReportsAreCurrent ==
    [][\A n, m \in Nodes :
          deaths'[n] = Append(deaths[n], m) =>
              newest[n][m] # NoConn /\ Ended(newest[n][m], n)]_vars

(* No death is swallowed: when the newest connection to m has gone by m's  *)
(* doing, its death has been reported or its watch is still to run, however *)
(* many older ones were suppressed.                                        *)
NoDeathIsSwallowed ==
    \A n, m \in Nodes :
        LET c == newest[n][m]
        IN c # NoConn /\ side[c][n] = "lost" => told[n][m] \/ c \in watching[n]

(* Only a peer that hung up, went down or was cut off is reported dead,    *)
(* never one whose connection merely was replaced or closed by n itself.   *)
OnlyTheGoneAreReported ==
    \A n \in Nodes : \A i \in DOMAIN deaths[n] : deaths[n][i] \in hurt[n]

(* No frame reaches the router twice, although a send is tried twice: one  *)
(* that may have got through is not sent again.                            *)
AtMostOnce ==
    \A n \in Nodes, c, d \in Conns :
        \A i \in DOMAIN wire[n][c], j \in DOMAIN wire[n][d] :
            /\ wire[n][c][i] \notin got[n]
            /\ wire[n][c][i] = wire[n][d][j] => c = d /\ i = j

(* A cached connection is one with that peer and has its watch, so that it *)
(* will not stay cached once it is dead.                                   *)
CachedIsWatched ==
    \A n, m \in Nodes :
        cache[n][m] # NoConn => peer[cache[n][m]][n] = m /\ cache[n][m] \in watching[n]

(* No frame is orphaned: whichever side dialled the connection, what is on *)
(* its way has a reader to come to, or an end still to be accepted.        *)
FramesHaveReaders ==
    \A n \in Nodes, c \in Conns :
        wire[n][c] # <<>> => c \in reading[n] \/ side[c][n] = "coming"
=============================================================================
