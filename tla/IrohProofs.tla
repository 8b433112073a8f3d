----------------------------- MODULE IrohProofs -----------------------------
(***************************************************************************)
(* The Iroh transport reports deaths, and reads frames, as its runs check, *)
(* for any endpoints, senders, address books and bounds.                   *)
(*                                                                         *)
(* None of the properties is inductive alone.  Whether a death is reported *)
(* is decided by the cache, so IrohInv says what the cache tells of the    *)
(* newest connection (CacheInv) and which tasks sit on which ends          *)
(* (TasksInv); whose death it is is decided by the ends naming each other  *)
(* (Paired), and that it is a death at all by what the other end has done  *)
(* before (HurtInv).  OnceInv, for the frames, says that what is on the    *)
(* wire or has been read bears the number of a send that is over, and that *)
(* of each send one frame at most is on the wire.                          *)
(***************************************************************************)
EXTENDS IrohNet, SequenceTheorems, TLAPS

-----------------------------------------------------------------------------
(* Frames and jobs                                                         *)

LEMMA FrameFacts ==
    /\ \A s \in Senders, k \in {"single", "batch"}, i \in 1 .. Sends :
          [by |-> s, nr |-> i, is |-> k] \in Frame
    /\ \A f \in Frame : Receipt(f) \in Frame
  BY DEF Frame, Receipt

LEMMA JobFacts ==
    /\ Resting \in Job
    /\ \A m \in Nodes, f \in Frame, i \in 0 .. 1 : Picking(m, f, i) \in Job
    /\ \A j \in Job : j.do # "rest" => j.to \in Nodes /\ j.frame \in Frame /\ j.attempt \in 0 .. 1
    /\ \A j \in Job : j.do = "pick" => Dialing(j) \in Job
    /\ \A j \in Job, c \in Conns : j.do # "rest" => Writing(j, c) \in Job
    /\ \A j \in Job : j.do = "write" => j.on \in Conns
  <1>1. Resting \in Job
    BY DEF Job
  <1>2. \A m \in Nodes, f \in Frame, i \in 0 .. 1 : Picking(m, f, i) \in Job
    BY DEF Job, Picking
  <1>3. ASSUME NEW j \in Job, j.do # "rest"
        PROVE  j.to \in Nodes /\ j.frame \in Frame /\ j.attempt \in 0 .. 1
    BY <1>3 DEF Job, Resting
  <1>4. ASSUME NEW j \in Job, j.do = "pick" PROVE Dialing(j) \in Job
    <2>1. j \in [do : {"pick", "dial"}, to : Nodes, frame : Frame, attempt : 0 .. 1]
      BY <1>4 DEF Job, Resting
    <2>2. QED BY <2>1 DEF Job, Dialing
  <1>5. ASSUME NEW j \in Job, NEW c \in Conns, j.do # "rest" PROVE Writing(j, c) \in Job
    BY <1>3, <1>5 DEF Job, Writing
  <1>6. ASSUME NEW j \in Job, j.do = "write" PROVE j.on \in Conns
    BY <1>6 DEF Job, Resting
  <1>7. QED
    BY <1>1, <1>2, <1>3, <1>4, <1>5, <1>6

LEMMA AppendType ==
    \A S : \A q \in Seq(S), x \in S : Append(q, x) \in Seq(S)
  BY AppendProperties

-----------------------------------------------------------------------------
(* Types: one lemma per action.                                            *)

LEMMA InitType == Init => IrohTypeOK
  BY BoundsAreNumbers DEF Init, IrohTypeOK, SideState, Job, Resting, Conns, NoConn

LEMMA SendType ==
    ASSUME IrohTypeOK, NEW s \in Senders, NEW m \in Nodes, NEW kind \in Kinds[s],
           Send(s, m, kind)
    PROVE  IrohTypeOK'
  <1> DEFINE f == [by |-> s, nr |-> sent[s] + 1, is |-> kind]
  <1>1. sent[s] \in 0 .. Sends /\ sent[s] < Sends /\ kind \in {"single", "batch"}
    BY FramesHaveKinds DEF Send, IrohTypeOK
  <1>2. sent[s] + 1 \in 1 .. Sends
    BY <1>1, BoundsAreNumbers
  <1>3. Picking(m, f, 0) \in Job
    BY <1>1, <1>2, FrameFacts, JobFacts
  <1>4. job' \in [Senders -> Job]
    BY <1>3 DEF Send, Becomes, IrohTypeOK
  <1>5. sent' \in [Senders -> 0 .. Sends]
    BY <1>1, <1>2, BoundsAreNumbers DEF Send, IrohTypeOK
  <1>6. QED
    BY <1>4, <1>5 DEF Send, IrohTypeOK, conns, tasks, history

LEMMA PickType ==
    ASSUME IrohTypeOK, NEW s \in Senders, Pick(s)
    PROVE  IrohTypeOK'
  <1> DEFINE n == HomeOf[s]
             j == job[s]
             c == cache[n][j.to]
  <1>1. j \in Job /\ j.do = "pick" /\ n \in Nodes /\ j.to \in Nodes
    BY SendersHaveHomes, JobFacts DEF Pick, IrohTypeOK
  <1>2. c # NoConn => Writing(j, c) \in Job
    BY <1>1, JobFacts DEF IrohTypeOK
  <1>3. job' \in [Senders -> Job]
    BY <1>1, <1>2, JobFacts DEF Pick, Becomes, IrohTypeOK
  <1>4. QED
    BY <1>3 DEF Pick, IrohTypeOK, conns, tasks, history

LEMMA ServedType ==
    ASSUME IrohTypeOK, NEW n \in Nodes, NEW m \in Nodes, NEW c \in Conns, Served(n, m, c)
    PROVE  /\ cache' \in [Nodes -> [Nodes -> Conns \cup {NoConn}]]
           /\ reading' \in [Nodes -> SUBSET Conns]
           /\ watching' \in [Nodes -> SUBSET Conns]
           /\ newest' \in [Nodes -> [Nodes -> Conns \cup {NoConn}]]
           /\ told' \in [Nodes -> [Nodes -> BOOLEAN]]
  BY DEF Served, IrohTypeOK

LEMMA ConnectedType ==
    ASSUME IrohTypeOK, NEW s \in Senders, Connected(s)
    PROVE  IrohTypeOK'
  <1> DEFINE n == HomeOf[s]
             m == job[s].to
             c == dialled + 1
  <1>1. job[s] \in Job /\ n \in Nodes /\ m \in Nodes /\ c \in Conns
    BY SendersHaveHomes, JobFacts, BoundsAreNumbers DEF Connected, IrohTypeOK, Conns
  <1>2. Writing(job[s], c) \in Job
    BY <1>1, JobFacts DEF Connected
  <1>3. job' \in [Senders -> Job]
    BY <1>2 DEF Connected, Becomes, IrohTypeOK
  <1>4. side' \in [Conns -> [Nodes -> SideState]]
    BY <1>1 DEF Connected, IrohTypeOK, SideState
  <1>5. peer' \in [Conns -> [Nodes -> Nodes \cup {None}]]
    BY <1>1 DEF Connected, IrohTypeOK
  <1>6. dialled' \in 0 .. MaxConns
    BY BoundsAreNumbers DEF Connected, IrohTypeOK
  <1>7. Served(n, m, c)
    BY DEF Connected
  <1>8. /\ cache' \in [Nodes -> [Nodes -> Conns \cup {NoConn}]]
        /\ reading' \in [Nodes -> SUBSET Conns]
        /\ watching' \in [Nodes -> SUBSET Conns]
        /\ newest' \in [Nodes -> [Nodes -> Conns \cup {NoConn}]]
        /\ told' \in [Nodes -> [Nodes -> BOOLEAN]]
    BY <1>1, <1>7, ServedType
  <1>9. QED
    BY <1>3, <1>4, <1>5, <1>6, <1>8 DEF Connected, IrohTypeOK

LEMMA ConnectFailsType ==
    ASSUME IrohTypeOK, NEW s \in Senders, ConnectFails(s)
    PROVE  IrohTypeOK'
  BY DEF ConnectFails, IrohTypeOK, Job, Becomes, Resting, conns, tasks, history

LEMMA WriteType ==
    ASSUME IrohTypeOK, NEW s \in Senders, Write(s)
    PROVE  IrohTypeOK'
  <1> DEFINE j == job[s]
             q == wire[j.to][j.on]
  <1>1. j \in Job /\ j.to \in Nodes /\ j.frame \in Frame /\ j.on \in Conns
    BY JobFacts DEF Write, IrohTypeOK
  <1>2. Resting \in Job /\ Picking(j.to, j.frame, 1) \in Job
    BY <1>1, JobFacts
  <1>3. job' = [job EXCEPT ![s] = Resting]
            \/ job' = [job EXCEPT ![s] = Picking(j.to, j.frame, 1)]
    BY DEF Write, Becomes
  <1>4. job' \in [Senders -> Job]
    BY <1>2, <1>3 DEF IrohTypeOK
  <1>5. q \in Seq(Frame) /\ Append(q, j.frame) \in Seq(Frame)
    BY <1>1, AppendType DEF IrohTypeOK
  <1>6. wire' = wire \/ wire' = [wire EXCEPT ![j.to][j.on] = q]
                    \/ wire' = [wire EXCEPT ![j.to][j.on] = Append(q, j.frame)]
    BY DEF Write, Written
  <1>7. wire' \in [Nodes -> [Conns -> Seq(Frame)]]
    <2>1. CASE wire' = wire
      BY <2>1 DEF IrohTypeOK
    <2>2. CASE wire' = [wire EXCEPT ![j.to][j.on] = q]
      BY <1>1, <1>5, <2>2 DEF IrohTypeOK
    <2>3. CASE wire' = [wire EXCEPT ![j.to][j.on] = Append(q, j.frame)]
      BY <1>1, <1>5, <2>3 DEF IrohTypeOK
    <2>4. QED
      BY <1>6, <2>1, <2>2, <2>3
  <1>8. QED
    BY <1>4, <1>7 DEF Write, IrohTypeOK, conns, tasks, history

LEMMA ReadSingleType ==
    ASSUME IrohTypeOK, NEW n \in Nodes, NEW c \in Conns, NEW f \in Frame,
           ReadSingle(n, c, f)
    PROVE  IrohTypeOK'
  BY DEF ReadSingle, Reads, IrohTypeOK, conns, tasks, history, sends

LEMMA ReadBatchType ==
    ASSUME IrohTypeOK, NEW n \in Nodes, NEW c \in Conns, NEW f \in Frame,
           peer[c][n] \in Nodes, ReadBatch(n, c, f)
    PROVE  IrohTypeOK'
  <1> DEFINE m == peer[c][n]
             rest == [wire EXCEPT ![n][c] = Tail(@)]
  <1>1. wire[n][c] \in Seq(Frame) /\ wire[n][c] # <<>>
    BY DEF ReadBatch, Reads, IrohTypeOK
  <1>2. Tail(wire[n][c]) \in Seq(Frame) /\ Receipt(f) \in Frame
    BY <1>1, FrameFacts, HeadTailProperties
  <1>3. rest \in [Nodes -> [Conns -> Seq(Frame)]]
    BY <1>2 DEF IrohTypeOK
  <1>4. Append(rest[m][c], Receipt(f)) \in Seq(Frame)
    BY <1>2, <1>3, AppendType
  <1>5. wire' = rest \/ wire' = [rest EXCEPT ![m][c] = Append(@, Receipt(f))]
    BY DEF ReadBatch
  <1>6. wire' \in [Nodes -> [Conns -> Seq(Frame)]]
    <2> HIDE DEF rest
    <2>1. CASE wire' = rest
      BY <1>3, <2>1
    <2>2. CASE wire' = [rest EXCEPT ![m][c] = Append(@, Receipt(f))]
      BY <1>3, <1>4, <2>2
    <2>3. QED
      BY <1>5, <2>1, <2>2
  <1>7. QED
    BY <1>6 DEF ReadBatch, IrohTypeOK, conns, history, sends

LEMMA FanInType ==
    ASSUME IrohTypeOK, NEW n \in Nodes, NEW c \in Conns, FanIn(n, c)
    PROVE  IrohTypeOK'
  BY DEF FanIn, Reads, IrohTypeOK, conns, tasks, history, sends

LEMMA ReaderEndsType ==
    ASSUME IrohTypeOK, NEW n \in Nodes, NEW c \in Conns, ReaderEnds(n, c)
    PROVE  IrohTypeOK'
  BY DEF ReaderEnds, Reads, IrohTypeOK, conns, tasks, history, sends

LEMMA AcceptType ==
    ASSUME IrohTypeOK, NEW n \in Nodes, NEW c \in Conns, peer[c][n] \in Nodes,
           Accept(n, c)
    PROVE  IrohTypeOK'
  BY DEF Accept, Served, IrohTypeOK, conns, tasks, history, sends, SideState

LEMMA AcceptFailsType ==
    ASSUME IrohTypeOK, NEW n \in Nodes, NEW c \in Conns, AcceptFails(n, c)
    PROVE  IrohTypeOK'
  BY DEF AcceptFails, IrohTypeOK, conns, tasks, history, sends, SideState

LEMMA WatchFiresType ==
    ASSUME IrohTypeOK, NEW n \in Nodes, NEW c \in Conns, peer[c][n] \in Nodes,
           WatchFires(n, c)
    PROVE  IrohTypeOK'
  <1>1. deaths[n] \in Seq(Nodes) /\ Append(deaths[n], peer[c][n]) \in Seq(Nodes)
    BY AppendType DEF IrohTypeOK
  <1>2. \/ UNCHANGED <<deaths, told>>
        \/ ReportDeath(n, peer[c][n])
    BY DEF WatchFires
  <1>3. deaths' \in [Nodes -> Seq(Nodes)]
    BY <1>1, <1>2 DEF ReportDeath, IrohTypeOK
  <1>4. told' \in [Nodes -> [Nodes -> BOOLEAN]]
    <2>1. CASE told' = told
      BY <2>1 DEF IrohTypeOK
    <2>2. CASE told' = [told EXCEPT ![n][peer[c][n]] = TRUE]
      BY <2>2 DEF IrohTypeOK
    <2>3. QED
      BY <1>2, <2>1, <2>2 DEF ReportDeath
  <1>5. cache' \in [Nodes -> [Nodes -> Conns \cup {NoConn}]]
    BY DEF WatchFires, IrohTypeOK
  <1>6. QED
    BY <1>3, <1>4, <1>5 DEF WatchFires, IrohTypeOK, conns, sends

LEMMA HearsCloseType ==
    ASSUME IrohTypeOK, NEW n \in Nodes, NEW c \in Conns, HearsClose(n, c)
    PROVE  IrohTypeOK'
  BY DEF HearsClose, HungUp, IrohTypeOK, conns, tasks, history, sends, SideState

LEMMA CloseType ==
    ASSUME IrohTypeOK, NEW n \in Nodes, NEW m \in Nodes, CloseConnection(n, m)
    PROVE  IrohTypeOK'
  BY BoundsAreNumbers
     DEF CloseConnection, Strikes, HungUp, IrohTypeOK, conns, tasks, history,
         sends, SideState, NoConn

LEMMA BreaksType ==
    ASSUME IrohTypeOK, NEW n \in Nodes, NEW c \in Conns, peer[c][n] \in Nodes,
           Breaks(n, c)
    PROVE  IrohTypeOK'
  <1>1. side' \in [Conns -> [Nodes -> SideState]]
    BY DEF Breaks, HungUp, IrohTypeOK, SideState
  <1>2. hurt' \in [Nodes -> SUBSET Nodes]
    BY DEF Breaks, IrohTypeOK
  <1>3. faults' \in 0 .. MaxFaults
    BY BoundsAreNumbers DEF Breaks, Strikes, IrohTypeOK
  <1>4. QED
    BY <1>1, <1>2, <1>3 DEF Breaks, IrohTypeOK, tasks, sends

LEMMA ShutdownType ==
    ASSUME IrohTypeOK, NEW n \in Nodes, Shutdown(n)
    PROVE  IrohTypeOK'
  BY BoundsAreNumbers
     DEF Shutdown, Strikes, AllHungUp, LeavesAll, HungUp, IrohTypeOK, conns, tasks,
         history, sends, SideState, NoConn

LEMMA RestartType ==
    ASSUME IrohTypeOK, NEW n \in Nodes, Restart(n)
    PROVE  IrohTypeOK'
  BY BoundsAreNumbers
     DEF Restart, Strikes, AllHungUp, LeavesAll, HungUp, IrohTypeOK, conns, tasks,
         history, sends, SideState, NoConn, Job, Resting

-----------------------------------------------------------------------------
(* The two ends of a connection name each other.                           *)
Paired ==
    \A c \in Conns, n \in Nodes :
        /\ side[c][n] = "none" <=> peer[c][n] = None
        /\ c > dialled => side[c][n] = "none"
        /\ peer[c][n] # None => peer[c][n] # n /\ peer[c][peer[c][n]] = n

Held == {"open", "local", "lost"}

(* A task is on an end that has been established, and where a connection   *)
(* is watched there is a newest one.                                       *)
TasksInv ==
    \A n \in Nodes, c \in Conns :
        /\ c \in watching[n] => side[c][n] \in Held /\ newest[n][peer[c][n]] # NoConn
        /\ c \in reading[n] => side[c][n] \in Held
        /\ side[c][n] = "open" => c \in reading[n]

(* What is cached is the newest and is watched; if nothing is cached, the  *)
(* newest has ended.                                                       *)
CacheInv ==
    \A n, m \in Nodes :
        /\ newest[n][m] # NoConn =>
              peer[newest[n][m]][n] = m /\ side[newest[n][m]][n] \in Held
        /\ cache[n][m] # NoConn =>
              cache[n][m] = newest[n][m] /\ cache[n][m] \in watching[n]
        /\ cache[n][m] = NoConn /\ newest[n][m] # NoConn => Ended(newest[n][m], n)

(* Who has lost a connection, or is about to hear that it closed, has been *)
(* wronged by the peer or the network.                                     *)
HurtInv ==
    \A n \in Nodes, c \in Conns :
        \/ side[c][n] = "lost"
        \/ side[c][n] \in {"open", "coming"} /\ Ended(c, peer[c][n])
        => peer[c][n] \in hurt[n]

(* A send under way has somebody else's connection in hand.                *)
JobInv ==
    \A s \in Senders :
        /\ job[s].do # "rest" => job[s].to # HomeOf[s]
        /\ job[s].do = "write" => peer[job[s].on][HomeOf[s]] = job[s].to

IrohInv ==
    /\ IrohTypeOK
    /\ Paired /\ TasksInv /\ CacheInv /\ HurtInv /\ JobInv
    /\ NoDeathIsSwallowed /\ OnlyTheGoneAreReported /\ FramesHaveReaders

(* Each action keeps IrohInv; so does Next, and so does stuttering.        *)

LEMMA InitInv == Init => IrohInv
  BY InitType, NoneIsNoNode
     DEF Init, IrohInv, Paired, TasksInv, CacheInv, HurtInv, JobInv, Ended,
         NoDeathIsSwallowed, OnlyTheGoneAreReported, FramesHaveReaders, NoConn, Conns, Resting

(* What a step that leaves the ends, their tasks and the deaths alone keeps. *)
LEMMA LinksKept ==
    ASSUME IrohInv,
           UNCHANGED <<conns, cache, watching, newest, told, deaths, hurt>>
    PROVE  /\ Paired' /\ CacheInv' /\ HurtInv'
           /\ NoDeathIsSwallowed' /\ OnlyTheGoneAreReported'
           /\ reading' = reading => TasksInv'
  BY DEF IrohInv, conns, Paired, TasksInv, CacheInv, HurtInv, Ended,
         NoDeathIsSwallowed, OnlyTheGoneAreReported

LEMMA PeerIsNode ==
    ASSUME IrohInv, NEW c \in Conns, NEW n \in Nodes, side[c][n] # "none"
    PROVE  peer[c][n] \in Nodes /\ peer[c][n] # n /\ peer[c][peer[c][n]] = n
  BY DEF IrohInv, IrohTypeOK, Paired

-----------------------------------------------------------------------------
(* Steps that leave the connections as they are.                           *)

LEMMA SendInv ==
    ASSUME IrohInv, NEW s \in Senders, NEW m \in Nodes, NEW kind \in Kinds[s],
           Send(s, m, kind)
    PROVE  IrohInv'
  <1>1. IrohTypeOK'
    BY SendType DEF IrohInv
  <1>2. UNCHANGED <<conns, cache, tasks, wire, deaths, history>>
    BY DEF Send
  <1>3. JobInv'
    BY <1>2 DEF Send, IrohInv, IrohTypeOK, JobInv, Becomes, Picking, conns
  <1>4. FramesHaveReaders'
    BY <1>2 DEF IrohInv, FramesHaveReaders, conns, tasks
  <1>5. QED
    BY <1>1, <1>2, <1>3, <1>4, LinksKept DEF IrohInv, tasks, history

LEMMA PickInv ==
    ASSUME IrohInv, NEW s \in Senders, Pick(s)
    PROVE  IrohInv'
  <1> DEFINE n == HomeOf[s]
             j == job[s]
             c == cache[n][j.to]
  <1>1. IrohTypeOK'
    BY PickType DEF IrohInv
  <1>2. UNCHANGED <<conns, cache, tasks, wire, deaths, history>>
    BY DEF Pick
  <1>3. j \in Job /\ j.do = "pick" /\ n \in Nodes /\ j.to \in Nodes /\ j.to # n
    BY SendersHaveHomes, JobFacts DEF Pick, IrohInv, IrohTypeOK, JobInv
  <1>4. c # NoConn => peer[c][n] = j.to
    BY <1>3 DEF IrohInv, CacheInv
  <1>5. \/ c # NoConn /\ job' = [job EXCEPT ![s] = Writing(j, c)]
        \/ job' = [job EXCEPT ![s] = Dialing(j)]
        \/ job' = [job EXCEPT ![s] = Resting]
    BY DEF Pick, Becomes
  <1>6. Dialing(j).do = "dial" /\ Dialing(j).to = j.to
    BY <1>3 DEF Dialing, Job, Resting
  <1>7. JobInv'
    <2>1. CASE c # NoConn /\ job' = [job EXCEPT ![s] = Writing(j, c)]
      BY <1>2, <1>3, <1>4, <2>1 DEF IrohInv, IrohTypeOK, JobInv, Writing, conns
    <2>2. CASE job' = [job EXCEPT ![s] = Dialing(j)]
      BY <1>2, <1>3, <1>6, <2>2 DEF IrohInv, IrohTypeOK, JobInv, conns
    <2>3. CASE job' = [job EXCEPT ![s] = Resting]
      BY <1>2, <2>3 DEF IrohInv, IrohTypeOK, JobInv, Resting, conns
    <2>4. QED
      BY <1>5, <2>1, <2>2, <2>3
  <1>8. FramesHaveReaders'
    BY <1>2 DEF IrohInv, FramesHaveReaders, conns, tasks
  <1>9. QED
    BY <1>1, <1>2, <1>7, <1>8, LinksKept DEF IrohInv, tasks, history

LEMMA ConnectFailsInv ==
    ASSUME IrohInv, NEW s \in Senders, ConnectFails(s)
    PROVE  IrohInv'
  <1>1. IrohTypeOK'
    BY ConnectFailsType DEF IrohInv
  <1>2. UNCHANGED <<conns, cache, tasks, wire, deaths, history>>
    BY DEF ConnectFails
  <1>3. JobInv'
    BY <1>2 DEF ConnectFails, IrohInv, IrohTypeOK, JobInv, Becomes, Resting, conns
  <1>4. FramesHaveReaders'
    BY <1>2 DEF IrohInv, FramesHaveReaders, conns, tasks
  <1>5. QED
    BY <1>1, <1>2, <1>3, <1>4, LinksKept DEF IrohInv, tasks, history

(* An end that has not ended is still to be accepted, or has its reader.   *)
LEMMA LiveEndTakes ==
    ASSUME IrohInv, NEW c \in Conns, NEW m \in Nodes, peer[c][m] # None, ~Ended(c, m)
    PROVE  c \in reading[m] \/ side[c][m] = "coming"
  BY DEF IrohInv, IrohTypeOK, Paired, TasksInv, SideState, Ended

LEMMA WriteInv ==
    ASSUME IrohInv, NEW s \in Senders, Write(s)
    PROVE  IrohInv'
  <1> DEFINE n == HomeOf[s]
             j == job[s]
             c == j.on
             m == j.to
  <1>1. IrohTypeOK'
    BY WriteType DEF IrohInv
  <1>2. UNCHANGED <<conns, cache, tasks, deaths, history>>
    BY DEF Write
  <1>3. n \in Nodes /\ m \in Nodes /\ m # n /\ c \in Conns /\ peer[c][n] = m
    BY SendersHaveHomes, JobFacts DEF Write, IrohInv, IrohTypeOK, JobInv
  <1>4. job' = [job EXCEPT ![s] = Resting]
            \/ job' = [job EXCEPT ![s] = Picking(j.to, j.frame, 1)]
    BY DEF Write, Becomes
  <1>5. JobInv'
    <2>1. CASE job' = [job EXCEPT ![s] = Resting]
      BY <1>2, <2>1 DEF IrohInv, IrohTypeOK, JobInv, Resting, conns
    <2>2. CASE job' = [job EXCEPT ![s] = Picking(j.to, j.frame, 1)]
      BY <1>2, <1>3, <2>2 DEF IrohInv, IrohTypeOK, JobInv, Picking, conns
    <2>3. QED
      BY <1>4, <2>1, <2>2
  <1>6. peer[c][m] # None
    BY <1>3, NoneIsNoNode DEF IrohInv, Paired
  <1>7. \/ wire' = wire
        \/ wire' = [wire EXCEPT ![m][c] = @]
        \/ ~Ended(c, m) /\ wire' = [wire EXCEPT ![m][c] = Append(@, j.frame)]
    <2>1. CASE Ended(c, n) \/ Ended(c, m)
      BY <2>1 DEF Write, Written
    <2>2. CASE ~Ended(c, n) /\ ~Ended(c, m)
      BY <2>2 DEF Write, Written
    <2>3. QED
      BY <2>1, <2>2
  <1>8. FramesHaveReaders'
    <2>1. CASE wire' = wire
      BY <1>2, <2>1 DEF IrohInv, FramesHaveReaders, conns, tasks
    <2>2. CASE ~Ended(c, m) /\ wire' = [wire EXCEPT ![m][c] = Append(@, j.frame)]
      <3>1. c \in reading[m] \/ side[c][m] = "coming"
        BY <1>3, <1>6, <2>2, LiveEndTakes
      <3>2. QED
        BY <1>2, <1>3, <2>2, <3>1
           DEF IrohInv, IrohTypeOK, FramesHaveReaders, conns, tasks
    <2>3. CASE wire' = [wire EXCEPT ![m][c] = @]
      BY <1>2, <1>3, <2>3 DEF IrohInv, IrohTypeOK, FramesHaveReaders, conns, tasks
    <2>4. QED
      BY <1>7, <2>1, <2>2, <2>3
  <1>9. QED
    BY <1>1, <1>2, <1>5, <1>8, LinksKept DEF IrohInv, tasks, history

LEMMA ReadSingleInv ==
    ASSUME IrohInv, NEW n \in Nodes, NEW c \in Conns, NEW f \in Frame,
           ReadSingle(n, c, f)
    PROVE  IrohInv'
  <1>1. IrohTypeOK'
    BY ReadSingleType DEF IrohInv
  <1>2. UNCHANGED <<conns, cache, tasks, sends, deaths, history>>
    BY DEF ReadSingle
  <1>3. JobInv'
    BY <1>2 DEF IrohInv, JobInv, conns, sends
  <1>4. FramesHaveReaders'
    BY <1>2 DEF ReadSingle, Reads, IrohInv, IrohTypeOK, FramesHaveReaders, conns, tasks
  <1>5. QED
    BY <1>1, <1>2, <1>3, <1>4, LinksKept DEF IrohInv, tasks, history

LEMMA ReadBatchInv ==
    ASSUME IrohInv, NEW n \in Nodes, NEW c \in Conns, NEW f \in Frame,
           ReadBatch(n, c, f)
    PROVE  IrohInv'
  <1> DEFINE m == peer[c][n]
             rest == [wire EXCEPT ![n][c] = Tail(@)]
  <1>1. c \in reading[n] /\ side[c][n] \in Held
    BY DEF ReadBatch, Reads, IrohInv, TasksInv
  <1>2. m \in Nodes /\ peer[c][m] = n
    BY <1>1, PeerIsNode DEF Held
  <1>3. IrohTypeOK'
    BY <1>2, ReadBatchType DEF IrohInv
  <1>4. UNCHANGED <<conns, cache, watching, reading, sends, deaths, history>>
    BY DEF ReadBatch
  <1>5. JobInv'
    BY <1>4 DEF IrohInv, JobInv, conns, sends
  <1>6. ~Ended(c, m) => c \in reading[m] \/ side[c][m] = "coming"
    BY <1>2, NoneIsNoNode, LiveEndTakes
  <1>7. FramesHaveReaders'
    BY <1>1, <1>2, <1>4, <1>6
       DEF ReadBatch, IrohInv, IrohTypeOK, FramesHaveReaders, conns
  <1>8. QED
    BY <1>3, <1>4, <1>5, <1>7, LinksKept DEF IrohInv, history

LEMMA FanInInv ==
    ASSUME IrohInv, NEW n \in Nodes, NEW c \in Conns, FanIn(n, c)
    PROVE  IrohInv'
  <1>1. IrohTypeOK'
    BY FanInType DEF IrohInv
  <1>2. UNCHANGED <<conns, cache, watching, reading, wire, sends, deaths, history>>
    BY DEF FanIn
  <1>3. JobInv' /\ FramesHaveReaders'
    BY <1>2 DEF IrohInv, JobInv, FramesHaveReaders, conns, sends
  <1>4. QED
    BY <1>1, <1>2, <1>3, LinksKept DEF IrohInv, history

LEMMA ReaderEndsInv ==
    ASSUME IrohInv, NEW n \in Nodes, NEW c \in Conns, ReaderEnds(n, c)
    PROVE  IrohInv'
  <1>1. IrohTypeOK'
    BY ReaderEndsType DEF IrohInv
  <1>2. UNCHANGED <<conns, cache, watching, sends, deaths, history>>
    BY DEF ReaderEnds
  <1>3. JobInv'
    BY <1>2 DEF IrohInv, JobInv, conns, sends
  <1>4. FramesHaveReaders' /\ TasksInv'
    BY <1>2 DEF ReaderEnds, Ended, IrohInv, IrohTypeOK, FramesHaveReaders, TasksInv,
                conns, history
  <1>5. QED
    BY <1>1, <1>2, <1>3, <1>4, LinksKept DEF IrohInv, history

-----------------------------------------------------------------------------
(* Steps that establish, end or forget connections.                        *)

LEMMA AcceptInv ==
    ASSUME IrohInv, NEW n \in Nodes, NEW c \in Conns, Accept(n, c)
    PROVE  IrohInv'
  <1> DEFINE m == peer[c][n]
  <1>1. m \in Nodes /\ m # n /\ side[c][n] = "coming"
    BY PeerIsNode DEF Accept
  <1>2. IrohTypeOK'
    BY <1>1, AcceptType DEF IrohInv
  <1>3. UNCHANGED <<peer, dialled, wire, job, deaths, hurt>>
    BY DEF Accept, sends
  <1>4. /\ side' = [side EXCEPT ![c][n] = "open"]
        /\ cache' = [cache EXCEPT ![n][m] = c]
        /\ reading' = [reading EXCEPT ![n] = @ \cup {c}]
        /\ watching' = [watching EXCEPT ![n] = @ \cup {c}]
        /\ newest' = [newest EXCEPT ![n][m] = c]
        /\ told' = [told EXCEPT ![n][m] = FALSE]
    BY DEF Accept, Served
  <1>5. c # NoConn
    BY DEF Conns, NoConn
  <1>6. Paired'
    BY <1>1, <1>3, <1>4 DEF IrohInv, IrohTypeOK, Paired
  <1>7. TasksInv'
    BY <1>1, <1>3, <1>4, <1>5 DEF IrohInv, IrohTypeOK, TasksInv, Held
  <1>8. CacheInv'
    BY <1>1, <1>3, <1>4, <1>5 DEF IrohInv, IrohTypeOK, CacheInv, Held, Ended
  <1>9. HurtInv'
    BY <1>1, <1>3, <1>4 DEF IrohInv, IrohTypeOK, HurtInv, Ended
  <1>10. NoDeathIsSwallowed'
    BY <1>1, <1>3, <1>4 DEF IrohInv, IrohTypeOK, NoDeathIsSwallowed
  <1>11. FramesHaveReaders' /\ OnlyTheGoneAreReported' /\ JobInv'
    BY <1>1, <1>3, <1>4
       DEF IrohInv, IrohTypeOK, FramesHaveReaders, OnlyTheGoneAreReported, JobInv
  <1>12. QED
    BY <1>2, <1>6, <1>7, <1>8, <1>9, <1>10, <1>11 DEF IrohInv

LEMMA AcceptFailsInv ==
    ASSUME IrohInv, NEW n \in Nodes, NEW c \in Conns, AcceptFails(n, c)
    PROVE  IrohInv'
  <1>1. side[c][n] = "coming" /\ Ended(c, peer[c][n]) /\ peer[c][n] \in Nodes
    BY PeerIsNode DEF AcceptFails
  <1>2. IrohTypeOK'
    BY AcceptFailsType DEF IrohInv
  <1>3. UNCHANGED <<peer, dialled, cache, watching, reading, job, deaths, hurt, newest, told>>
    BY DEF AcceptFails, sends, tasks, history
  <1>4. /\ side' = [side EXCEPT ![c][n] = "lost"]
        /\ wire' = [wire EXCEPT ![n][c] = <<>>]
    BY DEF AcceptFails
  <1>5. \A d \in Conns, k \in Nodes :
           side'[d][k] = IF d = c /\ k = n THEN "lost" ELSE side[d][k]
    <2>1. side \in [Conns -> [Nodes -> SideState]]
      BY DEF IrohInv, IrohTypeOK
    <2>2. QED
      BY <1>4, <2>1
  <1>6. Paired'
    BY <1>1, <1>3, <1>4 DEF IrohInv, IrohTypeOK, Paired
  <1>7. TasksInv'
    BY <1>1, <1>3, <1>4 DEF IrohInv, IrohTypeOK, TasksInv, Held
  <1>8. CacheInv'
    BY <1>1, <1>3, <1>4 DEF IrohInv, IrohTypeOK, CacheInv, Held, Ended
  <1>9. HurtInv'
    <2>1. peer[c][n] \in hurt[n]
      BY <1>1 DEF IrohInv, HurtInv
    <2>2. \A k \in Nodes, d \in Conns :
             /\ side'[d][k] = "lost" => side[d][k] = "lost" \/ (d = c /\ k = n)
             /\ side'[d][k] \in {"open", "coming"} => side[d][k] \in {"open", "coming"}
      BY <1>5
    <2>3. ASSUME NEW k \in Nodes, NEW d \in Conns,
                 side'[d][k] \in {"open", "coming"}, Ended(d, peer[d][k])'
          PROVE  Ended(d, peer[d][k])
      <3>1. side[d][k] # "none" /\ peer[d][k] \in Nodes /\ peer[d][peer[d][k]] = k
        BY <2>2, <2>3, PeerIsNode
      <3>2. ~(d = c /\ peer[d][k] = n)
        BY <1>1, <1>4, <2>2, <2>3, <3>1 DEF Ended, IrohInv, IrohTypeOK
      <3>3. QED
        BY <1>3, <1>4, <2>3, <3>1, <3>2 DEF Ended, IrohInv, IrohTypeOK
    <2>4. QED
      BY <1>3, <2>1, <2>2, <2>3 DEF IrohInv, HurtInv
  <1>10. NoDeathIsSwallowed'
    <2>1. ASSUME NEW k \in Nodes, NEW m \in Nodes, newest[k][m] # NoConn
          PROVE  side'[newest[k][m]][k] = side[newest[k][m]][k]
      <3>1. newest[k][m] \in Conns /\ side[newest[k][m]][k] \in Held
        BY <2>1 DEF IrohInv, IrohTypeOK, CacheInv
      <3>2. QED
        BY <1>1, <1>5, <3>1 DEF Held
    <2>2. QED
      BY <1>3, <2>1 DEF IrohInv, NoDeathIsSwallowed
  <1>11. FramesHaveReaders' /\ OnlyTheGoneAreReported' /\ JobInv'
    BY <1>1, <1>3, <1>4
       DEF IrohInv, IrohTypeOK, FramesHaveReaders, OnlyTheGoneAreReported, JobInv
  <1>12. QED
    BY <1>2, <1>6, <1>7, <1>8, <1>9, <1>10, <1>11 DEF IrohInv

(* The newest connection, when open, is the cached one and watched.        *)
LEMMA OpenNewestIsWatched ==
    ASSUME IrohInv, NEW n \in Nodes, NEW m \in Nodes,
           newest[n][m] # NoConn, side[newest[n][m]][n] = "open"
    PROVE  cache[n][m] = newest[n][m] /\ newest[n][m] \in watching[n]
  BY DEF IrohInv, CacheInv, Ended

(* An open end is lost, with a peer that has done the node wrong.          *)
LEMMA EndIsLost ==
    ASSUME IrohInv, NEW n \in Nodes, NEW c \in Conns, IrohTypeOK',
           side[c][n] = "open", side' = [side EXCEPT ![c][n] = "lost"],
           peer[c][n] \in hurt'[n],
           Ended(c, peer[c][n]) \/ n \in hurt'[peer[c][n]],
           \A m \in Nodes : hurt[m] \subseteq hurt'[m],
           UNCHANGED <<peer, dialled, cache, tasks, wire, sends, deaths, newest, told>>
    PROVE  IrohInv'
  <1>1. peer[c][n] \in Nodes
    BY PeerIsNode
  <1>6. Paired'
    BY <1>1 DEF IrohInv, IrohTypeOK, Paired
  <1>7. TasksInv'
    BY <1>1 DEF IrohInv, IrohTypeOK, TasksInv, Held, tasks
  <1>8. CacheInv'
    BY <1>1 DEF IrohInv, IrohTypeOK, CacheInv, Held, Ended, tasks
  <1>9. HurtInv'
    BY <1>1 DEF IrohInv, IrohTypeOK, HurtInv, Paired, Ended
  <1>10. NoDeathIsSwallowed'
    <2> SUFFICES ASSUME NEW k \in Nodes, NEW m \in Nodes,
                        newest[k][m] # NoConn, side'[newest[k][m]][k] = "lost"
                 PROVE  told[k][m] \/ newest[k][m] \in watching[k]
      BY DEF NoDeathIsSwallowed, tasks
    <2>1. newest[k][m] \in Conns
      BY DEF IrohInv, IrohTypeOK
    <2>2. CASE side[newest[k][m]][k] = "lost"
      BY <2>2 DEF IrohInv, NoDeathIsSwallowed
    <2>3. CASE side[newest[k][m]][k] # "lost"
      <3>1. newest[k][m] = c /\ k = n
        BY <2>1, <2>3 DEF IrohInv, IrohTypeOK
      <3>2. QED
        BY <3>1, OpenNewestIsWatched
    <2>4. QED
      BY <2>2, <2>3
  <1>11. FramesHaveReaders' /\ OnlyTheGoneAreReported' /\ JobInv'
    BY <1>1 DEF IrohInv, IrohTypeOK, FramesHaveReaders, OnlyTheGoneAreReported, JobInv,
                tasks, sends
  <1>12. QED
    BY <1>6, <1>7, <1>8, <1>9, <1>10, <1>11 DEF IrohInv

LEMMA HearsCloseInv ==
    ASSUME IrohInv, NEW n \in Nodes, NEW c \in Conns, HearsClose(n, c)
    PROVE  IrohInv'
  <1>1. IrohTypeOK'
    BY HearsCloseType DEF IrohInv
  <1>2. side' = [side EXCEPT ![c][n] = "lost"]
    BY DEF HearsClose, HungUp, IrohInv, IrohTypeOK
  <1>3. peer[c][n] \in hurt[n]
    BY DEF HearsClose, IrohInv, HurtInv
  <1>4. QED
    BY <1>1, <1>2, <1>3, EndIsLost DEF HearsClose, history

LEMMA BreaksInv ==
    ASSUME IrohInv, NEW n \in Nodes, NEW c \in Conns, Breaks(n, c)
    PROVE  IrohInv'
  <1> DEFINE m == peer[c][n]
  <1>1. m \in Nodes /\ m # n
    BY PeerIsNode DEF Breaks
  <1>2. IrohTypeOK'
    BY <1>1, BreaksType DEF IrohInv
  <1>3. side' = [side EXCEPT ![c][n] = "lost"]
    BY DEF Breaks, HungUp, IrohInv, IrohTypeOK
  <1>4. m \in hurt'[n] /\ n \in hurt'[m] /\ \A k \in Nodes : hurt[k] \subseteq hurt'[k]
    BY <1>1 DEF Breaks, IrohInv, IrohTypeOK
  <1>5. QED
    BY <1>2, <1>3, <1>4, EndIsLost DEF Breaks

(* A connection that nobody has dialled yet has no end in use.             *)
LEMMA FreshConn ==
    ASSUME IrohInv, NEW c \in Conns, c > dialled
    PROVE  /\ \A n \in Nodes : side[c][n] = "none" /\ peer[c][n] = None
           /\ \A n \in Nodes : c \notin watching[n] /\ c \notin reading[n]
           /\ \A n, m \in Nodes : newest[n][m] # c
  <1>1. ASSUME NEW n \in Nodes
        PROVE  side[c][n] = "none" /\ peer[c][n] = None
    BY DEF IrohInv, Paired
  <1>2. ASSUME NEW n \in Nodes
        PROVE  c \notin watching[n] /\ c \notin reading[n]
    BY <1>1 DEF IrohInv, TasksInv, Held
  <1>3. ASSUME NEW n \in Nodes, NEW m \in Nodes
        PROVE  newest[n][m] # c
    BY <1>1 DEF IrohInv, CacheInv, Held, Conns, NoConn
  <1>4. QED
    BY <1>1, <1>2, <1>3

LEMMA ConnectedInv ==
    ASSUME IrohInv, NEW s \in Senders, Connected(s)
    PROVE  IrohInv'
  <1> DEFINE n == HomeOf[s]
             m == job[s].to
             c == dialled + 1
  <1>1. n \in Nodes /\ m \in Nodes /\ m # n /\ job[s] \in Job /\ job[s].do = "dial"
    BY SendersHaveHomes, JobFacts DEF Connected, IrohInv, IrohTypeOK, JobInv
  <1>2. c \in Conns /\ c > dialled /\ c # NoConn
    BY BoundsAreNumbers DEF Connected, IrohInv, IrohTypeOK, Conns, NoConn
  <1>3. IrohTypeOK'
    BY ConnectedType DEF IrohInv
  <1>4. UNCHANGED <<wire, deaths, hurt>> /\ dialled' = c
    BY DEF Connected
  <1>5. \A d \in Conns, k \in Nodes :
           /\ side'[d][k] = IF d # c THEN side[d][k]
                            ELSE IF k = n THEN "open" ELSE IF k = m THEN "coming" ELSE side[d][k]
           /\ peer'[d][k] = IF d # c THEN peer[d][k]
                            ELSE IF k = n THEN m ELSE IF k = m THEN n ELSE peer[d][k]
    BY <1>1, <1>2 DEF Connected, IrohInv, IrohTypeOK
  <1>6. /\ cache' = [cache EXCEPT ![n][m] = c]
        /\ reading' = [reading EXCEPT ![n] = @ \cup {c}]
        /\ watching' = [watching EXCEPT ![n] = @ \cup {c}]
        /\ newest' = [newest EXCEPT ![n][m] = c]
        /\ told' = [told EXCEPT ![n][m] = FALSE]
    BY DEF Connected, Served
  <1>7. /\ \A k \in Nodes : side[c][k] = "none" /\ peer[c][k] = None
        /\ \A k \in Nodes : c \notin watching[k] /\ c \notin reading[k]
        /\ \A k, l \in Nodes : newest[k][l] # c
    BY <1>2, FreshConn
  <1>8. Paired'
    <2> SUFFICES ASSUME NEW d \in Conns, NEW k \in Nodes
                 PROVE  /\ (side[d][k] = "none")' <=> (peer[d][k] = None)'
                        /\ d > c => (side[d][k])' = "none"
                        /\ (peer[d][k])' # None =>
                              (peer[d][k])' # k /\ (peer[d][peer[d][k]])' = k
      BY <1>4 DEF Paired
    <2>1. CASE d = c
      <3>1. CASE k = n
        BY <1>1, <1>5, <2>1, <3>1, NoneIsNoNode DEF Conns
      <3>2. CASE k = m
        BY <1>1, <1>5, <2>1, <3>2, NoneIsNoNode DEF Conns
      <3>3. CASE k # n /\ k # m
        BY <1>5, <1>7, <2>1, <3>3 DEF Conns
      <3>4. QED
        BY <3>1, <3>2, <3>3
    <2>2. CASE d # c
      <3>1. d > c => d > dialled
        BY <1>2 DEF IrohInv, IrohTypeOK, Conns
      <3>2. peer[d][k] # None => peer[d][k] \in Nodes
        BY DEF IrohInv, IrohTypeOK
      <3>3. QED
        BY <1>5, <2>2, <3>1, <3>2 DEF IrohInv, Paired
    <2>3. QED
      BY <2>1, <2>2
  <1>9. TasksInv'
    <2> SUFFICES ASSUME NEW k \in Nodes, NEW d \in Conns
                 PROVE  /\ d \in watching'[k] =>
                              side'[d][k] \in Held /\ newest'[k][peer'[d][k]] # NoConn
                        /\ d \in reading'[k] => side'[d][k] \in Held
                        /\ side'[d][k] = "open" => d \in reading'[k]
      BY DEF TasksInv
    <2>1. CASE d = c
      <3>1. CASE k = n
        <4>1. c \in reading'[n] /\ newest'[n][m] = c
          BY <1>1, <1>6 DEF IrohInv, IrohTypeOK
        <4>2. QED
          BY <1>1, <1>2, <1>5, <2>1, <3>1, <4>1 DEF Held
      <3>2. CASE k # n
        <4>1. c \notin watching'[k] /\ c \notin reading'[k]
          BY <1>6, <1>7, <3>2 DEF IrohInv, IrohTypeOK
        <4>2. QED
          BY <1>2, <1>5, <1>7, <2>1, <3>2, <4>1
      <3>3. QED
        BY <3>1, <3>2
    <2>2. CASE d # c
      <3>1. side'[d][k] = side[d][k] /\ peer'[d][k] = peer[d][k]
        BY <1>5, <2>2
      <3>2. (d \in watching'[k] <=> d \in watching[k]) /\ (d \in reading'[k] <=> d \in reading[k])
        BY <1>1, <1>6, <2>2 DEF IrohInv, IrohTypeOK
      <3>3. d \in watching[k] => peer[d][k] \in Nodes /\ newest[k][peer[d][k]] # NoConn
        BY PeerIsNode DEF IrohInv, TasksInv, Held
      <3>4. d \in watching[k] => newest'[k][peer[d][k]] # NoConn
        BY <1>1, <1>2, <1>6, <3>3 DEF IrohInv, IrohTypeOK
      <3>5. QED
        BY <3>1, <3>2, <3>4 DEF IrohInv, TasksInv
    <2>3. QED
      BY <2>1, <2>2
  <1>10. CacheInv' /\ NoDeathIsSwallowed'
    <2> SUFFICES ASSUME NEW k \in Nodes, NEW l \in Nodes
                 PROVE  /\ newest'[k][l] # NoConn =>
                              /\ peer'[newest'[k][l]][k] = l
                              /\ side'[newest'[k][l]][k] \in Held
                        /\ cache'[k][l] # NoConn =>
                              cache'[k][l] = newest'[k][l] /\ cache'[k][l] \in watching'[k]
                        /\ cache'[k][l] = NoConn /\ newest'[k][l] # NoConn =>
                              Ended(newest[k][l], k)'
                        /\ newest'[k][l] # NoConn /\ side'[newest'[k][l]][k] = "lost" =>
                              told'[k][l] \/ newest'[k][l] \in watching'[k]
      BY DEF CacheInv, NoDeathIsSwallowed
    <2>1. CASE k = n /\ l = m
      <3>1. newest'[n][m] = c /\ cache'[n][m] = c /\ c \in watching'[n]
        BY <1>1, <1>6 DEF IrohInv, IrohTypeOK
      <3>2. side'[c][n] = "open" /\ peer'[c][n] = m
        BY <1>1, <1>2, <1>5
      <3>3. QED
        BY <1>2, <2>1, <3>1, <3>2 DEF Held
    <2>2. CASE ~(k = n /\ l = m)
      <3>1. /\ newest'[k][l] = newest[k][l] /\ cache'[k][l] = cache[k][l]
            /\ told'[k][l] = told[k][l] /\ watching[k] \subseteq watching'[k]
        BY <1>1, <1>6, <2>2 DEF IrohInv, IrohTypeOK
      <3>2. newest[k][l] # c /\ (newest[k][l] # NoConn => newest[k][l] \in Conns)
        BY <1>7 DEF IrohInv, IrohTypeOK
      <3>3. newest[k][l] # NoConn =>
               /\ side'[newest[k][l]][k] = side[newest[k][l]][k]
               /\ peer'[newest[k][l]][k] = peer[newest[k][l]][k]
        BY <1>5, <3>2
      <3>4. QED
        BY <3>1, <3>3 DEF IrohInv, CacheInv, NoDeathIsSwallowed, Ended
    <2>3. QED
      BY <2>1, <2>2
  <1>11. HurtInv'
    <2> SUFFICES ASSUME NEW k \in Nodes, NEW d \in Conns,
                        \/ side'[d][k] = "lost"
                        \/ side'[d][k] \in {"open", "coming"} /\ Ended(d, peer[d][k])'
                 PROVE  peer'[d][k] \in hurt[k]
      BY <1>4 DEF HurtInv
    <2>1. CASE d = c
      BY <1>1, <1>5, <1>7, <2>1 DEF Ended
    <2>2. CASE d # c
      <3>1. side[d][k] # "none" /\ side'[d][k] = side[d][k] /\ peer'[d][k] = peer[d][k]
        BY <1>5, <2>2
      <3>2. peer[d][k] \in Nodes
        BY <3>1, PeerIsNode
      <3>3. Ended(d, peer[d][k])' => Ended(d, peer[d][k])
        BY <1>5, <2>2, <3>1, <3>2 DEF Ended
      <3>4. QED
        BY <3>1, <3>3 DEF IrohInv, HurtInv
    <2>3. QED
      BY <2>1, <2>2
  <1>12. FramesHaveReaders' /\ OnlyTheGoneAreReported'
    <2>1. \A k \in Nodes, d \in Conns :
             /\ reading[k] \subseteq reading'[k]
             /\ side[d][k] = "coming" => side'[d][k] = "coming"
      BY <1>1, <1>5, <1>6, <1>7 DEF IrohInv, IrohTypeOK
    <2>2. QED
      BY <1>4, <2>1 DEF IrohInv, FramesHaveReaders, OnlyTheGoneAreReported
  <1>13. JobInv'
    <2> SUFFICES ASSUME NEW t \in Senders
                 PROVE  /\ job'[t].do # "rest" => job'[t].to # HomeOf[t]
                        /\ job'[t].do = "write" => peer'[job'[t].on][HomeOf[t]] = job'[t].to
      BY DEF JobInv
    <2>1. CASE t = s
      <3>1. job'[t] = Writing(job[s], c)
        BY <2>1 DEF Connected, Becomes, IrohInv, IrohTypeOK
      <3>2. peer'[c][n] = m
        BY <1>1, <1>2, <1>5
      <3>3. QED
        BY <1>1, <2>1, <3>1, <3>2 DEF Writing
    <2>2. CASE t # s
      <3>1. job'[t] = job[t] /\ job[t] \in Job /\ HomeOf[t] \in Nodes
        BY <2>2, SendersHaveHomes DEF Connected, Becomes, IrohInv, IrohTypeOK
      <3>2. job[t].do = "write" =>
               /\ job[t].on \in Conns /\ job[t].to \in Nodes
               /\ peer[job[t].on][HomeOf[t]] = job[t].to
        BY <3>1, JobFacts DEF IrohInv, JobInv
      <3>3. job[t].do = "write" => job[t].on # c
        BY <1>7, <3>1, <3>2, NoneIsNoNode
      <3>4. QED
        BY <1>5, <3>1, <3>2, <3>3 DEF IrohInv, JobInv
    <2>3. QED
      BY <2>1, <2>2
  <1>14. QED
    BY <1>3, <1>8, <1>9, <1>10, <1>11, <1>12, <1>13 DEF IrohInv

(* The watch of the newest connection finds it in the cache, or nothing.   *)
LEMMA NewestIsNotSuperseded ==
    ASSUME IrohInv, NEW n \in Nodes, NEW m \in Nodes, NEW c \in Conns, newest[n][m] = c
    PROVE  ~Superseded(n, m, c)
  BY DEF IrohInv, CacheInv, Superseded, NoConn, Conns

LEMMA WatchFiresInv ==
    ASSUME IrohInv, NEW n \in Nodes, NEW c \in Conns, WatchFires(n, c)
    PROVE  IrohInv'
  <1> DEFINE m == peer[c][n]
  <1>1. c \in watching[n] /\ Ended(c, n) /\ side[c][n] \in Held
    BY DEF WatchFires, IrohInv, TasksInv
  <1>2. m \in Nodes /\ c # NoConn
    BY <1>1, PeerIsNode DEF Held, Conns, NoConn
  <1>3. IrohTypeOK'
    BY <1>2, WatchFiresType DEF IrohInv
  <1>4. UNCHANGED <<side, peer, dialled, reading, wire, job, newest, hurt>>
    BY DEF WatchFires, conns, sends
  <1>5. /\ watching' = [watching EXCEPT ![n] = @ \ {c}]
        /\ cache' = [cache EXCEPT ![n][m] = IF @ = c THEN NoConn ELSE @]
        /\ IF ~Superseded(n, m, c) /\ side[c][n] = "lost"
           THEN ReportDeath(n, m) ELSE UNCHANGED <<deaths, told>>
    BY DEF WatchFires, PeersDoing
  <1>6. Paired' /\ HurtInv' /\ JobInv' /\ FramesHaveReaders'
    BY <1>4 DEF IrohInv, Paired, HurtInv, JobInv, FramesHaveReaders, Ended
  <1>7. TasksInv'
    BY <1>4, <1>5 DEF IrohInv, IrohTypeOK, TasksInv
  <1>8. CacheInv'
    <2> SUFFICES ASSUME NEW k \in Nodes, NEW l \in Nodes
                 PROVE  /\ cache'[k][l] # NoConn =>
                              cache'[k][l] = newest[k][l] /\ cache'[k][l] \in watching'[k]
                        /\ cache'[k][l] = NoConn /\ newest[k][l] # NoConn =>
                              Ended(newest[k][l], k)
      BY <1>4 DEF IrohInv, CacheInv, Ended
    <2>1. CASE k = n /\ l = m
      BY <1>1, <1>2, <1>5, <2>1 DEF IrohInv, IrohTypeOK, CacheInv
    <2>2. CASE ~(k = n /\ l = m)
      <3>1. cache'[k][l] = cache[k][l]
        BY <1>2, <1>5, <2>2 DEF IrohInv, IrohTypeOK
      <3>2. cache[k][l] # NoConn =>
               cache[k][l] \in watching[k] /\ cache[k][l] \in Conns
               /\ peer[cache[k][l]][k] = l
        BY DEF IrohInv, IrohTypeOK, CacheInv
      <3>3. cache[k][l] # NoConn => cache[k][l] \in watching'[k]
        BY <1>5, <2>2, <3>2 DEF IrohInv, IrohTypeOK
      <3>4. QED
        BY <3>1, <3>3 DEF IrohInv, CacheInv
    <2>3. QED
      BY <2>1, <2>2
  <1>9. side[c][n] = "lost" => m \in hurt[n]
    BY DEF IrohInv, HurtInv
  <1>10. NoDeathIsSwallowed'
    <2> SUFFICES ASSUME NEW k \in Nodes, NEW l \in Nodes,
                        newest[k][l] # NoConn, side[newest[k][l]][k] = "lost"
                 PROVE  told'[k][l] \/ newest[k][l] \in watching'[k]
      BY <1>4 DEF NoDeathIsSwallowed
    <2>1. newest[k][l] \in Conns /\ peer[newest[k][l]][k] = l
      BY DEF IrohInv, IrohTypeOK, CacheInv
    <2>2. CASE newest[k][l] = c /\ k = n
      <3>1. l = m /\ ~Superseded(n, m, c)
        BY <1>2, <2>1, <2>2, NewestIsNotSuperseded
      <3>2. told' = [told EXCEPT ![n][m] = TRUE]
        BY <1>5, <2>2, <3>1 DEF ReportDeath
      <3>3. QED
        BY <1>2, <2>2, <3>1, <3>2 DEF IrohInv, IrohTypeOK
    <2>3. CASE ~(newest[k][l] = c /\ k = n)
      <3>1. newest[k][l] \in watching[k] => newest[k][l] \in watching'[k]
        BY <1>5, <2>3 DEF IrohInv, IrohTypeOK
      <3>2. told' = told \/ told' = [told EXCEPT ![n][m] = TRUE]
        BY <1>5 DEF ReportDeath
      <3>3. told[k][l] => told'[k][l]
        <4>1. CASE told' = told
          BY <4>1
        <4>2. CASE told' = [told EXCEPT ![n][m] = TRUE]
          BY <1>2, <4>2 DEF IrohInv, IrohTypeOK
        <4>3. QED
          BY <3>2, <4>1, <4>2
      <3>4. QED
        BY <3>1, <3>3 DEF IrohInv, NoDeathIsSwallowed
    <2>4. QED
      BY <2>2, <2>3
  <1>11. OnlyTheGoneAreReported'
    <2>1. CASE deaths' = deaths
      BY <1>4, <2>1 DEF IrohInv, OnlyTheGoneAreReported
    <2>2. CASE side[c][n] = "lost" /\ deaths' = [deaths EXCEPT ![n] = Append(@, m)]
      <3>1. ASSUME NEW i \in DOMAIN Append(deaths[n], m)
            PROVE  Append(deaths[n], m)[i] \in hurt[n]
        <4>1. deaths[n] \in Seq(Nodes)
          BY DEF IrohInv, IrohTypeOK
        <4>2. \A j \in DOMAIN deaths[n] : deaths[n][j] \in hurt[n]
          BY DEF IrohInv, OnlyTheGoneAreReported
        <4>3. QED
          BY <1>2, <1>9, <2>2, <4>1, <4>2, AppendProperties
      <3>2. QED
        BY <1>4, <2>2, <3>1 DEF IrohInv, IrohTypeOK, OnlyTheGoneAreReported
    <2>3. QED
      BY <1>5, <2>1, <2>2 DEF ReportDeath
  <1>12. QED
    BY <1>3, <1>6, <1>7, <1>8, <1>10, <1>11 DEF IrohInv

(* A node that closes some of its ends is remembered by their other ends.  *)
LEMMA EndsHungUp ==
    ASSUME IrohInv, NEW n \in Nodes, NEW D \in SUBSET Conns,
           \A d \in Conns, k \in Nodes :
              side'[d][k] = IF d \in D /\ k = n /\ side[d][k] \in {"open", "coming"}
                            THEN "local" ELSE side[d][k],
           UNCHANGED <<peer, dialled>>,
           \A k \in Nodes : hurt[k] \subseteq hurt'[k],
           \A d \in D : peer[d][n] \in Nodes => n \in hurt'[peer[d][n]]
    PROVE  /\ Paired' /\ HurtInv'
           /\ \A d \in Conns, k \in Nodes :
                 /\ side'[d][k] \in Held <=> side[d][k] \in Held
                          \/ (d \in D /\ k = n /\ side[d][k] = "coming")
                 /\ side'[d][k] = "lost" <=> side[d][k] = "lost"
                 /\ side'[d][k] = "open" => side[d][k] = "open"
                 /\ Ended(d, k) => Ended(d, k)'
  <1>1. Paired'
    BY DEF IrohInv, Paired
  <1>2. HurtInv'
    <2> SUFFICES ASSUME NEW k \in Nodes, NEW d \in Conns,
                        \/ side'[d][k] = "lost"
                        \/ side'[d][k] \in {"open", "coming"} /\ Ended(d, peer[d][k])'
                 PROVE  peer[d][k] \in hurt'[k]
      BY DEF HurtInv
    <2>1. CASE side'[d][k] = "lost"
      BY <2>1 DEF IrohInv, HurtInv
    <2>2. CASE side'[d][k] \in {"open", "coming"} /\ Ended(d, peer[d][k])'
      <3>1. side[d][k] \in {"open", "coming"} /\ side[d][k] # "none"
        BY <2>2
      <3>2. peer[d][k] \in Nodes /\ peer[d][peer[d][k]] = k
        BY <3>1, PeerIsNode
      <3>3. Ended(d, peer[d][k]) \/ (d \in D /\ peer[d][k] = n)
        BY <2>2, <3>2 DEF Ended
      <3>4. QED
        BY <3>1, <3>2, <3>3 DEF IrohInv, HurtInv
    <2>3. QED
      BY <2>1, <2>2
  <1>3. QED
    BY <1>1, <1>2 DEF Held, Ended

LEMMA CloseInv ==
    ASSUME IrohInv, NEW n \in Nodes, NEW m \in Nodes, CloseConnection(n, m)
    PROVE  IrohInv'
  <1> DEFINE c == cache[n][m]
             D == {c}
  <1>1. /\ c \in Conns /\ c = newest[n][m] /\ peer[c][n] = m
        /\ side[c][n] \in Held
    BY DEF CloseConnection, IrohInv, IrohTypeOK, CacheInv
  <1>2. IrohTypeOK'
    BY CloseType DEF IrohInv
  <1>3. /\ UNCHANGED <<peer, dialled, watching, reading, wire, job, deaths, newest, told>>
        /\ cache' = [cache EXCEPT ![n][m] = NoConn]
        /\ hurt' = [hurt EXCEPT ![m] = @ \cup {n}]
    BY DEF CloseConnection, tasks, sends
  <1>4. \A d \in Conns, k \in Nodes :
           side'[d][k] = IF d \in D /\ k = n /\ side[d][k] \in {"open", "coming"}
                         THEN "local" ELSE side[d][k]
    BY <1>1 DEF CloseConnection, HungUp, IrohInv, IrohTypeOK
  <1>5. /\ \A k \in Nodes : hurt[k] \subseteq hurt'[k]
        /\ D \in SUBSET Conns
        /\ \A d \in D : peer[d][n] \in Nodes => n \in hurt'[peer[d][n]]
    BY <1>1, <1>3 DEF IrohInv, IrohTypeOK
  <1> HIDE DEF D
  <1>6. /\ Paired' /\ HurtInv'
        /\ \A d \in Conns, k \in Nodes :
              /\ side'[d][k] \in Held <=> side[d][k] \in Held
                       \/ (d \in D /\ k = n /\ side[d][k] = "coming")
              /\ side'[d][k] = "lost" <=> side[d][k] = "lost"
              /\ side'[d][k] = "open" => side[d][k] = "open"
              /\ Ended(d, k) => Ended(d, k)'
    BY <1>3, <1>4, <1>5, EndsHungUp
  <1> USE DEF D
  <1>7. TasksInv'
    BY <1>3, <1>6 DEF IrohInv, TasksInv
  <1>8. CacheInv'
    <2> SUFFICES ASSUME NEW k \in Nodes, NEW l \in Nodes
                 PROVE  /\ newest[k][l] # NoConn =>
                              peer[newest[k][l]][k] = l /\ side'[newest[k][l]][k] \in Held
                        /\ cache'[k][l] # NoConn =>
                              cache'[k][l] = newest[k][l] /\ cache'[k][l] \in watching[k]
                        /\ cache'[k][l] = NoConn /\ newest[k][l] # NoConn =>
                              Ended(newest[k][l], k)'
      BY <1>3 DEF CacheInv
    <2>1. newest[k][l] # NoConn =>
             /\ newest[k][l] \in Conns
             /\ peer[newest[k][l]][k] = l /\ side'[newest[k][l]][k] \in Held
      BY <1>6 DEF IrohInv, IrohTypeOK, CacheInv
    <2>2. CASE k = n /\ l = m
      <3>1. cache'[k][l] = NoConn
        BY <1>3, <2>2 DEF IrohInv, IrohTypeOK
      <3>2. side'[newest[n][m]][n] \in {"local", "lost"}
        BY <1>1, <1>4 DEF Held
      <3>3. QED
        BY <1>3, <2>1, <2>2, <3>1, <3>2 DEF Ended
    <2>3. CASE ~(k = n /\ l = m)
      <3>1. cache'[k][l] = cache[k][l]
        BY <1>3, <2>3 DEF IrohInv, IrohTypeOK
      <3>2. QED
        BY <1>3, <1>6, <2>1, <3>1 DEF IrohInv, CacheInv, Ended
    <2>4. QED
      BY <2>2, <2>3
  <1>9. NoDeathIsSwallowed'
    BY <1>3, <1>6 DEF IrohInv, IrohTypeOK, NoDeathIsSwallowed
  <1>10. OnlyTheGoneAreReported' /\ JobInv'
    BY <1>3, <1>5 DEF IrohInv, IrohTypeOK, OnlyTheGoneAreReported, JobInv
  <1>11. FramesHaveReaders'
    BY <1>1, <1>3, <1>4 DEF IrohInv, FramesHaveReaders, Held
  <1>12. QED
    BY <1>2, <1>6, <1>7, <1>8, <1>9, <1>10, <1>11 DEF IrohInv

(* A node that goes closes all of its ends and leaves all of its peers.     *)
LEMMA AllEnds ==
    ASSUME IrohInv, NEW n \in Nodes, AllHungUp(n), LeavesAll(n)
    PROVE  /\ \A d \in Conns, k \in Nodes :
                 side'[d][k] = IF d \in Conns /\ k = n /\ side[d][k] \in {"open", "coming"}
                               THEN "local" ELSE side[d][k]
           /\ \A k \in Nodes : hurt[k] \subseteq hurt'[k]
           /\ \A d \in Conns : peer[d][n] \in Nodes => n \in hurt'[peer[d][n]]
  <1>1. \A d \in Conns, k \in Nodes :
           side'[d][k] = IF d \in Conns /\ k = n /\ side[d][k] \in {"open", "coming"}
                         THEN "local" ELSE side[d][k]
    BY DEF AllHungUp, HungUp, IrohInv, IrohTypeOK
  <1>2. \A k \in Nodes : hurt[k] \subseteq hurt'[k]
    BY DEF LeavesAll
  <1>3. \A d \in Conns : peer[d][n] \in Nodes => n \in hurt'[peer[d][n]]
    BY NoneIsNoNode DEF LeavesAll, IrohInv, Paired
  <1>4. QED
    BY <1>1, <1>2, <1>3

LEMMA ShutdownInv ==
    ASSUME IrohInv, NEW n \in Nodes, Shutdown(n)
    PROVE  IrohInv'
  <1>1. IrohTypeOK'
    BY ShutdownType DEF IrohInv
  <1>2. /\ UNCHANGED <<peer, dialled, cache, watching, reading, job, deaths, newest, told>>
        /\ AllHungUp(n) /\ LeavesAll(n)
    BY DEF Shutdown, tasks, sends
  <1>3. /\ \A d \in Conns, k \in Nodes :
              side'[d][k] = IF d \in Conns /\ k = n /\ side[d][k] \in {"open", "coming"}
                            THEN "local" ELSE side[d][k]
        /\ \A k \in Nodes : hurt[k] \subseteq hurt'[k]
        /\ \A d \in Conns : peer[d][n] \in Nodes => n \in hurt'[peer[d][n]]
    BY <1>2, AllEnds
  <1>4. /\ Paired' /\ HurtInv'
        /\ \A d \in Conns, k \in Nodes :
              /\ side'[d][k] \in Held <=> side[d][k] \in Held
                       \/ (d \in Conns /\ k = n /\ side[d][k] = "coming")
              /\ side'[d][k] = "lost" <=> side[d][k] = "lost"
              /\ side'[d][k] = "open" => side[d][k] = "open"
              /\ Ended(d, k) => Ended(d, k)'
    BY <1>2, <1>3, EndsHungUp
  <1>5. TasksInv'
    BY <1>2, <1>4 DEF IrohInv, TasksInv
  <1>6. CacheInv'
    BY <1>2, <1>4 DEF IrohInv, IrohTypeOK, CacheInv
  <1>7. NoDeathIsSwallowed'
    BY <1>2, <1>4 DEF IrohInv, IrohTypeOK, NoDeathIsSwallowed
  <1>8. OnlyTheGoneAreReported' /\ JobInv'
    BY <1>2, <1>3 DEF IrohInv, OnlyTheGoneAreReported, JobInv
  <1>9. FramesHaveReaders'
    <2> SUFFICES ASSUME NEW k \in Nodes, NEW d \in Conns, wire'[k][d] # <<>>
                 PROVE  d \in reading[k] \/ side'[d][k] = "coming"
      BY <1>2 DEF FramesHaveReaders
    <2>1. wire'[k][d] = IF k = n /\ side[d][n] = "coming" THEN <<>> ELSE wire[k][d]
      BY DEF Shutdown, IrohInv, IrohTypeOK
    <2>2. d \in reading[k] \/ side[d][k] = "coming"
      BY <2>1 DEF IrohInv, FramesHaveReaders
    <2>3. QED
      BY <1>3, <2>1, <2>2
  <1>10. QED
    BY <1>1, <1>4, <1>5, <1>6, <1>7, <1>8, <1>9 DEF IrohInv

(* A new process knows nothing: what it says holds for want of any task,   *)
(* connection or death, and its peers have been wronged.                   *)
LEMMA RestartInv ==
    ASSUME IrohInv, NEW n \in Nodes, Restart(n)
    PROVE  IrohInv'
  <1>1. IrohTypeOK'
    BY RestartType DEF IrohInv
  <1>2. UNCHANGED <<peer, dialled>> /\ AllHungUp(n) /\ LeavesAll(n)
    BY DEF Restart
  <1>3. /\ \A d \in Conns, k \in Nodes :
              side'[d][k] = IF d \in Conns /\ k = n /\ side[d][k] \in {"open", "coming"}
                            THEN "local" ELSE side[d][k]
        /\ \A k \in Nodes : hurt[k] \subseteq hurt'[k]
        /\ \A d \in Conns : peer[d][n] \in Nodes => n \in hurt'[peer[d][n]]
    BY <1>2, AllEnds
  <1>4. Paired' /\ HurtInv'
    BY <1>2, <1>3, EndsHungUp
  <1>5. /\ watching'[n] = {} /\ reading'[n] = {} /\ deaths'[n] = <<>>
        /\ \A m \in Nodes : cache'[n][m] = NoConn /\ newest'[n][m] = NoConn
        /\ \A c \in Conns : wire'[n][c] = <<>> /\ side'[c][n] # "open"
    BY <1>3 DEF Restart, IrohInv, IrohTypeOK
  <1>6. \A k \in Nodes \ {n} :
           /\ watching'[k] = watching[k] /\ reading'[k] = reading[k] /\ deaths'[k] = deaths[k]
           /\ cache'[k] = cache[k] /\ newest'[k] = newest[k] /\ told'[k] = told[k]
           /\ wire'[k] = wire[k]
           /\ \A c \in Conns : side'[c][k] = side[c][k]
    BY <1>3 DEF Restart, IrohInv, IrohTypeOK
  <1>7. TasksInv'
    <2> SUFFICES ASSUME NEW k \in Nodes, NEW c \in Conns
                 PROVE  /\ c \in watching'[k] =>
                              side'[c][k] \in Held /\ newest'[k][peer[c][k]] # NoConn
                        /\ c \in reading'[k] => side'[c][k] \in Held
                        /\ side'[c][k] = "open" => c \in reading'[k]
      BY <1>2 DEF TasksInv
    <2>1. QED
      BY <1>5, <1>6 DEF IrohInv, TasksInv
  <1>8. CacheInv' /\ NoDeathIsSwallowed'
    <2> SUFFICES ASSUME NEW k \in Nodes, NEW l \in Nodes
                 PROVE  /\ newest'[k][l] # NoConn =>
                              peer[newest'[k][l]][k] = l /\ side'[newest'[k][l]][k] \in Held
                        /\ cache'[k][l] # NoConn =>
                              cache'[k][l] = newest'[k][l] /\ cache'[k][l] \in watching'[k]
                        /\ cache'[k][l] = NoConn /\ newest'[k][l] # NoConn =>
                              Ended(newest[k][l], k)'
                        /\ newest'[k][l] # NoConn /\ side'[newest'[k][l]][k] = "lost" =>
                              told'[k][l] \/ newest'[k][l] \in watching'[k]
      BY <1>2 DEF CacheInv, NoDeathIsSwallowed
    <2>1. CASE k = n
      BY <1>5, <2>1
    <2>2. CASE k # n
      <3>1. newest[k][l] # NoConn => newest[k][l] \in Conns
        BY DEF IrohInv, IrohTypeOK
      <3>2. newest[k][l] # NoConn => side'[newest[k][l]][k] = side[newest[k][l]][k]
        BY <1>6, <2>2, <3>1
      <3>3. QED
        BY <1>6, <2>2, <3>2 DEF IrohInv, CacheInv, NoDeathIsSwallowed, Ended
    <2>3. QED
      BY <2>1, <2>2
  <1>9. FramesHaveReaders'
    BY <1>5, <1>6 DEF IrohInv, FramesHaveReaders
  <1>10. OnlyTheGoneAreReported'
    BY <1>3, <1>5, <1>6 DEF IrohInv, OnlyTheGoneAreReported
  <1>11. JobInv'
    BY <1>2 DEF Restart, IrohInv, IrohTypeOK, JobInv, Resting
  <1>12. QED
    BY <1>1, <1>4, <1>7, <1>8, <1>9, <1>10, <1>11 DEF IrohInv

-----------------------------------------------------------------------------
LEMMA StepInv == IrohInv /\ [Next]_vars => IrohInv'
  <1> SUFFICES ASSUME IrohInv, [Next]_vars PROVE IrohInv'
    OBVIOUS
  <1>1. ASSUME NEW s \in Senders, SendStep(s) PROVE IrohInv'
    BY <1>1, PickInv, ConnectedInv, ConnectFailsInv, WriteInv DEF SendStep
  <1>2. ASSUME NEW n \in Nodes, NEW c \in Conns, ReaderStep(n, c) PROVE IrohInv'
    BY <1>2, ReadSingleInv, ReadBatchInv, FanInInv, ReaderEndsInv DEF ReaderStep
  <1>3. ASSUME NEW n \in Nodes, NEW c \in Conns,
               Handshake(n, c) \/ WatchFires(n, c) \/ HearsClose(n, c)
        PROVE  IrohInv'
    BY <1>3, AcceptInv, AcceptFailsInv, WatchFiresInv, HearsCloseInv DEF Handshake
  <1>4. ASSUME NEW s \in Senders, NEW m \in Nodes, NEW kind \in Kinds[s], Send(s, m, kind)
        PROVE  IrohInv'
    BY <1>4, SendInv
  <1>5. ASSUME NEW n \in Nodes, Fault(n) PROVE IrohInv'
    BY <1>5, CloseInv, BreaksInv, ShutdownInv, RestartInv DEF Fault
  <1>6. ASSUME UNCHANGED vars PROVE IrohInv'
    <2>1. IrohTypeOK'
      BY <1>6 DEF IrohInv, IrohTypeOK, vars
    <2>2. JobInv' /\ FramesHaveReaders'
      BY <1>6 DEF IrohInv, JobInv, FramesHaveReaders, vars
    <2>3. QED
      BY <1>6, <2>1, <2>2, LinksKept DEF IrohInv, vars, conns
  <1>7. QED
    BY <1>1, <1>2, <1>3, <1>4, <1>5, <1>6 DEF Next, Progress

LEMMA IrohInvariant == Spec => []IrohInv
  BY InitInv, StepInv, PTL DEF Spec

-----------------------------------------------------------------------------
(* Type correctness, for any endpoints and bounds.                          *)
THEOREM IrohTypeCorrect == Spec => []IrohTypeOK
  <1>1. IrohInv => IrohTypeOK
    BY DEF IrohInv
  <1>2. QED
    BY <1>1, IrohInvariant, PTL

(* A newest connection gone by the peer's doing has been reported, or its  *)
(* watch is still to run: watch_connection suppresses no real death.       *)
THEOREM DeathsAreNotSwallowed == Spec => []NoDeathIsSwallowed
  <1>1. IrohInv => NoDeathIsSwallowed
    BY DEF IrohInv
  <1>2. QED
    BY <1>1, IrohInvariant, PTL

(* Whoever next_death reports has hung up, gone down or been cut off.       *)
THEOREM OnlyTheGoneReported == Spec => []OnlyTheGoneAreReported
  <1>1. IrohInv => OnlyTheGoneAreReported
    BY DEF IrohInv
  <1>2. QED
    BY <1>1, IrohInvariant, PTL

(* What connection_to takes from the cache is a connection with that peer, *)
(* and watched.                                                            *)
THEOREM CachedAlwaysWatched == Spec => []CachedIsWatched
  <1>1. IrohInv => CachedIsWatched
    BY DEF IrohInv, CacheInv, CachedIsWatched, IrohTypeOK
  <1>2. QED
    BY <1>1, IrohInvariant, PTL

(* A frame on its way has a reader to come to, whichever side dialled.     *)
THEOREM NoFrameOrphaned == Spec => []FramesHaveReaders
  <1>1. IrohInv => FramesHaveReaders
    BY DEF IrohInv
  <1>2. QED
    BY <1>1, IrohInvariant, PTL

(* What ReportsAreCurrent says of one step.                                *)
Current ==
    \A n, m \in Nodes :
        deaths'[n] = Append(deaths[n], m) =>
            newest[n][m] # NoConn /\ Ended(newest[n][m], n)

LEMMA StepCurrent == IrohInv /\ Next => Current
  <1> SUFFICES ASSUME IrohInv, Next, NEW n \in Nodes, NEW m \in Nodes,
                      deaths'[n] = Append(deaths[n], m)
               PROVE  newest[n][m] # NoConn /\ Ended(newest[n][m], n)
    BY DEF Current
  <1>1. deaths[n] \in Seq(Nodes) /\ deaths'[n] # deaths[n] /\ deaths'[n] # <<>>
    <2>1. deaths[n] \in Seq(Nodes)
      BY DEF IrohInv, IrohTypeOK
    <2>2. QED
      BY <2>1, AppendProperties
  <1>2. PICK k \in Nodes, c \in Conns : WatchFires(k, c)
    <2>1. ASSUME NEW k \in Nodes, Fault(k) PROVE FALSE
      <3>1. CASE Restart(k)
        BY <1>1, <3>1 DEF Restart, IrohInv, IrohTypeOK
      <3>2. CASE ~Restart(k)
        BY <1>1, <2>1, <3>2 DEF Fault, CloseConnection, Breaks, Shutdown
      <3>3. QED
        BY <3>1, <3>2
    <2>2. ASSUME NEW s \in Senders, SendStep(s) PROVE FALSE
      BY <1>1, <2>2 DEF SendStep, Pick, Connected, ConnectFails, Write
    <2>3. ASSUME NEW s \in Senders, NEW l \in Nodes, NEW kind \in Kinds[s], Send(s, l, kind)
          PROVE  FALSE
      BY <1>1, <2>3 DEF Send
    <2>4. ASSUME NEW k \in Nodes, NEW c \in Conns,
                 ReaderStep(k, c) \/ Handshake(k, c) \/ HearsClose(k, c)
          PROVE  FALSE
      BY <1>1, <2>4 DEF ReaderStep, ReadSingle, ReadBatch, FanIn, ReaderEnds,
                        Handshake, Accept, AcceptFails, HearsClose
    <2>5. QED
      BY <2>1, <2>2, <2>3, <2>4 DEF Next, Progress
  <1>3. c \in watching[k] /\ Ended(c, k) /\ side[c][k] \in Held
    BY <1>2 DEF WatchFires, IrohInv, TasksInv
  <1>4. peer[c][k] \in Nodes /\ newest[k][peer[c][k]] # NoConn
    BY <1>3, PeerIsNode DEF Held, IrohInv, TasksInv
  <1>5. ~Superseded(k, peer[c][k], c) /\ deaths' = [deaths EXCEPT ![k] = Append(@, peer[c][k])]
    BY <1>1, <1>2 DEF WatchFires, ReportDeath
  <1>6. n = k /\ m = peer[c][k]
    <2>1. n = k
      BY <1>1, <1>5 DEF IrohInv, IrohTypeOK
    <2>2. Append(deaths[n], m) = Append(deaths[n], peer[c][k])
      BY <1>5, <2>1 DEF IrohInv, IrohTypeOK
    <2>3. QED
      BY <1>1, <1>4, <2>1, <2>2, AppendProperties
  <1>7. cache[n][m] = NoConn \/ cache[n][m] = c
    BY <1>5, <1>6 DEF Superseded
  <1>8. QED
    BY <1>3, <1>4, <1>6, <1>7 DEF IrohInv, CacheInv, NoConn, Conns

(* No report is made while the newest connection is open.                  *)
THEOREM DeathsAreCurrent == Spec => ReportsAreCurrent
  <1>1. IrohInv /\ [Next]_vars => [Current]_vars
    BY StepCurrent
  <1>2. QED
    BY <1>1, IrohInvariant, PTL DEF Spec, ReportsAreCurrent, Current

-----------------------------------------------------------------------------
(* Frames arrive once.  Every frame of one send bears the sender and the   *)
(* number; until the send is over there is none.  Then one at most is on   *)
(* the wire: the frame itself, or its receipt once the batch was read.     *)

SameSend(f, g) == f.by = g.by /\ f.nr = g.nr

OnWire(w, g) ==
    \E n \in Nodes, c \in Conns : \E i \in DOMAIN w[n][c] : w[n][c][i] = g

(* At the router, or read and about to be fanned in. *)
Reached(g) ==
    \E n \in Nodes : g \in got[n] \/ \E c \in Conns : fanning[n][c] = g /\ g # None

SendIsOver(g) ==
    g.nr < sent[g.by] \/ (g.nr = sent[g.by] /\ job[g.by].do = "rest")

OneOfEachSend(w) ==
    \A n, m \in Nodes, c, d \in Conns : \A i \in DOMAIN w[n][c], j \in DOMAIN w[m][d] :
        SameSend(w[n][c][i], w[m][d][j]) => n = m /\ c = d /\ i = j

JobsBearNumbers ==
    \A s \in Senders : job[s].do # "rest" =>
        job[s].frame.by = s /\ job[s].frame.nr = sent[s] /\ job[s].frame.is # "receipt"

(* What is on its way although a frame of its send has been read can only  *)
(* be the receipt. *)
OnlyReceiptsFollow ==
    \A f, g \in Frame : OnWire(wire, f) /\ Reached(g) /\ SameSend(f, g) =>
        f.is = "receipt" /\ g.is # "receipt"

OnceInv ==
    /\ JobsBearNumbers
    /\ \A f \in Frame : OnWire(wire, f) \/ Reached(f) => SendIsOver(f)
    /\ OneOfEachSend(wire)
    /\ OnlyReceiptsFollow

Wires == [Nodes -> [Conns -> Seq(Frame)]]

(* Frames are lost, or read off, from the front. *)
Thinned(w, x) ==
    \A n \in Nodes, c \in Conns : \E k \in 0 .. 1 : \A i \in DOMAIN x[n][c] :
        i + k \in DOMAIN w[n][c] /\ x[n][c][i] = w[n][c][i + k]

LEMMA ThinnedWire ==
    ASSUME NEW w \in Wires, NEW x \in Wires, Thinned(w, x), OneOfEachSend(w)
    PROVE  OneOfEachSend(x) /\ \A g : OnWire(x, g) => OnWire(w, g)
  <1>1. ASSUME NEW n \in Nodes, NEW m \in Nodes, NEW c \in Conns, NEW d \in Conns,
               NEW i \in DOMAIN x[n][c], NEW j \in DOMAIN x[m][d],
               SameSend(x[n][c][i], x[m][d][j])
        PROVE  n = m /\ c = d /\ i = j
    <2>1. PICK k \in 0 .. 1 : \A a \in DOMAIN x[n][c] :
              a + k \in DOMAIN w[n][c] /\ x[n][c][a] = w[n][c][a + k]
      BY DEF Thinned
    <2>2. PICK l \in 0 .. 1 : \A a \in DOMAIN x[m][d] :
              a + l \in DOMAIN w[m][d] /\ x[m][d][a] = w[m][d][a + l]
      BY DEF Thinned
    <2>3. SameSend(w[n][c][i + k], w[m][d][j + l])
      BY <1>1, <2>1, <2>2
    <2>4. n = m /\ c = d /\ i + k = j + l
      BY <2>1, <2>2, <2>3 DEF OneOfEachSend
    <2>5. i \in Nat /\ j \in Nat
      <3>1. x[n][c] \in Seq(Frame) /\ x[m][d] \in Seq(Frame)
        BY DEF Wires
      <3>2. DOMAIN x[n][c] \subseteq Nat /\ DOMAIN x[m][d] \subseteq Nat
        BY <3>1, LenProperties
      <3>3. QED
        BY <3>2
    <2>6. CASE i = j
      BY <2>4, <2>6
    <2>7. CASE i # j
      <3>1. i + l \in DOMAIN w[n][c] /\ x[n][c][i] = w[n][c][i + l]
        BY <2>2, <2>4
      <3>2. j + k \in DOMAIN w[n][c] /\ x[n][c][j] = w[n][c][j + k]
        BY <2>1, <2>4
      <3>3. w[n][c][i + k] = w[n][c][i + l] /\ i + k \in DOMAIN w[n][c]
        BY <2>1, <3>1
      <3>4. SameSend(w[n][c][i + k], w[n][c][i + l])
        BY <3>3 DEF SameSend
      <3>5. i + k = i + l
        BY <3>1, <3>3, <3>4 DEF OneOfEachSend
      <3>6. QED
        BY <2>4, <2>5, <2>7, <3>5
    <2>8. QED
      BY <2>6, <2>7
  <1>2. ASSUME NEW g, OnWire(x, g) PROVE OnWire(w, g)
    BY <1>2 DEF OnWire, Thinned
  <1>3. QED
    BY <1>1, <1>2 DEF OneOfEachSend

LEMMA ReadWire ==
    ASSUME NEW w \in Wires, NEW n \in Nodes, NEW c \in Conns, w[n][c] # <<>>,
           OneOfEachSend(w)
    PROVE  LET x == [w EXCEPT ![n][c] = Tail(@)]
               f == Head(w[n][c])
           IN /\ x \in Wires /\ Thinned(w, x) /\ OnWire(w, f)
              /\ \A g \in Frame : OnWire(x, g) => ~SameSend(f, g)
  <1> DEFINE q == w[n][c]
             x == [w EXCEPT ![n][c] = Tail(@)]
  <1>1. q \in Seq(Frame)
    BY DEF Wires
  <1>2. /\ Tail(q) \in Seq(Frame) /\ Len(q) \in Nat /\ Len(q) # 0
        /\ DOMAIN Tail(q) = 1 .. Len(q) - 1 /\ DOMAIN q = 1 .. Len(q)
        /\ \A i \in 1 .. Len(q) - 1 : Tail(q)[i] = q[i + 1]
        /\ Head(q) = q[1]
    BY <1>1
  <1>3. /\ x \in Wires
        /\ x[n][c] = Tail(q)
        /\ \A m \in Nodes, d \in Conns : <<m, d>> # <<n, c>> => x[m][d] = w[m][d]
    BY <1>2 DEF Wires
  <1> HIDE DEF x
  <1>4. Thinned(w, x)
    <2> SUFFICES ASSUME NEW m \in Nodes, NEW d \in Conns
                 PROVE  \E k \in 0 .. 1 : \A i \in DOMAIN x[m][d] :
                            i + k \in DOMAIN w[m][d] /\ x[m][d][i] = w[m][d][i + k]
      BY DEF Thinned
    <2>1. CASE m = n /\ d = c
      <3>1. \A i \in DOMAIN x[m][d] : i + 1 \in DOMAIN w[m][d] /\ x[m][d][i] = w[m][d][i + 1]
        <4> SUFFICES ASSUME NEW i \in DOMAIN Tail(q)
                     PROVE  i + 1 \in DOMAIN q /\ Tail(q)[i] = q[i + 1]
          BY <1>3, <2>1
        <4>1. i \in 1 .. Len(q) - 1
          BY <1>2
        <4>2. i + 1 \in 1 .. Len(q)
          BY <1>2, <4>1
        <4>3. QED
          BY <1>2, <4>1, <4>2
      <3>2. QED
        BY <3>1
    <2>2. CASE ~(m = n /\ d = c)
      <3>1. x[m][d] = w[m][d] /\ w[m][d] \in Seq(Frame)
        BY <1>3, <2>2 DEF Wires
      <3>2. \A i \in DOMAIN w[m][d] : i \in Nat /\ i + 0 = i
        BY <3>1, LenProperties
      <3>3. QED
        BY <3>1, <3>2
    <2>3. QED
      BY <2>1, <2>2
  <1>5. 1 \in DOMAIN q /\ q[1] = Head(q)
    BY <1>2
  <1>6. OnWire(w, Head(q))
    BY <1>5 DEF OnWire
  <1>7. ASSUME NEW g \in Frame, OnWire(x, g), SameSend(Head(q), g) PROVE FALSE
    <2>1. PICK m \in Nodes, d \in Conns : \E i \in DOMAIN x[m][d] : x[m][d][i] = g
      BY <1>7 DEF OnWire
    <2>2. PICK i \in DOMAIN x[m][d] : x[m][d][i] = g
      BY <2>1
    <2>3. CASE m = n /\ d = c
      <3>1. i \in 1 .. Len(q) - 1 /\ i + 1 \in DOMAIN q /\ q[i + 1] = g
        <4>1. i \in 1 .. Len(q) - 1
          BY <1>2, <1>3, <2>3
        <4>2. i + 1 \in 1 .. Len(q)
          BY <1>2, <4>1
        <4>3. q[i + 1] = Tail(q)[i] /\ Tail(q)[i] = g
          BY <1>2, <1>3, <2>2, <2>3, <4>1
        <4>4. QED
          BY <1>2, <4>1, <4>2, <4>3
      <3>2. 1 = i + 1
        BY <1>5, <1>7, <3>1 DEF OneOfEachSend
      <3>3. QED
        BY <1>2, <3>1, <3>2
    <2>4. CASE ~(m = n /\ d = c)
      <3>1. i \in DOMAIN w[m][d] /\ w[m][d][i] = g
        BY <1>3, <2>2, <2>4
      <3>2. QED
        BY <1>5, <1>7, <2>4, <3>1 DEF OneOfEachSend
    <2>5. QED
      BY <2>3, <2>4
  <1>8. QED
    BY <1>3, <1>4, <1>6, <1>7 DEF x

LEMMA JoinedWire ==
    ASSUME NEW w \in Wires, NEW n \in Nodes, NEW c \in Conns, NEW f \in Frame,
           OneOfEachSend(w), \A g \in Frame : OnWire(w, g) => ~SameSend(f, g)
    PROVE  LET x == [w EXCEPT ![n][c] = Append(@, f)]
           IN /\ x \in Wires /\ OneOfEachSend(x)
              /\ \A g : OnWire(x, g) => OnWire(w, g) \/ g = f
  <1> DEFINE q == w[n][c]
             x == [w EXCEPT ![n][c] = Append(@, f)]
             New(m, d, i) == m = n /\ d = c /\ i = Len(q) + 1
  <1>1. q \in Seq(Frame)
    BY DEF Wires
  <1>2. /\ Append(q, f) \in Seq(Frame) /\ Len(q) \in Nat
        /\ DOMAIN Append(q, f) = 1 .. Len(q) + 1 /\ DOMAIN q = 1 .. Len(q)
        /\ \A i \in 1 .. Len(q) : Append(q, f)[i] = q[i]
        /\ Append(q, f)[Len(q) + 1] = f
    BY <1>1, AppendProperties
  <1>3. /\ x \in Wires
        /\ x[n][c] = Append(q, f)
        /\ \A m \in Nodes, d \in Conns : <<m, d>> # <<n, c>> => x[m][d] = w[m][d]
    BY <1>2 DEF Wires
  <1> HIDE DEF x
  <1>4. ASSUME NEW m \in Nodes, NEW d \in Conns, NEW i \in DOMAIN x[m][d]
        PROVE  \/ New(m, d, i) /\ x[m][d][i] = f
               \/ i \in DOMAIN w[m][d] /\ x[m][d][i] = w[m][d][i]
    <2>1. CASE m = n /\ d = c
      <3>1. x[m][d] = Append(q, f) /\ w[m][d] = q
        BY <1>3, <2>1
      <3>2. i \in 1 .. Len(q) + 1
        BY <1>2, <3>1
      <3>3. CASE i = Len(q) + 1
        BY <1>2, <2>1, <3>1, <3>3
      <3>4. CASE i # Len(q) + 1
        <4>1. i \in 1 .. Len(q)
          BY <1>2, <3>2, <3>4
        <4>2. QED
          BY <1>2, <3>1, <4>1
      <3>5. QED
        BY <3>3, <3>4
    <2>2. CASE ~(m = n /\ d = c)
      BY <1>3, <2>2
    <2>3. QED
      BY <2>1, <2>2
  <1>5. ASSUME NEW m \in Nodes, NEW d \in Conns, NEW i \in DOMAIN w[m][d]
        PROVE  w[m][d][i] \in Frame /\ ~SameSend(f, w[m][d][i]) /\ ~SameSend(w[m][d][i], f)
    <2>1. w[m][d] \in Seq(Frame)
      BY DEF Wires
    <2>2. w[m][d][i] \in Frame
      BY <2>1, ElementOfSeq, LenProperties
    <2>3. OnWire(w, w[m][d][i])
      BY DEF OnWire
    <2>4. QED
      BY <2>2, <2>3 DEF SameSend
  <1>6. OneOfEachSend(x)
    <2> SUFFICES ASSUME NEW m \in Nodes, NEW l \in Nodes, NEW d \in Conns, NEW e \in Conns,
                        NEW i \in DOMAIN x[m][d], NEW j \in DOMAIN x[l][e],
                        SameSend(x[m][d][i], x[l][e][j])
                 PROVE  m = l /\ d = e /\ i = j
      BY DEF OneOfEachSend
    <2>1. CASE New(m, d, i) /\ x[m][d][i] = f
      BY <1>4, <1>5, <2>1
    <2>2. CASE i \in DOMAIN w[m][d] /\ x[m][d][i] = w[m][d][i]
      <3>1. j \in DOMAIN w[l][e] /\ x[l][e][j] = w[l][e][j]
        BY <1>4, <1>5, <2>2
      <3>2. QED
        BY <2>2, <3>1 DEF OneOfEachSend
    <2>3. QED
      BY <1>4, <2>1, <2>2
  <1>7. ASSUME NEW g, OnWire(x, g), g # f PROVE OnWire(w, g)
    BY <1>4, <1>7 DEF OnWire
  <1>8. QED
    BY <1>3, <1>6, <1>7 DEF x

(* Steps that only lose frames, and end or repeat sends.                   *)
LEMMA LosingKeepsOnce ==
    ASSUME OnceInv, wire \in Wires, wire' \in Wires, sent' = sent, Thinned(wire, wire'),
           \A n \in Nodes : got'[n] = got[n],
           \A n \in Nodes, c \in Conns : fanning'[n][c] = None \/ fanning'[n][c] = fanning[n][c],
           \A s \in Senders : \/ job'[s].do = "rest"
                              \/ job[s].do # "rest" /\ job'[s].frame = job[s].frame
    PROVE  OnceInv'
  <1>1. OneOfEachSend(wire') /\ \A g : OnWire(wire', g) => OnWire(wire, g)
    BY ThinnedWire DEF OnceInv
  <1>2. ASSUME NEW g, Reached(g)' PROVE Reached(g)
    BY <1>2 DEF Reached
  <1>3. ASSUME NEW g \in Frame, SendIsOver(g) PROVE SendIsOver(g)'
    <2>1. g.by \in Senders
      BY DEF Frame
    <2>2. QED
      BY <1>3, <2>1 DEF SendIsOver
  <1>4. QED
    BY <1>1, <1>2, <1>3 DEF OnceInv, JobsBearNumbers, OnlyReceiptsFollow

LEMMA UnchangedIsThinned ==
    ASSUME NEW w \in Wires
    PROVE  Thinned(w, w)
  <1> SUFFICES ASSUME NEW n \in Nodes, NEW c \in Conns
               PROVE  \E k \in 0 .. 1 : \A i \in DOMAIN w[n][c] :
                          i + k \in DOMAIN w[n][c] /\ w[n][c][i] = w[n][c][i + k]
    BY DEF Thinned
  <1>1. w[n][c] \in Seq(Frame)
    BY DEF Wires
  <1>2. \A i \in DOMAIN w[n][c] : i + 0 = i
    BY <1>1, LenProperties
  <1>3. QED
    BY <1>2

LEMMA DroppedIsThinned ==
    ASSUME NEW w \in Wires, NEW x \in Wires,
           \A n \in Nodes, c \in Conns : x[n][c] = w[n][c] \/ x[n][c] = <<>>
    PROVE  Thinned(w, x)
  <1> SUFFICES ASSUME NEW n \in Nodes, NEW c \in Conns
               PROVE  \E k \in 0 .. 1 : \A i \in DOMAIN x[n][c] :
                          i + k \in DOMAIN w[n][c] /\ x[n][c][i] = w[n][c][i + k]
    BY DEF Thinned
  <1>1. CASE x[n][c] = w[n][c]
    BY <1>1, UnchangedIsThinned DEF Thinned
  <1>2. CASE x[n][c] = <<>>
    <2>1. DOMAIN x[n][c] = {}
      BY <1>2
    <2>2. QED
      BY <2>1
  <1>3. QED
    BY <1>1, <1>2

LEMMA LosingStep ==
    ASSUME IrohInv, OnceInv, IrohInv', sent' = sent,
           \A n \in Nodes, c \in Conns : wire'[n][c] = wire[n][c] \/ wire'[n][c] = <<>>,
           \A n \in Nodes : got'[n] = got[n],
           \A n \in Nodes, c \in Conns : fanning'[n][c] = None \/ fanning'[n][c] = fanning[n][c],
           \A s \in Senders : \/ job'[s].do = "rest"
                              \/ job[s].do # "rest" /\ job'[s].frame = job[s].frame
    PROVE  OnceInv'
  <1>1. wire \in Wires /\ wire' \in Wires
    BY DEF IrohInv, IrohTypeOK, Wires
  <1>2. Thinned(wire, wire')
    BY <1>1, DroppedIsThinned
  <1>3. QED
    BY <1>1, <1>2, LosingKeepsOnce

LEMMA SendOnce ==
    ASSUME IrohInv, OnceInv, NEW s \in Senders, NEW m \in Nodes, NEW kind \in Kinds[s],
           Send(s, m, kind)
    PROVE  OnceInv'
  <1> DEFINE f == [by |-> s, nr |-> sent[s] + 1, is |-> kind]
  <1>1. /\ sent[s] \in Nat /\ sent' = [sent EXCEPT ![s] = @ + 1]
        /\ job' = [job EXCEPT ![s] = Picking(m, f, 0)] /\ job[s].do = "rest"
        /\ UNCHANGED <<wire, fanning, got>>
    BY BoundsAreNumbers DEF Send, Becomes, IrohInv, IrohTypeOK, tasks, Resting
  <1>2. ASSUME NEW g \in Frame, SendIsOver(g) PROVE SendIsOver(g)'
    <2>1. g.by \in Senders /\ g.nr \in Nat
      BY BoundsAreNumbers DEF Frame
    <2>2. sent[g.by] \in Nat
      BY <2>1, BoundsAreNumbers DEF IrohInv, IrohTypeOK
    <2>3. CASE g.by = s
      <3>1. g.nr < sent[s] + 1 /\ sent'[s] = sent[s] + 1
        BY <1>1, <1>2, <2>1, <2>2, <2>3 DEF SendIsOver, IrohInv, IrohTypeOK
      <3>2. QED
        BY <2>3, <3>1 DEF SendIsOver
    <2>4. CASE g.by # s
      BY <1>1, <1>2, <2>1, <2>4 DEF SendIsOver, IrohInv, IrohTypeOK
    <2>5. QED
      BY <2>3, <2>4
  <1>3. kind # "receipt"
    BY FramesHaveKinds
  <1>4. JobsBearNumbers'
    BY <1>1, <1>3 DEF OnceInv, JobsBearNumbers, IrohInv, IrohTypeOK, Picking
  <1>5. OneOfEachSend(wire)' /\ OnlyReceiptsFollow' /\ \A g \in Frame : Reached(g)' => Reached(g)
    BY <1>1 DEF OnceInv, OnlyReceiptsFollow, OneOfEachSend, OnWire, Reached
  <1>6. \A g \in Frame : OnWire(wire, g)' => OnWire(wire, g)
    BY <1>1 DEF OnWire
  <1>7. QED
    BY <1>2, <1>4, <1>5, <1>6 DEF OnceInv

LEMMA WriteOnce ==
    ASSUME IrohInv, OnceInv, IrohInv', NEW s \in Senders, Write(s)
    PROVE  OnceInv'
  <1> DEFINE n == HomeOf[s]
             j == job[s]
             c == j.on
             m == j.to
             f == j.frame
  <1>1. c \in Conns /\ m \in Nodes /\ f \in Frame /\ j.do = "write"
    BY JobFacts DEF Write, IrohInv, IrohTypeOK
  <1>2. UNCHANGED <<sent, got, fanning>>
    BY DEF Write, tasks
  <1>3. CASE wire' = wire
    <2>1. job' = [job EXCEPT ![s] = Resting] \/ job' = [job EXCEPT ![s] = Picking(m, f, 1)]
      BY DEF Write, Becomes
    <2>2. \A t \in Senders : \/ job'[t].do = "rest"
                             \/ job[t].do # "rest" /\ job'[t].frame = job[t].frame
      <3>1. CASE job' = [job EXCEPT ![s] = Resting]
        BY <3>1 DEF Resting, IrohInv, IrohTypeOK, Job
      <3>2. CASE job' = [job EXCEPT ![s] = Picking(m, f, 1)]
        <4>1. Picking(m, f, 1).frame = f
          BY DEF Picking
        <4>2. QED
          BY <1>1, <3>2, <4>1 DEF IrohInv, IrohTypeOK
      <3>3. QED
        BY <2>1, <3>1, <3>2
    <2>3. QED
      BY <1>2, <1>3, <2>2, LosingStep
  <1>4. CASE wire' # wire
    <2>1. job' = [job EXCEPT ![s] = Resting] /\ wire' = [wire EXCEPT ![m][c] = Append(@, f)]
      <3>1. ~Ended(c, n)
        BY <1>4 DEF Write
      <3>2. Written(c, m, f) /\ Becomes(s, Resting)
        BY <3>1 DEF Write
      <3>3. ~Ended(c, m)
        <4>1. [wire EXCEPT ![m][c] = @] = wire
          BY <1>1 DEF IrohInv, IrohTypeOK
        <4>2. QED
          BY <1>4, <3>2, <4>1 DEF Written
      <3>4. QED
        BY <3>2, <3>3 DEF Written, Becomes
    <2>2. f.by = s /\ f.nr = sent[s] /\ f.is # "receipt" /\ sent[s] \in Nat
      BY <1>1, BoundsAreNumbers DEF OnceInv, JobsBearNumbers, IrohInv, IrohTypeOK
    <2>3. ASSUME NEW g \in Frame, OnWire(wire, g) \/ Reached(g) PROVE ~SameSend(f, g)
      BY <1>1, <2>2, <2>3 DEF OnceInv, SendIsOver, SameSend
    <2>4. /\ OneOfEachSend(wire')
          /\ \A g : OnWire(wire', g) => OnWire(wire, g) \/ g = f
      <3>1. wire \in Wires
        BY DEF IrohInv, IrohTypeOK, Wires
      <3>2. QED
        BY <1>1, <2>1, <2>3, <3>1, JoinedWire DEF OnceInv
    <2>5. \A g : Reached(g)' <=> Reached(g)
      BY <1>2 DEF Reached
    <2>6. JobsBearNumbers'
      BY <1>2, <2>1 DEF OnceInv, JobsBearNumbers, IrohInv, IrohTypeOK, Resting
    <2>7. OnlyReceiptsFollow'
      BY <2>3, <2>4, <2>5 DEF OnceInv, OnlyReceiptsFollow
    <2>8. ASSUME NEW g \in Frame, OnWire(wire, g)' \/ Reached(g)' PROVE SendIsOver(g)'
      <3>1. SendIsOver(g) \/ g = f
        BY <2>4, <2>5, <2>8 DEF OnceInv
      <3>2. g.by \in Senders /\ job'[s].do = "rest"
        BY <2>1 DEF Frame, IrohInv, IrohTypeOK, Resting
      <3>3. CASE SendIsOver(g)
        <4>1. g.by = s \/ job'[g.by] = job[g.by]
          BY <2>1, <3>2 DEF IrohInv, IrohTypeOK
        <4>2. QED
          BY <1>2, <3>2, <3>3, <4>1 DEF SendIsOver
      <3>4. CASE g = f
        BY <1>2, <2>2, <3>2, <3>4 DEF SendIsOver
      <3>5. QED
        BY <3>1, <3>3, <3>4
    <2>9. QED
      BY <2>4, <2>6, <2>7, <2>8 DEF OnceInv
  <1>5. QED
    BY <1>3, <1>4

LEMMA ReadSingleOnce ==
    ASSUME IrohInv, OnceInv, NEW n \in Nodes, NEW c \in Conns, NEW f \in Frame,
           ReadSingle(n, c, f)
    PROVE  OnceInv'
  <1> DEFINE x == [wire EXCEPT ![n][c] = Tail(@)]
  <1>1. /\ wire \in Wires /\ wire[n][c] # <<>> /\ Head(wire[n][c]) = f /\ wire' = x
        /\ UNCHANGED <<fanning, job, sent>> /\ got' = [got EXCEPT ![n] = @ \cup {f}]
    BY DEF ReadSingle, Reads, IrohInv, IrohTypeOK, Wires, tasks, sends
  <1>2. /\ x \in Wires /\ Thinned(wire, x) /\ OnWire(wire, f)
        /\ \A g \in Frame : OnWire(x, g) => ~SameSend(f, g)
    BY <1>1, ReadWire DEF OnceInv
  <1> HIDE DEF x
  <1>3. OneOfEachSend(x) /\ \A g : OnWire(x, g) => OnWire(wire, g)
    BY <1>1, <1>2, ThinnedWire DEF OnceInv
  <1>4. ASSUME NEW g, Reached(g)' PROVE Reached(g) \/ g = f
    BY <1>1, <1>4 DEF Reached, IrohInv, IrohTypeOK
  <1>5. \A g : SendIsOver(g)' <=> SendIsOver(g)
    BY <1>1 DEF SendIsOver
  <1>6. OnlyReceiptsFollow'
    <2> SUFFICES ASSUME NEW g \in Frame, NEW h \in Frame,
                        OnWire(x, g), Reached(h) \/ h = f, SameSend(g, h)
                 PROVE  g.is = "receipt" /\ h.is # "receipt"
      BY <1>1, <1>4 DEF OnlyReceiptsFollow
    <2>1. h # f
      BY <1>2 DEF SameSend
    <2>2. QED
      BY <1>3, <2>1 DEF OnceInv, OnlyReceiptsFollow
  <1>7. JobsBearNumbers'
    BY <1>1 DEF OnceInv, JobsBearNumbers
  <1>8. QED
    BY <1>1, <1>2, <1>3, <1>4, <1>5, <1>6, <1>7 DEF OnceInv

LEMMA ReadBatchOnce ==
    ASSUME IrohInv, OnceInv, NEW n \in Nodes, NEW c \in Conns, NEW f \in Frame,
           ReadBatch(n, c, f)
    PROVE  OnceInv'
  <1> DEFINE x == [wire EXCEPT ![n][c] = Tail(@)]
             m == peer[c][n]
             y == [x EXCEPT ![m][c] = Append(@, Receipt(f))]
  <1>1. /\ wire \in Wires /\ wire[n][c] # <<>> /\ Head(wire[n][c]) = f
        /\ UNCHANGED <<got, job, sent>> /\ fanning' = [fanning EXCEPT ![n][c] = f]
        /\ f.is = "batch" /\ c \in reading[n] /\ (wire' = x \/ wire' = y)
    BY DEF ReadBatch, Reads, IrohInv, IrohTypeOK, Wires, sends
  <1>2. /\ x \in Wires /\ Thinned(wire, x) /\ OnWire(wire, f)
        /\ \A g \in Frame : OnWire(x, g) => ~SameSend(f, g)
    BY <1>1, ReadWire DEF OnceInv
  <1> HIDE DEF x
  <1>3. OneOfEachSend(x) /\ \A g : OnWire(x, g) => OnWire(wire, g)
    BY <1>1, <1>2, ThinnedWire DEF OnceInv
  <1>4. m \in Nodes
    BY <1>1, PeerIsNode DEF IrohInv, TasksInv, Held
  <1>5. Receipt(f) \in Frame /\ Receipt(f).is = "receipt" /\ SameSend(f, Receipt(f))
    BY FrameFacts DEF Receipt, SameSend, Frame
  <1>6. /\ OneOfEachSend(y)
        /\ \A g : OnWire(y, g) => OnWire(x, g) \/ g = Receipt(f)
    <2>1. \A g \in Frame : OnWire(x, g) => ~SameSend(Receipt(f), g)
      BY <1>2, <1>5 DEF SameSend
    <2>2. QED
      BY <1>2, <1>3, <1>4, <1>5, <2>1, JoinedWire
  <1> HIDE DEF y
  <1>7. OneOfEachSend(wire') /\ \A g : OnWire(wire', g) => OnWire(x, g) \/ g = Receipt(f)
    BY <1>1, <1>3, <1>6
  <1>8. ASSUME NEW g, Reached(g)' PROVE Reached(g) \/ g = f
    BY <1>1, <1>8 DEF Reached, IrohInv, IrohTypeOK
  <1>9. \A g : SendIsOver(g)' <=> SendIsOver(g)
    BY <1>1 DEF SendIsOver
  <1>10. SendIsOver(f) /\ SendIsOver(Receipt(f))
    BY <1>2, <1>5 DEF OnceInv, SendIsOver, SameSend
  <1>11. OnlyReceiptsFollow'
    <2> SUFFICES ASSUME NEW g \in Frame, NEW h \in Frame,
                        OnWire(x, g) \/ g = Receipt(f), Reached(h) \/ h = f, SameSend(g, h)
                 PROVE  g.is = "receipt" /\ h.is # "receipt"
      BY <1>7, <1>8 DEF OnlyReceiptsFollow
    <2>1. CASE OnWire(x, g)
      <3>1. h # f
        BY <1>2, <2>1 DEF SameSend
      <3>2. QED
        BY <1>3, <2>1, <3>1 DEF OnceInv, OnlyReceiptsFollow
    <2>2. CASE g = Receipt(f)
      <3>1. ~Reached(h)
        <4>1. SameSend(f, h)
          BY <1>5, <2>2 DEF SameSend
        <4>2. QED
          BY <1>1, <1>2, <4>1 DEF OnceInv, OnlyReceiptsFollow
      <3>2. QED
        BY <1>1, <1>5, <2>2, <3>1
    <2>3. QED
      BY <2>1, <2>2
  <1>12. JobsBearNumbers'
    BY <1>1 DEF OnceInv, JobsBearNumbers
  <1>13. \A g \in Frame : OnWire(wire, g)' \/ Reached(g)' => SendIsOver(g)'
    BY <1>3, <1>7, <1>8, <1>9, <1>10 DEF OnceInv
  <1>14. QED
    BY <1>7, <1>11, <1>12, <1>13 DEF OnceInv

LEMMA FanInOnce ==
    ASSUME IrohInv, OnceInv, NEW n \in Nodes, NEW c \in Conns, FanIn(n, c)
    PROVE  OnceInv'
  <1>1. UNCHANGED <<wire, job, sent>>
    BY DEF FanIn, sends
  <1>2. ASSUME NEW g, Reached(g)' PROVE Reached(g)
    BY <1>2 DEF FanIn, Reached, IrohInv, IrohTypeOK
  <1>3. QED
    BY <1>1, <1>2 DEF OnceInv, JobsBearNumbers, OneOfEachSend, OnlyReceiptsFollow, OnWire,
                      SendIsOver

LEMMA InitOnce == Init => OnceInv
  <1> SUFFICES ASSUME Init PROVE OnceInv
    OBVIOUS
  <1>1. \A n \in Nodes, c \in Conns : wire[n][c] = <<>> /\ fanning[n][c] = None
    BY DEF Init
  <1>2. \A g : ~OnWire(wire, g) /\ ~Reached(g)
    <2>1. \A n \in Nodes, c \in Conns : DOMAIN wire[n][c] = {} /\ fanning[n][c] = None
      BY <1>1
    <2>2. \A n \in Nodes : got[n] = {}
      BY DEF Init
    <2>3. QED
      BY <2>1, <2>2 DEF OnWire, Reached
  <1>3. OneOfEachSend(wire)
    BY <1>1 DEF OneOfEachSend
  <1>4. JobsBearNumbers
    BY DEF Init, JobsBearNumbers, Resting
  <1>5. QED
    BY <1>2, <1>3, <1>4 DEF OnceInv, OnlyReceiptsFollow

LEMMA StepOnce == IrohInv /\ OnceInv /\ [Next]_vars => OnceInv'
  <1> SUFFICES ASSUME IrohInv, OnceInv, [Next]_vars PROVE OnceInv'
    OBVIOUS
  <1>1. IrohInv'
    BY StepInv
  <1>2. ASSUME NEW s \in Senders, SendStep(s) PROVE OnceInv'
    <2>1. CASE Write(s)
      BY <1>1, <2>1, WriteOnce
    <2>2. CASE ~Write(s)
      <3>1. UNCHANGED <<wire, sent, got, fanning>>
        BY <1>2, <2>2 DEF SendStep, Pick, Connected, ConnectFails, tasks
      <3>2. /\ job[s].do # "rest"
            /\ \/ job' = [job EXCEPT ![s] = Resting]
               \/ \E c : job' = [job EXCEPT ![s] = Writing(job[s], c)]
               \/ job' = [job EXCEPT ![s] = Dialing(job[s])]
        BY <1>2, <2>2 DEF SendStep, Pick, Connected, ConnectFails, Becomes
      <3>3. CASE job' = [job EXCEPT ![s] = Resting]
        BY <1>1, <3>1, <3>2, <3>3, LosingStep DEF Resting, IrohInv, IrohTypeOK
      <3>4. ASSUME NEW c, job' = [job EXCEPT ![s] = Writing(job[s], c)] PROVE OnceInv'
        BY <1>1, <3>1, <3>2, <3>4, LosingStep DEF Writing, IrohInv, IrohTypeOK
      <3>5. CASE job' = [job EXCEPT ![s] = Dialing(job[s])]
        <4>1. Dialing(job[s]).frame = job[s].frame
          BY <3>2, JobFacts DEF Dialing, IrohInv, IrohTypeOK, Job, Resting
        <4>2. QED
          BY <1>1, <3>1, <3>2, <3>5, <4>1, LosingStep DEF IrohInv, IrohTypeOK
      <3>6. QED
        BY <3>2, <3>3, <3>4, <3>5
    <2>3. QED
      BY <2>1, <2>2
  <1>3. ASSUME NEW n \in Nodes, NEW c \in Conns, ReaderStep(n, c) PROVE OnceInv'
    <2>1. CASE ReaderEnds(n, c)
      <3>1. UNCHANGED <<sent, job, got, fanning>> /\ wire' = [wire EXCEPT ![n][c] = <<>>]
        BY <2>1 DEF ReaderEnds, sends
      <3>2. \A m \in Nodes, d \in Conns : wire'[m][d] = wire[m][d] \/ wire'[m][d] = <<>>
        BY <3>1 DEF IrohInv, IrohTypeOK
      <3>3. QED
        BY <1>1, <3>1, <3>2, LosingStep
    <2>2. CASE ~ReaderEnds(n, c)
      BY <1>3, <2>2, ReadSingleOnce, ReadBatchOnce, FanInOnce DEF ReaderStep
    <2>3. QED
      BY <2>1, <2>2
  <1>4. ASSUME NEW n \in Nodes, NEW c \in Conns,
               Handshake(n, c) \/ WatchFires(n, c) \/ HearsClose(n, c)
        PROVE  OnceInv'
    <2>1. UNCHANGED <<sent, job, got, fanning>>
      BY <1>4 DEF Handshake, Accept, AcceptFails, WatchFires, HearsClose, sends, tasks
    <2>2. wire' = wire \/ wire' = [wire EXCEPT ![n][c] = <<>>]
      BY <1>4 DEF Handshake, Accept, AcceptFails, WatchFires, HearsClose
    <2>3. \A m \in Nodes, d \in Conns : wire'[m][d] = wire[m][d] \/ wire'[m][d] = <<>>
      <3>1. CASE wire' = wire
        BY <3>1
      <3>2. CASE wire' = [wire EXCEPT ![n][c] = <<>>]
        BY <3>2 DEF IrohInv, IrohTypeOK
      <3>3. QED
        BY <2>2, <3>1, <3>2
    <2>4. QED
      BY <1>1, <2>1, <2>3, LosingStep
  <1>5. ASSUME NEW s \in Senders, NEW m \in Nodes, NEW kind \in Kinds[s], Send(s, m, kind)
        PROVE  OnceInv'
    BY <1>5, SendOnce
  <1>6. ASSUME NEW n \in Nodes, Fault(n) PROVE OnceInv'
    <2>1. CASE Restart(n)
      <3>1. /\ UNCHANGED <<sent, got>>
            /\ wire' = [wire EXCEPT ![n] = [c \in Conns |-> <<>>]]
            /\ fanning' = [fanning EXCEPT ![n] = [c \in Conns |-> None]]
            /\ job' = [s \in Senders |-> IF HomeOf[s] = n THEN Resting ELSE job[s]]
        BY <2>1 DEF Restart
      <3>2. \A m \in Nodes, d \in Conns :
               /\ wire'[m][d] = wire[m][d] \/ wire'[m][d] = <<>>
               /\ fanning'[m][d] = None \/ fanning'[m][d] = fanning[m][d]
        BY <3>1 DEF IrohInv, IrohTypeOK
      <3>3. \A s \in Senders : \/ job'[s].do = "rest"
                               \/ job[s].do # "rest" /\ job'[s].frame = job[s].frame
        BY <3>1 DEF Resting
      <3>4. QED
        BY <1>1, <3>1, <3>2, <3>3, LosingStep
    <2>2. CASE Shutdown(n)
      <3>1. UNCHANGED <<sent, job, got, fanning>>
        BY <2>2 DEF Shutdown, sends, tasks
      <3>2. \A m \in Nodes, d \in Conns : wire'[m][d] = wire[m][d] \/ wire'[m][d] = <<>>
        BY <2>2 DEF Shutdown, IrohInv, IrohTypeOK
      <3>3. QED
        BY <1>1, <3>1, <3>2, LosingStep
    <2>3. CASE ~Restart(n) /\ ~Shutdown(n)
      <3>1. UNCHANGED <<sent, job, got, fanning, wire>>
        BY <1>6, <2>3 DEF Fault, CloseConnection, Breaks, sends, tasks
      <3>2. QED
        BY <1>1, <3>1, LosingStep
    <2>4. QED
      BY <2>1, <2>2, <2>3
  <1>7. ASSUME UNCHANGED vars PROVE OnceInv'
    <2>1. UNCHANGED <<sent, job, got, fanning, wire>>
      BY <1>7 DEF vars
    <2>2. QED
      BY <1>1, <2>1, LosingStep
  <1>8. QED
    BY <1>2, <1>3, <1>4, <1>5, <1>6, <1>7 DEF Next, Progress

(* No frame reaches the router twice, though a send is tried twice and a   *)
(* batch is read before it is fanned in.                                   *)
THEOREM FramesArriveOnce == Spec => []AtMostOnce
  <1>1. IrohInv /\ OnceInv => AtMostOnce
    <2> SUFFICES ASSUME IrohInv, OnceInv, NEW n \in Nodes, NEW c \in Conns, NEW d \in Conns,
                        NEW i \in DOMAIN wire[n][c], NEW j \in DOMAIN wire[n][d]
                 PROVE  /\ wire[n][c][i] \notin got[n]
                        /\ wire[n][c][i] = wire[n][d][j] => c = d /\ i = j
      BY DEF AtMostOnce
    <2> DEFINE f == wire[n][c][i]
    <2>1. f \in Frame
      <3>1. wire[n][c] \in Seq(Frame)
        BY DEF IrohInv, IrohTypeOK
      <3>2. QED
        BY <3>1, ElementOfSeq, LenProperties
    <2>2. OnWire(wire, f)
      BY DEF OnWire
    <2>3. f \notin got[n]
      BY <2>1, <2>2 DEF OnceInv, OnlyReceiptsFollow, Reached, SameSend
    <2>4. f = wire[n][d][j] => c = d /\ i = j
      BY DEF OnceInv, OneOfEachSend, SameSend
    <2>5. QED
      BY <2>3, <2>4
  <1>2. Spec => [](IrohInv /\ OnceInv)
    BY InitInv, InitOnce, StepInv, StepOnce, PTL DEF Spec
  <1>3. QED
    BY <1>1, <1>2, PTL

=============================================================================
