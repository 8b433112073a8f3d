--------------------------- MODULE DialogueProofs ---------------------------
(***************************************************************************)
(* The safety of a conversation end to end, for any patiences, rounds and  *)
(* fresh ids, any number of requests and any number of mishaps.            *)
(*                                                                         *)
(* Each of the two lines of the network is abstracted to what it says: the *)
(* set of turns on it and the order between them.  Talk relates what is    *)
(* said on either line to where the two machines stand; the lemmas about   *)
(* it (Opened, ActorAccepts, ...) speak of nothing else.  A step lemma     *)
(* per action then shows which of them the action is.  The actor's         *)
(* runtime keeps its own invariant by its own theorem, and what a line is  *)
(* after a cut heals follows from the laws proved of the memory network.   *)
(***************************************************************************)
EXTENDS Dialogue, SequenceTheorems, TLAPS

RP == INSTANCE LocalRuntimeProofs WITH
        AckPatience <- ActorAck, TurnPatience <- ActorTurn,
        Names <- {actorName}, Peers <- {a}, Endpoints <- {A},
        EndpointOf <- [x \in {a} |-> A],
        Setups <- [n \in {actorName} |-> {TheActor}]

(* The laws of Along hold in any network; the smallest there is will do.   *)
Laws == INSTANCE MemoryNetProofs WITH
        Addresses <- {}, NetEndpoints <- {}, HomeOf <- <<>>, ReceiptOf <- <<>>,
        Watches <- {}, Handles <- {}, Nothing <- <<{}>>,
        Routes <- {}, Batches <- {}, Binders <- {}, Mortal <- {}, Borders <- {},
        MaxSends <- 0, MaxKills <- 0, serial <- 0, kills <- 0

-----------------------------------------------------------------------------
(* What a line of parcels says: the turns in it, and which comes before    *)
(* which.                                                                  *)
Said(q) == {m \in Message : m.turn # None /\ \E i \in DOMAIN q : q[i].msg = m}

InTurn(q) ==
    {p \in Said(q) \X Said(q) :
        \E i, j \in DOMAIN q : i < j /\ q[i].msg = p[1] /\ q[j].msg = p[2]}

LEMMA NothingSaid == Said(<<>>) = {} /\ InTurn(<<>>) = {}
  <1>1. DOMAIN <<>> = {}
    BY EmptySeq
  <1>2. QED
    BY <1>1 DEF Said, InTurn

LEMMA SaidTurns ==
    ASSUME NEW q, NEW m \in Said(q)
    PROVE  m \in Message /\ m.turn \in P!Turn /\ m.turn # None
  BY DEF Said, Message

LEMMA SaidFirst ==
    ASSUME NEW q \in Seq(Parcel), q # <<>>
    PROVE  LET m == Head(q).msg
               r == Tail(q)
           IN /\ Head(q) \in Parcel /\ m \in Message /\ r \in Seq(Parcel)
              /\ Said(r) \subseteq Said(q) /\ InTurn(r) \subseteq InTurn(q)
              /\ m.turn = None => Said(r) = Said(q)
              /\ m.turn # None => /\ m \in Said(q) /\ Said(q) = Said(r) \cup {m}
                                  /\ \A n \in Said(r) : <<m, n>> \in InTurn(q)
  <1> DEFINE m == Head(q).msg
             r == Tail(q)
  <1>1. /\ Head(q) \in Parcel /\ Head(q) = q[1] /\ r \in Seq(Parcel)
        /\ Len(q) \in Nat \ {0} /\ Len(r) = Len(q) - 1
        /\ \A i \in 1 .. Len(r) : r[i] = q[i + 1]
        /\ DOMAIN q = 1 .. Len(q) /\ DOMAIN r = 1 .. Len(r)
    BY HeadTailProperties, EmptySeq, LenProperties
  <1>2. m \in Message
    BY <1>1 DEF Parcel
  <1>3. \A i \in DOMAIN r : i + 1 \in DOMAIN q /\ i + 1 > 1 /\ q[i + 1] = r[i]
    BY <1>1
  <1>4. \A i \in DOMAIN q : i = 1 \/ (i - 1 \in DOMAIN r /\ q[i] = r[i - 1])
    BY <1>1
  <1>5. 1 \in DOMAIN q /\ q[1].msg = m
    BY <1>1
  <1>a. \A i \in DOMAIN r : i \in Nat
    BY <1>1
  <1> HIDE DEF r, m
  <1>6. Said(r) \subseteq Said(q)
    BY <1>3 DEF Said
  <1>7. InTurn(r) \subseteq InTurn(q)
    <2>1. ASSUME NEW p \in InTurn(r) PROVE p \in InTurn(q)
      <3>1. PICK i \in DOMAIN r, j \in DOMAIN r : i < j /\ r[i].msg = p[1] /\ r[j].msg = p[2]
        BY DEF InTurn
      <3>2. p \in Said(q) \X Said(q)
        BY <1>6 DEF InTurn
      <3>3. i + 1 < j + 1
        BY <3>1, <1>a
      <3>4. QED
        BY <1>3, <3>1, <3>2, <3>3 DEF InTurn
    <2>2. QED
      BY <2>1
  <1>8. m.turn = None => Said(q) \subseteq Said(r)
    BY <1>4, <1>5 DEF Said
  <1>9. ASSUME m.turn # None PROVE m \in Said(q) /\ Said(q) = Said(r) \cup {m}
    <2>1. m \in Said(q)
      BY <1>2, <1>5, <1>9 DEF Said
    <2>2. Said(q) \subseteq Said(r) \cup {m}
      BY <1>4, <1>5 DEF Said
    <2>3. QED
      BY <1>6, <2>1, <2>2
  <1>10. ASSUME m.turn # None, NEW n \in Said(r) PROVE <<m, n>> \in InTurn(q)
    <2>1. PICK i \in DOMAIN r : r[i].msg = n
      BY <1>10 DEF Said
    <2>2. q[i + 1].msg = n /\ i + 1 \in DOMAIN q /\ 1 < i + 1
      BY <1>3, <2>1, <1>a
    <2>3. m \in Said(q) /\ n \in Said(q)
      BY <1>6, <1>9, <1>10
    <2>4. QED
      BY <1>5, <2>2, <2>3 DEF InTurn
  <1>11. QED
    BY <1>1, <1>2, <1>6, <1>7, <1>8, <1>9, <1>10 DEF r, m

LEMMA SaidLast ==
    ASSUME NEW q \in Seq(Parcel), NEW d \in Parcel
    PROVE  LET r == Append(q, d)
           IN /\ r \in Seq(Parcel)
              /\ d.msg.turn = None => Said(r) = Said(q) /\ InTurn(r) = InTurn(q)
              /\ d.msg.turn # None => /\ Said(r) = Said(q) \cup {d.msg}
                                      /\ InTurn(r) \subseteq InTurn(q) \cup (Said(q) \X {d.msg})
  <1> DEFINE r == Append(q, d)
  <1>1. /\ r \in Seq(Parcel) /\ Len(q) \in Nat /\ Len(r) = Len(q) + 1
        /\ \A i \in 1 .. Len(q) : r[i] = q[i]
        /\ r[Len(q) + 1] = d
        /\ DOMAIN q = 1 .. Len(q) /\ DOMAIN r = 1 .. Len(r)
    BY AppendProperties, LenProperties
  <1>2. d.msg \in Message
    BY DEF Parcel
  <1>3. \A i \in DOMAIN q : i \in DOMAIN r /\ r[i] = q[i]
    BY <1>1
  <1>4. \A i \in DOMAIN r : i = Len(q) + 1 \/ (i \in DOMAIN q /\ r[i] = q[i])
    BY <1>1
  <1>5. Len(q) + 1 \in DOMAIN r /\ \A i \in DOMAIN r : i <= Len(q) + 1 /\ i \in Nat
    BY <1>1
  <1>6. r[Len(q) + 1] = d
    BY <1>1
  <1> HIDE DEF r
  <1>7. /\ d.msg.turn = None => Said(r) = Said(q)
        /\ d.msg.turn # None => Said(r) = Said(q) \cup {d.msg}
    BY <1>2, <1>3, <1>4, <1>5, <1>6 DEF Said
  <1>8. InTurn(q) \subseteq InTurn(r)
    <2>1. Said(q) \subseteq Said(r)
      BY <1>7
    <2>2. QED
      BY <1>3, <2>1 DEF InTurn
  <1>9. ASSUME NEW p \in InTurn(r)
        PROVE  p \in InTurn(q) \cup (Said(q) \X {d.msg})
    <2>1. PICK i \in DOMAIN r, j \in DOMAIN r : i < j /\ r[i].msg = p[1] /\ r[j].msg = p[2]
      BY DEF InTurn
    <2>2. p = <<p[1], p[2]>> /\ p[1] \in Said(r) /\ p[2] \in Said(r)
      BY DEF InTurn
    <2>3. i # Len(q) + 1
      BY <2>1, <1>1, <1>5
    <2>4. i \in DOMAIN q /\ q[i].msg = p[1]
      BY <1>4, <2>1, <2>3
    <2>5. p[1] \in Said(q)
      BY <2>2, <2>4 DEF Said
    <2>6. CASE j = Len(q) + 1
      BY <1>6, <2>1, <2>2, <2>5, <2>6
    <2>7. CASE j # Len(q) + 1
      <3>1. j \in DOMAIN q /\ q[j].msg = p[2]
        BY <1>4, <2>1, <2>7
      <3>2. p[2] \in Said(q)
        BY <2>2, <3>1 DEF Said
      <3>3. QED
        BY <2>1, <2>2, <2>4, <2>5, <3>1, <3>2 DEF InTurn
    <2>8. QED
      BY <2>6, <2>7
  <1>10. ASSUME d.msg.turn = None, NEW p \in InTurn(r) PROVE p \in InTurn(q)
    <2>1. p[2] \in Said(r)
      BY DEF InTurn
    <2>2. p[2] # d.msg
      BY <1>10, <2>1, SaidTurns
    <2>3. QED
      BY <1>9, <2>2
  <1>11. QED
    BY <1>1, <1>7, <1>8, <1>9, <1>10 DEF r

LEMMA SaidRest ==
    ASSUME NEW q \in Seq(Parcel), NEW r \in Seq(Parcel)
    PROVE  Said(r) \subseteq Said(q \o r) /\ InTurn(r) \subseteq InTurn(q \o r)
  <1> DEFINE w == q \o r
  <1>1. /\ Len(q) \in Nat /\ Len(r) \in Nat /\ w \in Seq(Parcel)
        /\ Len(w) = Len(q) + Len(r)
        /\ \A i \in 1 .. Len(w) : w[i] = IF i <= Len(q) THEN q[i] ELSE r[i - Len(q)]
        /\ DOMAIN w = 1 .. Len(w) /\ DOMAIN r = 1 .. Len(r)
    BY ConcatProperties, LenProperties
  <1>2. \A i \in DOMAIN r : i \in Nat /\ Len(q) + i \in DOMAIN w /\ w[Len(q) + i] = r[i]
    BY <1>1
  <1> HIDE DEF w
  <1>3. Said(r) \subseteq Said(w)
    BY <1>2 DEF Said
  <1>4. ASSUME NEW p \in InTurn(r) PROVE p \in InTurn(w)
    <2>1. PICK i \in DOMAIN r, j \in DOMAIN r : i < j /\ r[i].msg = p[1] /\ r[j].msg = p[2]
      BY DEF InTurn
    <2>2. Len(q) + i < Len(q) + j
      BY <1>1, <1>2, <2>1
    <2>3. QED
      BY <1>2, <1>3, <2>1, <2>2 DEF InTurn
  <1>5. QED
    BY <1>3, <1>4 DEF w

-----------------------------------------------------------------------------
(* The two lines of the network: the mailbox, then what is held for it.    *)
Queue(n, x) == IF N!Bound(n, x) THEN n.box[x] ELSE <<>>

OnTheWay(n, f, t) == Queue(n, t) \o N!Along({<<f, t>>}, n.held)

NetOk(n) ==
    /\ n \in [box  : [{a, b} -> Seq(Parcel) \cup {None}],
              held : Seq(Parcel),
              cut  : {{}, {<<A, B>>, <<B, A>>}}]
    /\ N!Bound(n, b)
    /\ n.cut = {} => n.held = <<>>
    /\ \A i \in DOMAIN n.held : n.held[i].from # n.held[i].to

LEMMA SameAlong == ASSUME NEW routes, NEW q PROVE N!Along(routes, q) = Laws!Along(routes, q)
  BY DEF N!Along, Laws!Along, N!Route, Laws!Route

LEMMA SmallestNet ==
    /\ <<>> \in [{} -> {}]
    /\ \A e \in {} : <<>>[<<>>[e]] = e
    /\ {} \subseteq {} \X {}
    /\ <<{}>> \notin Seq(Laws!Deliveries) /\ <<{}>> \notin Seq({})
  <1>1. <<>> \in [{} -> {}]
    BY EmptySeq
  <1>2. \A q \in Seq({}) : q = <<>>
    BY LenProperties, EmptySeq
  <1>3. Laws!Deliveries = {}
    BY DEF Laws!Deliveries
  <1>4. <<{}>> # <<>>
    OBVIOUS
  <1>5. QED
    BY <1>1, <1>2, <1>3, <1>4

LEMMA AlongLaws ==
    ASSUME NEW routes, NEW q \in Seq(Parcel)
    PROVE  /\ N!Along(routes, q) \in Seq(Parcel)
           /\ N!Along(routes, <<>>) = <<>>
           /\ \A d \in Parcel : N!Along(routes, Append(q, d)) =
                 IF <<d.from, d.to>> \in routes THEN Append(N!Along(routes, q), d)
                                                ELSE N!Along(routes, q)
           /\ \A those : N!Along(routes, N!Along(those, q)) = N!Along(routes \cap those, q)
           /\ (\A i \in DOMAIN q : <<q[i].from, q[i].to>> \notin routes)
                 => N!Along(routes, q) = <<>>
  <1>1. N!Along(routes, q) \in Seq(Parcel)
    BY SameAlong, SmallestNet, Laws!AlongInSeq
  <1>2. N!Along(routes, <<>>) = <<>>
    BY SameAlong, SmallestNet, Laws!AlongNothing
  <1>3. ASSUME NEW d \in Parcel
        PROVE  N!Along(routes, Append(q, d)) =
                 IF <<d.from, d.to>> \in routes THEN Append(N!Along(routes, q), d)
                                                ELSE N!Along(routes, q)
    BY SameAlong, SmallestNet, Laws!AlongAppend DEF Laws!Route
  <1>4. ASSUME NEW those
        PROVE  N!Along(routes, N!Along(those, q)) = N!Along(routes \cap those, q)
    BY SameAlong, SmallestNet, Laws!AlongAlong
  <1>5. ASSUME \A i \in DOMAIN q : <<q[i].from, q[i].to>> \notin routes
        PROVE  N!Along(routes, q) = <<>>
    <2>1. \A d \in Laws!Range(q) : Laws!Route(d) \notin routes
      BY <1>5 DEF Laws!Range, Laws!Route
    <2>2. QED
      BY <2>1, SameAlong, SmallestNet, Laws!AlongNone
  <1>6. QED
    BY <1>1, <1>2, <1>3, <1>4, <1>5

LEMMA AlongTwice ==
    ASSUME NEW routes, NEW those, NEW q \in Seq(Parcel)
    PROVE  N!Along(routes, N!Along(those, q)) = N!Along(routes \cap those, q)
  <1>1. \A any : N!Along(routes, N!Along(any, q)) = N!Along(routes \cap any, q)
    BY AlongLaws
  <1>2. QED
    BY <1>1

LEMMA NoneIsNoQueue == None \notin Seq(Parcel)
  BY NoneIsNothingElse

LEMMA NetTypes ==
    ASSUME NEW n, NetOk(n)
    PROVE  /\ \A x \in {a, b} : /\ Queue(n, x) \in Seq(Parcel)
                                /\ N!Bound(n, x) => n.box[x] = Queue(n, x)
           /\ n.held \in Seq(Parcel)
           /\ \A f, t \in {a, b} : OnTheWay(n, f, t) \in Seq(Parcel)
  <1>1. \A x \in {a, b} : /\ Queue(n, x) \in Seq(Parcel)
                          /\ N!Bound(n, x) => n.box[x] = Queue(n, x)
    BY EmptySeq DEF NetOk, Queue, N!Bound
  <1>2. n.held \in Seq(Parcel)
    BY DEF NetOk
  <1>3. \A f, t \in {a, b} : N!Along({<<f, t>>}, n.held) \in Seq(Parcel)
    BY <1>2, AlongLaws
  <1>4. QED
    BY <1>1, <1>2, <1>3, ConcatProperties DEF OnTheWay

(* Nothing but its box tells two networks apart.                           *)
LEMMA SameLine ==
    ASSUME NEW n, NEW m, NEW f, NEW t, n.box[t] = m.box[t], n.held = m.held
    PROVE  OnTheWay(m, f, t) = OnTheWay(n, f, t)
  BY DEF OnTheWay, Queue, N!Bound

(* The line from the other endpoint is the only one to an address.         *)
Other(x) == IF x = a THEN b ELSE a

LEMMA Others == Other(a) = b /\ Other(b) = a
  BY TwoSides DEF Other

(* A parcel that is sent joins the end of its line, if it can be sent, and *)
(* no other line hears of it.                                              *)
LEMMA PostedLine ==
    ASSUME NEW n, NetOk(n), NEW t \in {a, b}, NEW d \in Parcel, d.from = Other(t), d.to = t
    PROVE  LET m == N!Posted(n, d)
           IN /\ NetOk(m)
              /\ \A x \in {a, b} : N!Bound(m, x) = N!Bound(n, x)
              /\ OnTheWay(m, Other(t), t) = IF N!Sendable(n, d)
                                            THEN Append(OnTheWay(n, Other(t), t), d)
                                            ELSE OnTheWay(n, Other(t), t)
              /\ OnTheWay(m, t, Other(t)) = OnTheWay(n, t, Other(t))
              /\ t = b => N!Sendable(n, d)
  <1> DEFINE m == N!Posted(n, d)
             f == Other(t)
  <1>1. f \in {a, b} /\ f # t /\ d.from = f /\ d.to = t
    BY TwoSides DEF Other
  <1>2. N!Cut(n, d) <=> n.cut # {}
    BY <1>1, TwoSides DEF N!Cut, NetOk, Other
  <1>3. /\ Queue(n, t) \in Seq(Parcel) /\ n.held \in Seq(Parcel)
        /\ N!Along({<<f, t>>}, n.held) \in Seq(Parcel)
    BY <1>1, NetTypes, AlongLaws
  <1>4. CASE N!Cut(n, d)
    <2>1. m = [n EXCEPT !.held = Append(n.held, d)]
      BY <1>4 DEF N!Posted
    <2>2. m.box = n.box /\ m.cut = n.cut /\ m.held = Append(n.held, d)
      BY <2>1 DEF NetOk
    <2>3. /\ Append(n.held, d) \in Seq(Parcel)
          /\ \A i \in DOMAIN Append(n.held, d) :
                Append(n.held, d)[i] = d \/ (i \in DOMAIN n.held /\ Append(n.held, d)[i] = n.held[i])
      BY <1>3, AppendProperties, LenProperties
    <2>4. NetOk(m)
      <3>1. m \in [box  : [{a, b} -> Seq(Parcel) \cup {None}],
                   held : Seq(Parcel),
                   cut  : {{}, {<<A, B>>, <<B, A>>}}]
        BY <2>1, <2>3 DEF NetOk
      <3>2. m.cut # {} /\ N!Bound(m, b)
        BY <1>2, <1>4, <2>2 DEF NetOk, N!Bound
      <3>3. \A i \in DOMAIN m.held : m.held[i].from # m.held[i].to
        BY <1>1, <2>2, <2>3 DEF NetOk
      <3>4. QED
        BY <3>1, <3>2, <3>3 DEF NetOk
    <2>5. \A x : N!Bound(m, x) = N!Bound(n, x) /\ Queue(m, x) = Queue(n, x)
      BY <2>2 DEF N!Bound, Queue
    <2>6. /\ N!Along({<<f, t>>}, m.held) = Append(N!Along({<<f, t>>}, n.held), d)
          /\ N!Along({<<t, f>>}, m.held) = N!Along({<<t, f>>}, n.held)
      <3>1. <<d.from, d.to>> \in {<<f, t>>} /\ <<d.from, d.to>> \notin {<<t, f>>}
        BY <1>1
      <3>2. /\ N!Along({<<f, t>>}, Append(n.held, d)) = Append(N!Along({<<f, t>>}, n.held), d)
            /\ N!Along({<<t, f>>}, Append(n.held, d)) = N!Along({<<t, f>>}, n.held)
        <4> DEFINE into == {<<f, t>>}
                   back == {<<t, f>>}
        <4> HIDE DEF into, back
        <4>1. n.held \in Seq(Parcel) /\ <<d.from, d.to>> \in into /\ <<d.from, d.to>> \notin back
          BY <1>3, <3>1 DEF into, back
        <4>2. N!Along(into, Append(n.held, d)) = Append(N!Along(into, n.held), d)
          BY <4>1, AlongLaws
        <4>3. N!Along(back, Append(n.held, d)) = N!Along(back, n.held)
          BY <4>1, AlongLaws
        <4>4. QED
          BY <4>2, <4>3 DEF into, back
      <3>3. QED
        BY <2>2, <3>2
    <2>7. Queue(n, t) \o Append(N!Along({<<f, t>>}, n.held), d)
            = Append(Queue(n, t) \o N!Along({<<f, t>>}, n.held), d)
      <3> DEFINE v == Queue(n, t)
                 w == N!Along({<<f, t>>}, n.held)
      <3>1. v \in Seq(Parcel) /\ w \in Seq(Parcel)
        BY <1>3
      <3> HIDE DEF v, w
      <3>2. v \o Append(w, d) = Append(v \o w, d)
        BY <3>1
      <3>3. QED
        BY <3>2 DEF v, w
    <2>8. QED
      BY <1>4, <2>4, <2>5, <2>6, <2>7 DEF OnTheWay, N!Sendable
  <1>5. CASE ~N!Cut(n, d)
    <2>1. n.held = <<>>
      BY <1>2, <1>5 DEF NetOk
    <2>2. \A q \in Seq(Parcel) : q \o <<>> = q
      BY ConcatEmptySeq
    <2>3. /\ OnTheWay(n, f, t) = Queue(n, t)
          /\ N!Along({<<f, t>>}, <<>>) = <<>>
      <3>1. N!Along({<<f, t>>}, <<>>) = <<>>
        BY <1>3, AlongLaws
      <3>2. OnTheWay(n, f, t) = Queue(n, t) \o <<>>
        BY <2>1, <3>1 DEF OnTheWay
      <3>3. QED
        BY <1>3, <2>2, <3>1, <3>2
    <2>4. CASE ~N!Bound(n, t)
      <3>1. m = n /\ ~N!Sendable(n, d) /\ t # b
        BY <1>1, <1>5, <2>4 DEF N!Posted, N!Boxed, N!Sendable, NetOk
      <3>2. QED
        BY <3>1
    <2>5. CASE N!Bound(n, t)
      <3>1. m = [n EXCEPT !.box[t] = Append(n.box[t], d)] /\ N!Sendable(n, d)
        BY <1>1, <1>5, <2>5 DEF N!Posted, N!Boxed, N!Sendable
      <3>2. n.box[t] \in Seq(Parcel) /\ Queue(n, t) = n.box[t]
        BY <2>5 DEF Queue, NetOk, N!Bound
      <3>3. Append(n.box[t], d) \in Seq(Parcel) /\ Append(n.box[t], d) # None
        BY <3>2, AppendProperties, NoneIsNoQueue
      <3>4. /\ m.held = n.held /\ m.cut = n.cut /\ m.box[f] = n.box[f]
            /\ m.box[t] = Append(n.box[t], d)
            /\ m \in [box  : [{a, b} -> Seq(Parcel) \cup {None}],
                      held : Seq(Parcel),
                      cut  : {{}, {<<A, B>>, <<B, A>>}}]
        <4> DEFINE v == Append(n.box[t], d)
        <4>1. v \in Seq(Parcel) /\ m = [n EXCEPT !.box[t] = v]
          BY <3>1, <3>3
        <4> HIDE DEF v, m
        <4>2. QED
          BY <1>1, <4>1 DEF NetOk, v
      <3>5. \A x \in {a, b} : N!Bound(m, x) = N!Bound(n, x)
        BY <1>1, <2>5, <3>3, <3>4 DEF N!Bound
      <3>6. NetOk(m)
        BY <3>4, <3>5 DEF NetOk
      <3>7. OnTheWay(m, t, f) = OnTheWay(n, t, f)
        BY <3>4, SameLine
      <3>8. Queue(m, t) = Append(Queue(n, t), d)
        BY <2>5, <3>2, <3>4, <3>5 DEF Queue
      <3>9. OnTheWay(m, f, t) = Queue(m, t)
        <4>1. Queue(m, t) \in Seq(Parcel)
          BY <3>2, <3>3, <3>8
        <4>2. QED
          BY <4>1, <2>1, <2>2, <2>3, <3>4 DEF OnTheWay
      <3>10. QED
        BY <2>3, <3>1, <3>5, <3>6, <3>7, <3>8, <3>9
    <2>6. QED
      BY <2>4, <2>5
  <1>6. QED
    BY <1>4, <1>5

(* A parcel that is taken leaves the front of its line.                    *)
LEMMA TakenLine ==
    ASSUME NEW n, NetOk(n), NEW t \in {a, b}, N!Bound(n, t), n.box[t] # <<>>
    PROVE  LET m == [n EXCEPT !.box[t] = Tail(@)]
           IN /\ NetOk(m)
              /\ \A x \in {a, b} : N!Bound(m, x) = N!Bound(n, x)
              /\ OnTheWay(n, Other(t), t) # <<>>
              /\ Head(n.box[t]) = Head(OnTheWay(n, Other(t), t))
              /\ OnTheWay(m, Other(t), t) = Tail(OnTheWay(n, Other(t), t))
              /\ OnTheWay(m, t, Other(t)) = OnTheWay(n, t, Other(t))
              /\ m.held = n.held /\ m.cut = n.cut
  <1> DEFINE m == [n EXCEPT !.box[t] = Tail(@)]
             f == Other(t)
             q == n.box[t]
             w == N!Along({<<f, t>>}, n.held)
  <1>1. f \in {a, b} /\ f # t /\ n.held \in Seq(Parcel) /\ w \in Seq(Parcel)
    BY TwoSides, NetTypes, AlongLaws DEF Other
  <1>2. q \in Seq(Parcel) /\ q # <<>> /\ Queue(n, t) = q
    BY DEF Queue, NetOk, N!Bound
  <1>3. Tail(q) \in Seq(Parcel) /\ Tail(q) # None
    BY <1>2, HeadTailProperties, NoneIsNoQueue
  <1>4. /\ m.held = n.held /\ m.cut = n.cut /\ m.box[f] = n.box[f]
        /\ m.box[t] = Tail(q)
        /\ m \in [box  : [{a, b} -> Seq(Parcel) \cup {None}],
                  held : Seq(Parcel),
                  cut  : {{}, {<<A, B>>, <<B, A>>}}]
    BY <1>1, <1>3 DEF NetOk
  <1>5. \A x \in {a, b} : N!Bound(m, x) = N!Bound(n, x)
    BY <1>1, <1>3, <1>4 DEF N!Bound
  <1>6. NetOk(m)
    BY <1>4, <1>5 DEF NetOk
  <1>7. OnTheWay(m, t, f) = OnTheWay(n, t, f)
    <2> HIDE DEF m, f
    <2>1. QED
      BY <1>4, SameLine
  <1>8. OnTheWay(n, f, t) = q \o w /\ OnTheWay(m, f, t) = Tail(q) \o w
    BY <1>2, <1>4, <1>5 DEF OnTheWay, Queue
  <1>9. q \o w # <<>> /\ Head(q \o w) = Head(q) /\ Tail(q \o w) = Tail(q) \o w
    <2> HIDE DEF q, w
    <2>1. QED
      BY <1>1, <1>2
  <1>10. QED
    BY <1>4, <1>5, <1>6, <1>7, <1>8, <1>9

(* What goes with a mailbox of the application's is lost to its line only. *)
LEMMA LostLine ==
    ASSUME NEW n, NetOk(n), NEW q \in {None, <<>>}
    PROVE  LET m == [n EXCEPT !.box[a] = q]
           IN /\ NetOk(m)
              /\ OnTheWay(m, a, b) = OnTheWay(n, a, b)
              /\ Said(OnTheWay(m, b, a)) \subseteq Said(OnTheWay(n, b, a))
              /\ InTurn(OnTheWay(m, b, a)) \subseteq InTurn(OnTheWay(n, b, a))
  <1> DEFINE m == [n EXCEPT !.box[a] = q]
             w == N!Along({<<b, a>>}, n.held)
  <1>1. /\ m \in [box  : [{a, b} -> Seq(Parcel) \cup {None}],
                  held : Seq(Parcel),
                  cut  : {{}, {<<A, B>>, <<B, A>>}}]
        /\ m.held = n.held /\ m.cut = n.cut /\ m.box[b] = n.box[b] /\ m.box[a] = q
    <2>1. q \in Seq(Parcel) \cup {None}
      BY EmptySeq
    <2>2. QED
      BY <2>1, TwoSides DEF NetOk
  <1>2. w \in Seq(Parcel) /\ Queue(n, a) \in Seq(Parcel)
    BY NetTypes, AlongLaws
  <1> HIDE DEF m
  <1>3. NetOk(m)
    BY <1>1 DEF NetOk, N!Bound
  <1>4. OnTheWay(m, a, b) = OnTheWay(n, a, b)
    BY <1>1, SameLine
  <1>5. Queue(m, a) = <<>>
    BY <1>1 DEF Queue, N!Bound
  <1>6. OnTheWay(m, b, a) = w
    <2>1. OnTheWay(m, b, a) = <<>> \o w
      BY <1>1, <1>5 DEF OnTheWay
    <2> HIDE DEF w
    <2>2. QED
      BY <1>2, <2>1, ConcatEmptySeq
  <1>7. OnTheWay(n, b, a) = Queue(n, a) \o w
    BY DEF OnTheWay
  <1> HIDE DEF w
  <1>8. QED
    BY <1>2, <1>3, <1>4, <1>6, <1>7, SaidRest DEF m

LEMMA CutLine ==
    ASSUME NEW n, NetOk(n)
    PROVE  LET m == N!Partitioned(n, A, B)
           IN NetOk(m) /\ m.box = n.box /\ m.held = n.held
  <1> DEFINE m == N!Partitioned(n, A, B)
  <1>1. n.cut \cup {<<A, B>>, <<B, A>>} = {<<A, B>>, <<B, A>>}
    BY DEF NetOk
  <1>2. m = [n EXCEPT !.cut = {<<A, B>>, <<B, A>>}]
    BY <1>1 DEF N!Partitioned
  <1>3. /\ m.box = n.box /\ m.held = n.held /\ m.cut # {}
        /\ m \in [box  : [{a, b} -> Seq(Parcel) \cup {None}],
                  held : Seq(Parcel),
                  cut  : {{}, {<<A, B>>, <<B, A>>}}]
    BY <1>2 DEF NetOk
  <1> HIDE DEF m
  <1>4. QED
    BY <1>3 DEF NetOk, N!Bound, m

(* Healing moves what is held to the mailbox, and leaves each line as it   *)
(* was - unless it leads to no mailbox.                                    *)
LEMMA HealedLine ==
    ASSUME NEW n, NetOk(n)
    PROVE  LET m == N!Healed(n, A, B)
           IN /\ NetOk(m)
              /\ \A x \in {a, b} : N!Bound(m, x) = N!Bound(n, x)
              /\ \A x \in {a, b} : OnTheWay(m, Other(x), x) =
                    IF N!Bound(n, x) THEN OnTheWay(n, Other(x), x) ELSE <<>>
  <1> DEFINE m    == N!Healed(n, A, B)
             home == [x \in {a, b} |-> IF x = a THEN A ELSE B]
             ours == N!RoutesBetween(A, B)
             kept == N!AllRoutes \ ours
             flush == N!Along(ours, n.held)
             line(x) == N!Along({<<Other(x), x>>}, n.held)
  <1>1. /\ n.held \in Seq(Parcel) /\ flush \in Seq(Parcel)
        /\ \A x \in {a, b} : Queue(n, x) \in Seq(Parcel) /\ line(x) \in Seq(Parcel)
    BY NetTypes, AlongLaws
  <1>2. ours = {<<a, b>>, <<b, a>>}
    <2>1. home[a] = A /\ home[b] = B
      BY TwoSides
    <2>2. N!AllRoutes = {<<a, a>>, <<a, b>>, <<b, a>>, <<b, b>>}
      BY DEF N!AllRoutes
    <2>3. QED
      BY <2>1, <2>2, TwoSides DEF N!RoutesBetween
  <1>3. N!Along(kept, n.held) = <<>>
    <2>1. \A i \in DOMAIN n.held : n.held[i] \in Parcel /\ n.held[i].from # n.held[i].to
      BY <1>1, ElementOfSeq, LenProperties DEF NetOk
    <2>2. \A i \in DOMAIN n.held : <<n.held[i].from, n.held[i].to>> \notin kept
      BY <1>2, <2>1 DEF Parcel
    <2>3. n.held \in Seq(Parcel)
      BY <1>1
    <2> HIDE DEF kept
    <2>4. QED
      BY <2>2, <2>3, AlongLaws
  <1>4. ASSUME NEW x \in {a, b} PROVE N!Along(N!RoutesTo(x), flush) = line(x)
    <2>1. N!RoutesTo(x) \cap ours = {<<Other(x), x>>}
      BY <1>2, TwoSides DEF N!RoutesTo, Other
    <2>2. N!Along(N!RoutesTo(x), N!Along(ours, n.held)) = N!Along(N!RoutesTo(x) \cap ours, n.held)
      <3> DEFINE these == N!RoutesTo(x)
      <3>1. n.held \in Seq(Parcel)
        BY <1>1
      <3> HIDE DEF these, ours
      <3>2. N!Along(these, N!Along(ours, n.held)) = N!Along(these \cap ours, n.held)
        BY <3>1, AlongTwice
      <3>3. QED
        BY <3>2 DEF these
    <2>3. QED
      BY <2>1, <2>2
  <1>5. /\ m.held = <<>> /\ m.cut = {}
        /\ m = [n EXCEPT !.cut = {}, !.held = <<>>,
                         !.box = [x \in {a, b} |-> IF N!Bound(n, x)
                                                   THEN n.box[x] \o line(x) ELSE None]]
    <2>1. n.cut \ {<<A, B>>, <<B, A>>} = {}
      BY DEF NetOk
    <2> DEFINE o == N!Opened(n, A, B, kept)
    <2>2. o = [n EXCEPT !.cut = {}, !.held = <<>>]
      BY <1>3, <2>1 DEF N!Opened
    <2>3. \A x : N!Bound(o, x) = N!Bound(n, x) /\ o.box = n.box
      BY <2>2 DEF N!Bound, NetOk
    <2>4. m = [o EXCEPT !.box = [x \in {a, b} |-> IF N!Bound(o, x)
                                    THEN o.box[x] \o N!Along(N!RoutesTo(x), flush) ELSE None]]
      BY DEF N!Healed, N!AllBoxed
    <2>5. [x \in {a, b} |-> IF N!Bound(o, x)
                            THEN o.box[x] \o N!Along(N!RoutesTo(x), flush) ELSE None]
          = [x \in {a, b} |-> IF N!Bound(n, x) THEN n.box[x] \o line(x) ELSE None]
      <3> HIDE DEF o, flush, line
      <3>1. QED
        BY <1>4, <2>3
    <2> DEFINE boxes == [x \in {a, b} |-> IF N!Bound(n, x) THEN n.box[x] \o line(x) ELSE None]
    <2>6. m = [o EXCEPT !.box = boxes]
      BY <2>4, <2>5
    <2> HIDE DEF boxes, o, m
    <2>7. m = [n EXCEPT !.cut = {}, !.held = <<>>, !.box = boxes]
      BY <2>2, <2>6 DEF NetOk
    <2>8. m.held = <<>> /\ m.cut = {}
      BY <2>7 DEF NetOk
    <2>9. QED
      BY <2>7, <2>8 DEF boxes
  <1>6. ASSUME NEW x \in {a, b}
        PROVE  /\ m.box[x] = IF N!Bound(n, x) THEN Queue(n, x) \o line(x) ELSE None
               /\ N!Bound(n, x) => m.box[x] \in Seq(Parcel)
    <2>1. m.box[x] = IF N!Bound(n, x) THEN n.box[x] \o line(x) ELSE None
      <3> HIDE DEF line, m
      <3>1. QED
        BY <1>5 DEF NetOk
    <2>2. N!Bound(n, x) => n.box[x] = Queue(n, x)
      BY DEF Queue
    <2> HIDE DEF line, m
    <2>3. QED
      BY <1>1, <2>1, <2>2, ConcatProperties
  <1>7. \A x \in {a, b} : N!Bound(m, x) = N!Bound(n, x)
    BY <1>6, NoneIsNoQueue DEF N!Bound
  <1>8. NetOk(m)
    <2> DEFINE boxes == [x \in {a, b} |-> IF N!Bound(n, x) THEN n.box[x] \o line(x) ELSE None]
    <2>1. m = [n EXCEPT !.cut = {}, !.held = <<>>, !.box = boxes]
      BY <1>5
    <2>2. boxes \in [{a, b} -> Seq(Parcel) \cup {None}]
      <3>1. \A x \in {a, b} : N!Bound(n, x) => n.box[x] \in Seq(Parcel)
        BY NetTypes
      <3> HIDE DEF line
      <3>2. QED
        BY <1>1, <3>1, ConcatProperties
    <2> HIDE DEF boxes, m
    <2>3. m \in [box  : [{a, b} -> Seq(Parcel) \cup {None}],
                 held : Seq(Parcel),
                 cut  : {{}, {<<A, B>>, <<B, A>>}}]
      BY <2>1, <2>2, EmptySeq DEF NetOk
    <2>4. \A i \in DOMAIN <<>> : FALSE
      BY EmptySeq
    <2>5. QED
      BY <1>5, <1>7, <2>3, <2>4 DEF NetOk
  <1>9. ASSUME NEW x \in {a, b}
        PROVE  OnTheWay(m, Other(x), x) =
                  IF N!Bound(n, x) THEN OnTheWay(n, Other(x), x) ELSE <<>>
    <2>1. N!Along({<<Other(x), x>>}, m.held) = <<>>
      BY <1>1, <1>5, AlongLaws
    <2>2. OnTheWay(m, Other(x), x) = Queue(m, x) \o <<>>
      BY <2>1 DEF OnTheWay
    <2>3. Queue(m, x) = IF N!Bound(n, x) THEN Queue(n, x) \o line(x) ELSE <<>>
      BY <1>6, <1>7 DEF Queue
    <2>4. Queue(m, x) \in Seq(Parcel)
      BY <1>8, NetTypes
    <2>5. OnTheWay(n, Other(x), x) = Queue(n, x) \o line(x)
      BY DEF OnTheWay
    <2> HIDE DEF line, m
    <2>6. QED
      BY <2>2, <2>3, <2>4, <2>5, ConcatEmptySeq
  <1>10. QED
    BY <1>7, <1>8, <1>9

-----------------------------------------------------------------------------
(* The conversation, as it stands between the two: s and z are where the   *)
(* application's and the actor's machines are, u the turn being sent, e    *)
(* and f the exchange each is in, k the requests posed, TA and TB what is  *)
(* said on the way to the application and to the actor, PA and PB in which *)
(* order, and up whether the application has a mailbox.                    *)

Known(k, id)  == \E i \in 1 .. k : id = PosedId[i]
Newest(k, id) == k >= 1 /\ id = PosedId[k]

(* Still to come to the actor: openings of later exchanges in their order, *)
(* and behind them, or alone, what was said in the exchange it is in.      *)
ToActorOk(e, f, k, TB, PB) ==
    /\ \A m \in TB :
          /\ m.turn.req # None => Known(k, m.turn.req)
          /\ m.x[1] <= e[1]
          /\ m.x[1] = e[1] => m.x = e
          /\ m.x = e => m.turn.req = None \/ Newest(k, m.turn.req)
          /\ Newest(k, m.turn.req) => m.x = e
          /\ m.turn.kind = "Open" => f[1] < m.x[1]
          /\ m.turn.kind # "Open" => m.x = f
    /\ \A p \in PB : p[1].x[1] < p[2].x[1]

(* To the application: answers, at most one of them to its newest request, *)
(* and that one said in the exchange both are in.                          *)
ToAppOk(e, f, k, TA, PA) ==
    /\ \A m \in TA : /\ m.turn.kind # "Open"
                     /\ Known(k, m.turn.rsp)
                     /\ Newest(k, m.turn.rsp) => m.x = e /\ e = f
    /\ \A p \in PA : ~(Newest(k, p[1].turn.rsp) /\ Newest(k, p[2].turn.rsp))

ExchangesOk(e, f, k) == f[1] <= e[1] /\ e[1] <= k /\ (f[1] = e[1] => f = e)

AppOk(s, u, e, f, k, TB) ==
    /\ P!Awaiting(s) => /\ Newest(k, s.out)
                        /\ \A m \in TB : m.x = e => Newest(k, m.turn.req)
    /\ P!Owing(s) => e = f
    /\ u # None => /\ s = P!AfterSend(u)
                   /\ u.kind = "Open" => f[1] < e[1]
                   /\ u.kind # "Open" => e = f

(* The move is in one place only.                                          *)
OneToken(s, u, e, k, TA, TB) ==
    /\ P!Owing(s) \/ u # None => /\ \A m \in TB : m.x # e
                                 /\ \A m \in TA : ~Newest(k, m.turn.rsp)
    /\ (\E m \in TB : m.x = e) => \A m \in TA : ~Newest(k, m.turn.rsp)

(* While the actor waits in the exchange the application is in, whatever   *)
(* has the move answers what it waits for; and with the application        *)
(* waiting too, the move is under way.                                     *)
TheyAgree(s, z, u, e, f, k, TA, TB, up) ==
    e = f /\ P!Awaiting(z) =>
        /\ P!Owing(s) => s.out = z.out
        /\ u # None => u.rsp = z.out
        /\ \A m \in TB : m.x = e => m.turn.rsp = z.out
        /\ \A m \in TA : Newest(k, m.turn.rsp) =>
              m.turn.kind = "Continue" /\ m.turn.req = z.out
        /\ up /\ P!Awaiting(s) => \/ u # None
                                  \/ \E m \in TB : m.x = e
                                  \/ \E m \in TA : Newest(k, m.turn.rsp)

TurnMessages == {m \in Message : m.turn # None}

Talk(s, z, u, e, f, k, TA, TB, PA, PB, up) ==
    /\ s \in P!TurnState /\ z \in P!TurnState /\ u \in P!Turn \cup {None}
    /\ e \in Nat \X Nat /\ f \in Nat \X Nat /\ k \in 0 .. MaxPosed
    /\ TA \subseteq TurnMessages /\ TB \subseteq TurnMessages
    /\ PA \subseteq TA \X TA /\ PB \subseteq TB \X TB
    /\ ~P!Owing(z)
    /\ ToActorOk(e, f, k, TB, PB)
    /\ ToAppOk(e, f, k, TA, PA)
    /\ ExchangesOk(e, f, k)
    /\ AppOk(s, u, e, f, k, TB)
    /\ OneToken(s, u, e, k, TA, TB)
    /\ TheyAgree(s, z, u, e, f, k, TA, TB, up)

(* A fresh id is unlike all that were used.                                *)
LEMMA FreshIds ==
    ASSUME NEW k \in 0 .. MaxPosed
    PROVE  /\ \A id : Newest(k, id) => Known(k, id)
           /\ \A id : Known(k, id) => id \in RequestIds /\ id # None
           /\ k < MaxPosed => /\ k + 1 \in 0 .. MaxPosed /\ PosedId[k + 1] \in RequestIds
                              /\ PosedId[k + 1] # None
                              /\ Newest(k + 1, PosedId[k + 1])
                              /\ \A id : Known(k, id) => Known(k + 1, id) /\ ~Newest(k + 1, id)
                              /\ ~Newest(k + 1, None)
  <1>1. \A id \in RequestIds : id # None
    BY NoneIsNothingElse
  <1>2. MaxPosed \in Nat /\ k \in Nat /\ \A i \in 1 .. MaxPosed : PosedId[i] \in RequestIds
    BY PosedIdsAreFresh
  <1>3. \A id : Newest(k, id) => Known(k, id)
    BY <1>2 DEF Newest, Known
  <1>4. \A id : Known(k, id) => id \in RequestIds
    BY <1>2 DEF Known
  <1>5. ASSUME k < MaxPosed
        PROVE  /\ k + 1 \in 1 .. MaxPosed /\ PosedId[k + 1] \in RequestIds
               /\ Newest(k + 1, PosedId[k + 1])
               /\ \A id : Known(k, id) => Known(k + 1, id) /\ ~Newest(k + 1, id)
    <2>1. k + 1 \in 1 .. MaxPosed /\ k + 1 >= 1
      BY <1>2, <1>5
    <2>2. ASSUME NEW id, Known(k, id) PROVE Known(k + 1, id) /\ ~Newest(k + 1, id)
      <3>1. PICK i \in 1 .. k : id = PosedId[i]
        BY <2>2 DEF Known
      <3>2. i \in 1 .. MaxPosed /\ i \in 1 .. (k + 1) /\ i # k + 1
        BY <1>2
      <3>3. PosedId[i] # PosedId[k + 1]
        BY <2>1, <3>2, PosedIdsAreFresh
      <3>4. QED
        BY <3>1, <3>2, <3>3 DEF Known, Newest
    <2>3. QED
      BY <1>2, <2>1, <2>2 DEF Newest
  <1>6. k < MaxPosed => ~Newest(k + 1, None) /\ PosedId[k + 1] # None
    BY <1>1, <1>5 DEF Newest
  <1>7. QED
    BY <1>1, <1>2, <1>3, <1>4, <1>5, <1>6

(* What the machines do, in the words of the phone's rulebook.             *)
LEMMA MachineMoves ==
    /\ \A s \in P!TurnState : /\ P!Owing(s) => ~P!Awaiting(s) /\ s.out \in RequestIds
                              /\ P!Awaiting(s) => s.out \in RequestIds
                              /\ P!Live(s) <=> P!Owing(s) \/ P!Awaiting(s)
    /\ \A t \in P!Turn : /\ P!AfterSend(t) \in P!TurnState
                         /\ ~P!Owing(P!AfterSend(t))
                         /\ P!Awaiting(P!AfterSend(t)) <=> t.kind # "Close"
                         /\ t.kind # "Close" => P!AfterSend(t).out = t.req
                         /\ P!AfterReceive(t) \in P!TurnState
                         /\ ~P!Awaiting(P!AfterReceive(t))
                         /\ P!Owing(P!AfterReceive(t)) <=> t.kind # "Close"
                         /\ t.kind # "Close" => P!AfterReceive(t).out = t.req
                         /\ t.kind \in {"Open", "Continue", "Close"}
                         /\ t.kind = "Close" <=> t.req = None
                         /\ t.req # None => t.req \in RequestIds
                         /\ t.kind # "Open" => t.rsp \in RequestIds
  <1>1. None \notin RequestIds
    BY NoneIsNothingElse
  <1>2. QED
    BY <1>1 DEF P!TurnState, P!Turn, P!Owing, P!Awaiting, P!Live, P!AfterSend, P!AfterReceive,
                P!Idle, P!AwaitingTheirTurn, P!OweThem

-----------------------------------------------------------------------------
(* What may happen to the conversation.                                    *)

(* Things get lost, a side dies or gives up: as long as both wait in one   *)
(* exchange, what was under way in it still is.                            *)
LEMMA Weakened ==
    ASSUME NEW s, NEW z, NEW u, NEW e, NEW f, NEW k, NEW TA, NEW TB, NEW PA, NEW PB, NEW up,
           Talk(s, z, u, e, f, k, TA, TB, PA, PB, up),
           NEW s2 \in P!TurnState, NEW z2 \in P!TurnState, NEW u2,
           NEW TA2 \in SUBSET TA, NEW TB2 \in SUBSET TB,
           NEW PA2 \in SUBSET (PA \cap (TA2 \X TA2)), NEW PB2 \in SUBSET (PB \cap (TB2 \X TB2)),
           NEW up2,
           s2 = s \/ ~P!Live(s2),
           z2 = z \/ ~P!Live(z2),
           (u2 = u /\ s2 = s) \/ u2 = None,
           (up2 /\ e = f /\ P!Awaiting(s2) /\ P!Awaiting(z2)) =>
               /\ up
               /\ u # None => u2 # None
               /\ \A m \in TB : m.x = e => m \in TB2
               /\ \A m \in TA : Newest(k, m.turn.rsp) => m \in TA2
    PROVE  Talk(s2, z2, u2, e, f, k, TA2, TB2, PA2, PB2, up2)
  <1>1. /\ P!Owing(s2) => s2 = s
        /\ P!Awaiting(s2) => s2 = s
        /\ ~P!Owing(z2)
        /\ P!Awaiting(z2) => z2 = z
        /\ u2 # None => u2 = u /\ s2 = s
    BY MachineMoves DEF Talk
  <1>2. /\ u2 \in P!Turn \cup {None}
        /\ TA2 \subseteq TurnMessages /\ TB2 \subseteq TurnMessages
        /\ PA2 \subseteq TA2 \X TA2 /\ PB2 \subseteq TB2 \X TB2
    BY DEF Talk
  <1>3. ToActorOk(e, f, k, TB2, PB2)
    BY DEF Talk, ToActorOk
  <1>4. ToAppOk(e, f, k, TA2, PA2)
    BY DEF Talk, ToAppOk
  <1>5. AppOk(s2, u2, e, f, k, TB2)
    BY <1>1 DEF Talk, AppOk
  <1>6. OneToken(s2, u2, e, k, TA2, TB2)
    BY <1>1 DEF Talk, OneToken
  <1>7. TheyAgree(s2, z2, u2, e, f, k, TA2, TB2, up2)
    BY <1>1 DEF Talk, TheyAgree
  <1>8. QED
    BY <1>1, <1>2, <1>3, <1>4, <1>5, <1>6, <1>7 DEF Talk

(* The application begins a new exchange, under an id and with a name of   *)
(* the exchange never used before.                                         *)
LEMMA Opened ==
    ASSUME NEW s, NEW z, NEW e, NEW f, NEW k, NEW TA, NEW TB, NEW PA, NEW PB, NEW up, NEW l \in Nat,
           Talk(s, z, None, e, f, k, TA, TB, PA, PB, up),
           k < MaxPosed, ~P!Owing(s)
    PROVE  LET t == P!Open(PosedId[k + 1])
           IN Talk(P!AfterSend(t), z, t, <<k + 1, l>>, f, k + 1, TA, TB, PA, PB, up)
  <1> DEFINE t  == P!Open(PosedId[k + 1])
             e2 == <<k + 1, l>>
             s2 == P!AfterSend(t)
  <1>1. /\ k \in 0 .. MaxPosed /\ k \in Nat /\ e \in Nat \X Nat /\ f \in Nat \X Nat
        /\ e[1] \in Nat /\ f[1] \in Nat /\ f[1] <= e[1] /\ e[1] <= k
        /\ TA \subseteq TurnMessages /\ TB \subseteq TurnMessages
    BY DEF Talk, ExchangesOk
  <1>2. /\ t \in P!Turn /\ t.kind = "Open" /\ t.req = PosedId[k + 1] /\ t # None
        /\ s2 \in P!TurnState /\ ~P!Owing(s2) /\ s2.out = PosedId[k + 1]
    <2>1. t \in P!Turn /\ t.kind = "Open" /\ t.req = PosedId[k + 1]
      BY <1>1, FreshIds DEF P!Turn, P!Open
    <2> HIDE DEF t
    <2>2. t # None /\ s2 \in P!TurnState /\ ~P!Owing(s2) /\ s2.out = PosedId[k + 1]
      BY <2>1, MachineMoves, NoneIsNothingElse
    <2>3. QED
      BY <2>1, <2>2
  <1>3. e2[1] = k + 1 /\ e2 \in Nat \X Nat /\ e2 # f
    BY <1>1
  <1>4. \A m \in TB : m.x \in Nat \X Nat /\ m.x[1] \in Nat /\ m.x[1] <= e[1]
    BY <1>1 DEF Talk, ToActorOk, TurnMessages, Message
  <1>5. \A m \in TB : m.x[1] < k + 1 /\ m.x # e2
    BY <1>1, <1>3, <1>4
  <1> HIDE DEF t, e2, s2
  <1>6. /\ \A id : Known(k, id) => Known(k + 1, id) /\ ~Newest(k + 1, id)
        /\ Newest(k + 1, PosedId[k + 1]) /\ ~Newest(k + 1, None) /\ k + 1 \in 0 .. MaxPosed
    BY <1>1, FreshIds
  <1>7. ToActorOk(e2, f, k + 1, TB, PB)
    <2>1. ASSUME NEW m \in TB
          PROVE  /\ m.turn.req # None => Known(k + 1, m.turn.req)
                 /\ m.x[1] <= e2[1] /\ m.x[1] # e2[1] /\ m.x # e2
                 /\ ~Newest(k + 1, m.turn.req)
                 /\ m.turn.kind = "Open" => f[1] < m.x[1]
                 /\ m.turn.kind # "Open" => m.x = f
      BY <1>1, <1>3, <1>4, <1>5, <1>6 DEF Talk, ToActorOk
    <2>2. QED
      BY <2>1 DEF Talk, ToActorOk
  <1>8. ToAppOk(e2, f, k + 1, TA, PA)
    BY <1>6 DEF Talk, ToAppOk
  <1>9. ExchangesOk(e2, f, k + 1)
    BY <1>1, <1>3 DEF ExchangesOk
  <1>10. AppOk(s2, t, e2, f, k + 1, TB)
    <2>1. f[1] < e2[1]
      BY <1>1, <1>3
    <2>2. QED
      BY <1>2, <1>5, <1>6, <2>1 DEF AppOk, s2
  <1>11. OneToken(s2, t, e2, k + 1, TA, TB)
    BY <1>5, <1>6 DEF OneToken, Talk, ToAppOk
  <1>12. TheyAgree(s2, z, t, e2, f, k + 1, TA, TB, up)
    BY <1>3 DEF TheyAgree
  <1>13. QED
    BY <1>2, <1>3, <1>6, <1>7, <1>8, <1>9, <1>10, <1>11, <1>12 DEF Talk, t, e2, s2

(* The application answers what it owes, with a request of its own ...     *)
LEMMA Continued ==
    ASSUME NEW s, NEW z, NEW e, NEW f, NEW k, NEW TA, NEW TB, NEW PA, NEW PB, NEW up,
           Talk(s, z, None, e, f, k, TA, TB, PA, PB, up),
           k < MaxPosed, P!Owing(s)
    PROVE  LET t == P!Continue(s.out, PosedId[k + 1])
           IN Talk(P!AfterSend(t), z, t, e, f, k + 1, TA, TB, PA, PB, up)
  <1> DEFINE t  == P!Continue(s.out, PosedId[k + 1])
             s2 == P!AfterSend(t)
  <1>1. /\ k \in 0 .. MaxPosed /\ k \in Nat /\ e[1] \in Nat /\ e[1] <= k /\ s \in P!TurnState
        /\ e = f
        /\ \A m \in TB : m.x # e
        /\ \A m \in TA : ~Newest(k, m.turn.rsp)
    BY DEF Talk, ExchangesOk, AppOk, OneToken
  <1>2. /\ t \in P!Turn /\ t.kind = "Continue" /\ t.req = PosedId[k + 1] /\ t.rsp = s.out /\ t # None
        /\ s2 \in P!TurnState /\ ~P!Owing(s2) /\ s2.out = PosedId[k + 1]
    <2>1. t \in P!Turn /\ t.kind = "Continue" /\ t.req = PosedId[k + 1] /\ t.rsp = s.out
      BY <1>1, FreshIds, MachineMoves DEF P!Turn, P!Continue
    <2> HIDE DEF t
    <2>2. t # None /\ s2 \in P!TurnState /\ ~P!Owing(s2) /\ s2.out = PosedId[k + 1]
      BY <2>1, MachineMoves, NoneIsNothingElse
    <2>3. QED
      BY <2>1, <2>2
  <1> HIDE DEF t, s2
  <1>3. /\ \A id : Known(k, id) => Known(k + 1, id) /\ ~Newest(k + 1, id)
        /\ Newest(k + 1, PosedId[k + 1]) /\ ~Newest(k + 1, None) /\ k + 1 \in 0 .. MaxPosed
    BY <1>1, FreshIds
  <1>4. ToActorOk(e, f, k + 1, TB, PB)
    <2>1. ASSUME NEW m \in TB
          PROVE  (m.turn.req # None => Known(k + 1, m.turn.req)) /\ ~Newest(k + 1, m.turn.req)
      BY <1>3 DEF Talk, ToActorOk
    <2>2. QED
      BY <1>1, <2>1 DEF Talk, ToActorOk
  <1>5. ToAppOk(e, f, k + 1, TA, PA)
    BY <1>3 DEF Talk, ToAppOk
  <1>6. ExchangesOk(e, f, k + 1)
    BY <1>1 DEF ExchangesOk
  <1>7. AppOk(s2, t, e, f, k + 1, TB)
    BY <1>1, <1>2, <1>3 DEF AppOk, s2
  <1>8. OneToken(s2, t, e, k + 1, TA, TB)
    BY <1>1, <1>3 DEF OneToken, Talk, ToAppOk
  <1>9. TheyAgree(s2, z, t, e, f, k + 1, TA, TB, up)
    BY <1>1, <1>2, <1>3 DEF TheyAgree, Talk, ToAppOk
  <1>10. QED
    BY <1>2, <1>3, <1>4, <1>5, <1>6, <1>7, <1>8, <1>9 DEF Talk, t, s2

(* ... or by closing.                                                      *)
LEMMA Concluded ==
    ASSUME NEW s, NEW z, NEW e, NEW f, NEW k, NEW TA, NEW TB, NEW PA, NEW PB, NEW up,
           Talk(s, z, None, e, f, k, TA, TB, PA, PB, up),
           P!Owing(s)
    PROVE  LET t == P!Close(s.out)
           IN Talk(P!AfterSend(t), z, t, e, f, k, TA, TB, PA, PB, up)
  <1> DEFINE t  == P!Close(s.out)
             s2 == P!AfterSend(t)
  <1>1. /\ s \in P!TurnState /\ e = f
        /\ \A m \in TB : m.x # e
        /\ \A m \in TA : ~Newest(k, m.turn.rsp)
    BY DEF Talk, AppOk, OneToken
  <1>2. /\ t \in P!Turn /\ t.kind = "Close" /\ t.rsp = s.out /\ t # None
        /\ s2 \in P!TurnState /\ ~P!Owing(s2) /\ ~P!Awaiting(s2)
    <2>1. t \in P!Turn /\ t.kind = "Close" /\ t.rsp = s.out
      BY <1>1, MachineMoves DEF P!Turn, P!Close
    <2> HIDE DEF t
    <2>2. t # None /\ s2 \in P!TurnState /\ ~P!Owing(s2) /\ ~P!Awaiting(s2)
      BY <2>1, MachineMoves, NoneIsNothingElse
    <2>3. QED
      BY <2>1, <2>2
  <1> HIDE DEF t, s2
  <1>3. AppOk(s2, t, e, f, k, TB)
    BY <1>1, <1>2 DEF AppOk, s2
  <1>4. OneToken(s2, t, e, k, TA, TB)
    BY <1>1 DEF OneToken
  <1>5. TheyAgree(s2, z, t, e, f, k, TA, TB, up)
    BY <1>1, <1>2 DEF TheyAgree, Talk
  <1>6. QED
    BY <1>2, <1>3, <1>4, <1>5 DEF Talk, t, s2

(* What is being sent joins the line, behind what was said in exchanges    *)
(* before.                                                                 *)
LEMMA HandedOver ==
    ASSUME NEW s, NEW z, NEW u, NEW e, NEW f, NEW k, NEW TA, NEW TB, NEW PA, NEW PB, NEW up,
           Talk(s, z, u, e, f, k, TA, TB, PA, PB, up),
           u # None,
           NEW m \in TurnMessages, m.turn = u, m.x = e,
           NEW TB2, TB2 = TB \cup {m},
           NEW PB2, PB2 \subseteq (PB \cup (TB \X {m})) \cap (TB2 \X TB2)
    PROVE  Talk(s, z, None, e, f, k, TA, TB2, PA, PB2, up)
  <1>1. /\ u \in P!Turn /\ s = P!AfterSend(u) /\ s \in P!TurnState
        /\ \A n \in TB : n.x # e
        /\ \A n \in TA : ~Newest(k, n.turn.rsp)
        /\ k \in 0 .. MaxPosed /\ e \in Nat \X Nat /\ e[1] \in Nat
    BY DEF Talk, AppOk, OneToken
  <1>2. /\ ~P!Owing(s)
        /\ P!Awaiting(s) <=> u.kind # "Close"
        /\ u.kind # "Close" => Newest(k, u.req) /\ Known(k, u.req) /\ u.req # None
        /\ u.kind = "Close" => u.req = None
    <2>1. /\ ~P!Owing(s) /\ (P!Awaiting(s) <=> u.kind # "Close")
          /\ u.kind # "Close" => s.out = u.req /\ u.req # None
          /\ u.kind = "Close" => u.req = None
      BY <1>1, MachineMoves
    <2>2. P!Awaiting(s) => Newest(k, s.out)
      BY DEF Talk, AppOk
    <2>3. QED
      BY <1>1, <2>1, <2>2, FreshIds
  <1>3. \A n \in TB : n.x[1] < e[1]
    <2>1. ASSUME NEW n \in TB PROVE n.x[1] < e[1]
      <3>1. n.x \in Nat \X Nat /\ n.x[1] \in Nat
        BY DEF Talk, TurnMessages, Message
      <3>2. n.x[1] <= e[1] /\ n.x[1] # e[1]
        BY <1>1 DEF Talk, ToActorOk
      <3>3. QED
        BY <1>1, <3>1, <3>2
    <2>2. QED
      BY <2>1
  <1>4. ToActorOk(e, f, k, TB2, PB2)
    <2>1. \A p \in PB2 : p[1].x[1] < p[2].x[1]
      <3>1. ASSUME NEW p \in PB2 PROVE p[1].x[1] < p[2].x[1]
        <4>1. CASE p \in PB
          BY <4>1 DEF Talk, ToActorOk
        <4>2. CASE p \in TB \X {m}
          BY <1>3, <4>2
        <4>3. QED
          BY <4>1, <4>2
      <3>2. QED
        BY <3>1
    <2>2. /\ m.turn.req # None => Known(k, m.turn.req)
          /\ m.x[1] <= e[1] /\ m.x = e
          /\ m.turn.req = None \/ Newest(k, m.turn.req)
          /\ m.turn.kind = "Open" => f[1] < m.x[1]
          /\ m.turn.kind # "Open" => m.x = f
      BY <1>1, <1>2 DEF Talk, AppOk
    <2>3. QED
      BY <2>1, <2>2 DEF Talk, ToActorOk
  <1>5. AppOk(s, None, e, f, k, TB2)
    BY <1>1, <1>2 DEF Talk, AppOk
  <1>6. OneToken(s, None, e, k, TA, TB2)
    BY <1>1, <1>2 DEF OneToken
  <1>7. TheyAgree(s, z, None, e, f, k, TA, TB2, up)
    BY <1>1, <1>2 DEF Talk, TheyAgree
  <1>8. QED
    BY <1>4, <1>5, <1>6, <1>7 DEF Talk

(* The application hears the first of what is said to it, and accepts it:  *)
(* it is the answer to its newest request, said in the exchange both are   *)
(* in, and nothing else of that exchange is under way.                     *)
LEMMA AppAccepts ==
    ASSUME NEW s, NEW z, NEW e, NEW f, NEW k, NEW TA, NEW TB, NEW PA, NEW PB, NEW up,
           Talk(s, z, None, e, f, k, TA, TB, PA, PB, up),
           NEW m \in TA, NEW TA2, NEW PA2,
           TA = TA2 \cup {m}, PA2 \subseteq PA \cap (TA2 \X TA2),
           \A n \in TA2 : <<m, n>> \in PA,
           P!CanReceive(s, m.turn)
    PROVE  /\ Talk(P!AfterReceive(m.turn), z, None, e, f, k, TA2, TB, PA2, PB, up)
           /\ m.x = e
  <1> DEFINE t  == m.turn
             s2 == P!AfterReceive(m.turn)
  <1>1. /\ t \in P!Turn /\ t.kind # "Open" /\ s \in P!TurnState
    BY DEF Talk, ToAppOk, TurnMessages, Message
  <1>2. P!Awaiting(s) /\ t.rsp = s.out
    BY <1>1 DEF P!CanReceive, P!Opens, P!Answers
  <1>3. Newest(k, t.rsp)
    BY <1>2 DEF Talk, AppOk
  <1>4. /\ m.x = e /\ e = f
        /\ \A n \in TB : n.x # e
    BY <1>3 DEF Talk, ToAppOk, OneToken
  <1>5. \A n \in TA2 : ~Newest(k, n.turn.rsp)
    <2>1. ASSUME NEW n \in TA2 PROVE ~Newest(k, n.turn.rsp)
      <3> DEFINE p == <<m, n>>
      <3>1. p \in PA /\ p[1] = m /\ p[2] = n
        OBVIOUS
      <3> HIDE DEF p
      <3>2. ~(Newest(k, p[1].turn.rsp) /\ Newest(k, p[2].turn.rsp))
        BY <3>1 DEF Talk, ToAppOk
      <3>3. QED
        BY <1>3, <3>1, <3>2
    <2>2. QED
      BY <2>1
  <1>6. /\ s2 \in P!TurnState /\ ~P!Awaiting(s2)
        /\ P!Owing(s2) <=> t.kind # "Close"
        /\ t.kind # "Close" => s2.out = t.req
    BY <1>1, MachineMoves
  <1> HIDE DEF t, s2
  <1>7. ToAppOk(e, f, k, TA2, PA2)
    BY DEF Talk, ToAppOk
  <1>8. AppOk(s2, None, e, f, k, TB)
    BY <1>4, <1>6 DEF AppOk
  <1>9. OneToken(s2, None, e, k, TA2, TB)
    BY <1>4, <1>5 DEF OneToken
  <1>10. TheyAgree(s2, z, None, e, f, k, TA2, TB, up)
    <2>1. e = f /\ P!Awaiting(z) => t.kind = "Continue" /\ t.req = z.out
      BY <1>3 DEF Talk, TheyAgree, t
    <2>2. QED
      BY <1>4, <1>5, <1>6, <2>1 DEF TheyAgree
  <1>11. QED
    BY <1>4, <1>6, <1>7, <1>8, <1>9, <1>10 DEF Talk, s2

(* r is the actor's answer to m, and joins what is said.                   *)
SaidInAnswer(r, m, f2, z2, TA, TA2, PA, PA2) ==
    /\ r \in TurnMessages
    /\ r.turn.kind \in {"Continue", "Close"}
    /\ r.turn.rsp = m.turn.req /\ m.turn.req # None
    /\ r.x = f2
    /\ z2 = P!AfterSend(r.turn)
    /\ TA2 = TA \cup {r}
    /\ PA2 \subseteq (PA \cup (TA \X {r})) \cap (TA2 \X TA2)

(* All that holds when the actor hears and accepts.                          *)
ActorHears(s, z, u, e, f, k, TA, TB, PA, PB, up, m, TB2, PB2, f2, z2, TA2, PA2, r) ==
    /\ Talk(s, z, u, e, f, k, TA, TB, PA, PB, up)
    /\ m \in TB /\ TB = TB2 \cup {m} /\ PB2 \subseteq PB \cap (TB2 \X TB2)
    /\ \A n \in TB2 : <<m, n>> \in PB
    /\ f2 = IF m.turn.kind = "Open" THEN m.x ELSE f
    /\ z2 \in P!TurnState
    /\ \/ TA2 = TA /\ PA2 = PA /\ ~P!Live(z2)
       \/ SaidInAnswer(r, m, f2, z2, TA, TA2, PA, PA2)

(* The actor hears the first of what is said to it, and accepts it; if it  *)
(* answers, the answer is under way or the exchange is dead.               *)
LEMMA ActorAccepts ==
    ASSUME NEW s, NEW z, NEW u, NEW e, NEW f, NEW k, NEW TA, NEW TB, NEW PA, NEW PB, NEW up,
           NEW m, NEW TB2, NEW PB2, NEW f2, NEW z2, NEW TA2, NEW PA2, NEW r,
           ActorHears(s, z, u, e, f, k, TA, TB, PA, PB, up, m, TB2, PB2, f2, z2, TA2, PA2, r)
    PROVE  /\ Talk(s, z2, u, e, f2, k, TA2, TB2, PA2, PB2, up)
           /\ f2 = m.x
  <1>0. /\ Talk(s, z, u, e, f, k, TA, TB, PA, PB, up)
        /\ m \in TB /\ TB = TB2 \cup {m} /\ PB2 \subseteq PB \cap (TB2 \X TB2)
        /\ \A n \in TB2 : <<m, n>> \in PB
        /\ f2 = IF m.turn.kind = "Open" THEN m.x ELSE f
        /\ z2 \in P!TurnState
        /\ \/ TA2 = TA /\ PA2 = PA /\ ~P!Live(z2)
           \/ SaidInAnswer(r, m, f2, z2, TA, TA2, PA, PA2)
    BY DEF ActorHears
  <1> USE <1>0
  <1> DEFINE t == m.turn
  <1>1. /\ e \in Nat \X Nat /\ f \in Nat \X Nat /\ m.x \in Nat \X Nat
        /\ e[1] \in Nat /\ f[1] \in Nat /\ m.x[1] \in Nat
        /\ \A n \in TB : n.x \in Nat \X Nat /\ n.x[1] \in Nat
        /\ t \in P!Turn
    BY DEF Talk, TurnMessages, Message
  <1>2. /\ f2 = m.x /\ m.x[1] <= e[1] /\ f[1] <= m.x[1] /\ f[1] <= e[1]
        /\ m.x[1] = e[1] => m.x = e
        /\ t.kind = "Open" => f[1] < m.x[1]
        /\ t.kind # "Open" => f2 = f
    BY <1>1 DEF Talk, ToActorOk, ExchangesOk
  (* The exchange both are in is not left behind by a newer opening.       *)
  <1>3. e = f => f2 = e
    BY <1>1, <1>2
  <1>4. \A n \in TB2 : n \in TB /\ m.x[1] < n.x[1] /\ n.turn.kind = "Open"
    <2>1. ASSUME NEW n \in TB2 PROVE m.x[1] < n.x[1] /\ n.turn.kind = "Open"
      <3> DEFINE p == <<m, n>>
      <3>1. p \in PB /\ p[1] = m /\ p[2] = n
        OBVIOUS
      <3> HIDE DEF p
      <3>2. p[1].x[1] < p[2].x[1]
        BY <3>1 DEF Talk, ToActorOk
      <3>3. n \in TB /\ m.x[1] < n.x[1]
        BY <3>1, <3>2
      <3>4. n.turn.kind # "Open" => n.x = f
        BY <3>3 DEF Talk, ToActorOk
      <3>5. QED
        BY <1>1, <1>2, <3>3, <3>4
    <2>2. QED
      BY <2>1
  <1>5. ToActorOk(e, f2, k, TB2, PB2)
    BY <1>2, <1>4 DEF Talk, ToActorOk
  <1>6. ExchangesOk(e, f2, k)
    BY <1>1, <1>2 DEF Talk, ExchangesOk
  <1>7. u # None => \A n \in TB : n.x # e
    BY DEF Talk, OneToken
  <1>8. AppOk(s, u, e, f2, k, TB2)
    <2>1. P!Owing(s) => e = f2
      BY <1>3 DEF Talk, AppOk
    <2>2. u # None /\ u.kind = "Open" => f2[1] < e[1]
      BY <1>1, <1>2, <1>7
    <2>3. u # None /\ u.kind # "Open" => e = f2
      BY <1>3 DEF Talk, AppOk
    <2>4. QED
      BY <1>4, <2>1, <2>2, <2>3 DEF Talk, AppOk
  <1>9. Newest(k, t.req) => m.x = e
    BY DEF Talk, ToActorOk
  <1>10. m.x = e => /\ ~P!Owing(s) /\ u = None
                    /\ \A n \in TA : ~Newest(k, n.turn.rsp)
                    /\ \A n \in TB2 : n.x # e
                    /\ P!Awaiting(s) => Newest(k, t.req)
    <2>1. ASSUME m.x = e PROVE \A n \in TB2 : n.x # e
      BY <1>1, <1>4, <2>1
    <2>2. QED
      BY <2>1 DEF Talk, OneToken, AppOk
  <1>11. \A n \in TA : Newest(k, n.turn.rsp) => n.x = e /\ e = f2
    BY <1>3 DEF Talk, ToAppOk
  <1>12. CASE TA2 = TA /\ PA2 = PA /\ ~P!Live(z2)
    <2>1. ~P!Owing(z2) /\ ~P!Awaiting(z2)
      BY <1>12, MachineMoves
    <2>2. ToAppOk(e, f2, k, TA, PA)
      BY <1>11 DEF Talk, ToAppOk
    <2>3. OneToken(s, u, e, k, TA, TB2)
      BY <1>4 DEF Talk, OneToken
    <2>4. TheyAgree(s, z2, u, e, f2, k, TA, TB2, up)
      BY <2>1 DEF TheyAgree
    <2>5. QED
      BY <1>1, <1>2, <1>4, <1>5, <1>6, <1>8, <1>12, <2>1, <2>2, <2>3, <2>4 DEF Talk
  <1>13. CASE SaidInAnswer(r, m, f2, z2, TA, TA2, PA, PA2)
    <2>a. /\ r \in TurnMessages /\ r.turn.kind \in {"Continue", "Close"}
          /\ r.turn.rsp = t.req /\ t.req # None
          /\ r.x = f2 /\ z2 = P!AfterSend(r.turn)
          /\ TA2 = TA \cup {r}
          /\ PA2 \subseteq (PA \cup (TA \X {r})) \cap (TA2 \X TA2)
      BY <1>13 DEF SaidInAnswer
    <2>1. r.turn \in P!Turn
      BY <2>a DEF TurnMessages, Message
    <2>2. /\ ~P!Owing(z2)
          /\ P!Awaiting(z2) => r.turn.kind = "Continue" /\ r.turn.req = z2.out
      BY <2>a, <2>1, MachineMoves
    <2>3. Newest(k, r.turn.rsp) => m.x = e
      BY <1>9, <2>a
    <2>4. ToAppOk(e, f2, k, TA2, PA2)
      <3>1. Known(k, r.turn.rsp)
        BY <2>a DEF Talk, ToActorOk
      <3>2. Newest(k, r.turn.rsp) => r.x = e /\ e = f2
        BY <1>2, <2>a, <2>3
      <3>3. \A p \in PA2 : ~(Newest(k, p[1].turn.rsp) /\ Newest(k, p[2].turn.rsp))
        <4>1. ASSUME NEW p \in PA2 PROVE ~(Newest(k, p[1].turn.rsp) /\ Newest(k, p[2].turn.rsp))
          <5>1. CASE p \in PA
            BY <5>1 DEF Talk, ToAppOk
          <5>2. CASE p \in TA \X {r}
            BY <1>10, <2>3, <5>2
          <5>3. QED
            BY <2>a, <5>1, <5>2
        <4>2. QED
          BY <4>1
      <3>4. \A n \in TA2 : /\ n.turn.kind # "Open"
                           /\ Known(k, n.turn.rsp)
                           /\ Newest(k, n.turn.rsp) => n.x = e /\ e = f2
        BY <1>11, <2>a, <3>1, <3>2 DEF Talk, ToAppOk
      <3>5. QED
        BY <3>3, <3>4 DEF ToAppOk
    <2>5. OneToken(s, u, e, k, TA2, TB2)
      <3>1. P!Owing(s) \/ u # None => ~Newest(k, r.turn.rsp)
        BY <1>10, <2>3
      <3>2. (\E n \in TB2 : n.x = e) => ~Newest(k, r.turn.rsp)
        BY <1>10, <2>3
      <3>3. QED
        BY <1>4, <2>a, <3>1, <3>2 DEF Talk, OneToken
    <2>6. TheyAgree(s, z2, u, e, f2, k, TA2, TB2, up)
      <3>1. SUFFICES ASSUME e = f2, P!Awaiting(z2)
                     PROVE  TheyAgree(s, z2, u, e, f2, k, TA2, TB2, up)
        BY DEF TheyAgree
      <3>2. m.x = e
        BY <1>2, <3>1
      <3>3. P!Awaiting(s) => Newest(k, r.turn.rsp) /\ r \in TA2
        BY <1>10, <2>a, <3>2
      <3>4. \A n \in TA2 : Newest(k, n.turn.rsp) => n.turn.kind = "Continue" /\ n.turn.req = z2.out
        BY <1>10, <2>a, <2>2, <3>1, <3>2
      <3>5. QED
        BY <1>10, <3>2, <3>3, <3>4 DEF TheyAgree
    <2>7. TA2 \subseteq TurnMessages /\ PA2 \subseteq TA2 \X TA2
      BY <2>a DEF Talk
    <2>8. QED
      BY <1>1, <1>2, <1>4, <1>5, <1>6, <1>8, <2>2, <2>4, <2>5, <2>6, <2>7 DEF Talk
  <1>14. QED
    BY <1>2, <1>12, <1>13

(* What the application refuses was no part of a conversation in which     *)
(* both wait for each other, ...                                           *)
LEMMA AppRefuses ==
    ASSUME NEW s, NEW z, NEW e, NEW f, NEW k, NEW TA, NEW TB, NEW PA, NEW PB, NEW up,
           Talk(s, z, None, e, f, k, TA, TB, PA, PB, up),
           NEW m \in TA, NEW TA2, NEW PA2,
           TA = TA2 \cup {m}, PA2 \subseteq PA \cap (TA2 \X TA2),
           ~P!CanReceive(s, m.turn)
    PROVE  Talk(s, z, None, e, f, k, TA2, TB, PA2, PB, up)
  <1>1. ~(P!Awaiting(s) /\ Newest(k, m.turn.rsp))
    <2>1. SUFFICES ASSUME P!Awaiting(s), Newest(k, m.turn.rsp)
                   PROVE  P!CanReceive(s, m.turn)
      OBVIOUS
    <2>2. m.turn.kind \in {"Continue", "Close"}
      BY MachineMoves DEF Talk, ToAppOk, TurnMessages, Message
    <2>3. m.turn.rsp = s.out
      BY <2>1 DEF Talk, AppOk, Newest
    <2>4. QED
      BY <2>1, <2>2, <2>3 DEF P!CanReceive, P!Answers
  <1>2. /\ s \in P!TurnState /\ z \in P!TurnState
        /\ PB \subseteq TB \X TB
    BY DEF Talk
  <1>3. QED
    BY <1>1, <1>2, Weakened

(* ... nor what the actor refuses, or will not hear.                       *)
LEMMA ActorRefuses ==
    ASSUME NEW s, NEW z, NEW u, NEW e, NEW f, NEW k, NEW TA, NEW TB, NEW PA, NEW PB, NEW up,
           Talk(s, z, u, e, f, k, TA, TB, PA, PB, up),
           NEW m \in TB, NEW TB2, NEW PB2,
           TB = TB2 \cup {m}, PB2 \subseteq PB \cap (TB2 \X TB2),
           ~P!CanReceive(z, m.turn) \/ ~P!Live(z)
    PROVE  Talk(s, z, u, e, f, k, TA, TB2, PA, PB2, up)
  <1>1. ~(e = f /\ P!Awaiting(z) /\ m.x = e)
    <2>1. SUFFICES ASSUME e = f, P!Awaiting(z), m.x = e
                   PROVE  P!CanReceive(z, m.turn)
      BY MachineMoves DEF Talk
    <2>2. m.turn.kind # "Open"
      <3>1. f[1] \in Nat
        BY DEF Talk
      <3>2. QED
        BY <2>1, <3>1 DEF Talk, ToActorOk
    <2>3. m.turn.kind \in {"Continue", "Close"}
      BY <2>2, MachineMoves DEF Talk, TurnMessages, Message
    <2>4. m.turn.rsp = z.out
      BY <2>1 DEF Talk, TheyAgree
    <2>5. QED
      BY <2>1, <2>3, <2>4 DEF P!CanReceive, P!Answers
  <1>2. /\ s \in P!TurnState /\ z \in P!TurnState
        /\ PA \subseteq TA \X TA
    BY DEF Talk
  <1>3. QED
    BY <1>1, <1>2, Weakened

-----------------------------------------------------------------------------
(* The actor's runtime.  What LocalRuntimeProofs proves of any runtime     *)
(* holds of this one: its constants are as that module assumes.            *)
LEMMA ActorConstants ==
    /\ R!Setup = RP!Setup /\ R!FailureCauses = RP!FailureCauses
    /\ P!Turn = RP!Turn /\ P!AckWait = RP!AckWait
    /\ None \notin RequestIds
    /\ ActorAck \in Nat /\ ActorTurn \in Nat /\ MaxLate \in Nat
    /\ None \notin Int /\ None \notin RP!AckWait
    /\ Rounds \in Nat /\ AskCycle \in Nat \ {0}
    /\ AskId \in [0 .. AskCycle - 1 -> RequestIds]
    /\ [x \in {a} |-> A] \in [{a} -> {A}]
    /\ [n \in {actorName} |-> {TheActor}] \in [{actorName} -> SUBSET RP!Setup]
    /\ None \notin RP!Setup /\ None \notin RP!Turn
    /\ None \notin RP!FailureCauses
  <1>1. /\ R!Setup = RP!Setup /\ R!FailureCauses = RP!FailureCauses
        /\ P!Turn = RP!Turn /\ P!AckWait = RP!AckWait
    BY DEF R!Setup, RP!Setup, R!FailureCauses, RP!FailureCauses, R!DeadlineCauses, RP!DeadlineCauses,
           P!Turn, RP!Turn, P!AckWait, RP!AckWait
  <1>2. TheActor \in RP!Setup
    BY PartyIsStock DEF TheActor, RP!Setup
  <1>3. /\ ActorAck \in Nat /\ ActorTurn \in Nat /\ MaxLate \in Nat
        /\ None \notin RequestIds /\ None \notin Int
    BY PatiencesAreFinite, NoneIsNothingElse
  <1>4. None \notin RP!AckWait /\ None \notin RP!Turn /\ None \notin RP!Setup /\ None \notin RP!FailureCauses
    BY <1>1, NoneIsNothingElse
  <1>5. QED
    BY <1>1, <1>2, <1>3, <1>4, PartyIsStock

LEMMA RuntimeKeeps == RP!RuntimeInv /\ [RP!Next]_(RP!vars) => RP!RuntimeInv'
  BY ActorConstants, RP!NextInv

(* The words of the phone's rulebook, of the runtime and of its proofs     *)
(* mean the same.                                                          *)
LEMMA SameRules ==
    /\ RP!TurnState = P!TurnState /\ RP!Turn = P!Turn
    /\ \A s : /\ RP!Live(s) = P!Live(s) /\ RP!Owing(s) = P!Owing(s)
              /\ R!Live(s) = P!Live(s) /\ RP!Fail(s) = P!Fail(s)
    /\ \A s, t : RP!CanReceive(s, t) = P!CanReceive(s, t) /\ R!CanReceive(s, t) = P!CanReceive(s, t)
    /\ \A t : RP!AfterSend(t) = P!AfterSend(t) /\ RP!AfterReceive(t) = P!AfterReceive(t)
  BY DEF RP!TurnState, P!TurnState, RP!Turn, P!Turn, RP!Live, P!Live, R!Live, RP!Owing, P!Owing, R!Owing,
         RP!Awaiting, P!Awaiting, R!Awaiting, RP!CanReceive, P!CanReceive, R!CanReceive,
         RP!Opens, P!Opens, R!Opens, RP!Answers, P!Answers, R!Answers,
         RP!AfterSend, P!AfterSend, RP!AfterReceive, P!AfterReceive,
         RP!Idle, P!Idle, RP!AwaitingTheirTurn, P!AwaitingTheirTurn, RP!OweThem, P!OweThem,
         RP!Fail, P!Fail, RP!Failed, P!Failed

LEMMA SameTakeDeath == \A e : R!TakeDeath(actorName, e) <=> RP!TakeDeath(actorName, e)
  BY DEF R!TakeDeath, RP!TakeDeath, R!Up, RP!Up, R!Doomed, RP!Doomed, R!Live,
         RP!Live, R!Awaiting, RP!Awaiting, R!Owing, RP!Owing, R!FailExchanges,
         RP!FailExchanges, R!BrokenAll, RP!BrokenAll, R!Broken, RP!Broken,
         R!Settled, RP!Settled, R!Walked, RP!Walked, R!Fail, RP!Fail, R!Failed,
         RP!Failed, R!FailedMinds, RP!FailedMinds, R!Stock, RP!Stock,
         R!FailedMind, RP!FailedMind, R!ExchangeFailed, RP!ExchangeFailed,
         R!LiveAt, RP!LiveAt

LEMMA SameTakeDeadline == R!TakeDeadline(actorName) <=> RP!TakeDeadline(actorName)
  BY DEF R!TakeDeadline, RP!TakeDeadline, R!Up, RP!Up, R!Doomed, RP!Doomed,
         R!Live, RP!Live, R!Awaiting, RP!Awaiting, R!Owing, RP!Owing,
         R!Earliest, RP!Earliest, R!Waiting, RP!Waiting, R!DueLeft, RP!DueLeft,
         R!DueKind, RP!DueKind, R!Overdue, RP!Overdue, R!FailExchanges,
         RP!FailExchanges, R!BrokenAll, RP!BrokenAll, R!Broken, RP!Broken,
         R!Settled, RP!Settled, R!Walked, RP!Walked, R!Fail, RP!Fail, R!Failed,
         RP!Failed, R!FailedMinds, RP!FailedMinds, R!Stock, RP!Stock,
         R!FailedMind, RP!FailedMind, R!ExchangeFailed, RP!ExchangeFailed

LEMMA SameDeny == R!Deny(actorName, a) <=> RP!Deny(actorName, a)
  BY DEF R!Deny, RP!Deny, R!Ready, RP!Ready, R!Up, RP!Up, R!Doomed, RP!Doomed,
         R!Live, RP!Live, R!Awaiting, RP!Awaiting, R!Owing, RP!Owing,
         R!Earliest, RP!Earliest, R!Waiting, RP!Waiting, R!DueLeft, RP!DueLeft,
         R!DueKind, RP!DueKind, R!Overdue, RP!Overdue, R!Admitted, RP!Admitted,
         R!HeardFrom, RP!HeardFrom, R!DeliveryDenied, RP!DeliveryDenied

LEMMA SameTakeAck == \A id : R!TakeAck(actorName, a, id) <=> RP!TakeAck(actorName, a, id)
  BY DEF R!TakeAck, RP!TakeAck, R!Ready, RP!Ready, R!Up, RP!Up, R!Doomed,
         RP!Doomed, R!Live, RP!Live, R!Awaiting, RP!Awaiting, R!Owing,
         RP!Owing, R!Earliest, RP!Earliest, R!Waiting, RP!Waiting, R!DueLeft,
         RP!DueLeft, R!DueKind, RP!DueKind, R!Overdue, RP!Overdue, R!Admitted,
         RP!Admitted, R!HeardFrom, RP!HeardFrom, R!Acked, RP!Acked

LEMMA SameDropIllegalTurn == \A t : R!DropIllegalTurn(actorName, a, t) <=> RP!DropIllegalTurn(actorName, a, t)
  BY DEF R!DropIllegalTurn, RP!DropIllegalTurn, R!Ready, RP!Ready, R!Up, RP!Up,
         R!Doomed, RP!Doomed, R!Live, RP!Live, R!Awaiting, RP!Awaiting,
         R!Owing, RP!Owing, R!Earliest, RP!Earliest, R!Waiting, RP!Waiting,
         R!DueLeft, RP!DueLeft, R!DueKind, RP!DueKind, R!Overdue, RP!Overdue,
         R!Admitted, RP!Admitted, R!CanReceive, RP!CanReceive, R!Opens,
         RP!Opens, R!Answers, RP!Answers, R!HeardFrom, RP!HeardFrom,
         R!IllegalTurnDropped, RP!IllegalTurnDropped, R!ReceiveError,
         RP!ReceiveError, R!Failed, RP!Failed, R!Idle, RP!Idle

LEMMA SameTakeTurn == \A t, reply, ok : R!TakeTurn(actorName, a, t, reply, ok) <=> RP!TakeTurn(actorName, a, t, reply, ok)
  BY DEF R!TakeTurn, RP!TakeTurn, R!Received, RP!Received, R!Settled,
         RP!Settled, R!Walked, RP!Walked, R!AfterReceive, RP!AfterReceive,
         R!Idle, RP!Idle, R!OweThem, RP!OweThem, R!ReplyVerdict,
         RP!ReplyVerdict, R!CanSend, RP!CanSend, R!Opens, RP!Opens, R!Owing,
         RP!Owing, R!Answers, RP!Answers, R!Stock, RP!Stock, R!Up, RP!Up,
         R!StockMind, RP!StockMind, R!CanReceive, RP!CanReceive, R!Awaiting,
         RP!Awaiting, R!Asks, RP!Asks, R!AfterSend, RP!AfterSend,
         R!AwaitingTheirTurn, RP!AwaitingTheirTurn, R!StockReply,
         RP!StockReply, R!Continue, RP!Continue, R!Close, RP!Close, R!Ready,
         RP!Ready, R!Doomed, RP!Doomed, R!Live, RP!Live, R!Earliest,
         RP!Earliest, R!Waiting, RP!Waiting, R!DueLeft, RP!DueLeft, R!DueKind,
         RP!DueKind, R!Overdue, RP!Overdue, R!Admitted, RP!Admitted, R!Replies,
         RP!Replies, R!AnswersOf, RP!AnswersOf, R!Turn, RP!Turn, R!HeardFrom,
         RP!HeardFrom, R!Replied, RP!Replied, R!Broken, RP!Broken, R!Fail,
         RP!Fail, R!Failed, RP!Failed, R!Sent, RP!Sent, R!Armed, RP!Armed,
         R!FailedMind, RP!FailedMind, R!ExchangeFailed, RP!ExchangeFailed,
         R!BeginsAnew, RP!BeginsAnew

LEMMA SameTick == R!Tick <=> RP!Tick
  BY DEF R!Tick, RP!Tick, R!Waiting, RP!Waiting, R!MayAge, RP!MayAge,
         R!DueLeft, RP!DueLeft, R!DueKind, RP!DueKind, R!Aged, RP!Aged

LEMMA SameRevoke == \A e : R!Revoke(actorName, e) <=> RP!Revoke(actorName, e)
  BY DEF R!Revoke, RP!Revoke, R!Up, RP!Up, R!FailExchanges, RP!FailExchanges,
         R!BrokenAll, RP!BrokenAll, R!Broken, RP!Broken, R!Settled, RP!Settled,
         R!Walked, RP!Walked, R!Fail, RP!Fail, R!Live, RP!Live, R!Awaiting,
         RP!Awaiting, R!Owing, RP!Owing, R!Failed, RP!Failed, R!FailedMinds,
         RP!FailedMinds, R!Stock, RP!Stock, R!FailedMind, RP!FailedMind,
         R!ExchangeFailed, RP!ExchangeFailed, R!LiveAt, RP!LiveAt

LEMMA SameAdmit == \A e : R!Admit(actorName, e) <=> RP!Admit(actorName, e)
  BY DEF R!Admit, RP!Admit, R!Up, RP!Up

LEMMA SameStockReply == \A party, m, t : R!StockReply(party, m, t) = RP!StockReply(party, m, t)
  BY DEF R!StockReply, RP!StockReply, R!CanReceive, RP!CanReceive, R!Opens,
         RP!Opens, R!Awaiting, RP!Awaiting, R!Answers, RP!Answers, R!Asks,
         RP!Asks, R!Continue, RP!Continue, R!Close, RP!Close

ActorStands == actor[actorName] # None /\ actor[actorName].party = ActorParty

LEMMA SideTypes ==
    ASSUME RP!RuntimeInv
    PROVE  /\ actor \in [{actorName} -> RP!Setup \cup {None}]
           /\ conv \in [{actorName} -> [{a} -> RP!Side]]
           /\ mind \in [{actorName} -> [{a} -> RP!Mind]]
           /\ side \in RP!Side /\ side.state \in P!TurnState
           /\ mind[actorName][a] \in RP!Mind
           /\ actorName \in {actorName} /\ a \in {a}
           /\ RP!Up(actorName) /\ P!Live(side.state) => A \in actor[actorName].allow
  <1>1. RP!RuntimeTypeOK /\ RP!LivePeersAreAdmitted
    BY DEF RP!RuntimeInv
  <1>2. side \in RP!Side
    BY <1>1 DEF RP!RuntimeTypeOK, side
  <1>3. side.state \in P!TurnState
    BY <1>2, SameRules DEF RP!Side
  <1>4. P!Live(side.state) => A \in actor[actorName].allow
    BY <1>1, SameRules DEF RP!LivePeersAreAdmitted, RP!Admitted, side
  <1>5. QED
    BY <1>1, <1>2, <1>3, <1>4 DEF RP!RuntimeTypeOK

LEMMA NextSideState ==
    ASSUME RP!RuntimeInv'
    PROVE  side'.state \in P!TurnState
  BY SameRules DEF RP!RuntimeInv, RP!RuntimeTypeOK, RP!Side, side

(* A step that fails exchanges moves the machine nowhere but to its death. *)
LEMMA FailingStep ==
    ASSUME RP!RuntimeInv, ActorStands,
           \/ R!TakeDeath(actorName, A)
           \/ R!TakeDeadline(actorName)
           \/ R!Revoke(actorName, A)
    PROVE  /\ RP!RuntimeInv' /\ ActorStands'
           /\ side'.state = side.state \/ ~P!Live(side'.state)
  <1>1. \/ RP!TakeDeath(actorName, A)
        \/ RP!TakeDeadline(actorName)
        \/ RP!Revoke(actorName, A)
    BY SameTakeDeath, SameTakeDeadline, SameRevoke
  <1>2. RP!RuntimeInv'
    <2>1. RP!Next
      BY <1>1 DEF RP!Next, RP!Step, RP!Operate
    <2>2. QED
      BY <2>1, RuntimeKeeps
  <1>3. ActorStands'
    <2>1. /\ actor[actorName] \in RP!Setup
          /\ actor' = actor \/ actor' = [actor EXCEPT ![actorName].allow = @ \ {A}]
      BY <1>1, SideTypes DEF ActorStands, RP!TakeDeath, RP!TakeDeadline, RP!Revoke
    <2>2. QED
      BY <2>1, SideTypes, ActorConstants DEF ActorStands, RP!Setup
  <1>4. \E ps : conv' = [conv EXCEPT ![actorName] = RP!BrokenAll(conv[actorName], ps)]
    BY <1>1 DEF RP!TakeDeath, RP!TakeDeadline, RP!Revoke, RP!FailExchanges
  <1>5. side' = side \/ side' = RP!Broken(side)
    BY <1>4, SideTypes DEF RP!BrokenAll, side
  <1>6. ~P!Live(RP!Broken(side).state)
    BY SideTypes, ActorConstants, SameRules, RP!BrokenSide
  <1>7. QED
    BY <1>2, <1>3, <1>5, <1>6

(* The others that are not about a turn it accepts leave it where it was.  *)
LEMMA StandingStep ==
    ASSUME RP!RuntimeInv, ActorStands,
           \/ R!Deny(actorName, a)
           \/ \E id \in RequestIds : R!TakeAck(actorName, a, id)
           \/ \E t \in P!Turn : R!DropIllegalTurn(actorName, a, t)
           \/ R!Tick
           \/ R!Admit(actorName, A)
    PROVE  /\ RP!RuntimeInv' /\ ActorStands'
           /\ side'.state = side.state
  <1>1. \/ RP!Deny(actorName, a)
        \/ \E id \in RequestIds : RP!TakeAck(actorName, a, id)
        \/ \E t \in RP!Turn : RP!DropIllegalTurn(actorName, a, t)
        \/ RP!Tick
        \/ RP!Admit(actorName, A)
    BY SameDeny, SameTakeAck, SameDropIllegalTurn, SameTick, SameAdmit, SameRules
  <1>2. RP!RuntimeInv'
    <2>1. RP!Next
      BY <1>1 DEF RP!Next, RP!Step, RP!Operate, RP!Deliver
    <2>2. QED
      BY <2>1, RuntimeKeeps
  <1>3. ActorStands'
    <2>1. /\ actor[actorName] \in RP!Setup
          /\ actor' = actor \/ actor' = [actor EXCEPT ![actorName].allow = @ \cup {A}]
      BY <1>1, SideTypes
         DEF ActorStands, RP!Deny, RP!TakeAck, RP!DropIllegalTurn, RP!Tick, RP!Admit
    <2>2. QED
      BY <2>1, SideTypes, ActorConstants DEF ActorStands, RP!Setup
  <1>4. \/ conv' = conv
        \/ \E id : conv' = [conv EXCEPT ![actorName][a] = RP!Acked(conv[actorName][a], id)]
        \/ conv' = [n \in {actorName} |-> [p \in {a} |-> RP!Aged(conv[n][p])]]
    BY <1>1 DEF RP!Deny, RP!TakeAck, RP!DropIllegalTurn, RP!Tick, RP!Admit
  <1>5. side' = side \/ (\E id : side' = RP!Acked(side, id)) \/ side' = RP!Aged(side)
    BY <1>4, SideTypes DEF side
  <1>6. RP!Aged(side).state = side.state /\ \A id : RP!Acked(side, id).state = side.state
    BY SideTypes, ActorConstants, RP!AgedSide, RP!AckedSide
  <1>7. QED
    BY <1>2, <1>3, <1>5, <1>6

(* A turn that is accepted: if it poses a request it is answered, and the  *)
(* machine then waits for an answer in turn, is at rest, or - the answer   *)
(* cannot be sent - is dead.                                               *)
LEMMA TurnStep ==
    ASSUME RP!RuntimeInv, ActorStands, NEW t \in P!Turn, NEW ok \in BOOLEAN,
           NEW reply, reply = R!StockReply(ActorParty, mind[actorName][a], t),
           R!TakeTurn(actorName, a, t, reply, ok)
    PROVE  /\ RP!RuntimeInv' /\ ActorStands'
           /\ P!CanReceive(side.state, t)
           /\ reply \in P!Turn \cup {None}
           /\ reply = None => ~P!Live(side'.state)
           /\ ~ok => ~P!Live(side'.state)
           /\ reply # None => /\ t.req # None
                              /\ reply.kind \in {"Continue", "Close"} /\ reply.rsp = t.req
                              /\ ok => side'.state = P!AfterSend(reply)
  <1> DEFINE c == RP!Received(side, t)
             m == mind[actorName][a]
  <1>1. RP!TakeTurn(actorName, a, t, reply, ok) /\ P!CanReceive(side.state, t)
    BY SameTakeTurn, SameRules DEF R!TakeTurn, side
  <1>2. reply = RP!StockReply(ActorParty, m, t)
    BY SameStockReply
  <1>3. reply \in RP!Turn \cup {None} /\ t \in RP!Turn /\ m \in RP!Mind /\ side \in RP!Side
    BY <1>2, SideTypes, SameRules, ActorConstants, RP!StockReplyType
  <1>4. RP!RuntimeInv'
    <2>1. RP!Next
      BY <1>1, <1>3 DEF RP!Next, RP!Step, RP!Deliver
    <2>2. QED
      BY <2>1, RuntimeKeeps
  <1>5. ActorStands'
    BY <1>1 DEF RP!TakeTurn, ActorStands
  <1>6. RP!Stock(actorName) /\ m.shadow = side.state
    <2>1. RP!Stock(actorName)
      BY PartyIsStock DEF RP!Stock, RP!Up, ActorStands
    <2>2. QED
      BY <2>1, SideTypes DEF RP!RuntimeInv, RP!ShadowsAgree, side
  <1>7. RP!CanReceive(m.shadow, t)
    BY <1>1, <1>6, SameRules
  <1>8. /\ t.req = None => reply = None
        /\ t.req # None => /\ reply \in RP!Turn
                           /\ reply.kind \in {"Continue", "Close"}
                           /\ reply.rsp = t.req
    BY <1>2, <1>3, <1>7, ActorConstants, RP!StockReplyType
  <1>9. side' = RP!Replied(c, reply, ok)
    BY <1>1, SideTypes DEF RP!TakeTurn, side
  <1>10. c \in RP!Side /\ c.state = P!AfterReceive(t) /\ RP!WaitsFit(c)
    BY <1>3, ActorConstants, SameRules, RP!ReceivedSide
  <1>11. reply = None => side' = c /\ ~P!Live(side'.state)
    <2>1. ASSUME reply = None PROVE t.kind = "Close"
      BY <1>8, <2>1, MachineMoves, ActorConstants
    <2>2. reply = None => RP!Replied(c, reply, ok) = c
      BY DEF RP!Replied
    <2> HIDE DEF c
    <2>3. t.kind = "Close" => ~P!Live(P!AfterReceive(t))
      BY MachineMoves
    <2>4. QED
      BY <1>9, <1>10, <2>1, <2>2, <2>3
  <1>12. reply # None => P!Owing(c.state) /\ c.state.out = t.req /\ RP!CanSend(c.state, reply)
    <2>1. SUFFICES ASSUME reply # None
                   PROVE  P!Owing(c.state) /\ c.state.out = t.req /\ RP!CanSend(c.state, reply)
      OBVIOUS
    <2>2. P!Owing(c.state) /\ c.state.out = t.req
      BY <1>8, <1>10, <2>1, MachineMoves
    <2>3. RP!Owing(c.state)
      BY <2>2, SameRules
    <2> HIDE DEF c
    <2>4. QED
      BY <1>8, <2>1, <2>2, <2>3 DEF RP!CanSend, RP!Answers
  <1> HIDE DEF c
  <1>13. ASSUME reply # None
         PROVE  IF ok THEN side'.state = RP!AfterSend(reply)
                      ELSE side'.state = RP!Fail(RP!AfterSend(reply))
    BY <1>3, <1>9, <1>10, <1>12, <1>13, ActorConstants, RP!RepliedSide
  <1>14. reply # None /\ ~ok => ~P!Live(side'.state)
    BY <1>3, <1>13, SameRules, MachineMoves DEF P!Fail, P!Failed, P!Live, P!Owing, P!Awaiting
  <1>15. QED
    BY <1>1, <1>3, <1>4, <1>5, <1>8, <1>11, <1>13, <1>14, SameRules

-----------------------------------------------------------------------------
(* The conversation over a network.                                        *)
TalkOver(s, z, u, e, f, k, n) ==
    Talk(s, z, u, e, f, k,
         Said(OnTheWay(n, b, a)), Said(OnTheWay(n, a, b)),
         InTurn(OnTheWay(n, b, a)), InTurn(OnTheWay(n, a, b)), N!Bound(n, a))

LEMMA SidesWeakened ==
    ASSUME NEW s, NEW z, NEW u, NEW e, NEW f, NEW k, NEW n,
           TalkOver(s, z, u, e, f, k, n),
           NEW s2 \in P!TurnState, NEW z2 \in P!TurnState, NEW u2,
           s2 = s \/ ~P!Live(s2),
           z2 = z \/ ~P!Live(z2),
           (u2 = u /\ s2 = s) \/ u2 = None,
           P!Live(s2) /\ u # None => u2 # None
    PROVE  TalkOver(s2, z2, u2, e, f, k, n)
  <1> DEFINE TA == Said(OnTheWay(n, b, a))
             TB == Said(OnTheWay(n, a, b))
             PA == InTurn(OnTheWay(n, b, a))
             PB == InTurn(OnTheWay(n, a, b))
             up == N!Bound(n, a)
  <1>1. Talk(s, z, u, e, f, k, TA, TB, PA, PB, up)
    BY DEF TalkOver
  <1> HIDE DEF TA, TB, PA, PB, up
  <1>2. PA \subseteq TA \X TA /\ PB \subseteq TB \X TB
    BY <1>1 DEF Talk
  <1>3. P!Awaiting(s2) => P!Live(s2)
    BY MachineMoves
  <1>4. Talk(s2, z2, u2, e, f, k, TA, TB, PA, PB, up)
    BY <1>1, <1>2, <1>3, Weakened
  <1>5. QED
    BY <1>4 DEF TalkOver, TA, TB, PA, PB, up

LEMMA LinesSame ==
    ASSUME NEW s, NEW z, NEW u, NEW e, NEW f, NEW k, NEW n, NEW m,
           TalkOver(s, z, u, e, f, k, n),
           N!Bound(m, a) = N!Bound(n, a),
           \A x \in {a, b} : /\ Said(OnTheWay(m, Other(x), x)) = Said(OnTheWay(n, Other(x), x))
                             /\ InTurn(OnTheWay(m, Other(x), x)) = InTurn(OnTheWay(n, Other(x), x))
    PROVE  TalkOver(s, z, u, e, f, k, m)
  BY Others DEF TalkOver

(* A receipt that is taken leaves what is said on its line as it was.      *)
LEMMA LineShorter ==
    ASSUME NEW s, NEW z, NEW u, NEW e, NEW f, NEW k, NEW n, NEW m,
           TalkOver(s, z, u, e, f, k, n),
           N!Bound(m, a) = N!Bound(n, a), NEW t \in {a, b},
           OnTheWay(m, t, Other(t)) = OnTheWay(n, t, Other(t)),
           Said(OnTheWay(m, Other(t), t)) = Said(OnTheWay(n, Other(t), t)),
           InTurn(OnTheWay(m, Other(t), t)) \subseteq InTurn(OnTheWay(n, Other(t), t))
    PROVE  TalkOver(s, z, u, e, f, k, m)
  <1> DEFINE TA == Said(OnTheWay(n, b, a))
             TB == Said(OnTheWay(n, a, b))
             PA == InTurn(OnTheWay(n, b, a))
             PB == InTurn(OnTheWay(n, a, b))
             up == N!Bound(n, a)
             PA2 == InTurn(OnTheWay(m, b, a))
             PB2 == InTurn(OnTheWay(m, a, b))
  <1>1. Talk(s, z, u, e, f, k, TA, TB, PA, PB, up)
    BY DEF TalkOver
  <1>2. /\ Said(OnTheWay(m, b, a)) = TA /\ Said(OnTheWay(m, a, b)) = TB
        /\ PA2 \subseteq PA /\ PB2 \subseteq PB
    BY Others
  <1> HIDE DEF TA, TB, PA, PB, up, PA2, PB2
  <1>3. PA \subseteq TA \X TA /\ PB \subseteq TB \X TB /\ s \in P!TurnState /\ z \in P!TurnState
    BY <1>1 DEF Talk
  <1>4. Talk(s, z, u, e, f, k, TA, TB, PA2, PB2, up)
    BY <1>1, <1>2, <1>3, Weakened
  <1>5. QED
    BY <1>2, <1>4 DEF TalkOver, TA, TB, PA2, PB2, up

(* Without a mailbox to hear from, the application may lose everything     *)
(* said to it, if it no longer waits or for as long as it has none.        *)
LEMMA MailboxLost ==
    ASSUME NEW s, NEW z, NEW u, NEW e, NEW f, NEW k, NEW n, NEW m,
           TalkOver(s, z, u, e, f, k, n),
           ~N!Bound(m, a) \/ ~P!Live(s),
           OnTheWay(m, a, b) = OnTheWay(n, a, b),
           Said(OnTheWay(m, b, a)) \subseteq Said(OnTheWay(n, b, a)),
           InTurn(OnTheWay(m, b, a)) \subseteq InTurn(OnTheWay(n, b, a))
    PROVE  TalkOver(s, z, u, e, f, k, m)
  <1> DEFINE TA == Said(OnTheWay(n, b, a))
             TB == Said(OnTheWay(n, a, b))
             PA == InTurn(OnTheWay(n, b, a))
             PB == InTurn(OnTheWay(n, a, b))
             up == N!Bound(n, a)
             TA2 == Said(OnTheWay(m, b, a))
             PA2 == InTurn(OnTheWay(m, b, a))
             up2 == N!Bound(m, a)
  <1>1. Talk(s, z, u, e, f, k, TA, TB, PA, PB, up)
    BY DEF TalkOver
  <1>2. TA2 \subseteq TA /\ PA2 \subseteq PA /\ PA2 \subseteq TA2 \X TA2
    BY DEF InTurn
  <1>3. ~up2 \/ ~P!Live(s)
    OBVIOUS
  <1> HIDE DEF TA, TB, PA, PB, up, TA2, PA2, up2
  <1>4. PB \subseteq TB \X TB /\ s \in P!TurnState /\ z \in P!TurnState
    BY <1>1 DEF Talk
  <1>5. P!Awaiting(s) => P!Live(s)
    BY <1>4, MachineMoves
  <1>6. Talk(s, z, u, e, f, k, TA2, TB, PA2, PB, up2)
    BY <1>1, <1>2, <1>3, <1>4, <1>5, Weakened
  <1>7. QED
    BY <1>6 DEF TalkOver, TA2, TB, PA2, PB, up2

(* A receipt is no part of what is said.                                   *)
LEMMA ReceiptPosted ==
    ASSUME NEW n, NetOk(n), NEW t \in {a, b}, NEW d \in Parcel,
           d.from = Other(t), d.to = t, d.msg.turn = None
    PROVE  LET m == N!Posted(n, d)
           IN /\ NetOk(m)
              /\ \A x \in {a, b} : N!Bound(m, x) = N!Bound(n, x)
              /\ \A x \in {a, b} : /\ Said(OnTheWay(m, Other(x), x)) = Said(OnTheWay(n, Other(x), x))
                                   /\ InTurn(OnTheWay(m, Other(x), x)) = InTurn(OnTheWay(n, Other(x), x))
  <1> DEFINE m == N!Posted(n, d)
             q == OnTheWay(n, Other(t), t)
  <1>1. /\ NetOk(m)
        /\ \A x \in {a, b} : N!Bound(m, x) = N!Bound(n, x)
        /\ OnTheWay(m, Other(t), t) \in {q, Append(q, d)}
        /\ OnTheWay(m, t, Other(t)) = OnTheWay(n, t, Other(t))
    BY PostedLine
  <1>2. q \in Seq(Parcel)
    BY NetTypes, Others
  <1> HIDE DEF q, m
  <1>3. Said(Append(q, d)) = Said(q) /\ InTurn(Append(q, d)) = InTurn(q)
    BY <1>2, SaidLast
  <1>4. \A x \in {a, b} : x = t \/ (x = Other(t) /\ Other(x) = t)
    BY Others
  <1>5. QED
    BY <1>1, <1>3, <1>4 DEF q, m

(* What a turn says joins what is said, behind all of it.                  *)
LEMMA TurnPosted ==
    ASSUME NEW n, NetOk(n), NEW t \in {a, b}, NEW d \in Parcel,
           d.from = Other(t), d.to = t, d.msg.turn # None
    PROVE  LET m == N!Posted(n, d)
               q == OnTheWay(n, Other(t), t)
               r == OnTheWay(m, Other(t), t)
           IN /\ NetOk(m)
              /\ \A x \in {a, b} : N!Bound(m, x) = N!Bound(n, x)
              /\ OnTheWay(m, t, Other(t)) = OnTheWay(n, t, Other(t))
              /\ ~N!Sendable(n, d) => r = q
              /\ N!Sendable(n, d) => /\ Said(r) = Said(q) \cup {d.msg}
                                     /\ InTurn(r) \subseteq InTurn(q) \cup (Said(q) \X {d.msg})
              /\ t = b => N!Sendable(n, d)
  <1> DEFINE m == N!Posted(n, d)
             q == OnTheWay(n, Other(t), t)
             r == OnTheWay(m, Other(t), t)
  <1>1. /\ NetOk(m)
        /\ \A x \in {a, b} : N!Bound(m, x) = N!Bound(n, x)
        /\ r = IF N!Sendable(n, d) THEN Append(q, d) ELSE q
        /\ OnTheWay(m, t, Other(t)) = OnTheWay(n, t, Other(t))
        /\ t = b => N!Sendable(n, d)
    BY PostedLine
  <1>2. q \in Seq(Parcel)
    BY NetTypes, Others
  <1> HIDE DEF q, m, r
  <1>3. /\ Said(Append(q, d)) = Said(q) \cup {d.msg}
        /\ InTurn(Append(q, d)) \subseteq InTurn(q) \cup (Said(q) \X {d.msg})
    BY <1>2, SaidLast
  <1>4. QED
    BY <1>1, <1>3 DEF q, m, r

(* What is taken from a mailbox is the first thing said on its line, or it *)
(* was a receipt.                                                          *)
LEMMA HeadTaken ==
    ASSUME NEW n, NetOk(n), NEW t \in {a, b}, N!Bound(n, t), n.box[t] # <<>>
    PROVE  LET m   == [n EXCEPT !.box[t] = Tail(@)]
               msg == Head(n.box[t]).msg
               q   == OnTheWay(n, Other(t), t)
               r   == OnTheWay(m, Other(t), t)
           IN /\ NetOk(m) /\ msg \in Message
              /\ \A x \in {a, b} : N!Bound(m, x) = N!Bound(n, x)
              /\ OnTheWay(m, t, Other(t)) = OnTheWay(n, t, Other(t))
              /\ InTurn(r) \subseteq InTurn(q)
              /\ msg.turn = None => Said(r) = Said(q)
              /\ msg.turn # None => /\ msg \in Said(q) /\ Said(q) = Said(r) \cup {msg}
                                    /\ \A x \in Said(r) : <<msg, x>> \in InTurn(q)
  <1> DEFINE m   == [n EXCEPT !.box[t] = Tail(@)]
             msg == Head(n.box[t]).msg
             q   == OnTheWay(n, Other(t), t)
             r   == OnTheWay(m, Other(t), t)
  <1>1. /\ NetOk(m)
        /\ \A x \in {a, b} : N!Bound(m, x) = N!Bound(n, x)
        /\ q # <<>> /\ msg = Head(q).msg /\ r = Tail(q)
        /\ OnTheWay(m, t, Other(t)) = OnTheWay(n, t, Other(t))
    BY TakenLine
  <1>2. q \in Seq(Parcel)
    BY NetTypes, Others
  <1> HIDE DEF m, msg, q, r
  <1>3. QED
    <2>1. /\ Head(q).msg \in Message
          /\ Said(Tail(q)) \subseteq Said(q) /\ InTurn(Tail(q)) \subseteq InTurn(q)
          /\ Head(q).msg.turn = None => Said(Tail(q)) = Said(q)
          /\ Head(q).msg.turn # None =>
                /\ Head(q).msg \in Said(q) /\ Said(q) = Said(Tail(q)) \cup {Head(q).msg}
                /\ \A x \in Said(Tail(q)) : <<Head(q).msg, x>> \in InTurn(q)
      BY <1>1, <1>2, SaidFirst
    <2>2. QED
      BY <1>1, <2>1 DEF m, msg, q, r

-----------------------------------------------------------------------------
(* The invariant. *)

(* The deaths the actor's runtime hears of are the application's.          *)
AlarmsOk ==
    /\ watched \in [{watch} -> Seq({A})]
    /\ killing \subseteq [watch : {watch}, endpoint : {A}]

(* An application that gave up its inbox gave up its phone.                *)
AppStands ==
    /\ phone \in P!Side /\ lives \in Nat
    /\ inboxes \in [{aInbox, bInbox} -> {a, b, None}]
    /\ inboxes[aInbox] \in {a, None}
    /\ inboxes[aInbox] = None => phone = P!Quiet /\ sending = None

Conversation == TalkOver(phone.state, side.state, sending, aExchange, bExchange, posed, net)

DialogueInv ==
    /\ RP!RuntimeInv /\ ActorStands
    /\ NetOk(net) /\ AlarmsOk
    /\ AppStands
    /\ Conversation

(* What the phone's calls make of its side.                                *)
LEMMA PhoneMoves ==
    ASSUME NEW c \in P!Side
    PROVE  /\ c.state \in P!TurnState
           /\ \A t \in P!Turn :
                 /\ P!Walked(c, P!AfterSend(t)) \in P!Side
                 /\ P!Walked(c, P!AfterSend(t)).state = P!AfterSend(t)
                 /\ P!Armed(c, t) \in P!Side /\ P!Armed(c, t).state = c.state
                 /\ P!Received(c, t) \in P!Side
                 /\ P!Received(c, t).state = P!AfterReceive(t)
           /\ P!Broken(c) \in P!Side /\ ~P!Live(P!Broken(c).state)
           /\ P!Aged(c) \in P!Side /\ P!Aged(c).state = c.state
           /\ \A id : P!Acked(c, id) \in P!Side /\ P!Acked(c, id).state = c.state
  <1>1. c.state \in P!TurnState
    BY DEF P!Side
  <1>2. PhoneAck \in Int /\ PhoneTurn \in Int
    BY PatiencesAreFinite
  <1>3. ASSUME NEW t \in P!Turn
        PROVE  /\ P!Walked(c, P!AfterSend(t)) \in P!Side
               /\ P!Walked(c, P!AfterSend(t)).state = P!AfterSend(t)
               /\ P!Received(c, t) \in P!Side
               /\ P!Received(c, t).state = P!AfterReceive(t)
    BY <1>3, MachineMoves DEF P!Walked, P!Received, P!Settled, P!Side
  <1>4. ASSUME NEW t \in P!Turn
        PROVE  P!Armed(c, t) \in P!Side /\ P!Armed(c, t).state = c.state
    <2>1. t.req # None => [id |-> t.req, left |-> PhoneAck] \in P!AckWait
      BY <1>2, MachineMoves DEF P!AckWait
    <2>2. QED
      BY <1>2, <2>1 DEF P!Armed, P!Side
  <1>5. P!Broken(c) \in P!Side /\ ~P!Live(P!Broken(c).state)
    <2>1. P!Fail(c.state) \in P!TurnState /\ ~P!Live(P!Fail(c.state))
      BY <1>1 DEF P!Fail, P!Failed, P!Live, P!Owing, P!Awaiting, P!TurnState
    <2>2. QED
      BY <2>1 DEF P!Broken, P!Settled, P!Walked, P!Side
  <1>6. P!Aged(c) \in P!Side /\ P!Aged(c).state = c.state
    <2>1. c.ack # None => [c.ack EXCEPT !.left = c.ack.left - 1] \in P!AckWait
      BY DEF P!Side, P!AckWait
    <2>2. c.turn # None => c.turn - 1 \in Int
      BY DEF P!Side
    <2>3. QED
      BY <2>1, <2>2 DEF P!Aged, P!Side
  <1>7. ASSUME NEW id PROVE P!Acked(c, id) \in P!Side /\ P!Acked(c, id).state = c.state
    BY DEF P!Acked, P!Side
  <1>8. QED
    BY <1>1, <1>3, <1>4, <1>5, <1>6, <1>7

LEMMA RuntimeRests ==
    ASSUME RP!RuntimeInv, ActorStands, UNCHANGED runtimeVars
    PROVE  RP!RuntimeInv' /\ ActorStands' /\ side' = side
  <1>1. UNCHANGED RP!vars
    BY DEF runtimeVars, RP!vars
  <1>2. QED
    BY <1>1, RuntimeKeeps DEF runtimeVars, ActorStands, side

LEMMA AlarmsRest == AlarmsOk /\ UNCHANGED <<watched, killing>> => AlarmsOk'
  BY DEF AlarmsOk

(* The application's own moves.                                            *)
LEMMA OpenStep ==
    ASSUME DialogueInv, Open
    PROVE  DialogueInv'
  <1> DEFINE t == P!Open(PosedId[posed + 1])
  <1>1. /\ P!CanSend(phone.state, t) /\ sending = None /\ sending' = t
        /\ phone' = P!Walked(phone, P!AfterSend(t))
        /\ posed < MaxPosed /\ posed' = posed + 1 /\ aExchange' = <<posed + 1, lives>>
        /\ UNCHANGED <<net, watched, killing, inboxes, lives, bExchange>> /\ UNCHANGED runtimeVars
        /\ inboxes[aInbox] # None
    BY DEF Open, P!BeginSend, P!Unborrowed, netVars, netRest, Running
  <1>2. RP!RuntimeInv' /\ ActorStands' /\ side' = side
    BY <1>1, RuntimeRests DEF DialogueInv
  <1>3. ~P!Owing(phone.state)
    BY <1>1 DEF P!CanSend, P!Opens, P!Answers, P!Owing, P!Open
  <1>4. /\ phone \in P!Side /\ lives \in Nat /\ posed \in 0 .. MaxPosed
        /\ TalkOver(phone.state, side.state, None, aExchange, bExchange, posed, net)
    BY <1>1 DEF DialogueInv, AppStands, Conversation, TalkOver, Talk
  <1>5. t \in P!Turn
    BY <1>1, <1>4, FreshIds DEF P!Turn, P!Open
  <1>6. phone' \in P!Side /\ phone'.state = P!AfterSend(t)
    BY <1>1, <1>4, <1>5, PhoneMoves
  <1>7. TalkOver(P!AfterSend(t), side.state, t, <<posed + 1, lives>>, bExchange, posed + 1, net)
    BY <1>1, <1>3, <1>4, Opened DEF TalkOver
  <1> HIDE DEF t
  <1>8. Conversation'
    BY <1>1, <1>2, <1>6, <1>7 DEF Conversation
  <1>9. AppStands'
    BY <1>1, <1>6 DEF DialogueInv, AppStands
  <1>10. QED
    BY <1>1, <1>2, <1>8, <1>9, AlarmsRest DEF DialogueInv

LEMMA AnswerStep ==
    ASSUME DialogueInv, Answer
    PROVE  DialogueInv'
  <1>1. PICK t : /\ P!CanSend(phone.state, t) /\ sending = None /\ sending' = t
                 /\ phone' = P!Walked(phone, P!AfterSend(t))
                 /\ \/ /\ t = P!Continue(phone.state.out, PosedId[posed + 1])
                       /\ posed < MaxPosed /\ posed' = posed + 1
                    \/ t = P!Close(phone.state.out) /\ posed' = posed
                 /\ UNCHANGED <<net, watched, killing, inboxes, lives, aExchange, bExchange>>
                 /\ UNCHANGED runtimeVars
                 /\ inboxes[aInbox] # None
    BY DEF Answer, AnswerAndAsk, AnswerAndClose, P!BeginSend, P!Unborrowed,
           netVars, netRest, history, bounds, Running
  <1>2. RP!RuntimeInv' /\ ActorStands' /\ side' = side
    BY <1>1, RuntimeRests DEF DialogueInv
  <1>3. P!Owing(phone.state)
    BY <1>1 DEF P!CanSend, P!Opens, P!Continue, P!Close
  <1>4. /\ phone \in P!Side /\ posed \in 0 .. MaxPosed
        /\ TalkOver(phone.state, side.state, None, aExchange, bExchange, posed, net)
    BY <1>1 DEF DialogueInv, AppStands, Conversation, TalkOver, Talk
  <1>5. t \in P!Turn
    <2>1. phone.state.out \in RequestIds
      BY <1>3, <1>4, PhoneMoves, MachineMoves
    <2>2. QED
      BY <1>1, <1>4, <2>1, FreshIds DEF P!Turn, P!Continue, P!Close
  <1>6. phone' \in P!Side /\ phone'.state = P!AfterSend(t)
    BY <1>1, <1>4, <1>5, PhoneMoves
  <1>7. TalkOver(P!AfterSend(t), side.state, t, aExchange, bExchange, posed', net)
    <2>1. CASE t = P!Continue(phone.state.out, PosedId[posed + 1]) /\ posed < MaxPosed /\ posed' = posed + 1
      BY <1>3, <1>4, <2>1, Continued DEF TalkOver
    <2>2. CASE t = P!Close(phone.state.out) /\ posed' = posed
      BY <1>3, <1>4, <2>2, Concluded DEF TalkOver
    <2>3. QED
      BY <1>1, <2>1, <2>2
  <1>8. Conversation'
    BY <1>1, <1>2, <1>6, <1>7 DEF Conversation
  <1>9. AppStands'
    BY <1>1, <1>6 DEF DialogueInv, AppStands
  <1>10. QED
    BY <1>1, <1>2, <1>8, <1>9, AlarmsRest DEF DialogueInv

(* The transport takes the turn, whether it delivers or holds it: the      *)
(* actor never gives up its mailbox.                                       *)
LEMMA HandOverStep ==
    ASSUME DialogueInv, HandOver
    PROVE  DialogueInv'
  <1> DEFINE m == TurnMsg(sending, aExchange)
             d == N!Delivery(a, b, m)
  <1>1. /\ sending # None /\ inboxes[aInbox] # None
        /\ IF N!Sendable(net, d) THEN P!SendAccepted ELSE P!SendRefused
        /\ net' = N!Posted(net, d)
        /\ UNCHANGED <<watched, killing, inboxes, lives, posed, aExchange, bExchange>>
        /\ UNCHANGED runtimeVars
    BY DEF HandOver, netRest, history, bounds, Running
  <1>2. RP!RuntimeInv' /\ ActorStands' /\ side' = side
    BY <1>1, RuntimeRests DEF DialogueInv
  <1>3. /\ phone \in P!Side /\ sending \in P!Turn /\ aExchange \in Nat \X Nat
        /\ TalkOver(phone.state, side.state, sending, aExchange, bExchange, posed, net)
        /\ NetOk(net)
    BY <1>1 DEF DialogueInv, AppStands, Conversation, TalkOver, Talk
  <1>4. /\ m \in TurnMessages /\ m.turn = sending /\ m.x = aExchange
        /\ d \in Parcel /\ d.from = Other(b) /\ d.to = b /\ d.msg = m
    BY <1>1, <1>3, Others DEF TurnMsg, TurnMessages, Message, Parcel, N!Delivery
  <1> HIDE DEF m, d
  <1>5. /\ NetOk(net')
        /\ N!Bound(net', a) = N!Bound(net, a)
        /\ OnTheWay(net', b, a) = OnTheWay(net, b, a)
        /\ Said(OnTheWay(net', a, b)) = Said(OnTheWay(net, a, b)) \cup {m}
        /\ InTurn(OnTheWay(net', a, b)) \subseteq
              InTurn(OnTheWay(net, a, b)) \cup (Said(OnTheWay(net, a, b)) \X {m})
        /\ N!Sendable(net, d)
    BY <1>1, <1>3, <1>4, TurnPosted, Others
  <1>6. InTurn(OnTheWay(net', a, b)) \subseteq Said(OnTheWay(net', a, b)) \X Said(OnTheWay(net', a, b))
    BY DEF InTurn
  <1>7. TalkOver(phone.state, side.state, None, aExchange, bExchange, posed, net')
    <2> DEFINE TA == Said(OnTheWay(net, b, a))
               TB == Said(OnTheWay(net, a, b))
               PA == InTurn(OnTheWay(net, b, a))
               PB == InTurn(OnTheWay(net, a, b))
               TB2 == Said(OnTheWay(net', a, b))
               PB2 == InTurn(OnTheWay(net', a, b))
               up == N!Bound(net, a)
    <2>1. Talk(phone.state, side.state, sending, aExchange, bExchange, posed, TA, TB, PA, PB, up)
      BY <1>3 DEF TalkOver
    <2>2. TB2 = TB \cup {m} /\ PB2 \subseteq (PB \cup (TB \X {m})) \cap (TB2 \X TB2)
      BY <1>5, <1>6
    <2> HIDE DEF TA, TB, PA, PB, TB2, PB2, up
    <2>3. Talk(phone.state, side.state, None, aExchange, bExchange, posed, TA, TB2, PA, PB2, up)
      BY <1>1, <1>4, <2>1, <2>2, HandedOver
    <2>4. QED
      BY <1>5, <2>3 DEF TalkOver, TA, PA, TB2, PB2, up
  <1>8. phone' = P!Armed(phone, sending) /\ sending' = None
    BY <1>1, <1>5 DEF P!SendAccepted
  <1>9. phone' \in P!Side /\ phone'.state = phone.state
    BY <1>3, <1>8, PhoneMoves
  <1>10. Conversation'
    BY <1>1, <1>2, <1>7, <1>8, <1>9 DEF Conversation
  <1>11. AppStands'
    BY <1>1, <1>9 DEF DialogueInv, AppStands
  <1>12. QED
    BY <1>1, <1>2, <1>5, <1>10, <1>11, AlarmsRest DEF DialogueInv

LEMMA AppDeadlineStep ==
    ASSUME DialogueInv, AppDeadline
    PROVE  DialogueInv'
  <1>1. /\ sending = None /\ sending' = None /\ inboxes[aInbox] # None
        /\ phone' = P!Broken(phone)
        /\ UNCHANGED <<net, watched, killing, inboxes, lives, posed, aExchange, bExchange>>
        /\ UNCHANGED runtimeVars
    BY DEF AppDeadline, P!OnDeadlineElapsed, P!Unborrowed, netVars, netRest, history, bounds, Running
  <1>2. RP!RuntimeInv' /\ ActorStands' /\ side' = side
    BY <1>1, RuntimeRests DEF DialogueInv
  <1>3. phone' \in P!Side /\ ~P!Live(phone'.state) /\ phone'.state \in P!TurnState
    BY <1>1, PhoneMoves DEF DialogueInv, AppStands
  <1>4. side.state \in P!TurnState
    BY SideTypes DEF DialogueInv
  <1>5. TalkOver(phone'.state, side.state, None, aExchange, bExchange, posed, net)
    BY <1>1, <1>3, <1>4, SidesWeakened DEF DialogueInv, Conversation
  <1>6. Conversation'
    BY <1>1, <1>2, <1>5 DEF Conversation
  <1>7. AppStands'
    BY <1>1, <1>3 DEF DialogueInv, AppStands
  <1>8. QED
    BY <1>1, <1>2, <1>6, <1>7, AlarmsRest DEF DialogueInv

LEMMA AppTickStep ==
    ASSUME DialogueInv, AppTick
    PROVE  DialogueInv'
  <1>1. /\ sending' = sending /\ P!Waiting(phone)
        /\ phone' = P!Aged(phone)
        /\ UNCHANGED <<net, watched, killing, inboxes, lives, posed, aExchange, bExchange>>
        /\ UNCHANGED runtimeVars
    BY DEF AppTick, P!Tick, netVars, netRest, history, bounds
  <1>2. RP!RuntimeInv' /\ ActorStands' /\ side' = side
    BY <1>1, RuntimeRests DEF DialogueInv
  <1>3. phone' \in P!Side /\ phone'.state = phone.state
    BY <1>1, PhoneMoves DEF DialogueInv, AppStands
  <1>4. Conversation'
    BY <1>1, <1>2, <1>3 DEF DialogueInv, Conversation
  <1>5. phone # P!Quiet
    BY <1>1 DEF P!Waiting, P!Quiet
  <1>6. AppStands'
    BY <1>1, <1>3, <1>5 DEF DialogueInv, AppStands
  <1>7. QED
    BY <1>1, <1>2, <1>4, <1>6, AlarmsRest DEF DialogueInv

LEMMA AppAckStep ==
    ASSUME DialogueInv, AppAck
    PROVE  DialogueInv'
  <1> DEFINE msg == Head(net.box[a]).msg
  <1>1. /\ sending = None /\ sending' = None /\ inboxes[aInbox] # None
        /\ phone' = P!Acked(phone, msg.ack) /\ msg.ack # None
        /\ N!Bound(net, a) /\ net.box[a] # <<>>
        /\ net' = [net EXCEPT !.box[a] = Tail(@)]
        /\ UNCHANGED <<watched, killing, inboxes, lives, posed, aExchange, bExchange>>
        /\ UNCHANGED runtimeVars
    BY DEF AppAck, P!NoteAck, P!Unborrowed, netRest, history, bounds, Running, Waits, First, Taken
  <1>2. RP!RuntimeInv' /\ ActorStands' /\ side' = side
    BY <1>1, RuntimeRests DEF DialogueInv
  <1>3. phone' \in P!Side /\ phone'.state = phone.state
    BY <1>1, PhoneMoves DEF DialogueInv, AppStands
  <1>4. /\ NetOk(net') /\ msg \in Message /\ N!Bound(net', a) = N!Bound(net, a)
        /\ OnTheWay(net', a, b) = OnTheWay(net, a, b)
        /\ InTurn(OnTheWay(net', b, a)) \subseteq InTurn(OnTheWay(net, b, a))
        /\ msg.turn = None => Said(OnTheWay(net', b, a)) = Said(OnTheWay(net, b, a))
    BY <1>1, HeadTaken, Others DEF DialogueInv
  <1>5. msg.turn = None
    BY <1>1, <1>4 DEF Message
  <1> HIDE DEF msg
  <1>6. TalkOver(phone.state, side.state, sending, aExchange, bExchange, posed, net')
    BY <1>4, <1>5, LineShorter, Others DEF DialogueInv, Conversation
  <1>7. Conversation'
    BY <1>1, <1>2, <1>3, <1>6 DEF Conversation
  <1>8. AppStands'
    BY <1>1, <1>3 DEF DialogueInv, AppStands
  <1>9. QED
    BY <1>1, <1>2, <1>4, <1>7, <1>8, AlarmsRest DEF DialogueInv

(* A turn the application hears, accepted or not; what it accepts was said *)
(* in the exchange it is in.                                               *)
LEMMA AppTurnStep ==
    ASSUME DialogueInv, AppTurn
    PROVE  /\ DialogueInv'
           /\ phone' # phone => First(a).x = aExchange
  <1> DEFINE msg == First(a)
             n2  == Taken(a)
             d   == N!Delivery(a, b, AckMsg(msg.turn.req, msg.x))
  <1>1. /\ sending = None /\ inboxes[aInbox] # None
        /\ N!Bound(net, a) /\ net.box[a] # <<>>
        /\ msg = Head(net.box[a]).msg /\ msg.turn # None
        /\ n2 = [net EXCEPT !.box[a] = Tail(@)]
        /\ net' = IF msg.turn.req = None THEN n2 ELSE N!Posted(n2, d)
        /\ \/ P!OnIncoming(msg.turn)
           \/ ~P!CanReceive(phone.state, msg.turn) /\ UNCHANGED phoneVars
        /\ UNCHANGED <<watched, killing, inboxes, lives, posed, aExchange, bExchange>>
        /\ UNCHANGED runtimeVars
    BY DEF AppTurn, netRest, history, bounds, Running, Waits, First, Taken, Receipted
  <1> HIDE DEF n2, msg
  <1>2. RP!RuntimeInv' /\ ActorStands' /\ side' = side
    BY <1>1, RuntimeRests DEF DialogueInv
  <1>3. /\ NetOk(net) /\ phone \in P!Side
        /\ TalkOver(phone.state, side.state, None, aExchange, bExchange, posed, net)
    BY <1>1 DEF DialogueInv, AppStands, Conversation
  <1>4. /\ NetOk(n2) /\ msg \in Message /\ N!Bound(n2, a) = N!Bound(net, a)
        /\ OnTheWay(n2, a, b) = OnTheWay(net, a, b)
        /\ InTurn(OnTheWay(n2, b, a)) \subseteq InTurn(OnTheWay(net, b, a))
        /\ msg \in Said(OnTheWay(net, b, a))
        /\ Said(OnTheWay(net, b, a)) = Said(OnTheWay(n2, b, a)) \cup {msg}
        /\ \A x \in Said(OnTheWay(n2, b, a)) : <<msg, x>> \in InTurn(OnTheWay(net, b, a))
    BY <1>1, <1>3, HeadTaken, Others
  <1>5. msg.turn \in P!Turn /\ msg.x \in Nat \X Nat
    BY <1>1, <1>4 DEF Message
  <1>a. /\ NetOk(net') /\ N!Bound(net', a) = N!Bound(n2, a)
        /\ \A x \in {a, b} :
              /\ Said(OnTheWay(net', Other(x), x)) = Said(OnTheWay(n2, Other(x), x))
              /\ InTurn(OnTheWay(net', Other(x), x)) = InTurn(OnTheWay(n2, Other(x), x))
    <2>1. CASE msg.turn.req = None
      BY <1>1, <1>4, <2>1
    <2>2. CASE msg.turn.req # None
      <3>1. d \in Parcel /\ d.from = Other(b) /\ d.to = b /\ d.msg.turn = None
        BY <1>5, <2>2, MachineMoves, Others DEF Parcel, Message, N!Delivery, AckMsg
      <3>2. net' = N!Posted(n2, d)
        BY <1>1, <2>2
      <3> HIDE DEF d
      <3>3. QED
        BY <1>4, <3>1, <3>2, ReceiptPosted
    <2>3. QED
      BY <2>1, <2>2
  <1>6. ASSUME NEW s,
               TalkOver(s, side.state, None, aExchange, bExchange, posed, n2)
        PROVE  TalkOver(s, side.state, None, aExchange, bExchange, posed, net')
    BY <1>6, <1>a, LinesSame
  <1>7. NetOk(net')
    BY <1>a
  <1> DEFINE TA == Said(OnTheWay(net, b, a))
             TB == Said(OnTheWay(net, a, b))
             PA == InTurn(OnTheWay(net, b, a))
             PB == InTurn(OnTheWay(net, a, b))
             TA2 == Said(OnTheWay(n2, b, a))
             PA2 == InTurn(OnTheWay(n2, b, a))
             up == N!Bound(net, a)
  <1>8. /\ Talk(phone.state, side.state, None, aExchange, bExchange, posed, TA, TB, PA, PB, up)
        /\ msg \in TA /\ TA = TA2 \cup {msg} /\ PA2 \subseteq PA \cap (TA2 \X TA2)
        /\ \A x \in TA2 : <<msg, x>> \in PA
    <2>1. PA2 \subseteq TA2 \X TA2
      BY DEF InTurn
    <2>2. QED
      BY <1>3, <1>4, <2>1 DEF TalkOver
  <1>9. \A s : Talk(s, side.state, None, aExchange, bExchange, posed, TA2, TB, PA2, PB, up)
                  => TalkOver(s, side.state, None, aExchange, bExchange, posed, n2)
    BY <1>4 DEF TalkOver
  <1> HIDE DEF TA, TB, PA, PB, TA2, PA2, up
  <1>10. CASE P!OnIncoming(msg.turn)
    <2>1. /\ P!CanReceive(phone.state, msg.turn)
          /\ phone' = P!Received(phone, msg.turn) /\ sending' = None
      BY <1>1, <1>10 DEF P!OnIncoming
    <2>2. phone' \in P!Side /\ phone'.state = P!AfterReceive(msg.turn)
      BY <1>3, <1>5, <2>1, PhoneMoves
    <2>3. /\ Talk(P!AfterReceive(msg.turn), side.state, None, aExchange, bExchange, posed,
                  TA2, TB, PA2, PB, up)
          /\ msg.x = aExchange
      BY <1>8, <2>1, AppAccepts
    <2>4. TalkOver(phone'.state, side.state, None, aExchange, bExchange, posed, net')
      BY <1>6, <1>9, <2>2, <2>3
    <2>5. Conversation'
      BY <1>1, <1>2, <2>1, <2>4 DEF Conversation
    <2>6. AppStands'
      BY <1>1, <2>1, <2>2 DEF DialogueInv, AppStands
    <2>7. QED
      BY <1>1, <1>2, <1>7, <2>3, <2>5, <2>6, AlarmsRest DEF DialogueInv, msg
  <1>11. CASE ~P!CanReceive(phone.state, msg.turn) /\ UNCHANGED phoneVars
    <2>1. phone' = phone /\ sending' = None
      BY <1>1, <1>11 DEF phoneVars
    <2>2. Talk(phone.state, side.state, None, aExchange, bExchange, posed, TA2, TB, PA2, PB, up)
      BY <1>8, <1>11, AppRefuses
    <2>3. TalkOver(phone.state, side.state, None, aExchange, bExchange, posed, net')
      BY <1>6, <1>9, <2>2
    <2>4. Conversation'
      BY <1>1, <1>2, <2>1, <2>3 DEF Conversation
    <2>5. AppStands'
      BY <1>1, <2>1 DEF DialogueInv, AppStands
    <2>6. QED
      BY <1>1, <1>2, <1>7, <2>1, <2>4, <2>5, AlarmsRest DEF DialogueInv
  <1>12. QED
    BY <1>1, <1>10, <1>11

LEMMA GoDownStep ==
    ASSUME DialogueInv, GoDown
    PROVE  DialogueInv'
  <1>1. /\ inboxes[aInbox] = a
        /\ inboxes' = [inboxes EXCEPT ![aInbox] = None]
        /\ net' = [net EXCEPT !.box[a] = None]
        /\ phone' = P!Quiet /\ sending' = None
        /\ UNCHANGED <<watched, killing, lives, posed, aExchange, bExchange>>
        /\ UNCHANGED runtimeVars
    BY DEF GoDown, N!DropInbox, Running, history, bounds, DialogueInv, AppStands
  <1>2. RP!RuntimeInv' /\ ActorStands' /\ side' = side
    BY <1>1, RuntimeRests DEF DialogueInv
  <1>3. P!Quiet \in P!Side /\ ~P!Live(P!Quiet.state) /\ P!Quiet.state \in P!TurnState
    BY DEF P!Quiet, P!Idle, P!Side, P!TurnState, P!Live, P!Awaiting, P!Owing
  <1>4. side.state \in P!TurnState
    BY SideTypes DEF DialogueInv
  <1>5. TalkOver(P!Quiet.state, side.state, None, aExchange, bExchange, posed, net)
    BY <1>3, <1>4, SidesWeakened DEF DialogueInv, Conversation
  <1>6. /\ NetOk(net') /\ OnTheWay(net', a, b) = OnTheWay(net, a, b)
        /\ Said(OnTheWay(net', b, a)) \subseteq Said(OnTheWay(net, b, a))
        /\ InTurn(OnTheWay(net', b, a)) \subseteq InTurn(OnTheWay(net, b, a))
    BY <1>1, LostLine DEF DialogueInv
  <1>7. TalkOver(P!Quiet.state, side.state, None, aExchange, bExchange, posed, net')
    BY <1>3, <1>5, <1>6, MailboxLost
  <1>8. Conversation'
    BY <1>1, <1>2, <1>7 DEF Conversation
  <1>9. AppStands'
    BY <1>1, <1>3 DEF DialogueInv, AppStands
  <1>10. QED
    BY <1>1, <1>2, <1>6, <1>8, <1>9, AlarmsRest DEF DialogueInv

LEMMA ComeBackStep ==
    ASSUME DialogueInv, ComeBack
    PROVE  DialogueInv'
  <1>1. /\ inboxes[aInbox] = None
        /\ inboxes' = [inboxes EXCEPT ![aInbox] = a]
        /\ net' = [net EXCEPT !.box[a] = <<>>]
        /\ lives' = lives + 1
        /\ UNCHANGED <<phone, sending, watched, killing, posed, aExchange, bExchange>>
        /\ UNCHANGED runtimeVars
    BY DEF ComeBack, N!Register, phoneVars, history
  <1>2. RP!RuntimeInv' /\ ActorStands' /\ side' = side
    BY <1>1, RuntimeRests DEF DialogueInv
  <1>3. phone = P!Quiet /\ sending = None /\ lives \in Nat
    BY <1>1 DEF DialogueInv, AppStands
  <1>4. ~P!Live(phone.state)
    BY <1>3 DEF P!Quiet, P!Idle, P!Live, P!Awaiting, P!Owing
  <1>5. /\ NetOk(net') /\ OnTheWay(net', a, b) = OnTheWay(net, a, b)
        /\ Said(OnTheWay(net', b, a)) \subseteq Said(OnTheWay(net, b, a))
        /\ InTurn(OnTheWay(net', b, a)) \subseteq InTurn(OnTheWay(net, b, a))
    BY <1>1, LostLine DEF DialogueInv
  <1>6. TalkOver(phone.state, side.state, sending, aExchange, bExchange, posed, net')
    BY <1>4, <1>5, MailboxLost DEF DialogueInv, Conversation
  <1>7. Conversation'
    BY <1>1, <1>2, <1>6 DEF Conversation
  <1>8. AppStands'
    BY <1>1, <1>3 DEF DialogueInv, AppStands
  <1>9. QED
    BY <1>1, <1>2, <1>5, <1>7, <1>8, AlarmsRest DEF DialogueInv

(* The actor's steps.                                                      *)
LEMMA ActorFailsStep ==
    ASSUME DialogueInv, ActorDeath \/ ActorDeadline \/ RevokeApp
    PROVE  DialogueInv'
  <1>1. /\ \/ R!TakeDeath(actorName, A)
           \/ R!TakeDeadline(actorName)
           \/ R!Revoke(actorName, A)
        /\ AlarmsOk'
    <2>1. CASE ActorDeath
      <3>1. /\ watched[watch] \in Seq({A}) /\ watched[watch] # <<>>
            /\ watched' = [watched EXCEPT ![watch] = Tail(@)] /\ killing' = killing
            /\ R!TakeDeath(actorName, Head(watched[watch]))
        BY <2>1 DEF ActorDeath, N!HearDeath, DialogueInv, AlarmsOk
      <3>2. Head(watched[watch]) = A /\ Tail(watched[watch]) \in Seq({A})
        BY <3>1, HeadTailProperties
      <3>3. QED
        BY <3>1, <3>2 DEF DialogueInv, AlarmsOk
    <2>2. CASE ActorDeadline \/ RevokeApp
      BY <2>2, AlarmsRest DEF ActorDeadline, RevokeApp, netVars, netRest, DialogueInv
    <2>3. QED
      BY <2>1, <2>2
  <1>2. UNCHANGED <<phone, sending, net, inboxes, lives, posed, aExchange, bExchange>>
    BY DEF ActorDeath, ActorDeadline, RevokeApp, Mishap, N!HearDeath,
           phoneVars, netVars, netRest, history, bounds
  <1>3. /\ RP!RuntimeInv' /\ ActorStands'
        /\ side'.state = side.state \/ ~P!Live(side'.state)
    BY <1>1, FailingStep DEF DialogueInv
  <1>4. side'.state \in P!TurnState
    <2>1. RP!RuntimeInv'
      BY <1>3
    <2>2. QED
      BY <2>1, <1>3, NextSideState
  <1>5. phone.state \in P!TurnState
    BY PhoneMoves DEF DialogueInv, AppStands
  <1>6. TalkOver(phone.state, side'.state, sending, aExchange, bExchange, posed, net)
    BY <1>3, <1>4, <1>5, SidesWeakened DEF DialogueInv, Conversation
  <1>7. Conversation'
    BY <1>2, <1>6 DEF Conversation
  <1>8. AppStands'
    BY <1>2 DEF DialogueInv, AppStands
  <1>9. QED
    BY <1>1, <1>2, <1>3, <1>7, <1>8 DEF DialogueInv

LEMMA ActorStandsStep ==
    ASSUME DialogueInv, ActorTick \/ AdmitApp
    PROVE  DialogueInv'
  <1>1. R!Tick \/ R!Admit(actorName, A)
    BY DEF ActorTick, AdmitApp
  <1>2. /\ UNCHANGED <<phone, sending, net, inboxes, lives, posed, aExchange, bExchange>>
        /\ UNCHANGED <<watched, killing>>
    BY DEF ActorTick, AdmitApp, phoneVars, netVars, netRest, history, bounds
  <1>3. RP!RuntimeInv' /\ ActorStands' /\ side'.state = side.state
    BY <1>1, StandingStep DEF DialogueInv
  <1>4. Conversation'
    BY <1>2, <1>3 DEF DialogueInv, Conversation
  <1>5. AppStands'
    BY <1>2 DEF DialogueInv, AppStands
  <1>6. QED
    BY <1>2, <1>3, <1>4, <1>5, AlarmsRest DEF DialogueInv

(* What the actor drops - a receipt, a turn it refuses, anything at all    *)
(* from an application it does not admit - is no part of the conversation. *)
LEMMA ActorAckOrDenialStep ==
    ASSUME DialogueInv, ActorAckOrDenial
    PROVE  DialogueInv'
  <1> DEFINE msg == Head(net.box[b]).msg
  <1>1. /\ N!Bound(net, b) /\ net.box[b] # <<>>
        /\ net' = [net EXCEPT !.box[b] = Tail(@)]
        /\ \/ R!Deny(actorName, a)
           \/ msg.ack # None /\ R!TakeAck(actorName, a, msg.ack)
           \/ msg.turn # None /\ R!DropIllegalTurn(actorName, a, msg.turn)
        /\ UNCHANGED <<phone, sending, inboxes, lives, posed, aExchange, bExchange>>
        /\ UNCHANGED <<watched, killing>>
    BY DEF ActorAckOrDenial, Waits, First, Taken, phoneVars, netRest, history, bounds
  <1>2. /\ NetOk(net') /\ msg \in Message /\ N!Bound(net', a) = N!Bound(net, a)
        /\ OnTheWay(net', b, a) = OnTheWay(net, b, a)
        /\ InTurn(OnTheWay(net', a, b)) \subseteq InTurn(OnTheWay(net, a, b))
        /\ msg.turn = None => Said(OnTheWay(net', a, b)) = Said(OnTheWay(net, a, b))
        /\ msg.turn # None => /\ msg \in Said(OnTheWay(net, a, b))
                              /\ Said(OnTheWay(net, a, b)) = Said(OnTheWay(net', a, b)) \cup {msg}
    <2> DEFINE m == [net EXCEPT !.box[b] = Tail(@)]
    <2>1. /\ NetOk(m) /\ msg \in Message
          /\ \A x \in {a, b} : N!Bound(m, x) = N!Bound(net, x)
          /\ OnTheWay(m, b, Other(b)) = OnTheWay(net, b, Other(b))
          /\ InTurn(OnTheWay(m, Other(b), b)) \subseteq InTurn(OnTheWay(net, Other(b), b))
          /\ msg.turn = None => Said(OnTheWay(m, Other(b), b)) = Said(OnTheWay(net, Other(b), b))
          /\ msg.turn # None =>
                /\ msg \in Said(OnTheWay(net, Other(b), b))
                /\ Said(OnTheWay(net, Other(b), b)) = Said(OnTheWay(m, Other(b), b)) \cup {msg}
      BY <1>1, HeadTaken DEF DialogueInv
    <2>2. net' = m
      BY <1>1
    <2> HIDE DEF m, msg
    <2>3. QED
      BY <2>1, <2>2, Others
  <1> HIDE DEF msg
  <1>3. RP!RuntimeInv' /\ ActorStands' /\ side'.state = side.state
    <2>1. /\ msg.turn # None => msg.turn \in P!Turn
          /\ msg.ack # None => msg.ack \in RequestIds
      BY <1>2 DEF Message
    <2>2. QED
      BY <1>1, <2>1, StandingStep DEF DialogueInv
  <1>4. msg.turn # None => ~P!CanReceive(side.state, msg.turn) \/ ~P!Live(side.state)
    <2>1. CASE R!Deny(actorName, a)
      <3>1. A \notin actor[actorName].allow
        BY <2>1 DEF R!Deny, R!Admitted
      <3>2. QED
        BY <3>1, SideTypes DEF DialogueInv, ActorStands, RP!Up
    <2>2. CASE msg.ack # None
      BY <1>2, <2>2 DEF Message
    <2>3. CASE R!DropIllegalTurn(actorName, a, msg.turn)
      BY <2>3, SameRules DEF R!DropIllegalTurn, side
    <2>4. QED
      BY <1>1, <2>1, <2>2, <2>3
  <1>5. TalkOver(phone.state, side.state, sending, aExchange, bExchange, posed, net')
    <2>1. TalkOver(phone.state, side.state, sending, aExchange, bExchange, posed, net)
      BY DEF DialogueInv, Conversation
    <2>2. CASE msg.turn = None
      BY <1>2, <2>1, <2>2, LineShorter, Others
    <2>3. CASE msg.turn # None
      <3> DEFINE TA == Said(OnTheWay(net, b, a))
                 TB == Said(OnTheWay(net, a, b))
                 PA == InTurn(OnTheWay(net, b, a))
                 PB == InTurn(OnTheWay(net, a, b))
                 TB2 == Said(OnTheWay(net', a, b))
                 PB2 == InTurn(OnTheWay(net', a, b))
                 up == N!Bound(net, a)
      <3>1. /\ Talk(phone.state, side.state, sending, aExchange, bExchange, posed, TA, TB, PA, PB, up)
            /\ msg \in TB /\ TB = TB2 \cup {msg} /\ PB2 \subseteq PB \cap (TB2 \X TB2)
        <4>1. PB2 \subseteq TB2 \X TB2
          BY DEF InTurn
        <4>2. QED
          BY <1>2, <2>1, <2>3, <4>1 DEF TalkOver
      <3>2. ~P!CanReceive(side.state, msg.turn) \/ ~P!Live(side.state)
        BY <1>4, <2>3
      <3> HIDE DEF TA, TB, PA, PB, TB2, PB2, up
      <3>3. Talk(phone.state, side.state, sending, aExchange, bExchange, posed, TA, TB2, PA, PB2, up)
        BY <3>1, <3>2, ActorRefuses
      <3>4. QED
        BY <1>2, <3>3 DEF TalkOver, TA, TB2, PA, PB2, up
    <2>4. QED
      BY <2>2, <2>3
  <1>6. Conversation'
    BY <1>1, <1>3, <1>5 DEF Conversation
  <1>7. AppStands'
    BY <1>1 DEF DialogueInv, AppStands
  <1>8. QED
    BY <1>1, <1>2, <1>3, <1>6, <1>7, AlarmsRest DEF DialogueInv

(* A turn the actor accepts, the receipt and the answer.                   *)
LEMMA ActorHearsTurnStep ==
    ASSUME DialogueInv, ActorHearsTurn
    PROVE  /\ DialogueInv'
           /\ First(b).turn.kind # "Open" => First(b).x = bExchange
  <1> DEFINE msg   == First(b)
             reply == R!StockReply(ActorParty, mind[actorName][a], msg.turn)
             f2    == IF msg.turn.kind = "Open" THEN msg.x ELSE bExchange
             n2    == Taken(b)
             n3    == Receipted(n2, b, a, msg)
             rcpt  == N!Delivery(b, a, AckMsg(msg.turn.req, msg.x))
             ans   == N!Delivery(b, a, TurnMsg(reply, f2))
             ok    == N!Sendable(n3, ans)
  <1>1. /\ N!Bound(net, b) /\ net.box[b] # <<>> /\ msg = Head(net.box[b]).msg
        /\ msg.turn # None
        /\ n2 = [net EXCEPT !.box[b] = Tail(@)]
        /\ n3 = IF msg.turn.req = None THEN n2 ELSE N!Posted(n2, rcpt)
        /\ R!TakeTurn(actorName, a, msg.turn, reply, ok)
        /\ net' = IF reply = None THEN n3 ELSE N!Posted(n3, ans)
        /\ bExchange' = f2
        /\ UNCHANGED <<phone, sending, inboxes, lives, posed, aExchange>>
        /\ UNCHANGED <<watched, killing>>
    BY DEF ActorHearsTurn, Waits, First, Taken, Receipted, phoneVars, netRest, bounds
  <1>2. ok \in BOOLEAN
    BY DEF N!Sendable, N!Cut, N!Bound
  <1> HIDE DEF msg, reply, n2, n3, ok
  <1>3. /\ NetOk(net)
        /\ TalkOver(phone.state, side.state, sending, aExchange, bExchange, posed, net)
    BY DEF DialogueInv, Conversation
  <1>4. /\ NetOk(n2) /\ msg \in Message /\ N!Bound(n2, a) = N!Bound(net, a)
        /\ OnTheWay(n2, b, a) = OnTheWay(net, b, a)
        /\ InTurn(OnTheWay(n2, a, b)) \subseteq InTurn(OnTheWay(net, a, b))
        /\ msg \in Said(OnTheWay(net, a, b))
        /\ Said(OnTheWay(net, a, b)) = Said(OnTheWay(n2, a, b)) \cup {msg}
        /\ \A x \in Said(OnTheWay(n2, a, b)) : <<msg, x>> \in InTurn(OnTheWay(net, a, b))
    <2> DEFINE m == [net EXCEPT !.box[b] = Tail(@)]
               hd == Head(net.box[b]).msg
    <2>1. /\ NetOk(m) /\ hd \in Message
          /\ \A x \in {a, b} : N!Bound(m, x) = N!Bound(net, x)
          /\ OnTheWay(m, b, Other(b)) = OnTheWay(net, b, Other(b))
          /\ InTurn(OnTheWay(m, Other(b), b)) \subseteq InTurn(OnTheWay(net, Other(b), b))
          /\ hd.turn # None =>
                /\ hd \in Said(OnTheWay(net, Other(b), b))
                /\ Said(OnTheWay(net, Other(b), b)) = Said(OnTheWay(m, Other(b), b)) \cup {hd}
                /\ \A x \in Said(OnTheWay(m, Other(b), b)) :
                      <<hd, x>> \in InTurn(OnTheWay(net, Other(b), b))
      BY <1>1, <1>3, HeadTaken
    <2>2. n2 = m /\ msg = hd
      BY <1>1
    <2> HIDE DEF m, hd
    <2>3. QED
      BY <1>1, <2>1, <2>2, Others
  <1>5. /\ msg.turn \in P!Turn /\ msg.x \in Nat \X Nat
        /\ bExchange \in Nat \X Nat /\ f2 \in Nat \X Nat
    BY <1>1, <1>3, <1>4 DEF Message, TalkOver, Talk
  <1>6. /\ NetOk(n3) /\ N!Bound(n3, a) = N!Bound(net, a)
        /\ \A x \in {a, b} :
              /\ Said(OnTheWay(n3, Other(x), x)) = Said(OnTheWay(n2, Other(x), x))
              /\ InTurn(OnTheWay(n3, Other(x), x)) = InTurn(OnTheWay(n2, Other(x), x))
    <2>1. CASE msg.turn.req = None
      BY <1>1, <1>4, <2>1
    <2>2. CASE msg.turn.req # None
      <3>1. rcpt \in Parcel /\ rcpt.from = Other(a) /\ rcpt.to = a /\ rcpt.msg.turn = None
        BY <1>5, <2>2, MachineMoves, Others DEF Parcel, Message, N!Delivery, AckMsg
      <3>2. n3 = N!Posted(n2, rcpt)
        BY <1>1, <2>2
      <3> HIDE DEF rcpt
      <3>3. QED
        BY <1>4, <3>1, <3>2, ReceiptPosted
    <2>3. QED
      BY <2>1, <2>2
  <1>7. /\ RP!RuntimeInv' /\ ActorStands'
        /\ P!CanReceive(side.state, msg.turn)
        /\ reply \in P!Turn \cup {None}
        /\ reply = None => ~P!Live(side'.state)
        /\ ~ok => ~P!Live(side'.state)
        /\ reply # None => /\ msg.turn.req # None
                           /\ reply.kind \in {"Continue", "Close"} /\ reply.rsp = msg.turn.req
                           /\ ok => side'.state = P!AfterSend(reply)
    BY <1>1, <1>2, <1>5, TurnStep DEF DialogueInv, reply
  <1>8. side'.state \in P!TurnState
    BY <1>7, NextSideState
  <1> DEFINE TA == Said(OnTheWay(net, b, a))
             TB == Said(OnTheWay(net, a, b))
             PA == InTurn(OnTheWay(net, b, a))
             PB == InTurn(OnTheWay(net, a, b))
             TA2 == Said(OnTheWay(net', b, a))
             PA2 == InTurn(OnTheWay(net', b, a))
             TB2 == Said(OnTheWay(net', a, b))
             PB2 == InTurn(OnTheWay(net', a, b))
             up == N!Bound(net, a)
             r == TurnMsg(reply, f2)
  <1>9. /\ Said(OnTheWay(n3, b, a)) = TA /\ InTurn(OnTheWay(n3, b, a)) = PA
        /\ Said(OnTheWay(n3, a, b)) = Said(OnTheWay(n2, a, b))
        /\ InTurn(OnTheWay(n3, a, b)) = InTurn(OnTheWay(n2, a, b))
    BY <1>4, <1>6, Others
  <1>10. /\ NetOk(net') /\ N!Bound(net', a) = up
         /\ TB2 = Said(OnTheWay(n2, a, b)) /\ PB2 = InTurn(OnTheWay(n2, a, b))
         /\ reply = None \/ ~ok => TA2 = TA /\ PA2 = PA
         /\ reply # None /\ ok => /\ TA2 = TA \cup {r}
                                  /\ PA2 \subseteq PA \cup (TA \X {r})
    <2>1. CASE reply = None
      BY <1>1, <1>6, <1>9, <2>1
    <2>2. CASE reply # None
      <3>1. ans \in Parcel /\ ans.from = Other(a) /\ ans.to = a /\ ans.msg = r /\ r.turn # None
        BY <1>5, <1>7, <2>2, Others DEF Parcel, Message, N!Delivery, TurnMsg
      <3>2. net' = N!Posted(n3, ans) /\ ok = N!Sendable(n3, ans)
        BY <1>1, <2>2 DEF ok
      <3> HIDE DEF ans, r
      <3>3. /\ NetOk(net') /\ N!Bound(net', a) = N!Bound(n3, a)
            /\ OnTheWay(net', a, Other(a)) = OnTheWay(n3, a, Other(a))
            /\ ~ok => OnTheWay(net', Other(a), a) = OnTheWay(n3, Other(a), a)
            /\ ok => /\ Said(OnTheWay(net', Other(a), a)) = Said(OnTheWay(n3, Other(a), a)) \cup {r}
                     /\ InTurn(OnTheWay(net', Other(a), a)) \subseteq
                          InTurn(OnTheWay(n3, Other(a), a)) \cup (Said(OnTheWay(n3, Other(a), a)) \X {r})
        BY <1>6, <3>1, <3>2, TurnPosted
      <3>4. Other(a) = b
        BY Others
      <3>5. QED
        BY <1>6, <1>9, <2>2, <3>3, <3>4
    <2>3. QED
      BY <2>1, <2>2
  <1>11. /\ Talk(phone.state, side.state, sending, aExchange, bExchange, posed, TA, TB, PA, PB, up)
         /\ msg \in TB /\ TB = TB2 \cup {msg} /\ PB2 \subseteq PB \cap (TB2 \X TB2)
         /\ \A x \in TB2 : <<msg, x>> \in PB
         /\ PA2 \subseteq TA2 \X TA2
    <2>1. PB2 \subseteq TB2 \X TB2 /\ PA2 \subseteq TA2 \X TA2
      BY DEF InTurn
    <2>2. QED
      BY <1>3, <1>4, <1>10, <2>1 DEF TalkOver
  <1>12. reply # None => r \in TurnMessages /\ r.turn = reply /\ r.x = f2
    BY <1>5, <1>7 DEF TurnMessages, TurnMsg, Message
  <1>13. f2 = IF msg.turn.kind = "Open" THEN msg.x ELSE bExchange
    OBVIOUS
  <1> HIDE DEF TA, TB, PA, PB, TA2, TB2, PA2, PB2, up, r, f2
  <1>14. \/ TA2 = TA /\ PA2 = PA /\ ~P!Live(side'.state)
         \/ SaidInAnswer(r, msg, f2, side'.state, TA, TA2, PA, PA2)
    <2>1. CASE reply = None \/ ~ok
      BY <1>7, <1>10, <2>1
    <2>2. CASE reply # None /\ ok
      BY <1>7, <1>10, <1>11, <1>12, <2>2 DEF SaidInAnswer
    <2>3. QED
      BY <1>2, <2>1, <2>2
  <1>15. /\ Talk(phone.state, side'.state, sending, aExchange, f2, posed, TA2, TB2, PA2, PB2, up)
         /\ f2 = msg.x
    <2> DEFINE s  == phone.state
               z  == side.state
               z2 == side'.state
    <2>1. Talk(s, z, sending, aExchange, bExchange, posed, TA, TB, PA, PB, up)
      BY <1>11
    <2>2. /\ z2 \in P!TurnState
          /\ \/ TA2 = TA /\ PA2 = PA /\ ~P!Live(z2)
             \/ SaidInAnswer(r, msg, f2, z2, TA, TA2, PA, PA2)
      BY <1>8, <1>14
    <2>3. msg \in TB /\ TB = TB2 \cup {msg} /\ PB2 \subseteq PB \cap (TB2 \X TB2)
      BY <1>11
    <2>4. \A x \in TB2 : <<msg, x>> \in PB
      BY <1>11
    <2> HIDE DEF s, z, z2
    <2>5. /\ Talk(s, z2, sending, aExchange, f2, posed, TA2, TB2, PA2, PB2, up)
          /\ f2 = msg.x
      <3>1. ActorHears(s, z, sending, aExchange, bExchange, posed, TA, TB, PA, PB, up, msg,
                       TB2, PB2, f2, z2, TA2, PA2, r)
        BY <1>13, <2>1, <2>2, <2>3, <2>4 DEF ActorHears
      <3>2. QED
        BY <3>1, ActorAccepts
    <2>6. QED
      BY <2>5 DEF s, z2
  <1>16. TalkOver(phone.state, side'.state, sending, aExchange, f2, posed, net')
    BY <1>10, <1>15 DEF TalkOver, TA2, TB2, PA2, PB2, up
  <1>17. Conversation'
    BY <1>1, <1>16 DEF Conversation
  <1>18. AppStands'
    BY <1>1 DEF DialogueInv, AppStands
  <1>19. msg.turn.kind # "Open" => msg.x = bExchange
    BY <1>13, <1>15
  <1>20. DialogueInv'
    BY <1>1, <1>7, <1>10, <1>17, <1>18, AlarmsRest DEF DialogueInv
  <1>21. QED
    BY <1>19, <1>20 DEF msg

-----------------------------------------------------------------------------
(* Mishaps. *)
LEMMA CutOffStep ==
    ASSUME DialogueInv, CutOff
    PROVE  DialogueInv'
  <1>1. /\ net' = N!Partitioned(net, A, B)
        /\ UNCHANGED <<phone, sending, inboxes, lives, posed, aExchange, bExchange>>
        /\ UNCHANGED <<watched, killing>> /\ UNCHANGED runtimeVars
    BY DEF CutOff, Mishap, N!Partition, phoneVars, history
  <1>2. RP!RuntimeInv' /\ ActorStands' /\ side' = side
    BY <1>1, RuntimeRests DEF DialogueInv
  <1>3. NetOk(net') /\ net'.box = net.box /\ net'.held = net.held
    BY <1>1, CutLine DEF DialogueInv
  <1>4. /\ OnTheWay(net', a, b) = OnTheWay(net, a, b)
        /\ OnTheWay(net', b, a) = OnTheWay(net, b, a)
        /\ N!Bound(net', a) = N!Bound(net, a)
    BY <1>3, SameLine DEF N!Bound
  <1>5. Conversation'
    BY <1>1, <1>2, <1>4 DEF DialogueInv, Conversation, TalkOver
  <1>6. AppStands'
    BY <1>1 DEF DialogueInv, AppStands
  <1>7. QED
    BY <1>1, <1>2, <1>3, <1>5, <1>6, AlarmsRest DEF DialogueInv

LEMMA MendStep ==
    ASSUME DialogueInv, Mend
    PROVE  DialogueInv'
  <1>1. /\ net' = N!Healed(net, A, B)
        /\ UNCHANGED <<phone, sending, inboxes, lives, posed, aExchange, bExchange>>
        /\ UNCHANGED <<watched, killing>> /\ UNCHANGED runtimeVars
    BY DEF Mend, N!Heal, phoneVars, history, bounds
  <1>2. RP!RuntimeInv' /\ ActorStands' /\ side' = side
    BY <1>1, RuntimeRests DEF DialogueInv
  <1>3. NetOk(net) /\ TalkOver(phone.state, side.state, sending, aExchange, bExchange, posed, net)
    BY DEF DialogueInv, Conversation
  <1>4. /\ NetOk(net') /\ N!Bound(net', a) = N!Bound(net, a)
        /\ OnTheWay(net', a, b) = OnTheWay(net, a, b)
        /\ OnTheWay(net', b, a) = IF N!Bound(net, a) THEN OnTheWay(net, b, a) ELSE <<>>
    BY <1>1, <1>3, HealedLine, Others DEF NetOk
  <1>5. Said(<<>>) = {} /\ InTurn(<<>>) = {}
    BY EmptySeq DEF Said, InTurn
  <1>6. TalkOver(phone.state, side.state, sending, aExchange, bExchange, posed, net')
    <2>1. CASE N!Bound(net, a)
      BY <1>3, <1>4, <2>1 DEF TalkOver
    <2>2. CASE ~N!Bound(net, a)
      BY <1>3, <1>4, <1>5, <2>2, MailboxLost
    <2>3. QED
      BY <2>1, <2>2
  <1>7. Conversation'
    BY <1>1, <1>2, <1>6 DEF Conversation
  <1>8. AppStands'
    BY <1>1 DEF DialogueInv, AppStands
  <1>9. QED
    BY <1>1, <1>2, <1>4, <1>7, <1>8, AlarmsRest DEF DialogueInv

LEMMA KillAppStep ==
    ASSUME DialogueInv, KillApp
    PROVE  DialogueInv'
  <1>1. /\ net' = [net EXCEPT !.box = [x \in {a, b} |->
                        IF [y \in {a, b} |-> IF y = a THEN A ELSE B][x] = A
                        THEN None ELSE net.box[x]]]
        /\ UNCHANGED <<phone, sending, inboxes, lives, posed, aExchange, bExchange>>
        /\ UNCHANGED watched /\ UNCHANGED runtimeVars
        /\ killing' \subseteq killing \cup [watch : {watch}, endpoint : {A}]
    BY DEF KillApp, Mishap, N!Kill, phoneVars, history
  <1>2. RP!RuntimeInv' /\ ActorStands' /\ side' = side
    BY <1>1, RuntimeRests DEF DialogueInv
  <1>3. net' = [net EXCEPT !.box[a] = None]
    BY <1>1, TwoSides DEF DialogueInv, NetOk
  <1>4. NetOk(net) /\ TalkOver(phone.state, side.state, sending, aExchange, bExchange, posed, net)
    BY DEF DialogueInv, Conversation
  <1>5. /\ NetOk(net') /\ OnTheWay(net', a, b) = OnTheWay(net, a, b)
        /\ Said(OnTheWay(net', b, a)) \subseteq Said(OnTheWay(net, b, a))
        /\ InTurn(OnTheWay(net', b, a)) \subseteq InTurn(OnTheWay(net, b, a))
    BY <1>3, <1>4, LostLine
  <1>6. ~N!Bound(net', a)
    BY <1>3, <1>4 DEF NetOk, N!Bound
  <1>7. TalkOver(phone.state, side.state, sending, aExchange, bExchange, posed, net')
    BY <1>4, <1>5, <1>6, MailboxLost
  <1>8. Conversation'
    BY <1>1, <1>2, <1>7 DEF Conversation
  <1>9. AppStands' /\ AlarmsOk'
    BY <1>1 DEF DialogueInv, AppStands, AlarmsOk
  <1>10. QED
    BY <1>2, <1>5, <1>8, <1>9 DEF DialogueInv

LEMMA KillReportedStep ==
    ASSUME DialogueInv, KillReported
    PROVE  DialogueInv'
  <1>1. /\ UNCHANGED <<phone, sending, net, inboxes, lives, posed, aExchange, bExchange>>
        /\ UNCHANGED runtimeVars
        /\ killing' \subseteq killing
        /\ watched' = [watched EXCEPT ![watch] = Append(@, A)]
    BY DEF KillReported, N!ReportDeath, phoneVars, history, bounds
  <1>2. RP!RuntimeInv' /\ ActorStands' /\ side' = side
    BY <1>1, RuntimeRests DEF DialogueInv
  <1>3. Conversation' /\ AppStands'
    BY <1>1, <1>2 DEF DialogueInv, Conversation, AppStands
  <1>4. AlarmsOk'
    BY <1>1, AppendProperties DEF DialogueInv, AlarmsOk
  <1>5. QED
    BY <1>1, <1>2, <1>3, <1>4 DEF DialogueInv

LEMMA Stuttering ==
    ASSUME DialogueInv, UNCHANGED vars
    PROVE  DialogueInv'
  <1>1. /\ UNCHANGED <<phone, sending, net, watched, killing, inboxes, lives, posed>>
        /\ UNCHANGED <<aExchange, bExchange>> /\ UNCHANGED runtimeVars
    BY DEF vars, phoneVars, netVars, netRest, history, bounds
  <1>2. RP!RuntimeInv' /\ ActorStands' /\ side' = side
    BY <1>1, RuntimeRests DEF DialogueInv
  <1>3. Conversation' /\ AppStands'
    BY <1>1, <1>2 DEF DialogueInv, Conversation, AppStands
  <1>4. QED
    BY <1>1, <1>2, <1>3, AlarmsRest DEF DialogueInv

-----------------------------------------------------------------------------
(* The two begin with nothing said and nothing owed. *)
LEMMA DialogueInit == Init => DialogueInv
  <1> SUFFICES ASSUME Init PROVE DialogueInv
    OBVIOUS
  <1>1. /\ P!Init
        /\ actor = [n \in {actorName} |-> TheActor]
        /\ conv = [n \in {actorName} |-> R!NoConversations]
        /\ mind = [n \in {actorName} |-> R!NoMemories]
        /\ dead = {} /\ events = {} /\ mourned = [n \in {actorName} |-> {}]
        /\ net = [box |-> [x \in {a, b} |-> <<>>], held |-> <<>>, cut |-> {}]
        /\ watched = [w \in {watch} |-> <<>>] /\ killing = {}
        /\ inboxes = [h \in {aInbox, bInbox} |-> IF h = aInbox THEN a ELSE b]
        /\ posed = 0 /\ lives = 0 /\ aExchange = <<0, 0>> /\ bExchange = <<0, 0>>
    BY DEF Init
  <1>2. /\ P!Idle \in P!TurnState /\ ~P!Live(P!Idle) /\ ~P!Owing(P!Idle) /\ ~P!Awaiting(P!Idle)
    BY DEF P!Idle, P!TurnState, P!Live, P!Owing, P!Awaiting
  <1>3. RP!RuntimeInv /\ ActorStands
    <2>1. /\ TheActor \in RP!Setup /\ TheActor # None
          /\ TheActor.party = ActorParty
      BY PartyIsStock, ActorConstants DEF TheActor, RP!Setup
    <2>2. R!NoConversations = [p \in {a} |-> RP!Quiet] /\ R!NoMemories = [p \in {a} |-> RP!FreshMind]
      BY DEF R!NoConversations, R!NoMemories, R!Quiet, RP!Quiet, R!FreshMind, RP!FreshMind,
             R!Idle, RP!Idle
    <2>3. RP!Quiet \in RP!Side /\ RP!FreshMind \in RP!Mind
      BY ActorConstants, RP!QuietType, RP!FreshMindType
    <2>4. /\ RP!WaitsFit(RP!Quiet) /\ ~RP!Live(RP!Quiet.state) /\ ~RP!Owing(RP!Quiet.state)
          /\ RP!FreshMind.shadow = RP!Quiet.state
      BY DEF RP!Quiet, RP!WaitsFit, RP!AckFitsRequest, RP!WaitsFitMove, RP!Idle, RP!Live,
             RP!Awaiting, RP!Owing, RP!FreshMind
    <2>5. RP!RuntimeTypeOK
      BY <1>1, <2>1, <2>2, <2>3 DEF RP!RuntimeTypeOK
    <2>6. \A n \in {actorName}, p \in {a} :
             conv[n][p] = RP!Quiet /\ mind[n][p] = RP!FreshMind
      BY <1>1, <2>2
    <2>7. /\ RP!RuntimeWaitsFit /\ RP!LivePeersAreAdmitted /\ RP!ShadowsAgree
          /\ RP!StockOwesNothing /\ RP!DeadAreMourned
      BY <2>4, <2>6 DEF RP!RuntimeWaitsFit, RP!LivePeersAreAdmitted, RP!ShadowsAgree,
                        RP!StockOwesNothing, RP!DeadAreMourned
    <2>8. ActorStands
      BY <1>1, <2>1 DEF ActorStands
    <2>9. QED
      BY <2>5, <2>7, <2>8 DEF RP!RuntimeInv
  <1>4. NetOk(net)
    <2>1. <<>> \in Seq(Parcel) /\ DOMAIN <<>> = {}
      BY EmptySeq
    <2>2. <<>> # None
      BY <2>1, NoneIsNothingElse
    <2>3. QED
      BY <1>1, <2>1, <2>2 DEF NetOk, N!Bound
  <1>5. AlarmsOk
    BY <1>1, EmptySeq DEF AlarmsOk
  <1>6. AppStands
    <2>1. phone = P!Quiet /\ phone \in P!Side
      BY <1>1, <1>2 DEF P!Init, P!Quiet, P!Side
    <2>2. None # a /\ aInbox # bInbox
      BY NoneIsNothingElse DEF aInbox, bInbox
    <2>3. QED
      BY <1>1, <2>1, <2>2 DEF AppStands
  <1>7. \A f, t \in {a, b} : OnTheWay(net, f, t) = <<>>
    <2>1. \A x \in {a, b} : Queue(net, x) = <<>>
      BY <1>1 DEF Queue
    <2>2. <<>> \in Seq(Parcel) /\ net.held = <<>>
      BY <1>1, EmptySeq
    <2>3. QED
      BY <2>1, <2>2, AlongLaws, ConcatEmptySeq DEF OnTheWay
  <1>8. \A f, t \in {a, b} : Said(OnTheWay(net, f, t)) = {} /\ InTurn(OnTheWay(net, f, t)) = {}
    BY <1>7, NothingSaid
  <1>9. /\ phone.state = P!Idle /\ sending = None /\ side.state = P!Idle
    BY <1>1 DEF P!Init, P!Quiet, side, R!NoConversations, R!Quiet, R!Idle, P!Idle
  <1>10. Talk(P!Idle, P!Idle, None, <<0, 0>>, <<0, 0>>, 0, {}, {}, {}, {}, N!Bound(net, a))
    BY <1>2, PosedIdsAreFresh
       DEF Talk, ToActorOk, ToAppOk, ExchangesOk, AppOk, OneToken, TheyAgree
  <1>11. Conversation
    BY <1>1, <1>8, <1>9, <1>10 DEF Conversation, TalkOver
  <1>12. QED
    BY <1>3, <1>4, <1>5, <1>6, <1>11 DEF DialogueInv

LEMMA DialogueNext == DialogueInv /\ [Next]_vars => DialogueInv'
  <1> SUFFICES ASSUME DialogueInv, [Next]_vars PROVE DialogueInv'
    OBVIOUS
  <1>1. CASE Application
    BY <1>1, OpenStep, AnswerStep, HandOverStep, AppDeadlineStep, AppTurnStep, AppAckStep,
       AppTickStep, GoDownStep, ComeBackStep DEF Application
  <1>2. CASE ActorStep \/ ActorTick
    BY <1>2, ActorFailsStep, ActorAckOrDenialStep, ActorHearsTurnStep, ActorStandsStep
       DEF ActorStep
  <1>3. CASE Mishaps
    BY <1>3, CutOffStep, MendStep, KillAppStep, KillReportedStep, ActorFailsStep, ActorStandsStep
       DEF Mishaps
  <1>4. CASE UNCHANGED vars
    BY <1>4, Stuttering
  <1>5. QED
    BY <1>1, <1>2, <1>3, <1>4 DEF Next

(* The invariant holds in every run: for any fresh ids, any patiences and  *)
(* rounds, any number of requests and of mishaps.                          *)
LEMMA DialogueAlways == SafeSpec => []DialogueInv
  <1>1. QED
    BY DialogueInit, DialogueNext, PTL DEF SafeSpec

-----------------------------------------------------------------------------
(* With both lines empty nobody but the application can have the move.     *)
LEMMA QuietSidesAgree == DialogueInv => QuietMeansAgreed
  <1> SUFFICES ASSUME DialogueInv, NothingUnderWay, aExchange = bExchange,
                      P!Live(phone.state), P!Live(side.state)
               PROVE  /\ phone.state.out = side.state.out
                      /\ P!Owing(phone.state) <=> P!Awaiting(side.state)
    BY DEF QuietMeansAgreed
  <1>1. NetOk(net) /\ TalkOver(phone.state, side.state, sending, aExchange, bExchange, posed, net)
    BY DEF DialogueInv, Conversation
  <1>2. N!Bound(net, a) /\ N!Bound(net, b) /\ sending = None
    BY <1>1 DEF NothingUnderWay, NetOk
  <1>3. \A x \in {a, b} : Said(OnTheWay(net, Other(x), x)) = {}
    <2>1. \A x \in {a, b} : Queue(net, x) = <<>> /\ net.held = <<>>
      BY <1>2 DEF NothingUnderWay, Waits, Queue
    <2>2. <<>> \in Seq(Parcel)
      BY EmptySeq
    <2>3. \A x \in {a, b} : OnTheWay(net, Other(x), x) = <<>>
      BY <2>1, <2>2, AlongLaws, ConcatEmptySeq DEF OnTheWay
    <2>4. QED
      BY <2>3, NothingSaid
  <1>4. Said(OnTheWay(net, a, b)) = {} /\ Said(OnTheWay(net, b, a)) = {}
    BY <1>3, Others
  <1>5. /\ ~P!Owing(side.state)
        /\ TheyAgree(phone.state, side.state, sending, aExchange, bExchange, posed,
                     Said(OnTheWay(net, b, a)), Said(OnTheWay(net, a, b)), N!Bound(net, a))
    BY <1>1 DEF TalkOver, Talk
  <1>6. P!Awaiting(side.state)
    BY <1>5 DEF P!Live
  <1>7. ~P!Awaiting(phone.state)
    BY <1>2, <1>4, <1>5, <1>6 DEF TheyAgree
  <1>8. P!Owing(phone.state)
    BY <1>7 DEF P!Live
  <1>9. QED
    BY <1>5, <1>6, <1>8 DEF TheyAgree

(* When the phone and the actor are live in the same exchange and nothing  *)
(* is under way between them, they agree on whose move it is and on the    *)
(* request to be answered, whatever was lost, killed or revoked before.    *)
THEOREM QuietSidesAlwaysAgree == SafeSpec => []QuietMeansAgreed
  BY DialogueAlways, QuietSidesAgree, PTL

(* No straggler is taken for an answer: what either side accepts as one    *)
(* was said in the exchange it is in, however long a partition held it.    *)
THEOREM AnswersAlwaysBelong == SafeSpec => AnswersBelong
  <1>1. DialogueInv /\ [Next]_vars =>
            [/\ AppTurn /\ phone' # phone => First(a).x = aExchange
             /\ ActorHearsTurn /\ First(b).turn.kind # "Open" => First(b).x = bExchange]_vars
    BY AppTurnStep, ActorHearsTurnStep
  <1>2. QED
    BY <1>1, DialogueAlways, PTL DEF SafeSpec, AnswersBelong

=============================================================================
