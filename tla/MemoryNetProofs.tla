-------------------------- MODULE MemoryNetProofs --------------------------
(***************************************************************************)
(* Theorems about the memory network, for any addresses, endpoints, routes,*)
(* batches and borders, and any number of sends and kills.                 *)
(*                                                                         *)
(* Along is recursive, so its laws are proved by induction: over a set of  *)
(* numbers, then over the set of sequences that grow at their end.  From   *)
(* there on only the laws are used.                                        *)
(*                                                                         *)
(* TrafficInv says that every delivery lies in the mailbox it is for, that *)
(* a partition cuts both ways and that nothing is held but by one, that no *)
(* delivery is newer than the last send, and that what is on its way from  *)
(* one address to another - mailbox first, then what is held - is in the   *)
(* order it was sent.  The order alone is not inductive: a send that goes  *)
(* straight to a mailbox must find nothing held for the same two.          *)
(***************************************************************************)
EXTENDS MemoryTraffic, SequenceTheorems, WellFoundedInduction, TLAPS

-----------------------------------------------------------------------------
(* Induction over the natural numbers, for a set instead of a predicate.   *)
LEMMA NatSetInduction ==
  ASSUME NEW S, 0 \in S, \A n \in Nat : n \in S => n + 1 \in S
  PROVE  Nat \subseteq S
PROOF
  <1> DEFINE Smaller == OpToRel(<, Nat)
             Missing == Nat \ S
  <1>1. IsWellFoundedOn(Smaller, Nat)
    BY NatLessThanWellFounded
  <1>2. SUFFICES ASSUME Missing # {} PROVE FALSE
    OBVIOUS
  <1>3. \E x \in Missing : \A y \in Missing : ~(<<y, x>> \in Smaller)
    <2> HIDE DEF Smaller, Missing
    <2>1. Missing \subseteq Nat  BY DEF Missing
    <2>2. QED  BY <1>1, <1>2, <2>1, WFMin
  <1>4. PICK x \in Missing : \A y \in Missing : ~(y < x)
    BY <1>3 DEF OpToRel
  <1>5. x \in Nat /\ x # 0
    BY <1>4
  <1>6. x - 1 \in Nat /\ x - 1 < x
    BY <1>5
  <1>7. x - 1 \in S
    BY <1>4, <1>6
  <1>8. QED
    BY <1>4, <1>5, <1>6, <1>7

(* Induction over sequences that grow at the end.                          *)
LEMMA SeqSetInduction ==
  ASSUME NEW D, NEW S, <<>> \in S,
         \A s \in Seq(D), d \in D : s \in S => Append(s, d) \in S
  PROVE  Seq(D) \subseteq S
PROOF
  <1> DEFINE Good == {n \in Nat : \A s \in Seq(D) : Len(s) = n => s \in S}
  <1>1. 0 \in Good
    BY EmptySeq
  <1>2. ASSUME NEW n \in Nat, n \in Good PROVE n + 1 \in Good
    <2>1. SUFFICES ASSUME NEW s \in Seq(D), Len(s) = n + 1 PROVE s \in S
      OBVIOUS
    <2>2. s # <<>>
      BY <2>1, EmptySeq
    <2>3. PICK u \in Seq(D), d \in D : s = Append(u, d)
      BY <2>2, SequenceEmptyOrAppend
    <2>4. Len(u) = n
      BY <2>1, <2>3, AppendProperties, LenProperties
    <2>5. QED
      BY <1>2, <2>3, <2>4
  <1>3. Nat \subseteq Good
    <2> HIDE DEF Good
    <2>1. QED  BY <1>1, <1>2, NatSetInduction
  <1>4. QED
    BY <1>3, LenProperties

-----------------------------------------------------------------------------
(* The recursion inside Along. *)
Grows(routes, s, g) ==
    g = [i \in 0 .. Len(s) |->
            IF i = 0 THEN <<>>
            ELSE IF Route(s[i]) \in routes THEN Append(g[i - 1], s[i])
            ELSE g[i - 1]]

Upto(routes, s) == CHOOSE g : Grows(routes, s, g)

LEMMA AlongIsUpto ==
  ASSUME NEW routes, NEW s
  PROVE  Along(routes, s) = Upto(routes, s)[Len(s)]
  BY DEF Along, Upto, Grows

LEMMA UptoExists ==
  ASSUME NEW routes, NEW D, NEW s \in Seq(D)
  PROVE  Grows(routes, s, Upto(routes, s))
PROOF
  <1> DEFINE Step(g, i) == IF i = 0 THEN <<>>
                           ELSE IF Route(s[i]) \in routes THEN Append(g[i - 1], s[i])
                           ELSE g[i - 1]
             Good == {n \in Nat : \E g : g = [i \in 0 .. n |-> Step(g, i)]}
  <1>1. 0 \in Good
    <2>1. [i \in 0 .. 0 |-> <<>>] = [i \in 0 .. 0 |-> Step([j \in 0 .. 0 |-> <<>>], i)]
      OBVIOUS
    <2>2. QED  BY <2>1
  <1>2. ASSUME NEW n \in Nat, n \in Good PROVE n + 1 \in Good
    <2>1. PICK g : g = [i \in 0 .. n |-> Step(g, i)]
      BY <1>2
    <2> DEFINE h == [i \in 0 .. n + 1 |-> IF i = n + 1 THEN Step(g, n + 1) ELSE g[i]]
    <2>2. \A i \in 0 .. n + 1 : h[i] = Step(h, i)
      <3>1. TAKE i \in 0 .. n + 1
      <3>2. CASE i = 0
        <4>1. h[i] = g[0]  BY <3>2
        <4>2. g[0] = <<>>  BY <2>1
        <4>3. QED  BY <3>2, <4>1, <4>2
      <3>3. CASE i # 0
        <4>1. i - 1 \in 0 .. n /\ h[i - 1] = g[i - 1]  BY <3>1, <3>3
        <4>2. Step(h, i) = Step(g, i)  BY <4>1
        <4>3. h[i] = Step(g, i)
          <5>1. CASE i = n + 1  BY <5>1
          <5>2. CASE i # n + 1
            <6>1. i \in 0 .. n  BY <3>1, <5>2
            <6>2. h[i] = g[i]  BY <5>2
            <6>3. g[i] = Step(g, i)  BY <2>1, <6>1
            <6>4. QED  BY <6>2, <6>3
          <5>3. QED  BY <5>1, <5>2
        <4>4. QED  BY <4>2, <4>3
      <3>4. QED  BY <3>2, <3>3
    <2>3. h = [i \in 0 .. n + 1 |-> Step(h, i)]
      <3> HIDE DEF Step
      <3>1. DOMAIN h = 0 .. n + 1  OBVIOUS
      <3>2. h = [i \in 0 .. n + 1 |-> h[i]]  OBVIOUS
      <3>3. QED  BY <2>2, <3>2
    <2>4. QED
      <3> HIDE DEF Step, h
      <3>1. QED  BY <2>3
  <1>3. Len(s) \in Good
    <2> HIDE DEF Good
    <2>1. Nat \subseteq Good  BY <1>1, <1>2, NatSetInduction
    <2>2. QED  BY <2>1, LenProperties
  <1>4. PICK g : Grows(routes, s, g)
    BY <1>3 DEF Grows
  <1>5. QED
    BY <1>4 DEF Upto

LEMMA UptoEquations ==
  ASSUME NEW routes, NEW D, NEW s \in Seq(D)
  PROVE  /\ Upto(routes, s)[0] = <<>>
         /\ \A i \in 1 .. Len(s) :
               Upto(routes, s)[i] = IF Route(s[i]) \in routes
                                    THEN Append(Upto(routes, s)[i - 1], s[i])
                                    ELSE Upto(routes, s)[i - 1]
PROOF
  <1> DEFINE g == Upto(routes, s)
  <1>1. Grows(routes, s, g)
    BY UptoExists
  <1>2. Len(s) \in Nat
    BY LenProperties
  <1> HIDE DEF g
  <1>3. g[0] = <<>> /\ \A i \in 1 .. Len(s) :
               g[i] = IF Route(s[i]) \in routes THEN Append(g[i - 1], s[i]) ELSE g[i - 1]
    <2>1. \A i \in 0 .. Len(s) :
             g[i] = IF i = 0 THEN <<>>
                    ELSE IF Route(s[i]) \in routes THEN Append(g[i - 1], s[i])
                    ELSE g[i - 1]
      BY <1>1, Zenon DEF Grows
    <2>2. 0 \in 0 .. Len(s) /\ \A i \in 1 .. Len(s) : i \in 0 .. Len(s) /\ i # 0
      BY <1>2
    <2>3. QED
      BY <2>1, <2>2, Zenon
  <1>4. QED
    BY <1>3 DEF g

-----------------------------------------------------------------------------
(* The laws of Along: what it makes of nothing, of one more delivery, of   *)
(* two sequences in a row, of a sequence it has been applied to before.    *)

LEMMA AlongNothing ==
  ASSUME NEW routes
  PROVE  Along(routes, <<>>) = <<>>
  BY AlongIsUpto, UptoEquations, EmptySeq

LEMMA AlongAppend ==
  ASSUME NEW routes, NEW D, NEW s \in Seq(D), NEW d \in D
  PROVE  Along(routes, Append(s, d)) =
            IF Route(d) \in routes THEN Append(Along(routes, s), d) ELSE Along(routes, s)
PROOF
  <1> DEFINE sd == Append(s, d)
             g == Upto(routes, s)
             h == Upto(routes, sd)
  <1>1. /\ sd \in Seq(D) /\ Len(sd) = Len(s) + 1 /\ sd[Len(s) + 1] = d
        /\ \A i \in 1 .. Len(s) : sd[i] = s[i]
        /\ Len(s) \in Nat
    BY AppendProperties, LenProperties
  <1>2. /\ g[0] = <<>>
        /\ \A i \in 1 .. Len(s) : g[i] = IF Route(s[i]) \in routes
                                         THEN Append(g[i - 1], s[i]) ELSE g[i - 1]
    BY UptoEquations
  <1>3. /\ h[0] = <<>>
        /\ \A i \in 1 .. Len(sd) : h[i] = IF Route(sd[i]) \in routes
                                          THEN Append(h[i - 1], sd[i]) ELSE h[i - 1]
    <2> HIDE DEF sd
    <2>1. QED  BY <1>1, UptoEquations
  <1>4. Along(routes, sd) = h[Len(s) + 1] /\ Along(routes, s) = g[Len(s)]
    BY <1>1, AlongIsUpto
  <1> HIDE DEF sd, g, h
  <1> DEFINE Same == {i \in Nat : i <= Len(s) => h[i] = g[i]}
  <1>5. 0 \in Same
    BY <1>2, <1>3
  <1>6. ASSUME NEW n \in Nat, n \in Same PROVE n + 1 \in Same
    <2>1. SUFFICES ASSUME n + 1 <= Len(s) PROVE h[n + 1] = g[n + 1]
      OBVIOUS
    <2>2. n + 1 \in 1 .. Len(s) /\ n + 1 \in 1 .. Len(sd) /\ (n + 1) - 1 = n
      BY <1>1, <2>1
    <2>3. h[n] = g[n]
      BY <1>6, <1>1, <2>1
    <2>4. sd[n + 1] = s[n + 1]
      BY <1>1, <2>2
    <2>5. h[n + 1] = IF Route(sd[n + 1]) \in routes THEN Append(h[n], sd[n + 1]) ELSE h[n]
      BY <1>3, <2>2
    <2>6. g[n + 1] = IF Route(s[n + 1]) \in routes THEN Append(g[n], s[n + 1]) ELSE g[n]
      BY <1>2, <2>2
    <2>7. QED
      BY <2>3, <2>4, <2>5, <2>6
  <1>7. h[Len(s)] = g[Len(s)]
    <2> HIDE DEF Same
    <2>1. Nat \subseteq Same  BY <1>5, <1>6, NatSetInduction
    <2>2. Len(s) \in Same  BY <1>1, <2>1
    <2>3. QED  BY <1>1, <2>2 DEF Same
  <1>8. h[Len(s) + 1] = IF Route(d) \in routes THEN Append(h[Len(s)], d) ELSE h[Len(s)]
    <2>1. Len(s) + 1 \in 1 .. Len(sd) /\ (Len(s) + 1) - 1 = Len(s)  BY <1>1
    <2>2. QED  BY <1>1, <1>3, <2>1
  <1>9. QED
    BY <1>4, <1>7, <1>8 DEF sd

LEMMA AlongType ==
  ASSUME NEW routes, NEW D, NEW s \in Seq(D)
  PROVE  Along(routes, s) \in Seq({d \in D : Route(d) \in routes})
PROOF
  <1> DEFINE E == {d \in D : Route(d) \in routes}
             Good == {u \in Seq(D) : Along(routes, u) \in Seq(E)}
  <1>1. <<>> \in Good
    BY AlongNothing, EmptySeq
  <1>2. ASSUME NEW u \in Seq(D), NEW d \in D, u \in Good PROVE Append(u, d) \in Good
    <2>1. Append(u, d) \in Seq(D)  BY AppendProperties
    <2>2. Along(routes, u) \in Seq(E)  BY <1>2
    <2>3. CASE Route(d) \in routes
      <3>1. d \in E  BY <2>3
      <3>2. Append(Along(routes, u), d) \in Seq(E)
        <4> HIDE DEF E
        <4>1. QED  BY <2>2, <3>1, AppendProperties
      <3>3. QED  BY <2>1, <2>3, <3>2, AlongAppend
    <2>4. CASE Route(d) \notin routes
      BY <2>1, <2>2, <2>4, AlongAppend
    <2>5. QED  BY <2>3, <2>4
  <1>3. Seq(D) \subseteq Good
    <2> HIDE DEF Good
    <2>1. QED  BY <1>1, <1>2, SeqSetInduction
  <1>4. QED
    BY <1>3

LEMMA AlongInSeq ==
  ASSUME NEW routes, NEW D, NEW s \in Seq(D)
  PROVE  Along(routes, s) \in Seq(D)
  <1> DEFINE E == {d \in D : Route(d) \in routes}
  <1>1. Along(routes, s) \in Seq(E)  BY AlongType
  <1>2. E \subseteq D  OBVIOUS
  <1> HIDE DEF E
  <1>3. QED  BY <1>1, <1>2, SeqMonotonic

LEMMA AlongConcat ==
  ASSUME NEW routes, NEW D, NEW s \in Seq(D), NEW t \in Seq(D)
  PROVE  Along(routes, s \o t) = Along(routes, s) \o Along(routes, t)
PROOF
  <1> DEFINE Good == {u \in Seq(D) : Along(routes, s \o u) = Along(routes, s) \o Along(routes, u)}
  <1>1. <<>> \in Good
    <2>1. s \o <<>> = s  BY ConcatEmptySeq
    <2>2. Along(routes, s) \o <<>> = Along(routes, s)  BY AlongInSeq, ConcatEmptySeq
    <2>3. QED  BY <2>1, <2>2, AlongNothing, EmptySeq
  <1>2. ASSUME NEW u \in Seq(D), NEW d \in D, u \in Good PROVE Append(u, d) \in Good
    <2>1. Append(u, d) \in Seq(D)  BY AppendProperties
    <2>2. s \o Append(u, d) = Append(s \o u, d)
      OBVIOUS
    <2>3. s \o u \in Seq(D)  BY ConcatProperties
    <2>4. Along(routes, s \o Append(u, d)) =
             IF Route(d) \in routes THEN Append(Along(routes, s \o u), d) ELSE Along(routes, s \o u)
      <3> DEFINE su == s \o u
      <3>1. su \in Seq(D)  BY <2>3
      <3> HIDE DEF su
      <3>2. Along(routes, Append(su, d)) =
               IF Route(d) \in routes THEN Append(Along(routes, su), d) ELSE Along(routes, su)
        BY <3>1, AlongAppend
      <3>3. QED  BY <2>2, <3>2 DEF su
    <2>5. Along(routes, s \o u) = Along(routes, s) \o Along(routes, u)  BY <1>2
    <2>6. Along(routes, Append(u, d)) =
             IF Route(d) \in routes THEN Append(Along(routes, u), d) ELSE Along(routes, u)
      BY AlongAppend
    <2>7. Along(routes, s) \in Seq(D) /\ Along(routes, u) \in Seq(D)  BY AlongInSeq
    <2>8. Append(Along(routes, s) \o Along(routes, u), d) = Along(routes, s) \o Append(Along(routes, u), d)
      <3> DEFINE p == Along(routes, s)
                 q == Along(routes, u)
      <3>1. p \in Seq(D) /\ q \in Seq(D) /\ <<d>> \in Seq(D)  BY <2>7
      <3> HIDE DEF p, q, Good
      <3>2. (p \o q) \o <<d>> = p \o (q \o <<d>>)  BY <3>1, ConcatAssociative
      <3>3. q \o <<d>> = Append(q, d)  BY <3>1, AppendIsConcat
      <3>4. p \o q \in Seq(D)  BY <3>1, ConcatProperties
      <3>5. (p \o q) \o <<d>> = Append(p \o q, d)  BY <3>4, AppendIsConcat
      <3>6. Append(p \o q, d) = p \o Append(q, d)  BY <3>2, <3>3, <3>5
      <3>7. QED  BY <3>6 DEF p, q
    <2>9. QED  BY <2>1, <2>4, <2>5, <2>6, <2>8
  <1>3. Seq(D) \subseteq Good
    <2> HIDE DEF Good
    <2>1. QED  BY <1>1, <1>2, SeqSetInduction
  <1>4. QED
    BY <1>3

LEMMA AlongAlong ==
  ASSUME NEW these, NEW those, NEW D, NEW s \in Seq(D)
  PROVE  Along(these, Along(those, s)) = Along(these \cap those, s)
PROOF
  <1> DEFINE Good == {u \in Seq(D) : Along(these, Along(those, u)) = Along(these \cap those, u)}
  <1>1. <<>> \in Good
    BY AlongNothing, EmptySeq
  <1>2. ASSUME NEW u \in Seq(D), NEW d \in D, u \in Good PROVE Append(u, d) \in Good
    <2>1. Append(u, d) \in Seq(D)  BY AppendProperties
    <2>2. Along(those, u) \in Seq(D)  BY AlongInSeq
    <2>3. Along(those, Append(u, d)) =
             IF Route(d) \in those THEN Append(Along(those, u), d) ELSE Along(those, u)
      BY AlongAppend
    <2>4. Along(these, Append(Along(those, u), d)) =
             IF Route(d) \in these THEN Append(Along(these, Along(those, u)), d)
             ELSE Along(these, Along(those, u))
      BY <2>2, AlongAppend
    <2>5. Along(these \cap those, Append(u, d)) =
             IF Route(d) \in these \cap those THEN Append(Along(these \cap those, u), d)
             ELSE Along(these \cap those, u)
      BY AlongAppend
    <2>6. QED  BY <1>2, <2>1, <2>3, <2>4, <2>5
  <1>3. Seq(D) \subseteq Good
    <2> HIDE DEF Good
    <2>1. QED  BY <1>1, <1>2, SeqSetInduction
  <1>4. QED
    BY <1>3

LEMMA RangeOfNothing == Range(<<>>) = {}
  BY DEF Range

LEMMA RangeOfAppend ==
  ASSUME NEW D, NEW s \in Seq(D), NEW d \in D
  PROVE  Range(Append(s, d)) = Range(s) \cup {d}
  <1>1. /\ Len(s) \in Nat /\ Append(s, d) \in Seq(D)
        /\ Len(Append(s, d)) = Len(s) + 1
        /\ \A i \in 1 .. Len(s) : Append(s, d)[i] = s[i]
        /\ Append(s, d)[Len(s) + 1] = d
    BY AppendProperties, LenProperties
  <1>2. Range(s) = {s[i] : i \in 1 .. Len(s)}
    BY RangeEquality
  <1>3. Range(Append(s, d)) = {Append(s, d)[i] : i \in 1 .. Len(s) + 1}
    BY <1>1, RangeEquality
  <1>4. QED
    BY <1>1, <1>2, <1>3

LEMMA RangeOfOne ==
  ASSUME NEW d
  PROVE  <<d>> \in Seq({d}) /\ Range(<<d>>) = {d}
  <1>1. <<>> \in Seq({d}) /\ d \in {d}  BY EmptySeq
  <1>2. Append(<<>>, d) = <<d>>  BY <1>1, AppendIsConcat, ConcatEmptySeq
  <1>3. Append(<<>>, d) \in Seq({d})  BY <1>1, AppendProperties
  <1>4. Range(Append(<<>>, d)) = Range(<<>>) \cup {d}  BY <1>1, RangeOfAppend
  <1>5. QED  BY <1>2, <1>3, <1>4, RangeOfNothing

LEMMA RangeOfAlong ==
  ASSUME NEW routes, NEW D, NEW s \in Seq(D)
  PROVE  Range(Along(routes, s)) = {d \in Range(s) : Route(d) \in routes}
PROOF
  <1> DEFINE Good == {u \in Seq(D) :
                         Range(Along(routes, u)) = {d \in Range(u) : Route(d) \in routes}}
  <1>1. <<>> \in Good
    BY AlongNothing, EmptySeq, RangeOfNothing
  <1>2. ASSUME NEW u \in Seq(D), NEW d \in D, u \in Good PROVE Append(u, d) \in Good
    <2>1. Append(u, d) \in Seq(D)  BY AppendProperties
    <2>2. Range(Append(u, d)) = Range(u) \cup {d}  BY RangeOfAppend
    <2>3. CASE Route(d) \in routes
      <3>1. Along(routes, Append(u, d)) = Append(Along(routes, u), d)  BY <2>3, AlongAppend
      <3>2. Along(routes, u) \in Seq(D)  BY AlongInSeq
      <3>3. Range(Append(Along(routes, u), d)) = Range(Along(routes, u)) \cup {d}
        BY <3>2, RangeOfAppend
      <3>4. QED  BY <1>2, <2>1, <2>2, <2>3, <3>1, <3>3
    <2>4. CASE Route(d) \notin routes
      <3>1. Along(routes, Append(u, d)) = Along(routes, u)  BY <2>4, AlongAppend
      <3>2. QED  BY <1>2, <2>1, <2>2, <2>4, <3>1
    <2>5. QED  BY <2>3, <2>4
  <1>3. Seq(D) \subseteq Good
    <2> HIDE DEF Good
    <2>1. QED  BY <1>1, <1>2, SeqSetInduction
  <1>4. QED
    BY <1>3

LEMMA EmptyRange ==
  ASSUME NEW D, NEW s \in Seq(D), Range(s) = {}
  PROVE  s = <<>>
  <1>1. Len(s) \in Nat  BY LenProperties
  <1>2. SUFFICES ASSUME Len(s) # 0 PROVE FALSE  BY <1>1, EmptySeq
  <1>3. 1 \in 1 .. Len(s)  BY <1>1, <1>2
  <1>4. s[1] \in Range(s)  BY <1>3, RangeEquality
  <1>5. QED  BY <1>4

LEMMA AlongNone ==
  ASSUME NEW routes, NEW D, NEW s \in Seq(D), \A d \in Range(s) : Route(d) \notin routes
  PROVE  Along(routes, s) = <<>>
  <1>1. Along(routes, s) \in Seq(D)  BY AlongInSeq
  <1>2. Range(Along(routes, s)) = {}  BY RangeOfAlong
  <1> HIDE DEF Along
  <1>3. QED  BY <1>1, <1>2, EmptyRange

LEMMA AlongOne ==
  ASSUME NEW routes, NEW d
  PROVE  Along(routes, <<d>>) = IF Route(d) \in routes THEN <<d>> ELSE <<>>
  <1>1. <<>> \in Seq({d})  BY EmptySeq
  <1>2. Append(<<>>, d) = <<d>>  BY <1>1, AppendIsConcat, ConcatEmptySeq
  <1>3. Along(routes, Append(<<>>, d)) =
           IF Route(d) \in routes THEN Append(Along(routes, <<>>), d) ELSE Along(routes, <<>>)
    BY <1>1, AlongAppend
  <1>4. QED  BY <1>2, <1>3, AlongNothing

LEMMA HeadThenTail ==
  ASSUME NEW D, NEW s \in Seq(D), s # <<>>
  PROVE  /\ Head(s) \in D /\ Tail(s) \in Seq(D)
         /\ s = <<Head(s)>> \o Tail(s)
  <1>1. Head(s) \in D /\ Tail(s) \in Seq(D)  BY HeadTailProperties
  <1>2. Len(s) \in Nat /\ Len(s) # 0  BY LenProperties, EmptySeq
  <1>3. SubSeq(s, 1, Len(s)) = <<s[1]>> \o SubSeq(s, 2, Len(s))
    BY <1>2, SubSeqRecursiveFirst
  <1>4. SubSeq(s, 1, Len(s)) = s /\ SubSeq(s, 2, Len(s)) = Tail(s)
    BY SubSeqFull, TailIsSubSeq
  <1>5. Head(s) = s[1]  BY <1>2
  <1>6. QED  BY <1>1, <1>3, <1>4, <1>5

-----------------------------------------------------------------------------
(* Ascending sequences of numbered deliveries                              *)

LEMMA AscendingParts ==
  ASSUME NEW s \in Seq(Deliveries), NEW t \in Seq(Deliveries), Ascending(s \o t)
  PROVE  Ascending(s) /\ Ascending(t)
  <1>1. /\ Len(s) \in Nat /\ Len(t) \in Nat
        /\ DOMAIN s = 1 .. Len(s) /\ DOMAIN t = 1 .. Len(t)
    BY LenProperties
  <1>2. /\ s \o t \in Seq(Deliveries) /\ Len(s \o t) = Len(s) + Len(t)
        /\ \A i \in 1 .. Len(s) + Len(t) :
              (s \o t)[i] = IF i <= Len(s) THEN s[i] ELSE t[i - Len(s)]
    BY ConcatProperties
  <1>3. DOMAIN (s \o t) = 1 .. Len(s) + Len(t)
    BY <1>2, LenProperties
  <1>4. Ascending(s)
    <2>1. SUFFICES ASSUME NEW i \in 1 .. Len(s), NEW j \in 1 .. Len(s), i < j
                   PROVE  s[i].msg <= s[j].msg
      BY <1>1 DEF Ascending
    <2>2. (s \o t)[i] = s[i] /\ (s \o t)[j] = s[j]  BY <1>1, <1>2
    <2>3. i \in DOMAIN (s \o t) /\ j \in DOMAIN (s \o t)  BY <1>1, <1>3
    <2>4. QED  BY <2>1, <2>2, <2>3 DEF Ascending
  <1>5. Ascending(t)
    <2>1. SUFFICES ASSUME NEW i \in 1 .. Len(t), NEW j \in 1 .. Len(t), i < j
                   PROVE  t[i].msg <= t[j].msg
      BY <1>1 DEF Ascending
    <2> DEFINE k == Len(s) + i
               l == Len(s) + j
    <2>2. /\ k \in 1 .. Len(s) + Len(t) /\ l \in 1 .. Len(s) + Len(t) /\ k < l
          /\ ~(k <= Len(s)) /\ ~(l <= Len(s)) /\ k - Len(s) = i /\ l - Len(s) = j
      BY <1>1, <2>1
    <2> HIDE DEF k, l
    <2>3. (s \o t)[k] = t[i] /\ (s \o t)[l] = t[j]  BY <1>2, <2>2
    <2>4. QED  BY <1>3, <2>2, <2>3 DEF Ascending
  <1>6. QED
    BY <1>4, <1>5

LEMMA AscendingConcat ==
  ASSUME NEW s \in Seq(Deliveries), NEW t \in Seq(Deliveries),
         Ascending(s), Ascending(t),
         \A d \in Range(s), e \in Range(t) : d.msg <= e.msg
  PROVE  Ascending(s \o t)
  <1>1. /\ Len(s) \in Nat /\ Len(t) \in Nat
        /\ DOMAIN s = 1 .. Len(s) /\ DOMAIN t = 1 .. Len(t)
    BY LenProperties
  <1>2. /\ s \o t \in Seq(Deliveries) /\ Len(s \o t) = Len(s) + Len(t)
        /\ \A i \in 1 .. Len(s) + Len(t) :
              (s \o t)[i] = IF i <= Len(s) THEN s[i] ELSE t[i - Len(s)]
    BY ConcatProperties
  <1>3. DOMAIN (s \o t) = 1 .. Len(s) + Len(t)
    BY <1>2, LenProperties
  <1>4. SUFFICES ASSUME NEW i \in 1 .. Len(s) + Len(t), NEW j \in 1 .. Len(s) + Len(t), i < j
                 PROVE  (s \o t)[i].msg <= (s \o t)[j].msg
    BY <1>3 DEF Ascending
  <1>5. CASE j <= Len(s)
    <2>1. i \in DOMAIN s /\ j \in DOMAIN s  BY <1>1, <1>4, <1>5
    <2>2. (s \o t)[i] = s[i] /\ (s \o t)[j] = s[j]  BY <1>1, <1>2, <1>4, <1>5
    <2>3. QED  BY <1>4, <2>1, <2>2 DEF Ascending
  <1>6. CASE i <= Len(s) /\ ~(j <= Len(s))
    <2>1. i \in DOMAIN s /\ j - Len(s) \in DOMAIN t  BY <1>1, <1>4, <1>6
    <2>2. (s \o t)[i] = s[i] /\ (s \o t)[j] = t[j - Len(s)]  BY <1>2, <1>6
    <2>3. s[i] \in Range(s) /\ t[j - Len(s)] \in Range(t)  BY <2>1 DEF Range
    <2>4. QED  BY <2>2, <2>3
  <1>7. CASE ~(i <= Len(s))
    <2>1. /\ i - Len(s) \in DOMAIN t /\ j - Len(s) \in DOMAIN t
          /\ i - Len(s) < j - Len(s) /\ ~(j <= Len(s))
      BY <1>1, <1>4, <1>7
    <2>2. (s \o t)[i] = t[i - Len(s)] /\ (s \o t)[j] = t[j - Len(s)]  BY <1>2, <1>7, <2>1
    <2>3. QED  BY <2>1, <2>2 DEF Ascending
  <1>8. QED
    BY <1>5, <1>6, <1>7

LEMMA AscendingIfSame ==
  ASSUME NEW s \in Seq(Deliveries), NEW m \in Nat, \A d \in Range(s) : d.msg = m
  PROVE  Ascending(s)
  <1>1. SUFFICES ASSUME NEW i \in DOMAIN s, NEW j \in DOMAIN s
                 PROVE  s[i].msg <= s[j].msg
    BY DEF Ascending
  <1>2. s[i] \in Range(s) /\ s[j] \in Range(s)
    BY DEF Range
  <1>3. s[i].msg = m /\ s[j].msg = m
    BY <1>2
  <1>4. QED
    BY <1>3

-----------------------------------------------------------------------------
(* The inductive invariant's parts.                                        *)

(* The mutex's record, and the rest of the state.                          *)
Nets ==
    [box  : [Addresses -> {Nothing} \cup Seq(Deliveries)],
     held : Seq(Deliveries),
     cut  : SUBSET (NetEndpoints \X NetEndpoints)]

WatchesOk ==
    /\ watched \in [Watches -> {Nothing} \cup Seq(NetEndpoints)]
    /\ killing \subseteq [watch : Watches, endpoint : NetEndpoints]
    /\ \A k \in killing : watched[k.watch] # Nothing

HandlesOk ==
    /\ inboxes \in [Handles -> {Nothing} \cup Addresses]
    /\ owner \in [Addresses -> {Nothing} \cup Handles]

(* A partition cuts both ways, and what is held is held by one.            *)
CutBothWays(n) == \A e \in NetEndpoints, g \in NetEndpoints :
                     <<e, g>> \in n.cut => <<g, e>> \in n.cut
HeldIsCut(n)   == \A d \in Range(n.held) : Cut(n, d)

(* Every delivery lies in its own mailbox, and none is newer than m.       *)
Addressed(n)   == \A x \in Addresses : \A d \in Range(Queued(n, x)) : d.to = x
Numbered(n, m) == \A d \in Contents(n) : d.msg <= m

Ordered(n) == \A f \in Addresses, t \in Addresses : Ascending(Line(n, f, t))

NetOk(n, m) ==
    /\ n \in Nets
    /\ CutBothWays(n)
    /\ HeldIsCut(n)
    /\ Addressed(n)
    /\ Numbered(n, m)
    /\ Ordered(n)

TrafficInv ==
    /\ serial \in Nat
    /\ NetOk(net, serial)
    /\ WatchesOk
    /\ HandlesOk

-----------------------------------------------------------------------------
(* What a call makes of the queues                                         *)

LEMMA QueuedType ==
  ASSUME NEW n \in Nets, NEW x \in Addresses
  PROVE  /\ Queued(n, x) \in Seq(Deliveries)
         /\ Bound(n, x) => n.box[x] \in Seq(Deliveries)
         /\ ~Bound(n, x) => n.box[x] = Nothing
  BY EmptySeq DEF Nets, Queued, Bound

LEMMA LineIsTwoParts ==
  ASSUME NEW n \in Nets, NEW f \in Addresses, NEW t \in Addresses
  PROVE  /\ Line(n, f, t) = Along({<<f, t>>}, Queued(n, t)) \o Along({<<f, t>>}, n.held)
         /\ Along({<<f, t>>}, Queued(n, t)) \in Seq(Deliveries)
         /\ Along({<<f, t>>}, n.held) \in Seq(Deliveries)
         /\ Line(n, f, t) \in Seq(Deliveries)
  <1>1. Queued(n, t) \in Seq(Deliveries) /\ n.held \in Seq(Deliveries)
    BY QueuedType DEF Nets
  <1>2. Queued(n, t) \o n.held \in Seq(Deliveries)
    BY <1>1, ConcatProperties
  <1>3. Line(n, f, t) = Along({<<f, t>>}, Queued(n, t)) \o Along({<<f, t>>}, n.held)
    BY <1>1, AlongConcat DEF Line
  <1>4. Line(n, f, t) \in Seq(Deliveries)
    BY <1>2, AlongInSeq DEF Line
  <1>5. QED
    BY <1>1, <1>3, <1>4, AlongInSeq

LEMMA AllBoxedIs ==
  ASSUME NEW n \in Nets, NEW posts \in Seq(Deliveries)
  PROVE  LET r == AllBoxed(n, posts)
         IN  /\ r \in Nets /\ r.held = n.held /\ r.cut = n.cut
             /\ \A x \in Addresses :
                   /\ Bound(r, x) <=> Bound(n, x)
                   /\ Queued(r, x) = IF Bound(n, x)
                                     THEN Queued(n, x) \o Along(RoutesTo(x), posts) ELSE <<>>
PROOF
  <1> DEFINE r == AllBoxed(n, posts)
             new(x) == n.box[x] \o Along(RoutesTo(x), posts)
             boxes == [x \in Addresses |-> IF Bound(n, x) THEN new(x) ELSE Nothing]
  <1>1. ASSUME NEW x \in Addresses, Bound(n, x)
        PROVE  new(x) \in Seq(Deliveries) /\ new(x) # Nothing
    <2>1. n.box[x] \in Seq(Deliveries)  BY <1>1, QueuedType
    <2>2. Along(RoutesTo(x), posts) \in Seq(Deliveries)  BY AlongInSeq
    <2>3. new(x) \in Seq(Deliveries)  BY <2>1, <2>2, ConcatProperties
    <2>4. QED  BY <2>3, NothingIsNoQueue
  <1>2. /\ r.held = n.held /\ r.cut = n.cut
        /\ r.box = boxes
        /\ r = [box |-> r.box, held |-> n.held, cut |-> n.cut]
    <2>1. r = [n EXCEPT !.box = boxes]
      BY DEF AllBoxed
    <2> HIDE DEF r, boxes
    <2>2. QED
      BY <2>1 DEF Nets
  <1> HIDE DEF r, new
  <1>3. r.box \in [Addresses -> {Nothing} \cup Seq(Deliveries)]
    BY <1>1, <1>2
  <1>4. r \in Nets
    <2>1. n.held \in Seq(Deliveries) /\ n.cut \in SUBSET (NetEndpoints \X NetEndpoints)
      BY DEF Nets
    <2>2. QED  BY <1>2, <1>3, <2>1 DEF Nets
  <1>5. ASSUME NEW x \in Addresses
        PROVE  /\ Bound(r, x) <=> Bound(n, x)
               /\ Queued(r, x) = IF Bound(n, x)
                                 THEN Queued(n, x) \o Along(RoutesTo(x), posts) ELSE <<>>
    <2>1. r.box[x] = IF Bound(n, x) THEN new(x) ELSE Nothing  BY <1>2
    <2>2. Bound(r, x) <=> Bound(n, x)  BY <1>1, <2>1 DEF Bound
    <2>3. QED  BY <2>1, <2>2 DEF Queued, new
  <1>6. QED
    BY <1>2, <1>4, <1>5 DEF r

LEMMA BoxedIsAllBoxed ==
  ASSUME NEW n \in Nets, NEW d \in Deliveries
  PROVE  Boxed(n, d) = AllBoxed(n, <<d>>)
PROOF
  <1> DEFINE new == [x \in Addresses |-> IF Bound(n, x) THEN n.box[x] \o Along(RoutesTo(x), <<d>>)
                                         ELSE Nothing]
  <1>1. \A x \in Addresses : Route(d) \in RoutesTo(x) <=> d.to = x
    BY DEF Route, RoutesTo, Deliveries
  <1>2. d.to \in Addresses
    BY DEF Deliveries
  <1>3. ASSUME NEW x \in Addresses, Bound(n, x)
        PROVE  new[x] = IF x = d.to THEN Append(n.box[x], d) ELSE n.box[x]
    <2>1. n.box[x] \in Seq(Deliveries)  BY <1>3, QueuedType
    <2>2. new[x] = n.box[x] \o Along(RoutesTo(x), <<d>>)  BY <1>3
    <2>3. CASE x = d.to
      <3>1. Along(RoutesTo(x), <<d>>) = <<d>>  BY <1>1, <2>3, AlongOne
      <3>2. Append(n.box[x], d) = n.box[x] \o <<d>>  BY <2>1, AppendIsConcat
      <3>3. QED  BY <2>2, <2>3, <3>1, <3>2
    <2>4. CASE x # d.to
      <3>1. Along(RoutesTo(x), <<d>>) = <<>>  BY <1>1, <2>4, AlongOne
      <3>2. n.box[x] \o <<>> = n.box[x]  BY <2>1, ConcatEmptySeq
      <3>3. QED  BY <2>2, <2>4, <3>1, <3>2
    <2>5. QED  BY <2>3, <2>4
  <1>4. ASSUME NEW x \in Addresses, ~Bound(n, x)
        PROVE  new[x] = n.box[x]
    BY <1>4 DEF Bound
  <1>5. n.box \in [Addresses -> {Nothing} \cup Seq(Deliveries)]
    BY DEF Nets
  <1>6. AllBoxed(n, <<d>>) = [n EXCEPT !.box = new]
    BY DEF AllBoxed
  <1>7. CASE Bound(n, d.to)
    <2>1. new = [n.box EXCEPT ![d.to] = Append(@, d)]
      <3>1. DOMAIN new = Addresses  OBVIOUS
      <3> HIDE DEF new
      <3>2. \A x \in Addresses :
               new[x] = IF x = d.to THEN Append(n.box[d.to], d) ELSE n.box[x]
        BY <1>3, <1>4, <1>7
      <3>3. new = [x \in Addresses |-> new[x]]  BY <3>1 DEF new
      <3>4. QED  BY <1>2, <1>5, <3>2, <3>3
    <2> HIDE DEF new
    <2>2. Boxed(n, d) = [n EXCEPT !.box = [n.box EXCEPT ![d.to] = Append(@, d)]]
      BY <1>7 DEF Boxed, Nets
    <2>3. QED  BY <1>6, <2>1, <2>2
  <1>8. CASE ~Bound(n, d.to)
    <2>1. new = n.box
      <3>1. \A x \in Addresses : new[x] = n.box[x]
        <4> HIDE DEF new
        <4>1. QED  BY <1>3, <1>4, <1>8
      <3>2. new = [x \in Addresses |-> new[x]]  OBVIOUS
      <3> HIDE DEF new
      <3>3. QED  BY <1>5, <3>1, <3>2
    <2> HIDE DEF new
    <2>2. [n EXCEPT !.box = n.box] = n  BY DEF Nets
    <2>3. QED  BY <1>6, <1>8, <2>1, <2>2 DEF Boxed
  <1>9. QED
    BY <1>7, <1>8

-----------------------------------------------------------------------------
(* Every call keeps the net in order                                       *)

LEMMA NetOkTypes ==
  ASSUME NEW m \in Nat, NEW n, NetOk(n, m), NEW x \in Addresses
  PROVE  /\ n \in Nets
         /\ n.held \in Seq(Deliveries) /\ Queued(n, x) \in Seq(Deliveries)
         /\ \A d \in Range(n.held) : d.msg <= m
         /\ \A d \in Range(Queued(n, x)) : d.msg <= m
  <1>1. n \in Nets  BY DEF NetOk
  <1>2. n.held \in Seq(Deliveries) /\ Queued(n, x) \in Seq(Deliveries)
    BY <1>1, QueuedType DEF Nets
  <1>3. Range(n.held) \subseteq Contents(n) /\ Range(Queued(n, x)) \subseteq Contents(n)
    BY DEF Contents
  <1>4. QED  BY <1>1, <1>2, <1>3 DEF NetOk, Numbered

(* What is sent now is newer than all that is on its way.                  *)
LEMMA LineGrows ==
  ASSUME NEW m \in Nat, NEW n, NetOk(n, m), NEW f \in Addresses, NEW t \in Addresses,
         NEW posts \in Seq(Deliveries), \A d \in Range(posts) : d.msg = m + 1
  PROVE  Ascending(Line(n, f, t) \o Along({<<f, t>>}, posts))
PROOF
  <1> DEFINE rt == {<<f, t>>}
             q == Along(rt, Queued(n, t))
             h == Along(rt, n.held)
             p == Along(rt, posts)
  <1>1. /\ Line(n, f, t) = q \o h /\ q \in Seq(Deliveries) /\ h \in Seq(Deliveries)
        /\ Line(n, f, t) \in Seq(Deliveries)
    BY NetOkTypes, LineIsTwoParts
  <1>2. p \in Seq(Deliveries)
    BY AlongInSeq
  <1>3. \A d \in Range(p) : d.msg = m + 1
    BY RangeOfAlong
  <1>4. \A d \in Range(q) : d.msg <= m
    BY NetOkTypes, RangeOfAlong
  <1>5. \A d \in Range(h) : d.msg <= m
    BY NetOkTypes, RangeOfAlong
  <1>6. Ascending(Line(n, f, t))
    BY DEF NetOk, Ordered
  <1> HIDE DEF rt, q, h, p
  <1>7. Range(Line(n, f, t)) = Range(q) \cup Range(h)
    BY <1>1, RangeConcatenation
  <1>8. \A d \in Range(Line(n, f, t)) : d \in Deliveries /\ d.msg <= m
    BY <1>1, <1>4, <1>5, <1>7, RangeOfSeq
  <1>9. Ascending(p)
    BY <1>2, <1>3, AscendingIfSame
  <1>10. \A d \in Range(Line(n, f, t)), e \in Range(p) : d.msg <= e.msg
    <2>1. TAKE d \in Range(Line(n, f, t)), e \in Range(p)
    <2>2. d.msg \in Nat /\ d.msg <= m /\ e.msg = m + 1  BY <1>3, <1>8 DEF Deliveries
    <2>3. QED  BY <2>2
  <1>11. Ascending(Line(n, f, t) \o p)
    BY <1>1, <1>2, <1>6, <1>9, <1>10, AscendingConcat
  <1>12. QED
    BY <1>11 DEF p, rt

LEMMA BoxedAddressed ==
  ASSUME NEW n \in Nets, Addressed(n), NEW posts \in Seq(Deliveries), NEW x \in Addresses
  PROVE  /\ \A d \in Range(Queued(AllBoxed(n, posts), x)) :
               d.to = x /\ (d \in Range(Queued(n, x)) \/ d \in Range(posts))
         /\ Bound(n, x) =>
               /\ Range(Queued(n, x)) \subseteq Range(Queued(AllBoxed(n, posts), x))
               /\ \A d \in Range(posts) : d.to = x => d \in Range(Queued(AllBoxed(n, posts), x))
PROOF
  <1> DEFINE r == AllBoxed(n, posts)
             p == Along(RoutesTo(x), posts)
  <1>1. Queued(r, x) = IF Bound(n, x) THEN Queued(n, x) \o p ELSE <<>>
    BY AllBoxedIs
  <1>2. Queued(n, x) \in Seq(Deliveries) /\ p \in Seq(Deliveries)
    BY QueuedType, AlongInSeq
  <1>3. Range(p) = {d \in Range(posts) : Route(d) \in RoutesTo(x)}
    BY RangeOfAlong
  <1>4. Range(posts) \subseteq Deliveries
    BY RangeOfSeq
  <1>5. \A d \in Deliveries : Route(d) \in RoutesTo(x) <=> d.to = x
    BY DEF Route, RoutesTo, Deliveries
  <1> HIDE DEF r, p
  <1>6. Range(Queued(n, x) \o p) = Range(Queued(n, x)) \cup Range(p)
    BY <1>2, RangeConcatenation
  <1>7. \A d \in Range(Queued(n, x)) : d.to = x
    BY DEF Addressed
  <1>8. CASE Bound(n, x)
    BY <1>1, <1>3, <1>4, <1>5, <1>6, <1>7, <1>8 DEF r
  <1>9. CASE ~Bound(n, x)
    BY <1>1, <1>9, RangeOfNothing DEF r
  <1>10. QED
    BY <1>8, <1>9

(* Sends and batches that no partition stands in the way of.               *)
LEMMA BoxedPostsOk ==
  ASSUME NEW m \in Nat, NEW n, NetOk(n, m), NEW posts \in Seq(Deliveries),
         \A d \in Range(posts) : d.msg = m + 1 /\ ~Cut(n, d)
  PROVE  NetOk(AllBoxed(n, posts), m + 1)
PROOF
  <1> DEFINE r == AllBoxed(n, posts)
  <1>1. /\ r \in Nets /\ r.held = n.held /\ r.cut = n.cut
        /\ \A x \in Addresses :
              /\ Bound(r, x) <=> Bound(n, x)
              /\ Queued(r, x) = IF Bound(n, x)
                                THEN Queued(n, x) \o Along(RoutesTo(x), posts) ELSE <<>>
    BY AllBoxedIs DEF NetOk
  <1>2. \A x \in Addresses : \A d \in Range(Queued(r, x)) :
           d.to = x /\ (d \in Range(Queued(n, x)) \/ d \in Range(posts))
    BY BoxedAddressed DEF NetOk
  <1> HIDE DEF r
  <1>3. CutBothWays(r) /\ HeldIsCut(r)
    BY <1>1 DEF NetOk, CutBothWays, HeldIsCut, Cut
  <1>4. Addressed(r)
    BY <1>2 DEF Addressed
  <1>5. Numbered(r, m + 1)
    <2>1. SUFFICES ASSUME NEW d \in Contents(r) PROVE d.msg <= m + 1
      BY DEF Numbered
    <2>2. CASE d \in Range(r.held)
      <3>1. d \in Contents(n)  BY <1>1, <2>2 DEF Contents
      <3>2. d \in Deliveries  BY <1>1, <2>2, RangeOfSeq DEF Nets
      <3>3. QED  BY <3>1, <3>2 DEF NetOk, Numbered, Deliveries
    <2>3. ASSUME NEW x \in Addresses, d \in Range(Queued(r, x)) PROVE d.msg <= m + 1
      <3>1. d \in Deliveries  BY <1>1, <2>3, QueuedType, RangeOfSeq
      <3>2. CASE d \in Range(posts)  BY <3>2
      <3>3. CASE d \in Range(Queued(n, x))
        <4>1. d.msg <= m  BY <3>3, NetOkTypes
        <4>2. QED  BY <3>1, <4>1 DEF Deliveries
      <3>4. QED  BY <1>2, <2>3, <3>2, <3>3
    <2>4. QED  BY <2>2, <2>3 DEF Contents
  <1>6. Ordered(r)
    <2>1. SUFFICES ASSUME NEW f \in Addresses, NEW t \in Addresses
                   PROVE  Ascending(Line(r, f, t))
      BY DEF Ordered
    <2> DEFINE rt == {<<f, t>>}
               q == Along(rt, Queued(n, t))
               h == Along(rt, n.held)
               p == Along(rt, posts)
    <2>2. /\ Line(n, f, t) = q \o h /\ q \in Seq(Deliveries) /\ h \in Seq(Deliveries)
          /\ p \in Seq(Deliveries)
          /\ Ascending(q \o h)
      <3>1. Ascending(Line(n, f, t))  BY DEF NetOk, Ordered
      <3>2. QED  BY <3>1, LineIsTwoParts, AlongInSeq DEF NetOk
    <2>3. Line(r, f, t) = IF Bound(n, t) THEN (q \o p) \o h ELSE h
      <3>1. Line(r, f, t) = Along(rt, Queued(r, t)) \o h
        BY <1>1, LineIsTwoParts
      <3>2. CASE Bound(n, t)
        <4> DEFINE box == Along(RoutesTo(t), posts)
        <4>1. Queued(n, t) \in Seq(Deliveries) /\ box \in Seq(Deliveries)
          BY AlongInSeq, NetOkTypes
        <4>2. Along(rt, box) = Along(rt \cap RoutesTo(t), posts)
          BY AlongAlong
        <4>3. rt \cap RoutesTo(t) = rt
          BY DEF RoutesTo
        <4>4. Along(rt, Queued(r, t)) = q \o Along(rt, box)
          <5> HIDE DEF rt
          <5>1. Queued(r, t) = Queued(n, t) \o box  BY <1>1, <3>2
          <5> HIDE DEF box
          <5>2. Along(rt, Queued(n, t) \o box) = Along(rt, Queued(n, t)) \o Along(rt, box)
            BY <4>1, AlongConcat
          <5>3. QED  BY <5>1, <5>2
        <4> HIDE DEF box, rt, h
        <4>5. QED  BY <3>1, <3>2, <4>2, <4>3, <4>4
      <3>3. CASE ~Bound(n, t)
        <4>1. Along(rt, Queued(r, t)) = <<>>  BY <1>1, <3>3, AlongNothing
        <4>2. <<>> \o h = h  BY <2>2, ConcatEmptySeq
        <4>3. QED  BY <3>1, <3>3, <4>1, <4>2
      <3>4. QED  BY <3>2, <3>3
    <2>4. Ascending((q \o h) \o p)
      BY <2>2, LineGrows
    <2>5. h = <<>> \/ p = <<>>
      <3>1. CASE \A d \in Range(n.held) : Route(d) \notin rt
        <4>1. n.held \in Seq(Deliveries)  BY NetOkTypes
        <4>2. QED  BY <3>1, <4>1, AlongNone
      <3>2. ASSUME NEW d \in Range(n.held), Route(d) \in rt PROVE p = <<>>
        <4>1. Cut(n, d)  BY DEF NetOk, HeldIsCut
        <4>2. \A e \in Range(posts) : Route(e) \notin rt
          BY <3>2, <4>1 DEF Cut, Route
        <4>3. QED  BY <4>2, AlongNone
      <3>3. QED  BY <3>1, <3>2
    <2> HIDE DEF rt, q, h, p
    <2>6. Ascending(h)
      BY <2>2, AscendingParts
    <2>7. CASE h = <<>>
      <3>1. q \o h = q /\ (q \o p) \o h = q \o p  BY <2>2, <2>7, ConcatEmptySeq, ConcatProperties
      <3>2. QED  BY <2>3, <2>4, <2>6, <3>1
    <2>8. CASE p = <<>>
      <3>1. q \o p = q  BY <2>2, <2>8, ConcatEmptySeq
      <3>2. QED  BY <2>2, <2>3, <2>6, <3>1
    <2>9. QED
      BY <2>5, <2>7, <2>8
  <1>7. QED
    BY <1>1, <1>3, <1>4, <1>5, <1>6 DEF NetOk, r

(* Sends and batches that a partition holds back.                          *)
LEMMA HeldPostsOk ==
  ASSUME NEW m \in Nat, NEW n, NetOk(n, m), NEW posts \in Seq(Deliveries),
         \A d \in Range(posts) : d.msg = m + 1 /\ Cut(n, d)
  PROVE  NetOk([n EXCEPT !.held = @ \o posts], m + 1)
PROOF
  <1> DEFINE r == [n EXCEPT !.held = @ \o posts]
  <1>1. n \in Nets /\ n.held \in Seq(Deliveries) /\ n.held \o posts \in Seq(Deliveries)
    <2>1. n \in Nets /\ n.held \in Seq(Deliveries)  BY DEF NetOk, Nets
    <2>2. QED  BY <2>1, ConcatProperties
  <1>2. r \in Nets /\ r.held = n.held \o posts /\ r.cut = n.cut /\ r.box = n.box
    BY <1>1 DEF Nets
  <1> HIDE DEF r
  <1>3. \A x \in Addresses : Queued(r, x) = Queued(n, x)
    BY <1>2 DEF Queued, Bound
  <1>4. Range(r.held) = Range(n.held) \cup Range(posts)
    BY <1>1, <1>2, RangeConcatenation
  <1>5. CutBothWays(r) /\ HeldIsCut(r) /\ Addressed(r)
    BY <1>2, <1>3, <1>4 DEF NetOk, CutBothWays, HeldIsCut, Cut, Addressed
  <1>6. Numbered(r, m + 1)
    <2>1. SUFFICES ASSUME NEW d \in Contents(r) PROVE d.msg <= m + 1
      BY DEF Numbered
    <2>2. CASE d \in Range(posts)
      BY <2>2
    <2>3. CASE d \in Range(n.held)
      <3>1. d \in Deliveries /\ d.msg <= m
        BY <1>1, <2>3, RangeOfSeq DEF NetOk, Numbered, Contents
      <3>2. QED  BY <3>1 DEF Deliveries
    <2>4. ASSUME NEW x \in Addresses, d \in Range(Queued(n, x)) PROVE d.msg <= m + 1
      <3>1. d \in Deliveries /\ d.msg <= m
        BY <2>4, NetOkTypes, RangeOfSeq
      <3>2. QED  BY <3>1 DEF Deliveries
    <2>5. QED
      BY <1>3, <1>4, <2>2, <2>3, <2>4 DEF Contents
  <1>7. Ordered(r)
    <2>1. SUFFICES ASSUME NEW f \in Addresses, NEW t \in Addresses
                   PROVE  Ascending(Line(r, f, t))
      BY DEF Ordered
    <2> DEFINE rt == {<<f, t>>}
               q == Along(rt, Queued(n, t))
               h == Along(rt, n.held)
               p == Along(rt, posts)
    <2>2. /\ Line(n, f, t) = q \o h /\ q \in Seq(Deliveries) /\ h \in Seq(Deliveries)
          /\ p \in Seq(Deliveries)
      BY <1>1, LineIsTwoParts, AlongInSeq
    <2>3. Line(r, f, t) = q \o Along(rt, n.held \o posts)
      BY <1>2, <1>3, LineIsTwoParts
    <2>4. Along(rt, n.held \o posts) = h \o p
      BY <1>1, AlongConcat
    <2>5. Ascending(Line(n, f, t) \o p)
      BY LineGrows
    <2> HIDE DEF rt, q, h, p
    <2>6. (q \o h) \o p = q \o (h \o p)
      BY <2>2, ConcatAssociative
    <2>7. QED
      BY <2>2, <2>3, <2>4, <2>5, <2>6
  <1>8. QED
    BY <1>2, <1>5, <1>6, <1>7 DEF NetOk, r

(* Calls that only take away: the head of a queue, or the whole queue.     *)
LEMMA FewerOk ==
  ASSUME NEW m \in Nat, NEW n, NetOk(n, m), NEW r \in Nets,
         r.held = n.held, r.cut = n.cut,
         \A x \in Addresses :
            \/ Queued(r, x) = Queued(n, x)
            \/ Queued(r, x) = <<>>
            \/ Queued(n, x) # <<>> /\ Queued(r, x) = Tail(Queued(n, x))
  PROVE  NetOk(r, m)
PROOF
  <1>1. ASSUME NEW x \in Addresses
        PROVE  Range(Queued(r, x)) \subseteq Range(Queued(n, x))
    <2> DEFINE q == Queued(n, x)
    <2>1. q \in Seq(Deliveries)  BY NetOkTypes
    <2>2. CASE q # <<>> /\ Queued(r, x) = Tail(q)
      <3> HIDE DEF q
      <3>1. /\ Tail(q) \in Seq(Deliveries) /\ <<Head(q)>> \in Seq(Deliveries)
            /\ q = <<Head(q)>> \o Tail(q)
        BY <2>1, <2>2, HeadThenTail
      <3>2. Range(<<Head(q)>> \o Tail(q)) = Range(<<Head(q)>>) \cup Range(Tail(q))
        BY <3>1, RangeConcatenation
      <3>3. QED  BY <2>2, <3>1, <3>2 DEF q
    <2>3. QED
      BY <2>2, RangeOfNothing
  <1>2. CutBothWays(r) /\ HeldIsCut(r) /\ Addressed(r)
    BY <1>1 DEF NetOk, CutBothWays, HeldIsCut, Cut, Addressed
  <1>3. Numbered(r, m)
    BY <1>1 DEF NetOk, Numbered, Contents
  <1>4. Ordered(r)
    <2>1. SUFFICES ASSUME NEW f \in Addresses, NEW t \in Addresses
                   PROVE  Ascending(Line(r, f, t))
      BY DEF Ordered
    <2> DEFINE rt == {<<f, t>>}
               box == Queued(n, t)
               q == Along(rt, box)
               h == Along(rt, n.held)
    <2>2. /\ Line(n, f, t) = q \o h /\ q \in Seq(Deliveries) /\ h \in Seq(Deliveries)
          /\ Line(r, f, t) = Along(rt, Queued(r, t)) \o h
          /\ box \in Seq(Deliveries)
      BY NetOkTypes, LineIsTwoParts
    <2>3. Ascending(q \o h)
      BY <2>2 DEF NetOk, Ordered
    <2>4. CASE Queued(r, t) = box
      BY <2>2, <2>3, <2>4
    <2>5. CASE Queued(r, t) = <<>>
      <3>1. Along(rt, Queued(r, t)) = <<>>  BY <2>5, AlongNothing
      <3> HIDE DEF rt, q, h
      <3>2. <<>> \o h = h  BY <2>2, ConcatEmptySeq
      <3>3. QED  BY <2>2, <2>3, <3>1, <3>2, AscendingParts
    <2>6. CASE box # <<>> /\ Queued(r, t) = Tail(box)
      <3> DEFINE first == Along(rt, <<Head(box)>>)
                 rest == Along(rt, Tail(box))
      <3>1. /\ Tail(box) \in Seq(Deliveries) /\ <<Head(box)>> \in Seq(Deliveries)
            /\ box = <<Head(box)>> \o Tail(box)
        <4> HIDE DEF box
        <4>1. QED  BY <2>2, <2>6, HeadThenTail
      <3> HIDE DEF box
      <3>2. Along(rt, <<Head(box)>> \o Tail(box)) = first \o rest
        BY <3>1, AlongConcat
      <3>3. first \in Seq(Deliveries) /\ rest \in Seq(Deliveries)
        BY <3>1, AlongInSeq
      <3>4. Line(r, f, t) = rest \o h
        BY <2>2, <2>6
      <3>5. q = first \o rest
        BY <3>1, <3>2
      <3>6. h \in Seq(Deliveries)
        BY <2>2
      <3> HIDE DEF first, rest, q, h, rt
      <3>7. (first \o rest) \o h = first \o (rest \o h)
        BY <3>3, <3>6, ConcatAssociative
      <3>8. rest \o h \in Seq(Deliveries)
        BY <2>2, <3>3, ConcatProperties
      <3>9. Ascending(rest \o h)
        BY <2>3, <3>3, <3>5, <3>7, <3>8, AscendingParts
      <3>10. QED  BY <3>4, <3>9
    <2>7. QED
      BY <2>4, <2>5, <2>6
  <1>5. QED
    BY <1>2, <1>3, <1>4 DEF NetOk

LEMMA PartitionedOk ==
  ASSUME NEW m \in Nat, NEW n, NetOk(n, m), NEW a \in NetEndpoints, NEW b \in NetEndpoints
  PROVE  NetOk(Partitioned(n, a, b), m)
PROOF
  <1> DEFINE r == Partitioned(n, a, b)
  <1>1. /\ r \in Nets /\ r.box = n.box /\ r.held = n.held
        /\ r.cut = n.cut \cup {<<a, b>>, <<b, a>>}
    BY DEF NetOk, Nets, Partitioned
  <1> HIDE DEF r
  <1>2. \A x \in Addresses : Queued(r, x) = Queued(n, x)
    BY <1>1 DEF Queued, Bound
  <1>3. CutBothWays(r)
    BY <1>1 DEF NetOk, CutBothWays
  <1>4. HeldIsCut(r) /\ Addressed(r)
    BY <1>1, <1>2 DEF NetOk, HeldIsCut, Cut, Addressed
  <1>5. Numbered(r, m)
    BY <1>1, <1>2 DEF NetOk, Numbered, Contents
  <1>6. Ordered(r)
    BY <1>1, <1>2 DEF NetOk, Ordered, Line
  <1>7. QED
    BY <1>1, <1>3, <1>4, <1>5, <1>6 DEF NetOk, r

LEMMA OpenedIs ==
  ASSUME NEW n \in Nets, NEW a, NEW b, NEW kept
  PROVE  LET o == Opened(n, a, b, kept)
         IN  /\ o \in Nets /\ o.box = n.box /\ o.held = Along(kept, n.held)
             /\ o.cut = n.cut \ {<<a, b>>, <<b, a>>}
             /\ \A x \in Addresses : Bound(o, x) <=> Bound(n, x)
             /\ \A x \in Addresses : Queued(o, x) = Queued(n, x)
PROOF
  <1> DEFINE o == Opened(n, a, b, kept)
             left == Along(kept, n.held)
  <1>1. left \in Seq(Deliveries)
    BY AlongInSeq DEF Nets
  <1>2. o = [n EXCEPT !.cut = @ \ {<<a, b>>, <<b, a>>}, !.held = left]
    BY DEF Opened, Nets
  <1> HIDE DEF left, o
  <1>3. o \in Nets /\ o.box = n.box /\ o.held = left /\ o.cut = n.cut \ {<<a, b>>, <<b, a>>}
    BY <1>1, <1>2 DEF Nets
  <1>4. QED
    BY <1>3 DEF Queued, Bound, o, left

LEMMA HealedOk ==
  ASSUME NEW m \in Nat, NEW n, NetOk(n, m), NEW a \in NetEndpoints, NEW b \in NetEndpoints
  PROVE  NetOk(Healed(n, a, b), m)
PROOF
  <1> DEFINE these == RoutesBetween(a, b)
             those == AllRoutes \ these
             o == Opened(n, a, b, those)
             flush == Along(these, n.held)
             r == AllBoxed(o, flush)
  <1>1. n \in Nets /\ n.held \in Seq(Deliveries) /\ flush \in Seq(Deliveries)
    <2>1. n \in Nets /\ n.held \in Seq(Deliveries)  BY DEF NetOk, Nets
    <2>2. QED  BY <2>1, AlongInSeq
  <1>2. /\ o \in Nets /\ o.box = n.box /\ o.held = Along(those, n.held)
        /\ o.cut = n.cut \ {<<a, b>>, <<b, a>>}
        /\ \A x \in Addresses : Bound(o, x) <=> Bound(n, x)
        /\ \A x \in Addresses : Queued(o, x) = Queued(n, x)
    BY <1>1, OpenedIs
  <1>3. /\ Range(flush) = {d \in Range(n.held) : Route(d) \in these}
        /\ Range(o.held) = {d \in Range(n.held) : Route(d) \in those}
    BY <1>1, <1>2, RangeOfAlong
  <1>4. Range(n.held) \subseteq Deliveries
    BY <1>1, RangeOfSeq
  <1>5. Addressed(o)
    BY <1>2 DEF NetOk, Addressed
  <1>6. Healed(n, a, b) = r
    BY DEF Healed
  <1> HIDE DEF o, flush
  <1>7. /\ r \in Nets /\ r.held = o.held /\ r.cut = o.cut
        /\ \A x \in Addresses :
              /\ Bound(r, x) <=> Bound(o, x)
              /\ Queued(r, x) = IF Bound(o, x)
                                THEN Queued(o, x) \o Along(RoutesTo(x), flush) ELSE <<>>
    BY <1>1, <1>2, AllBoxedIs
  <1>8. \A x \in Addresses : \A d \in Range(Queued(r, x)) :
           d.to = x /\ (d \in Range(Queued(n, x)) \/ d \in Range(n.held))
    BY <1>1, <1>2, <1>3, <1>5, BoxedAddressed
  <1> HIDE DEF r
  <1>9. CutBothWays(r)
    BY <1>2, <1>7 DEF NetOk, CutBothWays
  <1>10. HeldIsCut(r)
    <2>1. SUFFICES ASSUME NEW d \in Range(n.held), Route(d) \in those PROVE Cut(r, d)
      BY <1>3, <1>7 DEF HeldIsCut
    <2>2. Cut(n, d)
      BY DEF NetOk, HeldIsCut
    <2>3. <<HomeOf[d.from], HomeOf[d.to]>> \notin {<<a, b>>, <<b, a>>}
      BY <2>1 DEF RoutesBetween, AllRoutes, Route
    <2>4. QED
      BY <1>2, <1>7, <2>2, <2>3 DEF Cut
  <1>11. Addressed(r)
    BY <1>8 DEF Addressed
  <1>12. Numbered(r, m)
    BY <1>3, <1>7, <1>8 DEF NetOk, Numbered, Contents
  <1>13. Ordered(r)
    <2>1. SUFFICES ASSUME NEW f \in Addresses, NEW t \in Addresses
                   PROVE  Ascending(Line(r, f, t))
      BY DEF Ordered
    <2> DEFINE rt == {<<f, t>>}
               q == Along(rt, Queued(n, t))
               h == Along(rt, n.held)
               box == Along(RoutesTo(t), flush)
    <2>2. /\ Line(n, f, t) = q \o h /\ q \in Seq(Deliveries) /\ h \in Seq(Deliveries)
          /\ Line(r, f, t) = Along(rt, Queued(r, t)) \o Along(rt, r.held)
      BY <1>1, <1>7, LineIsTwoParts
    <2>3. Ascending(q \o h)
      BY <2>2 DEF NetOk, Ordered
    <2>4. Along(rt, r.held) = Along(rt \cap those, n.held)
      BY <1>1, <1>2, <1>7, AlongAlong
    <2>5. Along(rt, box) = Along((rt \cap RoutesTo(t)) \cap these, n.held)
      <3>1. Along(rt, box) = Along(rt \cap RoutesTo(t), flush)
        BY <1>1, AlongAlong
      <3>2. Along(rt \cap RoutesTo(t), Along(these, n.held)) =
               Along((rt \cap RoutesTo(t)) \cap these, n.held)
        BY <1>1, AlongAlong
      <3>3. QED  BY <3>1, <3>2 DEF flush
    <2>6. rt \cap RoutesTo(t) = rt
      BY DEF RoutesTo
    <2>7. Along({}, n.held) = <<>>
      BY <1>1, AlongNone
    <2>8. Along(rt, Queued(r, t)) = IF Bound(n, t) THEN q \o Along(rt, box) ELSE <<>>
      <3>1. CASE Bound(n, t)
        <4>1. Queued(r, t) = Queued(n, t) \o box
          BY <1>2, <1>7, <3>1
        <4>2. Queued(n, t) \in Seq(Deliveries) /\ box \in Seq(Deliveries)
          BY <1>1, AlongInSeq, QueuedType
        <4> HIDE DEF box, rt
        <4>3. Along(rt, Queued(n, t) \o box) = Along(rt, Queued(n, t)) \o Along(rt, box)
          BY <4>2, AlongConcat
        <4>4. QED  BY <3>1, <4>1, <4>3
      <3>2. CASE ~Bound(n, t)
        <4>1. Queued(r, t) = <<>>  BY <1>2, <1>7, <3>2
        <4>2. QED  BY <3>2, <4>1, AlongNothing
      <3>3. QED  BY <3>1, <3>2
    <2>9. ~Bound(n, t) => q = <<>>
      BY AlongNothing DEF Queued
    <2>10. CASE <<f, t>> \in these
      <3>1. rt \cap those = {} /\ rt \cap these = rt
        BY <2>10
      <3>2. Along(rt, r.held) = <<>> /\ Along(rt, box) = h
        BY <2>4, <2>5, <2>6, <2>7, <3>1
      <3> HIDE DEF rt, q, h, box
      <3>3. (q \o h) \o <<>> = q \o h /\ <<>> \o <<>> = <<>>
        BY <2>2, ConcatEmptySeq, ConcatProperties, EmptySeq
      <3>4. Line(r, f, t) = IF Bound(n, t) THEN q \o h ELSE <<>>
        BY <2>2, <2>8, <3>2, <3>3
      <3>5. Ascending(<<>>)
        BY DEF Ascending
      <3>6. QED  BY <2>3, <3>4, <3>5
    <2>11. CASE <<f, t>> \notin these
      <3>1. rt \cap those = rt /\ rt \cap these = {}
        BY <2>11 DEF AllRoutes
      <3>2. Along(rt, r.held) = h /\ Along(rt, box) = <<>>
        BY <2>4, <2>5, <2>6, <2>7, <3>1
      <3> HIDE DEF rt, q, h, box
      <3>3. q \o <<>> = q
        BY <2>2, ConcatEmptySeq
      <3>4. Line(r, f, t) = q \o h
        BY <2>2, <2>8, <2>9, <3>2, <3>3
      <3>5. QED  BY <2>3, <3>4
    <2>12. QED
      BY <2>10, <2>11
  <1>14. QED
    BY <1>6, <1>7, <1>9, <1>10, <1>11, <1>12, <1>13 DEF NetOk

-----------------------------------------------------------------------------
(* What is sent: one delivery, or a receipt and the openings of a batch    *)

LEMMA OnePost ==
  ASSUME NEW f \in Addresses, NEW t \in Addresses, NEW m \in Nat
  PROVE  LET d == Delivery(f, t, m)
         IN  d \in Deliveries /\ <<d>> \in Seq(Deliveries) /\ Range(<<d>>) = {d} /\ d.msg = m
  <1> DEFINE d == Delivery(f, t, m)
  <1>1. d \in Deliveries /\ d.msg = m
    BY DEF Delivery, Deliveries
  <1> HIDE DEF d
  <1>2. <<d>> \in Seq(Deliveries)
    BY <1>1
  <1>3. Range(<<d>>) = {d}
    BY RangeOfOne
  <1>4. QED
    BY <1>1, <1>2, <1>3 DEF d

LEMMA BatchPosts ==
  ASSUME NEW f \in Addresses, NEW e \in NetEndpoints, NEW m \in Nat,
         NEW targets \in Seq({x \in Addresses : HomeOf[x] = e})
  PROVE  LET receipt == Delivery(ReceiptOf[e], f, m)
             posts == <<receipt>> \o [i \in DOMAIN targets |-> Delivery(f, targets[i], m)]
         IN  /\ posts \in Seq(Deliveries)
             /\ \A d \in Range(posts) :
                   /\ d.msg = m
                   /\ <<HomeOf[d.from], HomeOf[d.to]>> \in {<<HomeOf[f], e>>, <<e, HomeOf[f]>>}
PROOF
  <1> DEFINE There == {x \in Addresses : HomeOf[x] = e}
             receipt == Delivery(ReceiptOf[e], f, m)
             opens == [i \in DOMAIN targets |-> Delivery(f, targets[i], m)]
             Fits(d) == /\ d.msg = m
                        /\ <<HomeOf[d.from], HomeOf[d.to]>> \in {<<HomeOf[f], e>>, <<e, HomeOf[f]>>}
  <1>1. /\ Len(targets) \in Nat /\ DOMAIN targets = 1 .. Len(targets)
        /\ \A i \in 1 .. Len(targets) : targets[i] \in Addresses /\ HomeOf[targets[i]] = e
    <2>1. targets \in Seq(There)  OBVIOUS
    <2> HIDE DEF There
    <2>2. /\ Len(targets) \in Nat /\ DOMAIN targets = 1 .. Len(targets)
          /\ \A i \in 1 .. Len(targets) : targets[i] \in There
      BY <2>1, LenProperties, ElementOfSeq
    <2>3. QED  BY <2>2 DEF There
  <1>2. \A i \in 1 .. Len(targets) : opens[i] \in Deliveries /\ Fits(opens[i])
    BY <1>1 DEF Delivery, Deliveries
  <1>3. /\ ReceiptOf[e] \in Addresses /\ HomeOf[ReceiptOf[e]] = e
    BY ReceiptsComeFromHome
  <1>4. receipt \in Deliveries /\ Fits(receipt)
    BY <1>3 DEF Delivery, Deliveries
  <1>5. /\ opens \in [1 .. Len(targets) -> Deliveries]
        /\ DOMAIN opens = 1 .. Len(targets)
    BY <1>1, <1>2
  <1> HIDE DEF opens, receipt
  <1>6. opens \in Seq(Deliveries) /\ Len(opens) = Len(targets)
    BY <1>1, <1>5, SeqDef
  <1>7. Range(opens) = {opens[i] : i \in 1 .. Len(targets)}
    BY <1>5 DEF Range
  <1>8. <<receipt>> \in Seq(Deliveries) /\ Range(<<receipt>>) = {receipt}
    BY <1>4, RangeOfOne
  <1>9. /\ <<receipt>> \o opens \in Seq(Deliveries)
        /\ Range(<<receipt>> \o opens) = {receipt} \cup Range(opens)
    <2> DEFINE first == <<receipt>>
    <2>1. first \in Seq(Deliveries) /\ Range(first) = {receipt}  BY <1>8
    <2> HIDE DEF first
    <2>2. /\ first \o opens \in Seq(Deliveries)
          /\ Range(first \o opens) = Range(first) \cup Range(opens)
      BY <1>6, <2>1, ConcatProperties, RangeConcatenation
    <2>3. QED  BY <2>1, <2>2 DEF first
  <1>10. \A d \in Range(<<receipt>> \o opens) : Fits(d)
    BY <1>2, <1>4, <1>7, <1>9
  <1>11. QED
    BY <1>9, <1>10 DEF opens, receipt

(* Nothing that was on its way is disturbed by a delivery more.            *)
LEMMA BoxedKeeps ==
  ASSUME NEW n \in Nets, Addressed(n), NEW posts \in Seq(Deliveries), NEW d \in Contents(n)
  PROVE  d \in Contents(AllBoxed(n, posts))
PROOF
  <1> DEFINE r == AllBoxed(n, posts)
  <1>1. r.held = n.held
    BY AllBoxedIs
  <1>2. CASE d \in Range(n.held)
    BY <1>1, <1>2 DEF Contents
  <1>3. ASSUME NEW x \in Addresses, d \in Range(Queued(n, x)) PROVE d \in Contents(r)
    <2>1. Bound(n, x)
      BY <1>3, RangeOfNothing DEF Queued
    <2>2. d \in Range(Queued(r, x))
      BY <1>3, <2>1, BoxedAddressed
    <2>3. QED
      BY <2>2 DEF Contents
  <1>4. QED
    BY <1>2, <1>3 DEF Contents

LEMMA HeldKeeps ==
  ASSUME NEW n \in Nets, NEW posts \in Seq(Deliveries), NEW d \in Contents(n)
  PROVE  d \in Contents([n EXCEPT !.held = @ \o posts])
PROOF
  <1> DEFINE r == [n EXCEPT !.held = @ \o posts]
  <1>1. r.held = n.held \o posts /\ r.box = n.box
    BY DEF Nets
  <1>2. n.held \in Seq(Deliveries)
    BY DEF Nets
  <1>3. Range(n.held) \subseteq Range(n.held \o posts)
    BY <1>2, RangeConcatenation
  <1> HIDE DEF r
  <1>4. \A x \in Addresses : Queued(r, x) = Queued(n, x)
    BY <1>1 DEF Queued, Bound
  <1>5. QED
    BY <1>1, <1>3, <1>4 DEF Contents, r

LEMMA HealedKeeps ==
  ASSUME NEW n \in Nets, Addressed(n), NEW a, NEW b, NEW d \in Contents(n)
  PROVE  \/ d \in Contents(Healed(n, a, b))
         \/ ~Bound(Healed(n, a, b), d.to) /\ ~Cut(Healed(n, a, b), d)
PROOF
  <1> DEFINE these == RoutesBetween(a, b)
             those == AllRoutes \ these
             o == Opened(n, a, b, those)
             flush == Along(these, n.held)
             r == AllBoxed(o, flush)
  <1>1. n.held \in Seq(Deliveries) /\ flush \in Seq(Deliveries)
    <2>1. n.held \in Seq(Deliveries)  BY DEF Nets
    <2>2. QED  BY <2>1, AlongInSeq
  <1>2. /\ o \in Nets /\ o.held = Along(those, n.held)
        /\ o.cut = n.cut \ {<<a, b>>, <<b, a>>}
        /\ \A x \in Addresses : Bound(o, x) <=> Bound(n, x)
        /\ \A x \in Addresses : Queued(o, x) = Queued(n, x)
    BY OpenedIs
  <1>3. /\ Range(flush) = {p \in Range(n.held) : Route(p) \in these}
        /\ Range(o.held) = {p \in Range(n.held) : Route(p) \in those}
    BY <1>1, <1>2, RangeOfAlong
  <1>4. Addressed(o)
    BY <1>2 DEF Addressed
  <1>5. Healed(n, a, b) = r
    BY DEF Healed
  <1> HIDE DEF o, flush
  <1>6. CASE d \in Range(n.held)
    <2>1. d \in Deliveries
      BY <1>1, <1>6, RangeOfSeq
    <2>2. CASE Route(d) \in these
      <3>1. d \in Range(flush) /\ d.to \in Addresses
        BY <1>3, <1>6, <2>1, <2>2 DEF Deliveries
      <3>2. CASE Bound(o, d.to)
        <4>1. d \in Range(Queued(r, d.to))
          BY <1>1, <1>2, <1>4, <3>1, <3>2, BoxedAddressed
        <4>2. QED
          BY <1>5, <3>1, <4>1 DEF Contents
      <3>3. CASE ~Bound(o, d.to)
        <4>1. ~Bound(r, d.to) /\ r.cut = o.cut
          BY <1>1, <1>2, <3>1, <3>3, AllBoxedIs
        <4>2. <<HomeOf[d.from], HomeOf[d.to]>> \in {<<a, b>>, <<b, a>>}
          BY <2>2 DEF Route, RoutesBetween
        <4>3. ~Cut(r, d)
          BY <1>2, <4>1, <4>2 DEF Cut
        <4>4. QED  BY <1>5, <4>1, <4>3
      <3>4. QED  BY <3>2, <3>3
    <2>3. CASE Route(d) \notin these
      <3>1. Route(d) \in those
        BY <2>1, <2>3 DEF Route, AllRoutes, Deliveries
      <3>2. d \in Contents(o)
        BY <1>3, <1>6, <3>1 DEF Contents
      <3>3. QED
        BY <1>1, <1>2, <1>4, <1>5, <3>2, BoxedKeeps
    <2>4. QED
      BY <2>2, <2>3
  <1>7. ASSUME NEW x \in Addresses, d \in Range(Queued(n, x))
        PROVE  d \in Contents(r)
    <2>1. d \in Contents(o)
      BY <1>2, <1>7 DEF Contents
    <2>2. QED
      BY <1>1, <1>2, <1>4, <2>1, BoxedKeeps
  <1>8. QED
    BY <1>5, <1>6, <1>7 DEF Contents

-----------------------------------------------------------------------------
(* The steps                                                               *)

(* What the step may do to a delivery that is under way.                   *)
Kept(d) ==
    \/ d \in Contents(net')
    \/ /\ ~Bound(net', d.to)
       /\ d \in Range(net.held) => ~Cut(net', d)
    \/ /\ Queued(net, d.to) # <<>>
       /\ d = Head(net.box[d.to])
       /\ net'.box[d.to] = Tail(net.box[d.to])

Others == WatchesOk /\ HandlesOk

LEMMA SendStep ==
  ASSUME TrafficInv, NEW f \in Addresses, NEW t \in Addresses, Send(f, t, serial + 1)
  PROVE  NetOk(net', serial + 1) /\ \A d \in Contents(net) : Kept(d)
PROOF
  <1> DEFINE p == Delivery(f, t, serial + 1)
  <1>1. serial \in Nat /\ NetOk(net, serial) /\ net \in Nets /\ Addressed(net)
    BY DEF TrafficInv, NetOk
  <1>2. p \in Deliveries /\ <<p>> \in Seq(Deliveries) /\ Range(<<p>>) = {p} /\ p.msg = serial + 1
    BY <1>1, OnePost
  <1>3. net' = Posted(net, p)
    BY DEF Send
  <1> HIDE DEF p
  <1>4. CASE Cut(net, p)
    <2>1. net' = [net EXCEPT !.held = @ \o <<p>>]
      <3>1. net' = [net EXCEPT !.held = Append(@, p)]  BY <1>3, <1>4 DEF Posted
      <3>2. Append(net.held, p) = net.held \o <<p>>
        BY <1>1, <1>2, AppendIsConcat DEF Nets
      <3>3. QED  BY <3>1, <3>2
    <2>2. QED
      BY <1>1, <1>2, <1>4, <2>1, HeldPostsOk, HeldKeeps DEF Kept
  <1>5. CASE ~Cut(net, p)
    <2>1. net' = AllBoxed(net, <<p>>)
      BY <1>1, <1>2, <1>3, <1>5, BoxedIsAllBoxed DEF Posted
    <2>2. QED
      BY <1>1, <1>2, <1>5, <2>1, BoxedPostsOk, BoxedKeeps DEF Kept
  <1>6. QED
    BY <1>4, <1>5

LEMMA OpenManyStep ==
  ASSUME TrafficInv, NEW batch \in Batches,
         OpenMany(batch.from, batch.endpoint, batch.targets, serial + 1, serial + 1)
  PROVE  NetOk(net', serial + 1) /\ \A d \in Contents(net) : Kept(d)
PROOF
  <1> DEFINE f == batch.from
             e == batch.endpoint
             ts == batch.targets
             m == serial + 1
             posts == <<Delivery(ReceiptOf[e], f, m)>> \o [i \in DOMAIN ts |-> Delivery(f, ts[i], m)]
             cut == <<HomeOf[f], e>> \in net.cut
  <1>1. serial \in Nat /\ NetOk(net, serial) /\ net \in Nets /\ Addressed(net)
    BY DEF TrafficInv, NetOk
  <1>2. f \in Addresses /\ e \in NetEndpoints /\ ts \in Seq({x \in Addresses : HomeOf[x] = e})
    BY BatchesStayAtTheirEndpoint
  <1>3. /\ posts \in Seq(Deliveries)
        /\ \A d \in Range(posts) :
              /\ d.msg = m
              /\ <<HomeOf[d.from], HomeOf[d.to]>> \in {<<HomeOf[f], e>>, <<e, HomeOf[f]>>}
    <2> HIDE DEF f, e, ts
    <2>1. QED  BY <1>1, <1>2, BatchPosts
  <1>4. net' = IF cut THEN [net EXCEPT !.held = @ \o posts] ELSE AllBoxed(net, posts)
    BY DEF OpenMany, Batched
  <1>5. HomeOf[f] \in NetEndpoints /\ e \in NetEndpoints
    BY <1>2, AddressesHaveHomes
  <1> HIDE DEF f, e, ts, posts
  <1>6. \A d \in Range(posts) : d.msg = m /\ (Cut(net, d) <=> cut)
    BY <1>1, <1>3, <1>5 DEF Cut, NetOk, CutBothWays
  <1> HIDE DEF cut
  <1>7. CASE cut
    BY <1>1, <1>3, <1>4, <1>6, <1>7, HeldPostsOk, HeldKeeps DEF Kept
  <1>8. CASE ~cut
    BY <1>1, <1>3, <1>4, <1>6, <1>8, BoxedPostsOk, BoxedKeeps DEF Kept
  <1>9. QED
    BY <1>7, <1>8

(* A step that takes the mailboxes of some addresses away, or adds one.    *)
LEMMA MailboxStep ==
  ASSUME TrafficInv, net' \in Nets, net'.held = net.held, net'.cut = net.cut,
         \A x \in Addresses : ~Bound(net', x) \/ Queued(net', x) = Queued(net, x)
  PROVE  NetOk(net', serial) /\ \A d \in Contents(net) : Kept(d)
PROOF
  <1>1. serial \in Nat /\ NetOk(net, serial) /\ Addressed(net)
    BY DEF TrafficInv, NetOk
  <1>2. \A x \in Addresses : Queued(net', x) = <<>> \/ Queued(net', x) = Queued(net, x)
    BY DEF Queued
  <1>3. NetOk(net', serial)
    BY <1>1, <1>2, FewerOk
  <1>4. ASSUME NEW d \in Contents(net) PROVE Kept(d)
    <2>1. CASE d \in Range(net.held)
      BY <2>1 DEF Contents, Kept
    <2>2. ASSUME NEW x \in Addresses, d \in Range(Queued(net, x)) PROVE Kept(d)
      <3>1. d.to = x  BY <1>1, <2>2 DEF Addressed
      <3>2. QED  BY <2>1, <2>2, <3>1 DEF Contents, Kept
    <2>3. QED  BY <2>1, <2>2 DEF Contents
  <1>5. QED
    BY <1>3, <1>4

LEMMA RegisterStep ==
  ASSUME TrafficInv, NEW x \in Addresses, NEW h \in Handles, Register(x, h)
  PROVE  NetOk(net', serial) /\ (\A d \in Contents(net) : Kept(d)) /\ Others'
PROOF
  <1>1. net \in Nets /\ ~Bound(net, x) /\ net' = [net EXCEPT !.box[x] = <<>>]
    BY DEF TrafficInv, NetOk, Register
  <1>2. /\ net' \in Nets /\ net'.held = net.held /\ net'.cut = net.cut
        /\ net'.box = [net.box EXCEPT ![x] = <<>>]
    <2>1. <<>> \in Seq(Deliveries)  BY EmptySeq
    <2>2. QED  BY <1>1, <2>1 DEF Nets
  <1>3. net.box \in [Addresses -> {Nothing} \cup Seq(Deliveries)]
    BY <1>1 DEF Nets
  <1>4. \A y \in Addresses : Queued(net', y) = Queued(net, y)
    BY <1>1, <1>2, <1>3 DEF Queued, Bound
  <1>5. Others'
    BY DEF TrafficInv, Others, WatchesOk, HandlesOk, Register
  <1>6. QED
    BY <1>2, <1>4, <1>5, MailboxStep

LEMMA DropInboxStep ==
  ASSUME TrafficInv, NEW h \in Handles, DropInbox(h)
  PROVE  NetOk(net', serial) /\ (\A d \in Contents(net) : Kept(d)) /\ Others'
PROOF
  <1> DEFINE x == inboxes[h]
  <1>1. x \in Addresses /\ net \in Nets /\ net' = [net EXCEPT !.box[x] = Nothing]
    BY DEF TrafficInv, NetOk, HandlesOk, DropInbox
  <1>2. Others'
    BY <1>1 DEF TrafficInv, Others, WatchesOk, HandlesOk, DropInbox
  <1> HIDE DEF x
  <1>3. /\ net' \in Nets /\ net'.held = net.held /\ net'.cut = net.cut
        /\ net'.box = [net.box EXCEPT ![x] = Nothing]
    BY <1>1 DEF Nets
  <1>4. net.box \in [Addresses -> {Nothing} \cup Seq(Deliveries)]
    BY <1>1 DEF Nets
  <1>5. \A y \in Addresses : ~Bound(net', y) \/ Queued(net', y) = Queued(net, y)
    BY <1>1, <1>3, <1>4 DEF Queued, Bound
  <1>6. QED
    BY <1>2, <1>3, <1>5, MailboxStep

LEMMA KillStep ==
  ASSUME TrafficInv, NEW e \in NetEndpoints, Kill(e)
  PROVE  NetOk(net', serial) /\ (\A d \in Contents(net) : Kept(d)) /\ Others'
PROOF
  <1> DEFINE boxes == [a \in Addresses |-> IF HomeOf[a] = e THEN Nothing ELSE net.box[a]]
  <1>1. net \in Nets /\ net' = [net EXCEPT !.box = boxes]
    BY DEF TrafficInv, NetOk, Kill
  <1>2. net.box \in [Addresses -> {Nothing} \cup Seq(Deliveries)]
    BY <1>1 DEF Nets
  <1>3. boxes \in [Addresses -> {Nothing} \cup Seq(Deliveries)]
    BY <1>2
  <1>4. \A y \in Addresses : boxes[y] = IF HomeOf[y] = e THEN Nothing ELSE net.box[y]
    OBVIOUS
  <1> HIDE DEF boxes
  <1>5. net' \in Nets /\ net'.held = net.held /\ net'.cut = net.cut /\ net'.box = boxes
    BY <1>1, <1>3 DEF Nets
  <1>6. \A y \in Addresses : ~Bound(net', y) \/ Queued(net', y) = Queued(net, y)
    BY <1>4, <1>5 DEF Queued, Bound
  <1>7. Others'
    BY DEF TrafficInv, Others, WatchesOk, HandlesOk, Kill
  <1>8. QED
    BY <1>5, <1>6, <1>7, MailboxStep

LEMMA TakeStep ==
  ASSUME TrafficInv, NEW h \in Handles, Take(h)
  PROVE  NetOk(net', serial) /\ (\A d \in Contents(net) : Kept(d)) /\ Others'
PROOF
  <1> DEFINE x == inboxes[h]
             q == net.box[x]
  <1>1. /\ x \in Addresses /\ net \in Nets /\ Bound(net, x) /\ q # <<>>
        /\ net' = [net EXCEPT !.box[x] = Tail(@)]
    BY DEF TrafficInv, NetOk, HandlesOk, Take
  <1>2. Others'
    BY <1>1 DEF TrafficInv, Others, WatchesOk, HandlesOk, Take
  <1>3. serial \in Nat /\ NetOk(net, serial) /\ Addressed(net)
    BY DEF TrafficInv, NetOk
  <1> HIDE DEF x
  <1>4. q \in Seq(Deliveries) /\ Queued(net, x) = q
    BY <1>1, QueuedType DEF Queued
  <1>5. /\ Tail(q) \in Seq(Deliveries) /\ Tail(q) # Nothing
        /\ Head(q) \in Deliveries /\ q = <<Head(q)>> \o Tail(q)
    <2> HIDE DEF q
    <2>1. QED  BY <1>1, <1>4, HeadThenTail, NothingIsNoQueue
  <1>6. net.box \in [Addresses -> {Nothing} \cup Seq(Deliveries)]
    BY <1>1 DEF Nets
  <1>7. /\ net'.held = net.held /\ net'.cut = net.cut
        /\ net'.box = [net.box EXCEPT ![x] = Tail(q)]
    BY <1>1 DEF Nets
  <1>8. net' \in Nets
    BY <1>1, <1>5, <1>6 DEF Nets
  <1> HIDE DEF q
  <1>9. Queued(net', x) = Tail(q) /\ net'.box[x] = Tail(q)
    BY <1>1, <1>5, <1>6, <1>7 DEF Queued, Bound
  <1>10. \A y \in Addresses : y # x => Queued(net', y) = Queued(net, y)
    BY <1>6, <1>7 DEF Queued, Bound
  <1>11. \A y \in Addresses :
            \/ Queued(net', y) = Queued(net, y)
            \/ Queued(net, y) # <<>> /\ Queued(net', y) = Tail(Queued(net, y))
    BY <1>1, <1>4, <1>9, <1>10
  <1>12. NetOk(net', serial)
    BY <1>3, <1>7, <1>8, <1>11, FewerOk
  <1>13. ASSUME NEW d \in Contents(net) PROVE Kept(d)
    <2>1. CASE d \in Range(net.held)
      BY <1>7, <2>1 DEF Contents, Kept
    <2>2. ASSUME NEW y \in Addresses, y # x, d \in Range(Queued(net, y)) PROVE Kept(d)
      BY <1>10, <2>2 DEF Contents, Kept
    <2>3. CASE d \in Range(Queued(net, x))
      <3>1. d.to = x
        BY <1>1, <1>3, <2>3 DEF Addressed
      <3>2. Range(<<Head(q)>> \o Tail(q)) = {Head(q)} \cup Range(Tail(q))
        <4> DEFINE first == <<Head(q)>>
                   rest == Tail(q)
        <4>1. first \in Seq(Deliveries) /\ Range(first) = {Head(q)}
          BY <1>5, RangeOfOne
        <4>2. rest \in Seq(Deliveries)
          BY <1>5
        <4> HIDE DEF first, rest
        <4>3. Range(first \o rest) = Range(first) \cup Range(rest)
          BY <4>1, <4>2, RangeConcatenation
        <4>4. QED  BY <4>1, <4>3 DEF first, rest
      <3>3. CASE d = Head(q)
        BY <1>1, <1>4, <1>9, <3>1, <3>3 DEF Kept, q
      <3>4. CASE d \in Range(Tail(q))
        BY <1>1, <1>9, <3>4 DEF Contents, Kept
      <3>5. QED
        BY <1>4, <1>5, <2>3, <3>2, <3>3, <3>4
    <2>4. QED
      BY <1>1, <2>1, <2>2, <2>3 DEF Contents
  <1>14. QED
    BY <1>2, <1>12, <1>13

LEMMA PartitionStep ==
  ASSUME TrafficInv, NEW a \in NetEndpoints, NEW b \in NetEndpoints, Partition(a, b)
  PROVE  NetOk(net', serial) /\ (\A d \in Contents(net) : Kept(d)) /\ Others'
PROOF
  <1>1. serial \in Nat /\ NetOk(net, serial) /\ net \in Nets
    BY DEF TrafficInv, NetOk
  <1>2. net' = Partitioned(net, a, b)
    BY DEF Partition
  <1>3. NetOk(net', serial)
    BY <1>1, <1>2, PartitionedOk
  <1>4. net'.held = net.held /\ net'.box = net.box
    BY <1>1, <1>2 DEF Partitioned, Nets
  <1>5. Contents(net') = Contents(net)
    BY <1>4 DEF Contents, Queued, Bound
  <1>6. Others'
    BY DEF TrafficInv, Others, WatchesOk, HandlesOk, Partition
  <1>7. QED
    BY <1>3, <1>5, <1>6 DEF Kept

LEMMA HealStep ==
  ASSUME TrafficInv, NEW a \in NetEndpoints, NEW b \in NetEndpoints, Heal(a, b)
  PROVE  NetOk(net', serial) /\ (\A d \in Contents(net) : Kept(d)) /\ Others'
PROOF
  <1>1. serial \in Nat /\ NetOk(net, serial) /\ net \in Nets /\ Addressed(net)
    BY DEF TrafficInv, NetOk
  <1>2. net' = Healed(net, a, b)
    BY DEF Heal
  <1>3. NetOk(net', serial)
    BY <1>1, <1>2, HealedOk
  <1>4. \A d \in Contents(net) : Kept(d)
    BY <1>1, <1>2, HealedKeeps DEF Kept
  <1>5. Others'
    BY DEF TrafficInv, Others, WatchesOk, HandlesOk, Heal
  <1>6. QED
    BY <1>3, <1>4, <1>5

LEMMA WatchSteps ==
  ASSUME TrafficInv, NEW w \in Watches,
         Watch(w) \/ HearDeath(w) \/ \E e \in NetEndpoints : ReportDeath(w, e)
  PROVE  UNCHANGED net /\ Others'
PROOF
  <1>1. WatchesOk /\ HandlesOk
    BY DEF TrafficInv
  <1>2. UNCHANGED <<net, inboxes, owner>>
    BY DEF Watch, HearDeath, ReportDeath
  <1>3. HandlesOk'
    BY <1>1, <1>2 DEF HandlesOk
  <1>4. CASE Watch(w)
    <2>1. <<>> \in Seq(NetEndpoints) /\ <<>> # Nothing
      BY EmptySeq, NothingIsNoQueue
    <2>2. QED
      BY <1>1, <1>2, <1>3, <1>4, <2>1 DEF Others, WatchesOk, Watch
  <1>5. CASE HearDeath(w)
    <2>1. watched[w] \in Seq(NetEndpoints) /\ watched[w] # <<>>
      BY <1>1, <1>5 DEF WatchesOk, HearDeath
    <2>2. Tail(watched[w]) \in Seq(NetEndpoints) /\ Tail(watched[w]) # Nothing
      BY <2>1, HeadTailProperties, NothingIsNoQueue
    <2>3. QED
      BY <1>1, <1>2, <1>3, <1>5, <2>2 DEF Others, WatchesOk, HearDeath
  <1>6. ASSUME NEW e \in NetEndpoints, ReportDeath(w, e) PROVE Others'
    <2>1. watched[w] \in Seq(NetEndpoints)
      BY <1>1, <1>6 DEF WatchesOk, ReportDeath
    <2>2. Append(watched[w], e) \in Seq(NetEndpoints) /\ Append(watched[w], e) # Nothing
      BY <2>1, AppendProperties, NothingIsNoQueue
    <2>3. QED
      BY <1>1, <1>2, <1>3, <1>6, <2>2 DEF Others, WatchesOk, ReportDeath
  <1>7. QED
    BY <1>2, <1>4, <1>5, <1>6

-----------------------------------------------------------------------------
LEMMA TrafficInit == Init => TrafficInv
PROOF
  <1>1. SUFFICES ASSUME Init PROVE TrafficInv
    OBVIOUS
  <1>2. /\ net = [box |-> [a \in Addresses |-> Nothing], held |-> <<>>, cut |-> {}]
        /\ serial = 0
    BY <1>1 DEF Init, NetInit
  <1>3. net \in Nets
    BY <1>2, EmptySeq DEF Nets
  <1>4. \A x \in Addresses : Queued(net, x) = <<>>
    BY <1>2 DEF Queued, Bound
  <1>5. net.held = <<>> /\ net.cut = {}
    BY <1>2
  <1>6. CutBothWays(net) /\ HeldIsCut(net) /\ Addressed(net) /\ Numbered(net, serial)
    BY <1>4, <1>5, RangeOfNothing DEF CutBothWays, HeldIsCut, Addressed, Numbered, Contents
  <1>7. Ordered(net)
    <2>1. <<>> \o <<>> = <<>>  BY EmptySeq, ConcatEmptySeq
    <2>2. \A f \in Addresses, t \in Addresses : Line(net, f, t) = <<>>
      BY <1>4, <1>5, <2>1, AlongNothing DEF Line
    <2>3. QED  BY <2>2 DEF Ordered, Ascending
  <1>8. WatchesOk /\ HandlesOk
    BY <1>1 DEF Init, NetInit, WatchesOk, HandlesOk
  <1>9. QED
    BY <1>2, <1>3, <1>6, <1>7, <1>8 DEF TrafficInv, NetOk

LEMMA TrafficStep ==
  TrafficInv /\ [Calls]_vars => TrafficInv' /\ \A d \in Contents(net) : Kept(d)
PROOF
  <1>1. SUFFICES ASSUME TrafficInv, [Calls]_vars
                 PROVE  TrafficInv' /\ \A d \in Contents(net) : Kept(d)
    OBVIOUS
  <1>2. serial \in Nat /\ NetOk(net, serial) /\ WatchesOk /\ HandlesOk
    BY <1>1 DEF TrafficInv
  <1>3. CASE Post
    <2>1. serial' = serial + 1
      BY <1>3 DEF Post
    <2>2. ASSUME NEW r \in Routes, Send(r[1], r[2], serial')
          PROVE  TrafficInv' /\ \A d \in Contents(net) : Kept(d)
      <3>1. r[1] \in Addresses /\ r[2] \in Addresses
        BY RoutesAreOfAddresses
      <3>2. NetOk(net', serial + 1) /\ \A d \in Contents(net) : Kept(d)
        BY <1>1, <2>1, <2>2, <3>1, SendStep
      <3>3. (WatchesOk /\ HandlesOk)'
        BY <1>2, <2>2 DEF Send, WatchesOk, HandlesOk
      <3>4. serial' \in Nat
        BY <1>2, <2>1
      <3>5. NetOk(net', serial')
        BY <2>1, <3>2
      <3>6. QED
        BY <3>2, <3>3, <3>4, <3>5 DEF TrafficInv
    <2>3. ASSUME NEW batch \in Batches,
                 OpenMany(batch.from, batch.endpoint, batch.targets, serial', serial')
          PROVE  TrafficInv' /\ \A d \in Contents(net) : Kept(d)
      <3>1. NetOk(net', serial + 1) /\ \A d \in Contents(net) : Kept(d)
        BY <1>1, <2>1, <2>3, OpenManyStep
      <3>2. (WatchesOk /\ HandlesOk)'
        BY <1>2, <2>3 DEF OpenMany, WatchesOk, HandlesOk
      <3>3. serial' \in Nat
        BY <1>2, <2>1
      <3>4. NetOk(net', serial')
        BY <2>1, <3>1
      <3>5. QED
        BY <3>1, <3>2, <3>3, <3>4 DEF TrafficInv
    <2>4. QED
      BY <1>3, <2>2, <2>3 DEF Post
  <1>4. ASSUME serial' = serial, NetOk(net', serial), Others', \A d \in Contents(net) : Kept(d)
        PROVE  TrafficInv' /\ \A d \in Contents(net) : Kept(d)
    <2>1. NetOk(net', serial')
      BY <1>4
    <2>2. QED
      BY <1>2, <1>4, <2>1 DEF TrafficInv, Others
  <1>5. CASE KillOne
    <2>1. PICK e \in Mortal : Kill(e)
      BY <1>5 DEF KillOne
    <2>2. e \in NetEndpoints /\ serial' = serial
      BY <1>5, MortalsAreEndpoints DEF KillOne
    <2>3. QED
      BY <1>1, <1>4, <2>1, <2>2, KillStep
  <1>6. ASSUME NEW x \in Binders, NEW h \in Handles, Register(x, h), serial' = serial
        PROVE  TrafficInv' /\ \A d \in Contents(net) : Kept(d)
    BY <1>1, <1>4, <1>6, BindersAreAddresses, RegisterStep
  <1>7. ASSUME NEW h \in Handles, DropInbox(h) \/ Take(h), serial' = serial
        PROVE  TrafficInv' /\ \A d \in Contents(net) : Kept(d)
    BY <1>1, <1>4, <1>7, DropInboxStep, TakeStep
  <1>8. ASSUME NEW border \in Borders, serial' = serial,
               Partition(border[1], border[2]) \/ Heal(border[1], border[2])
        PROVE  TrafficInv' /\ \A d \in Contents(net) : Kept(d)
    <2>1. border[1] \in NetEndpoints /\ border[2] \in NetEndpoints
      BY BordersAreOfEndpoints
    <2>2. QED
      BY <1>1, <1>4, <1>8, <2>1, PartitionStep, HealStep
  <1>9. ASSUME UNCHANGED net, Others', serial' = serial
        PROVE  TrafficInv' /\ \A d \in Contents(net) : Kept(d)
    <2>1. NetOk(net', serial)
      BY <1>2, <1>9
    <2>2. \A d \in Contents(net) : Kept(d)
      BY <1>9 DEF Kept
    <2>3. QED
      BY <1>4, <1>9, <2>1, <2>2
  <1>10. ASSUME NEW w \in Watches, Watch(w) \/ HearDeath(w), serial' = serial
         PROVE  TrafficInv' /\ \A d \in Contents(net) : Kept(d)
    <2>1. UNCHANGED net /\ Others'
      BY <1>1, <1>10, WatchSteps
    <2>2. QED
      BY <1>9, <1>10, <2>1
  <1>11. ASSUME NEW w \in Watches, NEW e \in NetEndpoints, ReportDeath(w, e), serial' = serial
         PROVE  TrafficInv' /\ \A d \in Contents(net) : Kept(d)
    BY <1>1, <1>9, <1>11, WatchSteps
  <1>12. CASE UNCHANGED vars
    <2>1. UNCHANGED net /\ serial' = serial /\ Others'
      BY <1>2, <1>12 DEF vars, netVars, Others, WatchesOk, HandlesOk
    <2>2. QED
      BY <1>9, <2>1
  <1>13. QED
    BY <1>1, <1>3, <1>5, <1>6, <1>7, <1>8, <1>10, <1>11, <1>12 DEF Calls

LEMMA TrafficAlways == Spec => []TrafficInv
  <1>1. Init => TrafficInv  BY TrafficInit
  <1>2. TrafficInv /\ [Calls]_vars => TrafficInv'  BY TrafficStep
  <1>3. QED  BY <1>1, <1>2, PTL DEF Spec

(* Deliveries between two addresses stay in the order they were sent: for  *)
(* any addresses, endpoints, routes, batches and borders, and without      *)
(* bounds on the number of sends and kills.                                *)
THEOREM OrderIsKept == Spec => []InOrder
  <1>1. TrafficInv => InOrder  BY DEF TrafficInv, NetOk, Ordered, InOrder
  <1>2. QED  BY <1>1, TrafficAlways, PTL

(* What the network accepted leaves it only by being taken, with its       *)
(* mailbox, or, held back, at the heal of its own partition that finds no  *)
(* mailbox.                                                                *)
THEOREM NothingIsLostSilently == Spec => NothingVanishes
  <1>1. TrafficInv /\ [Calls]_vars =>
           [\A d \in Contents(net) :
               \/ d \in Contents(net')
               \/ /\ ~Bound(net', d.to)
                  /\ d \in Range(net.held) => ~Cut(net', d)
               \/ /\ Queued(net, d.to) # <<>>
                  /\ d = Head(net.box[d.to])
                  /\ net'.box[d.to] = Tail(net.box[d.to])]_vars
    BY TrafficStep DEF Kept
  <1>2. QED  BY <1>1, TrafficAlways, PTL DEF Spec, NothingVanishes

(* Nothing is held back without a partition that stands in its way: what   *)
(* a cut held is handed over, or found undeliverable, when the cut heals.  *)
THEOREM HeldOnlyByPartitions == Spec => [](\A d \in Range(net.held) : Cut(net, d))
  <1>1. TrafficInv => \A d \in Range(net.held) : Cut(net, d)
    BY DEF TrafficInv, NetOk, HeldIsCut
  <1>2. QED  BY <1>1, TrafficAlways, PTL
=============================================================================
