------------------------- MODULE PacketStreamProofs -------------------------
(***************************************************************************)
(* Theorems about PacketStream, for every capacity, traffic and bound: the *)
(* invariants of PacketStreamInvariants, one layer after the other, and    *)
(* what follows from them.                                                 *)
(***************************************************************************)
EXTENDS PacketStreamInvariants, SequenceTheorems

-----------------------------------------------------------------------------
(* The two ends. *)

LEMMA OtherEnd ==
  \A e \in Ends : /\ Other(e) \in Ends /\ Other(e) # e /\ Other(Other(e)) = e
                  /\ \A d \in Ends : d # e => d = Other(e)
<1>1. PICK a \in Ends : TRUE
  BY EndsAssumption, FS_EmptySet
<1>2. PICK b : Ends \ {a} = {b}
  <2>1. IsFiniteSet(Ends \ {a}) /\ Cardinality(Ends \ {a}) = 1
    BY <1>1, EndsAssumption, FS_RemoveElement
  <2> QED BY <2>1, FS_Singleton
<1>3. Ends = {a, b} /\ a # b
  BY <1>1, <1>2
<1>4. Other(a) = b /\ Other(b) = a
  BY <1>3 DEF Other
<1> QED BY <1>3, <1>4

-----------------------------------------------------------------------------
(* Packets that the protocol makes.                                          *)

LEMMA DataPacket ==
  ASSUME NEW e \in Ends, NEW n \in Nat, NEW p \in Priority, NEW seq \in Nat, NEW reliable \in BOOLEAN,
         NEW total \in Nat, reliable => p # 0
  PROVE  Packet(e, n, p, seq, reliable, total) \in PacketsOf(n, p)
BY DEF Packet, PacketsOf, Packets, PacketType, IsRequest

LEMMA BlankPacket == Blank \in PacketsOf(0, 0) /\ ~Blank.is_init
<1>1. (CHOOSE e \in Ends : TRUE) \in Ends
  BY OtherEnd, EndsAssumption, FS_EmptySet
<1> DEFINE c == CHOOSE e \in Ends : TRUE
<1>2. Blank = Packet(c, 0, 0, 0, FALSE, 0) /\ c \in Ends
  BY <1>1 DEF Blank
<1> HIDE DEF c
<1>3. 0 \in Priority
  BY DEF Priority
<1> QED BY <1>2, <1>3, DataPacket DEF Packet

LEMMA HandshakePacket ==
  ASSUME NEW e \in Ends, NEW n \in Nat
  PROVE  InitPacket(e, n) \in PacketsOf(n, kHigh)
<1>1. HandshakeId(n) \in Nat
  BY BoundsAssumption DEF HandshakeId
<1>2. kHigh \in Priority /\ kHigh # 0 /\ 0 \in Nat /\ TRUE \in BOOLEAN
  BY DEF kHigh, Priority
<1> DEFINE f == Packet(e, n, kHigh, HandshakeId(n), TRUE, 0)
<1>3. f \in PacketsOf(n, kHigh) /\ f.seq = HandshakeId(f.start) /\ f.p # 0
  <2>1. f \in PacketsOf(n, kHigh)
    BY <1>1, <1>2, DataPacket
  <2> QED BY <1>2, <2>1 DEF Packet
<1>4. InitPacket(e, n) = [f EXCEPT !.is_init = TRUE]
  BY DEF InitPacket
<1> HIDE DEF f
<1> QED BY <1>3, <1>4 DEF PacketsOf, Packets, PacketType, IsRequest

LEMMA AckPacket ==
  ASSUME NEW e \in Ends, start[e] \in Nat, NEW pkt \in Packets, pkt.p # 0
  PROVE  AckFor(e, pkt) \in PacketsOf(start[e], Higher(pkt.p)) /\ Higher(pkt.p) \in Priority
<1>1. Higher(pkt.p) \in Priority /\ Higher(pkt.p) # 3
  BY DEF Packets, PacketType, Priority, Higher
<1>2. pkt.seq \in Nat /\ pkt.is_init \in BOOLEAN
  BY DEF Packets, PacketType
<1> QED BY <1>1, <1>2 DEF AckFor, Packet, PacketsOf, Packets, PacketType, IsRequest

\* Changing what a continuation changes.
LEMMA Continued ==
  ASSUME NEW n, NEW p, NEW pkt \in PacketsOf(n, p), NEW c \in BOOLEAN, NEW length \in Nat
  PROVE  [pkt EXCEPT !.is_continuation = c, !.length = length] \in PacketsOf(n, p)
<1> DEFINE f == [pkt EXCEPT !.is_continuation = c]
           g == [f EXCEPT !.length = length]
<1>1. [pkt EXCEPT !.is_continuation = c, !.length = length] = g
  OBVIOUS
<1>2. f \in PacketsOf(n, p)
  BY DEF PacketsOf, Packets, PacketType, IsRequest
<1> HIDE DEF f
<1>3. g \in PacketsOf(n, p)
  BY <1>2 DEF PacketsOf, Packets, PacketType, IsRequest
<1> QED BY <1>1, <1>3

\* A packet does not change in what it is while less of it is left to send.
LEMMA CommittedPacket ==
  ASSUME NEW pkt \in Packets
  PROVE  LET c == AsCommitted(pkt) IN
         /\ c \in Packets /\ AsCommitted(c) = c
         /\ c.from = pkt.from /\ c.start = pkt.start /\ c.p = pkt.p /\ c.seq = pkt.seq
         /\ c.requires_ack = pkt.requires_ack /\ c.is_ack = pkt.is_ack /\ c.is_init = pkt.is_init
<1> DEFINE f == [pkt EXCEPT !.is_continuation = FALSE]
           c == [f EXCEPT !.length = pkt.total]
<1>1. AsCommitted(pkt) = c
  BY DEF AsCommitted
<1>2. f \in Packets /\ f = [pkt EXCEPT !.is_continuation = FALSE] /\ f.is_continuation = FALSE
      /\ f.from = pkt.from /\ f.start = pkt.start /\ f.p = pkt.p /\ f.seq = pkt.seq /\ f.total = pkt.total
      /\ f.requires_ack = pkt.requires_ack /\ f.is_ack = pkt.is_ack /\ f.is_init = pkt.is_init
  BY DEF Packets, PacketType, IsRequest
<1> HIDE DEF f
<1>3. c \in Packets /\ c.is_continuation = FALSE /\ c.length = c.total
      /\ c.from = pkt.from /\ c.start = pkt.start /\ c.p = pkt.p /\ c.seq = pkt.seq
      /\ c.requires_ack = pkt.requires_ack /\ c.is_ack = pkt.is_ack /\ c.is_init = pkt.is_init
  BY <1>2 DEF Packets, PacketType, IsRequest
<1> HIDE DEF c
<1>4. AsCommitted(c) = c
  <2>1. [c EXCEPT !.is_continuation = FALSE] = c
    BY <1>3 DEF Packets, PacketType
  <2>2. [c EXCEPT !.length = c.total] = c
    BY <1>3 DEF Packets, PacketType
  <2> QED BY <2>1, <2>2 DEF AsCommitted
<1> QED BY <1>1, <1>3, <1>4

LEMMA ContinuedCommitted ==
  ASSUME NEW pkt \in Packets, NEW c \in BOOLEAN, NEW length \in Nat
  PROVE  AsCommitted([pkt EXCEPT !.is_continuation = c, !.length = length]) = AsCommitted(pkt)
<1>1. PICK f : f = [pkt EXCEPT !.is_continuation = c]
  OBVIOUS
<1>2. PICK g : g = [f EXCEPT !.length = length]
  OBVIOUS
<1>3. [pkt EXCEPT !.is_continuation = c, !.length = length] = g
  BY <1>1, <1>2
<1>4. g.total = pkt.total
  BY <1>1, <1>2 DEF Packets, PacketType
<1>5. [g EXCEPT !.is_continuation = FALSE, !.length = pkt.total]
      = [pkt EXCEPT !.is_continuation = FALSE, !.length = pkt.total]
  BY <1>1, <1>2 DEF Packets, PacketType
<1> QED BY <1>3, <1>4, <1>5 DEF AsCommitted

-----------------------------------------------------------------------------
(* Selecting from a queue. *)

LEMMA SelectedSteps ==
  ASSUME NEW S, NEW s \in Seq(S), NEW at
  PROVE  \E front : /\ Selected(s, at) = front[Len(s)]
                    /\ front[0] = << >>
                    /\ \A k \in 1 .. Len(s) : front[k] = IF k \in at THEN Append(front[k - 1], s[k])
                                                                       ELSE front[k - 1]
<1> DEFINE n == Len(s)
           F(f) == [k \in 0 .. n |-> IF k = 0 THEN << >>
                                     ELSE IF k \in at THEN Append(f[k - 1], s[k]) ELSE f[k - 1]]
           front == CHOOSE f : f = F(f)
           step == [x \in (1 .. n) \X Seq(S) |-> IF x[1] \in at THEN Append(x[2], s[x[1]]) ELSE x[2]]
<1>1. n \in Nat /\ \A k \in 1 .. n : s[k] \in S
  OBVIOUS
<1>2. Selected(s, at) = front[n]
  BY DEF Selected
<1> HIDE DEF n
<1>3. step \in [(1 .. n) \X Seq(S) -> Seq(S)]
  <2>1. ASSUME NEW x \in (1 .. n) \X Seq(S)
        PROVE  (IF x[1] \in at THEN Append(x[2], s[x[1]]) ELSE x[2]) \in Seq(S)
    <3>1. x[1] \in 1 .. n /\ x[2] \in Seq(S) /\ s[x[1]] \in S
      BY <1>1
    <3> QED BY <3>1, AppendProperties
  <2> QED BY <2>1
<1>4. \E g : g = F(g)
  <2>1. << >> \in Seq(S)
    OBVIOUS
  <2>2. PICK g \in [0 .. n -> Seq(S)] : StepsFrom(g, << >>, step, n)
    <3> HIDE DEF step
    <3> QED BY <1>1, <1>3, <2>1, StepByStep
  <2>3. g = [k \in 0 .. n |-> IF k = 0 THEN << >> ELSE step[<<k, g[k - 1]>>]]
    BY <2>2 DEF StepsFrom
  <2>4. ASSUME NEW k \in 0 .. n, k # 0
        PROVE  step[<<k, g[k - 1]>>] = IF k \in at THEN Append(g[k - 1], s[k]) ELSE g[k - 1]
    <3>1. k \in 1 .. n /\ k - 1 \in 0 .. n
      BY <1>1, <2>4
    <3>2. g[k - 1] \in Seq(S)
      BY <3>1
    <3> QED BY <3>1, <3>2
  <2> HIDE DEF step
  <2>5. ASSUME NEW k \in 0 .. n
        PROVE  (IF k = 0 THEN << >> ELSE step[<<k, g[k - 1]>>]) =
               IF k = 0 THEN << >> ELSE IF k \in at THEN Append(g[k - 1], s[k]) ELSE g[k - 1]
    BY <2>4
  <2>6. [k \in 0 .. n |-> IF k = 0 THEN << >> ELSE step[<<k, g[k - 1]>>]] = F(g)
    BY <2>5
  <2>7. g = F(g)
    <3> HIDE DEF F
    <3> QED BY <2>3, <2>6
  <2> QED BY <2>7
<1>5. front = F(front)
  <2> HIDE DEF F
  <2> QED BY <1>4
<1> HIDE DEF front, step
<1>6. front[0] = << >> /\ \A k \in 1 .. n : front[k] = IF k \in at THEN Append(front[k - 1], s[k])
                                                                   ELSE front[k - 1]
  <2>1. ASSUME NEW k \in 0 .. n
        PROVE  F(front)[k] = IF k = 0 THEN << >>
                             ELSE IF k \in at THEN Append(front[k - 1], s[k]) ELSE front[k - 1]
    OBVIOUS
  <2> HIDE DEF F
  <2> QED BY <1>1, <1>5, <2>1
<1> QED BY <1>2, <1>6 DEF n

LEMMA SelectedQueue ==
  ASSUME NEW S, NEW s \in Seq(S), NEW at
  PROVE  Selected(s, at) \in Seq(S) /\ Len(Selected(s, at)) <= Len(s)
<1>1. PICK n \in Nat : n = Len(s) /\ \A k \in 1 .. n : s[k] \in S
  OBVIOUS
<1>2. PICK front : /\ Selected(s, at) = front[n]
                   /\ front[0] = << >>
                   /\ \A k \in 1 .. n : front[k] = IF k \in at THEN Append(front[k - 1], s[k])
                                                              ELSE front[k - 1]
  BY <1>1, SelectedSteps
<1> DEFINE T == {k \in 0 .. n : front[k] \in Seq(S) /\ Len(front[k]) <= k}
<1>3. 0 \in T
  <2>1. << >> \in Seq(S) /\ Len(<< >>) = 0 /\ 0 \in 0 .. n
    BY <1>1
  <2>2. front[0] \in Seq(S) /\ Len(front[0]) <= 0
    BY <1>2, <2>1
  <2> QED BY <2>1, <2>2
<1>4. ASSUME NEW k \in 0 .. n - 1, k \in T PROVE k + 1 \in T
  <2>1. k \in Nat /\ k + 1 \in 1 .. n /\ (k + 1) - 1 = k /\ k + 1 \in 0 .. n
    BY <1>1
  <2>2. front[k] \in Seq(S) /\ Len(front[k]) <= k /\ Len(front[k]) \in Nat
    BY <1>4
  <2>3. front[k + 1] = IF k + 1 \in at THEN Append(front[k], s[k + 1]) ELSE front[k]
    BY <1>2, <2>1
  <2>4. s[k + 1] \in S
    BY <1>1, <2>1
  <2>5. /\ Append(front[k], s[k + 1]) \in Seq(S)
        /\ Len(Append(front[k], s[k + 1])) = Len(front[k]) + 1
    BY <2>2, <2>4, AppendProperties
  <2>6. front[k + 1] \in Seq(S) /\ Len(front[k + 1]) <= k + 1
    BY <2>1, <2>2, <2>3, <2>5
  <2> QED BY <2>1, <2>6
<1>5. n \in T
  <2> HIDE DEF T
  <2>1. 0 .. n \subseteq T
    BY <1>1, <1>3, <1>4, SetInduction
  <2> QED BY <1>1, <2>1
<1> QED BY <1>1, <1>2, <1>5

\* What is selected comes from rising places, all of the selected ones.
LEMMA SelectedPlaces ==
  ASSUME NEW S, NEW s \in Seq(S), NEW at
  PROVE  \E from \in [1 .. Len(Selected(s, at)) -> 1 .. Len(s)] :
           /\ \A j, k \in 1 .. Len(Selected(s, at)) : j < k => from[j] < from[k]
           /\ \A k \in 1 .. Len(Selected(s, at)) : Selected(s, at)[k] = s[from[k]] /\ from[k] \in at
           /\ \A i \in 1 .. Len(s) : i \in at => \E k \in 1 .. Len(Selected(s, at)) : from[k] = i
<1>1. PICK n \in Nat : n = Len(s) /\ \A k \in 1 .. n : s[k] \in S
  OBVIOUS
<1>2. PICK front : /\ Selected(s, at) = front[n]
                   /\ front[0] = << >>
                   /\ \A k \in 1 .. n : front[k] = IF k \in at THEN Append(front[k - 1], s[k])
                                                              ELSE front[k - 1]
  BY <1>1, SelectedSteps
<1> DEFINE Ok(q, m, from) ==
             /\ q \in Seq(S) /\ from \in [1 .. Len(q) -> 1 .. m]
             /\ \A j, k \in 1 .. Len(q) : j < k => from[j] < from[k]
             /\ \A k \in 1 .. Len(q) : q[k] = s[from[k]] /\ from[k] \in at
             /\ \A i \in 1 .. m : i \in at => \E k \in 1 .. Len(q) : from[k] = i
           T == {m \in 0 .. n : \E from : Ok(front[m], m, from)}
<1>3. 0 \in T
  <2>1. PICK q, from : q = << >> /\ from = [k \in 1 .. 0 |-> 0]
    OBVIOUS
  <2>2. q \in Seq(S) /\ Len(q) = 0
    BY <2>1
  <2>3. 1 .. Len(q) = {} /\ 1 .. 0 = {}
    BY <2>2
  <2>4. from \in [1 .. Len(q) -> 1 .. 0]
    BY <2>1, <2>3
  <2>5. Ok(q, 0, from)
    BY <2>2, <2>3, <2>4
  <2> HIDE DEF Ok
  <2> QED BY <1>1, <1>2, <2>1, <2>5
<1>4. ASSUME NEW m \in 0 .. n - 1, m \in T PROVE m + 1 \in T
  <2>1. m \in Nat /\ m + 1 \in 1 .. n /\ (m + 1) - 1 = m /\ m + 1 \in 0 .. n
    BY <1>1
  <2>2. PICK q, from : q = front[m] /\ Ok(q, m, from)
    <3>1. PICK from : Ok(front[m], m, from)
      BY <1>4
    <3> HIDE DEF Ok
    <3> QED BY <3>1
  <2>3. front[m + 1] = IF m + 1 \in at THEN Append(q, s[m + 1]) ELSE q
    BY <1>2, <2>1, <2>2
  <2>4. CASE m + 1 \notin at
    <3>1. from \in [1 .. Len(q) -> 1 .. m + 1]
      BY <2>1, <2>2
    <3>2. \A i \in 1 .. m + 1 : i \in at => i \in 1 .. m
      BY <2>1, <2>4
    <3>3. Ok(q, m + 1, from)
      BY <2>2, <3>1, <3>2
    <3> QED BY <2>1, <2>3, <2>4, <3>3
  <2>5. CASE m + 1 \in at
    <3>1. s[m + 1] \in S /\ Len(q) \in Nat /\ q \in Seq(S)
      BY <1>1, <2>1, <2>2
    <3>2. PICK r : r = Append(q, s[m + 1])
      OBVIOUS
    <3>3. PICK l \in Nat : l = Len(q)
      BY <3>1
    <3>4. /\ r \in Seq(S) /\ Len(r) = l + 1 /\ r[l + 1] = s[m + 1]
          /\ \A k \in 1 .. l : r[k] = q[k]
      BY <3>1, <3>2, <3>3, AppendProperties
    <3>5. PICK next : next = [k \in 1 .. l + 1 |-> IF k = l + 1 THEN m + 1 ELSE from[k]]
      OBVIOUS
    <3>6. /\ \A k \in 1 .. l + 1 : k = l + 1 \/ k \in 1 .. l
          /\ \A k \in 1 .. l : k # l + 1 /\ k \in 1 .. l + 1 /\ from[k] \in 1 .. m
          /\ l + 1 \in 1 .. l + 1
      <4>1. from \in [1 .. l -> 1 .. m]
        BY <2>2, <3>3
      <4>2. \A k \in 1 .. l : from[k] \in 1 .. m
        BY <4>1
      <4>3. /\ \A k \in 1 .. l + 1 : k = l + 1 \/ k \in 1 .. l
            /\ \A k \in 1 .. l : k # l + 1 /\ k \in 1 .. l + 1
            /\ l + 1 \in 1 .. l + 1
        BY <3>3
      <4> QED BY <4>2, <4>3
    <3>7. next[l + 1] = m + 1 /\ \A k \in 1 .. l : next[k] = from[k]
      BY <3>5, <3>6
    <3>8. next \in [1 .. Len(r) -> 1 .. m + 1]
      <4>1. \A k \in 1 .. l + 1 : (IF k = l + 1 THEN m + 1 ELSE from[k]) \in 1 .. m + 1
        BY <2>1, <3>6
      <4>2. [k \in 1 .. l + 1 |-> IF k = l + 1 THEN m + 1 ELSE from[k]] \in [1 .. l + 1 -> 1 .. m + 1]
        BY <4>1
      <4>3. 1 .. Len(r) = 1 .. l + 1
        BY <3>4
      <4> QED BY <3>5, <4>2, <4>3
    <3>9. ASSUME NEW j \in 1 .. Len(r), NEW k \in 1 .. Len(r), j < k PROVE next[j] < next[k]
      <4>1. j \in 1 .. l
        BY <3>3, <3>4, <3>9
      <4>2. next[j] = from[j] /\ from[j] \in 1 .. m
        BY <3>6, <3>7, <4>1
      <4>3. CASE k = l + 1
        BY <2>1, <3>7, <4>2, <4>3
      <4>4. CASE k \in 1 .. l
        BY <2>2, <3>3, <3>7, <3>9, <4>1, <4>2, <4>4
      <4> QED BY <3>4, <3>6, <4>3, <4>4
    <3>10. ASSUME NEW k \in 1 .. Len(r) PROVE r[k] = s[next[k]] /\ next[k] \in at
      <4>1. CASE k = l + 1
        BY <2>5, <3>4, <3>7, <4>1
      <4>2. CASE k \in 1 .. l
        BY <2>2, <3>3, <3>4, <3>7, <4>2
      <4> QED BY <3>4, <3>6, <4>1, <4>2
    <3>11. ASSUME NEW i \in 1 .. m + 1, i \in at PROVE \E k \in 1 .. Len(r) : next[k] = i
      <4>1. CASE i = m + 1
        BY <3>4, <3>6, <3>7, <4>1
      <4>2. CASE i \in 1 .. m
        <5>1. PICK k \in 1 .. l : from[k] = i
          BY <2>2, <3>3, <3>11, <4>2
        <5> QED BY <3>4, <3>6, <3>7, <5>1
      <4> QED BY <2>1, <4>1, <4>2
    <3>12. r \in Seq(S)
      BY <3>4
    <3>13. \A j, k \in 1 .. Len(r) : j < k => next[j] < next[k]
      BY <3>9
    <3>14. Ok(r, m + 1, next)
      BY <3>8, <3>10, <3>11, <3>12, <3>13, Zenon
    <3> HIDE DEF Ok
    <3> QED BY <2>1, <2>3, <2>5, <3>2, <3>14
  <2> QED BY <2>4, <2>5
<1>5. n \in T
  <2> HIDE DEF T
  <2>1. 0 .. n \subseteq T
    BY <1>1, <1>3, <1>4, SetInduction
  <2> QED BY <1>1, <2>1
<1> QED BY <1>1, <1>2, <1>5

\* r is made of the packets of s at the places in `at`.
IsSelection(r, s, at) ==
  /\ \A k \in 1 .. Len(r) : \E i \in 1 .. Len(s) : i \in at /\ r[k] = s[i]
  /\ \A i \in 1 .. Len(s) : i \in at => \E k \in 1 .. Len(r) : r[k] = s[i]

LEMMA SelectedFrom ==
  ASSUME NEW s \in Seq(Packets), NEW at, NEW r, r = Selected(s, at)
  PROVE  IsSelection(r, s, at)
<1>1. PICK from \in [1 .. Len(r) -> 1 .. Len(s)] :
        /\ \A j, k \in 1 .. Len(r) : j < k => from[j] < from[k]
        /\ \A k \in 1 .. Len(r) : r[k] = s[from[k]] /\ from[k] \in at
        /\ \A i \in 1 .. Len(s) : i \in at => \E k \in 1 .. Len(r) : from[k] = i
  BY SelectedPlaces
<1>2. ASSUME NEW k \in 1 .. Len(r) PROVE \E i \in 1 .. Len(s) : i \in at /\ r[k] = s[i]
  <2>1. from[k] \in 1 .. Len(s) /\ from[k] \in at /\ r[k] = s[from[k]]
    BY <1>1
  <2> QED BY <2>1
<1>3. ASSUME NEW i \in 1 .. Len(s), i \in at PROVE \E k \in 1 .. Len(r) : r[k] = s[i]
  <2>1. PICK k \in 1 .. Len(r) : from[k] = i
    BY <1>1, <1>3
  <2> QED BY <1>1, <2>1
<1> QED BY <1>2, <1>3 DEF IsSelection

-----------------------------------------------------------------------------
(* Ring buffers. *)

LEMMA CapacityFacts ==
  /\ InCapacity \in Nat /\ InCapacity > 1 /\ 0 \in Positions
  /\ Ring!Slots = Positions
  /\ \A k \in Nat : k % InCapacity \in Positions
BY CapacitiesAssumption DEF Positions, Ring!Slots

LEMMA RingCleared ==
  ASSUME NEW V, NEW rb \in Rings(V)
  PROVE  Ring!Cleared(rb) \in Rings(V)
BY CapacityFacts DEF Ring!Cleared, Rings

LEMMA RingNew ==
  ASSUME NEW V, NEW initial \in [Positions -> V]
  PROVE  Ring!NewRingBuffer(initial) \in Rings(V)
<1> DEFINE rb == [values |-> initial, indices |-> [k \in Ring!Slots |-> k],
                  read |-> 0, write |-> 0, size |-> 0]
<1>1. rb \in Rings(V)
  BY CapacityFacts DEF Rings
<1>2. Ring!NewRingBuffer(initial) = Ring!Cleared(rb)
  BY DEF Ring!NewRingBuffer
<1> HIDE DEF rb
<1> QED BY <1>1, <1>2, RingCleared

LEMMA RingNewSlot ==
  ASSUME NEW V, NEW rb \in Rings(V)
  PROVE  Ring!NewSlot(rb) \in Positions
BY DEF Rings, Ring!NewSlot

LEMMA RingNext == \A k \in Positions : Ring!NextPos(k) \in Positions
BY CapacityFacts DEF Ring!NextPos, Positions

LEMMA RingCommitted ==
  ASSUME NEW V, NEW rb \in Rings(V)
  PROVE  Ring!Committed(rb) \in Rings(V)
<1> DEFINE w == Ring!NextPos(rb.write)
           size == IF rb.size < InCapacity - 1 THEN rb.size + 1 ELSE rb.size
           read == IF w = rb.read THEN Ring!NextPos(rb.read) ELSE rb.read
<1>1. w \in Positions /\ read \in Positions
  BY RingNext DEF Rings
<1>2. size \in Positions
  <2>1. PICK n \in Positions : n = rb.size
    BY DEF Rings
  <2>2. (IF n < InCapacity - 1 THEN n + 1 ELSE n) \in Positions
    BY CapacitiesAssumption DEF Positions
  <2> QED BY <2>1, <2>2
<1>3. Ring!Committed(rb) = [rb EXCEPT !.write = w, !.size = size, !.read = read]
  BY DEF Ring!Committed, Rings
<1> HIDE DEF w, size, read
<1> QED BY <1>1, <1>2, <1>3 DEF Rings

LEMMA RingConsumed ==
  ASSUME NEW V, NEW rb \in Rings(V), NEW i \in 0 .. rb.size - 1
  PROVE  Ring!Consumed(rb, i) \in Rings(V)
<1> DEFINE moved == {(rb.read + k) % InCapacity : k \in 1 .. i}
           indices == [j \in Ring!Slots |-> IF j \in moved
                                            THEN rb.indices[Ring!IndexMod(j - 1, InCapacity)]
                                            ELSE rb.indices[j]]
<1>1. \A j \in Positions : Ring!IndexMod(j - 1, InCapacity) \in Positions
  <2> SUFFICES ASSUME NEW j \in Positions PROVE Ring!IndexMod(j - 1, InCapacity) \in Positions
    OBVIOUS
  <2>1. CASE j = 0
    <3>1. Ring!IndexMod(j - 1, InCapacity) = InCapacity - (1 % InCapacity)
      BY <2>1 DEF Ring!IndexMod
    <3>2. 1 % InCapacity = 1
      BY CapacityFacts
    <3>3. InCapacity - 1 \in Positions
      BY CapacitiesAssumption DEF Positions
    <3> QED BY <3>1, <3>2, <3>3
  <2>2. CASE j # 0
    <3>1. j - 1 \in Nat /\ j - 1 < InCapacity
      BY <2>2, CapacityFacts DEF Positions
    <3> QED BY <3>1, CapacityFacts DEF Ring!IndexMod
  <2> QED BY <2>1, <2>2
<1>2. indices \in [Positions -> Positions]
  <2> HIDE DEF moved
  <2> QED BY <1>1, CapacityFacts DEF Rings
<1>3. rb.size - 1 \in Positions /\ Ring!NextPos(rb.read) \in Positions
  <2>1. PICK size \in Positions : size = rb.size
    BY DEF Rings
  <2>2. i \in 0 .. size - 1
    BY <2>1
  <2>3. size - 1 \in Positions
    BY <2>2, CapacitiesAssumption DEF Positions
  <2> QED BY <2>1, <2>3, RingNext DEF Rings
<1>4. Ring!Consumed(rb, i) = [rb EXCEPT !.indices = indices, !.read = Ring!NextPos(rb.read),
                                        !.size = rb.size - 1]
  BY DEF Ring!Consumed, Rings
<1> HIDE DEF indices
<1> QED BY <1>2, <1>3, <1>4 DEF Rings

-----------------------------------------------------------------------------
(* The input stream. *)

LEMMA BlankStored == [pkt |-> Blank, bad |-> {1}] \in StoredPackets
BY BlankPacket DEF StoredPackets, PacketsOf

LEMMA NewInputType == NewInput \in Inputs /\ NewInput.state = "header"
<1>1. [s \in Positions |-> [pkt |-> Blank, bad |-> {1}]] \in [Positions -> StoredPackets]
  BY BlankStored
<1> DEFINE ring == Ring!NewRingBuffer([s \in 0 .. InCapacity - 1 |-> [pkt |-> Blank, bad |-> {1}]])
<1>2. ring \in Rings(StoredPackets)
  BY <1>1, RingNew DEF Positions
<1>3. NewInput = [state |-> "header", buffer |-> [p \in Priority |-> ring],
                  incoming |-> [p \in Priority |-> None], offset |-> [p \in Priority |-> 0],
                  placeholder |-> [pkt |-> Blank, bad |-> {1}]]
  BY DEF NewInput
<1> HIDE DEF ring
<1> QED BY <1>2, <1>3, BlankStored DEF Inputs

LEMMA ResetInputType ==
  ASSUME NEW in \in Inputs
  PROVE  ResetInput(in) \in Inputs /\ ResetInput(in).state = "header"
<1> DEFINE buffer == [p \in Priority |-> Ring!Cleared(in.buffer[p])]
           incoming == [p \in Priority |-> None]
           offset == [p \in Priority |-> 0]
<1>1. buffer \in [Priority -> Rings(StoredPackets)]
  BY RingCleared DEF Inputs
<1>2. ResetInput(in) = [in EXCEPT !.state = "header", !.buffer = buffer, !.incoming = incoming,
                                  !.offset = offset]
  BY DEF ResetInput, Inputs
<1>3. /\ incoming \in [Priority -> {None} \cup 0 .. InCapacity]
      /\ offset \in [Priority -> Nat]
  OBVIOUS
<1> HIDE DEF buffer, incoming, offset
<1> QED BY <1>1, <1>2, <1>3 DEF Inputs

\* What is in store, and what is in store after it is written.
LEMMA StoredIn ==
  ASSUME NEW in \in Inputs, NEW p \in Priority, in.incoming[p] # None
  PROVE  Stored(in, p) \in StoredPackets
<1>1. in.incoming[p] \in 0 .. InCapacity /\ in.buffer[p] \in Rings(StoredPackets)
  BY DEF Inputs
<1>2. in.incoming[p] # Placeholder => in.incoming[p] \in Positions
  BY <1>1, CapacitiesAssumption DEF Placeholder, Positions
<1> QED BY <1>1, <1>2 DEF Stored, Inputs, Rings

LEMMA WithStoredIn ==
  ASSUME NEW in \in Inputs, NEW p \in Priority, in.incoming[p] # None, NEW s \in StoredPackets
  PROVE  /\ WithStored(in, p, s) \in Inputs
         /\ Stored(WithStored(in, p, s), p) = s
         /\ WithStored(in, p, s).state = in.state
         /\ WithStored(in, p, s).incoming = in.incoming
         /\ WithStored(in, p, s).offset = in.offset
<1>1. in.incoming[p] \in 0 .. InCapacity /\ in.buffer[p] \in Rings(StoredPackets)
  BY DEF Inputs
<1>2. CASE in.incoming[p] = Placeholder
  <2>1. WithStored(in, p, s) = [in EXCEPT !.placeholder = s]
    BY <1>2 DEF WithStored
  <2> QED BY <1>2, <2>1 DEF Inputs, Stored
<1>3. CASE in.incoming[p] # Placeholder
  <2>1. in.incoming[p] \in Positions
    BY <1>1, <1>3, CapacitiesAssumption DEF Placeholder, Positions
  <2> DEFINE ring == [in.buffer[p] EXCEPT !.values[in.incoming[p]] = s]
             buffer == [in.buffer EXCEPT ![p] = ring]
  <2>2. ring \in Rings(StoredPackets) /\ ring.values[in.incoming[p]] = s
    BY <1>1, <2>1 DEF Rings
  <2>3. WithStored(in, p, s) = [in EXCEPT !.buffer = buffer]
    BY <1>3 DEF WithStored, Inputs
  <2> HIDE DEF ring
  <2>4. buffer \in [Priority -> Rings(StoredPackets)] /\ buffer[p] = ring
    BY <2>2 DEF Inputs
  <2> HIDE DEF buffer
  <2> QED BY <1>3, <2>2, <2>3, <2>4 DEF Inputs, Stored
<1> QED BY <1>2, <1>3

\* A new packet's header.
LEMMA NewIncomingType ==
  ASSUME NEW in \in Inputs, NEW pkt \in Packets
  PROVE  /\ NewIncoming(in, pkt) \in Inputs
         /\ NewIncoming(in, pkt).state = "content"
         /\ NewIncoming(in, pkt).incoming[pkt.p] # None
<1> DEFINE p == pkt.p
           rb == in.buffer[p]
           regular == {i \in 0 .. rb.size - 1 : ~Ring!OldestValue(rb, i).pkt.requires_ack}
           least == CHOOSE i \in regular : \A j \in regular : i <= j
           room == IF Ring!IsFull(rb) /\ pkt.requires_ack /\ regular # {}
                   THEN Ring!Consumed(rb, least)
                   ELSE rb
           at == IF Ring!IsFull(room) THEN Placeholder ELSE Ring!NewSlot(room)
           placed == [in EXCEPT !.state = "content", !.buffer[p] = room,
                                !.incoming[p] = at, !.offset[p] = 0]
           s == [pkt |-> pkt, bad |-> 1 .. pkt.total + 1]
<1>1. NewIncoming(in, pkt) = WithStored(placed, p, s)
  BY DEF NewIncoming
<1>2. p \in Priority /\ pkt.total \in Nat
  BY DEF Packets, PacketType
<1>3. s \in StoredPackets
  BY <1>2 DEF StoredPackets
<1>4. rb \in Rings(StoredPackets)
  BY <1>2 DEF Inputs
<1>5. room \in Rings(StoredPackets)
  <2>1. ASSUME regular # {} PROVE least \in 0 .. rb.size - 1
    <3>1. regular \subseteq Nat /\ regular \subseteq 0 .. rb.size - 1
      BY <1>4 DEF Rings, Positions
    <3> HIDE DEF regular
    <3>2. \E i \in regular : \A j \in regular : i <= j
      BY <2>1, <3>1, LeastNatural
    <3> QED BY <3>1, <3>2
  <2> HIDE DEF regular, least, rb
  <2> QED BY <1>4, <2>1, RingConsumed
<1>6. at \in 0 .. InCapacity /\ at # None
  <2>1. Ring!NewSlot(room) \in Positions
    BY <1>5, RingNewSlot
  <2> HIDE DEF room
  <2> QED BY <2>1, CapacitiesAssumption DEF Positions, Placeholder, None
<1> HIDE DEF s, rb, room, at
<1>7. placed \in Inputs /\ placed.state = "content" /\ placed.incoming[p] = at
  <2> DEFINE buffer == [in.buffer EXCEPT ![p] = room]
             incoming == [in.incoming EXCEPT ![p] = at]
             offset == [in.offset EXCEPT ![p] = 0]
  <2>1. /\ buffer \in [Priority -> Rings(StoredPackets)]
        /\ incoming \in [Priority -> {None} \cup 0 .. InCapacity] /\ incoming[p] = at
        /\ offset \in [Priority -> Nat]
    BY <1>2, <1>5, <1>6 DEF Inputs
  <2>2. placed = [in EXCEPT !.state = "content", !.buffer = buffer, !.incoming = incoming,
                            !.offset = offset]
    BY DEF Inputs
  <2> HIDE DEF buffer, incoming, offset, placed
  <2> QED BY <2>1, <2>2 DEF Inputs
<1> HIDE DEF placed
<1> QED BY <1>1, <1>2, <1>3, <1>6, <1>7, WithStoredIn

\* The rest of a fragment. Only a packet that the last fragment belongs to adds up.
LEMMA AfterBodyType ==
  ASSUME NEW in \in Inputs, NEW f \in Fragments, in.incoming[f.pkt.p] # None
  PROVE  /\ AfterBody(in, f) \in Inputs
         /\ AfterBody(in, f).state = "header"
         /\ Stored(AfterBody(in, f), f.pkt.p) \in StoredPackets
         /\ f.footer /\ ChecksumOk(Stored(AfterBody(in, f), f.pkt.p)) =>
              /\ AsCommitted(f.pkt) = AsCommitted(Stored(AfterBody(in, f), f.pkt.p).pkt)
              /\ Id(f.pkt) = Id(Stored(AfterBody(in, f), f.pkt.p).pkt)
         /\ \E t \in StoredPackets :
              /\ t.pkt = Stored(in, f.pkt.p).pkt
              /\ AfterBody(in, f).buffer = WithStored(in, f.pkt.p, t).buffer
              /\ AfterBody(in, f).placeholder = WithStored(in, f.pkt.p, t).placeholder
              /\ AfterBody(in, f).incoming = in.incoming
<1> DEFINE p == f.pkt.p
           s == Stored(in, p)
           base == IF f.pkt.is_continuation THEN in.offset[p] ELSE 0
           span == base + 1 .. base + f.units + (IF f.footer THEN 1 ELSE 0)
           right == f.intact /\ AsCommitted(f.pkt) = AsCommitted(s.pkt)
           bad == (s.bad \ span) \cup (IF right THEN {} ELSE span)
           t == [s EXCEPT !.bad = bad]
           read == WithStored(in, p, t)
           last == IF f.footer THEN read.offset[p] ELSE base + f.units
<1>1. AfterBody(in, f) = [read EXCEPT !.state = "header", !.offset[p] = last]
  BY DEF AfterBody
<1>2. p \in Priority /\ f.units \in Nat /\ f.footer \in BOOLEAN
  BY DEF Fragments, Packets, PacketType
<1>3. s \in StoredPackets
  BY <1>2, StoredIn
<1>4. base \in Nat
  BY <1>2 DEF Inputs
<1> HIDE DEF s, base
<1>5. span \subseteq Nat /\ (f.footer => span # {})
  <2>1. base + f.units + (IF f.footer THEN 1 ELSE 0) \in Nat
    BY <1>2, <1>4
  <2>2. f.footer => base + 1 \in span
    BY <1>2, <1>4
  <2> QED BY <1>4, <2>1, <2>2
<1> HIDE DEF span
<1>6. bad \subseteq Nat /\ (f.footer /\ bad = {} => right)
  <2>1. s.bad \subseteq Nat
    BY <1>3 DEF StoredPackets
  <2> HIDE DEF right
  <2> QED BY <1>5, <2>1
<1> HIDE DEF bad
<1>7. t \in StoredPackets /\ t.pkt = s.pkt /\ t.bad = bad
  BY <1>3, <1>6 DEF StoredPackets
<1> HIDE DEF t
<1>8. read \in Inputs /\ Stored(read, p) = t /\ read.incoming = in.incoming
  BY <1>2, <1>7, WithStoredIn
<1>9. last \in Nat
  BY <1>2, <1>4, <1>8 DEF Inputs
<1> HIDE DEF read, last
<1>10. /\ AfterBody(in, f) \in Inputs /\ AfterBody(in, f).state = "header"
       /\ AfterBody(in, f).incoming = read.incoming /\ AfterBody(in, f).buffer = read.buffer
       /\ AfterBody(in, f).placeholder = read.placeholder
  <2> DEFINE offset == [read.offset EXCEPT ![p] = last]
  <2>1. offset \in [Priority -> Nat]
    BY <1>2, <1>8, <1>9 DEF Inputs
  <2>2. AfterBody(in, f) = [read EXCEPT !.state = "header", !.offset = offset]
    BY <1>1, <1>8 DEF Inputs
  <2> HIDE DEF offset
  <2> QED BY <1>8, <2>1, <2>2 DEF Inputs
<1>11. Stored(AfterBody(in, f), p) = t
  BY <1>8, <1>10 DEF Stored
<1>12. ASSUME f.footer, ChecksumOk(t)
       PROVE  AsCommitted(f.pkt) = AsCommitted(t.pkt) /\ Id(f.pkt) = Id(t.pkt)
  <2>1. AsCommitted(f.pkt) = AsCommitted(t.pkt)
    BY <1>6, <1>7, <1>12 DEF ChecksumOk
  <2>2. f.pkt \in Packets /\ t.pkt \in Packets
    BY <1>7 DEF Fragments, StoredPackets
  <2>3. PICK c : c = AsCommitted(f.pkt) /\ c = AsCommitted(t.pkt)
    BY <2>1
  <2>4. c.from = f.pkt.from /\ c.start = f.pkt.start /\ c.p = f.pkt.p /\ c.seq = f.pkt.seq
    BY <2>2, <2>3, CommittedPacket
  <2>5. c.from = t.pkt.from /\ c.start = t.pkt.start /\ c.p = t.pkt.p /\ c.seq = t.pkt.seq
    BY <2>2, <2>3, CommittedPacket
  <2> QED BY <2>1, <2>4, <2>5 DEF Id
<1>13. \E u \in StoredPackets :
         /\ u.pkt = Stored(in, p).pkt
         /\ AfterBody(in, f).buffer = WithStored(in, p, u).buffer
         /\ AfterBody(in, f).placeholder = WithStored(in, p, u).placeholder
         /\ AfterBody(in, f).incoming = in.incoming
  BY <1>7, <1>8, <1>10 DEF read, s
<1> QED BY <1>7, <1>10, <1>11, <1>12, <1>13

\* A packet becomes readable, or is taken.
LEMMA CommittedInput ==
  ASSUME NEW in \in Inputs, NEW p \in Priority
  PROVE  /\ [in EXCEPT !.buffer[p] = Ring!Committed(@)] \in Inputs
         /\ [in EXCEPT !.buffer[p] = Ring!Committed(@)].state = in.state
<1> DEFINE ring == Ring!Committed(in.buffer[p])
           buffer == [in.buffer EXCEPT ![p] = ring]
<1>1. ring \in Rings(StoredPackets)
  BY RingCommitted DEF Inputs
<1>2. [in EXCEPT !.buffer[p] = Ring!Committed(@)] = [in EXCEPT !.buffer = buffer]
  BY DEF Inputs
<1> HIDE DEF ring
<1>3. buffer \in [Priority -> Rings(StoredPackets)]
  BY <1>1 DEF Inputs
<1> HIDE DEF buffer
<1> QED BY <1>2, <1>3 DEF Inputs

LEMMA ConsumedInput ==
  ASSUME NEW in \in Inputs, NEW p \in Priority, in.buffer[p].size > 0
  PROVE  /\ [in EXCEPT !.buffer[p] = Ring!Consumed(@, 0)] \in Inputs
         /\ [in EXCEPT !.buffer[p] = Ring!Consumed(@, 0)].state = in.state
         /\ [in EXCEPT !.buffer[p] = Ring!Consumed(@, 0)].incoming = in.incoming
<1> DEFINE ring == Ring!Consumed(in.buffer[p], 0)
           buffer == [in.buffer EXCEPT ![p] = ring]
<1>0. 0 \in 0 .. in.buffer[p].size - 1 /\ in.buffer[p] \in Rings(StoredPackets)
  BY DEF Inputs, Rings, Positions
<1>1. ring \in Rings(StoredPackets)
  BY <1>0, RingConsumed
<1>2. [in EXCEPT !.buffer[p] = Ring!Consumed(@, 0)] = [in EXCEPT !.buffer = buffer]
  BY DEF Inputs
<1> HIDE DEF ring
<1>3. buffer \in [Priority -> Rings(StoredPackets)]
  BY <1>1 DEF Inputs
<1> HIDE DEF buffer
<1> QED BY <1>2, <1>3 DEF Inputs

-----------------------------------------------------------------------------
(* The output queues of an end in its n-th start. *)

LEMMA PacketsOfAreSome == \A n, p : Seq(PacketsOf(n, p)) \subseteq Seq(Packets)
BY DEF PacketsOf

\* Queues that differ at one priority.
LEMMA QueueChanged ==
  ASSUME NEW e, NEW n, NEW q \in QueuesOf(e, n), NEW p \in Priority,
         NEW s \in Seq(PacketsOf(n, p)), Len(s) < OutCapacity[e]
  PROVE  [q EXCEPT ![p] = s] \in QueuesOf(e, n)
<1>1. s \in Seq(Packets)
  BY PacketsOfAreSome
<1>2. [q EXCEPT ![p] = s] \in [Priority -> Seq(Packets)]
  BY <1>1 DEF QueuesOf
<1> QED BY <1>2 DEF QueuesOf

LEMMA QueueAdded ==
  ASSUME NEW e \in Ends, NEW n, NEW q \in QueuesOf(e, n), NEW p \in Priority,
         NEW pkt \in PacketsOf(n, p), ~(Len(q[p]) >= OutCapacity[e] - 1)
  PROVE  /\ [q EXCEPT ![p] = Append(@, pkt)] \in QueuesOf(e, n)
         /\ \A r \in Priority : q[r] # << >> => [q EXCEPT ![p] = Append(@, pkt)][r] # << >>
<1>1. q[p] \in Seq(PacketsOf(n, p)) /\ Len(q[p]) \in Nat
  BY DEF QueuesOf
<1>2. /\ Append(q[p], pkt) \in Seq(PacketsOf(n, p)) /\ Append(q[p], pkt) # << >>
      /\ Len(Append(q[p], pkt)) = Len(q[p]) + 1
  BY <1>1, AppendProperties
<1>3. Len(Append(q[p], pkt)) < OutCapacity[e]
  BY <1>1, <1>2, CapacitiesAssumption
<1>4. [q EXCEPT ![p] = Append(@, pkt)] \in QueuesOf(e, n)
  BY <1>2, <1>3, QueueChanged
<1> QED BY <1>2, <1>4 DEF QueuesOf

LEMMA QueueTaken ==
  ASSUME NEW e \in Ends, NEW n, NEW q \in QueuesOf(e, n), NEW p \in Priority, q[p] # << >>
  PROVE  [q EXCEPT ![p] = Tail(@)] \in QueuesOf(e, n)
<1>1. q[p] \in Seq(PacketsOf(n, p)) /\ Len(q[p]) \in Nat /\ Len(q[p]) < OutCapacity[e]
  BY DEF QueuesOf
<1>2. Tail(q[p]) \in Seq(PacketsOf(n, p)) /\ Len(Tail(q[p])) = Len(q[p]) - 1
  BY <1>1, HeadTailProperties
<1>3. Len(Tail(q[p])) < OutCapacity[e]
  BY <1>1, <1>2, CapacitiesAssumption
<1> QED BY <1>2, <1>3, QueueChanged

LEMMA QueueDropped ==
  ASSUME NEW e \in Ends, NEW n, NEW q \in QueuesOf(e, n), NEW p \in Priority
  PROVE  [q EXCEPT ![p] = DropHead(@)] \in QueuesOf(e, n)
<1>1. CASE q[p] = << >>
  <2>1. [q EXCEPT ![p] = DropHead(@)] = q
    BY <1>1 DEF DropHead, QueuesOf
  <2> QED BY <2>1
<1>2. CASE q[p] # << >>
  BY <1>2, QueueTaken DEF DropHead
<1> QED BY <1>1, <1>2

\* The first packet of a queue becomes a continuation, or whole again.
LEMMA HeadContinued ==
  ASSUME NEW n, NEW p, NEW s \in Seq(PacketsOf(n, p)), s # << >>, NEW c \in BOOLEAN, NEW length \in Nat
  PROVE  /\ [s EXCEPT ![1].is_continuation = c, ![1].length = length] \in Seq(PacketsOf(n, p))
         /\ Len([s EXCEPT ![1].is_continuation = c, ![1].length = length]) = Len(s)
<1> DEFINE pkt == [s[1] EXCEPT !.is_continuation = c, !.length = length]
           t == [s EXCEPT ![1] = pkt]
<1>1. 1 \in 1 .. Len(s) /\ s[1] \in PacketsOf(n, p)
  BY LenProperties, EmptySeq
<1>2. pkt \in PacketsOf(n, p)
  BY <1>1, Continued
<1>3. [s EXCEPT ![1].is_continuation = c, ![1].length = length] = t
  <2>1. \A k \in 1 .. Len(s) : [s EXCEPT ![1].is_continuation = c, ![1].length = length][k] = t[k]
    BY <1>1
  <2> QED BY <1>1
<1> HIDE DEF pkt
<1>4. t \in Seq(PacketsOf(n, p)) /\ Len(t) = Len(s)
  BY <1>1, <1>2, ExceptSeq
<1> QED BY <1>3, <1>4

LEMMA ResetQueues ==
  ASSUME NEW e \in Ends, NEW n, NEW q \in QueuesOf(e, n), NEW pkt
  PROVE  ResetOutputSession(q, pkt) \in QueuesOf(e, n)
<1> DEFINE Whole(s) == IF s = << >> THEN s
                       ELSE [s EXCEPT ![1].is_continuation = FALSE, ![1].length = s[1].total]
           new(p) == Whole(Selected(q[p], StillValid(q[p], pkt)))
<1>1. ASSUME NEW p \in Priority
      PROVE  new(p) \in Seq(PacketsOf(n, p)) /\ Len(new(p)) < OutCapacity[e]
  <2> DEFINE s == Selected(q[p], StillValid(q[p], pkt))
  <2>1. q[p] \in Seq(PacketsOf(n, p)) /\ Len(q[p]) < OutCapacity[e] /\ Len(q[p]) \in Nat
    BY DEF QueuesOf
  <2>2. s \in Seq(PacketsOf(n, p)) /\ Len(s) <= Len(q[p])
    BY <2>1, SelectedQueue
  <2>3. Len(s) \in Nat /\ Len(s) < OutCapacity[e]
    BY <2>1, <2>2, CapacitiesAssumption
  <2> HIDE DEF s
  <2>4. CASE s = << >>
    BY <2>2, <2>3, <2>4 DEF s
  <2>5. CASE s # << >>
    <3>1. s[1] \in PacketsOf(n, p)
      BY <2>2, <2>5
    <3>2. PICK length \in Nat : length = s[1].total
      <4>1. s[1].total \in Nat
        BY <3>1 DEF PacketsOf, Packets, PacketType
      <4> QED BY <4>1
    <3>3. /\ [s EXCEPT ![1].is_continuation = FALSE, ![1].length = length] \in Seq(PacketsOf(n, p))
          /\ Len([s EXCEPT ![1].is_continuation = FALSE, ![1].length = length]) = Len(s)
      <4>1. \A c \in BOOLEAN :
              /\ [s EXCEPT ![1].is_continuation = c, ![1].length = length] \in Seq(PacketsOf(n, p))
              /\ Len([s EXCEPT ![1].is_continuation = c, ![1].length = length]) = Len(s)
        BY <2>2, <2>5, <3>2, HeadContinued
      <4> QED BY <4>1
    <3> QED BY <2>3, <2>5, <3>2, <3>3 DEF s
  <2> QED BY <2>4, <2>5
<1>2. ResetOutputSession(q, pkt) = [p \in Priority |-> new(p)]
  BY DEF ResetOutputSession
<1> HIDE DEF new
<1>3. \A p \in Priority : new(p) \in Seq(Packets)
  BY <1>1, PacketsOfAreSome
<1> QED BY <1>1, <1>2, <1>3 DEF QueuesOf

LEMMA HandshakeQueues ==
  ASSUME NEW e \in Ends, NEW n \in Nat
  PROVE  Queues(InitPacket(e, n)) \in QueuesOf(e, n)
<1>1. InitPacket(e, n) \in PacketsOf(n, kHigh)
  BY HandshakePacket
<1> DEFINE s(p) == IF p = kHigh THEN <<InitPacket(e, n)>> ELSE << >>
<1>2. ASSUME NEW p \in Priority PROVE s(p) \in Seq(PacketsOf(n, p)) /\ Len(s(p)) < OutCapacity[e]
  <2>1. OutCapacity[e] \in Nat /\ OutCapacity[e] > 1
    BY CapacitiesAssumption
  <2>2. CASE p = kHigh
    <3>1. s(p) \in Seq(PacketsOf(n, p)) /\ Len(s(p)) = 1
      BY <1>1, <2>2
    <3> QED BY <2>1, <3>1
  <2>3. CASE p # kHigh
    <3>1. s(p) \in Seq(PacketsOf(n, p)) /\ Len(s(p)) = 0
      BY <2>3
    <3> QED BY <2>1, <3>1
  <2> QED BY <2>2, <2>3
<1>3. Queues(InitPacket(e, n)) = [p \in Priority |-> s(p)]
  BY DEF Queues
<1> HIDE DEF s
<1>4. \A p \in Priority : s(p) \in Seq(Packets)
  BY <1>2, PacketsOfAreSome
<1> QED BY <1>2, <1>3, <1>4 DEF QueuesOf

-----------------------------------------------------------------------------
(* The wire from an end in its n-th start.                                   *)

LEMMA FragmentType ==
  ASSUME NEW pkt \in Packets, NEW units \in Nat, NEW footer \in BOOLEAN
  PROVE  Fragment(pkt, units, footer) \in Fragments /\ Fragment(pkt, units, footer).pkt = pkt
BY DEF Fragment, Fragments

LEMMA WireAdded ==
  ASSUME NEW w \in Seq(Fragments), NEW n \in Nat, Ordered(w, n), NEW f \in Fragments, f.pkt.start = n
  PROVE  /\ Append(w, f) \in Seq(Fragments) /\ Ordered(Append(w, f), n) /\ Append(w, f) # << >>
         /\ w # << >> => Head(Append(w, f)) = Head(w)
         /\ \A id \in Int : NotBefore(w, id) /\ id <= HandshakeId(n) => NotBefore(Append(w, f), id)
<1>1. /\ Append(w, f) \in Seq(Fragments) /\ Append(w, f) # << >>
      /\ Len(w) \in Nat /\ Len(Append(w, f)) = Len(w) + 1
      /\ \A k \in 1 .. Len(w) : Append(w, f)[k] = w[k]
      /\ Append(w, f)[Len(w) + 1] = f
      /\ \A k \in 1 .. Len(w) + 1 : k \in 1 .. Len(w) \/ k = Len(w) + 1
  BY AppendProperties
<1>2. w # << >> => Head(Append(w, f)) = Head(w)
  BY <1>1
<1> DEFINE v == Append(w, f)
           last == Len(w) + 1
<1>3. ASSUME NEW k \in 1 .. Len(v)
      PROVE  (k \in 1 .. Len(w) /\ v[k] = w[k]) \/ (k = last /\ v[k] = f)
  BY <1>1
<1>4. \A k \in 1 .. Len(v) : v[k].pkt.start <= n
  BY <1>3 DEF Ordered
<1>5. ASSUME NEW j \in 1 .. Len(v), NEW k \in 1 .. Len(v), j <= k
      PROVE  v[j].pkt.start <= v[k].pkt.start
  <2>1. CASE k \in 1 .. Len(w)
    <3>1. j \in 1 .. Len(w) /\ v[j] = w[j] /\ v[k] = w[k]
      BY <1>1, <1>5, <2>1
    <3> QED BY <1>5, <2>1, <3>1 DEF Ordered
  <2>2. CASE v[k] = f
    BY <1>4, <2>2
  <2> QED BY <1>3, <2>1, <2>2
<1>6. Ordered(v, n)
  BY <1>4, <1>5 DEF Ordered
<1>7. ASSUME NEW id \in Int, NotBefore(w, id), id <= HandshakeId(n) PROVE NotBefore(v, id)
  <2> HIDE DEF v, last
  <2> QED BY <1>3, <1>7 DEF NotBefore
<1> QED BY <1>1, <1>2, <1>6, <1>7

LEMMA WireTaken ==
  ASSUME NEW w \in Seq(Fragments), NEW n \in Nat, Ordered(w, n), w # << >>
  PROVE  /\ Tail(w) \in Seq(Fragments) /\ Ordered(Tail(w), n) /\ Head(w) \in Fragments
         /\ \A id \in Int : NotBefore(w, id) => /\ NotBefore(Tail(w), id)
                                                /\ id <= HandshakeId(Head(w).pkt.start)
         /\ NotBefore(Tail(w), HandshakeId(Head(w).pkt.start))
         /\ Head(w).pkt.start <= n
<1>1. /\ Tail(w) \in Seq(Fragments) /\ Len(Tail(w)) = Len(w) - 1 /\ Len(w) \in Nat
      /\ \A k \in 1 .. Len(Tail(w)) : Tail(w)[k] = w[k + 1]
      /\ Head(w) = w[1] /\ 1 \in 1 .. Len(w) /\ w[1] \in Fragments
  BY HeadTailProperties, LenProperties
<1>2. \A k \in 1 .. Len(Tail(w)) : k + 1 \in 1 .. Len(w)
  BY <1>1
<1>3. ASSUME NEW j \in 1 .. Len(Tail(w)), NEW k \in 1 .. Len(Tail(w)), j <= k
      PROVE  Tail(w)[j].pkt.start <= Tail(w)[k].pkt.start
  <2>1. j + 1 <= k + 1
    BY <1>3
  <2> QED BY <1>1, <1>2, <2>1 DEF Ordered
<1>4. Ordered(Tail(w), n)
  BY <1>1, <1>2, <1>3 DEF Ordered
<1>5. \A id \in Int : NotBefore(w, id) => NotBefore(Tail(w), id) /\ id <= HandshakeId(Head(w).pkt.start)
  BY <1>1, <1>2 DEF NotBefore
<1>6. NotBefore(Tail(w), HandshakeId(Head(w).pkt.start))
  <2> SUFFICES ASSUME NEW k \in 1 .. Len(Tail(w))
               PROVE  HandshakeId(Head(w).pkt.start) <= HandshakeId(Tail(w)[k].pkt.start)
    BY DEF NotBefore
  <2>1. k + 1 \in 1 .. Len(w) /\ 1 <= k + 1
    BY <1>2
  <2>2. w[1].pkt.start <= w[k + 1].pkt.start
    BY <1>1, <2>1 DEF Ordered
  <2>3. w[1].pkt.start \in Nat /\ w[k + 1].pkt.start \in Nat
    <3>1. w[1] \in Fragments /\ w[k + 1] \in Fragments
      BY <1>1, <2>1
    <3> QED BY <3>1 DEF Fragments, Packets, PacketType
  <2> QED BY <1>1, <2>2, <2>3, BoundsAssumption DEF HandshakeId
<1> QED BY <1>1, <1>4, <1>5, <1>6 DEF Ordered

\* Damage to the first fragment changes nothing of its header.
LEMMA WireDamaged ==
  ASSUME NEW w \in Seq(Fragments), NEW n \in Nat, Ordered(w, n), w # << >>
  PROVE  /\ [w EXCEPT ![1].intact = FALSE] \in Seq(Fragments)
         /\ Ordered([w EXCEPT ![1].intact = FALSE], n) /\ [w EXCEPT ![1].intact = FALSE] # << >>
         /\ Head([w EXCEPT ![1].intact = FALSE]).pkt = Head(w).pkt
         /\ \A id \in Int : NotBefore(w, id) => NotBefore([w EXCEPT ![1].intact = FALSE], id)
<1> DEFINE f == [w[1] EXCEPT !.intact = FALSE]
           v == [w EXCEPT ![1] = f]
<1>1. 1 \in 1 .. Len(w) /\ w[1] \in Fragments /\ Head(w) = w[1]
  BY LenProperties, EmptySeq, HeadTailProperties
<1>2. f \in Fragments /\ f.pkt = w[1].pkt
  BY <1>1 DEF Fragments
<1>3. [w EXCEPT ![1].intact = FALSE] = v
  OBVIOUS
<1> HIDE DEF f
<1>4. v \in Seq(Fragments) /\ Len(v) = Len(w) /\ \A k \in 1 .. Len(w) : v[k] = IF k = 1 THEN f ELSE w[k]
  BY <1>1, <1>2, ExceptSeq
<1> HIDE DEF v
<1>5. \A k \in 1 .. Len(w) : v[k].pkt = w[k].pkt
  BY <1>2, <1>4
<1>6. v # << >> /\ Head(v) = v[1]
  BY <1>1, <1>4, HeadTailProperties, LenProperties
<1>7. Ordered(v, n) /\ \A id \in Int : NotBefore(w, id) => NotBefore(v, id)
  BY <1>4, <1>5 DEF Ordered, NotBefore
<1> QED BY <1>1, <1>3, <1>4, <1>5, <1>6, <1>7

-----------------------------------------------------------------------------
(* The inductive invariant. *)

LEMMA WireFacts ==
  ASSUME IInv, NEW e \in Ends
  PROVE  /\ wire[e] \in Seq(Fragments) /\ Ordered(wire[e], start[e]) /\ start[e] \in Nat
         /\ HandshakeId(start[e]) \in Nat /\ lastInit[e] \in Int
         /\ input[e] \in Inputs /\ notified[e] \in Seq(Nat)
<1>1. start[e] \in Nat
  BY DEF IInv, StartInv
<1>2. HandshakeId(start[e]) \in Nat
  BY <1>1, BoundsAssumption DEF HandshakeId
<1>3. lastInit[e] \in Int
  BY DEF IInv, LinkInv, None
<1> QED BY <1>1, <1>2, <1>3 DEF IInv, LinkInv

\* A step that sends a fragment.
LEMMA LinkAdded ==
  ASSUME IInv, NEW e \in Ends, NEW f \in Fragments, f.pkt.start = start[e],
         wire' = [wire EXCEPT ![e] = Append(@, f)], UNCHANGED <<start, input, lastInit, notified>>
  PROVE  LinkInv'
<1>1. /\ Append(wire[e], f) \in Seq(Fragments) /\ Ordered(Append(wire[e], f), start[e])
      /\ Append(wire[e], f) # << >>
      /\ wire[e] # << >> => Head(Append(wire[e], f)) = Head(wire[e])
      /\ \A id \in Int : NotBefore(wire[e], id) /\ id <= HandshakeId(start[e])
           => NotBefore(Append(wire[e], f), id)
  BY WireFacts, WireAdded
<1>2. /\ wire'[e] = Append(wire[e], f) /\ \A d \in Ends : d # e => wire'[d] = wire[d]
      /\ wire' \in [Ends -> Seq(Fragments)]
  BY <1>1 DEF IInv, LinkInv
<1>3. ASSUME NEW d \in Ends PROVE Ordered(wire'[d], start'[d])
  BY <1>1, <1>2 DEF IInv, LinkInv
<1>4. ASSUME NEW d \in Ends PROVE Reading(d)'
  <2>1. Other(d) \in Ends /\ Reading(d)
    BY OtherEnd DEF IInv, LinkInv
  <2>2. CASE Other(d) = e
    BY <1>1, <1>2, <2>1, <2>2 DEF Reading
  <2>3. CASE Other(d) # e
    BY <1>2, <2>1, <2>3 DEF Reading
  <2> QED BY <2>2, <2>3
<1>5. ASSUME NEW d \in Ends PROVE Heard(d)'
  <2>1. Other(d) \in Ends /\ Heard(d) /\ lastInit[d] \in Int
    BY OtherEnd, WireFacts DEF IInv, LinkInv
  <2>2. NotBefore(wire'[Other(d)], lastInit[d])
    BY <1>1, <1>2, <2>1 DEF Heard
  <2> QED BY <2>1, <2>2 DEF Heard
<1> QED BY <1>2, <1>3, <1>4, <1>5 DEF IInv, LinkInv

\* A step that takes one, whatever becomes of the receiver's input; it is not
\* reading another then.
LEMMA FragmentTaken ==
  ASSUME IInv, NEW e \in Ends, wire[e] # << >>,
         wire' = [wire EXCEPT ![e] = Tail(@)],
         input'[e] = input[e], input'[Other(e)].state = "header", UNCHANGED start
  PROVE  /\ wire' \in [Ends -> Seq(Fragments)]
         /\ \A d \in Ends : Ordered(wire'[d], start'[d]) /\ Reading(d)'
         /\ \A d \in Ends, id \in Int : NotBefore(wire[d], id) => NotBefore(wire'[d], id)
<1>1. /\ Tail(wire[e]) \in Seq(Fragments) /\ Ordered(Tail(wire[e]), start[e])
      /\ \A id \in Int : NotBefore(wire[e], id) => NotBefore(Tail(wire[e]), id)
  BY WireFacts, WireTaken
<1>2. /\ wire'[e] = Tail(wire[e]) /\ \A d \in Ends : d # e => wire'[d] = wire[d]
      /\ wire' \in [Ends -> Seq(Fragments)]
  BY <1>1 DEF IInv, LinkInv
<1>3. ASSUME NEW d \in Ends PROVE Ordered(wire'[d], start'[d])
  BY <1>1, <1>2 DEF IInv, LinkInv
<1>4. ASSUME NEW d \in Ends PROVE Reading(d)'
  <2>1. d = Other(e) \/ (d = e /\ Other(d) # e /\ Other(d) \in Ends)
    BY OtherEnd
  <2>2. CASE d = Other(e)
    BY <2>2 DEF Reading
  <2>3. CASE d = e /\ Other(d) # e /\ Other(d) \in Ends
    <3>1. Reading(d)
      BY DEF IInv, LinkInv
    <3> QED BY <1>2, <2>3, <3>1 DEF Reading
  <2> QED BY <2>1, <2>2, <2>3
<1>5. ASSUME NEW d \in Ends, NEW id \in Int, NotBefore(wire[d], id) PROVE NotBefore(wire'[d], id)
  BY <1>1, <1>2, <1>5
<1> QED BY <1>2, <1>3, <1>4, <1>5

LEMMA LinkTaken ==
  ASSUME IInv, NEW e \in Ends, wire[e] # << >>,
         wire' = [wire EXCEPT ![e] = Tail(@)],
         input' \in [Ends -> Inputs], input'[e] = input[e], input'[Other(e)].state = "header",
         UNCHANGED <<start, lastInit, notified>>
  PROVE  LinkInv'
<1>1. /\ wire' \in [Ends -> Seq(Fragments)]
      /\ \A d \in Ends : Ordered(wire'[d], start'[d]) /\ Reading(d)'
      /\ \A d \in Ends, id \in Int : NotBefore(wire[d], id) => NotBefore(wire'[d], id)
  BY FragmentTaken
<1>2. ASSUME NEW d \in Ends PROVE Heard(d)'
  <2>1. Other(d) \in Ends /\ Heard(d) /\ lastInit[d] \in Int
    BY OtherEnd, WireFacts DEF IInv, LinkInv
  <2>2. NotBefore(wire'[Other(d)], lastInit[d])
    BY <1>1, <2>1 DEF Heard
  <2> QED BY <2>1, <2>2 DEF Heard
<1> QED BY <1>1, <1>2 DEF IInv, LinkInv

\* The same when the fragment completes a handshake request: its id is not
\* behind what the receiver knew, and nothing on its way is behind it.
LEMMA LinkHandshake ==
  ASSUME IInv, NEW e \in Ends, NEW o \in Ends, o = Other(e), wire[o] # << >>,
         wire' = [wire EXCEPT ![o] = Tail(@)],
         input' \in [Ends -> Inputs], input'[o] = input[o], input'[e].state = "header",
         NEW id \in Nat, id = HandshakeId(Head(wire[o]).pkt.start),
         lastInit' = [lastInit EXCEPT ![e] = id],
         notified' = IF id # lastInit[e] THEN [notified EXCEPT ![e] = Append(@, id)] ELSE notified,
         UNCHANGED start
  PROVE  LinkInv'
<1>1. Other(o) = e /\ o # e /\ \A d \in Ends : d # e => d = o
  BY OtherEnd
<1>2. /\ wire' \in [Ends -> Seq(Fragments)]
      /\ \A d \in Ends : Ordered(wire'[d], start'[d]) /\ Reading(d)'
      /\ \A d \in Ends, i \in Int : NotBefore(wire[d], i) => NotBefore(wire'[d], i)
  BY <1>1, FragmentTaken
<1>3. /\ Heard(e) /\ Heard(o) /\ lastInit[e] \in Int /\ lastInit[o] \in Int /\ start[o] \in Nat
      /\ notified[e] \in Seq(Nat)
  BY WireFacts DEF IInv, LinkInv
<1>4. lastInit[e] <= id /\ id <= HandshakeId(start[o]) /\ NotBefore(wire'[o], id)
  <2>1. /\ \A i \in Int : NotBefore(wire[o], i) => i <= HandshakeId(Head(wire[o]).pkt.start)
        /\ NotBefore(Tail(wire[o]), HandshakeId(Head(wire[o]).pkt.start))
        /\ Head(wire[o]).pkt.start <= start[o]
        /\ Head(wire[o]) \in Fragments
    BY WireFacts, WireTaken
  <2>2. PICK n \in Nat : n = Head(wire[o]).pkt.start
    <3>1. Head(wire[o]).pkt.start \in Nat
      BY <2>1 DEF Fragments, Packets, PacketType
    <3> QED BY <3>1
  <2>3. HandshakeId(n) <= HandshakeId(start[o])
    BY <1>3, <2>1, <2>2, BoundsAssumption DEF HandshakeId
  <2>4. wire'[o] = Tail(wire[o])
    BY DEF IInv, LinkInv
  <2> QED BY <1>3, <2>1, <2>2, <2>3, <2>4 DEF Heard
<1>5. /\ lastInit' \in [Ends -> Nat \cup {None}] /\ lastInit'[e] = id
      /\ \A d \in Ends : d # e => lastInit'[d] = lastInit[d]
  BY DEF IInv, LinkInv
<1>6. /\ Append(notified[e], id) \in Seq(Nat) /\ Len(Append(notified[e], id)) = Len(notified[e]) + 1
      /\ \A k \in 1 .. Len(notified[e]) : Append(notified[e], id)[k] = notified[e][k]
      /\ Append(notified[e], id)[Len(notified[e]) + 1] = id
  BY <1>3, AppendProperties
<1>7. /\ notified' \in [Ends -> Seq(Nat)]
      /\ notified'[e] = IF id # lastInit[e] THEN Append(notified[e], id) ELSE notified[e]
      /\ \A d \in Ends : d # e => notified'[d] = notified[d]
  BY <1>6 DEF IInv, LinkInv
<1>8. Heard(e)'
  <2>1. /\ \A k \in DOMAIN notified'[e] : notified'[e][k] <= id
        /\ \A j, k \in DOMAIN notified'[e] : j < k => notified'[e][j] < notified'[e][k]
    <3>1. CASE id = lastInit[e]
      BY <1>3, <1>7, <3>1 DEF Heard
    <3>2. CASE id # lastInit[e]
      <4> DEFINE was == notified[e]
                 now == Append(notified[e], id)
                 last == Len(notified[e]) + 1
      <4>1. DOMAIN was = 1 .. Len(was) /\ DOMAIN now = 1 .. last /\ Len(was) \in Nat
        BY <1>3, <1>6
      <4>2. \A k \in 1 .. Len(was) : was[k] <= lastInit[e] /\ was[k] \in Nat
        BY <1>3, <4>1 DEF Heard
      <4>3. \A k \in 1 .. Len(was) : was[k] < id
        <5>1. lastInit[e] < id
          BY <1>3, <1>4, <3>2
        <5> QED BY <1>3, <4>2, <5>1
      <4>4. \A k \in 1 .. last : (k \in 1 .. Len(was) /\ now[k] = was[k]) \/ (k = last /\ now[k] = id)
        <5>1. PICK n \in Nat : n = Len(was)
          BY <4>1
        <5>2. \A k \in 1 .. n + 1 : k \in 1 .. n \/ k = n + 1
          OBVIOUS
        <5>3. last = n + 1 /\ now[n + 1] = id /\ \A k \in 1 .. n : now[k] = was[k]
          BY <1>6, <5>1
        <5> HIDE DEF was, now, last
        <5> QED BY <5>1, <5>2, <5>3
      <4>5. \A j, k \in 1 .. Len(was) : j < k => was[j] < was[k]
        BY <1>3, <4>1 DEF Heard
      <4> HIDE DEF was, now
      <4>6. \A k \in 1 .. last : now[k] <= id
        BY <4>2, <4>3, <4>4
      <4>7. ASSUME NEW j \in 1 .. last, NEW k \in 1 .. last, j < k PROVE now[j] < now[k]
        <5>1. j \in 1 .. Len(was) /\ now[j] = was[j]
          BY <4>1, <4>4, <4>7 DEF was
        <5> QED BY <4>3, <4>4, <4>5, <4>7, <5>1
      <4> QED BY <1>7, <3>2, <4>1, <4>6, <4>7 DEF now
    <3> QED BY <3>1, <3>2
  <2>2. lastInit'[e] <= HandshakeId(start'[Other(e)]) /\ NotBefore(wire'[Other(e)], lastInit'[e])
    BY <1>4, <1>5
  <2> QED BY <1>5, <2>1, <2>2 DEF Heard
<1>9. Heard(o)'
  <2>1. NotBefore(wire'[Other(o)], lastInit[o])
    BY <1>1, <1>2, <1>3 DEF Heard
  <2> QED BY <1>1, <1>3, <1>5, <1>7, <2>1 DEF Heard
<1> QED BY <1>1, <1>2, <1>5, <1>7, <1>8, <1>9 DEF IInv, LinkInv

\* A step that changes the input of e only, which has a place for what it reads.
LEMMA LinkRead ==
  ASSUME IInv, NEW e \in Ends, input' \in [Ends -> Inputs],
         \A d \in Ends : d # e => input'[d] = input[d],
         Reading(e)',
         UNCHANGED <<wire, start, lastInit, notified>>
  PROVE  LinkInv'
<1>1. ASSUME NEW d \in Ends PROVE Reading(d)'
  BY DEF IInv, LinkInv, Reading
<1>2. ASSUME NEW d \in Ends PROVE Heard(d)' /\ Ordered(wire[d], start[d])'
  BY DEF IInv, LinkInv, Heard
<1> QED BY <1>1, <1>2 DEF IInv, LinkInv

LEMMA LinkKept ==
  ASSUME IInv, UNCHANGED <<wire, input, start, lastInit, notified>>
  PROVE  LinkInv'
BY DEF IInv, LinkInv, Reading, Heard

-----------------------------------------------------------------------------
(* Steps of the output stream. *)

LEMMA QueueFacts ==
  ASSUME IInv, NEW e \in Ends
  PROVE  /\ out[e] \in QueuesOf(e, start[e]) /\ tx[e] \in Transmitters /\ start[e] \in Nat
         /\ tx[e].pkt \in Packets /\ tx[e].pkt.p \in Priority
         /\ \A p \in Priority : out[e][p] \in Seq(PacketsOf(start[e], p))
<1>1. out[e] \in QueuesOf(e, start[e]) /\ tx[e] \in Transmitters /\ start[e] \in Nat
  BY DEF IInv, OutputInv, Sending, StartInv
<1>2. tx[e].pkt \in Packets
  BY <1>1 DEF Transmitters
<1> QED BY <1>1, <1>2 DEF QueuesOf, Packets, PacketType

\* A step of one end's output.
LEMMA OutputStep ==
  ASSUME IInv, NEW e \in Ends, NEW q \in QueuesOf(e, start[e]), NEW x \in Transmitters,
         x.state = "burst" => x.pkt.start = start[e], x.live => q[x.pkt.p] # << >>,
         out' = [out EXCEPT ![e] = q], tx' = [tx EXCEPT ![e] = x], UNCHANGED start
  PROVE  OutputInv'
<1>1. q \in [Priority -> Seq(Packets)]
  BY DEF QueuesOf
<1>2. out' \in [Ends -> [Priority -> Seq(Packets)]] /\ tx' \in [Ends -> Transmitters]
  BY <1>1 DEF IInv, OutputInv
<1>3. ASSUME NEW d \in Ends PROVE Sending(d)'
  <2>1. CASE d = e
    <3>1. out'[d] = q /\ tx'[d] = x /\ start'[d] = start[e]
      BY <2>1 DEF IInv, OutputInv
    <3> QED BY <2>1, <3>1 DEF Sending
  <2>2. CASE d # e
    <3>1. out'[d] = out[d] /\ tx'[d] = tx[d] /\ start'[d] = start[d] /\ Sending(d)
      BY <2>2 DEF IInv, OutputInv
    <3> QED BY <3>1 DEF Sending
  <2> QED BY <2>1, <2>2
<1> QED BY <1>2, <1>3 DEF OutputInv

LEMMA OutputKept ==
  ASSUME IInv, UNCHANGED <<out, tx, start>>
  PROVE  OutputInv'
BY DEF IInv, OutputInv, Sending

LEMMA Unchanging ==
  ASSUME IInv, NEW e \in Ends
  PROVE  out = [out EXCEPT ![e] = out[e]] /\ tx = [tx EXCEPT ![e] = tx[e]]
BY DEF IInv, OutputInv

LEMMA IdleType == IdleTx \in Transmitters /\ IdleTx.state = "next" /\ IdleTx.live = FALSE
BY BlankPacket DEF IdleTx, Transmitters, PacketsOf

LEMMA CommitStep ==
  ASSUME IInv, NEW t \in Traffic, Commit(t)
  PROVE  IInv'
<1> DEFINE e == t.from
           n == start[e]
           p == t.p
<1>1. e \in Ends /\ p \in Priority /\ p # 0 /\ t.requires_ack \in BOOLEAN /\ t.total \in Nat
  BY TrafficAssumption DEF Priority
<1>2. PICK m \in 0 .. MaxPackets : m = seqNo[e][p]
  BY <1>1 DEF IInv, CounterInv
<1>3. m < MaxPackets /\ m \in Nat /\ m + 1 \in 0 .. MaxPackets
  BY <1>2, BoundsAssumption DEF Commit
<1>4. PICK pkt \in PacketsOf(n, p) : pkt = Packet(e, n, p, m, t.requires_ack, t.total)
  <2>1. Packet(e, n, p, m, t.requires_ack, t.total) \in PacketsOf(n, p)
    BY <1>1, <1>3, QueueFacts, DataPacket
  <2> QED BY <2>1
<1>5. PICK q : q = [out[e] EXCEPT ![p] = Append(@, pkt)]
  OBVIOUS
<1>6. out' = [out EXCEPT ![e] = q]
  BY <1>2, <1>4, <1>5 DEF Commit
<1>7. /\ q \in QueuesOf(e, n)
      /\ \A r \in Priority : out[e][r] # << >> => q[r] # << >>
  <2>1. ~(Len(out[e][p]) >= OutCapacity[e] - 1) /\ out[e] \in QueuesOf(e, n)
    BY <1>1, QueueFacts DEF Commit, IsOutFull
  <2> QED BY <1>1, <1>5, <2>1, QueueAdded
<1>8. tx' = [tx EXCEPT ![e] = tx[e]] /\ start' = start
  BY <1>1, Unchanging DEF Commit, sessionVars
<1>9. /\ tx[e] \in Transmitters
      /\ tx[e].state = "burst" => tx[e].pkt.start = start[e]
      /\ tx[e].live => q[tx[e].pkt.p] # << >>
  BY <1>1, <1>7, QueueFacts DEF IInv, OutputInv, Sending
<1>10. OutputInv'
  BY <1>1, <1>6, <1>7, <1>8, <1>9, OutputStep
<1>11. CounterInv'
  <2>1. seqNo' = [seqNo EXCEPT ![e][p] = m + 1]
    BY <1>2 DEF Commit
  <2>2. seqNo' \in [Ends -> [Priority -> 0 .. MaxPackets]]
    BY <1>1, <1>3, <2>1 DEF IInv, CounterInv
  <2> QED BY <2>2 DEF IInv, CounterInv, Commit, linkVars, sessionVars
<1>12. LinkInv' /\ StartInv'
  BY LinkKept DEF IInv, StartInv, Commit, linkVars, sessionVars, observed
<1> QED BY <1>10, <1>11, <1>12 DEF IInv

\* Steps that change only what is being sent.
LEMMA StartPacketStep ==
  ASSUME IInv, NEW e \in Ends, StartPacket(e)
  PROVE  IInv'
<1>1. PICK p \in Priority : p = OldestPriority(e) /\ out[e][p] # << >>
  <2>1. \E p \in Queued(e) : \A q \in Queued(e) : p <= q
    <3>1. Queued(e) # {} /\ Queued(e) \subseteq 0 .. 3
      BY DEF StartPacket, Queued, Priority
    <3> QED BY <3>1
  <2>2. OldestPriority(e) \in Queued(e)
    BY <2>1 DEF OldestPriority
  <2> QED BY <2>2 DEF Queued
<1>2. PICK pkt \in PacketsOf(start[e], p) : pkt = Head(out[e][p])
  <2>1. out[e][p] \in Seq(PacketsOf(start[e], p))
    BY QueueFacts
  <2>2. Head(out[e][p]) \in PacketsOf(start[e], p)
    BY <1>1, <2>1, HeadTailProperties
  <2> QED BY <2>2
<1>3. pkt \in Packets /\ pkt.start = start[e] /\ pkt.p = p /\ pkt.length \in Nat
  BY <1>2 DEF PacketsOf, Packets, PacketType
<1>4. PICK x : x = [state |-> "burst", pkt |-> pkt, live |-> TRUE, pending |-> pkt.length + 1, units |-> 0]
  OBVIOUS
<1>5. x \in Transmitters /\ x.pkt = pkt
  BY <1>3, <1>4 DEF Transmitters
<1>6. tx' = [tx EXCEPT ![e] = x] /\ out' = [out EXCEPT ![e] = out[e]] /\ start' = start
  BY <1>1, <1>2, <1>4, Unchanging DEF StartPacket, sessionVars
<1>7. OutputInv'
  <2>1. out[e] \in QueuesOf(e, start[e])
    BY QueueFacts
  <2> QED BY <1>1, <1>3, <1>5, <1>6, <2>1, OutputStep
<1>8. LinkInv' /\ StartInv' /\ CounterInv'
  BY LinkKept DEF IInv, StartInv, CounterInv, StartPacket, linkVars, sessionVars, observed
<1> QED BY <1>7, <1>8 DEF IInv

LEMMA SendUnitStep ==
  ASSUME IInv, NEW e \in Ends, SendUnit(e)
  PROVE  IInv'
<1>1. tx[e] \in Transmitters /\ tx[e].pending \in Nat /\ tx[e].units \in Nat /\ tx[e].pending > 1
  BY QueueFacts DEF SendUnit, Transmitters
<1>2. PICK a \in Nat, b \in Nat : a = tx[e].pending - 1 /\ b = tx[e].units + 1
  BY <1>1
<1>3. PICK x : x = [tx[e] EXCEPT !.pending = a, !.units = b]
  OBVIOUS
<1>4. /\ x \in Transmitters /\ x.state = tx[e].state /\ x.pkt = tx[e].pkt /\ x.live = tx[e].live
  BY <1>1, <1>3 DEF Transmitters
<1>5. tx' = [tx EXCEPT ![e] = x] /\ out' = [out EXCEPT ![e] = out[e]] /\ start' = start
  <2>1. tx' = [tx EXCEPT ![e].pending = a, ![e].units = b]
    BY <1>2 DEF SendUnit
  <2>2. [tx EXCEPT ![e].pending = a, ![e].units = b] = [tx EXCEPT ![e] = x]
    BY <1>3
  <2> QED BY <2>1, <2>2, Unchanging DEF SendUnit, sessionVars
<1>6. OutputInv'
  <2>1. /\ out[e] \in QueuesOf(e, start[e])
        /\ x.state = "burst" => x.pkt.start = start[e]
        /\ x.live => out[e][x.pkt.p] # << >>
    BY <1>4, QueueFacts DEF IInv, OutputInv, Sending
  <2> QED BY <1>4, <1>5, <2>1, OutputStep
<1>7. LinkInv' /\ StartInv' /\ CounterInv'
  BY LinkKept DEF IInv, StartInv, CounterInv, SendUnit, linkVars, sessionVars, observed
<1> QED BY <1>6, <1>7 DEF IInv

\* The first packet of its queue becomes a continuation, unless an ACK took it.
LEMMA PreemptedQueues ==
  ASSUME IInv, NEW e \in Ends, Preempt(e)
  PROVE  \E q \in QueuesOf(e, start[e]), left \in Nat :
           /\ out' = [out EXCEPT ![e] = q]
           /\ \/ ~tx[e].live /\ q = out[e]
              \/ /\ tx[e].live /\ out[e][tx[e].pkt.p] # << >>
                 /\ q = [out[e] EXCEPT ![tx[e].pkt.p] =
                           [out[e][tx[e].pkt.p] EXCEPT ![1].is_continuation = TRUE, ![1].length = left]]
<1>1. tx[e].pending \in Nat /\ tx[e].pending > 1
  BY QueueFacts DEF Preempt, Transmitters
<1>2. PICK p \in Priority, left \in Nat : p = tx[e].pkt.p /\ left = tx[e].pending - 2
  BY <1>1, QueueFacts
<1>3. CASE ~tx[e].live
  <2>1. out' = [out EXCEPT ![e] = out[e]] /\ out[e] \in QueuesOf(e, start[e])
    BY <1>3, Unchanging, QueueFacts DEF Preempt
  <2> QED BY <1>2, <1>3, <2>1
<1>4. CASE tx[e].live
  <2>1. out[e][p] # << >> /\ out[e][p] \in Seq(PacketsOf(start[e], p)) /\ out[e] \in QueuesOf(e, start[e])
    BY <1>2, <1>4, QueueFacts DEF IInv, OutputInv, Sending
  <2>2. PICK s : s = out[e][p]
    OBVIOUS
  <2>3. PICK t : t = [s EXCEPT ![1].is_continuation = TRUE, ![1].length = left]
    OBVIOUS
  <2>4. t \in Seq(PacketsOf(start[e], p)) /\ Len(t) = Len(s)
    <3>1. s \in Seq(PacketsOf(start[e], p)) /\ s # << >>
      BY <2>1, <2>2
    <3>2. \A c \in BOOLEAN :
            /\ [s EXCEPT ![1].is_continuation = c, ![1].length = left] \in Seq(PacketsOf(start[e], p))
            /\ Len([s EXCEPT ![1].is_continuation = c, ![1].length = left]) = Len(s)
      BY <1>2, <3>1, HeadContinued
    <3> QED BY <2>3, <3>2
  <2>5. Len(t) < OutCapacity[e]
    BY <1>2, <2>1, <2>2, <2>4 DEF QueuesOf
  <2>6. PICK q : q = [out[e] EXCEPT ![p] = t]
    OBVIOUS
  <2>7. q \in QueuesOf(e, start[e])
    BY <1>2, <2>1, <2>4, <2>5, <2>6, QueueChanged
  <2>8. out' = [out EXCEPT ![e][p][1].is_continuation = TRUE, ![e][p][1].length = left]
    BY <1>2, <1>4 DEF Preempt
  <2>9. [out EXCEPT ![e][p][1].is_continuation = TRUE, ![e][p][1].length = left] = [out EXCEPT ![e] = q]
    <3>1. PICK s1 : s1 = [s EXCEPT ![1].is_continuation = TRUE]
      OBVIOUS
    <3>2. PICK q1 : q1 = [out[e] EXCEPT ![p] = s1]
      OBVIOUS
    <3>3. PICK o1 : o1 = [out EXCEPT ![e] = q1]
      OBVIOUS
    <3>4. [out EXCEPT ![e][p][1].is_continuation = TRUE] = o1
      BY <2>2, <3>1, <3>2, <3>3
    <3>5. t = [s1 EXCEPT ![1].length = left]
      BY <2>3, <3>1
    <3>6. out \in [Ends -> [Priority -> Seq(Packets)]]
      BY DEF IInv, OutputInv
    <3>7. o1[e] = q1 /\ q1[p] = s1
      BY <1>2, <3>2, <3>3, <3>6
    <3>8. [o1 EXCEPT ![e][p][1].length = left] = [o1 EXCEPT ![e] = [q1 EXCEPT ![p] = t]]
      BY <3>5, <3>7
    <3>9. [q1 EXCEPT ![p] = t] = q
      BY <1>2, <2>6, <3>2, <3>6
    <3>10. [o1 EXCEPT ![e] = q] = [out EXCEPT ![e] = q]
      BY <3>3, <3>6
    <3>11. [out EXCEPT ![e][p][1].is_continuation = TRUE, ![e][p][1].length = left]
           = [o1 EXCEPT ![e][p][1].length = left]
      BY <3>4
    <3> QED BY <3>8, <3>9, <3>10, <3>11
  <2> QED BY <1>2, <1>4, <2>1, <2>2, <2>3, <2>6, <2>7, <2>8, <2>9
<1> QED BY <1>3, <1>4

LEMMA PreemptStep ==
  ASSUME IInv, NEW e \in Ends, Preempt(e)
  PROVE  IInv'
<1>1. /\ tx[e] \in Transmitters /\ tx[e].pending \in Nat /\ tx[e].units \in Nat /\ tx[e].pending > 1
      /\ tx[e].pkt \in Packets /\ tx[e].pkt.start = start[e]
  BY QueueFacts DEF Preempt, Transmitters, IInv, OutputInv, Sending
<1>2. PICK f \in Fragments : f = Fragment(tx[e].pkt, tx[e].units + 1, FALSE) /\ f.pkt.start = start[e]
  <2>1. PICK units \in Nat : units = tx[e].units + 1
    BY <1>1
  <2>2. Fragment(tx[e].pkt, units, FALSE) \in Fragments /\ Fragment(tx[e].pkt, units, FALSE).pkt = tx[e].pkt
    BY <1>1, FragmentType
  <2> QED BY <1>1, <2>1, <2>2
<1>3. wire' = [wire EXCEPT ![e] = Append(@, f)]
  BY <1>2 DEF Preempt
<1>4. LinkInv'
  BY <1>2, <1>3, LinkAdded DEF Preempt, sessionVars, observed
<1>5. PICK q \in QueuesOf(e, start[e]) : out' = [out EXCEPT ![e] = q]
  BY PreemptedQueues
<1>6. tx' = [tx EXCEPT ![e] = IdleTx] /\ start' = start
  BY DEF Preempt, sessionVars
<1>7. OutputInv'
  BY <1>5, <1>6, IdleType, OutputStep
<1>8. StartInv' /\ CounterInv'
  BY DEF IInv, StartInv, CounterInv, Preempt, linkVars, sessionVars, observed
<1> QED BY <1>4, <1>7, <1>8 DEF IInv

LEMMA FinishPacketStep ==
  ASSUME IInv, NEW e \in Ends, FinishPacket(e)
  PROVE  IInv'
<1>1. PICK pkt \in Packets : pkt = tx[e].pkt
  BY QueueFacts
<1>2. pkt.p \in Priority /\ pkt.start = start[e] /\ tx[e].units \in Nat
  BY <1>1, QueueFacts DEF FinishPacket, Transmitters, IInv, OutputInv, Sending
<1>3. PICK f \in Fragments : f = Fragment(pkt, tx[e].units, TRUE) /\ f.pkt.start = start[e]
  <2>1. TRUE \in BOOLEAN
    OBVIOUS
  <2> QED BY <1>2, <2>1, FragmentType
<1>4. wire' = [wire EXCEPT ![e] = Append(@, f)]
  BY <1>1, <1>3 DEF FinishPacket
<1>5. LinkInv'
  BY <1>3, <1>4, LinkAdded DEF FinishPacket, sessionVars, observed
<1>6. PICK queues \in QueuesOf(e, start[e]) :
        queues = IF pkt.is_init /\ pkt.is_ack THEN ResetOutputSession(out[e], pkt) ELSE out[e]
  BY QueueFacts, ResetQueues
<1>7. PICK q \in QueuesOf(e, start[e]) :
        q = IF ShouldConsume(pkt) THEN [queues EXCEPT ![pkt.p] = DropHead(@)] ELSE queues
  BY <1>2, <1>6, QueueDropped
<1>8. out' = [out EXCEPT ![e] = q] /\ tx' = [tx EXCEPT ![e] = IdleTx] /\ start' = start
  BY <1>1, <1>6, <1>7 DEF FinishPacket, sessionVars
<1>9. OutputInv'
  BY <1>7, <1>8, IdleType, OutputStep
<1>10. StartInv' /\ CounterInv'
  BY DEF IInv, StartInv, CounterInv, FinishPacket, linkVars, sessionVars, observed
<1> QED BY <1>5, <1>9, <1>10 DEF IInv

-----------------------------------------------------------------------------
(* Steps of the input stream and the link. *)

LEMMA ReadHeaderStep ==
  ASSUME IInv, NEW e \in Ends, ReadHeader(e)
  PROVE  IInv'
<1>1. PICK o \in Ends : o = Other(e) /\ o # e /\ Other(o) = e
  BY OtherEnd
<1>2. PICK f \in Fragments : f = Head(wire[o])
  <2>1. wire[o] \in Seq(Fragments) /\ wire[o] # << >>
    BY <1>1, WireFacts DEF ReadHeader
  <2> QED BY <2>1, HeadTailProperties
<1>3. PICK pkt \in Packets : pkt = f.pkt
  BY DEF Fragments
<1>4. pkt.p \in Priority /\ wire[o] # << >> /\ input[e].state = "header"
  BY <1>1 DEF ReadHeader, Packets, PacketType
<1>5. UNCHANGED <<start, lastInit, notified>>
  BY DEF ReadHeader, sessionVars, observed
<1>6. ASSUME ~pkt.is_continuation PROVE LinkInv'
  <2>1. PICK in \in Inputs : in = NewIncoming(input[e], pkt)
    BY WireFacts, NewIncomingType
  <2>2. in.incoming[pkt.p] # None
    BY <2>1, WireFacts, NewIncomingType
  <2>3. input' = [input EXCEPT ![e] = in] /\ wire' = wire
    BY <1>1, <1>2, <1>3, <1>6, <2>1 DEF ReadHeader
  <2>4. /\ input' \in [Ends -> Inputs] /\ input'[e] = in
        /\ \A d \in Ends : d # e => input'[d] = input[d]
    BY <2>3 DEF IInv, LinkInv
  <2>5. Reading(e)'
    BY <1>1, <1>2, <1>3, <1>4, <2>2, <2>3, <2>4 DEF Reading
  <2> QED BY <1>5, <2>3, <2>4, <2>5, LinkRead
<1>7. ASSUME pkt.is_continuation, ContinuationFits(input[e], pkt) PROVE LinkInv'
  <2>1. PICK in : in = [input[e] EXCEPT !.state = "content"]
    OBVIOUS
  <2>2. in \in Inputs /\ in.incoming = input[e].incoming
    <3>1. input[e] \in Inputs
      BY WireFacts
    <3> QED BY <2>1, <3>1 DEF Inputs
  <2>3. in.incoming[pkt.p] # None
    BY <1>7, <2>2 DEF ContinuationFits
  <2>4. input' = [input EXCEPT ![e] = in] /\ wire' = wire
    BY <1>1, <1>2, <1>3, <1>7, <2>1 DEF ReadHeader
  <2>5. /\ input' \in [Ends -> Inputs] /\ input'[e] = in
        /\ \A d \in Ends : d # e => input'[d] = input[d]
    BY <2>2, <2>4 DEF IInv, LinkInv
  <2>6. Reading(e)'
    BY <1>1, <1>2, <1>3, <1>4, <2>3, <2>4, <2>5 DEF Reading
  <2> QED BY <1>5, <2>4, <2>5, <2>6, LinkRead
<1>8. ASSUME pkt.is_continuation, ~ContinuationFits(input[e], pkt) PROVE LinkInv'
  <2>1. wire' = [wire EXCEPT ![o] = Tail(@)] /\ input' = input
    BY <1>1, <1>2, <1>3, <1>8 DEF ReadHeader
  <2>2. input' \in [Ends -> Inputs] /\ input'[o] = input[o] /\ input'[Other(o)].state = "header"
    BY <1>1, <1>4, <2>1 DEF IInv, LinkInv
  <2> QED BY <1>4, <1>5, <2>1, <2>2, LinkTaken
<1>9. LinkInv'
  BY <1>6, <1>7, <1>8
<1>10. StartInv' /\ CounterInv' /\ OutputInv'
  BY OutputKept DEF IInv, StartInv, CounterInv, ReadHeader, outVars, sessionVars, observed
<1> QED BY <1>9, <1>10 DEF IInv

LEMMA HighestPriority ==
  ASSUME NEW S \in SUBSET Priority, S # {}
  PROVE  \E p \in S : \A q \in S : p <= q
<1>1. \A p \in S : p \in {0, 1, 2, 3}
  BY DEF Priority
<1>2. ASSUME NEW n \in {0, 1, 2, 3}, n \in S, \A k \in {0, 1, 2, 3} : k < n => k \notin S
      PROVE  \A q \in S : n <= q
  BY <1>1, <1>2
<1>3. \E n \in {0, 1, 2, 3} : n \in S /\ \A k \in {0, 1, 2, 3} : k < n => k \notin S
  <2>1. PICK p \in {0, 1, 2, 3} : p \in S
    BY <1>1
  <2>2. CASE 0 \in S
    BY <2>2
  <2>3. CASE 0 \notin S /\ 1 \in S
    BY <2>3
  <2>4. CASE 0 \notin S /\ 1 \notin S /\ 2 \in S
    BY <2>4
  <2>5. CASE 0 \notin S /\ 1 \notin S /\ 2 \notin S /\ 3 \in S
    BY <2>5
  <2> QED BY <2>1, <2>2, <2>3, <2>4, <2>5
<1> QED BY <1>2, <1>3

LEMMA DeliverStep ==
  ASSUME IInv, NEW e \in Ends, Deliver(e)
  PROVE  IInv'
<1> DEFINE nonempty == {p \in Priority : input[e].buffer[p].size > 0}
<1>1. PICK p \in nonempty : input' = [input EXCEPT ![e].buffer[p] = Ring!Consumed(@, 0)]
  <2>1. nonempty # {} /\ nonempty \in SUBSET Priority
    BY DEF Deliver
  <2>2. \E p \in nonempty : \A q \in nonempty : p <= q
    <3> HIDE DEF nonempty
    <3> QED BY <2>1, HighestPriority
  <2>3. PICK first : first = CHOOSE p \in nonempty : \A q \in nonempty : p <= q
    OBVIOUS
  <2>4. first \in nonempty
    <3> HIDE DEF nonempty
    <3> QED BY <2>2, <2>3
  <2>5. input' = [input EXCEPT ![e].buffer[first] = Ring!Consumed(@, 0)]
    BY <2>3 DEF Deliver
  <2> QED BY <2>4, <2>5
<1>2. PICK in : in = [input[e] EXCEPT !.buffer[p] = Ring!Consumed(@, 0)]
  OBVIOUS
<1>3. in \in Inputs /\ in.state = input[e].state /\ in.incoming = input[e].incoming
  BY <1>2, WireFacts, ConsumedInput
<1>4. input' = [input EXCEPT ![e] = in] /\ wire' = wire
  BY <1>1, <1>2 DEF Deliver, linkVars
<1>5. /\ input' \in [Ends -> Inputs] /\ input'[e] = in
      /\ \A d \in Ends : d # e => input'[d] = input[d]
  BY <1>3, <1>4 DEF IInv, LinkInv
<1>6. Reading(e)'
  BY <1>3, <1>4, <1>5 DEF IInv, LinkInv, Reading
<1>7. LinkInv'
  BY <1>4, <1>5, <1>6, LinkRead DEF Deliver, sessionVars
<1>8. StartInv' /\ CounterInv' /\ OutputInv'
  BY OutputKept DEF IInv, StartInv, CounterInv, Deliver, outVars, linkVars, sessionVars
<1> QED BY <1>7, <1>8 DEF IInv

LEMMA LoseStep ==
  ASSUME IInv, NEW e \in Ends, Lose(e)
  PROVE  IInv'
<1>1. /\ wire[e] # << >> /\ wire' = [wire EXCEPT ![e] = Tail(@)]
      /\ input' = input /\ input[Other(e)].state = "header"
  BY DEF Lose
<1>2. input' \in [Ends -> Inputs] /\ input'[e] = input[e] /\ input'[Other(e)].state = "header"
  BY <1>1 DEF IInv, LinkInv
<1>3. LinkInv'
  BY <1>1, <1>2, LinkTaken DEF Lose, sessionVars, observed
<1>4. faults' \in 0 .. MaxFaults
  BY BoundsAssumption DEF IInv, CounterInv, Lose
<1>5. StartInv' /\ CounterInv' /\ OutputInv'
  BY <1>4, OutputKept DEF IInv, StartInv, CounterInv, Lose, outVars, sessionVars
<1> QED BY <1>3, <1>5 DEF IInv

LEMMA CorruptStep ==
  ASSUME IInv, NEW e \in Ends, Corrupt(e)
  PROVE  IInv'
<1>1. PICK w : w = [wire[e] EXCEPT ![1].intact = FALSE]
  OBVIOUS
<1>2. /\ w \in Seq(Fragments) /\ Ordered(w, start[e]) /\ w # << >> /\ Head(w).pkt = Head(wire[e]).pkt
      /\ \A id \in Int : NotBefore(wire[e], id) => NotBefore(w, id)
  BY <1>1, WireFacts, WireDamaged DEF Corrupt
<1>3. wire' = [wire EXCEPT ![e] = w] /\ UNCHANGED <<start, input, lastInit, notified>> /\ wire[e] # << >>
  BY <1>1 DEF Corrupt, sessionVars, observed
<1>4. wire' \in [Ends -> Seq(Fragments)] /\ wire'[e] = w /\ \A d \in Ends : d # e => wire'[d] = wire[d]
  BY <1>2, <1>3 DEF IInv, LinkInv
<1>5. ASSUME NEW d \in Ends PROVE Ordered(wire[d], start[d])' /\ Reading(d)' /\ Heard(d)'
  <2>1. Other(d) \in Ends /\ Reading(d) /\ Heard(d) /\ Ordered(wire[d], start[d]) /\ lastInit[d] \in Int
    BY OtherEnd, WireFacts DEF IInv, LinkInv
  <2>2. Ordered(wire[d], start[d])'
    BY <1>2, <1>3, <1>4, <2>1
  <2>3. Reading(d)'
    BY <1>2, <1>3, <1>4, <2>1 DEF Reading
  <2>4. NotBefore(wire'[Other(d)], lastInit[d])
    BY <1>2, <1>4, <2>1 DEF Heard
  <2>5. Heard(d)'
    BY <1>3, <2>1, <2>4 DEF Heard
  <2> QED BY <2>2, <2>3, <2>5
<1>6. LinkInv'
  BY <1>3, <1>4, <1>5 DEF IInv, LinkInv
<1>7. faults' \in 0 .. MaxFaults
  BY BoundsAssumption DEF IInv, CounterInv, Corrupt
<1>8. StartInv' /\ CounterInv' /\ OutputInv'
  BY <1>7, OutputKept DEF IInv, StartInv, CounterInv, Corrupt, outVars, sessionVars
<1> QED BY <1>6, <1>8 DEF IInv

\* The output queues once an ACK for `pkt` has been asked for.
LEMMA AckQueued ==
  ASSUME IInv, NEW e \in Ends, NEW pkt \in Packets, pkt.p # 0
  PROVE  \E q \in QueuesOf(e, start[e]) :
           /\ WithAck(e, pkt) = [out EXCEPT ![e] = q]
           /\ \A r \in Priority : out[e][r] # << >> => q[r] # << >>
<1>1. start[e] \in Nat /\ out[e] \in QueuesOf(e, start[e])
  BY QueueFacts
<1>2. CASE IsAckCommitted(e, pkt) \/ ~AckOk(e, pkt)
  <2>1. WithAck(e, pkt) = [out EXCEPT ![e] = out[e]]
    BY <1>2, Unchanging DEF WithAck
  <2> QED BY <1>1, <2>1
<1>3. CASE ~(IsAckCommitted(e, pkt) \/ ~AckOk(e, pkt))
  <2>1. PICK p \in Priority : p = Higher(pkt.p)
    BY <1>1, AckPacket
  <2>2. PICK ack \in PacketsOf(start[e], p) : ack = AckFor(e, pkt)
    BY <1>1, <2>1, AckPacket
  <2>3. ~(Len(out[e][p]) >= OutCapacity[e] - 1)
    BY <1>3, <2>1 DEF AckOk, IsOutFull
  <2>4. PICK q : q = [out[e] EXCEPT ![p] = Append(@, ack)]
    OBVIOUS
  <2>5. q \in QueuesOf(e, start[e]) /\ \A r \in Priority : out[e][r] # << >> => q[r] # << >>
    BY <1>1, <2>3, <2>4, QueueAdded
  <2>6. WithAck(e, pkt) = [out EXCEPT ![e] = q]
    BY <1>3, <2>1, <2>2, <2>4 DEF WithAck
  <2> QED BY <2>5, <2>6
<1> QED BY <1>2, <1>3

LEMMA OutputAck ==
  ASSUME IInv, NEW e \in Ends, NEW pkt \in Packets, pkt.p # 0,
         out' = WithAck(e, pkt), UNCHANGED <<tx, start>>
  PROVE  OutputInv'
<1>1. PICK q \in QueuesOf(e, start[e]) :
        /\ WithAck(e, pkt) = [out EXCEPT ![e] = q]
        /\ \A r \in Priority : out[e][r] # << >> => q[r] # << >>
  BY AckQueued
<1>2. /\ tx[e] \in Transmitters
      /\ tx[e].state = "burst" => tx[e].pkt.start = start[e]
      /\ tx[e].live => q[tx[e].pkt.p] # << >>
  BY <1>1, QueueFacts DEF IInv, OutputInv, Sending
<1>3. out' = [out EXCEPT ![e] = q] /\ tx' = [tx EXCEPT ![e] = tx[e]]
  BY <1>1, Unchanging
<1> QED BY <1>2, <1>3, OutputStep

\* An ACK takes the packet it is for from the queue, even while that is being sent.
LEMMA OutputAcknowledged ==
  ASSUME IInv, NEW e \in Ends, NEW pkt \in Packets, NEW in, Acknowledgement(e, pkt, in)
  PROVE  OutputInv'
<1>1. PICK p \in Priority : p = Lower(pkt.p)
  <2>1. Lower(pkt.p) \in Priority
    BY DEF Acknowledgement, Packets, PacketType, Priority, Lower
  <2> QED BY <2>1
<1>2. start' = start
  BY DEF Acknowledgement
<1>3. ASSUME UNCHANGED <<out, tx>> PROVE OutputInv'
  BY <1>2, <1>3, OutputKept
<1>4. ASSUME out[e][p] # << >>, out' = [out EXCEPT ![e][p] = Tail(@)],
             tx' = [tx EXCEPT ![e].live = @ /\ tx[e].pkt.p # p]
      PROVE  OutputInv'
  <2>1. PICK q : q = [out[e] EXCEPT ![p] = Tail(@)]
    OBVIOUS
  <2>2. q \in QueuesOf(e, start[e]) /\ \A r \in Priority : r # p => q[r] = out[e][r]
    <3>1. out[e] \in QueuesOf(e, start[e])
      BY QueueFacts
    <3> QED BY <1>4, <2>1, <3>1, QueueTaken DEF QueuesOf
  <2>3. PICK live \in BOOLEAN : live = (tx[e].live /\ tx[e].pkt.p # p)
    OBVIOUS
  <2>4. PICK x : x = [tx[e] EXCEPT !.live = live]
    OBVIOUS
  <2>5. x \in Transmitters /\ x.state = tx[e].state /\ x.pkt = tx[e].pkt /\ x.live = live
    <3>1. tx[e] \in Transmitters
      BY QueueFacts
    <3> QED BY <2>4, <3>1 DEF Transmitters
  <2>6. out' = [out EXCEPT ![e] = q] /\ tx' = [tx EXCEPT ![e] = x]
    BY <1>4, <2>1, <2>3, <2>4
  <2>7. /\ x.state = "burst" => x.pkt.start = start[e]
        /\ x.live => q[x.pkt.p] # << >>
    BY <2>2, <2>3, <2>5, QueueFacts DEF IInv, OutputInv, Sending
  <2> QED BY <1>2, <2>2, <2>5, <2>6, <2>7, OutputStep
<1> QED BY <1>1, <1>3, <1>4 DEF Acknowledgement

LEMMA ReadBodyStep ==
  ASSUME IInv, NEW e \in Ends, ReadBody(e)
  PROVE  IInv'
<1>1. PICK o \in Ends : o = Other(e) /\ o # e /\ Other(o) = e
  BY OtherEnd
<1>2. wire[o] # << >> /\ input[e].incoming[Head(wire[o]).pkt.p] # None
  BY <1>1 DEF ReadBody, IInv, LinkInv, Reading
<1>3. PICK f \in Fragments : f = Head(wire[o])
  <2>1. wire[o] \in Seq(Fragments)
    BY WireFacts
  <2> QED BY <1>2, <2>1, HeadTailProperties
<1>4. PICK in \in Inputs : in = AfterBody(input[e], f) /\ in.state = "header"
  BY <1>2, <1>3, WireFacts, AfterBodyType
<1>5. PICK s \in StoredPackets : /\ s = Stored(in, f.pkt.p)
                                 /\ f.footer /\ ChecksumOk(s) => Id(f.pkt) = Id(s.pkt)
  BY <1>2, <1>3, <1>4, WireFacts, AfterBodyType
<1>6. PICK pkt \in Packets : pkt = s.pkt
  BY DEF StoredPackets
<1>7. pkt.p \in Priority /\ pkt.seq \in Nat
  BY DEF Packets, PacketType
<1>8. wire' = [wire EXCEPT ![o] = Tail(@)] /\ faults' = faults
  BY <1>1 DEF ReadBody
\* Whatever the input stream becomes, it is at its next header.
<1>9. ASSUME NEW new \in Inputs, new.state = "header", input' = [input EXCEPT ![e] = new]
      PROVE  input' \in [Ends -> Inputs] /\ input'[o] = input[o] /\ input'[e].state = "header"
  BY <1>1, <1>9 DEF IInv, LinkInv
<1>10. ASSUME NEW new \in Inputs, new.state = "header", input' = [input EXCEPT ![e] = new],
              UNCHANGED <<start, lastInit, notified>>
       PROVE  LinkInv'
  BY <1>1, <1>2, <1>8, <1>9, <1>10, LinkTaken
<1>11. ASSUME input' = [input EXCEPT ![e] = in], UNCHANGED <<outVars, sessionVars, observed>>
       PROVE  IInv'
  <2>1. LinkInv'
    BY <1>4, <1>10, <1>11 DEF sessionVars, observed
  <2>2. StartInv' /\ CounterInv' /\ OutputInv'
    BY <1>8, <1>11, OutputKept DEF IInv, StartInv, CounterInv, outVars, sessionVars
  <2> QED BY <2>1, <2>2 DEF IInv
<1>12. ASSUME HandshakeRequest(e, pkt, in), f.footer, ChecksumOk(s) PROVE IInv'
  <2>1. IsRequest(pkt)
    BY <1>12 DEF HandshakeRequest, IsRequest
  <2>2. pkt.p # 0 /\ pkt.seq = HandshakeId(f.pkt.start)
    BY <1>5, <1>6, <1>12, <2>1 DEF Packets, Id
  <2>3. PICK new \in Inputs : new = ResetInput(in) /\ new.state = "header"
    BY ResetInputType
  <2>4. input' = [input EXCEPT ![e] = new]
    BY <1>12, <2>3 DEF HandshakeRequest
  <2>5. LinkInv'
    <3>1. PICK id \in Nat : id = pkt.seq
      BY <1>7
    <3>2. /\ lastInit' = [lastInit EXCEPT ![e] = id] /\ start' = start
          /\ notified' = IF id # lastInit[e] THEN [notified EXCEPT ![e] = Append(@, id)] ELSE notified
      BY <1>12, <3>1 DEF HandshakeRequest, NewlyStarted
    <3>3. id = HandshakeId(Head(wire[o]).pkt.start)
      BY <1>3, <2>2, <3>1
    <3>4. input' \in [Ends -> Inputs] /\ input'[o] = input[o] /\ input'[e].state = "header"
      BY <1>9, <2>3, <2>4
    <3> QED BY <1>1, <1>2, <1>8, <3>2, <3>3, <3>4, LinkHandshake
  <2>6. OutputInv'
    BY <1>12, <2>2, OutputAck DEF HandshakeRequest
  <2>7. StartInv' /\ CounterInv'
    <3>1. lastRx' \in [Ends -> [Priority -> Nat \cup {None}]]
      BY <1>12 DEF IInv, CounterInv, HandshakeRequest
    <3>2. halted' \in [Ends -> BOOLEAN]
      <4>1. PICK b \in BOOLEAN : b = ~AckOk(e, pkt)
        OBVIOUS
      <4>2. halted' = [halted EXCEPT ![e] = b]
        BY <1>12, <4>1 DEF HandshakeRequest
      <4> QED BY <4>2 DEF IInv, CounterInv
    <3> QED BY <1>8, <1>12, <3>1, <3>2 DEF IInv, StartInv, CounterInv, HandshakeRequest
  <2> QED BY <2>5, <2>6, <2>7 DEF IInv
<1>13. ASSUME Acknowledgement(e, pkt, in) PROVE IInv'
  <2>1. LinkInv'
    BY <1>4, <1>10, <1>13 DEF Acknowledgement
  <2>2. OutputInv'
    BY <1>13, OutputAcknowledged
  <2>3. done' \in [Ends -> BOOLEAN]
    <3>1. PICK b \in BOOLEAN : b = (done[e] \/ pkt.seq = HandshakeId(start[e]))
      OBVIOUS
    <3>2. done' = [done EXCEPT ![e] = b]
      BY <1>13, <3>1 DEF Acknowledgement
    <3> QED BY <3>2 DEF IInv, CounterInv
  <2>4. StartInv' /\ CounterInv'
    BY <1>8, <1>13, <2>3 DEF IInv, StartInv, CounterInv, Acknowledgement
  <2> QED BY <2>1, <2>2, <2>4 DEF IInv
<1>14. ASSUME Data(e, pkt, in) PROVE IInv'
  <2>1. PICK accepted \in Inputs : /\ accepted = [in EXCEPT !.buffer[pkt.p] = Ring!Committed(@)]
                                   /\ accepted.state = "header"
    BY <1>4, <1>7, CommittedInput
  <2>2. input' = [input EXCEPT ![e] = in] \/ input' = [input EXCEPT ![e] = accepted]
    BY <1>14, <2>1 DEF Data
  <2>3. LinkInv'
    BY <1>4, <1>10, <1>14, <2>1, <2>2 DEF Data, observed
  <2>4. OutputInv'
    <3>1. UNCHANGED <<tx, start>> /\ (out' = out \/ (out' = WithAck(e, pkt) /\ pkt.requires_ack))
      BY <1>14 DEF Data
    <3>2. pkt.requires_ack => pkt.p # 0
      BY DEF Packets
    <3> QED BY <3>1, <3>2, OutputKept, OutputAck
  <2>5. lastRx' \in [Ends -> [Priority -> Nat \cup {None}]]
    <3>1. lastRx' = lastRx \/ lastRx' = [lastRx EXCEPT ![e][pkt.p] = pkt.seq]
      BY <1>14 DEF Data
    <3> QED BY <1>7, <3>1 DEF IInv, CounterInv
  <2>6. StartInv' /\ CounterInv'
    BY <1>8, <1>14, <2>5 DEF IInv, StartInv, CounterInv, Data
  <2> QED BY <2>3, <2>4, <2>6 DEF IInv
<1>15. ASSUME RejectUntilHandshake(e, pkt, in) PROVE IInv'
  BY <1>11, <1>15 DEF RejectUntilHandshake
<1>16. \/ input' = [input EXCEPT ![e] = in] /\ UNCHANGED <<outVars, sessionVars, observed>>
       \/ /\ f.footer /\ ChecksumOk(s)
          /\ \/ RejectUntilHandshake(e, pkt, in)
             \/ HandshakeRequest(e, pkt, in)
             \/ Acknowledgement(e, pkt, in)
             \/ Data(e, pkt, in)
  BY <1>1, <1>3, <1>4, <1>5, <1>6 DEF ReadBody
<1> QED BY <1>11, <1>12, <1>13, <1>14, <1>15, <1>16

-----------------------------------------------------------------------------
(* The start of an end. *)

\* What it was sending stops where it is.
LEMMA RestartedWire ==
  ASSUME IInv, NEW e \in Ends, tx[e].state = "burst"
  PROVE  Fragment(tx[e].pkt, tx[e].units, FALSE) \in Fragments
         /\ Fragment(tx[e].pkt, tx[e].units, FALSE).pkt.start = start[e]
<1>1. PICK units \in Nat : units = tx[e].units
  BY QueueFacts DEF Transmitters
<1>2. tx[e].pkt \in Packets /\ tx[e].pkt.start = start[e]
  BY QueueFacts DEF IInv, OutputInv, Sending
<1> QED BY <1>1, <1>2, FragmentType

LEMMA OrderedLater ==
  ASSUME NEW w \in Seq(Fragments), NEW n \in Nat, Ordered(w, n)
  PROVE  Ordered(w, n + 1)
<1>1. ASSUME NEW k \in 1 .. Len(w) PROVE w[k].pkt.start <= n + 1
  <2>1. w[k] \in Fragments /\ w[k].pkt.start <= n
    BY DEF Ordered
  <2>2. PICK m \in Nat : m = w[k].pkt.start
    <3>1. w[k].pkt.start \in Nat
      BY <2>1 DEF Fragments, Packets, PacketType
    <3> QED BY <3>1
  <2> QED BY <2>1, <2>2
<1> QED BY <1>1 DEF Ordered

LEMMA EmptyWire ==
  ASSUME NEW n
  PROVE  << >> \in Seq(Fragments) /\ Ordered(<< >>, n) /\ \A id \in Int : NotBefore(<< >>, id)
BY DEF Ordered, NotBefore

LEMMA RestartStep ==
  ASSUME IInv, NEW e \in Ends, Restart(e)
  PROVE  IInv'
<1>1. PICK o \in Ends : o = Other(e) /\ o # e /\ Other(o) = e /\ \A d \in Ends : d # e => d = o
  BY OtherEnd
<1>2. PICK n \in Nat : n = start[e] /\ start[e] < MaxStarts[e] /\ start' = [start EXCEPT ![e] = n + 1]
  BY DEF IInv, StartInv, Restart
<1>3. /\ StartInv' /\ start'[e] = n + 1 /\ start'[o] = start[o]
  <2>1. n + 1 \in 1 .. MaxStarts[e] /\ n + 1 \in Nat
    BY <1>2, BoundsAssumption
  <2> QED BY <1>1, <1>2, <2>1 DEF IInv, StartInv
<1>4. CounterInv'
  <2>1. /\ seqNo' \in [Ends -> [Priority -> 0 .. MaxPackets]] /\ done' \in [Ends -> BOOLEAN]
        /\ lastRx' \in [Ends -> [Priority -> Nat \cup {None}]] /\ halted' \in [Ends -> BOOLEAN]
        /\ faults' = faults
    BY BoundsAssumption DEF IInv, CounterInv, Restart
  <2> QED BY <2>1 DEF IInv, CounterInv
<1>5. OutputInv'
  <2>1. PICK q \in QueuesOf(e, n + 1) : q = Queues(InitPacket(e, n + 1))
    BY <1>2, HandshakeQueues
  <2>2. out' = [out EXCEPT ![e] = q] /\ tx' = [tx EXCEPT ![e] = IdleTx]
    BY <1>2, <2>1 DEF Restart
  <2>3. out' \in [Ends -> [Priority -> Seq(Packets)]] /\ tx' \in [Ends -> Transmitters]
    <3>1. q \in [Priority -> Seq(Packets)]
      BY DEF QueuesOf
    <3> QED BY <2>2, <3>1, IdleType DEF IInv, OutputInv
  <2>4. Sending(e)'
    <3>1. out'[e] = q /\ tx'[e] = IdleTx
      BY <2>2 DEF IInv, OutputInv
    <3> QED BY <1>3, <2>1, <3>1, IdleType DEF Sending
  <2>5. Sending(o)'
    <3>1. out'[o] = out[o] /\ tx'[o] = tx[o] /\ Sending(o)
      BY <1>1, <2>2 DEF IInv, OutputInv
    <3> QED BY <1>3, <3>1 DEF Sending
  <2> QED BY <1>1, <2>3, <2>4, <2>5 DEF OutputInv
<1>6. /\ input' \in [Ends -> Inputs] /\ input'[e].state = "header" /\ input'[o] = input[o]
      /\ lastInit' \in [Ends -> Nat \cup {None}] /\ lastInit'[e] = None /\ lastInit'[o] = lastInit[o]
      /\ notified' \in [Ends -> Seq(Nat)] /\ notified'[e] = << >> /\ notified'[o] = notified[o]
  BY <1>1, NewInputType DEF IInv, LinkInv, Restart
<1>7. /\ wire[e] \in Seq(Fragments) /\ Ordered(wire[e], n) /\ wire[o] \in Seq(Fragments)
      /\ Ordered(wire[o], start[o]) /\ lastInit[o] \in Int /\ Heard(o) /\ Heard(e) /\ Reading(e) /\ Reading(o)
  BY <1>2, WireFacts DEF IInv, LinkInv
<1>8. PICK survives \in BOOLEAN :
        wire' = [wire EXCEPT
          ![e] = IF tx[e].state = "burst"
                 THEN Append(@, Fragment(tx[e].pkt, tx[e].units, FALSE)) ELSE @,
          ![o] = IF ~survives THEN << >>
                 ELSE IF input[e].state = "content" THEN Tail(@) ELSE @]
  BY <1>1 DEF Restart
<1>9. PICK w \in Seq(Fragments) :
        /\ w = IF tx[e].state = "burst"
               THEN Append(wire[e], Fragment(tx[e].pkt, tx[e].units, FALSE)) ELSE wire[e]
        /\ Ordered(w, n) /\ (wire[e] # << >> => w # << >> /\ Head(w) = Head(wire[e]))
        /\ NotBefore(w, lastInit[o])
  <2>1. NotBefore(wire[e], lastInit[o]) /\ lastInit[o] <= HandshakeId(n)
    BY <1>1, <1>2, <1>7 DEF Heard
  <2>2. CASE tx[e].state # "burst"
    BY <1>7, <2>1, <2>2
  <2>3. CASE tx[e].state = "burst"
    <3>1. PICK f \in Fragments : f = Fragment(tx[e].pkt, tx[e].units, FALSE) /\ f.pkt.start = n
      BY <1>2, <2>3, RestartedWire
    <3>2. /\ Append(wire[e], f) \in Seq(Fragments) /\ Ordered(Append(wire[e], f), n)
          /\ Append(wire[e], f) # << >>
          /\ wire[e] # << >> => Head(Append(wire[e], f)) = Head(wire[e])
          /\ \A id \in Int : NotBefore(wire[e], id) /\ id <= HandshakeId(n)
               => NotBefore(Append(wire[e], f), id)
      BY <1>7, <3>1, WireAdded
    <3> QED BY <1>7, <2>1, <2>3, <3>1, <3>2
  <2> QED BY <2>2, <2>3
<1>10. PICK v \in Seq(Fragments) :
        /\ v = IF ~survives THEN << >> ELSE IF input[e].state = "content" THEN Tail(wire[o]) ELSE wire[o]
        /\ Ordered(v, start[o])
  <2>1. CASE ~survives
    BY <2>1, EmptyWire
  <2>2. CASE survives /\ input[e].state = "content"
    <3>1. wire[o] # << >> /\ start[o] \in Nat
      BY <1>1, <1>7, <2>2, WireFacts DEF Reading
    <3>2. Tail(wire[o]) \in Seq(Fragments) /\ Ordered(Tail(wire[o]), start[o])
      BY <1>7, <3>1, WireTaken
    <3> QED BY <2>2, <3>2
  <2>3. CASE survives /\ input[e].state # "content"
    BY <1>7, <2>3
  <2> QED BY <2>1, <2>2, <2>3
<1>11. wire' \in [Ends -> Seq(Fragments)] /\ wire'[e] = w /\ wire'[o] = v
  <2>1. wire \in [Ends -> Seq(Fragments)]
    BY DEF IInv, LinkInv
  <2>2. PICK w1 : w1 = [wire EXCEPT ![e] = w]
    OBVIOUS
  <2>3. w1 \in [Ends -> Seq(Fragments)] /\ w1[e] = w /\ w1[o] = wire[o]
    BY <1>1, <2>1, <2>2
  <2>4. wire' = [w1 EXCEPT ![o] = v]
    BY <1>1, <1>8, <1>9, <1>10, <2>2, <2>3
  <2> QED BY <1>1, <2>3, <2>4
<1>12. Ordered(wire'[e], start'[e]) /\ Ordered(wire'[o], start'[o])
  BY <1>3, <1>9, <1>10, <1>11, OrderedLater
<1>13. Reading(e)' /\ Reading(o)'
  BY <1>1, <1>6, <1>7, <1>9, <1>11 DEF Reading
<1>14. Heard(e)'
  <2>1. \A id \in Nat : None <= HandshakeId(id)
    BY BoundsAssumption DEF None, HandshakeId
  <2>2. NotBefore(v, None)
    <3>1. ASSUME NEW k \in 1 .. Len(v) PROVE v[k].pkt.start \in Nat
      <4>1. v[k] \in Fragments
        OBVIOUS
      <4> QED BY <4>1 DEF Fragments, Packets, PacketType
    <3> QED BY <2>1, <3>1 DEF NotBefore
  <2>3. start[o] \in Nat
    BY WireFacts
  <2> QED BY <1>1, <1>3, <1>6, <1>11, <2>1, <2>2, <2>3 DEF Heard
<1>15. Heard(o)'
  <2>1. lastInit[o] <= HandshakeId(n) /\ HandshakeId(n) <= HandshakeId(n + 1) /\ HandshakeId(n) \in Int
        /\ HandshakeId(n + 1) \in Int
    BY <1>1, <1>2, <1>7, BoundsAssumption DEF Heard, HandshakeId
  <2>2. lastInit[o] <= HandshakeId(n + 1)
    <3> HIDE DEF HandshakeId
    <3> QED BY <1>7, <2>1
  <2> QED BY <1>1, <1>3, <1>6, <1>7, <1>9, <1>11, <2>2 DEF Heard
<1>16. LinkInv'
  BY <1>1, <1>6, <1>11, <1>12, <1>13, <1>14, <1>15 DEF LinkInv
<1> QED BY <1>3, <1>4, <1>5, <1>16 DEF IInv

LEMMA InitInv == Init => IInv
<1> SUFFICES ASSUME Init PROVE IInv
  OBVIOUS
<1>1. StartInv /\ CounterInv
  BY BoundsAssumption DEF Init, StartInv, CounterInv
<1>2. OutputInv
  <2>1. ASSUME NEW e \in Ends
        PROVE  /\ Queues(InitPacket(e, 1)) \in QueuesOf(e, 1)
               /\ Queues(InitPacket(e, 1)) \in [Priority -> Seq(Packets)]
    <3>1. Queues(InitPacket(e, 1)) \in QueuesOf(e, 1)
      BY HandshakeQueues
    <3> QED BY <3>1 DEF QueuesOf
  <2>2. out \in [Ends -> [Priority -> Seq(Packets)]] /\ tx \in [Ends -> Transmitters]
    BY <2>1, IdleType DEF Init
  <2>3. ASSUME NEW e \in Ends PROVE Sending(e)
    <3>1. out[e] \in QueuesOf(e, 1) /\ start[e] = 1 /\ tx[e] = IdleTx
      BY <2>1 DEF Init
    <3> QED BY <3>1, IdleType DEF Sending
  <2> QED BY <2>2, <2>3 DEF OutputInv
<1>3. LinkInv
  <2>1. /\ wire \in [Ends -> Seq(Fragments)] /\ input \in [Ends -> Inputs]
        /\ lastInit \in [Ends -> Nat \cup {None}] /\ notified \in [Ends -> Seq(Nat)]
    BY NewInputType, EmptyWire DEF Init
  <2>2. ASSUME NEW e \in Ends PROVE Ordered(wire[e], start[e]) /\ Reading(e) /\ Heard(e)
    <3>1. /\ Other(e) \in Ends /\ wire[e] = << >> /\ wire[Other(e)] = << >> /\ input[e].state = "header"
          /\ lastInit[e] = None /\ notified[e] = << >> /\ start[Other(e)] = 1
      BY OtherEnd, NewInputType DEF Init
    <3>2. None \in Int /\ None <= HandshakeId(1)
      BY BoundsAssumption DEF None, HandshakeId
    <3> QED BY <3>1, <3>2, EmptyWire DEF Reading, Heard
  <2> QED BY <2>1, <2>2 DEF LinkInv
<1> QED BY <1>1, <1>2, <1>3 DEF IInv

LEMMA NextInv == IInv /\ [Next]_vars => IInv'
<1> SUFFICES ASSUME IInv, [Next]_vars PROVE IInv'
  OBVIOUS
<1>1. ASSUME NEW e \in Ends, Run(e) PROVE IInv'
  BY <1>1, StartPacketStep, SendUnitStep, PreemptStep, FinishPacketStep, ReadHeaderStep,
     ReadBodyStep, DeliverStep DEF Run
<1>2. ASSUME NEW e \in Ends, Lose(e) \/ Corrupt(e) \/ Restart(e) PROVE IInv'
  BY <1>2, LoseStep, CorruptStep, RestartStep
<1>3. ASSUME NEW t \in Traffic, Commit(t) PROVE IInv'
  BY <1>3, CommitStep
<1>4. ASSUME UNCHANGED vars PROVE IInv'
  <2>1. UNCHANGED <<out, seqNo, tx, wire, faults, input, start, done, lastInit, lastRx, halted, notified>>
    BY <1>4 DEF vars, outVars, linkVars, sessionVars, observed
  <2>2. OutputInv' /\ LinkInv'
    BY <2>1, OutputKept, LinkKept
  <2> QED BY <2>1, <2>2 DEF IInv, StartInv, CounterInv
<1> QED BY <1>1, <1>2, <1>3, <1>4 DEF Next

LEMMA InvAlways == Spec => []IInv
BY InitInv, NextInv, PTL DEF Spec

LEMMA InvTypes == IInv => TypeOK
<1> SUFFICES ASSUME IInv PROVE TypeOK
  OBVIOUS
<1>1. Packets \subseteq PacketType
  BY DEF Packets
<1>2. \A s \in Seq(Packets) : s \in Seq(PacketType)
  BY <1>1
<1>3. out \in [Ends -> [Priority -> Seq(PacketType)]]
  BY <1>2 DEF IInv, OutputInv
<1>4. \A e \in Ends, p \in Priority : Len(out[e][p]) < OutCapacity[e]
  BY DEF IInv, OutputInv, Sending, QueuesOf
<1>5. tx \in [Ends -> [state : {"next", "burst"}, pkt : PacketType, live : BOOLEAN,
                       pending : Nat, units : Nat]]
  <2>1. Transmitters \subseteq [state : {"next", "burst"}, pkt : PacketType, live : BOOLEAN,
                                pending : Nat, units : Nat]
    BY <1>1 DEF Transmitters
  <2> QED BY <2>1 DEF IInv, OutputInv
<1>6. wire \in [Ends -> Seq([pkt : PacketType, units : Nat, footer : BOOLEAN, intact : BOOLEAN])]
  <2>1. PICK F : F = [pkt : PacketType, units : Nat, footer : BOOLEAN, intact : BOOLEAN]
    OBVIOUS
  <2>2. Fragments \subseteq F
    BY <1>1, <2>1 DEF Fragments
  <2>3. \A w \in Seq(Fragments) : w \in Seq(F)
    BY <2>2
  <2>4. wire \in [Ends -> Seq(F)]
    BY <2>3 DEF IInv, LinkInv
  <2> QED BY <2>1, <2>4
<1>7. input \in [Ends -> InputType]
  <2>1. StoredPackets \subseteq StoredType
    BY <1>1 DEF StoredPackets, StoredType
  <2>2. Rings(StoredPackets) \subseteq
          [values : [0 .. InCapacity - 1 -> StoredType],
           indices : [0 .. InCapacity - 1 -> 0 .. InCapacity - 1],
           read : 0 .. InCapacity - 1, write : 0 .. InCapacity - 1, size : 0 .. InCapacity - 1]
    <3>1. \A v \in [Positions -> StoredPackets] : v \in [Positions -> StoredType]
      BY <2>1
    <3> QED BY <3>1 DEF Rings, Positions
  <2>3. Inputs \subseteq InputType
    BY <2>1, <2>2 DEF Inputs, InputType
  <2> QED BY <2>3 DEF IInv, LinkInv
<1> QED BY <1>3, <1>4, <1>5, <1>6, <1>7 DEF TypeOK, IInv, StartInv, CounterInv, LinkInv

LEMMA InvNotified == IInv => NotifiedOncePerStart
<1> SUFFICES ASSUME IInv, NEW e \in Ends, NEW j \in DOMAIN notified[e], NEW k \in DOMAIN notified[e],
                    j # k
             PROVE  notified[e][j] # notified[e][k]
  BY DEF NotifiedOncePerStart
<1>1. /\ notified[e] \in Seq(Nat)
      /\ \A a, b \in DOMAIN notified[e] : a < b => notified[e][a] < notified[e][b]
  BY DEF IInv, LinkInv, Heard
<1>2. j \in Nat /\ k \in Nat /\ notified[e][j] \in Nat /\ notified[e][k] \in Nat
  BY <1>1
<1>3. j < k \/ k < j
  BY <1>2
<1> QED BY <1>1, <1>2, <1>3

-----------------------------------------------------------------------------
(* The theorems. *)

\* Every variable has its type in every behaviour: no queue uses the slot that
\* NewPacket() hands out, no offset or position leaves its array, and what an
\* ACK, a restart or a continuation leaves behind is a packet all the same.
THEOREM TypeCorrect == Spec => []TypeOK
BY InvAlways, InvTypes, PTL

\* other_end_started_callback_ is called once for a start of the other end,
\* however often its handshake request arrives, and whatever was lost, damaged
\* or left in the byte stream by earlier starts of either end.
THEOREM NotifiedOncePerStartAlways == Spec => []NotifiedOncePerStart
BY InvAlways, InvNotified, PTL

-----------------------------------------------------------------------------
(* The flow of packets from an end.                                          *)

LEMMA SamePacket ==
  ASSUME NEW a \in Packets, NEW b \in Packets, Same(a, b)
  PROVE  /\ a.from = b.from /\ a.start = b.start /\ a.p = b.p /\ a.seq = b.seq
         /\ a.requires_ack = b.requires_ack /\ a.is_ack = b.is_ack /\ a.is_init = b.is_init
         /\ IsData(a) <=> IsData(b)
         /\ IsRequest(a) <=> IsRequest(b)
         /\ \A e, n, c : Made(e, n, c, a) <=> Made(e, n, c, b)
         /\ \A f : Follows(f, a) <=> Follows(f, b)
<1>1. /\ a.from = b.from /\ a.start = b.start /\ a.p = b.p /\ a.seq = b.seq
      /\ a.requires_ack = b.requires_ack /\ a.is_ack = b.is_ack /\ a.is_init = b.is_init
  <2>1. AsCommitted(a) = AsCommitted(b)
    BY DEF Same
  <2>2. PICK c : c = AsCommitted(a) /\ c = AsCommitted(b)
    BY <2>1
  <2>3. /\ c.from = a.from /\ c.start = a.start /\ c.p = a.p /\ c.seq = a.seq
        /\ c.requires_ack = a.requires_ack /\ c.is_ack = a.is_ack /\ c.is_init = a.is_init
    BY <2>2, CommittedPacket
  <2>4. /\ c.from = b.from /\ c.start = b.start /\ c.p = b.p /\ c.seq = b.seq
        /\ c.requires_ack = b.requires_ack /\ c.is_ack = b.is_ack /\ c.is_init = b.is_init
    BY <2>2, CommittedPacket
  <2> QED BY <2>3, <2>4
<1>2. (IsData(a) <=> IsData(b)) /\ (IsRequest(a) <=> IsRequest(b))
  BY <1>1 DEF IsData, IsRequest
<1>3. ASSUME NEW e, NEW n, NEW c PROVE Made(e, n, c, a) <=> Made(e, n, c, b)
  BY <1>1 DEF Made, IsData, IsRequest, IsDataAck, IsAnswer
<1>4. ASSUME NEW f PROVE Follows(f, a) <=> Follows(f, b)
  BY <1>1, <1>2 DEF Follows
<1> QED BY <1>1, <1>2, <1>3, <1>4

-----------------------------------------------------------------------------
(* Part of a wire, in order, and part of a queue, in order.                  *)

LEMMA WithinItself == \A w \in Seq(Fragments) : Within(w, w)
<1> SUFFICES ASSUME NEW w \in Seq(Fragments) PROVE Within(w, w)
  OBVIOUS
<1>1. PICK from \in [1 .. Len(w) -> 1 .. Len(w)] : \A k \in 1 .. Len(w) : from[k] = k
  <2>1. [k \in 1 .. Len(w) |-> k] \in [1 .. Len(w) -> 1 .. Len(w)]
    OBVIOUS
  <2> QED BY <2>1
<1> QED BY <1>1 DEF Within

LEMMA WithinEmpty == \A w : Within(<< >>, w)
<1> SUFFICES ASSUME NEW w PROVE Within(<< >>, w)
  OBVIOUS
<1>1. PICK v : v = << >>
  OBVIOUS
<1>2. 1 .. Len(v) = {}
  BY <1>1
<1>3. [k \in {} |-> 0] \in [1 .. Len(v) -> 1 .. Len(w)]
  BY <1>2
<1> QED BY <1>1, <1>2, <1>3 DEF Within

LEMMA WithinTail ==
  ASSUME NEW w \in Seq(Fragments), w # << >>
  PROVE  Within(Tail(w), w)
<1>0. PICK v : v = Tail(w)
  OBVIOUS
<1>1. PICK l \in Nat : /\ l = Len(w) /\ Len(v) = l - 1 /\ l > 0
                        /\ \A k \in 1 .. l - 1 : v[k] = w[k + 1]
  <2>1. /\ Len(Tail(w)) = Len(w) - 1 /\ Len(w) \in Nat /\ Len(w) > 0
        /\ \A k \in 1 .. Len(w) - 1 : Tail(w)[k] = w[k + 1]
    BY HeadTailProperties, EmptySeq
  <2> QED BY <1>0, <2>1
<1>2. \A k \in 1 .. l - 1 : k + 1 \in 1 .. l
  BY <1>1
<1>3. PICK from \in [1 .. l - 1 -> 1 .. l] : \A k \in 1 .. l - 1 : from[k] = k + 1
  <2>1. [k \in 1 .. l - 1 |-> k + 1] \in [1 .. l - 1 -> 1 .. l]
    BY <1>2
  <2> QED BY <2>1
<1>4. \A j, k \in 1 .. l - 1 : j < k => from[j] < from[k]
  BY <1>3
<1>5. \A k \in 1 .. l - 1 : v[k].pkt = w[from[k]].pkt /\ v[k].footer = w[from[k]].footer
  BY <1>1, <1>3
<1> QED BY <1>0, <1>1, <1>3, <1>4, <1>5 DEF Within

LEMMA WithinDamaged ==
  ASSUME NEW w \in Seq(Fragments), w # << >>
  PROVE  Within([w EXCEPT ![1].intact = FALSE], w)
<1> DEFINE f == [w[1] EXCEPT !.intact = FALSE]
<1>1. 1 \in 1 .. Len(w) /\ w[1] \in Fragments
  BY LenProperties, EmptySeq, HeadTailProperties
<1>2. f.pkt = w[1].pkt /\ f.footer = w[1].footer /\ f \in Fragments
  BY <1>1 DEF Fragments
<1>3. PICK v : v = [w EXCEPT ![1] = f]
  OBVIOUS
<1>4. [w EXCEPT ![1].intact = FALSE] = v
  BY <1>3
<1> HIDE DEF f
<1>5. Len(v) = Len(w) /\ \A k \in 1 .. Len(w) : v[k] = IF k = 1 THEN f ELSE w[k]
  BY <1>1, <1>2, <1>3, ExceptSeq
<1>6. \A k \in 1 .. Len(w) : v[k].pkt = w[k].pkt /\ v[k].footer = w[k].footer
  BY <1>2, <1>5
<1>7. PICK from \in [1 .. Len(w) -> 1 .. Len(w)] : \A k \in 1 .. Len(w) : from[k] = k
  <2>1. [k \in 1 .. Len(w) |-> k] \in [1 .. Len(w) -> 1 .. Len(w)]
    OBVIOUS
  <2> QED BY <2>1
<1> QED BY <1>4, <1>5, <1>6, <1>7 DEF Within

LEMMA PartOfItself == \A s : PartOf(s, s)
<1> SUFFICES ASSUME NEW s PROVE PartOf(s, s)
  OBVIOUS
<1>1. PICK from \in [1 .. Len(s) -> 1 .. Len(s)] : \A k \in 1 .. Len(s) : from[k] = k
  <2>1. [k \in 1 .. Len(s) |-> k] \in [1 .. Len(s) -> 1 .. Len(s)]
    OBVIOUS
  <2> QED BY <2>1
<1> QED BY <1>1 DEF PartOf, Same

LEMMA PartOfTail ==
  ASSUME NEW s \in Seq(Packets), s # << >>
  PROVE  PartOf(Tail(s), s)
<1>0. PICK t : t = Tail(s)
  OBVIOUS
<1>1. PICK l \in Nat : /\ l = Len(s) /\ Len(t) = l - 1 /\ l > 0
                        /\ \A k \in 1 .. l - 1 : t[k] = s[k + 1]
  <2>1. /\ Len(Tail(s)) = Len(s) - 1 /\ Len(s) \in Nat /\ Len(s) > 0
        /\ \A k \in 1 .. Len(s) - 1 : Tail(s)[k] = s[k + 1]
    BY HeadTailProperties, EmptySeq
  <2> QED BY <1>0, <2>1
<1>2. \A k \in 1 .. l - 1 : k + 1 \in 1 .. l
  BY <1>1
<1>3. PICK from \in [1 .. l - 1 -> 1 .. l] : \A k \in 1 .. l - 1 : from[k] = k + 1
  <2>1. [k \in 1 .. l - 1 |-> k + 1] \in [1 .. l - 1 -> 1 .. l]
    BY <1>2
  <2> QED BY <2>1
<1>4. \A j, k \in 1 .. l - 1 : j < k => from[j] < from[k]
  BY <1>3
<1>5. \A k \in 1 .. l - 1 : Same(t[k], s[from[k]])
  BY <1>1, <1>3 DEF Same
<1> QED BY <1>0, <1>1, <1>3, <1>4, <1>5 DEF PartOf

LEMMA PartOfPart ==
  ASSUME NEW r, NEW s, NEW t, Len(r) \in Nat, Len(s) \in Nat, Len(t) \in Nat, PartOf(r, s), PartOf(s, t)
  PROVE  PartOf(r, t)
<1>1. PICK f \in [1 .. Len(r) -> 1 .. Len(s)] :
        /\ \A j, k \in 1 .. Len(r) : j < k => f[j] < f[k]
        /\ \A k \in 1 .. Len(r) : Same(r[k], s[f[k]])
  BY DEF PartOf
<1>2. PICK g \in [1 .. Len(s) -> 1 .. Len(t)] :
        /\ \A j, k \in 1 .. Len(s) : j < k => g[j] < g[k]
        /\ \A k \in 1 .. Len(s) : Same(s[k], t[g[k]])
  BY DEF PartOf
<1>3. PICK h \in [1 .. Len(r) -> 1 .. Len(t)] : \A k \in 1 .. Len(r) : h[k] = g[f[k]]
  <2>1. [k \in 1 .. Len(r) |-> g[f[k]]] \in [1 .. Len(r) -> 1 .. Len(t)]
    BY <1>1, <1>2
  <2> QED BY <2>1
<1>4. \A j, k \in 1 .. Len(r) : j < k => h[j] < h[k]
  BY <1>1, <1>2, <1>3
<1>5. \A k \in 1 .. Len(r) : Same(r[k], t[h[k]])
  BY <1>1, <1>2, <1>3 DEF Same
<1> QED BY <1>3, <1>4, <1>5 DEF PartOf

\* A queue whose first packet becomes a continuation, or whole again.
\* The packet at the head is continued, or sent again as a whole.
Resumed(s, c, length) == [s EXCEPT ![1].is_continuation = c, ![1].length = length]
Whole(s) == IF s = << >> THEN s ELSE Resumed(s, FALSE, s[1].total)

LEMMA PartOfContinued ==
  ASSUME NEW s \in Seq(Packets), s # << >>, NEW c \in BOOLEAN, NEW length \in Nat,
         NEW continued, continued = Resumed(s, c, length)
  PROVE  /\ PartOf(continued, s) /\ Len(continued) = Len(s)
         /\ \A k \in 1 .. Len(s) : Same(continued[k], s[k])
<1> DEFINE pkt == [s[1] EXCEPT !.is_continuation = c, !.length = length]
<1>1. 1 \in 1 .. Len(s) /\ s[1] \in Packets
  BY LenProperties, EmptySeq
<1>2. Same(pkt, s[1])
  BY <1>1, ContinuedCommitted DEF Same
<1>3. PICK t : t = [s EXCEPT ![1] = pkt]
  OBVIOUS
<1>4. continued = t
  <2>1. \A k \in 1 .. Len(s) : [s EXCEPT ![1].is_continuation = c, ![1].length = length][k] = t[k]
    BY <1>1, <1>3
  <2> QED BY <1>1, <1>3, <2>1 DEF Resumed
<1> HIDE DEF pkt
<1>5. Len(t) = Len(s) /\ \A k \in 1 .. Len(s) : t[k] = IF k = 1 THEN pkt ELSE s[k]
  BY <1>1, <1>3
<1>6. \A k \in 1 .. Len(s) : Same(t[k], s[k])
  BY <1>2, <1>5 DEF Same
<1>7. PICK from \in [1 .. Len(s) -> 1 .. Len(s)] : \A k \in 1 .. Len(s) : from[k] = k
  <2>1. [k \in 1 .. Len(s) |-> k] \in [1 .. Len(s) -> 1 .. Len(s)]
    OBVIOUS
  <2> QED BY <2>1
<1> QED BY <1>4, <1>5, <1>6, <1>7 DEF PartOf

LEMMA PartOfSelected ==
  ASSUME NEW s \in Seq(Packets), NEW at
  PROVE  PartOf(Selected(s, at), s)
<1>1. PICK t : t = Selected(s, at)
  OBVIOUS
<1>2. PICK from \in [1 .. Len(t) -> 1 .. Len(s)] :
        /\ \A j, k \in 1 .. Len(t) : j < k => from[j] < from[k]
        /\ \A k \in 1 .. Len(t) : t[k] = s[from[k]] /\ from[k] \in at
        /\ \A i \in 1 .. Len(s) : i \in at => \E k \in 1 .. Len(t) : from[k] = i
  BY <1>1, SelectedPlaces
<1> QED BY <1>1, <1>2 DEF PartOf, Same

\* What holds of the packets of a queue, and of their order, holds of a part.
LEMMA PartKept ==
  ASSUME NEW s \in Seq(Packets), NEW t \in Seq(Packets), PartOf(t, s)
  PROVE  /\ QueueInOrder(s) => QueueInOrder(t)
         /\ \A k \in 1 .. Len(t) : \E j \in 1 .. Len(s) : Same(t[k], s[j])
<1>1. PICK from \in [1 .. Len(t) -> 1 .. Len(s)] :
        /\ \A j, k \in 1 .. Len(t) : j < k => from[j] < from[k]
        /\ \A k \in 1 .. Len(t) : Same(t[k], s[from[k]])
  BY DEF PartOf
<1>2. ASSUME QueueInOrder(s), NEW j \in 1 .. Len(t), NEW k \in 1 .. Len(t), j < k
      PROVE  InOrder(t[j], t[k])
  <2>1. PICK a \in Packets, b \in Packets, c \in Packets, d \in Packets :
          a = t[j] /\ b = t[k] /\ c = s[from[j]] /\ d = s[from[k]]
    BY <1>1
  <2>2. from[j] \in 1 .. Len(s) /\ from[k] \in 1 .. Len(s) /\ from[j] < from[k]
    BY <1>1, <1>2
  <2>3. InOrder(c, d)
    BY <1>2, <2>1, <2>2 DEF QueueInOrder
  <2>4. Same(a, c) /\ Same(b, d)
    BY <1>1, <2>1
  <2>5. /\ a.seq = c.seq /\ (IsData(a) <=> IsData(c))
        /\ b.seq = d.seq /\ (IsData(b) <=> IsData(d)) /\ (IsRequest(b) <=> IsRequest(d))
    BY <2>4, SamePacket
  <2> QED BY <2>1, <2>3, <2>5 DEF InOrder
<1>3. QueueInOrder(s) => QueueInOrder(t)
  BY <1>2 DEF QueueInOrder
<1> QED BY <1>1, <1>3

-----------------------------------------------------------------------------
(* What happens to a flow.                                                   *)

LEMMA QueuePackets ==
  ASSUME NEW e, NEW n, NEW q \in QueuesOf(e, n), NEW p \in Priority
  PROVE  /\ q[p] \in Seq(Packets) /\ Len(q[p]) \in Nat
         /\ \A k \in 1 .. Len(q[p]) : q[p][k] \in Packets /\ q[p][k].p = p /\ q[p][k].start = n
<1>1. q[p] \in Seq(Packets) /\ q[p] \in Seq(PacketsOf(n, p))
  BY DEF QueuesOf
<1>2. \A k \in 1 .. Len(q[p]) : q[p][k] \in PacketsOf(n, p)
  BY <1>1
<1> QED BY <1>1, <1>2 DEF PacketsOf

LEMMA FlowPackets ==
  ASSUME NEW e, NEW n, NEW c, NEW q, NEW x, NEW w, FlowType(e, n, c, q, x, w)
  PROVE  /\ x.pkt \in Packets /\ x.pkt.p \in Priority
         /\ Len(w) \in Nat
         /\ \A k \in 1 .. Len(w) : w[k] \in Fragments /\ w[k].pkt \in Packets
<1>1. x \in Transmitters /\ w \in Seq(Fragments)
  BY DEF FlowType
<1>2. x.pkt \in Packets
  BY <1>1 DEF Transmitters
<1>3. \A k \in 1 .. Len(w) : w[k] \in Fragments
  BY <1>1
<1> QED BY <1>1, <1>2, <1>3 DEF Packets, PacketType, Fragments

\* The packet being sent is the first data packet of its queue or was there
\* before it.
LEMMA SentBefore ==
  ASSUME NEW e, NEW n, NEW c, NEW q, NEW x, NEW w, FlowType(e, n, c, q, x, w), FlowOf(e, n, c, q, x, w),
         x.state = "burst", IsData(x.pkt),
         NEW k \in 1 .. Len(q[x.pkt.p]), IsData(q[x.pkt.p][k])
  PROVE  /\ x.pkt.seq <= q[x.pkt.p][k].seq
         /\ x.pkt.seq = q[x.pkt.p][k].seq =>
              k = 1 /\ x.live /\ x.pkt.requires_ack = q[x.pkt.p][k].requires_ack
<1>1. PICK s : s = q[x.pkt.p]
  OBVIOUS
<1>2. /\ x.pkt \in Packets /\ x.pkt.p \in Priority
      /\ \A i \in 1 .. Len(s) : s[i] \in Packets
      /\ Len(s) \in Nat /\ x.live \in BOOLEAN
  <2>1. x.pkt \in Packets /\ x.pkt.p \in Priority
    BY FlowPackets
  <2>2. q \in QueuesOf(e, n) /\ x \in Transmitters
    BY DEF FlowType
  <2>3. PICK p \in Priority : p = x.pkt.p
    BY <2>1
  <2>4. Len(q[p]) \in Nat /\ \A i \in 1 .. Len(q[p]) : q[p][i] \in Packets
    BY <2>2, QueuePackets
  <2>5. x.live \in BOOLEAN
    BY <2>2 DEF Transmitters
  <2> QED BY <1>1, <2>1, <2>3, <2>4, <2>5
<1>3. QueueInOrder(s) /\ SentInOrder(q, x)
  BY <1>1, <1>2 DEF FlowOf
<1>4. k \in 1 .. Len(s) /\ 1 \in 1 .. Len(s) /\ x.pkt.seq \in Nat /\ s[k].seq \in Nat /\ s[1] \in Packets
  BY <1>1, <1>2 DEF Packets, PacketType
<1>5. CASE ~x.live
  <2>1. InOrder(x.pkt, s[k])
    BY <1>1, <1>3, <1>4, <1>5 DEF SentInOrder
  <2> QED BY <1>1, <1>4, <2>1 DEF InOrder
<1>6. CASE x.live
  <2>1. Same(s[1], x.pkt)
    BY <1>1, <1>3, <1>6 DEF SentInOrder, Same
  <2>2. s[1].seq = x.pkt.seq /\ s[1].requires_ack = x.pkt.requires_ack /\ IsData(s[1])
    BY <1>2, <1>4, <2>1, SamePacket
  <2>3. k # 1 => InOrder(s[1], s[k])
    BY <1>3, <1>4 DEF QueueInOrder
  <2> QED BY <1>1, <1>4, <1>6, <2>2, <2>3 DEF InOrder
<1> QED BY <1>2, <1>5, <1>6

\* Fragments are taken, lost or damaged.
LEMMA FlowThinned ==
  ASSUME NEW e, NEW n, NEW c, NEW q, NEW x, NEW w, FlowType(e, n, c, q, x, w), FlowOf(e, n, c, q, x, w),
         NEW v, Within(v, w)
  PROVE  FlowOf(e, n, c, q, x, v)
<1>1. PICK from \in [1 .. Len(v) -> 1 .. Len(w)] :
        /\ \A j, k \in 1 .. Len(v) : j < k => from[j] < from[k]
        /\ \A k \in 1 .. Len(v) : v[k].pkt = w[from[k]].pkt /\ v[k].footer = w[from[k]].footer
  BY DEF Within
<1>2. \A k \in 1 .. Len(v) : \A b : Follows(v[k], b) <=> Follows(w[from[k]], b)
  BY <1>1 DEF Follows
<1>3. \A k \in 1 .. Len(v) : Made(e, n, c, v[k].pkt)
  BY <1>1 DEF FlowOf
<1>4. \A j, k \in 1 .. Len(v) : j < k => Follows(v[j], v[k].pkt)
  BY <1>1, <1>2 DEF FlowOf
<1>5. \A j \in 1 .. Len(v) : x.state = "burst" => Follows(v[j], x.pkt)
  BY <1>1, <1>2 DEF FlowOf
<1>6. \A j \in 1 .. Len(v), p \in Priority : \A k \in 1 .. Len(q[p]) : Follows(v[j], q[p][k])
  BY <1>1, <1>2 DEF FlowOf
<1> QED BY <1>3, <1>4, <1>5, <1>6 DEF FlowOf

LEMMA FlowSending ==
  ASSUME NEW e, NEW n, NEW c, NEW q, NEW x, NEW w, FlowOf(e, n, c, q, x, w),
         NEW y, y.state = x.state, y.pkt = x.pkt, y.live = x.live
  PROVE  FlowOf(e, n, c, q, y, w)
BY DEF FlowOf, SentInOrder

\* The packet being sent goes on the wire, in a part of its own or the last one;
\* an unreliable packet leaves its queue when it is complete.
LEMMA FlowAppended ==
  ASSUME NEW e, NEW n, NEW c, NEW q, NEW x, NEW w, FlowType(e, n, c, q, x, w), FlowOf(e, n, c, q, x, w),
         x.state = "burst", NEW f \in Fragments, f.pkt = x.pkt,
         NEW r \in QueuesOf(e, n), \A p \in Priority : PartOf(r[p], q[p]),
         f.footer /\ IsData(x.pkt) /\ ~x.pkt.requires_ack => PartOf(r[x.pkt.p], Tail(q[x.pkt.p])),
         NEW y, y.state # "burst"
  PROVE  FlowOf(e, n, c, r, y, Append(w, f))
<1>0. PICK v : v = Append(w, f)
  OBVIOUS
<1>1. PICK l \in Nat : v = Append(w, f) /\ l = Len(w)
  BY <1>0, FlowPackets
<1>2. /\ Len(v) = l + 1 /\ v[l + 1] = f /\ \A k \in 1 .. l : v[k] = w[k]
      /\ \A k \in 1 .. l + 1 : k \in 1 .. l \/ k = l + 1
  BY <1>1, AppendProperties DEF FlowType
<1>3. \A k \in 1 .. Len(v) : (k \in 1 .. Len(w) /\ v[k] = w[k]) \/ (k = l + 1 /\ v[k] = f)
  BY <1>1, <1>2
<1>4. q \in QueuesOf(e, n) /\ x.pkt \in Packets /\ x.pkt.p \in Priority /\ x.pkt.start = n
  BY FlowPackets DEF FlowType
<1>5. ASSUME NEW p \in Priority, NEW k \in 1 .. Len(r[p])
      PROVE  /\ r[p][k] \in Packets /\ r[p][k].p = p /\ r[p][k].start = n
             /\ \E j \in 1 .. Len(q[p]) : q[p][j] \in Packets /\ Same(r[p][k], q[p][j])
  <2>1. q[p] \in Seq(Packets) /\ r[p] \in Seq(Packets) /\ PartOf(r[p], q[p])
    BY <1>4, QueuePackets
  <2>2. \E j \in 1 .. Len(q[p]) : Same(r[p][k], q[p][j])
    BY <2>1, PartKept
  <2> QED BY <1>4, <2>2, QueuePackets
<1>6. \A k \in 1 .. Len(v) : Made(e, n, c, v[k].pkt)
  BY <1>3 DEF FlowOf
<1>7. ASSUME NEW p \in Priority, NEW k \in 1 .. Len(r[p])
      PROVE  Made(e, n, c, r[p][k])
  <2>1. PICK j \in 1 .. Len(q[p]) : q[p][j] \in Packets /\ Same(r[p][k], q[p][j])
    BY <1>5
  <2>2. Made(e, n, c, q[p][j])
    BY DEF FlowOf
  <2> QED BY <1>5, <2>1, <2>2, SamePacket
<1>8. ASSUME NEW p \in Priority PROVE QueueInOrder(r[p])
  <2>1. q[p] \in Seq(Packets) /\ r[p] \in Seq(Packets) /\ PartOf(r[p], q[p])
    BY <1>4, QueuePackets
  <2>2. QueueInOrder(q[p])
    BY DEF FlowOf
  <2> QED BY <2>1, <2>2, PartKept
<1>9. SentInOrder(r, y)
  BY DEF SentInOrder
<1>10. ASSUME NEW j \in 1 .. Len(v), NEW k \in 1 .. Len(v), j < k
       PROVE  Follows(v[j], v[k].pkt)
  <2>1. j \in 1 .. Len(w) /\ v[j] = w[j]
    BY <1>1, <1>2, <1>10
  <2>2. CASE k \in 1 .. Len(w) /\ v[k] = w[k]
    BY <1>10, <2>1, <2>2 DEF FlowOf
  <2>3. CASE v[k] = f
    BY <2>1, <2>3 DEF FlowOf
  <2> QED BY <1>3, <2>2, <2>3
<1>11. ASSUME NEW p \in Priority, NEW k \in 1 .. Len(r[p])
       PROVE  Follows(f, r[p][k])
  <2>1. PICK a : a = r[p][k]
    OBVIOUS
  <2>2. PICK j \in 1 .. Len(q[p]) : q[p][j] \in Packets /\ Same(a, q[p][j])
    BY <1>5, <2>1
  <2>3. /\ a \in Packets /\ a.p = p /\ a.seq = q[p][j].seq /\ a.requires_ack = q[p][j].requires_ack
        /\ (IsData(a) <=> IsData(q[p][j])) /\ (IsRequest(a) <=> IsRequest(q[p][j]))
    BY <1>5, <2>1, <2>2, SamePacket
  <2>4. ASSUME IsData(x.pkt) PROVE ~IsRequest(a)
    <3>1. ASSUME IsRequest(a) PROVE p = kHigh
      <4>1. Made(e, n, c, a)
        BY <1>7, <2>1
      <4> QED BY <2>3, <3>1, <4>1 DEF Made
    <3>2. p = kHigh => ~IsRequest(q[p][j])
      BY <2>2, <2>4 DEF FlowOf, SentInOrder
    <3> SUFFICES ASSUME IsRequest(a) PROVE FALSE
      OBVIOUS
    <3>3. p = kHigh
      BY <3>1
    <3>4. IsRequest(q[p][j])
      BY <2>3
    <3> QED BY <3>2, <3>3, <3>4
  <2>5. ASSUME IsData(x.pkt), IsData(a), x.pkt.p = p PROVE x.pkt.seq <= a.seq
    <3>1. j \in 1 .. Len(q[x.pkt.p]) /\ IsData(q[x.pkt.p][j]) /\ q[x.pkt.p][j].seq = a.seq
      BY <2>2, <2>3, <2>5
    <3> QED BY <3>1, <2>5, SentBefore
  <2>6. ASSUME f.footer, IsData(x.pkt), IsData(a), x.pkt.p = p, x.pkt.seq = a.seq
        PROVE  x.pkt.requires_ack /\ a.requires_ack
    <3>0. /\ j \in 1 .. Len(q[x.pkt.p]) /\ IsData(q[x.pkt.p][j]) /\ q[x.pkt.p][j].seq = a.seq
          /\ q[x.pkt.p][j].requires_ack = a.requires_ack
      BY <2>2, <2>3, <2>6
    <3>1. j = 1 /\ x.pkt.requires_ack = a.requires_ack /\ x.live
      BY <3>0, <2>6, SentBefore
    <3>2. CASE ~x.pkt.requires_ack
      <4>1. PICK s : s = q[p]
        OBVIOUS
      <4>2. s \in Seq(Packets) /\ s # << >> /\ r[p] \in Seq(Packets) /\ PartOf(r[p], Tail(s))
        <5>1. s # << >>
          BY <2>2, <4>1
        <5> QED BY <1>4, <2>6, <3>2, <4>1, <5>1, QueuePackets
      <4>3. PICK t : t = Tail(s)
        OBVIOUS
      <4>4. t \in Seq(Packets) /\ Len(t) = Len(s) - 1 /\ Len(s) \in Nat /\ \A i \in 1 .. Len(t) : t[i] = s[i + 1]
        BY <4>2, <4>3, HeadTailProperties
      <4>5. PICK i \in 1 .. Len(t) : Same(a, t[i])
        BY <2>1, <4>2, <4>3, <4>4, PartKept
      <4>6. i + 1 \in 1 .. Len(s) /\ t[i] = s[i + 1] /\ i + 1 # 1 /\ t[i] \in Packets
        BY <4>4, <4>5
      <4>7. a.seq = s[i + 1].seq /\ IsData(s[i + 1])
        BY <2>3, <2>6, <4>5, <4>6, SamePacket
      <4>8. FALSE
        BY <2>6, <4>1, <4>6, <4>7, SentBefore
      <4> QED BY <4>8
    <3> QED BY <3>1, <3>2
  <2> QED BY <2>1, <2>3, <2>4, <2>5, <2>6 DEF Follows
<1>12. ASSUME NEW j \in 1 .. Len(v), NEW p \in Priority, NEW k \in 1 .. Len(r[p])
       PROVE  Follows(v[j], r[p][k])
  <2>1. CASE v[j] = f
    BY <1>11, <2>1
  <2>2. CASE j \in 1 .. Len(w) /\ v[j] = w[j]
    <3>1. PICK i \in 1 .. Len(q[p]) : q[p][i] \in Packets /\ Same(r[p][k], q[p][i])
      BY <1>5
    <3>2. Follows(w[j], q[p][i])
      BY <2>2 DEF FlowOf
    <3> QED BY <1>5, <2>2, <3>1, <3>2, SamePacket
  <2> QED BY <1>3, <2>1, <2>2
<1>13. FlowOf(e, n, c, r, y, v)
  <2>1. \A p \in Priority : \A k \in 1 .. Len(r[p]) : Made(e, n, c, r[p][k])
    BY <1>7
  <2>2. \A p \in Priority : QueueInOrder(r[p])
    BY <1>8
  <2>3. \A j, k \in 1 .. Len(v) : j < k => Follows(v[j], v[k].pkt)
    BY <1>10
  <2>4. \A j \in 1 .. Len(v), p \in Priority : \A k \in 1 .. Len(r[p]) : Follows(v[j], r[p][k])
    BY <1>12
  <2> QED BY <1>6, <1>9, <2>1, <2>2, <2>3, <2>4 DEF FlowOf
<1> QED BY <1>1, <1>13

\* A packet is queued behind the others: an ACK, or the next data packet.
LEMMA FlowQueued ==
  ASSUME NEW e, NEW n, NEW c, NEW q, NEW x, NEW w, FlowType(e, n, c, q, x, w), FlowOf(e, n, c, q, x, w),
         NEW p \in Priority, NEW pkt \in PacketsOf(n, p), NEW d, Made(e, n, d, pkt),
         \A r \in Priority : c[r] <= d[r],
         pkt.is_ack \/ (IsData(pkt) /\ pkt.seq = c[p]), d \in [Priority -> Nat]
  PROVE  FlowOf(e, n, d, [q EXCEPT ![p] = Append(@, pkt)], x, w)
<1>1. PICK r : r = [q EXCEPT ![p] = Append(@, pkt)]
  OBVIOUS
<1>2. /\ q \in QueuesOf(e, n) /\ x.pkt \in Packets /\ x.pkt.p \in Priority /\ n \in Nat
      /\ c \in [Priority -> 0 .. MaxPackets]
      /\ x.state = "burst" => x.pkt.start = n
      /\ x.live => q[x.pkt.p] # << >>
      /\ x.live \in BOOLEAN
  BY FlowPackets DEF FlowType, Transmitters
<1>3. /\ pkt \in Packets /\ pkt.p = p /\ pkt.start = n /\ ~IsRequest(pkt) /\ pkt.seq \in Nat
  BY DEF PacketsOf, Packets, PacketType, IsData, IsRequest
<1>4. PICK s : s = q[p]
  OBVIOUS
<1>5. s \in Seq(Packets) /\ Len(s) \in Nat
  BY <1>2, <1>4, QueuePackets
<1>6. PICK t : t = Append(s, pkt)
  OBVIOUS
<1>7. /\ Len(t) = Len(s) + 1 /\ t[Len(s) + 1] = pkt /\ \A k \in 1 .. Len(s) : t[k] = s[k]
      /\ \A k \in 1 .. Len(t) : (k \in 1 .. Len(s) /\ t[k] = s[k]) \/ (k = Len(s) + 1 /\ t[k] = pkt)
  BY <1>3, <1>5, <1>6, AppendProperties
<1>8. r[p] = t /\ \A i \in Priority : i # p => r[i] = q[i]
  BY <1>1, <1>2, <1>4, <1>6 DEF QueuesOf
<1>9. ASSUME NEW i \in Priority, NEW k \in 1 .. Len(r[i])
      PROVE  (k \in 1 .. Len(q[i]) /\ r[i][k] = q[i][k]) \/ (i = p /\ r[i][k] = pkt)
  BY <1>4, <1>7, <1>8
<1>10. ASSUME NEW b, b \in Packets, Made(e, n, c, b) PROVE Made(e, n, d, b)
  <2>1. b.p \in Priority /\ b.seq \in Nat
    BY <1>10 DEF Packets, PacketType
  <2>2. c[b.p] <= d[b.p] /\ c[b.p] \in Nat /\ d[b.p] \in Nat
    BY <1>2, <2>1
  <2> QED BY <1>10, <2>1, <2>2 DEF Made
<1>11. \A k \in 1 .. Len(w) : Made(e, n, d, w[k].pkt)
  BY <1>10, FlowPackets DEF FlowOf
<1>12. x.state = "burst" => Made(e, n, d, x.pkt)
  BY <1>2, <1>10 DEF FlowOf
<1>13. ASSUME NEW i \in Priority, NEW k \in 1 .. Len(r[i]) PROVE Made(e, n, d, r[i][k])
  <2>1. CASE k \in 1 .. Len(q[i]) /\ r[i][k] = q[i][k]
    BY <1>2, <1>10, <2>1, QueuePackets DEF FlowOf
  <2> QED BY <1>9, <2>1
<1>14. ASSUME NEW b, b \in Packets, Made(e, n, c, b), b.start = n, b.p = p PROVE InOrder(b, pkt)
  <2>1. ASSUME IsData(b), IsData(pkt) PROVE b.seq < pkt.seq
    <3>1. b.seq < c[p] /\ pkt.seq = c[p]
      BY <1>14, <2>1 DEF Made, IsData
    <3> QED BY <3>1
  <2> QED BY <1>3, <2>1 DEF InOrder
<1>15. ASSUME NEW i \in Priority PROVE QueueInOrder(r[i])
  <2>1. QueueInOrder(q[i])
    BY DEF FlowOf
  <2>2. CASE i # p
    BY <1>8, <2>1, <2>2
  <2>3. CASE i = p
    <3>1. ASSUME NEW j \in 1 .. Len(t), NEW k \in 1 .. Len(t), j < k PROVE InOrder(t[j], t[k])
      <4>1. j \in 1 .. Len(s) /\ t[j] = s[j]
        BY <1>5, <1>7, <3>1
      <4>2. CASE k \in 1 .. Len(s) /\ t[k] = s[k]
        BY <1>4, <2>1, <2>3, <3>1, <4>1, <4>2 DEF QueueInOrder
      <4>3. CASE t[k] = pkt
        <5>1. s[j] \in Packets /\ s[j].start = n /\ s[j].p = p
          BY <1>2, <1>4, <4>1, QueuePackets
        <5>2. Made(e, n, c, s[j])
          BY <1>4, <4>1 DEF FlowOf
        <5> QED BY <1>14, <4>1, <4>3, <5>1, <5>2
      <4> QED BY <1>7, <4>2, <4>3
    <3> QED BY <1>8, <2>3, <3>1 DEF QueueInOrder
  <2> QED BY <2>2, <2>3
<1>16. SentInOrder(r, x)
  <2> SUFFICES ASSUME x.state = "burst" PROVE SentInOrder(r, x)
    BY DEF SentInOrder
  <2>1. SentInOrder(q, x) /\ Made(e, n, c, x.pkt)
    BY DEF FlowOf
  <2>2. x.live => AsCommitted(r[x.pkt.p][1]) = AsCommitted(x.pkt)
    <3>1. ASSUME x.live PROVE r[x.pkt.p][1] = q[x.pkt.p][1]
      <4>1. x.pkt.p = p => s # << >>
        BY <1>2, <1>4, <3>1
      <4>2. x.pkt.p = p => 1 \in 1 .. Len(s)
        BY <1>5, <4>1, EmptySeq, LenProperties
      <4> QED BY <1>2, <1>4, <1>7, <1>8, <4>2
    <3> QED BY <2>1, <3>1 DEF SentInOrder
  <2>3. ~x.live => x.pkt.requires_ack /\ \A k \in 1 .. Len(r[x.pkt.p]) : InOrder(x.pkt, r[x.pkt.p][k])
    <3>1. ASSUME ~x.live, NEW k \in 1 .. Len(r[x.pkt.p]) PROVE InOrder(x.pkt, r[x.pkt.p][k])
      <4>1. CASE k \in 1 .. Len(q[x.pkt.p]) /\ r[x.pkt.p][k] = q[x.pkt.p][k]
        BY <2>1, <3>1, <4>1 DEF SentInOrder
      <4>2. CASE x.pkt.p = p /\ r[x.pkt.p][k] = pkt
        BY <1>2, <1>14, <2>1, <4>2
      <4> QED BY <1>2, <1>9, <4>1, <4>2
    <3> QED BY <2>1, <3>1 DEF SentInOrder
  <2>4. IsData(x.pkt) => \A k \in 1 .. Len(r[kHigh]) : ~IsRequest(r[kHigh][k])
    <3>1. kHigh \in Priority
      BY DEF kHigh, Priority
    <3> QED BY <1>3, <1>9, <2>1, <3>1 DEF SentInOrder
  <2> QED BY <2>2, <2>3, <2>4 DEF SentInOrder
<1>17. \A j, k \in 1 .. Len(w) : j < k => Follows(w[j], w[k].pkt)
  BY DEF FlowOf
<1>18. \A j \in 1 .. Len(w) : x.state = "burst" => Follows(w[j], x.pkt)
  BY DEF FlowOf
<1>19. ASSUME NEW j \in 1 .. Len(w), NEW i \in Priority, NEW k \in 1 .. Len(r[i])
       PROVE  Follows(w[j], r[i][k])
  <2>1. CASE k \in 1 .. Len(q[i]) /\ r[i][k] = q[i][k]
    BY <2>1 DEF FlowOf
  <2>2. CASE r[i][k] = pkt
    <3>1. w[j].pkt \in Packets /\ Made(e, n, c, w[j].pkt)
      BY FlowPackets DEF FlowOf
    <3>2. ASSUME IsData(w[j].pkt), w[j].pkt.start = n, IsData(pkt), w[j].pkt.p = p
          PROVE  w[j].pkt.seq < pkt.seq
      BY <1>14, <3>1, <3>2 DEF InOrder
    <3>3. w[j].pkt.seq \in Nat
      BY <3>1 DEF Packets, PacketType
    <3> QED BY <1>3, <2>2, <3>2, <3>3 DEF Follows
  <2> QED BY <1>9, <2>1, <2>2
<1>20. FlowOf(e, n, d, r, x, w)
  <2>1. \A i \in Priority : \A k \in 1 .. Len(r[i]) : Made(e, n, d, r[i][k])
    BY <1>13
  <2>2. \A i \in Priority : QueueInOrder(r[i])
    BY <1>15
  <2>3. \A j \in 1 .. Len(w), i \in Priority : \A k \in 1 .. Len(r[i]) : Follows(w[j], r[i][k])
    BY <1>19
  <2> QED BY <1>11, <1>12, <1>16, <1>17, <1>18, <2>1, <2>2, <2>3 DEF FlowOf
<1> QED BY <1>1, <1>20

\* The first packet of the highest priority is sent.
LEMMA FlowStarted ==
  ASSUME NEW e, NEW n, NEW c, NEW q, NEW x, NEW w, FlowType(e, n, c, q, x, w), FlowOf(e, n, c, q, x, w),
         NEW p \in Priority, q[p] # << >>, \A i \in Priority : q[i] # << >> => p <= i,
         NEW y, y.pkt = Head(q[p]), y.live = TRUE
  PROVE  FlowOf(e, n, c, q, y, w)
<1>1. PICK s : s = q[p]
  OBVIOUS
<1>2. q \in QueuesOf(e, n)
  BY DEF FlowType
<1>3. s \in Seq(Packets) /\ \A k \in 1 .. Len(s) : s[k] \in Packets /\ s[k].p = p /\ s[k].start = n
  BY <1>1, <1>2, QueuePackets
<1>4. 1 \in 1 .. Len(s) /\ y.pkt = s[1] /\ y.pkt.p = p
  BY <1>1, <1>3, HeadTailProperties, LenProperties, EmptySeq
<1>5. Made(e, n, c, y.pkt) /\ QueueInOrder(s)
  BY <1>1, <1>4 DEF FlowOf
<1>6. ASSUME IsData(y.pkt), NEW k \in 1 .. Len(q[kHigh]) PROVE ~IsRequest(q[kHigh][k])
  <2>1. p # 0 /\ kHigh \in Priority
    BY <1>4, <1>5, <1>6 DEF Made, kHigh, Priority
  <2>2. q[kHigh] # << >>
    <3>1. q[kHigh] \in Seq(Packets)
      BY <1>2, <2>1, QueuePackets
    <3> QED BY <1>6, <3>1
  <2>3. p = kHigh
    BY <2>1, <2>2 DEF kHigh, Priority
  <2>4. CASE k = 1
    BY <1>1, <1>4, <1>6, <2>3, <2>4 DEF IsData, IsRequest
  <2>5. CASE k # 1
    <3>1. 1 < k
      BY <1>6, <2>5
    <3> QED BY <1>1, <1>4, <1>5, <1>6, <2>3, <3>1 DEF QueueInOrder, InOrder
  <2> QED BY <2>4, <2>5
<1>7. SentInOrder(q, y)
  BY <1>1, <1>4, <1>6 DEF SentInOrder
<1>8. \A j \in 1 .. Len(w) : Follows(w[j], y.pkt)
  BY <1>1, <1>4 DEF FlowOf
<1> QED BY <1>5, <1>7, <1>8 DEF FlowOf

\* A reliable packet leaves the queue because of an ACK, also while it is sent.
LEMMA FlowAcked ==
  ASSUME NEW e, NEW n, NEW c, NEW q, NEW x, NEW w, FlowType(e, n, c, q, x, w), FlowOf(e, n, c, q, x, w),
         NEW p \in Priority, q[p] # << >>, q[p][1].requires_ack,
         NEW y, y.state = x.state, y.pkt = x.pkt, y.live <=> (x.live /\ x.pkt.p # p)
  PROVE  FlowOf(e, n, c, [q EXCEPT ![p] = Tail(@)], y, w)
<1>1. PICK r : r = [q EXCEPT ![p] = Tail(@)]
  OBVIOUS
<1>2. PICK s : s = q[p]
  OBVIOUS
<1>3. PICK t : t = Tail(s)
  OBVIOUS
<1>4. q \in QueuesOf(e, n) /\ x.pkt \in Packets /\ x.pkt.p \in Priority
  BY FlowPackets DEF FlowType
<1>5. s \in Seq(Packets) /\ Len(s) \in Nat /\ s # << >> /\ 1 \in 1 .. Len(s)
      /\ s[1] \in Packets
  BY <1>2, <1>4, QueuePackets, LenProperties, EmptySeq
<1>6. t \in Seq(Packets) /\ Len(t) = Len(s) - 1 /\ \A k \in 1 .. Len(t) : t[k] = s[k + 1] /\ k + 1 \in 1 .. Len(s)
  BY <1>3, <1>5, HeadTailProperties
<1>7. r[p] = t /\ \A i \in Priority : i # p => r[i] = q[i]
  BY <1>1, <1>2, <1>3, <1>4 DEF QueuesOf
<1>8. ASSUME NEW i \in Priority, NEW k \in 1 .. Len(r[i])
      PROVE  \E j \in 1 .. Len(q[i]) : r[i][k] = q[i][j] /\ (i = p => j # 1)
  <2>1. CASE i = p
    <3>1. k \in 1 .. Len(t) /\ k + 1 # 1
      BY <1>7, <2>1
    <3> QED BY <1>2, <1>6, <1>7, <2>1, <3>1
  <2>2. CASE i # p
    BY <1>7, <2>2
  <2> QED BY <2>1, <2>2
<1>9. \A i \in Priority : \A k \in 1 .. Len(r[i]) : Made(e, n, c, r[i][k])
  BY <1>8 DEF FlowOf
<1>10. \A j \in 1 .. Len(w), i \in Priority : \A k \in 1 .. Len(r[i]) : Follows(w[j], r[i][k])
  BY <1>8 DEF FlowOf
<1>11. ASSUME NEW i \in Priority PROVE QueueInOrder(r[i])
  <2>1. QueueInOrder(q[i])
    BY DEF FlowOf
  <2>2. CASE i = p
    <3>1. QueueInOrder(t)
      BY <1>2, <1>5, <1>6, <2>1, <2>2 DEF QueueInOrder
    <3> QED BY <1>7, <2>2, <3>1
  <2>3. CASE i # p
    BY <1>7, <2>1, <2>3
  <2> QED BY <2>2, <2>3
<1>12. SentInOrder(r, y)
  <2> SUFFICES ASSUME x.state = "burst" PROVE SentInOrder(r, y)
    BY DEF SentInOrder
  <2>1. SentInOrder(q, x) /\ QueueInOrder(s)
    BY <1>2 DEF FlowOf
  <2>2. x.live /\ x.pkt.p # p => AsCommitted(r[x.pkt.p][1]) = AsCommitted(x.pkt)
    BY <1>4, <1>7, <2>1 DEF SentInOrder
  <2>3. ASSUME ~(x.live /\ x.pkt.p # p)
        PROVE  x.pkt.requires_ack /\ \A k \in 1 .. Len(r[x.pkt.p]) : InOrder(x.pkt, r[x.pkt.p][k])
    <3>1. CASE ~x.live
      <4>1. x.pkt.requires_ack /\ \A k \in 1 .. Len(q[x.pkt.p]) : InOrder(x.pkt, q[x.pkt.p][k])
        BY <2>1, <3>1 DEF SentInOrder
      <4> QED BY <1>4, <1>8, <4>1
    <3>2. CASE x.live /\ x.pkt.p = p
      <4>1. Same(s[1], x.pkt)
        BY <1>2, <2>1, <3>2 DEF SentInOrder, Same
      <4>2. /\ s[1].seq = x.pkt.seq /\ s[1].requires_ack = x.pkt.requires_ack
            /\ (IsData(s[1]) <=> IsData(x.pkt))
        BY <1>4, <1>5, <4>1, SamePacket
      <4>3. ASSUME NEW k \in 1 .. Len(t) PROVE InOrder(x.pkt, t[k])
        <5>1. k + 1 \in 1 .. Len(s) /\ 1 < k + 1 /\ t[k] = s[k + 1]
          BY <1>6
        <5>2. InOrder(s[1], s[k + 1])
          BY <1>5, <2>1, <5>1 DEF QueueInOrder
        <5> QED BY <4>2, <5>1, <5>2 DEF InOrder
      <4> QED BY <1>2, <1>7, <3>2, <4>2, <4>3
    <3> QED BY <2>3, <3>1, <3>2
  <2>4. IsData(x.pkt) => \A k \in 1 .. Len(r[kHigh]) : ~IsRequest(r[kHigh][k])
    <3>1. kHigh \in Priority
      BY DEF kHigh, Priority
    <3> QED BY <1>8, <2>1, <3>1 DEF SentInOrder
  <2> QED BY <2>2, <2>3, <2>4 DEF SentInOrder
<1>13. FlowOf(e, n, c, r, y, w)
  <2>1. \A i \in Priority : QueueInOrder(r[i])
    BY <1>11
  <2> QED BY <1>9, <1>10, <1>12, <2>1 DEF FlowOf
<1> QED BY <1>1, <1>13

\* A new start: only what is on the wire is left of the earlier ones.
LEMMA FlowRestarted ==
  ASSUME NEW e \in Ends, NEW n \in Nat, NEW c, NEW q, NEW x, NEW w, FlowOf(e, n, c, q, x, w),
         w \in Seq(Fragments), Ordered(w, n), NEW d
  PROVE  FlowOf(e, n + 1, d, Queues(InitPacket(e, n + 1)), IdleTx, w)
<1>0. PICK m \in Nat : m = n + 1
  OBVIOUS
<1>1. PICK init : m = n + 1 /\ init = InitPacket(e, m)
  BY <1>0
<1>2. init \in Packets /\ init.start = m /\ init.p = kHigh
  BY <1>1, HandshakePacket DEF PacketsOf
<1>3. init.from = e /\ IsRequest(init) /\ init.requires_ack /\ ~init.is_ack /\ ~IsData(init)
  BY <1>1 DEF InitPacket, Packet, IsRequest, IsData
<1>4. Made(e, m, d, init)
  BY <1>1, <1>2, <1>3 DEF Made, IsDataAck, IsAnswer
<1>5. PICK r : r = Queues(init)
  OBVIOUS
<1>6. /\ \A p \in Priority : \A k \in 1 .. Len(r[p]) : r[p][k] = init
      /\ \A p \in Priority : Len(r[p]) = 0 \/ Len(r[p]) = 1
  <2>1. \A p \in Priority : r[p] = IF p = kHigh THEN <<init>> ELSE << >>
    BY <1>5 DEF Queues
  <2>2. Len(<<init>>) = 1 /\ <<init>>[1] = init /\ Len(<< >>) = 0
    OBVIOUS
  <2> QED BY <2>1, <2>2
<1>7. ASSUME NEW k \in 1 .. Len(w)
      PROVE  /\ w[k].pkt \in Packets /\ w[k].pkt.start \in Nat /\ w[k].pkt.start <= n
             /\ Made(e, n, c, w[k].pkt)
  <2>1. w[k] \in Fragments
    OBVIOUS
  <2> QED BY <2>1 DEF Fragments, Packets, PacketType, Ordered, FlowOf
<1>8. ASSUME NEW k \in 1 .. Len(w) PROVE Made(e, m, d, w[k].pkt)
  BY <1>1, <1>7 DEF Made
<1>9. ASSUME NEW k \in 1 .. Len(w) PROVE Follows(w[k], init)
  BY <1>1, <1>2, <1>7 DEF Follows
<1>10. FlowOf(e, m, d, r, IdleTx, w)
  <2>1. \A p \in Priority : QueueInOrder(r[p])
    BY <1>6 DEF QueueInOrder
  <2>2. \A j, k \in 1 .. Len(w) : j < k => Follows(w[j], w[k].pkt)
    BY DEF FlowOf
  <2>3. SentInOrder(r, IdleTx) /\ IdleTx.state # "burst"
    BY DEF SentInOrder, IdleTx
  <2> QED BY <1>4, <1>6, <1>8, <1>9, <2>1, <2>2, <2>3 DEF FlowOf
<1> QED BY <1>1, <1>5, <1>10

-----------------------------------------------------------------------------
(* The flows of both ends, step by step.                                     *)

LEMMA FlowTyped ==
  ASSUME IInv, NEW e \in Ends
  PROVE  FlowType(e, start[e], seqNo[e], out[e], tx[e], wire[e])
<1>1. seqNo[e] \in [Priority -> 0 .. MaxPackets]
  BY DEF IInv, CounterInv
<1>2. wire[e] \in Seq(Fragments) /\ Ordered(wire[e], start[e])
  BY WireFacts
<1>3. Sending(e) /\ tx[e] \in Transmitters /\ start[e] \in Nat
  BY QueueFacts DEF IInv, OutputInv
<1> QED BY <1>1, <1>2, <1>3 DEF FlowType, Sending

\* A step of an end that leaves its queues and what it sends alone.
LEMMA FlowKept ==
  ASSUME IInv, FlowInv, NEW e \in Ends,
         out'[e] = out[e], start'[e] = start[e], seqNo'[e] = seqNo[e],
         tx'[e].state = tx[e].state, tx'[e].pkt = tx[e].pkt, tx'[e].live = tx[e].live,
         Within(wire'[e], wire[e])
  PROVE  Flow(e)'
<1>1. FlowOf(e, start[e], seqNo[e], out[e], tx[e], wire'[e])
  BY FlowTyped, FlowThinned DEF FlowInv, Flow
<1>2. FlowOf(e, start[e], seqNo[e], out[e], tx'[e], wire'[e])
  BY <1>1, FlowSending
<1> QED BY <1>2 DEF Flow

LEMMA FlowSame ==
  ASSUME IInv, FlowInv, NEW e \in Ends,
         out'[e] = out[e], start'[e] = start[e], seqNo'[e] = seqNo[e], tx'[e] = tx[e], wire'[e] = wire[e]
  PROVE  Flow(e)'
BY WithinItself, WireFacts, FlowKept

LEMMA FlowUnchanged ==
  ASSUME IInv, FlowInv, UNCHANGED <<out, start, seqNo, tx, wire>>
  PROVE  FlowInv'
BY FlowSame DEF FlowInv

LEMMA Mapped ==
  ASSUME IInv, NEW e \in Ends, NEW v
  PROVE  /\ [wire EXCEPT ![e] = v][e] = v /\ \A d \in Ends : d # e => [wire EXCEPT ![e] = v][d] = wire[d]
         /\ [out EXCEPT ![e] = v][e] = v /\ \A d \in Ends : d # e => [out EXCEPT ![e] = v][d] = out[d]
         /\ [tx EXCEPT ![e] = v][e] = v /\ \A d \in Ends : d # e => [tx EXCEPT ![e] = v][d] = tx[d]
         /\ [seqNo EXCEPT ![e] = v][e] = v /\ \A d \in Ends : d # e => [seqNo EXCEPT ![e] = v][d] = seqNo[d]
         /\ [start EXCEPT ![e] = v][e] = v /\ \A d \in Ends : d # e => [start EXCEPT ![e] = v][d] = start[d]
         /\ [input EXCEPT ![e] = v][e] = v /\ \A d \in Ends : d # e => [input EXCEPT ![e] = v][d] = input[d]
<1>1. /\ wire \in [Ends -> Seq(Fragments)] /\ out \in [Ends -> [Priority -> Seq(Packets)]]
      /\ tx \in [Ends -> Transmitters] /\ seqNo \in [Ends -> [Priority -> 0 .. MaxPackets]]
      /\ start \in [Ends -> Nat] /\ input \in [Ends -> Inputs]
  BY DEF IInv, StartInv, CounterInv, OutputInv, LinkInv
<1> QED BY <1>1

LEMMA QueuesSet ==
  ASSUME IInv, NEW e \in Ends, NEW v, out' = [out EXCEPT ![e] = v]
  PROVE  out'[e] = v /\ \A d \in Ends : d # e => out'[d] = out[d]
BY Mapped

LEMMA TransmitterSet ==
  ASSUME IInv, NEW e \in Ends, NEW v, tx' = [tx EXCEPT ![e] = v]
  PROVE  tx'[e] = v /\ \A d \in Ends : d # e => tx'[d] = tx[d]
BY Mapped

LEMMA WireSet ==
  ASSUME IInv, NEW e \in Ends, NEW v, wire' = [wire EXCEPT ![e] = v]
  PROVE  wire'[e] = v /\ \A d \in Ends : d # e => wire'[d] = wire[d]
BY Mapped

LEMMA InputSet ==
  ASSUME IInv, NEW e \in Ends, NEW v, input' = [input EXCEPT ![e] = v]
  PROVE  input'[e] = v /\ \A d \in Ends : d # e => input'[d] = input[d]
BY Mapped

LEMMA CommitFlow ==
  ASSUME IInv, FlowInv, NEW t \in Traffic, Commit(t)
  PROVE  FlowInv'
<1> DEFINE e == t.from
           n == start[e]
           p == t.p
<1>1. e \in Ends /\ p \in Priority /\ p # 0 /\ t.requires_ack \in BOOLEAN /\ t.total \in Nat
  BY TrafficAssumption DEF Priority
<1>2. PICK m \in 0 .. MaxPackets : m = seqNo[e][p]
  BY <1>1 DEF IInv, CounterInv
<1>3. m < MaxPackets /\ m \in Nat /\ m + 1 \in 0 .. MaxPackets
  BY <1>2, BoundsAssumption DEF Commit
<1>4. PICK pkt \in PacketsOf(n, p) : pkt = Packet(e, n, p, m, t.requires_ack, t.total)
  <2>1. Packet(e, n, p, m, t.requires_ack, t.total) \in PacketsOf(n, p)
    BY <1>1, <1>3, QueueFacts, DataPacket
  <2> QED BY <2>1
<1>5. PICK q : q = [out[e] EXCEPT ![p] = Append(@, pkt)]
  OBVIOUS
<1>6. PICK d : d = [seqNo[e] EXCEPT ![p] = m + 1]
  OBVIOUS
<1>7. out' = [out EXCEPT ![e] = q] /\ seqNo' = [seqNo EXCEPT ![e] = d]
      /\ UNCHANGED <<tx, wire, start>>
  BY <1>2, <1>4, <1>5, <1>6 DEF Commit, linkVars, sessionVars
<1>8. seqNo[e] \in [Priority -> 0 .. MaxPackets]
  BY <1>1 DEF IInv, CounterInv
<1>9. d \in [Priority -> Nat] /\ d[p] = m + 1 /\ \A r \in Priority : seqNo[e][r] <= d[r]
  BY <1>1, <1>2, <1>3, <1>6, <1>8
<1>10. pkt.from = e /\ pkt.start = n /\ pkt.p = p /\ pkt.seq = m /\ IsData(pkt) /\ ~pkt.is_ack /\ ~pkt.is_init
  BY <1>4 DEF Packet, IsData
<1>11. Made(e, n, d, pkt)
  <2>1. n \in Nat
    BY <1>1, QueueFacts
  <2> QED BY <1>1, <1>3, <1>9, <1>10, <2>1 DEF Made, IsRequest, IsDataAck, IsAnswer
<1> HIDE DEF e, n, p
<1>12. FlowType(e, n, seqNo[e], out[e], tx[e], wire[e]) /\ FlowOf(e, n, seqNo[e], out[e], tx[e], wire[e])
  BY <1>1, FlowTyped DEF FlowInv, Flow, n
<1>13. FlowOf(e, n, d, q, tx[e], wire[e])
  BY <1>1, <1>2, <1>5, <1>9, <1>10, <1>11, <1>12, FlowQueued
<1>14. Flow(e)'
  <2>1. out'[e] = q /\ seqNo'[e] = d
    BY <1>1, <1>7, Mapped
  <2> QED BY <1>7, <1>13, <2>1 DEF Flow, n
<1>15. ASSUME NEW c \in Ends, c # e PROVE Flow(c)'
  <2>1. out'[c] = out[c] /\ seqNo'[c] = seqNo[c]
    BY <1>1, <1>7, <1>15, Mapped
  <2> QED BY <1>7, <2>1, FlowSame
<1> QED BY <1>14, <1>15 DEF FlowInv

LEMMA StartPacketFlow ==
  ASSUME IInv, FlowInv, NEW e \in Ends, StartPacket(e)
  PROVE  FlowInv'
<1>1. PICK p \in Priority : /\ p = OldestPriority(e) /\ out[e][p] # << >>
                            /\ \A i \in Priority : out[e][i] # << >> => p <= i
  <2>1. \E p \in Queued(e) : \A i \in Queued(e) : p <= i
    <3>1. Queued(e) # {} /\ Queued(e) \subseteq 0 .. 3
      BY DEF StartPacket, Queued, Priority
    <3> QED BY <3>1
  <2>2. OldestPriority(e) \in Queued(e) /\ \A i \in Queued(e) : OldestPriority(e) <= i
    BY <2>1 DEF OldestPriority
  <2> QED BY <2>2 DEF Queued
<1>2. PICK y : /\ y = [state |-> "burst", pkt |-> Head(out[e][p]), live |-> TRUE,
                       pending |-> Head(out[e][p]).length + 1, units |-> 0]
  OBVIOUS
<1>3. tx' = [tx EXCEPT ![e] = y] /\ UNCHANGED <<out, seqNo, wire, start>>
  BY <1>1, <1>2 DEF StartPacket, linkVars, sessionVars
<1>4. FlowOf(e, start[e], seqNo[e], out[e], y, wire[e])
  <2>1. FlowOf(e, start[e], seqNo[e], out[e], tx[e], wire[e])
    BY DEF FlowInv, Flow
  <2>2. y.pkt = Head(out[e][p]) /\ y.live = TRUE
    BY <1>2
  <2> QED BY <1>1, <2>1, <2>2, FlowTyped, FlowStarted
<1>5. Flow(e)'
  BY <1>3, <1>4, Mapped DEF Flow
<1>6. ASSUME NEW c \in Ends, c # e PROVE Flow(c)'
  BY <1>3, <1>6, Mapped, FlowSame
<1> QED BY <1>5, <1>6 DEF FlowInv

LEMMA SendUnitFlow ==
  ASSUME IInv, FlowInv, NEW e \in Ends, SendUnit(e)
  PROVE  FlowInv'
<1>1. PICK x : x = [tx[e] EXCEPT !.pending = @ - 1, !.units = @ + 1]
  OBVIOUS
<1>2. tx' = [tx EXCEPT ![e] = x]
  <2>1. tx \in [Ends -> Transmitters]
    BY DEF IInv, OutputInv
  <2> QED BY <1>1, <2>1 DEF SendUnit
<1>3. x.state = tx[e].state /\ x.pkt = tx[e].pkt /\ x.live = tx[e].live
  BY <1>1, QueueFacts DEF Transmitters
<1>4. UNCHANGED <<out, seqNo, wire, start>>
  BY DEF SendUnit, linkVars, sessionVars
<1>5. Flow(e)'
  BY <1>2, <1>3, <1>4, Mapped, WithinItself, WireFacts, FlowKept
<1>6. ASSUME NEW c \in Ends, c # e PROVE Flow(c)'
  BY <1>2, <1>4, <1>6, Mapped, FlowSame
<1> QED BY <1>5, <1>6 DEF FlowInv

\* The link takes, loses or damages fragments.
LEMMA ThinnedFlow ==
  ASSUME IInv, FlowInv, NEW e \in Ends, NEW v, wire' = [wire EXCEPT ![e] = v], Within(v, wire[e]),
         UNCHANGED <<out, seqNo, tx, start>>
  PROVE  FlowInv'
<1>1. Flow(e)'
  BY Mapped, FlowKept
<1>2. ASSUME NEW c \in Ends, c # e PROVE Flow(c)'
  BY <1>2, Mapped, FlowSame
<1> QED BY <1>1, <1>2 DEF FlowInv

LEMMA LoseFlow ==
  ASSUME IInv, FlowInv, NEW e \in Ends, Lose(e)
  PROVE  FlowInv'
<1>1. Within(Tail(wire[e]), wire[e])
  BY WireFacts, WithinTail DEF Lose
<1>2. wire' = [wire EXCEPT ![e] = Tail(wire[e])] /\ UNCHANGED <<out, seqNo, tx, start>>
  BY DEF Lose, outVars, sessionVars
<1> QED BY <1>1, <1>2, ThinnedFlow

LEMMA CorruptFlow ==
  ASSUME IInv, FlowInv, NEW e \in Ends, Corrupt(e)
  PROVE  FlowInv'
<1>1. PICK v : v = [wire[e] EXCEPT ![1].intact = FALSE]
  OBVIOUS
<1>2. Within(v, wire[e])
  BY <1>1, WireFacts, WithinDamaged DEF Corrupt
<1>3. wire' = [wire EXCEPT ![e] = v] /\ UNCHANGED <<out, seqNo, tx, start>>
  <2>1. wire \in [Ends -> Seq(Fragments)]
    BY DEF IInv, LinkInv
  <2> QED BY <1>1, <2>1 DEF Corrupt, outVars, sessionVars
<1> QED BY <1>2, <1>3, ThinnedFlow

LEMMA ReadHeaderFlow ==
  ASSUME IInv, FlowInv, NEW e \in Ends, ReadHeader(e)
  PROVE  FlowInv'
<1>1. PICK o \in Ends : o = Other(e)
  BY OtherEnd
<1>2. UNCHANGED <<out, seqNo, tx, start>>
  BY DEF ReadHeader, outVars, sessionVars
<1>3. wire' = wire \/ wire' = [wire EXCEPT ![o] = Tail(wire[o])]
  BY <1>1 DEF ReadHeader
<1>4. Within(Tail(wire[o]), wire[o])
  BY <1>1, WireFacts, WithinTail DEF ReadHeader
<1> QED BY <1>2, <1>3, <1>4, FlowUnchanged, ThinnedFlow

LEMMA PreemptSends ==
  ASSUME IInv, NEW e \in Ends, Preempt(e)
  PROVE  \E f \in Fragments, q \in QueuesOf(e, start[e]) : SentOn(e, f, q)
<1>1. PICK units \in Nat : units = tx[e].units + 1
  BY QueueFacts DEF Transmitters
<1>2. PICK f \in Fragments : f = Fragment(tx[e].pkt, units, FALSE)
  BY QueueFacts, FragmentType
<1>3. f.pkt = tx[e].pkt /\ f.footer = FALSE
  BY <1>2 DEF Fragment
<1>4. PICK q \in QueuesOf(e, start[e]), left \in Nat :
        /\ out' = [out EXCEPT ![e] = q]
        /\ \/ ~tx[e].live /\ q = out[e]
           \/ /\ tx[e].live /\ out[e][tx[e].pkt.p] # << >>
              /\ q = [out[e] EXCEPT ![tx[e].pkt.p] =
                        [out[e][tx[e].pkt.p] EXCEPT ![1].is_continuation = TRUE, ![1].length = left]]
  BY PreemptedQueues
<1>5. PICK i \in Priority : i = tx[e].pkt.p
  BY QueueFacts
<1>6. out[e] \in QueuesOf(e, start[e])
  BY QueueFacts
<1>7. ASSUME NEW p \in Priority
      PROVE  PartOf(q[p], out[e][p]) /\ Len(q[p]) = Len(out[e][p])
             /\ \A k \in 1 .. Len(q[p]) : Same(q[p][k], out[e][p][k])
  <2>1. PICK s : s = out[e][p]
    OBVIOUS
  <2>2. s \in Seq(Packets)
    BY <1>6, <2>1, QueuePackets
  <2>3. CASE q[p] = s
    BY <2>1, <2>3, PartOfItself DEF Same
  <2>4. CASE s # << >> /\ q[p] = [s EXCEPT ![1].is_continuation = TRUE, ![1].length = left]
    <3>1. q[p] = Resumed(s, TRUE, left) /\ TRUE \in BOOLEAN
      BY <2>4 DEF Resumed
    <3> QED BY <2>1, <2>2, <2>4, <3>1, PartOfContinued
  <2>5. q[p] = s \/ (s # << >> /\ q[p] = [s EXCEPT ![1].is_continuation = TRUE, ![1].length = left])
    BY <1>4, <1>5, <1>6, <2>1 DEF QueuesOf
  <2> QED BY <2>3, <2>4, <2>5
<1>8. ASSUME NEW k \in 1 .. Len(out[e][kHigh]), IsRequest(out[e][kHigh][k])
      PROVE  IsRequest(q[kHigh][k]) /\ k \in 1 .. Len(q[kHigh])
  <2>1. kHigh \in Priority
    BY DEF kHigh, Priority
  <2>2. k \in 1 .. Len(q[kHigh]) /\ Same(q[kHigh][k], out[e][kHigh][k])
    BY <1>7, <2>1
  <2>3. q[kHigh][k] \in Packets /\ out[e][kHigh][k] \in Packets
    BY <1>6, <2>1, <2>2, QueuePackets
  <2> QED BY <1>8, <2>2, <2>3, SamePacket
<1>9. /\ tx[e].state = "burst"
      /\ wire' = [wire EXCEPT ![e] = Append(@, f)]
      /\ tx' = [tx EXCEPT ![e] = IdleTx]
      /\ UNCHANGED <<seqNo, faults, input, sessionVars, observed>>
  BY <1>1, <1>2 DEF Preempt
<1>10. SentOn(e, f, q)
  BY <1>3, <1>4, <1>7, <1>8, <1>9 DEF SentOn
<1> QED BY <1>10

\* What is left of one queue when an answer to a handshake was sent.
StartsOver(t, s, pkt) ==
  /\ PartOf(t, s)
  /\ \A k \in 1 .. Len(t) : t[k].is_ack => t[k].seq = pkt.seq
  /\ \A k \in 1 .. Len(s) : IsRequest(s[k]) => \E j \in 1 .. Len(t) : IsRequest(t[j])

LEMMA ResetQueue ==
  ASSUME NEW s \in Seq(Packets), NEW pkt, Whole(Selected(s, StillValid(s, pkt))) \in Seq(Packets)
  PROVE  StartsOver(Whole(Selected(s, StillValid(s, pkt))), s, pkt)
<1>0. PICK r \in Seq(Packets), t \in Seq(Packets) : r = Selected(s, StillValid(s, pkt)) /\ t = Whole(r)
  BY SelectedQueue
<1>1. PICK at : at = StillValid(s, pkt)
  OBVIOUS
<1>2. r = Selected(s, at)
  BY <1>0, <1>1
<1>3. IsSelection(r, s, at)
  BY <1>2, SelectedFrom
<1>4. PartOf(r, s)
  BY <1>2, PartOfSelected
<1>5. \A k \in 1 .. Len(r) : r[k].is_ack => r[k].seq = pkt.seq
  <2> SUFFICES ASSUME NEW k \in 1 .. Len(r) PROVE r[k].is_ack => r[k].seq = pkt.seq
    OBVIOUS
  <2>1. PICK i \in StillValid(s, pkt) : r[k] = s[i]
    BY <1>1, <1>3 DEF IsSelection
  <2> QED BY <2>1 DEF StillValid
<1>6. ASSUME NEW i \in 1 .. Len(s), IsRequest(s[i]) PROVE \E k \in 1 .. Len(r) : IsRequest(r[k])
  <2>1. i \in at
    BY <1>1, <1>6 DEF StillValid, IsRequest
  <2> QED BY <1>3, <1>6, <2>1 DEF IsSelection
<1>7. PartOf(t, r) /\ Len(t) = Len(r) /\ \A k \in 1 .. Len(r) : Same(t[k], r[k])
  <2>1. CASE r = << >>
    <3>1. t = r
      BY <1>0, <2>1 DEF Whole
    <3> QED BY <3>1, PartOfItself DEF Same
  <2>2. CASE r # << >>
    <3>1. 1 \in 1 .. Len(r) /\ r[1] \in Packets
      BY <1>2, <2>2, LenProperties, EmptySeq
    <3>2. PICK length \in Nat : length = r[1].total
      BY <3>1 DEF Packets, PacketType
    <3>3. t = Resumed(r, FALSE, length) /\ FALSE \in BOOLEAN
      BY <1>0, <2>2, <3>2 DEF Whole
    <3> QED BY <1>2, <2>2, <3>3, PartOfContinued
  <2> QED BY <2>1, <2>2
<1>8. PartOf(t, s)
  <2>1. Len(s) \in Nat /\ Len(r) \in Nat /\ Len(t) \in Nat
    BY LenProperties
  <2> QED BY <1>4, <1>7, <2>1, PartOfPart
<1>9. \A k \in 1 .. Len(t) : t[k] \in Packets /\ r[k] \in Packets
  <2>1. PICK v \in Seq(Packets), w \in Seq(Packets) : v = t /\ w = r
    OBVIOUS
  <2>2. (\A k \in 1 .. Len(v) : v[k] \in Packets) /\ (\A k \in 1 .. Len(w) : w[k] \in Packets)
    OBVIOUS
  <2> QED BY <1>7, <2>1, <2>2
<1>10. ASSUME NEW k \in 1 .. Len(t)
       PROVE  t[k].is_ack = r[k].is_ack /\ t[k].seq = r[k].seq /\ (IsRequest(t[k]) <=> IsRequest(r[k]))
  <2>1. Same(t[k], r[k])
    BY <1>7
  <2> QED BY <1>9, <2>1, SamePacket
<1> QED BY <1>0, <1>5, <1>6, <1>7, <1>8, <1>10 DEF StartsOver

LEMMA FinishSends ==
  ASSUME IInv, FlowInv, NEW e \in Ends, FinishPacket(e)
  PROVE  \E f \in Fragments, q \in QueuesOf(e, start[e]) : SentOn(e, f, q)
<1>1. PICK pkt \in Packets : pkt = tx[e].pkt
  BY QueueFacts
<1>2. pkt.p \in Priority /\ tx[e].units \in Nat /\ tx[e].state = "burst"
  BY <1>1, QueueFacts DEF FinishPacket, Transmitters
<1>3. PICK f \in Fragments : f = Fragment(pkt, tx[e].units, TRUE)
  <2>1. TRUE \in BOOLEAN
    OBVIOUS
  <2> QED BY <1>2, <2>1, FragmentType
<1>4. f.pkt = pkt /\ f.footer
  BY <1>3 DEF Fragment
<1>5. PICK queues \in QueuesOf(e, start[e]) :
        queues = IF pkt.is_init /\ pkt.is_ack THEN ResetOutputSession(out[e], pkt) ELSE out[e]
  BY QueueFacts, ResetQueues
<1>6. PICK q \in QueuesOf(e, start[e]) :
        q = IF ShouldConsume(pkt) THEN [queues EXCEPT ![pkt.p] = DropHead(@)] ELSE queues
  BY <1>2, <1>5, QueueDropped
<1>7. /\ out' = [out EXCEPT ![e] = q] /\ tx' = [tx EXCEPT ![e] = IdleTx]
      /\ wire' = [wire EXCEPT ![e] = Append(@, f)]
      /\ UNCHANGED <<seqNo, faults, input, sessionVars, observed>>
  BY <1>1, <1>3, <1>5, <1>6 DEF FinishPacket
<1>8. out[e] \in QueuesOf(e, start[e]) /\ kHigh \in Priority
  BY QueueFacts DEF kHigh, Priority
<1>9. ASSUME NEW p \in Priority
      PROVE  /\ PartOf(queues[p], out[e][p])
             /\ IsAnswer(pkt) => \A k \in 1 .. Len(queues[p]) : queues[p][k].is_ack => queues[p][k].seq = pkt.seq
             /\ \A k \in 1 .. Len(out[e][p]) : IsRequest(out[e][p][k]) =>
                  \E j \in 1 .. Len(queues[p]) : IsRequest(queues[p][j])
  <2>1. CASE IsAnswer(pkt)
    <3>1. queues = ResetOutputSession(out[e], pkt)
      BY <1>5, <2>1 DEF IsAnswer
    <3>2. PICK s \in Seq(Packets) : s = out[e][p]
      BY <1>8, QueuePackets
    <3>3. queues[p] = Whole(Selected(s, StillValid(s, pkt)))
      BY <3>1, <3>2 DEF ResetOutputSession, Whole, Resumed
    <3>4. queues[p] \in Seq(Packets)
      BY <1>5, QueuePackets
    <3>5. StartsOver(queues[p], s, pkt)
      BY <3>3, <3>4, ResetQueue
    <3> QED BY <3>2, <3>5 DEF StartsOver
  <2>2. CASE ~IsAnswer(pkt)
    <3>1. queues = out[e]
      BY <1>5, <2>2 DEF IsAnswer
    <3> QED BY <2>2, <3>1, PartOfItself
  <2> QED BY <2>1, <2>2
<1>10. \A p \in Priority : queues[p] \in Seq(Packets) /\ q[p] \in Seq(Packets) /\ out[e][p] \in Seq(Packets)
  BY <1>8, QueuePackets
<1>11. \A p \in Priority : p # pkt.p => q[p] = queues[p]
  BY <1>2, <1>6 DEF QueuesOf
<1>12. CASE pkt.requires_ack
  <2>1. q = queues
    BY <1>6, <1>12 DEF ShouldConsume
  <2>2. SentOn(e, f, q)
    BY <1>1, <1>2, <1>4, <1>7, <1>8, <1>9, <1>12, <2>1 DEF SentOn
  <2> QED BY <2>2
<1>13. CASE ~pkt.requires_ack
  <2>1. q[pkt.p] = DropHead(queues[pkt.p])
    BY <1>2, <1>6, <1>13 DEF ShouldConsume, QueuesOf
  <2>2. /\ PartOf(q[pkt.p], queues[pkt.p])
        /\ \A k \in 1 .. Len(q[pkt.p]) : \E j \in 1 .. Len(queues[pkt.p]) : q[pkt.p][k] = queues[pkt.p][j]
    <3>1. CASE queues[pkt.p] = << >>
      BY <2>1, <3>1, PartOfItself DEF DropHead
    <3>2. CASE queues[pkt.p] # << >>
      <4>1. PICK s \in Seq(Packets) : s = queues[pkt.p] /\ q[pkt.p] = Tail(s) /\ s # << >>
        BY <1>2, <1>10, <2>1, <3>2 DEF DropHead
      <4>2. PartOf(Tail(s), s)
        BY <4>1, PartOfTail
      <4>3. Len(Tail(s)) = Len(s) - 1 /\ Len(s) \in Nat /\ \A k \in 1 .. Len(Tail(s)) : Tail(s)[k] = s[k + 1]
        BY <4>1, HeadTailProperties
      <4>4. \A k \in 1 .. Len(Tail(s)) : k + 1 \in 1 .. Len(s)
        BY <4>3
      <4> QED BY <4>1, <4>2, <4>3, <4>4
    <3> QED BY <3>1, <3>2
  <2>3. ASSUME NEW p \in Priority PROVE PartOf(q[p], out[e][p])
    <3>1. PartOf(queues[p], out[e][p]) /\ PartOf(q[p], queues[p])
      BY <1>9, <1>11, <2>2, PartOfItself
    <3>2. Len(q[p]) \in Nat /\ Len(queues[p]) \in Nat /\ Len(out[e][p]) \in Nat
      BY <1>10, LenProperties
    <3> QED BY <3>1, <3>2, PartOfPart
  <2>4. ASSUME IsAnswer(pkt), NEW p \in Priority, NEW k \in 1 .. Len(q[p]), q[p][k].is_ack
        PROVE  q[p][k].seq = pkt.seq
    <3>1. PICK j \in 1 .. Len(queues[p]) : q[p][k] = queues[p][j]
      BY <1>11, <2>2
    <3> QED BY <1>9, <2>4, <3>1
  <2>5. Flow(e)
    BY DEF FlowInv
  <2>6. ASSUME IsData(pkt) PROVE PartOf(q[pkt.p], Tail(out[e][pkt.p]))
    <3>1. queues = out[e]
      BY <1>5, <2>6 DEF IsData
    <3>2. tx[e].live /\ out[e][pkt.p] # << >>
      <4>1. tx[e].live
        BY <1>1, <1>2, <1>13, <2>5 DEF Flow, FlowOf, SentInOrder
      <4> QED BY <1>1, <4>1 DEF IInv, OutputInv, Sending
    <3>3. q[pkt.p] = Tail(out[e][pkt.p])
      BY <2>1, <3>1, <3>2 DEF DropHead
    <3> QED BY <3>3, PartOfItself
  <2>7. ASSUME NEW k \in 1 .. Len(out[e][kHigh]), IsRequest(out[e][kHigh][k])
        PROVE  \E j \in 1 .. Len(q[kHigh]) : IsRequest(q[kHigh][j])
    <3>1. pkt.p # kHigh
      <4>1. SUFFICES ASSUME pkt.p = kHigh PROVE FALSE
        OBVIOUS
      <4>2. Made(e, start[e], seqNo[e], pkt) /\ SentInOrder(out[e], tx[e]) /\ QueueInOrder(out[e][kHigh])
            /\ Made(e, start[e], seqNo[e], out[e][kHigh][k])
        BY <1>1, <1>2, <1>8, <2>5 DEF Flow, FlowOf
      <4>3. PICK s : s = out[e][kHigh]
        OBVIOUS
      <4>4. /\ s \in Seq(Packets) /\ k \in 1 .. Len(s) /\ IsRequest(s[k]) /\ s[k].requires_ack
            /\ 1 \in 1 .. Len(s) /\ s[1] \in Packets
        <5>1. s \in Seq(Packets) /\ k \in 1 .. Len(s) /\ IsRequest(s[k]) /\ s[k].requires_ack
          BY <1>10, <1>8, <2>7, <4>2, <4>3 DEF Made
        <5>2. 1 \in 1 .. Len(s)
          BY <5>1
        <5> QED BY <5>1, <5>2
      <4>5. k = 1
        <5>1. QueueInOrder(s) /\ (k # 1 => 1 < k)
          BY <4>2, <4>3, <4>4
        <5> QED BY <4>4, <5>1 DEF QueueInOrder, InOrder
      <4>6. Same(s[1], pkt)
        BY <1>1, <1>2, <1>13, <4>1, <4>2, <4>3 DEF SentInOrder, Same
      <4>7. s[1].requires_ack = pkt.requires_ack
        BY <4>4, <4>6, SamePacket
      <4> QED BY <1>13, <4>4, <4>5, <4>7
    <3>2. q[kHigh] = queues[kHigh]
      BY <1>8, <1>11, <3>1
    <3> QED BY <1>8, <1>9, <2>7, <3>2
  <2>8. SentOn(e, f, q)
    BY <1>1, <1>2, <1>4, <1>7, <2>3, <2>4, <2>6, <2>7 DEF SentOn
  <2> QED BY <2>8
<1> QED BY <1>12, <1>13

LEMMA SentFlow ==
  ASSUME IInv, FlowInv, NEW e \in Ends, NEW f \in Fragments, NEW q \in QueuesOf(e, start[e]), SentOn(e, f, q)
  PROVE  FlowInv'
<1>1. FlowOf(e, start[e], seqNo[e], out[e], tx[e], wire[e])
  BY DEF FlowInv, Flow
<1>2. IdleTx.state # "burst"
  BY DEF IdleTx
<1>3. FlowOf(e, start[e], seqNo[e], q, IdleTx, Append(wire[e], f))
  <2>1. /\ tx[e].state = "burst" /\ f.pkt = tx[e].pkt /\ \A p \in Priority : PartOf(q[p], out[e][p])
        /\ f.footer /\ IsData(tx[e].pkt) /\ ~tx[e].pkt.requires_ack =>
             PartOf(q[tx[e].pkt.p], Tail(out[e][tx[e].pkt.p]))
    BY DEF SentOn
  <2> QED BY <1>1, <1>2, <2>1, FlowTyped, FlowAppended
<1>4. /\ wire' = [wire EXCEPT ![e] = Append(wire[e], f)] /\ out' = [out EXCEPT ![e] = q]
      /\ tx' = [tx EXCEPT ![e] = IdleTx] /\ UNCHANGED <<seqNo, start>>
  BY DEF SentOn, sessionVars
<1>5. Flow(e)'
  BY <1>3, <1>4, Mapped DEF Flow
<1>6. ASSUME NEW c \in Ends, c # e PROVE Flow(c)'
  BY <1>4, <1>6, Mapped, FlowSame
<1> QED BY <1>5, <1>6 DEF FlowInv

LEMMA BodyTaken ==
  ASSUME IInv, FlowInv, NEW e \in Ends, ReadBody(e)
  PROVE  \E f \in Fragments, in \in Inputs, s \in StoredPackets :
           /\ Takes(e, f, in, s)
           /\ \/ input' = [input EXCEPT ![e] = in] /\ UNCHANGED <<outVars, sessionVars, observed>>
              \/ /\ f.footer /\ Same(f.pkt, s.pkt)
                 /\ \/ HandshakeRequest(e, s.pkt, in)
                    \/ Acknowledgement(e, s.pkt, in)
                    \/ Data(e, s.pkt, in)
<1>1. PICK o \in Ends : o = Other(e) /\ o # e /\ Other(o) = e
  BY OtherEnd
<1>2. wire[o] # << >> /\ input[e].incoming[Head(wire[o]).pkt.p] # None /\ input[e].state = "content"
  BY <1>1 DEF ReadBody, IInv, LinkInv, Reading
<1>3. PICK f \in Fragments : f = Head(wire[o]) /\ f = wire[o][1] /\ 1 \in 1 .. Len(wire[o])
  <2>1. wire[o] \in Seq(Fragments)
    BY WireFacts
  <2> QED BY <1>2, <2>1, HeadTailProperties, LenProperties, EmptySeq
<1>4. PICK in \in Inputs : in = AfterBody(input[e], f) /\ in.state = "header"
  BY <1>2, <1>3, WireFacts, AfterBodyType
<1>5. PICK s \in StoredPackets : /\ s = Stored(in, f.pkt.p)
                                 /\ f.footer /\ ChecksumOk(s) => Same(f.pkt, s.pkt)
  BY <1>2, <1>3, <1>4, WireFacts, AfterBodyType DEF Same
<1>6. Made(o, start[o], seqNo[o], f.pkt)
  BY <1>3 DEF FlowInv, Flow, FlowOf
<1>7. wire' = [wire EXCEPT ![o] = Tail(@)] /\ faults' = faults
  BY <1>1 DEF ReadBody
<1>8. Takes(e, f, in, s)
  BY <1>1, <1>2, <1>3, <1>4, <1>5, <1>6, <1>7 DEF Takes
<1>9. \/ input' = [input EXCEPT ![e] = in] /\ UNCHANGED <<outVars, sessionVars, observed>>
      \/ /\ f.footer /\ ChecksumOk(s)
         /\ \/ RejectUntilHandshake(e, s.pkt, in)
            \/ HandshakeRequest(e, s.pkt, in)
            \/ Acknowledgement(e, s.pkt, in)
            \/ Data(e, s.pkt, in)
  BY <1>1, <1>3, <1>4, <1>5 DEF ReadBody
<1>10. RejectUntilHandshake(e, s.pkt, in) =>
         input' = [input EXCEPT ![e] = in] /\ UNCHANGED <<outVars, sessionVars, observed>>
  BY DEF RejectUntilHandshake
<1> QED BY <1>5, <1>8, <1>9, <1>10

\* An ACK is queued, or one was or there is no room.
LEMMA AckAdded ==
  ASSUME IInv, NEW e \in Ends, NEW pkt \in Packets, pkt.p # 0
  PROVE  /\ IsAckCommitted(e, pkt) \/ ~AckOk(e, pkt) => WithAck(e, pkt) = out
         /\ ~IsAckCommitted(e, pkt) /\ AckOk(e, pkt) =>
              WithAck(e, pkt) = [out EXCEPT ![e] = [out[e] EXCEPT ![Higher(pkt.p)] = Append(@, AckFor(e, pkt))]]
         /\ AckFor(e, pkt) \in PacketsOf(start[e], Higher(pkt.p)) /\ Higher(pkt.p) \in Priority
<1>1. start[e] \in Nat
  BY QueueFacts
<1>2. out[e] \in [Priority -> Seq(Packets)]
  BY DEF IInv, OutputInv
<1>3. AckFor(e, pkt) \in PacketsOf(start[e], Higher(pkt.p)) /\ Higher(pkt.p) \in Priority
  BY <1>1, AckPacket
<1>4. PICK p, ack : p = Higher(pkt.p) /\ ack = AckFor(e, pkt)
  OBVIOUS
<1>5. ~IsAckCommitted(e, pkt) /\ AckOk(e, pkt) =>
        WithAck(e, pkt) = [out EXCEPT ![e] = [out[e] EXCEPT ![p] = Append(@, ack)]]
  BY <1>4 DEF WithAck
<1> QED BY <1>3, <1>4, <1>5 DEF WithAck

LEMMA AckMade ==
  ASSUME IInv, NEW e \in Ends, NEW pkt \in Packets, Answerable(pkt), NEW c
  PROVE  Made(e, start[e], c, AckFor(e, pkt)) /\ AckFor(e, pkt).is_ack /\ pkt.p # 0
<1>1. pkt.p # 0 /\ start[e] \in Nat /\ pkt.seq \in Nat /\ pkt.start \in Nat
  BY QueueFacts DEF Answerable, kHigh, Packets, PacketType
<1>2. PICK ack : ack = AckFor(e, pkt)
  OBVIOUS
<1>3. /\ ack.from = e /\ ack.start = start[e] /\ ack.is_ack /\ ~ack.requires_ack /\ ack.seq = pkt.seq
      /\ ack.is_init = pkt.is_init /\ ack.p = Higher(pkt.p)
  BY <1>2 DEF AckFor, Packet
<1>4. IsRequest(pkt) => pkt.seq >= MaxPackets
  <2>1. IsRequest(pkt) => pkt.seq = MaxPackets + pkt.start
    BY DEF Packets, HandshakeId
  <2> QED BY <1>1, <2>1, BoundsAssumption
<1>5. Made(e, start[e], c, ack)
  BY <1>1, <1>3, <1>4 DEF Made, Answerable, IsData, IsRequest, IsDataAck, IsAnswer, kHigh, Higher
<1> QED BY <1>1, <1>2, <1>3, <1>5

LEMMA AnsweredFlow ==
  ASSUME IInv, FlowInv, NEW e \in Ends, NEW pkt \in Packets, Answerable(pkt),
         out' = WithAck(e, pkt), UNCHANGED <<tx, seqNo, start>>, wire'[e] = wire[e]
  PROVE  Flow(e)' /\ \A d \in Ends : d # e => out'[d] = out[d]
<1>1. pkt.p # 0 /\ Made(e, start[e], seqNo[e], AckFor(e, pkt)) /\ AckFor(e, pkt).is_ack
  BY AckMade
<1>2. CASE out' = out
  BY <1>2, FlowSame
<1>3. CASE out' # out
  <2>0. PICK p \in Priority : p = Higher(pkt.p)
    BY <1>1, AckAdded
  <2>1. PICK ack \in PacketsOf(start[e], p) :
          /\ ack = AckFor(e, pkt)
          /\ out' = [out EXCEPT ![e] = [out[e] EXCEPT ![p] = Append(@, ack)]]
    BY <1>1, <1>3, <2>0, AckAdded
  <2>2. PICK q : q = [out[e] EXCEPT ![p] = Append(@, ack)]
    OBVIOUS
  <2>3. seqNo[e] \in [Priority -> Nat] /\ \A r \in Priority : seqNo[e][r] <= seqNo[e][r]
    <3>1. seqNo[e] \in [Priority -> 0 .. MaxPackets]
      BY DEF IInv, CounterInv
    <3> QED BY <3>1, BoundsAssumption
  <2>4. FlowOf(e, start[e], seqNo[e], out[e], tx[e], wire[e])
    BY DEF FlowInv, Flow
  <2>5. Made(e, start[e], seqNo[e], ack) /\ ack.is_ack
    BY <1>1, <2>1
  <2>6. FlowOf(e, start[e], seqNo[e], q, tx[e], wire[e])
    BY <2>2, <2>3, <2>4, <2>5, FlowTyped, FlowQueued
  <2>7. out'[e] = q /\ \A d \in Ends : d # e => out'[d] = out[d]
    BY <2>1, <2>2, QueuesSet
  <2> QED BY <2>6, <2>7 DEF Flow
<1> QED BY <1>2, <1>3

\* The ACK for the first packet of a queue.
LEMMA AckedQueue ==
  ASSUME IInv, NEW e \in Ends, NEW pkt \in Packets, NEW in, Acknowledgement(e, pkt, in)
  PROVE  /\ Lower(pkt.p) \in Priority /\ pkt.is_ack
         /\ \/ UNCHANGED <<out, tx, acked>>
            \/ \E y \in Transmitters :
                 /\ out[e][Lower(pkt.p)] # << >> /\ out[e][Lower(pkt.p)][1].requires_ack
                 /\ out[e][Lower(pkt.p)][1].seq = pkt.seq
                 /\ out' = [out EXCEPT ![e] = [out[e] EXCEPT ![Lower(pkt.p)] = Tail(@)]]
                 /\ tx' = [tx EXCEPT ![e] = y]
                 /\ y.state = tx[e].state /\ y.pkt = tx[e].pkt
                 /\ y.live <=> (tx[e].live /\ tx[e].pkt.p # Lower(pkt.p))
                 /\ acked' = acked \cup (IF out[e][Lower(pkt.p)][1].is_init THEN {}
                                         ELSE {Id(out[e][Lower(pkt.p)][1])})
<1>1. PICK p \in Priority : p = Lower(pkt.p)
  <2>1. Lower(pkt.p) \in Priority
    BY DEF Acknowledgement, Packets, PacketType, Priority, Lower
  <2> QED BY <2>1
<1>2. PICK live \in BOOLEAN : live = (tx[e].live /\ tx[e].pkt.p # p)
  OBVIOUS
<1>3. PICK y : y = [tx[e] EXCEPT !.live = live]
  OBVIOUS
<1>4. y \in Transmitters /\ y.state = tx[e].state /\ y.pkt = tx[e].pkt /\ y.live = live
  BY <1>3, QueueFacts DEF Transmitters
<1>5. \/ UNCHANGED <<out, tx, acked>>
      \/ /\ out[e][p] # << >> /\ out[e][p][1].requires_ack /\ out[e][p][1].seq = pkt.seq
         /\ out' = [out EXCEPT ![e][p] = Tail(@)]
         /\ tx' = [tx EXCEPT ![e].live = @ /\ tx[e].pkt.p # p]
         /\ acked' = acked \cup (IF out[e][p][1].is_init THEN {} ELSE {Id(out[e][p][1])})
  BY <1>1 DEF Acknowledgement
<1>6. tx' = [tx EXCEPT ![e].live = @ /\ tx[e].pkt.p # p] => tx' = [tx EXCEPT ![e] = y]
  BY <1>2, <1>3
<1>7. pkt.is_ack
  BY DEF Acknowledgement
<1> QED BY <1>1, <1>2, <1>4, <1>5, <1>6, <1>7

LEMMA AcknowledgedFlow ==
  ASSUME IInv, FlowInv, NEW e \in Ends, NEW pkt \in Packets, NEW in, Acknowledgement(e, pkt, in),
         wire'[e] = wire[e]
  PROVE  Flow(e)' /\ \A d \in Ends : d # e => out'[d] = out[d] /\ tx'[d] = tx[d]
<1>1. UNCHANGED <<seqNo, start>>
  BY DEF Acknowledgement
<1>2. CASE UNCHANGED <<out, tx, acked>>
  BY <1>1, <1>2, FlowSame
<1>3. ASSUME NEW y \in Transmitters,
             out[e][Lower(pkt.p)] # << >>, out[e][Lower(pkt.p)][1].requires_ack,
             out' = [out EXCEPT ![e] = [out[e] EXCEPT ![Lower(pkt.p)] = Tail(@)]],
             tx' = [tx EXCEPT ![e] = y], y.state = tx[e].state, y.pkt = tx[e].pkt,
             y.live <=> (tx[e].live /\ tx[e].pkt.p # Lower(pkt.p))
      PROVE  Flow(e)' /\ \A d \in Ends : d # e => out'[d] = out[d] /\ tx'[d] = tx[d]
  <2>1. PICK p \in Priority : p = Lower(pkt.p)
    BY AckedQueue
  <2>2. PICK q : q = [out[e] EXCEPT ![p] = Tail(@)]
    OBVIOUS
  <2>3. FlowOf(e, start[e], seqNo[e], out[e], tx[e], wire[e])
    BY DEF FlowInv, Flow
  <2>4. FlowOf(e, start[e], seqNo[e], q, y, wire[e])
    BY <1>3, <2>1, <2>2, <2>3, FlowTyped, FlowAcked
  <2>5. /\ out'[e] = q /\ \A d \in Ends : d # e => out'[d] = out[d]
        /\ tx'[e] = y /\ \A d \in Ends : d # e => tx'[d] = tx[d]
    BY <1>3, <2>1, <2>2, QueuesSet, TransmitterSet
  <2> QED BY <1>1, <2>4, <2>5 DEF Flow
<1> QED BY <1>2, <1>3, AckedQueue

LEMMA ReadBodyFlow ==
  ASSUME IInv, FlowInv, NEW e \in Ends, ReadBody(e)
  PROVE  FlowInv'
<1>1. PICK o \in Ends : o = Other(e) /\ o # e /\ \A d \in Ends : d # e => d = o
  BY OtherEnd
<1>2. PICK f \in Fragments, in \in Inputs, s \in StoredPackets :
        /\ Takes(e, f, in, s)
        /\ \/ input' = [input EXCEPT ![e] = in] /\ UNCHANGED <<outVars, sessionVars, observed>>
           \/ /\ f.footer /\ Same(f.pkt, s.pkt)
              /\ \/ HandshakeRequest(e, s.pkt, in)
                 \/ Acknowledgement(e, s.pkt, in)
                 \/ Data(e, s.pkt, in)
  BY BodyTaken
<1>3. wire'[o] = Tail(wire[o]) /\ wire'[e] = wire[e] /\ wire[o] # << >>
  <2>1. wire' = [wire EXCEPT ![o] = Tail(wire[o])] /\ wire[o] # << >>
    BY <1>1, <1>2 DEF Takes
  <2> QED BY <1>1, <2>1, WireSet
<1>4. Within(wire'[o], wire[o])
  BY <1>3, WireFacts, WithinTail
<1>5. s.pkt \in Packets /\ f.pkt \in Packets
  BY DEF StoredPackets, Fragments
<1>6. ASSUME Flow(e)', out'[o] = out[o], tx'[o] = tx[o], UNCHANGED <<start, seqNo>>
      PROVE  FlowInv'
  BY <1>1, <1>4, <1>6, FlowKept DEF FlowInv
<1>7. CASE UNCHANGED <<outVars, sessionVars>>
  BY <1>3, <1>6, <1>7, FlowSame DEF outVars, sessionVars
<1>8. ASSUME Same(f.pkt, s.pkt), IsRequest(s.pkt) \/ IsData(s.pkt) PROVE Answerable(s.pkt)
  <2>1. /\ f.pkt.p = s.pkt.p /\ f.pkt.seq = s.pkt.seq
        /\ (IsData(f.pkt) <=> IsData(s.pkt)) /\ (IsRequest(f.pkt) <=> IsRequest(s.pkt))
    BY <1>5, <1>8, SamePacket
  <2>2. Made(o, start[o], seqNo[o], f.pkt)
    BY <1>1, <1>2 DEF Takes
  <2> QED BY <1>8, <2>1, <2>2 DEF Made, Answerable
<1>9. CASE Same(f.pkt, s.pkt) /\ HandshakeRequest(e, s.pkt, in)
  <2>1. IsRequest(s.pkt) /\ out' = WithAck(e, s.pkt) /\ UNCHANGED <<tx, start, seqNo>>
    BY <1>9 DEF HandshakeRequest, IsRequest
  <2> QED BY <1>1, <1>3, <1>5, <1>6, <1>8, <1>9, <2>1, AnsweredFlow
<1>10. CASE Acknowledgement(e, s.pkt, in)
  <2>1. UNCHANGED <<start, seqNo>>
    BY <1>10 DEF Acknowledgement
  <2> QED BY <1>1, <1>3, <1>5, <1>6, <1>10, <2>1, AcknowledgedFlow
<1>11. CASE Same(f.pkt, s.pkt) /\ Data(e, s.pkt, in)
  <2>1. IsData(s.pkt) /\ (out' = out \/ out' = WithAck(e, s.pkt)) /\ UNCHANGED <<tx, start, seqNo>>
    BY <1>11 DEF Data, IsData
  <2>2. CASE out' = out
    BY <1>3, <1>6, <2>1, <2>2, FlowSame
  <2>3. CASE out' = WithAck(e, s.pkt)
    BY <1>1, <1>3, <1>5, <1>6, <1>8, <1>11, <2>1, <2>3, AnsweredFlow
  <2> QED BY <2>1, <2>2, <2>3
<1> QED BY <1>2, <1>7, <1>9, <1>10, <1>11

LEMMA RestartFlow ==
  ASSUME IInv, FlowInv, NEW e \in Ends, Restart(e)
  PROVE  FlowInv'
<1>1. PICK o \in Ends : o = Other(e) /\ o # e /\ \A d \in Ends : d # e => d = o
  BY OtherEnd
<1>2. PICK n \in Nat : n = start[e]
  BY QueueFacts
<1>3. /\ out' = [out EXCEPT ![e] = Queues(InitPacket(e, n + 1))] /\ tx' = [tx EXCEPT ![e] = IdleTx]
      /\ start' = [start EXCEPT ![e] = n + 1]
      /\ seqNo' = [seqNo EXCEPT ![e] = [p \in Priority |-> 0]]
  BY <1>2 DEF Restart
<1>4. PICK survives \in BOOLEAN :
        wire' = [wire EXCEPT
          ![e] = IF tx[e].state = "burst"
                 THEN Append(@, Fragment(tx[e].pkt, tx[e].units, FALSE)) ELSE @,
          ![o] = IF ~survives THEN << >>
                 ELSE IF input[e].state = "content" THEN Tail(@) ELSE @]
  BY <1>1 DEF Restart
<1>5. /\ wire'[e] = IF tx[e].state = "burst"
                    THEN Append(wire[e], Fragment(tx[e].pkt, tx[e].units, FALSE)) ELSE wire[e]
      /\ wire'[o] = IF ~survives THEN << >>
                    ELSE IF input[e].state = "content" THEN Tail(wire[o]) ELSE wire[o]
  <2>1. wire \in [Ends -> Seq(Fragments)]
    BY DEF IInv, LinkInv
  <2> QED BY <1>1, <1>4, <2>1
<1>6. FlowType(e, n, seqNo[e], out[e], tx[e], wire[e]) /\ FlowOf(e, n, seqNo[e], out[e], tx[e], wire[e])
  BY <1>2, FlowTyped DEF FlowInv, Flow
<1>7. \E x : FlowOf(e, n, seqNo[e], out[e], x, wire'[e])
  <2>1. CASE tx[e].state = "burst"
    <3>1. PICK f \in Fragments : f = Fragment(tx[e].pkt, tx[e].units, FALSE)
      BY <2>1, RestartedWire
    <3>2. f.pkt = tx[e].pkt /\ ~f.footer
      BY <3>1 DEF Fragment
    <3>3. out[e] \in QueuesOf(e, n) /\ \A p \in Priority : PartOf(out[e][p], out[e][p])
      BY <1>6, PartOfItself DEF FlowType
    <3>4. IdleTx.state # "burst"
      BY DEF IdleTx
    <3>5. FlowOf(e, n, seqNo[e], out[e], IdleTx, Append(wire[e], f))
      BY <1>6, <2>1, <3>2, <3>3, <3>4, FlowAppended
    <3> QED BY <1>5, <2>1, <3>1, <3>5
  <2>2. CASE tx[e].state # "burst"
    BY <1>5, <1>6, <2>2
  <2> QED BY <2>1, <2>2
<1>8. wire'[e] \in Seq(Fragments) /\ Ordered(wire'[e], n)
  <2>1. CASE tx[e].state = "burst"
    <3>1. PICK f \in Fragments : f = Fragment(tx[e].pkt, tx[e].units, FALSE) /\ f.pkt.start = n
      BY <1>2, <2>1, RestartedWire
    <3> QED BY <1>2, <1>5, <2>1, <3>1, WireFacts, WireAdded
  <2>2. CASE tx[e].state # "burst"
    BY <1>2, <1>5, <2>2, WireFacts
  <2> QED BY <2>1, <2>2
<1>9. Flow(e)'
  <2>1. FlowOf(e, n + 1, seqNo'[e], Queues(InitPacket(e, n + 1)), IdleTx, wire'[e])
    BY <1>7, <1>8, FlowRestarted
  <2>2. out'[e] = Queues(InitPacket(e, n + 1)) /\ tx'[e] = IdleTx /\ start'[e] = n + 1
    BY <1>3, Mapped
  <2> QED BY <2>1, <2>2 DEF Flow
<1>10. Flow(o)'
  <2>1. Within(wire'[o], wire[o])
    <3>1. Within(<< >>, wire[o]) /\ Within(wire[o], wire[o])
      BY WithinEmpty, WithinItself, WireFacts
    <3>2. input[e].state = "content" => Within(Tail(wire[o]), wire[o])
      BY <1>1, WireFacts, WithinTail DEF IInv, LinkInv, Reading
    <3> QED BY <1>5, <3>1, <3>2
  <2>2. out'[o] = out[o] /\ tx'[o] = tx[o] /\ start'[o] = start[o] /\ seqNo'[o] = seqNo[o]
    BY <1>1, <1>3, Mapped
  <2> QED BY <2>1, <2>2, FlowKept
<1> QED BY <1>1, <1>9, <1>10 DEF FlowInv

LEMMA InitFlow == Init => FlowInv
<1> SUFFICES ASSUME Init, NEW e \in Ends PROVE Flow(e)
  BY DEF FlowInv
<1>1. /\ out[e] = Queues(InitPacket(e, 0 + 1)) /\ tx[e] = IdleTx /\ wire[e] = << >> /\ start[e] = 0 + 1
  BY DEF Init
<1>2. PICK w : w = << >>
  OBVIOUS
<1>3. w \in Seq(Fragments) /\ Len(w) = 0 /\ 1 .. Len(w) = {}
  BY <1>2
<1>4. PICK q : q = [p \in Priority |-> << >>]
  OBVIOUS
<1>5. \A p \in Priority : 1 .. Len(q[p]) = {}
  BY <1>4
<1>6. FlowOf(e, 0, seqNo[e], q, IdleTx, w) /\ Ordered(w, 0)
  <2>1. IdleTx.state # "burst"
    BY DEF IdleTx
  <2>2. \A p \in Priority : QueueInOrder(q[p])
    BY <1>5 DEF QueueInOrder
  <2> QED BY <1>3, <1>5, <2>1, <2>2 DEF FlowOf, SentInOrder, Ordered
<1>7. FlowOf(e, 0 + 1, seqNo[e], Queues(InitPacket(e, 0 + 1)), IdleTx, w)
  <2>1. 0 \in Nat
    OBVIOUS
  <2> QED BY <1>3, <1>6, <2>1, FlowRestarted
<1> QED BY <1>1, <1>2, <1>7 DEF Flow

LEMMA NextFlow == IInv /\ FlowInv /\ [Next]_vars => FlowInv'
<1> SUFFICES ASSUME IInv, FlowInv, [Next]_vars PROVE FlowInv'
  OBVIOUS
<1>1. ASSUME NEW e \in Ends, Deliver(e) PROVE FlowInv'
  BY <1>1, FlowUnchanged DEF Deliver, outVars, linkVars, sessionVars
<1>2. ASSUME NEW e \in Ends, Preempt(e) \/ FinishPacket(e) PROVE FlowInv'
  BY <1>2, PreemptSends, FinishSends, SentFlow
<1>3. ASSUME NEW e \in Ends, Run(e) PROVE FlowInv'
  BY <1>1, <1>2, <1>3, StartPacketFlow, SendUnitFlow, ReadHeaderFlow, ReadBodyFlow DEF Run
<1>4. ASSUME NEW e \in Ends, Lose(e) \/ Corrupt(e) \/ Restart(e) PROVE FlowInv'
  BY <1>4, LoseFlow, CorruptFlow, RestartFlow
<1>5. ASSUME NEW t \in Traffic, Commit(t) PROVE FlowInv'
  BY <1>5, CommitFlow
<1>6. ASSUME UNCHANGED vars PROVE FlowInv'
  BY <1>6, FlowUnchanged DEF vars, outVars, linkVars, sessionVars
<1> QED BY <1>3, <1>4, <1>5, <1>6 DEF Next

-----------------------------------------------------------------------------
(* Ring buffers that are only consumed at the front.                         *)

LEMMA WrapPos ==
  /\ \A k \in Positions, i \in 0 .. InCapacity : (k + i) % InCapacity = Wrap(k + i) /\ Wrap(k + i) \in Positions
  /\ \A k \in Positions : Ring!NextPos(k) = Wrap(k + 1) /\ Wrap(k + 1) \in Positions
<1>1. \A a \in Nat : a < InCapacity => a % InCapacity = a
  BY CapacitiesAssumption
<1>2. \A a \in Nat : a >= InCapacity /\ a < 2 * InCapacity => a % InCapacity = a - InCapacity
  BY CapacitiesAssumption
<1>3. ASSUME NEW k \in Positions, NEW i \in 0 .. InCapacity
      PROVE  (k + i) % InCapacity = Wrap(k + i) /\ Wrap(k + i) \in Positions
  BY <1>1, <1>2, CapacitiesAssumption DEF Wrap, Positions
<1>4. 1 \in 0 .. InCapacity
  BY CapacitiesAssumption
<1> QED BY <1>3, <1>4 DEF Ring!NextPos

LEMMA RegularFacts ==
  ASSUME NEW rb, Regular(rb)
  PROVE  /\ rb.read \in Positions /\ rb.write \in Positions /\ rb.size \in Positions
         /\ rb.values \in [Positions -> StoredPackets]
         /\ Ring!NewSlot(rb) = rb.write
         /\ Ring!IsFull(rb) <=> ~Free(rb)
         /\ \A k \in 1 .. rb.size : /\ Wrap(rb.read + k - 1) \in Positions
                                    /\ Wrap(rb.read + k - 1) # rb.write
                                    /\ Ring!OldestValue(rb, k - 1).pkt = Shown(rb, k)
                                    /\ Shown(rb, k) \in Packets
<1>1. PICK read \in Positions, write \in Positions, size \in Positions :
        read = rb.read /\ write = rb.write /\ size = rb.size
  BY DEF Regular, Rings
<1>2. Ring!NewSlot(rb) = rb.write /\ rb.values \in [Positions -> StoredPackets]
  BY DEF Regular, Rings, Ring!NewSlot
<1>3. Ring!IsFull(rb) <=> ~Free(rb)
  BY <1>1, CapacitiesAssumption DEF Ring!IsFull, Free, Positions
<1>4. ASSUME NEW k \in 1 .. size
      PROVE  /\ Wrap(read + k - 1) \in Positions /\ Wrap(read + k - 1) # write
             /\ Ring!OldestValue(rb, k - 1).pkt = Shown(rb, k)
             /\ Shown(rb, k) \in Packets
  <2>1. PICK i \in 0 .. InCapacity : i = k - 1 /\ read + k - 1 = read + i /\ i < size
    BY <1>4, CapacitiesAssumption DEF Positions
  <2>2. (read + i) % InCapacity = Wrap(read + i) /\ Wrap(read + i) \in Positions
    BY WrapPos
  <2>3. Ring!OldestSlot(rb, i) = Wrap(read + i)
    BY <1>1, <2>2 DEF Ring!OldestSlot, Regular
  <2>4. Ring!OldestValue(rb, k - 1).pkt = Shown(rb, k)
    BY <1>1, <2>1, <2>3 DEF Ring!OldestValue, Shown
  <2>5. write = Wrap(read + size)
    BY <1>1 DEF Regular
  <2>6. Wrap(read + i) # write
    BY <2>1, <2>5, CapacitiesAssumption DEF Wrap, Positions
  <2>7. Shown(rb, k) \in Packets
    BY <1>1, <1>2, <2>1, <2>2 DEF Shown, StoredPackets
  <2> QED BY <2>1, <2>2, <2>4, <2>6, <2>7
<1> QED BY <1>1, <1>2, <1>3, <1>4

LEMMA RegularCleared ==
  ASSUME NEW rb \in Rings(StoredPackets)
  PROVE  Regular(Ring!Cleared(rb)) /\ Ring!Cleared(rb).size = 0
<1>1. /\ Ring!Cleared(rb) \in Rings(StoredPackets)
      /\ Ring!Cleared(rb).read = 0 /\ Ring!Cleared(rb).write = 0 /\ Ring!Cleared(rb).size = 0
      /\ Ring!Cleared(rb).indices = [k \in Ring!Slots |-> k]
  BY RingCleared DEF Ring!Cleared, Rings
<1>2. Wrap(0 + 0) = 0
  BY CapacitiesAssumption DEF Wrap
<1> QED BY <1>1, <1>2, CapacityFacts DEF Regular

LEMMA RegularNew ==
  ASSUME NEW initial \in [Positions -> StoredPackets]
  PROVE  Regular(Ring!NewRingBuffer(initial)) /\ Ring!NewRingBuffer(initial).size = 0
<1> DEFINE rb == [values |-> initial, indices |-> [k \in Ring!Slots |-> k],
                  read |-> 0, write |-> 0, size |-> 0]
<1>1. rb \in Rings(StoredPackets)
  BY CapacityFacts DEF Rings
<1>2. Ring!NewRingBuffer(initial) = Ring!Cleared(rb)
  BY DEF Ring!NewRingBuffer
<1> HIDE DEF rb
<1> QED BY <1>1, <1>2, RegularCleared

\* The slot to be committed next is not seen, nor is a change to anything but the
\* packets in the slots.
LEMMA RegularPlaced ==
  ASSUME NEW rb, Regular(rb), NEW i \in Positions, NEW v \in StoredPackets,
         i = rb.write \/ v.pkt = rb.values[i].pkt
  PROVE  /\ Regular([rb EXCEPT !.values[i] = v])
         /\ SameShown([rb EXCEPT !.values[i] = v], rb)
         /\ [rb EXCEPT !.values[i] = v].values[i] = v
         /\ \A j \in Positions : j # i => [rb EXCEPT !.values[i] = v].values[j] = rb.values[j]
<1>1. PICK r : r = [rb EXCEPT !.values[i] = v]
  OBVIOUS
<1>2. /\ r \in Rings(StoredPackets) /\ r.size = rb.size /\ r.write = rb.write /\ r.read = rb.read
      /\ r.indices = rb.indices /\ r.values[i] = v
      /\ \A j \in Positions : j # i => r.values[j] = rb.values[j]
  BY <1>1 DEF Regular, Rings
<1>3. Regular(r)
  BY <1>2 DEF Regular
<1>4. ASSUME NEW k \in 1 .. rb.size PROVE Shown(r, k) = Shown(rb, k)
  <2>1. PICK j \in Positions : j = Wrap(rb.read + k - 1) /\ j # rb.write
    BY RegularFacts
  <2>2. r.values[j].pkt = rb.values[j].pkt
    BY <1>2, <2>1
  <2> QED BY <1>2, <2>1, <2>2 DEF Shown
<1> QED BY <1>1, <1>2, <1>3, <1>4 DEF SameShown

\* With room, committing shows one more packet.
LEMMA RegularCommitted ==
  ASSUME NEW rb, Regular(rb), Free(rb)
  PROVE  /\ Regular(Ring!Committed(rb)) /\ Ring!Committed(rb).size = rb.size + 1
         /\ Ring!Committed(rb).values = rb.values
         /\ \A k \in 1 .. rb.size : Shown(Ring!Committed(rb), k) = Shown(rb, k)
         /\ Shown(Ring!Committed(rb), rb.size + 1) = rb.values[rb.write].pkt
<1>1. PICK r : r = Ring!Committed(rb)
  OBVIOUS
<1>2. PICK read \in Positions, write \in Positions, size \in Positions :
        read = rb.read /\ write = rb.write /\ size = rb.size
  BY DEF Regular, Rings
<1>3. /\ r \in Rings(StoredPackets) /\ r.values = rb.values /\ r.indices = rb.indices
      /\ r.write = Ring!NextPos(rb.write)
      /\ r.size = (IF rb.size < InCapacity - 1 THEN rb.size + 1 ELSE rb.size)
      /\ r.read = (IF Ring!NextPos(rb.write) = rb.read THEN Ring!NextPos(rb.read) ELSE rb.read)
  BY <1>1, RingCommitted DEF Regular, Rings, Ring!Committed
<1>4. write = Wrap(read + size) /\ size < InCapacity - 1
  BY <1>2 DEF Regular, Free
<1>5. Ring!NextPos(write) = Wrap(write + 1)
  BY WrapPos
<1>6. Wrap(write + 1) # read /\ Wrap(write + 1) = Wrap(read + (size + 1))
  BY <1>4, CapacitiesAssumption DEF Wrap, Positions
<1>7. r.read = read /\ r.size = size + 1 /\ r.write = Wrap(read + (size + 1))
  BY <1>2, <1>3, <1>4, <1>5, <1>6
<1>8. Regular(r)
  BY <1>3, <1>7 DEF Regular
<1>9. \A k \in 1 .. rb.size : Shown(r, k) = Shown(rb, k)
  BY <1>2, <1>3, <1>7 DEF Shown
<1>10. Shown(r, size + 1) = rb.values[rb.write].pkt
  <2>1. read + (size + 1) - 1 = read + size
    BY DEF Positions
  <2> QED BY <1>2, <1>3, <1>4, <1>7, <2>1 DEF Shown
<1> QED BY <1>1, <1>2, <1>3, <1>7, <1>8, <1>9, <1>10

\* Taking the oldest packet leaves the others.
LEMMA RegularConsumed ==
  ASSUME NEW rb, Regular(rb), rb.size > 0
  PROVE  /\ Regular(Ring!Consumed(rb, 0)) /\ Ring!Consumed(rb, 0).size = rb.size - 1
         /\ Ring!Consumed(rb, 0).values = rb.values
         /\ Ring!Consumed(rb, 0).write = rb.write
         /\ \A k \in 1 .. rb.size - 1 : Shown(Ring!Consumed(rb, 0), k) = Shown(rb, k + 1)
<1>1. PICK r : r = Ring!Consumed(rb, 0)
  OBVIOUS
<1>2. PICK read \in Positions, write \in Positions, size \in Positions :
        read = rb.read /\ write = rb.write /\ size = rb.size
  BY DEF Regular, Rings
<1>3. r \in Rings(StoredPackets)
  <2>1. 0 \in 0 .. rb.size - 1 /\ rb \in Rings(StoredPackets)
    BY <1>2 DEF Regular, Positions
  <2> QED BY <1>1, <2>1, RingConsumed
<1>4. /\ r.values = rb.values /\ r.write = rb.write /\ r.size = rb.size - 1
      /\ r.read = Ring!NextPos(rb.read)
      /\ \A k \in Positions : r.indices[k] = k
  <2> DEFINE moved == {(rb.read + k) % InCapacity : k \in 1 .. 0}
             indices == [j \in Ring!Slots |-> IF j \in moved
                                              THEN rb.indices[Ring!IndexMod(j - 1, InCapacity)]
                                              ELSE rb.indices[j]]
  <2>1. moved = {}
    OBVIOUS
  <2>2. \A k \in Positions : indices[k] = k
    BY <2>1, CapacityFacts DEF Regular
  <2>3. r = [rb EXCEPT !.indices = indices, !.read = Ring!NextPos(rb.read), !.size = rb.size - 1]
    BY <1>1 DEF Ring!Consumed, Regular, Rings
  <2> HIDE DEF indices
  <2> QED BY <2>2, <2>3 DEF Regular, Rings
<1>5. r.read = Wrap(read + 1) /\ write = Wrap(read + size) /\ size > 0
  BY <1>2, <1>4, WrapPos DEF Regular
<1>6. r.write = Wrap(r.read + r.size)
  <2>1. Wrap(Wrap(read + 1) + (size - 1)) = Wrap(read + size)
    BY <1>5, CapacitiesAssumption DEF Wrap, Positions
  <2> QED BY <1>2, <1>4, <1>5, <2>1
<1>7. ASSUME NEW k \in 1 .. size - 1 PROVE Shown(r, k) = Shown(rb, k + 1)
  <2>1. Wrap(Wrap(read + 1) + k - 1) = Wrap(read + (k + 1) - 1)
    BY <1>7, CapacitiesAssumption DEF Wrap, Positions
  <2> QED BY <1>2, <1>4, <1>5, <2>1 DEF Shown
<1>8. Regular(r)
  BY <1>3, <1>4, <1>6 DEF Regular
<1> QED BY <1>1, <1>2, <1>4, <1>7, <1>8

-----------------------------------------------------------------------------
(* Input streams whose buffers are regular.                                  *)

LEMMA ReadableShown ==
  ASSUME NEW in \in Inputs, Stable(in)
  PROVE  /\ \A p \in Priority :
              /\ DOMAIN Readable(in, p) = 1 .. in.buffer[p].size /\ in.buffer[p].size \in Nat
              /\ \A k \in 1 .. in.buffer[p].size : /\ Readable(in, p)[k] = Shown(in.buffer[p], k)
                                                   /\ Shown(in.buffer[p], k) \in Packets
         /\ \A id : id \in ReadableIds(in) <=>
              \E p \in Priority : \E k \in 1 .. in.buffer[p].size : id = Id(Shown(in.buffer[p], k))
<1>1. ASSUME NEW p \in Priority
      PROVE  /\ DOMAIN Readable(in, p) = 1 .. in.buffer[p].size /\ in.buffer[p].size \in Nat
             /\ \A k \in 1 .. in.buffer[p].size : /\ Readable(in, p)[k] = Shown(in.buffer[p], k)
                                                  /\ Shown(in.buffer[p], k) \in Packets
  <2>1. PICK rb : rb = in.buffer[p] /\ Regular(rb)
    BY DEF Stable
  <2>2. rb.size \in Nat
    BY <2>1, RegularFacts DEF Positions
  <2>3. Readable(in, p) = [k \in 1 .. rb.size |-> Ring!OldestValue(rb, k - 1).pkt]
    BY <2>1 DEF Readable, Ring!Contents
  <2>4. \A k \in 1 .. rb.size : Ring!OldestValue(rb, k - 1).pkt = Shown(rb, k) /\ Shown(rb, k) \in Packets
    BY <2>1, RegularFacts
  <2> QED BY <2>1, <2>2, <2>3, <2>4
<1>2. ASSUME NEW id
      PROVE  id \in ReadableIds(in) <=>
               \E p \in Priority : \E k \in 1 .. in.buffer[p].size : id = Id(Shown(in.buffer[p], k))
  <2>1. id \in ReadableIds(in) <=>
          \E p \in Priority : \E k \in DOMAIN Readable(in, p) : id = Id(Readable(in, p)[k])
    BY DEF ReadableIds
  <2> QED BY <1>1, <2>1
<1> QED BY <1>1, <1>2

LEMMA SameReadable ==
  ASSUME NEW a \in Inputs, NEW b \in Inputs, Stable(a), Stable(b), SameView(a, b)
  PROVE  ReadableIds(a) = ReadableIds(b)
<1>1. ASSUME NEW id PROVE id \in ReadableIds(a) <=> id \in ReadableIds(b)
  BY ReadableShown DEF SameView, SameShown
<1> QED BY <1>1

LEMMA ViewOfItself ==
  /\ \A in : SameView(in, in)
  /\ \A a, b, c : SameView(a, b) /\ SameView(b, c) => SameView(a, c)
  /\ \A a, b : SameView(a, b) => SameView(b, a)
BY DEF SameView, SameShown

\* Writing to the slot to be committed next, to the placeholder, or anywhere but to
\* the packet there.
LEMMA StoredView ==
  ASSUME NEW in \in Inputs, Stable(in), NEW p \in Priority, in.incoming[p] # None, NEW v \in StoredPackets,
         in.incoming[p] \in {Placeholder, in.buffer[p].write} \/ v.pkt = Stored(in, p).pkt
  PROVE  LET r == WithStored(in, p, v) IN
         /\ Stable(r) /\ SameView(r, in)
         /\ \A q \in Priority : q # p /\ in.incoming[q] # None =>
              \/ Stored(r, q) = Stored(in, q)
              \/ in.incoming[p] = Placeholder /\ in.incoming[q] = Placeholder /\ Stored(r, q) = v
<1>1. PICK r : r = WithStored(in, p, v)
  OBVIOUS
<1>2. r \in Inputs /\ r.incoming = in.incoming
  BY <1>1, WithStoredIn
<1>3. in.incoming[p] \in 0 .. InCapacity /\ Regular(in.buffer[p])
  BY DEF Inputs, Stable
<1>4. CASE in.incoming[p] = Placeholder
  <2>1. r = [in EXCEPT !.placeholder = v]
    BY <1>1, <1>4 DEF WithStored
  <2>2. r.buffer = in.buffer /\ r.placeholder = v
    BY <2>1 DEF Inputs
  <2>3. Stable(r) /\ SameView(r, in)
    BY <2>2 DEF Stable, SameView, SameShown
  <2> QED BY <1>1, <1>2, <1>4, <2>2, <2>3 DEF Stored
<1>5. CASE in.incoming[p] # Placeholder
  <2>1. PICK i \in Positions : i = in.incoming[p]
    BY <1>3, <1>5, CapacitiesAssumption DEF Placeholder, Positions
  <2>2. PICK ring : ring = [in.buffer[p] EXCEPT !.values[i] = v]
    OBVIOUS
  <2>3. i = in.buffer[p].write \/ v.pkt = in.buffer[p].values[i].pkt
    BY <1>5, <2>1 DEF Stored
  <2>4. Regular(ring) /\ SameShown(ring, in.buffer[p])
    BY <1>3, <2>1, <2>2, <2>3, RegularPlaced
  <2>5. r = [in EXCEPT !.buffer = [in.buffer EXCEPT ![p] = ring]]
    BY <1>1, <1>5, <2>1, <2>2 DEF WithStored, Inputs
  <2>6. /\ r.buffer[p] = ring /\ r.placeholder = in.placeholder
        /\ \A q \in Priority : q # p => r.buffer[q] = in.buffer[q]
    BY <2>5 DEF Inputs
  <2>7. Stable(r)
    BY <2>4, <2>6 DEF Stable
  <2>8. SameView(r, in)
    <3>1. ASSUME NEW q \in Priority PROVE SameShown(r.buffer[q], in.buffer[q])
      BY <2>4, <2>6 DEF SameShown
    <3> QED BY <3>1 DEF SameView
  <2> QED BY <1>1, <1>2, <2>6, <2>7, <2>8 DEF Stored
<1> QED BY <1>4, <1>5

\* The rest of a fragment.
LEMMA BodyView ==
  ASSUME NEW in \in Inputs, Stable(in), NEW f \in Fragments, in.incoming[f.pkt.p] # None
  PROVE  /\ Stable(AfterBody(in, f)) /\ SameView(AfterBody(in, f), in)
         /\ AfterBody(in, f).incoming = in.incoming
         /\ \A q \in Priority : in.incoming[q] # None =>
              Stored(AfterBody(in, f), q).pkt = Stored(in, q).pkt
<1>1. PICK p \in Priority : p = f.pkt.p
  BY DEF Fragments, Packets, PacketType
<1>2. PICK t \in StoredPackets :
        /\ t.pkt = Stored(in, p).pkt
        /\ AfterBody(in, f).buffer = WithStored(in, p, t).buffer
        /\ AfterBody(in, f).placeholder = WithStored(in, p, t).placeholder
        /\ AfterBody(in, f).incoming = in.incoming
  BY <1>1, AfterBodyType
<1>3. PICK r \in Inputs : r = WithStored(in, p, t) /\ Stored(r, p) = t /\ r.incoming = in.incoming
  BY <1>1, WithStoredIn
<1>4. /\ Stable(r) /\ SameView(r, in)
      /\ \A q \in Priority : q # p /\ in.incoming[q] # None =>
           \/ Stored(r, q) = Stored(in, q)
           \/ in.incoming[p] = Placeholder /\ in.incoming[q] = Placeholder /\ Stored(r, q) = t
  BY <1>1, <1>2, <1>3, StoredView
<1>5. PICK a : a = AfterBody(in, f)
  OBVIOUS
<1>6. a.buffer = r.buffer /\ a.placeholder = r.placeholder /\ a.incoming = in.incoming
  BY <1>2, <1>3, <1>5
<1>7. Stable(a) /\ SameView(a, in)
  BY <1>4, <1>6 DEF Stable, SameView
<1>8. ASSUME NEW q \in Priority, in.incoming[q] # None PROVE Stored(a, q).pkt = Stored(in, q).pkt
  <2>1. Stored(a, q) = Stored(r, q)
    BY <1>3, <1>6 DEF Stored
  <2>2. in.incoming[p] = Placeholder /\ in.incoming[q] = Placeholder => Stored(in, q) = Stored(in, p)
    BY DEF Stored
  <2> QED BY <1>2, <1>3, <1>4, <1>8, <2>1, <2>2
<1> QED BY <1>5, <1>6, <1>7, <1>8

\* A new packet that makes no room for itself.
LEMMA IncomingView ==
  ASSUME NEW in \in Inputs, Stable(in), NEW pkt \in Packets,
         ~Free(in.buffer[pkt.p]) /\ pkt.requires_ack =>
           \A k \in 1 .. in.buffer[pkt.p].size : Shown(in.buffer[pkt.p], k).requires_ack
  PROVE  LET n == NewIncoming(in, pkt) IN
         /\ Stable(n) /\ SameView(n, in)
         /\ Stored(n, pkt.p).pkt = pkt
         /\ n.incoming[pkt.p] = IF Free(in.buffer[pkt.p]) THEN in.buffer[pkt.p].write ELSE Placeholder
         /\ \A q \in Priority : q # pkt.p =>
              /\ n.incoming[q] = in.incoming[q]
              /\ in.incoming[q] # None =>
                   \/ Stored(n, q).pkt = Stored(in, q).pkt
                   \/ ~Free(in.buffer[pkt.p]) /\ Stored(n, q).pkt = pkt
<1> DEFINE rb == in.buffer[pkt.p]
           regular == {i \in 0 .. rb.size - 1 : ~Ring!OldestValue(rb, i).pkt.requires_ack}
           least == CHOOSE i \in regular : \A j \in regular : i <= j
           room == IF Ring!IsFull(rb) /\ pkt.requires_ack /\ regular # {}
                   THEN Ring!Consumed(rb, least)
                   ELSE rb
           at == IF Ring!IsFull(room) THEN Placeholder ELSE Ring!NewSlot(room)
           placed == [in EXCEPT !.state = "content", !.buffer[pkt.p] = room,
                                !.incoming[pkt.p] = at, !.offset[pkt.p] = 0]
           s == [pkt |-> pkt, bad |-> 1 .. pkt.total + 1]
<1>1. NewIncoming(in, pkt) = WithStored(placed, pkt.p, s)
  BY DEF NewIncoming
<1>2. PICK p \in Priority : p = pkt.p
  BY DEF Packets, PacketType
<1>3. s \in StoredPackets /\ s.pkt = pkt
  BY DEF StoredPackets, Packets, PacketType
<1>4. Regular(rb)
  BY <1>2 DEF Stable
<1>5. room = rb
  <2>1. CASE Ring!IsFull(rb) /\ pkt.requires_ack
    <3>1. ~Free(rb) /\ \A k \in 1 .. rb.size : Ring!OldestValue(rb, k - 1).pkt.requires_ack
      BY <1>4, <2>1, RegularFacts
    <3>2. ASSUME NEW i \in 0 .. rb.size - 1 PROVE Ring!OldestValue(rb, i).pkt.requires_ack
      <4>1. rb.size \in Nat
        BY <1>4, RegularFacts DEF Positions
      <4>2. i + 1 \in 1 .. rb.size /\ (i + 1) - 1 = i
        BY <4>1
      <4> QED BY <3>1, <4>2
    <3>3. regular = {}
      BY <3>2
    <3> QED BY <3>3
  <2>2. CASE ~(Ring!IsFull(rb) /\ pkt.requires_ack)
    BY <2>2
  <2> QED BY <2>1, <2>2
<1>6. at = IF Free(rb) THEN rb.write ELSE Placeholder
  <2>1. Ring!NewSlot(rb) = rb.write /\ (Ring!IsFull(rb) <=> ~Free(rb))
    BY <1>4, RegularFacts
  <2>2. at = IF Ring!IsFull(rb) THEN Placeholder ELSE Ring!NewSlot(rb)
    BY <1>5
  <2> HIDE DEF at, rb
  <2> QED BY <2>1, <2>2
<1>7. at \in 0 .. InCapacity /\ at # None
  <2>1. rb.write \in Positions
    BY <1>4, RegularFacts
  <2> HIDE DEF at, rb
  <2> QED BY <1>6, <2>1, CapacitiesAssumption DEF Placeholder, Positions, None
<1> HIDE DEF s, room, at
<1>8. placed = [in EXCEPT !.state = "content", !.incoming = [in.incoming EXCEPT ![p] = at],
                          !.offset = [in.offset EXCEPT ![p] = 0]]
  <2>1. [in.buffer EXCEPT ![p] = room] = in.buffer
    BY <1>2, <1>5 DEF Inputs
  <2> QED BY <1>2, <2>1 DEF Inputs
<1> HIDE DEF placed
<1>9. /\ placed \in Inputs /\ placed.buffer = in.buffer /\ placed.placeholder = in.placeholder
      /\ placed.incoming[p] = at /\ \A q \in Priority : q # p => placed.incoming[q] = in.incoming[q]
  BY <1>7, <1>8 DEF Inputs
<1>10. Stable(placed) /\ SameView(placed, in)
  BY <1>9, ViewOfItself DEF Stable, SameView
<1>11. PICK n : n = WithStored(placed, p, s)
  OBVIOUS
<1>12. placed.incoming[p] # None /\ placed.incoming[p] \in {Placeholder, placed.buffer[p].write}
  BY <1>2, <1>6, <1>7, <1>9
<1>13. /\ n.incoming = placed.incoming /\ Stored(n, p) = s /\ Stable(n) /\ SameView(n, placed)
       /\ \A q \in Priority : q # p /\ placed.incoming[q] # None =>
            \/ Stored(n, q) = Stored(placed, q)
            \/ placed.incoming[p] = Placeholder /\ placed.incoming[q] = Placeholder /\ Stored(n, q) = s
  BY <1>3, <1>9, <1>10, <1>11, <1>12, WithStoredIn, StoredView
<1>14. ASSUME NEW q \in Priority, q # p, in.incoming[q] # None
       PROVE  Stored(n, q).pkt = Stored(in, q).pkt \/ (~Free(rb) /\ Stored(n, q).pkt = pkt)
  <2>1. Stored(placed, q) = Stored(in, q)
    BY <1>9, <1>14 DEF Stored
  <2>2. at = Placeholder => ~Free(rb)
    BY <1>4, <1>6, RegularFacts, CapacitiesAssumption DEF Placeholder, Positions
  <2> QED BY <1>3, <1>9, <1>13, <1>14, <2>1, <2>2
<1>15. SameView(n, in)
  BY <1>10, <1>13, ViewOfItself
<1> QED BY <1>1, <1>2, <1>3, <1>6, <1>9, <1>11, <1>13, <1>14, <1>15

-----------------------------------------------------------------------------
(* What is on its way from an end: on the wire, being sent or queued.        *)

LEMMA InQueuesAt ==
  \A q, b : b \in InQueues(q) <=> \E p \in Priority : \E k \in 1 .. Len(q[p]) : b = AsCommitted(q[p][k])
BY DEF InQueues

LEMMA WithinOnWire ==
  ASSUME NEW v, NEW w, Within(v, w)
  PROVE  OnWire(v) \subseteq OnWire(w)
<1>1. PICK from \in [1 .. Len(v) -> 1 .. Len(w)] : \A k \in 1 .. Len(v) : v[k].pkt = w[from[k]].pkt
  BY DEF Within
<1> QED BY <1>1 DEF OnWire

LEMMA PartInQueues ==
  ASSUME NEW r, NEW q, \A p \in Priority : PartOf(r[p], q[p])
  PROVE  InQueues(r) \subseteq InQueues(q)
<1> SUFFICES ASSUME NEW p \in Priority, NEW k \in 1 .. Len(r[p])
             PROVE  AsCommitted(r[p][k]) \in InQueues(q)
  BY InQueuesAt
<1>1. PICK from \in [1 .. Len(r[p]) -> 1 .. Len(q[p])] : \A j \in 1 .. Len(r[p]) : Same(r[p][j], q[p][from[j]])
  BY DEF PartOf
<1>2. AsCommitted(r[p][k]) = AsCommitted(q[p][from[k]]) /\ from[k] \in 1 .. Len(q[p])
  BY <1>1 DEF Same
<1> QED BY <1>2, InQueuesAt

\* A packet on its way is one that the end made, and later in the flow than the
\* fragment that arrives next.
LEMMA OnTheWayMade ==
  ASSUME IInv, FlowInv, NEW o \in Ends, NEW b \in OnTheWay(o)
  PROVE  b \in Packets /\ Made(o, start[o], seqNo[o], b) /\ AsCommitted(b) = b /\ b.p \in Priority
<1>1. FlowOf(o, start[o], seqNo[o], out[o], tx[o], wire[o])
  BY DEF FlowInv, Flow
<1>2. wire[o] \in Seq(Fragments) /\ out[o] \in QueuesOf(o, start[o]) /\ tx[o].pkt \in Packets
  BY WireFacts, QueueFacts
<1>3. PICK c \in Packets : b = AsCommitted(c) /\ Made(o, start[o], seqNo[o], c)
  <2>1. CASE b \in OnWire(wire[o])
    <3>1. PICK k \in 1 .. Len(wire[o]) : b = AsCommitted(wire[o][k].pkt)
      BY <2>1 DEF OnWire
    <3>2. wire[o][k] \in Fragments
      BY <1>2
    <3>3. wire[o][k].pkt \in Packets
      BY <3>2 DEF Fragments
    <3> QED BY <1>1, <3>1, <3>3 DEF FlowOf
  <2>2. CASE b \in InTx(tx[o])
    BY <1>1, <1>2, <2>2 DEF InTx, FlowOf
  <2>3. CASE b \in InQueues(out[o])
    <3>1. PICK p \in Priority : \E k \in 1 .. Len(out[o][p]) : b = AsCommitted(out[o][p][k])
      BY <2>3, InQueuesAt
    <3>2. PICK k \in 1 .. Len(out[o][p]) : b = AsCommitted(out[o][p][k])
      BY <3>1
    <3>3. out[o][p][k] \in Packets
      BY <1>2, QueuePackets
    <3> QED BY <1>1, <3>2, <3>3 DEF FlowOf
  <2> QED BY <2>1, <2>2, <2>3 DEF OnTheWay, Later
<1>4. b \in Packets /\ AsCommitted(b) = b
  BY <1>3, CommittedPacket
<1>5. Same(b, c)
  BY <1>3, <1>4 DEF Same
<1> QED BY <1>3, <1>4, <1>5, SamePacket DEF Packets, PacketType

LEMMA ArrivesBefore ==
  ASSUME IInv, FlowInv, NEW o \in Ends, wire[o] # << >>, NEW b \in OnWire(Tail(wire[o])) \cup Later(o)
  PROVE  Follows(wire[o][1], b) /\ wire[o][1].pkt.start <= b.start /\ b \in OnTheWay(o)
<1>1. FlowOf(o, start[o], seqNo[o], out[o], tx[o], wire[o])
  BY DEF FlowInv, Flow
<1>2. /\ wire[o] \in Seq(Fragments) /\ out[o] \in QueuesOf(o, start[o]) /\ tx[o].pkt \in Packets
      /\ Ordered(wire[o], start[o]) /\ start[o] \in Nat
      /\ tx[o].state = "burst" => tx[o].pkt.start = start[o]
  BY WireFacts, QueueFacts DEF IInv, OutputInv, Sending
<1>3. PICK w \in Seq(Fragments) : w = wire[o]
  BY <1>2
<1>4. PICK f \in Fragments : f = w[1] /\ 1 \in 1 .. Len(w)
  <2>1. 1 \in 1 .. Len(w)
    BY <1>3, LenProperties, EmptySeq
  <2> QED BY <2>1
<1>5. PICK c \in Packets : /\ b = AsCommitted(c) /\ Follows(f, c) /\ f.pkt.start <= c.start
                           /\ AsCommitted(c) \in OnTheWay(o)
  <2>1. CASE b \in OnWire(Tail(w))
    <3>1. PICK k \in 1 .. Len(Tail(w)) : b = AsCommitted(Tail(w)[k].pkt)
      BY <2>1 DEF OnWire
    <3>2. Tail(w)[k] = w[k + 1] /\ k + 1 \in 1 .. Len(w) /\ 1 < k + 1
      BY <1>3, <3>1, HeadTailProperties
    <3>3. PICK j \in 1 .. Len(w) : j = k + 1 /\ 1 < j /\ b = AsCommitted(w[j].pkt) /\ w[j] \in Fragments
      BY <3>1, <3>2
    <3>4. w[j].pkt \in Packets /\ f.pkt.start <= w[j].pkt.start /\ Follows(f, w[j].pkt)
      BY <1>1, <1>2, <1>3, <1>4, <3>3 DEF FlowOf, Ordered, Fragments
    <3>5. AsCommitted(w[j].pkt) \in OnTheWay(o)
      BY <1>3, <3>3 DEF OnTheWay, OnWire
    <3> QED BY <3>3, <3>4, <3>5
  <2>2. CASE b \in InTx(tx[o])
    <3>1. f.pkt.start <= tx[o].pkt.start
      BY <1>2, <1>3, <1>4, <2>2 DEF InTx, Ordered
    <3> QED BY <1>1, <1>2, <1>3, <1>4, <2>2, <3>1 DEF InTx, FlowOf, OnTheWay, Later
  <2>3. CASE b \in InQueues(out[o])
    <3>1. PICK p \in Priority : \E k \in 1 .. Len(out[o][p]) : b = AsCommitted(out[o][p][k])
      BY <2>3, InQueuesAt
    <3>2. PICK k \in 1 .. Len(out[o][p]) : b = AsCommitted(out[o][p][k])
      BY <3>1
    <3>3. out[o][p][k] \in Packets /\ out[o][p][k].start = start[o]
      BY <1>2, QueuePackets
    <3>4. f.pkt.start <= out[o][p][k].start
      BY <1>2, <1>3, <1>4, <3>3 DEF Ordered
    <3>5. Follows(f, out[o][p][k])
      BY <1>1, <1>3, <1>4, <3>2 DEF FlowOf
    <3> QED BY <2>3, <3>2, <3>3, <3>4, <3>5 DEF OnTheWay, Later
  <2> QED BY <1>3, <2>1, <2>2, <2>3 DEF Later
<1>6. b \in Packets /\ AsCommitted(b) = b
  BY <1>5, CommittedPacket
<1>7. Same(b, c)
  BY <1>5, <1>6 DEF Same
<1>8. b.start = c.start /\ (Follows(f, b) <=> Follows(f, c))
  BY <1>5, <1>6, <1>7, SamePacket
<1> QED BY <1>3, <1>4, <1>5, <1>8

-----------------------------------------------------------------------------
(* What a step does to the flow from an end.                                 *)

LEMMA OnWireAppended ==
  ASSUME NEW w \in Seq(Fragments), NEW f \in Fragments
  PROVE  OnWire(Append(w, f)) = OnWire(w) \cup {AsCommitted(f.pkt)}
<1>1. PICK v : v = Append(w, f)
  OBVIOUS
<1>2. PICK l \in Nat : /\ l = Len(w) /\ Len(v) = l + 1 /\ v[l + 1] = f /\ \A k \in 1 .. l : v[k] = w[k]
  BY <1>1, AppendProperties
<1>3. \A k \in 1 .. l + 1 : k \in 1 .. l \/ k = l + 1
  OBVIOUS
<1>4. \A k \in 1 .. l : k \in 1 .. l + 1
  OBVIOUS
<1>5. l + 1 \in 1 .. l + 1
  OBVIOUS
<1>6. OnWire(v) \subseteq OnWire(w) \cup {AsCommitted(f.pkt)}
  BY <1>2, <1>3 DEF OnWire
<1>7. OnWire(w) \cup {AsCommitted(f.pkt)} \subseteq OnWire(v)
  BY <1>2, <1>4, <1>5 DEF OnWire
<1> QED BY <1>1, <1>6, <1>7

LEMMA MovesOn ==
  ASSUME IInv, FlowInv, NEW o \in Ends, Moves(o)
  PROVE  /\ \A b \in OnTheWay(o)' : b \in Packets /\ (b \in OnTheWay(o) \/ Fresh(o, b))
         /\ start'[o] >= start[o]
         /\ start'[o] = start[o] => \A p \in Priority : seqNo'[o][p] >= seqNo[o][p]
<1>1. wire[o] \in Seq(Fragments) /\ start[o] \in Nat
  BY WireFacts
<1>2. \A p \in Priority : seqNo[o][p] \in Nat
  BY BoundsAssumption DEF IInv, CounterInv
<1>0. \A b \in OnTheWay(o) : b \in Packets
  BY OnTheWayMade
<1>3. OnTheWay(o)' = OnWire(wire'[o]) \cup InTx(tx'[o]) \cup InQueues(out'[o])
  BY DEF OnTheWay, Later
<1>4. CASE Quiet(o)
  BY <1>0, <1>1, <1>2, <1>3, <1>4, WithinOnWire DEF Quiet, OnTheWay, Later
<1>5. CASE Sends(o)
  <2>1. PICK f \in Fragments : tx[o].state = "burst" /\ f.pkt = tx[o].pkt /\ wire'[o] = Append(wire[o], f)
    BY <1>5 DEF Sends
  <2>2. OnWire(wire'[o]) = OnWire(wire[o]) \cup InTx(tx[o])
    BY <1>1, <2>1, OnWireAppended DEF InTx
  <2> QED BY <1>0, <1>1, <1>2, <1>3, <1>5, <2>2 DEF Sends, OnTheWay, Later
<1>6. ASSUME NEW c, Adds(o, c)
      PROVE  /\ \A b \in OnTheWay(o)' : b \in Packets /\ (b \in OnTheWay(o) \/ Fresh(o, b))
             /\ start'[o] = start[o] /\ \A p \in Priority : seqNo'[o][p] >= seqNo[o][p]
  <2>1. c \in Packets /\ AsCommitted(c) \in Packets /\ Same(AsCommitted(c), c)
    BY <1>6, CommittedPacket DEF Adds, Same
  <2>2. PICK b \in Packets : b = AsCommitted(c)
    BY <2>1
  <2>3. /\ b.is_ack = c.is_ack /\ b.start = c.start /\ b.seq = c.seq /\ b.p = c.p
        /\ IsData(b) <=> IsData(c)
    BY <2>1, <2>2, SamePacket
  <2>4. Fresh(o, b)
    BY <1>6, <2>3 DEF Adds, Fresh
  <2>5. OnTheWay(o)' \subseteq OnTheWay(o) \cup {b}
    BY <1>3, <1>6, <2>2 DEF Adds, OnTheWay, Later
  <2> QED BY <1>0, <1>2, <1>6, <2>4, <2>5 DEF Adds
<1>7. CASE Restarts(o)
  <2>1. OnWire(wire'[o]) \subseteq OnTheWay(o)
    BY <1>1, <1>7, OnWireAppended DEF Restarts, OnTheWay, Later, InTx
  <2> QED BY <1>0, <1>1, <1>3, <1>7, <2>1 DEF Restarts, Fresh
<1> QED BY <1>1, <1>4, <1>5, <1>6, <1>7 DEF Moves

-----------------------------------------------------------------------------
(* What each step does to the flows.                                         *)

LEMMA QuietKept ==
  ASSUME NEW o \in Ends, out'[o] = out[o], tx'[o].state = tx[o].state, tx'[o].pkt = tx[o].pkt,
         start'[o] = start[o], seqNo'[o] = seqNo[o], Within(wire'[o], wire[o])
  PROVE  Quiet(o)
BY DEF Quiet, InTx, Later

LEMMA QuietSame ==
  ASSUME IInv, NEW o \in Ends, out'[o] = out[o], tx'[o] = tx[o],
         start'[o] = start[o], seqNo'[o] = seqNo[o], wire'[o] = wire[o]
  PROVE  Quiet(o)
BY QuietKept, WithinItself, WireFacts

LEMMA CommitMoves ==
  ASSUME IInv, FlowInv, NEW t \in Traffic, Commit(t)
  PROVE  /\ t.from \in Ends /\ \E c : Adds(t.from, c) /\ IsData(c)
         /\ \A p \in Priority : out'[t.from][p] # out[t.from][p] =>
              out'[t.from][p] =
                Append(out[t.from][p],
                       Packet(t.from, start[t.from], p, seqNo[t.from][p], t.requires_ack, t.total))
         /\ \A d \in Ends : d # t.from => Quiet(d)
<1> DEFINE e == t.from
           p == t.p
<1>1. e \in Ends /\ p \in Priority /\ p # 0 /\ t.requires_ack \in BOOLEAN /\ t.total \in Nat
  BY TrafficAssumption DEF Priority
<1>2. PICK m \in Nat : m = seqNo[e][p]
  BY <1>1, BoundsAssumption DEF IInv, CounterInv
<1>3. PICK pkt \in Packets : /\ pkt = Packet(e, start[e], p, m, t.requires_ack, t.total)
                             /\ pkt.start = start[e] /\ pkt.p = p /\ pkt.seq = m /\ IsData(pkt)
  <2>1. Packet(e, start[e], p, m, t.requires_ack, t.total) \in PacketsOf(start[e], p)
    BY <1>1, <1>2, QueueFacts, DataPacket
  <2> QED BY <2>1 DEF PacketsOf, Packet, IsData
<1>4. PICK q : q = [out[e] EXCEPT ![p] = Append(@, pkt)]
  OBVIOUS
<1>5. out' = [out EXCEPT ![e] = q] /\ seqNo' = [seqNo EXCEPT ![e] = [seqNo[e] EXCEPT ![p] = m + 1]]
      /\ UNCHANGED <<tx, wire, start>>
  BY <1>2, <1>3, <1>4 DEF Commit, linkVars, sessionVars
<1>6. out[e] \in [Priority -> Seq(Packets)]
  BY <1>1 DEF IInv, OutputInv
<1>7. q[p] = Append(out[e][p], pkt) /\ \A r \in Priority : r # p => q[r] = out[e][r]
  BY <1>1, <1>4, <1>6
<1>8. out'[e] = q /\ seqNo'[e] = [seqNo[e] EXCEPT ![p] = m + 1]
      /\ \A d \in Ends : d # e => out'[d] = out[d] /\ seqNo'[d] = seqNo[d]
  BY <1>1, <1>5, Mapped
<1>9. InQueues(q) \subseteq InQueues(out[e]) \cup {AsCommitted(pkt)}
  <2> SUFFICES ASSUME NEW r \in Priority, NEW k \in 1 .. Len(q[r])
               PROVE  AsCommitted(q[r][k]) \in InQueues(out[e]) \cup {AsCommitted(pkt)}
    BY InQueuesAt
  <2>1. CASE r # p
    BY <1>7, <2>1, InQueuesAt
  <2>2. CASE r = p
    <3>1. PICK s \in Seq(Packets) : s = out[e][p]
      BY <1>1, <1>6
    <3>2. (k \in 1 .. Len(s) /\ q[p][k] = s[k]) \/ q[p][k] = pkt
      BY <1>7, <2>2, <3>1, AppendProperties
    <3> QED BY <1>1, <2>2, <3>1, <3>2, InQueuesAt
  <2> QED BY <2>1, <2>2
<1>10. \A r \in Priority : seqNo'[e][r] >= seqNo[e][r]
  <2>1. seqNo[e] \in [Priority -> 0 .. MaxPackets]
    BY <1>1 DEF IInv, CounterInv
  <2>2. \A r \in Priority : seqNo[e][r] \in Nat
    BY <2>1, BoundsAssumption
  <2> QED BY <1>1, <1>2, <1>8, <2>1, <2>2
<1>11. Adds(e, pkt)
  BY <1>2, <1>3, <1>5, <1>8, <1>9, <1>10 DEF Adds
<1>12. \A d \in Ends : d # e => Quiet(d)
  BY <1>5, <1>8, QuietSame
<1> QED BY <1>1, <1>2, <1>3, <1>7, <1>8, <1>11, <1>12

LEMMA TransmitterMoves ==
  ASSUME IInv, FlowInv, NEW e \in Ends, StartPacket(e) \/ SendUnit(e)
  PROVE  \A d \in Ends : Quiet(d) /\ out'[d] = out[d] /\ wire'[d] = wire[d]
<1>1. UNCHANGED <<out, seqNo, wire, start>>
  BY DEF StartPacket, SendUnit, linkVars, sessionVars
<1>2. CASE SendUnit(e)
  <2>1. PICK x : x = [tx[e] EXCEPT !.pending = @ - 1, !.units = @ + 1]
    OBVIOUS
  <2>2. tx' = [tx EXCEPT ![e] = x]
    BY <1>2, <2>1 DEF SendUnit, IInv, OutputInv
  <2>3. x.state = tx[e].state /\ x.pkt = tx[e].pkt
    BY <2>1, QueueFacts DEF Transmitters
  <2>4. \A d \in Ends : tx'[d].state = tx[d].state /\ tx'[d].pkt = tx[d].pkt
    BY <2>2, <2>3, Mapped
  <2> QED BY <1>1, <2>4, QuietKept, WithinItself, WireFacts
<1>3. CASE StartPacket(e)
  <2>1. PICK p \in Priority : p = OldestPriority(e) /\ out[e][p] # << >>
    <3>1. \E p \in Queued(e) : \A i \in Queued(e) : p <= i
      <4>1. Queued(e) # {} /\ Queued(e) \subseteq 0 .. 3
        BY <1>3 DEF StartPacket, Queued, Priority
      <4> QED BY <4>1
    <3>2. OldestPriority(e) \in Queued(e)
      BY <3>1 DEF OldestPriority
    <3> QED BY <3>2 DEF Queued
  <2>2. PICK pkt : pkt = Head(out[e][p]) /\ pkt = out[e][p][1] /\ 1 \in 1 .. Len(out[e][p])
    <3>1. out[e][p] \in Seq(Packets)
      BY QueueFacts, QueuePackets
    <3>2. PICK s \in Seq(Packets) : s = out[e][p] /\ s # << >>
      BY <2>1, <3>1
    <3>3. Head(s) = s[1] /\ 1 \in 1 .. Len(s)
      BY <3>2, HeadTailProperties, LenProperties, EmptySeq
    <3> QED BY <3>2, <3>3
  <2>3. PICK y : y = [state |-> "burst", pkt |-> pkt, live |-> TRUE,
                      pending |-> pkt.length + 1, units |-> 0]
    OBVIOUS
  <2>4. tx' = [tx EXCEPT ![e] = y]
    BY <1>3, <2>1, <2>2, <2>3 DEF StartPacket
  <2>5. tx'[e].pkt = pkt /\ \A d \in Ends : d # e => tx'[d] = tx[d]
    BY <2>3, <2>4, Mapped
  <2>6. InTx(tx'[e]) \subseteq InQueues(out[e])
    BY <2>2, <2>5, InQueuesAt DEF InTx
  <2>7. Quiet(e)
    BY <1>1, <2>6, WithinItself, WireFacts DEF Quiet, Later
  <2> QED BY <1>1, <2>5, <2>7, QuietSame
<1> QED BY <1>2, <1>3

LEMMA SentMoves ==
  ASSUME IInv, FlowInv, NEW e \in Ends, Preempt(e) \/ FinishPacket(e)
  PROVE  /\ Sends(e) /\ \A d \in Ends : d # e => Quiet(d)
         /\ (\E k \in 1 .. Len(out[e][kHigh]) : IsRequest(out[e][kHigh][k])) =>
              \E k \in 1 .. Len(out'[e][kHigh]) : IsRequest(out'[e][kHigh][k])
         /\ UNCHANGED <<faults, input, sessionVars, observed>>
<1>1. PICK f \in Fragments, q \in QueuesOf(e, start[e]) : SentOn(e, f, q)
  BY PreemptSends, FinishSends
<1>2. /\ out'[e] = q /\ \A d \in Ends : d # e => out'[d] = out[d]
      /\ tx'[e] = IdleTx /\ \A d \in Ends : d # e => tx'[d] = tx[d]
      /\ wire'[e] = Append(wire[e], f) /\ \A d \in Ends : d # e => wire'[d] = wire[d]
      /\ UNCHANGED <<seqNo, start>>
  <2>1. /\ wire' = [wire EXCEPT ![e] = Append(wire[e], f)] /\ out' = [out EXCEPT ![e] = q]
        /\ tx' = [tx EXCEPT ![e] = IdleTx] /\ UNCHANGED <<seqNo, sessionVars>>
    BY <1>1 DEF SentOn
  <2> QED BY <2>1, QueuesSet, TransmitterSet, WireSet DEF sessionVars
<1>3. InQueues(q) \subseteq InQueues(out[e])
  BY <1>1, PartInQueues DEF SentOn
<1>4. f.footer /\ IsAnswer(f.pkt) => \A b \in InQueues(q) : b.is_ack => b.seq = f.pkt.seq
  <2> SUFFICES ASSUME f.footer, IsAnswer(f.pkt), NEW b \in InQueues(q), b.is_ack PROVE b.seq = f.pkt.seq
    OBVIOUS
  <2>1. PICK p \in Priority : \E k \in 1 .. Len(q[p]) : b = AsCommitted(q[p][k])
    BY InQueuesAt
  <2>2. PICK k \in 1 .. Len(q[p]) : b = AsCommitted(q[p][k])
    BY <2>1
  <2>3. q[p][k] \in Packets
    BY QueuePackets
  <2>4. b.is_ack = q[p][k].is_ack /\ b.seq = q[p][k].seq
    BY <2>2, <2>3, CommittedPacket
  <2> QED BY <1>1, <2>4 DEF SentOn
<1>5. InTx(IdleTx) = {}
  BY DEF InTx, IdleTx
<1>6. Sends(e)
  BY <1>1, <1>2, <1>3, <1>4, <1>5 DEF Sends, SentOn
<1>7. \A d \in Ends : d # e => Quiet(d)
  BY <1>2, QuietSame
<1> QED BY <1>1, <1>2, <1>6, <1>7 DEF SentOn

LEMMA LinkMoves ==
  ASSUME IInv, FlowInv, NEW e \in Ends, Lose(e) \/ Corrupt(e) \/ ReadHeader(e) \/ Deliver(e)
  PROVE  \A d \in Ends : Quiet(d) /\ out'[d] = out[d] /\ tx'[d] = tx[d]
<1>1. PICK o \in Ends : o = Other(e)
  BY OtherEnd
<1>2. UNCHANGED <<out, tx, seqNo, start>>
  BY DEF Lose, Corrupt, ReadHeader, Deliver, outVars, sessionVars
<1>3. \A d \in Ends : Within(wire'[d], wire[d])
  <2>1. ASSUME NEW c \in Ends, wire[c] # << >>, wire' = [wire EXCEPT ![c] = Tail(@)]
        PROVE  \A d \in Ends : Within(wire'[d], wire[d])
    BY <2>1, Mapped, WithinTail, WithinItself, WireFacts
  <2>2. ASSUME wire' = wire PROVE \A d \in Ends : Within(wire'[d], wire[d])
    BY <2>2, WithinItself, WireFacts
  <2>3. CASE Corrupt(e)
    <3>1. PICK v : v = [wire[e] EXCEPT ![1].intact = FALSE]
      OBVIOUS
    <3>2. wire' = [wire EXCEPT ![e] = v]
      BY <2>3, <3>1 DEF Corrupt, IInv, LinkInv
    <3>3. Within(v, wire[e])
      BY <2>3, <3>1, WireFacts, WithinDamaged DEF Corrupt
    <3> QED BY <3>2, <3>3, Mapped, WithinItself, WireFacts
  <2> QED BY <1>1, <2>1, <2>2, <2>3 DEF Lose, ReadHeader, Deliver, linkVars
<1> QED BY <1>2, <1>3, QuietKept

LEMMA RestartMoves ==
  ASSUME IInv, FlowInv, NEW e \in Ends, Restart(e)
  PROVE  /\ Restarts(e) /\ \A d \in Ends : d # e => Quiet(d)
         /\ \E k \in 1 .. Len(out'[e][kHigh]) : IsRequest(out'[e][kHigh][k])
<1>1. PICK o \in Ends : o = Other(e) /\ o # e /\ \A d \in Ends : d # e => d = o
  BY OtherEnd
<1>2. PICK n \in Nat : n = start[e]
  BY QueueFacts
<1>3. /\ out' = [out EXCEPT ![e] = Queues(InitPacket(e, n + 1))] /\ tx' = [tx EXCEPT ![e] = IdleTx]
      /\ start' = [start EXCEPT ![e] = n + 1]
      /\ seqNo' = [seqNo EXCEPT ![e] = [p \in Priority |-> 0]]
  BY <1>2 DEF Restart
<1>4. /\ out'[e] = Queues(InitPacket(e, n + 1)) /\ tx'[e] = IdleTx /\ start'[e] = n + 1
      /\ out'[o] = out[o] /\ tx'[o] = tx[o] /\ start'[o] = start[o] /\ seqNo'[o] = seqNo[o]
  BY <1>1, <1>3, Mapped
<1>5. PICK survives \in BOOLEAN :
        wire' = [wire EXCEPT
          ![e] = IF tx[e].state = "burst"
                 THEN Append(@, Fragment(tx[e].pkt, tx[e].units, FALSE)) ELSE @,
          ![o] = IF ~survives THEN << >>
                 ELSE IF input[e].state = "content" THEN Tail(@) ELSE @]
  BY <1>1 DEF Restart
<1>6. /\ wire'[e] = IF tx[e].state = "burst"
                    THEN Append(wire[e], Fragment(tx[e].pkt, tx[e].units, FALSE)) ELSE wire[e]
      /\ wire'[o] = IF ~survives THEN << >>
                    ELSE IF input[e].state = "content" THEN Tail(wire[o]) ELSE wire[o]
  <2>1. wire \in [Ends -> Seq(Fragments)]
    BY DEF IInv, LinkInv
  <2> QED BY <1>1, <1>5, <2>1
<1>7. PICK req : req = InitPacket(e, n + 1)
  OBVIOUS
<1>8. req \in Packets /\ IsRequest(req) /\ req.start = n + 1
  <2>1. n + 1 \in Nat
    OBVIOUS
  <2>2. InitPacket(e, n + 1) \in PacketsOf(n + 1, kHigh)
    BY <2>1, HandshakePacket
  <2> QED BY <1>7, <2>2 DEF PacketsOf, InitPacket, Packet, IsRequest
<1>9. PICK q : q = Queues(req)
  OBVIOUS
<1>10. q[kHigh] = <<req>> /\ (\A p \in Priority : p # kHigh => q[p] = << >>) /\ kHigh \in Priority
  BY <1>9 DEF Queues, kHigh, Priority
<1>11. \A b \in InQueues(q) : b \in Packets /\ IsRequest(b) /\ b.start = n + 1
  <2> SUFFICES ASSUME NEW p \in Priority, NEW k \in 1 .. Len(q[p]), NEW b, b = AsCommitted(q[p][k])
               PROVE  b \in Packets /\ IsRequest(b) /\ b.start = n + 1
    BY InQueuesAt
  <2>1. q[p][k] = req
    BY <1>10
  <2>2. b \in Packets /\ Same(b, req) /\ b.start = req.start
    BY <1>8, <2>1, CommittedPacket DEF Same
  <2> QED BY <1>8, <2>2, SamePacket
<1>12. InTx(IdleTx) = {}
  BY DEF InTx, IdleTx
<1>13. Restarts(e)
  <2>1. CASE tx[e].state = "burst"
    <3>1. PICK f \in Fragments : f = Fragment(tx[e].pkt, tx[e].units, FALSE)
      BY <2>1, RestartedWire
    <3>2. f.pkt = tx[e].pkt /\ ~f.footer
      BY <3>1 DEF Fragment
    <3> QED BY <1>2, <1>4, <1>6, <1>7, <1>9, <1>11, <1>12, <2>1, <3>1, <3>2 DEF Restarts
  <2>2. CASE tx[e].state # "burst"
    BY <1>2, <1>4, <1>6, <1>7, <1>9, <1>11, <1>12, <2>2 DEF Restarts
  <2> QED BY <2>1, <2>2
<1>14. Quiet(o)
  <2>1. Within(<< >>, wire[o]) /\ Within(wire[o], wire[o])
    BY WithinEmpty, WithinItself, WireFacts
  <2>2. input[e].state = "content" => Within(Tail(wire[o]), wire[o])
    BY <1>1, WireFacts, WithinTail DEF IInv, LinkInv, Reading
  <2>3. Within(wire'[o], wire[o])
    BY <1>6, <2>1, <2>2
  <2> QED BY <1>4, <2>3, QuietKept
<1>15. 1 \in 1 .. Len(q[kHigh]) /\ IsRequest(q[kHigh][1])
  BY <1>8, <1>10
<1> QED BY <1>1, <1>4, <1>7, <1>9, <1>13, <1>14, <1>15

\* The end that reads may queue an answer or drop what is acknowledged.
LEMMA AnswerMoves ==
  ASSUME IInv, NEW e \in Ends, NEW pkt \in Packets, Answerable(pkt),
         out' = out \/ out' = WithAck(e, pkt), UNCHANGED <<tx, seqNo, start>>, wire'[e] = wire[e]
  PROVE  /\ Quiet(e) \/ Adds(e, AckFor(e, pkt))
         /\ AckFor(e, pkt).is_ack /\ AckFor(e, pkt) \in Packets
         /\ \A d \in Ends : d # e => out'[d] = out[d]
         /\ (\E k \in 1 .. Len(out[e][kHigh]) : IsRequest(out[e][kHigh][k])) =>
              \E k \in 1 .. Len(out'[e][kHigh]) : IsRequest(out'[e][kHigh][k])
<1>1. pkt.p # 0 /\ AckFor(e, pkt).is_ack
  BY AckMade
<1>2. PICK p \in Priority : p = Higher(pkt.p)
  BY <1>1, AckAdded
<1>3. PICK ack \in Packets : ack = AckFor(e, pkt) /\ ack.start = start[e] /\ ack.is_ack
  <2>1. AckFor(e, pkt) \in PacketsOf(start[e], p)
    BY <1>1, <1>2, AckAdded
  <2> QED BY <1>1, <2>1 DEF PacketsOf
<1>4. CASE out' = out
  BY <1>1, <1>3, <1>4, QuietSame
<1>5. CASE out' # out
  <2>1. out' = [out EXCEPT ![e] = [out[e] EXCEPT ![p] = Append(@, ack)]]
    BY <1>1, <1>2, <1>3, <1>5, AckAdded
  <2>2. PICK q : q = [out[e] EXCEPT ![p] = Append(@, ack)]
    OBVIOUS
  <2>3. out'[e] = q /\ \A d \in Ends : d # e => out'[d] = out[d]
    BY <2>1, <2>2, QueuesSet
  <2>4. out[e] \in [Priority -> Seq(Packets)]
    BY DEF IInv, OutputInv
  <2>5. q[p] = Append(out[e][p], ack) /\ \A r \in Priority : r # p => q[r] = out[e][r]
    BY <2>2, <2>4
  <2>6. PICK s \in Seq(Packets) : s = out[e][p]
    BY <2>4
  <2>7. \A k \in 1 .. Len(q[p]) : (k \in 1 .. Len(s) /\ q[p][k] = s[k]) \/ q[p][k] = ack
    BY <2>5, <2>6, AppendProperties
  <2>8. \A k \in 1 .. Len(s) : k \in 1 .. Len(q[p]) /\ q[p][k] = s[k]
    BY <2>5, <2>6, AppendProperties
  <2>9. InQueues(q) \subseteq InQueues(out[e]) \cup {AsCommitted(ack)}
    <3> SUFFICES ASSUME NEW r \in Priority, NEW k \in 1 .. Len(q[r])
                 PROVE  AsCommitted(q[r][k]) \in InQueues(out[e]) \cup {AsCommitted(ack)}
      BY InQueuesAt
    <3> QED BY <2>5, <2>6, <2>7, InQueuesAt
  <2>10. (\E k \in 1 .. Len(out[e][kHigh]) : IsRequest(out[e][kHigh][k])) =>
           \E k \in 1 .. Len(q[kHigh]) : IsRequest(q[kHigh][k])
    <3>1. kHigh \in Priority
      BY DEF kHigh, Priority
    <3> QED BY <2>5, <2>6, <2>8, <3>1
  <2>11. Adds(e, ack)
    BY <1>3, <2>3, <2>9 DEF Adds
  <2> QED BY <1>1, <1>3, <2>3, <2>10, <2>11
<1> QED BY <1>4, <1>5

LEMMA AcknowledgedMoves ==
  ASSUME IInv, NEW e \in Ends, NEW pkt \in Packets, NEW in, Acknowledgement(e, pkt, in), wire'[e] = wire[e]
  PROVE  /\ Quiet(e) /\ \A d \in Ends : d # e => out'[d] = out[d] /\ tx'[d] = tx[d]
         /\ tx'[e].state = tx[e].state /\ tx'[e].pkt = tx[e].pkt
<1>1. UNCHANGED <<seqNo, start>>
  BY DEF Acknowledgement
<1>2. PICK p \in Priority : p = Lower(pkt.p)
  BY AckedQueue
<1>3. CASE UNCHANGED <<out, tx, acked>>
  BY <1>1, <1>3, QuietSame
<1>4. ASSUME NEW y, out[e][p] # << >>, out' = [out EXCEPT ![e] = [out[e] EXCEPT ![p] = Tail(@)]],
             tx' = [tx EXCEPT ![e] = y], y.state = tx[e].state, y.pkt = tx[e].pkt
      PROVE  /\ Quiet(e) /\ \A d \in Ends : d # e => out'[d] = out[d] /\ tx'[d] = tx[d]
             /\ tx'[e].state = tx[e].state /\ tx'[e].pkt = tx[e].pkt
  <2>1. PICK q : q = [out[e] EXCEPT ![p] = Tail(@)]
    OBVIOUS
  <2>2. /\ out'[e] = q /\ \A d \in Ends : d # e => out'[d] = out[d]
        /\ tx'[e] = y /\ \A d \in Ends : d # e => tx'[d] = tx[d]
    BY <1>4, <2>1, QueuesSet, TransmitterSet
  <2>3. out[e] \in [Priority -> Seq(Packets)]
    BY DEF IInv, OutputInv
  <2>4. \A r \in Priority : PartOf(q[r], out[e][r])
    BY <1>4, <2>1, <2>3, PartOfTail, PartOfItself
  <2>5. InQueues(q) \subseteq InQueues(out[e])
    BY <2>4, PartInQueues
  <2> QED BY <1>1, <1>4, <2>2, <2>5, WithinItself, WireFacts DEF Quiet, InTx, Later
<1> QED BY <1>2, <1>3, <1>4, AckedQueue

-----------------------------------------------------------------------------
(* Packets in store.                                                         *)

LEMMA ReceiverFacts ==
  ASSUME IInv, NEW e \in Ends
  PROVE  /\ input[e] \in Inputs /\ lastRx[e] \in [Priority -> Nat \cup {None}]
         /\ lastInit[e] \in Nat \cup {None} /\ done[e] \in BOOLEAN
         /\ \A p \in Priority : seqNo[e][p] \in Nat
<1>1. seqNo[e] \in [Priority -> 0 .. MaxPackets]
  BY DEF IInv, CounterInv
<1> QED BY <1>1, BoundsAssumption DEF IInv, CounterInv, LinkInv

LEMMA PastKept ==
  ASSUME IInv, IInv', FlowInv, NEW e \in Ends, NEW s \in Packets, Moves(Other(e)),
         Sent(Other(e), s), NotForgotten(e)
  PROVE  Sent(Other(e), s)' /\ (Past(e, s) => Past(e, s)')
<1>1. PICK o \in Ends : o = Other(e)
  BY OtherEnd
<1>2. /\ \A b \in OnTheWay(o)' : b \in Packets /\ (b \in OnTheWay(o) \/ Fresh(o, b))
      /\ start'[o] >= start[o]
      /\ start'[o] = start[o] => \A p \in Priority : seqNo'[o][p] >= seqNo[o][p]
  BY <1>1, MovesOn
<1>3. start[o] \in Nat /\ start'[o] \in Nat
  BY DEF IInv, StartInv
<1>4. s.p \in Priority /\ s.start \in Nat /\ s.seq \in Nat
  BY DEF Packets, PacketType
<1>5. \A p \in Priority : seqNo[o][p] \in Nat /\ seqNo'[o][p] \in Nat
  <2>1. seqNo \in [Ends -> [Priority -> 0 .. MaxPackets]] /\ seqNo' \in [Ends -> [Priority -> 0 .. MaxPackets]]
    BY DEF IInv, CounterInv
  <2>2. seqNo[o] \in [Priority -> 0 .. MaxPackets] /\ seqNo'[o] \in [Priority -> 0 .. MaxPackets]
    BY <2>1
  <2> QED BY <2>2, BoundsAssumption
<1>6. s.start <= start'[o] /\ (IsData(s) /\ s.start = start'[o] => s.seq < seqNo'[o][s.p])
  <2>1. s.start <= start[o] /\ (IsData(s) /\ s.start = start[o] => s.seq < seqNo[o][s.p])
    BY <1>1 DEF Sent
  <2>2. CASE start'[o] = start[o]
    <3>1. seqNo'[o][s.p] >= seqNo[o][s.p] /\ seqNo[o][s.p] \in Nat /\ seqNo'[o][s.p] \in Nat
      BY <1>2, <1>4, <1>5, <2>2
    <3> QED BY <1>4, <2>1, <2>2, <3>1
  <2>3. CASE start'[o] > start[o]
    BY <1>3, <1>4, <2>1, <2>3
  <2> QED BY <1>2, <1>3, <2>2, <2>3
<1>7. ASSUME Past(e, s), NEW b \in OnTheWay(o)', IsData(b), Same(b, s)
      PROVE  b.requires_ack /\ lastRx'[e][b.p] # None /\ b.seq <= lastRx'[e][b.p]
  <2>1. b \in Packets /\ b.p \in Priority /\ b.seq \in Nat
    BY <1>2, <1>7 DEF Packets, PacketType
  <2>2. b.start = s.start /\ b.p = s.p /\ b.seq = s.seq /\ IsData(s)
    BY <1>7, <2>1, SamePacket
  <2>3. ~Fresh(o, b)
    <3>1. s.start = start[o] => s.seq < seqNo[o][s.p] /\ seqNo[o][s.p] \in Nat
      BY <1>1, <1>4, <1>5, <2>2 DEF Sent
    <3> QED BY <1>4, <1>7, <2>2, <3>1 DEF Fresh, IsData, IsRequest
  <2>4. b.requires_ack /\ lastRx[e][b.p] # None /\ b.seq <= lastRx[e][b.p]
    BY <1>1, <1>2, <1>7, <2>3 DEF Past
  <2>5. lastRx'[e][b.p] # None /\ lastRx'[e][b.p] >= lastRx[e][b.p]
    BY <2>1, <2>4 DEF NotForgotten
  <2>6. lastRx[e][b.p] \in Nat /\ lastRx'[e][b.p] \in Nat
    <3>1. lastRx[e] \in [Priority -> Nat \cup {None}] /\ lastRx'[e] \in [Priority -> Nat \cup {None}]
      BY DEF IInv, CounterInv
    <3> QED BY <2>1, <2>4, <2>5, <3>1
  <2> QED BY <2>1, <2>4, <2>5, <2>6
<1>8. Sent(o, s)'
  BY <1>6 DEF Sent
<1>9. Past(e, s) => Past(e, s)'
  BY <1>1, <1>7 DEF Past
<1> QED BY <1>1, <1>8, <1>9

\* Every step keeps what is in store if what it stores may be.
LEMMA HeldKept ==
  ASSUME IInv, IInv', FlowInv, NEW e \in Ends, Moves(Other(e)), NotForgotten(e),
         NEW in, in = input'[e], Stable(in),
         \A p \in Priority : in.incoming[p] # None =>
           /\ Sent(Other(e), Stored(in, p).pkt)
           /\ \/ Awaits(in, p)
              \/ Past(e, Stored(in, p).pkt)
              \/ Past(e, Stored(in, p).pkt)'
  PROVE  Held(e)'
<1>1. in \in Inputs
  BY DEF IInv, LinkInv
<1>2. ASSUME NEW p \in Priority, in.incoming[p] # None
      PROVE  Sent(Other(e), Stored(in, p).pkt)' /\ (Awaits(in, p) \/ Past(e, Stored(in, p).pkt)')
  <2>1. PICK s \in Packets : s = Stored(in, p).pkt
    BY <1>1, <1>2, StoredIn DEF StoredPackets
  <2>2. Sent(Other(e), s) /\ (Awaits(in, p) \/ Past(e, s) \/ Past(e, s)')
    BY <1>2, <2>1
  <2>3. Sent(Other(e), s)' /\ (Past(e, s) => Past(e, s)')
    BY <2>2, PastKept
  <2> QED BY <2>1, <2>2, <2>3
<1>3. \A p \in Priority : InStore(e, input[e], p)'
  BY <1>2 DEF InStore, Awaits, Stored, Free
<1> QED BY <1>3 DEF Held, Stable

-----------------------------------------------------------------------------
(* What reading the rest of a fragment does.                                 *)

LEMMA TakenAnswerable ==
  ASSUME NEW e, NEW f \in Fragments, NEW in, NEW s \in StoredPackets, Takes(e, f, in, s),
         Same(f.pkt, s.pkt), IsRequest(s.pkt) \/ IsData(s.pkt)
  PROVE  Answerable(s.pkt)
<1>1. s.pkt \in Packets /\ f.pkt \in Packets
  BY DEF StoredPackets, Fragments
<1>2. /\ f.pkt.p = s.pkt.p /\ f.pkt.seq = s.pkt.seq
      /\ (IsData(f.pkt) <=> IsData(s.pkt)) /\ (IsRequest(f.pkt) <=> IsRequest(s.pkt))
  BY <1>1, SamePacket
<1>3. Made(Other(e), start[Other(e)], seqNo[Other(e)], f.pkt)
  BY DEF Takes
<1> QED BY <1>2, <1>3 DEF Made, Answerable

LEMMA DataTaken ==
  ASSUME IInv, NEW e \in Ends, NEW pkt \in Packets, NEW in, Data(e, pkt, in)
  PROVE  /\ IsData(pkt) /\ done[e]
         /\ UNCHANGED <<tx, seqNo, start, done, lastInit, observed>>
         /\ out' = out \/ (out' = WithAck(e, pkt) /\ pkt.requires_ack)
         /\ \/ /\ input' = [input EXCEPT ![e] = in] /\ lastRx' = lastRx
               /\ out' # out => AlreadyReceived(e, pkt)
            \/ Passes(e, pkt, in)
<1>1. lastRx[e] \in [Priority -> Nat \cup {None}] /\ lastRx \in [Ends -> [Priority -> Nat \cup {None}]]
  BY DEF IInv, CounterInv
<1>2. [lastRx EXCEPT ![e][pkt.p] = pkt.seq] = [lastRx EXCEPT ![e] = [lastRx[e] EXCEPT ![pkt.p] = pkt.seq]]
  BY <1>1
<1>3. IsData(pkt) /\ done[e] /\ UNCHANGED <<tx, seqNo, start, done, lastInit, observed>>
  BY DEF Data, IsData
<1>4. \/ ~pkt.requires_ack /\ UNCHANGED <<out, lastRx>> /\ Passes(e, pkt, in)
      \/ input' = [input EXCEPT ![e] = in] /\ UNCHANGED <<out, lastRx>>
      \/ /\ pkt.requires_ack /\ input' = [input EXCEPT ![e] = in] /\ out' = WithAck(e, pkt)
         /\ lastRx' = lastRx /\ AlreadyReceived(e, pkt)
      \/ pkt.requires_ack /\ out' = WithAck(e, pkt) /\ Passes(e, pkt, in)
  BY <1>2 DEF Data, Passes
<1> QED BY <1>3, <1>4

\* What is left of the flow that is read, and what the reading end adds to its own.
LEMMA BodyMoves ==
  ASSUME IInv, FlowInv, NEW e \in Ends, ReadBody(e)
  PROVE  /\ \A d \in Ends : Moves(d)
         /\ OnTheWay(Other(e))' = OnWire(Tail(wire[Other(e)])) \cup Later(Other(e))
         /\ wire'[e] = wire[e] /\ wire'[Other(e)] = Tail(wire[Other(e)])
         /\ UNCHANGED <<start, seqNo, delivered>>
<1>1. PICK o \in Ends : o = Other(e) /\ o # e /\ \A d \in Ends : d # e => d = o
  BY OtherEnd
<1>2. PICK f \in Fragments, in \in Inputs, s \in StoredPackets :
        /\ Takes(e, f, in, s)
        /\ \/ input' = [input EXCEPT ![e] = in] /\ UNCHANGED <<outVars, sessionVars, observed>>
           \/ /\ f.footer /\ Same(f.pkt, s.pkt)
              /\ \/ HandshakeRequest(e, s.pkt, in)
                 \/ Acknowledgement(e, s.pkt, in)
                 \/ Data(e, s.pkt, in)
  BY BodyTaken
<1>3. wire'[o] = Tail(wire[o]) /\ wire'[e] = wire[e] /\ wire[o] # << >>
  <2>1. wire' = [wire EXCEPT ![o] = Tail(wire[o])] /\ wire[o] # << >>
    BY <1>1, <1>2 DEF Takes
  <2> QED BY <1>1, <2>1, WireSet
<1>4. s.pkt \in Packets
  BY DEF StoredPackets
<1>5. ASSUME Moves(e), out'[o] = out[o], tx'[o] = tx[o], UNCHANGED <<start, seqNo, delivered>>
      PROVE  /\ \A d \in Ends : Moves(d)
             /\ OnTheWay(o)' = OnWire(Tail(wire[o])) \cup Later(o)
             /\ UNCHANGED <<start, seqNo, delivered>>
  <2>1. Within(wire'[o], wire[o])
    BY <1>3, WireFacts, WithinTail
  <2>2. Quiet(o)
    BY <1>5, <2>1, QuietKept
  <2> QED BY <1>1, <1>3, <1>5, <2>2 DEF Moves, OnTheWay, Later
<1>6. CASE UNCHANGED <<outVars, sessionVars, observed>>
  <2>1. UNCHANGED <<out, tx, seqNo, start, delivered>>
    BY <1>6 DEF outVars, sessionVars, observed
  <2>2. Quiet(e)
    BY <1>3, <2>1, QuietSame
  <2> QED BY <1>1, <1>3, <1>5, <2>1, <2>2 DEF Moves
<1>7. ASSUME Answerable(s.pkt), out' = out \/ out' = WithAck(e, s.pkt),
             UNCHANGED <<tx, seqNo, start, delivered>>
      PROVE  /\ \A d \in Ends : Moves(d)
             /\ OnTheWay(o)' = OnWire(Tail(wire[o])) \cup Later(o)
             /\ UNCHANGED <<start, seqNo, delivered>>
  <2>1. (Quiet(e) \/ Adds(e, AckFor(e, s.pkt))) /\ out'[o] = out[o]
    BY <1>1, <1>3, <1>4, <1>7, AnswerMoves
  <2>2. Moves(e)
    BY <2>1 DEF Moves
  <2> QED BY <1>5, <1>7, <2>1, <2>2
<1>8. CASE Same(f.pkt, s.pkt) /\ HandshakeRequest(e, s.pkt, in)
  <2>1. IsRequest(s.pkt) /\ out' = WithAck(e, s.pkt) /\ UNCHANGED <<tx, start, seqNo, delivered>>
    BY <1>8 DEF HandshakeRequest, IsRequest
  <2>2. Answerable(s.pkt)
    BY <1>2, <1>8, <2>1, TakenAnswerable
  <2> QED BY <1>1, <1>3, <1>7, <2>1, <2>2
<1>9. CASE Same(f.pkt, s.pkt) /\ Data(e, s.pkt, in)
  <2>1. /\ IsData(s.pkt) /\ (out' = out \/ out' = WithAck(e, s.pkt))
        /\ UNCHANGED <<tx, start, seqNo, observed>>
    BY <1>4, <1>9, DataTaken
  <2>2. Answerable(s.pkt)
    BY <1>2, <1>9, <2>1, TakenAnswerable
  <2> QED BY <1>1, <1>3, <1>7, <2>1, <2>2 DEF observed
<1>10. CASE Acknowledgement(e, s.pkt, in)
  <2>1. UNCHANGED <<seqNo, start, delivered>>
    BY <1>10 DEF Acknowledgement
  <2>2. Quiet(e) /\ out'[o] = out[o] /\ tx'[o] = tx[o]
    BY <1>1, <1>3, <1>4, <1>10, AcknowledgedMoves
  <2> QED BY <1>1, <1>3, <1>5, <2>1, <2>2 DEF Moves
<1> QED BY <1>2, <1>6, <1>8, <1>9, <1>10

\* The rest of a fragment leaves in place what is in store.
LEMMA BodyHeld ==
  ASSUME IInv, NEW e \in Ends, Held(e), NEW f \in Fragments, NEW in \in Inputs, NEW s \in StoredPackets,
         Takes(e, f, in, s)
  PROVE  /\ Stable(in) /\ SameView(in, input[e])
         /\ \A q \in Priority : InStore(e, in, q)
         /\ in.incoming[f.pkt.p] # None /\ s = Stored(in, f.pkt.p) /\ f.pkt.p \in Priority
<1>1. PICK old \in Inputs : old = input[e]
  BY WireFacts
<1>2. Stable(old) /\ old.incoming[f.pkt.p] # None /\ in = AfterBody(old, f) /\ s = Stored(in, f.pkt.p)
  BY <1>1 DEF Held, Takes
<1>3. /\ Stable(in) /\ SameView(in, old) /\ in.incoming = old.incoming
      /\ \A q \in Priority : old.incoming[q] # None => Stored(in, q).pkt = Stored(old, q).pkt
  BY <1>2, BodyView
<1>4. ASSUME NEW q \in Priority PROVE InStore(e, in, q)
  <2>1. InStore(e, old, q)
    BY <1>1 DEF Held
  <2>2. Awaits(old, q) <=> Awaits(in, q)
    BY <1>3 DEF SameView, SameShown, Awaits, Free
  <2> QED BY <1>3, <2>1, <2>2 DEF InStore
<1> QED BY <1>1, <1>2, <1>3, <1>4 DEF Fragments, Packets, PacketType

LEMMA CommittedView ==
  ASSUME NEW in \in Inputs, Stable(in), NEW p \in Priority, in.incoming[p] # None, Awaits(in, p),
         NEW pkt, pkt = Stored(in, p).pkt, pkt.p = p,
         NEW r, r = [in EXCEPT !.buffer[p] = Ring!Committed(@)]
  PROVE  /\ Stable(r) /\ r.incoming = in.incoming /\ Gains(r, in, pkt)
         /\ \A q \in Priority : Stored(r, q) = Stored(in, q)
         /\ \A q \in Priority : q # p => (Awaits(r, q) <=> Awaits(in, q))
<1>1. PICK rb : rb = in.buffer[p] /\ Regular(rb) /\ Free(rb) /\ in.incoming[p] = rb.write
  BY DEF Stable, Awaits
<1>2. PICK ring : ring = Ring!Committed(rb)
  OBVIOUS
<1>3. /\ Regular(ring) /\ ring.size = rb.size + 1 /\ ring.values = rb.values
      /\ \A k \in 1 .. rb.size : Shown(ring, k) = Shown(rb, k)
      /\ Shown(ring, rb.size + 1) = rb.values[rb.write].pkt
  BY <1>1, <1>2, RegularCommitted
<1>4. rb.write # Placeholder
  BY <1>1, RegularFacts, CapacitiesAssumption DEF Placeholder, Positions
<1>5. rb.values[rb.write].pkt = pkt
  BY <1>1, <1>4 DEF Stored
<1>6. /\ r.buffer[p] = ring /\ (\A q \in Priority : q # p => r.buffer[q] = in.buffer[q])
      /\ r.incoming = in.incoming /\ r.placeholder = in.placeholder
  BY <1>1, <1>2 DEF Inputs
<1>7. Stable(r)
  BY <1>3, <1>6 DEF Stable
<1>8. Gains(r, in, pkt)
  BY <1>1, <1>3, <1>5, <1>6 DEF Gains, SameShown
<1>9. ASSUME NEW q \in Priority PROVE Stored(r, q) = Stored(in, q)
  <2>1. r.buffer[q].values = in.buffer[q].values
    BY <1>1, <1>3, <1>6
  <2> QED BY <1>6, <2>1 DEF Stored
<1>10. \A q \in Priority : q # p => (Awaits(r, q) <=> Awaits(in, q))
  BY <1>6 DEF Awaits
<1> QED BY <1>6, <1>7, <1>8, <1>9, <1>10

\* A packet that passes is in the slot reserved for it, and what is on its way of
\* it afterwards is a repetition.
LEMMA Acceptance ==
  ASSUME IInv, IInv', FlowInv, NEW e \in Ends, Held(e),
         NEW f \in Fragments, NEW in \in Inputs, NEW s \in StoredPackets,
         Takes(e, f, in, s), f.footer, Same(f.pkt, s.pkt), IsData(s.pkt), Passes(e, s.pkt, in),
         Moves(Other(e)), OnTheWay(Other(e))' = OnWire(Tail(wire[Other(e)])) \cup Later(Other(e))
  PROVE  /\ Held(e)' /\ Gains(input'[e], input[e], s.pkt) /\ NotForgotten(e)
         /\ s.pkt.p \in Priority /\ Sent(Other(e), s.pkt)
<1>1. PICK o \in Ends : o = Other(e)
  BY OtherEnd
<1>2. PICK p \in Priority : p = f.pkt.p /\ in.incoming[p] # None /\ s = Stored(in, p)
  BY BodyHeld
<1>3. /\ Stable(in) /\ SameView(in, input[e]) /\ \A q \in Priority : InStore(e, in, q)
  BY BodyHeld
<1>4. PICK pkt \in Packets : pkt = s.pkt
  BY DEF StoredPackets
<1>5. PICK fp \in Packets : fp = f.pkt
  BY DEF Fragments
<1>6. /\ fp.p = pkt.p /\ fp.seq = pkt.seq /\ fp.start = pkt.start /\ fp.requires_ack = pkt.requires_ack
      /\ IsData(fp) /\ IsData(pkt)
  BY <1>4, <1>5, SamePacket
<1>7. Sent(o, pkt) /\ (Awaits(in, p) \/ Past(e, pkt))
  BY <1>1, <1>2, <1>3, <1>4 DEF InStore
<1>8. /\ lastRx[e] \in [Priority -> Nat \cup {None}] /\ lastRx \in [Ends -> [Priority -> Nat \cup {None}]]
      /\ pkt.seq \in Nat /\ pkt.p = p
  BY <1>2, <1>5, <1>6 DEF IInv, CounterInv, Packets, PacketType
<1>9. ~Past(e, pkt)
  <2> SUFFICES ASSUME Past(e, pkt) PROVE FALSE
    OBVIOUS
  <2>1. PICK b \in Packets : b = AsCommitted(fp) /\ AsCommitted(b) = b
    BY CommittedPacket
  <2>2. Same(b, fp) /\ Same(b, pkt)
    BY <1>4, <1>5, <2>1 DEF Same
  <2>3. b.p = p /\ b.seq = pkt.seq /\ IsData(b) /\ b.requires_ack = pkt.requires_ack
    BY <1>6, <1>8, <2>2, SamePacket
  <2>4. b \in OnTheWay(o)
    <3>1. PICK w \in Seq(Fragments) : w = wire[o] /\ w # << >> /\ f = w[1]
      BY <1>1, WireFacts DEF Takes
    <3>2. 1 \in 1 .. Len(w)
      BY <3>1, LenProperties, EmptySeq
    <3> QED BY <1>5, <2>1, <3>1, <3>2 DEF OnTheWay, OnWire
  <2>5. b.requires_ack /\ lastRx[e][b.p] # None /\ b.seq <= lastRx[e][b.p]
    BY <1>1, <2>2, <2>3, <2>4 DEF Past
  <2> QED BY <1>4, <1>8, <2>3, <2>5 DEF Passes, AlreadyReceived
<1>10. Awaits(in, p)
  BY <1>7, <1>9
<1>11. PICK r : r = [in EXCEPT !.buffer[p] = Ring!Committed(@)]
  OBVIOUS
<1>12. /\ Stable(r) /\ r.incoming = in.incoming /\ Gains(r, in, pkt)
       /\ \A q \in Priority : Stored(r, q) = Stored(in, q)
       /\ \A q \in Priority : q # p => (Awaits(r, q) <=> Awaits(in, q))
  BY <1>2, <1>3, <1>4, <1>8, <1>10, <1>11, CommittedView
<1>13. input'[e] = r
  <2>1. input' = [input EXCEPT ![e] = r]
    BY <1>4, <1>8, <1>11 DEF Passes
  <2> QED BY <2>1, InputSet
<1>14. NotForgotten(e) /\ (pkt.requires_ack => lastRx'[e][p] = pkt.seq)
  <2>1. CASE ~pkt.requires_ack
    BY <1>4, <1>8, <2>1 DEF Passes, NotForgotten
  <2>2. CASE pkt.requires_ack
    <3>1. lastRx' = [lastRx EXCEPT ![e] = [lastRx[e] EXCEPT ![p] = pkt.seq]]
      BY <1>4, <1>8, <2>2 DEF Passes
    <3>2. lastRx'[e][p] = pkt.seq /\ \A q \in Priority : q # p => lastRx'[e][q] = lastRx[e][q]
      BY <1>8, <3>1
    <3>3. lastRx[e][p] # None => lastRx[e][p] < pkt.seq /\ pkt.seq # None
      BY <1>4, <1>8, <2>2 DEF Passes, AlreadyReceived, None
    <3> QED BY <1>8, <3>2, <3>3 DEF NotForgotten, None
  <2> QED BY <2>1, <2>2
<1>15. Past(e, pkt)'
  <2> SUFFICES ASSUME NEW b \in OnTheWay(o)', IsData(b), Same(b, pkt)
               PROVE  b.requires_ack /\ lastRx'[e][b.p] # None /\ b.seq <= lastRx'[e][b.p]
    BY <1>1 DEF Past
  <2>1. b \in OnWire(Tail(wire[o])) \cup Later(o)
    BY <1>1
  <2>2. Follows(f, b) /\ b \in OnTheWay(o)
    BY <1>1, <2>1, ArrivesBefore DEF Takes
  <2>3. b \in Packets
    BY <2>2, OnTheWayMade
  <2>4. b.p = p /\ b.seq = pkt.seq /\ b.start = pkt.start /\ b.requires_ack = pkt.requires_ack
    BY <1>8, <2>3, SamePacket
  <2>5. fp.requires_ack /\ b.requires_ack
    BY <1>5, <1>6, <1>8, <2>2, <2>4 DEF Follows
  <2> QED BY <1>8, <1>14, <2>4, <2>5 DEF None
<1>16. ASSUME NEW q \in Priority, r.incoming[q] # None
       PROVE  /\ Sent(o, Stored(r, q).pkt)
              /\ Awaits(r, q) \/ Past(e, Stored(r, q).pkt) \/ Past(e, Stored(r, q).pkt)'
  <2>1. Sent(o, Stored(in, q).pkt) /\ (Awaits(in, q) \/ Past(e, Stored(in, q).pkt))
    BY <1>1, <1>3, <1>12, <1>16 DEF InStore
  <2>2. Stored(r, q).pkt = Stored(in, q).pkt
    BY <1>12
  <2>3. CASE q # p
    BY <1>12, <2>1, <2>2, <2>3
  <2>4. CASE q = p
    <3>1. Stored(r, q).pkt = pkt
      BY <1>2, <1>4, <2>2, <2>4
    <3> QED BY <1>7, <1>15, <3>1
  <2> QED BY <2>3, <2>4
<1>17. Held(e)'
  BY <1>1, <1>12, <1>13, <1>14, <1>16, HeldKept
<1>18. Gains(r, input[e], pkt)
  BY <1>3, <1>8, <1>12 DEF Gains, SameView, SameShown
<1> QED BY <1>1, <1>4, <1>7, <1>8, <1>13, <1>14, <1>17, <1>18

LEMMA EmptyStreams ==
  /\ Empty(NewInput)
  /\ \A in \in Inputs : Empty(ResetInput(in))
<1>1. [pkt |-> Blank, bad |-> {1}] \in StoredPackets
  BY BlankStored
<1>2. [s \in 0 .. InCapacity - 1 |-> [pkt |-> Blank, bad |-> {1}]] \in [Positions -> StoredPackets]
  BY <1>1 DEF Positions
<1>3. Empty(NewInput)
  <2>1. PICK ring : ring = Ring!NewRingBuffer([s \in 0 .. InCapacity - 1 |-> [pkt |-> Blank, bad |-> {1}]])
    OBVIOUS
  <2>2. Regular(ring) /\ ring.size = 0
    BY <1>2, <2>1, RegularNew
  <2>3. /\ NewInput.buffer = [p \in Priority |-> ring]
        /\ NewInput.incoming = [p \in Priority |-> None]
    BY <2>1 DEF NewInput
  <2> QED BY <2>2, <2>3, NewInputType DEF Empty, Stable
<1>4. ASSUME NEW in \in Inputs PROVE Empty(ResetInput(in))
  <2>1. PICK r \in Inputs : r = ResetInput(in)
    BY ResetInputType
  <2>2. /\ r.buffer = [p \in Priority |-> Ring!Cleared(in.buffer[p])]
        /\ r.incoming = [p \in Priority |-> None]
    BY <2>1 DEF ResetInput, Inputs
  <2>3. \A p \in Priority : in.buffer[p] \in Rings(StoredPackets)
    BY DEF Inputs
  <2>4. \A p \in Priority : Regular(r.buffer[p]) /\ r.buffer[p].size = 0
    BY <2>2, <2>3, RegularCleared
  <2> QED BY <2>1, <2>2, <2>4 DEF Empty, Stable
<1> QED BY <1>3, <1>4

LEMMA HeldEmpty ==
  ASSUME NEW e, Empty(input[e])
  PROVE  Held(e) /\ Current(e)
BY DEF Empty, Held, Current, InStore

LEMMA CurrentKept ==
  ASSUME NEW e, Current(e), SameView(input'[e], input[e]), lastInit'[e] = lastInit[e]
  PROVE  Current(e)'
BY DEF Current, SameView, SameShown

\* A step of others keeps what an end has in store.
LEMMA Undisturbed ==
  ASSUME IInv, IInv', FlowInv, NEW e \in Ends, Held(e), Current(e), Moves(Other(e)),
         input'[e] = input[e], lastRx'[e] = lastRx[e], lastInit'[e] = lastInit[e]
  PROVE  (Held(e) /\ Current(e))'
<1>1. NotForgotten(e)
  BY ReceiverFacts DEF NotForgotten, None
<1>2. Stable(input[e]) /\ \A p \in Priority : InStore(e, input[e], p)
  BY DEF Held
<1>3. PICK in : in = input'[e] /\ in = input[e]
  OBVIOUS
<1>4. Held(e)'
  BY <1>1, <1>2, <1>3, HeldKept DEF InStore
<1> QED BY <1>4, CurrentKept, ViewOfItself

LEMMA ReadBodyHeld ==
  ASSUME IInv, IInv', FlowInv, NEW e \in Ends, Held(e), Current(e), ReadBody(e)
  PROVE  (Held(e) /\ Current(e))'
<1>1. PICK f \in Fragments, in \in Inputs, s \in StoredPackets :
        /\ Takes(e, f, in, s)
        /\ \/ input' = [input EXCEPT ![e] = in] /\ UNCHANGED <<outVars, sessionVars, observed>>
           \/ /\ f.footer /\ Same(f.pkt, s.pkt)
              /\ \/ HandshakeRequest(e, s.pkt, in)
                 \/ Acknowledgement(e, s.pkt, in)
                 \/ Data(e, s.pkt, in)
  BY BodyTaken
<1>2. /\ Moves(Other(e)) /\ OnTheWay(Other(e))' = OnWire(Tail(wire[Other(e)])) \cup Later(Other(e))
  BY BodyMoves, OtherEnd
<1>3. s.pkt \in Packets
  BY DEF StoredPackets
<1>4. ASSUME input' = [input EXCEPT ![e] = in], lastRx' = lastRx, lastInit' = lastInit
      PROVE  (Held(e) /\ Current(e))'
  <2>1. input'[e] = in
    BY <1>4, InputSet
  <2>2. Stable(in) /\ SameView(in, input[e]) /\ \A q \in Priority : InStore(e, in, q)
    BY <1>1, BodyHeld
  <2>3. NotForgotten(e)
    BY <1>4, ReceiverFacts DEF NotForgotten, None
  <2>4. Held(e)'
    BY <1>2, <2>1, <2>2, <2>3, HeldKept DEF InStore
  <2> QED BY <1>4, <2>1, <2>2, <2>4, CurrentKept
<1>5. CASE HandshakeRequest(e, s.pkt, in)
  <2>1. input'[e] = ResetInput(in)
    <3>1. input' = [input EXCEPT ![e] = ResetInput(in)]
      BY <1>5 DEF HandshakeRequest
    <3> QED BY <3>1, InputSet
  <2>2. Empty(input[e])'
    BY <2>1, EmptyStreams
  <2> QED BY <2>2 DEF Empty, Held, Current, InStore
<1>6. CASE f.footer /\ Same(f.pkt, s.pkt) /\ Passes(e, s.pkt, in) /\ IsData(s.pkt) /\ lastInit' = lastInit
  <2>1. Held(e)' /\ Gains(input'[e], input[e], s.pkt) /\ s.pkt.p \in Priority
    BY <1>1, <1>2, <1>6, Acceptance
  <2>2. HandshakeId(s.pkt.start) >= lastInit[e]
    <3>1. PICK w \in Seq(Fragments) : w = wire[Other(e)] /\ w # << >> /\ f = w[1] /\ NotBefore(w, lastInit[e])
      BY <1>1, WireFacts, OtherEnd DEF Takes, IInv, LinkInv, Heard
    <3>2. 1 \in 1 .. Len(w) /\ f.pkt \in Packets
      BY <3>1, LenProperties, EmptySeq DEF Fragments
    <3>3. HandshakeId(f.pkt.start) >= lastInit[e]
      <4>1. lastInit[e] \in Int /\ f.pkt.start \in Nat
        BY <3>2, WireFacts DEF Packets, PacketType
      <4> QED BY <3>1, <3>2, <4>1, BoundsAssumption DEF NotBefore, HandshakeId
    <3>4. f.pkt.start = s.pkt.start
      BY <1>3, <1>6, <3>2, SamePacket
    <3> QED BY <3>3, <3>4
  <2>3. ASSUME NEW p \in Priority, NEW k \in 1 .. input'[e].buffer[p].size
        PROVE  HandshakeId(Shown(input'[e].buffer[p], k).start) >= lastInit[e]
    <3>1. CASE p # s.pkt.p
      BY <2>1, <3>1 DEF Gains, SameShown, Current
    <3>2. CASE p = s.pkt.p
      <4>1. PICK n \in Nat : n = input[e].buffer[p].size
        BY ReceiverFacts, RegularFacts DEF Held, Stable, Positions
      <4>2. k \in 1 .. n + 1
        BY <2>1, <2>3, <3>2, <4>1 DEF Gains
      <4>3. CASE k = n + 1
        BY <2>1, <2>2, <3>2, <4>1, <4>3 DEF Gains
      <4>4. CASE k \in 1 .. n
        BY <2>1, <3>2, <4>1, <4>4 DEF Gains, Current
      <4> QED BY <4>2, <4>3, <4>4
    <3> QED BY <3>1, <3>2
  <2>4. Current(e)'
    BY <1>6, <2>3 DEF Current
  <2> QED BY <2>1, <2>4
<1>7. CASE f.footer /\ Same(f.pkt, s.pkt) /\ Data(e, s.pkt, in)
  <2>1. IsData(s.pkt) /\ lastInit' = lastInit
        /\ ((input' = [input EXCEPT ![e] = in] /\ lastRx' = lastRx) \/ Passes(e, s.pkt, in))
    BY <1>3, <1>7, DataTaken
  <2> QED BY <1>4, <1>6, <1>7, <2>1
<1>8. CASE Acknowledgement(e, s.pkt, in)
  BY <1>4, <1>8 DEF Acknowledgement
<1>9. CASE input' = [input EXCEPT ![e] = in] /\ UNCHANGED <<outVars, sessionVars, observed>>
  BY <1>4, <1>9 DEF sessionVars
<1> QED BY <1>1, <1>5, <1>7, <1>8, <1>9

LEMMA ReadHeaderHeld ==
  ASSUME IInv, IInv', FlowInv, KeepsUp, NEW e \in Ends, Held(e), Current(e), ReadHeader(e)
  PROVE  (Held(e) /\ Current(e))' /\ SameView(input'[e], input[e])
<1>1. PICK o \in Ends : o = Other(e) /\ o # e
  BY OtherEnd
<1>2. /\ Moves(o) /\ UNCHANGED <<lastRx, lastInit>>
  BY <1>1, LinkMoves DEF Moves, ReadHeader, sessionVars
<1>3. NotForgotten(e)
  BY <1>2, ReceiverFacts DEF NotForgotten, None
<1>4. PICK old \in Inputs : old = input[e] /\ Stable(old) /\ \A p \in Priority : InStore(e, old, p)
  BY WireFacts DEF Held
<1>5. PICK w \in Seq(Fragments) : w = wire[o] /\ w # << >>
  BY <1>1, WireFacts DEF ReadHeader
<1>6. PICK f \in Fragments : f = Head(w) /\ f = w[1] /\ 1 \in 1 .. Len(w)
  BY <1>5, HeadTailProperties, LenProperties, EmptySeq
<1>7. PICK pkt \in Packets, p \in Priority : pkt = f.pkt /\ p = pkt.p
  BY DEF Fragments, Packets, PacketType
<1>8. PICK new : \/ new = NewIncoming(old, pkt) /\ ~pkt.is_continuation
                 \/ new = [old EXCEPT !.state = "content"]
                 \/ new = old
                 /\ input'[e] = new
  <2>1. \/ ~pkt.is_continuation /\ input' = [input EXCEPT ![e] = NewIncoming(old, pkt)]
        \/ input' = [input EXCEPT ![e] = [old EXCEPT !.state = "content"]]
        \/ input' = input
    <3>1. \/ ~pkt.is_continuation /\ input' = [input EXCEPT ![e] = NewIncoming(input[e], pkt)]
          \/ input' = [input EXCEPT ![e].state = "content"]
          \/ input' = input
      BY <1>1, <1>5, <1>6, <1>7 DEF ReadHeader
    <3> QED BY <1>4, <3>1
  <2> QED BY <1>4, <2>1, InputSet
<1>9. CASE ~(new = NewIncoming(old, pkt) /\ ~pkt.is_continuation)
  <2>1. new.buffer = old.buffer /\ new.incoming = old.incoming /\ new.placeholder = old.placeholder
    BY <1>8, <1>9 DEF Inputs
  <2>2. input'[e] = new
    BY <1>8, <1>9
  <2>3. /\ Stable(new) /\ SameView(new, old)
        /\ \A q \in Priority : Stored(new, q) = Stored(old, q) /\ (Awaits(new, q) <=> Awaits(old, q))
    BY <1>4, <2>1 DEF Stable, SameView, SameShown, Stored, Awaits
  <2>4. \A q \in Priority : InStore(e, new, q)
    BY <1>4, <2>1, <2>3 DEF InStore
  <2>5. Held(e)'
    BY <1>1, <1>2, <1>3, <2>2, <2>3, <2>4, HeldKept DEF InStore
  <2> QED BY <1>2, <1>4, <2>2, <2>3, <2>5, CurrentKept
<1>10. CASE new = NewIncoming(old, pkt) /\ ~pkt.is_continuation /\ input'[e] = new
  <2>1. PICK rb : rb = old.buffer[p] /\ Regular(rb)
    BY <1>4 DEF Stable
  <2>2. ~Free(rb) => /\ pkt.is_ack \/ pkt.is_init \/ (pkt.requires_ack /\ AlreadyReceived(e, pkt))
                     /\ pkt.requires_ack => \A i \in 0 .. rb.size - 1 : Ring!OldestValue(rb, i).pkt.requires_ack
    <3>1. Ring!IsFull(rb) <=> ~Free(rb)
      BY <2>1, RegularFacts
    <3>2. input[e].state = "header"
      BY DEF ReadHeader
    <3> QED BY <1>1, <1>4, <1>5, <1>6, <1>7, <1>10, <2>1, <3>1, <3>2 DEF KeepsUp
  <2>3. ASSUME ~Free(rb), pkt.requires_ack, NEW k \in 1 .. rb.size PROVE Shown(rb, k).requires_ack
    <3>1. PICK n \in Nat : n = rb.size
      BY <2>1, RegularFacts DEF Positions
    <3>2. k - 1 \in 0 .. n - 1
      BY <2>3, <3>1
    <3>3. Ring!OldestValue(rb, k - 1).pkt = Shown(rb, k)
      BY <2>1, <2>3, RegularFacts
    <3>4. Ring!OldestValue(rb, k - 1).pkt.requires_ack
      BY <2>2, <2>3, <3>1, <3>2
    <3> QED BY <3>3, <3>4
  <2>4. /\ Stable(new) /\ SameView(new, old) /\ Stored(new, p).pkt = pkt
        /\ new.incoming[p] = IF Free(rb) THEN rb.write ELSE Placeholder
        /\ \A q \in Priority : q # p =>
             /\ new.incoming[q] = old.incoming[q]
             /\ old.incoming[q] # None =>
                  Stored(new, q).pkt = Stored(old, q).pkt \/ (~Free(rb) /\ Stored(new, q).pkt = pkt)
    BY <1>4, <1>7, <1>10, <2>1, <2>3, IncomingView
  <2>5. Sent(o, pkt)
    <3>1. Made(o, start[o], seqNo[o], pkt)
      BY <1>5, <1>6, <1>7 DEF FlowInv, Flow, FlowOf
    <3> QED BY <3>1 DEF Made, Sent
  <2>6. ~Free(rb) => Past(e, pkt)
    <3> SUFFICES ASSUME ~Free(rb), NEW b \in OnTheWay(o), IsData(b), Same(b, pkt)
                 PROVE  b.requires_ack /\ lastRx[e][b.p] # None /\ b.seq <= lastRx[e][b.p]
      BY <1>1 DEF Past
    <3>1. b \in Packets
      BY OnTheWayMade
    <3>2. b.p = p /\ b.seq = pkt.seq /\ b.requires_ack = pkt.requires_ack /\ IsData(pkt)
      BY <1>7, <3>1, SamePacket
    <3>3. pkt.requires_ack /\ AlreadyReceived(e, pkt)
      BY <2>2, <3>2 DEF IsData
    <3> QED BY <1>7, <3>2, <3>3 DEF AlreadyReceived
  <2>7. ASSUME NEW q \in Priority, new.incoming[q] # None
        PROVE  Sent(o, Stored(new, q).pkt) /\ (Awaits(new, q) \/ Past(e, Stored(new, q).pkt))
    <3>1. \A r \in Priority : new.buffer[r].size = old.buffer[r].size /\ new.buffer[r].write = old.buffer[r].write
      BY <2>4 DEF SameView, SameShown
    <3>2. CASE q = p
      <4>1. Free(rb) => Awaits(new, p)
        BY <2>1, <2>4, <3>1 DEF Awaits, Free
      <4> QED BY <2>4, <2>5, <2>6, <3>2, <4>1
    <3>3. CASE q # p
      <4>1. /\ old.incoming[q] # None /\ Sent(o, Stored(old, q).pkt)
            /\ Awaits(old, q) \/ Past(e, Stored(old, q).pkt)
        BY <1>1, <1>4, <2>4, <2>7, <3>3 DEF InStore
      <4>2. Awaits(new, q) <=> Awaits(old, q)
        BY <2>4, <3>1, <3>3 DEF Awaits, Free
      <4>3. Stored(new, q).pkt = Stored(old, q).pkt \/ (~Free(rb) /\ Stored(new, q).pkt = pkt)
        BY <2>4, <3>3, <4>1
      <4> QED BY <2>5, <2>6, <4>1, <4>2, <4>3
    <3> QED BY <3>2, <3>3
  <2>8. Held(e)'
    BY <1>1, <1>2, <1>3, <1>10, <2>4, <2>7, HeldKept
  <2> QED BY <1>2, <1>4, <1>10, <2>4, <2>8, CurrentKept
<1> QED BY <1>8, <1>9, <1>10

LEMMA DeliveredSet ==
  ASSUME DOMAIN delivered = Ends, NEW e \in Ends, NEW v, delivered' = [delivered EXCEPT ![e] = v]
  PROVE  DOMAIN delivered' = Ends /\ delivered'[e] = v /\ \A d \in Ends : d # e => delivered'[d] = delivered[d]
OBVIOUS

LEMMA DeliverHeld ==
  ASSUME IInv, IInv', FlowInv, NEW e \in Ends, Held(e), Current(e), Deliver(e)
  PROVE  /\ (Held(e) /\ Current(e))'
         /\ \E p \in Priority :
              /\ Takes1(input'[e], input[e], p)
              /\ DOMAIN delivered = Ends =>
                   /\ DOMAIN delivered' = Ends
                   /\ delivered'[e] = delivered[e] \cup {Id(Shown(input[e].buffer[p], 1))}
                   /\ \A d \in Ends : d # e => delivered'[d] = delivered[d]
<1>1. PICK old \in Inputs : old = input[e] /\ Stable(old) /\ \A p \in Priority : InStore(e, old, p)
  BY WireFacts DEF Held
<1>2. PICK p \in Priority :
        /\ old.buffer[p].size > 0
        /\ delivered' = [delivered EXCEPT ![e] = @ \cup {Id(Readable(old, p)[1])}]
        /\ input' = [input EXCEPT ![e].buffer[p] = Ring!Consumed(@, 0)]
  <2> DEFINE nonempty == {p \in Priority : old.buffer[p].size > 0}
             first == CHOOSE p \in nonempty : \A q \in nonempty : p <= q
  <2>1. nonempty # {} /\ nonempty \subseteq 0 .. 3
    BY <1>1 DEF Deliver, Priority
  <2>2. first \in nonempty
    BY <2>1, HighestPriority
  <2>3. /\ delivered' = [delivered EXCEPT ![e] = @ \cup {Id(Readable(old, first)[1])}]
        /\ input' = [input EXCEPT ![e].buffer[first] = Ring!Consumed(@, 0)]
    BY <1>1 DEF Deliver
  <2> HIDE DEF first
  <2> QED BY <2>2, <2>3
<1>3. PICK new : new = [old EXCEPT !.buffer[p] = Ring!Consumed(@, 0)]
  OBVIOUS
<1>4. input'[e] = new
  <2>1. input' = [input EXCEPT ![e] = new]
    BY <1>1, <1>2, <1>3
  <2> QED BY <2>1, InputSet
<1>5. PICK rb : rb = old.buffer[p] /\ Regular(rb) /\ rb.size > 0
  BY <1>1, <1>2 DEF Stable
<1>6. PICK ring : ring = Ring!Consumed(rb, 0)
  OBVIOUS
<1>7. /\ Regular(ring) /\ ring.size = rb.size - 1 /\ ring.values = rb.values /\ ring.write = rb.write
      /\ \A k \in 1 .. rb.size - 1 : Shown(ring, k) = Shown(rb, k + 1)
  BY <1>5, <1>6, RegularConsumed
<1>8. /\ new.buffer[p] = ring /\ (\A q \in Priority : q # p => new.buffer[q] = old.buffer[q])
      /\ new.incoming = old.incoming /\ new.placeholder = old.placeholder
  BY <1>3, <1>5, <1>6 DEF Inputs
<1>9. Stable(new)
  BY <1>1, <1>7, <1>8 DEF Stable
<1>10. Takes1(new, old, p)
  BY <1>5, <1>7, <1>8 DEF Takes1, SameShown
<1>11. \A q \in Priority : InStore(e, new, q)
  <2> SUFFICES ASSUME NEW q \in Priority PROVE InStore(e, new, q)
    OBVIOUS
  <2>1. new.buffer[q].values = old.buffer[q].values
    BY <1>5, <1>7, <1>8
  <2>2. Stored(new, q) = Stored(old, q)
    BY <1>8, <2>1 DEF Stored
  <2>3. Awaits(old, q) => Awaits(new, q)
    <3>1. rb.size \in Nat
      BY <1>5, RegularFacts DEF Positions
    <3> QED BY <1>5, <1>7, <1>8, <3>1, CapacitiesAssumption DEF Awaits, Free
  <2> QED BY <1>1, <1>8, <2>2, <2>3 DEF InStore
<1>12. UNCHANGED <<lastRx, lastInit>> /\ Moves(Other(e))
  BY LinkMoves, OtherEnd DEF Deliver, sessionVars, Moves
<1>13. NotForgotten(e)
  BY <1>12, ReceiverFacts DEF NotForgotten, None
<1>14. Held(e)'
  BY <1>4, <1>9, <1>11, <1>12, <1>13, HeldKept DEF InStore
<1>15. Current(e)'
  <2>1. ASSUME NEW q \in Priority, NEW k \in 1 .. new.buffer[q].size
        PROVE  \E j \in 1 .. old.buffer[q].size : Shown(new.buffer[q], k) = Shown(old.buffer[q], j)
    <3>1. CASE q # p
      BY <1>8, <2>1, <3>1
    <3>2. CASE q = p
      <4>1. PICK n \in Nat : n = rb.size
        BY <1>5, RegularFacts DEF Positions
      <4>2. k \in 1 .. n - 1 /\ k + 1 \in 1 .. n
        BY <1>7, <1>8, <2>1, <3>2, <4>1
      <4> QED BY <1>5, <1>7, <1>8, <3>2, <4>1, <4>2
    <3> QED BY <3>1, <3>2
  <2> QED BY <1>1, <1>4, <1>12, <2>1 DEF Current
<1>16. DOMAIN delivered = Ends =>
         /\ DOMAIN delivered' = Ends /\ delivered'[e] = delivered[e] \cup {Id(Shown(rb, 1))}
         /\ \A d \in Ends : d # e => delivered'[d] = delivered[d]
  <2>1. Readable(old, p)[1] = Shown(rb, 1)
    <3>1. rb.size \in Nat
      BY <1>5, RegularFacts DEF Positions
    <3>2. 1 \in 1 .. rb.size
      BY <1>5, <3>1
    <3> QED BY <1>1, <1>5, <3>2, ReadableShown
  <2>2. delivered' = [delivered EXCEPT ![e] = delivered[e] \cup {Id(Shown(rb, 1))}]
    BY <1>2, <2>1
  <2> QED BY <2>2, DeliveredSet
<1> QED BY <1>1, <1>4, <1>5, <1>10, <1>14, <1>15, <1>16

LEMMA RestartHeld ==
  ASSUME IInv, NEW e \in Ends, Restart(e)
  PROVE  (Held(e) /\ Current(e))' /\ input'[e] = NewInput
<1>1. input' = [input EXCEPT ![e] = NewInput]
  BY DEF Restart
<1>2. input'[e] = NewInput
  BY <1>1, InputSet
<1>3. Empty(input[e])'
  BY <1>2, EmptyStreams DEF Empty, Stable
<1>4. (Held(e) /\ Current(e))'
  BY <1>3 DEF Empty, Held, Current, InStore
<1> QED BY <1>2, <1>4

\* A step of an end changes what it receives only.
LEMMA OthersReceive ==
  ASSUME IInv, NEW e \in Ends, ReadHeader(e) \/ ReadBody(e) \/ Deliver(e) \/ Restart(e)
  PROVE  \A d \in Ends : d # e => /\ input'[d] = input[d] /\ lastRx'[d] = lastRx[d]
                                  /\ lastInit'[d] = lastInit[d]
<1>1. DOMAIN input = Ends /\ DOMAIN lastRx = Ends /\ DOMAIN lastInit = Ends
  BY DEF IInv, LinkInv, CounterInv
<1>2. UNCHANGED <<lastRx, lastInit>> => \A d \in Ends : lastRx'[d] = lastRx[d] /\ lastInit'[d] = lastInit[d]
  OBVIOUS
<1>3. CASE ReadHeader(e)
  <2>1. \A d \in Ends : d # e => input'[d] = input[d]
    BY <1>1, <1>3 DEF ReadHeader
  <2> QED BY <1>2, <1>3, <2>1 DEF ReadHeader, sessionVars
<1>4. CASE ReadBody(e)
  <2> DEFINE f == Head(wire[Other(e)])
             in == AfterBody(input[e], f)
             pkt == Stored(in, f.pkt.p).pkt
  <2>1. \/ input' = [input EXCEPT ![e] = in] /\ UNCHANGED sessionVars
        \/ RejectUntilHandshake(e, pkt, in) \/ HandshakeRequest(e, pkt, in)
        \/ Acknowledgement(e, pkt, in) \/ Data(e, pkt, in)
    BY <1>4 DEF ReadBody
  <2> HIDE DEF f, in, pkt
  <2>2. (\E v : input' = [input EXCEPT ![e] = v]) => \A d \in Ends : d # e => input'[d] = input[d]
    BY <1>1
  <2>3. CASE (input' = [input EXCEPT ![e] = in] /\ UNCHANGED sessionVars) \/ RejectUntilHandshake(e, pkt, in)
    BY <1>2, <2>2, <2>3 DEF RejectUntilHandshake, sessionVars
  <2>4. CASE HandshakeRequest(e, pkt, in)
    BY <1>1, <2>4 DEF HandshakeRequest
  <2>5. CASE Acknowledgement(e, pkt, in)
    BY <1>2, <2>2, <2>5 DEF Acknowledgement
  <2>6. CASE Data(e, pkt, in)
    BY <1>1, <2>6 DEF Data
  <2> QED BY <2>1, <2>3, <2>4, <2>5, <2>6
<1>5. CASE Deliver(e)
  <2>1. \A d \in Ends : d # e => input'[d] = input[d]
    BY <1>1, <1>5 DEF Deliver
  <2> QED BY <1>2, <1>5, <2>1 DEF Deliver, sessionVars
<1>6. CASE Restart(e)
  BY <1>1, <1>6 DEF Restart
<1> QED BY <1>3, <1>4, <1>5, <1>6

LEMMA InitHeld == Init => Hold
<1> SUFFICES ASSUME Init, NEW e \in Ends PROVE Held(e) /\ Current(e)
  BY DEF Hold
<1>1. input[e] = NewInput
  BY DEF Init
<1> QED BY <1>1, EmptyStreams, HeldEmpty

\* Every step moves the flow from an end on.
LEMMA NextMoves ==
  ASSUME IInv, FlowInv, [Next]_vars, NEW o \in Ends
  PROVE  Moves(o)
<1>1. ASSUME UNCHANGED vars PROVE Moves(o)
  BY <1>1, QuietSame DEF vars, outVars, linkVars, sessionVars, Moves
<1>2. ASSUME NEW e \in Ends, Run(e) \/ Lose(e) \/ Corrupt(e) \/ Restart(e) PROVE Moves(o)
  <2>1. CASE StartPacket(e) \/ SendUnit(e)
    BY <2>1, TransmitterMoves DEF Moves
  <2>2. CASE Preempt(e) \/ FinishPacket(e)
    BY <2>2, SentMoves DEF Moves
  <2>3. CASE Lose(e) \/ Corrupt(e) \/ ReadHeader(e) \/ Deliver(e)
    BY <2>3, LinkMoves DEF Moves
  <2>4. CASE ReadBody(e)
    BY <2>4, BodyMoves
  <2>5. CASE Restart(e)
    BY <2>5, RestartMoves DEF Moves
  <2> QED BY <1>2, <2>1, <2>2, <2>3, <2>4, <2>5 DEF Run
<1>3. ASSUME NEW t \in Traffic, Commit(t) PROVE Moves(o)
  BY <1>3, CommitMoves DEF Moves
<1> QED BY <1>1, <1>2, <1>3 DEF Next

\* What is in store stays, and what is readable is current, if the program keeps up.
LEMMA NextHeld == IInv /\ FlowInv /\ Hold /\ KeepsUp /\ [Next]_vars => Hold'
<1> SUFFICES ASSUME IInv, FlowInv, Hold, KeepsUp, [Next]_vars, NEW e \in Ends
             PROVE  (Held(e) /\ Current(e))'
  BY DEF Hold
<1>1. IInv' /\ Held(e) /\ Current(e) /\ Moves(Other(e))
  BY NextInv, NextMoves, OtherEnd DEF Hold
<1>2. ASSUME input'[e] = input[e], lastRx'[e] = lastRx[e], lastInit'[e] = lastInit[e]
      PROVE  (Held(e) /\ Current(e))'
  BY <1>1, <1>2, Undisturbed
<1>3. ASSUME UNCHANGED <<input, sessionVars>> PROVE (Held(e) /\ Current(e))'
  BY <1>2, <1>3 DEF sessionVars
<1>4. ASSUME NEW d \in Ends, Run(d) \/ Lose(d) \/ Corrupt(d) \/ Restart(d) PROVE (Held(e) /\ Current(e))'
  <2>1. CASE ReadHeader(d) \/ ReadBody(d) \/ Deliver(d) \/ Restart(d)
    <3>1. CASE d = e
      BY <1>1, <2>1, <3>1, ReadHeaderHeld, ReadBodyHeld, DeliverHeld, RestartHeld
    <3>2. CASE d # e
      BY <1>2, <2>1, <3>2, OthersReceive
    <3> QED BY <3>1, <3>2
  <2>2. CASE StartPacket(d) \/ SendUnit(d) \/ Lose(d) \/ Corrupt(d)
    BY <1>3, <2>2 DEF StartPacket, SendUnit, Lose, Corrupt
  <2>3. CASE Preempt(d) \/ FinishPacket(d)
    BY <1>3, <2>3, SentMoves
  <2> QED BY <1>4, <2>1, <2>2, <2>3 DEF Run
<1>5. ASSUME NEW t \in Traffic, Commit(t) PROVE (Held(e) /\ Current(e))'
  BY <1>3, <1>5 DEF Commit
<1>6. ASSUME UNCHANGED vars PROVE (Held(e) /\ Current(e))'
  BY <1>3, <1>6 DEF vars
<1> QED BY <1>4, <1>5, <1>6 DEF Next

LEMMA HeldCurrent == IInv /\ Hold => OnlyCurrentSession
<1> SUFFICES ASSUME IInv, Hold, NEW e \in Ends, NEW id \in ReadableIds(input[e])
             PROVE  HandshakeId(id.start) >= lastInit[e]
  BY DEF OnlyCurrentSession
<1>1. input[e] \in Inputs /\ Stable(input[e]) /\ Current(e)
  BY WireFacts DEF Hold, Held
<1>2. PICK p \in Priority : \E k \in 1 .. input[e].buffer[p].size : id = Id(Shown(input[e].buffer[p], k))
  BY <1>1, ReadableShown
<1>3. PICK k \in 1 .. input[e].buffer[p].size : id = Id(Shown(input[e].buffer[p], k))
  BY <1>2
<1>4. id.start = Shown(input[e].buffer[p], k).start
  BY <1>3 DEF Id
<1> QED BY <1>1, <1>3, <1>4 DEF Current

\* As long as the program keeps up with its input, nothing readable is older than
\* the last handshake: ResetSession() clears the buffers, and no header or
\* continuation of an earlier start gets past the handshake on the link.
THEOREM OnlyCurrentSessionKept == Spec /\ []KeepsUp => []OnlyCurrentSession
BY InitInv, NextInv, InitFlow, NextFlow, InitHeld, NextHeld, HeldCurrent, PTL DEF Spec

-----------------------------------------------------------------------------
(* What a step does to what the program at e has taken or can read.          *)

LEMMA ReadBodyReceives ==
  ASSUME IInv, IInv', FlowInv, NEW e \in Ends, Held(e), ReadBody(e)
  PROVE  Reads(e) /\ delivered' = delivered /\ forgotten \subseteq forgotten' /\ UNCHANGED <<start, seqNo>>
<1>1. PICK f \in Fragments, in \in Inputs, s \in StoredPackets :
        /\ Takes(e, f, in, s)
        /\ \/ input' = [input EXCEPT ![e] = in] /\ UNCHANGED <<outVars, sessionVars, observed>>
           \/ /\ f.footer /\ Same(f.pkt, s.pkt)
              /\ \/ HandshakeRequest(e, s.pkt, in)
                 \/ Acknowledgement(e, s.pkt, in)
                 \/ Data(e, s.pkt, in)
  BY BodyTaken
<1>2. /\ Moves(Other(e)) /\ OnTheWay(Other(e))' = OnWire(Tail(wire[Other(e)])) \cup Later(Other(e))
      /\ wire'[e] = wire[e] /\ wire'[Other(e)] = Tail(wire[Other(e)])
      /\ delivered' = delivered /\ UNCHANGED <<start, seqNo>>
  BY BodyMoves, OtherEnd
<1>3. Arrives(e, f)
  BY <1>1, <1>2 DEF Arrives, Takes
<1>4. Stable(in) /\ SameView(in, input[e]) /\ s.pkt \in Packets /\ f.pkt \in Packets
  BY <1>1, BodyHeld DEF StoredPackets, Fragments
<1>5. DOMAIN lastRx = Ends
  BY DEF IInv, CounterInv
<1>6. ASSUME input' = [input EXCEPT ![e] = in], lastRx' = lastRx PROVE Keeps(e)
  <2>1. input'[e] = in
    BY <1>6, InputSet
  <2> QED BY <1>2, <1>4, <1>6, <2>1 DEF Keeps
<1>7. CASE f.footer /\ Same(f.pkt, s.pkt) /\ HandshakeRequest(e, s.pkt, in)
  <2>1. /\ input' = [input EXCEPT ![e] = ResetInput(in)]
        /\ lastRx' = [lastRx EXCEPT ![e] = [p \in Priority |-> None]]
        /\ forgotten' = forgotten \cup ReadableIds(in) /\ IsRequest(s.pkt)
        /\ out' = WithAck(e, s.pkt) /\ UNCHANGED <<tx, done, acked>>
    BY <1>7 DEF HandshakeRequest, IsRequest
  <2>2. Empty(input'[e])
    <3>1. input'[e] = ResetInput(in)
      BY <2>1, InputSet
    <3> QED BY <3>1, EmptyStreams
  <2>3. ReadableIds(in) = ReadableIds(input[e])
    BY <1>4, WireFacts, SameReadable DEF Held
  <2>4. IsRequest(f.pkt) /\ s.pkt.requires_ack
    BY <1>1, <1>4, <1>7, <2>1, SamePacket DEF IsRequest, Takes, Made
  <2>5. Hears(e)
    BY <1>2, <1>3, <1>5, <2>1, <2>2, <2>3, <2>4 DEF Hears
  <2>6. Answerable(s.pkt)
    BY <1>1, <1>7, <2>1, TakenAnswerable
  <2>7. Reads(e)
    BY <1>3, <1>4, <1>7, <2>1, <2>4, <2>5, <2>6 DEF Reads
  <2> QED BY <1>2, <2>1, <2>7
<1>8. CASE f.footer /\ Same(f.pkt, s.pkt) /\ Data(e, s.pkt, in)
  <2>1. /\ IsData(s.pkt) /\ UNCHANGED <<tx, done, acked, forgotten>>
        /\ out' = out \/ (out' = WithAck(e, s.pkt) /\ s.pkt.requires_ack)
        /\ \/ /\ input' = [input EXCEPT ![e] = in] /\ lastRx' = lastRx
              /\ out' # out => AlreadyReceived(e, s.pkt)
           \/ Passes(e, s.pkt, in)
    BY <1>4, <1>8, DataTaken DEF observed
  <2>2. Answerable(s.pkt)
    BY <1>1, <1>8, <2>1, TakenAnswerable
  <2>3. CASE Passes(e, s.pkt, in)
    <3>1. Gains(input'[e], input[e], s.pkt) /\ Sent(Other(e), s.pkt)
      BY <1>1, <1>2, <1>8, <2>1, <2>3, Acceptance
    <3>2. IF s.pkt.requires_ack
          THEN /\ ~AlreadyReceived(e, s.pkt) /\ lastRx'[e] = [lastRx[e] EXCEPT ![s.pkt.p] = s.pkt.seq]
          ELSE lastRx'[e] = lastRx[e]
      BY <1>5, <2>3 DEF Passes
    <3>3. Accepts(e, f, s.pkt)
      BY <1>2, <1>3, <1>4, <1>8, <2>1, <3>1, <3>2 DEF Accepts
    <3>4. Reads(e)
      BY <1>3, <1>4, <1>8, <2>1, <2>2, <3>3 DEF Reads
    <3> QED BY <1>2, <2>1, <3>4
  <2>4. CASE input' = [input EXCEPT ![e] = in] /\ lastRx' = lastRx /\ (out' # out => AlreadyReceived(e, s.pkt))
    <3>1. Keeps(e)
      BY <1>6, <2>4
    <3>2. Reads(e)
      BY <1>3, <1>4, <1>8, <2>1, <2>2, <2>4, <3>1 DEF Reads
    <3> QED BY <1>2, <2>1, <3>2
  <2> QED BY <2>1, <2>3, <2>4
<1>9. CASE f.footer /\ Same(f.pkt, s.pkt) /\ Acknowledgement(e, s.pkt, in)
  <2>1. input' = [input EXCEPT ![e] = in] /\ lastRx' = lastRx /\ forgotten' = forgotten
    BY <1>9 DEF Acknowledgement
  <2>2. Reads(e)
    BY <1>3, <1>4, <1>6, <1>9, <2>1 DEF Reads
  <2> QED BY <1>2, <2>1, <2>2
<1>10. CASE input' = [input EXCEPT ![e] = in] /\ UNCHANGED <<outVars, sessionVars, observed>>
  <2>1. lastRx' = lastRx /\ UNCHANGED <<out, tx, done, acked, forgotten>>
    BY <1>10 DEF outVars, sessionVars, observed
  <2>2. Reads(e)
    BY <1>3, <1>4, <1>6, <1>10, <2>1 DEF Reads
  <2> QED BY <1>2, <2>1, <2>2
<1> QED BY <1>1, <1>7, <1>8, <1>9, <1>10

LEMMA Receives ==
  ASSUME IInv, FlowInv, Hold, KeepsUp, [Next]_vars, NEW e \in Ends, DOMAIN delivered = Ends
  PROVE  /\ Keeps(e) \/ TakesOldest(e) \/ Starts(e) \/ Hears(e) \/ \E f, pkt : Accepts(e, f, pkt)
         /\ DOMAIN delivered' = Ends /\ forgotten \subseteq forgotten'
<1>1. IInv' /\ Held(e) /\ Current(e)
  BY NextInv DEF Hold
<1>2. ASSUME input'[e] = input[e], lastRx'[e] = lastRx[e], delivered'[e] = delivered[e] PROVE Keeps(e)
  BY <1>2, ViewOfItself DEF Keeps
<1>3. ASSUME UNCHANGED <<input, sessionVars, observed>>
      PROVE  Keeps(e) /\ DOMAIN delivered' = Ends /\ forgotten \subseteq forgotten'
  BY <1>2, <1>3 DEF sessionVars, observed
<1>4. ASSUME NEW d \in Ends, ReadHeader(d)
      PROVE  Keeps(e) /\ DOMAIN delivered' = Ends /\ forgotten \subseteq forgotten'
  <2>1. UNCHANGED <<sessionVars, observed>>
    BY <1>4 DEF ReadHeader
  <2>2. CASE d = e
    BY <1>1, <1>4, <2>1, <2>2, ReadHeaderHeld DEF Keeps, sessionVars, observed
  <2>3. CASE d # e
    BY <1>2, <1>4, <2>1, <2>3, OthersReceive DEF sessionVars, observed
  <2> QED BY <2>2, <2>3
<1>5. ASSUME NEW d \in Ends, ReadBody(d)
      PROVE  /\ Keeps(e) \/ Hears(e) \/ \E f, pkt : Accepts(e, f, pkt)
             /\ DOMAIN delivered' = Ends /\ forgotten \subseteq forgotten'
  <2>1. delivered' = delivered /\ forgotten \subseteq forgotten'
    BY <1>1, <1>5, ReadBodyReceives DEF Hold
  <2>2. CASE d = e
    <3>1. Reads(e)
      BY <1>1, <1>5, <2>2, ReadBodyReceives
    <3> QED BY <2>1, <3>1 DEF Reads
  <2>3. CASE d # e
    BY <1>2, <1>5, <2>1, <2>3, OthersReceive
  <2> QED BY <2>1, <2>2, <2>3
<1>6. ASSUME NEW d \in Ends, Deliver(d)
      PROVE  /\ Keeps(e) \/ TakesOldest(e)
             /\ DOMAIN delivered' = Ends /\ forgotten \subseteq forgotten'
  <2>1. UNCHANGED <<sessionVars, forgotten>>
    BY <1>6 DEF Deliver
  <2>2. \E p \in Priority : /\ Takes1(input'[d], input[d], p)
                            /\ DOMAIN delivered' = Ends
                            /\ delivered'[d] = delivered[d] \cup {Id(Shown(input[d].buffer[p], 1))}
                            /\ \A c \in Ends : c # d => delivered'[c] = delivered[c]
    BY <1>1, <1>6, DeliverHeld DEF Hold
  <2>3. CASE d = e
    BY <2>1, <2>2, <2>3 DEF TakesOldest, sessionVars
  <2>4. CASE d # e
    BY <1>2, <1>6, <2>1, <2>2, <2>4, OthersReceive DEF sessionVars
  <2> QED BY <2>1, <2>2, <2>3, <2>4
<1>7. ASSUME NEW d \in Ends, Restart(d)
      PROVE  /\ Keeps(e) \/ Starts(e)
             /\ DOMAIN delivered' = Ends /\ forgotten \subseteq forgotten'
  <2>1. /\ start' = [start EXCEPT ![d] = start[d] + 1]
        /\ delivered' = [delivered EXCEPT ![d] = {}] /\ input' = [input EXCEPT ![d] = NewInput]
        /\ lastRx' = [lastRx EXCEPT ![d] = [p \in Priority |-> None]]
        /\ forgotten' = forgotten \cup ReadableIds(input[d]) \cup delivered[d]
    BY <1>7 DEF Restart
  <2>2. /\ DOMAIN delivered' = Ends /\ delivered'[d] = {}
        /\ \A c \in Ends : c # d => delivered'[c] = delivered[c]
    BY <2>1, DeliveredSet
  <2>3. CASE d = e
    <3>1. input'[e] = NewInput
      BY <2>1, <2>3, InputSet
    <3>2. lastRx'[e] = [p \in Priority |-> None]
      BY <2>1, <2>3 DEF IInv, CounterInv
    <3>3. start'[e] = start[e] + 1
      BY <2>1, <2>3 DEF IInv, StartInv
    <3> QED BY <2>1, <2>2, <2>3, <3>1, <3>2, <3>3, EmptyStreams DEF Starts
  <2>4. CASE d # e
    BY <1>2, <1>7, <2>1, <2>2, <2>4, OthersReceive
  <2> QED BY <2>1, <2>2, <2>3, <2>4
<1>8. ASSUME NEW d \in Ends, StartPacket(d) \/ SendUnit(d) \/ Lose(d) \/ Corrupt(d) \/ Preempt(d) \/ FinishPacket(d)
      PROVE  UNCHANGED <<input, sessionVars, observed>>
  BY <1>8, SentMoves DEF StartPacket, SendUnit, Lose, Corrupt
<1>9. ASSUME NEW t \in Traffic, Commit(t) PROVE UNCHANGED <<input, sessionVars, observed>>
  BY <1>9 DEF Commit
<1>10. ASSUME UNCHANGED vars PROVE UNCHANGED <<input, sessionVars, observed>>
  BY <1>10 DEF vars
<1> QED BY <1>3, <1>4, <1>5, <1>6, <1>7, <1>8, <1>9, <1>10 DEF Next, Run

-----------------------------------------------------------------------------
(* What is accepted comes before what is still on its way.                   *)

LEMMA NumberedKept ==
  ASSUME IInv, IInv', FlowInv, NEW o \in Ends, Moves(o), NEW a, Numbered(o, a)
  PROVE  Numbered(o, a)'
<1>1. /\ start'[o] >= start[o]
      /\ start'[o] = start[o] => \A p \in Priority : seqNo'[o][p] >= seqNo[o][p]
  BY MovesOn
<1>2. start[o] \in Nat /\ start'[o] \in Nat
  BY DEF IInv, StartInv
<1>3. \A p \in Priority : seqNo[o][p] \in Nat /\ seqNo'[o][p] \in Nat
  <2>1. seqNo \in [Ends -> [Priority -> 0 .. MaxPackets]] /\ seqNo' \in [Ends -> [Priority -> 0 .. MaxPackets]]
    BY DEF IInv, CounterInv
  <2>2. seqNo[o] \in [Priority -> 0 .. MaxPackets] /\ seqNo'[o] \in [Priority -> 0 .. MaxPackets]
    BY <2>1
  <2> QED BY <2>2, BoundsAssumption
<1>4. /\ a.from = o /\ a.start \in Nat /\ a.p \in Priority /\ a.seq \in Nat
      /\ a.start <= start[o] /\ (a.start = start[o] => a.seq < seqNo[o][a.p])
  BY DEF Numbered
<1>5. CASE start'[o] = start[o]
  <2>1. seqNo'[o][a.p] >= seqNo[o][a.p] /\ seqNo[o][a.p] \in Nat /\ seqNo'[o][a.p] \in Nat
    BY <1>1, <1>3, <1>4, <1>5
  <2> QED BY <1>4, <1>5, <2>1 DEF Numbered
<1>6. CASE start'[o] > start[o]
  BY <1>2, <1>4, <1>6 DEF Numbered
<1> QED BY <1>1, <1>2, <1>5, <1>6

LEMMA SettledKept ==
  ASSUME IInv, IInv', FlowInv, NEW e \in Ends, Moves(Other(e)), NEW a, Settled(e, a),
         lastRx'[e][a.p] = lastRx[e][a.p]
  PROVE  Settled(e, a)'
<1>1. PICK o \in Ends : o = Other(e)
  BY OtherEnd
<1>2. \A b \in OnTheWay(o)' : b \in Packets /\ (b \in OnTheWay(o) \/ Fresh(o, b))
  BY <1>1, MovesOn
<1>3. start[o] \in Nat
  BY DEF IInv, StartInv
<1>4. /\ a.start \in Nat /\ a.p \in Priority /\ a.seq \in Nat
      /\ a.start <= start[o] /\ (a.start = start[o] => a.seq < seqNo[o][a.p])
      /\ \A b \in OnTheWay(o) : Passed(e, a, b)
  BY <1>1 DEF Settled, Numbered
<1>6. Numbered(o, a)'
  BY <1>1, NumberedKept DEF Settled
<1>7. ASSUME NEW b \in OnTheWay(o)' PROVE Passed(e, a, b)'
  <2>1. b.start \in Nat /\ b.seq \in Nat /\ b.p \in Priority
    BY <1>2 DEF Packets, PacketType
  <2>2. CASE b \in OnTheWay(o)
    BY <1>4, <2>2 DEF Passed
  <2>3. CASE Fresh(o, b)
    <3>1. a.start <= b.start
      BY <1>3, <1>4, <2>1, <2>3 DEF Fresh
    <3>2. a.start = b.start => ~IsRequest(b)
      BY <1>3, <1>4, <2>1, <2>3 DEF Fresh, IsRequest, IsData
    <3>3. a.start = b.start /\ IsData(b) /\ a.p = b.p => a.seq < b.seq
      <4>1. IsData(b) => b.start = start[o] /\ b.seq = seqNo[o][b.p]
        BY <2>3 DEF Fresh, IsRequest, IsData
      <4> QED BY <1>4, <4>1
    <3> QED BY <1>4, <2>1, <3>1, <3>2, <3>3 DEF Passed
  <2> QED BY <1>2, <2>2, <2>3
<1> QED BY <1>1, <1>6, <1>7 DEF Settled

\* What arrives is later than what is accepted, and earlier than the rest.
LEMMA Arrived ==
  ASSUME IInv, FlowInv, NEW e \in Ends, NEW f, Arrives(e, f)
  PROVE  /\ f.pkt \in Packets /\ f.pkt.start \in Nat /\ f.pkt.seq \in Nat /\ f.pkt.p \in Priority
         /\ f.pkt.from = Other(e)
         /\ \A b \in OnTheWay(Other(e))' : b \in Packets /\ b \in OnTheWay(Other(e))
                                           /\ Follows(f, b) /\ f.pkt.start <= b.start
         /\ AsCommitted(f.pkt) \in OnTheWay(Other(e))
<1>1. PICK o \in Ends : o = Other(e)
  BY OtherEnd
<1>2. /\ f \in Fragments /\ wire[o] # << >> /\ f = wire[o][1]
      /\ OnTheWay(o)' = OnWire(Tail(wire[o])) \cup Later(o)
  BY <1>1 DEF Arrives
<1>3. \A b \in OnTheWay(o)' : b \in Packets /\ b \in OnTheWay(o) /\ Follows(f, b) /\ f.pkt.start <= b.start
  BY <1>2, ArrivesBefore, OnTheWayMade
<1>4. 1 \in 1 .. Len(wire[o])
  BY <1>2, WireFacts, LenProperties, EmptySeq
<1>5. Made(o, start[o], seqNo[o], f.pkt)
  BY <1>2, <1>4 DEF FlowInv, Flow, FlowOf
<1>6. AsCommitted(f.pkt) \in OnTheWay(o)
  BY <1>2, <1>4 DEF OnTheWay, OnWire
<1> QED BY <1>1, <1>2, <1>3, <1>5, <1>6 DEF Made, Fragments, Packets, PacketType

\* A packet accepted before is earlier than the one accepted now.
LEMMA SettledBefore ==
  ASSUME IInv, IInv', FlowInv, NEW e \in Ends, Moves(Other(e)), NEW a, Settled(e, a),
         NEW f, NEW pkt, Accepts(e, f, pkt)
  PROVE  Settled(e, a)' /\ (a.p = pkt.p => Earlier(a, pkt))
<1>1. PICK o \in Ends : o = Other(e)
  BY OtherEnd
<1>2. PICK g \in Packets : g = AsCommitted(f.pkt) /\ g \in OnTheWay(o)
  BY <1>1, Arrived, OnTheWayMade DEF Accepts
<1>3. /\ pkt.start = g.start /\ pkt.p = g.p /\ pkt.seq = g.seq /\ pkt.requires_ack = g.requires_ack /\ IsData(g)
      /\ f.pkt.start = g.start /\ f.pkt.p = g.p /\ f.pkt.seq = g.seq /\ f.pkt.requires_ack = g.requires_ack
      /\ IsData(f.pkt) /\ f.footer
  <2>1. f.pkt \in Packets /\ pkt \in Packets /\ Same(f.pkt, pkt) /\ f.footer /\ IsData(pkt)
    BY Arrived DEF Accepts
  <2>2. Same(g, pkt) /\ Same(g, f.pkt)
    <3>1. AsCommitted(g) = g
      BY <1>1, <1>2, OnTheWayMade
    <3> QED BY <1>2, <2>1, <3>1 DEF Same
  <2> QED BY <2>1, <2>2, SamePacket DEF IsData
<1>4. g.start \in Nat /\ g.p \in Priority /\ g.seq \in Nat
  BY DEF Packets, PacketType
<1>5. a.start \in Nat /\ a.p \in Priority /\ a.seq \in Nat /\ Passed(e, a, g)
  BY <1>1, <1>2 DEF Settled, Numbered
<1>6. a.p = pkt.p => Earlier(a, pkt)
  <2>1. a.p = g.p /\ a.start = g.start /\ a.seq = g.seq => g.requires_ack /\ lastRx[e][a.p] = a.seq
    BY <1>3, <1>5 DEF Passed
  <2>2. pkt.requires_ack => ~AlreadyReceived(e, pkt)
    BY DEF Accepts
  <2>3. g.requires_ack /\ lastRx[e][g.p] = g.seq => FALSE
    BY <1>3, <1>4, <2>2 DEF AlreadyReceived, None
  <2> QED BY <1>3, <1>4, <1>5, <2>1, <2>3 DEF Earlier, Passed
<1>7. CASE a.p # pkt.p
  <2>1. lastRx'[e][a.p] = lastRx[e][a.p]
    <3>1. lastRx[e] \in [Priority -> Nat \cup {None}]
      BY ReceiverFacts
    <3> QED BY <1>5, <1>7, <3>1 DEF Accepts
  <2> QED BY <1>6, <1>7, <2>1, SettledKept
<1>8. CASE a.p = pkt.p
  <2>1. ASSUME NEW b \in OnTheWay(o)' PROVE Passed(e, a, b)'
    <3>1. b \in Packets /\ b \in OnTheWay(o) /\ Follows(f, b) /\ g.start <= b.start
      BY <1>1, <1>3, <2>1, Arrived DEF Accepts
    <3>2. b.start \in Nat /\ b.seq \in Nat /\ b.p \in Priority
      BY <3>1 DEF Packets, PacketType
    <3>3. a.start = b.start => a.start = g.start /\ a.seq < g.seq
      BY <1>3, <1>4, <1>5, <1>6, <1>8, <3>1, <3>2 DEF Earlier, Passed
    <3>4. a.start = b.start /\ IsData(b) /\ a.p = b.p => a.seq < b.seq
      BY <1>3, <1>4, <1>5, <1>8, <3>1, <3>2, <3>3 DEF Follows
    <3>5. Passed(e, a, b)
      BY <1>1, <3>1 DEF Settled
    <3> QED BY <1>5, <3>2, <3>4, <3>5 DEF Passed
  <2>2. Numbered(o, a)'
    BY <1>1, NumberedKept DEF Settled
  <2> QED BY <1>1, <1>6, <2>1, <2>2 DEF Settled
<1> QED BY <1>7, <1>8

\* What was taken is earlier than a handshake request that arrives.
LEMMA SettledHears ==
  ASSUME IInv, IInv', FlowInv, NEW e \in Ends, Moves(Other(e)), NEW a, Settled(e, a), Hears(e)
  PROVE  Settled(e, a)'
<1>1. PICK o \in Ends : o = Other(e)
  BY OtherEnd
<1>2. PICK f : Arrives(e, f) /\ IsRequest(f.pkt)
  BY DEF Hears
<1>3. PICK g \in Packets : g = AsCommitted(f.pkt) /\ g \in OnTheWay(o)
  BY <1>1, <1>2, Arrived, OnTheWayMade
<1>4. g.start = f.pkt.start /\ IsRequest(g) /\ g.start \in Nat
  <2>1. f.pkt \in Packets /\ Same(g, f.pkt)
    <3>1. AsCommitted(g) = g
      BY <1>1, <1>3, OnTheWayMade
    <3> QED BY <1>2, <1>3, <3>1, Arrived DEF Same
  <2> QED BY <1>2, <2>1, SamePacket DEF IsRequest, Packets, PacketType
<1>5. a.start \in Nat /\ Passed(e, a, g)
  BY <1>1, <1>3 DEF Settled, Numbered
<1>6. a.start < g.start
  BY <1>4, <1>5 DEF Passed
<1>7. ASSUME NEW b \in OnTheWay(o)' PROVE Passed(e, a, b)'
  <2>1. b.start \in Nat /\ g.start <= b.start
    BY <1>1, <1>2, <1>4, <1>7, Arrived DEF Packets, PacketType
  <2> QED BY <1>4, <1>5, <1>6, <2>1 DEF Passed
<1>8. Numbered(o, a)'
  BY <1>1, NumberedKept DEF Settled
<1> QED BY <1>1, <1>7, <1>8 DEF Settled

\* So is the packet accepted now.
LEMMA SettledNew ==
  ASSUME IInv, IInv', FlowInv, NEW e \in Ends, Moves(Other(e)), NEW f, NEW pkt, Accepts(e, f, pkt)
  PROVE  Settled(e, Id(pkt))' /\ Id(pkt).p = pkt.p
<1>1. PICK o \in Ends : o = Other(e)
  BY OtherEnd
<1>2. PICK a : a = Id(pkt)
  OBVIOUS
<1>3. a.from = pkt.from /\ a.start = pkt.start /\ a.p = pkt.p /\ a.seq = pkt.seq
  BY <1>2 DEF Id
<1>4. /\ f.pkt \in Packets /\ pkt \in Packets /\ Same(f.pkt, pkt) /\ f.footer /\ IsData(pkt)
      /\ f.pkt.from = o
  BY <1>1, Arrived DEF Accepts
<1>5. /\ pkt.start = f.pkt.start /\ pkt.p = f.pkt.p /\ pkt.seq = f.pkt.seq /\ IsData(f.pkt)
      /\ pkt.requires_ack = f.pkt.requires_ack /\ pkt.from = o
      /\ pkt.start \in Nat /\ pkt.p \in Priority /\ pkt.seq \in Nat
  BY <1>4, SamePacket DEF IsData, Packets, PacketType
<1>6. Numbered(o, a)
  BY <1>1, <1>3, <1>4, <1>5 DEF Accepts, Sent, Numbered
<1>7. ASSUME NEW b \in OnTheWay(o)' PROVE Passed(e, a, b)'
  <2>1. b \in Packets /\ Follows(f, b) /\ f.pkt.start <= b.start
    BY <1>1, <1>7, Arrived DEF Accepts
  <2>2. ASSUME a.start = b.start, IsData(b), a.p = b.p, a.seq = b.seq
        PROVE  b.requires_ack /\ lastRx'[e][a.p] = a.seq
    <3>1. b.requires_ack /\ pkt.requires_ack
      BY <1>3, <1>4, <1>5, <2>1, <2>2 DEF Follows
    <3>2. lastRx[e] \in [Priority -> Nat \cup {None}]
      BY ReceiverFacts
    <3> QED BY <1>3, <1>5, <3>1, <3>2 DEF Accepts
  <2>3. a.start <= b.start /\ (a.start = b.start =>
          ~IsRequest(b) /\ (IsData(b) /\ a.p = b.p => a.seq <= b.seq))
    BY <1>3, <1>5, <2>1 DEF Follows
  <2> QED BY <2>2, <2>3 DEF Passed
<1>8. Numbered(o, a)'
  BY <1>1, <1>6, NumberedKept
<1>9. Settled(e, a)'
  BY <1>1, <1>7, <1>8 DEF Settled
<1> QED BY <1>2, <1>3, <1>9

\* What is accepted after a step.
LEMMA NowAccepted ==
  ASSUME IInv, IInv', NEW e \in Ends, Stable(input[e]), Stable(input'[e])
  PROVE  /\ Keeps(e) \/ TakesOldest(e) => Accepted(e)' = Accepted(e)
         /\ Starts(e) => Accepted(e)' = {}
         /\ Hears(e) => Accepted(e)' = delivered[e]
         /\ \A f, pkt : Accepts(e, f, pkt) => Accepted(e)' = Accepted(e) \cup {Id(pkt)}
<1>1. PICK old \in Inputs, new \in Inputs : old = input[e] /\ new = input'[e] /\ Stable(old) /\ Stable(new)
  BY WireFacts DEF IInv, LinkInv
<1>2. \A id : id \in ReadableIds(old) <=>
        \E p \in Priority : \E k \in 1 .. old.buffer[p].size : id = Id(Shown(old.buffer[p], k))
  BY <1>1, ReadableShown
<1>3. \A id : id \in ReadableIds(new) <=>
        \E p \in Priority : \E k \in 1 .. new.buffer[p].size : id = Id(Shown(new.buffer[p], k))
  BY <1>1, ReadableShown
<1>4. \A p \in Priority : old.buffer[p].size \in Nat /\ new.buffer[p].size \in Nat
  BY <1>1, ReadableShown
<1>5. Keeps(e) => Accepted(e)' = Accepted(e)
  BY <1>1, SameReadable DEF Keeps, Accepted
<1>6. ASSUME Empty(new) PROVE ReadableIds(new) = {}
  <2>1. \A p \in Priority : 1 .. new.buffer[p].size = {}
    BY <1>6 DEF Empty
  <2> QED BY <1>3, <2>1
<1>7. /\ Starts(e) => Accepted(e)' = {}
      /\ Hears(e) => Accepted(e)' = delivered[e]
  BY <1>1, <1>6 DEF Starts, Hears, Accepted
<1>8. ASSUME TakesOldest(e) PROVE Accepted(e)' = Accepted(e)
  <2>1. PICK p \in Priority : /\ Takes1(new, old, p)
                              /\ delivered'[e] = delivered[e] \cup {Id(Shown(old.buffer[p], 1))}
    BY <1>1, <1>8 DEF TakesOldest
  <2>2. PICK n \in Nat : n = old.buffer[p].size /\ n > 0
    BY <1>4, <2>1 DEF Takes1
  <2>3. ASSUME NEW id \in ReadableIds(new) PROVE id \in ReadableIds(old)
    <3>1. PICK q \in Priority : \E k \in 1 .. new.buffer[q].size : id = Id(Shown(new.buffer[q], k))
      BY <1>3, <2>3
    <3>2. PICK k \in 1 .. new.buffer[q].size : id = Id(Shown(new.buffer[q], k))
      BY <3>1
    <3>3. CASE q # p
      BY <1>2, <2>1, <3>2, <3>3 DEF Takes1, SameShown
    <3>4. CASE q = p
      <4>1. k \in 1 .. n - 1 /\ k + 1 \in 1 .. n
        BY <2>1, <2>2, <3>4 DEF Takes1
      <4>2. id = Id(Shown(old.buffer[p], k + 1))
        BY <2>1, <2>2, <3>2, <3>4, <4>1 DEF Takes1
      <4> QED BY <1>2, <2>2, <4>1, <4>2
    <3> QED BY <3>3, <3>4
  <2>4. ASSUME NEW id \in ReadableIds(old) PROVE id \in ReadableIds(new) \cup {Id(Shown(old.buffer[p], 1))}
    <3>1. PICK q \in Priority : \E k \in 1 .. old.buffer[q].size : id = Id(Shown(old.buffer[q], k))
      BY <1>2, <2>4
    <3>2. PICK k \in 1 .. old.buffer[q].size : id = Id(Shown(old.buffer[q], k))
      BY <3>1
    <3>3. CASE q # p
      BY <1>3, <2>1, <3>2, <3>3 DEF Takes1, SameShown
    <3>4. CASE q = p /\ k # 1
      <4>1. PICK j \in 1 .. n - 1 : k = j + 1
        BY <2>2, <3>4
      <4>2. id = Id(Shown(new.buffer[p], j)) /\ j \in 1 .. new.buffer[p].size
        BY <2>1, <2>2, <3>2, <3>4, <4>1 DEF Takes1
      <4> QED BY <1>3, <4>2
    <3> QED BY <3>2, <3>3, <3>4
  <2>5. Id(Shown(old.buffer[p], 1)) \in ReadableIds(old)
    <3>1. 1 \in 1 .. old.buffer[p].size
      BY <2>2
    <3> QED BY <1>2, <3>1
  <2> QED BY <1>1, <2>1, <2>3, <2>4, <2>5 DEF Accepted
<1>9. ASSUME NEW f, NEW pkt, Accepts(e, f, pkt) PROVE Accepted(e)' = Accepted(e) \cup {Id(pkt)}
  <2>1. Gains(new, old, pkt) /\ delivered'[e] = delivered[e] /\ pkt.p \in Priority
    BY <1>1, <1>9 DEF Accepts, Packets, PacketType
  <2>2. PICK n \in Nat, p \in Priority : p = pkt.p /\ n = old.buffer[p].size /\ new.buffer[p].size = n + 1
    BY <1>4, <2>1 DEF Gains
  <2>3. ASSUME NEW id \in ReadableIds(new) PROVE id \in ReadableIds(old) \cup {Id(pkt)}
    <3>1. PICK q \in Priority : \E k \in 1 .. new.buffer[q].size : id = Id(Shown(new.buffer[q], k))
      BY <1>3, <2>3
    <3>2. PICK k \in 1 .. new.buffer[q].size : id = Id(Shown(new.buffer[q], k))
      BY <3>1
    <3>3. CASE q # p
      BY <1>2, <2>1, <2>2, <3>2, <3>3 DEF Gains, SameShown
    <3>4. CASE q = p /\ k = n + 1
      BY <2>1, <2>2, <3>2, <3>4 DEF Gains
    <3>5. CASE q = p /\ k \in 1 .. n
      BY <1>2, <2>1, <2>2, <3>2, <3>5 DEF Gains
    <3> QED BY <2>2, <3>2, <3>3, <3>4, <3>5
  <2>4. ASSUME NEW id \in ReadableIds(old) PROVE id \in ReadableIds(new)
    <3>1. PICK q \in Priority : \E k \in 1 .. old.buffer[q].size : id = Id(Shown(old.buffer[q], k))
      BY <1>2, <2>4
    <3>2. PICK k \in 1 .. old.buffer[q].size : id = Id(Shown(old.buffer[q], k))
      BY <3>1
    <3>3. CASE q # p
      BY <1>3, <2>1, <2>2, <3>2, <3>3 DEF Gains, SameShown
    <3>4. CASE q = p
      <4>1. k \in 1 .. n /\ k \in 1 .. n + 1 /\ id = Id(Shown(new.buffer[p], k))
        BY <2>1, <2>2, <3>2, <3>4 DEF Gains
      <4> QED BY <1>3, <2>2, <4>1
    <3> QED BY <3>3, <3>4
  <2>5. Id(pkt) \in ReadableIds(new)
    <3>1. n + 1 \in 1 .. new.buffer[p].size /\ Shown(new.buffer[p], n + 1) = pkt
      BY <2>1, <2>2 DEF Gains
    <3> QED BY <1>3, <3>1
  <2> QED BY <1>1, <2>1, <2>3, <2>4, <2>5 DEF Accepted
<1> QED BY <1>5, <1>7, <1>8, <1>9

LEMMA SettlesKept ==
  ASSUME IInv, FlowInv, Hold, KeepsUp, [Next]_vars, NEW e \in Ends, DOMAIN delivered = Ends, Settles(e)
  PROVE  Settles(e)'
<1>1. /\ IInv' /\ Moves(Other(e)) /\ Stable(input[e]) /\ Stable(input'[e])
      /\ lastRx[e] \in [Priority -> Nat \cup {None}]
  BY NextInv, NextHeld, NextMoves, OtherEnd, ReceiverFacts DEF Hold, Held
<1>2. SUFFICES ASSUME NEW a \in Accepted(e)' PROVE Settled(e, a)'
  BY DEF Settles
<1>3. CASE Keeps(e) \/ TakesOldest(e)
  <2>1. Settled(e, a) /\ lastRx'[e][a.p] = lastRx[e][a.p]
    BY <1>1, <1>2, <1>3, NowAccepted DEF Settles, Keeps, TakesOldest
  <2> QED BY <1>1, <2>1, SettledKept
<1>4. CASE Starts(e)
  BY <1>1, <1>2, <1>4, NowAccepted
<1>5. CASE Hears(e)
  <2>1. Settled(e, a)
    BY <1>1, <1>2, <1>5, NowAccepted DEF Settles, Accepted
  <2> QED BY <1>1, <1>5, <2>1, SettledHears
<1>6. ASSUME NEW f, NEW pkt, Accepts(e, f, pkt) PROVE Settled(e, a)'
  <2>1. a \in Accepted(e) \/ a = Id(pkt)
    BY <1>1, <1>2, <1>6, NowAccepted
  <2>2. CASE a \in Accepted(e)
    BY <1>1, <1>6, <2>2, SettledBefore DEF Settles
  <2>3. CASE a = Id(pkt)
    BY <1>1, <1>6, <2>3, SettledNew
  <2> QED BY <2>1, <2>2, <2>3
<1> QED BY <1>3, <1>4, <1>5, <1>6, Receives

LEMMA InSequenceKept ==
  ASSUME IInv, FlowInv, Hold, KeepsUp, [Next]_vars, NEW e \in Ends, DOMAIN delivered = Ends,
         Settles(e), InSequence(e)
  PROVE  InSequence(e)'
<1>1. IInv' /\ Moves(Other(e)) /\ Stable(input[e]) /\ Stable(input'[e])
  BY NextInv, NextHeld, NextMoves, OtherEnd DEF Hold, Held
<1>2. PICK old \in Inputs, new \in Inputs : old = input[e] /\ new = input'[e] /\ Stable(old) /\ Stable(new)
  BY <1>1, WireFacts DEF IInv, LinkInv
<1>3. \A p \in Priority : old.buffer[p].size \in Nat /\ new.buffer[p].size \in Nat
  BY <1>2, ReadableShown
<1>4. ASSUME Keeps(e) PROVE InSequence(e)'
  <2>1. SameView(new, old) /\ delivered'[e] = delivered[e]
    BY <1>2, <1>4 DEF Keeps
  <2> SUFFICES ASSUME NEW p \in Priority, NEW k \in 1 .. new.buffer[p].size
               PROVE  LET s == Shown(new.buffer[p], k) IN
                      /\ s.p = p
                      /\ \A j \in 1 .. k - 1 : Earlier(Shown(new.buffer[p], j), s)
                      /\ \A id \in delivered'[e] : id.p = p => Earlier(id, s)
    BY <1>2 DEF InSequence
  <2>2. /\ new.buffer[p].size = old.buffer[p].size
        /\ \A j \in 1 .. old.buffer[p].size : Shown(new.buffer[p], j) = Shown(old.buffer[p], j)
    BY <2>1 DEF SameView, SameShown
  <2>3. \A j \in 1 .. k - 1 : j \in 1 .. old.buffer[p].size
    BY <1>3, <2>2
  <2> QED BY <1>2, <2>1, <2>2, <2>3 DEF InSequence
<1>5. ASSUME TakesOldest(e) PROVE InSequence(e)'
  <2>1. PICK q \in Priority : /\ Takes1(new, old, q)
                              /\ delivered'[e] = delivered[e] \cup {Id(Shown(old.buffer[q], 1))}
    BY <1>2, <1>5 DEF TakesOldest
  <2>2. PICK n \in Nat : n = old.buffer[q].size /\ n > 0 /\ new.buffer[q].size = n - 1
    BY <1>3, <2>1 DEF Takes1
  <2>3. PICK first : /\ first = Id(Shown(old.buffer[q], 1)) /\ first.p = q
                     /\ \A s : Earlier(Shown(old.buffer[q], 1), s) => Earlier(first, s)
    <3>1. PICK s : s = Shown(old.buffer[q], 1) /\ s.p = q
      <4>1. 1 \in 1 .. input[e].buffer[q].size
        BY <1>2, <2>2
      <4>2. Shown(input[e].buffer[q], 1).p = q
        BY <4>1 DEF InSequence
      <4> QED BY <1>2, <4>2
    <3>2. PICK id : id = Id(s)
      OBVIOUS
    <3>3. id.p = q /\ id.start = s.start /\ id.seq = s.seq
      BY <3>1, <3>2 DEF Id
    <3>4. \A t : Earlier(s, t) => Earlier(id, t)
      BY <3>3 DEF Earlier
    <3> QED BY <3>1, <3>2, <3>3, <3>4
  <2> SUFFICES ASSUME NEW p \in Priority, NEW k \in 1 .. new.buffer[p].size
               PROVE  LET s == Shown(new.buffer[p], k) IN
                      /\ s.p = p
                      /\ \A j \in 1 .. k - 1 : Earlier(Shown(new.buffer[p], j), s)
                      /\ \A id \in delivered'[e] : id.p = p => Earlier(id, s)
    BY <1>2 DEF InSequence
  <2>4. CASE p # q
    <3>1. /\ new.buffer[p].size = old.buffer[p].size
          /\ \A j \in 1 .. old.buffer[p].size : Shown(new.buffer[p], j) = Shown(old.buffer[p], j)
      BY <2>1, <2>4 DEF Takes1, SameShown
    <3>2. \A j \in 1 .. k - 1 : j \in 1 .. old.buffer[p].size
      BY <1>3, <3>1
    <3> QED BY <1>2, <2>1, <2>3, <2>4, <3>1, <3>2 DEF InSequence
  <2>5. CASE p = q
    <3>1. PICK m \in 1 .. n : m = k + 1 /\ k \in 1 .. n - 1
      BY <2>2, <2>5
    <3>2. /\ Shown(new.buffer[p], k) = Shown(old.buffer[p], m)
          /\ \A j \in 1 .. k - 1 : /\ j + 1 \in 1 .. m - 1
                                   /\ Shown(new.buffer[p], j) = Shown(old.buffer[p], j + 1)
      BY <2>1, <2>2, <2>5, <3>1 DEF Takes1
    <3>3. LET s == Shown(old.buffer[p], m) IN
          /\ s.p = p
          /\ \A j \in 1 .. m - 1 : Earlier(Shown(old.buffer[p], j), s)
          /\ \A id \in delivered[e] : id.p = p => Earlier(id, s)
      BY <1>2, <2>2, <2>5, <3>1 DEF InSequence
    <3>4. 1 \in 1 .. m - 1
      BY <3>1
    <3>5. Earlier(first, Shown(old.buffer[p], m))
      BY <2>3, <2>5, <3>3, <3>4
    <3> QED BY <2>1, <2>3, <3>2, <3>3, <3>5
  <2> QED BY <2>4, <2>5
<1>6. ASSUME Starts(e) \/ Hears(e) PROVE InSequence(e)'
  <2>1. \A p \in Priority : 1 .. new.buffer[p].size = {}
    BY <1>2, <1>6 DEF Starts, Hears, Empty
  <2> QED BY <1>2, <2>1 DEF InSequence
<1>7. ASSUME NEW f, NEW pkt, Accepts(e, f, pkt) PROVE InSequence(e)'
  <2>1. Gains(new, old, pkt) /\ delivered'[e] = delivered[e] /\ pkt.p \in Priority
    BY <1>2, <1>7 DEF Accepts, Packets, PacketType
  <2>2. PICK q \in Priority, n \in Nat : q = pkt.p /\ n = old.buffer[q].size /\ new.buffer[q].size = n + 1
    BY <1>3, <2>1 DEF Gains
  <2>3. \A a \in Accepted(e) : a.p = q => Earlier(a, pkt)
    BY <1>1, <1>7, <2>2, SettledBefore DEF Settles
  <2>4. ASSUME NEW j \in 1 .. n PROVE Earlier(Shown(old.buffer[q], j), pkt)
    <3>1. PICK a : a = Id(Shown(old.buffer[q], j))
      OBVIOUS
    <3>2. a \in Accepted(e)
      BY <1>2, <2>2, <3>1, ReadableShown DEF Accepted
    <3>3. a.p = q
      BY <1>2, <2>2, <3>1 DEF InSequence, Id
    <3> QED BY <2>3, <3>1, <3>2, <3>3 DEF Id, Earlier
  <2> SUFFICES ASSUME NEW p \in Priority, NEW k \in 1 .. new.buffer[p].size
               PROVE  LET s == Shown(new.buffer[p], k) IN
                      /\ s.p = p
                      /\ \A j \in 1 .. k - 1 : Earlier(Shown(new.buffer[p], j), s)
                      /\ \A id \in delivered'[e] : id.p = p => Earlier(id, s)
    BY <1>2 DEF InSequence
  <2>5. CASE p # q
    <3>1. /\ new.buffer[p].size = old.buffer[p].size
          /\ \A j \in 1 .. old.buffer[p].size : Shown(new.buffer[p], j) = Shown(old.buffer[p], j)
      BY <2>1, <2>2, <2>5 DEF Gains, SameShown
    <3>2. \A j \in 1 .. k - 1 : j \in 1 .. old.buffer[p].size
      BY <1>3, <3>1
    <3> QED BY <1>2, <2>1, <3>1, <3>2 DEF InSequence
  <2>6. CASE p = q /\ k \in 1 .. n
    <3>1. \A j \in 1 .. n : Shown(new.buffer[p], j) = Shown(old.buffer[p], j)
      BY <2>1, <2>2, <2>6 DEF Gains
    <3>2. \A j \in 1 .. k - 1 : j \in 1 .. n
      BY <2>6
    <3> QED BY <1>2, <2>1, <2>2, <2>6, <3>1, <3>2 DEF InSequence
  <2>7. CASE p = q /\ k = n + 1
    <3>1. /\ \A j \in 1 .. n : Shown(new.buffer[p], j) = Shown(old.buffer[p], j)
          /\ Shown(new.buffer[p], k) = pkt
      BY <2>1, <2>2, <2>7 DEF Gains
    <3>2. \A j \in 1 .. k - 1 : j \in 1 .. n
      BY <2>7
    <3>3. \A id \in delivered[e] : id.p = p => Earlier(id, pkt)
      BY <2>3, <2>7 DEF Accepted
    <3> QED BY <2>1, <2>2, <2>4, <2>7, <3>1, <3>2, <3>3
  <2> QED BY <2>2, <2>5, <2>6, <2>7
<1> QED BY <1>4, <1>5, <1>6, <1>7, Receives

LEMMA InitAccept == Init => AcceptInv
<1> SUFFICES ASSUME Init PROVE AcceptInv
  OBVIOUS
<1>1. delivered = [e \in Ends |-> {}] /\ input = [e \in Ends |-> NewInput]
  BY DEF Init
<1>2. ASSUME NEW e \in Ends PROVE Settles(e) /\ InSequence(e)
  <2>1. Empty(input[e]) /\ delivered[e] = {}
    BY <1>1, <1>2, EmptyStreams
  <2>2. \A p \in Priority : 1 .. input[e].buffer[p].size = {}
    BY <2>1 DEF Empty
  <2>3. ReadableIds(input[e]) = {}
    BY <2>1, <2>2, ReadableShown DEF Empty
  <2> QED BY <2>1, <2>2, <2>3 DEF Settles, Accepted, InSequence
<1> QED BY <1>1, <1>2 DEF AcceptInv

LEMMA NextAccept == IInv /\ FlowInv /\ Hold /\ AcceptInv /\ KeepsUp /\ [Next]_vars => AcceptInv'
<1> SUFFICES ASSUME IInv, FlowInv, Hold, AcceptInv, KeepsUp, [Next]_vars PROVE AcceptInv'
  OBVIOUS
<1>1. PICK e \in Ends : TRUE
  BY EndsAssumption, FS_EmptySet
<1>2. DOMAIN delivered' = Ends
  BY <1>1, Receives DEF AcceptInv
<1>3. \A d \in Ends : (Settles(d) /\ InSequence(d))'
  BY SettlesKept, InSequenceKept DEF AcceptInv
<1> QED BY <1>2, <1>3 DEF AcceptInv

LEMMA AcceptInOrder == IInv /\ Hold /\ AcceptInv => InOrderOnce
<1> SUFFICES ASSUME IInv, Hold, AcceptInv, NEW e \in Ends, NEW p \in Priority
             PROVE  LET q == Readable(input[e], p)
                        Before(a, b) == a.start < b.start \/ (a.start = b.start /\ a.seq < b.seq) IN
                    /\ \A k \in DOMAIN q : \A j \in 1 .. k - 1 : Before(q[j], q[k])
                    /\ \A k \in DOMAIN q : \A id \in delivered[e] : id.p = p => Before(id, q[k])
  BY DEF InOrderOnce
<1>1. input[e] \in Inputs /\ Stable(input[e]) /\ InSequence(e)
  BY WireFacts DEF Hold, Held, AcceptInv
<1>2. /\ DOMAIN Readable(input[e], p) = 1 .. input[e].buffer[p].size /\ input[e].buffer[p].size \in Nat
      /\ \A k \in 1 .. input[e].buffer[p].size : Readable(input[e], p)[k] = Shown(input[e].buffer[p], k)
  BY <1>1, ReadableShown
<1>3. \A k \in 1 .. input[e].buffer[p].size : \A j \in 1 .. k - 1 : j \in 1 .. input[e].buffer[p].size
  BY <1>2
<1> QED BY <1>1, <1>2, <1>3 DEF InSequence, Earlier

\* As long as the program keeps up with its input, what it reads from one start of
\* the other end is in the order sent and without repetitions: ACKed or not, a
\* packet is sent again only before the next of its priority, and AlreadyReceived()
\* drops what arrives again.
THEOREM InOrderOnceKept == Spec /\ []KeepsUp => []InOrderOnce
BY InitInv, NextInv, InitFlow, NextFlow, InitHeld, NextHeld, InitAccept, NextAccept, AcceptInOrder, PTL DEF Spec

-----------------------------------------------------------------------------
(* What a step does to the answers of an end and to what it knows.           *)

LEMMA SameIdles ==
  ASSUME NEW e, out'[e] = out[e], Later(e)' \subseteq Later(e), start'[e] = start[e], done'[e] = done[e]
  PROVE  Idles(e)
BY DEF Idles, HasRequest

LEMMA QuietIdles ==
  ASSUME NEW e, Quiet(e), out'[e] = out[e], done'[e] = done[e]
  PROVE  Idles(e)
<1>1. Later(e)' \subseteq Later(e)
  BY DEF Quiet, Later
<1> QED BY <1>1, SameIdles DEF Quiet

LEMMA SendsIdles ==
  ASSUME NEW e, Sends(e), HasRequest(e) => HasRequest(e)', done'[e] = done[e]
  PROVE  Idles(e)
<1>1. Later(e)' \subseteq Later(e)
  BY DEF Sends, Later
<1> QED BY <1>1 DEF Sends, Idles

LEMMA CommitIdles ==
  ASSUME IInv, FlowInv, NEW t \in Traffic, Commit(t), NEW e \in Ends
  PROVE  Idles(e)
<1>1. done' = done /\ start' = start
  BY DEF Commit, sessionVars
<1>2. CASE e # t.from
  <2>1. out'[e] = out[e]
    <3>1. t.from \in Ends
      BY CommitMoves
    <3>2. \E v : out' = [out EXCEPT ![t.from] = v]
      BY Mapped DEF Commit
    <3> QED BY <1>2, <3>1, <3>2, QueuesSet
  <2> QED BY <1>1, <1>2, <2>1, CommitMoves, QuietIdles
<1>3. CASE e = t.from
  <2>1. PICK c : Adds(e, c) /\ IsData(c)
    BY <1>3, CommitMoves
  <2>2. c \in Packets /\ ~AsCommitted(c).is_ack
    BY <2>1 DEF Adds, IsData, AsCommitted, Packets, PacketType
  <2>3. ASSUME NEW b \in Later(e)', b.is_ack PROVE b \in Later(e)
    <3>1. b \in InTx(tx[e]) \cup InQueues(out[e]) \cup {AsCommitted(c)}
      BY <2>1, <2>3 DEF Adds, Later
    <3> QED BY <2>2, <2>3, <3>1 DEF Later
  <2>4. HasRequest(e) => HasRequest(e)'
    <3>1. out[e][kHigh] \in Seq(Packets)
      <4>1. kHigh \in Priority
        BY DEF kHigh, Priority
      <4> QED BY <4>1 DEF IInv, OutputInv
    <3>2. CASE out'[e][kHigh] = out[e][kHigh]
      BY <3>2 DEF HasRequest
    <3>3. CASE out'[e][kHigh] # out[e][kHigh]
      <4>1. PICK v : out'[e][kHigh] = Append(out[e][kHigh], v)
        <5>1. PICK h \in Priority : h = kHigh
          BY DEF kHigh, Priority
        <5> QED BY <1>3, <3>3, <5>1, CommitMoves
      <4>2. ASSUME NEW k \in 1 .. Len(out[e][kHigh])
            PROVE  k \in 1 .. Len(out'[e][kHigh]) /\ out'[e][kHigh][k] = out[e][kHigh][k]
        BY <3>1, <4>1, <4>2
      <4> QED BY <4>2 DEF HasRequest
    <3> QED BY <3>2, <3>3
  <2> QED BY <1>1, <2>3, <2>4 DEF Idles
<1> QED BY <1>2, <1>3

LEMMA SentIdles ==
  ASSUME IInv, FlowInv, NEW d \in Ends, Preempt(d) \/ FinishPacket(d), NEW e \in Ends
  PROVE  Idles(e)
<1>1. done' = done
  BY SentMoves DEF sessionVars
<1>2. CASE e = d
  <2>1. Sends(e)
    BY <1>2, SentMoves
  <2>2. HasRequest(e) => HasRequest(e)'
    BY <1>2, SentMoves DEF HasRequest
  <2> QED BY <1>1, <2>1, <2>2, SendsIdles
<1>3. CASE e # d
  <2>1. out'[e] = out[e]
    <3>1. out \in [Ends -> [Priority -> Seq(Packets)]]
      BY DEF IInv, OutputInv
    <3>2. CASE Preempt(d)
      BY <1>3, <3>1, <3>2 DEF Preempt
    <3>3. CASE FinishPacket(d)
      BY <1>3, <3>1, <3>3 DEF FinishPacket
    <3> QED BY <3>2, <3>3
  <2> QED BY <1>1, <1>3, <2>1, SentMoves, QuietIdles
<1> QED BY <1>2, <1>3

LEMMA ReadIdles ==
  ASSUME IInv, NEW d \in Ends, Reads(d), NEW e \in Ends, e # d
  PROVE  Idles(e)
<1>1. start' = start
  BY DEF Reads, Arrives
<1>2. out'[e] = out[e] /\ tx'[e] = tx[e] /\ done'[e] = done[e]
  <2>1. PICK pkt, in : \/ UNCHANGED <<out, tx, done>>
                       \/ Acknowledgement(d, pkt, in)
                       \/ out' = WithAck(d, pkt) /\ UNCHANGED <<tx, done>>
    BY DEF Reads
  <2>2. CASE Acknowledgement(d, pkt, in)
    <3>1. done'[e] = done[e]
      BY <2>2 DEF Acknowledgement, IInv, CounterInv
    <3>2. out'[e] = out[e]
      BY <2>2 DEF Acknowledgement, IInv, OutputInv
    <3>3. tx'[e] = tx[e]
      BY <2>2 DEF Acknowledgement, IInv, OutputInv
    <3> QED BY <3>1, <3>2, <3>3
  <2>3. CASE out' = WithAck(d, pkt) /\ UNCHANGED <<tx, done>>
    BY <2>3, Mapped DEF WithAck
  <2> QED BY <2>1, <2>2, <2>3
<1> QED BY <1>1, <1>2, SameIdles DEF Later

LEMMA RestartIdles ==
  ASSUME IInv, FlowInv, NEW d \in Ends, Restart(d), NEW e \in Ends, e # d
  PROVE  Idles(e)
<1>1. done'[e] = done[e]
  BY DEF Restart, IInv, CounterInv
<1>2. out'[e] = out[e]
  BY QueuesSet DEF Restart
<1> QED BY <1>1, <1>2, RestartMoves, QuietIdles

LEMMA Steps ==
  ASSUME IInv, FlowInv, Hold, KeepsUp, [Next]_vars
  PROVE  \/ \E d \in Ends : Reads(d) /\ \A e \in Ends : e # d => Idles(e)
         \/ \E d \in Ends : Restart(d) /\ acked' = acked /\ \A e \in Ends : e # d => Idles(e)
         \/ acked' = acked /\ \A e \in Ends : Idles(e)
<1>1. IInv'
  BY NextInv
<1>2. ASSUME NEW d \in Ends, StartPacket(d) \/ SendUnit(d)
      PROVE  acked' = acked /\ \A e \in Ends : Idles(e)
  <2>1. acked' = acked /\ done' = done
    BY <1>2 DEF StartPacket, SendUnit, sessionVars, observed
  <2> QED BY <1>2, <2>1, TransmitterMoves, QuietIdles
<1>3. ASSUME NEW d \in Ends, Preempt(d) \/ FinishPacket(d)
      PROVE  acked' = acked /\ \A e \in Ends : Idles(e)
  BY <1>3, SentMoves, SentIdles DEF observed
<1>4. ASSUME NEW d \in Ends, Lose(d) \/ Corrupt(d) \/ ReadHeader(d) \/ Deliver(d)
      PROVE  acked' = acked /\ \A e \in Ends : Idles(e)
  <2>1. acked' = acked /\ done' = done
    BY <1>4 DEF Lose, Corrupt, ReadHeader, Deliver, sessionVars, observed
  <2> QED BY <1>4, <2>1, LinkMoves, QuietIdles
<1>5. ASSUME NEW d \in Ends, ReadBody(d)
      PROVE  Reads(d) /\ \A e \in Ends : e # d => Idles(e)
  BY <1>1, <1>5, ReadBodyReceives, ReadIdles DEF Hold
<1>6. ASSUME NEW d \in Ends, Restart(d)
      PROVE  Restart(d) /\ acked' = acked /\ \A e \in Ends : e # d => Idles(e)
  <2>1. acked' = acked
    BY <1>6 DEF Restart
  <2> QED BY <1>6, <2>1, RestartIdles
<1>7. ASSUME NEW t \in Traffic, Commit(t)
      PROVE  acked' = acked /\ \A e \in Ends : Idles(e)
  BY <1>7, CommitIdles DEF Commit, observed
<1>8. ASSUME UNCHANGED vars
      PROVE  acked' = acked /\ \A e \in Ends : Idles(e)
  <2>1. UNCHANGED <<out, tx, start, done, acked>>
    BY <1>8 DEF vars, outVars, sessionVars, observed
  <2> QED BY <2>1, SameIdles DEF Later
<1> QED BY <1>2, <1>3, <1>4, <1>5, <1>6, <1>7, <1>8 DEF Next, Run

-----------------------------------------------------------------------------
(* What the ends know of each other's starts.                                *)

\* What goes on a wire was being sent.
LEMMA WireMoves ==
  ASSUME IInv, NEW o \in Ends, Moves(o)
  PROVE  \/ Within(wire'[o], wire[o])
         \/ \E f \in Fragments : /\ tx[o].state = "burst" /\ f.pkt = tx[o].pkt
                                 /\ wire'[o] = Append(wire[o], f)
BY WithinItself, WireFacts DEF Moves, Quiet, Sends, Adds, Restarts

LEMMA WireKept ==
  ASSUME IInv, NEW o \in Ends, Moves(o), NEW k \in 1 .. Len(wire'[o])
  PROVE  \/ \E m \in 1 .. Len(wire[o]) : wire'[o][k].pkt = wire[o][m].pkt
         \/ tx[o].state = "burst" /\ wire'[o][k].pkt = tx[o].pkt
<1>1. CASE Within(wire'[o], wire[o])
  BY <1>1 DEF Within
<1>2. ASSUME NEW f \in Fragments, tx[o].state = "burst", f.pkt = tx[o].pkt, wire'[o] = Append(wire[o], f)
      PROVE  \/ \E m \in 1 .. Len(wire[o]) : wire'[o][k].pkt = wire[o][m].pkt
             \/ tx[o].state = "burst" /\ wire'[o][k].pkt = tx[o].pkt
  <2>1. PICK w \in Seq(Fragments) : w = wire[o]
    BY WireFacts
  <2>2. k \in 1 .. Len(w) + 1 /\ Append(w, f)[Len(w) + 1] = f
        /\ \A m \in 1 .. Len(w) : Append(w, f)[m] = w[m]
    BY <1>2, <2>1
  <2>3. k \in 1 .. Len(w) \/ k = Len(w) + 1
    BY <2>2
  <2> QED BY <1>2, <2>1, <2>2, <2>3
<1> QED BY <1>1, <1>2, WireMoves

\* An end that sends data was answered.
LEMMA SendsKnown ==
  ASSUME IInv, FlowInv, NEW o \in Ends, tx[o].state = "burst"
  PROVE  tx[o].pkt.start = start[o] /\ (IsData(tx[o].pkt) => Known(o))
<1>1. SentInOrder(out[o], tx[o])
  BY DEF FlowInv, Flow, FlowOf
<1> QED BY <1>1 DEF SentInOrder, Known, HasRequest, IInv, OutputInv, Sending

LEMMA NewAck ==
  ASSUME IInv, FlowInv, Hold, KeepsUp, [Next]_vars, NEW e \in Ends,
         NEW b \in Later(e)', b.is_ack, b \notin Later(e)
  PROVE  \E f, pkt :
           /\ Arrives(e, f) /\ f.footer /\ Same(f.pkt, pkt) /\ pkt \in Packets /\ Answerable(pkt)
           /\ pkt.requires_ack /\ done' = done
           /\ b.seq = pkt.seq /\ b.p = Higher(pkt.p) /\ b.is_init = pkt.is_init
           /\ \/ Hears(e) /\ IsRequest(pkt)
              \/ Keeps(e) /\ IsData(pkt) /\ AlreadyReceived(e, pkt)
              \/ Accepts(e, f, pkt)
<1>1. ~Idles(e)
  BY DEF Idles
<1>2. ~Restart(e)
  <2>1. Restart(e) => Restarts(e)
    BY RestartMoves
  <2> QED BY <2>1 DEF Restarts, Later, IsRequest
<1>3. Reads(e)
  BY <1>1, <1>2, Steps
<1>4. PICK f, pkt, in :
        /\ Arrives(e, f) /\ pkt \in Packets
        /\ \/ UNCHANGED <<out, tx, done, acked>>
           \/ Acknowledgement(e, pkt, in)
           \/ /\ f.footer /\ Same(f.pkt, pkt) /\ Answerable(pkt) /\ pkt.requires_ack
              /\ out' = WithAck(e, pkt) /\ UNCHANGED <<tx, done, acked>>
              /\ \/ Hears(e) /\ IsRequest(pkt)
                 \/ Keeps(e) /\ IsData(pkt) /\ AlreadyReceived(e, pkt)
                 \/ Accepts(e, f, pkt)
  BY <1>3 DEF Reads
<1>5. wire'[e] = wire[e] /\ start' = start
  BY <1>4 DEF Arrives
<1>6. ~UNCHANGED <<out, tx>>
  BY DEF Later
<1>7. ~Quiet(e)
  BY DEF Quiet, Later
<1>8. ~Acknowledgement(e, pkt, in)
  BY <1>4, <1>5, <1>7, AcknowledgedMoves
<1>9. /\ f.footer /\ Same(f.pkt, pkt) /\ Answerable(pkt) /\ pkt.requires_ack
      /\ out' = WithAck(e, pkt) /\ UNCHANGED <<tx, done, acked>>
      /\ \/ Hears(e) /\ IsRequest(pkt)
         \/ Keeps(e) /\ IsData(pkt) /\ AlreadyReceived(e, pkt)
         \/ Accepts(e, f, pkt)
  BY <1>4, <1>6, <1>8
<1>10. UNCHANGED seqNo
  BY <1>4 DEF Arrives
<1>11. Adds(e, AckFor(e, pkt))
  BY <1>4, <1>5, <1>7, <1>9, <1>10, AnswerMoves
<1>12. b = AsCommitted(AckFor(e, pkt))
  <2>1. b \in InTx(tx[e]) \cup InQueues(out[e]) \cup {AsCommitted(AckFor(e, pkt))}
    BY <1>11 DEF Adds, Later
  <2> QED BY <2>1 DEF Later
<1>13. b.seq = pkt.seq /\ b.p = Higher(pkt.p) /\ b.is_init = pkt.is_init
  BY <1>12 DEF AsCommitted, AckFor, Packet
<1> QED BY <1>4, <1>9, <1>13

LEMMA HandshakeIds ==
  /\ \A m, n \in Nat : HandshakeId(m) = HandshakeId(n) => m = n
  /\ \A m, n \in Nat : m <= n => HandshakeId(m) <= HandshakeId(n)
  /\ \A n \in Nat : HandshakeId(n) \in Nat /\ HandshakeId(n) >= MaxPackets /\ HandshakeId(n) < HandshakeId(n + 1)
BY BoundsAssumption DEF HandshakeId

\* An ACK on its way was, or has just been made.
LEMMA AcksKept ==
  ASSUME IInv, FlowInv, [Next]_vars, NEW e \in Ends, NEW b \in OnTheWay(e)', b.is_ack
  PROVE  b \in OnTheWay(e) \/ (b \in Later(e)' /\ b \notin Later(e))
<1>1. CASE b \in OnWire(wire'[e])
  <2>1. PICK k \in 1 .. Len(wire'[e]) : b = AsCommitted(wire'[e][k].pkt)
    BY <1>1 DEF OnWire
  <2>2. \/ \E m \in 1 .. Len(wire[e]) : wire'[e][k].pkt = wire[e][m].pkt
        \/ tx[e].state = "burst" /\ wire'[e][k].pkt = tx[e].pkt
    BY NextMoves, WireKept
  <2> QED BY <2>1, <2>2 DEF OnTheWay, OnWire, Later, InTx
<1>2. CASE b \in Later(e)'
  BY <1>2 DEF OnTheWay
<1> QED BY <1>1, <1>2 DEF OnTheWay

\* An answer that has just been made is one to a request that arrived.
LEMMA NewAnswer ==
  ASSUME IInv, FlowInv, Hold, KeepsUp, [Next]_vars, NEW e \in Ends,
         NEW b \in Later(e)', IsAnswer(b), b \notin Later(e)
  PROVE  \E f : /\ Hears(e) /\ Arrives(e, f) /\ f.pkt.start \in Nat /\ f.pkt.start <= start[Other(e)]
                /\ b.seq = HandshakeId(f.pkt.start)
<1>1. PICK f, pkt :
        /\ Arrives(e, f) /\ Same(f.pkt, pkt) /\ pkt \in Packets
        /\ b.seq = pkt.seq /\ b.is_init = pkt.is_init
        /\ \/ Hears(e) /\ IsRequest(pkt)
           \/ IsData(pkt)
           \/ Accepts(e, f, pkt)
  BY NewAck DEF IsAnswer
<1>2. Hears(e) /\ IsRequest(pkt)
  BY <1>1 DEF IsAnswer, IsData, Accepts
<1>3. f.pkt \in Packets /\ f.pkt.start = pkt.start /\ pkt.start \in Nat
  BY <1>1, Arrived, SamePacket
<1>4. pkt.seq = HandshakeId(pkt.start)
  BY <1>1, <1>2 DEF Packets
<1>5. f.pkt.start <= start[Other(e)]
  <2>1. AsCommitted(f.pkt) \in OnTheWay(Other(e))
    BY <1>1, Arrived
  <2>2. AsCommitted(f.pkt).start <= start[Other(e)]
    BY <2>1, OtherEnd, OnTheWayMade DEF Made
  <2> QED BY <1>3, <2>2 DEF AsCommitted, Packets, PacketType
<1> QED BY <1>1, <1>2, <1>3, <1>4, <1>5

LEMMA AnswersStartsKept ==
  ASSUME IInv, FlowInv, Hold, KeepsUp, [Next]_vars, NEW e \in Ends, AnswersStarts(e)
  PROVE  AnswersStarts(e)'
<1>1. PICK o \in Ends : o = Other(e)
  BY OtherEnd
<1>2. IInv' /\ start[o] \in Nat /\ start'[o] \in Nat /\ start'[o] >= start[o]
  BY NextInv, NextMoves, MovesOn DEF IInv, StartInv
<1>3. /\ HandshakeId(start[o]) <= HandshakeId(start'[o])
      /\ HandshakeId(start'[o]) \in Nat /\ HandshakeId(start[o]) \in Nat
  BY <1>2, HandshakeIds
<1>4. ASSUME NEW b \in OnTheWay(e)', IsAnswer(b) PROVE b.seq <= HandshakeId(start'[o])
  <2>1. b \in Packets /\ b.seq \in Nat
    BY <1>4, NextMoves, MovesOn DEF Packets, PacketType
  <2>2. CASE b \in OnTheWay(e)
    BY <1>1, <1>3, <1>4, <2>1, <2>2 DEF AnswersStarts
  <2>3. CASE b \in Later(e)' /\ b \notin Later(e)
    <3>1. PICK n \in Nat : n <= start[o] /\ b.seq = HandshakeId(n)
      BY <1>1, <1>4, <2>3, NewAnswer
    <3> QED BY <1>2, <3>1, HandshakeIds
  <2> QED BY <1>4, <2>2, <2>3, AcksKept DEF IsAnswer
<1> QED BY <1>1, <1>4 DEF AnswersStarts

LEMMA OneStartKept ==
  ASSUME IInv, FlowInv, [Next]_vars, NEW o \in Ends, OneStart(o), Session(o)
  PROVE  OneStart(o)'
<1>1. CASE Within(wire'[o], wire[o])
  <2>1. PICK at \in [1 .. Len(wire'[o]) -> 1 .. Len(wire[o])] :
          /\ \A j, k \in 1 .. Len(wire'[o]) : j < k => at[j] < at[k]
          /\ \A k \in 1 .. Len(wire'[o]) : wire'[o][k].pkt = wire[o][at[k]].pkt
    BY <1>1 DEF Within
  <2>2. ASSUME NEW j \in 1 .. Len(wire'[o]), NEW k \in 1 .. Len(wire'[o]), j < k, IsData(wire'[o][k].pkt)
        PROVE  wire'[o][j].pkt.start = wire'[o][k].pkt.start
    <3>1. PICK a \in 1 .. Len(wire[o]), b \in 1 .. Len(wire[o]) :
            a < b /\ wire'[o][j].pkt = wire[o][a].pkt /\ wire'[o][k].pkt = wire[o][b].pkt
      BY <2>1, <2>2
    <3> QED BY <2>2, <3>1 DEF OneStart
  <2> QED BY <2>2 DEF OneStart
<1>2. ASSUME NEW f \in Fragments, tx[o].state = "burst", f.pkt = tx[o].pkt, wire'[o] = Append(wire[o], f)
      PROVE  OneStart(o)'
  <2>1. PICK w \in Seq(Fragments) : w = wire[o]
    BY WireFacts
  <2>2. PICK n \in Nat : n = Len(w)
    BY <2>1
  <2>3. PICK v \in Seq(Fragments) : /\ v = Append(w, f) /\ Len(v) = n + 1 /\ v[n + 1] = f
                                    /\ \A m \in 1 .. n : v[m] = w[m]
    <3>1. Append(w, f) \in Seq(Fragments) /\ Len(Append(w, f)) = n + 1 /\ Append(w, f)[n + 1] = f
      BY <1>2, <2>1, <2>2
    <3>2. \A m \in 1 .. n : Append(w, f)[m] = w[m]
      BY <1>2, <2>1, <2>2
    <3> QED BY <3>1, <3>2
  <2>4. f.pkt.start = start[o] /\ (IsData(f.pkt) => \A m \in 1 .. n : w[m].pkt.start = start[o])
    BY <1>2, <2>1, <2>2, SendsKnown DEF Session
  <2>5. ASSUME NEW j \in 1 .. n + 1, NEW k \in 1 .. n + 1, j < k, IsData(v[k].pkt)
        PROVE  v[j].pkt.start = v[k].pkt.start
    <3>1. j \in 1 .. n
      BY <2>5
    <3>2. CASE k \in 1 .. n
      BY <2>1, <2>2, <2>3, <2>5, <3>1, <3>2 DEF OneStart
    <3>3. CASE k = n + 1
      BY <2>3, <2>4, <2>5, <3>1, <3>3
    <3> QED BY <3>2, <3>3
  <2> QED BY <1>2, <2>1, <2>3, <2>5 DEF OneStart
<1> QED BY <1>1, <1>2, NextMoves, WireMoves

\* The ACK of the request of an end's start is an answer to it.
LEMMA AckedRequest ==
  ASSUME IInv, FlowInv, NEW o \in Ends, NEW f, NEW pkt \in Packets, Arrives(o, f), Same(f.pkt, pkt),
         pkt.is_ack, pkt.seq = HandshakeId(start[o])
  PROVE  Answers(f.pkt, start[o]) /\ Known(o)
<1>1. PICK e \in Ends : e = Other(o) /\ Other(e) = o
  BY OtherEnd
<1>2. PICK b \in Packets : b = AsCommitted(f.pkt) /\ b \in OnTheWay(e) /\ Made(e, start[e], seqNo[e], b)
  BY <1>1, Arrived, OnTheWayMade
<1>3. f.pkt \in Packets /\ f.pkt.seq = pkt.seq /\ f.pkt.is_ack = pkt.is_ack
  BY Arrived, SamePacket
<1>4. b.seq = f.pkt.seq /\ b.is_ack = f.pkt.is_ack /\ b.is_init = f.pkt.is_init
  BY <1>2, <1>3 DEF AsCommitted, Packets, PacketType
<1>5. start[o] \in Nat /\ HandshakeId(start[o]) \in Nat /\ HandshakeId(start[o]) >= MaxPackets /\ MaxPackets \in Nat
  BY HandshakeIds, BoundsAssumption DEF IInv, StartInv
<1>6. b.is_init
  BY <1>2, <1>3, <1>4, <1>5 DEF Made, IsDataAck, Packets, PacketType
<1>7. Answers(f.pkt, start[o]) /\ Answers(b, start[o])
  BY <1>3, <1>4, <1>6 DEF Answers, IsAnswer, Packets, PacketType
<1> QED BY <1>1, <1>2, <1>7 DEF Known

\* A request leaves its queue when it is answered.
LEMMA RequestAcked ==
  ASSUME IInv, FlowInv, NEW o \in Ends, NEW f, NEW pkt \in Packets, NEW in, Arrives(o, f), Same(f.pkt, pkt),
         Acknowledgement(o, pkt, in), HasRequest(o)
  PROVE  HasRequest(o)' \/ Known(o)
<1> DEFINE p == Lower(pkt.p)
           q == out[o][p]
<1>1. \/ q # << >> /\ q[1].seq = pkt.seq /\ out' = [out EXCEPT ![o][p] = Tail(@)]
      \/ out' = out
  BY DEF Acknowledgement
<1>2. CASE out' = out
  BY <1>2 DEF HasRequest
<1>3. CASE q # << >> /\ q[1].seq = pkt.seq /\ out' = [out EXCEPT ![o][p] = Tail(@)]
  <2>1. PICK s \in Seq(Packets) : s = out[o][kHigh]
    BY DEF IInv, OutputInv, kHigh, Priority
  <2>2. CASE p # kHigh
    <3>1. out'[o][kHigh] = out[o][kHigh]
      BY <1>3, <2>2 DEF IInv, OutputInv
    <3> QED BY <3>1 DEF HasRequest
  <2>3. CASE p = kHigh
    <3>1. out'[o][kHigh] = Tail(s) /\ s # << >> /\ s[1].seq = pkt.seq
      <4>1. kHigh \in Priority
        BY DEF kHigh, Priority
      <4> QED BY <1>3, <2>1, <2>3, <4>1 DEF IInv, OutputInv
    <3>2. PICK k \in 1 .. Len(s) : IsRequest(s[k])
      BY <2>1 DEF HasRequest
    <3>3. CASE k = 1
      <4>1. s[1] \in Packets /\ s[1].start = start[o]
        <5>1. s \in Seq(PacketsOf(start[o], kHigh))
          BY <2>1, QueueFacts DEF kHigh, Priority
        <5> QED BY <3>2, <3>3, <5>1 DEF PacketsOf
      <4>2. pkt.seq = HandshakeId(start[o])
        BY <3>1, <3>2, <3>3, <4>1 DEF Packets
      <4>3. pkt.is_ack
        BY DEF Acknowledgement
      <4> QED BY <4>2, <4>3, AckedRequest
    <3>4. CASE k # 1
      <4>1. PICK j \in 1 .. Len(Tail(s)) : Tail(s)[j] = s[k]
        <5>1. PICK n \in Nat : n = Len(s) /\ Len(Tail(s)) = n - 1
          BY <3>1, HeadTailProperties, LenProperties
        <5>2. k - 1 \in 1 .. n - 1 /\ Tail(s)[k - 1] = s[(k - 1) + 1] /\ (k - 1) + 1 = k
          BY <3>1, <3>2, <3>4, <5>1, HeadTailProperties
        <5> QED BY <5>1, <5>2
      <4> QED BY <3>1, <3>2, <4>1 DEF HasRequest
    <3> QED BY <3>3, <3>4
  <2> QED BY <2>2, <2>3
<1> QED BY <1>1, <1>2, <1>3

\* How an end comes to know.
LEMMA KnownBefore ==
  ASSUME IInv, FlowInv, Hold, KeepsUp, [Next]_vars, NEW o \in Ends, start'[o] = start[o], Known(o)'
  PROVE  Known(o) \/ \E f : Hears(Other(o)) /\ Arrives(Other(o), f) /\ f.pkt.start = start[o]
<1>1. PICK e \in Ends : e = Other(o) /\ Other(e) = o
  BY OtherEnd
<1>2. start[o] \in Nat
  BY DEF IInv, StartInv
<1>3. ASSUME NEW b \in OnTheWay(e)', Answers(b, start[o])
      PROVE  Known(o) \/ \E f : Hears(e) /\ Arrives(e, f) /\ f.pkt.start = start[o]
  <2>1. CASE b \in OnTheWay(e)
    BY <1>1, <1>3, <2>1 DEF Known
  <2>2. CASE b \in Later(e)' /\ b \notin Later(e)
    <3>1. PICK f : Hears(e) /\ Arrives(e, f) /\ f.pkt.start \in Nat /\ b.seq = HandshakeId(f.pkt.start)
      BY <1>3, <2>2, NewAnswer DEF Answers
    <3>2. f.pkt.start = start[o]
      BY <1>2, <1>3, <3>1, HandshakeIds DEF Answers
    <3> QED BY <3>1, <3>2
  <2> QED BY <1>3, <2>1, <2>2, AcksKept DEF Answers, IsAnswer
<1>4. ~Restart(o)
  BY <1>2, RestartMoves DEF Restarts
<1>5. ASSUME ~HasRequest(o)' \/ done'[o], HasRequest(o), ~done[o] PROVE Known(o)
  <2>1. Reads(o)
    BY <1>4, <1>5, Steps DEF Idles
  <2>2. PICK f, pkt, in :
          /\ Arrives(o, f) /\ pkt \in Packets
          /\ \/ UNCHANGED <<out, done>>
             \/ Same(f.pkt, pkt) /\ Acknowledgement(o, pkt, in)
             \/ Answerable(pkt) /\ out' = WithAck(o, pkt) /\ UNCHANGED <<tx, done>>
    BY <2>1 DEF Reads
  <2>3. CASE UNCHANGED <<out, done>>
    BY <1>5, <2>3 DEF HasRequest
  <2>4. CASE Answerable(pkt) /\ out' = WithAck(o, pkt) /\ UNCHANGED <<tx, done>>
    <3>1. UNCHANGED <<seqNo, start>> /\ wire'[o] = wire[o]
      BY <2>2 DEF Arrives
    <3>2. HasRequest(o)'
      BY <1>5, <2>2, <2>4, <3>1, AnswerMoves DEF HasRequest
    <3> QED BY <1>5, <2>4, <3>2
  <2>5. CASE Same(f.pkt, pkt) /\ Acknowledgement(o, pkt, in)
    <3>1. CASE ~HasRequest(o)'
      BY <1>5, <2>2, <2>5, <3>1, RequestAcked
    <3>2. CASE done'[o]
      <4>1. pkt.is_ack /\ pkt.seq = HandshakeId(start[o])
        BY <1>5, <2>5, <3>2 DEF Acknowledgement, IInv, CounterInv
      <4> QED BY <2>2, <2>5, <4>1, AckedRequest
    <3> QED BY <1>5, <3>1, <3>2
  <2> QED BY <2>2, <2>3, <2>4, <2>5
<1> QED BY <1>1, <1>3, <1>5 DEF Known

\* The last packet received stays accepted, unless the next one is of another start.
LEMMA LastKept ==
  ASSUME IInv, FlowInv, Hold, KeepsUp, [Next]_vars, DOMAIN delivered = Ends,
         NEW e \in Ends, NEW n, NEW p \in Priority, LastIsOf(e, n, p),
         \A f, pkt : Accepts(e, f, pkt) /\ f.pkt.p = p => f.pkt.start = n
  PROVE  LastIsOf(e, n, p)'
<1>1. Stable(input[e]) /\ Stable(input'[e]) /\ IInv'
  BY NextInv, NextHeld DEF Hold, Held
<1>2. CASE Keeps(e) \/ TakesOldest(e)
  <2>1. Accepted(e)' = Accepted(e) /\ lastRx'[e] = lastRx[e]
    BY <1>1, <1>2, NowAccepted DEF Keeps, TakesOldest
  <2> QED BY <2>1 DEF LastIsOf
<1>3. CASE Starts(e) \/ Hears(e)
  BY <1>3 DEF Starts, Hears, LastIsOf
<1>4. ASSUME NEW f, NEW pkt, Accepts(e, f, pkt) PROVE LastIsOf(e, n, p)'
  <2>1. Accepted(e)' = Accepted(e) \cup {Id(pkt)}
    BY <1>1, <1>4, NowAccepted
  <2>2. CASE lastRx'[e][p] = lastRx[e][p]
    BY <2>1, <2>2 DEF LastIsOf
  <2>3. CASE lastRx'[e][p] # lastRx[e][p]
    <3>1. lastRx[e] \in [Priority -> Nat \cup {None}]
      BY ReceiverFacts
    <3>2. pkt.p = p /\ lastRx'[e][p] = pkt.seq
      BY <1>4, <2>3, <3>1 DEF Accepts
    <3>3. f.pkt \in Packets /\ pkt \in Packets /\ Same(f.pkt, pkt) /\ f.pkt.from = Other(e)
      BY <1>4, Arrived DEF Accepts
    <3>4. pkt.from = Other(e) /\ pkt.start = n
      BY <1>4, <3>2, <3>3, SamePacket
    <3>5. Id(pkt) = IdOf(Other(e), n, p, pkt.seq)
      BY <3>2, <3>4 DEF Id, IdOf
    <3> QED BY <2>1, <3>2, <3>5 DEF LastIsOf
  <2> QED BY <2>2, <2>3
<1> QED BY <1>2, <1>3, <1>4, Receives

LEMMA LastAcceptedKept ==
  ASSUME IInv, FlowInv, Hold, KeepsUp, [Next]_vars, DOMAIN delivered = Ends, NEW e \in Ends,
         LastAccepted(e), OneStart(Other(e)), Session(Other(e))
  PROVE  LastAccepted(e)'
<1>1. PICK o \in Ends : o = Other(e) /\ Other(o) = e
  BY OtherEnd
<1>2. ASSUME NEW k \in 1 .. Len(wire'[o]), NEW b, b = wire'[o][k].pkt, IsData(b), NEW n, NEW p, n = b.start, p = b.p
      PROVE  LastIsOf(e, n, p)'
  <2>2. p \in Priority
    <3>1. PICK v \in Seq(Fragments) : v = wire'[o]
      BY NextInv DEF IInv, LinkInv
    <3>2. v[k] \in Fragments
      BY <1>2, <3>1
    <3> QED BY <1>2, <3>1, <3>2 DEF Fragments, Packets, PacketType
  <2>3. LastIsOf(e, n, p)
    <3>1. \/ \E m \in 1 .. Len(wire[o]) : b = wire[o][m].pkt
          \/ tx[o].state = "burst" /\ b = tx[o].pkt
      BY <1>2, NextMoves, WireKept
    <3>2. CASE \E m \in 1 .. Len(wire[o]) : b = wire[o][m].pkt
      BY <1>1, <1>2, <3>2 DEF LastAccepted
    <3>3. CASE tx[o].state = "burst" /\ b = tx[o].pkt
      BY <1>1, <1>2, <2>2, <3>3, SendsKnown DEF Session
    <3> QED BY <3>1, <3>2, <3>3
  <2>4. ASSUME NEW f, NEW pkt, Accepts(e, f, pkt) PROVE f.pkt.start = n
    <3>1. PICK w \in Seq(Fragments) : w = wire[o] /\ w # << >> /\ f = w[1] /\ wire'[o] = Tail(w)
      BY <1>1, <2>4, WireFacts DEF Accepts, Arrives
    <3>2. k + 1 \in 1 .. Len(w) /\ Tail(w)[k] = w[k + 1] /\ 1 \in 1 .. Len(w) /\ 1 < k + 1
      BY <1>2, <3>1, HeadTailProperties, LenProperties
    <3>3. PICK m \in 1 .. Len(w) : 1 < m /\ b = w[m].pkt
      BY <1>2, <3>1, <3>2
    <3> QED BY <1>1, <1>2, <3>1, <3>2, <3>3 DEF OneStart
  <2> QED BY <2>2, <2>3, <2>4, LastKept
<1> QED BY <1>1, <1>2 DEF LastAccepted, LastIsOf

\* A new start has not been answered.
LEMMA StartsUnknown ==
  ASSUME IInv, FlowInv, Hold, KeepsUp, [Next]_vars, NEW o \in Ends, AnswersStarts(Other(o)), start'[o] # start[o]
  PROVE  ~Known(o)'
<1>1. PICK e \in Ends : e = Other(o) /\ Other(e) = o
  BY OtherEnd
<1>2. Restart(o)
  BY Steps DEF Idles, Reads, Arrives
<1>3. start[o] \in Nat /\ start'[o] = start[o] + 1 /\ HasRequest(o)'
  BY <1>2, RestartMoves DEF Restarts, HasRequest, IInv, StartInv
<1>4. ~done'[o]
  BY <1>2 DEF Restart, IInv, CounterInv
<1>5. ASSUME NEW b \in OnTheWay(e)', Answers(b, start'[o]) PROVE FALSE
  <2>1. /\ HandshakeId(start[o]) < HandshakeId(start'[o])
        /\ HandshakeId(start[o]) \in Nat /\ HandshakeId(start'[o]) \in Nat
    BY <1>3, HandshakeIds
  <2>2. b.seq <= HandshakeId(start[o])
    <3>1. CASE b \in OnTheWay(e)
      BY <1>1, <1>5, <3>1 DEF AnswersStarts, Answers
    <3>2. CASE b \in Later(e)' /\ b \notin Later(e)
      BY <1>1, <1>3, <1>5, <3>2, NewAnswer, HandshakeIds DEF Answers
    <3> QED BY <1>5, <3>1, <3>2, AcksKept DEF Answers, IsAnswer
  <2> QED BY <1>5, <2>1, <2>2 DEF Answers
<1> QED BY <1>1, <1>3, <1>4, <1>5 DEF Known

LEMMA SessionKept ==
  ASSUME IInv, FlowInv, Hold, KeepsUp, [Next]_vars, DOMAIN delivered = Ends, NEW o \in Ends,
         Session(o), AnswersStarts(Other(o))
  PROVE  Session(o)'
<1> SUFFICES ASSUME Known(o)'
             PROVE  /\ \A k \in 1 .. Len(wire'[o]) : wire'[o][k].pkt.start = start'[o]
                    /\ \A p \in Priority : LastIsOf(Other(o), start[o], p)'
  BY DEF Session
<1>1. PICK e \in Ends : e = Other(o) /\ Other(e) = o
  BY OtherEnd
<1>2. start'[o] = start[o]
  BY StartsUnknown
<1>3. CASE Known(o)
  <2>1. ASSUME NEW k \in 1 .. Len(wire'[o]) PROVE wire'[o][k].pkt.start = start[o]
    <3>1. \/ \E m \in 1 .. Len(wire[o]) : wire'[o][k].pkt = wire[o][m].pkt
          \/ tx[o].state = "burst" /\ wire'[o][k].pkt = tx[o].pkt
      BY <2>1, NextMoves, WireKept
    <3> QED BY <1>3, <3>1, SendsKnown DEF Session
  <2>2. ASSUME NEW p \in Priority, NEW n, n = start[o] PROVE LastIsOf(e, n, p)'
    <3>1. LastIsOf(e, n, p)
      BY <1>1, <1>3, <2>2 DEF Session
    <3>2. ASSUME NEW f, NEW pkt, Accepts(e, f, pkt) PROVE f.pkt.start = n
      <4>1. wire[o] # << >> /\ f = wire[o][1] /\ 1 \in 1 .. Len(wire[o])
        BY <1>1, <3>2, WireFacts, LenProperties, EmptySeq DEF Accepts, Arrives
      <4> QED BY <1>3, <2>2, <4>1 DEF Session
    <3> QED BY <3>1, <3>2, LastKept
  <2>3. \A p \in Priority : LastIsOf(e, start[o], p)'
    BY <1>2, <2>2 DEF LastIsOf
  <2> QED BY <1>1, <1>2, <2>1, <2>3 DEF LastIsOf
<1>4. ASSUME NEW f, Hears(e), Arrives(e, f), f.pkt.start = start[o]
      PROVE  /\ \A k \in 1 .. Len(wire'[o]) : wire'[o][k].pkt.start = start'[o]
             /\ \A p \in Priority : LastIsOf(e, start[o], p)'
  <2>1. ASSUME NEW k \in 1 .. Len(wire'[o]) PROVE wire'[o][k].pkt.start = start[o]
    <3>1. PICK b : b = AsCommitted(wire'[o][k].pkt)
      OBVIOUS
    <3>2. b \in OnTheWay(o)'
      BY <3>1 DEF OnTheWay, OnWire
    <3>3. b \in OnTheWay(o) /\ f.pkt.start <= b.start /\ b \in Packets
      BY <1>1, <1>4, <3>2, Arrived
    <3>4. b.start <= start[o] /\ b.start \in Nat /\ start[o] \in Nat
      BY <3>3, OnTheWayMade DEF Made, Packets, PacketType, IInv, StartInv
    <3>5. b.start = wire'[o][k].pkt.start
      <4>1. PICK v \in Seq(Fragments) : v = wire'[o]
        BY NextInv DEF IInv, LinkInv
      <4>2. v[k] \in Fragments
        BY <2>1, <4>1
      <4>3. wire'[o][k].pkt \in Packets
        BY <4>1, <4>2 DEF Fragments
      <4> QED BY <3>1, <4>3 DEF AsCommitted, Packets, PacketType
    <3> QED BY <1>4, <3>3, <3>4, <3>5
  <2>2. \A p \in Priority : lastRx'[e][p] = None
    BY <1>4 DEF Hears
  <2> QED BY <1>2, <2>1, <2>2 DEF LastIsOf
<1> QED BY <1>1, <1>2, <1>3, <1>4, KnownBefore

LEMMA NextSession ==
  IInv /\ FlowInv /\ Hold /\ AcceptInv /\ SessionInv /\ KeepsUp /\ [Next]_vars => SessionInv'
<1> SUFFICES ASSUME IInv, FlowInv, Hold, AcceptInv, SessionInv, KeepsUp, [Next]_vars, NEW e \in Ends
             PROVE  (AnswersStarts(e) /\ OneStart(e) /\ LastAccepted(e) /\ Session(e))'
  BY DEF SessionInv
<1>1. /\ AnswersStarts(e) /\ OneStart(e) /\ LastAccepted(e) /\ Session(e) /\ DOMAIN delivered = Ends
      /\ OneStart(Other(e)) /\ Session(Other(e)) /\ AnswersStarts(Other(e))
  BY OtherEnd DEF SessionInv, AcceptInv
<1> QED BY <1>1, AnswersStartsKept, OneStartKept, LastAcceptedKept, SessionKept

LEMMA InitSession == Init => SessionInv
<1> SUFFICES ASSUME Init, NEW e \in Ends
             PROVE  AnswersStarts(e) /\ OneStart(e) /\ LastAccepted(e) /\ Session(e)
  BY DEF SessionInv
<1>1. /\ \A d \in Ends : wire[d] = << >> /\ tx[d] = IdleTx /\ out[d] = Queues(InitPacket(d, 1))
      /\ \A d \in Ends : ~done[d] /\ \A p \in Priority : lastRx[d][p] = None
  BY DEF Init
<1>2. Other(e) \in Ends
  BY OtherEnd
<1>3. \A d \in Ends : 1 .. Len(wire[d]) = {}
  BY <1>1
<1>4. ASSUME NEW d \in Ends, NEW b \in OnTheWay(d) PROVE ~b.is_ack
  <2>1. b \in InQueues(Queues(InitPacket(d, 1)))
    BY <1>1, <1>3, <1>4 DEF OnTheWay, OnWire, Later, InTx, IdleTx
  <2>2. b = AsCommitted(InitPacket(d, 1))
    <3>1. PICK p \in Priority :
            \E k \in 1 .. Len(Queues(InitPacket(d, 1))[p]) : b = AsCommitted(Queues(InitPacket(d, 1))[p][k])
      BY <2>1, InQueuesAt
    <3>2. PICK s : s = Queues(InitPacket(d, 1))[p] /\ \E k \in 1 .. Len(s) : b = AsCommitted(s[k])
      BY <3>1
    <3>3. s = <<InitPacket(d, 1)>> \/ s = << >>
      BY <3>2 DEF Queues
    <3> QED BY <3>2, <3>3
  <2> QED BY <2>2 DEF AsCommitted, InitPacket, Packet
<1>5. AnswersStarts(e)
  BY <1>4 DEF AnswersStarts, IsAnswer
<1>6. OneStart(e) /\ LastAccepted(e) /\ Session(e)
  BY <1>1, <1>2, <1>3 DEF OneStart, LastAccepted, Session, LastIsOf
<1> QED BY <1>5, <1>6

-----------------------------------------------------------------------------
(* What the ACKs on their way say.                                           *)

LEMMA KeptForever ==
  ASSUME IInv, FlowInv, Hold, KeepsUp, [Next]_vars, DOMAIN delivered = Ends, NEW e \in Ends
  PROVE  Kept(e) \subseteq Kept(e)'
<1>1. Stable(input[e]) /\ Stable(input'[e]) /\ IInv' /\ forgotten \subseteq forgotten'
  BY NextInv, NextHeld, Receives DEF Hold, Held
<1>2. CASE Keeps(e) \/ TakesOldest(e)
  BY <1>1, <1>2, NowAccepted DEF Kept
<1>3. CASE Starts(e) \/ Hears(e)
  BY <1>1, <1>3, NowAccepted DEF Kept, Accepted, Starts, Hears
<1>4. ASSUME NEW f, NEW pkt, Accepts(e, f, pkt) PROVE Kept(e) \subseteq Kept(e)'
  BY <1>1, <1>4, NowAccepted DEF Kept
<1> QED BY <1>2, <1>3, <1>4, Receives

LEMMA JustifiedKept ==
  ASSUME IInv, FlowInv, Hold, KeepsUp, [Next]_vars, DOMAIN delivered = Ends, NEW e \in Ends,
         NEW b, Justified(e, b), start'[Other(e)] = start[Other(e)]
  PROVE  Justified(e, b)'
BY KeptForever DEF Justified

\* An ACK made for an end that knows is justified; no answer is ahead of another.
LEMMA NewJustified ==
  ASSUME IInv, FlowInv, Hold, AcceptInv, SessionInv, KeepsUp, [Next]_vars, NEW e \in Ends,
         NEW b \in Later(e)', IsDataAck(b), b \notin Later(e)
  PROVE  /\ start' = start /\ done' = done /\ wire'[e] = wire[e]
         /\ Known(Other(e)) => Justified(e, b)'
<1>1. PICK o \in Ends : o = Other(e) /\ Other(o) = e
  BY OtherEnd
<1>2. PICK f, pkt :
        /\ Arrives(e, f) /\ Same(f.pkt, pkt) /\ pkt \in Packets /\ done' = done
        /\ b.seq = pkt.seq /\ b.p = Higher(pkt.p) /\ b.is_init = pkt.is_init
        /\ \/ IsRequest(pkt)
           \/ Keeps(e) /\ IsData(pkt) /\ AlreadyReceived(e, pkt)
           \/ Accepts(e, f, pkt)
  BY NewAck DEF IsDataAck
<1>3. start' = start /\ done' = done /\ wire'[e] = wire[e]
  BY <1>2 DEF Arrives
<1>4. \/ Keeps(e) /\ IsData(pkt) /\ AlreadyReceived(e, pkt)
      \/ Accepts(e, f, pkt) /\ IsData(pkt)
  BY <1>2 DEF IsDataAck, IsRequest, Accepts
<1>5. /\ f.pkt.start = pkt.start /\ f.pkt.p = pkt.p /\ f.pkt.seq = pkt.seq /\ IsData(f.pkt)
      /\ pkt.from = o /\ pkt.p \in Priority /\ pkt.seq \in Nat /\ pkt.start \in Nat
  BY <1>1, <1>2, <1>4, Arrived, SamePacket DEF Packets, PacketType
<1>6. Lower(b.p) = pkt.p
  BY <1>2, <1>5 DEF Lower, Higher, Priority
<1>7. wire[o] # << >> /\ f = wire[o][1] /\ 1 \in 1 .. Len(wire[o])
  BY <1>1, <1>2, WireFacts, LenProperties, EmptySeq DEF Arrives
<1>8. ASSUME Known(o) PROVE IdOf(o, start[o], pkt.p, pkt.seq) \in Kept(e)'
  <2>1. pkt.start = start[o]
    BY <1>1, <1>5, <1>7, <1>8 DEF SessionInv, Session
  <2>2. CASE Accepts(e, f, pkt)
    <3>1. Stable(input[e]) /\ Stable(input'[e]) /\ IInv'
      BY NextInv, NextHeld DEF Hold, Held
    <3>2. Id(pkt) \in Accepted(e)'
      BY <2>2, <3>1, NowAccepted
    <3>3. Id(pkt) = IdOf(o, start[o], pkt.p, pkt.seq)
      BY <1>5, <2>1 DEF Id, IdOf
    <3> QED BY <3>2, <3>3 DEF Kept
  <2>3. CASE AlreadyReceived(e, pkt)
    <3>1. PICK m \in Nat : m = lastRx[e][pkt.p] /\ m # None /\ pkt.seq <= m
      <4>1. lastRx[e] \in [Priority -> Nat \cup {None}]
        BY ReceiverFacts
      <4> QED BY <1>5, <2>3, <4>1 DEF AlreadyReceived
    <3>2. PICK a : a = IdOf(o, start[o], pkt.p, m) /\ a \in Accepted(e)
      <4>1. LastIsOf(e, pkt.start, pkt.p)
        BY <1>1, <1>5, <1>7 DEF SessionInv, LastAccepted
      <4> QED BY <1>1, <2>1, <3>1, <4>1 DEF LastIsOf
    <3>3. Passed(e, a, AsCommitted(f.pkt))
      BY <1>1, <1>2, <3>2, Arrived DEF AcceptInv, Settles, Settled
    <3>4. a.start = start[o] /\ a.p = pkt.p /\ a.seq = m
      BY <3>2 DEF IdOf
    <3>5. PICK g : g = AsCommitted(f.pkt)
      OBVIOUS
    <3>8. /\ g.start = pkt.start /\ g.p = pkt.p /\ g.seq = pkt.seq
          /\ g.is_ack = f.pkt.is_ack /\ g.is_init = f.pkt.is_init /\ g.requires_ack = f.pkt.requires_ack
      <4>1. f.pkt \in Packets
        BY <1>2, Arrived
      <4> QED BY <1>5, <3>5, <4>1 DEF AsCommitted, Packets, PacketType
    <3>9. IsData(g)
      BY <1>5, <3>8 DEF IsData
    <3>6. m <= pkt.seq
      BY <2>1, <3>3, <3>4, <3>5, <3>8, <3>9 DEF Passed
    <3>7. m = pkt.seq
      BY <1>5, <3>1, <3>6
    <3> QED BY <3>2, <3>7, KeptForever DEF Kept, AcceptInv
  <2> QED BY <1>4, <2>2, <2>3
<1> QED BY <1>1, <1>2, <1>3, <1>6, <1>8 DEF Justified

LEMMA AllJustified ==
  ASSUME IInv, NEW e \in Ends, Acks(e),
         done[Other(e)] \/ (wire[e] # << >> /\ AnswersStart(e, wire[e][1]))
  PROVE  /\ \A k \in 1 .. Len(wire[e]) : IsDataAck(wire[e][k].pkt) => Justified(e, wire[e][k].pkt)
         /\ \A b \in Later(e) : IsDataAck(b) => Justified(e, b)
<1>1. wire[e] \in Seq(Fragments)
  BY WireFacts
<1>2. \A k \in 1 .. Len(wire[e]) : 1 \in 1 .. k
  BY <1>1
<1>3. wire[e] # << >> => 1 \in 1 .. Len(wire[e])
  BY <1>1, LenProperties, EmptySeq
<1> QED BY <1>2, <1>3 DEF Acks, Unanswered

LEMMA DoneBefore ==
  ASSUME IInv, FlowInv, Hold, KeepsUp, [Next]_vars, NEW o \in Ends, done'[o], start'[o] = start[o]
  PROVE  done[o] \/ (wire[Other(o)] # << >> /\ AnswersStart(Other(o), wire[Other(o)][1]))
<1> SUFFICES ASSUME ~done[o]
             PROVE  wire[Other(o)] # << >> /\ AnswersStart(Other(o), wire[Other(o)][1])
  OBVIOUS
<1>1. ~Restart(o)
  BY RestartMoves DEF Restarts, IInv, StartInv
<1>2. Reads(o)
  BY <1>1, Steps DEF Idles
<1>3. PICK f, pkt, in : /\ Arrives(o, f) /\ pkt \in Packets /\ f.footer /\ Same(f.pkt, pkt)
                        /\ Acknowledgement(o, pkt, in)
  BY <1>2 DEF Reads
<1>4. pkt.is_ack /\ pkt.seq = HandshakeId(start[o])
  BY <1>3 DEF Acknowledgement, IInv, CounterInv
<1>5. Answers(f.pkt, start[o])
  BY <1>3, <1>4, AckedRequest
<1> QED BY <1>3, <1>5, OtherEnd DEF Arrives, AnswersStart

LEMMA CommittedAck ==
  ASSUME NEW b \in Packets
  PROVE  /\ AsCommitted(b).p = b.p /\ AsCommitted(b).seq = b.seq
         /\ IsDataAck(AsCommitted(b)) <=> IsDataAck(b)
         /\ IsAnswer(AsCommitted(b)) <=> IsAnswer(b)
         /\ \A n : Answers(AsCommitted(b), n) <=> Answers(b, n)
<1>1. PICK c : c = AsCommitted(b)
  OBVIOUS
<1>2. c.p = b.p /\ c.seq = b.seq /\ c.is_ack = b.is_ack /\ c.is_init = b.is_init
  BY <1>1 DEF AsCommitted, Packets, PacketType
<1> QED BY <1>1, <1>2 DEF IsDataAck, IsAnswer, Answers

LEMMA NoAnswerThen ==
  ASSUME IInv', NEW e \in Ends, ~Known(Other(e))'
  PROVE  Unanswered(e, Len(wire[e]))'
<1>1. PICK o \in Ends : o = Other(e) /\ Other(o) = e
  BY OtherEnd
<1>2. PICK v \in Seq(Fragments) : v = wire'[e]
  BY DEF IInv, LinkInv
<1>3. ASSUME NEW j \in 1 .. Len(v), Answers(v[j].pkt, start'[o]) PROVE FALSE
  <2>1. v[j].pkt \in Packets
    <3>1. v[j] \in Fragments
      BY <1>2, <1>3
    <3> QED BY <3>1 DEF Fragments
  <2>2. PICK b : b = AsCommitted(v[j].pkt) /\ Answers(b, start'[o])
    BY <1>3, <2>1, CommittedAck
  <2>3. b \in OnTheWay(e)'
    BY <1>2, <2>2 DEF OnTheWay, OnWire
  <2> QED BY <1>1, <2>2, <2>3 DEF Known
<1>4. ~done'[o]
  BY <1>1 DEF Known
<1> QED BY <1>1, <1>2, <1>3, <1>4 DEF Unanswered, AnswersStart

\* An ACK just made is justified, or the other end has no answer.
LEMMA NewAckJustified ==
  ASSUME IInv, FlowInv, Hold, AcceptInv, SessionInv, KeepsUp, [Next]_vars, NEW e \in Ends,
         NEW b \in Later(e)', IsDataAck(b), b \notin Later(e)
  PROVE  /\ Justified(e, b)' \/ Unanswered(e, Len(wire[e]))'
         /\ done'[Other(e)] => Justified(e, b)'
<1>1. PICK o \in Ends : o = Other(e) /\ Other(o) = e
  BY OtherEnd
<1>2. start' = start /\ done' = done /\ wire'[e] = wire[e] /\ (Known(o) => Justified(e, b)')
  BY <1>1, NewJustified
<1>3. ASSUME ~Known(o) PROVE Unanswered(e, Len(wire[e]))' /\ ~done[o]
  <2>1. PICK v \in Seq(Fragments) : v = wire[e]
    BY WireFacts
  <2>2. ASSUME NEW j \in 1 .. Len(v), Answers(v[j].pkt, start[o]) PROVE FALSE
    <3>1. v[j].pkt \in Packets
      <4>1. v[j] \in Fragments
        BY <2>1, <2>2
      <4> QED BY <4>1 DEF Fragments
    <3>2. PICK c : c = AsCommitted(v[j].pkt) /\ Answers(c, start[o])
      BY <2>2, <3>1, CommittedAck
    <3>3. c \in OnTheWay(e)
      BY <2>1, <3>2 DEF OnTheWay, OnWire
    <3> QED BY <1>1, <1>3, <3>2, <3>3 DEF Known
  <2>3. ~done[o]
    BY <1>3 DEF Known
  <2> QED BY <1>1, <1>2, <2>1, <2>2, <2>3 DEF Unanswered, AnswersStart
<1> QED BY <1>1, <1>2, <1>3 DEF Known

\* What is said to an end that has the answer.
LEMMA AcksToDone ==
  ASSUME IInv, FlowInv, Hold, AcceptInv, SessionInv, KeepsUp, [Next]_vars, NEW e \in Ends, Acks(e),
         start'[Other(e)] = start[Other(e)], done'[Other(e)]
  PROVE  Acks(e)'
<1>1. PICK o \in Ends : o = Other(e) /\ Other(o) = e
  BY OtherEnd
<1>2. /\ \A k \in 1 .. Len(wire[e]) : IsDataAck(wire[e][k].pkt) => Justified(e, wire[e][k].pkt)
      /\ \A b \in Later(e) : IsDataAck(b) => Justified(e, b)
  <2>1. done[o] \/ (wire[e] # << >> /\ AnswersStart(e, wire[e][1]))
    BY <1>1, DoneBefore
  <2> QED BY <1>1, <2>1, AllJustified
<1>3. ASSUME NEW k \in 1 .. Len(wire'[e]), NEW b, b = wire'[e][k].pkt, IsDataAck(b) PROVE Justified(e, b)'
  <2>1. \/ \E m \in 1 .. Len(wire[e]) : b = wire[e][m].pkt
        \/ tx[e].state = "burst" /\ b = tx[e].pkt
    BY <1>3, NextMoves, WireKept
  <2>2. Justified(e, b)
    <3>1. CASE \E m \in 1 .. Len(wire[e]) : b = wire[e][m].pkt
      BY <1>2, <1>3, <3>1
    <3>2. CASE tx[e].state = "burst" /\ b = tx[e].pkt
      <4>1. b \in Packets
        BY <3>2, QueueFacts
      <4>2. PICK c : c = AsCommitted(b) /\ IsDataAck(c) /\ c.p = b.p /\ c.seq = b.seq
        BY <1>3, <4>1, CommittedAck
      <4>3. c \in Later(e)
        BY <3>2, <4>2 DEF Later, InTx
      <4>4. Justified(e, c)
        BY <1>2, <4>2, <4>3
      <4> QED BY <4>2, <4>4 DEF Justified
    <3> QED BY <2>1, <3>1, <3>2
  <2> QED BY <2>2, JustifiedKept DEF AcceptInv
<1>4. ASSUME NEW b \in Later(e)', IsDataAck(b) PROVE Justified(e, b)'
  <2>1. CASE b \in Later(e)
    BY <1>2, <1>4, <2>1, JustifiedKept DEF AcceptInv
  <2>2. CASE b \notin Later(e)
    BY <1>4, <2>2, NewAckJustified
  <2> QED BY <2>1, <2>2
<1>5. \A k \in 1 .. Len(wire'[e]) : IsDataAck(wire'[e][k].pkt) => Justified(e, wire[e][k].pkt)'
  BY <1>3 DEF Justified
<1> QED BY <1>4, <1>5 DEF Acks

LEMMA AcksToStarted ==
  ASSUME IInv, FlowInv, Hold, AcceptInv, SessionInv, KeepsUp, [Next]_vars, NEW e \in Ends,
         start'[Other(e)] # start[Other(e)]
  PROVE  Acks(e)'
<1>1. Unanswered(e, Len(wire[e]))' /\ IInv'
  <2>1. ~Known(Other(e))'
    BY OtherEnd, StartsUnknown DEF SessionInv
  <2> QED BY <2>1, NextInv, NoAnswerThen
<1>2. PICK v \in Seq(Fragments) : v = wire'[e]
  BY <1>1 DEF IInv, LinkInv
<1>3. \A k \in 1 .. Len(v) : \A j \in 1 .. k : j \in 1 .. Len(v)
  BY <1>2
<1>4. \A k \in 1 .. Len(wire'[e]) : Unanswered(e, k)'
  BY <1>1, <1>2, <1>3 DEF Unanswered
<1> QED BY <1>1, <1>4 DEF Acks

\* What is said to an end that still waits for the answer.
LEMMA AcksToWaiting ==
  ASSUME IInv, FlowInv, Hold, AcceptInv, SessionInv, KeepsUp, [Next]_vars, NEW e \in Ends, Acks(e),
         start'[Other(e)] = start[Other(e)], ~done'[Other(e)]
  PROVE  Acks(e)'
<1>1. PICK o \in Ends : o = Other(e) /\ Other(o) = e
  BY OtherEnd
<1>2. \A b : Justified(e, b) => Justified(e, b)'
  BY JustifiedKept DEF AcceptInv
<1>3. PICK w \in Seq(Fragments), n \in Nat : w = wire[e] /\ n = Len(w)
  BY WireFacts
<1>4. \A b \in Later(e)' : IsDataAck(b) /\ b \notin Later(e) => Justified(e, b)' \/ Unanswered(e, Len(wire[e]))'
  BY NewAckJustified
<1>5. ASSUME NEW v, v = wire'[e], Within(v, w) PROVE Acks(e)'
  <2>1. PICK at \in [1 .. Len(v) -> 1 .. Len(w)] :
          /\ \A j, k \in 1 .. Len(v) : j < k => at[j] < at[k]
          /\ \A k \in 1 .. Len(v) : v[k].pkt = w[at[k]].pkt /\ v[k].footer = w[at[k]].footer
    BY <1>5 DEF Within
  <2>2. PICK m \in Nat : m = Len(v)
    <3>1. v \in Seq(Fragments)
      BY <1>5, NextInv DEF IInv, LinkInv
    <3> QED BY <3>1
  <2>3. ASSUME NEW k \in 1 .. Len(v), IsDataAck(v[k].pkt) PROVE Justified(e, v[k].pkt)' \/ Unanswered(e, k)'
    <3>1. PICK i \in 1 .. n : i = at[k] /\ v[k].pkt = w[i].pkt
      BY <1>3, <2>1, <2>3
    <3>2. Justified(e, w[i].pkt) \/ Unanswered(e, i)
      BY <1>3, <2>3, <3>1 DEF Acks
    <3>3. CASE Unanswered(e, i)
      <4>1. ASSUME NEW j \in 1 .. k PROVE ~AnswersStart(e, v[j])'
        <5>1. j \in 1 .. Len(v) /\ j <= k
          BY <2>2, <2>3, <4>1
        <5>2. PICK h \in 1 .. n : h = at[j] /\ h <= i
          BY <1>3, <2>1, <2>2, <3>1, <5>1
        <5>3. ~AnswersStart(e, w[h])
          BY <1>3, <3>3, <5>2 DEF Unanswered
        <5> QED BY <1>1, <2>1, <5>1, <5>2, <5>3 DEF AnswersStart
      <4> QED BY <1>5, <4>1 DEF Unanswered
    <3>4. CASE Justified(e, w[i].pkt)
      BY <1>2, <3>1, <3>4
    <3> QED BY <3>2, <3>3, <3>4
  <2>4. ASSUME Unanswered(e, n) PROVE Unanswered(e, Len(wire[e]))'
    <3>1. ASSUME NEW j \in 1 .. Len(v) PROVE ~AnswersStart(e, v[j])'
      <4>1. PICK h \in 1 .. n : h = at[j]
        BY <1>3, <2>1, <3>1
      <4>2. ~AnswersStart(e, w[h])
        BY <1>3, <2>4, <4>1 DEF Unanswered
      <4> QED BY <1>1, <2>1, <3>1, <4>1, <4>2 DEF AnswersStart
    <3> QED BY <1>5, <3>1 DEF Unanswered
  <2>5. ASSUME NEW b \in Later(e), IsDataAck(b) PROVE Justified(e, b)' \/ Unanswered(e, Len(wire[e]))'
    BY <1>2, <1>3, <2>4, <2>5 DEF Acks
  <2> QED BY <1>4, <1>5, <2>3, <2>5 DEF Acks
<1>6. ASSUME NEW f \in Fragments, tx[e].state = "burst", f.pkt = tx[e].pkt, wire'[e] = Append(wire[e], f),
             \A b \in Later(e)' : IsDataAck(b) => b \in Later(e) /\ ~AnswersStart(e, f)
      PROVE  Acks(e)'
  <2>1. PICK v \in Seq(Fragments) : /\ v = wire'[e] /\ Len(v) = n + 1 /\ v[n + 1] = f
                                    /\ \A j \in 1 .. n : v[j] = w[j]
    <3>1. Append(w, f) \in Seq(Fragments) /\ Len(Append(w, f)) = n + 1 /\ Append(w, f)[n + 1] = f
      BY <1>3, <1>6
    <3>2. \A j \in 1 .. n : Append(w, f)[j] = w[j]
      BY <1>3, <1>6
    <3> QED BY <1>3, <1>6, <3>1, <3>2
  <2>2. ASSUME NEW k \in 1 .. n, Unanswered(e, k) PROVE Unanswered(e, k)'
    <3>1. \A j \in 1 .. k : j \in 1 .. n
      BY <2>2
    <3> QED BY <1>1, <1>3, <2>1, <2>2, <3>1 DEF Unanswered, AnswersStart
  <2>3. ASSUME Unanswered(e, n), ~AnswersStart(e, f) PROVE Unanswered(e, n + 1)'
    <3>1. \A j \in 1 .. n + 1 : j \in 1 .. n \/ j = n + 1
      OBVIOUS
    <3> QED BY <1>1, <1>3, <2>1, <2>3, <3>1 DEF Unanswered, AnswersStart
  <2>4. ASSUME NEW k \in 1 .. n + 1, IsDataAck(v[k].pkt) PROVE Justified(e, v[k].pkt)' \/ Unanswered(e, k)'
    <3>1. CASE k \in 1 .. n
      <4>1. Justified(e, w[k].pkt) \/ Unanswered(e, k)
        BY <1>3, <2>1, <2>4, <3>1 DEF Acks
      <4> QED BY <1>2, <2>1, <2>2, <3>1, <4>1
    <3>2. CASE k = n + 1
      <4>1. f.pkt \in Packets /\ IsDataAck(f.pkt)
        BY <1>6, <2>1, <2>4, <3>2, QueueFacts
      <4>2. PICK c : /\ c = AsCommitted(f.pkt) /\ IsDataAck(c) /\ c.p = f.pkt.p /\ c.seq = f.pkt.seq
        BY <4>1, CommittedAck
      <4>3. c \in Later(e)
        BY <1>6, <4>2 DEF Later, InTx
      <4>4. Justified(e, c) \/ Unanswered(e, n)
        BY <1>3, <4>2, <4>3 DEF Acks
      <4>5. ~AnswersStart(e, f)
        BY <4>1 DEF AnswersStart, Answers, IsAnswer, IsDataAck
      <4>6. Justified(e, c) => Justified(e, f.pkt)
        BY <4>2 DEF Justified
      <4> QED BY <1>2, <2>1, <2>3, <3>2, <4>4, <4>5, <4>6
    <3> QED BY <2>4, <3>1, <3>2
  <2>5. ASSUME NEW b \in Later(e)', IsDataAck(b) PROVE Justified(e, b)' \/ Unanswered(e, n + 1)'
    <3>1. Justified(e, b) \/ Unanswered(e, n)
      BY <1>3, <1>6, <2>5 DEF Acks
    <3> QED BY <1>2, <1>6, <2>3, <2>5, <3>1
  <2> QED BY <2>1, <2>4, <2>5 DEF Acks
<1>7. CASE Quiet(e) \/ \E c : Adds(e, c)
  BY <1>3, <1>5, <1>7, WithinItself DEF Quiet, Adds
<1>8. CASE Sends(e)
  <2>1. PICK f \in Fragments :
          /\ tx[e].state = "burst" /\ f.pkt = tx[e].pkt /\ wire'[e] = Append(wire[e], f)
          /\ f.footer /\ IsAnswer(f.pkt) => \A b \in InQueues(out'[e]) : b.is_ack => b.seq = f.pkt.seq
    BY <1>8 DEF Sends
  <2>2. Later(e)' = InQueues(out'[e]) /\ Later(e)' \subseteq Later(e)
    BY <1>8 DEF Sends, Later
  <2>3. ASSUME NEW b \in Later(e)', IsDataAck(b), AnswersStart(e, f) PROVE FALSE
    <3>1. b.seq = HandshakeId(start[o])
      BY <1>1, <2>1, <2>2, <2>3 DEF AnswersStart, Answers, IsDataAck
    <3>2. b.seq < MaxPackets
      BY <2>2, <2>3, OnTheWayMade DEF OnTheWay, Made
    <3>3. start[o] \in Nat
      BY WireFacts
    <3> QED BY <3>1, <3>2, <3>3, BoundsAssumption DEF HandshakeId
  <2> QED BY <1>6, <2>1, <2>2, <2>3
<1>9. CASE Restarts(e)
  <2>1. \A b \in Later(e)' : ~IsDataAck(b)
    BY <1>9 DEF Restarts, Later, IsRequest, IsDataAck
  <2>2. CASE wire'[e] = wire[e]
    BY <1>3, <1>5, <2>2, WithinItself
  <2>3. CASE wire'[e] # wire[e]
    BY <1>6, <1>9, <2>1, <2>3 DEF Restarts
  <2> QED BY <2>2, <2>3
<1> QED BY <1>7, <1>8, <1>9, NextMoves DEF Moves

LEMMA InitAcks == Init => AcksInv /\ AckedIsKept
<1> SUFFICES ASSUME Init PROVE AcksInv /\ AckedIsKept
  OBVIOUS
<1>1. /\ \A d \in Ends : wire[d] = << >> /\ tx[d] = IdleTx /\ out[d] = Queues(InitPacket(d, 1))
      /\ acked = {}
  BY DEF Init
<1>2. ASSUME NEW d \in Ends, NEW b \in Later(d) PROVE ~b.is_ack
  <2>1. b \in InQueues(Queues(InitPacket(d, 1)))
    BY <1>1, <1>2 DEF Later, InTx, IdleTx
  <2>2. PICK p \in Priority : \E q : q = Queues(InitPacket(d, 1))[p] /\ b \in {AsCommitted(q[k]) : k \in 1 .. Len(q)}
    BY <2>1 DEF InQueues
  <2>3. b = AsCommitted(InitPacket(d, 1))
    <3>1. PICK q : q = Queues(InitPacket(d, 1))[p] /\ b \in {AsCommitted(q[k]) : k \in 1 .. Len(q)}
      BY <2>2
    <3>2. q = << >> \/ q = <<InitPacket(d, 1)>>
      BY <3>1 DEF Queues
    <3> QED BY <3>1, <3>2
  <2> QED BY <2>3 DEF AsCommitted, InitPacket, Packet
<1>3. \A d \in Ends : 1 .. Len(wire[d]) = {}
  BY <1>1
<1> QED BY <1>1, <1>2, <1>3 DEF AcksInv, Acks, IsDataAck, AckedIsKept

LEMMA NextAcks ==
  IInv /\ FlowInv /\ Hold /\ AcceptInv /\ SessionInv /\ AcksInv /\ KeepsUp /\ [Next]_vars => AcksInv'
<1> SUFFICES ASSUME IInv, FlowInv, Hold, AcceptInv, SessionInv, AcksInv, KeepsUp, [Next]_vars, NEW e \in Ends
             PROVE  Acks(e)'
  BY DEF AcksInv
<1>1. Acks(e)
  BY DEF AcksInv
<1>2. CASE start'[Other(e)] # start[Other(e)]
  BY <1>2, AcksToStarted
<1>3. CASE start'[Other(e)] = start[Other(e)] /\ done'[Other(e)]
  BY <1>1, <1>3, AcksToDone
<1>4. CASE start'[Other(e)] = start[Other(e)] /\ ~done'[Other(e)]
  BY <1>1, <1>4, AcksToWaiting
<1> QED BY <1>2, <1>3, <1>4

\* What an ACK drops from the queue of an end is kept at the other.
LEMMA NewlyAcked ==
  ASSUME IInv, FlowInv, Hold, AcksInv, KeepsUp, [Next]_vars, NEW id \in acked', id \notin acked
  PROVE  \E e \in Ends : id.from = Other(e) /\ id \in Kept(e)
<1>1. PICK d \in Ends : Reads(d)
  BY Steps
<1>2. PICK e \in Ends : e = Other(d) /\ Other(e) = d
  BY OtherEnd
<1>3. PICK f, pkt, in : Arrives(d, f) /\ pkt \in Packets /\ Same(f.pkt, pkt) /\ Acknowledgement(d, pkt, in)
  BY <1>1 DEF Reads
<1>4. f.pkt \in Packets /\ f.pkt.p = pkt.p /\ f.pkt.seq = pkt.seq
      /\ f.pkt.is_ack = pkt.is_ack /\ f.pkt.is_init = pkt.is_init
  BY <1>3, Arrived, SamePacket
<1>5. PICK p \in Priority : p = Lower(pkt.p)
  <2>1. pkt.p # 3 /\ pkt.p \in Priority
    BY <1>3 DEF Acknowledgement, Packets, PacketType
  <2> QED BY <2>1 DEF Lower, Priority
<1>6. PICK q \in Seq(PacketsOf(start[d], p)) : q = out[d][p]
  BY QueueFacts
<1>7. PICK c : /\ q # << >> /\ c = q[1] /\ c.requires_ack /\ c.seq = pkt.seq /\ ~c.is_init
               /\ id = Id(c)
  BY <1>3, <1>5, <1>6 DEF Acknowledgement
<1>8. 1 \in 1 .. Len(q) /\ c \in PacketsOf(start[d], p)
  BY <1>7, LenProperties, EmptySeq
<1>9. Made(d, start[d], seqNo[d], c)
  BY <1>6, <1>7, <1>8 DEF FlowInv, Flow, FlowOf
<1>10. c \in Packets /\ c.start = start[d] /\ c.p = p /\ c.from = d
  BY <1>8, <1>9 DEF PacketsOf, Made
<1>11. IsData(c) /\ c.seq < MaxPackets
  BY <1>7, <1>9, <1>10 DEF Made, IsData
<1>12. IsDataAck(f.pkt) /\ ~pkt.is_init
  <2>1. PICK b \in Packets : b = AsCommitted(f.pkt) /\ Made(e, start[e], seqNo[e], b)
    BY <1>2, <1>3, Arrived, OnTheWayMade
  <2>2. b.seq = pkt.seq /\ (IsAnswer(b) <=> IsAnswer(f.pkt))
    BY <1>4, <2>1, CommittedAck
  <2>3. ~IsAnswer(f.pkt)
    <3>1. b.seq \in Nat /\ MaxPackets \in Nat
      BY <2>1, BoundsAssumption DEF Packets, PacketType
    <3> QED BY <1>7, <1>11, <2>1, <2>2, <3>1 DEF Made
  <2> QED BY <1>3, <1>4, <2>3 DEF Acknowledgement, IsAnswer, IsDataAck
<1>13. done[d]
  BY <1>3, <1>12 DEF Acknowledgement
<1>14. wire[e] # << >> /\ f = wire[e][1] /\ 1 \in 1 .. Len(wire[e])
  BY <1>2, <1>3, WireFacts, LenProperties, EmptySeq DEF Arrives
<1>15. Justified(e, f.pkt)
  BY <1>2, <1>12, <1>13, <1>14, AllJustified DEF AcksInv
<1>16. id = IdOf(d, start[d], Lower(f.pkt.p), f.pkt.seq)
  BY <1>4, <1>5, <1>7, <1>10 DEF Id, IdOf
<1>17. id.from = d
  BY <1>16 DEF IdOf
<1> QED BY <1>2, <1>15, <1>16, <1>17 DEF Justified

LEMMA NextAcked ==
  IInv /\ FlowInv /\ Hold /\ AcceptInv /\ AcksInv /\ AckedIsKept /\ KeepsUp /\ [Next]_vars => AckedIsKept'
<1> SUFFICES ASSUME IInv, FlowInv, Hold, AcceptInv, AcksInv, AckedIsKept, KeepsUp, [Next]_vars,
                    NEW e \in Ends, NEW id \in acked', id.from # e
             PROVE  id \in Kept(e)'
  BY DEF AckedIsKept, Kept, Accepted
<1>1. Kept(e) \subseteq Kept(e)'
  BY KeptForever DEF AcceptInv
<1>2. CASE id \in acked
  BY <1>1, <1>2 DEF AckedIsKept, Kept, Accepted
<1>3. CASE id \notin acked
  <2>1. PICK d \in Ends : id.from = Other(d) /\ id \in Kept(d)
    BY <1>3, NewlyAcked
  <2>2. d = e
    BY <2>1, OtherEnd
  <2> QED BY <1>1, <2>1, <2>2
<1> QED BY <1>2, <1>3

\* A packet that an ACK dropped from its sender's queue is kept by the other
\* end, whatever old or repeated ACKs the link brings, as long as the program
\* there takes its packets in time for new ones (ShouldCommitInputPacket).
THEOREM AckedIsKeptForever == Spec /\ []KeepsUp => []AckedIsKept
BY InitInv, NextInv, InitFlow, NextFlow, InitHeld, NextHeld, InitAccept, NextAccept, InitSession,
   NextSession, InitAcks, NextAcks, NextAcked, PTL DEF Spec

-----------------------------------------------------------------------------
(* The abstract channel in terms of sets.                                    *)

LEMMA ReliableRise ==
  ASSUME NEW s \in Seq(Packets),
         \A j, k \in 1 .. Len(s) : j < k /\ IsReliable(s[j]) /\ IsReliable(s[k]) => s[j].seq < s[k].seq
  PROVE  Rises(ReliableSeqs(s), ReliableSet(s))
<1>1. PICK at : at = {k \in DOMAIN s : s[k].requires_ack /\ ~s[k].is_ack /\ ~s[k].is_init}
  OBVIOUS
<1>2. \A k \in 1 .. Len(s) : (k \in at <=> IsReliable(s[k])) /\ s[k] \in Packets
  BY <1>1 DEF IsReliable, IsData
<1>3. PICK r \in Seq(Packets), l \in Nat : r = Selected(s, at) /\ l = Len(r)
  BY SelectedQueue, LenProperties
<1>4. PICK from \in [1 .. l -> 1 .. Len(s)] :
        /\ \A j, k \in 1 .. l : j < k => from[j] < from[k]
        /\ \A k \in 1 .. l : r[k] = s[from[k]] /\ from[k] \in at
        /\ \A i \in 1 .. Len(s) : i \in at => \E k \in 1 .. l : from[k] = i
  BY <1>3, SelectedPlaces
<1>5. PICK q : q = [k \in 1 .. l |-> r[k].seq]
  OBVIOUS
<1>6. ReliableSeqs(s) = q
  BY <1>1, <1>3, <1>5 DEF ReliableSeqs
<1>7. \A k \in 1 .. l : /\ from[k] \in 1 .. Len(s) /\ IsReliable(s[from[k]])
                        /\ q[k] = s[from[k]].seq /\ q[k] \in Nat
  BY <1>2, <1>4, <1>5 DEF Packets, PacketType
<1>8. q \in Seq(Nat) /\ Len(q) = l
  <2>1. q \in [1 .. l -> Nat]
    BY <1>5, <1>7
  <2> QED BY <2>1
<1>9. \A j, k \in 1 .. l : j < k => q[j] < q[k]
  BY <1>4, <1>7
<1>10. \A k \in 1 .. l : q[k] \in ReliableSet(s)
  BY <1>7 DEF ReliableSet
<1>11. ASSUME NEW m \in ReliableSet(s) PROVE \E k \in 1 .. l : q[k] = m
  <2>1. PICK i \in 1 .. Len(s) : IsReliable(s[i]) /\ m = s[i].seq
    BY DEF ReliableSet
  <2>2. PICK k \in 1 .. l : from[k] = i
    BY <1>2, <1>4, <2>1
  <2> QED BY <1>7, <2>1, <2>2
<1> QED BY <1>6, <1>8, <1>9, <1>10, <1>11 DEF Rises

LEMMA SelectedRises ==
  ASSUME NEW S, NEW s, Rises(s, S), NEW m \in Int
  PROVE  Rises(Selected(s, {k \in DOMAIN s : m < s[k]}), {x \in S : m < x})
<1>1. PICK a \in Seq(Nat) : a = s
  BY DEF Rises
<1>2. PICK at : at = {k \in DOMAIN a : m < a[k]}
  OBVIOUS
<1>3. PICK r : r = Selected(a, at)
  OBVIOUS
<1>4. PICK from \in [1 .. Len(r) -> 1 .. Len(a)] :
        /\ \A j, k \in 1 .. Len(r) : j < k => from[j] < from[k]
        /\ \A k \in 1 .. Len(r) : r[k] = a[from[k]] /\ from[k] \in at
        /\ \A i \in 1 .. Len(a) : i \in at => \E k \in 1 .. Len(r) : from[k] = i
  <2>1. \E from \in [1 .. Len(Selected(a, at)) -> 1 .. Len(a)] :
          /\ \A j, k \in 1 .. Len(Selected(a, at)) : j < k => from[j] < from[k]
          /\ \A k \in 1 .. Len(Selected(a, at)) : Selected(a, at)[k] = a[from[k]] /\ from[k] \in at
          /\ \A i \in 1 .. Len(a) : i \in at => \E k \in 1 .. Len(Selected(a, at)) : from[k] = i
    BY SelectedPlaces
  <2> QED BY <1>3, <2>1
<1>5. /\ \A j, k \in 1 .. Len(a) : j < k => a[j] < a[k]
      /\ \A k \in 1 .. Len(a) : a[k] \in S /\ a[k] \in Nat
      /\ \A x \in S : \E k \in 1 .. Len(a) : a[k] = x
  BY <1>1 DEF Rises
<1>6. r \in Seq(Nat)
  BY <1>3, SelectedQueue
<1>7. \A k \in 1 .. Len(r) : from[k] \in 1 .. Len(a) /\ r[k] = a[from[k]] /\ m < a[from[k]]
  BY <1>2, <1>4
<1>8. \A j, k \in 1 .. Len(r) : j < k => r[j] < r[k]
  BY <1>4, <1>5, <1>7
<1>9. \A k \in 1 .. Len(r) : r[k] \in {x \in S : m < x}
  BY <1>5, <1>7
<1>10. ASSUME NEW x \in S, m < x PROVE \E k \in 1 .. Len(r) : r[k] = x
  <2>1. PICK i \in 1 .. Len(a) : a[i] = x
    BY <1>5
  <2>2. i \in at
    BY <1>2, <1>10, <2>1
  <2>3. PICK k \in 1 .. Len(r) : from[k] = i
    BY <1>4, <2>2
  <2> QED BY <1>7, <2>1, <2>3
<1>11. Rises(r, {x \in S : m < x})
  BY <1>6, <1>8, <1>9, <1>10 DEF Rises
<1> QED BY <1>1, <1>2, <1>3, <1>11

LEMMA OutstandingRises ==
  ASSUME IInv, FlowInv, NEW o \in Ends, NEW p \in Priority
  PROVE  Rises(Outstanding[<<o, p>>], Unreceived(o, p))
<1>1. out[o] \in QueuesOf(o, start[o]) /\ QueueInOrder(out[o][p])
  BY QueueFacts DEF FlowInv, Flow, FlowOf
<1>2. PICK s \in Seq(Packets) : s = out[o][p]
  BY <1>1, QueuePackets
<1>3. \A j, k \in 1 .. Len(s) : j < k /\ IsReliable(s[j]) /\ IsReliable(s[k]) => s[j].seq < s[k].seq
  BY <1>1, <1>2 DEF QueueInOrder, InOrder, IsReliable
<1>4. Rises(ReliableSeqs(s), ReliableSet(s))
  BY <1>3, ReliableRise
<1>5. ReliableSet(s) = Waiting(o, p)
  <2>1. ASSUME NEW q \in Priority, NEW k \in 1 .. Len(out[o][q])
        PROVE  LET c == out[o][q][k]
                   b == AsCommitted(c) IN
               /\ b.seq = c.seq /\ (IsReliable(b) <=> IsReliable(c)) /\ b.p = q
    <3>1. PICK c \in Packets : c = out[o][q][k] /\ c.p = q
      BY <1>1, <2>1, QueuePackets
    <3>2. PICK b : b = AsCommitted(c)
      OBVIOUS
    <3>3. b.seq = c.seq /\ b.p = c.p /\ (IsReliable(b) <=> IsReliable(c))
      BY <3>2, CommittedPacket DEF IsReliable, IsData
    <3> QED BY <3>1, <3>2, <3>3
  <2>2. ASSUME NEW m \in ReliableSet(s) PROVE m \in Waiting(o, p)
    <3>1. PICK k \in 1 .. Len(s) : IsReliable(s[k]) /\ m = s[k].seq
      BY <2>2 DEF ReliableSet
    <3>2. PICK b : b = AsCommitted(s[k])
      OBVIOUS
    <3>3. b \in InQueues(out[o])
      BY <1>2, <3>2, InQueuesAt
    <3> QED BY <1>2, <2>1, <3>1, <3>2, <3>3 DEF Waiting
  <2>3. ASSUME NEW m \in Waiting(o, p) PROVE m \in ReliableSet(s)
    <3>1. PICK b \in InQueues(out[o]) : IsReliable(b) /\ b.p = p /\ m = b.seq
      BY <2>3 DEF Waiting
    <3>2. PICK q \in Priority : \E k \in 1 .. Len(out[o][q]) : b = AsCommitted(out[o][q][k])
      BY <3>1, InQueuesAt
    <3>3. PICK k \in 1 .. Len(out[o][q]) : b = AsCommitted(out[o][q][k])
      BY <3>2
    <3>4. q = p /\ IsReliable(s[k]) /\ m = s[k].seq
      BY <1>2, <2>1, <3>1, <3>3
    <3> QED BY <1>2, <3>3, <3>4 DEF ReliableSet
  <2> QED BY <2>2, <2>3
<1>6. lastRx[Other(o)][p] \in Int
  BY OtherEnd, ReceiverFacts DEF None
<1>7. PICK seqs : seqs = ReliableSeqs(s)
  OBVIOUS
<1>8. <<o, p>> \in Channel /\ <<o, p>>[1] = o /\ <<o, p>>[2] = p
  BY DEF Channel
<1>9. Outstanding[<<o, p>>] = Selected(seqs, {k \in DOMAIN seqs : lastRx[Other(o)][p] < seqs[k]})
  BY <1>2, <1>7, <1>8 DEF Outstanding
<1>10. Rises(seqs, Waiting(o, p))
  BY <1>4, <1>5, <1>7
<1> QED BY <1>6, <1>9, <1>10, SelectedRises DEF Unreceived

LEMMA BufferedRises ==
  ASSUME IInv, Hold, AcceptInv, NEW e \in Ends, NEW p \in Priority, \A a \in Accepted(e) : a.start = 1
  PROVE  Rises(Buffered[<<Other(e), p>>], Unread(e, p))
<1>1. input[e] \in Inputs /\ Stable(input[e]) /\ InSequence(e)
  BY WireFacts DEF Hold, Held, AcceptInv
<1>2. PICK n \in Nat : n = input[e].buffer[p].size
  BY <1>1, ReadableShown
<1>0. PICK rb : rb = input[e].buffer[p]
  OBVIOUS
<1>3. PICK s : s = Readable(input[e], p)
  OBVIOUS
<1>4. DOMAIN s = 1 .. n /\ \A k \in 1 .. n : s[k] = Shown(rb, k) /\ s[k] \in Packets
  BY <1>0, <1>1, <1>2, <1>3, ReadableShown
<1>5. s = [k \in DOMAIN s |-> s[k]]
  BY <1>3 DEF Readable
<1>6. s \in Seq(Packets) /\ Len(s) = n
  <2>1. s \in [1 .. n -> Packets]
    BY <1>4, <1>5
  <2> QED BY <2>1
<1>7. ASSUME NEW k \in 1 .. n PROVE s[k].start = 1 /\ s[k].seq \in Nat
  <2>1. Id(s[k]) \in Accepted(e)
    BY <1>0, <1>1, <1>2, <1>4, ReadableShown DEF Accepted
  <2>2. Id(s[k]).start = 1
    BY <2>1
  <2> QED BY <1>4, <2>2 DEF Id, Packets, PacketType
<1>8. \A j, k \in 1 .. n : j < k => s[j].seq < s[k].seq
  <2> SUFFICES ASSUME NEW j \in 1 .. n, NEW k \in 1 .. n, j < k PROVE s[j].seq < s[k].seq
    OBVIOUS
  <2>1. j \in 1 .. k - 1
    OBVIOUS
  <2>2. Earlier(Shown(rb, j), Shown(rb, k))
    BY <1>0, <1>1, <1>2, <2>1 DEF InSequence
  <2> QED BY <1>4, <1>7, <2>2 DEF Earlier
<1>9. Rises(ReliableSeqs(s), ReliableSet(s))
  BY <1>6, <1>8, ReliableRise
<1>10. ReliableSet(s) = Unread(e, p)
  BY <1>0, <1>2, <1>4, <1>6 DEF ReliableSet, Unread
<1>11. PICK c : c = <<Other(e), p>>
  OBVIOUS
<1>12. c \in Channel /\ c[1] = Other(e) /\ c[2] = p /\ Other(c[1]) = e
  BY <1>11, OtherEnd DEF Channel
<1>13. Buffered[c] = ReliableSeqs(s)
  BY <1>3, <1>12 DEF Buffered
<1> QED BY <1>9, <1>10, <1>11, <1>13

-----------------------------------------------------------------------------
(* The first session, as long as no end is started again.                    *)

\* A handshake request arrives before anything else.
LEMMA NothingBefore ==
  ASSUME IInv, FlowInv, AcceptInv, FirstInv, NEW e \in Ends, Hears(e)
  PROVE  Accepted(e) = {} /\ \A p \in Priority : lastRx[e][p] = None
<1>1. PICK f : Arrives(e, f) /\ IsRequest(f.pkt)
  BY DEF Hears
<1>2. f.pkt \in Packets /\ AsCommitted(f.pkt) \in OnTheWay(Other(e))
  BY <1>1, Arrived
<1>3. PICK g : g = AsCommitted(f.pkt)
  OBVIOUS
<1>4. g \in OnTheWay(Other(e)) /\ IsRequest(g)
  BY <1>1, <1>2, <1>3, CommittedPacket DEF IsRequest
<1>5. g.start = 1 /\ \A a \in Accepted(e) : a.start = 1
  BY <1>4, OtherEnd DEF FirstInv, FirstSession
<1>6. ASSUME NEW a \in Accepted(e) PROVE FALSE
  <2>1. Passed(e, a, g)
    BY <1>4, <1>6 DEF AcceptInv, Settles, Settled
  <2> QED BY <1>4, <1>5, <2>1 DEF Passed
<1>7. \A p \in Priority : LastIsOf(e, 1, p)
  BY DEF FirstInv, FirstSession
<1> QED BY <1>6, <1>7 DEF LastIsOf

LEMMA LastNotForgotten ==
  ASSUME IInv, FlowInv, Hold, AcceptInv, FirstInv, KeepsUp, [Next]_vars, Unrestarted, Unrestarted',
         NEW e \in Ends
  PROVE  NotForgotten(e)
<1>1. lastRx[e] \in [Priority -> Nat \cup {None}]
  BY ReceiverFacts
<1>2. \A p \in Priority : lastRx[e][p] # None => lastRx[e][p] \in Nat
  BY <1>1
<1>3. ~Starts(e)
  BY DEF Starts, Unrestarted
<1>4. CASE lastRx'[e] = lastRx[e]
  BY <1>2, <1>4 DEF NotForgotten
<1>5. CASE Hears(e)
  BY <1>5, NothingBefore DEF NotForgotten
<1>6. ASSUME NEW f, NEW pkt, Accepts(e, f, pkt), lastRx'[e] # lastRx[e] PROVE NotForgotten(e)
  <2>1. /\ ~AlreadyReceived(e, pkt) /\ lastRx'[e] = [lastRx[e] EXCEPT ![pkt.p] = pkt.seq]
        /\ pkt \in Packets
    BY <1>6 DEF Accepts
  <2>2. pkt.seq \in Nat /\ pkt.p \in Priority
    BY <2>1 DEF Packets, PacketType
  <2>3. lastRx[e][pkt.p] # None => lastRx[e][pkt.p] < pkt.seq
    BY <1>2, <2>1, <2>2 DEF AlreadyReceived
  <2>4. pkt.seq # None
    BY <2>2 DEF None
  <2> QED BY <1>1, <1>2, <2>1, <2>2, <2>3, <2>4 DEF NotForgotten
<1> QED BY <1>3, <1>4, <1>5, <1>6, Receives DEF Keeps, TakesOldest, AcceptInv

LEMMA StillReceived ==
  ASSUME IInv, IInv', NEW e \in Ends, NotForgotten(e), NEW p \in Priority, NEW seq \in Nat,
         Received(e, p, seq)
  PROVE  Received(e, p, seq)'
<1>1. lastRx \in [Ends -> [Priority -> Nat \cup {None}]] /\ lastRx' \in [Ends -> [Priority -> Nat \cup {None}]]
  BY DEF IInv, CounterInv
<1>2. lastRx[e][p] \in Nat \cup {None} /\ lastRx'[e][p] \in Nat \cup {None}
  BY <1>1
<1> QED BY <1>2 DEF NotForgotten, Received

-----------------------------------------------------------------------------
(* A reliable packet stays in its queue until it has been received.          *)

LEMMA InQueuesKept ==
  ASSUME NEW q, NEW r, NEW b, b \in InQueues(q),
         \A p \in Priority : \A k \in 1 .. Len(q[p]) :
           b = AsCommitted(q[p][k]) => \E j \in 1 .. Len(r[p]) : AsCommitted(r[p][j]) = b
  PROVE  b \in InQueues(r)
<1>1. PICK p \in Priority : \E k \in 1 .. Len(q[p]) : b = AsCommitted(q[p][k])
  BY InQueuesAt
<1>2. \E j \in 1 .. Len(r[p]) : AsCommitted(r[p][j]) = b
  BY <1>1
<1> QED BY <1>2, InQueuesAt

LEMMA PreemptStays ==
  ASSUME IInv, NEW e \in Ends, Preempt(e), NEW b \in InQueues(out[e])
  PROVE  b \in InQueues(out'[e])
<1>1. PICK q \in QueuesOf(e, start[e]), left \in Nat :
        /\ out' = [out EXCEPT ![e] = q]
        /\ \/ ~tx[e].live /\ q = out[e]
           \/ /\ tx[e].live /\ out[e][tx[e].pkt.p] # << >>
              /\ q = [out[e] EXCEPT ![tx[e].pkt.p] =
                        [out[e][tx[e].pkt.p] EXCEPT ![1].is_continuation = TRUE, ![1].length = left]]
  BY PreemptedQueues
<1>2. out[e] \in QueuesOf(e, start[e]) /\ out'[e] = q
  BY <1>1, QueueFacts, QueuesSet
<1>3. PICK i \in Priority : i = tx[e].pkt.p
  BY QueueFacts
<1>4. ASSUME NEW p \in Priority, NEW k \in 1 .. Len(out[e][p]), b = AsCommitted(out[e][p][k])
      PROVE  \E j \in 1 .. Len(q[p]) : AsCommitted(q[p][j]) = b
  <2>1. PICK s \in Seq(Packets) : s = out[e][p]
    BY <1>2, QueuePackets
  <2>2. CASE q[p] = s
    BY <1>4, <2>1, <2>2
  <2>3. CASE s # << >> /\ q[p] = [s EXCEPT ![1].is_continuation = TRUE, ![1].length = left]
    <3>1. q[p] = Resumed(s, TRUE, left) /\ TRUE \in BOOLEAN
      BY <2>3 DEF Resumed
    <3>2. Len(q[p]) = Len(s) /\ \A j \in 1 .. Len(s) : Same(q[p][j], s[j])
      BY <2>3, <3>1, PartOfContinued
    <3>3. k \in 1 .. Len(s) /\ Same(q[p][k], s[k])
      BY <1>4, <2>1, <3>2
    <3> QED BY <1>4, <2>1, <3>2, <3>3 DEF Same
  <2>4. q[p] = s \/ (s # << >> /\ q[p] = [s EXCEPT ![1].is_continuation = TRUE, ![1].length = left])
    BY <1>1, <1>2, <1>3, <2>1 DEF QueuesOf
  <2> QED BY <2>2, <2>3, <2>4
<1> QED BY <1>2, <1>4, InQueuesKept

LEMMA ResetStays ==
  ASSUME NEW s \in Seq(Packets), NEW pkt, NEW t \in Seq(Packets), t = Whole(Selected(s, StillValid(s, pkt))),
         NEW k \in 1 .. Len(s), ~s[k].is_ack
  PROVE  \E j \in 1 .. Len(t) : Same(t[j], s[k])
<1>1. PICK at : at = StillValid(s, pkt)
  OBVIOUS
<1>2. PICK r \in Seq(Packets) : r = Selected(s, at) /\ t = Whole(r)
  BY <1>1, SelectedQueue
<1>3. k \in at
  BY <1>1 DEF StillValid
<1>4. PICK j \in 1 .. Len(r) : r[j] = s[k]
  BY <1>2, <1>3, SelectedFrom DEF IsSelection
<1>5. 1 \in 1 .. Len(r) /\ r # << >>
  BY <1>4
<1>6. r[1] \in Packets
  BY <1>2, <1>5
<1>7. PICK length \in Nat : length = r[1].total
  BY <1>6 DEF Packets, PacketType
<1>8. t = Resumed(r, FALSE, length) /\ FALSE \in BOOLEAN
  BY <1>2, <1>5, <1>7 DEF Whole
<1>9. Len(t) = Len(r) /\ \A i \in 1 .. Len(r) : Same(t[i], r[i])
  BY <1>5, <1>8, PartOfContinued
<1> QED BY <1>4, <1>9

LEMMA FinishStays ==
  ASSUME IInv, FlowInv, NEW e \in Ends, FinishPacket(e), NEW b \in InQueues(out[e]), IsReliable(b)
  PROVE  b \in InQueues(out'[e])
<1>1. PICK pkt \in Packets : pkt = tx[e].pkt
  BY QueueFacts
<1>2. pkt.p \in Priority /\ tx[e].state = "burst" /\ out[e] \in QueuesOf(e, start[e])
  BY <1>1, QueueFacts DEF FinishPacket
<1>3. PICK queues \in QueuesOf(e, start[e]) :
        queues = IF pkt.is_init /\ pkt.is_ack THEN ResetOutputSession(out[e], pkt) ELSE out[e]
  BY QueueFacts, ResetQueues
<1>4. PICK q \in QueuesOf(e, start[e]) :
        q = IF ShouldConsume(pkt) THEN [queues EXCEPT ![pkt.p] = DropHead(@)] ELSE queues
  BY <1>2, <1>3, QueueDropped
<1>5. out'[e] = q
  <2>1. out' = [out EXCEPT ![e] = q]
    BY <1>1, <1>3, <1>4 DEF FinishPacket
  <2> QED BY <2>1, QueuesSet
<1>6. FlowOf(e, start[e], seqNo[e], out[e], tx[e], wire[e])
  BY DEF FlowInv, Flow
<1>7. ASSUME NEW p \in Priority, NEW k \in 1 .. Len(out[e][p]), b = AsCommitted(out[e][p][k])
      PROVE  \E j \in 1 .. Len(q[p]) : AsCommitted(q[p][j]) = b
  <2>1. PICK s \in Seq(Packets) : s = out[e][p] /\ k \in 1 .. Len(s) /\ s[k] \in Packets /\ s[k].p = p
    BY <1>2, <1>7, QueuePackets
  <2>2. IsReliable(s[k])
    BY <1>7, <2>1, CommittedPacket DEF IsReliable, IsData
  <2>3. PICK j \in 1 .. Len(queues[p]) : AsCommitted(queues[p][j]) = b
    <3>1. CASE IsAnswer(pkt)
      <4>1. queues[p] = Whole(Selected(s, StillValid(s, pkt)))
        BY <1>3, <2>1, <3>1 DEF IsAnswer, ResetOutputSession, Whole, Resumed
      <4>2. queues[p] \in Seq(Packets) /\ ~s[k].is_ack
        BY <1>3, <2>2, QueuePackets DEF IsReliable, IsData
      <4>3. \E i \in 1 .. Len(queues[p]) : Same(queues[p][i], s[k])
        BY <2>1, <4>1, <4>2, ResetStays
      <4> QED BY <1>7, <2>1, <4>3 DEF Same
    <3>2. CASE ~IsAnswer(pkt)
      <4>1. queues = out[e]
        BY <1>3, <3>2 DEF IsAnswer
      <4> QED BY <1>7, <4>1
    <3> QED BY <3>1, <3>2
  <2>4. CASE pkt.requires_ack
    BY <1>4, <2>3, <2>4 DEF ShouldConsume
  <2>5. CASE p # pkt.p
    <3>1. q[p] = queues[p]
      BY <1>2, <1>3, <1>4, <2>5 DEF QueuesOf
    <3> QED BY <2>3, <3>1
  <2>6. CASE ~pkt.requires_ack /\ p = pkt.p
    <3>1. p # 0
      BY <1>6, <2>1, <2>2 DEF FlowOf, Made, IsReliable
    <3>2. ~IsAnswer(pkt)
      BY <1>1, <1>2, <1>6, <2>6, <3>1 DEF FlowOf, Made
    <3>3. queues = out[e]
      BY <1>3, <3>2 DEF IsAnswer
    <3>4. AsCommitted(s[1]) = AsCommitted(pkt)
      BY <1>1, <1>2, <1>6, <2>1, <2>6 DEF FlowOf, SentInOrder
    <3>5. k # 1
      <4>1. b.requires_ack
        BY DEF IsReliable
      <4>2. ~AsCommitted(pkt).requires_ack
        BY <2>6, CommittedPacket
      <4> QED BY <1>7, <2>1, <3>4, <4>1, <4>2
    <3>6. s # << >>
      BY <2>1
    <3>7. q[p] = Tail(s)
      BY <1>2, <1>3, <1>4, <2>1, <2>6, <3>3, <3>6 DEF ShouldConsume, QueuesOf, DropHead
    <3>8. Len(Tail(s)) = Len(s) - 1 /\ \A i \in 1 .. Len(Tail(s)) : Tail(s)[i] = s[i + 1]
      BY <2>1, <3>6, HeadTailProperties
    <3>9. k - 1 \in 1 .. Len(Tail(s)) /\ Tail(s)[k - 1] = s[k]
      BY <2>1, <3>5, <3>8
    <3> QED BY <1>7, <2>1, <3>7, <3>9
  <2> QED BY <2>4, <2>5, <2>6
<1> QED BY <1>5, <1>7, InQueuesKept

LEMMA AppendStays ==
  ASSUME NEW q \in [Priority -> Seq(Packets)], NEW p \in Priority, NEW v \in Packets,
         NEW b \in InQueues(q), NEW r, r = [q EXCEPT ![p] = Append(@, v)]
  PROVE  b \in InQueues(r)
<1>1. ASSUME NEW i \in Priority, NEW k \in 1 .. Len(q[i]), b = AsCommitted(q[i][k])
      PROVE  \E j \in 1 .. Len(r[i]) : AsCommitted(r[i][j]) = b
  <2>1. PICK s \in Seq(Packets) : s = q[i]
    OBVIOUS
  <2>2. CASE i # p
    BY <1>1, <2>2
  <2>3. CASE i = p
    <3>1. r[i] = Append(s, v)
      BY <2>1, <2>3
    <3>2. /\ Len(Append(s, v)) = Len(s) + 1 /\ Len(s) \in Nat
          /\ \A j \in 1 .. Len(s) : Append(s, v)[j] = s[j]
      BY AppendProperties, LenProperties
    <3>3. k \in 1 .. Len(Append(s, v)) /\ Append(s, v)[k] = s[k]
      BY <1>1, <2>1, <3>2
    <3> QED BY <1>1, <2>1, <3>1, <3>3
  <2> QED BY <2>2, <2>3
<1> QED BY <1>1, InQueuesKept

LEMMA AnswerStays ==
  ASSUME IInv, NEW d \in Ends, NEW pkt \in Packets, Answerable(pkt), out' = WithAck(d, pkt),
         NEW o \in Ends, NEW b \in InQueues(out[o])
  PROVE  b \in InQueues(out'[o])
<1>1. pkt.p # 0
  BY DEF Answerable, kHigh
<1>2. CASE out'[o] = out[o]
  BY <1>2
<1>3. CASE out'[o] # out[o]
  <2>1. PICK p \in Priority : p = Higher(pkt.p)
    BY <1>1, AckAdded
  <2>2. PICK ack : ack = AckFor(d, pkt)
    OBVIOUS
  <2>3. ack \in Packets
    BY <1>1, <2>2, AckAdded DEF PacketsOf
  <2>4. out' = [out EXCEPT ![d] = [out[d] EXCEPT ![p] = Append(@, ack)]]
    BY <1>1, <1>3, <2>1, <2>2, AckAdded
  <2>5. d = o /\ out'[d] = [out[d] EXCEPT ![p] = Append(@, ack)]
    BY <1>3, <2>4, QueuesSet
  <2>6. out[d] \in [Priority -> Seq(Packets)]
    BY DEF IInv, OutputInv
  <2> QED BY <2>3, <2>5, <2>6, AppendStays
<1> QED BY <1>2, <1>3

\* A packet that is dropped because of an ACK has been received.
LEMMA AcknowledgedStays ==
  ASSUME IInv, FlowInv, FirstInv, NEW e \in Ends, NEW f, Arrives(e, f), NEW pkt \in Packets,
         Same(f.pkt, pkt), NEW in, Acknowledgement(e, pkt, in), NEW b \in InQueues(out[e]), IsReliable(b)
  PROVE  b \in InQueues(out'[e]) \/ Received(Other(e), b.p, b.seq)
<1>1. PICK p \in Priority : p = Lower(pkt.p)
  BY AckedQueue
<1>2. CASE out' = out
  BY <1>2
<1>3. CASE out' # out
  <2>1. PICK s \in Seq(Packets) : s = out[e][p]
    BY DEF IInv, OutputInv
  <2>2. /\ pkt.is_ack /\ s # << >> /\ s[1].requires_ack /\ s[1].seq = pkt.seq
        /\ out' = [out EXCEPT ![e] = [out[e] EXCEPT ![p] = Tail(@)]]
    BY <1>1, <1>3, <2>1, AckedQueue
  <2>3. PICK q : q = [out[e] EXCEPT ![p] = Tail(@)]
    OBVIOUS
  <2>4. out'[e] = q /\ out[e] \in [Priority -> Seq(Packets)] /\ out[e] \in QueuesOf(e, start[e])
    BY <2>2, <2>3, QueuesSet, QueueFacts DEF IInv, OutputInv
  <2>5. q[p] = Tail(s) /\ \A i \in Priority : i # p => q[i] = out[e][i]
    BY <2>1, <2>3, <2>4
  <2>6. /\ Len(Tail(s)) = Len(s) - 1 /\ Len(s) \in Nat
        /\ \A i \in 1 .. Len(Tail(s)) : Tail(s)[i] = s[i + 1]
    BY <2>2, HeadTailProperties
  <2>7. CASE b = AsCommitted(s[1])
    <3>1. 1 \in 1 .. Len(s) /\ s[1] \in Packets /\ s[1].p = p
      <4>1. 1 \in 1 .. Len(s)
        BY <2>2, LenProperties, EmptySeq
      <4> QED BY <2>1, <2>4, <4>1, QueuePackets
    <3>2. b.p = p /\ b.seq = pkt.seq
      BY <2>2, <2>7, <3>1, CommittedPacket
    <3>3. b.seq < MaxPackets /\ b.seq \in Nat
      <4>1. b \in OnTheWay(e)
        BY DEF OnTheWay, Later
      <4> QED BY <4>1, OnTheWayMade DEF Made, IsReliable, Packets, PacketType
    <3>4. PICK g : g = AsCommitted(f.pkt) /\ g = AsCommitted(pkt)
      BY DEF Same
    <3>5. g \in OnTheWay(Other(e)) /\ g.seq = pkt.seq /\ g.p = pkt.p /\ g.is_ack
      BY <2>2, <3>4, Arrived, CommittedPacket
    <3>6. Made(Other(e), start[Other(e)], seqNo[Other(e)], g)
      BY <3>5, OtherEnd, OnTheWayMade
    <3>7. IsDataAck(g)
      BY <3>2, <3>3, <3>5, <3>6, BoundsAssumption DEF Made, IsAnswer, IsDataAck
    <3>8. Received(Other(e), Lower(g.p), g.seq)
      BY <3>5, <3>7, OtherEnd DEF FirstInv, FirstSession
    <3> QED BY <1>1, <3>2, <3>5, <3>8
  <2>8. CASE b # AsCommitted(s[1])
    <3>1. ASSUME NEW i \in Priority, NEW k \in 1 .. Len(out[e][i]), b = AsCommitted(out[e][i][k])
          PROVE  \E j \in 1 .. Len(q[i]) : AsCommitted(q[i][j]) = b
      <4>1. CASE i # p
        BY <2>5, <3>1, <4>1
      <4>2. CASE i = p
        <5>1. k \in 1 .. Len(s) /\ b = AsCommitted(s[k]) /\ k # 1
          BY <2>1, <2>8, <3>1, <4>2
        <5>2. k - 1 \in 1 .. Len(Tail(s)) /\ Tail(s)[k - 1] = s[k]
          BY <2>6, <5>1
        <5> QED BY <2>5, <4>2, <5>1, <5>2
      <4> QED BY <4>1, <4>2
    <3> QED BY <2>4, <3>1, InQueuesKept
  <2> QED BY <2>7, <2>8
<1> QED BY <1>2, <1>3

LEMMA CommitStays ==
  ASSUME IInv, FlowInv, NEW t \in Traffic, Commit(t), NEW o \in Ends, NEW b \in InQueues(out[o])
  PROVE  b \in InQueues(out'[o])
<1>1. t.from \in Ends
  BY CommitMoves
<1>2. CASE o # t.from
  <2>1. \E v : out' = [out EXCEPT ![t.from] = v]
    BY Mapped DEF Commit
  <2>2. out'[o] = out[o]
    BY <1>1, <1>2, <2>1, QueuesSet
  <2> QED BY <2>2
<1>3. CASE o = t.from
  <2>1. ASSUME NEW p \in Priority, NEW k \in 1 .. Len(out[o][p]), b = AsCommitted(out[o][p][k])
        PROVE  \E j \in 1 .. Len(out'[o][p]) : AsCommitted(out'[o][p][j]) = b
    <3>1. CASE out'[o][p] = out[o][p]
      BY <2>1, <3>1
    <3>2. CASE out'[o][p] # out[o][p]
      <4>1. PICK s \in Seq(Packets) : s = out[o][p]
        BY DEF IInv, OutputInv
      <4>2. PICK v : out'[o][p] = Append(s, v)
        BY <1>3, <3>2, <4>1, CommitMoves
      <4>3. k \in 1 .. Len(Append(s, v)) /\ Append(s, v)[k] = s[k]
        BY <2>1, <4>1
      <4> QED BY <2>1, <4>1, <4>2, <4>3
    <3> QED BY <3>1, <3>2
  <2> QED BY <2>1, InQueuesKept
<1> QED BY <1>2, <1>3

LEMMA ReliableStays ==
  ASSUME IInv, FlowInv, Hold, FirstInv, [Next]_vars, Unrestarted, Unrestarted',
         NEW o \in Ends, NEW b \in InQueues(out[o]), IsReliable(b)
  PROVE  b \in InQueues(out'[o]) \/ Received(Other(o), b.p, b.seq)
<1>1. IInv'
  BY NextInv
<1>2. CASE out'[o] = out[o]
  BY <1>2
<1>3. ASSUME NEW d \in Ends, Preempt(d) \/ FinishPacket(d), out'[o] # out[o] PROVE b \in InQueues(out'[o])
  <2>1. d = o
    <3>1. \E f \in Fragments, q \in QueuesOf(d, start[d]) : SentOn(d, f, q)
      BY <1>3, PreemptSends, FinishSends
    <3>2. \E q : out' = [out EXCEPT ![d] = q]
      BY <3>1 DEF SentOn
    <3> QED BY <1>3, <3>2, QueuesSet
  <2> QED BY <1>3, <2>1, PreemptStays, FinishStays
<1>4. ASSUME NEW d \in Ends, ReadBody(d), out'[o] # out[o]
      PROVE  b \in InQueues(out'[o]) \/ Received(Other(o), b.p, b.seq)
  <2>1. Reads(d)
    BY <1>1, <1>4, ReadBodyReceives DEF Hold
  <2>2. PICK f, pkt, in :
          /\ Arrives(d, f) /\ pkt \in Packets
          /\ \/ out' = out
             \/ Same(f.pkt, pkt) /\ Acknowledgement(d, pkt, in)
             \/ Answerable(pkt) /\ out' = WithAck(d, pkt)
    BY <2>1 DEF Reads
  <2>3. CASE Same(f.pkt, pkt) /\ Acknowledgement(d, pkt, in)
    <3>1. wire'[d] = wire[d]
      BY <2>2 DEF Arrives
    <3>2. d = o
      BY <1>4, <2>2, <2>3, <3>1, AcknowledgedMoves
    <3> QED BY <2>2, <2>3, <3>2, AcknowledgedStays
  <2>4. CASE Answerable(pkt) /\ out' = WithAck(d, pkt)
    BY <2>2, <2>4, AnswerStays
  <2> QED BY <1>4, <2>2, <2>3, <2>4
<1>5. ASSUME NEW d \in Ends, Restart(d) PROVE FALSE
  BY <1>5, RestartMoves DEF Restarts, Unrestarted
<1>6. ASSUME NEW t \in Traffic, Commit(t) PROVE b \in InQueues(out'[o])
  BY <1>6, CommitStays
<1>7. ASSUME NEW d \in Ends, StartPacket(d) \/ SendUnit(d) \/ Lose(d) \/ Corrupt(d) \/ ReadHeader(d) \/ Deliver(d)
      PROVE  out'[o] = out[o]
  BY <1>7, TransmitterMoves, LinkMoves
<1>8. ASSUME UNCHANGED vars PROVE out'[o] = out[o]
  BY <1>8 DEF vars, outVars
<1> QED BY <1>2, <1>3, <1>4, <1>5, <1>6, <1>7, <1>8 DEF Next, Run

-----------------------------------------------------------------------------
(* The first session goes on.                                                *)

LEMMA NewlyQueued ==
  ASSUME IInv, FlowInv, [Next]_vars, Unrestarted, Unrestarted', NEW o \in Ends, NEW b \in OnTheWay(o)'
  PROVE  b \in OnTheWay(o) \/ b \in InQueues(out'[o])
<1>1. Moves(o) /\ ~Restarts(o)
  BY NextMoves DEF Restarts, Unrestarted
<1>2. CASE b \in OnWire(wire'[o])
  <2>1. PICK k \in 1 .. Len(wire'[o]) : b = AsCommitted(wire'[o][k].pkt)
    BY <1>2 DEF OnWire
  <2>2. \/ \E m \in 1 .. Len(wire[o]) : wire'[o][k].pkt = wire[o][m].pkt
        \/ tx[o].state = "burst" /\ wire'[o][k].pkt = tx[o].pkt
    BY <1>1, WireKept
  <2> QED BY <2>1, <2>2 DEF OnTheWay, OnWire, Later, InTx
<1>3. CASE b \in InTx(tx'[o])
  BY <1>1, <1>3 DEF Moves, Quiet, Sends, Adds, OnTheWay, Later
<1> QED BY <1>2, <1>3 DEF OnTheWay, Later

LEMMA FlowFirst ==
  ASSUME IInv, FlowInv, Hold, AcceptInv, FirstInv, KeepsUp, [Next]_vars, Unrestarted, Unrestarted',
         NEW o \in Ends, NEW b \in OnTheWay(o)'
  PROVE  /\ b.start = 1
         /\ IsReliable(b) => b \in InQueues(out'[o]) \/ Received(Other(o), b.p, b.seq)'
         /\ IsDataAck(b) => Received(o, Lower(b.p), b.seq)'
<1>1. IInv' /\ FlowInv' /\ NotForgotten(o) /\ NotForgotten(Other(o)) /\ Other(o) \in Ends
  BY NextInv, NextFlow, LastNotForgotten, OtherEnd
<1>2. b \in Packets /\ (b \in OnTheWay(o) \/ Fresh(o, b))
  BY NextMoves, MovesOn
<1>3. b.p \in Priority /\ b.seq \in Nat
  BY <1>2 DEF Packets, PacketType
<1>4. b.start = 1
  BY <1>2 DEF FirstInv, FirstSession, Fresh, Unrestarted
<1>5. ASSUME IsReliable(b) PROVE b \in InQueues(out'[o]) \/ Received(Other(o), b.p, b.seq)'
  <2>1. CASE b \in OnTheWay(o)
    <3>1. b \in InQueues(out[o]) \/ Received(Other(o), b.p, b.seq)
      BY <1>5, <2>1 DEF FirstInv, FirstSession
    <3>2. b \in InQueues(out'[o]) \/ Received(Other(o), b.p, b.seq)
      BY <1>5, <3>1, ReliableStays
    <3> QED BY <1>1, <1>3, <3>2, StillReceived
  <2> QED BY <2>1, NewlyQueued
<1>6. ASSUME IsDataAck(b) PROVE Received(o, Lower(b.p), b.seq)'
  <2>1. Lower(b.p) \in Priority
    BY <1>2, <1>3, <1>6 DEF Packets, IsDataAck, Lower, Priority
  <2>2. CASE b \in OnTheWay(o)
    <3>1. Received(o, Lower(b.p), b.seq)
      BY <1>6, <2>2 DEF FirstInv, FirstSession
    <3> QED BY <1>1, <1>3, <2>1, <3>1, StillReceived
  <2>3. CASE b \in Later(o)' /\ b \notin Later(o)
    <3>1. PICK f, pkt :
            /\ pkt \in Packets /\ pkt.requires_ack
            /\ b.seq = pkt.seq /\ b.p = Higher(pkt.p) /\ b.is_init = pkt.is_init
            /\ \/ IsRequest(pkt)
               \/ Keeps(o) /\ AlreadyReceived(o, pkt)
               \/ Accepts(o, f, pkt)
      BY <1>6, <2>3, NewAck DEF IsDataAck
    <3>2. pkt.p \in Priority /\ Lower(b.p) = pkt.p
      BY <3>1 DEF Packets, PacketType, Priority, Higher, Lower
    <3>3. ~IsRequest(pkt)
      BY <1>6, <3>1 DEF IsDataAck, IsRequest
    <3>4. CASE Keeps(o) /\ AlreadyReceived(o, pkt)
      BY <3>1, <3>2, <3>4 DEF Keeps, AlreadyReceived, Received
    <3>5. CASE Accepts(o, f, pkt)
      <4>1. lastRx[o] \in [Priority -> Nat \cup {None}] /\ lastRx'[o] = [lastRx[o] EXCEPT ![pkt.p] = pkt.seq]
        BY <3>1, <3>5, ReceiverFacts DEF Accepts
      <4>2. lastRx'[o][pkt.p] = b.seq
        BY <3>1, <3>2, <4>1
      <4> QED BY <1>3, <3>2, <4>2 DEF Received, None
    <3> QED BY <3>1, <3>3, <3>4, <3>5
  <2> QED BY <1>6, <2>2, <2>3, AcksKept DEF IsDataAck
<1> QED BY <1>4, <1>5, <1>6

LEMMA AcceptsFirst ==
  ASSUME IInv, FlowInv, FirstInv, NEW e \in Ends, NEW f, NEW pkt, Accepts(e, f, pkt)
  PROVE  /\ f.pkt \in Packets /\ f.pkt.start = 1 /\ pkt.start = 1
         /\ AsCommitted(pkt) \in OnTheWay(Other(e)) /\ AsCommitted(pkt) = AsCommitted(f.pkt)
<1>1. /\ f.pkt \in Packets /\ pkt \in Packets /\ Same(f.pkt, pkt)
      /\ AsCommitted(f.pkt) \in OnTheWay(Other(e))
  BY Arrived DEF Accepts
<1>2. PICK g : g = AsCommitted(f.pkt) /\ g = AsCommitted(pkt)
  BY <1>1 DEF Same
<1>3. g.start = 1
  BY <1>1, <1>2, OtherEnd DEF FirstInv, FirstSession
<1> QED BY <1>1, <1>2, <1>3, CommittedPacket

LEMMA NextFirst ==
  IInv /\ FlowInv /\ Hold /\ AcceptInv /\ FirstInv /\ KeepsUp /\ Unrestarted /\ Unrestarted' /\ [Next]_vars
    => FirstInv'
<1> SUFFICES ASSUME IInv, FlowInv, Hold, AcceptInv, FirstInv, KeepsUp, Unrestarted, Unrestarted', [Next]_vars,
                    NEW e \in Ends
             PROVE  FirstSession(e)'
  BY DEF FirstInv
<1>1. Stable(input[e]) /\ Stable(input'[e]) /\ IInv' /\ DOMAIN delivered = Ends
  BY NextInv, NextHeld DEF Hold, Held, AcceptInv
<1>2. \A a \in Accepted(e) : a.start = 1
  BY DEF FirstInv, FirstSession
<1>3. ASSUME NEW a \in Accepted(e)' PROVE a.start = 1
  <2>1. ~Starts(e)
    BY DEF Starts, Unrestarted
  <2>2. CASE Keeps(e) \/ TakesOldest(e)
    BY <1>1, <1>2, <1>3, <2>2, NowAccepted
  <2>3. CASE Hears(e)
    BY <1>1, <1>2, <1>3, <2>3, NowAccepted DEF Accepted
  <2>4. ASSUME NEW f, NEW pkt, Accepts(e, f, pkt) PROVE a.start = 1
    <3>1. a \in Accepted(e) \/ a = Id(pkt)
      BY <1>1, <1>3, <2>4, NowAccepted
    <3> QED BY <1>2, <2>4, <3>1, AcceptsFirst DEF Id
  <2> QED BY <1>1, <2>1, <2>2, <2>3, <2>4, Receives
<1>4. ASSUME NEW p \in Priority PROVE LastIsOf(e, 1, p)'
  <2>1. LastIsOf(e, 1, p)
    BY DEF FirstInv, FirstSession
  <2>2. \A f, pkt : Accepts(e, f, pkt) /\ f.pkt.p = p => f.pkt.start = 1
    BY AcceptsFirst
  <2> QED BY <1>1, <2>1, <2>2, LastKept
<1>5. \A b \in OnTheWay(e)' :
        /\ b.start = 1
        /\ IsReliable(b) => b \in InQueues(out'[e]) \/ Received(Other(e), b.p, b.seq)'
        /\ IsDataAck(b) => Received(e, Lower(b.p), b.seq)'
  BY FlowFirst
<1> QED BY <1>3, <1>4, <1>5 DEF FirstSession

\* Only handshake requests are queued at first.
LEMMA InitQueued ==
  ASSUME Init, NEW e \in Ends, NEW b \in InQueues(out[e])
  PROVE  b.start = 1 /\ b.is_init
<1>1. b \in InQueues(Queues(InitPacket(e, 1)))
  BY DEF Init
<1>2. PICK p \in Priority :
        \E k \in 1 .. Len(Queues(InitPacket(e, 1))[p]) : b = AsCommitted(Queues(InitPacket(e, 1))[p][k])
  BY <1>1, InQueuesAt
<1>3. PICK s : s = Queues(InitPacket(e, 1))[p] /\ \E k \in 1 .. Len(s) : b = AsCommitted(s[k])
  BY <1>2
<1>4. s = <<InitPacket(e, 1)>> \/ s = << >>
  BY <1>3 DEF Queues
<1>5. b = AsCommitted(InitPacket(e, 1))
  BY <1>3, <1>4
<1> QED BY <1>5 DEF AsCommitted, InitPacket, Packet

LEMMA InitFirst == Init => FirstInv
<1> SUFFICES ASSUME Init, NEW e \in Ends PROVE FirstSession(e)
  BY DEF FirstInv
<1>1. /\ wire[e] = << >> /\ tx[e] = IdleTx
      /\ input[e] = NewInput /\ delivered[e] = {} /\ \A p \in Priority : lastRx[e][p] = None
  BY DEF Init
<1>2. 1 .. Len(wire[e]) = {}
  BY <1>1
<1>3. ASSUME NEW b \in OnTheWay(e) PROVE b.start = 1 /\ b.is_init /\ b \in InQueues(out[e])
  <2>1. b \in InQueues(out[e])
    BY <1>1, <1>2, <1>3 DEF OnTheWay, OnWire, Later, InTx, IdleTx
  <2> QED BY <2>1, InitQueued
<1>4. Accepted(e) = {}
  <2>1. Empty(input[e])
    BY <1>1, EmptyStreams
  <2>2. \A p \in Priority : 1 .. input[e].buffer[p].size = {}
    BY <2>1 DEF Empty
  <2>3. ReadableIds(input[e]) = {}
    BY <2>1, <2>2, ReadableShown DEF Empty
  <2> QED BY <1>1, <2>3 DEF Accepted
<1> QED BY <1>1, <1>3, <1>4 DEF FirstSession, LastIsOf, IsReliable, IsData, IsDataAck

-----------------------------------------------------------------------------
(* What a step does to the reliable packets waiting at an end.               *)

LEMMA OnlyCommitsAdd ==
  ASSUME IInv, FlowInv, Hold, [Next]_vars, Unrestarted, Unrestarted', \A t \in Traffic : ~Commit(t),
         NEW o \in Ends, NEW b \in InQueues(out'[o]), IsReliable(b)
  PROVE  b \in InQueues(out[o])
<1>1. IInv'
  BY NextInv
<1>2. CASE Quiet(o) \/ Sends(o) \/ out'[o] = out[o]
  BY <1>2 DEF Quiet, Sends
<1>3. ASSUME NEW d \in Ends, Run(d) \/ Lose(d) \/ Corrupt(d) \/ Restart(d) PROVE b \in InQueues(out[o])
  <2>1. CASE StartPacket(d) \/ SendUnit(d)
    BY <1>2, <2>1, TransmitterMoves
  <2>2. CASE Preempt(d) \/ FinishPacket(d)
    BY <1>2, <2>2, SentMoves
  <2>3. CASE Lose(d) \/ Corrupt(d) \/ ReadHeader(d) \/ Deliver(d)
    BY <1>2, <2>3, LinkMoves
  <2>4. CASE ReadBody(d)
    <3>1. Reads(d) /\ UNCHANGED <<start, seqNo>>
      BY <1>1, <2>4, ReadBodyReceives DEF Hold
    <3>2. PICK f, pkt, in :
            /\ Arrives(d, f) /\ pkt \in Packets
            /\ \/ out' = out
               \/ Acknowledgement(d, pkt, in)
               \/ Answerable(pkt) /\ out' = WithAck(d, pkt) /\ tx' = tx
      BY <3>1 DEF Reads
    <3>3. wire'[d] = wire[d]
      BY <3>2 DEF Arrives
    <3>4. CASE Acknowledgement(d, pkt, in)
      <4>1. Quiet(d) /\ \A c \in Ends : c # d => out'[c] = out[c]
        BY <3>2, <3>3, <3>4, AcknowledgedMoves
      <4> QED BY <1>2, <4>1
    <3>5. CASE Answerable(pkt) /\ out' = WithAck(d, pkt) /\ tx' = tx
      <4>1. PICK ack \in Packets : /\ ack.is_ack /\ (Quiet(d) \/ Adds(d, ack))
                                   /\ \A c \in Ends : c # d => out'[c] = out[c]
        BY <3>1, <3>2, <3>3, <3>5, AnswerMoves
      <4>2. b # AsCommitted(ack)
        BY <4>1, CommittedPacket DEF IsReliable, IsData
      <4> QED BY <1>2, <4>1, <4>2 DEF Adds
    <3> QED BY <1>2, <3>2, <3>4, <3>5
  <2>5. CASE Restart(d)
    BY <2>5, RestartMoves DEF Restarts, Unrestarted
  <2> QED BY <1>3, <2>1, <2>2, <2>3, <2>4, <2>5 DEF Run
<1>4. ASSUME UNCHANGED vars PROVE out'[o] = out[o]
  BY <1>4 DEF vars, outVars
<1> QED BY <1>2, <1>3, <1>4 DEF Next

LEMMA UnreceivedNow ==
  ASSUME IInv, FlowInv, Hold, FirstInv, [Next]_vars, Unrestarted, Unrestarted', \A t \in Traffic : ~Commit(t),
         NEW o \in Ends, NEW p \in Priority, lastRx[Other(o)][p] <= lastRx'[Other(o)][p]
  PROVE  Unreceived(o, p)' = {m \in Unreceived(o, p) : lastRx'[Other(o)][p] < m}
<1>1. IInv' /\ Other(o) \in Ends
  BY NextInv, OtherEnd
<1>2. lastRx[Other(o)] \in [Priority -> Nat \cup {None}] /\ lastRx'[Other(o)] \in [Priority -> Nat \cup {None}]
  BY <1>1 DEF IInv, CounterInv
<1>3. PICK x \in Int, y \in Int : x = lastRx[Other(o)][p] /\ y = lastRx'[Other(o)][p] /\ x <= y
  BY <1>2 DEF None
<1>4. \A b : b \in InQueues(out[o]) => b.seq \in Nat
  BY OnTheWayMade DEF OnTheWay, Later, Packets, PacketType
<1>5. \A m : m \in Unreceived(o, p) <=>
               \E b \in InQueues(out[o]) : IsReliable(b) /\ b.p = p /\ b.seq = m /\ x < m
  BY <1>3 DEF Unreceived, Waiting
<1>6. \A m : m \in Unreceived(o, p)' <=>
               \E b \in InQueues(out'[o]) : IsReliable(b) /\ b.p = p /\ b.seq = m /\ y < m
  BY <1>3 DEF Unreceived, Waiting
<1>7. ASSUME NEW m \in Unreceived(o, p)' PROVE m \in Unreceived(o, p) /\ y < m
  <2>1. PICK b \in InQueues(out'[o]) : IsReliable(b) /\ b.p = p /\ b.seq = m /\ y < m
    BY <1>6, <1>7
  <2>2. b \in InQueues(out[o])
    BY <2>1, OnlyCommitsAdd
  <2>3. m \in Nat
    BY <1>4, <2>1, <2>2
  <2> QED BY <1>3, <1>5, <2>1, <2>2, <2>3
<1>8. ASSUME NEW m \in Unreceived(o, p), y < m PROVE m \in Unreceived(o, p)'
  <2>1. PICK b \in InQueues(out[o]) : IsReliable(b) /\ b.p = p /\ b.seq = m /\ x < m
    BY <1>5, <1>8
  <2>2. m \in Nat
    BY <1>4, <2>1
  <2>3. ~Received(Other(o), b.p, b.seq)
    BY <1>3, <2>1, <2>2 DEF Received
  <2>4. b \in InQueues(out'[o])
    BY <2>1, <2>3, ReliableStays
  <2> QED BY <1>6, <1>8, <2>1, <2>4
<1> QED BY <1>3, <1>7, <1>8

\* A commit adds its packet to the queues of its sender.
LEMMA AppendedQueues ==
  ASSUME NEW q \in [Priority -> Seq(Packets)], NEW p \in Priority, NEW v \in Packets,
         NEW r, r[p] = Append(q[p], v), \A i \in Priority : i # p => r[i] = q[i]
  PROVE  InQueues(r) = InQueues(q) \cup {AsCommitted(v)}
<1>1. PICK s \in Seq(Packets) : s = q[p] /\ r[p] = Append(s, v)
  OBVIOUS
<1>0. PICK l \in Nat : l = Len(s)
  BY LenProperties
<1>2. PICK t : /\ t = Append(s, v) /\ Len(t) = l + 1 /\ t[l + 1] = v
               /\ \A k \in 1 .. l : t[k] = s[k]
  <2>1. /\ Len(Append(s, v)) = l + 1 /\ Append(s, v)[l + 1] = v
        /\ \A k \in 1 .. l : Append(s, v)[k] = s[k]
    BY <1>0, AppendProperties
  <2> QED BY <2>1
<1>3. l + 1 \in 1 .. Len(r[p]) /\ r[p][l + 1] = v
  BY <1>1, <1>2
<1>4. AsCommitted(v) \in InQueues(r)
  BY <1>3, InQueuesAt
<1>5. ASSUME NEW b \in InQueues(q) PROVE b \in InQueues(r)
  <2>1. PICK i \in Priority : \E k \in 1 .. Len(q[i]) : b = AsCommitted(q[i][k])
    BY <1>5, InQueuesAt
  <2>2. CASE i # p
    BY <1>1, <2>1, <2>2, InQueuesAt
  <2>3. CASE i = p
    <3>1. PICK k \in 1 .. l : b = AsCommitted(s[k])
      BY <1>0, <1>1, <2>1, <2>3
    <3>2. k \in 1 .. Len(r[p]) /\ r[p][k] = s[k]
      BY <1>1, <1>2
    <3> QED BY <3>1, <3>2, InQueuesAt
  <2> QED BY <2>2, <2>3
<1>6. ASSUME NEW b \in InQueues(r) PROVE b \in InQueues(q) \cup {AsCommitted(v)}
  <2>1. PICK i \in Priority : \E k \in 1 .. Len(r[i]) : b = AsCommitted(r[i][k])
    BY <1>6, InQueuesAt
  <2>2. CASE i # p
    BY <1>1, <2>1, <2>2, InQueuesAt
  <2>3. CASE i = p
    <3>1. PICK k \in 1 .. l + 1 : b = AsCommitted(t[k])
      BY <1>1, <1>2, <2>1, <2>3
    <3>2. k \in 1 .. l \/ k = l + 1
      OBVIOUS
    <3>3. ASSUME k \in 1 .. l PROVE b \in InQueues(q)
      <4>1. k \in 1 .. Len(q[p]) /\ b = AsCommitted(q[p][k])
        BY <1>0, <1>1, <1>2, <3>1, <3>3
      <4> QED BY <4>1, InQueuesAt
    <3> QED BY <1>2, <3>1, <3>2, <3>3
  <2> QED BY <2>2, <2>3
<1> QED BY <1>4, <1>5, <1>6

LEMMA CommitQueues ==
  ASSUME IInv, NEW t \in Traffic, Commit(t)
  PROVE  /\ t.from \in Ends /\ t.p \in Priority /\ seqNo[t.from][t.p] \in 0 .. MaxPackets - 1
         /\ \A d \in Ends : d # t.from => out'[d] = out[d]
         /\ \E pkt \in Packets :
              /\ InQueues(out'[t.from]) = InQueues(out[t.from]) \cup {pkt}
              /\ pkt.p = t.p /\ pkt.seq = seqNo[t.from][t.p]
              /\ IsReliable(pkt) <=> t.requires_ack
<1>1. PICK e \in Ends, p \in Priority : e = t.from /\ p = t.p /\ t.requires_ack \in BOOLEAN /\ t.total \in Nat
                                     /\ p # 0
  BY TrafficAssumption
<1>2. PICK m \in Nat : m = seqNo[e][p] /\ m < MaxPackets
  BY <1>1, ReceiverFacts DEF Commit
<1>3. PICK c : c = Packet(e, start[e], p, m, t.requires_ack, t.total)
  OBVIOUS
<1>4. /\ c \in Packets /\ c.p = p /\ c.seq = m /\ ~c.is_ack /\ ~c.is_init /\ c.requires_ack = t.requires_ack
  <2>1. c \in PacketsOf(start[e], p)
    BY <1>1, <1>2, <1>3, QueueFacts, DataPacket
  <2> QED BY <1>3, <2>1 DEF PacketsOf, Packet
<1>5. PICK q \in [Priority -> Seq(Packets)] : q = out[e]
  BY DEF IInv, OutputInv
<1>6. PICK r : r = [q EXCEPT ![p] = Append(@, c)]
  OBVIOUS
<1>7. out' = [out EXCEPT ![e] = r]
  BY <1>1, <1>2, <1>3, <1>5, <1>6 DEF Commit
<1>8. out'[e] = r /\ \A d \in Ends : d # e => out'[d] = out[d]
  BY <1>7, QueuesSet
<1>9. PICK pkt : pkt = AsCommitted(c)
  OBVIOUS
<1>10. /\ pkt \in Packets /\ pkt.p = p /\ pkt.seq = m
       /\ ~pkt.is_ack /\ ~pkt.is_init /\ pkt.requires_ack = t.requires_ack
  BY <1>4, <1>9, CommittedPacket
<1>11. InQueues(out'[e]) = InQueues(out[e]) \cup {pkt}
  <2>1. InQueues(r) = InQueues(q) \cup {AsCommitted(c)}
    <3>1. r[p] = Append(q[p], c) /\ \A i \in Priority : i # p => r[i] = q[i]
      BY <1>6
    <3> QED BY <1>4, <3>1, AppendedQueues
  <2> QED BY <1>5, <1>8, <1>9, <2>1
<1>12. IsReliable(pkt) <=> t.requires_ack
  BY <1>10 DEF IsReliable, IsData
<1>13. m \in 0 .. MaxPackets - 1
  BY <1>2, BoundsAssumption
<1> QED BY <1>1, <1>2, <1>8, <1>10, <1>11, <1>12, <1>13

-----------------------------------------------------------------------------
(* What a step does to the channel of an end and a priority.                 *)

LEMMA CommitChannels ==
  ASSUME IInv, FlowInv, AcceptInv, FirstInv, Unrestarted, NEW t \in Traffic, Commit(t),
         NEW o \in Ends, NEW p \in Priority
  PROVE  ChannelKeeps(o, p) \/ (o = t.from /\ p = t.p /\ ChannelSends(o, p))
<1>1. input' = input /\ lastRx' = lastRx
  BY DEF Commit, sessionVars
<1>2. Unread(Other(o), p)' = Unread(Other(o), p)
  BY <1>1 DEF Unread
<1>3. CASE o # t.from
  <2>1. out'[o] = out[o]
    BY <1>3, CommitQueues
  <2> QED BY <1>1, <1>2, <2>1 DEF ChannelKeeps, Unreceived, Waiting
<1>4. CASE o = t.from
  <2>1. PICK pkt \in Packets :
          /\ InQueues(out'[o]) = InQueues(out[o]) \cup {pkt}
          /\ pkt.p = t.p /\ pkt.seq = seqNo[o][t.p]
    BY <1>4, CommitQueues
  <2>2. PICK x \in Nat \cup {None} : x = lastRx[Other(o)][p]
    BY OtherEnd, ReceiverFacts
  <2>3. \A m : m \in Unreceived(o, p)' <=>
                 \/ m \in Unreceived(o, p)
                 \/ IsReliable(pkt) /\ pkt.p = p /\ m = pkt.seq /\ x < m
    BY <1>1, <2>1, <2>2 DEF Unreceived, Waiting
  <2>4. CASE IsReliable(pkt) /\ pkt.p = p
    <3>1. PICK m \in 0 .. MaxPackets - 1 : m = pkt.seq /\ m = seqNo[o][p] /\ p = t.p
      BY <1>4, <2>1, <2>4, CommitQueues
    <3>2. start[o] = 1
      BY DEF Unrestarted
    <3>3. x < m
      <4>1. CASE x = None
        BY <3>1, <4>1, BoundsAssumption DEF None
      <4>2. CASE x # None
        <5>1. PICK a : a = IdOf(Other(Other(o)), 1, p, x) /\ a \in Accepted(Other(o))
          BY <2>2, <4>2, OtherEnd DEF FirstInv, FirstSession, LastIsOf
        <5>2. Numbered(o, a)
          BY <5>1, OtherEnd DEF AcceptInv, Settles, Settled
        <5> QED BY <3>1, <3>2, <5>1, <5>2 DEF Numbered, IdOf
      <4> QED BY <4>1, <4>2
    <3>4. ASSUME NEW y \in Unreceived(o, p) PROVE y < m
      <4>1. PICK b \in InQueues(out[o]) : IsReliable(b) /\ b.p = p /\ b.seq = y
        BY <3>4 DEF Unreceived, Waiting
      <4>2. b \in OnTheWay(o)
        BY DEF OnTheWay, Later
      <4>3. Made(o, start[o], seqNo[o], b) /\ b.start = 1
        BY <4>2, OnTheWayMade DEF FirstInv, FirstSession
      <4> QED BY <3>1, <3>2, <4>1, <4>3 DEF Made, IsReliable
    <3>5. Unreceived(o, p)' = Unreceived(o, p) \cup {m}
      BY <2>3, <2>4, <3>1, <3>3
    <3> QED BY <1>2, <1>4, <3>1, <3>4, <3>5 DEF ChannelSends
  <2>5. CASE ~(IsReliable(pkt) /\ pkt.p = p)
    <3>1. Unreceived(o, p)' = Unreceived(o, p)
      BY <2>3, <2>5
    <3> QED BY <1>2, <3>1 DEF ChannelKeeps
  <2> QED BY <2>4, <2>5
<1> QED BY <1>3, <1>4

\* What can be read after a packet became readable or was taken.
LEMMA SameUnread ==
  ASSUME NEW e, NEW p, SameShown(input'[e].buffer[p], input[e].buffer[p])
  PROVE  Unread(e, p)' = Unread(e, p)
<1>1. \A m : m \in Unread(e, p)' <=> m \in Unread(e, p)
  BY DEF SameShown, Unread
<1> QED BY <1>1

LEMMA UnreadGained ==
  ASSUME NEW e, NEW pkt, Gains(input'[e], input[e], pkt), NEW n \in Nat, n = input[e].buffer[pkt.p].size
  PROVE  Unread(e, pkt.p)' = Unread(e, pkt.p) \cup {m \in {pkt.seq} : IsReliable(pkt)}
<1>1. PICK a, b : a = input'[e].buffer[pkt.p] /\ b = input[e].buffer[pkt.p]
  OBVIOUS
<1>2. /\ a.size = n + 1 /\ b.size = n /\ Shown(a, n + 1) = pkt
      /\ \A k \in 1 .. n : Shown(a, k) = Shown(b, k)
  BY <1>1 DEF Gains
<1>3. \A m : m \in Unread(e, pkt.p) <=> \E k \in 1 .. n : IsReliable(Shown(b, k)) /\ m = Shown(b, k).seq
  BY <1>1, <1>2 DEF Unread
<1>4. \A m : m \in Unread(e, pkt.p)' <=>
               \E k \in 1 .. n + 1 : IsReliable(Shown(a, k)) /\ m = Shown(a, k).seq
  BY <1>1, <1>2 DEF Unread
<1>5. \A k \in 1 .. n + 1 : k \in 1 .. n \/ k = n + 1
  OBVIOUS
<1>6. n + 1 \in 1 .. n + 1 /\ \A k \in 1 .. n : k \in 1 .. n + 1
  OBVIOUS
<1>7. \A m : m \in Unread(e, pkt.p)' <=> m \in Unread(e, pkt.p) \/ (IsReliable(pkt) /\ m = pkt.seq)
  BY <1>2, <1>3, <1>4, <1>5, <1>6
<1> QED BY <1>7

-----------------------------------------------------------------------------
(* The channels that end at e.                                               *)

LEMMA UnreadInOrder ==
  ASSUME IInv, Hold, AcceptInv, FirstInv, NEW e \in Ends, NEW p \in Priority
  PROVE  /\ input[e].buffer[p].size \in Nat
         /\ \A k \in 1 .. input[e].buffer[p].size :
              LET s == Shown(input[e].buffer[p], k) IN
              /\ s \in Packets /\ s.p = p /\ s.start = 1 /\ s.seq \in Nat /\ Id(s) \in Accepted(e)
              /\ \A j \in 1 .. k - 1 : Shown(input[e].buffer[p], j).seq < s.seq
<1>1. input[e] \in Inputs /\ Stable(input[e]) /\ InSequence(e)
  BY WireFacts DEF Hold, Held, AcceptInv
<1>0. PICK rb : rb = input[e].buffer[p]
  OBVIOUS
<1>2. PICK n \in Nat : rb = input[e].buffer[p] /\ n = rb.size
  BY <1>0, <1>1, ReadableShown
<1>3. ASSUME NEW k \in 1 .. n
      PROVE  LET s == Shown(rb, k) IN
             s \in Packets /\ s.p = p /\ s.start = 1 /\ s.seq \in Nat /\ Id(s) \in Accepted(e)
  <2>1. PICK s : s = Shown(rb, k)
    OBVIOUS
  <2>2. s \in Packets /\ Id(s) \in ReadableIds(input[e])
    BY <1>1, <1>2, <2>1, ReadableShown
  <2>3. Id(s) \in Accepted(e) /\ Id(s).start = 1
    BY <2>2 DEF Accepted, FirstInv, FirstSession
  <2>4. s.start = 1
    BY <2>3 DEF Id
  <2>5. s.p = p
    BY <1>1, <1>2, <2>1 DEF InSequence
  <2> QED BY <2>1, <2>2, <2>3, <2>4, <2>5 DEF Packets, PacketType
<1>4. ASSUME NEW k \in 1 .. n, NEW j \in 1 .. k - 1 PROVE Shown(rb, j).seq < Shown(rb, k).seq
  <2>1. j \in 1 .. n
    OBVIOUS
  <2>2. Earlier(Shown(rb, j), Shown(rb, k))
    BY <1>1, <1>2, <1>4 DEF InSequence
  <2>3. Shown(rb, j).start = 1 /\ Shown(rb, k).start = 1
    BY <1>3, <2>1
  <2> QED BY <2>2, <2>3 DEF Earlier
<1> QED BY <1>2, <1>3, <1>4

LEMMA UnreadTaken ==
  ASSUME IInv, Hold, AcceptInv, FirstInv, NEW e \in Ends, NEW p \in Priority, Takes1(input'[e], input[e], p)
  PROVE  \/ Unread(e, p)' = Unread(e, p)
         \/ \E m \in Unread(e, p) :
              (\A x \in Unread(e, p) : m <= x) /\ Unread(e, p)' = Unread(e, p) \ {m}
<1>1. PICK a, b : a = input'[e].buffer[p] /\ b = input[e].buffer[p]
  OBVIOUS
<1>2. PICK n \in Nat : /\ n = b.size /\ n > 0 /\ a.size = n - 1
                       /\ \A k \in 1 .. n - 1 : Shown(a, k) = Shown(b, k + 1)
  BY <1>1, UnreadInOrder DEF Takes1
<1>3. \A k \in 1 .. n : /\ Shown(b, k).seq \in Nat
                        /\ \A j \in 1 .. k - 1 : Shown(b, j).seq < Shown(b, k).seq
  BY <1>1, <1>2, UnreadInOrder
<1>4. \A m : m \in Unread(e, p) <=> \E k \in 1 .. n : IsReliable(Shown(b, k)) /\ m = Shown(b, k).seq
  BY <1>1, <1>2 DEF Unread
<1>5. \A m : m \in Unread(e, p)' <=>
               \E k \in 1 .. n - 1 : IsReliable(Shown(b, k + 1)) /\ m = Shown(b, k + 1).seq
  BY <1>1, <1>2 DEF Unread
<1>6. \A k \in 1 .. n : k = 1 \/ (k - 1 \in 1 .. n - 1 /\ (k - 1) + 1 = k)
  OBVIOUS
<1>7. \A k \in 1 .. n - 1 : k + 1 \in 1 .. n /\ 1 \in 1 .. (k + 1) - 1
  OBVIOUS
<1>8. \A m : m \in Unread(e, p) <=>
               m \in Unread(e, p)' \/ (IsReliable(Shown(b, 1)) /\ m = Shown(b, 1).seq)
  <2>1. 1 \in 1 .. n
    BY <1>2
  <2> QED BY <1>4, <1>5, <1>6, <1>7, <2>1
<1>9. Shown(b, 1).seq \in Nat /\ \A m \in Unread(e, p)' : m \in Nat /\ Shown(b, 1).seq < m
  <2>1. 1 \in 1 .. n
    BY <1>2
  <2> QED BY <1>3, <1>5, <1>7, <2>1
<1>10. CASE ~IsReliable(Shown(b, 1))
  <2>1. Unread(e, p)' = Unread(e, p)
    BY <1>8, <1>10
  <2> QED BY <2>1
<1>11. CASE IsReliable(Shown(b, 1))
  <2>1. PICK m \in Nat : m = Shown(b, 1).seq
    BY <1>9
  <2>2. m \in Unread(e, p) /\ \A x \in Unread(e, p) : m <= x
    BY <1>8, <1>9, <1>11, <2>1
  <2>3. Unread(e, p)' = Unread(e, p) \ {m}
    BY <1>8, <1>9, <1>11, <2>1
  <2> QED BY <2>2, <2>3
<1> QED BY <1>10, <1>11

LEMMA HearsEmpty ==
  ASSUME IInv, FlowInv, AcceptInv, FirstInv, Hold, NEW e \in Ends, Hears(e), NEW p \in Priority
  PROVE  Unread(e, p)' = Unread(e, p) /\ lastRx'[e][p] = lastRx[e][p]
<1>1. Accepted(e) = {} /\ lastRx[e][p] = None
  BY NothingBefore
<1>2. lastRx'[e][p] = None
  BY DEF Hears
<1>3. Unread(e, p) = {}
  BY <1>1, UnreadInOrder DEF Unread
<1>4. Unread(e, p)' = {}
  <2>1. input'[e].buffer[p].size = 0
    BY DEF Hears, Empty
  <2> QED BY <2>1 DEF Unread
<1> QED BY <1>1, <1>2, <1>3, <1>4

\* A reliable packet that is accepted is the first of those not received before.
LEMMA AcceptedFirst ==
  ASSUME IInv, FlowInv, FirstInv, NEW e \in Ends, NEW f, NEW pkt, Accepts(e, f, pkt), IsReliable(pkt)
  PROVE  /\ pkt.p \in Priority /\ pkt.seq \in Nat
         /\ lastRx[e][pkt.p] < pkt.seq /\ lastRx'[e] = [lastRx[e] EXCEPT ![pkt.p] = pkt.seq]
         /\ pkt.seq \in Unreceived(Other(e), pkt.p)
         /\ \A m \in Unreceived(Other(e), pkt.p) : m \in Nat /\ pkt.seq <= m
<1>1. PICK o \in Ends : o = Other(e) /\ Other(o) = e
  BY OtherEnd
<1>2. PICK g : g = AsCommitted(pkt) /\ g = AsCommitted(f.pkt) /\ g \in OnTheWay(o)
  BY <1>1, AcceptsFirst
<1>3. /\ f.pkt \in Packets /\ f.pkt.start = 1 /\ pkt \in Packets /\ Arrives(e, f)
      /\ pkt.requires_ack /\ ~AlreadyReceived(e, pkt)
      /\ lastRx'[e] = [lastRx[e] EXCEPT ![pkt.p] = pkt.seq]
  BY AcceptsFirst DEF Accepts, IsReliable
<1>4. pkt.p \in Priority /\ pkt.seq \in Nat
  BY <1>3 DEF Packets, PacketType
<1>5. g.p = pkt.p /\ g.seq = pkt.seq /\ IsReliable(g)
  BY <1>2, <1>3, CommittedPacket DEF IsReliable, IsData
<1>6. f.pkt.p = pkt.p /\ f.pkt.seq = pkt.seq /\ IsData(f.pkt)
  BY <1>2, <1>3, <1>5, CommittedPacket DEF IsReliable, IsData
<1>7. lastRx[e][pkt.p] \in Nat \cup {None}
  BY <1>4, ReceiverFacts
<1>8. lastRx[e][pkt.p] < pkt.seq
  BY <1>3, <1>4, <1>7 DEF AlreadyReceived, None
<1>9. g \in InQueues(out[o])
  <2>1. g \in InQueues(out[o]) \/ Received(e, pkt.p, pkt.seq)
    BY <1>1, <1>2, <1>5 DEF FirstInv, FirstSession
  <2> QED BY <1>3, <2>1 DEF Received, AlreadyReceived
<1>10. pkt.seq \in Unreceived(o, pkt.p)
  BY <1>1, <1>5, <1>8, <1>9 DEF Unreceived, Waiting
<1>11. ASSUME NEW m \in Unreceived(o, pkt.p) PROVE m \in Nat /\ pkt.seq <= m
  <2>1. PICK b \in InQueues(out[o]) : IsReliable(b) /\ b.p = pkt.p /\ b.seq = m
    BY <1>11 DEF Unreceived, Waiting
  <2>2. b \in OnTheWay(o) /\ b \in OnTheWay(o)'
    BY <1>1, <1>3 DEF Arrives, OnTheWay, Later
  <2>3. b \in Packets /\ b.start = 1 /\ Follows(f, b)
    BY <1>1, <1>3, <2>2, Arrived DEF FirstInv, FirstSession
  <2> QED BY <1>3, <1>6, <2>1, <2>3 DEF Follows, IsReliable, Packets, PacketType
<1> QED BY <1>1, <1>3, <1>4, <1>8, <1>10, <1>11

-----------------------------------------------------------------------------
(* A step changes one channel, and as the abstract channel does.             *)

LEMMA UnreceivedSame ==
  ASSUME IInv, FlowInv, Hold, FirstInv, [Next]_vars, Unrestarted, Unrestarted', \A t \in Traffic : ~Commit(t),
         NEW o \in Ends, NEW p \in Priority, lastRx'[Other(o)][p] = lastRx[Other(o)][p]
  PROVE  Unreceived(o, p)' = Unreceived(o, p)
<1>1. PICK x \in Int : x = lastRx[Other(o)][p]
  BY OtherEnd, ReceiverFacts DEF None
<1>2. x <= x
  OBVIOUS
<1>3. Unreceived(o, p)' = {m \in Unreceived(o, p) : x < m}
  BY <1>1, <1>2, UnreceivedNow
<1>4. \A m \in Unreceived(o, p) : x < m
  BY <1>1 DEF Unreceived
<1> QED BY <1>3, <1>4

LEMMA AcceptsChannel ==
  ASSUME IInv, FlowInv, Hold, AcceptInv, FirstInv, [Next]_vars, Unrestarted, Unrestarted',
         \A t \in Traffic : ~Commit(t), NEW e \in Ends, NEW f, NEW pkt, Accepts(e, f, pkt), NEW p \in Priority
  PROVE  ChannelKeeps(Other(e), p) \/ (p = pkt.p /\ ChannelPasses(Other(e), p))
<1>1. PICK o \in Ends : o = Other(e) /\ Other(o) = e
  BY OtherEnd
<1>2. pkt \in Packets /\ pkt.p \in Priority /\ Gains(input'[e], input[e], pkt) /\ IsData(pkt)
  BY DEF Accepts, Packets, PacketType
<1>3. lastRx[e] \in [Priority -> Nat \cup {None}]
  BY ReceiverFacts
<1>4. CASE p # pkt.p
  <2>1. lastRx'[e][p] = lastRx[e][p]
    BY <1>3, <1>4 DEF Accepts
  <2>2. Unread(e, p)' = Unread(e, p)
    BY <1>2, <1>4, SameUnread DEF Gains
  <2> QED BY <1>1, <2>1, <2>2, UnreceivedSame DEF ChannelKeeps
<1>5. PICK n \in Nat : n = input[e].buffer[pkt.p].size
  BY <1>2, UnreadInOrder
<1>6. Unread(e, pkt.p)' = Unread(e, pkt.p) \cup {m \in {pkt.seq} : IsReliable(pkt)}
  BY <1>2, <1>5, UnreadGained
<1>7. CASE p = pkt.p /\ ~IsReliable(pkt)
  <2>1. lastRx'[e][p] = lastRx[e][p]
    BY <1>2, <1>7 DEF Accepts, IsReliable
  <2>2. Unread(e, p)' = Unread(e, p)
    BY <1>6, <1>7
  <2> QED BY <1>1, <2>1, <2>2, UnreceivedSame DEF ChannelKeeps
<1>8. CASE p = pkt.p /\ IsReliable(pkt)
  <2>1. PICK m \in Nat : m = pkt.seq
    BY <1>8, AcceptedFirst
  <2>2. /\ lastRx[e][p] < m /\ lastRx'[e][p] = m /\ m \in Unreceived(o, p)
        /\ \A x \in Unreceived(o, p) : x \in Nat /\ m <= x
    <3>1. /\ lastRx[e][pkt.p] < pkt.seq /\ lastRx'[e] = [lastRx[e] EXCEPT ![pkt.p] = pkt.seq]
          /\ pkt.seq \in Unreceived(Other(e), pkt.p)
          /\ \A x \in Unreceived(Other(e), pkt.p) : x \in Nat /\ pkt.seq <= x
      BY <1>8, AcceptedFirst
    <3>2. lastRx'[e][p] = m
      BY <1>2, <1>3, <1>8, <2>1, <3>1
    <3> QED BY <1>1, <1>8, <2>1, <3>1, <3>2
  <2>3. lastRx[e][p] \in Int
    BY <1>3 DEF None
  <2>4. Unreceived(o, p)' = {x \in Unreceived(o, p) : m < x}
    BY <1>1, <2>2, <2>3, UnreceivedNow
  <2>5. Unreceived(o, p)' = Unreceived(o, p) \ {m}
    <3>1. \A x \in Unreceived(o, p) : m < x <=> x # m
      BY <2>1, <2>2
    <3>2. {x \in Unreceived(o, p) : m < x} = Unreceived(o, p) \ {m}
      BY <3>1
    <3> QED BY <2>4, <3>2
  <2>6. Unread(e, p)' = Unread(e, p) \cup {m}
    BY <1>6, <1>8, <2>1
  <2>7. ASSUME NEW x \in Unread(e, p) PROVE x < m
    <3>1. PICK k \in 1 .. n : x = Shown(input[e].buffer[p], k).seq
      BY <1>5, <1>8, <2>7 DEF Unread
    <3>2. PICK s : s = Shown(input[e].buffer[p], k)
      OBVIOUS
    <3>3. s.p = p /\ s.start = 1 /\ Id(s) \in Accepted(e)
      BY <1>5, <1>8, <3>2, UnreadInOrder
    <3>4. Settled(e, Id(s)) /\ Moves(Other(e)) /\ IInv'
      BY <3>3, OtherEnd, NextMoves, NextInv DEF AcceptInv, Settles
    <3>5. Id(s).p = s.p /\ Id(s).start = s.start /\ Id(s).seq = s.seq
      BY DEF Id
    <3>6. Earlier(Id(s), pkt)
      BY <1>8, <3>3, <3>4, <3>5, SettledBefore
    <3> QED BY <2>1, <3>1, <3>2, <3>3, <3>5, <3>6, AcceptsFirst DEF Earlier
  <2> QED BY <1>1, <1>8, <2>2, <2>5, <2>6, <2>7 DEF ChannelPasses
<1> QED BY <1>4, <1>7, <1>8

LEMMA ReceivingChannels ==
  ASSUME IInv, FlowInv, Hold, AcceptInv, FirstInv, KeepsUp, [Next]_vars, Unrestarted, Unrestarted',
         \A t \in Traffic : ~Commit(t), NEW e \in Ends
  PROVE  \E p \in Priority : /\ ChannelMoves(Other(e), p)
                             /\ \A q \in Priority : q # p => ChannelKeeps(Other(e), q)
<1>1. PICK o \in Ends : o = Other(e) /\ Other(o) = e
  BY OtherEnd
<1>2. \A p \in Priority : lastRx'[e][p] = lastRx[e][p] => Unreceived(o, p)' = Unreceived(o, p)
  BY <1>1, UnreceivedSame
<1>3. 0 \in Priority
  BY DEF Priority
<1>4. ASSUME \A p \in Priority : ChannelKeeps(o, p)
      PROVE  \E p \in Priority : ChannelMoves(o, p) /\ \A q \in Priority : q # p => ChannelKeeps(o, q)
  BY <1>3, <1>4 DEF ChannelMoves
<1>5. CASE Keeps(e)
  <2>1. \A p \in Priority : Unread(e, p)' = Unread(e, p) /\ lastRx'[e][p] = lastRx[e][p]
    BY <1>5, SameUnread DEF Keeps, SameView
  <2> QED BY <1>1, <1>2, <1>4, <2>1 DEF ChannelKeeps
<1>6. CASE Hears(e)
  <2>1. \A p \in Priority : Unread(e, p)' = Unread(e, p) /\ lastRx'[e][p] = lastRx[e][p]
    BY <1>6, HearsEmpty
  <2> QED BY <1>1, <1>2, <1>4, <2>1 DEF ChannelKeeps
<1>7. CASE TakesOldest(e)
  <2>1. PICK p \in Priority : Takes1(input'[e], input[e], p)
    BY <1>7 DEF TakesOldest
  <2>2. \A q \in Priority : Unreceived(o, q)' = Unreceived(o, q)
    BY <1>2, <1>7 DEF TakesOldest
  <2>3. \A q \in Priority : q # p => Unread(e, q)' = Unread(e, q)
    BY <2>1, SameUnread DEF Takes1
  <2>4. \A q \in Priority : q # p => ChannelKeeps(o, q)
    BY <1>1, <2>2, <2>3 DEF ChannelKeeps
  <2>5. ChannelKeeps(o, p) \/ ChannelGives(o, p)
    BY <1>1, <2>1, <2>2, UnreadTaken DEF ChannelKeeps, ChannelGives
  <2> QED BY <1>1, <2>4, <2>5 DEF ChannelMoves
<1>8. ASSUME NEW f, NEW pkt, Accepts(e, f, pkt)
      PROVE  \E p \in Priority : ChannelMoves(o, p) /\ \A q \in Priority : q # p => ChannelKeeps(o, q)
  <2>1. PICK p \in Priority : p = pkt.p
    BY <1>8 DEF Accepts, Packets, PacketType
  <2>2. \A q \in Priority : ChannelKeeps(o, q) \/ (q = p /\ ChannelPasses(o, q))
    BY <1>1, <1>8, <2>1, AcceptsChannel
  <2> QED BY <2>2 DEF ChannelMoves
<1>9. ~Starts(e)
  BY DEF Starts, Unrestarted
<1> QED BY <1>1, <1>5, <1>6, <1>7, <1>8, <1>9, Receives DEF AcceptInv

LEMMA OneReceives ==
  ASSUME IInv, FlowInv, [Next]_vars
  PROVE  \E e \in Ends : \A d \in Ends : d # e => input'[d] = input[d] /\ lastRx'[d] = lastRx[d]
<1>1. \E c : c \in Ends
  BY EndsAssumption, FS_EmptySet
<1>2. ASSUME UNCHANGED <<input, lastRx>>
      PROVE  \E e \in Ends : \A d \in Ends : d # e => input'[d] = input[d] /\ lastRx'[d] = lastRx[d]
  BY <1>1, <1>2
<1>3. ASSUME NEW e \in Ends, Run(e) \/ Lose(e) \/ Corrupt(e) \/ Restart(e)
      PROVE  UNCHANGED <<input, lastRx>> \/ \A d \in Ends : d # e => input'[d] = input[d] /\ lastRx'[d] = lastRx[d]
  <2>1. CASE ReadHeader(e) \/ ReadBody(e) \/ Deliver(e) \/ Restart(e)
    BY <2>1, OthersReceive
  <2>2. CASE StartPacket(e) \/ SendUnit(e) \/ Lose(e) \/ Corrupt(e)
    BY <2>2 DEF StartPacket, SendUnit, Lose, Corrupt, sessionVars
  <2>3. CASE Preempt(e) \/ FinishPacket(e)
    BY <2>3, SentMoves DEF sessionVars
  <2> QED BY <1>3, <2>1, <2>2, <2>3 DEF Run
<1>4. ASSUME NEW t \in Traffic, Commit(t) PROVE UNCHANGED <<input, lastRx>>
  BY <1>4 DEF Commit, sessionVars
<1>5. ASSUME UNCHANGED vars PROVE UNCHANGED <<input, lastRx>>
  BY <1>5 DEF vars, sessionVars
<1> QED BY <1>2, <1>3, <1>4, <1>5 DEF Next

LEMMA OneChannelMoves ==
  ASSUME IInv, FlowInv, Hold, AcceptInv, FirstInv, KeepsUp, [Next]_vars, Unrestarted, Unrestarted'
  PROVE  OneMoves
<1>1. ASSUME NEW t \in Traffic, Commit(t) PROVE OneMoves
  <2>1. PICK o \in Ends, p \in Priority : o = t.from /\ p = t.p
    BY <1>1, CommitQueues
  <2>2. ChannelMoves(o, p)
    BY <1>1, CommitChannels DEF ChannelMoves
  <2>3. \A d \in Ends, q \in Priority : d # o \/ q # p => ChannelKeeps(d, q)
    BY <1>1, <2>1, CommitChannels
  <2> QED BY <2>2, <2>3 DEF OneMoves
<1>2. ASSUME \A t \in Traffic : ~Commit(t) PROVE OneMoves
  <2>1. PICK e \in Ends : \A d \in Ends : d # e => input'[d] = input[d] /\ lastRx'[d] = lastRx[d]
    BY OneReceives
  <2>2. PICK o \in Ends : o = Other(e) /\ Other(o) = e /\ \A d \in Ends : d # o => Other(d) # e /\ Other(d) \in Ends
    BY OtherEnd
  <2>3. PICK p \in Priority : ChannelMoves(o, p) /\ \A q \in Priority : q # p => ChannelKeeps(o, q)
    BY <1>2, <2>2, ReceivingChannels
  <2>4. ASSUME NEW d \in Ends, d # o, NEW q \in Priority PROVE ChannelKeeps(d, q)
    <3>1. input'[Other(d)] = input[Other(d)] /\ lastRx'[Other(d)] = lastRx[Other(d)]
      BY <2>1, <2>2, <2>4
    <3>2. Unreceived(d, q)' = Unreceived(d, q)
      BY <1>2, <3>1, UnreceivedSame
    <3>3. Unread(Other(d), q)' = Unread(Other(d), q)
      BY <3>1 DEF Unread
    <3> QED BY <3>2, <3>3 DEF ChannelKeeps
  <2> QED BY <2>3, <2>4 DEF OneMoves
<1> QED BY <1>1, <1>2

-----------------------------------------------------------------------------
(* The abstract channels.                                                    *)

LEMMA ChannelsInView == IInv /\ FlowInv /\ Hold /\ AcceptInv /\ FirstInv => ChannelView
<1> SUFFICES ASSUME IInv, FlowInv, Hold, AcceptInv, FirstInv, NEW o \in Ends, NEW p \in Priority
             PROVE  /\ Rises(Outstanding[<<o, p>>], Unreceived(o, p))
                    /\ Rises(Buffered[<<o, p>>], Unread(Other(o), p))
  BY DEF ChannelView
<1>1. PICK e \in Ends : e = Other(o) /\ o = Other(e)
  BY OtherEnd
<1>2. \A a \in Accepted(e) : a.start = 1
  BY DEF FirstInv, FirstSession
<1>3. Rises(Buffered[<<Other(e), p>>], Unread(e, p))
  BY <1>2, BufferedRises
<1> QED BY <1>1, <1>3, OutstandingRises

LEMMA ChannelStep ==
  ASSUME ChannelView, ChannelView', OneMoves
  PROVE  [Reliable!Next]_<<Outstanding, Buffered>>
<1>1. PICK P, A, Q, B : P = Outstanding /\ A = Buffered /\ Q = Outstanding' /\ B = Buffered'
  OBVIOUS
<1>2. /\ P = [c \in Channel |-> P[c]] /\ A = [c \in Channel |-> A[c]]
      /\ Q = [c \in Channel |-> Q[c]] /\ B = [c \in Channel |-> B[c]]
  BY <1>1 DEF Outstanding, Buffered
<1>3. PICK o \in Ends, p \in Priority :
        ChannelMoves(o, p) /\ \A d \in Ends, q \in Priority : d # o \/ q # p => ChannelKeeps(d, q)
  BY DEF OneMoves
<1>4. \A d \in Ends, q \in Priority :
        /\ Rises(P[<<d, q>>], Unreceived(d, q)) /\ Rises(Q[<<d, q>>], Unreceived(d, q)')
        /\ Rises(A[<<d, q>>], Unread(Other(d), q)) /\ Rises(B[<<d, q>>], Unread(Other(d), q)')
  BY <1>1 DEF ChannelView
<1>5. \A d \in Ends, q \in Priority : ChannelKeeps(d, q) => Q[<<d, q>>] = P[<<d, q>>] /\ B[<<d, q>>] = A[<<d, q>>]
  BY <1>4, RisesOnce DEF ChannelKeeps
<1>6. PICK c \in Channel : c = <<o, p>>
  BY DEF Channel
<1>7. \A x \in Channel : x # c => Q[x] = P[x] /\ B[x] = A[x]
  <2> SUFFICES ASSUME NEW d \in Ends, NEW q \in Priority, <<d, q>> # c
               PROVE  Q[<<d, q>>] = P[<<d, q>>] /\ B[<<d, q>>] = A[<<d, q>>]
    BY DEF Channel
  <2>1. d # o \/ q # p
    BY <1>6
  <2> QED BY <1>3, <1>5, <2>1
<1>8. Q = [P EXCEPT ![c] = Q[c]] /\ B = [A EXCEPT ![c] = B[c]]
  BY <1>2, <1>7
<1>9. PICK U, V : U = Unreceived(o, p) /\ V = Unread(Other(o), p)
  OBVIOUS
<1>10. Rises(P[c], U) /\ Rises(A[c], V)
  BY <1>4, <1>6, <1>9
<1>11. \A m \in U \cup V : m \in Nat
  BY <1>10 DEF Rises
<1>12. CASE ChannelKeeps(o, p)
  <2>1. Q = P /\ B = A
    BY <1>2, <1>5, <1>6, <1>7, <1>12
  <2> QED BY <1>1, <2>1
<1>13. CASE ChannelSends(o, p)
  <2>1. PICK m \in 0 .. MaxPackets - 1 :
          /\ \A x \in U : x < m
          /\ Rises(Q[c], U \cup {m}) /\ Rises(B[c], V)
    BY <1>4, <1>6, <1>9, <1>13 DEF ChannelSends
  <2>2. Q[c] = Append(P[c], m) /\ B[c] = A[c]
    <3>1. m \in Nat
      BY BoundsAssumption
    <3>2. Rises(Append(P[c], m), U \cup {m})
      BY <1>10, <2>1, <3>1, RisesAppended
    <3> QED BY <1>10, <2>1, <3>2, RisesOnce
  <2>3. Q = [P EXCEPT ![c] = Append(@, m)] /\ B = A
    BY <1>2, <1>7, <1>8, <2>2
  <2>4. Reliable!Send(c)
    BY <1>1, <2>3 DEF Reliable!Send
  <2> QED BY <2>4 DEF Reliable!Next
<1>14. CASE ChannelPasses(o, p)
  <2>1. PICK m \in U : /\ \A x \in U : m <= x
                       /\ \A x \in V : x < m
                       /\ Rises(Q[c], U \ {m}) /\ Rises(B[c], V \cup {m})
    BY <1>4, <1>6, <1>9, <1>14 DEF ChannelPasses
  <2>2. P[c] # << >> /\ Head(P[c]) = m /\ Rises(Tail(P[c]), U \ {m})
    BY <1>10, <2>1, RisesTaken
  <2>3. Rises(Append(A[c], m), V \cup {m})
    BY <1>10, <1>11, <2>1, RisesAppended
  <2>4. Q[c] = Tail(P[c]) /\ B[c] = Append(A[c], Head(P[c]))
    BY <2>1, <2>2, <2>3, RisesOnce
  <2>5. Q = [P EXCEPT ![c] = Tail(@)] /\ B = [A EXCEPT ![c] = Append(@, Head(P[c]))]
    BY <1>8, <2>4
  <2>6. Reliable!Arrive(c)
    BY <1>1, <2>2, <2>5 DEF Reliable!Arrive
  <2> QED BY <2>6 DEF Reliable!Next
<1>15. CASE ChannelGives(o, p)
  <2>1. PICK m \in V : /\ \A x \in V : m <= x
                       /\ Rises(Q[c], U) /\ Rises(B[c], V \ {m})
    BY <1>4, <1>6, <1>9, <1>15 DEF ChannelGives
  <2>2. A[c] # << >> /\ Rises(Tail(A[c]), V \ {m})
    BY <1>10, <2>1, RisesTaken
  <2>3. B[c] = Tail(A[c]) /\ Q[c] = P[c]
    BY <1>10, <2>1, <2>2, RisesOnce
  <2>4. B = [A EXCEPT ![c] = Tail(@)] /\ Q = P
    BY <1>2, <1>7, <1>8, <2>3
  <2>5. Reliable!Take(c)
    BY <1>1, <2>2, <2>4 DEF Reliable!Take
  <2> QED BY <2>5 DEF Reliable!Next
<1> QED BY <1>3, <1>12, <1>13, <1>14, <1>15 DEF ChannelMoves

LEMMA InitChannels == Init => Reliable!Init
<1> SUFFICES ASSUME Init PROVE Reliable!Init
  OBVIOUS
<1>1. ChannelView
  BY InitInv, InitFlow, InitHeld, InitAccept, InitFirst, ChannelsInView
<1>2. \A s : Rises(s, {}) => s = << >>
  BY EmptySeq, LenProperties DEF Rises
<1>3. ASSUME NEW o \in Ends, NEW p \in Priority
      PROVE  Outstanding[<<o, p>>] = << >> /\ Buffered[<<o, p>>] = << >>
  <2>1. Unreceived(o, p) = {}
    BY InitQueued DEF Unreceived, Waiting, IsReliable, IsData
  <2>2. input[Other(o)].buffer[p].size = 0
    <3>1. input[Other(o)] = NewInput
      BY OtherEnd DEF Init
    <3> QED BY <3>1, EmptyStreams DEF Empty
  <2>3. Unread(Other(o), p) = {}
    BY <2>2 DEF Unread
  <2> QED BY <1>1, <1>2, <2>1, <2>3 DEF ChannelView
<1>4. \A c \in Channel : Outstanding[c] = << >> /\ Buffered[c] = << >>
  BY <1>3 DEF Channel
<1>5. Outstanding = [c \in Channel |-> << >>] /\ Buffered = [c \in Channel |-> << >>]
  BY <1>4 DEF Outstanding, Buffered
<1> QED BY <1>5 DEF Reliable!Init

\* Guaranteed delivery, exactly once and in order: while no end is started again
\* and the programs keep up with their full input buffers, the streams implement
\* the channels of ReliableChannel. Reliable packets become readable at the other
\* end in the order of their commits, none twice and none passed over, whatever is
\* lost, damaged, retransmitted, preempted or acknowledged twice
\* (ShouldCommitInputPacket, ShouldConsumeOutputPacket).
THEOREM GuaranteedDeliveryKept == Spec /\ [](KeepsUp /\ Unrestarted) => GuaranteedDelivery
<1>1. IInv /\ FlowInv /\ Hold /\ AcceptInv /\ FirstInv /\ ChannelView /\ ChannelView' /\ KeepsUp
        /\ Unrestarted /\ Unrestarted' /\ [Next]_vars
      => [Reliable!Next]_<<Outstanding, Buffered>>
  BY OneChannelMoves, ChannelStep
<1> QED BY <1>1, InitInv, NextInv, InitFlow, NextFlow, InitHeld, NextHeld, InitAccept, NextAccept, InitFirst, NextFirst,
     ChannelsInView, InitChannels, PTL DEF Spec, GuaranteedDelivery, Reliable!Spec
=============================================================================
