------------------------- MODULE PacketBytesProofs -------------------------
(***************************************************************************)
(* Theorems about PacketCodec and PacketBytes.                             *)
(***************************************************************************)
EXTENDS PacketBytes, FiniteSetTheorems, SequenceTheorems, TLAPS

\* A sequence number below 170^3 survives packing, as the header's three bytes.
THEOREM PackedRoundTrip ==
  ASSUME NEW n \in Nat, n < kP2PLowestToken * kP2PLowestToken * kP2PLowestToken
  PROVE  Unpacked(Packed(n)) = n
  <1> DEFINE q == n \div 170
             r == q \div 170
  <1>1. q \in Nat /\ n % 170 \in 0 .. 169 /\ n = 170 * q + (n % 170)
    OBVIOUS
  <1>2. r \in Nat /\ q % 170 \in 0 .. 169 /\ q = 170 * r + (q % 170)
    BY <1>1
  <1>3. r < 170 /\ n \div 28900 = r
    BY <1>1, <1>2 DEF kP2PLowestToken
  <1>4. Packed(n) = <<n % 170, q % 170, (n \div 28900) % 170>>
    BY DEF Packed, kP2PLowestToken
  <1> HIDE DEF q, r
  <1>5. r % 170 = r
    BY <1>2, <1>3
  <1>6. Packed(n) = <<n % 170, q % 170, r>>
    BY <1>3, <1>4, <1>5
  <1>7. Unpacked(Packed(n)) = (n % 170) + (q % 170) * 170 + r * 28900
    BY <1>1, <1>2, <1>6 DEF Unpacked, kP2PLowestToken
  <1> QED BY <1>1, <1>2, <1>7

\* "Non-content bytes cannot match either token" (p2p_packet_protocol.h): no byte of
\* a header but the first, whatever the number of the packet.
THEOREM HeaderHasNoToken ==
  ASSUME NEW p \in AllPriorities, NEW continuation \in BOOLEAN, NEW n \in Nat,
         NEW length \in 0 .. kP2PLowestToken - 1, NEW i \in 2 .. kHeaderBytes
  PROVE  Header(p, continuation, n, length)[i] \notin Tokens
  <1> DEFINE flags == p + (IF continuation THEN 4 ELSE 0)
  <1>1. Header(p, continuation, n, length) =
          <<170, flags, n % 170, (n \div 170) % 170, (n \div 28900) % 170, length>>
    BY DEF Header, Packed, kP2PLowestToken, kP2PStartToken
  <1>2. flags \in 0 .. 7
    BY DEF AllPriorities
  <1>3. n % 170 \in 0 .. 169 /\ (n \div 170) % 170 \in 0 .. 169 /\ (n \div 28900) % 170 \in 0 .. 169
    OBVIOUS
  <1>4. i \in {2, 3, 4, 5, 6} /\ length \in 0 .. 169
    BY DEF kHeaderBytes, kP2PLowestToken
  <1> HIDE DEF flags
  <1>5. Header(p, continuation, n, length)[i] \in 0 .. 169
    BY <1>1, <1>2, <1>3, <1>4
  <1> QED BY <1>5 DEF Tokens, kP2PStartToken, kP2PSpecialToken

-----------------------------------------------------------------------------
(* Escaping.                                                                *)

\* Every byte that is a token adds one to the escapes.
LEMMA EscapesStep ==
  ASSUME NEW c \in Seq(Byte)
  PROVE  /\ \A n \in Nat : Escapes(c, n) \in Nat
         /\ \A n \in Nat : c[n + 1] \in Tokens => Escapes(c, n + 1) = Escapes(c, n) + 1
         /\ \A m, n \in Nat : m <= n => Escapes(c, m) <= Escapes(c, n)
  <1> DEFINE E(n) == {j \in 1 .. n : c[j] \in Tokens}
  <1>1. ASSUME NEW n \in Nat
        PROVE  IsFiniteSet(E(n)) /\ Cardinality(E(n)) \in Nat
    <2>1. IsFiniteSet(1 .. n)
      BY FS_Interval
    <2> QED BY <2>1, FS_Subset, FS_CardinalityType
  <1>2. ASSUME NEW n \in Nat, c[n + 1] \in Tokens
        PROVE  Cardinality(E(n + 1)) = Cardinality(E(n)) + 1
    <2>1. E(n + 1) = E(n) \cup {n + 1} /\ n + 1 \notin E(n)
      BY <1>2
    <2> QED BY <1>1, <2>1, FS_AddElement
  <1>3. ASSUME NEW m \in Nat, NEW n \in Nat, m <= n
        PROVE  Cardinality(E(m)) <= Cardinality(E(n))
    <2>1. E(m) \subseteq E(n)
      BY <1>3
    <2> QED BY <1>1, <2>1, FS_Subset
  <1> QED BY <1>1, <1>2, <1>3 DEF Escapes

\* "A special token is appended to content bytes matching the start and special
\* tokens" (p2p_packet_protocol.h): in encoded content a start token is always
\* followed by a special token, so it is never taken for the start of a packet.
THEOREM StartTokensAreEscaped ==
  ASSUME NEW c \in Seq(Byte), NEW k \in DOMAIN Encoded(c), Encoded(c)[k] = kP2PStartToken
  PROVE  k + 1 \in DOMAIN Encoded(c) /\ Encoded(c)[k + 1] = kP2PSpecialToken
  <1> DEFINE at(i) == i + Escapes(c, i - 1)
             n == Len(c)
             e == Encoded(c)
  <1>1. n \in Nat /\ DOMAIN c = 1 .. n
    OBVIOUS
  <1>2. DOMAIN e = 1 .. n + Escapes(c, n)
    BY DEF Encoded
  <1>3. \A l \in DOMAIN e :
          e[l] = IF \E i \in DOMAIN c : at(i) = l
                 THEN c[CHOOSE i \in DOMAIN c : at(i) = l] ELSE kP2PSpecialToken
    BY <1>2 DEF Encoded
  <1>4. PICK i \in DOMAIN c : at(i) = k /\ c[i] = kP2PStartToken
    <2> DEFINE chosen == CHOOSE i \in DOMAIN c : at(i) = k
    <2>1. \E i \in DOMAIN c : at(i) = k
      <3>1. e[k] = kP2PStartToken /\ k \in DOMAIN e
        OBVIOUS
      <3>2. kP2PStartToken # kP2PSpecialToken
        BY DEF kP2PStartToken, kP2PSpecialToken
      <3> HIDE DEF at, e
      <3> QED BY <1>3, <3>1, <3>2, Zenon
    <2>2. e[k] = c[chosen]
      BY <1>3, <2>1
    <2>3. chosen \in DOMAIN c /\ at(chosen) = k
      BY <2>1
    <2> HIDE DEF chosen, at
    <2> QED BY <2>2, <2>3
  <1>5. i \in Nat /\ i >= 1 /\ i <= n /\ i - 1 \in Nat
    BY <1>1
  <1>6. Escapes(c, i) = Escapes(c, i - 1) + 1 /\ Escapes(c, i - 1) \in Nat
    <2>1. (i - 1) + 1 = i
      BY <1>5
    <2>2. c[(i - 1) + 1] \in Tokens
      BY <1>4, <2>1 DEF Tokens
    <2>3. Escapes(c, (i - 1) + 1) = Escapes(c, i - 1) + 1 /\ Escapes(c, i - 1) \in Nat
      BY <1>5, <2>2, EscapesStep
    <2> QED BY <2>1, <2>3
  <1>7. Escapes(c, i) <= Escapes(c, n) /\ Escapes(c, n) \in Nat
    BY <1>1, <1>5, EscapesStep
  <1>8. k + 1 \in DOMAIN e
    BY <1>1, <1>2, <1>4, <1>5, <1>6, <1>7
  <1>9. \A j \in DOMAIN c : at(j) # k + 1
    <2> SUFFICES ASSUME NEW j \in DOMAIN c, at(j) = k + 1 PROVE FALSE
      OBVIOUS
    <2>1. j \in Nat /\ j - 1 \in Nat
      BY <1>1
    <2>4. Escapes(c, j - 1) \in Nat
      BY <2>1, EscapesStep
    <2>2. CASE j <= i
      <3>1. Escapes(c, j - 1) <= Escapes(c, i - 1)
        BY <1>5, <2>1, <2>2, EscapesStep
      <3> QED BY <1>4, <1>5, <1>6, <2>1, <2>2, <2>4, <3>1
    <2>3. CASE j > i
      <3>1. Escapes(c, i) <= Escapes(c, j - 1)
        BY <1>5, <2>1, <2>3, EscapesStep
      <3> QED BY <1>4, <1>5, <1>6, <2>1, <2>3, <2>4, <3>1
    <2> QED BY <1>5, <2>1, <2>2, <2>3
  <1> QED BY <1>3, <1>8, <1>9

-----------------------------------------------------------------------------
(* The receiver.                                                            *)

\* What the two bytes read last leave the receiver in, with the shape of rx.
Synchronized ==
  /\ rx = [state |-> rx.state, header |-> rx.header, read |-> rx.read]
  /\ last[2] = kP2PStartToken => rx.state = "disambiguating" \/ rx = NewHeader
  /\ last[1] = kP2PStartToken /\ last[2] \notin Tokens =>
       rx = [state |-> "header", header |-> <<kP2PStartToken, last[2]>>, read |-> 2]

LEMMA AppendToStart ==
  ASSUME NEW byte
  PROVE  Append(<<kP2PStartToken>>, byte) = <<kP2PStartToken, byte>>
  <1> DEFINE S == {kP2PStartToken, byte}
             s == <<kP2PStartToken>>
             t == <<kP2PStartToken, byte>>
  <1>1. s \in Seq(S) /\ Len(s) = 1 /\ s[1] = kP2PStartToken /\ byte \in S
    OBVIOUS
  <1>2. t \in Seq(S) /\ Len(t) = 2 /\ t[1] = kP2PStartToken /\ t[2] = byte
    OBVIOUS
  <1>3. Append(s, byte) \in Seq(S) /\ Len(Append(s, byte)) = 2
    BY <1>1
  <1>4. Append(s, byte)[1] = kP2PStartToken /\ Append(s, byte)[2] = byte
    BY <1>1
  <1>5. \A i \in 1 .. 2 : Append(s, byte)[i] = t[i]
    BY <1>2, <1>4
  <1> QED BY <1>2, <1>3, <1>5, SeqEqual

LEMMA ReadingKeepsSynchronized ==
  ASSUME Synchronized, Take,
         ReadStart \/ ReadHeader \/ ReadContent \/ Disambiguate \/ ReadFooter
  PROVE  Synchronized'
  <1> DEFINE byte == wire[1]
  <1>1. last' = <<last[2], byte>>
    BY DEF Take
  <1>2. CASE ReadStart
    BY <1>1, <1>2 DEF ReadStart, Synchronized, NewHeader, Tokens
  <1>3. CASE ReadHeader
    <2>1. rx' = HeaderByte(byte) /\ rx.state = "header"
      BY <1>3 DEF ReadHeader
    <2>2. CASE byte = kP2PStartToken
      BY <1>1, <2>1, <2>2 DEF HeaderByte, Synchronized, NewHeader, Tokens
    <2>3. CASE byte = kP2PSpecialToken
      BY <1>1, <2>1, <2>3 DEF HeaderByte, Synchronized, WaitForPacket, Tokens, kP2PStartToken, kP2PSpecialToken
    <2>4. CASE byte \notin Tokens
      <3>1. rx' = [rx EXCEPT !.header = Append(rx.header, byte), !.read = rx.read + 1]
        BY <2>1, <2>4 DEF HeaderByte, Tokens
      <3>2. rx' = [state |-> "header", header |-> Append(rx.header, byte), read |-> rx.read + 1]
        BY <2>1, <3>1 DEF Synchronized
      <3>3. last[2] = kP2PStartToken => rx.header = <<kP2PStartToken>> /\ rx.read = 1
        BY <2>1 DEF Synchronized, NewHeader
      <3>4. last[2] = kP2PStartToken =>
              rx' = [state |-> "header", header |-> <<kP2PStartToken, byte>>, read |-> 2]
        <4> SUFFICES ASSUME last[2] = kP2PStartToken
                     PROVE  rx' = [state |-> "header", header |-> <<kP2PStartToken, byte>>, read |-> 2]
          OBVIOUS
        <4>1. Append(rx.header, byte) = Append(<<kP2PStartToken>>, byte)
          BY <3>3, Zenon
        <4>2. Append(rx.header, byte) = <<kP2PStartToken, byte>>
          BY <4>1, AppendToStart, Zenon
        <4>3. rx.read + 1 = 2
          BY <3>3
        <4> QED BY <3>2, <4>2, <4>3, Zenon
      <3> QED BY <1>1, <2>4, <3>2, <3>4 DEF Synchronized, Tokens
    <2> QED BY <2>2, <2>3, <2>4 DEF Tokens
  <1>4. CASE ReadContent
    <2>1. rx.state = "content" /\ last[2] # kP2PStartToken
      BY <1>4 DEF ReadContent, Synchronized, NewHeader
    <2>2. rx' = NewHeader \/ (rx' = Goto(IF byte = kP2PStartToken THEN "disambiguating" ELSE "content", rx.read + 1))
      BY <1>4 DEF ReadContent
    <2> QED BY <1>1, <2>1, <2>2 DEF Synchronized, NewHeader, Goto
  <1>5. CASE Disambiguate
    <2>1. CASE byte = kP2PSpecialToken
      <3>1. rx' = Goto("content", rx.read + 1)
        BY <1>5, <2>1 DEF Disambiguate, Tokens, kP2PStartToken, kP2PSpecialToken
      <3>2. last'[2] # kP2PStartToken /\ last'[2] \in Tokens
        BY <1>1, <2>1 DEF Tokens, kP2PStartToken, kP2PSpecialToken
      <3>3. rx' = [state |-> rx'.state, header |-> rx'.header, read |-> rx'.read]
        BY <3>1 DEF Synchronized, Goto
      <3> QED BY <3>2, <3>3 DEF Synchronized
    <2>2. CASE byte = kP2PStartToken
      <3>1. rx' = NewHeader
        BY <1>5, <2>2 DEF Disambiguate, Tokens, kP2PStartToken, kP2PSpecialToken
      <3> QED BY <1>1, <2>2, <3>1 DEF Synchronized, NewHeader, Tokens
    <2>3. CASE byte \notin Tokens
      <3>1. rx' = [state |-> "header", header |-> <<kP2PStartToken, byte>>, read |-> 2]
        BY <1>5, <2>3 DEF Disambiguate, Tokens
      <3> QED BY <1>1, <2>3, <3>1 DEF Synchronized, Tokens
    <2> QED BY <2>1, <2>2, <2>3 DEF Tokens
  <1>6. CASE ReadFooter
    <2>1. rx.state = "footer" /\ last[2] # kP2PStartToken
      BY <1>6 DEF ReadFooter, Synchronized, NewHeader
    <2>2. rx' = IF byte = kP2PStartToken THEN NewHeader ELSE WaitForPacket
      BY <1>6 DEF ReadFooter
    <2> QED BY <1>1, <2>1, <2>2 DEF Synchronized, NewHeader, WaitForPacket
  <1> QED BY <1>2, <1>3, <1>4, <1>5, <1>6

LEMMA NextKeepsSynchronized == Synchronized /\ [Next]_vars => Synchronized'
  <1> SUFFICES ASSUME Synchronized, [Next]_vars PROVE Synchronized'
    OBVIOUS
  <1>1. CASE UNCHANGED <<rx, last>>
    BY <1>1 DEF Synchronized
  <1>2. CASE ReadStart \/ ReadHeader \/ ReadContent \/ Disambiguate \/ ReadFooter
    <2>1. Take
      BY <1>2 DEF ReadStart, ReadHeader, ReadContent, Disambiguate, ReadFooter
    <2> QED BY <1>2, <2>1, ReadingKeepsSynchronized
  <1>3. CASE StartIncoming \/ ContinueIncoming
    <2>1. rx.state = "header" /\ rx.read = 6 /\ last' = last
      BY <1>3 DEF StartIncoming, ContinueIncoming, kHeaderBytes
    <2>2. last[2] # kP2PStartToken /\ ~(last[1] = kP2PStartToken /\ last[2] \notin Tokens)
      BY <2>1 DEF Synchronized, NewHeader
    <2>3. rx' = WaitForPacket \/ \E read : rx' = Goto("content", read)
      BY <1>3 DEF StartIncoming, ContinueIncoming
    <2>4. rx' = [state |-> rx'.state, header |-> rx'.header, read |-> rx'.read]
      BY <2>3 DEF Goto, WaitForPacket, Synchronized
    <2> QED BY <2>1, <2>2, <2>4 DEF Synchronized
  <1>4. CASE EndContent
    <2>1. rx.state = "content" /\ rx' = Goto("footer", 0) /\ last' = last
      BY <1>4 DEF EndContent
    <2>2. last[2] # kP2PStartToken /\ ~(last[1] = kP2PStartToken /\ last[2] \notin Tokens)
      BY <2>1 DEF Synchronized, NewHeader
    <2>3. rx' = [state |-> rx'.state, header |-> rx'.header, read |-> rx'.read]
      BY <2>1 DEF Synchronized, Goto
    <2> QED BY <2>1, <2>2, <2>3 DEF Synchronized
  <1>5. CASE \/ \E p \in Priorities : \E c \in Contents[p] : Commit(p, c)
             \/ StartPacket \/ SendHeader \/ SendBody
             \/ Fault(<< >>) \/ \E byte \in Noise : Fault(<<byte>>)
    BY <1>1, <1>5 DEF Commit, StartPacket, SendHeader, SendBody, Fault, rxVars
  <1>6. CASE UNCHANGED vars
    BY <1>1, <1>6 DEF vars, rxVars
  <1> QED BY <1>2, <1>3, <1>4, <1>5, <1>6 DEF Next

\* Whatever is sent, lost or damaged, the receiver never misses a start token that is
\* followed by a byte that is no token.
THEOREM SynchronizedByStartAlways == Spec => []SynchronizedByStart
  <1>1. Init => Synchronized
    BY DEF Init, Synchronized, kP2PStartToken
  <1>2. Synchronized => SynchronizedByStart
    BY DEF Synchronized, SynchronizedByStart
  <1> QED BY <1>1, <1>2, NextKeepsSynchronized, PTL DEF Spec
=============================================================================
