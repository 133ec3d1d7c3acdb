---------------------------- MODULE PacketCodec ----------------------------
(***************************************************************************)
(* The bytes of a packet (common/p2p_packet_protocol.h, packed_number.h,   *)
(* p2p_packet_stream.cpp): tokens, packed sequence numbers, the escaping   *)
(* of content and the checksum. A byte is a number below 256. The flags    *)
(* requires_ack, is_ack and is_init are left at zero; they share a byte    *)
(* with the priority and is_continuation, and it stays below the tokens    *)
(* whatever they are.                                                      *)
(***************************************************************************)
EXTENDS Integers, Sequences, FiniteSets

kP2PStartToken == 170
kP2PSpecialToken == 255
kP2PLowestToken == 170
kP2PChecksumModulo == 128
kHeaderBytes == 6
kFooterBytes == 1

Tokens == {kP2PStartToken, kP2PSpecialToken}
Byte == 0 .. 255

-----------------------------------------------------------------------------
(* PackedInteger<3, kP2PLowestToken>, the least significant byte first.     *)

Packed(n) ==
  <<n % kP2PLowestToken,
    (n \div kP2PLowestToken) % kP2PLowestToken,
    (n \div (kP2PLowestToken * kP2PLowestToken)) % kP2PLowestToken>>

Unpacked(bytes) ==
  bytes[1] + bytes[2] * kP2PLowestToken + bytes[3] * kP2PLowestToken * kP2PLowestToken

-----------------------------------------------------------------------------
(* P2PHeader as bytes, and the fields of one that was read.                 *)

Header(priority, is_continuation, sequence_number, length) ==
  LET packed == Packed(sequence_number) IN
  <<kP2PStartToken, priority + (IF is_continuation THEN 4 ELSE 0),
    packed[1], packed[2], packed[3], length>>

PriorityIn(header) == header[2] % 4
IsContinuation(header) == (header[2] \div 4) % 2 = 1
SequenceIn(header) == SubSeq(header, 3, 5)
LengthIn(header) == header[6]

-----------------------------------------------------------------------------
(* Content.                                                                 *)

\* How many of the first n bytes need a special token behind them.
Escapes(content, n) == Cardinality({j \in 1 .. n : content[j] \in Tokens})

\* The loop of PrepareToSend(): byte i moves behind the special tokens before it.
Encoded(content) ==
  LET at(i) == i + Escapes(content, i - 1) IN
  [k \in 1 .. Len(content) + Escapes(content, Len(content)) |->
     IF \E i \in DOMAIN content : at(i) = k
     THEN content[CHOOSE i \in DOMAIN content : at(i) = k]
     ELSE kP2PSpecialToken]

\* Which bytes the loop of PrepareToRead() skips: those behind a token that is not
\* skipped itself.
Skipped(bytes) ==
  LET skipped[i \in 1 .. Len(bytes)] ==
        i > 1 /\ bytes[i - 1] \in Tokens /\ ~skipped[i - 1]
  IN {i \in 1 .. Len(bytes) : skipped[i]}

\* What is skipped has to be a special token, and a token has to be followed by one.
WellFormed(bytes) ==
  \A i \in (1 .. Len(bytes)) \ Skipped(bytes) :
    bytes[i] \in Tokens => i < Len(bytes) /\ bytes[i + 1] = kP2PSpecialToken

\* Fault: the special tokens stay in the content.
DecodedNot(bytes) == bytes

Decoded(bytes) ==
  LET kept == (1 .. Len(bytes)) \ Skipped(bytes)
      rank(i) == Cardinality({j \in kept : j <= i})
  IN [k \in 1 .. Cardinality(kept) |-> bytes[CHOOSE i \in kept : rank(i) = k]]

Sum(bytes) ==
  LET sum[n \in 0 .. Len(bytes)] == IF n = 0 THEN 0 ELSE sum[n - 1] + bytes[n]
  IN sum[Len(bytes)]

\* CalculateChecksum(). Its 8-bit sums wrap at a multiple of the modulus.
Checksum(header, content) ==
  (Sum(header) + Sum(content) - kP2PStartToken) % kP2PChecksumModulo
=============================================================================
