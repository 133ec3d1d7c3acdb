---------------------------- MODULE PacketBytes ----------------------------
(***************************************************************************)
(* One direction of a P2PPacketStream byte by byte: the state machines of  *)
(* P2PPacketOutputStream::Run() and P2PPacketInputStream::Run()            *)
(* (common/p2p_packet_stream.hh) over a byte stream that may lose and      *)
(* damage bytes. Packets are sent without guarantee: sessions, ACKs and    *)
(* buffers that fill are those of PacketStream. "received" holds packets   *)
(* as they were when they were committed.                                  *)
(***************************************************************************)
EXTENDS PacketCodec

CONSTANTS
  Priorities,        \* the priorities programs send at
  Contents,          \* Contents[p]: the contents they send at priority p
  FirstSequence,     \* current_sequence_number_ when the run begins
  BurstMaxLength,    \* GetBurstMaxLength()
  AtomicSendMaxLength, \* GetAtomicSendMaxLength()
  WireCapacity,      \* bytes the byte stream buffers
  MaxContentLength,  \* kP2PMaxContentLength
  MaxPackets,        \* bound: packets sent at each priority, a function
  Noise,             \* what a damaged byte may become
  MaxFaults          \* bound: bytes lost or damaged

AllPriorities == 0 .. 3

ASSUME PrioritiesAssumption == Priorities \subseteq AllPriorities
ASSUME ContentsAssumption ==
  \A p \in Priorities : \A c \in Contents[p] : c \in Seq(Byte)
ASSUME SizesAssumption ==
  /\ FirstSequence \in Nat /\ AtomicSendMaxLength \in Nat \ {0}
  /\ BurstMaxLength \in Nat \ {0} /\ WireCapacity \in Nat \ {0}
  /\ MaxContentLength \in 0 .. kP2PLowestToken - 1
  /\ BurstMaxLength >= kHeaderBytes
ASSUME BoundsAssumption ==
  MaxPackets \in [Priorities -> Nat] /\ Noise \subseteq Byte /\ MaxFaults \in Nat

VARIABLES
  \* P2PPacketOutputStream
  out,       \* packet_buffer_: per priority, the packets not sent to the end
  seqNo,     \* current_sequence_number_
  total,     \* total_packet_bytes_
  tx,        \* state_, the priority of current_packet_, pending_packet_bytes_ and
             \* pending_burst_bytes_
  \* the byte stream
  wire, faults,
  \* P2PPacketInputStream
  rx,        \* state_, incoming_header_ and current_field_read_bytes_
  incoming,  \* incoming_packet_
  offset,    \* write_offset_before_break_
  received,  \* what was committed to packet_buffer_
  \* observations
  sent,      \* what programs committed
  whole,     \* packets whose first byte was sent after the last fault
  last       \* the last two bytes read

txVars == <<out, seqNo, total, tx, sent>>
rxVars == <<rx, incoming, offset, received, last>>
vars == <<txVars, rxVars, wire, faults, whole>>

Min2(a, b) == IF a < b THEN a ELSE b

NoPacket == [header |-> << >>, length |-> 0, content |-> << >>]

Init ==
  /\ out = [p \in Priorities |-> << >>]
  /\ seqNo = [p \in Priorities |-> FirstSequence]
  /\ total = [p \in Priorities |-> -1]
  /\ tx = [state |-> "idle", p |-> 0, pending |-> 0, burst |-> 0]
  /\ wire = << >>
  /\ faults = 0
  /\ rx = [state |-> "waiting", header |-> << >>, read |-> 0]
  /\ incoming = [p \in AllPriorities |-> NoPacket]
  /\ offset = [p \in AllPriorities |-> 0]
  /\ received = [p \in AllPriorities |-> << >>]
  /\ sent = [p \in Priorities |-> << >>]
  /\ whole = {}
  /\ last = <<0, 0>>

-----------------------------------------------------------------------------
(* The transmitter.                                                         *)

\* NewPacket(), the program's content and Commit(). PrepareToSend() refuses
\* content that does not fit once it is escaped.
Commit(p, c) ==
  /\ Len(sent[p]) < MaxPackets[p]
  /\ Len(Encoded(c)) <= MaxContentLength
  /\ LET content == Encoded(c)
         length == Len(content)
         header == Header(p, FALSE, seqNo[p], length) IN
     out' = [out EXCEPT ![p] = Append(@,
               [sequence_number |-> seqNo[p], is_continuation |-> FALSE, length |-> length,
                content |-> content, checksum |-> Checksum(header, content)])]
  /\ seqNo' = [seqNo EXCEPT ![p] = @ + 1]
  /\ sent' = [sent EXCEPT ![p] = Append(@, [seq |-> seqNo[p], content |-> c])]
  /\ UNCHANGED <<total, tx, rxVars, wire, faults, whole>>

Waiting == {p \in Priorities : out[p] # << >>}

\* OldestValue(): the priority it looks at.
Urgent == CHOOSE p \in Waiting : \A q \in Waiting : p <= q

Current == out[tx.p][1]

HeaderOf(p, packet) ==
  Header(p, packet.is_continuation, packet.sequence_number, packet.length)

\* The memory of the packet from its header on.
BytesOf(p, packet) == HeaderOf(p, packet) \o packet.content \o <<packet.checksum>>

\* kGettingNextPacket
StartPacket ==
  /\ tx.state = "idle" /\ Waiting # {}
  /\ LET p == Urgent
         packet == out[p][1] IN
     /\ tx' = [state |-> "header", p |-> p, pending |-> kHeaderBytes, burst |-> kHeaderBytes]
     /\ total' = [total EXCEPT ![p] = IF packet.is_continuation THEN @
                    ELSE kHeaderBytes + packet.length + kFooterBytes]
     /\ whole' = IF packet.is_continuation THEN whole ELSE whole \cup {<<p, packet.sequence_number>>}
  /\ UNCHANGED <<out, seqNo, sent, rxVars, wire, faults>>

\* Write(): the byte stream takes as many bytes as it has room for.
Taken(length) == Min2(length, WireCapacity - Len(wire))

\* n bytes of the memory of a packet, from byte "first" on.
Write(bytes, first, n) == wire' = wire \o SubSeq(bytes, first + 1, first + n)

AfterHeader(packet) ==
  IF packet.is_continuation THEN packet.length + kFooterBytes ELSE total[tx.p] - kHeaderBytes

\* kSendingHeaderBurst. A header is one burst.
SendHeader ==
  /\ tx.state = "header"
  /\ LET n == Taken(tx.burst) IN
     /\ Write(HeaderOf(tx.p, Current), kHeaderBytes - tx.pending, n)
     /\ tx' = IF n < tx.pending THEN [tx EXCEPT !.pending = @ - n, !.burst = @ - n]
              ELSE LET left == AfterHeader(Current) IN
                   [tx EXCEPT !.state = "body", !.pending = left, !.burst = Min2(left, BurstMaxLength)]
  /\ UNCHANGED <<out, seqNo, total, sent, rxVars, faults, whole>>

\* Fault: the footer counts as content of the continuation.
RemainingWithFooter(pending) == pending

\* The length field of a continuation, from pending_packet_bytes_.
Remaining(pending) == pending - kFooterBytes

BreakOff(pending) ==
  /\ out' = [out EXCEPT ![tx.p][1].is_continuation = TRUE, ![tx.p][1].length = Remaining(pending)]
  /\ tx' = [tx EXCEPT !.state = "idle", !.pending = pending, !.burst = 0]

\* One write of kSendingBurst. What follows depends on whether the packet is over,
\* the burst is over, or a packet of higher priority waits.
SendBody ==
  /\ tx.state = "body"
  /\ LET n == Taken(Min2(AtomicSendMaxLength, tx.burst))
         pending == tx.pending - n
         burst == tx.burst - n IN
     /\ Write(BytesOf(tx.p, Current), total[tx.p] - tx.pending, n)
     /\ \/ /\ pending = 0
           /\ out' = [out EXCEPT ![tx.p] = Tail(@)]
           /\ tx' = [tx EXCEPT !.state = "idle", !.pending = 0, !.burst = 0]
        \/ /\ pending > 0 /\ burst = 0
           /\ tx' = [tx EXCEPT !.pending = pending, !.burst = Min2(pending, BurstMaxLength)]
           /\ UNCHANGED out
        \/ /\ pending > 0 /\ burst > 0
           /\ IF Urgent # tx.p THEN BreakOff(pending)
              ELSE /\ tx' = [tx EXCEPT !.pending = pending, !.burst = burst]
                   /\ UNCHANGED out
  /\ UNCHANGED <<seqNo, total, sent, rxVars, faults, whole>>

-----------------------------------------------------------------------------
(* The byte stream.                                                         *)

\* A byte is lost or damaged on its way.
Fault(bytes) ==
  /\ wire # << >> /\ faults < MaxFaults
  /\ wire' = bytes \o Tail(wire)
  /\ faults' = faults + 1
  /\ whole' = {}
  /\ UNCHANGED <<txVars, rxVars>>

\* Read() of one byte.
Take ==
  /\ wire # << >>
  /\ wire' = Tail(wire)
  /\ last' = <<last[2], wire[1]>>
  /\ UNCHANGED <<txVars, faults, whole>>

-----------------------------------------------------------------------------
(* The receiver.                                                            *)

WaitForPacket == [state |-> "waiting", header |-> << >>, read |-> 0]
NewHeader == [state |-> "header", header |-> <<kP2PStartToken>>, read |-> 1]
Goto(state, read) == [rx EXCEPT !.state = state, !.read = read]

\* The priority of the packet being read.
Reading == PriorityIn(rx.header)

\* The byte at an index of the content array.
Put(p, i, byte) ==
  [incoming EXCEPT ![p].content = SubSeq(@, 1, i) \o <<byte>> \o SubSeq(@, i + 2, Len(@))]

\* kWaitingForPacket
ReadStart ==
  /\ rx.state = "waiting" /\ Take
  /\ rx' = IF wire[1] = kP2PStartToken THEN NewHeader ELSE rx
  /\ UNCHANGED <<incoming, offset, received>>

\* Fault: a start token in the middle of a header is no new header.
HeaderByteAnyToken(byte) ==
  IF byte \in Tokens THEN WaitForPacket
  ELSE [rx EXCEPT !.header = Append(@, byte), !.read = @ + 1]

HeaderByte(byte) ==
  IF byte = kP2PStartToken THEN NewHeader
  ELSE IF byte = kP2PSpecialToken THEN WaitForPacket
  ELSE [rx EXCEPT !.header = Append(@, byte), !.read = @ + 1]

\* kReadingHeader, before the header is complete
ReadHeader ==
  /\ rx.state = "header" /\ rx.read < kHeaderBytes /\ Take
  /\ rx' = HeaderByte(wire[1])
  /\ UNCHANGED <<incoming, offset, received>>

\* The header is complete and starts a packet.
StartIncoming ==
  /\ rx.state = "header" /\ rx.read = kHeaderBytes /\ ~IsContinuation(rx.header)
  /\ incoming' = [incoming EXCEPT ![Reading] =
                    [header |-> rx.header, length |-> LengthIn(rx.header), content |-> << >>]]
  /\ offset' = [offset EXCEPT ![Reading] = 0]
  /\ rx' = Goto("content", 0)
  /\ UNCHANGED <<txVars, wire, faults, whole, received, last>>

\* It goes on with the packet in store, at the byte where that broke off.
Continues(packet, at) ==
  /\ packet # NoPacket
  /\ SequenceIn(rx.header) = SequenceIn(packet.header)
  /\ LengthIn(rx.header) = packet.length - at

ContinueIncoming ==
  /\ rx.state = "header" /\ rx.read = kHeaderBytes /\ IsContinuation(rx.header)
  /\ rx' = IF Continues(incoming[Reading], offset[Reading])
           THEN Goto("content", incoming[Reading].length - LengthIn(rx.header))
           ELSE WaitForPacket
  /\ UNCHANGED <<txVars, wire, faults, whole, incoming, offset, received, last>>

\* kReadingContent, every byte read
EndContent ==
  /\ rx.state = "content" /\ rx.read >= incoming[Reading].length
  /\ rx' = Goto("footer", 0)
  /\ UNCHANGED <<txVars, wire, faults, whole, incoming, offset, received, last>>

\* kReadingContent. A start token may belong to the content if another byte of it
\* is to come.
ReadContent ==
  /\ rx.state = "content" /\ rx.read < incoming[Reading].length /\ Take
  /\ incoming' = Put(Reading, rx.read, wire[1])
  /\ LET read == rx.read + 1 IN
     IF wire[1] = kP2PStartToken /\ read >= incoming[Reading].length
     THEN /\ rx' = NewHeader
          /\ offset' = [offset EXCEPT ![Reading] = read - 1]
     ELSE /\ rx' = Goto(IF wire[1] = kP2PStartToken THEN "disambiguating" ELSE "content", read)
          /\ UNCHANGED offset
  /\ UNCHANGED received

\* Fault: the start token is taken for a byte of the packet that broke off.
BreakAfterStart(read) == read - 1

\* Where a packet broke off whose next two bytes were read before that was known.
BreakBeforeStart(read) == read - 2

\* kDisambiguatingStartTokenInContent
Disambiguate ==
  /\ rx.state = "disambiguating" /\ Take
  /\ incoming' = Put(Reading, rx.read, wire[1])
  /\ LET read == rx.read + 1 IN
     \/ /\ wire[1] = kP2PSpecialToken
        /\ rx' = Goto("content", read)
        /\ UNCHANGED offset
     \/ /\ wire[1] = kP2PStartToken
        /\ rx' = NewHeader
        /\ offset' = [offset EXCEPT ![Reading] = read - 1]
     \/ /\ wire[1] \notin Tokens
        /\ rx' = [state |-> "header", header |-> <<kP2PStartToken, wire[1]>>, read |-> 2]
        /\ offset' = [offset EXCEPT ![Reading] = BreakBeforeStart(read)]
  /\ UNCHANGED received

\* PrepareToRead() leaves the decoded content and its length in the packet.
Prepared(packet) ==
  LET encoded == SubSeq(packet.content, 1, packet.length)
      decoded == Decoded(encoded) IN
  [packet EXCEPT !.length = Len(decoded),
                 !.content = decoded \o SubSeq(@, Len(decoded) + 1, Len(@))]

Accepts(packet, checksum) ==
  LET encoded == SubSeq(packet.content, 1, packet.length) IN
  Checksum(packet.header, encoded) = checksum /\ WellFormed(encoded)

\* kReadingFooter
ReadFooter ==
  /\ rx.state = "footer" /\ Take
  /\ LET packet == incoming[Reading] IN
     IF wire[1] = kP2PStartToken
     THEN /\ rx' = NewHeader
          /\ offset' = [offset EXCEPT ![Reading] = packet.length]
          /\ UNCHANGED <<incoming, received>>
     ELSE /\ rx' = WaitForPacket
          /\ UNCHANGED offset
          /\ IF Accepts(packet, wire[1])
             THEN /\ incoming' = [incoming EXCEPT ![Reading] = Prepared(packet)]
                  /\ received' = [received EXCEPT ![Reading] = Append(@,
                       [seq |-> Unpacked(SequenceIn(packet.header)),
                        content |-> SubSeq(Prepared(packet).content, 1, Prepared(packet).length)])]
             ELSE UNCHANGED <<incoming, received>>

-----------------------------------------------------------------------------
Next ==
  \/ \E p \in Priorities : \E c \in Contents[p] : Commit(p, c)
  \/ StartPacket
  \/ SendHeader
  \/ SendBody
  \/ Fault(<< >>)
  \/ \E byte \in Noise : Fault(<<byte>>)
  \/ ReadStart
  \/ ReadHeader
  \/ StartIncoming
  \/ ContinueIncoming
  \/ ReadContent
  \/ EndContent
  \/ Disambiguate
  \/ ReadFooter

Spec == Init /\ [][Next]_vars

-----------------------------------------------------------------------------
\* The packets of a priority whose bytes were all sent since the last fault.
SentWhole(p) ==
  LET pending == {out[p][k].sequence_number : k \in DOMAIN out[p]} IN
  SelectSeq(sent[p], LAMBDA m : <<p, m.seq>> \in whole /\ m.seq \notin pending)

EndsWith(s, t) == Len(t) <= Len(s) /\ SubSeq(s, Len(s) - Len(t) + 1, Len(s)) = t

\* "This ensures that the protocol handling logic can identify the next packet with
\* minimal latency after the link is reestablished" (p2p_packet_protocol.h): whatever
\* the faults left the receiver with, every packet sent from its first byte after
\* the last of them is received, in order and as it was sent, however often it is
\* broken off and continued; without faults nothing else is received.
NextPacketReceived ==
  wire = << >> =>
    \A p \in Priorities :
      IF faults = 0 THEN received[p] = SentWhole(p) ELSE EndsWith(received[p], SentWhole(p))

\* A start token followed by a byte that is no token is the beginning of a header to
\* the receiver, whatever it was reading and whatever came before: lost or damaged
\* bytes never make it miss one.
SynchronizedByStart ==
  last[1] = kP2PStartToken /\ last[2] \notin Tokens =>
    rx.state = "header" /\ rx.header = <<kP2PStartToken, last[2]>>
=============================================================================
