---------------------------- MODULE PacketStream ----------------------------
(***************************************************************************)
(* Two P2PPacketStream objects (common/p2p_packet_stream.h, .hh), one at   *)
(* each end of a serial link, and the link between them.                   *)
(*                                                                         *)
(* Bytes are grouped into fragments: a header followed by the content sent *)
(* before the transmitter completes the packet or breaks off for a packet  *)
(* of a higher priority. A fragment that completes its packet carries the  *)
(* footer. The content is counted in units; a unit is what one write of    *)
(* kSendingBurst hands to the byte stream. The receiver takes a fragment   *)
(* in two steps, its header and its body, because the program may run      *)
(* between the two.                                                        *)
(*                                                                         *)
(* A checksum is taken to detect every corrupted packet. Handshake ids     *)
(* (GUIDs) never collide with each other or with a sequence number, and    *)
(* sequence numbers do not wrap.                                           *)
(***************************************************************************)
EXTENDS Integers, Sequences, FiniteSets

CONSTANTS
  Ends,          \* the two ends of the link
  InCapacity,    \* kInputCapacity, the slots of each input ring buffer
  OutCapacity,   \* kOutputCapacity of each end, a function of Ends
  WireCapacity,  \* fragments the byte stream buffers in one direction
  Traffic,       \* what programs send: records [from, p, requires_ack, total]
  MaxPackets,    \* bound: packets a start of an end commits at one priority
  MaxStarts,     \* bound: times each end is started, a function of Ends
  MaxFaults      \* bound: fragments lost or corrupted on the link

\* P2PPriority: the lower the number, the higher the priority.
Priority == 0 .. 3
kHigh == 1
Lower(p) == p + 1

\* Fault: ACKs are sent at the priority of the packets they answer.
SamePriority(p) == p

\* The priority of the ACK for a packet.
Higher(p) == p - 1

ASSUME EndsAssumption == IsFiniteSet(Ends) /\ Cardinality(Ends) = 2
ASSUME CapacitiesAssumption ==
  /\ InCapacity \in Nat /\ InCapacity > 1
  /\ OutCapacity \in [Ends -> Nat] /\ \A e \in Ends : OutCapacity[e] > 1
  /\ WireCapacity \in Nat \ {0}
ASSUME BoundsAssumption ==
  /\ MaxPackets \in Nat
  /\ MaxStarts \in [Ends -> Nat \ {0}]
  /\ MaxFaults \in Nat
\* Programs never send at kReserved: it has no higher priority for its ACKs.
ASSUME TrafficAssumption ==
  Traffic \subseteq [from : Ends, p : Priority \ {0}, requires_ack : BOOLEAN,
                     total : Nat \ {0}]

VARIABLES
  \* P2PPacketOutputStream
  out,          \* packet_buffer_: a queue of packets per end and priority
  seqNo,        \* current_sequence_number_
  tx,           \* state_ and current_packet_, pending_packet_bytes_
  \* the link
  wire,         \* wire[e]: fragments on their way from e
  faults,       \* fragments lost or corrupted so far
  \* P2PPacketInputStream
  input,        \* state_, packet_buffer_, incoming_packet_, ...
  \* P2PPacketStream
  start,        \* how often the end was started; handshake_id_ follows from it
  done,         \* handshake_done_
  lastInit,     \* last_init_sequence_number_ (handshakes are all at kHigh)
  lastRx,       \* last_rx_sequence_number_
  halted,       \* an ASSERT failed: the logger's Fatal() stopped the end
  \* observations
  notified,     \* handshake ids other_end_started_callback_ was called for
  acked,        \* ids of the data packets dropped because an ACK came
  delivered,    \* delivered[e]: ids the program at e took since its start
  forgotten     \* ids received by an end that has been reset since

outVars == <<out, seqNo, tx>>
linkVars == <<wire, faults>>
sessionVars == <<start, done, lastInit, lastRx, halted>>
observed == <<notified, acked, delivered, forgotten>>
vars == <<outVars, linkVars, input, sessionVars, observed>>

Other(e) == CHOOSE o \in Ends : o # e

None == -1

\* GUIDs are fresh at every start and lie beyond the sequence numbers in use.
HandshakeId(n) == MaxPackets + n

-----------------------------------------------------------------------------
(* Packets *)

\* `from` and `start` tell whose packet it is and are not sent; `length` is
\* the header's length field, `total` the length of the whole content.
Packet(e, n, p, seq, reliable, total) ==
  [from |-> e, start |-> n, p |-> p, seq |-> seq, requires_ack |-> reliable,
   is_ack |-> FALSE, is_init |-> FALSE, is_continuation |-> FALSE,
   total |-> total, length |-> total]

Blank == Packet(CHOOSE e \in Ends : TRUE, 0, 0, 0, FALSE, 0)

InitPacket(e, n) ==
  [Packet(e, n, kHigh, HandshakeId(n), TRUE, 0) EXCEPT !.is_init = TRUE]

AckFor(e, pkt) ==
  [Packet(e, start[e], Higher(pkt.p), pkt.seq, FALSE, 0) EXCEPT
     !.is_ack = TRUE, !.is_init = pkt.is_init]

Id(pkt) == [from |-> pkt.from, start |-> pkt.start, p |-> pkt.p, seq |-> pkt.seq]

\* A packet as it was committed, before any continuation of it.
AsCommitted(pkt) == [pkt EXCEPT !.is_continuation = FALSE, !.length = pkt.total]

Fragment(pkt, units, footer) ==
  [pkt |-> pkt, units |-> units, footer |-> footer, intact |-> TRUE]

-----------------------------------------------------------------------------
(* Output stream *)

IdleTx == [state |-> "next", pkt |-> Blank, live |-> FALSE, pending |-> 0, units |-> 0]

Queued(e) == {p \in Priority : out[e][p] # << >>}
\* Priority of packet_buffer_.OldestValue().
OldestPriority(e) == CHOOSE p \in Queued(e) : \A q \in Queued(e) : p <= q

\* Fault: the slot reserved for the next packet counts as free.
IsOutFullLate(e, p) == Len(out[e][p]) >= OutCapacity[e]

IsOutFull(e, p) == Len(out[e][p]) >= OutCapacity[e] - 1

DropHead(s) == IF s = << >> THEN << >> ELSE Tail(s)

\* NewPacket() and Commit() by the program, with the default sequence number.
Commit(t) ==
  LET e == t.from IN
  /\ seqNo[e][t.p] < MaxPackets
  /\ ~IsOutFull(e, t.p)
  /\ out' = [out EXCEPT ![e][t.p] =
               Append(@, Packet(e, start[e], t.p, seqNo[e][t.p], t.requires_ack, t.total))]
  /\ seqNo' = [seqNo EXCEPT ![e][t.p] = @ + 1]
  /\ UNCHANGED <<tx, linkVars, input, sessionVars, observed>>

\* kGettingNextPacket and the header bursts.
StartPacket(e) ==
  /\ tx[e].state = "next"
  /\ Queued(e) # {}
  /\ Len(wire[e]) < WireCapacity
  /\ LET pkt == Head(out[e][OldestPriority(e)]) IN
       tx' = [tx EXCEPT ![e] = [state |-> "burst", pkt |-> pkt, live |-> TRUE,
                                pending |-> pkt.length + 1, units |-> 0]]
  /\ UNCHANGED <<out, seqNo, linkVars, input, sessionVars, observed>>

\* packet_buffer_.OldestValue() != current_packet_
HigherPriorityWaiting(e) ==
  /\ Queued(e) # {}
  /\ tx[e].live => OldestPriority(e) # tx[e].pkt.p

\* kSendingBurst writes a unit of content. At the end of a burst it does not
\* look for other packets; how a burst divides into units is left open.
SendUnit(e) ==
  /\ tx[e].state = "burst"
  /\ tx[e].pending > 1
  /\ tx' = [tx EXCEPT ![e].pending = @ - 1, ![e].units = @ + 1]
  /\ UNCHANGED <<out, seqNo, linkVars, input, sessionVars, observed>>

\* kSendingBurst writes a unit and breaks off for another packet. The header
\* of the one in progress is changed to that of a continuation.
Preempt(e) ==
  LET p == tx[e].pkt.p
      left == tx[e].pending - 2 IN
  /\ tx[e].state = "burst"
  /\ tx[e].pending > 1
  /\ HigherPriorityWaiting(e)
  /\ wire' = [wire EXCEPT ![e] = Append(@, Fragment(tx[e].pkt, tx[e].units + 1, FALSE))]
  /\ out' = IF tx[e].live
            THEN [out EXCEPT ![e][p][1].is_continuation = TRUE, ![e][p][1].length = left]
            ELSE out
  /\ tx' = [tx EXCEPT ![e] = IdleTx]
  /\ UNCHANGED <<seqNo, faults, input, sessionVars, observed>>

\* The packets of s at the places in `at`, in the order of s.
Selected(s, at) ==
  LET front[n \in 0 .. Len(s)] ==
        IF n = 0 THEN << >>
        ELSE IF n \in at THEN Append(front[n - 1], s[n]) ELSE front[n - 1]
  IN  front[Len(s)]

\* Places of the packets that are not ACKs or are the handshake's own.
StillValid(s, handshake) == {k \in DOMAIN s : ~s[k].is_ack \/ s[k].seq = handshake.seq}

\* Fault: ACKs for packets of the other end's previous start are kept.
ResetOutputSessionKeepsAcks(queues, handshake) ==
  [p \in Priority |-> IF queues[p] = << >> THEN << >>
     ELSE [queues[p] EXCEPT ![1].is_continuation = FALSE, ![1].length = queues[p][1].total]]

\* Fault: a packet in progress is continued after the other end's restart.
ResetOutputSessionContinues(queues, handshake) ==
  [p \in Priority |-> Selected(queues[p], StillValid(queues[p], handshake))]

\* ResetOutputSession(): drop the ACKs other than the handshake's own, and send
\* packets in progress from their beginning.
ResetOutputSession(queues, handshake) ==
  LET Whole(s) == IF s = << >> THEN s
                  ELSE [s EXCEPT ![1].is_continuation = FALSE, ![1].length = s[1].total]
  IN  [p \in Priority |-> Whole(Selected(queues[p], StillValid(queues[p], handshake)))]

\* Fault: a reliable packet is sent once.
ConsumeWhenSent(pkt) == TRUE

\* Packets requiring an ACK stay in the queue for retransmission.
ShouldConsume(pkt) == ~pkt.requires_ack

\* kSendingBurst writes the footer; then ShouldConsumeOutputPacket() decides.
FinishPacket(e) ==
  LET pkt == tx[e].pkt
      queues == IF pkt.is_init /\ pkt.is_ack
                THEN ResetOutputSession(out[e], pkt) ELSE out[e] IN
  /\ tx[e].state = "burst"
  /\ tx[e].pending = 1
  /\ wire' = [wire EXCEPT ![e] = Append(@, Fragment(pkt, tx[e].units, TRUE))]
  /\ out' = [out EXCEPT ![e] = IF ShouldConsume(pkt)
                               THEN [queues EXCEPT ![pkt.p] = DropHead(@)] ELSE queues]
  /\ tx' = [tx EXCEPT ![e] = IdleTx]
  /\ UNCHANGED <<seqNo, faults, input, sessionVars, observed>>

-----------------------------------------------------------------------------
(* Input stream. A stored packet is its header and the content units that   *)
(* do not hold what was sent (`bad`); unit total + 1 is the footer.         *)

Ring == INSTANCE RingBufferOps WITH Capacity <- InCapacity

Placeholder == InCapacity   \* &discarded_packet_placeholder_, not a slot

NewInput ==
  [state |-> "header",
   buffer |-> [p \in Priority |->
                 Ring!NewRingBuffer([s \in 0 .. InCapacity - 1 |->
                                       [pkt |-> Blank, bad |-> {1}]])],
   incoming |-> [p \in Priority |-> None],
   offset |-> [p \in Priority |-> 0],
   placeholder |-> [pkt |-> Blank, bad |-> {1}]]

\* Fault: packets already received survive the other end's restart.
ResetInputKeepsPackets(in) ==
  [in EXCEPT !.state = "header", !.incoming = [p \in Priority |-> None],
             !.offset = [p \in Priority |-> 0]]

\* Reset(): values stay in their slots, out of reach.
ResetInput(in) ==
  [in EXCEPT !.state = "header",
             !.buffer = [p \in Priority |-> Ring!Cleared(@[p])],
             !.incoming = [p \in Priority |-> None],
             !.offset = [p \in Priority |-> 0]]

\* *incoming_packet_[p]
Stored(in, p) == IF in.incoming[p] = Placeholder THEN in.placeholder
                 ELSE in.buffer[p].values[in.incoming[p]]
WithStored(in, p, s) ==
  IF in.incoming[p] = Placeholder THEN [in EXCEPT !.placeholder = s]
  ELSE [in EXCEPT !.buffer[p].values[in.incoming[p]] = s]

\* kReadingHeader of a new packet: choose where it goes. A full buffer makes
\* room for a reliable packet by discarding its oldest regular one.
NewIncoming(in, pkt) ==
  LET rb == in.buffer[pkt.p]
      regular == {i \in 0 .. rb.size - 1 : ~Ring!OldestValue(rb, i).pkt.requires_ack}
      room == IF Ring!IsFull(rb) /\ pkt.requires_ack /\ regular # {}
              THEN Ring!Consumed(rb, CHOOSE i \in regular : \A j \in regular : i <= j)
              ELSE rb
      at == IF Ring!IsFull(room) THEN Placeholder ELSE Ring!NewSlot(room)
      placed == [in EXCEPT !.state = "content", !.buffer[pkt.p] = room,
                           !.incoming[pkt.p] = at, !.offset[pkt.p] = 0]
  IN  WithStored(placed, pkt.p, [pkt |-> pkt, bad |-> 1 .. pkt.total + 1])

\* A continuation belongs to the packet in store and starts where that broke off.
ContinuationFits(in, pkt) ==
  /\ in.incoming[pkt.p] # None
  /\ LET s == Stored(in, pkt.p).pkt IN
       /\ pkt.seq = s.seq
       /\ pkt.length = s.length - in.offset[pkt.p]

\* kWaitingForPacket and kReadingHeader.
ReadHeader(e) ==
  LET w == wire[Other(e)]
      pkt == Head(w).pkt IN
  /\ input[e].state = "header"
  /\ w # << >>
  /\ \/ /\ ~pkt.is_continuation
        /\ input' = [input EXCEPT ![e] = NewIncoming(@, pkt)]
        /\ UNCHANGED wire
     \/ /\ pkt.is_continuation
        /\ ContinuationFits(input[e], pkt)
        /\ input' = [input EXCEPT ![e].state = "content"]
        /\ UNCHANGED wire
     \/ /\ pkt.is_continuation
        /\ ~ContinuationFits(input[e], pkt)
        /\ wire' = [wire EXCEPT ![Other(e)] = Tail(@)]
        /\ UNCHANGED input
  /\ UNCHANGED <<outVars, faults, sessionVars, observed>>

\* The input stream after the body of fragment f: its units replace those in
\* store, and a fragment without a footer leaves the offset it broke off at.
\* Units that are damaged or belong to another packet do not add up.
AfterBody(in, f) ==
  LET p == f.pkt.p
      s == Stored(in, p)
      base == IF f.pkt.is_continuation THEN in.offset[p] ELSE 0
      span == base + 1 .. base + f.units + (IF f.footer THEN 1 ELSE 0)
      right == f.intact /\ AsCommitted(f.pkt) = AsCommitted(s.pkt)
      read == WithStored(in, p, [s EXCEPT !.bad =
                (@ \ span) \cup (IF right THEN {} ELSE span)])
  IN  [read EXCEPT !.state = "header",
                   !.offset[p] = IF f.footer THEN @ ELSE base + f.units]

\* PrepareToRead(): the checksum is that of the header and content in store.
ChecksumOk(s) == s.bad = {}

\* The packets the program can still get from the input, oldest first.
Readable(in, p) ==
  LET values == Ring!Contents(in.buffer[p]) IN [k \in DOMAIN values |-> values[k].pkt]

ReadableIds(in) ==
  UNION {{Id(Readable(in, p)[k]) : k \in DOMAIN Readable(in, p)} : p \in Priority}

-----------------------------------------------------------------------------
(* ShouldCommitInputPacket(), the session logic. Each case takes the packet  *)
(* received at e and the input stream `in` that has just completed it.       *)


\* Fault: any packet queued at the ACK's priority passes for the ACK.
AnyPacketIsAck(e, pkt) == out[e][Higher(pkt.p)] # << >>

\* IsACKCommittedForPacket() looks at sequence numbers only.
IsAckCommitted(e, pkt) ==
  \E k \in DOMAIN out[e][Higher(pkt.p)] : out[e][Higher(pkt.p)][k].seq = pkt.seq

\* ScheduleACKWithThrottling(): whether it succeeds, and the queues after it.
AckOk(e, pkt) == IsAckCommitted(e, pkt) \/ ~IsOutFull(e, Higher(pkt.p))
WithAck(e, pkt) ==
  IF IsAckCommitted(e, pkt) \/ ~AckOk(e, pkt) THEN out
  ELSE [out EXCEPT ![e][Higher(pkt.p)] = Append(@, AckFor(e, pkt))]

\* Before the handshake is done only handshake packets count.
RejectUntilHandshake(e, pkt, in) ==
  /\ ~done[e] /\ ~pkt.is_init
  /\ input' = [input EXCEPT ![e] = in]
  /\ UNCHANGED <<outVars, sessionVars, observed>>

\* Fault: every repetition of a handshake request counts as a start.
EveryRequestIsNew(e, pkt) == TRUE

\* A handshake request that does not repeat the last one.
NewlyStarted(e, pkt) == pkt.seq # lastInit[e]

\* The other end was started: its packets received so far are void. There
\* must be room for the ACK.
HandshakeRequest(e, pkt, in) ==
  /\ pkt.is_init /\ ~pkt.is_ack
  /\ input' = [input EXCEPT ![e] = ResetInput(in)]
  /\ lastRx' = [lastRx EXCEPT ![e] = [p \in Priority |-> None]]
  /\ forgotten' = forgotten \cup ReadableIds(in)
  /\ notified' = IF NewlyStarted(e, pkt)
                 THEN [notified EXCEPT ![e] = Append(@, pkt.seq)] ELSE notified
  /\ lastInit' = [lastInit EXCEPT ![e] = pkt.seq]
  /\ out' = WithAck(e, pkt)
  /\ halted' = [halted EXCEPT ![e] = ~AckOk(e, pkt)]
  /\ UNCHANGED <<seqNo, tx, start, done, acked, delivered>>

\* An ACK consumes the packet being retransmitted, if it is for that one; the
\* transmitter may be in the middle of sending it.
Acknowledgement(e, pkt, in) ==
  LET p == Lower(pkt.p)
      q == out[e][p]
      matches == q # << >> /\ q[1].requires_ack /\ q[1].seq = pkt.seq IN
  /\ pkt.is_ack
  /\ done[e] \/ pkt.is_init
  /\ done' = [done EXCEPT ![e] = @ \/ pkt.seq = HandshakeId(start[e])]
  /\ input' = [input EXCEPT ![e] = in]
  /\ IF matches
     THEN /\ out' = [out EXCEPT ![e][p] = Tail(@)]
          /\ tx' = [tx EXCEPT ![e].live = @ /\ tx[e].pkt.p # p]
          /\ acked' = acked \cup (IF q[1].is_init THEN {} ELSE {Id(q[1])})
     ELSE UNCHANGED <<out, tx, acked>>
  /\ UNCHANGED <<seqNo, start, lastInit, lastRx, halted, notified, delivered, forgotten>>

\* Fault: the last packet received is not recognised as a repetition.
AlreadyReceivedLate(e, pkt) ==
  lastRx[e][pkt.p] # None /\ pkt.seq < lastRx[e][pkt.p]

AlreadyReceived(e, pkt) ==
  lastRx[e][pkt.p] # None /\ pkt.seq <= lastRx[e][pkt.p]

\* A data packet: a reliable one is acknowledged, then dropped if it is a
\* repetition; what passes becomes visible to the program.
Data(e, pkt, in) ==
  LET accepted == [input EXCEPT ![e] = [in EXCEPT !.buffer[pkt.p] = Ring!Committed(@)]]
      repeated == AlreadyReceived(e, pkt) IN
  /\ done[e] /\ ~pkt.is_init /\ ~pkt.is_ack
  /\ \/ /\ ~pkt.requires_ack
        /\ input' = accepted
        /\ UNCHANGED <<out, lastRx>>
     \/ /\ pkt.requires_ack /\ ~AckOk(e, pkt)
        /\ input' = [input EXCEPT ![e] = in]
        /\ UNCHANGED <<out, lastRx>>
     \/ /\ pkt.requires_ack /\ AckOk(e, pkt) /\ repeated
        /\ input' = [input EXCEPT ![e] = in]
        /\ out' = WithAck(e, pkt)
        /\ UNCHANGED lastRx
     \/ /\ pkt.requires_ack /\ AckOk(e, pkt) /\ ~repeated
        /\ input' = accepted
        /\ out' = WithAck(e, pkt)
        /\ lastRx' = [lastRx EXCEPT ![e][pkt.p] = pkt.seq]
  /\ UNCHANGED <<seqNo, tx, start, done, lastInit, halted, observed>>

\* kReadingContent and kReadingFooter: the rest of the fragment. The packet it
\* completes goes to the session logic unless its checksum is wrong.
ReadBody(e) ==
  LET f == Head(wire[Other(e)])
      in == AfterBody(input[e], f)
      s == Stored(in, f.pkt.p) IN
  /\ input[e].state = "content"
  /\ wire' = [wire EXCEPT ![Other(e)] = Tail(@)]
  /\ \/ /\ ~f.footer \/ ~ChecksumOk(s)
        /\ input' = [input EXCEPT ![e] = in]
        /\ UNCHANGED <<outVars, sessionVars, observed>>
     \/ /\ f.footer /\ ChecksumOk(s)
        /\ \/ RejectUntilHandshake(e, s.pkt, in)
           \/ HandshakeRequest(e, s.pkt, in)
           \/ Acknowledgement(e, s.pkt, in)
           \/ Data(e, s.pkt, in)
  /\ UNCHANGED faults

\* The program takes the oldest packet of the highest priority.
Deliver(e) ==
  LET in == input[e]
      nonempty == {p \in Priority : in.buffer[p].size > 0} IN
  /\ nonempty # {}
  /\ LET p == CHOOSE p \in nonempty : \A q \in nonempty : p <= q IN
       /\ delivered' = [delivered EXCEPT ![e] = @ \cup {Id(Readable(in, p)[1])}]
       /\ input' = [input EXCEPT ![e].buffer[p] = Ring!Consumed(@, 0)]
  /\ UNCHANGED <<outVars, linkVars, sessionVars, notified, acked, forgotten>>

-----------------------------------------------------------------------------
(* The link and the ends as a whole *)

\* The header of the next fragment is damaged: its bytes mean nothing.
Lose(e) ==
  /\ faults < MaxFaults
  /\ wire[e] # << >>
  /\ input[Other(e)].state = "header"
  /\ wire' = [wire EXCEPT ![e] = Tail(@)]
  /\ faults' = faults + 1
  /\ UNCHANGED <<outVars, input, sessionVars, observed>>

\* Bytes of its content or footer are damaged.
Corrupt(e) ==
  /\ faults < MaxFaults
  /\ wire[e] # << >>
  /\ wire' = [wire EXCEPT ![e][1].intact = FALSE]
  /\ faults' = faults + 1
  /\ UNCHANGED <<outVars, input, sessionVars, observed>>

Queues(initPacket) == [p \in Priority |-> IF p = kHigh THEN <<initPacket>> ELSE << >>]

\* The end is reset and constructs its stream again. What it was sending stops
\* where it is; what it has not read survives in the byte stream or not, but
\* the rest of a fragment it was reading means nothing to the new start.
Restart(e) ==
  LET o == Other(e)
      n == start[e] + 1 IN
  /\ start[e] < MaxStarts[e]
  /\ out' = [out EXCEPT ![e] = Queues(InitPacket(e, n))]
  /\ seqNo' = [seqNo EXCEPT ![e] = [p \in Priority |-> 0]]
  /\ tx' = [tx EXCEPT ![e] = IdleTx]
  /\ input' = [input EXCEPT ![e] = NewInput]
  /\ start' = [start EXCEPT ![e] = n]
  /\ done' = [done EXCEPT ![e] = FALSE]
  /\ lastInit' = [lastInit EXCEPT ![e] = None]
  /\ lastRx' = [lastRx EXCEPT ![e] = [p \in Priority |-> None]]
  /\ halted' = [halted EXCEPT ![e] = FALSE]
  /\ notified' = [notified EXCEPT ![e] = << >>]
  /\ forgotten' = forgotten \cup ReadableIds(input[e]) \cup delivered[e]
  /\ delivered' = [delivered EXCEPT ![e] = {}]
  /\ \E survives \in BOOLEAN :
       wire' = [wire EXCEPT
         ![e] = IF tx[e].state = "burst"
                THEN Append(@, Fragment(tx[e].pkt, tx[e].units, FALSE)) ELSE @,
         ![o] = IF ~survives THEN << >>
                ELSE IF input[e].state = "content" THEN Tail(@) ELSE @]
  /\ UNCHANGED <<faults, acked>>

Init ==
  /\ out = [e \in Ends |-> Queues(InitPacket(e, 1))]
  /\ seqNo = [e \in Ends |-> [p \in Priority |-> 0]]
  /\ tx = [e \in Ends |-> IdleTx]
  /\ wire = [e \in Ends |-> << >>]
  /\ faults = 0
  /\ input = [e \in Ends |-> NewInput]
  /\ start = [e \in Ends |-> 1]
  /\ done = [e \in Ends |-> FALSE]
  /\ lastInit = [e \in Ends |-> None]
  /\ lastRx = [e \in Ends |-> [p \in Priority |-> None]]
  /\ halted = [e \in Ends |-> FALSE]
  /\ notified = [e \in Ends |-> << >>]
  /\ acked = {}
  /\ delivered = [e \in Ends |-> {}]
  /\ forgotten = {}

\* One step of the program at an end that has not halted.
Run(e) ==
  /\ ~halted[e]
  /\ \/ StartPacket(e) \/ SendUnit(e) \/ Preempt(e) \/ FinishPacket(e)
     \/ ReadHeader(e) \/ ReadBody(e) \/ Deliver(e)

Next ==
  \/ \E e \in Ends : Run(e) \/ Lose(e) \/ Corrupt(e) \/ Restart(e)
  \/ \E t \in Traffic : ~halted[t.from] /\ Commit(t)

\* run loops keep calling both streams and the program keeps reading; nothing
\* obliges a program to send or the link to lose.
Fairness ==
  \A e \in Ends :
    /\ WF_vars(~halted[e] /\ (StartPacket(e) \/ SendUnit(e) \/ Preempt(e) \/ FinishPacket(e)))
    /\ WF_vars(~halted[e] /\ (ReadHeader(e) \/ ReadBody(e)))
    /\ WF_vars(~halted[e] /\ Deliver(e))

Spec == Init /\ [][Next]_vars
FairSpec == Spec /\ Fairness

-----------------------------------------------------------------------------
(* Properties *)

PacketType ==
  [from : Ends, start : Nat, p : Priority, seq : Nat, requires_ack : BOOLEAN,
   is_ack : BOOLEAN, is_init : BOOLEAN, is_continuation : BOOLEAN,
   total : Nat, length : Nat]
StoredType == [pkt : PacketType, bad : SUBSET Nat]
InputType ==
  [state : {"header", "content"},
   buffer : [Priority -> [values : [0 .. InCapacity - 1 -> StoredType],
                          indices : [0 .. InCapacity - 1 -> 0 .. InCapacity - 1],
                          read : 0 .. InCapacity - 1, write : 0 .. InCapacity - 1,
                          size : 0 .. InCapacity - 1]],
   incoming : [Priority -> {None} \cup 0 .. InCapacity],
   offset : [Priority -> Nat],
   placeholder : StoredType]

\* Every queue keeps one slot of its ring buffer free, so NewPacket() never
\* hands out a slot that is queued, and no position leaves its array.
TypeOK ==
  /\ out \in [Ends -> [Priority -> Seq(PacketType)]]
  /\ \A e \in Ends, p \in Priority : Len(out[e][p]) < OutCapacity[e]
  /\ seqNo \in [Ends -> [Priority -> 0 .. MaxPackets]]
  /\ tx \in [Ends -> [state : {"next", "burst"}, pkt : PacketType, live : BOOLEAN,
                      pending : Nat, units : Nat]]
  /\ wire \in [Ends -> Seq([pkt : PacketType, units : Nat, footer : BOOLEAN,
                            intact : BOOLEAN])]
  /\ faults \in 0 .. MaxFaults
  /\ input \in [Ends -> InputType]
  /\ start \in [Ends -> Nat] /\ \A e \in Ends : start[e] \in 1 .. MaxStarts[e]
  /\ done \in [Ends -> BOOLEAN]
  /\ lastInit \in [Ends -> Nat \cup {None}]
  /\ lastRx \in [Ends -> [Priority -> Nat \cup {None}]]
  /\ halted \in [Ends -> BOOLEAN]
  /\ notified \in [Ends -> Seq(Nat)]

\* A reliable packet leaves the sender's queue because of an ACK only if the
\* other end has it: the program there took it or can still take it, unless
\* that end has been reset since. Old ACKs of an earlier start, repeated ACKs
\* and ACKs for packets the receiver then drops would all break this.
AckedIsKept ==
  \A e \in Ends : \A id \in acked :
    id.from # e => id \in delivered[e] \cup ReadableIds(input[e]) \cup forgotten

\* What a program reads from one start of the other end is in the order sent,
\* without repetitions, although packets are retransmitted, preempted,
\* continued and answered more than once.
InOrderOnce ==
  \A e \in Ends, p \in Priority :
    LET q == Readable(input[e], p)
        Before(a, b) == a.start < b.start \/ (a.start = b.start /\ a.seq < b.seq) IN
    /\ \A k \in DOMAIN q : \A j \in 1 .. k - 1 : Before(q[j], q[k])
    /\ \A k \in DOMAIN q : \A id \in delivered[e] : id.p = p => Before(id, q[k])

\* Once an end has seen the handshake of the other's current or an earlier
\* start, nothing sent by a previous start is readable.
OnlyCurrentSession ==
  \A e \in Ends : lastInit[e] # None =>
    \A id \in ReadableIds(input[e]) : HandshakeId(id.start) >= lastInit[e]

\* The listener hears of every start of the other end once, however often its
\* handshake request is repeated.
NotifiedOncePerStart ==
  \A e \in Ends : \A j, k \in DOMAIN notified[e] :
    j # k => notified[e][j] # notified[e][k]


\* Every reliable packet queued is eventually acknowledged, unless its sender is
\* started again: also when both ends send at the same priority and each waits
\* for the other's ACK, and when the packet or its ACK is lost.
EventuallyAcknowledged ==
  \A t \in {t \in Traffic : t.requires_ack} :
    \A seq \in 0 .. MaxPackets - 1, n \in 1 .. MaxStarts[t.from] :
      LET id == [from |-> t.from, start |-> n, p |-> t.p, seq |-> seq]
          InQueue == \E k \in DOMAIN out[t.from][t.p] : Id(out[t.from][t.p][k]) = id
      IN  InQueue ~> (id \in acked \/ start[t.from] # n)

\* A reliable packet accepted for the program has its ACK in the output queue
\* at once: the sender is not left to retransmit what was already received.
AckQueuedWhenAccepted ==
  [][\A e \in Ends, p \in Priority \ {0} :
       lastRx'[e][p] \notin {None, lastRx[e][p]} =>
         \E k \in DOMAIN out'[e][Higher(p)] :
           /\ out'[e][Higher(p)][k].is_ack
           /\ out'[e][Higher(p)][k].seq = lastRx'[e][p]]_vars

\* The streams implement a channel per sender and priority. A packet is pending
\* while the receiver's last sequence number is below it, whether or not its
\* sender has seen an ACK and however often it is on the wire.
ReliableSeqs(packets) ==
  LET reliable == Selected(packets, {k \in DOMAIN packets :
                    packets[k].requires_ack /\ ~packets[k].is_ack /\ ~packets[k].is_init})
  IN  [k \in DOMAIN reliable |-> reliable[k].seq]

Channel == Ends \X Priority

Outstanding ==
  [c \in Channel |->
     LET seqs == ReliableSeqs(out[c[1]][c[2]]) IN
     Selected(seqs, {k \in DOMAIN seqs : lastRx[Other(c[1])][c[2]] < seqs[k]})]

Buffered == [c \in Channel |-> ReliableSeqs(Readable(input[Other(c[1])], c[2]))]

Reliable == INSTANCE ReliableChannel WITH
  Message <- 0 .. MaxPackets - 1, pending <- Outstanding, arrived <- Buffered

\* Guaranteed delivery: exactly once and in order, while no end restarts.
GuaranteedDelivery == Reliable!Spec
=============================================================================
