----------------------- MODULE PacketStreamInvariants -----------------------
(***************************************************************************)
(* What PacketStream keeps true: the invariants that its theorems rest on, *)
(* the conditions on the two programs under which some of them hold, and   *)
(* what a step of the system does in their terms.                          *)
(*                                                                         *)
(* The invariant of the types and of NotifiedOncePerStart has two halves.  *)
(* That of the output stream: an end queues and sends packets of its       *)
(* current start only, and a packet that may still be broken off is in its *)
(* queue. That of the link and the input stream: the starts of the         *)
(* fragments on the wire do not go back, none is older than the handshake  *)
(* the receiver knows, and what a body is read into exists. The first half *)
(* is what makes the wire ordered, the order what makes a repeated         *)
(* handshake request different from a new one.                             *)
(*                                                                         *)
(* The other theorems are about a program that keeps up with its input     *)
(* (KeepsUp). Their invariant has these layers, each inductive relative to *)
(* the ones before:                                                        *)
(*   - FlowInv: the order in which packets lie in the queues, in the       *)
(*     transmitter and on the wire of an end;                              *)
(*   - Hold: no packet in store that is not in the slot reserved for it    *)
(*     can be accepted any more, so a commit exposes what was received;    *)
(*   - AcceptInv: what is accepted comes before what is still on its way;  *)
(*   - SessionInv: an end has an answer only if the other end has heard of *)
(*     its current start;                                                  *)
(*   - AcksInv: what the ACKs on their way say was received, or the end    *)
(*     they are sent to still waits for its answer and ignores them.       *)
(* While no end is started again, FirstInv says that a reliable packet on  *)
(* its way waits in its queue or has been received. The channels of        *)
(* ReliableChannel are then rising sequences of two sets of numbers, those *)
(* not received and those not read (Unreceived, Unread), and a step adds a *)
(* greatest number to one set or takes a least one from it.                *)
(***************************************************************************)
EXTENDS PacketStream, Induction

-----------------------------------------------------------------------------
(* Packets that the protocol makes: those that are answered have a         *)
(* priority above them for the answer, ACKs one below them for what they   *)
(* answer, and a handshake request bears the id of its start.              *)

IsRequest(pkt) == pkt.is_init /\ ~pkt.is_ack
Packets ==
  {pkt \in PacketType : /\ pkt.requires_ack \/ IsRequest(pkt) => pkt.p # 0
                        /\ pkt.is_ack => pkt.p # 3
                        /\ IsRequest(pkt) => pkt.seq = HandshakeId(pkt.start)}
PacketsOf(n, p) == {pkt \in Packets : pkt.start = n /\ pkt.p = p}

-----------------------------------------------------------------------------
(* Ring buffers.                                                           *)

Positions == 0 .. InCapacity - 1
Rings(V) == [values : [Positions -> V], indices : [Positions -> Positions],
             read : Positions, write : Positions, size : Positions]

-----------------------------------------------------------------------------
(* The input stream.                                                       *)

StoredPackets == [pkt : Packets, bad : SUBSET Nat]
Fragments == [pkt : Packets, units : Nat, footer : BOOLEAN, intact : BOOLEAN]
Inputs ==
  [state : {"header", "content"}, buffer : [Priority -> Rings(StoredPackets)],
   incoming : [Priority -> {None} \cup 0 .. InCapacity], offset : [Priority -> Nat],
   placeholder : StoredPackets]

-----------------------------------------------------------------------------
(* The output queues of an end in its n-th start.                          *)

QueuesOf(e, n) ==
  {q \in [Priority -> Seq(Packets)] :
     \A p \in Priority : q[p] \in Seq(PacketsOf(n, p)) /\ Len(q[p]) < OutCapacity[e]}

-----------------------------------------------------------------------------
(* The wire from an end in its n-th start: the starts of the fragments on  *)
(* it do not go back, and none is later than n.                            *)

Ordered(w, n) ==
  /\ \A k \in 1 .. Len(w) : w[k].pkt.start <= n
  /\ \A j, k \in 1 .. Len(w) : j <= k => w[j].pkt.start <= w[k].pkt.start

\* None is earlier than the handshake `id`.
NotBefore(w, id) == \A k \in 1 .. Len(w) : id <= HandshakeId(w[k].pkt.start)

-----------------------------------------------------------------------------
(* The inductive invariant.                                                *)

StartInv == start \in [Ends -> Nat] /\ \A e \in Ends : start[e] \in 1 .. MaxStarts[e]

CounterInv ==
  /\ seqNo \in [Ends -> [Priority -> 0 .. MaxPackets]]
  /\ faults \in 0 .. MaxFaults
  /\ done \in [Ends -> BOOLEAN]
  /\ lastRx \in [Ends -> [Priority -> Nat \cup {None}]]
  /\ halted \in [Ends -> BOOLEAN]

Transmitters ==
  [state : {"next", "burst"}, pkt : Packets, live : BOOLEAN, pending : Nat, units : Nat]

\* An end sends and queues packets of its current start only, and a packet being
\* sent that may still be continued is in its queue.
Sending(e) ==
  /\ out[e] \in QueuesOf(e, start[e])
  /\ tx[e].state = "burst" => tx[e].pkt.start = start[e]
  /\ tx[e].live => out[e][tx[e].pkt.p] # << >>

OutputInv ==
  /\ out \in [Ends -> [Priority -> Seq(Packets)]]
  /\ tx \in [Ends -> Transmitters]
  /\ \A e \in Ends : Sending(e)

\* The body being read is that of the first fragment, and has a place in store.
Reading(e) ==
  input[e].state = "content" =>
    /\ wire[Other(e)] # << >>
    /\ input[e].incoming[Head(wire[Other(e)]).pkt.p] # None

\* What an end knows of the other's starts is not ahead of them, and nothing on
\* its way is older than the last handshake.
Heard(e) ==
  /\ lastInit[e] <= HandshakeId(start[Other(e)])
  /\ NotBefore(wire[Other(e)], lastInit[e])
  /\ \A k \in DOMAIN notified[e] : notified[e][k] <= lastInit[e]
  /\ \A j, k \in DOMAIN notified[e] : j < k => notified[e][j] < notified[e][k]

LinkInv ==
  /\ wire \in [Ends -> Seq(Fragments)]
  /\ input \in [Ends -> Inputs]
  /\ lastInit \in [Ends -> Nat \cup {None}]
  /\ notified \in [Ends -> Seq(Nat)]
  /\ \A e \in Ends : Ordered(wire[e], start[e]) /\ Reading(e) /\ Heard(e)

IInv == StartInv /\ CounterInv /\ OutputInv /\ LinkInv

-----------------------------------------------------------------------------
(* The flow of packets from an end e in its n-th start: queued (q), being  *)
(* sent (x), on the wire (w), with the numbers c of its next packets.      *)

IsData(pkt) == ~pkt.is_ack /\ ~pkt.is_init
IsDataAck(pkt) == pkt.is_ack /\ ~pkt.is_init
IsAnswer(pkt) == pkt.is_ack /\ pkt.is_init

\* What every packet of the flow is like: ACKs are not acknowledged, and packets
\* of the current start were numbered before the next one.
Made(e, n, c, pkt) ==
  /\ pkt.from = e /\ pkt.start <= n
  /\ pkt.is_ack => ~pkt.requires_ack
  /\ IsDataAck(pkt) => pkt.seq < MaxPackets
  /\ IsAnswer(pkt) => pkt.p = 0 /\ pkt.seq >= MaxPackets
  /\ IsRequest(pkt) => pkt.requires_ack /\ pkt.p = kHigh
  /\ IsData(pkt) => /\ pkt.p # 0 /\ pkt.seq < MaxPackets
                    /\ pkt.start = n => pkt.seq < c[pkt.p]

\* In a queue a handshake request comes first and data packets are in order.
InOrder(a, b) == ~IsRequest(b) /\ (IsData(a) /\ IsData(b) => a.seq < b.seq)
QueueInOrder(s) == \A j, k \in 1 .. Len(s) : j < k => InOrder(s[j], s[k])

\* A packet being sent that is not in its queue any more was a reliable one.
SentInOrder(q, x) ==
  x.state = "burst" =>
    LET s == q[x.pkt.p] IN
    /\ x.live => AsCommitted(s[1]) = AsCommitted(x.pkt)
    /\ ~x.live => x.pkt.requires_ack /\ \A k \in 1 .. Len(s) : InOrder(x.pkt, s[k])
    /\ IsData(x.pkt) => \A k \in 1 .. Len(q[kHigh]) : ~IsRequest(q[kHigh][k])

\* What may come after a fragment of a data packet: the next data packets, that
\* packet again until its footer, and afterwards only if it is a reliable one.
Follows(f, pkt) ==
  IsData(f.pkt) /\ f.pkt.start = pkt.start =>
    /\ ~IsRequest(pkt)
    /\ IsData(pkt) /\ f.pkt.p = pkt.p =>
         /\ f.pkt.seq <= pkt.seq
         /\ f.footer /\ f.pkt.seq = pkt.seq => f.pkt.requires_ack /\ pkt.requires_ack

FlowOf(e, n, c, q, x, w) ==
  /\ \A k \in 1 .. Len(w) : Made(e, n, c, w[k].pkt)
  /\ x.state = "burst" => Made(e, n, c, x.pkt)
  /\ \A p \in Priority : \A k \in 1 .. Len(q[p]) : Made(e, n, c, q[p][k])
  /\ \A p \in Priority : QueueInOrder(q[p])
  /\ SentInOrder(q, x)
  /\ \A j, k \in 1 .. Len(w) : j < k => Follows(w[j], w[k].pkt)
  /\ \A j \in 1 .. Len(w) : x.state = "burst" => Follows(w[j], x.pkt)
  /\ \A j \in 1 .. Len(w), p \in Priority : \A k \in 1 .. Len(q[p]) : Follows(w[j], q[p][k])

Flow(e) == FlowOf(e, start[e], seqNo[e], out[e], tx[e], wire[e])
FlowInv == \A e \in Ends : Flow(e)

\* The types of the parts of a flow.
FlowType(e, n, c, q, x, w) ==
  /\ n \in Nat /\ c \in [Priority -> 0 .. MaxPackets]
  /\ q \in QueuesOf(e, n) /\ x \in Transmitters
  /\ x.state = "burst" => x.pkt.start = n
  /\ x.live => q[x.pkt.p] # << >>
  /\ w \in Seq(Fragments) /\ Ordered(w, n)

\* All that follows of two packets that were committed as the same one.
Same(a, b) == AsCommitted(a) = AsCommitted(b)

-----------------------------------------------------------------------------
(* Part of a wire, in order, and part of a queue, in order.                *)

Within(v, w) ==
  \E from \in [1 .. Len(v) -> 1 .. Len(w)] :
    /\ \A j, k \in 1 .. Len(v) : j < k => from[j] < from[k]
    /\ \A k \in 1 .. Len(v) : v[k].pkt = w[from[k]].pkt /\ v[k].footer = w[from[k]].footer

PartOf(t, s) ==
  \E from \in [1 .. Len(t) -> 1 .. Len(s)] :
    /\ \A j, k \in 1 .. Len(t) : j < k => from[j] < from[k]
    /\ \A k \in 1 .. Len(t) : Same(t[k], s[from[k]])

-----------------------------------------------------------------------------
(* The flows of both ends, step by step.                                   *)

\* The transmitter puts f on the wire and keeps q of its queues: in order, with a
\* handshake request if there was one, without an unreliable packet that is
\* complete and, after an answer to a handshake, without the ACKs before it.
SentOn(e, f, q) ==
  /\ tx[e].state = "burst" /\ f.pkt = tx[e].pkt
  /\ wire' = [wire EXCEPT ![e] = Append(@, f)]
  /\ out' = [out EXCEPT ![e] = q]
  /\ tx' = [tx EXCEPT ![e] = IdleTx]
  /\ UNCHANGED <<seqNo, faults, input, sessionVars, observed>>
  /\ \A p \in Priority : PartOf(q[p], out[e][p])
  /\ (\E k \in 1 .. Len(out[e][kHigh]) : IsRequest(out[e][kHigh][k])) =>
       \E k \in 1 .. Len(q[kHigh]) : IsRequest(q[kHigh][k])
  /\ f.footer /\ IsData(f.pkt) /\ ~f.pkt.requires_ack => PartOf(q[f.pkt.p], Tail(out[e][f.pkt.p]))
  /\ f.footer /\ IsAnswer(f.pkt) =>
       \A p \in Priority : \A k \in 1 .. Len(q[p]) : q[p][k].is_ack => q[p][k].seq = f.pkt.seq

\* The body of fragment f makes `in` of the input stream at e and s of what it is
\* read into.
Takes(e, f, in, s) ==
  /\ wire[Other(e)] # << >> /\ f = Head(wire[Other(e)]) /\ f = wire[Other(e)][1]
  /\ input[e].state = "content" /\ input[e].incoming[f.pkt.p] # None
  /\ in = AfterBody(input[e], f) /\ in.state = "header" /\ s = Stored(in, f.pkt.p)
  /\ wire' = [wire EXCEPT ![Other(e)] = Tail(@)] /\ faults' = faults
  /\ Made(Other(e), start[Other(e)], seqNo[Other(e)], f.pkt)

\* Packets that are answered.
Answerable(pkt) ==
  \/ IsRequest(pkt) /\ pkt.p = kHigh
  \/ IsData(pkt) /\ pkt.p # 0 /\ pkt.seq < MaxPackets

-----------------------------------------------------------------------------
(* Ring buffers that are only consumed at the front: positions and slots   *)
(* are the same, and what is readable lies between the read and write      *)
(* positions.                                                              *)

Wrap(k) == IF k < InCapacity THEN k ELSE k - InCapacity
Regular(rb) ==
  /\ rb \in Rings(StoredPackets) /\ rb.write = Wrap(rb.read + rb.size)
  /\ \A k \in Positions : rb.indices[k] = k
Free(rb) == rb.size < InCapacity - 1

\* The k-th packet a reader can see.
Shown(rb, k) == rb.values[Wrap(rb.read + k - 1)].pkt

\* Readers see the same in both.
SameShown(a, b) == /\ a.size = b.size /\ a.write = b.write
                   /\ \A k \in 1 .. b.size : Shown(a, k) = Shown(b, k)

-----------------------------------------------------------------------------
(* Input streams whose buffers are regular.                                *)

Stable(in) == \A p \in Priority : Regular(in.buffer[p])
SameView(a, b) == \A p \in Priority : SameShown(a.buffer[p], b.buffer[p])

-----------------------------------------------------------------------------
(* What is on its way from an end: on the wire, being sent or queued.      *)

OnWire(w) == {AsCommitted(w[k].pkt) : k \in 1 .. Len(w)}
InTx(x) == {b \in {AsCommitted(x.pkt)} : x.state = "burst"}
InQueues(q) == UNION {{AsCommitted(q[p][k]) : k \in 1 .. Len(q[p])} : p \in Priority}
Later(o) == InTx(tx[o]) \cup InQueues(out[o])
OnTheWay(o) == OnWire(wire[o]) \cup Later(o)

-----------------------------------------------------------------------------
(* What a step does to the flow from an end.                               *)

\* Nothing new: what is queued may be dropped, or be the next to be sent.
Quiet(o) ==
  /\ InQueues(out'[o]) \subseteq InQueues(out[o])
  /\ InTx(tx'[o]) \subseteq Later(o)
  /\ Within(wire'[o], wire[o])
  /\ start'[o] = start[o] /\ seqNo'[o] = seqNo[o]

\* A fragment goes on the wire.
Sends(o) ==
  /\ \E f \in Fragments :
       /\ tx[o].state = "burst" /\ f.pkt = tx[o].pkt
       /\ wire'[o] = Append(wire[o], f)
       /\ f.footer /\ IsAnswer(f.pkt) => \A b \in InQueues(out'[o]) : b.is_ack => b.seq = f.pkt.seq
  /\ InQueues(out'[o]) \subseteq InQueues(out[o]) /\ InTx(tx'[o]) = {}
  /\ start'[o] = start[o] /\ seqNo'[o] = seqNo[o]

\* A packet c is queued.
Adds(o, c) ==
  /\ InQueues(out'[o]) \subseteq InQueues(out[o]) \cup {AsCommitted(c)}
  /\ tx'[o] = tx[o] /\ wire'[o] = wire[o] /\ start'[o] = start[o]
  /\ c \in Packets /\ c.start = start[o]
  /\ \/ c.is_ack /\ seqNo'[o] = seqNo[o]
     \/ IsData(c) /\ c.seq = seqNo[o][c.p] /\ \A p \in Priority : seqNo'[o][p] >= seqNo[o][p]

\* The flow begins again with a handshake request.
Restarts(o) ==
  /\ \A b \in InQueues(out'[o]) : b \in Packets /\ IsRequest(b) /\ b.start = start'[o]
  /\ InTx(tx'[o]) = {} /\ start'[o] = start[o] + 1
  /\ \/ wire'[o] = wire[o]
     \/ \E f \in Fragments : /\ tx[o].state = "burst" /\ f.pkt = tx[o].pkt /\ ~f.footer
                             /\ wire'[o] = Append(wire[o], f)

Moves(o) == Quiet(o) \/ Sends(o) \/ (\E c : Adds(o, c)) \/ Restarts(o)

\* What is new on its way.
Fresh(o, b) ==
  \/ b.is_ack /\ b.start = start[o]
  \/ IsRequest(b) /\ b.start = start'[o] /\ start'[o] > start[o]
  \/ IsData(b) /\ b.start = start[o] /\ b.seq = seqNo[o][b.p]

-----------------------------------------------------------------------------
(* Packets in store. One that is not in the slot reserved for it cannot be *)
(* accepted any more.                                                      *)

\* s was made by o before what is made next.
Sent(o, s) == s.start <= start[o] /\ (IsData(s) /\ s.start = start[o] => s.seq < seqNo[o][s.p])

\* What is on its way of s is a repetition of what was received.
Past(e, s) ==
  \A b \in OnTheWay(Other(e)) :
    IsData(b) /\ Same(b, s) => b.requires_ack /\ lastRx[e][b.p] # None /\ b.seq <= lastRx[e][b.p]

Awaits(in, p) == in.incoming[p] = in.buffer[p].write /\ Free(in.buffer[p])
InStore(e, in, p) ==
  in.incoming[p] # None =>
    LET s == Stored(in, p).pkt IN Sent(Other(e), s) /\ (Awaits(in, p) \/ Past(e, s))
Held(e) == Stable(input[e]) /\ \A p \in Priority : InStore(e, input[e], p)

\* Nothing readable is older than the handshake.
Current(e) ==
  \A p \in Priority : \A k \in 1 .. input[e].buffer[p].size :
    HandshakeId(Shown(input[e].buffer[p], k).start) >= lastInit[e]

Hold == \A e \in Ends : Held(e) /\ Current(e)

\* The program takes packets out of a full input buffer before another that it
\* has to keep arrives: what then arrives is an ACK or a handshake, or repeats a
\* packet received, and takes the place of none that is readable.
KeepsUp ==
  \A e \in Ends :
    LET w == wire[Other(e)]
        pkt == Head(w).pkt
        rb == input[e].buffer[pkt.p] IN
    input[e].state = "header" /\ w # << >> /\ ~pkt.is_continuation /\ Ring!IsFull(rb) =>
      /\ pkt.is_ack \/ pkt.is_init \/ (pkt.requires_ack /\ AlreadyReceived(e, pkt))
      /\ pkt.requires_ack =>
           \A i \in 0 .. rb.size - 1 : Ring!OldestValue(rb, i).pkt.requires_ack

\* The last numbers received do not go back.
NotForgotten(e) ==
  \A p \in Priority :
    lastRx[e][p] # None => lastRx'[e][p] # None /\ lastRx'[e][p] >= lastRx[e][p]

-----------------------------------------------------------------------------
(* What reading the rest of a fragment does.                               *)

\* The session logic on data: the packet is passed to the program or not.
Passes(e, pkt, in) ==
  /\ input' = [input EXCEPT ![e] = [in EXCEPT !.buffer[pkt.p] = Ring!Committed(@)]]
  /\ pkt.requires_ack => /\ ~AlreadyReceived(e, pkt)
                         /\ lastRx' = [lastRx EXCEPT ![e] = [lastRx[e] EXCEPT ![pkt.p] = pkt.seq]]
                         /\ out' = WithAck(e, pkt)
  /\ ~pkt.requires_ack => lastRx' = lastRx /\ out' = out

\* A program sees in a what it saw in b and then pkt.
Gains(a, b, pkt) ==
  LET ring == a.buffer[pkt.p]
      old == b.buffer[pkt.p] IN
  /\ \A q \in Priority : q # pkt.p => SameShown(a.buffer[q], b.buffer[q])
  /\ ring.size = old.size + 1 /\ Shown(ring, old.size + 1) = pkt
  /\ \A k \in 1 .. old.size : Shown(ring, k) = Shown(old, k)

\* An input stream that has nothing in store.
Empty(in) ==
  /\ in \in Inputs /\ Stable(in)
  /\ \A p \in Priority : in.incoming[p] = None /\ in.buffer[p].size = 0

\* A program sees in a what it saw in b but the oldest packet of priority p.
Takes1(a, b, p) ==
  /\ \A q \in Priority : q # p => SameShown(a.buffer[q], b.buffer[q])
  /\ b.buffer[p].size > 0 /\ a.buffer[p].size = b.buffer[p].size - 1
  /\ \A k \in 1 .. b.buffer[p].size - 1 : Shown(a.buffer[p], k) = Shown(b.buffer[p], k + 1)

-----------------------------------------------------------------------------
(* What a step does to what the program at e has taken or can read.        *)

\* f is read to its end, and what is still on its way follows it.
Arrives(e, f) ==
  LET o == Other(e) IN
  /\ f \in Fragments /\ wire[o] # << >> /\ f = wire[o][1]
  /\ wire'[o] = Tail(wire[o]) /\ wire'[e] = wire[e] /\ UNCHANGED <<start, seqNo>>
  /\ OnTheWay(o)' = OnWire(Tail(wire[o])) \cup Later(o)

\* Nothing.
Keeps(e) ==
  SameView(input'[e], input[e]) /\ delivered'[e] = delivered[e] /\ lastRx'[e] = lastRx[e]

\* The program takes the oldest packet of a priority.
TakesOldest(e) ==
  /\ \E p \in Priority : /\ Takes1(input'[e], input[e], p)
                         /\ delivered'[e] = delivered[e] \cup {Id(Shown(input[e].buffer[p], 1))}
  /\ lastRx'[e] = lastRx[e]

\* The end is started.
Starts(e) ==
  /\ start'[e] = start[e] + 1
  /\ Empty(input'[e]) /\ delivered'[e] = {} /\ lastRx'[e] = [p \in Priority |-> None]
  /\ delivered[e] \cup ReadableIds(input[e]) \subseteq forgotten'

\* The end hears that the other was started.
Hears(e) ==
  /\ Empty(input'[e]) /\ delivered'[e] = delivered[e] /\ lastRx'[e] = [p \in Priority |-> None]
  /\ ReadableIds(input[e]) \subseteq forgotten'
  /\ \E f : Arrives(e, f) /\ IsRequest(f.pkt)

\* pkt, completed by f, becomes readable.
Accepts(e, f, pkt) ==
  /\ Arrives(e, f) /\ f.footer /\ Same(f.pkt, pkt)
  /\ pkt \in Packets /\ IsData(pkt) /\ Sent(Other(e), pkt)
  /\ Gains(input'[e], input[e], pkt) /\ delivered'[e] = delivered[e]
  /\ IF pkt.requires_ack
     THEN /\ ~AlreadyReceived(e, pkt) /\ lastRx'[e] = [lastRx[e] EXCEPT ![pkt.p] = pkt.seq]
     ELSE lastRx'[e] = lastRx[e]

\* What reading the rest of a fragment comes to.
Reads(e) ==
  \E f, pkt, in :
    /\ Arrives(e, f) /\ pkt \in Packets
    /\ \/ Keeps(e) /\ UNCHANGED <<out, tx, done, acked>>
       \/ Accepts(e, f, pkt) /\ UNCHANGED <<out, tx, done, acked>>
       \/ f.footer /\ Same(f.pkt, pkt) /\ Keeps(e) /\ Acknowledgement(e, pkt, in)
       \/ /\ f.footer /\ Same(f.pkt, pkt) /\ Answerable(pkt) /\ pkt.requires_ack
          /\ out' = WithAck(e, pkt) /\ UNCHANGED <<tx, done, acked>>
          /\ \/ Hears(e) /\ IsRequest(pkt)
             \/ Keeps(e) /\ IsData(pkt) /\ AlreadyReceived(e, pkt)
             \/ Accepts(e, f, pkt)

-----------------------------------------------------------------------------
(* What is accepted comes before what is still on its way.                 *)

\* What the program at e took or can read.
Accepted(e) == delivered[e] \cup ReadableIds(input[e])

Earlier(a, b) == a.start < b.start \/ (a.start = b.start /\ a.seq < b.seq)

\* b was sent after the packet with id a, or repeats it: then a was the last.
Passed(e, a, b) ==
  /\ a.start <= b.start
  /\ a.start = b.start =>
       /\ ~IsRequest(b)
       /\ IsData(b) /\ a.p = b.p =>
            a.seq <= b.seq /\ (a.seq = b.seq => b.requires_ack /\ lastRx[e][a.p] = a.seq)

\* a is the id of a packet of o.
Numbered(o, a) ==
  /\ a.from = o /\ a.start \in Nat /\ a.p \in Priority /\ a.seq \in Nat
  /\ a.start <= start[o] /\ (a.start = start[o] => a.seq < seqNo[o][a.p])

Settled(e, a) == Numbered(Other(e), a) /\ \A b \in OnTheWay(Other(e)) : Passed(e, a, b)

Settles(e) == \A a \in Accepted(e) : Settled(e, a)

\* What can be read is in the order sent, and later than what was taken.
InSequence(e) ==
  \A p \in Priority : \A k \in 1 .. input[e].buffer[p].size :
    LET s == Shown(input[e].buffer[p], k) IN
    /\ s.p = p
    /\ \A j \in 1 .. k - 1 : Earlier(Shown(input[e].buffer[p], j), s)
    /\ \A id \in delivered[e] : id.p = p => Earlier(id, s)

AcceptInv == DOMAIN delivered = Ends /\ \A e \in Ends : Settles(e) /\ InSequence(e)

-----------------------------------------------------------------------------
(* What a step does to the answers of an end and to what it knows.         *)

HasRequest(o) == \E k \in 1 .. Len(out[o][kHigh]) : IsRequest(out[o][kHigh][k])

\* It answers nothing and learns nothing.
Idles(e) ==
  /\ start'[e] = start[e] /\ done'[e] = done[e]
  /\ \A b \in Later(e)' : b.is_ack => b \in Later(e)
  /\ HasRequest(e) => HasRequest(e)'

-----------------------------------------------------------------------------
(* What the ends know of each other's starts.                              *)

Answers(b, n) == IsAnswer(b) /\ b.seq = HandshakeId(n)

\* The other end may have received the request of o's current start.
Known(o) ==
  (\E b \in OnTheWay(Other(o)) : Answers(b, start[o])) \/ ~HasRequest(o) \/ done[o]

\* No answer is ahead of the starts.
AnswersStarts(e) ==
  \A b \in OnTheWay(e) : IsAnswer(b) => b.seq <= HandshakeId(start[Other(e)])

\* What is on the wire ahead of a data packet is of the same start.
OneStart(o) ==
  \A j, k \in 1 .. Len(wire[o]) :
    j < k /\ IsData(wire[o][k].pkt) => wire[o][j].pkt.start = wire[o][k].pkt.start

IdOf(o, n, p, seq) == [from |-> o, start |-> n, p |-> p, seq |-> seq]

\* The last packet received at e is one of the n-th start of the other end.
LastIsOf(e, n, p) ==
  lastRx[e][p] # None => IdOf(Other(e), n, p, lastRx[e][p]) \in Accepted(e)

LastAccepted(e) ==
  LET w == wire[Other(e)] IN
  \A k \in 1 .. Len(w) : IsData(w[k].pkt) => LastIsOf(e, w[k].pkt.start, w[k].pkt.p)

Session(o) ==
  Known(o) =>
    /\ \A k \in 1 .. Len(wire[o]) : wire[o][k].pkt.start = start[o]
    /\ \A p \in Priority : LastIsOf(Other(o), start[o], p)

SessionInv == \A e \in Ends : AnswersStarts(e) /\ OneStart(e) /\ LastAccepted(e) /\ Session(e)

-----------------------------------------------------------------------------
(* What the ACKs on their way say is so, or cannot be taken for the        *)
(* current start's.                                                        *)

\* What e ever accepted, earlier starts included.
Kept(e) == Accepted(e) \cup forgotten

\* What b acknowledges was received from the other end's current start.
Justified(e, b) == IdOf(Other(e), start[Other(e)], Lower(b.p), b.seq) \in Kept(e)

\* The rest of a fragment with the answer to the other end's current start.
AnswersStart(e, f) == f.footer /\ Answers(f.pkt, start[Other(e)])

\* The other end has seen no answer, nor does one lie on the first n places.
Unanswered(e, n) ==
  ~done[Other(e)] /\ \A j \in 1 .. n : ~AnswersStart(e, wire[e][j])

Acks(e) ==
  /\ \A k \in 1 .. Len(wire[e]) :
       IsDataAck(wire[e][k].pkt) => Justified(e, wire[e][k].pkt) \/ Unanswered(e, k)
  /\ \A b \in Later(e) : IsDataAck(b) => Justified(e, b) \/ Unanswered(e, Len(wire[e]))

AcksInv == \A e \in Ends : Acks(e)

-----------------------------------------------------------------------------
(* The abstract channel in terms of sets.                                  *)

IsReliable(pkt) == IsData(pkt) /\ pkt.requires_ack

ReliableSet(s) == {s[k].seq : k \in {k \in 1 .. Len(s) : IsReliable(s[k])}}

\* The reliable packets in the queues of o, and those that the other end has not
\* received.
Waiting(o, p) == {b.seq : b \in {b \in InQueues(out[o]) : IsReliable(b) /\ b.p = p}}
Unreceived(o, p) == {m \in Waiting(o, p) : lastRx[Other(o)][p] < m}

\* The reliable packets that the program at e can read.
Unread(e, p) ==
  {Shown(input[e].buffer[p], k).seq :
     k \in {k \in 1 .. input[e].buffer[p].size : IsReliable(Shown(input[e].buffer[p], k))}}

-----------------------------------------------------------------------------
(* The first session, as long as no end is started again.                  *)

\* No end was started twice.
Unrestarted == \A e \in Ends : start[e] = 1

\* e received the reliable packet with that number, as far as it remembers.
Received(e, p, seq) == lastRx[e][p] # None /\ seq <= lastRx[e][p]

\* Everything is of the first start. A reliable packet on its way from o waits in
\* its queue unless it has been received, and so has what an ACK from o answers.
FirstSession(o) ==
  /\ \A b \in OnTheWay(o) :
       /\ b.start = 1
       /\ IsReliable(b) => b \in InQueues(out[o]) \/ Received(Other(o), b.p, b.seq)
       /\ IsDataAck(b) => Received(o, Lower(b.p), b.seq)
  /\ \A a \in Accepted(o) : a.start = 1
  /\ \A p \in Priority : LastIsOf(o, 1, p)
FirstInv == \A o \in Ends : FirstSession(o)

-----------------------------------------------------------------------------
(* What a step does to the channel of an end and a priority.               *)

ChannelKeeps(o, p) ==
  Unreceived(o, p)' = Unreceived(o, p) /\ Unread(Other(o), p)' = Unread(Other(o), p)

ChannelSends(o, p) ==
  \E m \in 0 .. MaxPackets - 1 :
    /\ \A x \in Unreceived(o, p) : x < m
    /\ Unreceived(o, p)' = Unreceived(o, p) \cup {m}
    /\ Unread(Other(o), p)' = Unread(Other(o), p)

ChannelPasses(o, p) ==
  \E m \in Unreceived(o, p) :
    /\ \A x \in Unreceived(o, p) : m <= x
    /\ \A x \in Unread(Other(o), p) : x < m
    /\ Unreceived(o, p)' = Unreceived(o, p) \ {m}
    /\ Unread(Other(o), p)' = Unread(Other(o), p) \cup {m}

ChannelGives(o, p) ==
  \E m \in Unread(Other(o), p) :
    /\ \A x \in Unread(Other(o), p) : m <= x
    /\ Unreceived(o, p)' = Unreceived(o, p)
    /\ Unread(Other(o), p)' = Unread(Other(o), p) \ {m}

ChannelMoves(o, p) ==
  ChannelKeeps(o, p) \/ ChannelSends(o, p) \/ ChannelPasses(o, p) \/ ChannelGives(o, p)

\* A step changes one channel, and as the abstract channel does.
OneMoves ==
  \E o \in Ends, p \in Priority :
    ChannelMoves(o, p) /\ \A d \in Ends, q \in Priority : d # o \/ q # p => ChannelKeeps(d, q)

\* The abstract channels are the rising sequences of the two sets.
ChannelView ==
  \A o \in Ends, p \in Priority :
    /\ Rises(Outstanding[<<o, p>>], Unreceived(o, p))
    /\ Rises(Buffered[<<o, p>>], Unread(Other(o), p))
=============================================================================
