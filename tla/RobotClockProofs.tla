--------------------------- MODULE RobotClockProofs ---------------------------
(***************************************************************************)
(* That the robot's clock is true, that no edge is lost or counted twice,  *)
(* that a wheel's speed stems from its last edges, and that the filter is  *)
(* given events in order, whatever the wrap, the buffer and the bounds.    *)
(*                                                                         *)
(* The first part is about the clock (IInv), the second about the types    *)
(* and the edges (AllInv), the third about the order (Ordering).           *)
(***************************************************************************)
EXTENDS RobotClock, SequenceTheorems, TLAPS, Induction

\* Where loop() has checked the overflow flag and not read the counter yet.
ReadPoints == {"poll", "registerIMU", "estimated", "leftRead", "rightRead"}

\* The types that the clock's argument needs.
Events == [type : {"edge", "command", "imu"}, wheel : Wheels \cup {"none"}, ticks : Int,
           at : 0 .. MaxTime, reversed : BOOLEAN, overflown : BOOLEAN]
ClockTypes ==
  /\ now \in 0 .. MaxTime /\ tof \in BOOLEAN /\ overflows \in Nat /\ enabled \in BOOLEAN
  /\ channels \in [Wheels -> [chf : BOOLEAN, at : 0 .. MaxTime, reversed : BOOLEAN]]
  /\ isr \in [at : {"off", "check", "stamp", "clear"}, wheel : Wheels, checked : Int]
  /\ loop \in [at : Points, checked : Int, speed : Int]
  /\ wheels \in [Wheels -> [edges : Int, speed : Int]]
  /\ read \in [ticks : Int, at : 0 .. MaxTime, checked : Int]
  /\ commanded \in [Wheels -> BOOLEAN] /\ notified \in [Wheels -> BOOLEAN]
  /\ buffer \in Seq(Events)

OverflowsCounted == overflows = (now \div Wrap) - (IF tof THEN 1 ELSE 0)

\* Between the check and the read nobody else counts an overflow: the interrupt is
\* disabled while loop() reads, and loop() is preempted while the interrupt does.
LoopReads ==
  loop.at \in ReadPoints => ~enabled /\ isr.at = "off" /\ overflows = loop.checked
IsrReads == isr.at = "stamp" => overflows = isr.checked

\* The parts of ClockTrue about a reading and about an event.
ReadingTrue(r) == r.ticks = r.at - (IF r.checked = r.at \div Wrap THEN 0 ELSE Wrap)
EventTrue(e) == (e.overflown <=> ~Right(e)) /\ (e.ticks - e.at) % Wrap = 0
BufferTrue == \A i \in DOMAIN buffer : EventTrue(buffer[i])

IInv ==
  ClockTypes /\ OverflowsCounted /\ LoopReads /\ IsrReads /\ ReadingTrue(read) /\ BufferTrue

-----------------------------------------------------------------------------
(* Arithmetic of the counter.                                               *)

LEMMA Divides ==
  ASSUME NEW n \in Nat
  PROVE  /\ n \div Wrap \in Nat /\ n % Wrap \in 0 .. Wrap - 1
         /\ n = (n \div Wrap) * Wrap + (n % Wrap)
  BY ClockAssumption, SMT

LEMMA NextWrap ==
  ASSUME NEW n \in Nat
  PROVE  (n + 1) \div Wrap = (n \div Wrap) + (IF (n + 1) % Wrap = 0 THEN 1 ELSE 0)
  <1>1. CASE (n + 1) % Wrap = 0
    <2>1. (n + 1) \div Wrap = (n \div Wrap) + 1
      BY <1>1, ClockAssumption, SMTT(30)
    <2> QED BY <1>1, <2>1
  <1>2. CASE (n + 1) % Wrap # 0
    <2>1. (n + 1) \div Wrap = n \div Wrap
      BY <1>2, ClockAssumption, SMTT(30)
    <2>2. n \div Wrap \in Nat
      BY Divides
    <2> QED BY <1>2, <2>1, <2>2
  <1> QED BY <1>1, <1>2

LEMMA WholeWraps ==
  ASSUME NEW q \in Int
  PROVE  (q * Wrap) % Wrap = 0
  BY ClockAssumption, SMTT(30)

\* A time made of a count of overflows and a counter: right exactly if the count is
\* that of the counter's wrap, and off by whole wraps otherwise.
LEMMA Composed ==
  ASSUME NEW q \in Nat, NEW n \in Nat
  PROVE  /\ q * Wrap + (n % Wrap) \in Nat
         /\ (q * Wrap + (n % Wrap) - n) % Wrap = 0
         /\ q = n \div Wrap <=> q * Wrap + (n % Wrap) = n
         /\ q + 1 = n \div Wrap => q * Wrap + (n % Wrap) = n - Wrap
  <1> DEFINE d == n \div Wrap
             m == n % Wrap
  <1>1. d \in Nat /\ m \in Nat /\ n = d * Wrap + m
    BY Divides, ClockAssumption
  <1>2. q * Wrap + m - n = (q - d) * Wrap
    <2> HIDE DEF d, m
    <2> QED BY <1>1, ClockAssumption, SMTT(30)
  <1>3. ((q - d) * Wrap) % Wrap = 0
    <2> HIDE DEF d, m
    <2> QED BY <1>1, WholeWraps
  <1>4. q * Wrap + m \in Nat
    <2> HIDE DEF d, m
    <2> QED BY <1>1, ClockAssumption, SMTT(30)
  <1>5. q = d <=> q * Wrap + m = n
    <2> HIDE DEF d, m
    <2> QED BY <1>1, <1>2, ClockAssumption, SMTT(30)
  <1>6. q + 1 = d => q * Wrap + m = n - Wrap
    <2> HIDE DEF d, m
    <2> QED BY <1>1, ClockAssumption, SMTT(30)
  <1> QED BY <1>2, <1>3, <1>4, <1>5, <1>6

\* The mask keeps all overflows of an instance.
LEMMA MaskKeeps ==
  ASSUME NEW n \in 0 .. MaxTime, NEW q \in Nat, q <= n \div Wrap
  PROVE  q % EdgeWraps = q
  <1> DEFINE d == n \div Wrap
  <1>1. d \in Nat /\ d * Wrap <= n
    BY Divides, ClockAssumption, SMT
  <1>2. d * Wrap < EdgeWraps * Wrap
    BY <1>1, WithinMask, ClockAssumption, SMT
  <1>3. d < EdgeWraps
    <2> HIDE DEF d
    <2> QED BY <1>1, <1>2, ClockAssumption, SMTT(30)
  <1>4. q < EdgeWraps
    BY <1>1, <1>3, ClockAssumption, SMT
  <1> QED BY <1>4, ClockAssumption, SMT

-----------------------------------------------------------------------------
(* The buffer.                                                              *)

\* A full buffer loses an event, and what is left is as true as it was.
LEMMA WriteKeeps ==
  ASSUME NEW q \in Seq(Events), NEW e \in Events, EventTrue(e),
         \A i \in DOMAIN q : EventTrue(q[i])
  PROVE  /\ Write(q, e) \in Seq(Events)
         /\ \A i \in DOMAIN Write(q, e) : EventTrue(Write(q, e)[i])
  <1> DEFINE kept == IF Len(q) = Capacity THEN Tail(q) ELSE q
  <1>1. kept \in Seq(Events) /\ \A i \in DOMAIN kept : EventTrue(kept[i])
    <2>1. CASE Len(q) = Capacity
      <3>1. q # << >>
        BY <2>1, ClockAssumption
      <3>2. Tail(q) \in Seq(Events) /\ Len(Tail(q)) = Len(q) - 1
        BY <3>1, HeadTailProperties
      <3>3. \A i \in 1 .. Len(Tail(q)) : Tail(q)[i] = q[i + 1]
        BY <3>1, HeadTailProperties
      <3>4. DOMAIN Tail(q) = 1 .. Len(Tail(q)) /\ DOMAIN q = 1 .. Len(q)
        BY <3>2
      <3> QED BY <2>1, <3>2, <3>3, <3>4
    <2>2. CASE Len(q) # Capacity
      BY <2>2
    <2> QED BY <2>1, <2>2
  <1>2. Write(q, e) = Append(kept, e)
    BY DEF Write
  <1> HIDE DEF kept
  <1>3. /\ Append(kept, e) \in Seq(Events)
        /\ Len(Append(kept, e)) = Len(kept) + 1
        /\ \A i \in 1 .. Len(kept) : Append(kept, e)[i] = kept[i]
        /\ Append(kept, e)[Len(kept) + 1] = e
    BY <1>1, AppendProperties
  <1>4. DOMAIN Append(kept, e) = 1 .. Len(kept) + 1 /\ DOMAIN kept = 1 .. Len(kept) /\ Len(kept) \in Nat
    BY <1>1, <1>3
  <1>5. ASSUME NEW i \in 1 .. Len(kept) + 1 PROVE EventTrue(Append(kept, e)[i])
    <2>1. CASE i = Len(kept) + 1
      BY <2>1, <1>3
    <2>2. CASE i # Len(kept) + 1
      BY <2>2, <1>1, <1>3, <1>4
    <2> QED BY <2>1, <2>2
  <1> QED BY <1>2, <1>3, <1>4, <1>5

\* What loop() reads is true.
LEMMA ReadsTrue ==
  ASSUME IInv, loop.at \in ReadPoints
  PROVE  /\ Reading(loop.checked) \in [ticks : Nat, at : 0 .. MaxTime, checked : Int]
         /\ ReadingTrue(Reading(loop.checked))
  <1>1. now \in 0 .. MaxTime /\ now \in Nat /\ overflows \in Nat /\ loop.checked \in Int
    BY ClockAssumption DEF IInv, ClockTypes
  <1>2. overflows = loop.checked
    BY DEF IInv, LoopReads
  <1>3. overflows = (now \div Wrap) - (IF tof THEN 1 ELSE 0)
    BY DEF IInv, OverflowsCounted
  <1>4. now \div Wrap \in Nat
    BY <1>1, Divides
  <1>5. Ticks \in Nat /\ (overflows = now \div Wrap <=> Ticks = now)
        /\ (overflows + 1 = now \div Wrap => Ticks = now - Wrap)
    BY <1>1, Composed DEF Ticks
  <1>6. overflows = now \div Wrap \/ overflows + 1 = now \div Wrap
    BY <1>1, <1>3, <1>4
  <1>7. ReadingTrue(Reading(loop.checked))
    BY <1>1, <1>2, <1>4, <1>5, <1>6, ClockAssumption DEF ReadingTrue, Reading
  <1> QED BY <1>1, <1>5, <1>7 DEF Reading

\* An event with a reading's time is true.
LEMMA ReadingEvent ==
  ASSUME NEW r \in [ticks : Int, at : 0 .. MaxTime, checked : Int], ReadingTrue(r),
         NEW type \in {"edge", "command", "imu"}, NEW w \in Wheels \cup {"none"}, NEW b \in BOOLEAN
  PROVE  /\ Event(type, w, r.ticks, r.at, r.checked, b) \in Events
         /\ EventTrue(Event(type, w, r.ticks, r.at, r.checked, b))
  <1>1. Event(type, w, r.ticks, r.at, r.checked, b) \in Events
    BY DEF Event, Events
  <1>2. r.ticks = r.at - (IF r.checked = r.at \div Wrap THEN 0 ELSE Wrap)
    BY DEF ReadingTrue
  <1>3. (r.checked # r.at \div Wrap) <=> (r.ticks # r.at)
    BY <1>2, ClockAssumption
  <1>4. r.ticks - r.at = 0 * Wrap \/ r.ticks - r.at = (-1) * Wrap
    BY <1>2, ClockAssumption
  <1>5. (0 * Wrap) % Wrap = 0 /\ ((-1) * Wrap) % Wrap = 0
    BY WholeWraps
  <1> QED BY <1>1, <1>3, <1>4, <1>5 DEF EventTrue, Event, Right

\* An edge's time is true.
LEMMA EdgeEvent ==
  ASSUME IInv, isr.at = "stamp", NEW c \in [chf : BOOLEAN, at : 0 .. MaxTime, reversed : BOOLEAN]
  PROVE  LET e == Event("edge", isr.wheel, EdgeTicks(c.at), c.at, isr.checked, c.reversed)
         IN e \in Events /\ EventTrue(e)
  <1> DEFINE e == Event("edge", isr.wheel, EdgeTicks(c.at), c.at, isr.checked, c.reversed)
  <1>1. now \in 0 .. MaxTime /\ now \in Nat /\ overflows \in Nat /\ isr.wheel \in Wheels
        /\ isr.checked = overflows /\ c.at \in Nat /\ c.at \in 0 .. MaxTime /\ c.reversed \in BOOLEAN
    BY ClockAssumption DEF IInv, ClockTypes, IsrReads
  <1>2. overflows <= now \div Wrap
    <2>1. overflows = (now \div Wrap) - (IF tof THEN 1 ELSE 0)
      BY DEF IInv, OverflowsCounted
    <2>2. now \div Wrap \in Nat
      BY <1>1, Divides
    <2> QED BY <1>1, <2>1, <2>2
  <1>3. overflows % EdgeWraps = overflows
    BY <1>1, <1>2, MaskKeeps
  <1>4. EdgeTicks(c.at) = overflows * Wrap + (c.at % Wrap)
    BY <1>3 DEF EdgeTicks
  <1>5. /\ EdgeTicks(c.at) \in Nat
        /\ (EdgeTicks(c.at) - c.at) % Wrap = 0
        /\ overflows = c.at \div Wrap <=> EdgeTicks(c.at) = c.at
    <2> DEFINE n == c.at
    <2> HIDE DEF n
    <2>1. n \in Nat
      BY <1>1 DEF n
    <2> DEFINE t == overflows * Wrap + (n % Wrap)
    <2>2. /\ overflows * Wrap + (n % Wrap) \in Nat
          /\ (overflows * Wrap + (n % Wrap) - n) % Wrap = 0
          /\ overflows = n \div Wrap <=> overflows * Wrap + (n % Wrap) = n
      BY <1>1, <2>1, Composed
    <2>3. EdgeTicks(n) = t
      BY <1>4 DEF n
    <2>5. t \in Nat /\ (t - n) % Wrap = 0 /\ (overflows = n \div Wrap <=> t = n)
      BY <1>1, <2>1, <2>2, ClockAssumption
    <2> HIDE DEF t
    <2>4. /\ EdgeTicks(n) \in Nat
          /\ (EdgeTicks(n) - n) % Wrap = 0
          /\ overflows = n \div Wrap <=> EdgeTicks(n) = n
      BY <2>3, <2>5
    <2> QED BY <2>4 DEF n
  <1>6. e \in Events
    BY <1>1, <1>5 DEF Event, Events
  <1>7. EventTrue(e)
    BY <1>1, <1>5 DEF EventTrue, Event, Right
  <1> QED BY <1>6, <1>7

-----------------------------------------------------------------------------
(* The steps.                                                               *)

LEMMA InitEstablishesIInv ==
  Init => IInv
  <1> SUFFICES ASSUME Init PROVE IInv
    OBVIOUS
  <1>1. 0 \div Wrap = 0 /\ 0 % Wrap = 0
    BY ClockAssumption, SMT
  <1>2. ClockTypes
    <2>1. 0 \in 0 .. MaxTime
      BY ClockAssumption
    <2>2. buffer \in Seq(Events)
      BY DEF Init
    <2>3. /\ channels \in [Wheels -> [chf : BOOLEAN, at : 0 .. MaxTime, reversed : BOOLEAN]]
          /\ read \in [ticks : Int, at : 0 .. MaxTime, checked : Int]
      BY <2>1 DEF Init, NoCapture, NoReading
    <2>4. /\ isr \in [at : {"off", "check", "stamp", "clear"}, wheel : Wheels, checked : Int]
          /\ loop \in [at : Points, checked : Int, speed : Int]
          /\ wheels \in [Wheels -> [edges : Int, speed : Int]]
          /\ commanded \in [Wheels -> BOOLEAN] /\ notified \in [Wheels -> BOOLEAN]
      BY DEF Init, Points, Wheels, None
    <2>5. now \in 0 .. MaxTime /\ tof \in BOOLEAN /\ overflows \in Nat /\ enabled \in BOOLEAN
      BY <2>1 DEF Init
    <2> QED BY <2>2, <2>3, <2>4, <2>5 DEF ClockTypes
  <1>3. OverflowsCounted /\ LoopReads /\ IsrReads
    BY <1>1 DEF Init, OverflowsCounted, LoopReads, IsrReads, ReadPoints
  <1>4. ReadingTrue(read)
    BY <1>1 DEF Init, ReadingTrue, NoReading
  <1>5. BufferTrue
    BY DEF Init, BufferTrue
  <1> QED BY <1>2, <1>3, <1>4, <1>5 DEF IInv

LEMMA NoReadingTrue ==
  NoReading \in [ticks : Int, at : 0 .. MaxTime, checked : Int] /\ ReadingTrue(NoReading)
  BY ClockAssumption, SMT DEF NoReading, ReadingTrue

\* A count of the overflow, by the interrupt or by loop().
LEMMA CountsOverflow ==
  ASSUME IInv, CheckOverflow, now' = now
  PROVE  /\ OverflowsCounted' /\ overflows' \in Nat /\ tof' \in BOOLEAN
         /\ overflows' = now \div Wrap
  <1>1. now \in Nat /\ overflows \in Nat /\ tof \in BOOLEAN
    BY ClockAssumption DEF IInv, ClockTypes
  <1>2. now \div Wrap \in Nat
    BY <1>1, Divides
  <1> DEFINE d == now \div Wrap
  <1>3. overflows = d - (IF tof THEN 1 ELSE 0) /\ d \in Nat
    BY <1>2 DEF IInv, OverflowsCounted
  <1>4. overflows' = overflows + (IF tof THEN 1 ELSE 0) /\ tof' = FALSE
    BY DEF CheckOverflow
  <1>5. now' \div Wrap = d
    OBVIOUS
  <1> HIDE DEF d
  <1>6. overflows' = d
    BY <1>1, <1>3, <1>4
  <1>7. OverflowsCounted'
    BY <1>3, <1>4, <1>5, <1>6 DEF OverflowsCounted
  <1> QED BY <1>3, <1>4, <1>6, <1>7 DEF d

LEMMA TickKeeps ==
  IInv /\ Tick => IInv'
  <1> SUFFICES ASSUME IInv, Tick PROVE IInv'
    OBVIOUS
  <1> USE DEF IInv
  <1>1. now \in Nat /\ now' = now + 1 /\ now' \in 0 .. MaxTime /\ tof' \in BOOLEAN
    BY ClockAssumption DEF Tick, ClockTypes
  <1>2. ClockTypes'
    BY <1>1 DEF Tick, ClockTypes
  <1>3. OverflowsCounted'
    <2>1. now' \div Wrap = (now \div Wrap) + (IF (now + 1) % Wrap = 0 THEN 1 ELSE 0)
      BY <1>1, NextWrap
    <2>2. now \div Wrap \in Nat
      BY <1>1, Divides
    <2>3. overflows = (now \div Wrap) - (IF tof THEN 1 ELSE 0) /\ tof \in BOOLEAN
      BY DEF OverflowsCounted, ClockTypes
    <2> DEFINE d == now \div Wrap
               next == now' \div Wrap
               wraps == (now + 1) % Wrap = 0
    <2>7. wraps \in BOOLEAN
      OBVIOUS
    <2>4. next = d + (IF wraps THEN 1 ELSE 0) /\ overflows = d - (IF tof THEN 1 ELSE 0) /\ d \in Nat
      BY <2>1, <2>2, <2>3
    <2>5. overflows' = overflows /\ (wraps => ~tof) /\ tof' = (tof \/ wraps)
      BY DEF Tick
    <2> HIDE DEF d, next, wraps
    <2>6. overflows' = next - (IF tof' THEN 1 ELSE 0)
      <3>1. CASE wraps
        <4>1. tof' = TRUE /\ tof = FALSE
          BY <2>3, <2>5, <3>1
        <4> QED BY <2>4, <2>5, <3>1, <4>1
      <3>2. CASE ~wraps
        <4>1. tof' = tof
          BY <2>3, <2>5, <2>7, <3>2
        <4> QED BY <2>4, <2>5, <3>2, <4>1
      <3> QED BY <3>1, <3>2
    <2> QED BY <2>6 DEF OverflowsCounted, next
  <1>4. LoopReads' /\ IsrReads' /\ ReadingTrue(read)' /\ BufferTrue'
    BY DEF Tick, LoopReads, IsrReads, ReadingTrue, BufferTrue, EventTrue, Right
  <1> QED BY <1>2, <1>3, <1>4

\* A step that leaves the clock, the reading and the buffer alone.
LEMMA OthersKeep ==
  ASSUME IInv, UNCHANGED <<clock, read, buffer>>, ClockTypes', LoopReads', IsrReads'
  PROVE  IInv'
  BY DEF IInv, clock, OverflowsCounted, ReadingTrue, BufferTrue, EventTrue, Right

LEMMA HardwareKeeps ==
  ASSUME IInv, NEW w \in Wheels, EncoderEdge(w)
  PROVE  IInv'
  <1>1. ClockTypes'
    BY DEF IInv, EncoderEdge, ClockTypes
  <1>2. LoopReads' /\ IsrReads'
    BY DEF IInv, EncoderEdge, LoopReads, IsrReads
  <1> QED BY <1>1, <1>2, OthersKeep DEF EncoderEdge, clock

LEMMA InterruptKeeps ==
  IInv /\ (Interrupt \/ FindEdge \/ NoEdge \/ StampEdge \/ ClearEdge) => IInv'
  <1> SUFFICES ASSUME IInv, Interrupt \/ FindEdge \/ NoEdge \/ StampEdge \/ ClearEdge PROVE IInv'
    OBVIOUS
  <1>0. ClockTypes /\ OverflowsCounted /\ LoopReads /\ IsrReads /\ ReadingTrue(read) /\ BufferTrue
    BY DEF IInv
  <1>1. CASE Interrupt
    <2>1. OverflowsCounted' /\ overflows' \in Nat /\ tof' \in BOOLEAN
      BY <1>1, CountsOverflow DEF Interrupt
    <2>2. ClockTypes'
      BY <1>0, <1>1, <2>1 DEF Interrupt, ClockTypes
    <2>3. LoopReads' /\ IsrReads'
      BY <1>0, <1>1 DEF Interrupt, Pending, LoopReads, IsrReads, ClockTypes
    <2>4. ReadingTrue(read)' /\ BufferTrue'
      BY <1>0, <1>1 DEF Interrupt, ReadingTrue, BufferTrue, EventTrue, Right
    <2> QED BY <2>1, <2>2, <2>3, <2>4 DEF IInv
  <1>2. CASE FindEdge
    <2>1. OverflowsCounted' /\ overflows' \in Nat /\ tof' \in BOOLEAN /\ overflows' = now \div Wrap
      BY <1>2, CountsOverflow DEF FindEdge
    <2>2. ClockTypes'
      BY <1>0, <1>2, <2>1 DEF FindEdge, ClockTypes
    <2>3. LoopReads' /\ IsrReads'
      BY <1>0, <1>2, <2>1 DEF FindEdge, LoopReads, IsrReads, ClockTypes
    <2>4. ReadingTrue(read)' /\ BufferTrue'
      BY <1>0, <1>2 DEF FindEdge, ReadingTrue, BufferTrue, EventTrue, Right
    <2> QED BY <2>1, <2>2, <2>3, <2>4 DEF IInv
  <1>3. CASE NoEdge
    <2>1. ClockTypes' /\ LoopReads' /\ IsrReads'
      BY <1>0, <1>3 DEF NoEdge, clock, AfterWheel, None, ClockTypes, LoopReads, IsrReads, Wheels
    <2> QED BY <1>3, <2>1, OthersKeep DEF NoEdge
  <1>4. CASE StampEdge
    <2> DEFINE c == channels[isr.wheel]
               e == Event("edge", isr.wheel, EdgeTicks(c.at), c.at, isr.checked, c.reversed)
    <2>1. c \in [chf : BOOLEAN, at : 0 .. MaxTime, reversed : BOOLEAN]
      BY <1>0 DEF ClockTypes
    <2>2. e \in Events /\ EventTrue(e)
      <3> HIDE DEF c
      <3> QED BY <1>4, <2>1, EdgeEvent DEF StampEdge
    <2>3. buffer' = Write(buffer, e)
      BY <1>4 DEF StampEdge
    <2>4. buffer' \in Seq(Events) /\ \A i \in DOMAIN buffer' : EventTrue(buffer'[i])
      <3> HIDE DEF e
      <3> QED BY <1>0, <2>2, <2>3, WriteKeeps DEF ClockTypes, BufferTrue
    <2>5. wheels' \in [Wheels -> [edges : Int, speed : Int]]
      BY <1>0, <1>4 DEF StampEdge, ClockTypes, NotifyEncoderEdge
    <2>6. isr' \in [at : {"off", "check", "stamp", "clear"}, wheel : Wheels, checked : Int] /\ isr'.at = "clear"
      BY <1>0, <1>4 DEF StampEdge, ClockTypes, None
    <2>7. ClockTypes'
      BY <1>0, <1>4, <2>4, <2>5, <2>6 DEF StampEdge, ClockTypes, clock
    <2>8. LoopReads' /\ IsrReads'
      BY <1>0, <1>4, <2>6 DEF StampEdge, LoopReads, IsrReads, clock
    <2>9. OverflowsCounted' /\ ReadingTrue(read)'
      BY <1>0, <1>4 DEF StampEdge, clock, OverflowsCounted, ReadingTrue
    <2>10. BufferTrue'
      BY <2>4 DEF BufferTrue, EventTrue, Right
    <2> QED BY <2>7, <2>8, <2>9, <2>10 DEF IInv
  <1>5. CASE ClearEdge
    <2>1. ClockTypes'
      BY <1>0, <1>5, ClockAssumption DEF ClearEdge, clock, AfterWheel, None, NoCapture, ClockTypes, Wheels
    <2>2. LoopReads' /\ IsrReads'
      BY <1>0, <1>5 DEF ClearEdge, clock, AfterWheel, None, LoopReads, IsrReads
    <2> QED BY <1>5, <2>1, <2>2, OthersKeep DEF ClearEdge
  <1> QED BY <1>1, <1>2, <1>3, <1>4, <1>5
-----------------------------------------------------------------------------
(* The steps of loop().                                                     *)

LEMMA BeginReadKeeps ==
  ASSUME IInv, NEW point, NEW next \in ReadPoints, BeginRead(point, next)
  PROVE  IInv'
  <1>1. OverflowsCounted' /\ overflows' \in Nat /\ tof' \in BOOLEAN /\ overflows' = now \div Wrap
    BY CountsOverflow DEF BeginRead
  <1>2. ClockTypes /\ BufferTrue
    BY DEF IInv
  <1>3. loop' \in [at : Points, checked : Int, speed : Int] /\ loop'.checked = overflows'
    BY <1>1, <1>2 DEF BeginRead, ReadPoints, Points
  <1>4. ClockTypes'
    BY <1>1, <1>2, <1>3, NoReadingTrue DEF BeginRead, ClockTypes
  <1>5. LoopReads' /\ IsrReads'
    BY <1>3 DEF BeginRead, At, LoopReads, IsrReads
  <1>6. ReadingTrue(read)'
    BY NoReadingTrue DEF BeginRead, ReadingTrue, NoReading
  <1>7. BufferTrue'
    BY <1>2 DEF BeginRead, BufferTrue, EventTrue, Right
  <1> QED BY <1>1, <1>4, <1>5, <1>6, <1>7 DEF IInv

\* A step of loop() to a point where it does not read, which leaves the counts and
\* the interrupt alone and keeps the reading and the buffer true.
LEMMA LoopKeeps ==
  ASSUME IInv, NEW point \in Points \ ReadPoints, GoTo(point),
         UNCHANGED <<now, tof, overflows, channels, isr>>, enabled' \in BOOLEAN,
         wheels' \in [Wheels -> [edges : Int, speed : Int]],
         commanded' \in [Wheels -> BOOLEAN], notified' \in [Wheels -> BOOLEAN],
         read' \in [ticks : Int, at : 0 .. MaxTime, checked : Int], ReadingTrue(read'),
         buffer' \in Seq(Events), \A i \in DOMAIN buffer' : EventTrue(buffer'[i])
  PROVE  IInv'
  <1>1. loop' \in [at : Points, checked : Int, speed : Int] /\ loop'.at = point
    BY DEF GoTo, None
  <1>2. ClockTypes'
    BY <1>1 DEF IInv, ClockTypes
  <1>3. OverflowsCounted' /\ LoopReads' /\ IsrReads'
    BY <1>1 DEF IInv, OverflowsCounted, LoopReads, IsrReads
  <1>4. ReadingTrue(read)'
    BY DEF ReadingTrue
  <1>5. BufferTrue'
    BY DEF BufferTrue, EventTrue, Right
  <1> QED BY <1>2, <1>3, <1>4, <1>5 DEF IInv

\* What LoopKeeps asks of the variables that a step leaves alone.
LEMMA Unchanged ==
  ASSUME IInv
  PROVE  /\ wheels \in [Wheels -> [edges : Int, speed : Int]]
         /\ commanded \in [Wheels -> BOOLEAN] /\ notified \in [Wheels -> BOOLEAN]
         /\ read \in [ticks : Int, at : 0 .. MaxTime, checked : Int] /\ ReadingTrue(read)
         /\ buffer \in Seq(Events) /\ \A i \in DOMAIN buffer : EventTrue(buffer[i])
         /\ enabled \in BOOLEAN
  BY DEF IInv, ClockTypes, BufferTrue

LEMMA UpdateKeeps ==
  ASSUME IInv, UpdateLeft \/ StoreLeft \/ UpdateRight \/ StoreRight \/ SkipUpdate
  PROVE  IInv'
  <1>0. ClockTypes /\ OverflowsCounted /\ LoopReads /\ IsrReads /\ ReadingTrue(read) /\ BufferTrue
    BY DEF IInv
  <1>1. ASSUME NEW w \in Wheels, NEW point, NEW next \in Points \ ReadPoints, UpdateState(w, point, next)
        PROVE  IInv'
    <2>1. loop' \in [at : Points, checked : Int, speed : Int] /\ loop'.at = next
      BY <1>0, <1>1 DEF UpdateState, ClockTypes, None
    <2>2. ClockTypes'
      BY <1>0, <1>1, <2>1 DEF UpdateState, UpdateDisablesIrq, ClockTypes, clock
    <2>3. LoopReads' /\ IsrReads'
      BY <1>0, <1>1, <2>1 DEF UpdateState, At, LoopReads, IsrReads, clock
    <2> QED BY <1>1, <2>2, <2>3, OthersKeep DEF UpdateState
  <1>2. ASSUME NEW w \in Wheels, NEW point, NEW next \in Points \ ReadPoints, StoreSpeed(w, point, next)
        PROVE  IInv'
    <2>1. wheels' \in [Wheels -> [edges : Int, speed : Int]]
      BY <1>0, <1>2 DEF StoreSpeed, ClockTypes
    <2> QED BY <1>2, <2>1, LoopKeeps, Unchanged DEF StoreSpeed, clock
  <1>3. {"storeLeft", "updateRight", "storeRight", "estimator"} \subseteq Points \ ReadPoints
    BY DEF Points, ReadPoints
  <1>4. CASE UpdateLeft \/ UpdateRight
    BY <1>1, <1>3, <1>4 DEF UpdateLeft, UpdateRight, Wheels
  <1>5. CASE StoreLeft \/ StoreRight
    BY <1>2, <1>3, <1>5 DEF StoreLeft, StoreRight, Wheels
  <1>6. CASE SkipUpdate
    BY <1>3, <1>6, LoopKeeps, Unchanged DEF SkipUpdate, clock
  <1> QED BY <1>4, <1>5, <1>6

LEMMA ReadKeeps ==
  ASSUME IInv, Poll \/ RegisterIMUEvent \/ EstimateNow \/ ReadLeft \/ ReadRight
  PROVE  IInv'
  <1> DEFINE r == Reading(loop.checked)
  <1>1. loop.at \in ReadPoints
    BY DEF Poll, RegisterIMUEvent, EstimateNow, ReadLeft, ReadRight, ReadDirection, EndRead, At, ReadPoints
  <1>2. r \in [ticks : Nat, at : 0 .. MaxTime, checked : Int] /\ ReadingTrue(r)
    BY <1>1, ReadsTrue
  <1>3. r \in [ticks : Int, at : 0 .. MaxTime, checked : Int]
    BY <1>2
  <1>4. read' = r /\ enabled' \in BOOLEAN
    BY DEF Poll, RegisterIMUEvent, EstimateNow, ReadLeft, ReadRight, ReadDirection, EndRead
  <1>5. r.ticks = Ticks /\ r.at = now /\ r.checked = loop.checked
    BY DEF Reading
  <1>6. {"imu", "drain", "left", "leftNotify", "rightNotify"} \subseteq Points \ ReadPoints
    BY DEF Points, ReadPoints
  <1> HIDE DEF r
  <1>7. CASE Poll
    <2>1. PICK next \in {"imu", "drain"} : GoTo(next)
      BY <1>7 DEF Poll
    <2> QED BY <1>3, <1>2, <1>4, <1>6, <1>7, <2>1, LoopKeeps, Unchanged DEF Poll, clock
  <1>8. CASE RegisterIMUEvent
    <2> DEFINE e == Event("imu", "none", r.ticks, r.at, r.checked, FALSE)
    <2>1. e \in Events /\ EventTrue(e)
      BY <1>2, <1>3, ReadingEvent
    <2>2. buffer' = Write(buffer, e)
      BY <1>5, <1>8 DEF RegisterIMUEvent
    <2> HIDE DEF e
    <2>3. buffer' \in Seq(Events) /\ \A i \in DOMAIN buffer' : EventTrue(buffer'[i])
      BY <2>1, <2>2, WriteKeeps, Unchanged
    <2> QED BY <1>2, <1>3, <1>4, <1>6, <1>8, <2>3, LoopKeeps, Unchanged DEF RegisterIMUEvent, clock
  <1>9. CASE EstimateNow
    BY <1>2, <1>3, <1>4, <1>6, <1>9, LoopKeeps, Unchanged DEF EstimateNow, clock
  <1>10. ASSUME NEW w \in Wheels, NEW point, NEW next \in Points \ ReadPoints, ReadDirection(w, point, next)
         PROVE  IInv'
    <2>1. notified' \in [Wheels -> BOOLEAN]
      <3>1. notified' = [notified EXCEPT ![w] = commanded[w]]
        BY <1>10 DEF ReadDirection
      <3>2. commanded[w] \in BOOLEAN
        BY Unchanged
      <3> QED BY <3>1, <3>2, Unchanged
    <2> QED BY <1>2, <1>3, <1>4, <1>10, <2>1, LoopKeeps, Unchanged DEF ReadDirection, clock
  <1>11. CASE ReadLeft \/ ReadRight
    BY <1>6, <1>10, <1>11 DEF ReadLeft, ReadRight, Wheels
  <1> QED BY <1>7, <1>8, <1>9, <1>11

LEMMA DrainKeeps ==
  ASSUME IInv, ProcessEvents \/ NoEvents
  PROVE  IInv'
  <1>1. "left" \in Points \ ReadPoints /\ "estimate" \in Points \ ReadPoints
    BY DEF Points, ReadPoints
  <1>2. read' = NoReading /\ enabled' = enabled /\ UNCHANGED <<now, tof, overflows, channels, isr>>
        /\ UNCHANGED <<wheels, commanded, notified>>
    BY DEF ProcessEvents, NoEvents, clock
  <1>3. buffer' \in Seq(Events) /\ \A i \in DOMAIN buffer' : EventTrue(buffer'[i])
    <2>1. CASE ProcessEvents
      BY <2>1 DEF ProcessEvents
    <2>2. CASE NoEvents
      BY <2>2, Unchanged DEF NoEvents
    <2> QED BY <2>1, <2>2
  <1>4. GoTo("left") \/ GoTo("estimate")
    BY DEF ProcessEvents, NoEvents
  <1>5. /\ read' \in [ticks : Int, at : 0 .. MaxTime, checked : Int] /\ ReadingTrue(read')
        /\ enabled' \in BOOLEAN
        /\ wheels' \in [Wheels -> [edges : Int, speed : Int]]
        /\ commanded' \in [Wheels -> BOOLEAN] /\ notified' \in [Wheels -> BOOLEAN]
    BY <1>2, NoReadingTrue, Unchanged
  <1> QED BY <1>1, <1>2, <1>3, <1>4, <1>5, LoopKeeps

LEMMA NotifyKeeps ==
  ASSUME IInv, NotifyLeftMotorDirection \/ NotifyRightMotorDirection
  PROVE  IInv'
  <1>1. ASSUME NEW w \in Wheels, NEW point, NEW next \in Points \ ReadPoints,
               NotifyMotorDirection(w, point), GoTo(next)
        PROVE  IInv'
    <2> DEFINE e == Event("command", w, read.ticks, read.at, read.checked, commanded[w])
    <2>1. e \in Events /\ EventTrue(e)
      BY ReadingEvent, Unchanged
    <2>2. buffer' = Write(buffer, e)
      BY <1>1 DEF NotifyMotorDirection
    <2> HIDE DEF e
    <2>3. buffer' \in Seq(Events) /\ \A i \in DOMAIN buffer' : EventTrue(buffer'[i])
      BY <2>1, <2>2, WriteKeeps, Unchanged
    <2> QED BY <1>1, <2>3, NoReadingTrue, LoopKeeps, Unchanged DEF NotifyMotorDirection, clock
  <1>2. "right" \in Points \ ReadPoints /\ "leftRun" \in Points \ ReadPoints
    BY DEF Points, ReadPoints
  <1> QED BY <1>1, <1>2 DEF NotifyLeftMotorDirection, NotifyRightMotorDirection, Wheels

LEMMA RunKeeps ==
  ASSUME IInv, RunLeftWheel \/ RunRightWheel
  PROVE  IInv'
  <1>1. ASSUME NEW w \in Wheels, NEW point, NEW next \in Points \ ReadPoints, RunWheel(w, point), GoTo(next)
        PROVE  IInv'
    <2>1. commanded' \in [Wheels -> BOOLEAN]
      <3>1. PICK b \in Backward[w] \cup {commanded[w]} : commanded' = [commanded EXCEPT ![w] = b]
        BY <1>1 DEF RunWheel
      <3>2. b \in BOOLEAN
        BY <3>1, Unchanged, ClockAssumption DEF Wheels
      <3> QED BY <3>1, <3>2, Unchanged
    <2> QED BY <1>1, <2>1, LoopKeeps, Unchanged DEF RunWheel, clock
  <1>2. "rightRun" \in Points \ ReadPoints /\ "start" \in Points \ ReadPoints
    BY DEF Points, ReadPoints
  <1> QED BY <1>1, <1>2 DEF RunLeftWheel, RunRightWheel, Wheels

-----------------------------------------------------------------------------
LEMMA NextKeepsIInv ==
  IInv /\ [Next]_vars => IInv'
  <1> SUFFICES ASSUME IInv, [Next]_vars PROVE IInv'
    OBVIOUS
  <1>1. CASE Tick
    BY <1>1, TickKeeps
  <1>2. CASE \E w \in Wheels : EncoderEdge(w)
    BY <1>2, HardwareKeeps
  <1>3. CASE Interrupt \/ FindEdge \/ NoEdge \/ StampEdge \/ ClearEdge
    BY <1>3, InterruptKeeps
  <1>4. CASE UpdateLeft \/ StoreLeft \/ UpdateRight \/ StoreRight \/ SkipUpdate
    BY <1>4, UpdateKeeps
  <1>5. CASE BeginPoll \/ BeginIMU \/ BeginEstimate \/ BeginLeft \/ BeginRight
    <2>1. {"poll", "registerIMU", "estimated", "leftRead", "rightRead"} \subseteq ReadPoints
      BY DEF ReadPoints
    <2> QED BY <1>5, <2>1, BeginReadKeeps DEF BeginPoll, BeginIMU, BeginEstimate, BeginLeft, BeginRight
  <1>6. CASE Poll \/ RegisterIMUEvent \/ EstimateNow \/ ReadLeft \/ ReadRight
    BY <1>6, ReadKeeps
  <1>7. CASE ProcessEvents \/ NoEvents
    BY <1>7, DrainKeeps
  <1>8. CASE NotifyLeftMotorDirection \/ NotifyRightMotorDirection
    BY <1>8, NotifyKeeps
  <1>9. CASE RunLeftWheel \/ RunRightWheel
    BY <1>9, RunKeeps
  <1>10. CASE UNCHANGED vars
    <2>1. ClockTypes' /\ LoopReads' /\ IsrReads'
      BY <1>10 DEF vars, IInv, ClockTypes, LoopReads, IsrReads
    <2> QED BY <1>10, <2>1, OthersKeep DEF vars, clock
  <1> QED BY <1>1, <1>2, <1>3, <1>4, <1>5, <1>6, <1>7, <1>8, <1>9, <1>10 DEF Next

LEMMA IInvGivesClockTrue ==
  IInv => ClockTrue
  BY DEF IInv, ClockTrue, OverflowsCounted, ReadingTrue, BufferTrue, EventTrue, Right

\* For every length of a wrap and every interleaving of the counter, the interrupt and
\* loop(): each overflow is counted once, and a time is wrong only as ClockTrue says.
THEOREM ClockTrueAlways == Spec => []ClockTrue
  <1>1. Init => IInv
    BY InitEstablishesIInv
  <1>2. IInv /\ [Next]_vars => IInv'
    BY NextKeepsIInv
  <1>3. IInv => ClockTrue
    BY IInvGivesClockTrue
  <1> QED BY <1>1, <1>2, <1>3, PTL DEF Spec
-----------------------------------------------------------------------------
(* The types.                                                               *)

EventRecords ==
  {e \in [type : {"edge", "command", "imu"}, wheel : Wheels \cup {"none"}, ticks : Nat,
          at : 0 .. MaxTime, reversed : BOOLEAN, overflown : BOOLEAN] : e.type # "imu" => e.wheel \in Wheels}
FilterRecords == [time : Nat, firm : BOOLEAN, underflow : BOOLEAN,
                  wrong : BOOLEAN, backward : [Wheels -> BOOLEAN], count : [Wheels -> Nat]]
Results == [filter : FilterRecords, merged : BOOLEAN]

\* What IInv does not say of the types.
Types ==
  /\ isr.checked \in 0 .. MaxTime \cup {None}
  /\ loop.checked \in 0 .. MaxTime \cup {None} /\ loop.speed \in Nat
  /\ read \in [ticks : Nat, at : 0 .. MaxTime, checked : 0 .. MaxTime]
  /\ buffer \in Seq(EventRecords) /\ Len(buffer) <= Capacity
  /\ wheels \in [Wheels -> [edges : Nat, speed : Nat]]
  /\ filter \in FilterRecords
  /\ dropped \in [Wheels -> [edges : Nat, command : BOOLEAN]]
  /\ edges \in 0 .. MaxEdges /\ passes \in 0 .. MaxPasses

-----------------------------------------------------------------------------
(* The buffer.                                                              *)

\* A full buffer gives way to the written event.
LEMMA WriteIs ==
  ASSUME NEW q \in Seq(EventRecords), NEW e \in EventRecords, Len(q) <= Capacity
  PROVE  /\ Write(q, e) \in Seq(EventRecords) /\ Len(Write(q, e)) <= Capacity
         /\ Len(q) = Capacity =>
              /\ Len(Write(q, e)) = Len(q)
              /\ \A i \in 1 .. Len(q) - 1 : Write(q, e)[i] = q[i + 1]
              /\ Write(q, e)[Len(q)] = e
              /\ q[1] \in EventRecords /\ Drops(q) = {q[1]}
         /\ Len(q) # Capacity =>
              /\ Len(Write(q, e)) = Len(q) + 1
              /\ \A i \in 1 .. Len(q) : Write(q, e)[i] = q[i]
              /\ Write(q, e)[Len(q) + 1] = e
              /\ Drops(q) = {}
  <1>0. Len(q) \in Nat /\ Capacity \in Nat \ {0}
    BY LenProperties, ClockAssumption
  <1>1. CASE Len(q) = Capacity
    <2>1. q # << >> /\ q[1] \in EventRecords
      BY <1>0, <1>1, ElementOfSeq
    <2>2. /\ Tail(q) \in Seq(EventRecords) /\ Len(Tail(q)) = Len(q) - 1
          /\ \A i \in 1 .. Len(Tail(q)) : Tail(q)[i] = q[i + 1]
      BY <2>1, HeadTailProperties
    <2>3. /\ Append(Tail(q), e) \in Seq(EventRecords)
          /\ Len(Append(Tail(q), e)) = Len(Tail(q)) + 1
          /\ \A i \in 1 .. Len(Tail(q)) : Append(Tail(q), e)[i] = Tail(q)[i]
          /\ Append(Tail(q), e)[Len(Tail(q)) + 1] = e
      BY <2>2, AppendProperties
    <2>4. Write(q, e) = Append(Tail(q), e) /\ Drops(q) = {q[1]}
      BY <1>1 DEF Write, Drops
    <2> QED BY <1>0, <1>1, <2>1, <2>2, <2>3, <2>4
  <1>2. CASE Len(q) # Capacity
    <2>1. /\ Append(q, e) \in Seq(EventRecords)
          /\ Len(Append(q, e)) = Len(q) + 1
          /\ \A i \in 1 .. Len(q) : Append(q, e)[i] = q[i]
          /\ Append(q, e)[Len(q) + 1] = e
      BY AppendProperties
    <2>2. Write(q, e) = Append(q, e) /\ Drops(q) = {}
      BY <1>2 DEF Write, Drops
    <2> QED BY <1>0, <1>2, <2>1, <2>2
  <1> QED BY <1>1, <1>2

\* Whose edge an event is, and how many of a wheel are among the first of a sequence.
EdgeOf(e, w) == e.type = "edge" /\ e.wheel = w
EdgesUpTo(q, w, k) == Cardinality({i \in 1 .. k : EdgeOf(q[i], w)})

LEMMA CountNone ==
  ASSUME NEW q, NEW w
  PROVE  EdgesUpTo(q, w, 0) = 0
  <1>1. {i \in 1 .. 0 : EdgeOf(q[i], w)} = {}
    OBVIOUS
  <1> QED BY <1>1, FS_EmptySet DEF EdgesUpTo

LEMMA CountNext ==
  ASSUME NEW q, NEW w, NEW k \in Nat
  PROVE  /\ EdgesUpTo(q, w, k) \in Nat
         /\ EdgesUpTo(q, w, k + 1) = EdgesUpTo(q, w, k) + (IF EdgeOf(q[k + 1], w) THEN 1 ELSE 0)
  <1> DEFINE S(n) == {i \in 1 .. n : EdgeOf(q[i], w)}
  <1>1. IsFiniteSet(S(k))
    <2>1. IsFiniteSet(1 .. k)
      BY FS_Interval
    <2> QED BY <2>1, FS_Subset
  <1>2. Cardinality(S(k)) \in Nat
    BY <1>1, FS_CardinalityType
  <1>3. S(k + 1) = IF EdgeOf(q[k + 1], w) THEN S(k) \cup {k + 1} ELSE S(k)
    <2>1. 1 .. k + 1 = (1 .. k) \cup {k + 1}
      OBVIOUS
    <2> QED BY <2>1
  <1>4. k + 1 \notin S(k)
    OBVIOUS
  <1> HIDE DEF S
  <1>5. Cardinality(S(k + 1)) = Cardinality(S(k)) + (IF EdgeOf(q[k + 1], w) THEN 1 ELSE 0)
    <2>1. Cardinality(S(k) \cup {k + 1}) = Cardinality(S(k)) + 1
      BY <1>1, <1>4, FS_AddElement
    <2> QED BY <1>2, <1>3, <2>1
  <1> QED BY <1>2, <1>5 DEF S, EdgesUpTo

LEMMA CountSame ==
  ASSUME NEW q, NEW r, NEW w, NEW k \in Nat, \A i \in 1 .. k : q[i] = r[i]
  PROVE  EdgesUpTo(q, w, k) = EdgesUpTo(r, w, k)
  <1>1. {i \in 1 .. k : EdgeOf(q[i], w)} = {i \in 1 .. k : EdgeOf(r[i], w)}
    OBVIOUS
  <1> QED BY <1>1 DEF EdgesUpTo

\* Without its first event a sequence has one edge less, if that was one.
LEMMA CountShifted ==
  ASSUME NEW q, NEW r, NEW w, NEW k \in Nat, \A i \in 1 .. k : r[i] = q[i + 1]
  PROVE  EdgesUpTo(r, w, k) + (IF EdgeOf(q[1], w) THEN 1 ELSE 0) = EdgesUpTo(q, w, k + 1)
  <1> DEFINE one == IF EdgeOf(q[1], w) THEN 1 ELSE 0
             S == {i \in 0 .. k : EdgesUpTo(r, w, i) + one = EdgesUpTo(q, w, i + 1)}
  <1>1. 0 \in S
    <2>1. EdgesUpTo(r, w, 0) = 0 /\ EdgesUpTo(q, w, 0) = 0
      BY CountNone
    <2>2. EdgesUpTo(q, w, 0 + 1) = EdgesUpTo(q, w, 0) + (IF EdgeOf(q[0 + 1], w) THEN 1 ELSE 0)
      BY CountNext
    <2> QED BY <2>1, <2>2
  <1>2. ASSUME NEW i \in 0 .. k - 1, i \in S PROVE i + 1 \in S
    <2>1. EdgesUpTo(r, w, i + 1) = EdgesUpTo(r, w, i) + (IF EdgeOf(r[i + 1], w) THEN 1 ELSE 0)
          /\ EdgesUpTo(r, w, i) \in Nat
      BY CountNext
    <2>2. EdgesUpTo(q, w, (i + 1) + 1) = EdgesUpTo(q, w, i + 1) + (IF EdgeOf(q[(i + 1) + 1], w) THEN 1 ELSE 0)
      <3>1. i + 1 \in Nat
        OBVIOUS
      <3> QED BY <3>1, CountNext
    <2>3. r[i + 1] = q[(i + 1) + 1] /\ i + 1 \in 0 .. k
      OBVIOUS
    <2> QED BY <1>2, <2>1, <2>2, <2>3
  <1> HIDE DEF S
  <1>3. 0 .. k \subseteq S
    BY <1>1, <1>2, SetInduction
  <1> QED BY <1>3 DEF S

\* Writing an edge adds it, and what the write drops is lost.
LEMMA CountWritten ==
  ASSUME NEW q \in Seq(EventRecords), NEW e \in EventRecords, Len(q) <= Capacity, NEW w \in Wheels
  PROVE  EdgesUpTo(Write(q, e), w, Len(Write(q, e))) + Cardinality({d \in Drops(q) : EdgeOf(d, w)})
           = EdgesUpTo(q, w, Len(q)) + (IF EdgeOf(e, w) THEN 1 ELSE 0)
  <1> DEFINE r == Write(q, e)
             n == Len(q)
             one == IF EdgeOf(e, w) THEN 1 ELSE 0
             lost == Cardinality({d \in Drops(q) : EdgeOf(d, w)})
  <1>0. n \in Nat
    BY LenProperties
  <1>1. CASE n = Capacity
    <2>1. /\ Len(r) = n /\ (\A i \in 1 .. n - 1 : r[i] = q[i + 1]) /\ r[n] = e /\ Drops(q) = {q[1]}
      BY <1>1, WriteIs
    <2> HIDE DEF r
    <2>2. n - 1 \in Nat /\ n - 1 + 1 = n
      BY <1>0, <1>1, ClockAssumption
    <2>3. EdgesUpTo(r, w, n - 1) + (IF EdgeOf(q[1], w) THEN 1 ELSE 0) = EdgesUpTo(q, w, n - 1 + 1)
      BY <2>1, <2>2, CountShifted
    <2>4. EdgesUpTo(r, w, n - 1 + 1) = EdgesUpTo(r, w, n - 1) + one /\ EdgesUpTo(r, w, n - 1) \in Nat
      BY <2>1, <2>2, CountNext
    <2>5. lost = IF EdgeOf(q[1], w) THEN 1 ELSE 0
      <3>1. CASE EdgeOf(q[1], w)
        <4>1. {d \in Drops(q) : EdgeOf(d, w)} = {q[1]}
          BY <2>1, <3>1
        <4> QED BY <3>1, <4>1, FS_Singleton
      <3>2. CASE ~EdgeOf(q[1], w)
        <4>1. {d \in Drops(q) : EdgeOf(d, w)} = {}
          BY <2>1, <3>2
        <4> QED BY <3>2, <4>1, FS_EmptySet
      <3> QED BY <3>1, <3>2
    <2> HIDE DEF n, lost, one
    <2> QED BY <2>1, <2>2, <2>3, <2>4, <2>5 DEF r, n, lost, one
  <1>2. CASE n # Capacity
    <2>1. /\ Len(r) = n + 1 /\ (\A i \in 1 .. n : r[i] = q[i]) /\ r[n + 1] = e /\ Drops(q) = {}
      BY <1>2, WriteIs
    <2> HIDE DEF r
    <2>2. EdgesUpTo(r, w, n) = EdgesUpTo(q, w, n)
      BY <1>0, <2>1, CountSame
    <2>3. EdgesUpTo(r, w, n + 1) = EdgesUpTo(r, w, n) + one /\ EdgesUpTo(r, w, n) \in Nat
      BY <1>0, <2>1, CountNext
    <2>4. lost = 0
      <3>1. {d \in Drops(q) : EdgeOf(d, w)} = {}
        BY <2>1
      <3> QED BY <3>1, FS_EmptySet
    <2> HIDE DEF n, lost, one
    <2> QED BY <2>1, <2>2, <2>3, <2>4 DEF r, n, lost, one
  <1> QED BY <1>1, <1>2

\* An order of the buffer has the edges that the buffer has.
LEMMA CountOrdered ==
  ASSUME NEW T, NEW q \in Seq(T), NEW order \in Chronological(q), NEW w
  PROVE  EdgesUpTo(order, w, Len(q)) = EdgesUpTo(q, w, Len(q))
  <1> DEFINE n == Len(q)
             A == {i \in 1 .. n : EdgeOf(order[i], w)}
             B == {i \in 1 .. n : EdgeOf(q[i], w)}
  <1>0. DOMAIN q = 1 .. n /\ n \in Nat
    BY LenProperties
  <1>1. PICK p \in [DOMAIN q -> DOMAIN q] :
               /\ order = [i \in DOMAIN q |-> q[p[i]]]
               /\ \A i, j \in DOMAIN q : i < j => p[i] # p[j]
    BY DEF Chronological
  <1>2. p \in Injection(1 .. n, 1 .. n)
    <2>1. \A i, j \in 1 .. n : i # j => i < j \/ j < i
      BY <1>0
    <2>2. \A i, j \in 1 .. n : i # j => p[i] # p[j]
      BY <1>0, <1>1, <2>1
    <2> QED BY <1>0, <1>1, <2>2 DEF Injection, IsInjective
  <1>3. IsFiniteSet(1 .. n)
    BY <1>0, FS_Interval
  <1>4. p \in Surjection(1 .. n, 1 .. n)
    <2> HIDE DEF n
    <2> QED BY <1>2, <1>3, FS_Injection
  <1>5. IsFiniteSet(A)
    BY <1>3, FS_Subset
  <1> DEFINE f == [i \in A |-> p[i]]
  <1>6. f \in Bijection(A, B)
    <2>1. \A i \in A : p[i] \in B
      BY <1>0, <1>1
    <2>2. \A j \in B : \E i \in A : p[i] = j
      <3> SUFFICES ASSUME NEW j \in B PROVE \E i \in A : p[i] = j
        OBVIOUS
      <3>1. PICK i \in 1 .. n : p[i] = j
        BY <1>4 DEF Surjection
      <3> QED BY <1>0, <1>1, <3>1
    <2>3. \A i, j \in A : p[i] = p[j] => i = j
      BY <1>2 DEF Injection, IsInjective
    <2> HIDE DEF A, B
    <2> QED BY <2>1, <2>2, <2>3 DEF Bijection, Injection, IsInjective, Surjection
  <1> HIDE DEF A, B, f
  <1>7. Cardinality(A) = Cardinality(B)
    BY <1>5, <1>6, FS_Bijection DEF ExistsBijection
  <1> QED BY <1>7 DEF A, B, EdgesUpTo
-----------------------------------------------------------------------------
(* What the filter makes of an event.                                       *)

\* The edges of es that count in a direction which was not theirs.
CountedWrong(f, es, batch) ==
  {e \in es : /\ f.backward[e.wheel] # e.reversed
              /\ Right(e) /\ ~dropped[e.wheel].command
              /\ \A c \in batch : c.type = "command" /\ c.wheel = e.wheel => Ordered(e, c)}

LEMMA EstimateIs ==
  ASSUME NEW f \in FilterRecords, NEW ticks \in Nat, NEW firm \in BOOLEAN
  PROVE  LET r == EstimateState(f, ticks, firm) IN
         /\ r \in FilterRecords
         /\ r.time = ticks /\ r.firm = firm /\ r.backward = f.backward /\ r.count = f.count
         /\ r.wrong = f.wrong
         /\ r.underflow <=> f.underflow \/ (ticks < f.time /\ f.firm /\ firm)
  <1>1. f.underflow \in BOOLEAN
    BY DEF FilterRecords
  <1>2. (f.underflow \/ (ticks < f.time /\ f.firm /\ firm)) \in BOOLEAN
    OBVIOUS
  <1> DEFINE under == f.underflow \/ (ticks < f.time /\ f.firm /\ firm)
  <1>3. EstimateState(f, ticks, firm) = [f EXCEPT !.time = ticks, !.firm = firm, !.underflow = under]
    BY DEF EstimateState, FilterRecords
  <1> HIDE DEF under
  <1>4. under \in BOOLEAN
    BY <1>2 DEF under
  <1>5. LET r == EstimateState(f, ticks, firm) IN
         /\ r \in FilterRecords
         /\ r.time = ticks /\ r.firm = firm /\ r.backward = f.backward /\ r.count = f.count
         /\ r.wrong = f.wrong /\ r.underflow = under
    BY <1>3, <1>4 DEF FilterRecords
  <1> QED BY <1>5 DEF under

LEMMA NotifyWheelTicksIs ==
  ASSUME NEW f \in FilterRecords, NEW es \in SUBSET EventRecords, es # {}, IsFiniteSet(es), NEW batch
  PROVE  LET r == NotifyWheelTicks(f, es, batch) IN
         /\ r \in FilterRecords
         /\ r.backward = f.backward
         /\ \A w \in Wheels : r.count[w] = f.count[w] + Cardinality({e \in es : e.wheel = w})
         /\ \E e \in es : r.time = e.ticks
         /\ r.firm <=> \A e \in es : Right(e)
         /\ r.underflow <=> f.underflow \/ (r.time < f.time /\ f.firm /\ r.firm)
         /\ r.wrong <=> f.wrong \/ CountedWrong(f, es, batch) # {}
  <1> DEFINE first == CHOOSE e \in es : TRUE
             firm == \A e \in es : Right(e)
             wrong == f.wrong \/ CountedWrong(f, es, batch) # {}
             count == [w \in Wheels |-> f.count[w] + Cardinality({e \in es : e.wheel = w})]
             g == [f EXCEPT !.count = count, !.wrong = wrong]
  <1>1. first \in es
    OBVIOUS
  <1>2. first.ticks \in Nat
    BY <1>1 DEF EventRecords
  <1>3. NotifyWheelTicks(f, es, batch) = EstimateState(g, first.ticks, firm)
    BY DEF NotifyWheelTicks, CountedWrong, FilterRecords
  <1>4. count \in [Wheels -> Nat]
    <2> SUFFICES ASSUME NEW w \in Wheels PROVE f.count[w] + Cardinality({e \in es : e.wheel = w}) \in Nat
      OBVIOUS
    <2>1. IsFiniteSet({e \in es : e.wheel = w})
      BY FS_Subset
    <2>2. Cardinality({e \in es : e.wheel = w}) \in Nat
      BY <2>1, FS_CardinalityType
    <2>3. f.count[w] \in Nat
      BY DEF FilterRecords
    <2> QED BY <2>2, <2>3
  <1>5. wrong \in BOOLEAN /\ firm \in BOOLEAN
    BY DEF FilterRecords
  <1>6. \A w \in Wheels : count[w] = f.count[w] + Cardinality({e \in es : e.wheel = w})
    OBVIOUS
  <1>7. wrong <=> f.wrong \/ CountedWrong(f, es, batch) # {}
    OBVIOUS
  <1>8. firm <=> \A e \in es : Right(e)
    OBVIOUS
  <1> HIDE DEF first, wrong, count, firm
  <1>9. /\ g \in FilterRecords /\ g.backward = f.backward /\ g.count = count /\ g.time = f.time
        /\ g.firm = f.firm /\ g.underflow = f.underflow /\ g.wrong = wrong
    BY <1>4, <1>5 DEF FilterRecords
  <1> HIDE DEF g
  <1> DEFINE r == EstimateState(g, first.ticks, firm)
  <1>10. /\ r \in FilterRecords
         /\ r.time = first.ticks /\ r.firm = firm /\ r.backward = g.backward /\ r.count = g.count
         /\ r.wrong = g.wrong
         /\ r.underflow <=> g.underflow \/ (first.ticks < g.time /\ g.firm /\ firm)
    BY <1>2, <1>5, <1>9, EstimateIs
  <1> HIDE DEF r
  <1>11. \E e \in es : r.time = e.ticks
    BY <1>1, <1>10
  <1>12. /\ r \in FilterRecords
         /\ r.backward = f.backward
         /\ \A w \in Wheels : r.count[w] = f.count[w] + Cardinality({e \in es : e.wheel = w})
         /\ \E e \in es : r.time = e.ticks
         /\ r.firm <=> \A e \in es : Right(e)
         /\ r.underflow <=> f.underflow \/ (r.time < f.time /\ f.firm /\ r.firm)
         /\ r.wrong <=> f.wrong \/ CountedWrong(f, es, batch) # {}
    BY <1>6, <1>7, <1>8, <1>9, <1>10, <1>11
  <1> QED BY <1>3, <1>12 DEF r

\* The edges of one wheel among one event, or among two of both wheels.
LEMMA CountOne ==
  ASSUME NEW e, NEW w
  PROVE  Cardinality({x \in {e} : x.wheel = w}) = IF e.wheel = w THEN 1 ELSE 0
  <1>1. CASE e.wheel = w
    <2>1. {x \in {e} : x.wheel = w} = {e}
      BY <1>1
    <2> QED BY <1>1, <2>1, FS_Singleton
  <1>2. CASE e.wheel # w
    <2>1. {x \in {e} : x.wheel = w} = {}
      BY <1>2
    <2> QED BY <1>2, <2>1, FS_EmptySet
  <1> QED BY <1>1, <1>2

LEMMA CountTwo ==
  ASSUME NEW e \in EventRecords, NEW g \in EventRecords, SameTime(e, g), NEW w \in Wheels
  PROVE  Cardinality({x \in {e, g} : x.wheel = w}) =
           (IF EdgeOf(e, w) THEN 1 ELSE 0) + (IF EdgeOf(g, w) THEN 1 ELSE 0)
  <1>1. e.wheel \in Wheels /\ g.wheel \in Wheels /\ e.wheel # g.wheel /\ e.type = "edge" /\ g.type = "edge"
    BY DEF EventRecords, SameTime
  <1>2. CASE e.wheel = w
    <2>1. {x \in {e, g} : x.wheel = w} = {e} /\ g.wheel # w
      BY <1>1, <1>2
    <2>2. Cardinality({e}) = 1
      BY FS_Singleton
    <2> QED BY <1>1, <1>2, <2>1, <2>2 DEF EdgeOf
  <1>3. CASE e.wheel # w
    <2>1. {x \in {e, g} : x.wheel = w} = {g} /\ g.wheel = w
      BY <1>1, <1>3 DEF Wheels
    <2>2. Cardinality({g}) = 1
      BY FS_Singleton
    <2> QED BY <1>1, <1>3, <2>1, <2>2 DEF EdgeOf
  <1> QED BY <1>2, <1>3

\* One event by itself.
LEMMA NotifyIs ==
  ASSUME NEW f \in FilterRecords, NEW e \in EventRecords, NEW batch
  PROVE  LET r == Notify(f, e, batch) IN
         /\ r \in FilterRecords
         /\ \A w \in Wheels : r.count[w] = f.count[w] + (IF EdgeOf(e, w) THEN 1 ELSE 0)
         /\ e.type = "command" => r = [f EXCEPT !.backward[e.wheel] = e.reversed]
         /\ e.type # "command" =>
              /\ r.backward = f.backward /\ r.time = e.ticks /\ (r.firm <=> Right(e))
              /\ r.underflow <=> f.underflow \/ (e.ticks < f.time /\ f.firm /\ Right(e))
              /\ r.wrong <=> f.wrong \/ (e.type = "edge" /\ CountedWrong(f, {e}, batch) # {})
  <1>0. e.type \in {"edge", "command", "imu"} /\ e.ticks \in Nat /\ e.reversed \in BOOLEAN
        /\ (e.type # "imu" => e.wheel \in Wheels)
    BY DEF EventRecords
  <1>00. \A w \in Wheels : f.count[w] \in Nat
    BY DEF FilterRecords
  <1>1. CASE e.type = "edge"
    <2> DEFINE r == NotifyWheelTicks(f, {e}, batch)
    <2>1. {e} \in SUBSET EventRecords /\ {e} # {} /\ IsFiniteSet({e})
      BY FS_Singleton
    <2>2. /\ r \in FilterRecords
          /\ r.backward = f.backward
          /\ \A w \in Wheels : r.count[w] = f.count[w] + Cardinality({x \in {e} : x.wheel = w})
          /\ \E x \in {e} : r.time = x.ticks
          /\ r.firm <=> \A x \in {e} : Right(x)
          /\ r.underflow <=> f.underflow \/ (r.time < f.time /\ f.firm /\ r.firm)
          /\ r.wrong <=> f.wrong \/ CountedWrong(f, {e}, batch) # {}
      BY <2>1, NotifyWheelTicksIs
    <2>3. Notify(f, e, batch) = r
      BY <1>1 DEF Notify
    <2> HIDE DEF r
    <2>4. \A w \in Wheels : r.count[w] = f.count[w] + (IF EdgeOf(e, w) THEN 1 ELSE 0)
      <3>1. \A w \in Wheels : Cardinality({x \in {e} : x.wheel = w}) = IF e.wheel = w THEN 1 ELSE 0
        BY CountOne
      <3>2. \A w \in Wheels : EdgeOf(e, w) <=> e.wheel = w
        BY <1>1 DEF EdgeOf
      <3> QED BY <2>2, <3>1, <3>2
    <2>5. r.time = e.ticks /\ (r.firm <=> Right(e))
      BY <2>2
    <2> QED BY <1>1, <2>2, <2>3, <2>4, <2>5
  <1>2. CASE e.type = "command"
    <2>1. Notify(f, e, batch) = [f EXCEPT !.backward[e.wheel] = e.reversed]
      BY <1>2 DEF Notify
    <2>2. [f EXCEPT !.backward[e.wheel] = e.reversed] \in FilterRecords
      BY <1>0, <1>2 DEF FilterRecords
    <2>3. [f EXCEPT !.backward[e.wheel] = e.reversed].count = f.count
      BY DEF FilterRecords
    <2>4. \A w \in Wheels : ~EdgeOf(e, w)
      BY <1>2 DEF EdgeOf
    <2> QED BY <1>00, <1>2, <2>1, <2>2, <2>3, <2>4
  <1>3. CASE e.type = "imu"
    <2> DEFINE r == EstimateState(f, e.ticks, Right(e))
    <2>1. Right(e) \in BOOLEAN
      BY DEF Right
    <2>2. /\ r \in FilterRecords
          /\ r.time = e.ticks /\ r.firm = Right(e) /\ r.backward = f.backward /\ r.count = f.count
          /\ r.wrong = f.wrong
          /\ r.underflow <=> f.underflow \/ (e.ticks < f.time /\ f.firm /\ Right(e))
      BY <1>0, <2>1, EstimateIs
    <2>3. Notify(f, e, batch) = r
      BY <1>3 DEF Notify
    <2>4. \A w \in Wheels : ~EdgeOf(e, w)
      BY <1>3 DEF EdgeOf
    <2> HIDE DEF r
    <2> QED BY <1>00, <1>3, <2>2, <2>3, <2>4
  <1> QED BY <1>0, <1>1, <1>2, <1>3

-----------------------------------------------------------------------------
(* The loop over the sorted events, one step at a time.                     *)

ProcessStep(before, order, i) ==
  LET n == Len(order)
      batch == {order[j] : j \in 1 .. n}
  IN IF before.merged THEN [before EXCEPT !.merged = FALSE]
     ELSE IF i < n /\ SameTime(order[i], order[i + 1])
          THEN [filter |-> NotifyWheelTicks(before.filter, {order[i], order[i + 1]}, batch), merged |-> TRUE]
          ELSE [filter |-> Notify(before.filter, order[i], batch), merged |-> FALSE]

LEMMA StepTyped ==
  ASSUME NEW order \in Seq(EventRecords), NEW i \in 1 .. Len(order), NEW before \in Results
  PROVE  ProcessStep(before, order, i) \in Results
  <1> DEFINE batch == {order[j] : j \in 1 .. Len(order)}
  <1>1. order[i] \in EventRecords /\ (i < Len(order) => order[i + 1] \in EventRecords)
    BY ElementOfSeq, LenProperties
  <1>2. before.filter \in FilterRecords
    BY DEF Results
  <1>3. CASE before.merged
    BY <1>3 DEF ProcessStep, Results
  <1>4. CASE ~before.merged /\ i < Len(order) /\ SameTime(order[i], order[i + 1])
    <2> DEFINE es == {order[i], order[i + 1]}
    <2>1. es \in SUBSET EventRecords /\ es # {} /\ IsFiniteSet(es)
      <3>1. IsFiniteSet({order[i]})
        BY FS_Singleton
      <3>2. IsFiniteSet({order[i]} \cup {order[i + 1]})
        BY <3>1, FS_AddElement
      <3>3. es = {order[i]} \cup {order[i + 1]}
        OBVIOUS
      <3> QED BY <1>1, <1>4, <3>2, <3>3
    <2>2. ProcessStep(before, order, i) = [filter |-> NotifyWheelTicks(before.filter, es, batch), merged |-> TRUE]
      BY <1>4 DEF ProcessStep
    <2> HIDE DEF es, batch
    <2>3. NotifyWheelTicks(before.filter, es, batch) \in FilterRecords
      BY <1>2, <2>1, NotifyWheelTicksIs
    <2> QED BY <2>2, <2>3 DEF Results
  <1>5. CASE ~before.merged /\ ~(i < Len(order) /\ SameTime(order[i], order[i + 1]))
    <2>1. ProcessStep(before, order, i) = [filter |-> Notify(before.filter, order[i], batch), merged |-> FALSE]
      BY <1>5 DEF ProcessStep
    <2> HIDE DEF batch
    <2>2. Notify(before.filter, order[i], batch) \in FilterRecords
      BY <1>1, <1>2, NotifyIs
    <2> QED BY <2>1, <2>2 DEF Results
  <1> QED BY <1>3, <1>4, <1>5

\* The values of the loop, and the last of them.
IsRun(g, f, order) ==
  /\ g \in [0 .. Len(order) -> Results]
  /\ g[0] = [filter |-> f, merged |-> FALSE]
  /\ \A i \in 1 .. Len(order) : g[i] = ProcessStep(g[i - 1], order, i)
  /\ Processed(f, order) = g[Len(order)].filter

LEMMA ProcessedIsStepByStep ==
  ASSUME NEW f \in FilterRecords, NEW order \in Seq(EventRecords)
  PROVE  \E g : IsRun(g, f, order)
  <1> DEFINE n == Len(order)
             batch == {order[i] : i \in 1 .. n}
             after[i \in 0 .. n] ==
               IF i = 0 THEN [filter |-> f, merged |-> FALSE]
               ELSE LET before == after[i - 1] IN
                    IF before.merged THEN [before EXCEPT !.merged = FALSE]
                    ELSE IF i < n /\ SameTime(order[i], order[i + 1])
                         THEN [filter |-> NotifyWheelTicks(before.filter, {order[i], order[i + 1]}, batch),
                               merged |-> TRUE]
                         ELSE [filter |-> Notify(before.filter, order[i], batch), merged |-> FALSE]
             F(g) == [i \in 0 .. n |->
               IF i = 0 THEN [filter |-> f, merged |-> FALSE]
               ELSE LET before == g[i - 1] IN
                    IF before.merged THEN [before EXCEPT !.merged = FALSE]
                    ELSE IF i < n /\ SameTime(order[i], order[i + 1])
                         THEN [filter |-> NotifyWheelTicks(before.filter, {order[i], order[i + 1]}, batch),
                               merged |-> TRUE]
                         ELSE [filter |-> Notify(before.filter, order[i], batch), merged |-> FALSE]]
             first == [filter |-> f, merged |-> FALSE]
             G(g) == [i \in 0 .. n |-> IF i = 0 THEN first ELSE ProcessStep(g[i - 1], order, i)]
             step == [x \in (1 .. n) \X Results |-> ProcessStep(x[2], order, x[1])]
  <1>1. Processed(f, order) = after[n].filter
    BY DEF Processed
  <1>2. after = CHOOSE g : g = F(g)
    OBVIOUS
  <1>3. n \in Nat /\ first \in Results
    BY LenProperties DEF Results
  <1>4. step \in [(1 .. n) \X Results -> Results]
    BY StepTyped
  <1>5. ASSUME NEW g PROVE F(g) = G(g)
    BY DEF ProcessStep
  <1> HIDE DEF after, first, step, F
  <1>6. PICK g \in [0 .. n -> Results] : StepsFrom(g, first, step, n)
    <2> HIDE DEF n, G
    <2> QED BY <1>3, <1>4, StepByStep
  <1>7. ASSUME NEW i \in 1 .. n PROVE step[<<i, g[i - 1]>>] = ProcessStep(g[i - 1], order, i)
    <2>1. i - 1 \in 0 .. n
      BY <1>3
    <2>2. g[i - 1] \in Results
      BY <2>1
    <2> QED BY <2>2 DEF step
  <1>8. g = G(g)
    <2> HIDE DEF n
    <2>1. ASSUME NEW i \in 0 .. n, i # 0 PROVE step[<<i, g[i - 1]>>] = ProcessStep(g[i - 1], order, i)
      BY <1>3, <1>7, <2>1
    <2> QED BY <1>6, <2>1 DEF StepsFrom
  <1>9. after = F(after)
    <2>1. g = F(g)
      BY <1>5, <1>8
    <2> QED BY <1>2, <2>1
  <1>10. after = G(after)
    BY <1>5, <1>9
  <1>11. after[0] = first /\ \A i \in 1 .. n : after[i] = ProcessStep(after[i - 1], order, i)
    <2>1. G(after)[0] = first /\ \A i \in 1 .. n : G(after)[i] = ProcessStep(after[i - 1], order, i)
      <3> HIDE DEF n
      <3> QED BY <1>3
    <2> HIDE DEF G
    <2> QED BY <1>10, <2>1
  <1>12. after \in [0 .. n -> Results]
    <2> DEFINE S == {i \in 0 .. n : after[i] \in Results}
    <2>1. 0 \in S
      BY <1>3, <1>11
    <2>2. ASSUME NEW i \in 0 .. n - 1, i \in S PROVE i + 1 \in S
      <3>1. i + 1 \in 1 .. n /\ (i + 1) - 1 = i /\ after[i] \in Results
        BY <1>3, <2>2
      <3>2. after[i + 1] = ProcessStep(after[i], order, i + 1)
        BY <1>11, <3>1
      <3>3. ProcessStep(after[i], order, i + 1) \in Results
        BY <3>1, StepTyped
      <3> QED BY <3>1, <3>2, <3>3
    <2> HIDE DEF S
    <2>3. 0 .. n \subseteq S
      <3> HIDE DEF n
      <3> QED BY <1>3, <2>1, <2>2, SetInduction
    <2>4. \A i \in 0 .. n : after[i] \in Results
      BY <2>3 DEF S
    <2>5. after = [i \in 0 .. n |-> after[i]]
      <3>1. G(after) = [i \in 0 .. n |-> G(after)[i]]
        OBVIOUS
      <3> HIDE DEF G
      <3> QED BY <1>10, <3>1
    <2> QED BY <2>4, <2>5
  <1> QED BY <1>1, <1>11, <1>12 DEF IsRun, first

LEMMA ProcessedTyped ==
  ASSUME NEW f \in FilterRecords, NEW order \in Seq(EventRecords)
  PROVE  Processed(f, order) \in FilterRecords
  <1>1. PICK g : IsRun(g, f, order)
    BY ProcessedIsStepByStep
  <1>2. Len(order) \in 0 .. Len(order)
    BY LenProperties
  <1> QED BY <1>1, <1>2 DEF IsRun, Results

\* Every edge of the sorted events counts once, merged with its neighbour or not.
LEMMA ProcessedCounts ==
  ASSUME NEW f \in FilterRecords, NEW order \in Seq(EventRecords), NEW w \in Wheels
  PROVE  Processed(f, order).count[w] = f.count[w] + EdgesUpTo(order, w, Len(order))
  <1> DEFINE n == Len(order)
             batch == {order[j] : j \in 1 .. n}
  <1>0. n \in Nat /\ f.count[w] \in Nat
    BY LenProperties DEF FilterRecords
  <1>1. PICK g : IsRun(g, f, order)
    BY ProcessedIsStepByStep
  <1> DEFINE ahead(i) == IF g[i].merged THEN 1 ELSE 0
             Holds(i) == /\ i + ahead(i) <= n
                         /\ g[i].filter.count[w] = f.count[w] + EdgesUpTo(order, w, i + ahead(i))
             S == {i \in 0 .. n : Holds(i)}
  <1>2. 0 \in S
    <2>1. g[0].merged = FALSE /\ g[0].filter = f
      BY <1>1 DEF IsRun
    <2>2. EdgesUpTo(order, w, 0) = 0
      BY CountNone
    <2> QED BY <1>0, <2>1, <2>2
  <1>3. ASSUME NEW i \in 0 .. n - 1, i \in S PROVE i + 1 \in S
    <2> DEFINE before == g[i]
    <2>1. /\ i + 1 \in 1 .. n /\ (i + 1) - 1 = i /\ i \in 0 .. n /\ i \in Nat
          /\ order[i + 1] \in EventRecords
      <3>1. i + 1 \in 1 .. n /\ (i + 1) - 1 = i /\ i \in 0 .. n /\ i \in Nat
        BY <1>0
      <3> QED BY <3>1, ElementOfSeq
    <2>2. g[i + 1] = ProcessStep(before, order, i + 1)
      BY <1>1, <2>1 DEF IsRun
    <2>3. before \in Results /\ before.filter \in FilterRecords /\ before.merged \in BOOLEAN
      BY <1>1, <2>1 DEF IsRun, Results
    <2>4. Holds(i)
      BY <1>3
    <2>5. /\ EdgesUpTo(order, w, i) \in Nat /\ EdgesUpTo(order, w, i + 1) \in Nat
          /\ EdgesUpTo(order, w, i + 1) = EdgesUpTo(order, w, i) + (IF EdgeOf(order[i + 1], w) THEN 1 ELSE 0)
          /\ EdgesUpTo(order, w, i + 2) = EdgesUpTo(order, w, i + 1) + (IF EdgeOf(order[i + 2], w) THEN 1 ELSE 0)
      <3>1. i + 1 \in Nat /\ (i + 1) + 1 = i + 2
        BY <2>1
      <3>2. /\ EdgesUpTo(order, w, i) \in Nat
            /\ EdgesUpTo(order, w, i + 1) = EdgesUpTo(order, w, i) + (IF EdgeOf(order[i + 1], w) THEN 1 ELSE 0)
        BY <2>1, CountNext
      <3>3. /\ EdgesUpTo(order, w, i + 1) \in Nat
            /\ EdgesUpTo(order, w, (i + 1) + 1) = EdgesUpTo(order, w, i + 1) + (IF EdgeOf(order[(i + 1) + 1], w) THEN 1 ELSE 0)
        BY <3>1, CountNext
      <3> QED BY <3>1, <3>2, <3>3
    <2>6. CASE before.merged
      <3>1. g[i + 1] = [before EXCEPT !.merged = FALSE]
        BY <2>2, <2>6 DEF ProcessStep
      <3>2. g[i + 1].merged = FALSE /\ g[i + 1].filter = before.filter
        BY <2>3, <3>1 DEF Results
      <3> HIDE DEF n
      <3>3. i + 1 <= n /\ g[i + 1].filter.count[w] = f.count[w] + EdgesUpTo(order, w, i + 1)
        BY <2>4, <2>6, <3>2
      <3>4. (i + 1) + 0 = i + 1
        BY <2>1
      <3> QED BY <2>1, <3>2, <3>3, <3>4
    <2>7. CASE ~before.merged /\ i + 1 < n /\ SameTime(order[i + 1], order[i + 2])
      <3> DEFINE e == order[i + 1]
                 h == order[i + 2]
                 r == NotifyWheelTicks(before.filter, {e, h}, batch)
      <3>1. h \in EventRecords /\ (i + 1) + 1 = i + 2 /\ i + 2 <= n
        <4>1. i + 2 \in 1 .. n /\ (i + 1) + 1 = i + 2 /\ i + 2 <= n
          BY <1>0, <2>1, <2>7
        <4> QED BY <4>1, ElementOfSeq
      <3>2. g[i + 1] = [filter |-> r, merged |-> TRUE]
        <4>1. SameTime(order[i + 1], order[(i + 1) + 1]) /\ order[(i + 1) + 1] = h
          BY <2>7, <3>1
        <4> HIDE DEF h
        <4>2. ProcessStep(before, order, i + 1) = [filter |-> NotifyWheelTicks(before.filter, {e, order[(i + 1) + 1]}, batch), merged |-> TRUE]
          BY <2>7, <4>1 DEF ProcessStep
        <4> QED BY <2>2, <4>1, <4>2
      <3>3. {e, h} \in SUBSET EventRecords /\ {e, h} # {} /\ IsFiniteSet({e, h})
        <4>1. IsFiniteSet({e})
          BY FS_Singleton
        <4>2. IsFiniteSet({e} \cup {h})
          BY <4>1, FS_AddElement
        <4>3. {e, h} = {e} \cup {h}
          OBVIOUS
        <4> QED BY <2>1, <3>1, <4>2, <4>3
      <3>4. SameTime(e, h) /\ e \in EventRecords
        BY <2>1, <2>7
      <3> HIDE DEF e, h, batch
      <3>5. r.count[w] = before.filter.count[w] + Cardinality({x \in {e, h} : x.wheel = w})
        <4> DEFINE k == before.filter
                   es == {e, h}
        <4>0. k \in FilterRecords /\ es \in SUBSET EventRecords /\ es # {} /\ IsFiniteSet(es)
          BY <2>3, <3>3
        <4> HIDE DEF k, es
        <4>1. /\ NotifyWheelTicks(k, es, batch) \in FilterRecords
              /\ \A v \in Wheels : NotifyWheelTicks(k, es, batch).count[v] = k.count[v] + Cardinality({x \in es : x.wheel = v})
          BY <4>0, NotifyWheelTicksIs
        <4> QED BY <4>1 DEF k, es
      <3>6. Cardinality({x \in {e, h} : x.wheel = w}) = (IF EdgeOf(e, w) THEN 1 ELSE 0) + (IF EdgeOf(h, w) THEN 1 ELSE 0)
        BY <3>1, <3>4, CountTwo
      <3> HIDE DEF r, n
      <3>7. before.filter.count[w] = f.count[w] + EdgesUpTo(order, w, i)
        <4>1. i + 0 = i
          BY <2>1
        <4> QED BY <2>4, <2>7, <4>1
      <3>8. r.count[w] = f.count[w] + EdgesUpTo(order, w, i + 2)
        BY <1>0, <2>5, <3>5, <3>6, <3>7 DEF e, h
      <3>9. g[i + 1].merged = TRUE /\ g[i + 1].filter = r
        BY <3>2
      <3> QED BY <2>1, <3>1, <3>8, <3>9
    <2>8. CASE ~before.merged /\ ~(i + 1 < n /\ SameTime(order[i + 1], order[i + 2]))
      <3> DEFINE r == Notify(before.filter, order[i + 1], batch)
      <3>1. g[i + 1] = [filter |-> r, merged |-> FALSE]
        <4>1. (i + 1) + 1 = i + 2
          BY <2>1
        <4>2. ~(i + 1 < n /\ SameTime(order[i + 1], order[(i + 1) + 1]))
          BY <2>8, <4>1
        <4> QED BY <2>2, <2>8, <4>2 DEF ProcessStep
      <3> HIDE DEF batch
      <3>2. r.count[w] = before.filter.count[w] + (IF EdgeOf(order[i + 1], w) THEN 1 ELSE 0)
        <4> DEFINE k == before.filter
                   e == order[i + 1]
        <4>0. k \in FilterRecords /\ e \in EventRecords
          BY <2>1, <2>3
        <4> HIDE DEF k, e
        <4>1. /\ Notify(k, e, batch) \in FilterRecords
              /\ \A v \in Wheels : Notify(k, e, batch).count[v] = k.count[v] + (IF EdgeOf(e, v) THEN 1 ELSE 0)
          <5> DEFINE r1 == Notify(k, e, batch)
          <5>1. /\ r1 \in FilterRecords
                /\ \A v \in Wheels : r1.count[v] = k.count[v] + (IF EdgeOf(e, v) THEN 1 ELSE 0)
                /\ e.type = "command" => r1 = [k EXCEPT !.backward[e.wheel] = e.reversed]
                /\ e.type # "command" =>
                     /\ r1.backward = k.backward /\ r1.time = e.ticks /\ (r1.firm <=> Right(e))
                     /\ r1.underflow <=> k.underflow \/ (e.ticks < k.time /\ k.firm /\ Right(e))
                     /\ r1.wrong <=> k.wrong \/ (e.type = "edge" /\ CountedWrong(k, {e}, batch) # {})
            BY <4>0, NotifyIs
          <5> HIDE DEF r1
          <5>2. /\ r1 \in FilterRecords
                /\ \A v \in Wheels : r1.count[v] = k.count[v] + (IF EdgeOf(e, v) THEN 1 ELSE 0)
            BY <5>1
          <5> QED BY <5>2 DEF r1
        <4> QED BY <4>1 DEF k, e
      <3> HIDE DEF r, n
      <3>3. before.filter.count[w] = f.count[w] + EdgesUpTo(order, w, i)
        <4>1. i + 0 = i
          BY <2>1
        <4> QED BY <2>4, <2>8, <4>1
      <3>4. r.count[w] = f.count[w] + EdgesUpTo(order, w, i + 1)
        <4> DEFINE one == IF EdgeOf(order[i + 1], w) THEN 1 ELSE 0
        <4>1. one \in {0, 1}
          OBVIOUS
        <4> HIDE DEF one
        <4>2. EdgesUpTo(order, w, i + 1) = EdgesUpTo(order, w, i) + one /\ EdgesUpTo(order, w, i) \in Nat
          BY <2>5 DEF one
        <4>3. r.count[w] = before.filter.count[w] + one
          BY <3>2 DEF one
        <4> QED BY <1>0, <3>3, <4>1, <4>2, <4>3
      <3>5. g[i + 1].merged = FALSE /\ g[i + 1].filter = r /\ (i + 1) + 0 = i + 1 /\ i + 1 <= n
        BY <2>1, <3>1
      <3> QED BY <2>1, <3>4, <3>5
    <2> QED BY <2>6, <2>7, <2>8
  <1> HIDE DEF S
  <1>4. n \in S
    <2>1. 0 .. n \subseteq S
      <3> HIDE DEF n
      <3> QED BY <1>0, <1>2, <1>3, SetInduction
    <2> QED BY <1>0, <2>1
  <1>5. Holds(n)
    BY <1>4 DEF S
  <1>6. n + ahead(n) <= n => ahead(n) = 0
    BY <1>0
  <1>7. n + 0 = n
    BY <1>0
  <1> HIDE DEF n
  <1>8. g[n].filter.count[w] = f.count[w] + EdgesUpTo(order, w, n)
    BY <1>5, <1>6, <1>7
  <1> QED BY <1>1, <1>8 DEF IsRun, n

\* What may be processed is the buffer in another order.
LEMMA ChronologicalIs ==
  ASSUME NEW q \in Seq(EventRecords), NEW order \in Chronological(q)
  PROVE  /\ order \in Seq(EventRecords) /\ Len(order) = Len(q)
         /\ \A i, j \in 1 .. Len(q) : i < j => order[i].ticks <= order[j].ticks
         /\ \E p \in [1 .. Len(q) -> 1 .. Len(q)] :
              /\ \A i \in 1 .. Len(q) : order[i] = q[p[i]]
              /\ \A i, j \in 1 .. Len(q) : i < j => p[i] # p[j]
  <1>0. DOMAIN q = 1 .. Len(q) /\ Len(q) \in Nat
    BY LenProperties
  <1>1. PICK p \in [DOMAIN q -> DOMAIN q] :
               /\ order = [i \in DOMAIN q |-> q[p[i]]]
               /\ \A i, j \in DOMAIN q : i < j => p[i] # p[j] /\ q[p[i]].ticks <= q[p[j]].ticks
    BY DEF Chronological
  <1>2. order \in [1 .. Len(q) -> EventRecords]
    BY <1>0, <1>1, ElementOfSeq
  <1>3. order \in Seq(EventRecords) /\ Len(order) = Len(q)
    BY <1>0, <1>2, SeqDef, LenProperties
  <1> QED BY <1>0, <1>1, <1>3
-----------------------------------------------------------------------------
(* The types of what the steps change.                                      *)

LEMMA WrapsBounded ==
  ASSUME NEW n \in 0 .. MaxTime
  PROVE  n \div Wrap \in 0 .. MaxTime
  <1>1. n \in Nat /\ MaxTime \in Nat /\ Wrap \in Nat \ {0}
    BY ClockAssumption
  <1>2. n \div Wrap \in Nat /\ n % Wrap \in Nat /\ n = (n \div Wrap) * Wrap + (n % Wrap)
    BY <1>1, Divides
  <1> DEFINE d == n \div Wrap
             m == n % Wrap
  <1> HIDE DEF d, m
  <1>3. d \in Nat /\ m \in Nat /\ n = d * Wrap + m
    BY <1>2 DEF d, m
  <1>4. d <= d * Wrap
    BY <1>1, <1>3, SMTT(30)
  <1>5. d \in 0 .. MaxTime
    BY <1>1, <1>3, <1>4, SMTT(30)
  <1> QED BY <1>5 DEF d

Writes(e) == buffer' = Write(buffer, e) /\ dropped' = WithDropped(buffer)

\* The event that the interrupt writes, and those that loop() writes.
LEMMA StampEdgeWrites ==
  ASSUME IInv, Types, StampEdge
  PROVE  LET w == isr.wheel
             e == Event("edge", w, EdgeTicks(channels[w].at), channels[w].at, isr.checked, channels[w].reversed)
         IN w \in Wheels /\ e \in EventRecords /\ Writes(e) /\ EventTrue(e)
  <1> DEFINE w == isr.wheel
             c == channels[w]
             e == Event("edge", w, EdgeTicks(c.at), c.at, isr.checked, c.reversed)
  <1>1. w \in Wheels /\ c \in [chf : BOOLEAN, at : 0 .. MaxTime, reversed : BOOLEAN] /\ overflows \in Nat
    BY DEF IInv, ClockTypes
  <1>2. c.at \in 0 .. MaxTime /\ c.at \in Nat /\ c.reversed \in BOOLEAN
    BY <1>1, ClockAssumption
  <1>3. EdgeTicks(c.at) \in Nat
    <2> DEFINE n == c.at
               o == overflows % EdgeWraps
               m == n % Wrap
    <2>1. o \in Nat
      BY <1>1, ClockAssumption, SMT
    <2>2. m \in Nat
      <3> HIDE DEF n
      <3>1. n \in Nat
        BY <1>2 DEF n
      <3> QED BY <3>1, ClockAssumption, SMT
    <2> HIDE DEF o, m
    <2>3. o * Wrap + m \in Nat
      BY <2>1, <2>2, ClockAssumption, SMTT(30)
    <2> QED BY <2>3 DEF EdgeTicks, o, m
  <1>4. e \in EventRecords
    BY <1>1, <1>2, <1>3 DEF Event, EventRecords
  <1>5. e \in Events /\ EventTrue(e)
    <2> HIDE DEF c
    <2> QED BY <1>1, EdgeEvent DEF StampEdge
  <1>6. Writes(e)
    BY DEF StampEdge, Writes
  <1> QED BY <1>1, <1>4, <1>5, <1>6

LEMMA ReadsTyped ==
  ASSUME IInv, Types, loop.at \in ReadPoints
  PROVE  Reading(loop.checked) \in [ticks : Nat, at : 0 .. MaxTime, checked : 0 .. MaxTime]
  <1>1. Reading(loop.checked) \in [ticks : Nat, at : 0 .. MaxTime, checked : Int]
    BY ReadsTrue
  <1>2. loop.checked = overflows /\ overflows \in Nat
    BY DEF IInv, LoopReads, ClockTypes
  <1>3. loop.checked \in 0 .. MaxTime
    BY <1>2 DEF Types, None
  <1>4. Reading(loop.checked).checked = loop.checked
    BY DEF Reading
  <1> QED BY <1>1, <1>3, <1>4

LEMMA RegisterWrites ==
  ASSUME IInv, Types, RegisterIMUEvent
  PROVE  LET e == Event("imu", "none", Ticks, now, loop.checked, FALSE)
         IN e \in EventRecords /\ Writes(e)
  <1>1. loop.at \in ReadPoints
    BY DEF RegisterIMUEvent, EndRead, At, ReadPoints
  <1>2. Reading(loop.checked) \in [ticks : Nat, at : 0 .. MaxTime, checked : 0 .. MaxTime]
    BY <1>1, ReadsTyped
  <1>3. Ticks \in Nat /\ now \in 0 .. MaxTime /\ loop.checked \in 0 .. MaxTime
    <2>1. Reading(loop.checked).ticks = Ticks /\ Reading(loop.checked).at = now /\ Reading(loop.checked).checked = loop.checked
      BY DEF Reading
    <2> QED BY <1>2, <2>1
  <1>4. Event("imu", "none", Ticks, now, loop.checked, FALSE) \in EventRecords
    BY <1>3 DEF Event, EventRecords
  <1> QED BY <1>4 DEF RegisterIMUEvent, Writes

LEMMA NotifyWrites ==
  ASSUME IInv, Types, NEW w \in Wheels, NEW point, NotifyMotorDirection(w, point)
  PROVE  LET e == Event("command", w, read.ticks, read.at, read.checked, commanded[w])
         IN e \in EventRecords /\ Writes(e)
  <1>1. read \in [ticks : Nat, at : 0 .. MaxTime, checked : 0 .. MaxTime] /\ commanded[w] \in BOOLEAN
    BY DEF Types, IInv, ClockTypes
  <1>2. Event("command", w, read.ticks, read.at, read.checked, commanded[w]) \in EventRecords
    BY <1>1 DEF Event, EventRecords
  <1> QED BY <1>2 DEF NotifyMotorDirection, Writes

LEMMA WritesTyped ==
  ASSUME Types, NEW e \in EventRecords, Writes(e)
  PROVE  /\ buffer' \in Seq(EventRecords) /\ Len(buffer') <= Capacity
         /\ dropped' \in [Wheels -> [edges : Nat, command : BOOLEAN]]
         /\ \A w \in Wheels :
              /\ dropped'[w].edges = dropped[w].edges + Cardinality({d \in Drops(buffer) : EdgeOf(d, w)})
              /\ dropped'[w].command <=> \/ dropped[w].command
                                         \/ \E d \in Drops(buffer) : d.type = "command" /\ d.wheel = w
  <1>1. /\ buffer \in Seq(EventRecords) /\ Len(buffer) <= Capacity
        /\ dropped \in [Wheels -> [edges : Nat, command : BOOLEAN]]
    BY DEF Types
  <1>2. buffer' \in Seq(EventRecords) /\ Len(buffer') <= Capacity
    BY <1>1, WriteIs DEF Writes
  <1>3. IsFiniteSet(Drops(buffer))
    <2>1. CASE Len(buffer) = Capacity
      BY <2>1, FS_Singleton DEF Drops
    <2>2. CASE Len(buffer) # Capacity
      BY <2>2, FS_EmptySet DEF Drops
    <2> QED BY <2>1, <2>2
  <1> DEFINE lost(w) == {d \in Drops(buffer) : EdgeOf(d, w)}
             command(w) == dropped[w].command \/ \E d \in Drops(buffer) : d.type = "command" /\ d.wheel = w
  <1>4. ASSUME NEW w \in Wheels PROVE Cardinality(lost(w)) \in Nat
    <2>1. IsFiniteSet(lost(w))
      BY <1>3, FS_Subset
    <2> QED BY <2>1, FS_CardinalityType
  <1>5. ASSUME NEW w \in Wheels PROVE command(w) \in BOOLEAN
    BY <1>1
  <1>6. dropped' = [w \in Wheels |-> [edges |-> dropped[w].edges + Cardinality(lost(w)), command |-> command(w)]]
    BY DEF Writes, WithDropped, EdgeOf
  <1>7. \A w \in Wheels : command(w) <=> dropped[w].command \/ \E d \in Drops(buffer) : d.type = "command" /\ d.wheel = w
    OBVIOUS
  <1> HIDE DEF lost, command
  <1>8. dropped' \in [Wheels -> [edges : Nat, command : BOOLEAN]]
    <2> SUFFICES ASSUME NEW w \in Wheels
                 PROVE  [edges |-> dropped[w].edges + Cardinality(lost(w)), command |-> command(w)]
                          \in [edges : Nat, command : BOOLEAN]
      BY <1>6
    <2>1. dropped[w].edges \in Nat
      BY <1>1
    <2> QED BY <1>4, <1>5, <2>1
  <1>9. \A w \in Wheels : dropped'[w].edges = dropped[w].edges + Cardinality(lost(w)) /\ dropped'[w].command = command(w)
    BY <1>6
  <1> QED BY <1>2, <1>7, <1>8, <1>9 DEF lost

LEMMA InitTyped ==
  Init => Types
  <1> SUFFICES ASSUME Init PROVE Types
    OBVIOUS
  <1>1. MaxTime \in Nat /\ MaxEdges \in Nat /\ MaxPasses \in Nat /\ Capacity \in Nat
    BY ClockAssumption
  <1>2. read \in [ticks : Nat, at : 0 .. MaxTime, checked : 0 .. MaxTime]
    BY <1>1 DEF Init, NoReading
  <1>3. buffer \in Seq(EventRecords) /\ Len(buffer) <= Capacity
    BY <1>1 DEF Init
  <1>4. filter \in FilterRecords
    BY DEF Init, FilterRecords
  <1> QED BY <1>1, <1>2, <1>3, <1>4 DEF Init, Types, None

\* The time of the interrupt's and of loop()'s check, and the wheels.
LEMMA IsrTyped ==
  ASSUME IInv, Types, Interrupt \/ FindEdge \/ NoEdge \/ StampEdge \/ ClearEdge
  PROVE  Types'
  <1>1. now \div Wrap \in 0 .. MaxTime
    BY WrapsBounded DEF IInv, ClockTypes
  <1>2. isr'.checked \in 0 .. MaxTime \cup {None}
    <2>1. isr \in [at : {"off", "check", "stamp", "clear"}, wheel : Wheels, checked : Int]
      BY DEF IInv, ClockTypes
    <2> QED BY <1>1, <2>1 DEF Interrupt, FindEdge, NoEdge, StampEdge, ClearEdge, AfterWheel, Types
  <1>3. CASE StampEdge
    <2>1. PICK e \in EventRecords : Writes(e)
      BY <1>3, StampEdgeWrites
    <2>2. /\ buffer' \in Seq(EventRecords) /\ Len(buffer') <= Capacity
          /\ dropped' \in [Wheels -> [edges : Nat, command : BOOLEAN]]
      BY <2>1, WritesTyped
    <2>3. wheels' \in [Wheels -> [edges : Nat, speed : Nat]]
      <3> DEFINE w == isr.wheel
      <3>1. w \in Wheels /\ wheels \in [Wheels -> [edges : Nat, speed : Nat]]
        BY DEF IInv, ClockTypes, Types
      <3>2. wheels[w].edges \in Nat /\ wheels[w].speed \in Nat
        BY <3>1
      <3>3. NotifyEncoderEdge(wheels[w]) \in [edges : Nat, speed : Nat]
        BY <3>2 DEF NotifyEncoderEdge
      <3>4. wheels' = [wheels EXCEPT ![w] = NotifyEncoderEdge(wheels[w])]
        BY <1>3 DEF StampEdge
      <3> HIDE DEF w
      <3> QED BY <3>1, <3>3, <3>4
    <2> QED BY <1>2, <1>3, <2>2, <2>3 DEF Types, StampEdge
  <1>4. CASE ~StampEdge
    BY <1>2, <1>4 DEF Types, Interrupt, FindEdge, NoEdge, ClearEdge
  <1> QED BY <1>3, <1>4

\* A step of loop() goes to a point; whether its buffer and its filter have their
\* types is what is left to show.
LEMMA LoopTyped ==
  ASSUME IInv, Types, NEW point, GoTo(point), UNCHANGED <<isr, edges>>, passes' \in 0 .. MaxPasses,
         read' \in [ticks : Nat, at : 0 .. MaxTime, checked : 0 .. MaxTime],
         buffer' \in Seq(EventRecords), Len(buffer') <= Capacity,
         wheels' \in [Wheels -> [edges : Nat, speed : Nat]], filter' \in FilterRecords,
         dropped' \in [Wheels -> [edges : Nat, command : BOOLEAN]]
  PROVE  Types'
  BY DEF Types, GoTo, None

LEMMA NoReadingTyped ==
  NoReading \in [ticks : Nat, at : 0 .. MaxTime, checked : 0 .. MaxTime]
  BY ClockAssumption DEF NoReading

LEMMA StepsTyped ==
  IInv /\ Types /\ [Next]_vars => Types'
  <1> SUFFICES ASSUME IInv, Types, [Next]_vars PROVE Types'
    OBVIOUS
  <1>0. /\ read \in [ticks : Nat, at : 0 .. MaxTime, checked : 0 .. MaxTime]
        /\ buffer \in Seq(EventRecords) /\ Len(buffer) <= Capacity
        /\ wheels \in [Wheels -> [edges : Nat, speed : Nat]] /\ filter \in FilterRecords
        /\ dropped \in [Wheels -> [edges : Nat, command : BOOLEAN]] /\ passes \in 0 .. MaxPasses
        /\ MaxPasses \in Nat /\ MaxEdges \in Nat /\ edges \in 0 .. MaxEdges
    BY ClockAssumption DEF Types
  <1>1. CASE Tick
    BY <1>1 DEF Tick, Types
  <1>2. CASE \E w \in Wheels : EncoderEdge(w)
    <2>1. edges' \in 0 .. MaxEdges
      BY <1>0, <1>2 DEF EncoderEdge
    <2> QED BY <1>2, <2>1 DEF EncoderEdge, Types
  <1>3. CASE Interrupt \/ FindEdge \/ NoEdge \/ StampEdge \/ ClearEdge
    BY <1>3, IsrTyped
  <1>4. CASE UpdateLeft \/ UpdateRight
    <2>1. loop'.speed \in Nat /\ loop'.checked = None
      BY <1>0, <1>4 DEF UpdateLeft, UpdateRight, UpdateState, Wheels
    <2> QED BY <1>4, <2>1 DEF Types, UpdateLeft, UpdateRight, UpdateState
  <1>5. CASE StoreLeft \/ StoreRight
    <2>1. wheels' \in [Wheels -> [edges : Nat, speed : Nat]]
      BY <1>0, <1>5 DEF StoreLeft, StoreRight, StoreSpeed, Types
    <2> QED BY <1>0, <1>5, <2>1, LoopTyped DEF StoreLeft, StoreRight, StoreSpeed
  <1>6. CASE SkipUpdate
    BY <1>0, <1>6, LoopTyped DEF SkipUpdate
  <1>7. ASSUME NEW point, NEW next, BeginRead(point, next)
        PROVE  Types'
    <2>1. loop'.checked \in 0 .. MaxTime /\ loop'.speed = 0
      BY <1>7, WrapsBounded DEF BeginRead, IInv, ClockTypes
    <2> QED BY <1>7, <2>1, NoReadingTyped DEF BeginRead, Types
  <1>8. CASE BeginPoll \/ BeginIMU \/ BeginEstimate \/ BeginLeft \/ BeginRight
    BY <1>7, <1>8 DEF BeginPoll, BeginIMU, BeginEstimate, BeginLeft, BeginRight
  <1>9. CASE Poll \/ RegisterIMUEvent \/ EstimateNow \/ ReadLeft \/ ReadRight
    <2>1. loop.at \in ReadPoints
      BY <1>9 DEF Poll, RegisterIMUEvent, EstimateNow, ReadLeft, ReadRight, ReadDirection, EndRead, At, ReadPoints
    <2>2. read' \in [ticks : Nat, at : 0 .. MaxTime, checked : 0 .. MaxTime] /\ read'.ticks = Ticks
      <3>1. read' = Reading(loop.checked)
        BY <1>9 DEF Poll, RegisterIMUEvent, EstimateNow, ReadLeft, ReadRight, ReadDirection, EndRead
      <3> QED BY <2>1, <3>1, ReadsTyped DEF Reading
    <2>3. Ticks \in Nat
      BY <2>2
    <2>4. CASE Poll
      <3>1. PICK next \in {"imu", "drain"} : GoTo(next)
        BY <2>4 DEF Poll
      <3> QED BY <1>0, <2>2, <2>4, <3>1, LoopTyped DEF Poll
    <2>5. CASE RegisterIMUEvent
      <3>1. PICK e \in EventRecords : Writes(e)
        BY <2>5, RegisterWrites
      <3>2. /\ buffer' \in Seq(EventRecords) /\ Len(buffer') <= Capacity
            /\ dropped' \in [Wheels -> [edges : Nat, command : BOOLEAN]]
        BY <3>1, WritesTyped
      <3> QED BY <1>0, <2>2, <2>5, <3>2, LoopTyped DEF RegisterIMUEvent
    <2>6. CASE EstimateNow
      <3>1. filter' \in FilterRecords
        BY <1>0, <2>3, <2>6, EstimateIs DEF EstimateNow
      <3> QED BY <1>0, <2>2, <2>6, <3>1, LoopTyped DEF EstimateNow
    <2>7. CASE ReadLeft \/ ReadRight
      BY <1>0, <2>2, <2>7, LoopTyped DEF ReadLeft, ReadRight, ReadDirection
    <2> QED BY <1>9, <2>4, <2>5, <2>6, <2>7
  <1>10. CASE ProcessEvents
    <2>1. PICK order \in Chronological(buffer) : filter' = Processed(filter, order)
      BY <1>10 DEF ProcessEvents
    <2>2. order \in Seq(EventRecords)
      BY <1>0, <2>1, ChronologicalIs
    <2>3. filter' \in FilterRecords
      BY <1>0, <2>1, <2>2, ProcessedTyped
    <2>4. dropped' \in [Wheels -> [edges : Nat, command : BOOLEAN]]
      BY <1>0, <1>10 DEF ProcessEvents
    <2>5. << >> \in Seq(EventRecords) /\ Len(<< >>) <= Capacity
      BY ClockAssumption
    <2> QED BY <1>0, <1>10, <2>3, <2>4, <2>5, LoopTyped, NoReadingTyped DEF ProcessEvents
  <1>11. CASE NoEvents
    BY <1>0, <1>11, LoopTyped, NoReadingTyped DEF NoEvents
  <1>12. ASSUME NEW w \in Wheels, NEW point, NotifyMotorDirection(w, point), NEW next, GoTo(next),
                passes' \in 0 .. MaxPasses
         PROVE  Types'
    <2>1. PICK e \in EventRecords : Writes(e)
      BY <1>12, NotifyWrites
    <2>2. /\ buffer' \in Seq(EventRecords) /\ Len(buffer') <= Capacity
          /\ dropped' \in [Wheels -> [edges : Nat, command : BOOLEAN]]
      BY <2>1, WritesTyped
    <2> QED BY <1>0, <1>12, <2>2, LoopTyped, NoReadingTyped DEF NotifyMotorDirection
  <1>13. CASE NotifyLeftMotorDirection \/ NotifyRightMotorDirection
    BY <1>0, <1>12, <1>13 DEF NotifyLeftMotorDirection, NotifyRightMotorDirection, NotifyMotorDirection, Wheels
  <1>14. CASE RunLeftWheel \/ RunRightWheel
    <2>1. passes' \in 0 .. MaxPasses
      BY <1>0, <1>14 DEF RunLeftWheel, RunRightWheel
    <2> QED BY <1>0, <1>14, <2>1, LoopTyped DEF RunLeftWheel, RunRightWheel, RunWheel
  <1>15. CASE UNCHANGED vars
    BY <1>15 DEF vars, Types
  <1> QED BY <1>1, <1>2, <1>3, <1>4, <1>5, <1>6, <1>8, <1>9, <1>10, <1>11, <1>13, <1>14, <1>15 DEF Next
-----------------------------------------------------------------------------
(* The wheels' speeds.                                                      *)

StorePoints == {"storeLeft", "storeRight"}
Stored == IF loop.at = "storeLeft" THEN "left" ELSE "right"
LastEdge(wheel) == IF wheel.edges < 2 THEN 0 ELSE wheel.edges

\* Between reading a wheel's speed and writing it back, loop() keeps the interrupt
\* out, so what it writes is what the wheel has.
Speeds ==
  /\ \A w \in Wheels : wheels[w].speed = LastEdge(wheels[w])
  /\ loop.at \in StorePoints => ~enabled /\ isr.at = "off" /\ loop.speed = wheels[Stored].speed
  /\ loop.at \notin StorePoints => loop.speed = 0

\* A step of loop() that leaves the wheels alone and goes to no such point.
LEMMA LoopKeepsSpeeds ==
  ASSUME Speeds, UNCHANGED wheels, loop'.at \notin StorePoints, loop'.speed = 0
  PROVE  Speeds'
  BY DEF Speeds

LEMMA SpeedsKept ==
  IInv /\ Types /\ Speeds /\ [Next]_vars => Speeds'
  <1> SUFFICES ASSUME IInv, Types, Speeds, [Next]_vars PROVE Speeds'
    OBVIOUS
  <1>0. wheels \in [Wheels -> [edges : Nat, speed : Nat]] /\ isr.wheel \in Wheels
    BY DEF Types, IInv, ClockTypes
  <1>1. CASE Tick \/ \E w \in Wheels : EncoderEdge(w)
    BY <1>1 DEF Tick, EncoderEdge, Speeds, Stored
  <1>2. CASE Interrupt
    <2>1. loop.at \notin StorePoints
      BY <1>2 DEF Interrupt, Pending, Speeds
    <2> QED BY <1>2, <2>1 DEF Interrupt, Speeds
  <1>3. CASE FindEdge \/ NoEdge \/ ClearEdge
    <2>1. loop.at \notin StorePoints
      BY <1>3 DEF FindEdge, NoEdge, ClearEdge, Speeds
    <2> QED BY <1>3, <2>1 DEF FindEdge, NoEdge, ClearEdge, Speeds
  <1>4. CASE StampEdge
    <2>1. loop.at \notin StorePoints /\ loop' = loop
      BY <1>4 DEF StampEdge, Speeds
    <2> DEFINE v == isr.wheel
    <2>2. v \in Wheels /\ wheels' = [wheels EXCEPT ![v] = NotifyEncoderEdge(wheels[v])]
      BY <1>0, <1>4 DEF StampEdge
    <2> HIDE DEF v
    <2>3. ASSUME NEW w \in Wheels PROVE wheels'[w].speed = LastEdge(wheels'[w])
      <3>1. wheels[w].edges \in Nat /\ wheels[w].speed = LastEdge(wheels[w])
        BY <1>0 DEF Speeds
      <3>2. CASE w = v
        <4>1. wheels'[w] = NotifyEncoderEdge(wheels[w])
          BY <1>0, <2>2, <3>2
        <4> QED BY <3>1, <4>1 DEF NotifyEncoderEdge, LastEdge
      <3>3. CASE w # v
        <4>1. wheels'[w] = wheels[w]
          BY <1>0, <2>2, <3>3
        <4> QED BY <3>1, <4>1
      <3> QED BY <3>2, <3>3
    <2> QED BY <2>1, <2>3 DEF Speeds
  <1>5. ASSUME NEW w \in Wheels, NEW point, NEW next \in StorePoints, UpdateState(w, point, next),
               w = IF next = "storeLeft" THEN "left" ELSE "right"
        PROVE  Speeds'
    <2>1. loop' = [at |-> next, checked |-> None, speed |-> wheels[w].speed] /\ enabled' = FALSE
          /\ wheels' = wheels /\ isr' = isr /\ isr.at = "off"
      BY <1>5 DEF UpdateState, UpdateDisablesIrq, At
    <2>2. Stored' = w
      BY <1>5, <2>1 DEF Stored
    <2> QED BY <2>1, <2>2 DEF Speeds, LastEdge
  <1>6. CASE UpdateLeft \/ UpdateRight
    BY <1>5, <1>6 DEF UpdateLeft, UpdateRight, StorePoints, Wheels
  <1>7. ASSUME NEW w \in Wheels, NEW point \in StorePoints, NEW next, next \notin StorePoints,
               StoreSpeed(w, point, next), w = IF point = "storeLeft" THEN "left" ELSE "right"
        PROVE  Speeds'
    <2>1. loop.at = point /\ loop.speed = wheels[w].speed
      BY <1>7 DEF StoreSpeed, At, Speeds, Stored
    <2>2. wheels' = wheels
      BY <1>0, <1>7, <2>1 DEF StoreSpeed
    <2> QED BY <1>7, <2>2, LoopKeepsSpeeds DEF StoreSpeed, GoTo
  <1>8. CASE StoreLeft \/ StoreRight
    BY <1>7, <1>8 DEF StoreLeft, StoreRight, StorePoints, Wheels
  <1>9. CASE \/ SkipUpdate \/ Poll \/ RegisterIMUEvent \/ ProcessEvents \/ NoEvents \/ EstimateNow
             \/ ReadLeft \/ NotifyLeftMotorDirection \/ ReadRight \/ NotifyRightMotorDirection
             \/ RunLeftWheel \/ RunRightWheel
    <2>1. UNCHANGED wheels /\ \E point \in Points \ StorePoints : GoTo(point)
      BY <1>9 DEF SkipUpdate, Poll, RegisterIMUEvent, ProcessEvents, NoEvents, EstimateNow, ReadLeft, ReadRight,
           ReadDirection, NotifyLeftMotorDirection, NotifyRightMotorDirection, NotifyMotorDirection, RunLeftWheel, RunRightWheel, RunWheel,
           Points, StorePoints
    <2> QED BY <2>1, LoopKeepsSpeeds DEF GoTo
  <1>10. CASE BeginPoll \/ BeginIMU \/ BeginEstimate \/ BeginLeft \/ BeginRight
    <2>1. UNCHANGED wheels /\ loop'.at \notin StorePoints /\ loop'.speed = 0
      BY <1>10 DEF BeginPoll, BeginIMU, BeginEstimate, BeginLeft, BeginRight, BeginRead, StorePoints
    <2> QED BY <2>1, LoopKeepsSpeeds
  <1>11. CASE UNCHANGED vars
    BY <1>11 DEF vars, Speeds, Stored
  <1> QED BY <1>1, <1>2, <1>3, <1>4, <1>6, <1>8, <1>9, <1>10, <1>11 DEF Next

-----------------------------------------------------------------------------
(* The edges that are timed are edges that happened.                        *)

\* A captured edge is still to be timed, unless the interrupt timed it and is about
\* to clear its flag.
Awaiting(w) == IF channels[w].chf /\ ~(isr.at = "clear" /\ isr.wheel = w) THEN 1 ELSE 0
EdgesHappened ==
  /\ isr.at = "stamp" => channels[isr.wheel].chf
  /\ wheels["left"].edges + wheels["right"].edges + Awaiting("left") + Awaiting("right") <= edges

LEMMA EdgesHappenedKept ==
  IInv /\ Types /\ EdgesHappened /\ [Next]_vars => EdgesHappened'
  <1> SUFFICES ASSUME IInv, Types, EdgesHappened, [Next]_vars PROVE EdgesHappened'
    OBVIOUS
  <1>0. /\ wheels \in [Wheels -> [edges : Nat, speed : Nat]] /\ isr.wheel \in Wheels /\ edges \in Nat
        /\ channels \in [Wheels -> [chf : BOOLEAN, at : 0 .. MaxTime, reversed : BOOLEAN]]
        /\ Wheels = {"left", "right"} /\ wheels["left"].edges \in Nat /\ wheels["right"].edges \in Nat
        /\ Awaiting("left") \in {0, 1} /\ Awaiting("right") \in {0, 1}
    BY ClockAssumption DEF Types, IInv, ClockTypes, Wheels, Awaiting
  <1>1. ASSUME NEW w \in Wheels, EncoderEdge(w) PROVE EdgesHappened'
    <2>1. channels' = [channels EXCEPT ![w] = [chf |-> TRUE, at |-> now, reversed |-> notified[w]]]
          /\ edges' = edges + 1 /\ isr' = isr /\ wheels' = wheels
      BY <1>1 DEF EncoderEdge
    <2>2. \A v \in Wheels : v # w => channels'[v] = channels[v]
      BY <1>0, <2>1
    <2>3. channels'[w].chf = TRUE
      BY <1>0, <2>1
    <2>4. \A v \in Wheels : v # w => Awaiting(v)' = Awaiting(v)
      BY <2>1, <2>2 DEF Awaiting
    <2>5. Awaiting(w)' \in {0, 1}
      BY DEF Awaiting
    <2>6. Awaiting("left")' + Awaiting("right")' <= Awaiting("left") + Awaiting("right") + 1
      BY <1>0, <2>4, <2>5
    <2>7. isr.at = "stamp" => channels'[isr.wheel].chf
      BY <1>0, <2>2, <2>3 DEF EdgesHappened
    <2> HIDE DEF Awaiting
    <2>8. Awaiting("left")' \in {0, 1} /\ Awaiting("right")' \in {0, 1}
      BY DEF Awaiting
    <2>9. wheels'["left"].edges + wheels'["right"].edges + Awaiting("left")' + Awaiting("right")' <= edges'
      BY <1>0, <2>1, <2>6, <2>8 DEF EdgesHappened
    <2> QED BY <2>1, <2>7, <2>9 DEF EdgesHappened
  <1>2. CASE Interrupt \/ FindEdge \/ NoEdge
    <2>1. UNCHANGED <<wheels, channels, edges>> /\ isr.at # "clear" /\ isr'.at # "clear"
          /\ (isr'.at = "stamp" => channels[isr'.wheel].chf)
      <3>1. CASE Interrupt
        BY <3>1 DEF Interrupt
      <3>2. CASE FindEdge
        BY <3>2 DEF FindEdge
      <3>3. CASE NoEdge
        BY <3>3 DEF NoEdge, AfterWheel
      <3> QED BY <1>2, <3>1, <3>2, <3>3
    <2>2. Awaiting("left")' = Awaiting("left") /\ Awaiting("right")' = Awaiting("right")
      BY <2>1 DEF Awaiting
    <2> QED BY <2>1, <2>2 DEF EdgesHappened
  <1>3. CASE StampEdge
    <2>0. PICK v \in Wheels : v = isr.wheel
      BY <1>0
    <2>1. /\ wheels' = [wheels EXCEPT ![v] = NotifyEncoderEdge(wheels[v])]
          /\ UNCHANGED <<channels, edges>> /\ isr' = [at |-> "clear", wheel |-> v, checked |-> None]
          /\ isr.at = "stamp" /\ channels[v].chf
      BY <1>3, <2>0 DEF StampEdge, EdgesHappened
    <2>2. wheels'[v].edges = wheels[v].edges + 1 /\ \A w \in Wheels : w # v => wheels'[w] = wheels[w]
      BY <1>0, <2>1 DEF NotifyEncoderEdge
    <2>3. Awaiting(v) = 1
      BY <2>1 DEF Awaiting
    <2>4. Awaiting(v)' = 0
      BY <2>1 DEF Awaiting
    <2>5. \A w \in Wheels : w # v => Awaiting(w)' = Awaiting(w)
      BY <2>1 DEF Awaiting
    <2>6. isr'.at # "stamp"
      BY <2>1
    <2> HIDE DEF Awaiting
    <2>7. wheels'["left"].edges + wheels'["right"].edges + Awaiting("left")' + Awaiting("right")' <= edges'
      <3>1. CASE v = "left"
        <4>1. wheels'["right"] = wheels["right"] /\ Awaiting("right")' = Awaiting("right")
          BY <2>2, <2>5, <3>1 DEF Wheels
        <4> QED BY <1>0, <2>1, <2>2, <2>3, <2>4, <3>1, <4>1 DEF EdgesHappened
      <3>2. CASE v = "right"
        <4>1. wheels'["left"] = wheels["left"] /\ Awaiting("left")' = Awaiting("left")
          BY <2>2, <2>5, <3>2 DEF Wheels
        <4> QED BY <1>0, <2>1, <2>2, <2>3, <2>4, <3>2, <4>1 DEF EdgesHappened
      <3> QED BY <3>1, <3>2 DEF Wheels
    <2> QED BY <2>6, <2>7 DEF EdgesHappened
  <1>4. CASE ClearEdge
    <2>0. PICK v \in Wheels : v = isr.wheel
      BY <1>0
    <2>1. /\ channels' = [channels EXCEPT ![v] = NoCapture] /\ isr' = AfterWheel(v)
          /\ UNCHANGED <<wheels, edges>> /\ isr.at = "clear"
      BY <1>4, <2>0 DEF ClearEdge
    <2>2. channels'[v].chf = FALSE /\ \A w \in Wheels : w # v => channels'[w] = channels[w]
      BY <1>0, <2>1 DEF NoCapture
    <2>3. isr'.at \notin {"stamp", "clear"}
      BY <2>1 DEF AfterWheel
    <2>4. Awaiting(v) = 0
      BY <2>0, <2>1 DEF Awaiting
    <2>5. Awaiting(v)' = 0
      BY <2>2 DEF Awaiting
    <2>6. \A w \in Wheels : w # v => Awaiting(w)' = Awaiting(w)
      BY <2>0, <2>1, <2>2, <2>3 DEF Awaiting
    <2> HIDE DEF Awaiting
    <2>7. wheels'["left"].edges + wheels'["right"].edges + Awaiting("left")' + Awaiting("right")' <= edges'
      <3>1. CASE v = "left"
        <4>1. Awaiting("right")' = Awaiting("right")
          BY <2>6, <3>1 DEF Wheels
        <4> QED BY <1>0, <2>1, <2>4, <2>5, <3>1, <4>1 DEF EdgesHappened
      <3>2. CASE v = "right"
        <4>1. Awaiting("left")' = Awaiting("left")
          BY <2>6, <3>2 DEF Wheels
        <4> QED BY <1>0, <2>1, <2>4, <2>5, <3>2, <4>1 DEF EdgesHappened
      <3> QED BY <3>1, <3>2 DEF Wheels
    <2> QED BY <2>3, <2>7 DEF EdgesHappened
  <1>5. ASSUME UNCHANGED <<channels, isr, edges>>, wheels'["left"].edges = wheels["left"].edges,
               wheels'["right"].edges = wheels["right"].edges
        PROVE  EdgesHappened'
    BY <1>5 DEF EdgesHappened, Awaiting
  <1>6. CASE StoreLeft \/ StoreRight
    <2>1. wheels'["left"].edges = wheels["left"].edges /\ wheels'["right"].edges = wheels["right"].edges
          /\ UNCHANGED <<channels, isr, edges>>
      BY <1>0, <1>6 DEF StoreLeft, StoreRight, StoreSpeed
    <2> QED BY <1>5, <2>1
  <1>7. CASE \/ Tick \/ UpdateLeft \/ UpdateRight \/ SkipUpdate \/ Poll \/ RegisterIMUEvent \/ ProcessEvents
             \/ NoEvents \/ EstimateNow \/ ReadLeft \/ NotifyLeftMotorDirection \/ ReadRight
             \/ NotifyRightMotorDirection \/ RunLeftWheel \/ RunRightWheel
    <2>1. UNCHANGED <<wheels, channels, isr, edges>>
      BY <1>7 DEF Tick, UpdateLeft, UpdateRight, UpdateState, SkipUpdate, Poll, RegisterIMUEvent, ProcessEvents,
           NoEvents, EstimateNow, ReadLeft, ReadRight, ReadDirection, NotifyLeftMotorDirection,
           NotifyRightMotorDirection, NotifyMotorDirection, RunLeftWheel, RunRightWheel, RunWheel
    <2> QED BY <1>5, <2>1
  <1>8. CASE BeginPoll \/ BeginIMU \/ BeginEstimate \/ BeginLeft \/ BeginRight
    <2>1. UNCHANGED <<wheels, channels, isr, edges>>
      BY <1>8 DEF BeginPoll, BeginIMU, BeginEstimate, BeginLeft, BeginRight, BeginRead
    <2> QED BY <1>5, <2>1
  <1>9. CASE UNCHANGED vars
    BY <1>5, <1>9 DEF vars
  <1> QED BY <1>1, <1>2, <1>3, <1>4, <1>6, <1>7, <1>8, <1>9 DEF Next

-----------------------------------------------------------------------------
(* No edge that was timed is lost or counted twice.                         *)

Conserved ==
  \A w \in Wheels :
    wheels[w].edges = filter.count[w] + dropped[w].edges + EdgesUpTo(buffer, w, Len(buffer))

\* A written event that is no edge leaves the counts as they were, and an edge is one more.
LEMMA WritesConserve ==
  ASSUME Types, Conserved, NEW e \in EventRecords, Writes(e), UNCHANGED filter, NEW w \in Wheels,
         wheels'[w].edges = wheels[w].edges + (IF EdgeOf(e, w) THEN 1 ELSE 0)
  PROVE  wheels'[w].edges = filter'.count[w] + dropped'[w].edges + EdgesUpTo(buffer', w, Len(buffer'))
  <1> DEFINE lost == Cardinality({d \in Drops(buffer) : EdgeOf(d, w)})
             one == IF EdgeOf(e, w) THEN 1 ELSE 0
             before == EdgesUpTo(buffer, w, Len(buffer))
             after == EdgesUpTo(buffer', w, Len(buffer'))
  <1>1. /\ buffer \in Seq(EventRecords) /\ Len(buffer) <= Capacity
        /\ filter.count[w] \in Nat /\ dropped[w].edges \in Nat
    BY DEF Types, FilterRecords
  <1>2. dropped'[w].edges = dropped[w].edges + lost /\ dropped'[w].edges \in Nat
    <2>1. /\ dropped' \in [Wheels -> [edges : Nat, command : BOOLEAN]]
          /\ \A v \in Wheels :
              /\ dropped'[v].edges = dropped[v].edges + Cardinality({d \in Drops(buffer) : EdgeOf(d, v)})
              /\ dropped'[v].command <=> \/ dropped[v].command
                                         \/ \E d \in Drops(buffer) : d.type = "command" /\ d.wheel = v
      BY WritesTyped
    <2> QED BY <2>1
  <1>3. EdgesUpTo(Write(buffer, e), w, Len(Write(buffer, e))) + lost = before + one
    BY <1>1, CountWritten
  <1>4. after + lost = before + one
    BY <1>3 DEF Writes
  <1>5. wheels[w].edges = filter.count[w] + dropped[w].edges + before /\ one \in {0, 1}
    BY DEF Conserved
  <1>6. before \in Nat /\ after \in Nat
    <2>1. Len(buffer) \in Nat /\ Len(buffer') \in Nat
      BY <1>1, LenProperties, WriteIs DEF Writes
    <2> QED BY <2>1, CountNext
  <1>7. lost \in Nat
    <2>1. IsFiniteSet(Drops(buffer))
      BY FS_Singleton, FS_EmptySet DEF Drops
    <2>2. IsFiniteSet({d \in Drops(buffer) : EdgeOf(d, w)})
      BY <2>1, FS_Subset
    <2> QED BY <2>2, FS_CardinalityType
  <1>8. wheels'[w].edges = wheels[w].edges + one /\ filter' = filter
    OBVIOUS
  <1> HIDE DEF lost, one, before, after
  <1>9. wheels[w].edges + one = filter.count[w] + (dropped[w].edges + lost) + after
    <2>1. PICK f \in Nat, d \in Nat, l \in Nat, b \in Nat, a \in Nat, o \in {0, 1} :
             /\ f = filter.count[w] /\ d = dropped[w].edges /\ l = lost /\ b = before /\ a = after /\ o = one
      BY <1>1, <1>5, <1>6, <1>7
    <2>2. a + l = b + o
      BY <1>4, <2>1
    <2>3. f + d + b + o = f + (d + l) + a
      BY <2>2
    <2>4. wheels[w].edges = f + d + b
      BY <1>5, <2>1
    <2> QED BY <2>1, <2>3, <2>4
  <1>10. wheels'[w].edges = filter'.count[w] + dropped'[w].edges + after
    BY <1>2, <1>8, <1>9, Zenon
  <1> QED BY <1>10 DEF after

LEMMA ConservedKept ==
  IInv /\ Types /\ Conserved /\ [Next]_vars => Conserved'
  <1> SUFFICES ASSUME IInv, Types, Conserved, [Next]_vars PROVE Conserved'
    OBVIOUS
  <1>0. /\ wheels \in [Wheels -> [edges : Nat, speed : Nat]] /\ buffer \in Seq(EventRecords)
        /\ Len(buffer) <= Capacity /\ filter \in FilterRecords
        /\ dropped \in [Wheels -> [edges : Nat, command : BOOLEAN]]
    BY DEF Types
  <1>1. CASE StampEdge
    <2> DEFINE v == isr.wheel
               e == Event("edge", v, EdgeTicks(channels[v].at), channels[v].at, isr.checked, channels[v].reversed)
    <2>1. v \in Wheels /\ e \in EventRecords /\ Writes(e)
      BY <1>1, StampEdgeWrites
    <2>2. e.type = "edge" /\ e.wheel = v
      BY DEF Event
    <2>3. wheels' = [wheels EXCEPT ![v] = NotifyEncoderEdge(wheels[v])] /\ filter' = filter
      BY <1>1 DEF StampEdge
    <2> HIDE DEF v, e
    <2>4. ASSUME NEW w \in Wheels
          PROVE  wheels'[w].edges = wheels[w].edges + (IF EdgeOf(e, w) THEN 1 ELSE 0)
      BY <1>0, <2>1, <2>2, <2>3 DEF NotifyEncoderEdge, EdgeOf
    <2>5. ASSUME NEW w \in Wheels
          PROVE  wheels'[w].edges = filter'.count[w] + dropped'[w].edges + EdgesUpTo(buffer', w, Len(buffer'))
      BY <2>1, <2>3, <2>4, WritesConserve
    <2> QED BY <2>5 DEF Conserved
  <1>2. ASSUME NEW e \in EventRecords, e.type # "edge", Writes(e), UNCHANGED <<filter, wheels>>
        PROVE  Conserved'
    <2>1. ASSUME NEW w \in Wheels
          PROVE  wheels'[w].edges = filter'.count[w] + dropped'[w].edges + EdgesUpTo(buffer', w, Len(buffer'))
      <3>1. wheels'[w].edges = wheels[w].edges + (IF EdgeOf(e, w) THEN 1 ELSE 0)
        BY <1>0, <1>2 DEF EdgeOf
      <3> QED BY <1>2, <3>1, WritesConserve
    <2> QED BY <2>1 DEF Conserved
  <1>3. CASE RegisterIMUEvent
    <2> DEFINE e == Event("imu", "none", Ticks, now, loop.checked, FALSE)
    <2>1. e \in EventRecords /\ Writes(e) /\ UNCHANGED <<filter, wheels>>
      BY <1>3, RegisterWrites DEF RegisterIMUEvent
    <2>2. e.type # "edge"
      BY DEF Event
    <2> HIDE DEF e
    <2> QED BY <1>2, <2>1, <2>2
  <1>4. ASSUME NEW w \in Wheels, NEW point, NotifyMotorDirection(w, point)
        PROVE  Conserved'
    <2> DEFINE e == Event("command", w, read.ticks, read.at, read.checked, commanded[w])
    <2>1. e \in EventRecords /\ Writes(e) /\ UNCHANGED <<filter, wheels>>
      BY <1>4, NotifyWrites DEF NotifyMotorDirection
    <2>2. e.type # "edge"
      BY DEF Event
    <2> HIDE DEF e
    <2> QED BY <1>2, <2>1, <2>2
  <1>5. CASE NotifyLeftMotorDirection \/ NotifyRightMotorDirection
    BY <1>4, <1>5 DEF NotifyLeftMotorDirection, NotifyRightMotorDirection, Wheels
  <1>6. CASE ProcessEvents
    <2>1. PICK order \in Chronological(buffer) : filter' = Processed(filter, order)
      BY <1>6 DEF ProcessEvents
    <2>2. order \in Seq(EventRecords) /\ Len(order) = Len(buffer)
      BY <1>0, <2>1, ChronologicalIs
    <2>3. buffer' = << >> /\ wheels' = wheels /\ \A w \in Wheels : dropped'[w].edges = dropped[w].edges
      BY <1>0, <1>6 DEF ProcessEvents
    <2>4. ASSUME NEW w \in Wheels
          PROVE  wheels'[w].edges = filter'.count[w] + dropped'[w].edges + EdgesUpTo(buffer', w, Len(buffer'))
      <3>1. filter'.count[w] = filter.count[w] + EdgesUpTo(order, w, Len(order))
        BY <1>0, <2>1, <2>2, ProcessedCounts
      <3>2. EdgesUpTo(order, w, Len(buffer)) = EdgesUpTo(buffer, w, Len(buffer))
        BY <1>0, <2>1, CountOrdered
      <3>3. EdgesUpTo(buffer', w, Len(buffer')) = 0
        <4>1. Len(buffer') = 0
          BY <2>3
        <4> QED BY <4>1, CountNone
      <3>4. Len(buffer) \in Nat /\ filter.count[w] \in Nat /\ dropped[w].edges \in Nat
        BY <1>0, LenProperties DEF FilterRecords
      <3>5. EdgesUpTo(buffer, w, Len(buffer)) \in Nat
        BY <3>4, CountNext
      <3>6. wheels[w].edges = filter.count[w] + dropped[w].edges + EdgesUpTo(buffer, w, Len(buffer))
        BY DEF Conserved
      <3> QED BY <2>2, <2>3, <3>1, <3>2, <3>3, <3>4, <3>5, <3>6
    <2> QED BY <2>4 DEF Conserved
  <1>7. ASSUME \A w \in Wheels : wheels'[w].edges = wheels[w].edges /\ filter'.count[w] = filter.count[w],
               UNCHANGED <<buffer, dropped>>
        PROVE  Conserved'
    BY <1>7 DEF Conserved
  <1>8. CASE StoreLeft \/ StoreRight
    BY <1>0, <1>7, <1>8 DEF StoreLeft, StoreRight, StoreSpeed
  <1>9. CASE EstimateNow
    <2>1. filter'.count = filter.count
      BY <1>0, <1>9 DEF EstimateNow, EstimateState, FilterRecords
    <2> QED BY <1>7, <1>9, <2>1 DEF EstimateNow
  <1>10. CASE \/ Tick \/ (\E w \in Wheels : EncoderEdge(w)) \/ Interrupt \/ FindEdge \/ NoEdge \/ ClearEdge
              \/ UpdateLeft \/ UpdateRight \/ SkipUpdate \/ Poll \/ NoEvents \/ ReadLeft \/ ReadRight
              \/ RunLeftWheel \/ RunRightWheel
    BY <1>7, <1>10 DEF Tick, EncoderEdge, Interrupt, FindEdge, NoEdge, ClearEdge, UpdateLeft, UpdateRight,
         UpdateState, SkipUpdate, Poll, NoEvents, ReadLeft, ReadRight, ReadDirection, RunLeftWheel, RunRightWheel, RunWheel
  <1>11. CASE BeginPoll \/ BeginIMU \/ BeginEstimate \/ BeginLeft \/ BeginRight
    BY <1>7, <1>11 DEF BeginPoll, BeginIMU, BeginEstimate, BeginLeft, BeginRight, BeginRead
  <1>12. CASE UNCHANGED vars
    BY <1>7, <1>12 DEF vars
  <1> QED BY <1>1, <1>3, <1>5, <1>6, <1>8, <1>9, <1>10, <1>11, <1>12 DEF Next
-----------------------------------------------------------------------------
(* The direction in which a wheel is driven and the one last notified.      *)

\* They differ only from the wheel's Run() to the time of the notification that follows.
Lagging == \A w \in Wheels : commanded[w] # notified[w] => loop.at \in MayDiffer(w)

\* A step that turns no wheel and does not leave these points.
LEMMA LaggingStays ==
  ASSUME Lagging, UNCHANGED <<commanded, notified>>,
         \A w \in Wheels : loop.at \in MayDiffer(w) => loop'.at \in MayDiffer(w)
  PROVE  Lagging'
  BY DEF Lagging, MayDiffer, Points

LEMMA LaggingKept ==
  IInv /\ Lagging /\ [Next]_vars => Lagging'
  <1> SUFFICES ASSUME IInv, Lagging, [Next]_vars PROVE Lagging'
    OBVIOUS
  <1>0. /\ commanded \in [Wheels -> BOOLEAN] /\ notified \in [Wheels -> BOOLEAN]
        /\ Wheels = {"left", "right"}
    BY DEF IInv, ClockTypes, Wheels
  <1>1. CASE \/ Tick \/ (\E w \in Wheels : EncoderEdge(w)) \/ Interrupt \/ FindEdge \/ NoEdge \/ StampEdge
             \/ ClearEdge \/ UNCHANGED vars
    <2>1. UNCHANGED <<loop, commanded, notified>>
      BY <1>1 DEF Tick, EncoderEdge, Interrupt, FindEdge, NoEdge, StampEdge, ClearEdge, vars
    <2> QED BY <2>1, LaggingStays
  <1>2. CASE \/ UpdateLeft \/ StoreLeft \/ UpdateRight \/ StoreRight \/ SkipUpdate \/ Poll \/ RegisterIMUEvent
             \/ ProcessEvents \/ NoEvents \/ EstimateNow
    <2>1. /\ UNCHANGED <<commanded, notified>>
          /\ loop'.at \in {"storeLeft", "updateRight", "storeRight", "estimator", "imu", "drain", "left", "estimate"}
      <3>1. CASE UpdateLeft \/ StoreLeft \/ UpdateRight \/ StoreRight \/ SkipUpdate
        BY <3>1 DEF UpdateLeft, StoreLeft, UpdateRight, StoreRight, UpdateState, StoreSpeed, SkipUpdate, GoTo
      <3>2. CASE Poll
        BY <3>2 DEF Poll, GoTo
      <3>3. CASE RegisterIMUEvent
        BY <3>3 DEF RegisterIMUEvent, GoTo
      <3>4. CASE ProcessEvents
        BY <3>4 DEF ProcessEvents, GoTo
      <3>5. CASE NoEvents
        BY <3>5 DEF NoEvents, GoTo
      <3>6. CASE EstimateNow
        BY <3>6 DEF EstimateNow, GoTo
      <3> QED BY <1>2, <3>1, <3>2, <3>3, <3>4, <3>5, <3>6
    <2>2. \A w \in Wheels : loop'.at \in MayDiffer(w)
      BY <2>1 DEF MayDiffer, Points
    <2> QED BY <2>1, <2>2, LaggingStays
  <1>3. CASE BeginPoll \/ BeginIMU \/ BeginEstimate \/ BeginLeft \/ BeginRight
    <2>1. /\ UNCHANGED <<commanded, notified>>
          /\ (loop.at = "right" /\ loop'.at = "rightRead") \/ loop'.at \in {"poll", "registerIMU", "estimated", "leftRead"}
      BY <1>3 DEF BeginPoll, BeginIMU, BeginEstimate, BeginLeft, BeginRight, BeginRead, At
    <2>2. \A w \in Wheels : loop.at \in MayDiffer(w) => loop'.at \in MayDiffer(w)
      BY <2>1 DEF MayDiffer, Points
    <2> QED BY <2>1, <2>2, LaggingStays
  <1>4. CASE ReadLeft
    <2>1. /\ commanded' = commanded /\ notified'["left"] = commanded["left"] /\ notified'["right"] = notified["right"]
          /\ loop'.at = "leftNotify"
      BY <1>0, <1>4 DEF ReadLeft, ReadDirection, GoTo
    <2> QED BY <1>0, <2>1 DEF Lagging, MayDiffer, Points
  <1>5. CASE ReadRight
    <2>1. /\ commanded' = commanded /\ notified'["right"] = commanded["right"] /\ notified'["left"] = notified["left"]
          /\ loop.at = "rightRead" /\ loop'.at = "rightNotify"
      BY <1>0, <1>5 DEF ReadRight, ReadDirection, EndRead, At, GoTo
    <2> QED BY <1>0, <2>1 DEF Lagging, MayDiffer, Points
  <1>6. CASE NotifyLeftMotorDirection \/ NotifyRightMotorDirection
    <2>1. /\ UNCHANGED <<commanded, notified>>
          /\ \/ loop.at = "leftNotify" /\ loop'.at = "right"
             \/ loop.at = "rightNotify" /\ loop'.at = "leftRun"
      BY <1>6 DEF NotifyLeftMotorDirection, NotifyRightMotorDirection, NotifyMotorDirection, At, GoTo
    <2>2. \A w \in Wheels : loop.at \in MayDiffer(w) => loop'.at \in MayDiffer(w)
      BY <2>1 DEF MayDiffer, Points
    <2> QED BY <2>1, <2>2, LaggingStays
  <1>7. CASE RunLeftWheel
    <2>1. /\ notified' = notified /\ commanded'["right"] = commanded["right"]
          /\ loop.at = "leftRun" /\ loop'.at = "rightRun"
      BY <1>0, <1>7 DEF RunLeftWheel, RunWheel, At, GoTo
    <2> QED BY <1>0, <2>1 DEF Lagging, MayDiffer, Points
  <1>8. CASE RunRightWheel
    <2>1. loop'.at = "start"
      BY <1>8 DEF RunRightWheel, GoTo
    <2> QED BY <1>0, <2>1 DEF Lagging, MayDiffer, Points
  <1> QED BY <1>1, <1>2, <1>3, <1>4, <1>5, <1>6, <1>7, <1>8 DEF Next
-----------------------------------------------------------------------------
LEMMA InitRest ==
  Init => Speeds /\ EdgesHappened /\ Conserved /\ Lagging
  <1> SUFFICES ASSUME Init PROVE Speeds /\ EdgesHappened /\ Conserved /\ Lagging
    OBVIOUS
  <1>1. Speeds
    BY DEF Init, Speeds, LastEdge, StorePoints
  <1>2. EdgesHappened
    BY DEF Init, EdgesHappened, Awaiting, NoCapture, Wheels
  <1>3. buffer = << >> /\ Len(buffer) = 0
    BY DEF Init
  <1>4. \A w \in Wheels : EdgesUpTo(buffer, w, Len(buffer)) = 0
    BY <1>3, CountNone
  <1>5. Conserved
    BY <1>4 DEF Init, Conserved
  <1>6. Lagging
    BY DEF Init, Lagging
  <1> QED BY <1>1, <1>2, <1>5, <1>6

\* All of them.
AllInv == IInv /\ Types /\ Speeds /\ EdgesHappened /\ Conserved /\ Lagging

LEMMA AllInvGives ==
  AllInv => TypeOK /\ SpeedFromLastEdge /\ TicksConserved
  <1> SUFFICES ASSUME AllInv PROVE TypeOK /\ SpeedFromLastEdge /\ TicksConserved
    OBVIOUS
  <1> USE DEF AllInv
  <1>1. SpeedFromLastEdge
    BY DEF Speeds, LastEdge, SpeedFromLastEdge
  <1>2. TicksConserved
    <2>1. DOMAIN buffer = 1 .. Len(buffer)
      BY LenProperties DEF Types
    <2>2. \A w \in Wheels : Cardinality({i \in DOMAIN buffer : buffer[i].type = "edge" /\ buffer[i].wheel = w})
                              = EdgesUpTo(buffer, w, Len(buffer))
      BY <2>1 DEF EdgesUpTo, EdgeOf
    <2> QED BY <2>2 DEF Conserved, TicksConserved
  <1>3. TypeOK
    <2>1. wheels \in [Wheels -> [edges : 0 .. MaxEdges, speed : 0 .. MaxEdges]] /\ loop.speed \in 0 .. MaxEdges
      <3>1. /\ wheels \in [Wheels -> [edges : Nat, speed : Nat]] /\ edges \in 0 .. MaxEdges /\ MaxEdges \in Nat
            /\ loop.speed \in Nat
        BY ClockAssumption DEF Types
      <3>2. wheels["left"].edges \in Nat /\ wheels["right"].edges \in Nat
        BY <3>1 DEF Wheels
      <3>3. Awaiting("left") \in {0, 1} /\ Awaiting("right") \in {0, 1}
        BY DEF Awaiting
      <3>4. wheels["left"].edges <= MaxEdges /\ wheels["right"].edges <= MaxEdges
        BY <3>1, <3>2, <3>3 DEF EdgesHappened
      <3>5. ASSUME NEW w \in Wheels PROVE wheels[w] \in [edges : 0 .. MaxEdges, speed : 0 .. MaxEdges]
        <4>1. wheels[w].edges \in 0 .. MaxEdges
          BY <3>1, <3>4 DEF Wheels
        <4>2. wheels[w].speed \in 0 .. MaxEdges
          BY <3>1, <4>1 DEF Speeds, LastEdge
        <4> QED BY <3>1, <4>1, <4>2
      <3>6. loop.speed \in 0 .. MaxEdges
        BY <3>1, <3>5 DEF Speeds, Stored, Wheels
      <3> QED BY <3>1, <3>5, <3>6
    <2>2. buffer \in Seq([type : {"edge", "command", "imu"}, wheel : Wheels \cup {"none"}, ticks : Nat,
                      at : 0 .. MaxTime, reversed : BOOLEAN, overflown : BOOLEAN]) /\ Len(buffer) <= Capacity
      <3> DEFINE R == [type : {"edge", "command", "imu"}, wheel : Wheels \cup {"none"}, ticks : Nat,
                      at : 0 .. MaxTime, reversed : BOOLEAN, overflown : BOOLEAN]
      <3>1. EventRecords \subseteq R
        BY DEF EventRecords
      <3> HIDE DEF R
      <3>2. Seq(EventRecords) \subseteq Seq(R)
        BY <3>1, SeqMonotonic
      <3>3. buffer \in Seq(R) /\ Len(buffer) <= Capacity
        BY <3>2 DEF Types
      <3> QED BY <3>3 DEF R
    <2>3. /\ isr \in [at : {"off", "check", "stamp", "clear"}, wheel : Wheels, checked : 0 .. MaxTime \cup {None}]
          /\ loop \in [at : Points, checked : 0 .. MaxTime \cup {None}, speed : 0 .. MaxEdges]
      BY <2>1 DEF IInv, ClockTypes, Types
    <2> QED BY <2>1, <2>2, <2>3 DEF IInv, ClockTypes, Types, TypeOK, FilterRecords
  <1> QED BY <1>1, <1>2, <1>3

LEMMA AllInvAlways == Spec => []AllInv
  <1>1. Init => AllInv
    BY InitEstablishesIInv, InitTyped, InitRest DEF AllInv
  <1>2. AllInv /\ [Next]_vars => AllInv'
    BY NextKeepsIInv, StepsTyped, SpeedsKept, EdgesHappenedKept, ConservedKept, LaggingKept DEF AllInv
  <1> QED BY <1>1, <1>2, PTL DEF Spec

\* Every variable has its type whatever the interrupt and loop() do, and the event
\* buffer never holds more than kEventRingBufferCapacity events: Write() makes room.
THEOREM TypeCorrect == Spec => []TypeOK
  BY AllInvAlways, AllInvGives, PTL

\* UpdateState() reads a wheel's speed and writes it back with the interrupt disabled:
\* no edge that comes in between is overwritten, so the speed is always that of the
\* last two edges.
THEOREM SpeedFromLastEdgeAlways == Spec => []SpeedFromLastEdge
  BY AllInvAlways, AllInvGives, PTL

\* Every edge that the interrupt timed is counted once by the filter, is in the event
\* buffer, or was dropped when the buffer was full: two edges at the same time that
\* are counted together are not counted again, and sorting loses none.
THEOREM TicksConservedAlways == Spec => []TicksConserved
  BY AllInvAlways, AllInvGives, PTL
-----------------------------------------------------------------------------
(* The order of the events.                                                 *)

CommandOf(e, w) == e.type = "command" /\ e.wheel = w

Batch(order) == {order[j] : j \in 1 .. Len(order)}

\* What one step of the loop over the sorted events makes of what it finds.
StepOutcome(before, after, order, i) ==
  LET old == before.filter
      new == after.filter
      e == order[i]
      h == order[i + 1] IN
  /\ old \in FilterRecords /\ new \in FilterRecords /\ e \in EventRecords
  /\ \/ before.merged /\ ~after.merged /\ new = old
     \/ /\ ~before.merged /\ after.merged
        /\ i < Len(order) /\ h \in EventRecords /\ SameTime(e, h)
        /\ new.backward = old.backward /\ new.time = e.ticks
        /\ new.firm <=> Right(e) /\ Right(h)
        /\ new.underflow <=> old.underflow \/ (e.ticks < old.time /\ old.firm /\ new.firm)
        /\ new.wrong <=> old.wrong \/ CountedWrong(old, {e, h}, Batch(order)) # {}
     \/ /\ ~before.merged /\ ~after.merged /\ e.type = "command"
        /\ new = [old EXCEPT !.backward[e.wheel] = e.reversed]
     \/ /\ ~before.merged /\ ~after.merged /\ e.type # "command"
        /\ new.backward = old.backward /\ new.time = e.ticks /\ (new.firm <=> Right(e))
        /\ new.underflow <=> old.underflow \/ (e.ticks < old.time /\ old.firm /\ Right(e))
        /\ new.wrong <=> old.wrong \/ (e.type = "edge" /\ CountedWrong(old, {e}, Batch(order)) # {})

LEMMA StepIs ==
  ASSUME NEW f \in FilterRecords, NEW order \in Seq(EventRecords), NEW g, IsRun(g, f, order),
         NEW i \in 1 .. Len(order)
  PROVE  StepOutcome(g[i - 1], g[i], order, i)
  <1> DEFINE before == g[i - 1]
             old == before.filter
             new == g[i].filter
             e == order[i]
             h == order[i + 1]
  <1>1. /\ i - 1 \in 0 .. Len(order) /\ i \in 0 .. Len(order) /\ Len(order) \in Nat
        /\ e \in EventRecords /\ (i < Len(order) => h \in EventRecords)
    <2>1. Len(order) \in Nat
      BY LenProperties
    <2>2. i < Len(order) => i + 1 \in 1 .. Len(order)
      BY <2>1
    <2> QED BY <2>1, <2>2, ElementOfSeq
  <1>2. before \in Results /\ g[i] \in Results /\ g[i] = ProcessStep(before, order, i)
    BY <1>1 DEF IsRun
  <1>3. old \in FilterRecords /\ new \in FilterRecords /\ before.merged \in BOOLEAN
    BY <1>2 DEF Results
  <1>4. CASE before.merged
    <2>1. g[i] = [before EXCEPT !.merged = FALSE]
      BY <1>2, <1>4 DEF ProcessStep, Batch
    <2>2. ~g[i].merged /\ new = old
      BY <1>2, <2>1 DEF Results
    <2> QED BY <1>1, <1>3, <1>4, <2>2 DEF StepOutcome
  <1>5. CASE ~before.merged /\ i < Len(order) /\ SameTime(e, h)
    <2> DEFINE es == {e, h}
               r == NotifyWheelTicks(old, es, Batch(order))
    <2>1. g[i] = [filter |-> r, merged |-> TRUE]
      BY <1>2, <1>5 DEF ProcessStep, Batch
    <2>2. es \in SUBSET EventRecords /\ es # {} /\ IsFiniteSet(es)
      <3>1. IsFiniteSet({e})
        BY FS_Singleton
      <3>2. IsFiniteSet({e} \cup {h})
        BY <3>1, FS_AddElement
      <3>3. es = {e} \cup {h}
        OBVIOUS
      <3> QED BY <1>1, <1>5, <3>2, <3>3
    <2>3. new = r /\ g[i].merged
      BY <2>1
    <2>20. old \in FilterRecords
      BY <1>3
    <2> HIDE DEF es, old
    <2>4. /\ r \in FilterRecords
          /\ r.backward = old.backward
          /\ \A w \in Wheels : r.count[w] = old.count[w] + Cardinality({x \in es : x.wheel = w})
          /\ \E x \in es : r.time = x.ticks
          /\ r.firm <=> \A x \in es : Right(x)
          /\ r.underflow <=> old.underflow \/ (r.time < old.time /\ old.firm /\ r.firm)
          /\ r.wrong <=> old.wrong \/ CountedWrong(old, es, Batch(order)) # {}
      BY <2>20, <2>2, NotifyWheelTicksIs
    <2> HIDE DEF r
    <2>5. r.time = e.ticks
      BY <1>5, <2>4 DEF es, SameTime
    <2>6. r.firm <=> Right(e) /\ Right(h)
      BY <2>4 DEF es
    <2>7. /\ r.backward = old.backward /\ r.time = e.ticks
          /\ r.firm <=> Right(e) /\ Right(h)
          /\ r.underflow <=> old.underflow \/ (e.ticks < old.time /\ old.firm /\ r.firm)
          /\ r.wrong <=> old.wrong \/ CountedWrong(old, {e, h}, Batch(order)) # {}
      BY <2>4, <2>5, <2>6 DEF es
    <2> HIDE DEF new
    <2>8. /\ ~before.merged /\ g[i].merged
          /\ i < Len(order) /\ h \in EventRecords /\ SameTime(e, h)
          /\ new.backward = old.backward /\ new.time = e.ticks
          /\ new.firm <=> Right(e) /\ Right(h)
          /\ new.underflow <=> old.underflow \/ (e.ticks < old.time /\ old.firm /\ new.firm)
          /\ new.wrong <=> old.wrong \/ CountedWrong(old, {e, h}, Batch(order)) # {}
      BY <1>1, <1>5, <2>3, <2>7
    <2> QED BY <1>1, <1>3, <2>8 DEF StepOutcome, old, new
  <1>6. CASE ~before.merged /\ ~(i < Len(order) /\ SameTime(e, h))
    <2> DEFINE r == Notify(old, e, Batch(order))
    <2>1. g[i] = [filter |-> r, merged |-> FALSE]
      BY <1>2, <1>6 DEF ProcessStep, Batch
    <2>2. new = r /\ ~g[i].merged
      BY <2>1
    <2>20. old \in FilterRecords /\ e \in EventRecords
      BY <1>1, <1>3
    <2> HIDE DEF old, e
    <2>3. /\ r \in FilterRecords
          /\ \A w \in Wheels : r.count[w] = old.count[w] + (IF EdgeOf(e, w) THEN 1 ELSE 0)
          /\ e.type = "command" => r = [old EXCEPT !.backward[e.wheel] = e.reversed]
          /\ e.type # "command" =>
               /\ r.backward = old.backward /\ r.time = e.ticks /\ (r.firm <=> Right(e))
               /\ r.underflow <=> old.underflow \/ (e.ticks < old.time /\ old.firm /\ Right(e))
               /\ r.wrong <=> old.wrong \/ (e.type = "edge" /\ CountedWrong(old, {e}, Batch(order)) # {})
      BY <2>20, NotifyIs
    <2> HIDE DEF r, new
    <2>4. CASE e.type = "command"
      <3>1. new = [old EXCEPT !.backward[e.wheel] = e.reversed]
        BY <2>2, <2>3, <2>4
      <3> QED BY <1>1, <1>3, <1>6, <2>2, <2>4, <3>1 DEF StepOutcome, old, new, e
    <2>5. CASE e.type # "command"
      <3>1. /\ new.backward = old.backward /\ new.time = e.ticks /\ (new.firm <=> Right(e))
            /\ new.underflow <=> old.underflow \/ (e.ticks < old.time /\ old.firm /\ Right(e))
            /\ new.wrong <=> old.wrong \/ (e.type = "edge" /\ CountedWrong(old, {e}, Batch(order)) # {})
        BY <2>2, <2>3, <2>5
      <3> QED BY <1>1, <1>3, <1>6, <2>2, <2>5, <3>1 DEF StepOutcome, old, new, e
    <2> QED BY <2>4, <2>5
  <1> QED BY <1>3, <1>4, <1>5, <1>6

\* What the events must be like: every command of a wheel has the direction that b
\* says, no true event comes before the filter's time, and an edge that its command
\* cannot be mistaken for has the direction before the commands after it, and that
\* of the commands before it.
Sorted(order) == \A i, j \in 1 .. Len(order) : i < j => order[i].ticks <= order[j].ticks
CommandsSay(order, b) ==
  \A w \in Wheels : \A i \in 1 .. Len(order) : CommandOf(order[i], w) => order[i].reversed = b[w]
NotBefore(f, order) ==
  f.firm => \A i \in 1 .. Len(order) : order[i].type # "command" /\ Right(order[i]) => f.time <= order[i].ticks
Told(e, order) ==
  /\ Right(e) /\ ~dropped[e.wheel].command
  /\ \A i \in 1 .. Len(order) : CommandOf(order[i], e.wheel) => Ordered(e, order[i])
EdgesFollow(f, order, b) ==
  \A j \in 1 .. Len(order) : LET e == order[j] IN
    e.type = "edge" /\ Told(e, order) =>
      /\ (\A i \in 1 .. Len(order) : ~CommandOf(order[i], e.wheel)) => e.reversed = f.backward[e.wheel]
      /\ \A i \in 1 .. Len(order) : CommandOf(order[i], e.wheel) =>
           /\ e.ticks < order[i].ticks => e.reversed = f.backward[e.wheel]
           /\ e.ticks > order[i].ticks => e.reversed = b[e.wheel]

\* The filter's directions after the first k of the events.
Directed(h, f, order, b, k) ==
  \A w \in Wheels :
    h.backward[w] = IF \E i \in 1 .. k : CommandOf(order[i], w) THEN b[w] ELSE f.backward[w]

\* An edge that comes next counts in its direction.
LEMMA NextEdgeRight ==
  ASSUME NEW f, NEW order \in Seq(EventRecords), NEW b, Sorted(order), EdgesFollow(f, order, b),
         NEW k \in 0 .. Len(order) - 1, NEW h, Directed(h, f, order, b, k),
         NEW j \in {k + 1, k + 2}, j <= Len(order), order[j].type = "edge",
         j = k + 2 => order[k + 1].type = "edge", Told(order[j], order)
  PROVE  h.backward[order[j].wheel] = order[j].reversed
  <1> DEFINE e == order[j]
             w == order[j].wheel
             n == Len(order)
  <1>0. n \in Nat /\ j \in 1 .. n /\ k \in Nat
    BY LenProperties
  <1>1. e \in EventRecords
    BY <1>0, ElementOfSeq
  <1>2. w \in Wheels
    BY <1>1 DEF EventRecords
  <1>3. \A i \in 1 .. n : order[i].ticks \in Nat
    <2>1. \A i \in 1 .. n : order[i] \in EventRecords
      BY ElementOfSeq
    <2> QED BY <2>1 DEF EventRecords
  <1>4. \A i \in 1 .. n : CommandOf(order[i], w) => order[i].ticks # e.ticks
    BY DEF Told, Ordered
  <1>5. CASE \E i \in 1 .. k : CommandOf(order[i], w)
    <2>1. PICK i \in 1 .. k : CommandOf(order[i], w)
      BY <1>5
    <2>2. i \in 1 .. n /\ i < j
      BY <1>0
    <2>3. order[i].ticks <= e.ticks
      BY <1>0, <2>2 DEF Sorted
    <2>4. e.ticks > order[i].ticks
      BY <1>0, <1>3, <1>4, <2>1, <2>2, <2>3
    <2>5. e.reversed = b[w]
      BY <1>0, <2>1, <2>2, <2>4 DEF EdgesFollow
    <2>6. h.backward[w] = b[w]
      BY <1>2, <1>5 DEF Directed
    <2> QED BY <2>5, <2>6
  <1>6. CASE ~\E i \in 1 .. k : CommandOf(order[i], w)
    <2>1. h.backward[w] = f.backward[w]
      BY <1>2, <1>6 DEF Directed
    <2>2. CASE \A i \in 1 .. n : ~CommandOf(order[i], w)
      <3>1. e.reversed = f.backward[w]
        BY <1>0, <2>2 DEF EdgesFollow
      <3> QED BY <2>1, <3>1
    <2>3. CASE \E i \in 1 .. n : CommandOf(order[i], w)
      <3>1. PICK i \in 1 .. n : CommandOf(order[i], w)
        BY <2>3
      <3>2. i \notin 1 .. k /\ i # j /\ (j = k + 2 => i # k + 1)
        BY <1>6, <3>1 DEF CommandOf
      <3>3. j < i
        BY <1>0, <3>2
      <3>4. e.ticks <= order[i].ticks
        BY <1>0, <3>3 DEF Sorted
      <3>5. e.ticks < order[i].ticks
        BY <1>0, <1>3, <1>4, <3>1, <3>4
      <3>6. e.reversed = f.backward[w]
        BY <1>0, <3>1, <3>5 DEF EdgesFollow
      <3> QED BY <2>1, <3>6
    <2> QED BY <2>2, <2>3
  <1> QED BY <1>5, <1>6

LEMMA NoneCountedWrong ==
  ASSUME NEW f, NEW order \in Seq(EventRecords), NEW b, Sorted(order), EdgesFollow(f, order, b),
         NEW k \in 0 .. Len(order) - 1, NEW h, Directed(h, f, order, b, k), order[k + 1].type = "edge",
         NEW es, es = {order[k + 1]}
                 \/ (k + 2 <= Len(order) /\ order[k + 2].type = "edge" /\ es = {order[k + 1], order[k + 2]})
  PROVE  CountedWrong(h, es, Batch(order)) = {}
  <1> SUFFICES ASSUME NEW e \in es, h.backward[e.wheel] # e.reversed, Right(e), ~dropped[e.wheel].command,
                      \A c \in Batch(order) : c.type = "command" /\ c.wheel = e.wheel => Ordered(e, c)
               PROVE  FALSE
    BY DEF CountedWrong
  <1>0. Len(order) \in Nat /\ k \in Nat /\ k + 1 <= Len(order) /\ k + 1 # k + 2
    BY LenProperties
  <1>1. PICK j \in {k + 1, k + 2} : e = order[j] /\ j <= Len(order) /\ order[j].type = "edge"
    BY <1>0
  <1>2. \A i \in 1 .. Len(order) : order[i] \in Batch(order)
    BY DEF Batch
  <1>3. Told(e, order)
    BY <1>2 DEF Told, CommandOf
  <1>4. h.backward[order[j].wheel] = order[j].reversed
    BY <1>1, <1>3, NextEdgeRight
  <1> QED BY <1>1, <1>4

\* Events that are such go through the filter in order.
LEMMA ProcessedInOrder ==
  ASSUME NEW f \in FilterRecords, NEW order \in Seq(EventRecords), NEW b \in [Wheels -> BOOLEAN],
         Sorted(order), CommandsSay(order, b), NotBefore(f, order), EdgesFollow(f, order, b),
         ~f.underflow, ~f.wrong, NEW t \in Nat, f.firm => f.time <= t,
         \A i \in 1 .. Len(order) : Right(order[i]) => order[i].ticks <= t
  PROVE  LET r == Processed(f, order) IN
         /\ r \in FilterRecords /\ ~r.underflow /\ ~r.wrong
         /\ r.firm => r.time <= t
         /\ Directed(r, f, order, b, Len(order))
  <1> DEFINE n == Len(order)
  <1>0. n \in Nat
    BY LenProperties
  <1>1. PICK g : IsRun(g, f, order)
    BY ProcessedIsStepByStep
  <1> DEFINE OnTime(i) == LET h == g[i].filter IN
               h.firm => /\ h.time <= t
                         /\ \A j \in i + 1 .. n : order[j].type # "command" /\ Right(order[j]) => h.time <= order[j].ticks
             Good(i) == /\ g[i].filter \in FilterRecords /\ ~g[i].filter.underflow /\ ~g[i].filter.wrong
                        /\ OnTime(i)
                        /\ Directed(g[i].filter, f, order, b, i)
                        /\ g[i].merged => i + 1 <= n /\ order[i + 1].type = "edge"
             S == {i \in 0 .. n : Good(i)}
  <1>2. 0 \in S
    <2>1. g[0].merged = FALSE /\ g[0].filter = f
      BY <1>1 DEF IsRun
    <2>2. OnTime(0)
      BY <1>0, <2>1 DEF NotBefore
    <2>3. Directed(g[0].filter, f, order, b, 0)
      BY <2>1 DEF Directed
    <2> QED BY <1>0, <2>1, <2>2, <2>3
  <1>3. ASSUME NEW k \in 0 .. n - 1, k \in S PROVE k + 1 \in S
    <2> DEFINE i == k + 1
               old == g[k].filter
               new == g[i].filter
               e == order[i]
               h == order[i + 1]
    <2>1. i \in 1 .. n /\ i - 1 = k /\ i + 1 = k + 2 /\ k \in Nat
      BY <1>0
    <2>2. Good(k)
      BY <1>3
    <2>3. /\ old \in FilterRecords /\ new \in FilterRecords /\ e \in EventRecords
          /\ \/ g[k].merged /\ ~g[i].merged /\ new = old
             \/ /\ ~g[k].merged /\ g[i].merged
                /\ i < n /\ h \in EventRecords /\ SameTime(e, h)
                /\ new.backward = old.backward /\ new.time = e.ticks
                /\ new.firm <=> Right(e) /\ Right(h)
                /\ new.underflow <=> old.underflow \/ (e.ticks < old.time /\ old.firm /\ new.firm)
                /\ new.wrong <=> old.wrong \/ CountedWrong(old, {e, h}, Batch(order)) # {}
             \/ /\ ~g[k].merged /\ ~g[i].merged /\ e.type = "command"
                /\ new = [old EXCEPT !.backward[e.wheel] = e.reversed]
             \/ /\ ~g[k].merged /\ ~g[i].merged /\ e.type # "command"
                /\ new.backward = old.backward /\ new.time = e.ticks /\ (new.firm <=> Right(e))
                /\ new.underflow <=> old.underflow \/ (e.ticks < old.time /\ old.firm /\ Right(e))
                /\ new.wrong <=> old.wrong \/ (e.type = "edge" /\ CountedWrong(old, {e}, Batch(order)) # {})
      <3>1. StepOutcome(g[k], g[i], order, i)
        <4>1. StepOutcome(g[i - 1], g[i], order, i)
          <5> HIDE DEF i
          <5> QED BY <1>1, <2>1, StepIs
        <4> QED BY <2>1, <4>1
      <3> QED BY <3>1 DEF StepOutcome
    <2>4. \A j \in 1 .. n : order[j].ticks \in Nat /\ (i <= j => e.ticks <= order[j].ticks)
      <3>1. \A j \in 1 .. n : order[j] \in EventRecords
        BY ElementOfSeq
      <3>2. \A j \in 1 .. n : order[j].ticks \in Nat
        BY <3>1 DEF EventRecords
      <3>3. \A j \in 1 .. n : i < j => e.ticks <= order[j].ticks
        BY <2>1 DEF Sorted
      <3>4. \A j \in 1 .. n : i <= j => i < j \/ i = j
        BY <1>0, <2>1
      <3>5. e.ticks <= e.ticks
        BY <2>1, <3>2
      <3> QED BY <3>2, <3>3, <3>4, <3>5
    <2>5. old.time \in Nat
      BY <2>3 DEF FilterRecords
    <2>6. \A w \in Wheels : (\E j \in 1 .. i : CommandOf(order[j], w)) <=> CommandOf(e, w) \/ \E j \in 1 .. k : CommandOf(order[j], w)
      <3>1. 1 .. i = (1 .. k) \cup {i}
        BY <2>1
      <3> QED BY <3>1
    <2>7. old.firm /\ e.type # "command" /\ Right(e) => old.time <= e.ticks
      BY <2>1, <2>2
    <2>8. ASSUME new.firm <=> old.firm, new.time = old.time PROVE OnTime(i)
      <3>1. \A j \in i + 1 .. n : j \in k + 1 .. n
        BY <1>0, <2>1
      <3> QED BY <2>2, <2>8, <3>1
    <2>9. ASSUME new.firm => Right(e), new.time = e.ticks, new.firm PROVE OnTime(i)
      <3>1. \A j \in i + 1 .. n : j \in 1 .. n /\ i <= j
        BY <1>0, <2>1
      <3> QED BY <2>1, <2>4, <2>9, <3>1
    <2>10. ASSUME new.backward = old.backward, e.type # "command" PROVE Directed(new, f, order, b, i)
      <3>1. \A w \in Wheels : ~CommandOf(e, w)
        BY <2>10 DEF CommandOf
      <3>2. Directed(old, f, order, b, k)
        BY <2>2
      <3> QED BY <2>6, <2>10, <3>1, <3>2 DEF Directed
    <2>11. CASE g[k].merged /\ ~g[i].merged /\ new = old
      <3>1. e.type # "command"
        BY <2>2, <2>11
      <3>2. OnTime(i) /\ Directed(new, f, order, b, i)
        BY <2>8, <2>10, <2>11, <3>1
      <3>3. new \in FilterRecords /\ ~new.underflow /\ ~new.wrong
        BY <2>2, <2>11
      <3>4. Good(i)
        BY <2>11, <3>2, <3>3
      <3> QED BY <2>1, <3>4
    <2>12. CASE /\ ~g[k].merged /\ g[i].merged
                /\ i < n /\ h \in EventRecords /\ SameTime(e, h)
                /\ new.backward = old.backward /\ new.time = e.ticks
                /\ new.firm <=> Right(e) /\ Right(h)
                /\ new.underflow <=> old.underflow \/ (e.ticks < old.time /\ old.firm /\ new.firm)
                /\ new.wrong <=> old.wrong \/ CountedWrong(old, {e, h}, Batch(order)) # {}
      <3>1. e.type = "edge" /\ h.type = "edge"
        BY <2>12 DEF SameTime
      <3>2. OnTime(i) /\ Directed(new, f, order, b, i)
        BY <2>9, <2>10, <2>12, <3>1
      <3>3. ~new.underflow
        BY <2>2, <2>4, <2>5, <2>7, <2>12, <2>1, <3>1
      <3>4. CountedWrong(old, {e, h}, Batch(order)) = {}
        <4>1. Directed(old, f, order, b, k)
          BY <2>2
        <4>2. k + 2 <= Len(order) /\ order[k + 2].type = "edge" /\ {e, h} = {order[k + 1], order[k + 2]}
          BY <1>0, <2>1, <2>12, <3>1
        <4>3. order[k + 1].type = "edge"
          BY <3>1
        <4> HIDE DEF old, e, h, i, n
        <4>4. k \in 0 .. Len(order) - 1
          BY DEF n
        <4> QED BY <4>1, <4>2, <4>3, <4>4, NoneCountedWrong
      <3>5. ~new.wrong
        BY <2>2, <2>12, <3>4
      <3>6. i + 1 <= n
        BY <1>0, <2>1, <2>12
      <3>7. Good(i)
        BY <2>3, <2>12, <3>1, <3>2, <3>3, <3>5, <3>6
      <3> QED BY <2>1, <3>7
    <2>13. CASE /\ ~g[k].merged /\ ~g[i].merged /\ e.type = "command"
                /\ new = [old EXCEPT !.backward[e.wheel] = e.reversed]
      <3>1. e.wheel \in Wheels /\ CommandOf(e, e.wheel) /\ \A w \in Wheels : CommandOf(e, w) => w = e.wheel
        BY <2>3, <2>13 DEF EventRecords, CommandOf
      <3>2. e.reversed = b[e.wheel]
        BY <2>1, <3>1 DEF CommandsSay
      <3>3. /\ new.time = old.time /\ new.firm = old.firm /\ new.underflow = old.underflow /\ new.wrong = old.wrong
            /\ \A w \in Wheels : new.backward[w] = IF w = e.wheel THEN e.reversed ELSE old.backward[w]
        BY <2>3, <2>13 DEF FilterRecords
      <3>4. OnTime(i)
        BY <2>8, <3>3
      <3>5. Directed(new, f, order, b, i)
        <4>1. Directed(old, f, order, b, k)
          BY <2>2
        <4>2. ASSUME NEW w \in Wheels
              PROVE  new.backward[w] = IF \E j \in 1 .. i : CommandOf(order[j], w) THEN b[w] ELSE f.backward[w]
          <5>1. CASE w = e.wheel
            <6>1. \E j \in 1 .. i : CommandOf(order[j], w)
              BY <2>6, <3>1, <5>1
            <6> QED BY <3>2, <3>3, <5>1, <6>1
          <5>2. CASE w # e.wheel
            <6>1. new.backward[w] = old.backward[w] /\ ~CommandOf(e, w)
              BY <3>1, <3>3, <5>2
            <6> QED BY <2>6, <4>1, <6>1 DEF Directed
          <5> QED BY <5>1, <5>2
        <4> QED BY <4>2 DEF Directed
      <3>6. Good(i)
        BY <2>2, <2>3, <2>13, <3>3, <3>4, <3>5
      <3> QED BY <2>1, <3>6
    <2>14. CASE /\ ~g[k].merged /\ ~g[i].merged /\ e.type # "command"
                /\ new.backward = old.backward /\ new.time = e.ticks /\ (new.firm <=> Right(e))
                /\ new.underflow <=> old.underflow \/ (e.ticks < old.time /\ old.firm /\ Right(e))
                /\ new.wrong <=> old.wrong \/ (e.type = "edge" /\ CountedWrong(old, {e}, Batch(order)) # {})
      <3>1. OnTime(i) /\ Directed(new, f, order, b, i)
        BY <2>9, <2>10, <2>14
      <3>2. ~new.underflow
        BY <2>1, <2>2, <2>4, <2>5, <2>7, <2>14
      <3>3. e.type = "edge" => CountedWrong(old, {e}, Batch(order)) = {}
        <4> SUFFICES ASSUME e.type = "edge" PROVE CountedWrong(old, {e}, Batch(order)) = {}
          OBVIOUS
        <4>1. Directed(old, f, order, b, k) /\ order[k + 1].type = "edge" /\ {e} = {order[k + 1]}
          BY <2>2
        <4> HIDE DEF old, e, h, i, n
        <4>2. k \in 0 .. Len(order) - 1
          BY DEF n
        <4> QED BY <4>1, <4>2, NoneCountedWrong
      <3>4. ~new.wrong
        BY <2>2, <2>14, <3>3
      <3>5. Good(i)
        BY <2>3, <2>14, <3>1, <3>2, <3>4
      <3> QED BY <2>1, <3>5
    <2> QED BY <2>3, <2>11, <2>12, <2>13, <2>14
  <1> HIDE DEF S
  <1>4. n \in S
    <2>1. 0 .. n \subseteq S
      <3> HIDE DEF n
      <3> QED BY <1>0, <1>2, <1>3, SetInduction
    <2> QED BY <1>0, <2>1
  <1>5. Good(n)
    BY <1>4 DEF S
  <1> QED BY <1>1, <1>5 DEF IsRun
-----------------------------------------------------------------------------
(* What the buffer, the channels and the filter are to each other.          *)

Held(q) == {q[i] : i \in DOMAIN q}

\* Where loop() is between processing the events and writing a wheel's command, and
\* where it has read the wheel's direction and not written it yet.
AfterDrain(w) == {"estimate", "estimated", "left", "leftRead", "leftNotify"}
                 \cup (IF w = "right" THEN {"right", "rightRead", "rightNotify"} ELSE {})
NotifyPoint(w) == IF w = "left" THEN "leftNotify" ELSE "rightNotify"

\* Only in these parts of the program the interrupt is disabled.
Listening == loop.at \notin ReadPoints \cup StorePoints => enabled

\* Everything happened in the past.
Past ==
  /\ read.at <= now
  /\ \A x \in Held(buffer) : x.at <= now
  /\ \A w \in Wheels : channels[w].at <= now

\* The filter's time, if it is firm, is not after any event that it is still to get.
TimeOrdered ==
  filter.firm =>
    /\ filter.time <= now
    /\ \A x \in Held(buffer) : x.type # "command" /\ Right(x) => filter.time <= x.at
    /\ \A w \in Wheels : channels[w].chf => filter.time <= channels[w].at

\* A command in the buffer is the one last notified, written after the events were processed.
Commands ==
  \A w \in Wheels : \A x \in Held(buffer) :
    CommandOf(x, w) => x.reversed = notified[w] /\ loop.at \notin AfterDrain(w)

\* A wheel's notification was given the time t, and the filter does not know yet: its
\* event is still to be written, or in the buffer.
Turned(w, t) ==
  \/ \E x \in Held(buffer) : CommandOf(x, w) /\ x.at = t
  \/ loop.at = NotifyPoint(w) /\ read.at = t
Settled(w) == \A t \in 0 .. MaxTime : ~Turned(w, t)

\* An edge has the direction that the filter knows, or the one last notified if it
\* happened after the time of that notification.
Follows(w, x) ==
  /\ Settled(w) => x.reversed = notified[w]
  /\ \A t \in 0 .. MaxTime : Turned(w, t) => /\ x.at < t => x.reversed = filter.backward[w]
                                             /\ x.at > t => x.reversed = notified[w]

DirectionsOf(w) ==
  /\ Settled(w) => filter.backward[w] = notified[w]
  /\ \A x \in Held(buffer) : EdgeOf(x, w) => Follows(w, x)
  /\ channels[w].chf => Follows(w, channels[w])
Directions == \A w \in Wheels : ~dropped[w].command => DirectionsOf(w)

\* Nothing was given to the filter in a wrong order so far.
NoneWrong == ~filter.underflow /\ ~filter.wrong

Ordering == Listening /\ Past /\ TimeOrdered /\ Commands /\ Directions /\ NoneWrong

-----------------------------------------------------------------------------
LEMMA HeldWritten ==
  ASSUME NEW q \in Seq(EventRecords), NEW e \in EventRecords, Len(q) <= Capacity
  PROVE  /\ Held(Write(q, e)) \subseteq Held(q) \cup {e}
         /\ e \in Held(Write(q, e))
         /\ Held(q) \subseteq Held(Write(q, e)) \cup Drops(q)
         /\ Drops(q) \subseteq Held(q)
  <1> DEFINE r == Write(q, e)
  <1>0. /\ r \in Seq(EventRecords) /\ Len(q) \in Nat /\ DOMAIN q = 1 .. Len(q) /\ DOMAIN r = 1 .. Len(r)
        /\ Capacity \in Nat \ {0}
    BY WriteIs, LenProperties, ClockAssumption
  <1>1. CASE Len(q) = Capacity
    <2>1. /\ Len(r) = Len(q) /\ (\A i \in 1 .. Len(q) - 1 : r[i] = q[i + 1]) /\ r[Len(q)] = e
          /\ Drops(q) = {q[1]}
      BY <1>1, WriteIs
    <2> HIDE DEF r
    <2>2. \A i \in 1 .. Len(r) : r[i] = e \/ r[i] \in Held(q)
      <3>1. ASSUME NEW i \in 1 .. Len(r) PROVE r[i] = e \/ r[i] \in Held(q)
        <4>1. CASE i = Len(q)
          BY <2>1, <4>1
        <4>2. CASE i # Len(q)
          <5>1. i \in 1 .. Len(q) - 1 /\ i + 1 \in 1 .. Len(q)
            <6>1. PICK n \in Nat : n = Len(q) /\ n = Len(r)
              BY <1>0, <2>1
            <6>2. i \in 1 .. n /\ i # n
              BY <4>2, <6>1
            <6>3. i \in 1 .. n - 1 /\ i + 1 \in 1 .. n
              BY <6>2
            <6> QED BY <6>1, <6>3
          <5> QED BY <1>0, <2>1, <5>1 DEF Held
        <4> QED BY <4>1, <4>2
      <3> QED BY <3>1
    <2>3. Len(q) \in 1 .. Len(r) /\ 1 \in 1 .. Len(q)
      BY <1>0, <1>1, <2>1
    <2>4. \A i \in 1 .. Len(q) : q[i] \in Held(r) \/ q[i] = q[1]
      <3>1. ASSUME NEW i \in 1 .. Len(q), i # 1 PROVE q[i] \in Held(r)
        <4>1. i - 1 \in 1 .. Len(q) - 1 /\ i - 1 \in 1 .. Len(r) /\ (i - 1) + 1 = i
          BY <1>0, <2>1, <3>1
        <4>2. r[i - 1] = q[i]
          BY <2>1, <4>1
        <4> QED BY <1>0, <4>1, <4>2 DEF Held
      <3> QED BY <3>1
    <2>5. Held(r) \subseteq Held(q) \cup {e}
      <3>1. ASSUME NEW x \in Held(r) PROVE x = e \/ x \in Held(q)
        <4>1. PICK i \in 1 .. Len(r) : x = r[i]
          BY <1>0 DEF Held
        <4> QED BY <2>2, <4>1
      <3> QED BY <3>1
    <2>6. e \in Held(r)
      BY <1>0, <2>1, <2>3 DEF Held
    <2>7. Held(q) \subseteq Held(r) \cup {q[1]}
      <3>1. ASSUME NEW x \in Held(q) PROVE x \in Held(r) \/ x = q[1]
        <4>1. PICK i \in 1 .. Len(q) : x = q[i]
          BY <1>0 DEF Held
        <4> QED BY <2>4, <4>1
      <3> QED BY <3>1
    <2>8. q[1] \in Held(q)
      BY <1>0, <2>3 DEF Held
    <2>9. Drops(q) = {q[1]}
      BY <2>1
    <2>10. /\ Held(r) \subseteq Held(q) \cup {e} /\ e \in Held(r)
           /\ Held(q) \subseteq Held(r) \cup Drops(q) /\ Drops(q) \subseteq Held(q)
      BY <2>5, <2>6, <2>7, <2>8, <2>9
    <2> QED BY <2>10 DEF r
  <1>2. CASE Len(q) # Capacity
    <2>1. /\ Len(r) = Len(q) + 1 /\ (\A i \in 1 .. Len(q) : r[i] = q[i]) /\ r[Len(q) + 1] = e
          /\ Drops(q) = {}
      BY <1>2, WriteIs
    <2> HIDE DEF r
    <2>2. 1 .. Len(r) = (1 .. Len(q)) \cup {Len(q) + 1}
      BY <1>0, <2>1
    <2> QED BY <1>0, <2>1, <2>2 DEF Held, r
  <1> QED BY <1>1, <1>2

LEMMA HeldEvents ==
  ASSUME Types, NEW x \in Held(buffer)
  PROVE  /\ x \in EventRecords /\ x.at \in 0 .. MaxTime /\ x.at \in Nat /\ x.ticks \in Nat
         /\ x.type \in {"edge", "command", "imu"} /\ (x.type # "imu" => x.wheel \in Wheels)
  <1>1. DOMAIN buffer = 1 .. Len(buffer)
    BY LenProperties DEF Types
  <1>2. x \in EventRecords
    BY <1>1, ElementOfSeq DEF Held, Types
  <1> QED BY <1>2, ClockAssumption DEF EventRecords

\* A step that turns no wheel: the filter's directions and the current ones stay, and
\* every edge in the buffer and in a channel was there or follows its wheel.
LEMMA DirectionsStay ==
  ASSUME Directions, filter'.backward = filter.backward, UNCHANGED notified,
         \A w \in Wheels : ~dropped'[w].command =>
           /\ ~dropped[w].command
           /\ \A t \in 0 .. MaxTime : Turned(w, t)' <=> Turned(w, t)
           /\ \A x \in Held(buffer') : EdgeOf(x, w) => x \in Held(buffer) \/ Follows(w, x)
           /\ channels'[w].chf => (channels[w].chf /\ channels'[w] = channels[w]) \/ Follows(w, channels'[w])
  PROVE  Directions'
  <1> SUFFICES ASSUME NEW w \in Wheels, ~dropped'[w].command PROVE DirectionsOf(w)'
    BY DEF Directions
  <1>1. DirectionsOf(w)
    BY DEF Directions
  <1>2. \A t \in 0 .. MaxTime : Turned(w, t)' <=> Turned(w, t)
    OBVIOUS
  <1>3. Settled(w)' <=> Settled(w)
    BY <1>2 DEF Settled
  <1>4. ASSUME NEW x, Follows(w, x) PROVE Follows(w, x)'
    BY <1>2, <1>3, <1>4 DEF Follows
  <1>5. \A x \in Held(buffer') : EdgeOf(x, w) => Follows(w, x)
    BY <1>1 DEF DirectionsOf
  <1>6. \A x \in Held(buffer') : EdgeOf(x, w) => Follows(w, x)'
    BY <1>4, <1>5
  <1>7. channels'[w].chf => Follows(w, channels'[w])
    BY <1>1 DEF DirectionsOf
  <1>8. channels'[w].chf => Follows(w, channels[w])'
    <2>1. PICK c : c = channels'[w]
      OBVIOUS
    <2>2. Follows(w, c) => Follows(w, c)'
      BY <1>4
    <2>3. Follows(w, c)' => Follows(w, channels[w])'
      BY <2>1 DEF Follows
    <2> QED BY <1>7, <2>1, <2>2, <2>3
  <1>9. Settled(w)' => filter'.backward[w] = notified'[w]
    BY <1>1, <1>3 DEF DirectionsOf
  <1> QED BY <1>6, <1>8, <1>9 DEF DirectionsOf, Held

\* A step that gives the filter, the buffer and the channels nothing, and changes no direction.
LEMMA NothingNew ==
  ASSUME AllInv, Ordering, now' \in Nat, now <= now', UNCHANGED <<channels, buffer, filter, notified, dropped>>,
         read' = read \/ read' = NoReading \/ read'.at = now,
         loop'.at \notin ReadPoints \cup StorePoints => enabled',
         \A w \in Wheels : /\ loop'.at \in AfterDrain(w) => loop.at \in AfterDrain(w) \/ buffer = << >>
                           /\ loop'.at = NotifyPoint(w) <=> loop.at = NotifyPoint(w)
                           /\ loop'.at = NotifyPoint(w) => read' = read
  PROVE  Ordering'
  <1>0. /\ now \in Nat /\ read.at \in Nat /\ \A w \in Wheels : channels[w].at \in Nat
        /\ buffer \in Seq(EventRecords) /\ filter.time \in Nat
    BY ClockAssumption DEF AllInv, IInv, ClockTypes, Types, FilterRecords
  <1>1. Listening'
    BY DEF Listening
  <1>2. Past'
    <2>1. read'.at <= now'
      BY <1>0 DEF Ordering, Past, NoReading
    <2>2. \A x \in Held(buffer) : x.at \in Nat
      BY HeldEvents DEF AllInv
    <2>3. \A x \in Held(buffer) : x.at <= now'
      BY <1>0, <2>2 DEF Ordering, Past
    <2>4. \A w \in Wheels : channels[w].at <= now'
      BY <1>0 DEF Ordering, Past
    <2> QED BY <2>1, <2>3, <2>4 DEF Past, Held
  <1>3. TimeOrdered'
    BY <1>0 DEF Ordering, TimeOrdered, Held, Right
  <1>4. Commands'
    <2>1. buffer = << >> => Held(buffer) = {}
      BY DEF Held
    <2>2. ASSUME NEW w \in Wheels, NEW x \in Held(buffer), CommandOf(x, w)
          PROVE  x.reversed = notified[w] /\ loop'.at \notin AfterDrain(w)
      BY <2>1, <2>2 DEF Ordering, Commands
    <2> QED BY <2>2 DEF Commands, Held, AfterDrain
  <1>5. Directions'
    <2>1. \A w \in Wheels : \A t \in 0 .. MaxTime : Turned(w, t)' <=> Turned(w, t)
      BY DEF Turned, Held, NotifyPoint
    <2> QED BY <2>1, DirectionsStay DEF Ordering
  <1> QED BY <1>1, <1>2, <1>3, <1>4, <1>5 DEF Ordering, NoneWrong

\* A step that writes an event which follows, and leaves the channels, the filter and
\* the directions alone.
LEMMA EventWritten ==
  ASSUME AllInv, Ordering, UNCHANGED <<now, channels, filter, notified>>, NEW e \in EventRecords, Writes(e),
         read' = read \/ read' = NoReading \/ read'.at = now, e.at <= now,
         e.type # "command" /\ Right(e) /\ filter.firm => filter.time <= e.at,
         loop'.at \notin ReadPoints \cup StorePoints => enabled',
         \A w \in Wheels :
           /\ CommandOf(e, w) => e.reversed = notified[w] /\ loop'.at \notin AfterDrain(w)
                                 /\ loop.at = NotifyPoint(w) /\ e.at = read.at
           /\ EdgeOf(e, w) /\ ~dropped[w].command => Follows(w, e)
           /\ loop'.at \in AfterDrain(w) => loop.at \in AfterDrain(w)
           /\ loop'.at = NotifyPoint(w) <=> loop.at = NotifyPoint(w) /\ ~CommandOf(e, w)
           /\ loop'.at = NotifyPoint(w) => read' = read
  PROVE  Ordering'
  <1>0. /\ now \in Nat /\ read.at \in Nat /\ \A w \in Wheels : channels[w].at \in Nat
        /\ buffer \in Seq(EventRecords) /\ Len(buffer) <= Capacity /\ filter.time \in Nat
    BY ClockAssumption DEF AllInv, IInv, ClockTypes, Types, FilterRecords
  <1>1. Listening'
    BY DEF Listening
  <1>2. /\ Held(buffer') \subseteq Held(buffer) \cup {e} /\ e \in Held(buffer')
        /\ Held(buffer) \subseteq Held(buffer') \cup Drops(buffer) /\ Drops(buffer) \subseteq Held(buffer)
    BY <1>0, HeldWritten DEF Writes
  <1>3. Past'
    <2>1. read'.at <= now'
      BY <1>0 DEF Ordering, Past, NoReading
    <2>2. \A x \in Held(buffer') : x.at <= now'
      BY <1>2 DEF Ordering, Past
    <2>3. \A w \in Wheels : channels'[w].at <= now'
      BY DEF Ordering, Past
    <2> QED BY <2>1, <2>2, <2>3 DEF Past, Held
  <1>4. TimeOrdered'
    <2>1. filter.firm => \A x \in Held(buffer') : x.type # "command" /\ Right(x) => filter.time <= x.at
      BY <1>2 DEF Ordering, TimeOrdered
    <2> QED BY <2>1 DEF Ordering, TimeOrdered, Held, Right
  <1>5. Commands'
    <2>1. ASSUME NEW w \in Wheels, NEW x \in Held(buffer'), CommandOf(x, w)
          PROVE  x.reversed = notified'[w] /\ loop'.at \notin AfterDrain(w)
      BY <1>2, <2>1 DEF Ordering, Commands
    <2> QED BY <2>1 DEF Commands, Held, AfterDrain
  <1>6. Directions'
    <2>1. ASSUME NEW w \in Wheels, ~dropped'[w].command
          PROVE  /\ ~dropped[w].command
                 /\ \A t \in 0 .. MaxTime : Turned(w, t)' <=> Turned(w, t)
                 /\ \A x \in Held(buffer') : EdgeOf(x, w) => x \in Held(buffer) \/ Follows(w, x)
      <3>1. ~dropped[w].command /\ \A d \in Drops(buffer) : ~CommandOf(d, w)
        <4>1. /\ dropped' \in [Wheels -> [edges : Nat, command : BOOLEAN]]
              /\ \A v \in Wheels :
                   /\ dropped'[v].edges = dropped[v].edges + Cardinality({d \in Drops(buffer) : EdgeOf(d, v)})
                   /\ dropped'[v].command <=> \/ dropped[v].command
                                              \/ \E d \in Drops(buffer) : d.type = "command" /\ d.wheel = v
          BY WritesTyped DEF AllInv
        <4> QED BY <2>1, <4>1 DEF CommandOf
      <3>2. \A t \in 0 .. MaxTime :
              (\E x \in Held(buffer') : CommandOf(x, w) /\ x.at = t)
              <=> (\E x \in Held(buffer) : CommandOf(x, w) /\ x.at = t) \/ (CommandOf(e, w) /\ e.at = t)
        BY <1>2, <3>1
      <3>3. \A t \in 0 .. MaxTime : Turned(w, t)' <=> Turned(w, t)
        <4>1. CASE CommandOf(e, w)
          BY <3>2, <4>1 DEF Turned, Held, NotifyPoint
        <4>2. CASE ~CommandOf(e, w)
          BY <3>2, <4>2 DEF Turned, Held, NotifyPoint
        <4> QED BY <4>1, <4>2
      <3> QED BY <1>2, <3>1, <3>3
    <2> QED BY <2>1, DirectionsStay DEF Ordering
  <1> QED BY <1>1, <1>3, <1>4, <1>5, <1>6 DEF Ordering, NoneWrong

LEMMA InitOrdering ==
  Init => Ordering
  <1> SUFFICES ASSUME Init PROVE Ordering
    OBVIOUS
  <1>1. buffer = << >> /\ Held(buffer) = {}
    BY DEF Init, Held
  <1>2. \A w \in Wheels : filter.backward[w] = notified[w] /\ ~channels[w].chf /\ channels[w].at = 0
    BY DEF Init, NoCapture
  <1>3. Listening /\ Commands /\ NoneWrong
    BY <1>1 DEF Init, Listening, Commands, NoneWrong
  <1>4. Past /\ TimeOrdered
    BY <1>1, <1>2 DEF Init, Past, TimeOrdered, NoReading
  <1>5. Directions
    BY <1>1, <1>2 DEF Directions, DirectionsOf
  <1> QED BY <1>3, <1>4, <1>5 DEF Ordering

\* The hardware: an edge happens now, after whatever has been noticed.
LEMMA EdgeOrdered ==
  ASSUME AllInv, Ordering, NEW v \in Wheels, EncoderEdge(v)
  PROVE  Ordering'
  <1>0. /\ now \in Nat /\ read.at \in Nat /\ read.at <= now /\ notified[v] \in BOOLEAN
        /\ channels \in [Wheels -> [chf : BOOLEAN, at : 0 .. MaxTime, reversed : BOOLEAN]]
    BY ClockAssumption DEF AllInv, IInv, ClockTypes, Types, Ordering, Past
  <1>1. /\ channels' = [channels EXCEPT ![v] = [chf |-> TRUE, at |-> now, reversed |-> notified[v]]]
        /\ UNCHANGED <<now, enabled, loop, read, buffer, filter, notified, dropped>>
    BY DEF EncoderEdge
  <1>2. /\ channels'[v].chf /\ channels'[v].at = now /\ channels'[v].reversed = notified[v]
        /\ \A w \in Wheels : w # v => channels'[w] = channels[w]
    BY <1>0, <1>1
  <1>3. Listening' /\ Commands' /\ NoneWrong'
    BY <1>1 DEF Ordering, Listening, Commands, NoneWrong, Held, AfterDrain
  <1>4. Past' /\ TimeOrdered'
    BY <1>0, <1>1, <1>2 DEF Ordering, Past, TimeOrdered, Held, Right
  <1>5. Directions'
    <2>1. \A x \in Held(buffer) : x.at \in Nat /\ x.at <= now
      BY HeldEvents DEF AllInv, Ordering, Past
    <2>2. ASSUME NEW w \in Wheels, ~dropped[w].command, channels'[w].chf
          PROVE  (channels[w].chf /\ channels'[w] = channels[w]) \/ Follows(w, channels'[w])
      <3>1. CASE w = v
        <4>1. \A t \in 0 .. MaxTime : Turned(v, t) => t <= now
          BY <1>0, <2>1 DEF Turned
        <4> QED BY <1>0, <1>2, <3>1, <4>1 DEF Follows, Ordering
      <3>2. CASE w # v
        BY <1>2, <2>2, <3>2
      <3> QED BY <3>1, <3>2
    <2>3. \A w \in Wheels : \A t \in 0 .. MaxTime : Turned(w, t)' <=> Turned(w, t)
      BY <1>1 DEF Turned, Held, NotifyPoint
    <2> QED BY <1>1, <2>2, <2>3, DirectionsStay DEF Ordering, Held
  <1> QED BY <1>3, <1>4, <1>5 DEF Ordering

\* A channel that is cleared holds no edge.
LEMMA ClearOrdered ==
  ASSUME AllInv, Ordering, ClearEdge
  PROVE  Ordering'
  <1>0. /\ now \in Nat /\ isr.wheel \in Wheels
        /\ channels \in [Wheels -> [chf : BOOLEAN, at : 0 .. MaxTime, reversed : BOOLEAN]]
    BY ClockAssumption DEF AllInv, IInv, ClockTypes
  <1>1. /\ channels' = [channels EXCEPT ![isr.wheel] = NoCapture]
        /\ UNCHANGED <<now, enabled, loop, read, buffer, filter, notified, dropped>>
    BY DEF ClearEdge, clock
  <1>2. \A w \in Wheels : (~channels'[w].chf /\ channels'[w].at = 0) \/ channels'[w] = channels[w]
    BY <1>0, <1>1 DEF NoCapture
  <1>3. Listening' /\ Commands' /\ NoneWrong'
    BY <1>1 DEF Ordering, Listening, Commands, NoneWrong, Held, AfterDrain
  <1>4. Past' /\ TimeOrdered'
    BY <1>0, <1>1, <1>2 DEF Ordering, Past, TimeOrdered, Held, Right
  <1>5. Directions'
    <2>1. \A w \in Wheels : \A t \in 0 .. MaxTime : Turned(w, t)' <=> Turned(w, t)
      BY <1>1 DEF Turned, Held, NotifyPoint
    <2> QED BY <1>1, <1>2, <2>1, DirectionsStay DEF Ordering, Held
  <1> QED BY <1>3, <1>4, <1>5 DEF Ordering

\* The interrupt writes an edge that followed.
LEMMA StampOrdered ==
  ASSUME AllInv, Ordering, StampEdge
  PROVE  Ordering'
  <1> DEFINE v == isr.wheel
             c == channels[v]
             e == Event("edge", v, EdgeTicks(c.at), c.at, isr.checked, c.reversed)
  <1>1. v \in Wheels /\ e \in EventRecords /\ Writes(e)
    BY StampEdgeWrites DEF AllInv
  <1>2. e.type = "edge" /\ e.wheel = v /\ e.at = c.at /\ e.reversed = c.reversed /\ e.ticks = EdgeTicks(c.at)
    BY DEF Event
  <1>3. c.chf /\ c.at <= now
    BY <1>1 DEF AllInv, EdgesHappened, StampEdge, Ordering, Past
  <1>4. ~dropped[v].command => Follows(v, c)
    BY <1>1, <1>3 DEF Ordering, Directions, DirectionsOf
  <1>5. ~dropped[v].command => Follows(v, e)
    BY <1>2, <1>4 DEF Follows
  <1>6. filter.firm => filter.time <= e.at
    BY <1>1, <1>2, <1>3 DEF Ordering, TimeOrdered
  <1>7. /\ UNCHANGED <<now, channels, filter, notified, enabled, loop>> /\ read' = read
    BY DEF StampEdge, clock
  <1> HIDE DEF e, v, c
  <1>8. \A w \in Wheels : ~CommandOf(e, w) /\ (EdgeOf(e, w) => w = v)
    BY <1>2 DEF CommandOf, EdgeOf
  <1>9. loop'.at \notin ReadPoints \cup StorePoints => enabled'
    BY <1>7 DEF Ordering, Listening
  <1> QED BY <1>1, <1>2, <1>3, <1>5, <1>6, <1>7, <1>8, <1>9, EventWritten

\* loop() writes the time of the IMU, which is now.
LEMMA RegisterOrdered ==
  ASSUME AllInv, Ordering, RegisterIMUEvent
  PROVE  Ordering'
  <1> DEFINE e == Event("imu", "none", Ticks, now, loop.checked, FALSE)
  <1>1. e \in EventRecords /\ Writes(e)
    BY RegisterWrites DEF AllInv
  <1>2. e.type = "imu" /\ e.at = now
    BY DEF Event
  <1>3. /\ UNCHANGED <<now, channels, filter, notified>> /\ enabled' = TRUE
        /\ read'.at = now /\ loop'.at = "drain" /\ loop.at = "registerIMU"
    BY DEF RegisterIMUEvent, EndRead, At, GoTo, Reading, clock
  <1>4. now \in Nat
    BY ClockAssumption DEF AllInv, IInv, ClockTypes
  <1>5. filter.firm => filter.time <= e.at
    BY <1>2 DEF Ordering, TimeOrdered
  <1> HIDE DEF e
  <1>6. \A w \in Wheels : ~CommandOf(e, w) /\ ~EdgeOf(e, w)
    BY <1>2 DEF CommandOf, EdgeOf
  <1>7. \A w \in Wheels : loop'.at \notin AfterDrain(w) /\ loop'.at # NotifyPoint(w) /\ loop.at # NotifyPoint(w)
    BY <1>3 DEF AfterDrain, NotifyPoint, Wheels
  <1> QED BY <1>1, <1>2, <1>3, <1>4, <1>5, <1>6, <1>7, EventWritten

\* loop() writes a command, with the time that it read for it: no wheel is turned in
\* between, so it says what was last notified.
LEMMA NotifyOrdered ==
  ASSUME AllInv, Ordering, NEW v \in Wheels, NotifyMotorDirection(v, NotifyPoint(v)),
         GoTo(IF v = "left" THEN "right" ELSE "leftRun")
  PROVE  Ordering'
  <1> DEFINE e == Event("command", v, read.ticks, read.at, read.checked, commanded[v])
  <1>1. e \in EventRecords /\ Writes(e)
    BY NotifyWrites DEF AllInv
  <1>0. loop.at = NotifyPoint(v) /\ commanded[v] = notified[v]
    <2>1. loop.at = NotifyPoint(v)
      BY DEF NotifyMotorDirection, At
    <2>2. loop.at \notin MayDiffer(v)
      BY <2>1 DEF NotifyPoint, MayDiffer, Wheels
    <2> QED BY <2>1, <2>2 DEF AllInv, Lagging
  <1>2. e.type = "command" /\ e.wheel = v /\ e.at = read.at /\ e.reversed = notified[v]
    BY <1>0 DEF Event
  <1>3. /\ UNCHANGED <<now, channels, filter, notified, enabled>> /\ read' = NoReading
        /\ loop.at = NotifyPoint(v) /\ loop'.at = IF v = "left" THEN "right" ELSE "leftRun"
    BY DEF NotifyMotorDirection, At, GoTo, clock
  <1>4. e.at <= now
    BY <1>2 DEF Ordering, Past
  <1> HIDE DEF e
  <1>5. \A w \in Wheels : ~EdgeOf(e, w) /\ (CommandOf(e, w) <=> w = v)
    BY <1>2 DEF CommandOf, EdgeOf
  <1>6. \A w \in Wheels :
          /\ loop'.at \in AfterDrain(w) => loop.at \in AfterDrain(w) /\ w # v
          /\ loop'.at # NotifyPoint(w) /\ (loop.at = NotifyPoint(w) <=> w = v)
    BY <1>3 DEF AfterDrain, NotifyPoint, Wheels
  <1>7. loop.at \notin ReadPoints \cup StorePoints
    BY <1>3 DEF NotifyPoint, ReadPoints, StorePoints
  <1>8. enabled'
    BY <1>3, <1>7 DEF Ordering, Listening
  <1> QED BY <1>1, <1>2, <1>3, <1>4, <1>5, <1>6, <1>8, EventWritten

\* A notification gets its time now: the filter's direction holds until now, and no edge
\* is later.
LEMMA ReadOrdered ==
  ASSUME AllInv, Ordering, NEW v \in Wheels,
         ReadDirection(v, IF v = "left" THEN "leftRead" ELSE "rightRead", NotifyPoint(v))
  PROVE  Ordering'
  <1>0. /\ now \in Nat /\ now \in 0 .. MaxTime /\ notified \in [Wheels -> BOOLEAN]
    BY ClockAssumption DEF AllInv, IInv, ClockTypes
  <1>1. /\ UNCHANGED <<now, channels, buffer, filter, dropped>> /\ enabled' = TRUE /\ read'.at = now
        /\ loop.at = (IF v = "left" THEN "leftRead" ELSE "rightRead") /\ loop'.at = NotifyPoint(v)
    BY DEF ReadDirection, EndRead, At, GoTo, Reading, clock
  <1>2. \A w \in Wheels : w # v => notified'[w] = notified[w]
    BY <1>0 DEF ReadDirection
  <1>3. \A w \in Wheels : /\ loop'.at \in AfterDrain(w) => loop.at \in AfterDrain(w)
                          /\ loop.at # NotifyPoint(w) /\ (loop'.at = NotifyPoint(w) <=> w = v)
    BY <1>1 DEF AfterDrain, NotifyPoint, Wheels
  <1>4. loop.at \in AfterDrain(v)
    BY <1>1 DEF AfterDrain, Wheels
  <1>5. \A x \in Held(buffer) : ~CommandOf(x, v)
    BY <1>4 DEF Ordering, Commands
  <1>6. Listening' /\ NoneWrong'
    BY <1>1 DEF Ordering, Listening, NoneWrong
  <1>7. Past' /\ TimeOrdered'
    BY <1>0, <1>1 DEF Ordering, Past, TimeOrdered, Held, Right
  <1>8. Commands'
    <2>1. ASSUME NEW w \in Wheels, NEW x \in Held(buffer), CommandOf(x, w)
          PROVE  x.reversed = notified'[w] /\ loop'.at \notin AfterDrain(w)
      BY <1>2, <1>3, <1>5, <2>1 DEF Ordering, Commands
    <2> QED BY <1>1, <2>1 DEF Commands, Held, AfterDrain
  <1>9. ASSUME NEW w \in Wheels, ~dropped'[w].command PROVE DirectionsOf(w)'
    <2>1. DirectionsOf(w)
      BY <1>1, <1>9 DEF Ordering, Directions
    <2>2. CASE w = v
      <3>1. Settled(v)
        BY <1>3, <1>5 DEF Settled, Turned
      <3>2. /\ filter.backward[v] = notified[v]
            /\ \A x \in Held(buffer) : EdgeOf(x, v) => x.reversed = notified[v]
            /\ channels[v].chf => channels[v].reversed = notified[v]
        BY <2>1, <2>2, <3>1 DEF DirectionsOf, Follows
      <3>3. \A t \in 0 .. MaxTime : Turned(v, t)' <=> t = now
        BY <1>1, <1>3, <1>5 DEF Turned, Held, NotifyPoint
      <3>4. ~Settled(v)'
        BY <1>0, <3>3 DEF Settled
      <3>5. ASSUME NEW x, x.reversed = filter.backward[v], x.at <= now, x.at \in Nat PROVE Follows(v, x)'
        <4>1. \A t \in 0 .. MaxTime : Turned(v, t)' => ~(x.at > t) /\ x.reversed = filter'.backward[v]
          BY <1>0, <1>1, <3>3, <3>5
        <4> QED BY <3>4, <4>1 DEF Follows
      <3>6. \A x \in Held(buffer) : x.at \in Nat /\ x.at <= now
        BY HeldEvents DEF AllInv, Ordering, Past
      <3>7. channels[v].at \in Nat /\ channels[v].at <= now
        BY ClockAssumption DEF AllInv, IInv, ClockTypes, Ordering, Past
      <3>8. \A x \in Held(buffer) : EdgeOf(x, v) => Follows(v, x)'
        BY <3>2, <3>5, <3>6
      <3>9. channels[v].chf => Follows(v, channels[v])'
        <4>1. PICK c : c = channels[v]
          OBVIOUS
        <4>2. channels[v].chf => Follows(v, c)'
          BY <3>2, <3>5, <3>7, <4>1
        <4>3. Follows(v, c)' => Follows(v, channels[v])'
          BY <1>1, <4>1 DEF Follows
        <4> QED BY <4>2, <4>3
      <3> QED BY <1>1, <2>2, <3>4, <3>8, <3>9 DEF DirectionsOf, Held
    <2>3. CASE w # v
      <3>1. notified'[w] = notified[w]
        BY <1>2, <2>3
      <3>2. \A t \in 0 .. MaxTime : Turned(w, t)' <=> Turned(w, t)
        BY <1>1, <1>3, <2>3 DEF Turned, Held, NotifyPoint
      <3>3. Settled(w)' <=> Settled(w)
        BY <3>2 DEF Settled
      <3>4. \A x \in Held(buffer) : Follows(w, x) => Follows(w, x)'
        BY <1>1, <3>1, <3>2, <3>3 DEF Follows
      <3>5. Follows(w, channels[w]) => Follows(w, channels[w])'
        BY <1>1, <3>1, <3>2, <3>3 DEF Follows
      <3> QED BY <1>1, <2>1, <3>1, <3>3, <3>4, <3>5 DEF DirectionsOf, Held
    <2> QED BY <2>2, <2>3
  <1>10. Directions'
    BY <1>9 DEF Directions
  <1> QED BY <1>6, <1>7, <1>8, <1>10 DEF Ordering

\* An estimate without an event makes the filter's time soft.
LEMMA EstimateOrdered ==
  ASSUME AllInv, Ordering, EstimateNow
  PROVE  Ordering'
  <1>1. /\ UNCHANGED <<now, channels, buffer, notified, dropped>> /\ enabled' = TRUE /\ read' = Reading(loop.checked)
        /\ loop.at = "estimated" /\ loop'.at = "left" /\ filter' = EstimateState(filter, Ticks, FALSE)
    BY DEF EstimateNow, EndRead, At, GoTo, clock
  <1>2. filter \in FilterRecords /\ Ticks \in Nat /\ now \in Nat
    <2>1. Reading(loop.checked) \in [ticks : Nat, at : 0 .. MaxTime, checked : 0 .. MaxTime]
      BY <1>1, ReadsTyped DEF AllInv, ReadPoints
    <2>2. Ticks \in Nat
      BY <2>1 DEF Reading
    <2> QED BY <2>2, ClockAssumption DEF AllInv, IInv, ClockTypes, Types
  <1>3. /\ ~filter'.firm /\ filter'.backward = filter.backward
        /\ filter'.wrong = filter.wrong /\ (filter'.underflow <=> filter.underflow)
    <2> DEFINE r == EstimateState(filter, Ticks, FALSE)
    <2>1. /\ r \in FilterRecords
          /\ r.time = Ticks /\ r.firm = FALSE /\ r.backward = filter.backward /\ r.count = filter.count
          /\ r.wrong = filter.wrong
          /\ r.underflow <=> filter.underflow \/ (Ticks < filter.time /\ filter.firm /\ FALSE)
      BY <1>2, EstimateIs
    <2> QED BY <1>1, <2>1
  <1>4. read'.at = now
    BY <1>1 DEF Reading
  <1>5. Listening' /\ NoneWrong' /\ Past' /\ TimeOrdered'
    <2>1. Listening' /\ NoneWrong' /\ TimeOrdered'
      BY <1>1, <1>3 DEF Ordering, Listening, NoneWrong, TimeOrdered
    <2>2. Past'
      BY <1>1, <1>2, <1>4 DEF Ordering, Past, Held
    <2> QED BY <2>1, <2>2
  <1>6. \A w \in Wheels : loop.at \in AfterDrain(w) /\ loop.at # NotifyPoint(w) /\ loop'.at # NotifyPoint(w)
    BY <1>1 DEF AfterDrain, NotifyPoint, Wheels
  <1>7. \A w \in Wheels : \A x \in Held(buffer) : ~CommandOf(x, w)
    BY <1>6 DEF Ordering, Commands
  <1>8. Commands'
    BY <1>1, <1>7 DEF Commands, Held
  <1>9. Directions'
    <2>1. \A w \in Wheels : \A t \in 0 .. MaxTime : Turned(w, t)' <=> Turned(w, t)
      BY <1>1, <1>6 DEF Turned, Held, NotifyPoint
    <2> QED BY <1>1, <1>3, <2>1, DirectionsStay DEF Ordering, Held
  <1> QED BY <1>5, <1>8, <1>9 DEF Ordering

\* The order of the events has all of them.
LEMMA ChronologicalHolds ==
  ASSUME NEW q \in Seq(EventRecords), NEW order \in Chronological(q)
  PROVE  /\ \A i \in 1 .. Len(order) : order[i] \in Held(q)
         /\ \A x \in Held(q) : \E i \in 1 .. Len(order) : order[i] = x
  <1> DEFINE N == 1 .. Len(q)
  <1>0. /\ DOMAIN q = N /\ Len(q) \in Nat /\ Len(order) = Len(q)
    BY LenProperties, ChronologicalIs
  <1>1. PICK p \in [N -> N] : /\ \A i \in N : order[i] = q[p[i]]
                              /\ \A i, j \in N : i < j => p[i] # p[j]
    BY ChronologicalIs
  <1>2. p \in Injection(N, N)
    <2>1. \A i, j \in N : p[i] = p[j] => i = j
      BY <1>0, <1>1
    <2> QED BY <2>1 DEF Injection, IsInjective
  <1>3. p \in Surjection(N, N)
    <2>1. IsFiniteSet(N)
      BY <1>0, FS_Interval
    <2> QED BY <1>2, <2>1, FS_Injection
  <1>4. \A j \in N : \E i \in N : p[i] = j
    BY <1>3 DEF Surjection
  <1>5. ASSUME NEW i \in 1 .. Len(order) PROVE order[i] \in Held(q)
    <2>1. i \in N /\ p[i] \in N /\ order[i] = q[p[i]]
      BY <1>0, <1>1
    <2> QED BY <1>0, <2>1 DEF Held
  <1>6. ASSUME NEW x \in Held(q) PROVE \E i \in 1 .. Len(order) : order[i] = x
    <2>1. PICK j \in N : q[j] = x
      BY <1>0 DEF Held
    <2>2. PICK i \in N : p[i] = j
      BY <1>4
    <2> QED BY <1>0, <1>1, <2>1, <2>2
  <1> QED BY <1>5, <1>6

\* What is in the buffer when loop() takes it is fit for the filter, in any order by time.
LEMMA BufferFits ==
  ASSUME AllInv, Ordering, loop.at = "drain", NEW order \in Chronological(buffer)
  PROVE  /\ order \in Seq(EventRecords) /\ Sorted(order) /\ CommandsSay(order, notified)
         /\ NotBefore(filter, order) /\ EdgesFollow(filter, order, notified)
         /\ \A i \in 1 .. Len(order) : Right(order[i]) => order[i].ticks <= now
  <1>0. buffer \in Seq(EventRecords)
    BY DEF AllInv, Types
  <1>1. order \in Seq(EventRecords) /\ Sorted(order)
    BY <1>0, ChronologicalIs DEF Sorted
  <1>2. /\ \A i \in 1 .. Len(order) : order[i] \in Held(buffer)
        /\ \A x \in Held(buffer) : \E i \in 1 .. Len(order) : order[i] = x
    BY <1>0, ChronologicalHolds
  <1>3. CommandsSay(order, notified)
    BY <1>2 DEF Ordering, Commands, CommandsSay
  <1>4. NotBefore(filter, order)
    BY <1>2 DEF Ordering, TimeOrdered, NotBefore, Right
  <1>5. \A i \in 1 .. Len(order) : Right(order[i]) => order[i].ticks <= now
    BY <1>2 DEF Ordering, Past, Right
  <1>6. EdgesFollow(filter, order, notified)
    <2> SUFFICES ASSUME NEW j \in 1 .. Len(order), order[j].type = "edge", Told(order[j], order)
                 PROVE  /\ (\A i \in 1 .. Len(order) : ~CommandOf(order[i], order[j].wheel)) =>
                             order[j].reversed = filter.backward[order[j].wheel]
                        /\ \A i \in 1 .. Len(order) : CommandOf(order[i], order[j].wheel) =>
                             /\ order[j].ticks < order[i].ticks => order[j].reversed = filter.backward[order[j].wheel]
                             /\ order[j].ticks > order[i].ticks => order[j].reversed = notified[order[j].wheel]
      BY DEF EdgesFollow
    <2>1. PICK e : e = order[j]
      OBVIOUS
    <2>2. PICK w : w = e.wheel
      OBVIOUS
    <2>3. e \in Held(buffer) /\ e.type = "edge" /\ w \in Wheels /\ e.ticks = e.at /\ ~dropped[w].command
      <3>1. e \in Held(buffer) /\ e.type = "edge"
        BY <1>2, <2>1
      <3>2. w \in Wheels
        BY <2>2, <3>1, HeldEvents DEF AllInv
      <3> QED BY <2>1, <2>2, <3>1, <3>2 DEF Told, Right
    <2>4. DirectionsOf(w) /\ EdgeOf(e, w)
      BY <2>2, <2>3 DEF Ordering, Directions, EdgeOf
    <2>5. Follows(w, e)
      BY <2>3, <2>4 DEF DirectionsOf
    <2>6. loop.at # NotifyPoint(w)
      BY DEF NotifyPoint
    <2>7. ASSUME \A i \in 1 .. Len(order) : ~CommandOf(order[i], w) PROVE e.reversed = filter.backward[w]
      <3>1. Settled(w)
        BY <1>2, <2>6, <2>7 DEF Settled, Turned
      <3> QED BY <2>4, <2>5, <3>1 DEF DirectionsOf, Follows
    <2>8. ASSUME NEW i \in 1 .. Len(order), CommandOf(order[i], w)
          PROVE  /\ e.ticks < order[i].ticks => e.reversed = filter.backward[w]
                 /\ e.ticks > order[i].ticks => e.reversed = notified[w]
      <3>1. order[i] \in Held(buffer) /\ order[i].at \in 0 .. MaxTime
        BY <1>2, HeldEvents DEF AllInv
      <3>2. order[i].ticks = order[i].at
        BY <2>1, <2>2, <2>8 DEF Told, Ordered, Right
      <3>3. Turned(w, order[i].at)
        BY <2>8, <3>1 DEF Turned
      <3> QED BY <2>3, <2>5, <3>1, <3>2, <3>3 DEF Follows
    <2> QED BY <2>1, <2>2, <2>7, <2>8
  <1> QED BY <1>1, <1>3, <1>4, <1>5, <1>6

\* Afterwards the filter knows the current directions.
LEMMA ProcessOrdered ==
  ASSUME AllInv, Ordering, ProcessEvents
  PROVE  Ordering'
  <1>1. /\ UNCHANGED <<now, enabled, channels, notified>> /\ buffer' = << >> /\ read' = NoReading
        /\ loop.at = "drain" /\ loop'.at = "left" /\ ~Pending
        /\ \A w \in Wheels : ~dropped'[w].command =>
             ~dropped[w].command \/ \E i \in DOMAIN buffer : buffer[i].type = "command" /\ buffer[i].wheel = w
    <2>1. dropped \in [Wheels -> [edges : Nat, command : BOOLEAN]]
      BY DEF AllInv, Types
    <2> QED BY <2>1 DEF ProcessEvents, At, GoTo, clock
  <1>2. PICK order \in Chronological(buffer) : filter' = Processed(filter, order)
    BY DEF ProcessEvents
  <1>3. /\ order \in Seq(EventRecords) /\ Sorted(order) /\ CommandsSay(order, notified)
        /\ NotBefore(filter, order) /\ EdgesFollow(filter, order, notified)
        /\ \A i \in 1 .. Len(order) : Right(order[i]) => order[i].ticks <= now
    BY <1>1, <1>2, BufferFits
  <1>4. /\ filter \in FilterRecords /\ notified \in [Wheels -> BOOLEAN] /\ now \in Nat
        /\ ~filter.underflow /\ ~filter.wrong /\ (filter.firm => filter.time <= now)
    BY ClockAssumption DEF AllInv, IInv, ClockTypes, Types, Ordering, NoneWrong, TimeOrdered
  <1> DEFINE r == Processed(filter, order)
  <1>5. /\ r \in FilterRecords /\ ~r.underflow /\ ~r.wrong
        /\ r.firm => r.time <= now
        /\ Directed(r, filter, order, notified, Len(order))
    BY <1>3, <1>4, ProcessedInOrder
  <1>6. enabled
    BY <1>1 DEF Ordering, Listening, ReadPoints, StorePoints
  <1>7. \A w \in Wheels : ~channels'[w].chf
    BY <1>1, <1>6 DEF Pending
  <1>8. Held(buffer') = {}
    BY <1>1 DEF Held
  <1>9. Listening' /\ NoneWrong'
    BY <1>1, <1>2, <1>5, <1>6 DEF Listening, NoneWrong
  <1>10. Past'
    BY <1>1, <1>4, <1>8 DEF Ordering, Past, NoReading
  <1>11. TimeOrdered' /\ Commands'
    BY <1>1, <1>2, <1>5, <1>7, <1>8 DEF TimeOrdered, Commands
  <1>12. ASSUME NEW w \in Wheels, ~dropped'[w].command PROVE filter'.backward[w] = notified[w]
    <2>1. /\ \A i \in 1 .. Len(order) : order[i] \in Held(buffer)
          /\ \A x \in Held(buffer) : \E i \in 1 .. Len(order) : order[i] = x
      BY <1>2, ChronologicalHolds DEF AllInv, Types
    <2>2. CASE \E i \in 1 .. Len(order) : CommandOf(order[i], w)
      BY <1>2, <1>5, <2>2 DEF Directed
    <2>3. CASE ~\E i \in 1 .. Len(order) : CommandOf(order[i], w)
      <3>1. \A x \in Held(buffer) : ~CommandOf(x, w)
        BY <2>1, <2>3
      <3>2. ~dropped[w].command
        BY <1>1, <1>12, <3>1 DEF Held, CommandOf
      <3>3. Settled(w)
        BY <1>1, <3>1 DEF Settled, Turned, NotifyPoint
      <3>4. filter.backward[w] = notified[w]
        BY <3>2, <3>3 DEF Ordering, Directions, DirectionsOf
      <3> QED BY <1>2, <1>5, <2>3, <3>4 DEF Directed
    <2> QED BY <2>2, <2>3
  <1>13. Directions'
    BY <1>1, <1>7, <1>8, <1>12 DEF Directions, DirectionsOf
  <1> QED BY <1>9, <1>10, <1>11, <1>13 DEF Ordering

\* Every step.
LEMMA OrderingKept ==
  AllInv /\ Ordering /\ [Next]_vars => Ordering'
  <1> SUFFICES ASSUME AllInv, Ordering, [Next]_vars PROVE Ordering'
    OBVIOUS
  <1>0. now \in Nat
    BY ClockAssumption DEF AllInv, IInv, ClockTypes
  <1>1. ASSUME UNCHANGED <<now, channels, buffer, filter, notified, dropped>>,
               read' = read \/ read' = NoReading \/ read'.at = now,
               loop'.at \notin ReadPoints \cup StorePoints => enabled',
               \A w \in Wheels : /\ loop'.at \in AfterDrain(w) => loop.at \in AfterDrain(w) \/ buffer = << >>
                                 /\ loop'.at = NotifyPoint(w) <=> loop.at = NotifyPoint(w)
                                 /\ loop'.at = NotifyPoint(w) => read' = read
        PROVE  Ordering'
    BY <1>0, <1>1, NothingNew
  <1>2. CASE Tick
    <2>1. /\ UNCHANGED <<channels, buffer, filter, notified, dropped, read, loop, enabled>> /\ now' = now + 1
      BY <1>2 DEF Tick
    <2>2. /\ now' \in Nat /\ now <= now'
          /\ loop'.at \notin ReadPoints \cup StorePoints => enabled'
      BY <1>0, <2>1 DEF Ordering, Listening
    <2> QED BY <2>1, <2>2, NothingNew
  <1>3. CASE Interrupt \/ FindEdge \/ NoEdge \/ UNCHANGED vars
    <2>1. UNCHANGED <<now, channels, buffer, filter, notified, dropped, read, loop, enabled>>
      BY <1>3 DEF Interrupt, FindEdge, NoEdge, clock, vars
    <2>2. loop'.at \notin ReadPoints \cup StorePoints => enabled'
      BY <2>1 DEF Ordering, Listening
    <2> QED BY <1>1, <2>1, <2>2
  <1>4. ASSUME NEW point, NEW next, BeginRead(point, next),
               <<point, next>> \in {<<"estimator", "poll">>, <<"imu", "registerIMU">>, <<"estimate", "estimated">>,
                                    <<"left", "leftRead">>, <<"right", "rightRead">>}
        PROVE  Ordering'
    <2>1. /\ UNCHANGED <<now, channels, buffer, filter, notified, dropped>> /\ read' = NoReading
          /\ loop.at = point /\ loop'.at = next
      BY <1>4 DEF BeginRead, At
    <2>2. loop'.at \in ReadPoints
      BY <1>4, <2>1 DEF ReadPoints
    <2>3. \A w \in Wheels : /\ loop'.at \in AfterDrain(w) => loop.at \in AfterDrain(w)
                            /\ loop'.at # NotifyPoint(w) /\ loop.at # NotifyPoint(w)
      BY <1>4, <2>1 DEF AfterDrain, NotifyPoint, Wheels
    <2> QED BY <1>1, <2>1, <2>2, <2>3
  <1>5. CASE BeginPoll \/ BeginIMU \/ BeginEstimate \/ BeginLeft \/ BeginRight
    BY <1>4, <1>5 DEF BeginPoll, BeginIMU, BeginEstimate, BeginLeft, BeginRight
  <1>6. CASE UpdateLeft \/ UpdateRight \/ StoreLeft \/ StoreRight \/ SkipUpdate
    <2>1. /\ UNCHANGED <<now, channels, buffer, filter, notified, dropped, read>>
          /\ loop.at \in {"start", "storeLeft", "updateRight", "storeRight"}
          /\ loop'.at \in {"storeLeft", "updateRight", "storeRight", "estimator"}
      BY <1>6 DEF UpdateLeft, UpdateRight, StoreLeft, StoreRight, SkipUpdate, UpdateState, StoreSpeed, At, GoTo, clock
    <2>2. loop'.at \notin StorePoints => enabled'
      BY <1>6, <2>1 DEF UpdateLeft, UpdateRight, StoreLeft, StoreRight, SkipUpdate, UpdateState, StoreSpeed, At,
           Ordering, Listening, ReadPoints, StorePoints
    <2>3. \A w \in Wheels : loop'.at \notin AfterDrain(w) /\ loop'.at # NotifyPoint(w) /\ loop.at # NotifyPoint(w)
      BY <2>1 DEF AfterDrain, NotifyPoint, Wheels
    <2> QED BY <1>1, <2>1, <2>2, <2>3
  <1>7. CASE Poll
    <2>1. /\ UNCHANGED <<now, channels, buffer, filter, notified, dropped>> /\ enabled' = TRUE /\ read'.at = now
          /\ loop.at = "poll" /\ loop'.at \in {"imu", "drain"}
      BY <1>7 DEF Poll, EndRead, Reading, At, GoTo, clock
    <2>2. \A w \in Wheels : loop'.at \notin AfterDrain(w) /\ loop'.at # NotifyPoint(w) /\ loop.at # NotifyPoint(w)
      BY <2>1 DEF AfterDrain, NotifyPoint, Wheels
    <2> QED BY <1>1, <2>1, <2>2
  <1>8. CASE NoEvents
    <2>1. /\ UNCHANGED <<now, channels, buffer, filter, notified, dropped, enabled>> /\ read' = NoReading
          /\ loop.at = "drain" /\ loop'.at = "estimate" /\ buffer = << >>
      BY <1>8 DEF NoEvents, At, GoTo, clock
    <2>2. enabled'
      BY <2>1 DEF Ordering, Listening, ReadPoints, StorePoints
    <2>3. \A w \in Wheels : loop'.at # NotifyPoint(w) /\ loop.at # NotifyPoint(w)
      BY <2>1 DEF NotifyPoint
    <2> QED BY <1>1, <2>1, <2>2, <2>3
  <1>9. CASE NotifyLeftMotorDirection \/ NotifyRightMotorDirection
    <2>1. \E v \in Wheels : /\ NotifyMotorDirection(v, NotifyPoint(v))
                            /\ GoTo(IF v = "left" THEN "right" ELSE "leftRun")
      <3>1. "left" \in Wheels /\ "right" \in Wheels
        BY DEF Wheels
      <3> QED BY <1>9, <3>1 DEF NotifyLeftMotorDirection, NotifyRightMotorDirection, NotifyPoint
    <2> QED BY <2>1, NotifyOrdered
  <1>10. CASE ReadLeft \/ ReadRight
    <2>1. \E v \in Wheels : ReadDirection(v, IF v = "left" THEN "leftRead" ELSE "rightRead", NotifyPoint(v))
      <3>1. "left" \in Wheels /\ "right" \in Wheels
        BY DEF Wheels
      <3> QED BY <1>10, <3>1 DEF ReadLeft, ReadRight, NotifyPoint
    <2> QED BY <2>1, ReadOrdered
  <1>11. CASE RunLeftWheel \/ RunRightWheel
    <2>1. /\ UNCHANGED <<now, channels, buffer, filter, notified, dropped, read, enabled>>
          /\ loop.at \in {"leftRun", "rightRun"} /\ loop'.at \in {"rightRun", "start"}
      BY <1>11 DEF RunLeftWheel, RunRightWheel, RunWheel, At, GoTo, clock
    <2>2. enabled'
      BY <2>1 DEF Ordering, Listening, ReadPoints, StorePoints
    <2>3. \A w \in Wheels : loop'.at \notin AfterDrain(w) /\ loop'.at # NotifyPoint(w) /\ loop.at # NotifyPoint(w)
      BY <2>1 DEF AfterDrain, NotifyPoint, Wheels
    <2> QED BY <1>1, <2>1, <2>2, <2>3
  <1>12. CASE \E w \in Wheels : EncoderEdge(w)
    BY <1>12, EdgeOrdered
  <1>13. CASE StampEdge \/ ClearEdge \/ RegisterIMUEvent \/ ProcessEvents \/ EstimateNow
    BY <1>13, StampOrdered, ClearOrdered, RegisterOrdered, ProcessOrdered, EstimateOrdered
  <1> QED BY <1>2, <1>3, <1>5, <1>6, <1>7, <1>8, <1>9, <1>10, <1>11, <1>12, <1>13 DEF Next

LEMMA OrderingAlways == Spec => []Ordering
  <1>1. AllInv /\ AllInv' /\ Ordering /\ [Next]_vars => Ordering'
    BY OrderingKept
  <1> QED BY <1>1, InitOrdering, AllInvAlways, PTL DEF Spec

\* loop() takes the events, sorts them and gives them to the filter: its time never
\* goes back between two right times, and an edge counts in the direction whose
\* notification last had a time when the edge happened, unless that notification was
\* dropped from the full buffer. That is the direction in which the wheel is driven, but
\* from the Run() that turns it round until loop() reads the time of the next notification.
THEOREM EventsInOrderAlways == Spec => []EventsInOrder
  <1>1. Ordering /\ AllInv => EventsInOrder
    BY DEF Ordering, NoneWrong, AllInv, Lagging, EventsInOrder
  <1> QED BY <1>1, OrderingAlways, AllInvAlways, PTL
=============================================================================
