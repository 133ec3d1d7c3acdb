------------------------------ MODULE RobotClock ------------------------------
(***************************************************************************)
(* The robot's clock, the interrupt that counts its overflows and times    *)
(* the edges of the wheel encoders, and the pass of loop() that consumes   *)
(* what the interrupt produces: the wheels' speed filters and the event    *)
(* buffer of the state estimator.                                          *)
(*                                                                         *)
(* The hardware (the counter, the capture channels) goes on at any time;   *)
(* the interrupt, when it is enabled and pending, goes before the loop.    *)
(* The filters' arithmetic is left out: what is kept is which events they  *)
(* are given, in which order and with which times. event_buffer is the     *)
(* bounded queue that RingBuffer is proved to implement.                   *)
(***************************************************************************)
EXTENDS Integers, Sequences, FiniteSets

CONSTANTS
  Wrap,      \* FTM2_MOD + 1
  EdgeWraps, \* overflows that the mask 0xffff0000 can tell apart
  Capacity,  \* kEventRingBufferCapacity
  Backward,  \* of every wheel: the values that !is_turning_forward() may have
  MaxTime,   \* bound: ticks
  MaxEdges,  \* bound: encoder edges
  MaxPasses  \* bound: passes of loop()

ASSUME ClockAssumption ==
  /\ Wrap \in Nat \ {0} /\ EdgeWraps \in Nat \ {0} /\ Capacity \in Nat \ {0}
  /\ Backward \in [{"left", "right"} -> SUBSET BOOLEAN]
  /\ MaxTime \in Nat /\ MaxEdges \in Nat /\ MaxPasses \in Nat

\* The instance ends before an edge's time loses its upper bits, which is after
\* 2^32 ticks, or 38 hours.
ASSUME WithinMask == MaxTime < EdgeWraps * Wrap

Wheels == {"left", "right"}
None == -1

VARIABLES
  now,       \* ticks since the timer started; its remainder is FTM2_CNT
  tof,       \* the overflow flag in FTM2_SC
  overflows, \* timer_num_overflows
  enabled,   \* IRQ_FTM2 is enabled
  channels,  \* of every wheel: CHF in FTM2_CnSC, the time captured in FTM2_CnV
  isr,       \* where ftm2_isr() is, and the wheel it is at
  loop,      \* where loop() is, and what it has read
  read,      \* GetTimerTicks() of loop(), while it is needed: its result, when it read and when it checked
  buffer,    \* event_buffer
  wheels,    \* of every WheelStateFilter: edges so far, and the edge its speed stems from
  filter,    \* base_state_filter
  commanded, \* of every wheel: !is_turning_forward()
  notified,  \* history, of every wheel: the direction of the last notification that was given a time
  dropped,   \* of every wheel: edges dropped, and whether its last command was
  edges,     \* edges so far
  passes     \* passes of loop() so far

clock == <<now, tof, overflows>>
vars == <<now, tof, overflows, enabled, channels, isr, loop, read, buffer, wheels, filter,
          commanded, notified, dropped, edges, passes>>

-----------------------------------------------------------------------------
(* The event buffer and the base state filter.                              *)

\* An event: the ticks it was given, when it happened and when the overflow flag was
\* checked for it. An edge has the direction whose notification had last been given a time.
Event(type, wheel, ticks, at, checked, reversed) ==
  [type |-> type, wheel |-> wheel, ticks |-> ticks, at |-> at, reversed |-> reversed,
   overflown |-> checked # at \div Wrap]
Right(event) == event.ticks = event.at

\* Fault: a full buffer grows.
WriteAlways(q, event) == Append(q, event)

\* Write(): a full buffer loses its oldest event.
Write(q, event) == Append(IF Len(q) = Capacity THEN Tail(q) ELSE q, event)

\* The event that a write drops.
Drops(q) == IF Len(q) = Capacity THEN {Head(q)} ELSE {}
WithDropped(q) ==
  [w \in Wheels |->
     [edges |-> dropped[w].edges + Cardinality({e \in Drops(q) : e.type = "edge" /\ e.wheel = w}),
      command |-> dropped[w].command \/ \E e \in Drops(q) : e.type = "command" /\ e.wheel = w]]

\* EstimateState(): the time since the last update is a difference without a sign. It
\* is firm if it is the right time of an event.
EstimateState(f, ticks, firm) ==
  [f EXCEPT !.time = ticks, !.firm = firm, !.underflow = @ \/ (ticks < f.time /\ f.firm /\ firm)]

\* An edge and a command that are not at the same time go in their order.
Ordered(e, c) == c.ticks # e.ticks /\ Right(e) /\ Right(c)

\* NotifyWheelTicks() of one edge, or of the edges of both wheels. An edge counts
\* backward if it was not to, or the reverse, though its command was there.
NotifyWheelTicks(f, es, batch) ==
  LET first == CHOOSE e \in es : TRUE
      wrong == {e \in es : /\ f.backward[e.wheel] # e.reversed
                           /\ Right(e) /\ ~dropped[e.wheel].command
                           /\ \A c \in batch : c.type = "command" /\ c.wheel = e.wheel => Ordered(e, c)}
  IN EstimateState([f EXCEPT !.count = [w \in Wheels |-> @[w] + Cardinality({e \in es : e.wheel = w})],
                             !.wrong = @ \/ wrong # {}],
                   first.ticks, \A e \in es : Right(e))

\* One event by itself.
Notify(f, e, batch) ==
  CASE e.type = "edge" -> NotifyWheelTicks(f, {e}, batch)
    [] e.type = "command" -> [f EXCEPT !.backward[e.wheel] = e.reversed]
    [] e.type = "imu" -> EstimateState(f, e.ticks, Right(e))

\* Fault: events are processed as they were written.
InOrderWritten(q) == {q}

\* qsort() by time; it may exchange events of the same time.
Chronological(q) ==
  {[i \in DOMAIN q |-> q[p[i]]] :
     p \in {p \in [DOMAIN q -> DOMAIN q] :
              \A i, j \in DOMAIN q : i < j => p[i] # p[j] /\ q[p[i]].ticks <= q[p[j]].ticks}}

\* Neighbours that are edges of both wheels at the same time.
SameTime(e, g) ==
  e.type = "edge" /\ g.type = "edge" /\ e.wheel # g.wheel /\ e.ticks = g.ticks

\* Fault: the edge that was counted with its neighbour is counted again.
ProcessedTwice(f, order) ==
  LET n == Len(order)
      batch == {order[i] : i \in 1 .. n}
      after[i \in 0 .. n] ==
        IF i = 0 THEN f
        ELSE IF i < n /\ SameTime(order[i], order[i + 1])
             THEN NotifyWheelTicks(after[i - 1], {order[i], order[i + 1]}, batch)
             ELSE Notify(after[i - 1], order[i], batch)
  IN after[n]

\* The loop over the sorted events.
Processed(f, order) ==
  LET n == Len(order)
      batch == {order[i] : i \in 1 .. n}
      after[i \in 0 .. n] ==
        IF i = 0 THEN [filter |-> f, merged |-> FALSE]
        ELSE LET before == after[i - 1] IN
             IF before.merged THEN [before EXCEPT !.merged = FALSE]
             ELSE IF i < n /\ SameTime(order[i], order[i + 1])
                  THEN [filter |-> NotifyWheelTicks(before.filter, {order[i], order[i + 1]}, batch),
                        merged |-> TRUE]
                  ELSE [filter |-> Notify(before.filter, order[i], batch), merged |-> FALSE]
  IN after[n].filter

-----------------------------------------------------------------------------
(* The hardware.                                                            *)

\* The counter advances. The interrupt is never held off for a whole wrap.
Tick ==
  /\ now < MaxTime
  /\ (now + 1) % Wrap = 0 => ~tof
  /\ now' = now + 1
  /\ tof' = (tof \/ (now + 1) % Wrap = 0)
  /\ UNCHANGED <<overflows, enabled, channels, isr, loop, read, buffer, wheels, filter,
                 commanded, notified, dropped, edges, passes>>

\* A rising edge of an encoder. It replaces a captured time that was not read. The edge
\* does not say which way the wheel turned; what loop() had last told of it is recorded.
EncoderEdge(w) ==
  /\ edges < MaxEdges
  /\ edges' = edges + 1
  /\ channels' = [channels EXCEPT ![w] = [chf |-> TRUE, at |-> now, reversed |-> notified[w]]]
  /\ UNCHANGED <<now, tof, overflows, enabled, isr, loop, read, buffer, wheels, filter,
                 commanded, notified, dropped, passes>>

NoCapture == [chf |-> FALSE, at |-> 0, reversed |-> FALSE]
Pending == enabled /\ (tof \/ \E w \in Wheels : channels[w].chf)

-----------------------------------------------------------------------------
(* GetTimerTicks(): an overflow that the interrupt has not counted is       *)
(* counted, then the counter is read.                                       *)

\* Fault: the overflow stays flagged.
CheckOverflowKeepsFlag ==
  /\ overflows' = overflows + (IF tof THEN 1 ELSE 0)
  /\ UNCHANGED tof

CheckOverflow ==
  /\ overflows' = overflows + (IF tof THEN 1 ELSE 0)
  /\ tof' = FALSE

Ticks == overflows * Wrap + (now % Wrap)
Reading(checked) == [ticks |-> Ticks, at |-> now, checked |-> checked]
NoReading == [ticks |-> 0, at |-> 0, checked |-> 0]

-----------------------------------------------------------------------------
(* The interrupt.                                                           *)

AfterWheel(w) == IF w = "left" THEN [at |-> "check", wheel |-> "right", checked |-> None]
                 ELSE [at |-> "off", wheel |-> "left", checked |-> None]

\* ftm2_isr() starts and counts an overflow.
Interrupt ==
  /\ isr.at = "off" /\ Pending
  /\ CheckOverflow
  /\ isr' = [isr EXCEPT !.at = "check"]
  /\ UNCHANGED <<now, enabled, channels, loop, read, buffer, wheels, filter, commanded,
                 notified, dropped, edges, passes>>

\* EncodersIsr() finds a captured edge and begins to read the time.
FindEdge ==
  /\ isr.at = "check" /\ channels[isr.wheel].chf
  /\ CheckOverflow
  /\ isr' = [at |-> "stamp", wheel |-> isr.wheel, checked |-> now \div Wrap]
  /\ UNCHANGED <<now, enabled, channels, loop, read, buffer, wheels, filter, commanded,
                 notified, dropped, edges, passes>>

NoEdge ==
  /\ isr.at = "check" /\ ~channels[isr.wheel].chf
  /\ isr' = AfterWheel(isr.wheel)
  /\ UNCHANGED <<clock, enabled, channels, loop, read, buffer, wheels, filter, commanded,
                 notified, dropped, edges, passes>>

\* The time of an edge: the overflows of now with the counter that was captured.
EdgeTicks(captured) == (overflows % EdgeWraps) * Wrap + (captured % Wrap)

\* NotifyEncoderEdge() of the wheel's filter: the speed is that between two edges;
\* here it is the number of the later one.
NotifyEncoderEdge(wheel) ==
  [edges |-> wheel.edges + 1,
   speed |-> IF wheel.edges > 0 THEN wheel.edges + 1 ELSE wheel.speed]

\* EncodersIsr() calls the encoder ISRs of the wheel's speed filter and of the
\* estimator.
StampEdge ==
  LET w == isr.wheel
      ticks == EdgeTicks(channels[w].at)
      event == Event("edge", w, ticks, channels[w].at, isr.checked, channels[w].reversed)
  IN /\ isr.at = "stamp"
     /\ wheels' = [wheels EXCEPT ![w] = NotifyEncoderEdge(wheels[w])]
     /\ buffer' = Write(buffer, event)
     /\ dropped' = WithDropped(buffer)
     /\ isr' = [at |-> "clear", wheel |-> isr.wheel, checked |-> None]
     /\ UNCHANGED <<clock, enabled, channels, loop, read, filter, commanded, notified, edges, passes>>

\* EncodersIsr() clears the channel's flag, of a later edge too.
ClearEdge ==
  /\ isr.at = "clear"
  /\ channels' = [channels EXCEPT ![isr.wheel] = NoCapture]
  /\ isr' = AfterWheel(isr.wheel)
  /\ UNCHANGED <<clock, enabled, loop, read, buffer, wheels, filter, commanded, notified, dropped, edges, passes>>

-----------------------------------------------------------------------------
(* One pass of loop().                                                      *)

\* loop() goes on at a point of the program.
At(point) == loop.at = point /\ isr.at = "off" /\ ~Pending
GoTo(point) == loop' = [at |-> point, checked |-> None, speed |-> 0]

\* NO_TIMER_IRQ of GetTimerTicks(), and its check of the overflow flag.
BeginRead(point, next) ==
  /\ At(point)
  /\ enabled' = FALSE
  /\ CheckOverflow
  /\ loop' = [at |-> next, checked |-> now \div Wrap, speed |-> 0]
  /\ read' = NoReading
  /\ UNCHANGED <<now, channels, isr, buffer, wheels, filter, commanded, notified, dropped, edges, passes>>

\* GetTimerTicks() reads the counter.
EndRead(point) ==
  /\ At(point)
  /\ enabled' = TRUE
  /\ read' = Reading(loop.checked)

\* Fault: UpdateState() does not disable the interrupt.
UpdateLeavesIrq == UNCHANGED enabled

\* NO_ENCODER_IRQ of UpdateState().
UpdateDisablesIrq == enabled' = FALSE

\* WheelStateEstimator::RunAfterPeriod(): UpdateState() reads a wheel's speed.
UpdateState(w, point, next) ==
  /\ At(point)
  /\ UpdateDisablesIrq
  /\ loop' = [at |-> next, checked |-> None, speed |-> wheels[w].speed]
  /\ UNCHANGED <<clock, channels, isr, read, buffer, wheels, filter, commanded, notified, dropped, edges, passes>>

\* It writes the speed back, slowed down.
StoreSpeed(w, point, next) ==
  /\ At(point)
  /\ enabled' = TRUE
  /\ wheels' = [wheels EXCEPT ![w].speed = loop.speed]
  /\ GoTo(next)
  /\ UNCHANGED <<clock, channels, isr, read, buffer, filter, commanded, notified, dropped, edges, passes>>

UpdateLeft == UpdateState("left", "start", "storeLeft")
StoreLeft == StoreSpeed("left", "storeLeft", "updateRight")
UpdateRight == UpdateState("right", "updateRight", "storeRight")
StoreRight == StoreSpeed("right", "storeRight", "estimator")

\* The period of the wheel state estimator is not over.
SkipUpdate ==
  /\ At("start")
  /\ GoTo("estimator")
  /\ UNCHANGED <<clock, enabled, channels, isr, read, buffer, wheels, filter, commanded,
                 notified, dropped, edges, passes>>

\* RunRobotStateEstimator() reads the time, and whether to poll the IMU.
BeginPoll == BeginRead("estimator", "poll")
Poll ==
  /\ EndRead("poll")
  /\ \E next \in {"imu", "drain"} : GoTo(next)
  /\ UNCHANGED <<clock, channels, isr, buffer, wheels, filter, commanded, notified, dropped, edges, passes>>

\* RegisterIMUEvent(): the interrupt stays disabled until the event is written.
BeginIMU == BeginRead("imu", "registerIMU")
RegisterIMUEvent ==
  LET event == Event("imu", "none", Ticks, now, loop.checked, FALSE) IN
  /\ EndRead("registerIMU")
  /\ buffer' = Write(buffer, event)
  /\ dropped' = WithDropped(buffer)
  /\ GoTo("drain")
  /\ UNCHANGED <<clock, channels, isr, wheels, filter, commanded, notified, edges, passes>>

\* All events are taken with the interrupt disabled, and processed afterwards;
\* nothing else sees them or the filter meanwhile.
ProcessEvents ==
  /\ At("drain") /\ buffer # << >>
  /\ \E order \in Chronological(buffer) : filter' = Processed(filter, order)
  /\ buffer' = << >>
  /\ dropped' = [w \in Wheels |-> [dropped[w] EXCEPT !.command =
                    @ /\ ~\E i \in DOMAIN buffer : buffer[i].type = "command" /\ buffer[i].wheel = w]]
  /\ GoTo("left")
  /\ read' = NoReading
  /\ UNCHANGED <<clock, enabled, channels, isr, wheels, commanded, notified, edges, passes>>

NoEvents ==
  /\ At("drain") /\ buffer = << >>
  /\ GoTo("estimate")
  /\ read' = NoReading
  /\ UNCHANGED <<clock, enabled, channels, isr, buffer, wheels, filter, commanded,
                 notified, dropped, edges, passes>>

BeginEstimate == BeginRead("estimate", "estimated")
EstimateNow ==
  /\ EndRead("estimated")
  /\ filter' = EstimateState(filter, Ticks, FALSE)
  /\ GoTo("left")
  /\ UNCHANGED <<clock, channels, isr, buffer, wheels, commanded, notified, dropped, edges, passes>>

\* loop() reads the time for the notification of the direction in which a wheel is driven.
ReadDirection(w, point, next) ==
  /\ EndRead(point)
  /\ notified' = [notified EXCEPT ![w] = commanded[w]]
  /\ GoTo(next)
  /\ UNCHANGED <<clock, channels, isr, buffer, wheels, filter, commanded, dropped, edges, passes>>

\* Notify...MotorDirection() writes the event, with the time read before.
NotifyMotorDirection(w, point) ==
  LET event == Event("command", w, read.ticks, read.at, read.checked, commanded[w]) IN
  /\ At(point)
  /\ buffer' = Write(buffer, event)
  /\ dropped' = WithDropped(buffer)
  /\ read' = NoReading
  /\ UNCHANGED <<clock, enabled, channels, isr, wheels, filter, commanded, notified, edges, passes>>

BeginLeft == BeginRead("left", "leftRead")
ReadLeft == ReadDirection("left", "leftRead", "leftNotify")
NotifyLeftMotorDirection == NotifyMotorDirection("left", "leftNotify") /\ GoTo("right")
BeginRight == BeginRead("right", "rightRead")
ReadRight == ReadDirection("right", "rightRead", "rightNotify")
NotifyRightMotorDirection == NotifyMotorDirection("right", "rightNotify") /\ GoTo("leftRun")

\* WheelSpeedController::Run(): Update(), if its period is over, drives the wheel and may
\* turn it round.
RunWheel(w, point) ==
  /\ At(point)
  /\ \E b \in Backward[w] \cup {commanded[w]} : commanded' = [commanded EXCEPT ![w] = b]
  /\ UNCHANGED <<clock, enabled, channels, isr, read, buffer, wheels, filter, notified, dropped, edges>>

RunLeftWheel == RunWheel("left", "leftRun") /\ GoTo("rightRun") /\ UNCHANGED passes
RunRightWheel ==
  /\ passes < MaxPasses /\ passes' = passes + 1
  /\ RunWheel("right", "rightRun") /\ GoTo("start")

Init ==
  /\ now = 0 /\ tof = FALSE /\ overflows = 0 /\ enabled = TRUE
  /\ channels = [w \in Wheels |-> NoCapture]
  /\ isr = [at |-> "off", wheel |-> "left", checked |-> None]
  /\ loop = [at |-> "start", checked |-> None, speed |-> 0]
  /\ read = NoReading
  /\ buffer = << >>
  /\ wheels = [w \in Wheels |-> [edges |-> 0, speed |-> 0]]
  /\ filter = [time |-> 0, firm |-> TRUE, backward |-> [w \in Wheels |-> FALSE],
               count |-> [w \in Wheels |-> 0], underflow |-> FALSE, wrong |-> FALSE]
  /\ commanded = [w \in Wheels |-> FALSE] /\ notified = [w \in Wheels |-> FALSE]
  /\ dropped = [w \in Wheels |-> [edges |-> 0, command |-> FALSE]]
  /\ edges = 0 /\ passes = 0

Next ==
  \/ Tick \/ \E w \in Wheels : EncoderEdge(w)
  \/ Interrupt \/ FindEdge \/ NoEdge \/ StampEdge \/ ClearEdge
  \/ UpdateLeft \/ StoreLeft \/ UpdateRight \/ StoreRight \/ SkipUpdate
  \/ BeginPoll \/ Poll \/ BeginIMU \/ RegisterIMUEvent
  \/ ProcessEvents \/ NoEvents \/ BeginEstimate \/ EstimateNow
  \/ BeginLeft \/ ReadLeft \/ NotifyLeftMotorDirection
  \/ BeginRight \/ ReadRight \/ NotifyRightMotorDirection
  \/ RunLeftWheel \/ RunRightWheel

Spec == Init /\ [][Next]_vars

-----------------------------------------------------------------------------
Points == {"start", "storeLeft", "updateRight", "storeRight", "estimator", "poll", "imu", "registerIMU",
           "drain", "estimate", "estimated", "left", "leftRead", "leftNotify", "right", "rightRead", "rightNotify",
           "leftRun", "rightRun"}

\* Every variable has its type and the event buffer holds no more than fits.
TypeOK ==
  /\ now \in 0 .. MaxTime /\ tof \in BOOLEAN /\ overflows \in Nat /\ enabled \in BOOLEAN
  /\ channels \in [Wheels -> [chf : BOOLEAN, at : 0 .. MaxTime, reversed : BOOLEAN]]
  /\ isr \in [at : {"off", "check", "stamp", "clear"}, wheel : Wheels, checked : 0 .. MaxTime \cup {None}]
  /\ loop \in [at : Points, checked : 0 .. MaxTime \cup {None}, speed : 0 .. MaxEdges]
  /\ read \in [ticks : Nat, at : 0 .. MaxTime, checked : 0 .. MaxTime]
  /\ buffer \in Seq([type : {"edge", "command", "imu"}, wheel : Wheels \cup {"none"}, ticks : Nat,
                      at : 0 .. MaxTime, reversed : BOOLEAN, overflown : BOOLEAN])
  /\ Len(buffer) <= Capacity
  /\ wheels \in [Wheels -> [edges : 0 .. MaxEdges, speed : 0 .. MaxEdges]]
  /\ filter \in [time : Nat, firm : BOOLEAN, underflow : BOOLEAN,
                  wrong : BOOLEAN, backward : [Wheels -> BOOLEAN], count : [Wheels -> Nat]]
  /\ commanded \in [Wheels -> BOOLEAN] /\ notified \in [Wheels -> BOOLEAN]
  /\ dropped \in [Wheels -> [edges : Nat, command : BOOLEAN]]
  /\ edges \in 0 .. MaxEdges /\ passes \in 0 .. MaxPasses

\* Every overflow is counted once, by whoever finds its flag. A time that loop()
\* reads is right, or a wrap too small if the counter overflowed between the check of
\* the flag and the read. The time of a buffered event is off by whole wraps, and
\* only if the counter overflowed while it was being handled.
ClockTrue ==
  /\ overflows = now \div Wrap - (IF tof THEN 1 ELSE 0)
  /\ read.ticks = read.at - (IF read.checked = read.at \div Wrap THEN 0 ELSE Wrap)
  /\ \A i \in DOMAIN buffer : /\ buffer[i].overflown <=> ~Right(buffer[i])
                              /\ (buffer[i].ticks - buffer[i].at) % Wrap = 0

\* From a wheel's Run() to the time of the notification that follows.
MayDiffer(w) == Points \ (IF w = "left" THEN {"leftNotify", "right", "rightRead", "rightNotify", "leftRun"}
                          ELSE {"rightNotify", "leftRun", "rightRun"})

\* The filter is given events in the order in which they happened: its time goes back only
\* where a time was wrong, or after an estimate for which there was no event; and an edge
\* counts in the direction whose notification last had a time when the edge happened, unless that
\* notification was dropped. That is the direction in which the wheel is driven, but from
\* the Run() that turns it round to the time of the notification that follows, almost a pass of
\* loop(): edges between them count the wrong way as the code reads (arduino.ino:138-141).
EventsInOrder ==
  /\ ~filter.underflow /\ ~filter.wrong
  /\ \A w \in Wheels : commanded[w] # notified[w] => loop.at \in MayDiffer(w)

\* Every edge that was timed is counted once, is still in the buffer, or was
\* dropped when the buffer was full.
TicksConserved ==
  \A w \in Wheels :
    wheels[w].edges = filter.count[w] + dropped[w].edges
      + Cardinality({i \in DOMAIN buffer : buffer[i].type = "edge" /\ buffer[i].wheel = w})

\* A wheel's speed stems from its last two edges, whichever way the interrupt and
\* the loop cross.
SpeedFromLastEdge ==
  \A w \in Wheels :
    loop.at \notin {"storeLeft", "storeRight"} =>
      wheels[w].speed = IF wheels[w].edges < 2 THEN 0 ELSE wheels[w].edges
=============================================================================
