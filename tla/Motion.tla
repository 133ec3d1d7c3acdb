------------------------------- MODULE Motion -------------------------------
(***************************************************************************)
(* Trajectories, the views that refer to them, their store, the handlers   *)
(* that create and execute them, and the controllers that follow a view.   *)
(*                                                                         *)
(* A handler's request comes from Requests at any time; how requests,      *)
(* cancellations and replies travel is ActionExchange's subject. Handlers, *)
(* controllers and incoming packets take turns in one thread; here they    *)
(* take them in any order.                                                 *)
(***************************************************************************)
EXTENDS TrajectoryOps, FiniteSets

CONSTANTS
  Slots,        \* slots of every store
  MaxWaypoints, \* kP2PMaxNumWaypointsPerTrajectory
  Requests,     \* the requests that clients make
  MaxRequests,  \* bound: requests taken
  MaxWaiting,   \* bound: handlers with a reply that waits for room
  Horizon       \* bound: time, longer than any lap

Families == {"base", "head", "envelope"}
Moving == {"base", "head"}
CreateHandlers == ({"trajectory", "plain"} \X Families) \cup ({"modulated", "mixed"} \X Moving)
Handlers == CreateHandlers \cup ({"execute"} \X Moving)

\* Where an object of TrajectoryStore is.
Place(kind, family, slot) == [kind |-> kind, family |-> family, slot |-> slot]
Places == [kind : {"trajectory", "plain", "modulated", "mixed"}, family : Families, slot : Slots]
Views == {p \in Places : p.kind # "trajectory"}
NoPlace == Place("none", "none", -1)

\* P2PCreate...Request and P2PExecute...Request: parts are what the object refers
\* to, in the order in which the handler looks them up.
NoRequest == [kind |-> "none"]
RefsTo(kinds, family) == [kind : kinds, family : {family}, slot : Int]
ViewRefs(family) == RefsTo({"plain", "modulated", "mixed", "invalid"}, family)
PartsOk(r) ==
  CASE r.kind = "trajectory" -> r.parts = << >>
    [] r.kind = "plain" -> r.parts \in Seq(RefsTo({"trajectory"}, r.family)) /\ Len(r.parts) = 1
    [] OTHER -> r.parts \in ViewRefs(r.family) \X ViewRefs(r.family) \X RefsTo({"plain"}, "envelope")

ASSUME MotionAssumption ==
  /\ IsFiniteSet(Slots) /\ Slots \subseteq Nat
  /\ MaxWaypoints \in Nat /\ Horizon \in Nat /\ MaxRequests \in Nat /\ MaxWaiting \in Nat
  /\ \A r \in Requests :
       \/ /\ <<r.kind, r.family>> \in CreateHandlers /\ PartsOk(r)
          /\ r.slot \in Int /\ r.times \in Seq(Int) /\ r.loop \in Int
       \/ r.kind = "execute" /\ r.family \in Moving /\ r.view \in ViewRefs(r.family)

VARIABLES
  store,       \* the StatusOr in every slot
  handlers,    \* run_state_, the request, state_, result_ and what it is about
  controllers, \* is_started_, trajectory_, seconds_since_start_
  halted,      \* why the program stopped: no, assert, overflow (of the stack)
  sent,        \* the reply sent in the last step
  taken,       \* requests taken so far
  replaced,    \* a view that combines others was created again in its slot
  changed      \* something was created since the family's execution started

vars == <<store, handlers, controllers, halted, sent, taken, replaced, changed>>

Unavailable == [ok |-> FALSE, parts |-> << >>, times |-> << >>, loop |-> -1]
NoReply == [handler |-> <<"none", "none">>, request |-> NoRequest, about |-> NoRequest,
            result |-> "none", cancelled |-> FALSE]

-----------------------------------------------------------------------------
(* The store and its views.                                                 *)

\* Store::operator[] and the StatusOr there.
StatusAt(place) ==
  IF place.kind = "invalid" THEN "malformed"
  ELSE IF place.slot \notin Slots THEN "doesNotExist"
  ELSE IF store[place].ok THEN "success" ELSE "unavailable"

\* Views nest at most this deep unless they refer to themselves.
MaxDepth == 2 * Cardinality(Slots) + 1

\* IsLoopingEnabled() and LapDuration() of a view: their values, and how their
\* calls may fail to return. The objects are those of the store.
TimingIn(objects, view) ==
  LET lookAt[depth \in 0 .. MaxDepth] == [v \in Views |->
        LET parts == objects[v].parts
            inner(i) == lookAt[depth - 1][parts[i]]
            times == objects[parts[1]].times
        IN IF depth = 0 THEN [loops |-> FALSE, lap |-> 0, loopFails |-> {"overflow"}, lapFails |-> {"overflow"}]
           ELSE CASE v.kind = "plain" ->
                  [loops |-> objects[v].loop >= 0, loopFails |-> {},
                   lap |-> IF times = << >> THEN 0 ELSE LapDuration(times, objects[v].loop),
                   lapFails |-> IF times = << >> THEN {"assert"} ELSE {}]
             [] v.kind = "modulated" -> inner(1)
             [] v.kind = "mixed" ->
                  [loops |-> inner(1).loops \/ inner(2).loops,
                   loopFails |-> inner(1).loopFails \cup (IF inner(1).loops THEN {} ELSE inner(2).loopFails),
                   lap |-> IF inner(1).lap > inner(2).lap THEN inner(1).lap ELSE inner(2).lap,
                   lapFails |-> inner(1).lapFails \cup inner(2).lapFails]]
  IN lookAt[MaxDepth][view]

Timing(view) == TimingIn(store, view)

\* state() of a view evaluates every part of it: how that may fail to return.
StateFails(view) ==
  LET lookAt[depth \in 0 .. MaxDepth] == [v \in Views |->
        LET parts == store[v].parts IN
        IF depth = 0 THEN {"overflow"}
        ELSE IF v.kind = "plain" THEN IF store[parts[1]].times = << >> THEN {"assert"} ELSE {}
        ELSE UNION {lookAt[depth - 1][parts[i]] : i \in DOMAIN parts}]
  IN lookAt[MaxDepth][view]

\* IsTrajectoryFinished()
Finished(family) ==
  LET timing == Timing(controllers[family].view) IN
  ~timing.loops /\ controllers[family].time > timing.lap

FinishedFails(family) ==
  LET timing == Timing(controllers[family].view) IN
  timing.loopFails \cup (IF timing.loops THEN {} ELSE timing.lapFails)

-----------------------------------------------------------------------------
(* Replies.                                                                 *)

Halt(why) ==
  /\ why # {}
  /\ halted' \in why
  /\ sent' = NoReply
  /\ UNCHANGED <<store, handlers, controllers, taken, replaced, changed>>

\* Fault: the next request finds the handler still in kSendingReply.
StaysReplying(handler) == [handler EXCEPT !.running = FALSE, !.request = NoRequest]

\* The handler's state once its reply is sent.
Replied(handler) ==
  [handler EXCEPT !.running = FALSE, !.request = NoRequest, !.state = "processing",
                  !.result = "success", !.about = NoRequest, !.cancelled = FALSE]

\* TrySendingReply(): there is room and the reply is sent, or there is not.
TrySendingReply(h, handler) ==
  \/ /\ sent' = [handler |-> h, request |-> handler.request, about |-> handler.about,
                 result |-> handler.result, cancelled |-> handler.cancelled]
     /\ handlers' = [handlers EXCEPT ![h] = Replied(handler)]
  \/ /\ Cardinality({g \in Handlers \ {h} : handlers[g].state = "sendingReply"}) < MaxWaiting
     /\ sent' = NoReply
     /\ handlers' = [handlers EXCEPT ![h] = [handler EXCEPT !.running = TRUE, !.state = "sendingReply"]]

TakesRequest(r) ==
  /\ halted = "no" /\ taken < MaxRequests
  /\ ~handlers[<<r.kind, r.family>>].running
  /\ taken' = taken + 1

-----------------------------------------------------------------------------
(* Creating.                                                                *)

\* The slot that is created.
Target(r) == Place(r.kind, r.family, r.slot)

\* Fault: the last part is not checked.
FailedPartsButLast(r) == {i \in 1 .. Len(r.parts) - 1 : StatusAt(r.parts[i]) # "success"}

\* Fault: the slot is written before the parts are looked up.
FailedPartsAfterWriting(r) ==
  {i \in DOMAIN r.parts : r.parts[i] # Target(r) /\ StatusAt(r.parts[i]) # "success"}

\* The parts that are not there. They are all looked up before the slot is written.
FailedParts(r) == {i \in DOMAIN r.parts : StatusAt(r.parts[i]) # "success"}

\* The status a creating handler replies with.
CreateStatus(r) ==
  LET failed == FailedParts(r) IN
  IF r.slot \notin Slots THEN "doesNotExist"
  ELSE IF failed = {} THEN "success"
  ELSE StatusAt(r.parts[CHOOSE i \in failed : \A j \in failed : i <= j])

\* Fault: one waypoint more than fits.
TooManyByOne(r) == Len(r.times) > MaxWaypoints + 1

\* Insert() asserts that there is room for the waypoint.
TooMany(r) == Len(r.times) > MaxWaypoints

\* A creation that succeeds so far fails an assertion.
CreateFails(r) == TooMany(r) \/ (r.kind = "plain" /\ LoopsInNoTime(r.loop))

\* What the slot holds after the creation.
Created(r) ==
  [ok |-> TRUE, parts |-> r.parts, times |-> Inserted(r.times),
   loop |-> IF r.kind = "plain" THEN LoopAfter(store[r.parts[1]].times, r.loop) ELSE -1]

\* The slot of the request holds its object.
Stores(r) ==
  LET before == store[Target(r)] IN
  /\ store' = [store EXCEPT ![Target(r)] = Created(r)]
  /\ replaced' = (replaced \/ (before.ok /\ r.kind \in {"modulated", "mixed"}))
  /\ changed' = [f \in Moving |-> controllers[f].view # NoPlace]

\* Run() of a creating handler that just got its request. The handlers have no
\* OnRequest() or OnCancel(): one that was cancelled before its reply found room
\* still has that reply to send.
Create(kind, family) ==
  \E r \in Requests :
    LET h == <<kind, family>>
        handler == [handlers[h] EXCEPT !.request = r]
        status == CreateStatus(r)
    IN /\ r.kind = kind /\ r.family = family
       /\ TakesRequest(r)
       /\ \/ /\ handler.state = "processing" /\ status = "success" /\ CreateFails(r)
             /\ halted' = "assert" /\ sent' = NoReply
             /\ UNCHANGED <<store, handlers, replaced, changed>>
          \/ /\ handler.state = "processing" /\ status = "success" /\ ~CreateFails(r)
             /\ Stores(r)
             /\ TrySendingReply(h, [handler EXCEPT !.result = status, !.about = r])
             /\ UNCHANGED halted
          \/ /\ handler.state = "processing" /\ status # "success"
             /\ TrySendingReply(h, [handler EXCEPT !.result = status, !.about = r])
             /\ UNCHANGED <<store, halted, replaced, changed>>
          \/ /\ handler.state = "sendingReply"
             /\ TrySendingReply(h, handler)
             /\ UNCHANGED <<store, halted, replaced, changed>>
       /\ UNCHANGED controllers

CreateBaseTrajectory == Create("trajectory", "base")
CreateHeadTrajectory == Create("trajectory", "head")
CreateEnvelopeTrajectory == Create("trajectory", "envelope")
CreateBaseTrajectoryView == Create("plain", "base")
CreateHeadTrajectoryView == Create("plain", "head")
CreateEnvelopeTrajectoryView == Create("plain", "envelope")
CreateBaseModulatedTrajectoryView == Create("modulated", "base")
CreateHeadModulatedTrajectoryView == Create("modulated", "head")
CreateBaseMixedTrajectoryView == Create("mixed", "base")
CreateHeadMixedTrajectoryView == Create("mixed", "head")

\* Run() of any handler in kSendingReply.
SendReply(h) ==
  /\ halted = "no"
  /\ handlers[h].running /\ handlers[h].state = "sendingReply"
  /\ TrySendingReply(h, handlers[h])
  /\ UNCHANGED <<store, controllers, halted, taken, replaced, changed>>

-----------------------------------------------------------------------------
(* Executing.                                                               *)

\* Fault: stopping forgets the time.
StoppedAtZero(controller) == [controller EXCEPT !.started = FALSE, !.time = 0]

\* Controller::Stop()
Stopped(controller) == [controller EXCEPT !.started = FALSE]

\* TrajectoryController::Start()
Started(view) == [started |-> TRUE, view |-> view, time |-> 0]

\* OnRequest(), then Run() for the first time.
Execute(family) ==
  \E r \in Requests :
    LET h == <<"execute", family>>
        status == StatusAt(r.view)
        handler == [handlers[h] EXCEPT !.request = r, !.state = "processing", !.result = status, !.about = r]
    IN /\ r.kind = "execute" /\ r.family = family
       /\ TakesRequest(r)
       /\ \/ /\ status # "success"
             /\ TrySendingReply(h, handler)
             /\ UNCHANGED <<controllers, changed>>
          \/ /\ status = "success"
             /\ controllers' = [controllers EXCEPT ![family] = Started(r.view)]
             /\ changed' = [changed EXCEPT ![family] = FALSE]
             /\ handlers' = [handlers EXCEPT ![h] = [handler EXCEPT !.running = TRUE, !.state = "waiting"]]
             /\ sent' = NoReply
       /\ UNCHANGED <<store, halted, replaced>>

ExecuteBaseTrajectoryView == Execute("base")
ExecuteHeadTrajectoryView == Execute("head")

Waits(family, state) ==
  /\ halted = "no"
  /\ handlers[<<"execute", family>>].running /\ handlers[<<"execute", family>>].state = state

\* Run() in kWaitForNextProgressUpdate finds the trajectory finished.
NoticeEnd(family) ==
  /\ Waits(family, "waiting")
  /\ \/ Halt(FinishedFails(family))
     \/ /\ FinishedFails(family) = {} /\ Finished(family)
        /\ TrySendingReply(<<"execute", family>>, handlers[<<"execute", family>>])
        /\ UNCHANGED <<store, controllers, halted, taken, replaced, changed>>

ProgressFails(family) == FinishedFails(family) \cup Timing(controllers[family].view).lapFails

\* Run() sends a progress update, which is due or was waiting for room, with
\* NumCompletedLaps(); it does not if there is still no room.
SendProgress(family) ==
  LET h == <<"execute", family>> IN
  /\ \/ Waits(family, "waiting") /\ FinishedFails(family) = {} /\ ~Finished(family)
     \/ Waits(family, "sendingProgress")
  /\ \/ Halt(ProgressFails(family))
     \/ /\ ProgressFails(family) = {}
        /\ handlers' = [handlers EXCEPT ![h].state = "waiting"]
        /\ sent' = NoReply
        /\ UNCHANGED <<store, controllers, halted, taken, replaced, changed>>

\* There is no room for a progress update that is due.
NoRoomForProgress(family) ==
  LET h == <<"execute", family>> IN
  /\ Waits(family, "waiting") /\ FinishedFails(family) = {} /\ ~Finished(family)
  /\ handlers' = [handlers EXCEPT ![h].state = "sendingProgress"]
  /\ sent' = NoReply
  /\ UNCHANGED <<store, controllers, halted, taken, replaced, changed>>

\* Fault: the time of the last update is not kept.
NoTime(seconds) == 0

\* seconds_since_start_ at an update; times beyond Horizon are all alike.
Later(seconds) == IF seconds < Horizon THEN seconds + 1 ELSE Horizon

\* RunAfterPeriod() of a controller that is started: Update().
Update(family) ==
  LET controller == [controllers[family] EXCEPT !.time = Later(controllers[family].time)]
      timing == Timing(controller.view)
      fails == timing.loopFails \cup (IF timing.loops THEN {} ELSE timing.lapFails)
      finished == ~timing.loops /\ controller.time > timing.lap
  IN /\ halted = "no" /\ controllers[family].started
     /\ \/ Halt(fails)
        \/ /\ fails = {} /\ finished
           /\ controllers' = [controllers EXCEPT ![family] = Stopped(controller)]
           /\ sent' = NoReply
           /\ UNCHANGED <<store, handlers, halted, taken, replaced, changed>>
        \/ /\ fails = {} /\ ~finished
           /\ \/ Halt(StateFails(controller.view))
              \/ /\ StateFails(controller.view) = {}
                 /\ controllers' = [controllers EXCEPT ![family] = controller]
                 /\ sent' = NoReply
                 /\ UNCHANGED <<store, handlers, halted, taken, replaced, changed>>

BaseUpdate == Update("base")
HeadUpdate == Update("head")

-----------------------------------------------------------------------------
\* OnCancel(), which only the executing handlers have.
OnCancel(hs) ==
  controllers' = [f \in Moving |-> IF <<"execute", f>> \in hs THEN Stopped(controllers[f]) ELSE controllers[f]]

\* A handler that ran is cancelled and keeps state_ and result_.
Idle(handler) ==
  [handler EXCEPT !.running = FALSE, !.request = NoRequest, !.cancelled = handler.state = "sendingReply"]

\* A cancellation of a handler that runs.
Cancel(h) ==
  /\ halted = "no" /\ handlers[h].running
  /\ OnCancel({h})
  /\ handlers' = [handlers EXCEPT ![h] = Idle(handlers[h])]
  /\ sent' = NoReply
  /\ UNCHANGED <<store, halted, taken, replaced, changed>>

\* P2PActionServer::OnOtherEndStarted()
OnOtherEndStarted ==
  /\ halted = "no"
  /\ OnCancel(Handlers)
  /\ handlers' = [h \in Handlers |-> IF handlers[h].running THEN Idle(handlers[h]) ELSE handlers[h]]
  /\ sent' = NoReply
  /\ UNCHANGED <<store, halted, taken, replaced, changed>>

InitButStore ==
  /\ handlers = [h \in Handlers |-> [running |-> FALSE, request |-> NoRequest, state |-> "processing",
                                     result |-> "success", about |-> NoRequest, cancelled |-> FALSE]]
  /\ controllers = [f \in Moving |-> [started |-> FALSE, view |-> NoPlace, time |-> 0]]
  /\ halted = "no" /\ sent = NoReply /\ taken = 0 /\ replaced = FALSE
  /\ changed = [f \in Moving |-> FALSE]

Init == store = [p \in Places |-> Unavailable] /\ InitButStore

Next ==
  \/ CreateBaseTrajectory \/ CreateHeadTrajectory \/ CreateEnvelopeTrajectory
  \/ CreateBaseTrajectoryView \/ CreateHeadTrajectoryView \/ CreateEnvelopeTrajectoryView
  \/ CreateBaseModulatedTrajectoryView \/ CreateHeadModulatedTrajectoryView
  \/ CreateBaseMixedTrajectoryView \/ CreateHeadMixedTrajectoryView
  \/ ExecuteBaseTrajectoryView \/ ExecuteHeadTrajectoryView
  \/ BaseUpdate \/ HeadUpdate
  \/ \E f \in Moving : NoticeEnd(f) \/ SendProgress(f) \/ NoRoomForProgress(f)
  \/ \E h \in Handlers : SendReply(h) \/ Cancel(h)
  \/ OnOtherEndStarted

Spec == Init /\ [][Next]_vars

\* loop() runs the controllers and the handlers again and again, and the output
\* stream finds room for a reply that keeps being tried.
Fairness ==
  /\ WF_vars(BaseUpdate) /\ WF_vars(HeadUpdate)
  /\ \A f \in Moving : WF_vars(NoticeEnd(f) \/ SendProgress(f))
  /\ \A f \in Moving : SF_vars(SendReply(<<"execute", f>>) /\ sent' # NoReply)

FairSpec == Spec /\ Fairness

-----------------------------------------------------------------------------
Results == {"success", "unavailable", "malformed", "doesNotExist"}

\* Every variable has its type and no trajectory has more waypoints than fit.
TypeOK ==
  /\ store \in [Places -> [ok : BOOLEAN, parts : Seq(Places), times : Seq(Int), loop : Int]]
  /\ \A p \in Places : Len(store[p].times) <= MaxWaypoints
  /\ handlers \in [Handlers -> [running : BOOLEAN, request : Requests \cup {NoRequest},
                                state : {"processing", "sendingReply", "waiting", "sendingProgress"},
                                result : Results, about : Requests \cup {NoRequest}, cancelled : BOOLEAN]]
  /\ controllers \in [Moving -> [started : BOOLEAN, view : Views \cup {NoPlace}, time : 0 .. Horizon]]
  /\ halted \in {"no", "assert", "overflow"} /\ taken \in 0 .. MaxRequests
  /\ replaced \in BOOLEAN /\ changed \in [Moving -> BOOLEAN]

Executes(f) ==
  /\ handlers[<<"execute", f>>].running
  /\ handlers[<<"execute", f>>].state \in {"waiting", "sendingProgress"}

\* Everything that an object of the store refers to is there, and so is the view
\* that a controller follows, whatever is created over it.
NoDangling ==
  /\ \A p \in Places : store[p].ok => \A i \in DOMAIN store[p].parts : store[store[p].parts[i]].ok
  /\ \A f \in Moving : controllers[f].view # NoPlace => store[controllers[f].view].ok

\* Waypoints are in the order of their times, whatever order they came in.
TrajectoriesSorted == \A p \in Places : IsSorted(store[p].times)

\* At any time the search gives a plain view the last waypoint that its lap has
\* reached, which the trajectory has.
WaypointReached ==
  \A p \in Views : \A t \in 0 .. Horizon :
    LET times == store[store[p].parts[1]].times
        loop == store[p].loop
    IN p.kind = "plain" /\ store[p].ok /\ times # << >> =>
         /\ WaypointIndex(times, loop, t) \in 0 .. Len(times) - 1
         /\ LapDuration(times, loop) > 0 =>
              WaypointIndex(times, loop, t) = LastAtOrBefore(times, TimeInLap(times, loop, t))

\* Views do not refer to themselves, and evaluating them returns, as long as no
\* view that combines others is created again in its slot.
AcyclicUnlessReplaced ==
  ~replaced => \A v \in Views : store[v].ok => "overflow" \notin StateFails(v)

\* While an execution goes on its controller has the view that was requested. When
\* the controller has stopped by itself the handler will find the trajectory
\* finished, unless something was created in the meantime.
StopIsNoticed ==
  \A f \in Moving : Executes(f) =>
    /\ controllers[f].view = handlers[<<"execute", f>>].request.view
    /\ ~controllers[f].started /\ ~changed[f] /\ halted = "no" => Finished(f)

\* A reply to a creation is about that request, and success means that the slot
\* holds what it asked for. A handler that was cancelled while its reply waited
\* for room is excepted: it answers the next request with that reply.
CreateRepliesTruly ==
  LET r == sent.request IN
  sent.handler \in CreateHandlers /\ ~sent.cancelled =>
    /\ sent.about = r
    /\ sent.result = "success" =>
         LET object == store[Target(r)] IN
         object.ok /\ object.parts = r.parts /\ object.times = Inserted(r.times)

\* An execution of a view that does not loop ends, if nothing is created while it
\* goes on.
ExecutionEnds ==
  \A f \in Moving :
    Executes(f) ~> \/ ~Executes(f) \/ changed[f] \/ halted # "no"
                   \/ Timing(controllers[f].view).loops
=============================================================================
