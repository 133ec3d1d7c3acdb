--------------------------- MODULE ActionExchange ---------------------------
(***************************************************************************)
(* The client of actions on the Linux computer (P2PActionClient), their    *)
(* server on the robot (P2PActionServer), three of its handlers and the    *)
(* trajectory controller that one of them drives.                          *)
(*                                                                         *)
(* The packet streams between them are queues, one per direction and       *)
(* priority, as PacketStream promises (ReliableChannel): what was sent     *)
(* with guaranteed delivery arrives once and in order, the rest may be     *)
(* lost. The receiver may see a lower priority before a higher one that is *)
(* still on its way. Requests, cancellations and replies are sent with     *)
(* guaranteed delivery, progress updates are not. Client handlers do not   *)
(* allow concurrent requests. Request ids do not wrap.                     *)
(***************************************************************************)
EXTENDS Integers, Sequences, FiniteSets

CONSTANTS
  Order,       \* the actions in the order of P2PAction, a sequence
  PriorityOf,  \* the priority each action's client handler sends at
  Updates,     \* values of max_updates that programs request
  QueueBound,  \* bound: packets on their way in one direction and priority
  MaxCalls,    \* bound: calls of Request()
  MaxStarts    \* bound: times each computer is started, a record

Actions == {Order[i] : i \in DOMAIN Order}
Priorities == {PriorityOf[a] : a \in Actions}

ASSUME ActionsAssumption ==
  /\ Order \in Seq({"monitor", "create", "execute"})
  /\ \A i, j \in DOMAIN Order : i # j => Order[i] # Order[j]
  /\ PriorityOf \in [Actions -> Nat]
ASSUME BoundsAssumption ==
  /\ Updates \subseteq Nat /\ Updates # {}
  /\ QueueBound \in Nat \ {0} /\ MaxCalls \in Nat
  /\ MaxStarts \in [{"host", "robot"} -> Nat \ {0}]

VARIABLES
  client,      \* per action: state_, current_request_id_ and whose callbacks
  toRobot,     \* per priority: requests and cancellations not yet consumed
  toHost,      \* per priority: replies and progress updates not yet consumed
  starts,      \* how often each computer was started
  unheard,     \* the computers whose last start the other has not noticed
  handler,     \* per action: the server's handler
  controller,  \* the trajectory controller of "execute"
  turn,        \* where the server's Run() is: handlers 1 .. Len(Order), packet
  calls,       \* calls of Request() so far; their numbers identify them
  dispatched   \* what reply callbacks were given

linkVars == <<toRobot, toHost, starts, unheard>>
robotVars == <<handler, controller, turn>>
hostVars == <<client, calls, dispatched>>
vars == <<linkVars, robotVars, hostVars>>

-----------------------------------------------------------------------------
(* Packets. `call` and `start` tell which call of Request() and which start  *)
(* of the sender a packet belongs to, `about` the request a reply reports    *)
(* on; none of the three is sent.                                            *)

RequestPacket(a, id, call, updates) ==
  [stage |-> "request", action |-> a, id |-> id, call |-> call,
   updates |-> updates, start |-> starts["host"]]

CancelPacket(a) ==
  [stage |-> "cancel", action |-> a, id |-> client[a].id, call |-> client[a].call,
   updates |-> 0, start |-> starts["host"]]

ResponsePacket(stage, a, h) ==
  [stage |-> stage, action |-> a, id |-> h.id, call |-> h.call, about |-> h.about,
   start |-> starts["robot"]]

\* Fault: one packet more than there is room for.
HasRoomLate(queue) == Len(queue) <= QueueBound

\* NewPacket() finds room.
HasRoom(queue) == Len(queue) < QueueBound

\* The receiver may have accepted the first n packets of the queue: none before
\* its own start was noticed, and of a start of the sender that it has not
\* noticed none either.
MayBeAccepted(queue, n, sender, receiver) ==
  n > 0 =>
    /\ receiver \notin unheard
    /\ sender \in unheard => \A i \in 1 .. n : queue[i].start # starts[sender]

\* The priorities at which there is a packet to take.
Arrived(queues, sender, receiver) ==
  {p \in Priorities : queues[p] # << >> /\ MayBeAccepted(queues[p], 1, sender, receiver)}

-----------------------------------------------------------------------------
(* The client. Programs call from any thread; the mutex makes every call and *)
(* every Run() a step. `call` is the last request that was sent, `callback`  *)
(* the call of Request() whose callbacks and last_request_ are installed.    *)

IdleClient == [state |-> "idle", id |-> 0, call |-> 0, callback |-> 0]

\* Request(): the packet is committed.
Request(a) ==
  LET p == PriorityOf[a]
      id == client[a].id + 1
      call == calls + 1 IN
  /\ calls < MaxCalls
  /\ client[a].state = "idle"
  /\ HasRoom(toRobot[p])
  /\ \E updates \in IF a = "monitor" THEN Updates ELSE {1} :
       toRobot' = [toRobot EXCEPT ![p] = Append(@, RequestPacket(a, id, call, updates))]
  /\ client' = [client EXCEPT ![a] =
                  [state |-> "waiting", id |-> id, call |-> call, callback |-> call]]
  /\ calls' = call
  /\ UNCHANGED <<toHost, starts, unheard, robotVars, dispatched>>

\* Request(): refused, because the action is in progress or the output stream
\* has no room, but the callbacks are those of the refused call by then.
RequestRefused(a) ==
  /\ calls < MaxCalls
  /\ calls' = calls + 1
  /\ client' = [client EXCEPT ![a].callback = calls + 1]
  /\ UNCHANGED <<linkVars, robotVars, dispatched>>

\* Cancel(); when there is no room nothing changes.
Cancel(a) ==
  LET p == PriorityOf[a] IN
  /\ client[a].state = "waiting"
  /\ HasRoom(toRobot[p])
  /\ toRobot' = [toRobot EXCEPT ![p] = Append(@, CancelPacket(a))]
  /\ client' = [client EXCEPT ![a].state = "idle"]
  /\ UNCHANGED <<toHost, starts, unheard, robotVars, calls, dispatched>>

\* P2PActionClient::Run(). Packets with an old request id are dropped; a reply
\* ends the action and is handed to the callback.
ClientRun ==
  /\ \E p \in Arrived(toHost, "robot", "host") :
       LET pkt == Head(toHost[p])
           a == pkt.action IN
       /\ toHost' = [toHost EXCEPT ![p] = Tail(@)]
       /\ IF pkt.stage = "reply" /\ pkt.id = client[a].id
          THEN /\ client' = [client EXCEPT ![a].state = "idle"]
               /\ dispatched' = dispatched \cup
                    {[action |-> a, callback |-> client[a].callback,
                      call |-> pkt.call, about |-> pkt.about]}
          ELSE UNCHANGED <<client, dispatched>>
  /\ UNCHANGED <<toRobot, starts, unheard, robotVars, calls>>

-----------------------------------------------------------------------------
(* The handlers. A handler is the record of P2PActionHandlerBase's run_state,*)
(* request id and request, and of the subclass's own state. `sent` counts the*)
(* messages sent for the current request. HandlerRun gives the handler after *)
(* Run(), what it sent, whether Run() returned true, and whether it started  *)
(* the controller. `o` is what it found: room in the output stream, that the *)
(* time for the next update has come, that the view to execute exists.       *)

NewHandler(a) ==
  [running |-> FALSE, id |-> 0, call |-> 0, updates |-> 0, start |-> 0, sent |-> 0,
   about |-> 0, remaining |-> 0, state |-> IF a = "monitor" THEN "receive" ELSE "processing"]

Outcome == [room : BOOLEAN, due : BOOLEAN, exists : BOOLEAN]

Goes(h, state) ==
  [h |-> [h EXCEPT !.state = state], message |-> "none", more |-> TRUE, starts |-> FALSE]

\* Fault: Run() returns false when there is no room for the reply.
TryReplyOnce(h, o, ready) ==
  [h |-> [h EXCEPT !.state = ready, !.remaining = 0],
   message |-> IF o.room THEN "reply" ELSE "none", more |-> FALSE, starts |-> FALSE]

\* Fault: Run() returns true when the reply is sent.
TryReplyAgain(h, o, ready) ==
  [h |-> [h EXCEPT !.state = ready, !.remaining = 0],
   message |-> IF o.room THEN "reply" ELSE "none", more |-> TRUE, starts |-> FALSE]

\* TrySendingReply(), and the state it leaves when there is no room.
TryReply(h, o, ready) ==
  IF o.room
  THEN [h |-> [h EXCEPT !.state = ready, !.remaining = 0],
        message |-> "reply", more |-> FALSE, starts |-> FALSE]
  ELSE Goes(h, "sendingReply")

\* TrySendingProgress(). num_remaining_messages_ counts down from 0 for ever if
\* the number of updates is not limited; below 0 it is all one.
TryProgress(h, o) ==
  IF o.room
  THEN [h |-> [h EXCEPT !.state = "wait", !.remaining = IF @ > 0 THEN @ - 1 ELSE -1],
        message |-> "progress", more |-> TRUE, starts |-> FALSE]
  ELSE Goes(h, "sendingProgress")

\* MonitorBaseStateActionHandler::Run()
MonitorNext(h, o) == IF h.remaining = 1 THEN TryReply(h, o, "receive") ELSE TryProgress(h, o)
MonitorRun(h, o) ==
  CASE h.state = "receive" ->
         MonitorNext([h EXCEPT !.remaining = h.updates, !.about = h.call], o)
    [] h.state = "wait" -> IF o.due THEN MonitorNext(h, o) ELSE Goes(h, "wait")
    [] h.state = "sendingReply" -> TryReply(h, o, "receive")
    [] h.state = "sendingProgress" -> TryProgress(h, o)

\* CreateBaseTrajectoryActionHandler::Run(): result_ is that of the request
\* whose trajectory was created.
CreateRun(h, o) ==
  CASE h.state = "processing" -> TryReply([h EXCEPT !.about = h.call], o, "processing")
    [] h.state = "sendingReply" -> TryReply(h, o, "processing")

\* ExecuteBaseTrajectoryViewActionHandler::Run()
ExecuteRun(h, o) ==
  CASE h.state = "processing" /\ o.exists ->
         [Goes([h EXCEPT !.about = h.call], "wait") EXCEPT !.starts = TRUE]
    [] h.state = "processing" /\ ~o.exists ->
         TryReply([h EXCEPT !.about = h.call], o, "processing")
    [] h.state = "wait" /\ controller.finished -> TryReply(h, o, "processing")
    [] h.state = "wait" /\ ~controller.finished ->
         IF o.due THEN TryProgress(h, o) ELSE Goes(h, "wait")
    [] h.state = "sendingReply" -> TryReply(h, o, "processing")
    [] h.state = "sendingProgress" -> TryProgress(h, o)

HandlerRun(a, h, o) ==
  CASE a = "monitor" -> MonitorRun(h, o)
    [] a = "create" -> CreateRun(h, o)
    [] a = "execute" -> ExecuteRun(h, o)

\* Fault: no handler starts from a known state.
OnRequestResumes(a, h) == h

\* OnRequest(): only "execute" starts from a known state.
OnRequest(a, h) == IF a = "execute" THEN [h EXCEPT !.state = "processing"] ELSE h

\* Fault: the controller is not stopped.
OnCancelGoesOn(a, c) == c

\* OnCancel(): only "execute" does anything, it stops the controller.
OnCancel(a, c) == IF a = "execute" THEN [c EXCEPT !.started = FALSE] ELSE c

Stopped == [started |-> FALSE, finished |-> FALSE]

\* After Start() no time has passed on the trajectory.
Started == [started |-> TRUE, finished |-> FALSE]

-----------------------------------------------------------------------------
(* The server. P2PActionServer::Run() runs every running handler in order,   *)
(* then takes one packet: the steps of `turn`. The rest of the robot's loop  *)
(* runs between the last and the first.                                      *)

PacketTurn == Len(Order) + 1

\* After Run() of handler a: what it sent goes to the output stream at the
\* priority of its request, and it goes on running if Run() returned true.
AfterRun(a, r) ==
  LET p == PriorityOf[a]
      sends == r.message # "none" IN
  /\ sends => HasRoom(toHost[p])
  /\ toHost' = IF sends
               THEN [toHost EXCEPT ![p] = Append(@, ResponsePacket(r.message, a, r.h))]
               ELSE toHost
  /\ handler' = [handler EXCEPT ![a] =
                   [r.h EXCEPT !.running = r.more,
                               !.sent = IF sends /\ @ <= r.h.updates THEN @ + 1 ELSE @]]
  /\ controller' = IF r.starts THEN Started ELSE controller

\* RunActions(), one handler of it.
RunHandler(o) ==
  /\ turn \in DOMAIN Order
  /\ turn' = turn + 1
  /\ LET a == Order[turn] IN
       \/ /\ handler[a].running
          /\ AfterRun(a, HandlerRun(a, handler[a], o))
       \/ /\ ~handler[a].running
          /\ UNCHANGED <<toHost, handler, controller>>
  /\ UNCHANGED <<toRobot, starts, unheard, hostVars>>

\* There is no packet, or none has arrived yet.
NoPacket ==
  /\ turn = PacketTurn
  /\ turn' = 1
  /\ UNCHANGED <<linkVars, handler, controller, hostVars>>

\* A request for an action that is not running.
StartAction(pkt, o) ==
  LET a == pkt.action
      h == OnRequest(a, [handler[a] EXCEPT !.id = pkt.id, !.call = pkt.call,
                                           !.updates = pkt.updates, !.sent = 0,
                                           !.start = pkt.start]) IN
  /\ pkt.stage = "request" /\ ~handler[a].running
  /\ AfterRun(a, HandlerRun(a, h, o))

\* A request for a running action is dropped.
DropRequest(pkt) ==
  /\ pkt.stage = "request" /\ handler[pkt.action].running
  /\ UNCHANGED <<toHost, handler, controller>>

\* A cancellation ends whatever request its action is running.
CancelAction(pkt) ==
  LET a == pkt.action IN
  /\ pkt.stage = "cancel"
  /\ IF handler[a].running
     THEN /\ handler' = [handler EXCEPT ![a].running = FALSE]
          /\ controller' = OnCancel(a, controller)
     ELSE UNCHANGED <<handler, controller>>
  /\ UNCHANGED toHost

TakePacket(p, o) ==
  /\ turn = PacketTurn
  /\ turn' = 1
  /\ p \in Arrived(toRobot, "host", "robot")
  /\ LET pkt == Head(toRobot[p]) IN
       StartAction(pkt, o) \/ DropRequest(pkt) \/ CancelAction(pkt)
  /\ toRobot' = [toRobot EXCEPT ![p] = Tail(@)]
  /\ UNCHANGED <<starts, unheard, hostVars>>

\* The controller's Run() finds that the trajectory is over and stops.
FinishTrajectory ==
  /\ turn = 1
  /\ controller.started
  /\ controller' = [started |-> FALSE, finished |-> TRUE]
  /\ UNCHANGED <<linkVars, handler, turn, hostVars>>

-----------------------------------------------------------------------------
(* Losses and restarts. A computer that starts announces it to the other one, *)
(* which drops the packets of its previous start when it notices.            *)

LoseProgress(p) ==
  /\ toHost[p] # << >>
  /\ Head(toHost[p]).stage = "progress"
  /\ toHost' = [toHost EXCEPT ![p] = Tail(@)]
  /\ UNCHANGED <<toRobot, starts, unheard, robotVars, hostVars>>

\* Ways to cut every queue in two after k[p] packets.
Cuts(queues) ==
  {k \in [Priorities -> 0 .. QueueBound] : \A p \in Priorities : k[p] <= Len(queues[p])}
Before(queues, k) == [p \in Priorities |-> SubSeq(queues[p], 1, k[p])]
After(queues, k) == [p \in Priorities |-> SubSeq(queues[p], k[p] + 1, Len(queues[p]))]

\* Fault: packets of earlier starts stay in the queues.
AnyStartAfter(queue, n, start) == TRUE

\* Behind the first n packets there are only those of one start, and the last of
\* the n is of an earlier one.
OneStartAfter(queue, n, start) == \A i \in n + 1 .. Len(queue) : queue[i].start = start
EarlierStartAt(queue, n, start) == n > 0 => queue[n].start # start

\* P2PActionServer::OnOtherEndStarted()
RobotNoticesHost ==
  /\ turn = 1
  /\ "host" \in unheard
  /\ unheard' = unheard \ {"host"}
  /\ \E k \in Cuts(toRobot) :
       /\ \A p \in Priorities : /\ OneStartAfter(toRobot[p], k[p], starts["host"])
                                /\ EarlierStartAt(toRobot[p], k[p], starts["host"])
       /\ toRobot' = After(toRobot, k)
  /\ handler' = [a \in Actions |-> [handler[a] EXCEPT !.running = FALSE]]
  /\ controller' = OnCancel("execute", controller)
  /\ UNCHANGED <<toHost, starts, turn, hostVars>>

\* P2PActionClient::OnOtherEndStarted()
HostNoticesRobot ==
  /\ "robot" \in unheard
  /\ unheard' = unheard \ {"robot"}
  /\ \E k \in Cuts(toHost) :
       /\ \A p \in Priorities : /\ OneStartAfter(toHost[p], k[p], starts["robot"])
                                /\ EarlierStartAt(toHost[p], k[p], starts["robot"])
       /\ toHost' = After(toHost, k)
  /\ client' = [a \in Actions |-> [client[a] EXCEPT !.state = "idle"]]
  /\ UNCHANGED <<toRobot, starts, robotVars, calls, dispatched>>

\* When the receiver restarts it loses what it had accepted, and whatever is of
\* an earlier start of the sender.
LostWithReceiver(queues, sender, receiver) ==
  {k \in Cuts(queues) : \A p \in Priorities :
     /\ OneStartAfter(queues[p], k[p], starts[sender])
     /\ \/ EarlierStartAt(queues[p], k[p], starts[sender])
        \/ MayBeAccepted(queues[p], k[p], sender, receiver)}

\* When the sender restarts only what the receiver had accepted is left.
LeftBySender(queues, sender, receiver) ==
  {k \in Cuts(queues) : \A p \in Priorities : MayBeAccepted(queues[p], k[p], sender, receiver)}

Restart(computer) ==
  /\ starts[computer] < MaxStarts[computer]
  /\ starts' = [starts EXCEPT ![computer] = @ + 1]
  /\ unheard' = unheard \cup {computer}

RobotRestart ==
  /\ Restart("robot")
  /\ \E k \in LostWithReceiver(toRobot, "host", "robot") : toRobot' = After(toRobot, k)
  /\ \E k \in LeftBySender(toHost, "robot", "host") : toHost' = Before(toHost, k)
  /\ handler' = [a \in Actions |-> NewHandler(a)]
  /\ controller' = Stopped
  /\ turn' = 1
  /\ UNCHANGED hostVars

HostRestart ==
  /\ Restart("host")
  /\ \E k \in LostWithReceiver(toHost, "robot", "host") : toHost' = After(toHost, k)
  /\ \E k \in LeftBySender(toRobot, "host", "robot") : toRobot' = Before(toRobot, k)
  /\ client' = [a \in Actions |-> IdleClient]
  /\ UNCHANGED <<robotVars, calls, dispatched>>

\* Both computers have just started.
Init ==
  /\ client = [a \in Actions |-> IdleClient]
  /\ toRobot = [p \in Priorities |-> << >>]
  /\ toHost = [p \in Priorities |-> << >>]
  /\ starts = [host |-> 1, robot |-> 1]
  /\ unheard = {"host", "robot"}
  /\ handler = [a \in Actions |-> NewHandler(a)]
  /\ controller = Stopped
  /\ turn = 1
  /\ calls = 0
  /\ dispatched = {}

Next ==
  \/ \E a \in Actions : Request(a) \/ RequestRefused(a) \/ Cancel(a)
  \/ ClientRun
  \/ \E o \in Outcome : RunHandler(o) \/ \E p \in Priorities : TakePacket(p, o)
  \/ NoPacket
  \/ FinishTrajectory
  \/ \E p \in Priorities : LoseProgress(p)
  \/ RobotNoticesHost \/ HostNoticesRobot
  \/ RobotRestart \/ HostRestart

\* The robot's loop and the client's Run() keep being called, starts are
\* announced until they are noticed, the output streams drain so that a handler
\* that keeps trying finds room, and a trajectory that is being followed comes
\* to its end.
Fairness ==
  /\ WF_vars(ClientRun) /\ WF_vars(HostNoticesRobot)
  /\ SF_vars(RobotNoticesHost) /\ SF_vars(FinishTrajectory)
  /\ WF_vars(NoPacket \/ \E o \in Outcome : RunHandler(o))
  /\ \A i \in DOMAIN Order :
       SF_vars(turn = i /\ RunHandler([room |-> TRUE, due |-> TRUE, exists |-> TRUE]))

Spec == Init /\ [][Next]_vars
FairSpec == Spec /\ Fairness

-----------------------------------------------------------------------------
(* Properties *)

FromHost == [stage : {"request", "cancel"}, action : Actions, id : Nat, call : Nat,
             updates : Nat, start : Nat]
FromRobot == [stage : {"reply", "progress"}, action : Actions, id : Nat, call : Nat,
              about : Nat, start : Nat]
States == {"receive", "processing", "wait", "sendingReply", "sendingProgress"}
Handler == [running : BOOLEAN, id : Nat, call : Nat, updates : Nat, start : Nat, sent : Nat,
            about : Nat, remaining : Int, state : States]
StatesOf(a) ==
  CASE a = "monitor" -> {"receive", "wait", "sendingReply", "sendingProgress"}
    [] a = "create" -> {"processing", "sendingReply"}
    [] a = "execute" -> {"processing", "wait", "sendingReply", "sendingProgress"}

TypeOK ==
  /\ client \in [Actions -> [state : {"idle", "waiting"}, id : Nat, call : Nat, callback : Nat]]
  /\ toRobot \in [Priorities -> Seq(FromHost)]
  /\ toHost \in [Priorities -> Seq(FromRobot)]
  /\ \A p \in Priorities : Len(toRobot[p]) <= QueueBound /\ Len(toHost[p]) <= QueueBound
  /\ starts \in [{"host", "robot"} -> Nat]
  /\ unheard \subseteq {"host", "robot"}
  /\ handler \in [Actions -> Handler] /\ \A a \in Actions : handler[a].state \in StatesOf(a)
  /\ controller \in [started : BOOLEAN, finished : BOOLEAN]
  /\ turn \in 1 .. PacketTurn
  /\ calls \in 0 .. MaxCalls

InQueue(queues, Test(_)) == \E p \in Priorities : \E k \in DOMAIN queues[p] : Test(queues[p][k])

\* The robot never follows a trajectory that nobody is waiting for: while the
\* controller is started the action that started it is running, whatever
\* cancellations, replies, requests and restarts cross each other.
NoMotionWithoutAction ==
  controller.started => "execute" \in Actions /\ handler["execute"].running

\* Once the robot has noticed that the host was started again, it runs nothing
\* for the host's previous start.
NothingRunsForPreviousStart ==
  "host" \notin unheard =>
    \A a \in Actions : handler[a].running => handler[a].start = starts["host"]

\* However requests, cancellations and restarts cross, a call of Request() is
\* answered at most once.
AnsweredAtMostOnce ==
  LET Replies(call) == {at \in Priorities \X (1 .. QueueBound) :
                          LET queue == toHost[at[1]] IN
                          /\ at[2] \in DOMAIN queue
                          /\ queue[at[2]].stage = "reply" /\ queue[at[2]].call = call}
  IN  \A call \in 1 .. MaxCalls :
        Cardinality(Replies(call)) + Cardinality({d \in dispatched : d.call = call}) <= 1

\* The reply of an executed trajectory tells the result of its own request,
\* also after one that was cancelled while its reply waited for room.
ExecuteReportsItsOwn ==
  ~InQueue(toHost, LAMBDA pkt : pkt.action = "execute" /\ pkt.about # pkt.call)

\* The client's in_progress() is "True if the action is being executed; false,
\* otherwise" (p2p_action_client.h:45): an action that a program waits for is
\* being executed, or its request or its reply is on its way.
InProgressIsReal ==
  \A a \in Actions : client[a].state = "waiting" =>
    \/ InQueue(toRobot, LAMBDA pkt : pkt.call = client[a].call)
    \/ handler[a].running /\ handler[a].call = client[a].call
    \/ InQueue(toHost, LAMBDA pkt : pkt.stage = "reply" /\ pkt.call = client[a].call)
    \/ "robot" \in unheard

\* "Maximum number of messages that can be sent back, including progress and
\* result. Once reached, the server sends a reply and the action ends"
\* (p2p_application_protocol.h:95).
MonitorWithinMaxUpdates ==
  "monitor" \in Actions /\ handler["monitor"].updates > 0 =>
    handler["monitor"].sent <= handler["monitor"].updates

\* A request that the robot has taken on is answered, unless its program
\* cancels it or either computer starts again.
TakenIsAnswered ==
  \A a \in Actions \ {"monitor"}, call \in 1 .. MaxCalls :
    LET Awaited == client[a].state = "waiting" /\ client[a].call = call IN
    Awaited /\ handler[a].running /\ handler[a].call = call ~> ~Awaited
=============================================================================
