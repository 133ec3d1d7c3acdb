------------------------------ MODULE TimeSync ------------------------------
(***************************************************************************)
(* Clock synchronisation: the state machine of TimeSyncClient on the Linux *)
(* computer, the GPIO library's thread that reports the loopback of the    *)
(* edge, the thread that dispatches replies, and SyncTimeActionHandler on  *)
(* the robot with its edge interrupt.                                      *)
(*                                                                         *)
(* Requests and cancellations are guaranteed and ordered; a reply may be   *)
(* lost. Other programs use the same output streams, so NewPacket() may    *)
(* find no room at any time. The times that Run() compares with its limits *)
(* are left open: each deadline may have passed or not, in any order with  *)
(* what the other threads do.                                              *)
(***************************************************************************)
EXTENDS Integers, Sequences

CONSTANTS
  MaxAttempts,  \* kMaxNumSyncEdgeRetriesBeforFailure
  Interval,     \* host time from one edge to the next
  Skews,        \* robot time minus host time, as it may be at an edge
  MaxSyncs,     \* bound: calls of RequestTimeSync()
  QueueBound    \* bound: packets of this action on their way to the robot

ASSUME TimeSyncAssumption ==
  /\ MaxAttempts \in Nat \ {0} /\ MaxSyncs \in Nat /\ QueueBound \in Nat \ {0}
  /\ Skews \subseteq Int /\ Interval \in Nat

VARIABLES
  state,      \* TimeSyncClient's state_, its busy wait and its unlocked read included
  attempts,   \* num_sync_attempts_
  requested,  \* sync_requested_
  status,     \* last_sync_status_
  edges,      \* rising edges so far; the last one is what the client estimated
  loopbacks,  \* calls of EdgeLoopbackCallback() that are still to come
  detected,   \* last_edge_detect_local_timestamp_ns_ is set
  action,     \* the client's action handler: waiting for a response, request id
  reply,      \* reply_
  read,       \* maybe_reply
  hostOffset, \* global_offset_nanoseconds_ of the host's timer
  toRobot,    \* requests and cancellations sent
  inbox,      \* those in the robot's input stream, with their reception
  toHost,     \* replies sent
  heard,      \* the host has noticed that the robot started
  irq,        \* the edge interrupt: off, on, masked
  latched,    \* an edge came while the interrupt was masked
  captured,   \* the robot's last_edge_detect_local_timestamp_ns_
  running,    \* the request the robot's handler is running
  robotOffset,\* global_offset_nanoseconds_ of the robot's timer
  syncs       \* calls of RequestTimeSync() so far

clientVars == <<state, attempts, requested, status, read, hostOffset, syncs>>
threadVars == <<loopbacks, detected, action, reply>>
linkVars == <<toRobot, inbox, toHost, heard>>
edgeVars == <<edges, irq, latched, captured>>
handlerVars == <<running, robotOffset>>
vars == <<clientVars, threadVars, linkVars, edgeVars, handlerVars>>

None == [id |-> 0, stamp |-> 0]
NoEdge == [set |-> FALSE, stamp |-> 0]

\* The host's time of the k-th edge, as the client estimates it.
HostStamp(k) == k * Interval

-----------------------------------------------------------------------------
(* The edge. The robot's interrupt handler runs at once, on any rising edge. *)

\* NotifyEdgeDetected() at host time t. What is in the input stream by now was
\* received before this edge.
Capture(t, skew) ==
  /\ captured' = [set |-> TRUE, stamp |-> t + skew]
  /\ inbox' = [i \in DOMAIN inbox |-> [inbox[i] EXCEPT !.beforeEdge = TRUE]]

\* The pin rises.
RaisePin ==
  /\ edges' = edges + 1
  /\ loopbacks' = loopbacks + 1
  /\ \/ irq = "on" /\ (\E skew \in Skews : Capture(HostStamp(edges'), skew)) /\ UNCHANGED latched
     \/ irq = "masked" /\ latched' = TRUE /\ UNCHANGED <<captured, inbox>>
     \/ irq = "off" /\ UNCHANGED <<latched, captured, inbox>>

\* EdgeLoopbackCallback(), on the library's thread.
EdgeLoopbackCallback ==
  /\ loopbacks > 0
  /\ loopbacks' = loopbacks - 1
  /\ detected' = TRUE
  /\ UNCHANGED <<clientVars, action, reply, linkVars, edgeVars, handlerVars>>

-----------------------------------------------------------------------------
(* TimeSyncClient.                                                          *)

Goto(s) == state' = s /\ UNCHANGED <<attempts, requested, status, read, hostOffset, syncs>>

\* RequestTimeSync(), from any thread.
RequestTimeSync ==
  /\ syncs < MaxSyncs
  /\ syncs' = syncs + 1
  /\ requested' = TRUE
  /\ UNCHANGED <<state, attempts, status, read, hostOffset, threadVars, linkVars, edgeVars, handlerVars>>

\* The synchronisation ends.
Ends(result) ==
  /\ requested' = FALSE /\ state' = "idle" /\ status' = result
  /\ UNCHANGED <<attempts, syncs>>

\* kWarmup
WarmedUp ==
  /\ state = "warmup"
  /\ Goto("idle")
  /\ UNCHANGED <<threadVars, linkVars, edgeVars, handlerVars>>

\* kIdle
StartSync ==
  /\ state = "idle" /\ requested
  /\ attempts' = 0 /\ state' = "generate" /\ status' = "inProgress"
  /\ UNCHANGED <<requested, read, hostOffset, syncs, threadVars, linkVars, edgeVars, handlerVars>>

\* kGenerateSyncEdgeAndWaitForLoopback, up to the busy wait.
GenerateSyncEdge ==
  /\ state = "generate"
  /\ attempts' = attempts + 1
  /\ attempts' <= MaxAttempts
  /\ detected' = FALSE
  /\ RaisePin
  /\ state' = "loopback"
  /\ UNCHANGED <<requested, status, read, hostOffset, syncs, action, reply, toRobot, toHost, heard,
                 irq, handlerVars>>

TooManyAttempts ==
  /\ state = "generate"
  /\ attempts + 1 > MaxAttempts
  /\ Ends("error")
  /\ UNCHANGED <<read, hostOffset, threadVars, linkVars, edgeVars, handlerVars>>

\* The busy wait ends: the edge was detected in time, or not.
LoopbackDetected ==
  /\ state = "loopback" /\ detected
  /\ Goto("send")
  /\ UNCHANGED <<threadVars, linkVars, edgeVars, handlerVars>>

LoopbackLate ==
  /\ state = "loopback"
  /\ Goto("regenerate")
  /\ UNCHANGED <<threadVars, linkVars, edgeVars, handlerVars>>

\* kWaitToRegenerateSyncEdge
Regenerate ==
  /\ state = "regenerate"
  /\ Goto("generate")
  /\ UNCHANGED <<threadVars, linkVars, edgeVars, handlerVars>>

\* Fault: one packet more than there is room for.
HasRoomLate == Len(toRobot) <= QueueBound

\* NewPacket() finds room.
HasRoom == Len(toRobot) < QueueBound

\* Fault: ResetReply() is not called.
SendRequestOnly ==
  LET id == action.id + 1 IN
  /\ state = "send"
  /\ ~action.waiting /\ HasRoom
  /\ toRobot' = Append(toRobot, [stage |-> "request", id |-> id, stamp |-> HostStamp(edges)])
  /\ action' = [waiting |-> TRUE, id |-> id]
  /\ Goto("waitReply")
  /\ UNCHANGED <<loopbacks, detected, reply, inbox, toHost, heard, edgeVars, handlerVars>>

\* kSendTimeSyncRequest: Request() sends the request.
SendRequest ==
  LET id == action.id + 1 IN
  /\ state = "send"
  /\ ~action.waiting /\ HasRoom
  /\ toRobot' = Append(toRobot, [stage |-> "request", id |-> id, stamp |-> HostStamp(edges)])
  /\ action' = [waiting |-> TRUE, id |-> id]
  /\ Goto("sent")
  /\ UNCHANGED <<loopbacks, detected, reply, inbox, toHost, heard, edgeVars, handlerVars>>

\* ResetReply() after a request that was sent.
ResetReply ==
  /\ state = "sent"
  /\ reply' = None
  /\ Goto("waitReply")
  /\ UNCHANGED <<loopbacks, detected, action, linkVars, edgeVars, handlerVars>>

\* Fault: the deadline of the request is not checked.
RequestNeverTooLate == FALSE

\* Request() keeps failing, because the action is in progress or there is no
\* room, until kMaxTimeSyncRequestDelayNs after the edge.
RequestTooLate ==
  /\ state = "send"
  /\ Ends("error")
  /\ UNCHANGED <<read, hostOffset, threadVars, linkVars, edgeVars, handlerVars>>

\* kWaitForTimeSyncReply, kMaxTimeSyncReplyDelayNs after the request. Cancel()
\* does nothing when the action is not in progress or there is no room.
ReplyTooLate ==
  /\ state = "waitReply"
  /\ Goto("generate")
  /\ \/ /\ action.waiting /\ HasRoom
        /\ toRobot' = Append(toRobot, [stage |-> "cancel", id |-> action.id, stamp |-> 0])
        /\ action' = [action EXCEPT !.waiting = FALSE]
     \/ UNCHANGED <<toRobot, action>>
  /\ UNCHANGED <<loopbacks, detected, reply, inbox, toHost, heard, edgeVars, handlerVars>>

\* kWaitForTimeSyncReply: a copy of the reply is taken under the mutex...
ReadReply ==
  /\ state = "waitReply"
  /\ read' = reply
  /\ state' = "replyRead"
  /\ UNCHANGED <<attempts, requested, status, hostOffset, syncs, threadVars, linkVars, edgeVars, handlerVars>>

\* ...then the original is looked at, without it.
NoReplyYet ==
  /\ state = "replyRead" /\ reply = None
  /\ Goto("waitReply")
  /\ UNCHANGED <<threadVars, linkVars, edgeVars, handlerVars>>

\* What may be found in a copy that holds no reply.
Garbage == {0, HostStamp(edges) + Interval}

UseReply ==
  /\ state = "replyRead" /\ reply # None
  /\ \E remote \in IF read = None THEN Garbage ELSE {read.stamp} :
       hostOffset' = IF remote >= HostStamp(edges) THEN remote - HostStamp(edges) ELSE hostOffset
  /\ Ends("ok")
  /\ UNCHANGED <<read, threadVars, linkVars, edgeVars, handlerVars>>

\* Fault: the handler's OnReply() does not call the base class's.
HandlerStaysBusy(a) == a

\* P2PActionClientHandlerBase::OnReply()
HandlerOnReply(a) == [a EXCEPT !.waiting = FALSE]

\* P2PActionClient::Run() on its thread: a reply to the last request ends the
\* action and is stored by the callback, any other is dropped.
OnReply ==
  /\ toHost # << >>
  /\ toHost' = Tail(toHost)
  /\ IF Head(toHost).id = action.id
     THEN action' = HandlerOnReply(action) /\ reply' = Head(toHost)
     ELSE UNCHANGED <<action, reply>>
  /\ UNCHANGED <<clientVars, loopbacks, detected, toRobot, inbox, heard, edgeVars, handlerVars>>

\* P2PActionClient::OnOtherEndStarted()
OnOtherEndStarted ==
  /\ irq # "off" /\ ~heard
  /\ heard' = TRUE
  /\ action' = [action EXCEPT !.waiting = FALSE]
  /\ UNCHANGED <<clientVars, loopbacks, detected, reply, toRobot, inbox, toHost, edgeVars, handlerVars>>

-----------------------------------------------------------------------------
(* The robot.                                                               *)

\* SyncTimeActionHandler::Init()
InitHandler ==
  /\ irq = "off"
  /\ irq' = "on"
  /\ captured' = NoEdge
  /\ UNCHANGED <<clientVars, threadVars, linkVars, edges, latched, handlerVars>>

\* The input stream receives the next packet.
Receive ==
  /\ heard /\ toRobot # << >>
  /\ toRobot' = Tail(toRobot)
  /\ inbox' = Append(inbox, [packet |-> Head(toRobot), beforeEdge |-> FALSE])
  /\ UNCHANGED <<clientVars, threadVars, toHost, heard, edgeVars, handlerVars>>

Consume == inbox' = Tail(inbox)

\* OnRequest() returns false. The interrupt is enabled again, and if an edge
\* is pending it is captured now, some time after it rose.
Rejects == ~captured.set \/ Head(inbox).beforeEdge
RejectRequest ==
  /\ inbox # << >> /\ Head(inbox).packet.stage = "request" /\ running = None
  /\ Rejects
  /\ irq' = "on" /\ latched' = FALSE
  /\ IF latched
     THEN /\ \E skew \in Skews :
               captured' = [set |-> TRUE, stamp |-> HostStamp(edges) + Interval \div 2 + skew]
          /\ inbox' = [i \in DOMAIN Tail(inbox) |-> [Tail(inbox)[i] EXCEPT !.beforeEdge = TRUE]]
     ELSE Consume /\ UNCHANGED captured
  /\ UNCHANGED <<clientVars, threadVars, toRobot, toHost, heard, edges, handlerVars>>

\* Fault: the interrupt stays masked after the reply.
KeepMasked == "masked"

\* The interrupt after Run() has sent the reply, pending edges forgotten.
Rearm == "on"

\* Run() finds room: the reply is sent, without guaranteed delivery.
Reply(request) ==
  /\ toHost' = Append(toHost, [id |-> request.id, stamp |-> captured.stamp])
  /\ captured' = NoEdge
  /\ latched' = FALSE
  /\ irq' = Rearm
  /\ running' = None

\* OnRequest() returns true, then Run() for the first time.
AcceptRequest ==
  LET request == Head(inbox).packet IN
  /\ inbox # << >> /\ request.stage = "request" /\ running = None
  /\ ~Rejects
  /\ robotOffset' = IF request.stamp > captured.stamp
                    THEN request.stamp - captured.stamp ELSE robotOffset
  /\ Consume
  /\ \/ Reply(request)
     \/ running' = [id |-> request.id, stamp |-> request.stamp] /\ irq' = "masked" /\ UNCHANGED <<toHost, captured, latched>>
  /\ UNCHANGED <<clientVars, threadVars, toRobot, heard, edges>>

\* Run() of a running handler finds room; when it does not nothing changes.
RunHandler ==
  /\ running # None
  /\ Reply(running)
  /\ UNCHANGED <<clientVars, threadVars, toRobot, inbox, heard, edges, robotOffset>>

\* A request while the handler runs is dropped.
DropRequest ==
  /\ inbox # << >> /\ Head(inbox).packet.stage = "request" /\ running # None
  /\ Consume
  /\ UNCHANGED <<clientVars, threadVars, toRobot, toHost, heard, edgeVars, handlerVars>>

\* The handler has no OnCancel().
CancelRequest ==
  /\ inbox # << >> /\ Head(inbox).packet.stage = "cancel"
  /\ Consume
  /\ running' = None
  /\ UNCHANGED <<clientVars, threadVars, toRobot, toHost, heard, edgeVars, robotOffset>>

LoseReply ==
  /\ toHost # << >>
  /\ toHost' = Tail(toHost)
  /\ UNCHANGED <<clientVars, threadVars, toRobot, inbox, heard, edgeVars, handlerVars>>

-----------------------------------------------------------------------------
Init ==
  /\ state = "warmup" /\ attempts = 0 /\ requested = FALSE /\ status = "notAttempted"
  /\ edges = 0 /\ loopbacks = 0 /\ detected = FALSE
  /\ action = [waiting |-> FALSE, id |-> 0] /\ reply = None /\ read = None
  /\ hostOffset = 0 /\ robotOffset = 0
  /\ toRobot = << >> /\ inbox = << >> /\ toHost = << >> /\ heard = FALSE
  /\ irq = "off" /\ latched = FALSE /\ captured = NoEdge /\ running = None
  /\ syncs = 0

\* Steps of TimeSyncClient::Run().
ClientRun ==
  \/ WarmedUp \/ StartSync \/ GenerateSyncEdge \/ TooManyAttempts
  \/ LoopbackDetected \/ LoopbackLate \/ Regenerate
  \/ SendRequest \/ ResetReply \/ RequestTooLate
  \/ ReplyTooLate \/ ReadReply \/ NoReplyYet \/ UseReply

RobotRun ==
  \/ InitHandler \/ Receive \/ RejectRequest \/ AcceptRequest \/ RunHandler
  \/ DropRequest \/ CancelRequest

Next ==
  \/ RequestTimeSync \/ ClientRun \/ EdgeLoopbackCallback \/ OnReply \/ OnOtherEndStarted
  \/ RobotRun \/ LoseReply

Spec == Init /\ [][Next]_vars

\* Run() is called again and again on both computers and every deadline passes
\* if nothing else happens first. Nothing is assumed about room in the output
\* streams: RequestTooLate covers the request, and RunHandler is not assumed.
FairSpec ==
  /\ Spec
  /\ WF_vars(WarmedUp) /\ WF_vars(StartSync) /\ WF_vars(GenerateSyncEdge)
  /\ WF_vars(TooManyAttempts) /\ WF_vars(LoopbackLate) /\ WF_vars(Regenerate)
  /\ WF_vars(RequestTooLate) /\ WF_vars(ResetReply) /\ SF_vars(ReplyTooLate)
  /\ WF_vars(NoReplyYet) /\ WF_vars(UseReply)
  /\ WF_vars(OnReply) /\ WF_vars(OnOtherEndStarted)
  /\ WF_vars(InitHandler) /\ WF_vars(Receive) /\ WF_vars(RejectRequest)
  /\ WF_vars(DropRequest) /\ WF_vars(CancelRequest)

-----------------------------------------------------------------------------
Stamps == [id : Nat, stamp : Int]

\* Every variable has its type and the packets fit their queue.
TypeOK ==
  /\ state \in {"warmup", "idle", "generate", "loopback", "regenerate", "send", "sent",
                "waitReply", "replyRead"}
  /\ attempts \in 0 .. MaxAttempts /\ requested \in BOOLEAN
  /\ status \in {"notAttempted", "inProgress", "ok", "error"}
  /\ edges \in Nat /\ loopbacks \in Nat /\ detected \in BOOLEAN
  /\ action \in [waiting : BOOLEAN, id : Nat]
  /\ reply \in Stamps /\ read \in Stamps /\ running \in Stamps
  /\ hostOffset \in Nat /\ robotOffset \in Nat
  /\ toRobot \in Seq([stage : {"request", "cancel"}, id : Nat, stamp : Int])
  /\ Len(toRobot) <= QueueBound
  /\ inbox \in Seq([packet : [stage : {"request", "cancel"}, id : Nat, stamp : Int],
                     beforeEdge : BOOLEAN])
  /\ toHost \in Seq(Stamps)
  /\ heard \in BOOLEAN /\ irq \in {"off", "on", "masked"} /\ latched \in BOOLEAN
  /\ captured \in [set : BOOLEAN, stamp : Int]
  /\ syncs \in 0 .. MaxSyncs

\* The reply the client finds while it waits is the one to its last request:
\* none that was stored for an earlier one outlives ResetReply(), whenever the
\* other thread stores it.
StoredReplyIsCurrent ==
  state \in {"waitReply", "replyRead"} /\ reply # None => reply.id = action.id

\* A synchronisation that ends well leaves its action ended: the next one is
\* not refused because a request is in progress.
OkLeavesNothingBehind == state = "idle" /\ status = "ok" => ~action.waiting

\* The robot does not keep its edge interrupt masked without having an edge to
\* answer the next request with; it would reject requests for ever.
MaskedOnlyWithEdge == irq = "masked" => captured.set

\* A synchronisation that was requested ends, well or not, whatever the robot,
\* the link and the other programs do. It does so too if no loopback ever comes in time, of
\* which time_sync_client.cpp:18-20 says that the client "will keep trying ad infinitum"; the
\* code gives up after kMaxNumSyncEdgeRetriesBeforFailure attempts, as line 27 says.
SyncEnds == requested ~> ~requested
=============================================================================
