--------------------------- MODULE TimeSyncProofs ---------------------------
(***************************************************************************)
(* What the synchronisation keeps true whatever the limits, the clocks and *)
(* the times at which requests, replies and edges arrive.                  *)
(***************************************************************************)
EXTENDS TimeSync, TLAPS

Packets == [stage : {"request", "cancel"}, id : Nat, stamp : Int]
Received == [packet : Packets, beforeEdge : BOOLEAN]

\* A reply that is stored while the client waits for it has ended the action.
StoredEnds == state \in {"waitReply", "replyRead"} /\ reply # None => ~action.waiting

\* The first synchronisation starts after the warm-up.
WarmupFirst == state = "warmup" => status = "notAttempted"

Replies == StoredReplyIsCurrent /\ StoredEnds /\ OkLeavesNothingBehind /\ WarmupFirst

IInv == TypeOK /\ Replies /\ MaskedOnlyWithEdge

\* The parts of the type invariant, as the steps change them.
ClientTypes ==
  /\ state \in {"warmup", "idle", "generate", "loopback", "regenerate", "send", "sent",
                "waitReply", "replyRead"}
  /\ attempts \in 0 .. MaxAttempts /\ requested \in BOOLEAN
  /\ status \in {"notAttempted", "inProgress", "ok", "error"}
  /\ read \in Stamps /\ hostOffset \in Nat /\ syncs \in 0 .. MaxSyncs
ThreadTypes ==
  /\ loopbacks \in Nat /\ detected \in BOOLEAN /\ action \in [waiting : BOOLEAN, id : Nat]
  /\ reply \in Stamps
LinkTypes ==
  /\ toRobot \in Seq(Packets) /\ Len(toRobot) <= QueueBound
  /\ inbox \in Seq(Received) /\ toHost \in Seq(Stamps) /\ heard \in BOOLEAN
EdgeTypes ==
  /\ edges \in Nat /\ irq \in {"off", "on", "masked"} /\ latched \in BOOLEAN
  /\ captured \in [set : BOOLEAN, stamp : Int]
HandlerTypes ==
  running \in Stamps /\ robotOffset \in Nat
Types == ClientTypes /\ ThreadTypes /\ LinkTypes /\ EdgeTypes /\ HandlerTypes

LEMMA TypeParts == TypeOK <=> Types
  BY DEF TypeOK, Types, ClientTypes, ThreadTypes, LinkTypes, EdgeTypes, HandlerTypes, Packets, Received

LEMMA TypesPrimed == TypeOK' <=> Types'
  BY DEF TypeOK, Types, ClientTypes, ThreadTypes, LinkTypes, EdgeTypes, HandlerTypes, Packets, Received

-----------------------------------------------------------------------------
(* Types.                                                                   *)

LEMMA Stamped ==
  ASSUME NEW k \in Nat
  PROVE  HostStamp(k) \in Int
  BY TimeSyncAssumption, SMT DEF HostStamp

\* An edge marks what is in the input stream and drops nothing.
LEMMA Marked ==
  ASSUME NEW q \in Seq(Received)
  PROVE  [i \in DOMAIN q |-> [q[i] EXCEPT !.beforeEdge = TRUE]] \in Seq(Received)
  <1>1. \A i \in DOMAIN q : [q[i] EXCEPT !.beforeEdge = TRUE] \in Received
    <2> SUFFICES ASSUME NEW i \in DOMAIN q
                 PROVE  [q[i] EXCEPT !.beforeEdge = TRUE] \in Received
      OBVIOUS
    <2>1. q[i] \in Received
      OBVIOUS
    <2> QED BY <2>1 DEF Received
  <1>2. DOMAIN q = 1 .. Len(q) /\ Len(q) \in Nat
    OBVIOUS
  <1> QED BY <1>1, <1>2

\* The head of a queue has its elements' type and the rest is a queue.
LEMMA Taken ==
  ASSUME NEW S, NEW q \in Seq(S), q # << >>
  PROVE  Head(q) \in S /\ Tail(q) \in Seq(S) /\ Len(Tail(q)) = Len(q) - 1
  OBVIOUS

\* A rising edge captures a whole number on the robot, or nothing.
LEMMA EdgeTyped ==
  ASSUME Types, RaisePin, UNCHANGED irq
  PROVE  /\ edges' \in Nat /\ loopbacks' \in Nat /\ latched' \in BOOLEAN
         /\ captured' \in [set : BOOLEAN, stamp : Int] /\ inbox' \in Seq(Received)
         /\ MaskedOnlyWithEdge => MaskedOnlyWithEdge'
  <1>1. edges' \in Nat /\ loopbacks' \in Nat
    BY DEF RaisePin, Types, ThreadTypes, EdgeTypes
  <1>2. inbox \in Seq(Received)
    BY DEF Types, LinkTypes
  <1>3. CASE irq = "on" /\ (\E skew \in Skews : Capture(HostStamp(edges'), skew)) /\ UNCHANGED latched
    <2>1. PICK skew \in Skews : Capture(HostStamp(edges'), skew)
      BY <1>3
    <2>2. captured' = [set |-> TRUE, stamp |-> HostStamp(edges') + skew]
      BY <2>1 DEF Capture
    <2>3. HostStamp(edges') + skew \in Int
      BY <1>1, Stamped, TimeSyncAssumption
    <2>4. inbox' \in Seq(Received)
      BY <1>2, <2>1, Marked DEF Capture
    <2> QED BY <1>1, <1>3, <2>2, <2>3, <2>4 DEF Types, EdgeTypes, MaskedOnlyWithEdge
  <1>4. CASE irq = "masked" /\ latched' = TRUE /\ UNCHANGED <<captured, inbox>>
    BY <1>1, <1>2, <1>4 DEF Types, EdgeTypes, MaskedOnlyWithEdge
  <1>5. CASE irq = "off" /\ UNCHANGED <<latched, captured, inbox>>
    BY <1>1, <1>2, <1>5 DEF Types, EdgeTypes, MaskedOnlyWithEdge
  <1> QED BY <1>3, <1>4, <1>5 DEF RaisePin


\* A reply that finds room forgets the edge.
LEMMA Replying ==
  ASSUME Types, NEW request, request.id \in Nat, Reply(request), edges' = edges
  PROVE  /\ toHost' \in Seq(Stamps) /\ running' \in Stamps /\ EdgeTypes'
         /\ irq' = "on"
  <1>1. [id |-> request.id, stamp |-> captured.stamp] \in Stamps /\ None \in Stamps
    BY DEF Types, EdgeTypes, Stamps, None
  <1>2. toHost' \in Seq(Stamps)
    BY <1>1 DEF Reply, Types, LinkTypes
  <1>3. NoEdge \in [set : BOOLEAN, stamp : Int]
    BY DEF NoEdge
  <1>4. running' \in Stamps /\ irq' = "on"
    BY <1>1 DEF Reply, Rearm
  <1>5. EdgeTypes'
    BY <1>3, <1>4 DEF Reply, Types, EdgeTypes
  <1> QED BY <1>2, <1>4, <1>5

\* Types hold initially and every step keeps them, whatever the constants.
THEOREM TypeCorrect == Spec => []TypeOK
  <1>1. Init => Types
    <2> SUFFICES ASSUME Init PROVE Types
      OBVIOUS
    <2>1. None \in Stamps /\ NoEdge \in [set : BOOLEAN, stamp : Int]
          /\ [waiting |-> FALSE, id |-> 0] \in [waiting : BOOLEAN, id : Nat]
      BY DEF None, NoEdge, Stamps
    <2>2. ClientTypes
      <3>1. 0 \in 0 .. MaxAttempts /\ 0 \in 0 .. MaxSyncs
        BY TimeSyncAssumption
      <3> QED BY <2>1, <3>1 DEF Init, ClientTypes
    <2>3. ThreadTypes /\ HandlerTypes
      BY <2>1 DEF Init, ThreadTypes, HandlerTypes
    <2>4. LinkTypes
      <3>1. Len(<< >>) <= QueueBound
        BY TimeSyncAssumption
      <3>2. toRobot = << >> /\ inbox = << >> /\ toHost = << >> /\ heard \in BOOLEAN
        BY DEF Init
      <3> QED BY <3>1, <3>2 DEF LinkTypes
    <2>5. EdgeTypes
      BY <2>1 DEF Init, EdgeTypes
    <2> QED BY <2>2, <2>3, <2>4, <2>5 DEF Types
  <1>2. Types /\ [Next]_vars => Types'
    <2> SUFFICES ASSUME Types, [Next]_vars PROVE Types'
      OBVIOUS
    <2>1. CASE RequestTimeSync
      BY <2>1, TimeSyncAssumption DEF RequestTimeSync, clientVars, threadVars, linkVars, edgeVars, handlerVars, Goto, Ends, None, NoEdge, Stamps, Types, ClientTypes, ThreadTypes, LinkTypes, EdgeTypes, HandlerTypes
    <2>2. CASE WarmedUp
      BY <2>2, TimeSyncAssumption DEF WarmedUp, clientVars, threadVars, linkVars, edgeVars, handlerVars, Goto, Ends, None, NoEdge, Stamps, Types, ClientTypes, ThreadTypes, LinkTypes, EdgeTypes, HandlerTypes
    <2>3. CASE StartSync
      BY <2>3, TimeSyncAssumption DEF StartSync, clientVars, threadVars, linkVars, edgeVars, handlerVars, Goto, Ends, None, NoEdge, Stamps, Types, ClientTypes, ThreadTypes, LinkTypes, EdgeTypes, HandlerTypes
    <2>4. CASE GenerateSyncEdge
      <3>1. edges' \in Nat /\ loopbacks' \in Nat /\ latched' \in BOOLEAN
            /\ captured' \in [set : BOOLEAN, stamp : Int] /\ inbox' \in Seq(Received)
        BY <2>4, EdgeTyped DEF GenerateSyncEdge
      <3>2. ClientTypes'
        BY <2>4, TimeSyncAssumption DEF GenerateSyncEdge, Types, ClientTypes
      <3> QED BY <2>4, <3>1, <3>2 DEF GenerateSyncEdge, handlerVars, Types, ThreadTypes, LinkTypes, EdgeTypes, HandlerTypes
    <2>5. CASE TooManyAttempts
      BY <2>5, TimeSyncAssumption DEF TooManyAttempts, clientVars, threadVars, linkVars, edgeVars, handlerVars, Goto, Ends, None, NoEdge, Stamps, Types, ClientTypes, ThreadTypes, LinkTypes, EdgeTypes, HandlerTypes
    <2>6. CASE LoopbackDetected
      BY <2>6, TimeSyncAssumption DEF LoopbackDetected, clientVars, threadVars, linkVars, edgeVars, handlerVars, Goto, Ends, None, NoEdge, Stamps, Types, ClientTypes, ThreadTypes, LinkTypes, EdgeTypes, HandlerTypes
    <2>7. CASE LoopbackLate
      BY <2>7, TimeSyncAssumption DEF LoopbackLate, clientVars, threadVars, linkVars, edgeVars, handlerVars, Goto, Ends, None, NoEdge, Stamps, Types, ClientTypes, ThreadTypes, LinkTypes, EdgeTypes, HandlerTypes
    <2>8. CASE Regenerate
      BY <2>8, TimeSyncAssumption DEF Regenerate, clientVars, threadVars, linkVars, edgeVars, handlerVars, Goto, Ends, None, NoEdge, Stamps, Types, ClientTypes, ThreadTypes, LinkTypes, EdgeTypes, HandlerTypes
    <2>9. CASE SendRequest
      <3>1. HostStamp(edges) \in Int /\ action.id + 1 \in Nat
        BY Stamped DEF Types, ClientTypes, ThreadTypes, LinkTypes, EdgeTypes, HandlerTypes
      <3>2. [stage |-> "request", id |-> action.id + 1, stamp |-> HostStamp(edges)] \in Packets
        BY <3>1 DEF Packets
      <3>3. toRobot' \in Seq(Packets) /\ Len(toRobot') <= QueueBound
        BY <2>9, <3>2, TimeSyncAssumption DEF SendRequest, HasRoom, Types, LinkTypes
      <3>4. ClientTypes'
        BY <2>9 DEF SendRequest, Goto, Types, ClientTypes
      <3>5. ThreadTypes'
        BY <2>9, <3>1 DEF SendRequest, Types, ThreadTypes
      <3> QED BY <2>9, <3>3, <3>4, <3>5 DEF SendRequest, edgeVars, handlerVars, Types, ClientTypes, ThreadTypes, LinkTypes, EdgeTypes, HandlerTypes
    <2>10. CASE ResetReply
      BY <2>10, TimeSyncAssumption DEF ResetReply, clientVars, threadVars, linkVars, edgeVars, handlerVars, Goto, Ends, None, NoEdge, Stamps, Types, ClientTypes, ThreadTypes, LinkTypes, EdgeTypes, HandlerTypes
    <2>11. CASE RequestTooLate
      BY <2>11, TimeSyncAssumption DEF RequestTooLate, clientVars, threadVars, linkVars, edgeVars, handlerVars, Goto, Ends, None, NoEdge, Stamps, Types, ClientTypes, ThreadTypes, LinkTypes, EdgeTypes, HandlerTypes
    <2>12. CASE ReplyTooLate
      <3>1. ClientTypes'
        BY <2>12 DEF ReplyTooLate, Goto, Types, ClientTypes
      <3>2. toRobot' \in Seq(Packets) /\ Len(toRobot') <= QueueBound /\ action' \in [waiting : BOOLEAN, id : Nat]
        <4>1. [stage |-> "cancel", id |-> action.id, stamp |-> 0] \in Packets
          BY DEF Types, ThreadTypes, Packets
        <4>2. [action EXCEPT !.waiting = FALSE] \in [waiting : BOOLEAN, id : Nat]
          BY DEF Types, ThreadTypes
        <4>3. CASE toRobot' = Append(toRobot, [stage |-> "cancel", id |-> action.id, stamp |-> 0]) /\ HasRoom
                   /\ action' = [action EXCEPT !.waiting = FALSE]
          BY <4>1, <4>2, <4>3, TimeSyncAssumption DEF HasRoom, Types, LinkTypes
        <4>4. CASE UNCHANGED <<toRobot, action>>
          BY <4>4 DEF Types, LinkTypes, ThreadTypes
        <4> QED BY <2>12, <4>3, <4>4 DEF ReplyTooLate
      <3> QED BY <2>12, <3>1, <3>2 DEF ReplyTooLate, edgeVars, handlerVars, Types, ClientTypes, ThreadTypes, LinkTypes, EdgeTypes, HandlerTypes
    <2>13. CASE ReadReply
      BY <2>13, TimeSyncAssumption DEF ReadReply, clientVars, threadVars, linkVars, edgeVars, handlerVars, Goto, Ends, None, NoEdge, Stamps, Types, ClientTypes, ThreadTypes, LinkTypes, EdgeTypes, HandlerTypes
    <2>14. CASE NoReplyYet
      BY <2>14, TimeSyncAssumption DEF NoReplyYet, clientVars, threadVars, linkVars, edgeVars, handlerVars, Goto, Ends, None, NoEdge, Stamps, Types, ClientTypes, ThreadTypes, LinkTypes, EdgeTypes, HandlerTypes
    <2>15. CASE UseReply
      <3>1. PICK remote \in IF read = None THEN Garbage ELSE {read.stamp} :
              hostOffset' = IF remote >= HostStamp(edges) THEN remote - HostStamp(edges) ELSE hostOffset
        BY <2>15 DEF UseReply
      <3>2. HostStamp(edges) \in Int
        BY Stamped DEF Types, EdgeTypes
      <3>3. remote \in Int
        BY <3>1, <3>2, TimeSyncAssumption DEF Garbage, Types, ClientTypes, Stamps
      <3>4. hostOffset' \in Nat
        BY <3>1, <3>2, <3>3 DEF Types, ClientTypes
      <3>5. ClientTypes'
        BY <2>15, <3>4 DEF UseReply, Ends, Types, ClientTypes
      <3> QED BY <2>15, <3>5 DEF UseReply, threadVars, linkVars, edgeVars, handlerVars, Types, ClientTypes, ThreadTypes, LinkTypes, EdgeTypes, HandlerTypes
    <2>16. CASE EdgeLoopbackCallback
      BY <2>16, TimeSyncAssumption DEF EdgeLoopbackCallback, clientVars, threadVars, linkVars, edgeVars, handlerVars, Goto, Ends, None, NoEdge, Stamps, Types, ClientTypes, ThreadTypes, LinkTypes, EdgeTypes, HandlerTypes
    <2>17. CASE OnReply
      <3>1. Head(toHost) \in Stamps /\ Tail(toHost) \in Seq(Stamps)
        BY <2>17, Taken DEF OnReply, Types, LinkTypes
      <3>2. action' \in [waiting : BOOLEAN, id : Nat] /\ reply' \in Stamps
        BY <2>17, <3>1 DEF OnReply, HandlerOnReply, Types, ThreadTypes
      <3> QED BY <2>17, <3>1, <3>2 DEF OnReply, clientVars, edgeVars, handlerVars, Types, ClientTypes, ThreadTypes, LinkTypes, EdgeTypes, HandlerTypes
    <2>18. CASE OnOtherEndStarted
      BY <2>18, TimeSyncAssumption DEF OnOtherEndStarted, clientVars, threadVars, linkVars, edgeVars, handlerVars, Goto, Ends, None, NoEdge, Stamps, Types, ClientTypes, ThreadTypes, LinkTypes, EdgeTypes, HandlerTypes
    <2>19. CASE InitHandler
      BY <2>19, TimeSyncAssumption DEF InitHandler, clientVars, threadVars, linkVars, edgeVars, handlerVars, Goto, Ends, None, NoEdge, Stamps, Types, ClientTypes, ThreadTypes, LinkTypes, EdgeTypes, HandlerTypes
    <2>20. CASE Receive
      <3>1. Head(toRobot) \in Packets /\ Tail(toRobot) \in Seq(Packets) /\ Len(Tail(toRobot)) = Len(toRobot) - 1
        BY <2>20, Taken DEF Receive, Types, LinkTypes
      <3>2. [packet |-> Head(toRobot), beforeEdge |-> FALSE] \in Received
        BY <3>1 DEF Received
      <3>3. inbox' \in Seq(Received) /\ toRobot' \in Seq(Packets)
        BY <2>20, <3>1, <3>2 DEF Receive, Types, LinkTypes
      <3>4. Len(toRobot') <= QueueBound
        BY <2>20, <3>1, TimeSyncAssumption DEF Receive, Types, LinkTypes
      <3> QED BY <2>20, <3>3, <3>4 DEF Receive, clientVars, threadVars, edgeVars, handlerVars, Types, ClientTypes, ThreadTypes, LinkTypes, EdgeTypes, HandlerTypes
    <2>21. CASE RejectRequest
      <3>1. Head(inbox) \in Received /\ Tail(inbox) \in Seq(Received)
        BY <2>21, Taken DEF RejectRequest, Types, LinkTypes
      <3>2. captured' \in [set : BOOLEAN, stamp : Int] /\ inbox' \in Seq(Received)
        <4>1. CASE latched
          <5>1. PICK skew \in Skews :
                  captured' = [set |-> TRUE, stamp |-> HostStamp(edges) + Interval \div 2 + skew]
            BY <2>21, <4>1 DEF RejectRequest
          <5>2. HostStamp(edges) + Interval \div 2 + skew \in Int
            BY Stamped, TimeSyncAssumption, SMT DEF Types, EdgeTypes
          <5>3. inbox' \in Seq(Received)
            BY <2>21, <3>1, <4>1, Marked DEF RejectRequest
          <5> QED BY <5>1, <5>2, <5>3
        <4>2. CASE ~latched
          BY <2>21, <3>1, <4>2 DEF RejectRequest, Consume, Types, EdgeTypes
        <4> QED BY <4>1, <4>2
      <3> QED BY <2>21, <3>2 DEF RejectRequest, clientVars, threadVars, handlerVars, Types, ClientTypes, ThreadTypes, LinkTypes, EdgeTypes, HandlerTypes
    <2>22. CASE AcceptRequest
      <3> DEFINE request == Head(inbox).packet
      <3>1. request \in Packets /\ inbox' \in Seq(Received)
        <4>1. Head(inbox) \in Received /\ Tail(inbox) \in Seq(Received)
          BY <2>22, Taken DEF AcceptRequest, Types, LinkTypes
        <4> QED BY <2>22, <4>1 DEF AcceptRequest, Consume, Received
      <3>2. request.id \in Nat /\ request.stamp \in Int /\ captured.stamp \in Int /\ robotOffset \in Nat
        BY <3>1 DEF Packets, Types, EdgeTypes, HandlerTypes
      <3>3. robotOffset' \in Nat
        BY <2>22, <3>2 DEF AcceptRequest
      <3>4. toHost' \in Seq(Stamps) /\ running' \in Stamps /\ EdgeTypes'
        <4>1. CASE Reply(request)
          BY <2>22, <3>2, <4>1, Replying DEF AcceptRequest
        <4>2. CASE running' = [id |-> request.id, stamp |-> request.stamp] /\ irq' = "masked"
                   /\ UNCHANGED <<toHost, captured, latched>>
          BY <2>22, <3>2, <4>2 DEF AcceptRequest, Stamps, Types, LinkTypes, EdgeTypes
        <4> QED BY <2>22, <4>1, <4>2 DEF AcceptRequest
      <3> HIDE DEF request
      <3> QED BY <2>22, <3>1, <3>3, <3>4 DEF AcceptRequest, clientVars, threadVars, Types, ClientTypes, ThreadTypes, LinkTypes, EdgeTypes, HandlerTypes
    <2>23. CASE RunHandler
      <3>1. toHost' \in Seq(Stamps) /\ running' \in Stamps /\ EdgeTypes'
        BY <2>23, Replying DEF RunHandler, Stamps, Types, HandlerTypes
      <3> QED BY <2>23, <3>1 DEF RunHandler, clientVars, threadVars, Types, ClientTypes, ThreadTypes, LinkTypes, EdgeTypes, HandlerTypes
    <2>24. CASE DropRequest
      <3>1. inbox' \in Seq(Received)
        BY <2>24, Taken DEF DropRequest, Consume, Types, LinkTypes
      <3> QED BY <2>24, <3>1 DEF DropRequest, None, Stamps, clientVars, threadVars, linkVars, edgeVars, handlerVars, Types, ClientTypes, ThreadTypes, LinkTypes, EdgeTypes, HandlerTypes
    <2>25. CASE CancelRequest
      <3>1. inbox' \in Seq(Received)
        BY <2>25, Taken DEF CancelRequest, Consume, Types, LinkTypes
      <3> QED BY <2>25, <3>1 DEF CancelRequest, None, Stamps, clientVars, threadVars, linkVars, edgeVars, handlerVars, Types, ClientTypes, ThreadTypes, LinkTypes, EdgeTypes, HandlerTypes
    <2>26. CASE LoseReply
      BY <2>26, TimeSyncAssumption DEF LoseReply, clientVars, threadVars, linkVars, edgeVars, handlerVars, Goto, Ends, None, NoEdge, Stamps, Types, ClientTypes, ThreadTypes, LinkTypes, EdgeTypes, HandlerTypes
    <2>27. CASE UNCHANGED vars
      BY <2>27 DEF vars, clientVars, threadVars, linkVars, edgeVars, handlerVars, Types, ClientTypes, ThreadTypes, LinkTypes, EdgeTypes, HandlerTypes
    <2> QED BY <2>1, <2>2, <2>3, <2>4, <2>5, <2>6, <2>7, <2>8, <2>9, <2>10, <2>11, <2>12, <2>13, <2>14, <2>15, <2>16, <2>17, <2>18, <2>19, <2>20, <2>21, <2>22, <2>23, <2>24, <2>25, <2>26, <2>27 DEF Next, ClientRun, RobotRun
  <1>3. TypeOK <=> Types
    BY TypeParts
  <1> QED BY <1>1, <1>2, <1>3, PTL DEF Spec

-----------------------------------------------------------------------------
(* The client. Only SendRequest, ReplyTooLate and the thread that dispatches *)
(* replies change the action.                                               *)

\* A reply of any request may be on its way; only one to the last request is
\* stored, which ends the action, and ResetReply() forgets those of others.
LEMMA RepliesKept == Types /\ Replies /\ [Next]_vars => Replies'
  <1> SUFFICES ASSUME Types, Replies, [Next]_vars PROVE Replies'
    OBVIOUS
  <1>1. CASE RequestTimeSync
    BY <1>1 DEF RequestTimeSync, Goto, Ends, None, clientVars, threadVars, linkVars, edgeVars, handlerVars, Replies, StoredReplyIsCurrent, StoredEnds, OkLeavesNothingBehind, WarmupFirst
  <1>2. CASE WarmedUp
    BY <1>2 DEF WarmedUp, Goto, Ends, None, clientVars, threadVars, linkVars, edgeVars, handlerVars, Replies, StoredReplyIsCurrent, StoredEnds, OkLeavesNothingBehind, WarmupFirst
  <1>3. CASE StartSync
    BY <1>3 DEF StartSync, Goto, Ends, None, clientVars, threadVars, linkVars, edgeVars, handlerVars, Replies, StoredReplyIsCurrent, StoredEnds, OkLeavesNothingBehind, WarmupFirst
  <1>4. CASE GenerateSyncEdge
    BY <1>4 DEF GenerateSyncEdge, Goto, Ends, None, clientVars, threadVars, linkVars, edgeVars, handlerVars, Replies, StoredReplyIsCurrent, StoredEnds, OkLeavesNothingBehind, WarmupFirst
  <1>5. CASE TooManyAttempts
    BY <1>5 DEF TooManyAttempts, Goto, Ends, None, clientVars, threadVars, linkVars, edgeVars, handlerVars, Replies, StoredReplyIsCurrent, StoredEnds, OkLeavesNothingBehind, WarmupFirst
  <1>6. CASE LoopbackDetected
    BY <1>6 DEF LoopbackDetected, Goto, Ends, None, clientVars, threadVars, linkVars, edgeVars, handlerVars, Replies, StoredReplyIsCurrent, StoredEnds, OkLeavesNothingBehind, WarmupFirst
  <1>7. CASE LoopbackLate
    BY <1>7 DEF LoopbackLate, Goto, Ends, None, clientVars, threadVars, linkVars, edgeVars, handlerVars, Replies, StoredReplyIsCurrent, StoredEnds, OkLeavesNothingBehind, WarmupFirst
  <1>8. CASE Regenerate
    BY <1>8 DEF Regenerate, Goto, Ends, None, clientVars, threadVars, linkVars, edgeVars, handlerVars, Replies, StoredReplyIsCurrent, StoredEnds, OkLeavesNothingBehind, WarmupFirst
  <1>9. CASE SendRequest
    BY <1>9 DEF SendRequest, HandlerOnReply, Goto, clientVars, threadVars, linkVars, edgeVars, handlerVars, Types, ThreadTypes, Replies, StoredReplyIsCurrent, StoredEnds, OkLeavesNothingBehind, WarmupFirst
  <1>10. CASE ResetReply
    BY <1>10 DEF ResetReply, Goto, Ends, None, clientVars, threadVars, linkVars, edgeVars, handlerVars, Replies, StoredReplyIsCurrent, StoredEnds, OkLeavesNothingBehind, WarmupFirst
  <1>11. CASE RequestTooLate
    BY <1>11 DEF RequestTooLate, Goto, Ends, None, clientVars, threadVars, linkVars, edgeVars, handlerVars, Replies, StoredReplyIsCurrent, StoredEnds, OkLeavesNothingBehind, WarmupFirst
  <1>12. CASE ReplyTooLate
    BY <1>12 DEF ReplyTooLate, HandlerOnReply, Goto, clientVars, threadVars, linkVars, edgeVars, handlerVars, Types, ThreadTypes, Replies, StoredReplyIsCurrent, StoredEnds, OkLeavesNothingBehind, WarmupFirst
  <1>13. CASE ReadReply
    BY <1>13 DEF ReadReply, Goto, Ends, None, clientVars, threadVars, linkVars, edgeVars, handlerVars, Replies, StoredReplyIsCurrent, StoredEnds, OkLeavesNothingBehind, WarmupFirst
  <1>14. CASE NoReplyYet
    BY <1>14 DEF NoReplyYet, Goto, Ends, None, clientVars, threadVars, linkVars, edgeVars, handlerVars, Replies, StoredReplyIsCurrent, StoredEnds, OkLeavesNothingBehind, WarmupFirst
  <1>15. CASE UseReply
    BY <1>15 DEF UseReply, Goto, Ends, None, clientVars, threadVars, linkVars, edgeVars, handlerVars, Replies, StoredReplyIsCurrent, StoredEnds, OkLeavesNothingBehind, WarmupFirst
  <1>16. CASE EdgeLoopbackCallback
    BY <1>16 DEF EdgeLoopbackCallback, Goto, Ends, None, clientVars, threadVars, linkVars, edgeVars, handlerVars, Replies, StoredReplyIsCurrent, StoredEnds, OkLeavesNothingBehind, WarmupFirst
  <1>17. CASE OnReply
    BY <1>17 DEF OnReply, HandlerOnReply, Goto, clientVars, threadVars, linkVars, edgeVars, handlerVars, Types, ThreadTypes, Replies, StoredReplyIsCurrent, StoredEnds, OkLeavesNothingBehind, WarmupFirst
  <1>18. CASE OnOtherEndStarted
    BY <1>18 DEF OnOtherEndStarted, HandlerOnReply, Goto, clientVars, threadVars, linkVars, edgeVars, handlerVars, Types, ThreadTypes, Replies, StoredReplyIsCurrent, StoredEnds, OkLeavesNothingBehind, WarmupFirst
  <1>19. CASE RobotRun \/ LoseReply
    <2>1. UNCHANGED <<clientVars, threadVars>>
      BY <1>19 DEF RobotRun, LoseReply, InitHandler, Receive, RejectRequest, AcceptRequest, RunHandler, DropRequest, CancelRequest
    <2> QED BY <2>1 DEF clientVars, threadVars, Replies, StoredReplyIsCurrent, StoredEnds, OkLeavesNothingBehind, WarmupFirst
  <1>20. CASE UNCHANGED vars
    BY <1>20 DEF vars, clientVars, threadVars, Replies, StoredReplyIsCurrent, StoredEnds, OkLeavesNothingBehind, WarmupFirst
  <1> QED BY <1>1, <1>2, <1>3, <1>4, <1>5, <1>6, <1>7, <1>8, <1>9, <1>10, <1>11, <1>12, <1>13, <1>14, <1>15, <1>16, <1>17, <1>18, <1>19, <1>20 DEF Next, ClientRun

-----------------------------------------------------------------------------
(* The robot.                                                               *)

\* The interrupt is masked when a request is accepted, which takes an edge, and
\* an edge is forgotten only where the interrupt is enabled.
LEMMA MaskKept == Types /\ MaskedOnlyWithEdge /\ [Next]_vars => MaskedOnlyWithEdge'
  <1> SUFFICES ASSUME Types, MaskedOnlyWithEdge, [Next]_vars PROVE MaskedOnlyWithEdge'
    OBVIOUS
  <1>1. CASE UNCHANGED <<irq, captured>>
    BY <1>1 DEF MaskedOnlyWithEdge
  <1>2. CASE GenerateSyncEdge
    BY <1>2, EdgeTyped DEF GenerateSyncEdge
  <1>3. CASE InitHandler \/ RejectRequest
    <2>1. irq' = "on"
      BY <1>3 DEF InitHandler, RejectRequest
    <2> QED BY <2>1 DEF MaskedOnlyWithEdge
  <1>4. CASE AcceptRequest
    <2> DEFINE request == Head(inbox).packet
    <2>1. CASE Reply(request)
      BY <2>1 DEF Reply, Rearm, MaskedOnlyWithEdge
    <2>2. CASE UNCHANGED captured
      BY <1>4, <2>2 DEF AcceptRequest, Rejects, MaskedOnlyWithEdge
    <2> QED BY <1>4, <2>1, <2>2 DEF AcceptRequest
  <1>5. CASE RunHandler
    BY <1>5 DEF RunHandler, Reply, Rearm, MaskedOnlyWithEdge
  <1>6. UNCHANGED <<irq, captured>> \/ GenerateSyncEdge \/ InitHandler \/ RejectRequest \/ AcceptRequest \/ RunHandler
    BY DEF Next, ClientRun, RobotRun, vars, edgeVars, RequestTimeSync, WarmedUp, StartSync, TooManyAttempts, LoopbackDetected, LoopbackLate, Regenerate, SendRequest, ResetReply, RequestTooLate, ReplyTooLate, ReadReply, NoReplyYet, UseReply, EdgeLoopbackCallback, OnReply, OnOtherEndStarted,
           Receive, DropRequest, CancelRequest, LoseReply
  <1> QED BY <1>1, <1>2, <1>3, <1>4, <1>5, <1>6

-----------------------------------------------------------------------------
\* The inductive invariant holds in every state.
THEOREM Inductive == Spec => []IInv
  <1>1. Init => Replies /\ MaskedOnlyWithEdge
    BY DEF Init, None, MaskedOnlyWithEdge, Replies, StoredReplyIsCurrent, StoredEnds, OkLeavesNothingBehind, WarmupFirst
  <1>2. Types /\ Replies /\ MaskedOnlyWithEdge /\ [Next]_vars => Replies' /\ MaskedOnlyWithEdge'
    BY RepliesKept, MaskKept
  <1>3. TypeOK <=> Types
    BY TypeParts
  <1>4. TypeOK /\ Replies /\ MaskedOnlyWithEdge => IInv
    BY DEF IInv
  <1>5. Spec => []TypeOK
    BY TypeCorrect
  <1> QED BY <1>1, <1>2, <1>3, <1>4, <1>5, PTL DEF Spec

\* While the client waits, a reply that it finds is the one to its last request,
\* whenever the thread that dispatches replies stored it (time_sync_client.cpp:68-81).
THEOREM StoredReplyIsCurrentAlways == Spec => []StoredReplyIsCurrent
  <1>1. IInv => StoredReplyIsCurrent
    BY DEF IInv, Replies
  <1> QED BY <1>1, Inductive, PTL

\* A synchronisation that ends well leaves no request in progress that would
\* refuse the next one (time_sync_client.cpp:220-239).
THEOREM OkLeavesNothingBehindAlways == Spec => []OkLeavesNothingBehind
  <1>1. IInv => OkLeavesNothingBehind
    BY DEF IInv, Replies
  <1> QED BY <1>1, Inductive, PTL

\* The robot's edge interrupt is never masked without an edge to answer with
\* (sync_time_action_handler.cpp:29-93).
THEOREM MaskedOnlyWithEdgeAlways == Spec => []MaskedOnlyWithEdge
  <1>1. IInv => MaskedOnlyWithEdge
    BY DEF IInv
  <1> QED BY <1>1, Inductive, PTL
=============================================================================
