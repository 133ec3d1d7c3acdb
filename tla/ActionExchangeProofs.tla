------------------------ MODULE ActionExchangeProofs ------------------------
(***************************************************************************)
(* Theorems about ActionExchange, for every set of the modelled actions,   *)
(* every assignment of priorities and all bounds.                          *)
(***************************************************************************)
EXTENDS ActionExchange, SequenceTheorems, FiniteSetTheorems, TLAPS

-----------------------------------------------------------------------------
(* What Run() of a handler gives. *)

Run == [h : Handler, message : {"none", "reply", "progress"}, more : BOOLEAN, starts : BOOLEAN]

LEMMA KnownActions == Actions \subseteq {"monitor", "create", "execute"}
BY ActionsAssumption DEF Actions

\* A step of a handler keeps the request it serves.
SameRequest(g, h) ==
  /\ g.id = h.id /\ g.call = h.call /\ g.start = h.start
  /\ g.sent = h.sent /\ g.updates = h.updates /\ g.running = h.running

LEMMA WithState ==
  ASSUME NEW h \in Handler, NEW s \in States
  PROVE  LET g == [h EXCEPT !.state = s] IN
         /\ g \in Handler /\ SameRequest(g, h) /\ g.about = h.about
         /\ g.state = s /\ g.remaining = h.remaining
<1> DEFINE g == [h EXCEPT !.state = s]
<1>1. g \in Handler /\ g.about = h.about /\ g.state = s /\ g.remaining = h.remaining
  BY DEF Handler
<1>2. SameRequest(g, h)
  BY DEF Handler, SameRequest
<1> QED
  BY <1>1, <1>2

LEMMA WithRemaining ==
  ASSUME NEW h \in Handler, NEW n \in Int
  PROVE  LET g == [h EXCEPT !.remaining = n] IN
         /\ g \in Handler /\ SameRequest(g, h) /\ g.about = h.about
         /\ g.state = h.state /\ g.remaining = n
<1> DEFINE g == [h EXCEPT !.remaining = n]
<1>1. g \in Handler /\ g.about = h.about /\ g.state = h.state /\ g.remaining = n
  BY DEF Handler
<1>2. SameRequest(g, h)
  BY DEF Handler, SameRequest
<1> QED
  BY <1>1, <1>2

LEMMA WithAbout ==
  ASSUME NEW h \in Handler
  PROVE  LET g == [h EXCEPT !.about = h.call] IN
         /\ g \in Handler /\ SameRequest(g, h) /\ g.about = g.call
         /\ g.state = h.state /\ g.remaining = h.remaining
<1> DEFINE g == [h EXCEPT !.about = h.call]
<1>1. g \in Handler /\ g.about = g.call /\ g.state = h.state /\ g.remaining = h.remaining
  BY DEF Handler
<1>2. SameRequest(g, h)
  BY DEF Handler, SameRequest
<1> QED
  BY <1>1, <1>2

LEMMA GoesType ==
  ASSUME NEW h \in Handler, NEW s \in States
  PROVE  LET r == Goes(h, s) IN
         /\ r \in Run /\ SameRequest(r.h, h) /\ r.h.about = h.about
         /\ r.h.state = s /\ r.more /\ ~r.starts
<1> DEFINE g == [h EXCEPT !.state = s]
<1>1. g \in Handler /\ g.state = s /\ SameRequest(g, h) /\ g.about = h.about
  BY WithState
<1>2. Goes(h, s) = [h |-> g, message |-> "none", more |-> TRUE, starts |-> FALSE]
  BY DEF Goes
<1> HIDE DEF g
<1> QED
  BY <1>1, <1>2 DEF Run

LEMMA TryReplyType ==
  ASSUME NEW h \in Handler, NEW o \in Outcome, NEW s \in States
  PROVE  LET r == TryReply(h, o, s) IN
         /\ r \in Run /\ SameRequest(r.h, h) /\ r.h.about = h.about
         /\ r.h.state = IF r.more THEN "sendingReply" ELSE s
         /\ ~r.starts
<1> DEFINE f == [h EXCEPT !.state = s]
           g == [h EXCEPT !.state = s, !.remaining = 0]
<1>1. f \in Handler /\ f.state = s /\ SameRequest(f, h) /\ f.about = h.about
  BY WithState
<1> HIDE DEF f
<1>2. g \in Handler /\ g.state = s /\ SameRequest(g, f) /\ g.about = f.about
  <2>1. g = [f EXCEPT !.remaining = 0]
    BY DEF f
  <2> QED
    BY <1>1, <2>1, WithRemaining
<1>3. TryReply(h, o, s) = IF o.room
                          THEN [h |-> g, message |-> "reply", more |-> FALSE, starts |-> FALSE]
                          ELSE Goes(h, "sendingReply")
  BY DEF TryReply, f
<1> HIDE DEF g
<1>4. CASE o.room
  BY <1>1, <1>2, <1>3, <1>4 DEF Run, SameRequest
<1>5. CASE ~o.room
  BY <1>3, <1>5, GoesType DEF States
<1> QED
  BY <1>4, <1>5

LEMMA TryProgressType ==
  ASSUME NEW h \in Handler, NEW o \in Outcome
  PROVE  LET r == TryProgress(h, o) IN
         /\ r \in Run /\ SameRequest(r.h, h) /\ r.h.about = h.about
         /\ r.h.state \in {"wait", "sendingProgress"}
         /\ r.more /\ ~r.starts
<1> DEFINE n == IF h.remaining > 0 THEN h.remaining - 1 ELSE -1
           f == [h EXCEPT !.state = "wait"]
           g == [h EXCEPT !.state = "wait", !.remaining = n]
<1>1. n \in Int
  BY DEF Handler
<1>2. f \in Handler /\ f.state = "wait" /\ SameRequest(f, h) /\ f.about = h.about
  BY WithState DEF States
<1> HIDE DEF n, f
<1>3. g \in Handler /\ g.state = "wait" /\ SameRequest(g, f) /\ g.about = f.about
  <2>1. g = [f EXCEPT !.remaining = n]
    BY DEF f
  <2> QED
    BY <1>1, <1>2, <2>1, WithRemaining
<1>4. TryProgress(h, o) = IF o.room
                          THEN [h |-> g, message |-> "progress", more |-> TRUE, starts |-> FALSE]
                          ELSE Goes(h, "sendingProgress")
  BY <1>1 DEF TryProgress, n
<1> HIDE DEF g
<1>5. CASE o.room
  BY <1>2, <1>3, <1>4, <1>5 DEF Run, SameRequest
<1>6. CASE ~o.room
  BY <1>4, <1>6, GoesType DEF States
<1> QED
  BY <1>5, <1>6

LEMMA MonitorNextType ==
  ASSUME NEW h \in Handler, NEW o \in Outcome
  PROVE  LET r == MonitorNext(h, o) IN
         /\ r \in Run /\ SameRequest(r.h, h)
         /\ r.h.state \in StatesOf("monitor")
         /\ ~r.starts
<1>1. CASE h.remaining = 1
  BY <1>1, TryReplyType DEF MonitorNext, States, StatesOf
<1>2. CASE h.remaining # 1
  BY <1>2, TryProgressType DEF MonitorNext, StatesOf
<1> QED
  BY <1>1, <1>2

LEMMA MonitorRunType ==
  ASSUME NEW h \in Handler, h.state \in StatesOf("monitor"), NEW o \in Outcome
  PROVE  LET r == MonitorRun(h, o) IN
         /\ r \in Run /\ SameRequest(r.h, h)
         /\ r.h.state \in StatesOf("monitor")
         /\ ~r.starts
<1>1. CASE h.state = "receive"
  <2> DEFINE f == [h EXCEPT !.remaining = h.updates]
             g == [h EXCEPT !.remaining = h.updates, !.about = h.call]
  <2>1. f \in Handler /\ SameRequest(f, h)
    <3>1. h.updates \in Int
      BY DEF Handler
    <3> QED
      BY <3>1, WithRemaining
  <2>2. g \in Handler /\ SameRequest(g, h)
    <3>1. f.call = h.call
      BY <2>1 DEF SameRequest
    <3>2. g = [f EXCEPT !.about = f.call]
      BY <3>1
    <3> HIDE DEF f
    <3> QED
      BY <2>1, <3>2, WithAbout DEF SameRequest
  <2>3. MonitorRun(h, o) = MonitorNext(g, o)
    BY <1>1 DEF MonitorRun
  <2> HIDE DEF f, g
  <2> QED
    BY <2>2, <2>3, MonitorNextType DEF SameRequest
<1>2. CASE h.state = "wait"
  BY <1>2, MonitorNextType, GoesType DEF MonitorRun, States, StatesOf
<1>3. CASE h.state = "sendingReply"
  BY <1>3, TryReplyType DEF MonitorRun, States, StatesOf
<1>4. CASE h.state = "sendingProgress"
  BY <1>4, TryProgressType DEF MonitorRun, StatesOf
<1> QED
  BY <1>1, <1>2, <1>3, <1>4 DEF StatesOf

LEMMA CreateRunType ==
  ASSUME NEW h \in Handler, h.state \in StatesOf("create"), NEW o \in Outcome
  PROVE  LET r == CreateRun(h, o) IN
         /\ r \in Run /\ SameRequest(r.h, h)
         /\ r.h.state \in StatesOf("create")
         /\ ~r.starts
<1>1. CASE h.state = "processing"
  <2> DEFINE g == [h EXCEPT !.about = h.call]
  <2>1. g \in Handler /\ SameRequest(g, h)
    BY WithAbout
  <2>2. CreateRun(h, o) = TryReply(g, o, "processing")
    BY <1>1 DEF CreateRun
  <2> HIDE DEF g
  <2> QED
    BY <2>1, <2>2, TryReplyType DEF SameRequest, States, StatesOf
<1>2. CASE h.state = "sendingReply"
  BY <1>2, TryReplyType DEF CreateRun, States, StatesOf
<1> QED
  BY <1>1, <1>2 DEF StatesOf

\* What Run() of "execute" does besides: it starts the controller only from
\* the state a new request puts it in, it goes on while the trajectory does, and
\* what it reports on is its own request once it has looked at it.
ExecuteRunIsSound(h, r) ==
  /\ r.starts => h.state = "processing" /\ r.more /\ r.h.state = "wait"
  /\ r.more => r.h.state # "processing"
  /\ h.state = "processing" \/ h.about = h.call => r.h.about = r.h.call
  /\ h.state = "sendingProgress" \/ (h.state = "wait" /\ ~controller.finished) =>
       r.more /\ r.h.state \in {"wait", "sendingProgress"}

LEMMA ExecuteRunType ==
  ASSUME NEW h \in Handler, h.state \in StatesOf("execute"), NEW o \in Outcome
  PROVE  LET r == ExecuteRun(h, o) IN
         /\ r \in Run /\ SameRequest(r.h, h)
         /\ r.h.state \in StatesOf("execute")
         /\ ExecuteRunIsSound(h, r)
<1> DEFINE g == [h EXCEPT !.about = h.call]
<1>0. g \in Handler /\ SameRequest(g, h) /\ g.about = g.call
  BY WithAbout
<1>1. CASE h.state = "processing" /\ o.exists
  <2>1. ExecuteRun(h, o) = [Goes(g, "wait") EXCEPT !.starts = TRUE]
    BY <1>1 DEF ExecuteRun
  <2> HIDE DEF g
  <2>2. /\ Goes(g, "wait") \in Run
        /\ SameRequest(Goes(g, "wait").h, g) /\ Goes(g, "wait").h.about = g.about
        /\ Goes(g, "wait").h.state = "wait" /\ Goes(g, "wait").more
    BY <1>0, GoesType DEF States
  <2>3. /\ ExecuteRun(h, o) \in Run
        /\ ExecuteRun(h, o).h = Goes(g, "wait").h
        /\ ExecuteRun(h, o).more = Goes(g, "wait").more
    BY <2>1, <2>2 DEF Run
  <2> QED
    BY <1>0, <1>1, <2>2, <2>3 DEF SameRequest, StatesOf, ExecuteRunIsSound
<1>2. CASE h.state = "processing" /\ ~o.exists
  <2>1. ExecuteRun(h, o) = TryReply(g, o, "processing")
    BY <1>2 DEF ExecuteRun
  <2> HIDE DEF g
  <2> QED
    BY <1>0, <1>2, <2>1, TryReplyType
    DEF SameRequest, States, StatesOf, ExecuteRunIsSound
<1>3. CASE h.state = "sendingReply" \/ (h.state = "wait" /\ controller.finished)
  <2>1. ExecuteRun(h, o) = TryReply(h, o, "processing")
    BY <1>3 DEF ExecuteRun
  <2> QED
    BY <1>3, <2>1, TryReplyType DEF SameRequest, States, StatesOf, ExecuteRunIsSound
<1>4. CASE h.state = "sendingProgress" \/ (h.state = "wait" /\ ~controller.finished /\ o.due)
  <2>1. ExecuteRun(h, o) = TryProgress(h, o)
    BY <1>4 DEF ExecuteRun
  <2> QED
    BY <1>4, <2>1, TryProgressType DEF SameRequest, StatesOf, ExecuteRunIsSound
<1>5. CASE h.state = "wait" /\ ~controller.finished /\ ~o.due
  <2>1. ExecuteRun(h, o) = Goes(h, "wait")
    BY <1>5 DEF ExecuteRun
  <2> QED
    BY <1>5, <2>1, GoesType DEF SameRequest, States, StatesOf, ExecuteRunIsSound
<1>6. h.state \in {"processing", "wait", "sendingReply", "sendingProgress"}
  BY DEF StatesOf
<1>7. \/ h.state = "processing" /\ o.exists
      \/ h.state = "processing" /\ ~o.exists
      \/ h.state = "sendingReply" \/ (h.state = "wait" /\ controller.finished)
      \/ h.state = "sendingProgress" \/ (h.state = "wait" /\ ~controller.finished /\ o.due)
      \/ h.state = "wait" /\ ~controller.finished /\ ~o.due
  BY <1>6
<1> QED
  BY <1>1, <1>2, <1>3, <1>4, <1>5, <1>7

LEMMA HandlerRunType ==
  ASSUME NEW a \in Actions, NEW h \in Handler, h.state \in StatesOf(a), NEW o \in Outcome
  PROVE  LET r == HandlerRun(a, h, o) IN
         /\ r \in Run /\ SameRequest(r.h, h)
         /\ r.h.state \in StatesOf(a)
         /\ IF a = "execute" THEN ExecuteRunIsSound(h, r) ELSE ~r.starts
<1>1. CASE a = "monitor"
  BY <1>1, MonitorRunType DEF HandlerRun
<1>2. CASE a = "create"
  BY <1>2, CreateRunType DEF HandlerRun
<1>3. CASE a = "execute"
  BY <1>3, ExecuteRunType DEF HandlerRun
<1> QED
  BY <1>1, <1>2, <1>3, KnownActions

-----------------------------------------------------------------------------
(* The queues. *)

LEMMA PriorityOfAction == \A a \in Actions : PriorityOf[a] \in Priorities
BY DEF Priorities

LEMMA OrderIsSeq ==
  /\ DOMAIN Order = 1 .. Len(Order) /\ Len(Order) \in Nat
  /\ \A i \in DOMAIN Order : Order[i] \in Actions
  /\ PacketTurn = Len(Order) + 1
BY ActionsAssumption DEF Actions, PacketTurn

\* Queues of packets of S, not longer than the bound.
Queues(S) == {q \in [Priorities -> Seq(S)] : \A p \in Priorities : Len(q[p]) <= QueueBound}

LEMMA AppendQueue ==
  ASSUME NEW S, NEW q \in Queues(S), NEW p \in Priorities, HasRoom(q[p]), NEW pkt \in S
  PROVE  LET new == [q EXCEPT ![p] = Append(@, pkt)] IN
         /\ new \in Queues(S)
         /\ \A r \in Priorities : \A i \in 1 .. Len(new[r]) :
              \/ i \in 1 .. Len(q[r]) /\ new[r][i] = q[r][i]
              \/ new[r][i] = pkt
<1> DEFINE new == [q EXCEPT ![p] = Append(@, pkt)]
<1>1. /\ q \in [Priorities -> Seq(S)]
      /\ \A r \in Priorities : q[r] \in Seq(S) /\ Len(q[r]) \in Nat /\ Len(q[r]) <= QueueBound
  BY DEF Queues
<1>2. /\ Append(q[p], pkt) \in Seq(S)
      /\ Len(Append(q[p], pkt)) = Len(q[p]) + 1
      /\ \A i \in 1 .. Len(q[p]) : Append(q[p], pkt)[i] = q[p][i]
      /\ Append(q[p], pkt)[Len(q[p]) + 1] = pkt
  BY <1>1, AppendProperties
<1>3. new \in Queues(S)
  <2>1. new \in [Priorities -> Seq(S)]
    BY <1>1, <1>2
  <2>2. ASSUME NEW r \in Priorities PROVE Len(new[r]) <= QueueBound
    <3>1. CASE r = p
      BY <1>1, <1>2, <3>1, BoundsAssumption DEF HasRoom
    <3>2. CASE r # p
      BY <1>1, <3>2
    <3> QED
      BY <3>1, <3>2
  <2> QED
    BY <2>1, <2>2 DEF Queues
<1>4. ASSUME NEW r \in Priorities, NEW i \in 1 .. Len(new[r])
      PROVE  \/ i \in 1 .. Len(q[r]) /\ new[r][i] = q[r][i]
             \/ new[r][i] = pkt
  <2>1. CASE r = p
    <3>1. new[r] = Append(q[p], pkt)
      BY <1>1, <2>1
    <3>2. i \in 1 .. Len(q[p]) \/ i = Len(q[p]) + 1
      BY <1>1, <1>2, <3>1
    <3> QED
      BY <1>2, <2>1, <3>1, <3>2
  <2>2. CASE r # p
    BY <1>1, <2>2
  <2> QED
    BY <2>1, <2>2
<1> QED
  BY <1>3, <1>4

LEMMA TailQueue ==
  ASSUME NEW S, NEW q \in Queues(S), NEW p \in Priorities, q[p] # << >>
  PROVE  LET new == [q EXCEPT ![p] = Tail(@)] IN
         /\ new \in Queues(S)
         /\ Head(q[p]) \in S /\ Head(q[p]) = q[p][1] /\ 1 \in 1 .. Len(q[p])
         /\ \A r \in Priorities : \A i \in 1 .. Len(new[r]) :
              \E j \in 1 .. Len(q[r]) : new[r][i] = q[r][j]
<1> DEFINE new == [q EXCEPT ![p] = Tail(@)]
<1>1. /\ q \in [Priorities -> Seq(S)]
      /\ \A r \in Priorities : q[r] \in Seq(S) /\ Len(q[r]) \in Nat /\ Len(q[r]) <= QueueBound
  BY DEF Queues
<1>2. /\ Head(q[p]) \in S
      /\ Tail(q[p]) \in Seq(S)
      /\ Len(Tail(q[p])) = Len(q[p]) - 1
      /\ \A i \in 1 .. Len(Tail(q[p])) : Tail(q[p])[i] = q[p][i + 1]
  BY <1>1, HeadTailProperties
<1>3. Head(q[p]) = q[p][1] /\ 1 \in 1 .. Len(q[p])
  BY <1>1, <1>2, LenProperties
<1>4. new \in Queues(S)
  <2>1. new \in [Priorities -> Seq(S)]
    BY <1>1, <1>2
  <2>2. ASSUME NEW r \in Priorities PROVE Len(new[r]) <= QueueBound
    <3>1. CASE r = p
      BY <1>1, <1>2, <3>1, BoundsAssumption
    <3>2. CASE r # p
      BY <1>1, <3>2
    <3> QED
      BY <3>1, <3>2
  <2> QED
    BY <2>1, <2>2 DEF Queues
<1>5. ASSUME NEW r \in Priorities, NEW i \in 1 .. Len(new[r])
      PROVE  \E j \in 1 .. Len(q[r]) : new[r][i] = q[r][j]
  <2>1. CASE r = p
    <3>1. new[r] = Tail(q[p])
      BY <1>1, <2>1
    <3>2. i + 1 \in 1 .. Len(q[r])
      BY <1>1, <1>2, <2>1, <3>1
    <3> QED
      BY <1>2, <2>1, <3>1, <3>2
  <2>2. CASE r # p
    BY <1>1, <2>2
  <2> QED
    BY <2>1, <2>2
<1> QED
  BY <1>2, <1>3, <1>4, <1>5

LEMMA CutQueues ==
  ASSUME NEW S, NEW q \in Queues(S), NEW k \in Cuts(q)
  PROVE  /\ Before(q, k) \in Queues(S)
         /\ After(q, k) \in Queues(S)
         /\ \A p \in Priorities : \A i \in 1 .. Len(Before(q, k)[p]) :
              i \in 1 .. Len(q[p]) /\ Before(q, k)[p][i] = q[p][i]
         /\ \A p \in Priorities : \A i \in 1 .. Len(After(q, k)[p]) :
              \E j \in k[p] + 1 .. Len(q[p]) : After(q, k)[p][i] = q[p][j]
<1>1. ASSUME NEW p \in Priorities
      PROVE  /\ q[p] \in Seq(S) /\ Len(q[p]) \in Nat /\ Len(q[p]) <= QueueBound
             /\ \A i \in 1 .. Len(q[p]) : q[p][i] \in S
             /\ k[p] \in Nat /\ k[p] <= Len(q[p])
  BY BoundsAssumption DEF Queues, Cuts
<1>2. ASSUME NEW p \in Priorities
      PROVE  /\ SubSeq(q[p], 1, k[p]) \in Seq(S)
             /\ Len(SubSeq(q[p], 1, k[p])) = k[p]
             /\ \A i \in 1 .. k[p] : SubSeq(q[p], 1, k[p])[i] = q[p][i]
  <2>1. 1 \in Int /\ k[p] \in Int /\ \A i \in 1 .. k[p] : q[p][i] \in S
    BY <1>1
  <2>2. /\ SubSeq(q[p], 1, k[p]) \in Seq(S)
        /\ Len(SubSeq(q[p], 1, k[p])) = IF 1 <= k[p] THEN k[p] - 1 + 1 ELSE 0
        /\ \A i \in 1 .. k[p] - 1 + 1 : SubSeq(q[p], 1, k[p])[i] = q[p][1 + i - 1]
    BY <2>1, SubSeqProperties
  <2> QED
    BY <1>1, <2>2
<1>3. ASSUME NEW p \in Priorities
      PROVE  /\ SubSeq(q[p], k[p] + 1, Len(q[p])) \in Seq(S)
             /\ Len(SubSeq(q[p], k[p] + 1, Len(q[p]))) = Len(q[p]) - k[p]
             /\ \A i \in 1 .. Len(q[p]) - k[p] :
                  SubSeq(q[p], k[p] + 1, Len(q[p]))[i] = q[p][k[p] + i]
  <2>1. k[p] + 1 \in Int /\ Len(q[p]) \in Int /\ \A i \in k[p] + 1 .. Len(q[p]) : q[p][i] \in S
    BY <1>1
  <2>2. /\ SubSeq(q[p], k[p] + 1, Len(q[p])) \in Seq(S)
        /\ Len(SubSeq(q[p], k[p] + 1, Len(q[p]))) =
             IF k[p] + 1 <= Len(q[p]) THEN Len(q[p]) - (k[p] + 1) + 1 ELSE 0
        /\ \A i \in 1 .. Len(q[p]) - (k[p] + 1) + 1 :
             SubSeq(q[p], k[p] + 1, Len(q[p]))[i] = q[p][k[p] + 1 + i - 1]
    BY <2>1, SubSeqProperties
  <2> QED
    BY <1>1, <2>2
<1>4. Before(q, k) \in Queues(S)
  <2>1. Before(q, k) \in [Priorities -> Seq(S)]
    BY <1>2 DEF Before
  <2>2. ASSUME NEW p \in Priorities PROVE Len(Before(q, k)[p]) <= QueueBound
    <3>1. Before(q, k)[p] = SubSeq(q[p], 1, k[p])
      BY DEF Before
    <3>2. Len(Before(q, k)[p]) = k[p]
      BY <1>2, <3>1
    <3> QED
      BY <1>1, <3>2, BoundsAssumption
  <2> QED
    BY <2>1, <2>2 DEF Queues
<1>5. After(q, k) \in Queues(S)
  <2>1. After(q, k) \in [Priorities -> Seq(S)]
    BY <1>3 DEF After
  <2>2. ASSUME NEW p \in Priorities PROVE Len(After(q, k)[p]) <= QueueBound
    <3>1. After(q, k)[p] = SubSeq(q[p], k[p] + 1, Len(q[p]))
      BY DEF After
    <3>2. Len(After(q, k)[p]) = Len(q[p]) - k[p]
      BY <1>3, <3>1
    <3> QED
      BY <1>1, <3>2, BoundsAssumption
  <2> QED
    BY <2>1, <2>2 DEF Queues
<1>6. ASSUME NEW p \in Priorities, NEW i \in 1 .. Len(Before(q, k)[p])
      PROVE  i \in 1 .. Len(q[p]) /\ Before(q, k)[p][i] = q[p][i]
  BY <1>1, <1>2 DEF Before
<1>7. ASSUME NEW p \in Priorities, NEW i \in 1 .. Len(After(q, k)[p])
      PROVE  \E j \in k[p] + 1 .. Len(q[p]) : After(q, k)[p][i] = q[p][j]
  <2>1. After(q, k)[p] = SubSeq(q[p], k[p] + 1, Len(q[p]))
    BY DEF After
  <2>2. i \in 1 .. Len(q[p]) - k[p]
    BY <1>3, <2>1
  <2>3. k[p] + i \in k[p] + 1 .. Len(q[p])
    BY <1>1, <2>2
  <2> QED
    BY <1>3, <2>1, <2>2, <2>3
<1> QED
  BY <1>4, <1>5, <1>6, <1>7

\* A packet of a queue is one of the set.
LEMMA QueueElement ==
  ASSUME NEW S, NEW q \in Queues(S), NEW p \in Priorities, NEW i \in 1 .. Len(q[p])
  PROVE  q[p][i] \in S
BY DEF Queues

\* Packets that are all of T as well.
LEMMA QueuesOfSubset ==
  ASSUME NEW S, NEW T, NEW q \in Queues(S),
         \A p \in Priorities : \A i \in 1 .. Len(q[p]) : q[p][i] \in T
  PROVE  q \in Queues(T)
<1>1. ASSUME NEW p \in Priorities PROVE q[p] \in Seq(T) /\ Len(q[p]) <= QueueBound
  BY DEF Queues
<1>2. q \in [Priorities -> Seq(T)]
  BY <1>1 DEF Queues
<1> QED
  BY <1>1, <1>2 DEF Queues

LEMMA EmptyQueues ==
  ASSUME NEW S
  PROVE  [p \in Priorities |-> << >>] \in Queues(S)
<1>1. << >> \in Seq(S) /\ Len(<< >>) = 0
  OBVIOUS
<1> QED
  BY <1>1, BoundsAssumption DEF Queues

-----------------------------------------------------------------------------
(* The inductive invariant. *)

\* Replies and progress updates, those of "execute" about their own request.
Honest == {pkt \in FromRobot : pkt.action = "execute" => pkt.about = pkt.call}

\* Packets that the host sent in one of its starts.
FromStart(start) == {pkt \in FromHost : pkt.start = start}

Handlers == {hs \in [Actions -> Handler] : \A a \in Actions : hs[a].state \in StatesOf(a)}
Controllers == [started : BOOLEAN, finished : BOOLEAN]
Clients == [Actions -> [state : {"idle", "waiting"}, id : Nat, call : Nat, callback : Nat]]

LinkInv ==
  /\ toRobot \in Queues(FromHost) /\ toHost \in Queues(Honest)
  /\ starts \in [{"host", "robot"} -> Nat] /\ unheard \subseteq {"host", "robot"}
RobotInv == handler \in Handlers /\ controller \in Controllers /\ turn \in 1 .. PacketTurn
HostInv == client \in Clients /\ calls \in 0 .. MaxCalls

\* The controller follows a trajectory only for a handler that watches it.
Following ==
  controller.started =>
    /\ ~controller.finished
    /\ "execute" \in Actions /\ handler["execute"].running
    /\ handler["execute"].state \in {"wait", "sendingProgress"}

\* While "execute" runs it has looked at its request.
Looked ==
  "execute" \in Actions /\ handler["execute"].running =>
    /\ handler["execute"].state # "processing"
    /\ handler["execute"].about = handler["execute"].call

\* What the robot has and gets is of the start that it has noticed.
Current ==
  "host" \notin unheard =>
    /\ toRobot \in Queues(FromStart(starts["host"]))
    /\ \A a \in Actions : handler[a].running => handler[a].start = starts["host"]

IInv == LinkInv /\ RobotInv /\ HostInv /\ Following /\ Looked /\ Current

-----------------------------------------------------------------------------
(* A step of a handler in the server. *)

\* What Run() returned is what the handler is afterwards.
LEMMA AfterRunHandler ==
  ASSUME handler \in Handlers, NEW a \in Actions, NEW r \in Run, r.h.state \in StatesOf(a),
         AfterRun(a, r)
  PROVE  /\ handler' \in Handlers
         /\ \A b \in Actions \ {a} : handler'[b] = handler[b]
         /\ handler'[a].running = r.more /\ handler'[a].state = r.h.state
         /\ handler'[a].call = r.h.call /\ handler'[a].about = r.h.about
         /\ handler'[a].start = r.h.start
<1> DEFINE n == IF r.message # "none" /\ r.h.sent <= r.h.updates THEN r.h.sent + 1 ELSE r.h.sent
           f == [r.h EXCEPT !.running = r.more]
           g == [r.h EXCEPT !.running = r.more, !.sent = n]
<1>1. r.h \in Handler /\ r.more \in BOOLEAN
  BY DEF Run
<1>2. n \in Nat
  BY <1>1 DEF Handler
<1>3. /\ f \in Handler /\ f.running = r.more /\ f.state = r.h.state
      /\ f.call = r.h.call /\ f.about = r.h.about /\ f.start = r.h.start
  BY <1>1 DEF Handler
<1>4. g = [f EXCEPT !.sent = n]
  OBVIOUS
<1>5. handler' = [handler EXCEPT ![a] = g]
  BY DEF AfterRun
<1> HIDE DEF n, f
<1>6. /\ g \in Handler /\ g.running = r.more /\ g.state = r.h.state
      /\ g.call = r.h.call /\ g.about = r.h.about /\ g.start = r.h.start
  BY <1>2, <1>3, <1>4 DEF Handler
<1> HIDE DEF g
<1> QED
  BY <1>5, <1>6 DEF Handlers

\* What it sent reports on what the handler last looked at.
LEMMA AfterRunQueue ==
  ASSUME LinkInv, NEW a \in Actions, NEW r \in Run, AfterRun(a, r),
         a = "execute" => r.h.about = r.h.call
  PROVE  toHost' \in Queues(Honest)
<1> DEFINE pkt == ResponsePacket(r.message, a, r.h)
<1>1. r.h.id \in Nat /\ r.h.call \in Nat /\ r.h.about \in Nat /\ starts["robot"] \in Nat
  BY DEF Run, Handler, LinkInv
<1>2. CASE r.message = "none"
  BY <1>2 DEF AfterRun, LinkInv
<1>3. CASE r.message # "none"
  <2>1. HasRoom(toHost[PriorityOf[a]])
        /\ toHost' = [toHost EXCEPT ![PriorityOf[a]] = Append(@, pkt)]
    BY <1>3 DEF AfterRun
  <2>2. pkt \in FromRobot /\ pkt.action = a /\ pkt.about = r.h.about /\ pkt.call = r.h.call
    BY <1>1, <1>3 DEF ResponsePacket, FromRobot, Run
  <2>3. pkt \in Honest
    BY <2>2 DEF Honest
  <2> HIDE DEF pkt
  <2> QED
    BY <2>1, <2>3, AppendQueue, PriorityOfAction DEF LinkInv
<1> QED
  BY <1>2, <1>3

\* Run() of a handler that is running, or of one that gets a new request.
LEMMA Serve ==
  ASSUME IInv, NEW a \in Actions, NEW h \in Handler, h.state \in StatesOf(a), NEW o \in Outcome,
         AfterRun(a, HandlerRun(a, h, o)),
         a = "execute" =>
           \/ h.state = "processing" /\ ~controller.started
           \/ /\ h.state # "processing" /\ h.about = h.call
              /\ controller.started => h.state \in {"wait", "sendingProgress"}
  PROVE  /\ toHost' \in Queues(Honest)
         /\ handler' \in Handlers /\ controller' \in Controllers
         /\ Following' /\ Looked'
         /\ handler'[a].start = h.start
         /\ \A b \in Actions \ {a} : handler'[b] = handler[b]
<1> DEFINE r == HandlerRun(a, h, o)
<1>1. /\ r \in Run /\ SameRequest(r.h, h) /\ r.h.state \in StatesOf(a)
      /\ IF a = "execute" THEN ExecuteRunIsSound(h, r) ELSE ~r.starts
  BY HandlerRunType
<1>2. AfterRun(a, r) /\ controller' = IF r.starts THEN Started ELSE controller
  BY DEF AfterRun
<1> HIDE DEF r
<1>3. /\ handler' \in Handlers
      /\ \A b \in Actions \ {a} : handler'[b] = handler[b]
      /\ handler'[a].running = r.more /\ handler'[a].state = r.h.state
      /\ handler'[a].call = r.h.call /\ handler'[a].about = r.h.about
      /\ handler'[a].start = r.h.start
  BY <1>1, <1>2, AfterRunHandler DEF IInv, RobotInv
<1>4. controller' \in Controllers
  BY <1>2 DEF IInv, RobotInv, Controllers, Started
<1>5. a = "execute" => r.h.about = r.h.call
  BY <1>1 DEF ExecuteRunIsSound, SameRequest
<1>6. toHost' \in Queues(Honest)
  BY <1>1, <1>2, <1>5, AfterRunQueue DEF IInv
<1>7. CASE a = "execute"
  <2>1. Looked'
    BY <1>1, <1>3, <1>5, <1>7 DEF Looked, ExecuteRunIsSound
  <2>2. ASSUME r.starts PROVE Following'
    <3>1. controller' = Started
      BY <1>2, <2>2
    <3>2. controller'.finished = FALSE
      BY <3>1 DEF Started
    <3>3. handler'["execute"].running /\ handler'["execute"].state = "wait"
      BY <1>1, <1>3, <1>7, <2>2 DEF ExecuteRunIsSound
    <3> QED
      BY <1>7, <3>2, <3>3 DEF Following
  <2>3. ASSUME ~r.starts /\ controller.started PROVE Following'
    <3>1. controller' = controller
      BY <1>2, <2>3
    <3>2. ~controller.finished /\ h.state \in {"wait", "sendingProgress"}
      BY <1>7, <2>3 DEF IInv, Following
    <3>3. handler'["execute"].running /\ handler'["execute"].state \in {"wait", "sendingProgress"}
      BY <1>1, <1>3, <1>7, <3>2 DEF ExecuteRunIsSound
    <3> QED
      BY <1>7, <3>1, <3>2, <3>3 DEF Following
  <2>4. ASSUME ~r.starts /\ ~controller.started PROVE Following'
    <3>1. controller' = controller
      BY <1>2, <2>4
    <3> QED
      BY <2>4, <3>1 DEF Following
  <2> QED
    BY <1>1, <1>3, <1>4, <1>6, <2>1, <2>2, <2>3, <2>4 DEF SameRequest
<1>8. CASE a # "execute"
  <2>1. controller' = controller
    BY <1>1, <1>2, <1>8
  <2>2. "execute" \in Actions => handler'["execute"] = handler["execute"]
    BY <1>3, <1>8
  <2>3. Following' /\ Looked'
    BY <2>1, <2>2 DEF IInv, Following, Looked
  <2> QED
    BY <1>1, <1>3, <1>4, <1>6, <2>3 DEF SameRequest
<1> QED
  BY <1>7, <1>8

-----------------------------------------------------------------------------
(* Every step keeps the invariant. *)

LEMMA InitIInv == Init => IInv
<1> SUFFICES ASSUME Init PROVE IInv
  OBVIOUS
<1>1. LinkInv
  BY EmptyQueues DEF Init, LinkInv
<1>2. handler \in Handlers
  BY KnownActions DEF Init, Handlers, NewHandler, Handler, States, StatesOf
<1>3. RobotInv
  BY <1>2, OrderIsSeq DEF Init, RobotInv, Controllers, Stopped
<1>4. HostInv
  BY BoundsAssumption DEF Init, HostInv, Clients, IdleClient
<1>5. Following /\ Looked /\ Current
  BY DEF Init, Following, Looked, Current, Stopped, NewHandler
<1> QED
  BY <1>1, <1>3, <1>4, <1>5 DEF IInv

\* A packet that the host commits.
LEMMA HostSends ==
  ASSUME IInv, NEW p \in Priorities, HasRoom(toRobot[p]), NEW pkt \in FromHost,
         pkt.start = starts["host"], toRobot' = [toRobot EXCEPT ![p] = Append(@, pkt)],
         UNCHANGED <<toHost, starts, unheard, robotVars>>
  PROVE  LinkInv' /\ RobotInv' /\ Following' /\ Looked' /\ Current'
<1>1. toRobot' \in Queues(FromHost)
  BY AppendQueue DEF IInv, LinkInv
<1>2. ASSUME toRobot \in Queues(FromStart(starts["host"]))
      PROVE  toRobot' \in Queues(FromStart(starts["host"]))
  <2>1. pkt \in FromStart(starts["host"])
    BY DEF FromStart
  <2> QED
    BY <1>2, <2>1, AppendQueue
<1> QED
  BY <1>1, <1>2 DEF IInv, LinkInv, RobotInv, Following, Looked, Current, robotVars

LEMMA RequestStep ==
  ASSUME IInv, NEW a \in Actions, Request(a)
  PROVE  IInv'
<1> DEFINE id == client[a].id + 1
<1>1. id \in Nat /\ calls + 1 \in 1 .. MaxCalls
  BY BoundsAssumption DEF IInv, HostInv, Clients, Request
<1>2. PICK updates \in IF a = "monitor" THEN Updates ELSE {1} :
        toRobot' = [toRobot EXCEPT ![PriorityOf[a]] =
                      Append(@, RequestPacket(a, id, calls + 1, updates))]
  BY DEF Request
<1>3. /\ RequestPacket(a, id, calls + 1, updates) \in FromHost
      /\ RequestPacket(a, id, calls + 1, updates).start = starts["host"]
  BY <1>1, BoundsAssumption DEF RequestPacket, FromHost, IInv, LinkInv
<1>4. LinkInv' /\ RobotInv' /\ Following' /\ Looked' /\ Current'
  BY <1>2, <1>3, HostSends, PriorityOfAction DEF Request
<1>5. HostInv'
  BY <1>1 DEF Request, IInv, HostInv, Clients
<1> QED
  BY <1>4, <1>5 DEF IInv

LEMMA CancelStep ==
  ASSUME IInv, NEW a \in Actions, Cancel(a)
  PROVE  IInv'
<1>1. CancelPacket(a) \in FromHost /\ CancelPacket(a).start = starts["host"]
  BY DEF CancelPacket, FromHost, IInv, LinkInv, HostInv, Clients
<1>2. LinkInv' /\ RobotInv' /\ Following' /\ Looked' /\ Current'
  BY <1>1, HostSends, PriorityOfAction DEF Cancel
<1>3. HostInv'
  BY DEF Cancel, IInv, HostInv, Clients
<1> QED
  BY <1>2, <1>3 DEF IInv

LEMMA RequestRefusedStep ==
  ASSUME IInv, NEW a \in Actions, RequestRefused(a)
  PROVE  IInv'
<1>1. calls + 1 \in 0 .. MaxCalls
  BY BoundsAssumption DEF RequestRefused, IInv, HostInv
<1>2. client' = [client EXCEPT ![a].callback = calls + 1] /\ calls' = calls + 1
  BY DEF RequestRefused
<1>3. HostInv'
  BY <1>1, <1>2 DEF IInv, HostInv, Clients
<1> QED
  BY <1>3 DEF RequestRefused, IInv, LinkInv, RobotInv, Following, Looked, Current,
              linkVars, robotVars

\* What is left of the queues towards the host is honest.
LEMMA Arrival ==
  ASSUME NEW S, NEW queues \in Queues(S), NEW sender, NEW receiver,
         NEW p \in Arrived(queues, sender, receiver)
  PROVE  /\ p \in Priorities /\ Head(queues[p]) \in S
         /\ [queues EXCEPT ![p] = Tail(@)] \in Queues(S)
BY TailQueue DEF Arrived

LEMMA ClientRunStep ==
  ASSUME IInv, ClientRun
  PROVE  IInv'
<1>1. PICK p \in Arrived(toHost, "robot", "host") :
        LET pkt == Head(toHost[p])
            a == pkt.action IN
        /\ toHost' = [toHost EXCEPT ![p] = Tail(@)]
        /\ \/ client' = [client EXCEPT ![a].state = "idle"]
           \/ client' = client
  BY DEF ClientRun
<1>2. toHost' \in Queues(Honest)
  BY <1>1, Arrival DEF IInv, LinkInv
<1>3. client' \in Clients
  BY <1>1 DEF IInv, HostInv, Clients
<1> QED
  BY <1>2, <1>3 DEF ClientRun, IInv, LinkInv, RobotInv, HostInv, Following, Looked, Current,
                    robotVars

LEMMA RunHandlerStep ==
  ASSUME IInv, NEW o \in Outcome, RunHandler(o)
  PROVE  IInv'
<1> DEFINE a == Order[turn]
<1>1. turn \in DOMAIN Order /\ a \in Actions /\ turn' \in 1 .. PacketTurn
  BY OrderIsSeq DEF RunHandler
<1>2. UNCHANGED <<toRobot, starts, unheard, client, calls>>
  BY DEF RunHandler, hostVars
<1> HIDE DEF a
<1>3. CASE ~handler[a].running /\ UNCHANGED <<toHost, handler, controller>>
  BY <1>1, <1>2, <1>3 DEF IInv, LinkInv, RobotInv, HostInv, Following, Looked, Current
<1>4. CASE handler[a].running /\ AfterRun(a, HandlerRun(a, handler[a], o))
  <2>1. handler[a] \in Handler /\ handler[a].state \in StatesOf(a)
    BY <1>1 DEF IInv, RobotInv, Handlers
  <2>2. a = "execute" =>
          /\ handler[a].state # "processing" /\ handler[a].about = handler[a].call
          /\ controller.started => handler[a].state \in {"wait", "sendingProgress"}
    BY <1>1, <1>4 DEF IInv, Following, Looked
  <2>3. /\ toHost' \in Queues(Honest)
        /\ handler' \in Handlers /\ controller' \in Controllers
        /\ Following' /\ Looked'
        /\ handler'[a].start = handler[a].start
        /\ \A b \in Actions \ {a} : handler'[b] = handler[b]
    BY <1>1, <1>4, <2>1, <2>2, Serve
  <2>4. LinkInv' /\ RobotInv' /\ HostInv'
    BY <1>1, <1>2, <2>3 DEF IInv, LinkInv, RobotInv, HostInv
  <2>5. Current'
    BY <1>2, <1>4, <2>3 DEF IInv, Current
  <2> QED
    BY <2>3, <2>4, <2>5 DEF IInv
<1> QED
  BY <1>3, <1>4 DEF RunHandler, a

LEMMA NoPacketStep ==
  ASSUME IInv, NoPacket
  PROVE  IInv'
<1>1. turn' \in 1 .. PacketTurn
  BY OrderIsSeq DEF NoPacket
<1> QED
  BY <1>1 DEF NoPacket, linkVars, hostVars, IInv, LinkInv, RobotInv, HostInv,
              Following, Looked, Current

\* What a packet does to its action's handler.
LEMMA StartActionStep ==
  ASSUME IInv, NEW pkt \in FromHost, NEW o \in Outcome, StartAction(pkt, o)
  PROVE  /\ toHost' \in Queues(Honest)
         /\ handler' \in Handlers /\ controller' \in Controllers
         /\ Following' /\ Looked'
         /\ \A a \in Actions : \/ handler'[a] = handler[a]
                               \/ handler'[a].start = pkt.start
<1> DEFINE a == pkt.action
           f == [handler[a] EXCEPT !.id = pkt.id, !.call = pkt.call, !.updates = pkt.updates,
                                   !.sent = 0, !.start = pkt.start]
           h == OnRequest(a, f)
<1>1. /\ a \in Actions /\ pkt.id \in Nat /\ pkt.call \in Nat
      /\ pkt.updates \in Nat /\ pkt.start \in Nat
  BY DEF FromHost
<1>2. handler[a] \in Handler /\ handler[a].state \in StatesOf(a)
  BY <1>1 DEF IInv, RobotInv, Handlers
<1>3. f \in Handler /\ f.state = handler[a].state /\ f.start = pkt.start
  <2> DEFINE f1 == [handler[a] EXCEPT !.id = pkt.id]
             f2 == [f1 EXCEPT !.call = pkt.call]
             f3 == [f2 EXCEPT !.updates = pkt.updates]
             f4 == [f3 EXCEPT !.sent = 0]
             f5 == [f4 EXCEPT !.start = pkt.start]
  <2>0. f = f5
    OBVIOUS
  <2> HIDE DEF a, f
  <2>1. f1 \in Handler /\ f1.state = handler[a].state
    BY <1>1, <1>2 DEF Handler
  <2> HIDE DEF f1
  <2>2. f2 \in Handler /\ f2.state = handler[a].state
    BY <1>1, <2>1 DEF Handler
  <2> HIDE DEF f2
  <2>3. f3 \in Handler /\ f3.state = handler[a].state
    BY <1>1, <2>2 DEF Handler
  <2> HIDE DEF f3
  <2>4. f4 \in Handler /\ f4.state = handler[a].state
    BY <2>3 DEF Handler
  <2> HIDE DEF f4
  <2>5. f5 \in Handler /\ f5.state = handler[a].state /\ f5.start = pkt.start
    BY <1>1, <2>4 DEF Handler
  <2> QED
    BY <2>0, <2>5
<1>4. ~handler[a].running /\ AfterRun(a, HandlerRun(a, h, o))
  BY DEF StartAction
<1> HIDE DEF a, f
<1>5. /\ h \in Handler /\ h.state \in StatesOf(a) /\ h.start = pkt.start
      /\ a = "execute" => h.state = "processing"
  <2>1. CASE a = "execute"
    <3>1. h = [f EXCEPT !.state = "processing"]
      BY <2>1 DEF OnRequest
    <3> HIDE DEF h
    <3>2. h \in Handler /\ SameRequest(h, f) /\ h.state = "processing"
      BY <1>3, <3>1, WithState DEF States
    <3> QED
      BY <1>3, <2>1, <3>2 DEF SameRequest, StatesOf
  <2>2. CASE a # "execute"
    BY <1>2, <1>3, <2>2 DEF OnRequest
  <2> QED
    BY <2>1, <2>2
<1>6. a = "execute" => ~controller.started
  BY <1>4 DEF IInv, Following
<1> HIDE DEF h
<1>7. /\ toHost' \in Queues(Honest)
      /\ handler' \in Handlers /\ controller' \in Controllers
      /\ Following' /\ Looked'
      /\ handler'[a].start = h.start
      /\ \A b \in Actions \ {a} : handler'[b] = handler[b]
  BY <1>1, <1>4, <1>5, <1>6, Serve
<1> QED
  BY <1>5, <1>7

LEMMA CancelActionStep ==
  ASSUME IInv, NEW pkt \in FromHost, CancelAction(pkt)
  PROVE  /\ toHost' = toHost
         /\ handler' \in Handlers /\ controller' \in Controllers
         /\ Following' /\ Looked'
         /\ \A a \in Actions : handler'[a] = handler[a] \/ ~handler'[a].running
<1> DEFINE a == pkt.action
           h == [handler[a] EXCEPT !.running = FALSE]
<1>1. a \in Actions /\ toHost' = toHost
  BY DEF FromHost, CancelAction
<1>2. CASE UNCHANGED <<handler, controller>>
  BY <1>1, <1>2 DEF IInv, RobotInv, Following, Looked
<1>3. CASE handler' = [handler EXCEPT ![a].running = FALSE]
           /\ controller' = OnCancel(a, controller)
  <2>1. handler[a] \in Handler /\ handler[a].state \in StatesOf(a)
    BY <1>1 DEF IInv, RobotInv, Handlers
  <2>2. handler' = [handler EXCEPT ![a] = h]
    BY <1>3
  <2> HIDE DEF a
  <2>3. h \in Handler /\ h.state = handler[a].state /\ ~h.running
    BY <2>1 DEF Handler
  <2> HIDE DEF h
  <2>4. /\ handler' \in Handlers /\ ~handler'[a].running
        /\ \A b \in Actions \ {a} : handler'[b] = handler[b]
    BY <1>1, <2>1, <2>2, <2>3 DEF IInv, RobotInv, Handlers
  <2>5. /\ controller' \in Controllers
        /\ IF a = "execute" THEN ~controller'.started ELSE controller' = controller
    BY <1>3 DEF IInv, RobotInv, Controllers, OnCancel
  <2>6. Following'
    BY <2>4, <2>5 DEF IInv, Following
  <2>7. Looked'
    BY <2>4 DEF IInv, Looked
  <2> QED
    BY <1>1, <2>4, <2>5, <2>6, <2>7
<1> QED
  BY <1>2, <1>3 DEF CancelAction

LEMMA TakePacketStep ==
  ASSUME IInv, NEW p \in Priorities, NEW o \in Outcome, TakePacket(p, o)
  PROVE  IInv'
<1> DEFINE pkt == Head(toRobot[p])
<1>1. /\ p \in Arrived(toRobot, "host", "robot") /\ turn' \in 1 .. PacketTurn
      /\ toRobot' = [toRobot EXCEPT ![p] = Tail(@)]
      /\ UNCHANGED <<starts, unheard, client, calls>>
  BY OrderIsSeq DEF TakePacket, hostVars
<1>2. pkt \in FromHost /\ toRobot' \in Queues(FromHost)
  BY <1>1, Arrival DEF IInv, LinkInv
<1>3. ASSUME "host" \notin unheard
      PROVE  pkt.start = starts["host"] /\ toRobot' \in Queues(FromStart(starts["host"]))
  <2>1. pkt \in FromStart(starts["host"]) /\ toRobot' \in Queues(FromStart(starts["host"]))
    BY <1>1, <1>3, Arrival DEF IInv, Current
  <2> QED
    BY <2>1 DEF FromStart
<1> HIDE DEF pkt
<1>4. /\ toHost' \in Queues(Honest)
      /\ handler' \in Handlers /\ controller' \in Controllers
      /\ Following' /\ Looked'
      /\ \A a \in Actions : \/ handler'[a] = handler[a]
                            \/ handler'[a].start = pkt.start
                            \/ ~handler'[a].running
  <2>1. CASE StartAction(pkt, o)
    BY <1>2, <2>1, StartActionStep
  <2>2. CASE DropRequest(pkt)
    BY <2>2 DEF DropRequest, IInv, LinkInv, RobotInv, Following, Looked
  <2>3. CASE CancelAction(pkt)
    BY <1>2, <2>3, CancelActionStep DEF IInv, LinkInv
  <2> QED
    BY <2>1, <2>2, <2>3 DEF TakePacket, pkt
<1>5. LinkInv' /\ RobotInv' /\ HostInv'
  BY <1>1, <1>2, <1>4 DEF IInv, LinkInv, RobotInv, HostInv
<1>6. Current'
  BY <1>1, <1>3, <1>4 DEF IInv, Current
<1> QED
  BY <1>4, <1>5, <1>6 DEF IInv

LEMMA FinishTrajectoryStep ==
  ASSUME IInv, FinishTrajectory
  PROVE  IInv'
<1>1. controller' \in Controllers /\ ~controller'.started
  BY DEF FinishTrajectory, Controllers
<1> QED
  BY <1>1 DEF FinishTrajectory, linkVars, hostVars, IInv, LinkInv, RobotInv, HostInv,
              Following, Looked, Current

LEMMA LoseProgressStep ==
  ASSUME IInv, NEW p \in Priorities, LoseProgress(p)
  PROVE  IInv'
<1>1. toHost' \in Queues(Honest)
  BY TailQueue DEF LoseProgress, IInv, LinkInv
<1> QED
  BY <1>1 DEF LoseProgress, robotVars, hostVars, IInv, LinkInv, RobotInv, HostInv,
              Following, Looked, Current

\* The queue towards a computer, after the packets of other starts were dropped.
LEMMA OnlyOfStart ==
  ASSUME NEW queues \in Queues(FromHost), NEW k \in Cuts(queues), NEW start,
         \A p \in Priorities : OneStartAfter(queues[p], k[p], start)
  PROVE  After(queues, k) \in Queues(FromStart(start))
<1>1. ASSUME NEW p \in Priorities, NEW i \in 1 .. Len(After(queues, k)[p])
      PROVE  After(queues, k)[p][i] \in FromStart(start)
  <2>1. PICK j \in k[p] + 1 .. Len(queues[p]) : After(queues, k)[p][i] = queues[p][j]
    BY CutQueues
  <2>2. j \in 1 .. Len(queues[p]) /\ queues[p][j].start = start
    BY <2>1 DEF OneStartAfter, Cuts, Queues
  <2> QED
    BY <2>1, <2>2, QueueElement DEF FromStart
<1>2. After(queues, k) \in Queues(FromHost)
  BY CutQueues
<1> QED
  BY <1>1, <1>2, QueuesOfSubset

LEMMA RobotNoticesHostStep ==
  ASSUME IInv, RobotNoticesHost
  PROVE  IInv'
<1>1. PICK k \in Cuts(toRobot) :
        /\ \A p \in Priorities : OneStartAfter(toRobot[p], k[p], starts["host"])
        /\ toRobot' = After(toRobot, k)
  BY DEF RobotNoticesHost
<1>2. toRobot' \in Queues(FromHost) /\ toRobot' \in Queues(FromStart(starts["host"]))
  BY <1>1, CutQueues, OnlyOfStart DEF IInv, LinkInv
<1>3. handler' \in Handlers /\ \A a \in Actions : ~handler'[a].running
  <2>1. ASSUME NEW a \in Actions
        PROVE  /\ handler'[a] \in Handler /\ handler'[a].state \in StatesOf(a)
               /\ ~handler'[a].running
    <3>1. handler[a] \in Handler /\ handler[a].state \in StatesOf(a)
      BY DEF IInv, RobotInv, Handlers
    <3>2. handler'[a] = [handler[a] EXCEPT !.running = FALSE]
      BY DEF RobotNoticesHost
    <3> QED
      BY <3>1, <3>2 DEF Handler
  <2>2. handler' = [a \in Actions |-> handler'[a]]
    BY DEF RobotNoticesHost
  <2> QED
    BY <2>1, <2>2 DEF Handlers
<1>4. controller' \in Controllers /\ ~controller'.started
  BY DEF RobotNoticesHost, OnCancel, IInv, RobotInv, Controllers
<1>5. unheard' \subseteq {"host", "robot"} /\ UNCHANGED <<toHost, starts, turn, client, calls>>
  BY DEF RobotNoticesHost, hostVars, IInv, LinkInv
<1>6. LinkInv' /\ RobotInv' /\ HostInv'
  BY <1>2, <1>3, <1>4, <1>5 DEF IInv, LinkInv, RobotInv, HostInv
<1>7. Following' /\ Looked' /\ Current'
  BY <1>2, <1>3, <1>4, <1>5 DEF Following, Looked, Current
<1> QED
  BY <1>6, <1>7 DEF IInv

LEMMA HostNoticesRobotStep ==
  ASSUME IInv, HostNoticesRobot
  PROVE  IInv'
<1>1. toHost' \in Queues(Honest)
  BY CutQueues DEF HostNoticesRobot, IInv, LinkInv
<1>2. client' \in Clients
  BY DEF HostNoticesRobot, IInv, HostInv, Clients
<1>3. /\ unheard' = unheard \ {"robot"}
      /\ UNCHANGED <<toRobot, starts, handler, controller, turn, calls>>
  BY DEF HostNoticesRobot, robotVars
<1>4. LinkInv' /\ RobotInv' /\ HostInv'
  BY <1>1, <1>2, <1>3 DEF IInv, LinkInv, RobotInv, HostInv
<1>5. Following' /\ Looked' /\ Current'
  BY <1>3 DEF IInv, Following, Looked, Current
<1> QED
  BY <1>4, <1>5 DEF IInv

LEMMA Restarted ==
  ASSUME IInv, NEW computer \in {"host", "robot"}, Restart(computer)
  PROVE  /\ starts' \in [{"host", "robot"} -> Nat] /\ unheard' \subseteq {"host", "robot"}
         /\ unheard' = unheard \cup {computer}
         /\ computer = "robot" => starts'["host"] = starts["host"]
BY DEF Restart, IInv, LinkInv

LEMMA RobotRestartStep ==
  ASSUME IInv, RobotRestart
  PROVE  IInv'
<1>1. PICK k \in Cuts(toRobot) : toRobot' = After(toRobot, k)
  BY DEF RobotRestart, LostWithReceiver
<1>2. toRobot' \in Queues(FromHost)
  BY <1>1, CutQueues DEF IInv, LinkInv
<1>3. toHost' \in Queues(Honest)
  BY CutQueues DEF RobotRestart, LeftBySender, IInv, LinkInv
<1>4. /\ starts' \in [{"host", "robot"} -> Nat] /\ unheard' \subseteq {"host", "robot"}
      /\ unheard' = unheard \cup {"robot"} /\ starts'["host"] = starts["host"]
  BY Restarted DEF RobotRestart
<1>5. handler' \in Handlers /\ \A a \in Actions : ~handler'[a].running
  BY KnownActions DEF RobotRestart, Handlers, NewHandler, Handler, States, StatesOf
<1>6. /\ controller' \in Controllers /\ ~controller'.started /\ turn' \in 1 .. PacketTurn
      /\ UNCHANGED <<client, calls>>
  BY OrderIsSeq DEF RobotRestart, Stopped, Controllers, hostVars
<1>7. LinkInv' /\ RobotInv' /\ HostInv'
  BY <1>2, <1>3, <1>4, <1>5, <1>6 DEF IInv, LinkInv, RobotInv, HostInv
<1>8. Following' /\ Looked'
  BY <1>5, <1>6 DEF Following, Looked
<1>9. Current'
  <2>1. ASSUME "host" \notin unheard
        PROVE  toRobot' \in Queues(FromStart(starts["host"]))
    BY <1>1, <2>1, CutQueues DEF IInv, Current
  <2> QED
    BY <1>4, <1>5, <2>1 DEF Current
<1> QED
  BY <1>7, <1>8, <1>9 DEF IInv

LEMMA HostRestartStep ==
  ASSUME IInv, HostRestart
  PROVE  IInv'
<1>1. toHost' \in Queues(Honest)
  BY CutQueues DEF HostRestart, LostWithReceiver, IInv, LinkInv
<1>2. toRobot' \in Queues(FromHost)
  BY CutQueues DEF HostRestart, LeftBySender, IInv, LinkInv
<1>3. /\ starts' \in [{"host", "robot"} -> Nat] /\ unheard' \subseteq {"host", "robot"}
      /\ "host" \in unheard'
  BY Restarted DEF HostRestart
<1>4. client' \in Clients
  BY DEF HostRestart, IdleClient, Clients
<1>5. UNCHANGED <<handler, controller, turn, calls>>
  BY DEF HostRestart, robotVars
<1>6. LinkInv' /\ RobotInv' /\ HostInv'
  BY <1>1, <1>2, <1>3, <1>4, <1>5 DEF IInv, LinkInv, RobotInv, HostInv
<1>7. Following' /\ Looked' /\ Current'
  BY <1>3, <1>5 DEF IInv, Following, Looked, Current
<1> QED
  BY <1>6, <1>7 DEF IInv

LEMMA StutterStep ==
  ASSUME IInv, UNCHANGED vars
  PROVE  IInv'
BY DEF vars, linkVars, robotVars, hostVars, IInv, LinkInv, RobotInv, HostInv,
       Following, Looked, Current

LEMMA Invariance == Spec => []IInv
<1>1. Init => IInv
  BY InitIInv
<1>2. IInv /\ [Next]_vars => IInv'
  BY RequestStep, RequestRefusedStep, CancelStep, ClientRunStep, RunHandlerStep, TakePacketStep,
     NoPacketStep, FinishTrajectoryStep, LoseProgressStep, RobotNoticesHostStep,
     HostNoticesRobotStep, RobotRestartStep, HostRestartStep, StutterStep DEF Next
<1> QED
  BY <1>1, <1>2, PTL DEF Spec

-----------------------------------------------------------------------------
(* Where the one answer of a call is. A call is answered through its        *)
(* request on the way to the robot, the handler that runs it, its reply on  *)
(* the way to the host, and the callback; it is never at two of these.      *)

\* A queue carries a packet of a call; two such packets of one call are the same.
Carries(q, stage, call) ==
  \E p \in Priorities : \E i \in 1 .. Len(q[p]) : q[p][i].stage = stage /\ q[p][i].call = call
Single(q, stage) ==
  \A p, r \in Priorities : \A i \in 1 .. Len(q[p]), j \in 1 .. Len(q[r]) :
    q[p][i].stage = stage /\ q[r][j].stage = stage /\ q[p][i].call = q[r][j].call => p = r /\ i = j

\* The packets of new are those of old, from some of each queue's on.
PartOf(new, old) ==
  \E shift \in [Priorities -> Nat] : \A p \in Priorities : \A i \in 1 .. Len(new[p]) :
    i + shift[p] \in 1 .. Len(old[p]) /\ new[p][i] = old[p][i + shift[p]]

\* A queue with a packet added, and without its first.
Added(q, p, pkt) == [q EXCEPT ![p] = Append(@, pkt)]
Taken(q, p) == [q EXCEPT ![p] = Tail(@)]

LEMMA PartCarries ==
  ASSUME NEW new, NEW old, PartOf(new, old), NEW stage
  PROVE  /\ \A call : Carries(new, stage, call) => Carries(old, stage, call)
         /\ Single(old, stage) => Single(new, stage)
<1>1. PICK shift \in [Priorities -> Nat] : \A p \in Priorities : \A i \in 1 .. Len(new[p]) :
        i + shift[p] \in 1 .. Len(old[p]) /\ new[p][i] = old[p][i + shift[p]]
  BY DEF PartOf
<1>2. ASSUME NEW call, Carries(new, stage, call) PROVE Carries(old, stage, call)
  BY <1>1, <1>2 DEF Carries
<1>3. ASSUME Single(old, stage),
             NEW p \in Priorities, NEW r \in Priorities, NEW i \in 1 .. Len(new[p]), NEW j \in 1 .. Len(new[r]),
             new[p][i].stage = stage, new[r][j].stage = stage, new[p][i].call = new[r][j].call
      PROVE  p = r /\ i = j
  <2>1. p = r /\ i + shift[p] = j + shift[r]
    BY <1>1, <1>3 DEF Single
  <2>2. shift[p] \in Nat /\ i \in Nat /\ j \in Nat
    OBVIOUS
  <2> QED
    BY <2>1, <2>2
<1> QED
  BY <1>2, <1>3 DEF Single

LEMMA SamePart ==
  ASSUME NEW S, NEW q \in Queues(S)
  PROVE  PartOf(q, q)
<1> DEFINE shift == [p \in Priorities |-> 0]
<1>1. shift \in [Priorities -> Nat]
  OBVIOUS
<1>2. ASSUME NEW p \in Priorities, NEW i \in 1 .. Len(q[p])
      PROVE  i + shift[p] \in 1 .. Len(q[p]) /\ q[p][i] = q[p][i + shift[p]]
  <2>1. i + shift[p] = i
    OBVIOUS
  <2> QED
    BY <2>1
<1> HIDE DEF shift
<1> QED
  BY <1>1, <1>2 DEF PartOf

\* The packet that is taken was in the queue, and if it is the only one of its
\* call the queue carries none afterwards.
LEMMA TailPart ==
  ASSUME NEW S, NEW q \in Queues(S), NEW p \in Priorities, q[p] # << >>, NEW stage
  PROVE  /\ PartOf(Taken(q, p), q)
         /\ Head(q[p]).stage = stage => Carries(q, stage, Head(q[p]).call)
         /\ Head(q[p]).stage = stage /\ Single(q, stage) => ~Carries(Taken(q, p), stage, Head(q[p]).call)
<1> DEFINE new == Taken(q, p)
<1>1. q \in [Priorities -> Seq(S)] /\ \A r \in Priorities : q[r] \in Seq(S) /\ Len(q[r]) \in Nat
  BY DEF Queues
<1>2. /\ Len(Tail(q[p])) = Len(q[p]) - 1
      /\ \A i \in 1 .. Len(Tail(q[p])) : Tail(q[p])[i] = q[p][i + 1]
      /\ Head(q[p]) = q[p][1] /\ 1 \in 1 .. Len(q[p])
  BY <1>1, HeadTailProperties, TailQueue
<1>3. new[p] = Tail(q[p]) /\ \A r \in Priorities \ {p} : new[r] = q[r]
  BY <1>1 DEF Taken
<1> HIDE DEF new
<1> DEFINE shift == [r \in Priorities |-> IF r = p THEN 1 ELSE 0]
<1>4. ASSUME NEW r \in Priorities, NEW i \in 1 .. Len(new[r])
      PROVE  i + shift[r] \in 1 .. Len(q[r]) /\ new[r][i] = q[r][i + shift[r]]
  <2>1. CASE r = p
    <3>1. shift[r] = 1 /\ i + 1 \in 1 .. Len(q[r])
      BY <1>1, <1>2, <1>3, <2>1
    <3> QED
      BY <1>2, <1>3, <2>1, <3>1
  <2>2. CASE r # p
    <3>1. shift[r] = 0 /\ i + 0 = i
      BY <2>2
    <3> QED
      BY <1>3, <2>2, <3>1
  <2> QED
    BY <2>1, <2>2
<1>5. shift \in [Priorities -> Nat]
  OBVIOUS
<1>6. PartOf(new, q)
  <2> HIDE DEF shift
  <2> QED
    BY <1>4, <1>5 DEF PartOf
<1>7. Head(q[p]).stage = stage => Carries(q, stage, Head(q[p]).call)
  BY <1>2 DEF Carries
<1>8. ASSUME Head(q[p]).stage = stage, Single(q, stage), Carries(new, stage, Head(q[p]).call) PROVE FALSE
  <2>1. PICK r \in Priorities : \E i \in 1 .. Len(new[r]) :
          new[r][i].stage = stage /\ new[r][i].call = Head(q[p]).call
    BY <1>8 DEF Carries
  <2>2. PICK i \in 1 .. Len(new[r]) : new[r][i].stage = stage /\ new[r][i].call = Head(q[p]).call
    BY <2>1
  <2>3. i + shift[r] \in 1 .. Len(q[r]) /\ new[r][i] = q[r][i + shift[r]]
    BY <1>4
  <2>4. r = p /\ i + shift[r] = 1
    <3> HIDE DEF shift
    <3> QED
      BY <1>2, <1>8, <2>2, <2>3 DEF Single
  <2>5. i + 1 = 1
    BY <2>4
  <2> QED
    BY <2>5
<1> QED
  BY <1>6, <1>7, <1>8 DEF new

\* A packet that is added.
LEMMA AppendCarries ==
  ASSUME NEW S, NEW q \in Queues(S), NEW p \in Priorities, HasRoom(q[p]), NEW pkt \in S, NEW stage
  PROVE  /\ \A call : Carries(Added(q, p, pkt), stage, call) =>
              Carries(q, stage, call) \/ (pkt.stage = stage /\ call = pkt.call)
         /\ Single(q, stage) /\ (pkt.stage = stage => ~Carries(q, stage, pkt.call)) =>
              Single(Added(q, p, pkt), stage)
<1> DEFINE new == Added(q, p, pkt)
<1>1. q \in [Priorities -> Seq(S)] /\ \A r \in Priorities : q[r] \in Seq(S) /\ Len(q[r]) \in Nat
  BY DEF Queues
<1>2. /\ Len(Append(q[p], pkt)) = Len(q[p]) + 1
      /\ \A i \in 1 .. Len(q[p]) : Append(q[p], pkt)[i] = q[p][i]
      /\ Append(q[p], pkt)[Len(q[p]) + 1] = pkt
  BY <1>1, AppendProperties
<1>0. new[p] = Append(q[p], pkt) /\ \A r \in Priorities \ {p} : new[r] = q[r]
  BY <1>1 DEF Added
<1> HIDE DEF new
<1>3. ASSUME NEW r \in Priorities, NEW i \in 1 .. Len(new[r])
      PROVE  \/ i \in 1 .. Len(q[r]) /\ new[r][i] = q[r][i]
             \/ r = p /\ i = Len(q[p]) + 1 /\ new[r][i] = pkt
  <2>1. CASE r = p
    <3>1. new[r] = Append(q[p], pkt) /\ (i \in 1 .. Len(q[p]) \/ i = Len(q[p]) + 1)
      BY <1>0, <1>1, <1>2, <2>1
    <3> QED
      BY <1>2, <2>1, <3>1
  <2>2. CASE r # p
    BY <1>0, <2>2
  <2> QED
    BY <2>1, <2>2
<1>4. ASSUME NEW call, Carries(new, stage, call)
      PROVE  Carries(q, stage, call) \/ (pkt.stage = stage /\ call = pkt.call)
  BY <1>3, <1>4 DEF Carries
<1>5. ASSUME Single(q, stage), pkt.stage = stage => ~Carries(q, stage, pkt.call),
             NEW r \in Priorities, NEW t \in Priorities, NEW i \in 1 .. Len(new[r]), NEW j \in 1 .. Len(new[t]),
             new[r][i].stage = stage, new[t][j].stage = stage, new[r][i].call = new[t][j].call
      PROVE  r = t /\ i = j
  <2>1. CASE (i \in 1 .. Len(q[r]) /\ new[r][i] = q[r][i]) /\ (j \in 1 .. Len(q[t]) /\ new[t][j] = q[t][j])
    BY <1>5, <2>1 DEF Single
  <2>2. CASE (i \in 1 .. Len(q[r]) /\ new[r][i] = q[r][i]) /\ new[t][j] = pkt
    BY <1>5, <2>2 DEF Carries
  <2>3. CASE new[r][i] = pkt /\ (j \in 1 .. Len(q[t]) /\ new[t][j] = q[t][j])
    BY <1>5, <2>3 DEF Carries
  <2>4. CASE (r = p /\ i = Len(q[p]) + 1) /\ (t = p /\ j = Len(q[p]) + 1)
    BY <2>4
  <2> QED
    BY <1>3, <2>1, <2>2, <2>3, <2>4
<1>6. ASSUME Single(q, stage) /\ (pkt.stage = stage => ~Carries(q, stage, pkt.call))
      PROVE  Single(new, stage)
  <2>1. /\ Single(q, stage)
        /\ pkt.stage = stage => ~Carries(q, stage, pkt.call)
    BY <1>6
  <2>2. \A r, t \in Priorities : \A i \in 1 .. Len(new[r]), j \in 1 .. Len(new[t]) :
          new[r][i].stage = stage /\ new[t][j].stage = stage /\ new[r][i].call = new[t][j].call
            => r = t /\ i = j
    BY ONLY <1>5, <2>1
  <2> QED
    BY ONLY <2>2 DEF Single
<1> QED
  BY <1>4, <1>6 DEF new

\* What is left of the queues after a cut.
LEMMA CutPart ==
  ASSUME NEW S, NEW q \in Queues(S), NEW k \in Cuts(q)
  PROVE  PartOf(Before(q, k), q) /\ PartOf(After(q, k), q)
<1>1. ASSUME NEW p \in Priorities
      PROVE  /\ q[p] \in Seq(S) /\ Len(q[p]) \in Nat
             /\ \A i \in 1 .. Len(q[p]) : q[p][i] \in S
             /\ k[p] \in Nat /\ k[p] <= Len(q[p])
  BY BoundsAssumption DEF Queues, Cuts
<1>2. PartOf(Before(q, k), q)
  <2> DEFINE shift == [p \in Priorities |-> 0]
  <2>1. shift \in [Priorities -> Nat]
    OBVIOUS
  <2>2. ASSUME NEW p \in Priorities, NEW i \in 1 .. Len(Before(q, k)[p])
        PROVE  i + shift[p] \in 1 .. Len(q[p]) /\ Before(q, k)[p][i] = q[p][i + shift[p]]
    <3>1. i + shift[p] = i
      OBVIOUS
    <3> HIDE DEF shift
    <3> QED
      BY <3>1, CutQueues
  <2> HIDE DEF shift
  <2> QED
    BY <2>1, <2>2 DEF PartOf
<1>3. PartOf(After(q, k), q)
  <2>1. k \in [Priorities -> Nat]
    BY BoundsAssumption DEF Cuts
  <2>2. ASSUME NEW p \in Priorities, NEW i \in 1 .. Len(After(q, k)[p])
        PROVE  i + k[p] \in 1 .. Len(q[p]) /\ After(q, k)[p][i] = q[p][i + k[p]]
    <3>1. After(q, k)[p] = SubSeq(q[p], k[p] + 1, Len(q[p]))
      BY DEF After
    <3>2. k[p] + 1 \in Int /\ Len(q[p]) \in Int /\ \A j \in k[p] + 1 .. Len(q[p]) : q[p][j] \in S
      BY <1>1
    <3>3. /\ Len(SubSeq(q[p], k[p] + 1, Len(q[p]))) =
               IF k[p] + 1 <= Len(q[p]) THEN Len(q[p]) - (k[p] + 1) + 1 ELSE 0
          /\ \A j \in 1 .. Len(q[p]) - (k[p] + 1) + 1 :
               SubSeq(q[p], k[p] + 1, Len(q[p]))[j] = q[p][k[p] + 1 + j - 1]
      BY <3>2, SubSeqProperties
    <3>4. PICK n \in Nat, m \in Nat : n = Len(q[p]) /\ m = k[p]
      BY <1>1
    <3>5. i \in 1 .. n - (m + 1) + 1 /\ i + m \in 1 .. n /\ m + 1 + i - 1 = i + m
      <4>1. i \in 1 .. (IF m + 1 <= n THEN n - (m + 1) + 1 ELSE 0)
        BY <3>1, <3>3, <3>4
      <4> QED
        BY <4>1
    <3> QED
      BY <3>1, <3>3, <3>4, <3>5
  <2> QED
    BY <2>1, <2>2 DEF PartOf
<1> QED
  BY <1>2, <1>3

\* The four places of a call.
Requested(call) == Carries(toRobot, "request", call)
Served(call) == \E a \in Actions : handler[a].running /\ handler[a].call = call
Replied(call) == Carries(toHost, "reply", call)
Dispatched(call) == \E d \in dispatched : d.call = call

Apart ==
  \A call : /\ Requested(call) => ~Served(call) /\ ~Replied(call) /\ ~Dispatched(call)
            /\ Served(call) => ~Replied(call) /\ ~Dispatched(call)
            /\ Replied(call) => ~Dispatched(call)
Made == \A call : Requested(call) \/ Served(call) \/ Replied(call) \/ Dispatched(call) => call \in 1 .. calls
OneHandler ==
  \A a, b \in Actions :
    handler[a].running /\ handler[b].running /\ handler[a].call = handler[b].call => a = b
OneDispatch == \A d, e \in dispatched : d.call = e.call => d = e

Once ==
  /\ Single(toRobot, "request") /\ Single(toHost, "reply") /\ OneHandler /\ OneDispatch
  /\ Apart /\ Made

\* Nothing comes to a place.
LEMMA Fewer ==
  ASSUME Once, Single(toRobot, "request")', Single(toHost, "reply")', OneHandler', OneDispatch',
         \A call : Requested(call)' => Requested(call), \A call : Served(call)' => Served(call),
         \A call : Replied(call)' => Replied(call), \A call : Dispatched(call)' => Dispatched(call),
         1 .. calls \subseteq 1 .. calls'
  PROVE  Once'
<1> HIDE DEF Requested, Served, Replied, Dispatched, Single, OneHandler, OneDispatch
<1>1. Apart'
  BY DEF Once, Apart
<1>2. Made'
  BY DEF Once, Made
<1> QED
  BY <1>1, <1>2 DEF Once

\* A handler that has replied runs no longer.
LEMMA TryReplyEnds ==
  ASSUME NEW h, NEW o, NEW s, TryReply(h, o, s).message = "reply"
  PROVE  ~TryReply(h, o, s).more
BY DEF TryReply, Goes

LEMMA TryProgressGoesOn ==
  ASSUME NEW h, NEW o
  PROVE  TryProgress(h, o).message # "reply"
BY DEF TryProgress, Goes

LEMMA MonitorNextEnds ==
  ASSUME NEW h, NEW o, MonitorNext(h, o).message = "reply"
  PROVE  ~MonitorNext(h, o).more
BY TryReplyEnds, TryProgressGoesOn DEF MonitorNext

LEMMA ReplyEnds ==
  ASSUME NEW a \in Actions, NEW h \in Handler, h.state \in StatesOf(a), NEW o \in Outcome,
         HandlerRun(a, h, o).message = "reply"
  PROVE  ~HandlerRun(a, h, o).more
<1>1. CASE a = "monitor"
  <2>1. HandlerRun(a, h, o) = MonitorRun(h, o)
    BY <1>1 DEF HandlerRun
  <2>2. h.state \in {"receive", "wait", "sendingReply", "sendingProgress"}
    BY <1>1 DEF StatesOf
  <2>3. CASE h.state = "receive"
    BY <2>1, <2>3, MonitorNextEnds DEF MonitorRun
  <2>4. CASE h.state = "wait"
    BY <2>1, <2>4, MonitorNextEnds DEF MonitorRun, Goes
  <2>5. CASE h.state = "sendingReply"
    BY <2>1, <2>5, TryReplyEnds DEF MonitorRun
  <2>6. CASE h.state = "sendingProgress"
    BY <2>1, <2>6, TryProgressGoesOn DEF MonitorRun
  <2> QED
    BY <2>2, <2>3, <2>4, <2>5, <2>6
<1>2. CASE a = "create"
  <2>1. HandlerRun(a, h, o) = CreateRun(h, o)
    BY <1>2 DEF HandlerRun
  <2>2. h.state \in {"processing", "sendingReply"}
    BY <1>2 DEF StatesOf
  <2> QED
    BY <2>1, <2>2, TryReplyEnds DEF CreateRun
<1>3. CASE a = "execute"
  <2>1. HandlerRun(a, h, o) = ExecuteRun(h, o)
    BY <1>3 DEF HandlerRun
  <2>2. h.state \in {"processing", "wait", "sendingReply", "sendingProgress"}
    BY <1>3 DEF StatesOf
  <2>3. CASE h.state = "processing" /\ o.exists
    <3>1. ExecuteRun(h, o).message = "none"
      BY <2>3 DEF ExecuteRun, Goes
    <3> QED
      BY <2>1, <3>1
  <2>4. CASE h.state = "processing" /\ ~o.exists
    BY <2>1, <2>4, TryReplyEnds DEF ExecuteRun
  <2>5. CASE h.state = "wait" /\ controller.finished
    BY <2>1, <2>5, TryReplyEnds DEF ExecuteRun
  <2>6. CASE h.state = "wait" /\ ~controller.finished
    BY <2>1, <2>6, TryProgressGoesOn DEF ExecuteRun, Goes
  <2>7. CASE h.state = "sendingReply"
    BY <2>1, <2>7, TryReplyEnds DEF ExecuteRun
  <2>8. CASE h.state = "sendingProgress"
    BY <2>1, <2>8, TryProgressGoesOn DEF ExecuteRun
  <2> QED
    BY <2>2, <2>3, <2>4, <2>5, <2>6, <2>7, <2>8
<1> QED
  BY <1>1, <1>2, <1>3, KnownActions

\* Run() of a handler moves its call from the handler to a reply, or leaves it.
LEMMA Serving ==
  ASSUME IInv, NEW a \in Actions, NEW h \in Handler, h.state \in StatesOf(a), NEW o \in Outcome,
         AfterRun(a, HandlerRun(a, h, o)), Single(toHost, "reply"), ~Replied(h.call), OneHandler,
         \A b \in Actions \ {a} : handler[b].running => handler[b].call # h.call
  PROVE  /\ \A call : Served(call)' => Served(call) \/ call = h.call
         /\ \A call : Replied(call)' => Replied(call) \/ call = h.call
         /\ ~(Served(h.call)' /\ Replied(h.call)')
         /\ Single(toHost, "reply")' /\ OneHandler'
<1> DEFINE r == HandlerRun(a, h, o)
           pkt == ResponsePacket(r.message, a, r.h)
<1>1. /\ r \in Run /\ SameRequest(r.h, h) /\ r.h.state \in StatesOf(a)
      /\ r.message = "reply" => ~r.more
  BY HandlerRunType, ReplyEnds
<1>2. AfterRun(a, r)
  OBVIOUS
<1> HIDE DEF r
<1>3. /\ \A b \in Actions \ {a} : handler'[b] = handler[b]
      /\ handler'[a].running = r.more /\ handler'[a].call = h.call
  BY <1>1, <1>2, AfterRunHandler DEF IInv, RobotInv, SameRequest
<1>4. \A call : Served(call)' => Served(call) \/ call = h.call
  BY <1>3 DEF Served
<1>5. OneHandler'
  BY <1>3 DEF OneHandler
<1>6. Served(h.call)' => r.more
  BY <1>3 DEF Served
<1>7. CASE r.message = "none"
  <2>1. toHost' = toHost
    BY <1>2, <1>7 DEF AfterRun
  <2> QED
    BY <1>4, <1>5, <2>1 DEF Replied
<1>8. CASE r.message # "none"
  <2>1. /\ HasRoom(toHost[PriorityOf[a]])
        /\ toHost' = Added(toHost, PriorityOf[a], pkt)
    BY <1>2, <1>8 DEF AfterRun, Added
  <2>2. pkt.stage = r.message /\ pkt.call = h.call
    BY <1>1 DEF ResponsePacket, SameRequest
  <2>3. PriorityOf[a] \in Priorities
    BY PriorityOfAction
  <2>4. PICK S : toHost \in Queues(S) /\ pkt \in S
    <3>1. toHost \in Queues(Honest \cup {pkt})
      <4>1. toHost \in Queues(Honest)
        BY DEF IInv, LinkInv
      <4>2. \A p \in Priorities : \A i \in 1 .. Len(toHost[p]) : toHost[p][i] \in Honest \cup {pkt}
        BY <4>1, QueueElement
      <4> HIDE DEF pkt
      <4> QED
        BY <4>1, <4>2, QueuesOfSubset
    <3> QED
      BY <3>1
  <2> HIDE DEF pkt
  <2>5. /\ \A call : Carries(toHost', "reply", call) =>
              Carries(toHost, "reply", call) \/ (pkt.stage = "reply" /\ call = pkt.call)
        /\ Single(toHost, "reply") /\ (pkt.stage = "reply" => ~Carries(toHost, "reply", pkt.call))
             => Single(toHost', "reply")
    BY <2>1, <2>3, <2>4, AppendCarries
  <2>6. \A call : Replied(call)' => Replied(call) \/ (r.message = "reply" /\ call = h.call)
    BY <2>2, <2>5 DEF Replied
  <2>7. Single(toHost, "reply")'
    BY <2>2, <2>5 DEF Replied
  <2> QED
    BY <1>1, <1>4, <1>5, <1>6, <2>6, <2>7
<1> QED
  BY <1>7, <1>8

-----------------------------------------------------------------------------
(* Every step keeps each call at one place. *)

LEMMA InitOnce == Init => Once
<1> SUFFICES ASSUME Init PROVE Once
  OBVIOUS
<1>1. \A p \in Priorities : toRobot[p] = << >> /\ toHost[p] = << >> /\ Len(<< >>) = 0
  BY DEF Init
<1>2. \A stage, call : ~Carries(toRobot, stage, call) /\ ~Carries(toHost, stage, call)
  BY <1>1 DEF Carries
<1>3. Single(toRobot, "request") /\ Single(toHost, "reply")
  BY <1>1 DEF Single
<1>4. \A a \in Actions : ~handler[a].running
  BY DEF Init, NewHandler
<1>5. dispatched = {}
  BY DEF Init
<1>6. \A call : ~Requested(call) /\ ~Served(call) /\ ~Replied(call) /\ ~Dispatched(call)
  BY <1>2, <1>4, <1>5 DEF Requested, Served, Replied, Dispatched
<1>7. OneHandler /\ OneDispatch
  BY <1>4, <1>5 DEF OneHandler, OneDispatch
<1> QED
  BY <1>3, <1>6, <1>7 DEF Once, Apart, Made

\* The queues lose packets, handlers stop, and nothing else changes.
LEMMA Loses ==
  ASSUME Once, PartOf(toRobot', toRobot), PartOf(toHost', toHost),
         \A a \in Actions : handler'[a].running =>
           handler[a].running /\ handler'[a].call = handler[a].call,
         dispatched' = dispatched, 1 .. calls \subseteq 1 .. calls'
  PROVE  Once'
<1>1. /\ \A call : Carries(toRobot', "request", call) => Carries(toRobot, "request", call)
      /\ Single(toRobot, "request") => Single(toRobot', "request")
  BY PartCarries
<1>2. /\ \A call : Carries(toHost', "reply", call) => Carries(toHost, "reply", call)
      /\ Single(toHost, "reply") => Single(toHost', "reply")
  BY PartCarries
<1>3. /\ \A call : Requested(call)' => Requested(call)
      /\ \A call : Replied(call)' => Replied(call)
  BY <1>1, <1>2 DEF Requested, Replied
<1>4. /\ \A call : Served(call)' => Served(call)
      /\ \A call : Dispatched(call)' => Dispatched(call)
  BY DEF Served, Dispatched
<1>5. OneHandler' /\ OneDispatch'
  BY DEF Once, OneHandler, OneDispatch
<1>6. Single(toRobot, "request")' /\ Single(toHost, "reply")'
  BY <1>1, <1>2 DEF Once
<1> QED
  BY <1>3, <1>4, <1>5, <1>6, Fewer

\* Calls are numbered, and the next number is of none that is anywhere.
LEMMA NextCall ==
  ASSUME IInv, Once
  PROVE  /\ 1 .. calls \subseteq 1 .. calls + 1
         /\ calls + 1 \in 1 .. calls + 1
         /\ ~Requested(calls + 1) /\ ~Served(calls + 1) /\ ~Replied(calls + 1) /\ ~Dispatched(calls + 1)
<1>1. calls \in Nat
  BY BoundsAssumption DEF IInv, HostInv
<1>2. calls + 1 \notin 1 .. calls /\ 1 .. calls \subseteq 1 .. calls + 1 /\ calls + 1 \in 1 .. calls + 1
  BY <1>1
<1> HIDE DEF Requested, Served, Replied, Dispatched
<1> QED
  BY <1>2 DEF Once, Made

LEMMA RequestOnce ==
  ASSUME IInv, Once, NEW a \in Actions, Request(a)
  PROVE  Once'
<1> DEFINE id == client[a].id + 1
<1>1. PICK updates \in IF a = "monitor" THEN Updates ELSE {1} :
        toRobot' = [toRobot EXCEPT ![PriorityOf[a]] =
                      Append(@, RequestPacket(a, id, calls + 1, updates))]
  BY DEF Request
<1> DEFINE pkt == RequestPacket(a, id, calls + 1, updates)
<1>2. pkt \in FromHost /\ pkt.stage = "request" /\ pkt.call = calls + 1
  <2>1. id \in Nat /\ calls + 1 \in Nat
    BY BoundsAssumption DEF IInv, HostInv, Clients
  <2>2. updates \in Nat /\ starts["host"] \in Nat
    BY BoundsAssumption DEF IInv, LinkInv
  <2> HIDE DEF id
  <2> QED
    BY <2>1, <2>2 DEF RequestPacket, FromHost
<1>3. HasRoom(toRobot[PriorityOf[a]]) /\ toRobot' = Added(toRobot, PriorityOf[a], pkt)
  BY <1>1 DEF Request, Added
<1> HIDE DEF pkt
<1>4. PriorityOf[a] \in Priorities /\ toRobot \in Queues(FromHost)
  BY PriorityOfAction DEF IInv, LinkInv
<1>5. /\ \A call : Carries(toRobot', "request", call) =>
            Carries(toRobot, "request", call) \/ (pkt.stage = "request" /\ call = pkt.call)
      /\ Single(toRobot, "request") /\ (pkt.stage = "request" => ~Carries(toRobot, "request", pkt.call))
           => Single(toRobot', "request")
  BY <1>2, <1>3, <1>4, AppendCarries
<1>6. /\ 1 .. calls \subseteq 1 .. calls + 1 /\ calls + 1 \in 1 .. calls + 1
      /\ ~Requested(calls + 1) /\ ~Served(calls + 1) /\ ~Replied(calls + 1) /\ ~Dispatched(calls + 1)
  BY NextCall
<1>7. UNCHANGED <<toHost, handler, dispatched>> /\ calls' = calls + 1
  BY DEF Request, robotVars
<1>8. /\ \A call : Requested(call)' => Requested(call) \/ call = calls + 1
      /\ \A call : Served(call)' => Served(call)
      /\ \A call : Replied(call)' => Replied(call)
      /\ \A call : Dispatched(call)' => Dispatched(call)
  BY <1>2, <1>5, <1>7 DEF Requested, Served, Replied, Dispatched
<1>9. /\ Single(toRobot, "request")' /\ Single(toHost, "reply")'
      /\ OneHandler' /\ OneDispatch'
  BY <1>2, <1>5, <1>6, <1>7 DEF Once, Requested, OneHandler, OneDispatch
<1>10. Apart'
  <2> HIDE DEF Requested, Served, Replied, Dispatched
  <2> QED
    BY <1>6, <1>8 DEF Once, Apart
<1>11. Made'
  <2> HIDE DEF Requested, Served, Replied, Dispatched
  <2> QED
    BY <1>6, <1>7, <1>8 DEF Once, Made
<1> QED
  BY <1>9, <1>10, <1>11 DEF Once

LEMMA CancelOnce ==
  ASSUME IInv, Once, NEW a \in Actions, Cancel(a)
  PROVE  Once'
<1> DEFINE pkt == CancelPacket(a)
<1>2. pkt \in FromHost /\ pkt.stage # "request"
  BY BoundsAssumption DEF CancelPacket, FromHost, IInv, LinkInv, HostInv, Clients
<1>3. HasRoom(toRobot[PriorityOf[a]]) /\ toRobot' = Added(toRobot, PriorityOf[a], pkt)
  BY DEF Cancel, Added
<1> HIDE DEF pkt
<1>4. PriorityOf[a] \in Priorities /\ toRobot \in Queues(FromHost)
  BY PriorityOfAction DEF IInv, LinkInv
<1>5. /\ \A call : Carries(toRobot', "request", call) =>
            Carries(toRobot, "request", call) \/ (pkt.stage = "request" /\ call = pkt.call)
      /\ Single(toRobot, "request") /\ (pkt.stage = "request" => ~Carries(toRobot, "request", pkt.call))
           => Single(toRobot', "request")
  BY <1>2, <1>3, <1>4, AppendCarries
<1>7. UNCHANGED <<toHost, handler, calls, dispatched>>
  BY DEF Cancel, robotVars
<1>8. /\ \A call : Requested(call)' => Requested(call)
      /\ \A call : Served(call)' => Served(call)
      /\ \A call : Replied(call)' => Replied(call)
      /\ \A call : Dispatched(call)' => Dispatched(call)
  BY <1>2, <1>5, <1>7 DEF Requested, Served, Replied, Dispatched
<1>9. /\ Single(toRobot, "request")' /\ Single(toHost, "reply")'
      /\ OneHandler' /\ OneDispatch' /\ 1 .. calls \subseteq 1 .. calls'
  BY <1>2, <1>5, <1>7 DEF Once, OneHandler, OneDispatch
<1> QED
  BY <1>8, <1>9, Fewer

\* Nothing of a call moves.
LEMMA StaysOnce ==
  ASSUME IInv, Once, UNCHANGED <<toRobot, toHost, handler, dispatched>>,
         1 .. calls \subseteq 1 .. calls'
  PROVE  Once'
<1>1. PartOf(toRobot, toRobot) /\ PartOf(toHost, toHost)
  BY SamePart DEF IInv, LinkInv
<1> QED
  BY <1>1, Loses

LEMMA RequestRefusedOnce ==
  ASSUME IInv, Once, NEW a \in Actions, RequestRefused(a)
  PROVE  Once'
BY NextCall, StaysOnce DEF RequestRefused, linkVars, robotVars

LEMMA NoPacketOnce ==
  ASSUME IInv, Once, NoPacket
  PROVE  Once'
BY StaysOnce DEF NoPacket, linkVars, hostVars

LEMMA FinishTrajectoryOnce ==
  ASSUME IInv, Once, FinishTrajectory
  PROVE  Once'
BY StaysOnce DEF FinishTrajectory, linkVars, hostVars

LEMMA StutterOnce ==
  ASSUME IInv, Once, UNCHANGED vars
  PROVE  Once'
BY StaysOnce DEF vars, linkVars, robotVars, hostVars

LEMMA LoseProgressOnce ==
  ASSUME IInv, Once, NEW p \in Priorities, LoseProgress(p)
  PROVE  Once'
<1>1. PartOf(toRobot, toRobot)
  BY SamePart DEF IInv, LinkInv
<1>2. toHost[p] # << >> /\ toHost' = Taken(toHost, p) /\ toHost \in Queues(Honest)
  BY DEF LoseProgress, Taken, IInv, LinkInv
<1>3. PartOf(Taken(toHost, p), toHost)
  BY <1>2, TailPart
<1> QED
  BY <1>1, <1>2, <1>3, Loses DEF LoseProgress, robotVars, hostVars

LEMMA RobotNoticesHostOnce ==
  ASSUME IInv, Once, RobotNoticesHost
  PROVE  Once'
<1>1. PICK k \in Cuts(toRobot) : toRobot' = After(toRobot, k)
  BY DEF RobotNoticesHost
<1>2. PartOf(After(toRobot, k), toRobot) /\ PartOf(toHost, toHost)
  BY CutPart, SamePart DEF IInv, LinkInv
<1>3. \A a \in Actions : ~handler'[a].running
  <2> TAKE a \in Actions
  <2>1. handler[a] \in Handler /\ handler'[a] = [handler[a] EXCEPT !.running = FALSE]
    BY DEF RobotNoticesHost, IInv, RobotInv, Handlers
  <2> QED
    BY <2>1 DEF Handler
<1> QED
  BY <1>1, <1>2, <1>3, Loses DEF RobotNoticesHost, hostVars

LEMMA HostNoticesRobotOnce ==
  ASSUME IInv, Once, HostNoticesRobot
  PROVE  Once'
<1>1. PICK k \in Cuts(toHost) : toHost' = After(toHost, k)
  BY DEF HostNoticesRobot
<1>2. PartOf(After(toHost, k), toHost) /\ PartOf(toRobot, toRobot)
  BY CutPart, SamePart DEF IInv, LinkInv
<1> QED
  BY <1>1, <1>2, Loses DEF HostNoticesRobot, robotVars

LEMMA RobotRestartOnce ==
  ASSUME IInv, Once, RobotRestart
  PROVE  Once'
<1>1. PICK k \in Cuts(toRobot) : toRobot' = After(toRobot, k)
  BY DEF RobotRestart, LostWithReceiver
<1>2. PICK m \in Cuts(toHost) : toHost' = Before(toHost, m)
  BY DEF RobotRestart, LeftBySender
<1>3. PartOf(After(toRobot, k), toRobot) /\ PartOf(Before(toHost, m), toHost)
  BY CutPart DEF IInv, LinkInv
<1>4. \A a \in Actions : ~handler'[a].running
  BY DEF RobotRestart, NewHandler
<1> QED
  BY <1>1, <1>2, <1>3, <1>4, Loses DEF RobotRestart, hostVars

LEMMA HostRestartOnce ==
  ASSUME IInv, Once, HostRestart
  PROVE  Once'
<1>1. PICK k \in Cuts(toHost) : toHost' = After(toHost, k)
  BY DEF HostRestart, LostWithReceiver
<1>2. PICK m \in Cuts(toRobot) : toRobot' = Before(toRobot, m)
  BY DEF HostRestart, LeftBySender
<1>3. PartOf(After(toHost, k), toHost) /\ PartOf(Before(toRobot, m), toRobot)
  BY CutPart DEF IInv, LinkInv
<1> QED
  BY <1>1, <1>2, <1>3, Loses DEF HostRestart, robotVars

LEMMA ClientRunOnce ==
  ASSUME IInv, Once, ClientRun
  PROVE  Once'
<1>1. PICK p \in Arrived(toHost, "robot", "host") :
        LET pkt == Head(toHost[p]) IN
        /\ toHost' = [toHost EXCEPT ![p] = Tail(@)]
        /\ \/ /\ pkt.stage = "reply"
              /\ \E d : d.call = pkt.call /\ dispatched' = dispatched \cup {d}
           \/ dispatched' = dispatched
  <2>1. PICK p \in Arrived(toHost, "robot", "host") :
       LET pkt == Head(toHost[p])
           a == pkt.action
           d == [action |-> a, callback |-> client[a].callback, call |-> pkt.call, about |-> pkt.about] IN
       /\ toHost' = [toHost EXCEPT ![p] = Tail(@)]
       /\ IF pkt.stage = "reply" /\ pkt.id = client[a].id
          THEN dispatched' = dispatched \cup {d}
          ELSE dispatched' = dispatched
    BY DEF ClientRun
  <2> DEFINE pkt == Head(toHost[p])
             d == [action |-> pkt.action, callback |-> client[pkt.action].callback,
                   call |-> pkt.call, about |-> pkt.about]
  <2>2. d.call = pkt.call
    OBVIOUS
  <2> QED
    BY <2>1, <2>2
<1> DEFINE pkt == Head(toHost[p])
<1>2. p \in Priorities /\ toHost[p] # << >> /\ toHost' = Taken(toHost, p) /\ toHost \in Queues(Honest)
  BY <1>1 DEF Arrived, Taken, IInv, LinkInv
<1>3. /\ PartOf(Taken(toHost, p), toHost)
      /\ Head(toHost[p]).stage = "reply" => Carries(toHost, "reply", Head(toHost[p]).call)
      /\ Head(toHost[p]).stage = "reply" /\ Single(toHost, "reply")
           => ~Carries(Taken(toHost, p), "reply", Head(toHost[p]).call)
  BY <1>2, TailPart
<1>4. PartOf(toRobot, toRobot)
  BY SamePart DEF IInv, LinkInv
<1>5. UNCHANGED <<toRobot, handler, calls>>
  BY DEF ClientRun, robotVars
<1>6. CASE dispatched' = dispatched
  BY <1>2, <1>3, <1>4, <1>5, <1>6, Loses
<1>7. CASE pkt.stage = "reply" /\ \E d : d.call = pkt.call /\ dispatched' = dispatched \cup {d}
  <2>1. PICK d : d.call = pkt.call /\ dispatched' = dispatched \cup {d}
    BY <1>7
  <2> DEFINE c == d.call
  <2>2. Replied(c) /\ ~Replied(c)'
    BY <1>2, <1>3, <1>7, <2>1 DEF Once, Replied
  <2> HIDE DEF pkt
  <2>3. /\ \A call : Carries(toHost', "reply", call) => Carries(toHost, "reply", call)
        /\ Single(toHost, "reply") => Single(toHost', "reply")
    BY <1>2, <1>3, PartCarries
  <2>4. /\ \A call : Requested(call)' => Requested(call)
        /\ \A call : Replied(call)' => Replied(call)
        /\ \A call : Served(call)' => Served(call)
        /\ \A call : Dispatched(call)' => Dispatched(call) \/ call = c
    BY <1>5, <2>1, <2>3 DEF Requested, Replied, Served, Dispatched
  <2>5. Single(toRobot, "request")' /\ Single(toHost, "reply")' /\ OneHandler'
    BY <1>5, <2>3 DEF Once, OneHandler
  <2>6. ~Dispatched(c)
    <3> HIDE DEF c, Replied, Dispatched
    <3> QED
      BY <2>2 DEF Once, Apart
  <2>7. OneDispatch'
    BY <2>1, <2>6 DEF Once, OneDispatch, Dispatched
  <2> HIDE DEF c, Requested, Served, Replied, Dispatched
  <2>8. Apart'
    BY <2>2, <2>4 DEF Once, Apart
  <2>9. Made'
    BY <1>5, <2>2, <2>4 DEF Once, Made
  <2> QED
    BY <2>5, <2>7, <2>8, <2>9 DEF Once
<1> QED
  BY <1>1, <1>6, <1>7

LEMMA RunHandlerOnce ==
  ASSUME IInv, Once, NEW o \in Outcome, RunHandler(o)
  PROVE  Once'
<1> DEFINE a == Order[turn]
<1>1. a \in Actions
  BY OrderIsSeq DEF RunHandler
<1>2. UNCHANGED <<toRobot, calls, dispatched>>
  BY DEF RunHandler, hostVars
<1>3. CASE UNCHANGED <<toHost, handler>>
  <2>1. 1 .. calls \subseteq 1 .. calls'
    BY <1>2
  <2> QED
    BY <1>2, <1>3, <2>1, StaysOnce
<1>4. CASE handler[a].running /\ AfterRun(a, HandlerRun(a, handler[a], o))
  <2> HIDE DEF a
  <2>1. PICK h \in Handler : h = handler[a] /\ h.state \in StatesOf(a)
    BY <1>1 DEF IInv, RobotInv, Handlers
  <2>2. Served(h.call)
    BY <1>1, <1>4, <2>1 DEF Served
  <2>3. ~Requested(h.call) /\ ~Replied(h.call) /\ ~Dispatched(h.call)
    <3> HIDE DEF Requested, Served, Replied, Dispatched
    <3> QED
      BY <2>2 DEF Once, Apart
  <2>4. \A b \in Actions \ {a} : handler[b].running => handler[b].call # h.call
    BY <1>1, <1>4, <2>1 DEF Once, OneHandler
  <2>5. /\ \A call : Served(call)' => Served(call) \/ call = h.call
        /\ \A call : Replied(call)' => Replied(call) \/ call = h.call
        /\ ~(Served(h.call)' /\ Replied(h.call)')
        /\ Single(toHost, "reply")' /\ OneHandler'
    <3>1. AfterRun(a, HandlerRun(a, h, o)) /\ Single(toHost, "reply") /\ OneHandler
      BY <1>4, <2>1 DEF Once
    <3> QED
      BY <1>1, <2>1, <2>3, <2>4, <3>1, Serving
  <2>6. /\ \A call : Requested(call)' => Requested(call)
        /\ \A call : Dispatched(call)' => Dispatched(call)
        /\ Single(toRobot, "request")' /\ OneDispatch'
    BY <1>2 DEF Once, Requested, Dispatched, OneDispatch
  <2> HIDE DEF Requested, Served, Replied, Dispatched
  <2>7. Apart'
    BY <2>2, <2>3, <2>5, <2>6 DEF Once, Apart
  <2>8. Made'
    BY <1>2, <2>2, <2>5, <2>6 DEF Once, Made
  <2> QED
    BY <2>5, <2>6, <2>7, <2>8 DEF Once
<1> QED
  BY <1>3, <1>4 DEF RunHandler

\* A request that is taken moves its call to the handler or to a reply.
LEMMA StartActionOnce ==
  ASSUME IInv, Once, NEW pkt \in FromHost, NEW o \in Outcome, StartAction(pkt, o),
         Requested(pkt.call), ~Requested(pkt.call)',
         \A call : Requested(call)' => Requested(call), Single(toRobot, "request")',
         UNCHANGED <<calls, dispatched>>
  PROVE  Once'
<1> DEFINE a == pkt.action
           f == [handler[a] EXCEPT !.id = pkt.id, !.call = pkt.call, !.updates = pkt.updates,
                                   !.sent = 0, !.start = pkt.start]
           g == OnRequest(a, f)
<1>1. /\ a \in Actions /\ pkt.id \in Nat /\ pkt.call \in Nat
      /\ pkt.updates \in Nat /\ pkt.start \in Nat
  BY DEF FromHost
<1>2. handler[a] \in Handler /\ handler[a].state \in StatesOf(a)
  BY <1>1 DEF IInv, RobotInv, Handlers
<1>3. f \in Handler /\ f.state = handler[a].state /\ f.call = pkt.call
  <2> DEFINE f1 == [handler[a] EXCEPT !.id = pkt.id]
             f2 == [f1 EXCEPT !.call = pkt.call]
             f3 == [f2 EXCEPT !.updates = pkt.updates]
             f4 == [f3 EXCEPT !.sent = 0]
             f5 == [f4 EXCEPT !.start = pkt.start]
  <2>0. f = f5
    OBVIOUS
  <2> HIDE DEF a, f
  <2>1. f1 \in Handler /\ f1.state = handler[a].state
    BY <1>1, <1>2 DEF Handler
  <2> HIDE DEF f1
  <2>2. f2 \in Handler /\ f2.state = handler[a].state /\ f2.call = pkt.call
    BY <1>1, <2>1 DEF Handler
  <2> HIDE DEF f2
  <2>3. f3 \in Handler /\ f3.state = handler[a].state /\ f3.call = pkt.call
    BY <1>1, <2>2 DEF Handler
  <2> HIDE DEF f3
  <2>4. f4 \in Handler /\ f4.state = handler[a].state /\ f4.call = pkt.call
    BY <2>3 DEF Handler
  <2> HIDE DEF f4
  <2>5. f5 \in Handler /\ f5.state = handler[a].state /\ f5.call = pkt.call
    BY <1>1, <2>4 DEF Handler
  <2> QED
    BY <2>0, <2>5
<1>4. ~handler[a].running /\ AfterRun(a, HandlerRun(a, g, o))
  BY DEF StartAction
<1> HIDE DEF a, f
<1>5. g \in Handler /\ g.state \in StatesOf(a) /\ g.call = pkt.call
  <2>1. CASE a = "execute"
    <3>1. g = [f EXCEPT !.state = "processing"]
      BY <2>1 DEF OnRequest
    <3> HIDE DEF g
    <3>2. g \in Handler /\ SameRequest(g, f) /\ g.state = "processing"
      BY <1>3, <3>1, WithState DEF States
    <3> QED
      BY <1>3, <2>1, <3>2 DEF SameRequest, StatesOf
  <2>2. CASE a # "execute"
    BY <1>2, <1>3, <2>2 DEF OnRequest
  <2> QED
    BY <2>1, <2>2
<1> HIDE DEF g
<1>6. PICK h \in Handler : h = g
  BY <1>5
<1>7. ~Served(h.call) /\ ~Replied(h.call) /\ ~Dispatched(h.call) /\ Requested(h.call) /\ ~Requested(h.call)'
  <2>1. h.call = pkt.call
    BY <1>5, <1>6
  <2> HIDE DEF Requested, Served, Replied, Dispatched
  <2> QED
    BY <2>1 DEF Once, Apart
<1>8. \A b \in Actions \ {a} : handler[b].running => handler[b].call # h.call
  BY <1>7 DEF Served
<1>9. /\ \A call : Served(call)' => Served(call) \/ call = h.call
      /\ \A call : Replied(call)' => Replied(call) \/ call = h.call
      /\ ~(Served(h.call)' /\ Replied(h.call)')
      /\ Single(toHost, "reply")' /\ OneHandler'
  <2>1. /\ AfterRun(a, HandlerRun(a, h, o)) /\ h.state \in StatesOf(a)
        /\ Single(toHost, "reply") /\ OneHandler
    BY <1>4, <1>5, <1>6 DEF Once
  <2> QED
    BY <1>1, <1>7, <1>8, <2>1, Serving
<1>10. (\A call : Dispatched(call)' => Dispatched(call)) /\ OneDispatch'
  BY DEF Once, Dispatched, OneDispatch
<1> HIDE DEF Requested, Served, Replied, Dispatched
<1>11. Apart'
  BY <1>7, <1>9, <1>10 DEF Once, Apart
<1>12. Made'
  BY <1>7, <1>9, <1>10 DEF Once, Made
<1> QED
  BY <1>9, <1>10, <1>11, <1>12 DEF Once

LEMMA TakePacketOnce ==
  ASSUME IInv, Once, NEW p \in Priorities, NEW o \in Outcome, TakePacket(p, o)
  PROVE  Once'
<1>0. PICK pkt : pkt = Head(toRobot[p])
  OBVIOUS
<1>1. /\ p \in Arrived(toRobot, "host", "robot")
      /\ toRobot' = [toRobot EXCEPT ![p] = Tail(@)]
      /\ UNCHANGED <<calls, dispatched>>
      /\ StartAction(pkt, o) \/ DropRequest(pkt) \/ CancelAction(pkt)
  BY <1>0 DEF TakePacket, hostVars
<1>2. toRobot[p] # << >> /\ toRobot' = Taken(toRobot, p) /\ toRobot \in Queues(FromHost)
  BY <1>1 DEF Arrived, Taken, IInv, LinkInv
<1>3. pkt \in FromHost
  BY <1>0, <1>1, Arrival DEF IInv, LinkInv
<1>4. /\ PartOf(Taken(toRobot, p), toRobot)
      /\ Head(toRobot[p]).stage = "request" => Carries(toRobot, "request", Head(toRobot[p]).call)
      /\ Head(toRobot[p]).stage = "request" /\ Single(toRobot, "request")
           => ~Carries(Taken(toRobot, p), "request", Head(toRobot[p]).call)
  BY <1>2, TailPart
<1>5. /\ \A call : Carries(toRobot', "request", call) => Carries(toRobot, "request", call)
      /\ Single(toRobot, "request") => Single(toRobot', "request")
  BY <1>2, <1>4, PartCarries
<1>6. CASE StartAction(pkt, o)
  <2>1. pkt.stage = "request"
    BY <1>6 DEF StartAction
  <2>2. /\ Requested(pkt.call) /\ ~Requested(pkt.call)'
        /\ \A call : Requested(call)' => Requested(call)
        /\ Single(toRobot, "request")'
    BY <1>0, <1>2, <1>4, <1>5, <2>1 DEF Requested, Once
  <2> HIDE DEF Requested
  <2> QED
    BY <1>1, <1>3, <1>6, <2>2, StartActionOnce
<1>7. CASE toHost' = toHost /\ \A a \in Actions : handler'[a].running =>
                                  handler[a].running /\ handler'[a].call = handler[a].call
  <2>1. PartOf(toHost, toHost)
    BY SamePart DEF IInv, LinkInv
  <2>2. 1 .. calls \subseteq 1 .. calls'
    BY <1>1
  <2> QED
    BY <1>1, <1>2, <1>4, <1>7, <2>1, <2>2, Loses
<1>8. CASE DropRequest(pkt)
  BY <1>7, <1>8 DEF DropRequest
<1>9. CASE CancelAction(pkt)
  <2>1. toHost' = toHost /\ \A a \in Actions : handler'[a] = handler[a] \/ ~handler'[a].running
    BY <1>3, <1>9, CancelActionStep
  <2> QED
    BY <1>7, <2>1
<1> QED
  BY <1>1, <1>6, <1>8, <1>9

LEMMA OnceInvariance == Spec => []Once
<1>1. Init => Once
  BY InitOnce
<1>2. IInv /\ Once /\ [Next]_vars => Once'
  BY RequestOnce, RequestRefusedOnce, CancelOnce, ClientRunOnce, RunHandlerOnce, TakePacketOnce,
     NoPacketOnce, FinishTrajectoryOnce, LoseProgressOnce, RobotNoticesHostOnce,
     HostNoticesRobotOnce, RobotRestartOnce, HostRestartOnce, StutterOnce DEF Next
<1> QED
  BY <1>1, <1>2, Invariance, PTL DEF Spec

-----------------------------------------------------------------------------
(* Theorems *)

\* Clients, queues, handlers and controller always have their types, no queue
\* exceeds its bound and no handler is in a state of another's.
THEOREM TypeCorrect == Spec => []TypeOK
<1>1. IInv => TypeOK
  <2> SUFFICES ASSUME IInv PROVE TypeOK
    OBVIOUS
  <2>1. toHost \in Queues(FromRobot)
    <3>1. \A p \in Priorities : \A i \in 1 .. Len(toHost[p]) : toHost[p][i] \in FromRobot
      BY QueueElement DEF IInv, LinkInv, Honest
    <3> QED
      BY <3>1, QueuesOfSubset DEF IInv, LinkInv
  <2> QED
    BY <2>1 DEF IInv, LinkInv, RobotInv, HostInv, Queues, Handlers, Controllers, Clients, TypeOK
<1> QED
  BY <1>1, Invariance, PTL

\* While the trajectory controller is started the "execute" handler that started
\* it is running (base_trajectory_view_action_handler, P2PActionServer).
THEOREM NoMotionWithoutActionAlways == Spec => []NoMotionWithoutAction
<1>1. IInv => NoMotionWithoutAction
  BY DEF IInv, Following, NoMotionWithoutAction
<1> QED
  BY <1>1, Invariance, PTL

\* Once the robot has noticed a start of the host, no handler runs for an
\* earlier one (P2PActionServer::OnOtherEndStarted).
THEOREM NothingRunsForPreviousStartAlways == Spec => []NothingRunsForPreviousStart
<1>1. IInv => NothingRunsForPreviousStart
  BY DEF IInv, Current, NothingRunsForPreviousStart
<1> QED
  BY <1>1, Invariance, PTL

\* No reply or progress update of "execute" is about another request than the
\* one it carries (OnRequest() of ExecuteBaseTrajectoryViewActionHandler).
THEOREM ExecuteReportsItsOwnAlways == Spec => []ExecuteReportsItsOwn
<1>1. IInv => ExecuteReportsItsOwn
  <2> SUFFICES ASSUME IInv, NEW p \in Priorities, NEW k \in DOMAIN toHost[p]
               PROVE  ~(toHost[p][k].action = "execute" /\ toHost[p][k].about # toHost[p][k].call)
    BY DEF ExecuteReportsItsOwn, InQueue
  <2>1. DOMAIN toHost[p] = 1 .. Len(toHost[p])
    BY DEF IInv, LinkInv, Queues
  <2> QED
    BY <2>1, QueueElement DEF IInv, LinkInv, Honest
<1> QED
  BY <1>1, Invariance, PTL

\* However requests, replies, cancellations and restarts cross, the replies on
\* the way and the callbacks that were run are together at most one for each
\* call of Request() (P2PActionClient, P2PActionServer).
THEOREM AnsweredAtMostOnceAlways == Spec => []AnsweredAtMostOnce
<1>1. IInv /\ Once => AnsweredAtMostOnce
  <2> SUFFICES ASSUME IInv, Once PROVE AnsweredAtMostOnce
    OBVIOUS
  <2> DEFINE Replies(call) == {at \in Priorities \X (1 .. QueueBound) :
                          LET queue == toHost[at[1]] IN
                          /\ at[2] \in DOMAIN queue
                          /\ queue[at[2]].stage = "reply" /\ queue[at[2]].call = call}
             Answers(call) == {d \in dispatched : d.call = call}
  <2>1. ASSUME NEW call \in 1 .. MaxCalls
        PROVE  Cardinality(Replies(call)) + Cardinality(Answers(call)) <= 1
    <3>1. \A p \in Priorities : DOMAIN toHost[p] = 1 .. Len(toHost[p])
      BY DEF IInv, LinkInv, Queues
    <3>2. Replies(call) # {} => Replied(call)
      BY <3>1 DEF Replied, Carries
    <3>3. Answers(call) # {} => Dispatched(call)
      BY DEF Dispatched
    <3>4. Replied(call) => ~Dispatched(call)
      <4> HIDE DEF Replies, Answers, Replied, Dispatched
      <4> QED
        BY DEF Once, Apart
    <3>5. Replies(call) = {} \/ Answers(call) = {}
      <4> HIDE DEF Replies, Answers
      <4> QED
        BY <3>2, <3>3, <3>4
    <3>6. \A x, y \in Replies(call) : x = y
      <4> SUFFICES ASSUME NEW x \in Replies(call), NEW y \in Replies(call) PROVE x = y
        OBVIOUS
      <4>1. /\ x \in Priorities \X (1 .. QueueBound) /\ y \in Priorities \X (1 .. QueueBound)
            /\ x[2] \in 1 .. Len(toHost[x[1]]) /\ y[2] \in 1 .. Len(toHost[y[1]])
            /\ toHost[x[1]][x[2]].stage = "reply" /\ toHost[y[1]][y[2]].stage = "reply"
            /\ toHost[x[1]][x[2]].call = toHost[y[1]][y[2]].call
        BY <3>1
      <4>2. x[1] \in Priorities /\ y[1] \in Priorities
        BY <4>1
      <4>3. x[1] = y[1] /\ x[2] = y[2]
        <5> HIDE DEF Replies
        <5> QED
          BY <4>1, <4>2 DEF Once, Single
      <4> QED
        BY <4>1, <4>3
    <3>7. \A x, y \in Answers(call) : x = y
      BY DEF Once, OneDispatch
    <3> HIDE DEF Replies, Answers
    <3>8. Cardinality({}) = 0 /\ \A x : Cardinality({x}) = 1
      BY FS_EmptySet, FS_Singleton
    <3>9. Replies(call) = {} \/ \E x : Replies(call) = {x}
      BY <3>6
    <3>10. Answers(call) = {} \/ \E x : Answers(call) = {x}
      BY <3>7
    <3>11. Cardinality(Replies(call)) \in {0, 1} /\ Cardinality(Answers(call)) \in {0, 1}
      BY <3>8, <3>9, <3>10
    <3>12. Cardinality(Replies(call)) = 0 \/ Cardinality(Answers(call)) = 0
      BY <3>5, <3>8
    <3> QED
      BY <3>11, <3>12
  <2> QED
    BY <2>1 DEF AnsweredAtMostOnce
<1> QED
  BY <1>1, Invariance, OnceInvariance, PTL
=============================================================================
