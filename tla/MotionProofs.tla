---------------------------- MODULE MotionProofs ----------------------------
(***************************************************************************)
(* What the store, the handlers and the controllers keep true whatever the *)
(* requests, the slots and the bounds. First the handlers' replies and the *)
(* controllers, for which it is enough that how long a view lasts depends  *)
(* on the store and on the time; then what the recursive functions of the  *)
(* search, the insertions and the views compute, and what the store holds. *)
(***************************************************************************)
EXTENDS Motion, SequenceTheorems, TLAPS, Induction

HandlerRecords ==
  [running : BOOLEAN, request : Requests \cup {NoRequest},
   state : {"processing", "sendingReply", "waiting", "sendingProgress"},
   result : Results, about : Requests \cup {NoRequest}, cancelled : BOOLEAN]
ControllerRecords == [started : BOOLEAN, view : Views \cup {NoPlace}, time : 0 .. Horizon]

\* What the argument needs of the types.
Types ==
  /\ handlers \in [Handlers -> HandlerRecords]
  /\ controllers \in [Moving -> ControllerRecords]
  /\ changed \in [Moving -> BOOLEAN]

\* The store has its slots, and whatever it holds refers to some of them.
StoreShape ==
  /\ store = [p \in Places |-> store[p]]
  /\ \A p \in Places : \A i \in DOMAIN store[p].parts : store[p].parts[i] \in Places

\* The slot of a request holds what it asked for.
Holds(r) ==
  /\ Target(r) \in Places
  /\ store[Target(r)].ok
  /\ store[Target(r)].parts = r.parts
  /\ store[Target(r)].times = Inserted(r.times)

\* A reply that waits for room is still true when it is sent: a handler serves one
\* request at a time, and nobody else writes into its slots.
WaitsTruly(h) ==
  handlers[h].state = "sendingReply" /\ ~handlers[h].cancelled =>
    /\ handlers[h].running
    /\ handlers[h].about = handlers[h].request
    /\ handlers[h].result = "success" =>
         /\ <<handlers[h].request.kind, handlers[h].request.family>> = h
         /\ Holds(handlers[h].request)
WaitingRepliesTrue == \A h \in CreateHandlers : WaitsTruly(h)

\* StopIsNoticed for one family, whose controller has a view.
Noticed(f) ==
  Executes(f) =>
    /\ controllers[f].view = handlers[<<"execute", f>>].request.view
    /\ controllers[f].view # NoPlace
    /\ ~controllers[f].started /\ ~changed[f] /\ halted = "no" => Finished(f)
AllNoticed == \A f \in Moving : Noticed(f)

IInv ==
  Types /\ StoreShape /\ NoDangling /\ WaitingRepliesTrue /\ CreateRepliesTruly /\ AllNoticed

-----------------------------------------------------------------------------
(* Requests and slots.                                                      *)

LEMMA HandlerKinds ==
  /\ CreateHandlers \subseteq Handlers
  /\ \A f \in Moving : <<"execute", f>> \in Handlers \ CreateHandlers
  /\ NoReply.handler \notin CreateHandlers
  /\ \A h \in Handlers \ CreateHandlers : \E f \in Moving : h = <<"execute", f>>
  BY DEF Handlers, CreateHandlers, Moving, Families, NoReply

\* What a request may name: a place, a slot that no store has, or a kind that no
\* store is for.
Names == [kind : {"trajectory", "plain", "modulated", "mixed", "invalid"}, family : Families, slot : Int]

\* A name that is found is a place that holds something.
LEMMA Found ==
  ASSUME NEW p \in Names, StatusAt(p) = "success"
  PROVE  p \in Places /\ store[p].ok
  <1>1. p.kind # "invalid" /\ p.slot \in Slots /\ store[p].ok
    BY DEF StatusAt
  <1> QED BY <1>1 DEF Names, Places

LEMMA RequestOf ==
  ASSUME NEW r \in Requests, r.kind # "execute"
  PROVE  <<r.kind, r.family>> \in CreateHandlers /\ PartsOk(r)
  BY MotionAssumption

LEMMA PartNames ==
  ASSUME NEW r \in Requests, r.kind # "execute", NEW i \in DOMAIN r.parts
  PROVE  r.parts[i] \in Names /\ i \in {1, 2, 3}
  <1>1. <<r.kind, r.family>> \in CreateHandlers /\ PartsOk(r)
    BY RequestOf
  <1>2. r.family \in Families
    BY <1>1 DEF CreateHandlers, Families, Moving
  <1>3. CASE r.kind = "trajectory"
    BY <1>1, <1>3 DEF PartsOk
  <1>4. CASE r.kind = "plain"
    <2>1. r.parts \in Seq(RefsTo({"trajectory"}, r.family))
      BY <1>1, <1>4 DEF PartsOk
    <2>2. r.parts[i] \in RefsTo({"trajectory"}, r.family) /\ i = 1
      BY <1>1, <1>4, <2>1 DEF PartsOk
    <2> QED BY <1>2, <2>2 DEF RefsTo, Names
  <1>5. CASE r.kind \notin {"trajectory", "plain"}
    <2>1. r.parts \in ViewRefs(r.family) \X ViewRefs(r.family) \X RefsTo({"plain"}, "envelope")
      BY <1>1, <1>5 DEF PartsOk
    <2>2. /\ i \in {1, 2, 3}
          /\ r.parts[1] \in ViewRefs(r.family) /\ r.parts[2] \in ViewRefs(r.family)
          /\ r.parts[3] \in RefsTo({"plain"}, "envelope")
      BY <2>1
    <2>3. "envelope" \in Families
      BY DEF Families
    <2> QED BY <1>2, <2>2, <2>3 DEF ViewRefs, RefsTo, Names
  <1> QED BY <1>3, <1>4, <1>5

\* A creation that succeeds has a slot and parts that are there.
LEMMA Successful ==
  ASSUME NEW r \in Requests, r.kind # "execute", CreateStatus(r) = "success"
  PROVE  /\ Target(r) \in Places
         /\ \A i \in DOMAIN r.parts : r.parts[i] \in Places /\ store[r.parts[i]].ok
  <1>1. r.slot \in Slots
    BY DEF CreateStatus
  <1>2. FailedParts(r) = {}
    <2> SUFFICES ASSUME FailedParts(r) # {} PROVE FALSE
      OBVIOUS
    <2>1. StatusAt(r.parts[CHOOSE i \in FailedParts(r) : \A j \in FailedParts(r) : i <= j]) = "success"
      BY <1>1 DEF CreateStatus
    <2>2. PICK i \in FailedParts(r) : \A j \in FailedParts(r) : i <= j
      <3>1. FailedParts(r) \subseteq {1, 2, 3}
        BY PartNames DEF FailedParts
      <3>2. 1 \in FailedParts(r) \/ 2 \in FailedParts(r) \/ 3 \in FailedParts(r)
        BY <3>1
      <3> QED BY <3>1, <3>2
    <2> QED BY <2>1, <2>2 DEF FailedParts
  <1>3. Target(r) \in Places
    <2>1. <<r.kind, r.family>> \in CreateHandlers
      BY RequestOf
    <2> QED BY <1>1, <2>1 DEF Target, Place, Places, CreateHandlers, Families, Moving
  <1>4. \A i \in DOMAIN r.parts : StatusAt(r.parts[i]) = "success"
    BY <1>2 DEF FailedParts
  <1> QED BY <1>3, <1>4, Found, PartNames

-----------------------------------------------------------------------------
(* What each part of the invariant depends on.                              *)

\* How long a view lasts depends on what the store holds.
LEMMA FinishedDependsOn ==
  ASSUME NEW f \in Moving, store' = store,
         controllers'[f].view = controllers[f].view, controllers'[f].time = controllers[f].time
  PROVE  Finished(f)' <=> Finished(f)
  BY DEF Finished, Timing

LEMMA SameObjects ==
  ASSUME StoreShape, NoDangling, store' = store,
         \A f \in Moving : controllers'[f].view = controllers[f].view
  PROVE  StoreShape' /\ NoDangling'
  BY DEF StoreShape, NoDangling

LEMMA SameWaiting ==
  ASSUME NEW h, WaitsTruly(h), store' = store, handlers'[h] = handlers[h]
  PROVE  WaitsTruly(h)'
  BY DEF WaitsTruly, Holds

\* A family whose handler, controller and store are the same, or that no longer
\* executes.
LEMMA SameNoticed ==
  ASSUME NEW f \in Moving, Noticed(f), store' = store, halted = "no",
         controllers'[f] = controllers[f], changed'[f] = changed[f],
         Executes(f)' => Executes(f) /\ handlers'[<<"execute", f>>].request = handlers[<<"execute", f>>].request
  PROVE  Noticed(f)'
  BY FinishedDependsOn DEF Noticed

\* A handler that tries to send its reply sends it, or waits with it.
LEMMA Replying ==
  ASSUME Types, NEW h \in Handlers, NEW n \in HandlerRecords, TrySendingReply(h, n)
  PROVE  /\ handlers' \in [Handlers -> HandlerRecords]
         /\ \A g \in Handlers \ {h} : handlers'[g] = handlers[g]
         /\ handlers'[h].state \in {"processing", "sendingReply"}
         /\ \/ /\ sent' = [handler |-> h, request |-> n.request, about |-> n.about,
                             result |-> n.result, cancelled |-> n.cancelled]
                /\ handlers'[h].state = "processing"
            \/ /\ sent' = NoReply
               /\ handlers'[h].running /\ handlers'[h].about = n.about /\ handlers'[h].request = n.request
               /\ handlers'[h].result = n.result /\ handlers'[h].cancelled = n.cancelled
  <1>1. CASE /\ sent' = [handler |-> h, request |-> n.request, about |-> n.about,
                         result |-> n.result, cancelled |-> n.cancelled]
             /\ handlers' = [handlers EXCEPT ![h] = Replied(n)]
    <2>1. Replied(n) \in HandlerRecords /\ Replied(n).state = "processing"
      BY DEF Replied, HandlerRecords, Results
    <2> QED BY <1>1, <2>1 DEF Types
  <1>2. CASE /\ sent' = NoReply
             /\ handlers' = [handlers EXCEPT ![h] = [n EXCEPT !.running = TRUE, !.state = "sendingReply"]]
    <2> DEFINE w == [n EXCEPT !.running = TRUE, !.state = "sendingReply"]
    <2>1. /\ w \in HandlerRecords /\ w.state = "sendingReply" /\ w.running
          /\ w.about = n.about /\ w.request = n.request
          /\ w.result = n.result /\ w.cancelled = n.cancelled
      BY DEF HandlerRecords
    <2> HIDE DEF w
    <2> QED BY <1>2, <2>1 DEF Types, w
  <1> QED BY <1>1, <1>2 DEF TrySendingReply

\* An assertion that fails, or a stack that overflows, leaves everything as it is.
LEMMA Halting ==
  ASSUME IInv, halted = "no", sent' = NoReply,
         UNCHANGED <<store, handlers, controllers, changed>>
  PROVE  IInv'
  <1>1. Types'
    BY DEF IInv, Types
  <1>2. StoreShape' /\ NoDangling'
    BY SameObjects DEF IInv
  <1>3. WaitingRepliesTrue'
    BY SameWaiting DEF IInv, WaitingRepliesTrue
  <1>4. CreateRepliesTruly'
    BY HandlerKinds DEF CreateRepliesTruly
  <1>5. AllNoticed'
    <2> SUFFICES ASSUME NEW f \in Moving PROVE Noticed(f)'
      BY DEF AllNoticed
    <2>1. Executes(f)' => Executes(f)
      BY DEF Executes
    <2> QED BY <2>1, SameNoticed DEF IInv, AllNoticed
  <1> QED BY <1>1, <1>2, <1>3, <1>4, <1>5 DEF IInv

-----------------------------------------------------------------------------
(* Creating.                                                                *)

\* A creating handler tries to send a reply that is true after the step, while
\* what other requests asked for stays in its slots.
LEMMA TrueReply ==
  ASSUME IInv, NEW h \in CreateHandlers, NEW n \in HandlerRecords, TrySendingReply(h, n),
         NEW r, n.request = r,
         ~n.cancelled => /\ n.about = r
                         /\ n.result = "success" => <<r.kind, r.family>> = h /\ Holds(r)',
         \A q \in Requests \cup {NoRequest} : <<q.kind, q.family>> # h /\ Holds(q) => Holds(q)'
  PROVE  WaitingRepliesTrue' /\ CreateRepliesTruly'
  <1>1. h \in Handlers
    BY HandlerKinds
  <1>2. WaitsTruly(h)'
    BY <1>1, Replying DEF IInv, WaitsTruly
  <1>3. ASSUME NEW g \in CreateHandlers, g # h PROVE WaitsTruly(g)'
    <2>1. WaitsTruly(g) /\ handlers'[g] = handlers[g]
      BY <1>1, <1>3, Replying, HandlerKinds DEF IInv, WaitingRepliesTrue
    <2>2. handlers[g].request \in Requests \cup {NoRequest}
      BY <1>3, HandlerKinds DEF IInv, Types, HandlerRecords
    <2> QED BY <1>3, <2>1, <2>2 DEF WaitsTruly
  <1>4. CreateRepliesTruly'
    <2>1. CASE sent' = NoReply
      BY <2>1, HandlerKinds DEF CreateRepliesTruly
    <2>2. CASE sent' = [handler |-> h, request |-> n.request, about |-> n.about,
                        result |-> n.result, cancelled |-> n.cancelled]
      BY <2>2 DEF CreateRepliesTruly, Holds
    <2> QED BY <1>1, <2>1, <2>2, Replying DEF IInv
  <1> QED BY <1>2, <1>3, <1>4 DEF WaitingRepliesTrue

\* A step of a creating handler, which leaves the executing ones alone.
LEMMA CreatorNoticed ==
  ASSUME IInv, halted = "no", NEW h \in CreateHandlers, NEW n \in HandlerRecords, TrySendingReply(h, n),
         UNCHANGED controllers,
         \/ UNCHANGED <<store, changed>>
         \/ changed' = [f \in Moving |-> controllers[f].view # NoPlace]
  PROVE  AllNoticed'
  <1> SUFFICES ASSUME NEW f \in Moving PROVE Noticed(f)'
    BY DEF AllNoticed
  <1>1. handlers'[<<"execute", f>>] = handlers[<<"execute", f>>]
    BY Replying, HandlerKinds DEF IInv
  <1>2. Noticed(f) /\ (Executes(f)' <=> Executes(f))
    BY <1>1 DEF IInv, AllNoticed, Executes
  <1>3. CASE UNCHANGED <<store, changed>>
    BY <1>1, <1>2, <1>3, SameNoticed
  <1>4. CASE changed' = [g \in Moving |-> controllers[g].view # NoPlace]
    BY <1>1, <1>2, <1>4 DEF Noticed
  <1> QED BY <1>3, <1>4

\* A creation writes an object whose parts are there, and takes nothing away.
LEMMA Storing ==
  ASSUME IInv, NEW r \in Requests, r.kind # "execute", CreateStatus(r) = "success", Stores(r),
         UNCHANGED controllers
  PROVE  /\ StoreShape' /\ NoDangling' /\ Holds(r)'
         /\ \A q \in Requests \cup {NoRequest} :
              <<q.kind, q.family>> # <<r.kind, r.family>> /\ Holds(q) => Holds(q)'
         /\ changed' \in [Moving -> BOOLEAN]
  <1>1. /\ Target(r) \in Places
        /\ \A i \in DOMAIN r.parts : r.parts[i] \in Places /\ store[r.parts[i]].ok
    BY Successful
  <1>2. store' = [store EXCEPT ![Target(r)] = Created(r)]
    BY DEF Stores
  <1>3. store = [p \in Places |-> store[p]]
    BY DEF IInv, StoreShape
  <1>4. /\ store' = [p \in Places |-> store'[p]]
        /\ store'[Target(r)] = Created(r)
        /\ \A p \in Places \ {Target(r)} : store'[p] = store[p]
    BY <1>1, <1>2, <1>3
  <1>5. Created(r).ok /\ Created(r).parts = r.parts /\ Created(r).times = Inserted(r.times)
    BY DEF Created
  <1>6. StoreShape'
    BY <1>1, <1>4, <1>5 DEF IInv, StoreShape
  <1>7. \A p \in Places : store[p].ok => store'[p].ok
    BY <1>4, <1>5
  <1>8. NoDangling'
    <2>1. ASSUME NEW p \in Places, store'[p].ok, NEW i \in DOMAIN store'[p].parts
          PROVE  store'[store'[p].parts[i]].ok
      <3>1. CASE p = Target(r)
        BY <1>1, <1>4, <1>5, <1>7, <2>1, <3>1
      <3>2. CASE p # Target(r)
        BY <1>4, <1>7, <2>1, <3>2 DEF IInv, StoreShape, NoDangling
      <3> QED BY <3>1, <3>2
    <2>2. ASSUME NEW f \in Moving, controllers'[f].view # NoPlace PROVE store'[controllers'[f].view].ok
      <3>1. controllers[f].view \in Places /\ store[controllers[f].view].ok
        BY <2>2 DEF IInv, Types, ControllerRecords, Views, NoDangling
      <3> QED BY <1>7, <3>1
    <2> QED BY <2>1, <2>2 DEF NoDangling
  <1>9. Holds(r)'
    BY <1>1, <1>4, <1>5 DEF Holds
  <1>10. ASSUME NEW q \in Requests \cup {NoRequest}, <<q.kind, q.family>> # <<r.kind, r.family>>, Holds(q)
         PROVE  Holds(q)'
    <2>1. Target(q) # Target(r)
      BY <1>10 DEF Target, Place
    <2> QED BY <1>4, <1>10, <2>1 DEF Holds
  <1>11. changed' \in [Moving -> BOOLEAN]
    BY DEF Stores
  <1> QED BY <1>6, <1>8, <1>9, <1>10, <1>11

LEMMA Creating ==
  ASSUME IInv, NEW kind, NEW family, <<kind, family>> \in CreateHandlers, Create(kind, family)
  PROVE  IInv'
  <1> DEFINE h == <<kind, family>>
  <1>1. PICK r \in Requests :
          LET handler == [handlers[h] EXCEPT !.request = r]
              status == CreateStatus(r)
          IN /\ r.kind = kind /\ r.family = family
             /\ TakesRequest(r)
             /\ \/ /\ handler.state = "processing" /\ status = "success" /\ CreateFails(r)
                   /\ halted' = "assert" /\ sent' = NoReply
                   /\ UNCHANGED <<store, handlers, replaced, changed>>
                \/ /\ handler.state = "processing" /\ status = "success" /\ ~CreateFails(r)
                   /\ Stores(r)
                   /\ TrySendingReply(h, [handler EXCEPT !.result = status, !.about = r])
                   /\ UNCHANGED halted
                \/ /\ handler.state = "processing" /\ status # "success"
                   /\ TrySendingReply(h, [handler EXCEPT !.result = status, !.about = r])
                   /\ UNCHANGED <<store, halted, replaced, changed>>
                \/ /\ handler.state = "sendingReply"
                   /\ TrySendingReply(h, handler)
                   /\ UNCHANGED <<store, halted, replaced, changed>>
             /\ UNCHANGED controllers
    BY DEF Create
  <1> DEFINE handler == [handlers[h] EXCEPT !.request = r]
             n == [handler EXCEPT !.result = CreateStatus(r), !.about = r]
  <1>2. h \in Handlers /\ halted = "no" /\ ~handlers[h].running
    BY <1>1, HandlerKinds DEF TakesRequest
  <1>3. r.kind # "execute"
    BY <1>1 DEF CreateHandlers, Moving, Families
  <1>4. handler \in HandlerRecords /\ handler.request = r /\ handler.cancelled = handlers[h].cancelled
        /\ handler.state = handlers[h].state
    BY <1>2 DEF IInv, Types, HandlerRecords
  <1>5. CreateStatus(r) \in Results
    BY DEF CreateStatus, StatusAt, Results
  <1>6. n \in HandlerRecords /\ n.request = r /\ n.about = r /\ n.result = CreateStatus(r)
    BY <1>4, <1>5 DEF HandlerRecords
  <1>7. UNCHANGED controllers
    BY <1>1
  <1> HIDE DEF n, handler
  <1>8. CASE UNCHANGED <<store, handlers, changed>> /\ sent' = NoReply
    BY <1>2, <1>7, <1>8, Halting
  <1>9. CASE CreateStatus(r) = "success" /\ Stores(r) /\ TrySendingReply(h, n)
    <2>1. /\ StoreShape' /\ NoDangling' /\ Holds(r)' /\ changed' \in [Moving -> BOOLEAN]
          /\ \A q \in Requests \cup {NoRequest} : <<q.kind, q.family>> # h /\ Holds(q) => Holds(q)'
      BY <1>1, <1>3, <1>7, <1>9, Storing
    <2>2. handlers' \in [Handlers -> HandlerRecords]
      BY <1>2, <1>6, <1>9, Replying DEF IInv
    <2>3. Types'
      BY <1>7, <2>1, <2>2 DEF IInv, Types
    <2>4. <<r.kind, r.family>> = h /\ n.request = r /\ n.about = r
      BY <1>1, <1>6
    <2>5. WaitingRepliesTrue' /\ CreateRepliesTruly'
      BY <1>6, <1>9, <2>1, <2>4, TrueReply
    <2>6. AllNoticed'
      BY <1>2, <1>6, <1>7, <1>9, CreatorNoticed DEF Stores
    <2> QED BY <2>1, <2>3, <2>5, <2>6 DEF IInv
  <1>10. ASSUME NEW m \in HandlerRecords, TrySendingReply(h, m), UNCHANGED <<store, changed>>,
                m.request = r, ~m.cancelled => m.about = r /\ m.result # "success"
         PROVE  IInv'
    <2>1. StoreShape' /\ NoDangling'
      BY <1>7, <1>10, SameObjects DEF IInv
    <2>2. handlers' \in [Handlers -> HandlerRecords]
      BY <1>2, <1>10, Replying DEF IInv
    <2>3. Types'
      BY <1>7, <1>10, <2>2 DEF IInv, Types
    <2>4. \A q \in Requests \cup {NoRequest} : <<q.kind, q.family>> # h /\ Holds(q) => Holds(q)'
      BY <1>10 DEF Holds
    <2>5. WaitingRepliesTrue' /\ CreateRepliesTruly'
      BY <1>10, <2>4, TrueReply
    <2>6. AllNoticed'
      BY <1>2, <1>7, <1>10, CreatorNoticed
    <2> QED BY <2>1, <2>3, <2>5, <2>6 DEF IInv
  <1>11. CASE CreateStatus(r) # "success" /\ TrySendingReply(h, n) /\ UNCHANGED <<store, changed>>
    BY <1>6, <1>10, <1>11
  <1>12. CASE handler.state = "sendingReply" /\ TrySendingReply(h, handler) /\ UNCHANGED <<store, changed>>
    <2>1. handler.cancelled
      BY <1>2, <1>4, <1>12 DEF IInv, WaitingRepliesTrue, WaitsTruly, HandlerRecords
    <2> QED BY <1>4, <1>10, <1>12, <2>1
  <1> QED BY <1>1, <1>8, <1>9, <1>11, <1>12 DEF n, handler

-----------------------------------------------------------------------------
(* Executing.                                                               *)

\* A step after which no creating handler, and nothing in the store, is different.
LEMMA CreatorsKept ==
  ASSUME IInv, UNCHANGED store, \A g \in CreateHandlers : handlers'[g] = handlers[g],
         sent'.handler \notin CreateHandlers
  PROVE  WaitingRepliesTrue' /\ CreateRepliesTruly'
  <1>1. WaitingRepliesTrue'
    BY SameWaiting DEF IInv, WaitingRepliesTrue
  <1> QED BY <1>1 DEF CreateRepliesTruly

LEMMA Executing ==
  ASSUME IInv, NEW family \in Moving, Execute(family)
  PROVE  IInv'
  <1> DEFINE h == <<"execute", family>>
  <1>1. PICK r \in Requests :
          LET status == StatusAt(r.view)
              handler == [handlers[h] EXCEPT !.request = r, !.state = "processing", !.result = status, !.about = r]
          IN /\ r.kind = "execute" /\ r.family = family
             /\ TakesRequest(r)
             /\ \/ /\ status # "success"
                   /\ TrySendingReply(h, handler)
                   /\ UNCHANGED <<controllers, changed>>
                \/ /\ status = "success"
                   /\ controllers' = [controllers EXCEPT ![family] = Started(r.view)]
                   /\ changed' = [changed EXCEPT ![family] = FALSE]
                   /\ handlers' = [handlers EXCEPT ![h] = [handler EXCEPT !.running = TRUE, !.state = "waiting"]]
                   /\ sent' = NoReply
             /\ UNCHANGED <<store, halted, replaced>>
    BY DEF Execute
  <1> DEFINE n == [handlers[h] EXCEPT !.request = r, !.state = "processing", !.result = StatusAt(r.view), !.about = r]
  <1>2. h \in Handlers /\ h \notin CreateHandlers /\ halted = "no" /\ UNCHANGED store
    BY <1>1, HandlerKinds DEF TakesRequest
  <1>3. StatusAt(r.view) \in Results
    BY DEF StatusAt, Results
  <1>4. n \in HandlerRecords
    BY <1>2, <1>3 DEF IInv, Types, HandlerRecords
  <1> HIDE DEF n
  <1>5. CASE TrySendingReply(h, n) /\ UNCHANGED <<controllers, changed>>
    <2>1. /\ handlers' \in [Handlers -> HandlerRecords]
          /\ \A g \in Handlers \ {h} : handlers'[g] = handlers[g]
          /\ handlers'[h].state \in {"processing", "sendingReply"}
          /\ sent'.handler \notin CreateHandlers
      BY <1>2, <1>4, <1>5, Replying, HandlerKinds DEF IInv
    <2>2. Types' /\ StoreShape' /\ NoDangling'
      BY <1>2, <1>5, <2>1, SameObjects DEF IInv, Types
    <2>3. WaitingRepliesTrue' /\ CreateRepliesTruly'
      BY <1>2, <2>1, CreatorsKept, HandlerKinds
    <2>4. ASSUME NEW f \in Moving PROVE Noticed(f)'
      <3>1. CASE f = family
        BY <2>1, <3>1 DEF Noticed, Executes
      <3>2. CASE f # family
        <4>1. handlers'[<<"execute", f>>] = handlers[<<"execute", f>>]
          BY <2>1, <3>2, HandlerKinds
        <4> QED BY <1>2, <1>5, <4>1, SameNoticed DEF IInv, AllNoticed, Executes
      <3> QED BY <3>1, <3>2
    <2> QED BY <2>2, <2>3, <2>4 DEF IInv, AllNoticed
  <1>6. CASE /\ StatusAt(r.view) = "success"
             /\ controllers' = [controllers EXCEPT ![family] = Started(r.view)]
             /\ changed' = [changed EXCEPT ![family] = FALSE]
             /\ handlers' = [handlers EXCEPT ![h] = [n EXCEPT !.running = TRUE, !.state = "waiting"]]
             /\ sent' = NoReply
    <2>1. r.view \in Views /\ store[r.view].ok
      <3>1. r.view \in ViewRefs(family) /\ family \in Families
        BY <1>1, MotionAssumption DEF CreateHandlers, Moving, Families
      <3>2. r.view \in Names /\ r.view.kind # "trajectory"
        BY <3>1 DEF ViewRefs, RefsTo, Names
      <3> QED BY <1>6, <3>2, Found DEF Views
    <2>2. r.view # NoPlace
      BY <2>1 DEF NoPlace, Place, Views, Places
    <2>3. Started(r.view) \in ControllerRecords /\ Started(r.view).view = r.view /\ Started(r.view).started
      BY <2>1, MotionAssumption DEF Started, ControllerRecords
    <2>4. /\ [n EXCEPT !.running = TRUE, !.state = "waiting"] \in HandlerRecords
          /\ [n EXCEPT !.running = TRUE, !.state = "waiting"].request = r
      BY <1>2, <1>4 DEF n, IInv, Types, HandlerRecords
    <2>5. /\ handlers' \in [Handlers -> HandlerRecords] /\ handlers'[h].request = r
          /\ \A g \in Handlers \ {h} : handlers'[g] = handlers[g]
      BY <1>2, <1>6, <2>4 DEF IInv, Types
    <2>6. /\ controllers' \in [Moving -> ControllerRecords] /\ changed' \in [Moving -> BOOLEAN]
          /\ controllers'[family] = Started(r.view)
          /\ \A f \in Moving \ {family} : controllers'[f] = controllers[f] /\ changed'[f] = changed[f]
      BY <1>6, <2>3 DEF IInv, Types
    <2>7. Types'
      BY <2>5, <2>6 DEF Types
    <2>8. StoreShape'
      BY <1>2 DEF IInv, StoreShape
    <2>9. NoDangling'
      <3>1. \A f \in Moving : controllers'[f].view # NoPlace => store[controllers'[f].view].ok
        BY <2>1, <2>3, <2>6 DEF IInv, NoDangling
      <3> QED BY <1>2, <3>1 DEF IInv, NoDangling
    <2>10. WaitingRepliesTrue' /\ CreateRepliesTruly'
      BY <1>2, <1>6, <2>5, CreatorsKept, HandlerKinds
    <2>11. ASSUME NEW f \in Moving PROVE Noticed(f)'
      <3>1. CASE f = family
        BY <2>2, <2>3, <2>5, <2>6, <3>1 DEF Noticed
      <3>2. CASE f # family
        <4>1. handlers'[<<"execute", f>>] = handlers[<<"execute", f>>]
          BY <2>5, <3>2, HandlerKinds
        <4> QED BY <1>2, <2>6, <3>2, <4>1, SameNoticed DEF IInv, AllNoticed, Executes
      <3> QED BY <3>1, <3>2
    <2> QED BY <2>7, <2>8, <2>9, <2>10, <2>11 DEF IInv, AllNoticed
  <1> QED BY <1>1, <1>5, <1>6 DEF n

\* A step of the handler that executes a family's view, after which it no longer
\* executes or is about the same request.
LEMMA ExecutorStep ==
  ASSUME IInv, halted = "no", NEW family \in Moving, UNCHANGED <<store, controllers, changed>>,
         handlers' \in [Handlers -> HandlerRecords],
         \A g \in Handlers \ {<<"execute", family>>} : handlers'[g] = handlers[g],
         sent'.handler \notin CreateHandlers,
         Executes(family)' =>
           /\ Executes(family)
           /\ handlers'[<<"execute", family>>].request = handlers[<<"execute", family>>].request
  PROVE  IInv'
  <1>1. Types' /\ StoreShape' /\ NoDangling'
    BY SameObjects DEF IInv, Types
  <1>2. WaitingRepliesTrue' /\ CreateRepliesTruly'
    BY CreatorsKept, HandlerKinds
  <1>3. ASSUME NEW f \in Moving PROVE Noticed(f)'
    <2>1. CASE f = family
      BY <2>1, SameNoticed DEF IInv, AllNoticed
    <2>2. CASE f # family
      <3>1. handlers'[<<"execute", f>>] = handlers[<<"execute", f>>]
        BY <2>2, HandlerKinds
      <3> QED BY <3>1, SameNoticed DEF IInv, AllNoticed, Executes
    <2> QED BY <2>1, <2>2
  <1> QED BY <1>1, <1>2, <1>3 DEF IInv, AllNoticed

LEMMA ExecutorReplies ==
  ASSUME IInv, halted = "no", NEW family \in Moving, UNCHANGED <<store, controllers, changed>>,
         TrySendingReply(<<"execute", family>>, handlers[<<"execute", family>>])
  PROVE  IInv'
  <1> DEFINE h == <<"execute", family>>
             n == handlers[h]
  <1>1. h \in Handlers /\ h \notin CreateHandlers /\ n \in HandlerRecords
    BY HandlerKinds DEF IInv, Types
  <1> HIDE DEF n
  <1>2. TrySendingReply(h, n)
    BY DEF n
  <1>3. /\ handlers' \in [Handlers -> HandlerRecords]
        /\ \A g \in Handlers \ {h} : handlers'[g] = handlers[g]
        /\ handlers'[h].state \in {"processing", "sendingReply"}
        /\ sent'.handler \notin CreateHandlers
    BY <1>1, <1>2, Replying, HandlerKinds DEF IInv
  <1>4. ~Executes(family)'
    BY <1>3 DEF Executes
  <1> QED BY <1>3, <1>4, ExecutorStep

LEMMA Progressing ==
  ASSUME IInv, NEW family \in Moving,
         NoticeEnd(family) \/ SendProgress(family) \/ NoRoomForProgress(family)
  PROVE  IInv'
  <1> DEFINE h == <<"execute", family>>
  <1>1. halted = "no" /\ handlers[h].running /\ handlers[h].state \in {"waiting", "sendingProgress"}
    BY DEF NoticeEnd, SendProgress, NoRoomForProgress, Waits
  <1>2. Executes(family)
    BY <1>1 DEF Executes
  <1>3. h \in Handlers /\ handlers[h] \in HandlerRecords
    BY HandlerKinds DEF IInv, Types
  <1>4. ASSUME NEW s \in {"waiting", "sendingProgress"}, handlers' = [handlers EXCEPT ![h].state = s],
               sent' = NoReply, UNCHANGED <<store, controllers, changed>>
        PROVE  IInv'
    <2>1. /\ [handlers[h] EXCEPT !.state = s] \in HandlerRecords
          /\ [handlers[h] EXCEPT !.state = s].request = handlers[h].request
      BY <1>3 DEF HandlerRecords
    <2>2. /\ handlers' \in [Handlers -> HandlerRecords]
          /\ \A g \in Handlers \ {h} : handlers'[g] = handlers[g]
          /\ handlers'[h].request = handlers[h].request
      BY <1>3, <1>4, <2>1 DEF IInv, Types
    <2> QED BY <1>1, <1>2, <1>4, <2>2, ExecutorStep, HandlerKinds
  <1>5. CASE NoticeEnd(family)
    <2>1. CASE Halt(FinishedFails(family))
      BY <1>1, <2>1, Halting DEF Halt
    <2>2. CASE TrySendingReply(h, handlers[h]) /\ UNCHANGED <<store, controllers, changed>>
      BY <1>1, <2>2, ExecutorReplies
    <2> QED BY <1>5, <2>1, <2>2 DEF NoticeEnd
  <1>6. CASE SendProgress(family)
    <2>1. CASE Halt(ProgressFails(family))
      BY <1>1, <2>1, Halting DEF Halt
    <2>2. CASE handlers' = [handlers EXCEPT ![h].state = "waiting"] /\ sent' = NoReply
               /\ UNCHANGED <<store, controllers, changed>>
      BY <1>4, <2>2
    <2> QED BY <1>6, <2>1, <2>2 DEF SendProgress
  <1>7. CASE NoRoomForProgress(family)
    BY <1>4, <1>7 DEF NoRoomForProgress
  <1> QED BY <1>5, <1>6, <1>7

\* A controller takes a step in time, and stops when it finds its trajectory
\* finished, which its handler finds too.
LEMMA Updating ==
  ASSUME IInv, NEW family \in Moving, Update(family)
  PROVE  IInv'
  <1> DEFINE controller == [controllers[family] EXCEPT !.time = Later(controllers[family].time)]
  <1>1. halted = "no" /\ controllers[family].started
    BY DEF Update
  <1>2. controllers[family] \in ControllerRecords
    BY DEF IInv, Types
  <1>3. Later(controllers[family].time) \in 0 .. Horizon
    BY <1>2, MotionAssumption DEF Later, ControllerRecords
  <1>4. controller \in ControllerRecords /\ controller.view = controllers[family].view /\ controller.started
    BY <1>1, <1>2, <1>3 DEF ControllerRecords
  <1>5. /\ Stopped(controller) \in ControllerRecords /\ Stopped(controller).view = controller.view
        /\ Stopped(controller).time = controller.time
    BY <1>4 DEF Stopped, ControllerRecords
  <1> HIDE DEF controller
  <1>6. ASSUME NEW c \in ControllerRecords, c.view = controllers[family].view,
               controllers' = [controllers EXCEPT ![family] = c],
               ~c.started => Finished(family)',
               sent' = NoReply, UNCHANGED <<store, handlers, halted, changed>>
        PROVE  IInv'
    <2>1. /\ controllers' \in [Moving -> ControllerRecords] /\ controllers'[family] = c
          /\ \A f \in Moving \ {family} : controllers'[f] = controllers[f]
      BY <1>6 DEF IInv, Types
    <2>2. Types' /\ StoreShape' /\ NoDangling'
      BY <1>6, <2>1, SameObjects DEF IInv, Types
    <2>3. WaitingRepliesTrue' /\ CreateRepliesTruly'
      BY <1>6, CreatorsKept, HandlerKinds
    <2>4. ASSUME NEW f \in Moving PROVE Noticed(f)'
      <3>1. Executes(f)' <=> Executes(f)
        BY <1>6 DEF Executes
      <3>2. CASE f = family
        BY <1>6, <2>1, <3>1, <3>2 DEF Noticed, IInv, AllNoticed
      <3>3. CASE f # family
        BY <1>1, <1>6, <2>1, <3>1, <3>3, SameNoticed DEF IInv, AllNoticed
      <3> QED BY <3>2, <3>3
    <2> QED BY <2>2, <2>3, <2>4 DEF IInv, AllNoticed
  <1>7. CASE sent' = NoReply /\ UNCHANGED <<store, handlers, controllers, changed>>
    BY <1>1, <1>7, Halting
  <1>8. CASE /\ ~Timing(controller.view).loops /\ controller.time > Timing(controller.view).lap
             /\ controllers' = [controllers EXCEPT ![family] = Stopped(controller)]
             /\ sent' = NoReply /\ UNCHANGED <<store, handlers, halted, changed>>
    <2>1. controllers'[family] = Stopped(controller)
      BY <1>8 DEF IInv, Types
    <2>2. Finished(family)'
      BY <1>5, <1>8, <2>1 DEF Finished, Timing
    <2> QED BY <1>4, <1>5, <1>6, <1>8, <2>2
  <1>9. CASE /\ controllers' = [controllers EXCEPT ![family] = controller]
             /\ sent' = NoReply /\ UNCHANGED <<store, handlers, halted, changed>>
    BY <1>4, <1>6, <1>9
  <1> QED BY <1>7, <1>8, <1>9 DEF Update, Halt, controller

-----------------------------------------------------------------------------
(* Replies that waited, and cancellations.                                  *)

LEMMA SendingReply ==
  ASSUME IInv, NEW h \in Handlers, SendReply(h)
  PROVE  IInv'
  <1>1. halted = "no" /\ handlers[h].state = "sendingReply" /\ UNCHANGED <<store, controllers, changed>>
    BY DEF SendReply
  <1>2. CASE h \in CreateHandlers
    <2> DEFINE n == handlers[h]
    <2>1. n \in HandlerRecords
      BY DEF IInv, Types
    <2>2. PICK r \in Requests \cup {NoRequest} : r = n.request
      BY <2>1 DEF HandlerRecords
    <2>3. ~n.cancelled => /\ n.about = r
                          /\ n.result = "success" => <<r.kind, r.family>> = h /\ Holds(r)
      BY <1>1, <1>2, <2>2 DEF IInv, WaitingRepliesTrue, WaitsTruly
    <2>4. TrySendingReply(h, n)
      BY DEF SendReply
    <2> HIDE DEF n
    <2>5. \A q : Holds(q) => Holds(q)'
      BY <1>1 DEF Holds
    <2>6. WaitingRepliesTrue' /\ CreateRepliesTruly'
      BY <1>2, <2>1, <2>2, <2>3, <2>4, <2>5, TrueReply
    <2>7. handlers' \in [Handlers -> HandlerRecords]
      BY <2>1, <2>4, Replying DEF IInv
    <2>8. Types' /\ StoreShape' /\ NoDangling'
      BY <1>1, <2>7, SameObjects DEF IInv, Types
    <2>9. AllNoticed'
      BY <1>1, <1>2, <2>1, <2>4, CreatorNoticed
    <2> QED BY <2>6, <2>8, <2>9 DEF IInv
  <1>3. CASE h \notin CreateHandlers
    <2>1. PICK f \in Moving : h = <<"execute", f>>
      BY <1>3, HandlerKinds
    <2> QED BY <1>1, <2>1, ExecutorReplies DEF SendReply
  <1> QED BY <1>2, <1>3

\* What a cancellation leaves: a handler that does not run, and a reply that it
\* was going to send is known to be another request's.
LEMMA Idling ==
  ASSUME NEW n \in HandlerRecords
  PROVE  /\ Idle(n) \in HandlerRecords /\ ~Idle(n).running
         /\ Idle(n).state = "sendingReply" => Idle(n).cancelled
  <1>1. (n.state = "sendingReply") \in BOOLEAN
    OBVIOUS
  <1> QED BY <1>1 DEF Idle, HandlerRecords

\* Some handlers are cancelled and the controllers of those that execute stop.
LEMMA Cancelling ==
  ASSUME IInv, halted = "no", NEW hs \in SUBSET Handlers, OnCancel(hs),
         handlers' \in [Handlers -> HandlerRecords],
         \A h \in hs : ~handlers'[h].running,
         \A h \in hs \cap CreateHandlers : handlers'[h].state = "sendingReply" => handlers'[h].cancelled,
         \A h \in Handlers \ hs : handlers'[h] = handlers[h],
         sent' = NoReply, UNCHANGED <<store, halted, changed>>
  PROVE  IInv'
  <1>1. \A f \in Moving : Stopped(controllers[f]) \in ControllerRecords
                         /\ Stopped(controllers[f]).view = controllers[f].view
    BY DEF Stopped, IInv, Types, ControllerRecords
  <1>2. /\ controllers' \in [Moving -> ControllerRecords]
        /\ \A f \in Moving : controllers'[f].view = controllers[f].view
        /\ \A f \in Moving : <<"execute", f>> \notin hs => controllers'[f] = controllers[f]
    BY <1>1 DEF OnCancel, IInv, Types
  <1>3. Types' /\ StoreShape' /\ NoDangling'
    BY <1>2, SameObjects DEF IInv, Types
  <1>4. WaitingRepliesTrue'
    <2> SUFFICES ASSUME NEW h \in CreateHandlers PROVE WaitsTruly(h)'
      BY DEF WaitingRepliesTrue
    <2>1. CASE h \in hs
      BY <2>1 DEF WaitsTruly
    <2>2. CASE h \notin hs
      BY <2>2, SameWaiting, HandlerKinds DEF IInv, WaitingRepliesTrue
    <2> QED BY <2>1, <2>2
  <1>5. CreateRepliesTruly'
    BY HandlerKinds DEF CreateRepliesTruly
  <1>6. ASSUME NEW f \in Moving PROVE Noticed(f)'
    <2>1. CASE <<"execute", f>> \in hs
      BY <2>1 DEF Noticed, Executes
    <2>2. CASE <<"execute", f>> \notin hs
      <3>1. handlers'[<<"execute", f>>] = handlers[<<"execute", f>>]
        BY <2>2, HandlerKinds
      <3> QED BY <1>2, <2>2, <3>1, SameNoticed DEF IInv, AllNoticed, Executes
    <2> QED BY <2>1, <2>2
  <1> QED BY <1>3, <1>4, <1>5, <1>6 DEF IInv, AllNoticed

LEMMA CancellingOne ==
  ASSUME IInv, NEW h \in Handlers, Cancel(h)
  PROVE  IInv'
  <1>1. handlers[h] \in HandlerRecords
    BY DEF IInv, Types
  <1>2. /\ handlers' = [handlers EXCEPT ![h] = Idle(handlers[h])]
        /\ halted = "no" /\ OnCancel({h}) /\ sent' = NoReply /\ UNCHANGED <<store, halted, changed>>
    BY DEF Cancel
  <1>3. /\ handlers' \in [Handlers -> HandlerRecords] /\ handlers'[h] = Idle(handlers[h])
        /\ \A g \in Handlers \ {h} : handlers'[g] = handlers[g]
    BY <1>1, <1>2, Idling DEF IInv, Types
  <1> DEFINE hs == {h}
  <1>4. /\ hs \in SUBSET Handlers /\ OnCancel(hs)
        /\ \A g \in hs : ~handlers'[g].running /\ (handlers'[g].state = "sendingReply" => handlers'[g].cancelled)
        /\ \A g \in Handlers \ hs : handlers'[g] = handlers[g]
    BY <1>1, <1>2, <1>3, Idling
  <1> HIDE DEF hs
  <1> QED BY <1>2, <1>3, <1>4, Cancelling

LEMMA CancellingAll ==
  ASSUME IInv, OnOtherEndStarted
  PROVE  IInv'
  <1>1. /\ handlers' = [h \in Handlers |-> IF handlers[h].running THEN Idle(handlers[h]) ELSE handlers[h]]
        /\ halted = "no" /\ OnCancel(Handlers) /\ sent' = NoReply /\ UNCHANGED <<store, halted, changed>>
    BY DEF OnOtherEndStarted
  <1>2. ASSUME NEW h \in Handlers
        PROVE  /\ handlers'[h] \in HandlerRecords /\ ~handlers'[h].running
               /\ h \in CreateHandlers /\ handlers'[h].state = "sendingReply" => handlers'[h].cancelled
    <2>1. handlers[h] \in HandlerRecords
      BY DEF IInv, Types
    <2>2. CASE handlers[h].running
      BY <1>1, <2>1, <2>2, Idling
    <2>3. CASE ~handlers[h].running
      <3>1. handlers'[h] = handlers[h]
        BY <1>1, <2>3
      <3>2. h \in CreateHandlers /\ handlers[h].state = "sendingReply" => handlers[h].cancelled
        BY <2>1, <2>3 DEF IInv, WaitingRepliesTrue, WaitsTruly, HandlerRecords
      <3> QED BY <2>1, <2>3, <3>1, <3>2
    <2> QED BY <2>2, <2>3
  <1>3. handlers' \in [Handlers -> HandlerRecords]
    BY <1>1, <1>2
  <1> DEFINE hs == Handlers
  <1>4. /\ hs \in SUBSET Handlers /\ OnCancel(hs) /\ hs \cap CreateHandlers \subseteq Handlers
        /\ \A g \in Handlers \ hs : handlers'[g] = handlers[g]
        /\ \A g \in hs : ~handlers'[g].running
        /\ \A g \in hs \cap CreateHandlers : handlers'[g].state = "sendingReply" => handlers'[g].cancelled
    BY <1>1, <1>2
  <1> HIDE DEF hs
  <1> QED BY <1>1, <1>3, <1>4, Cancelling

-----------------------------------------------------------------------------
(* The theorems.                                                            *)

\* The inductive invariant holds in every state.
THEOREM Inductive == Spec => []IInv
  <1>1. Init => IInv
    <2> SUFFICES ASSUME Init PROVE IInv
      OBVIOUS
    <2>1. \A h \in Handlers : handlers[h] \in HandlerRecords /\ handlers[h].state = "processing" /\ ~handlers[h].running
      BY DEF Init, InitButStore, HandlerRecords, Results
    <2>2. \A f \in Moving : controllers[f] \in ControllerRecords /\ controllers[f].view = NoPlace
      BY MotionAssumption DEF Init, InitButStore, ControllerRecords
    <2>3. Types
      BY <2>1, <2>2 DEF Types, Init, InitButStore
    <2>4. StoreShape /\ NoDangling
      BY <2>2 DEF Init, Unavailable, StoreShape, NoDangling
    <2>5. WaitingRepliesTrue
      BY <2>1, HandlerKinds DEF WaitingRepliesTrue, WaitsTruly
    <2>6. CreateRepliesTruly
      BY HandlerKinds DEF CreateRepliesTruly, Init, InitButStore
    <2>7. AllNoticed
      BY <2>1, HandlerKinds DEF AllNoticed, Noticed, Executes
    <2> QED BY <2>3, <2>4, <2>5, <2>6, <2>7 DEF IInv
  <1>2. IInv /\ [Next]_vars => IInv'
    <2> SUFFICES ASSUME IInv, [Next]_vars PROVE IInv'
      OBVIOUS
    <2>1. ASSUME NEW kind \in {"trajectory", "plain"}, NEW family \in Families, Create(kind, family)
          PROVE  IInv'
      BY <2>1, Creating DEF CreateHandlers
    <2>2. ASSUME NEW kind \in {"modulated", "mixed"}, NEW family \in Moving, Create(kind, family)
          PROVE  IInv'
      BY <2>2, Creating DEF CreateHandlers
    <2>3. CASE \/ CreateBaseTrajectory \/ CreateHeadTrajectory \/ CreateEnvelopeTrajectory
               \/ CreateBaseTrajectoryView \/ CreateHeadTrajectoryView \/ CreateEnvelopeTrajectoryView
      BY <2>1, <2>3 DEF Families, CreateBaseTrajectory, CreateHeadTrajectory, CreateEnvelopeTrajectory,
         CreateBaseTrajectoryView, CreateHeadTrajectoryView, CreateEnvelopeTrajectoryView
    <2>4. CASE \/ CreateBaseModulatedTrajectoryView \/ CreateHeadModulatedTrajectoryView
               \/ CreateBaseMixedTrajectoryView \/ CreateHeadMixedTrajectoryView
      BY <2>2, <2>4 DEF Moving, CreateBaseModulatedTrajectoryView, CreateHeadModulatedTrajectoryView,
         CreateBaseMixedTrajectoryView, CreateHeadMixedTrajectoryView
    <2>5. CASE ExecuteBaseTrajectoryView \/ ExecuteHeadTrajectoryView
      BY <2>5, Executing DEF Moving, ExecuteBaseTrajectoryView, ExecuteHeadTrajectoryView
    <2>6. CASE BaseUpdate \/ HeadUpdate
      BY <2>6, Updating DEF Moving, BaseUpdate, HeadUpdate
    <2>7. CASE \E f \in Moving : NoticeEnd(f) \/ SendProgress(f) \/ NoRoomForProgress(f)
      BY <2>7, Progressing
    <2>8. CASE \E h \in Handlers : SendReply(h) \/ Cancel(h)
      BY <2>8, SendingReply, CancellingOne
    <2>9. CASE OnOtherEndStarted
      BY <2>9, CancellingAll
    <2>10. CASE UNCHANGED vars
      <3>1. UNCHANGED <<store, handlers, controllers, halted, sent, changed>>
        BY <2>10 DEF vars
      <3>2. Types' /\ StoreShape' /\ NoDangling' /\ CreateRepliesTruly'
        BY <3>1, SameObjects DEF IInv, Types, CreateRepliesTruly
      <3>3. WaitingRepliesTrue'
        BY <3>1, SameWaiting DEF IInv, WaitingRepliesTrue
      <3>4. ASSUME NEW f \in Moving PROVE Noticed(f)'
        <4>1. Finished(f)' <=> Finished(f)
          BY <3>1, FinishedDependsOn
        <4> QED BY <3>1, <4>1 DEF Noticed, Executes, IInv, AllNoticed
      <3> QED BY <3>2, <3>3, <3>4 DEF IInv, AllNoticed
    <2> QED BY <2>3, <2>4, <2>5, <2>6, <2>7, <2>8, <2>9, <2>10 DEF Next
  <1> QED BY <1>1, <1>2, PTL DEF Spec

\* Whatever is created over a slot, everything that an object of the store refers
\* to is there, and so is the view that a controller follows (store.h:15-30 and the
\* creating handlers).
THEOREM NoDanglingAlways == Spec => []NoDangling
  <1>1. IInv => NoDangling
    BY DEF IInv
  <1> QED BY <1>1, Inductive, PTL

\* A creating handler's reply is about the request it answers, and success means
\* that the slot holds what was asked for, also when the reply waited for room
\* (create_*_action_handler.cpp).
THEOREM CreateRepliesTrulyAlways == Spec => []CreateRepliesTruly
  <1>1. IInv => CreateRepliesTruly
    BY DEF IInv
  <1> QED BY <1>1, Inductive, PTL

\* While an execution goes on its controller follows the view that was requested,
\* and a controller that stopped by itself is noticed unless something was created
\* meanwhile (execute_*_trajectory_view_action_handler.cpp:75-95, controller.hh:25-37).
THEOREM StopIsNoticedAlways == Spec => []StopIsNoticed
  <1>1. IInv => StopIsNoticed
    BY DEF IInv, AllNoticed, Noticed, StopIsNoticed
  <1> QED BY <1>1, Inductive, PTL

-----------------------------------------------------------------------------
(* Searching and inserting.                                                 *)

Times == {t \in Seq(Int) : IsSorted(t)}

\* Where a waypoint at a time belongs: behind all that are not later.
Belongs(times, seconds, p) ==
  /\ p \in 0 .. Len(times)
  /\ \A k \in 1 .. Len(times) : IF k <= p THEN times[k] <= seconds ELSE seconds < times[k]

\* The search in times[i + 1 .. j + 1].
Middle(i, j) == (i + j) \div 2
SearchStep(find, times, seconds, i, j) ==
  IF i >= j THEN IF seconds < times[i + 1] THEN i ELSE i + 1
  ELSE IF seconds < times[Middle(i, j) + 1] THEN find[<<i, Middle(i, j)>>] ELSE find[<<Middle(i, j) + 1, j>>]

LEMMA MiddleBetween ==
  ASSUME NEW i \in Nat, NEW j \in Nat, i < j
  PROVE  Middle(i, j) \in Nat /\ i <= Middle(i, j) /\ Middle(i, j) < j
  BY DEF Middle

LEMMA MiddleInside ==
  ASSUME NEW n \in Nat, NEW i \in 0 .. n, NEW j \in -1 .. n, i < j
  PROVE  <<i, Middle(i, j)>> \in (0 .. n) \X (-1 .. n) /\ <<Middle(i, j) + 1, j>> \in (0 .. n) \X (-1 .. n)
  <1>1. i \in Nat /\ j \in Nat
    OBVIOUS
  <1>2. Middle(i, j) \in Nat /\ i <= Middle(i, j) /\ Middle(i, j) < j
    BY <1>1, MiddleBetween
  <1> QED BY <1>1, <1>2

IsSearch(f, times, seconds) ==
  /\ FindInsertionIndex(times, seconds) = f[<<0, Len(times) - 1>>]
  /\ \A i \in 0 .. Len(times), j \in -1 .. Len(times) : f[<<i, j>>] = SearchStep(f, times, seconds, i, j)

LEMMA SearchExists ==
  ASSUME NEW times \in Seq(Int), NEW seconds \in Int
  PROVE  \E f : IsSearch(f, times, seconds)
  <1> DEFINE n == Len(times)
             D == (0 .. n) \X (-1 .. n)
             V == 0 .. n + 1
             base == {x \in D : x[1] >= x[2]}
             next == [x \in D |-> IF x \in base THEN x
                                  ELSE IF seconds < times[Middle(x[1], x[2]) + 1] THEN <<x[1], Middle(x[1], x[2])>>
                                  ELSE <<Middle(x[1], x[2]) + 1, x[2]>>]
             value == [x \in D |-> IF seconds < times[x[1] + 1] THEN x[1] ELSE x[1] + 1]
             rank == [x \in D |-> IF x \in base THEN 0 ELSE x[2] - x[1]]
             find[range \in (0 .. n) \X (-1 .. n)] ==
               LET i == range[1]
                   j == range[2]
                   middle == (i + j) \div 2
               IN IF i >= j THEN IF seconds < times[i + 1] THEN i ELSE i + 1
                  ELSE IF seconds < times[middle + 1] THEN find[<<i, middle>>] ELSE find[<<middle + 1, j>>]
             F(f) == [range \in (0 .. n) \X (-1 .. n) |->
               LET i == range[1]
                   j == range[2]
                   middle == (i + j) \div 2
               IN IF i >= j THEN IF seconds < times[i + 1] THEN i ELSE i + 1
                  ELSE IF seconds < times[middle + 1] THEN f[<<i, middle>>] ELSE f[<<middle + 1, j>>]]
             G(f) == [x \in D |-> SearchStep(f, times, seconds, x[1], x[2])]
  <1>0. n \in Nat
    BY LenProperties
  <1>1. FindInsertionIndex(times, seconds) = find[<<0, n - 1>>]
    BY DEF FindInsertionIndex
  <1>2. find = CHOOSE f : f = F(f)
    OBVIOUS
  <1>3. ASSUME NEW f PROVE F(f) = G(f)
    BY DEF SearchStep, Middle
  <1> HIDE DEF find, F, n
  <1>4. value \in [D -> V]
    BY <1>0
  <1>5. ASSUME NEW x \in D, x \notin base
        PROVE  next[x] \in D /\ rank[next[x]] < rank[x]
    <2>1. PICK i \in 0 .. n, j \in -1 .. n : x = <<i, j>>
      OBVIOUS
    <2>2. i < j /\ i \in Nat /\ j \in Nat /\ x[1] = i /\ x[2] = j
      BY <1>0, <1>5, <2>1
    <2>3. Middle(i, j) \in Nat /\ i <= Middle(i, j) /\ Middle(i, j) < j
      BY <2>2, MiddleBetween
    <2>4. <<i, Middle(i, j)>> \in D /\ <<Middle(i, j) + 1, j>> \in D
      BY <1>0, <2>2, MiddleInside
    <2>5. rank[<<i, Middle(i, j)>>] < j - i /\ rank[<<Middle(i, j) + 1, j>>] < j - i
      BY <2>2, <2>3, <2>4
    <2>6. rank[x] = j - i
      BY <1>5, <2>2
    <2>7. next[x] = <<i, Middle(i, j)>> \/ next[x] = <<Middle(i, j) + 1, j>>
      BY <1>5, <2>2
    <2> HIDE DEF next, rank
    <2> QED BY <2>4, <2>5, <2>6, <2>7
  <1>6. next \in [D -> D]
    BY <1>5
  <1>7. rank \in [D -> 0 .. n + 1]
    BY <1>0
  <1>8. n + 1 \in Nat
    BY <1>0
  <1>9. PICK f \in [D -> V] : TailFrom(f, D, base, value, next)
    <2> HIDE DEF D, V, base, value, next, rank
    <2> QED BY <1>4, <1>5, <1>6, <1>7, <1>8, TailRecursion
  <1>10. f = G(f)
    <2> DEFINE h == [x \in D |-> IF x \in base THEN value[x] ELSE f[next[x]]]
    <2>1. f = h
      BY <1>9 DEF TailFrom
    <2>2. ASSUME NEW x \in D PROVE h[x] = SearchStep(f, times, seconds, x[1], x[2])
      BY DEF SearchStep
    <2>3. h = G(f)
      <3> HIDE DEF D, base, value, next
      <3> QED BY <2>2
    <2> HIDE DEF h, G
    <2> QED BY <2>1, <2>3
  <1>11. find = F(find)
    <2>1. f = F(f)
      BY <1>3, <1>10
    <2> QED BY <1>2, <2>1
  <1>12. find = G(find)
    BY <1>3, <1>11
  <1>13. ASSUME NEW i \in 0 .. n, NEW j \in -1 .. n PROVE find[<<i, j>>] = SearchStep(find, times, seconds, i, j)
    <2>1. <<i, j>> \in D /\ <<i, j>>[1] = i /\ <<i, j>>[2] = j
      OBVIOUS
    <2>2. G(find)[<<i, j>>] = SearchStep(find, times, seconds, i, j)
      BY <2>1
    <2> HIDE DEF G
    <2> QED BY <1>12, <2>2
  <1> QED BY <1>1, <1>13 DEF IsSearch, n

\* The search finds where a waypoint belongs.
LEMMA SearchFinds ==
  ASSUME NEW times \in Times, times # << >>, NEW seconds \in Int
  PROVE  Belongs(times, seconds, FindInsertionIndex(times, seconds))
  <1> DEFINE n == Len(times)
  <1>0. /\ times \in Seq(Int) /\ n \in Nat /\ n >= 1 /\ DOMAIN times = 1 .. n
        /\ \A k \in 1 .. n : times[k] \in Int
    BY LenProperties, EmptySeq, ElementOfSeq DEF Times
  <1>1. \A k, l \in 1 .. n : k <= l => times[k] <= times[l]
    BY <1>0 DEF Times, IsSorted
  <1>2. PICK f : IsSearch(f, times, seconds)
    BY <1>0, SearchExists
  <1> HIDE DEF n
  <1>3. ASSUME NEW i \in 0 .. n, NEW j \in -1 .. n PROVE f[<<i, j>>] = SearchStep(f, times, seconds, i, j)
    BY <1>2 DEF IsSearch, n
  <1> DEFINE Right(i, j) == /\ \A k \in 1 .. n : k <= i => times[k] <= seconds
                            /\ \A k \in 1 .. n : k > j + 1 => seconds < times[k]
             Between(p) == p \in 0 .. n /\ \A k \in 1 .. n : IF k <= p THEN times[k] <= seconds ELSE seconds < times[k]
             Finds(m) == \A i, j \in 0 .. n - 1 : i <= j /\ j - i <= m /\ Right(i, j) => Between(f[<<i, j>>])
             S == {m \in 0 .. n : Finds(m)}
  <1>4. ASSUME NEW i \in 0 .. n - 1, Right(i, i) PROVE Between(f[<<i, i>>])
    <2>1. i \in 0 .. n /\ i \in -1 .. n /\ i + 1 \in 1 .. n /\ i \in Nat
      BY <1>0
    <2>2. f[<<i, i>>] = IF seconds < times[i + 1] THEN i ELSE i + 1
      <3>1. f[<<i, i>>] = SearchStep(f, times, seconds, i, i)
        BY <1>3, <2>1
      <3> QED BY <2>1, <3>1 DEF SearchStep
    <2>3. CASE seconds < times[i + 1]
      <3>1. f[<<i, i>>] = i
        BY <2>2, <2>3
      <3>2. ASSUME NEW k \in 1 .. n PROVE IF k <= i THEN times[k] <= seconds ELSE seconds < times[k]
        <4>1. k <= i \/ k = i + 1 \/ k > i + 1
          BY <2>1
        <4> QED BY <1>4, <2>1, <2>3, <4>1
      <3> QED BY <2>1, <3>1, <3>2
    <2>4. CASE ~(seconds < times[i + 1])
      <3>1. f[<<i, i>>] = i + 1 /\ times[i + 1] <= seconds
        BY <1>0, <2>1, <2>2, <2>4
      <3>2. ASSUME NEW k \in 1 .. n PROVE IF k <= i + 1 THEN times[k] <= seconds ELSE seconds < times[k]
        <4>1. k <= i \/ k = i + 1 \/ k > i + 1
          BY <2>1
        <4> QED BY <1>4, <2>1, <3>1, <4>1
      <3> QED BY <1>0, <2>1, <3>1, <3>2
    <2> QED BY <2>3, <2>4
  <1> HIDE DEF Between
  <1>5. 0 \in S
    <2>1. \A i, j \in 0 .. n - 1 : i <= j /\ j - i <= 0 => i = j
      BY <1>0
    <2> QED BY <1>0, <1>4, <2>1
  <1>6. ASSUME NEW m \in 0 .. n - 1, m \in S PROVE m + 1 \in S
    <2>1. Finds(m)
      BY <1>6
    <2>2. ASSUME NEW i \in 0 .. n - 1, NEW j \in 0 .. n - 1, i <= j, j - i <= m + 1, Right(i, j)
          PROVE  Between(f[<<i, j>>])
      <3>1. CASE i = j
        BY <1>4, <2>2, <3>1
      <3>2. CASE i # j
        <4>1. i < j /\ i \in Nat /\ j \in Nat /\ i \in 0 .. n /\ j \in -1 .. n
          BY <1>0, <2>2, <3>2
        <4>2. PICK d \in Nat : d = Middle(i, j) /\ i <= d /\ d < j
          BY <4>1, MiddleBetween
        <4>3. f[<<i, j>>] = IF seconds < times[d + 1] THEN f[<<i, d>>] ELSE f[<<d + 1, j>>]
          BY <1>3, <4>1, <4>2 DEF SearchStep
        <4>4. d \in 0 .. n - 1 /\ d + 1 \in 0 .. n - 1 /\ d + 1 \in 1 .. n
          BY <1>0, <4>1, <4>2
        <4>5. CASE seconds < times[d + 1]
          <5>1. Right(i, d)
            <6>1. ASSUME NEW k \in 1 .. n, k > d + 1 PROVE seconds < times[k]
              <7>1. times[d + 1] <= times[k]
                BY <1>1, <4>4, <6>1
              <7> QED BY <1>0, <4>4, <4>5, <7>1
            <6> QED BY <2>2, <6>1
          <5>2. i <= d /\ d - i <= m
            BY <2>2, <4>1, <4>2
          <5> QED BY <2>1, <4>3, <4>4, <4>5, <5>1, <5>2
        <4>6. CASE ~(seconds < times[d + 1])
          <5>1. Right(d + 1, j)
            <6>1. ASSUME NEW k \in 1 .. n, k <= d + 1 PROVE times[k] <= seconds
              <7>1. times[k] <= times[d + 1]
                BY <1>1, <4>4, <6>1
              <7> QED BY <1>0, <4>4, <4>6, <7>1
            <6> QED BY <2>2, <6>1
          <5>2. d + 1 <= j /\ j - (d + 1) <= m
            BY <2>2, <4>1, <4>2
          <5> QED BY <2>1, <4>3, <4>4, <4>6, <5>1, <5>2
        <4> QED BY <4>5, <4>6
      <3> QED BY <3>1, <3>2
    <2>3. Finds(m + 1)
      BY <2>2
    <2> HIDE DEF Finds
    <2> QED BY <1>0, <2>3
  <1>7. Finds(n)
    <2> HIDE DEF S
    <2>1. 0 .. n \subseteq S
      BY <1>0, <1>5, <1>6, SetInduction
    <2>2. n \in S
      BY <1>0, <2>1
    <2> QED BY <2>2 DEF S
  <1>8. Between(f[<<0, n - 1>>])
    <2>1. 0 \in 0 .. n - 1 /\ n - 1 \in 0 .. n - 1 /\ 0 <= n - 1 /\ (n - 1) - 0 <= n
      BY <1>0
    <2>2. Right(0, n - 1)
      BY <1>0
    <2> HIDE DEF Right
    <2> QED BY <1>7, <2>1, <2>2
  <1>9. FindInsertionIndex(times, seconds) = f[<<0, n - 1>>]
    BY <1>2 DEF IsSearch, n
  <1> QED BY <1>8, <1>9 DEF Between, Belongs, n

\* A waypoint put where it belongs leaves the others in their order.
LEMMA InsertIs ==
  ASSUME NEW times \in Times, NEW seconds \in Int
  PROVE  Insert(times, seconds) \in Times /\ Len(Insert(times, seconds)) = Len(times) + 1
  <1> DEFINE n == Len(times)
             p == FindInsertionIndex(times, seconds)
             r == Insert(times, seconds)
  <1>0. /\ times \in Seq(Int) /\ n \in Nat /\ DOMAIN times = 1 .. n
        /\ \A k \in 1 .. n : times[k] \in Int
        /\ \A k, l \in 1 .. n : k <= l => times[k] <= times[l]
    <2>1. times \in Seq(Int) /\ n \in Nat /\ DOMAIN times = 1 .. n /\ \A k \in 1 .. n : times[k] \in Int
      BY LenProperties, ElementOfSeq DEF Times
    <2> QED BY <2>1 DEF Times, IsSorted
  <1>1. CASE times = << >>
    <2>1. r = <<seconds>> /\ n = 0
      BY <1>1 DEF Insert
    <2>2. <<seconds>> \in Seq(Int) /\ Len(<<seconds>>) = 1 /\ IsSorted(<<seconds>>)
      BY DEF IsSorted
    <2> QED BY <2>1, <2>2 DEF Times
  <1>2. CASE times # << >>
    <2> DEFINE a == SubSeq(times, 1, p)
               b == SubSeq(times, p + 1, n)
    <2>1. Belongs(times, seconds, p)
      BY <1>2, SearchFinds
    <2>2. p \in 0 .. n /\ p \in Nat
      BY <1>0, <2>1 DEF Belongs
    <2>3. r = a \o <<seconds>> \o b
      BY <1>2 DEF Insert
    <2> HIDE DEF p, r
    <2>4. a \in Seq(Int) /\ Len(a) = p /\ \A k \in 1 .. p : a[k] = times[k]
      BY <1>0, <2>2, SubSeqProperties
    <2>5. b \in Seq(Int) /\ Len(b) = n - p /\ \A k \in 1 .. n - p : b[k] = times[p + k]
      <3>1. PICK m \in 1 .. n + 1 : m = p + 1
        BY <1>0, <2>2
      <3>2. /\ SubSeq(times, m, n) \in Seq(Int)
            /\ Len(SubSeq(times, m, n)) = IF m <= n THEN n - m + 1 ELSE 0
            /\ \A k \in 1 .. n - m + 1 : SubSeq(times, m, n)[k] = times[m + k - 1]
        <4>1. \A k \in m .. n : times[k] \in Int
          BY <1>0, <3>1
        <4>2. m \in Int /\ n \in Int
          BY <1>0
        <4> HIDE DEF n
        <4> QED BY <4>1, <4>2, SubSeqProperties
      <3>3. n - m + 1 = n - p /\ \A k \in 1 .. n - p : m + k - 1 = p + k
        BY <1>0, <2>2, <3>1
      <3>4. b = SubSeq(times, m, n)
        BY <3>1 DEF b
      <3>5. (IF m <= n THEN n - m + 1 ELSE 0) = n - p
        <4>1. n \in Nat /\ p \in Nat /\ p <= n /\ m = p + 1
          BY <1>0, <2>2, <3>1
        <4> HIDE DEF n
        <4>2. CASE p = n
          <5>1. ~(m <= n) /\ n - p = 0
            BY <4>1, <4>2
          <5> QED BY <5>1
        <4>3. CASE p < n
          <5>1. m <= n /\ n - m + 1 = n - p
            BY <4>1, <4>3
          <5> QED BY <5>1
        <4> QED BY <4>1, <4>2, <4>3
      <3>6. Len(b) = n - p
        BY <3>2, <3>4, <3>5
      <3>7. ASSUME NEW k \in 1 .. n - p PROVE b[k] = times[p + k]
        <4>1. k \in 1 .. n - m + 1 /\ m + k - 1 = p + k
          BY <3>3
        <4> QED BY <3>2, <3>4, <4>1
      <3> QED BY <3>2, <3>4, <3>6, <3>7
    <2> HIDE DEF a, b
    <2>6. <<seconds>> \in Seq(Int) /\ Len(<<seconds>>) = 1 /\ <<seconds>>[1] = seconds
      OBVIOUS
    <2> DEFINE c == a \o <<seconds>>
    <2>7. c \in Seq(Int) /\ Len(c) = p + 1 /\ c[p + 1] = seconds /\ \A k \in 1 .. p : c[k] = times[k]
      BY <2>2, <2>4, <2>6, ConcatProperties
    <2> HIDE DEF c
    <2>8. r \in Seq(Int) /\ Len(r) = n + 1 /\ \A k \in 1 .. n + 1 : r[k] = IF k <= p + 1 THEN c[k] ELSE b[k - (p + 1)]
      <3>1. r = c \o b
        BY <2>3 DEF c
      <3>2. /\ c \o b \in Seq(Int)
            /\ Len(c \o b) = Len(c) + Len(b)
            /\ \A k \in 1 .. Len(c) + Len(b) : (c \o b)[k] = IF k <= Len(c) THEN c[k] ELSE b[k - Len(c)]
        BY <2>5, <2>7, ConcatProperties
      <3>3. Len(c) = p + 1 /\ Len(c) + Len(b) = n + 1
        BY <1>0, <2>2, <2>5, <2>7
      <3> QED BY <3>1, <3>2, <3>3
    <2>9. \A k \in 1 .. n + 1 : r[k] = IF k <= p THEN times[k] ELSE IF k = p + 1 THEN seconds ELSE times[k - 1]
      <3> SUFFICES ASSUME NEW k \in 1 .. n + 1
                   PROVE  r[k] = IF k <= p THEN times[k] ELSE IF k = p + 1 THEN seconds ELSE times[k - 1]
        OBVIOUS
      <3>1. CASE k <= p + 1
        BY <1>0, <2>2, <2>7, <2>8, <3>1
      <3>2. CASE k > p + 1
        <4>1. k - (p + 1) \in 1 .. n - p /\ p + (k - (p + 1)) = k - 1
          BY <1>0, <2>2, <3>2
        <4>2. r[k] = b[k - (p + 1)]
          BY <2>2, <2>8, <3>2
        <4>3. b[k - (p + 1)] = times[k - 1]
          BY <2>5, <4>1
        <4>4. ~(k <= p) /\ k # p + 1
          BY <2>2, <3>2
        <4> QED BY <4>2, <4>3, <4>4
      <3> QED BY <1>0, <2>2, <3>1, <3>2
    <2>10. \A k \in 1 .. n : IF k <= p THEN times[k] <= seconds ELSE seconds < times[k]
      BY <2>1 DEF Belongs
    <2>11. DOMAIN r = 1 .. n + 1
      BY <2>8, LenProperties
    <2>12. ASSUME NEW k \in 1 .. n + 1, NEW l \in 1 .. n + 1, k < l PROVE r[k] <= r[l]
      <3>1. CASE l <= p
        BY <1>0, <2>2, <2>9, <2>12, <3>1
      <3>2. CASE l = p + 1
        BY <1>0, <2>2, <2>9, <2>10, <2>12, <3>2
      <3>3. CASE l > p + 1
        <4>1. l - 1 \in 1 .. n /\ l - 1 > p /\ r[l] = times[l - 1]
          BY <1>0, <2>2, <2>9, <3>3
        <4>2. CASE k <= p
          <5>1. k \in 1 .. n /\ r[k] = times[k] /\ k <= l - 1
            BY <1>0, <2>2, <2>9, <2>12, <4>2
          <5> QED BY <1>0, <4>1, <5>1
        <4>3. CASE k = p + 1
          <5>1. r[k] = seconds /\ seconds < times[l - 1]
            BY <1>0, <2>2, <2>9, <2>10, <4>1, <4>3
          <5> QED BY <1>0, <4>1, <5>1
        <4>4. CASE k > p + 1
          <5>1. k - 1 \in 1 .. n /\ r[k] = times[k - 1] /\ k - 1 <= l - 1
            BY <1>0, <2>2, <2>9, <2>12, <4>4
          <5> QED BY <1>0, <4>1, <5>1
        <4> QED BY <2>2, <4>2, <4>3, <4>4
      <3> QED BY <2>2, <3>1, <3>2, <3>3
    <2> QED BY <2>8, <2>11, <2>12 DEF Times, IsSorted, r
  <1> QED BY <1>1, <1>2

\* The insertions of a creation, one by one.
IsInsertion(g, waypoints) ==
  /\ Inserted(waypoints) = g[Len(waypoints)]
  /\ g[0] = << >>
  /\ \A n \in 1 .. Len(waypoints) : g[n] = Insert(g[n - 1], waypoints[n])

LEMMA InsertionExists ==
  ASSUME NEW waypoints \in Seq(Int)
  PROVE  \E g : IsInsertion(g, waypoints)
  <1> DEFINE n == Len(waypoints)
             after[k \in 0 .. n] == IF k = 0 THEN << >> ELSE Insert(after[k - 1], waypoints[k])
             F(g) == [k \in 0 .. n |-> IF k = 0 THEN << >> ELSE Insert(g[k - 1], waypoints[k])]
             step == [x \in (1 .. n) \X Times |-> Insert(x[2], waypoints[x[1]])]
  <1>1. Inserted(waypoints) = after[n]
    BY DEF Inserted
  <1>2. after = CHOOSE g : g = F(g)
    OBVIOUS
  <1>3. n \in Nat /\ << >> \in Times /\ \A k \in 1 .. n : waypoints[k] \in Int
    BY LenProperties, ElementOfSeq DEF Times, IsSorted
  <1>4. step \in [(1 .. n) \X Times -> Times]
    <2> HIDE DEF n
    <2> QED BY <1>3, InsertIs
  <1> HIDE DEF after, F, n
  <1>5. PICK g \in [0 .. n -> Times] : StepsFrom(g, << >>, step, n)
    <2> HIDE DEF step
    <2> QED BY <1>3, <1>4, StepByStep
  <1>6. g = F(g)
    <2>1. ASSUME NEW k \in 0 .. n, k # 0 PROVE step[<<k, g[k - 1]>>] = Insert(g[k - 1], waypoints[k])
      <3>1. k \in 1 .. n /\ k - 1 \in 0 .. n
        BY <1>3, <2>1
      <3>2. g[k - 1] \in Times
        BY <3>1
      <3> QED BY <3>1, <3>2
    <2> HIDE DEF step
    <2> QED BY <1>5, <2>1 DEF StepsFrom, F
  <1>7. after = F(after)
    BY <1>2, <1>6
  <1>8. after[0] = << >> /\ \A k \in 1 .. n : after[k] = Insert(after[k - 1], waypoints[k])
    <2>1. F(after)[0] = << >> /\ \A k \in 1 .. n : F(after)[k] = Insert(after[k - 1], waypoints[k])
      BY <1>3 DEF F
    <2> QED BY <1>7, <2>1
  <1> QED BY <1>1, <1>8 DEF IsInsertion, n

\* Whatever order the waypoints come in, they are in the order of their times.
LEMMA InsertedIs ==
  ASSUME NEW waypoints \in Seq(Int)
  PROVE  Inserted(waypoints) \in Times /\ Len(Inserted(waypoints)) = Len(waypoints)
  <1> DEFINE n == Len(waypoints)
  <1>1. PICK g : IsInsertion(g, waypoints)
    BY InsertionExists
  <1>2. n \in Nat /\ << >> \in Times /\ \A k \in 1 .. n : waypoints[k] \in Int
    BY LenProperties, ElementOfSeq DEF Times, IsSorted
  <1>3. g[0] = << >> /\ \A k \in 1 .. n : g[k] = Insert(g[k - 1], waypoints[k])
    BY <1>1 DEF IsInsertion
  <1> HIDE DEF n
  <1> DEFINE S == {k \in 0 .. n : g[k] \in Times /\ Len(g[k]) = k}
  <1>4. 0 \in S
    BY <1>2, <1>3
  <1>5. ASSUME NEW k \in 0 .. n - 1, k \in S PROVE k + 1 \in S
    <2>1. k + 1 \in 1 .. n /\ (k + 1) - 1 = k /\ g[k] \in Times /\ Len(g[k]) = k
      BY <1>2, <1>5
    <2>2. g[k + 1] = Insert(g[k], waypoints[k + 1])
      BY <1>3, <2>1
    <2>3. waypoints[k + 1] \in Int
      BY <1>2, <2>1
    <2>4. Insert(g[k], waypoints[k + 1]) \in Times /\ Len(Insert(g[k], waypoints[k + 1])) = k + 1
      BY <2>1, <2>3, InsertIs
    <2> QED BY <2>1, <2>2, <2>4
  <1>6. n \in S
    <2> HIDE DEF S
    <2>1. 0 .. n \subseteq S
      BY <1>2, <1>4, <1>5, SetInduction
    <2> QED BY <1>2, <2>1
  <1> QED BY <1>1, <1>6 DEF IsInsertion, n

-----------------------------------------------------------------------------
(* The waypoint that a view is at.                                          *)

LEMMA Remainder ==
  ASSUME NEW a \in Nat, NEW b \in Nat, b > 0
  PROVE  a % b \in Nat /\ a % b < b
  BY SMT

\* In a lap that takes time, a view is never before the first waypoint.
LEMMA InLap ==
  ASSUME NEW times \in Times, times # << >>, NEW loop \in Int, NEW seconds \in Int
  PROVE  /\ LapDuration(times, loop) \in Nat
         /\ LapDuration(times, loop) > 0 => /\ TimeInLap(times, loop, seconds) \in Int
                                            /\ times[1] <= TimeInLap(times, loop, seconds)
  <1>0. Len(times) \in Nat /\ Len(times) >= 1 /\ DOMAIN times = 1 .. Len(times) /\ times \in Seq(Int)
    BY LenProperties, EmptySeq DEF Times
  <1>1. times[1] \in Int /\ times[Len(times)] \in Int
    BY <1>0, ElementOfSeq
  <1>2. times[1] <= times[Len(times)]
    <2>1. CASE Len(times) = 1
      BY <1>1, <2>1
    <2>2. CASE Len(times) > 1
      BY <1>0, <2>2 DEF Times, IsSorted
    <2> QED BY <1>0, <2>1, <2>2
  <1>3. PICK a \in Int, b \in Int : a = times[1] /\ b = times[Len(times)]
    BY <1>1
  <1>4. PICK lap \in Nat : lap = LapDuration(times, loop)
    <2>1. LapDuration(times, loop) = b - a + (IF loop >= 0 THEN loop ELSE 0)
      BY <1>3 DEF LapDuration
    <2>2. b - a + (IF loop >= 0 THEN loop ELSE 0) \in Nat
      BY <1>2, <1>3
    <2> QED BY <2>1, <2>2
  <1>5. ASSUME lap > 0
        PROVE  TimeInLap(times, loop, seconds) \in Int /\ times[1] <= TimeInLap(times, loop, seconds)
    <2>1. TimeInLap(times, loop, seconds)
            = a + (IF seconds >= a THEN (seconds - a) % lap ELSE lap - ((a - seconds) % lap))
      BY <1>3, <1>4 DEF TimeInLap
    <2>2. CASE seconds >= a
      <3>1. (seconds - a) \in Nat
        BY <2>2
      <3>2. PICK x \in Nat : x = (seconds - a) % lap
        BY <1>5, <3>1, Remainder
      <3>3. TimeInLap(times, loop, seconds) = a + x
        BY <2>1, <2>2, <3>2
      <3>4. a + x \in Int /\ a <= a + x
        OBVIOUS
      <3> QED BY <1>3, <3>3, <3>4
    <2>3. CASE ~(seconds >= a)
      <3>1. (a - seconds) \in Nat
        BY <2>3
      <3>2. PICK x \in Nat : x = (a - seconds) % lap /\ x < lap
        BY <1>5, <3>1, Remainder
      <3>3. TimeInLap(times, loop, seconds) = a + (lap - x)
        BY <2>1, <2>3, <3>2
      <3>4. a + (lap - x) \in Int /\ a <= a + (lap - x)
        BY <3>2
      <3> QED BY <1>3, <3>3, <3>4
    <2> QED BY <2>2, <2>3
  <1> QED BY <1>4, <1>5

LEMMA SearchIsLast ==
  ASSUME NEW times \in Times, times # << >>, NEW seconds \in Int, times[1] <= seconds
  PROVE  /\ FindWaypointAtOrBeforeSeconds(times, seconds) \in 0 .. Len(times) - 1
         /\ FindWaypointAtOrBeforeSeconds(times, seconds) = LastAtOrBefore(times, seconds)
  <1> DEFINE n == Len(times)
             p == FindInsertionIndex(times, seconds)
             found == {i \in 1 .. n : times[i] <= seconds}
  <1>0. n \in Nat /\ n >= 1
    BY LenProperties, EmptySeq DEF Times
  <1>1. p \in 0 .. n /\ \A k \in 1 .. n : IF k <= p THEN times[k] <= seconds ELSE seconds < times[k]
    BY SearchFinds DEF Belongs
  <1>2. \A k \in 1 .. n : times[k] \in Int
    BY ElementOfSeq DEF Times
  <1>3. FindWaypointAtOrBeforeSeconds(times, seconds) = p - 1
    BY DEF FindWaypointAtOrBeforeSeconds
  <1>4. LastAtOrBefore(times, seconds) = IF found = {} THEN -1 ELSE (CHOOSE i \in found : \A j \in found : j <= i) - 1
    BY DEF LastAtOrBefore
  <1> HIDE DEF p, n
  <1>5. 1 \in 1 .. n /\ p >= 1
    <2>1. 1 \in 1 .. n
      BY <1>0
    <2>2. ~(seconds < times[1])
      BY <1>2, <2>1
    <2> QED BY <1>1, <2>1, <2>2
  <1>6. found = 1 .. p
    <2>1. \A k \in 1 .. n : times[k] <= seconds <=> k <= p
      BY <1>1, <1>2
    <2> QED BY <1>0, <1>1, <2>1
  <1> HIDE DEF found
  <1>7. (CHOOSE i \in found : \A j \in found : j <= i) = p
    <2>1. p \in found /\ \A j \in found : j <= p
      BY <1>1, <1>5, <1>6
    <2>2. \A i \in found : (\A j \in found : j <= i) => i = p
      BY <1>1, <1>6, <2>1
    <2> QED BY <2>1, <2>2
  <1>8. found # {}
    BY <1>1, <1>5, <1>6
  <1>9. FindWaypointAtOrBeforeSeconds(times, seconds) = LastAtOrBefore(times, seconds)
    <2>1. LastAtOrBefore(times, seconds) = (CHOOSE i \in found : \A j \in found : j <= i) - 1
      BY <1>4, <1>8
    <2> QED BY <1>3, <1>7, <2>1
  <1>10. p - 1 \in 0 .. n - 1
    BY <1>0, <1>1, <1>5
  <1> QED BY <1>3, <1>9, <1>10 DEF n

\* WaypointReached of one view.
LEMMA ViewReaches ==
  ASSUME NEW times \in Times, times # << >>, NEW loop \in Int, NEW t \in Int
  PROVE  /\ WaypointIndex(times, loop, t) \in 0 .. Len(times) - 1
         /\ LapDuration(times, loop) > 0 =>
              WaypointIndex(times, loop, t) = LastAtOrBefore(times, TimeInLap(times, loop, t))
  <1>0. Len(times) \in Nat /\ Len(times) >= 1
    BY LenProperties, EmptySeq DEF Times
  <1>1. CASE LapDuration(times, loop) = 0
    <2>1. WaypointIndex(times, loop, t) = Len(times) - 1
      BY <1>1 DEF WaypointIndex
    <2> QED BY <1>0, <1>1, <2>1
  <1>2. CASE LapDuration(times, loop) # 0
    <2>1. LapDuration(times, loop) > 0
      <3>1. LapDuration(times, loop) \in Nat
        BY InLap
      <3> QED BY <1>2, <3>1
    <2>2. TimeInLap(times, loop, t) \in Int /\ times[1] <= TimeInLap(times, loop, t)
      BY <2>1, InLap
    <2>3. WaypointIndex(times, loop, t) = FindWaypointAtOrBeforeSeconds(times, TimeInLap(times, loop, t))
      BY <1>2 DEF WaypointIndex
    <2> QED BY <2>2, <2>3, SearchIsLast
  <1> QED BY <1>1, <1>2

-----------------------------------------------------------------------------
(* What the store holds.                                                    *)

Objects == [ok : BOOLEAN, parts : Seq(Places), times : Seq(Int), loop : Int]
CombinedKinds == {"modulated", "mixed"}

\* An object of a place: its waypoints fit and are in order, a view that combines
\* others has views of its family or plain ones for parts.
FitsIn(o, p) ==
  /\ o \in Objects
  /\ o.times \in Times /\ Len(o.times) <= MaxWaypoints
  /\ ~o.ok => o.parts = << >>
  /\ p.kind = "plain" /\ o.ok => 1 \in DOMAIN o.parts
  /\ p.kind \in CombinedKinds =>
       /\ o.ok => DOMAIN o.parts = {1, 2, 3}
       /\ \A i \in DOMAIN o.parts : /\ o.parts[i] \in Views
                                    /\ o.parts[i].kind = "plain" \/ o.parts[i].family = p.family

StoreTypes == \A p \in Places : FitsIn(store[p], p)

\* The store changes by creations that succeed, and by nothing else.
StoresFor(r) ==
  r.kind # "execute" /\ CreateStatus(r) = "success" /\ ~CreateFails(r) /\ Stores(r) /\ UNCHANGED controllers

LEMMA StoreSteps ==
  ASSUME [Next]_vars
  PROVE  UNCHANGED <<store, replaced>> \/ \E r \in Requests : StoresFor(r)
  <1> DEFINE Goal == UNCHANGED <<store, replaced>> \/ \E r \in Requests : StoresFor(r)
  <1> SUFFICES Goal
    OBVIOUS
  <1>1. ASSUME NEW kind \in {"trajectory", "plain", "modulated", "mixed"}, NEW family \in Families,
               Create(kind, family)
        PROVE  Goal
    BY <1>1 DEF Create, StoresFor
  <1>2. CASE \/ CreateBaseTrajectory \/ CreateHeadTrajectory \/ CreateEnvelopeTrajectory
             \/ CreateBaseTrajectoryView \/ CreateHeadTrajectoryView \/ CreateEnvelopeTrajectoryView
    <2> HIDE DEF Goal
    <2> QED BY <1>1, <1>2 DEF Families, CreateBaseTrajectory, CreateHeadTrajectory, CreateEnvelopeTrajectory,
               CreateBaseTrajectoryView, CreateHeadTrajectoryView, CreateEnvelopeTrajectoryView
  <1>3. CASE \/ CreateBaseModulatedTrajectoryView \/ CreateHeadModulatedTrajectoryView
             \/ CreateBaseMixedTrajectoryView \/ CreateHeadMixedTrajectoryView
    <2> HIDE DEF Goal
    <2> QED BY <1>1, <1>3 DEF Families, CreateBaseModulatedTrajectoryView, CreateHeadModulatedTrajectoryView,
               CreateBaseMixedTrajectoryView, CreateHeadMixedTrajectoryView
  <1>4. CASE ExecuteBaseTrajectoryView \/ ExecuteHeadTrajectoryView
    BY <1>4 DEF ExecuteBaseTrajectoryView, ExecuteHeadTrajectoryView, Execute
  <1>5. CASE BaseUpdate \/ HeadUpdate
    BY <1>5 DEF BaseUpdate, HeadUpdate, Update, Halt
  <1>6. CASE \E f \in Moving : NoticeEnd(f) \/ SendProgress(f) \/ NoRoomForProgress(f)
    BY <1>6 DEF NoticeEnd, SendProgress, NoRoomForProgress, Halt
  <1>7. CASE \E h \in Handlers : SendReply(h) \/ Cancel(h)
    BY <1>7 DEF SendReply, Cancel
  <1>8. CASE OnOtherEndStarted
    BY <1>8 DEF OnOtherEndStarted
  <1>9. CASE UNCHANGED vars
    BY <1>9 DEF vars
  <1> QED BY <1>2, <1>3, <1>4, <1>5, <1>6, <1>7, <1>8, <1>9 DEF Next

\* The parts of a creation that succeeds.
LEMMA SuccessfulParts ==
  ASSUME NEW r \in Requests, r.kind # "execute", CreateStatus(r) = "success"
  PROVE  /\ r.parts \in Seq(Places)
         /\ r.kind = "plain" => 1 \in DOMAIN r.parts
         /\ r.kind \in CombinedKinds =>
              /\ DOMAIN r.parts = {1, 2, 3}
              /\ \A i \in DOMAIN r.parts : /\ r.parts[i] \in Views
                                           /\ r.parts[i].kind = "plain" \/ r.parts[i].family = r.family
  <1>1. <<r.kind, r.family>> \in CreateHandlers /\ PartsOk(r)
    BY RequestOf
  <1>2. \A i \in DOMAIN r.parts : r.parts[i] \in Places
    BY Successful
  <1>3. CASE r.kind = "trajectory"
    <2>1. r.parts = << >>
      BY <1>1, <1>3 DEF PartsOk
    <2>2. << >> \in Seq(Places) /\ r.kind \notin CombinedKinds /\ r.kind # "plain"
      BY <1>3 DEF CombinedKinds
    <2> QED BY <2>1, <2>2
  <1>4. CASE r.kind = "plain"
    <2>1. r.parts \in Seq(RefsTo({"trajectory"}, r.family)) /\ Len(r.parts) = 1
      BY <1>1, <1>4 DEF PartsOk
    <2>2. r.parts = <<r.parts[1]>> /\ 1 \in DOMAIN r.parts
      BY <2>1
    <2>3. r.parts[1] \in Places
      BY <1>2, <2>2
    <2>4. <<r.parts[1]>> \in Seq(Places)
      BY <2>3
    <2>5. r.kind \notin CombinedKinds
      BY <1>4 DEF CombinedKinds
    <2>6. r.parts \in Seq(Places)
      BY <2>2, <2>4
    <2> QED BY <2>2, <2>5, <2>6
  <1>5. CASE r.kind \in CombinedKinds
    <2>1. r.parts \in ViewRefs(r.family) \X ViewRefs(r.family) \X RefsTo({"plain"}, "envelope")
      BY <1>1, <1>5 DEF PartsOk, CombinedKinds
    <2>2. /\ r.parts = <<r.parts[1], r.parts[2], r.parts[3]>>
          /\ DOMAIN r.parts = {1, 2, 3}
          /\ r.parts[1] \in ViewRefs(r.family) /\ r.parts[2] \in ViewRefs(r.family)
          /\ r.parts[3] \in RefsTo({"plain"}, "envelope")
      BY <2>1
    <2>3. r.parts[1] \in Places /\ r.parts[2] \in Places /\ r.parts[3] \in Places
      BY <1>2, <2>2
    <2>4. <<r.parts[1], r.parts[2], r.parts[3]>> \in Seq(Places)
      BY <2>3
    <2>5. ASSUME NEW i \in {1, 2, 3} PROVE r.parts[i] \in Views /\ (r.parts[i].kind = "plain" \/ r.parts[i].family = r.family)
      <3>1. r.parts[i] \in ViewRefs(r.family) \/ r.parts[i] \in RefsTo({"plain"}, "envelope")
        BY <2>2, <2>5
      <3>2. r.parts[i] \in Places
        BY <2>3, <2>5
      <3> QED BY <3>1, <3>2 DEF ViewRefs, RefsTo, Views, Places
    <2> QED BY <2>2, <2>4, <2>5
  <1> QED BY <1>1, <1>3, <1>4, <1>5 DEF CreateHandlers, CombinedKinds

LEMMA CreatedFits ==
  ASSUME NEW r \in Requests, r.kind # "execute", CreateStatus(r) = "success", ~CreateFails(r)
  PROVE  FitsIn(Created(r), Target(r))
  <1>1. r.times \in Seq(Int) /\ r.loop \in Int
    BY MotionAssumption
  <1>2. Inserted(r.times) \in Times /\ Len(Inserted(r.times)) = Len(r.times)
    BY <1>1, InsertedIs
  <1>3. Len(r.times) <= MaxWaypoints
    <2>1. ~(Len(r.times) > MaxWaypoints)
      BY DEF CreateFails, TooMany
    <2>2. Len(r.times) \in Nat /\ MaxWaypoints \in Nat
      BY <1>1, LenProperties, MotionAssumption
    <2> QED BY <2>1, <2>2
  <1>4. Inserted(r.times) \in Seq(Int)
    BY <1>2 DEF Times
  <1>5. Created(r).loop \in Int
    BY <1>1 DEF Created, LoopAfter
  <1>6. /\ Created(r).ok = TRUE /\ Created(r).parts = r.parts /\ Created(r).times = Inserted(r.times)
        /\ Created(r) = [ok |-> TRUE, parts |-> r.parts, times |-> Inserted(r.times), loop |-> Created(r).loop]
    BY DEF Created
  <1>7. Created(r) \in Objects
    BY <1>4, <1>5, <1>6, SuccessfulParts DEF Objects
  <1>8. Target(r).kind = r.kind /\ Target(r).family = r.family
    BY DEF Target, Place
  <1> QED BY <1>2, <1>3, <1>6, <1>7, <1>8, SuccessfulParts DEF FitsIn

\* Where a creation writes.
LEMMA StoringAt ==
  ASSUME StoreShape, NEW r \in Requests, StoresFor(r)
  PROVE  /\ Target(r) \in Places
         /\ store'[Target(r)] = Created(r)
         /\ \A p \in Places \ {Target(r)} : store'[p] = store[p]
         /\ replaced' = (replaced \/ (store[Target(r)].ok /\ r.kind \in CombinedKinds))
  <1>1. Target(r) \in Places
    BY Successful DEF StoresFor
  <1>2. store = [p \in Places |-> store[p]]
    BY DEF StoreShape
  <1>3. store' = [store EXCEPT ![Target(r)] = Created(r)]
    BY DEF StoresFor, Stores
  <1> QED BY <1>1, <1>2, <1>3 DEF StoresFor, Stores, CombinedKinds

LEMMA StoreTypesKept ==
  ASSUME StoreShape, StoreTypes, [Next]_vars
  PROVE  StoreTypes'
  <1>1. CASE UNCHANGED store
    BY <1>1 DEF StoreTypes
  <1>2. ASSUME NEW r \in Requests, StoresFor(r) PROVE StoreTypes'
    <2>1. FitsIn(Created(r), Target(r))
      BY <1>2, CreatedFits DEF StoresFor
    <2>2. ASSUME NEW p \in Places PROVE FitsIn(store'[p], p)
      BY <1>2, <2>1, StoringAt DEF StoreTypes
    <2> QED BY <2>2 DEF StoreTypes, FitsIn
  <1> QED BY <1>1, <1>2, StoreSteps

LEMMA StoreTypesInitially ==
  ASSUME Init
  PROVE  StoreTypes
  <1>1. Unavailable \in Objects /\ Unavailable.times = << >> /\ Unavailable.parts = << >>
    BY DEF Unavailable, Objects
  <1>2. << >> \in Times /\ Len(<< >>) = 0 /\ MaxWaypoints \in Nat
    BY MotionAssumption DEF Times, IsSorted
  <1>3. ASSUME NEW p \in Places PROVE FitsIn(Unavailable, p)
    <2>1. ~Unavailable.ok /\ DOMAIN Unavailable.parts = {}
      BY DEF Unavailable
    <2>2. Len(Unavailable.times) <= MaxWaypoints
      BY <1>1, <1>2
    <2> QED BY <1>1, <1>2, <2>1, <2>2 DEF FitsIn
  <1> QED BY <1>3 DEF StoreTypes, Init

-----------------------------------------------------------------------------
(* How evaluating a view may fail to return.                                *)

Failures == {"assert", "overflow"}

LEMMA DepthIs ==
  MaxDepth \in Nat /\ Cardinality(Slots) \in Nat
  <1>1. Cardinality(Slots) \in Nat
    BY MotionAssumption, FS_CardinalityType
  <1> QED BY <1>1 DEF MaxDepth

\* The timing of a view, from that of its parts.
TimingStep(objects, inside, depth, v) ==
  LET parts == objects[v].parts
      inner(i) == inside[parts[i]]
      times == objects[parts[1]].times
  IN IF depth = 0 THEN [loops |-> FALSE, lap |-> 0, loopFails |-> {"overflow"}, lapFails |-> {"overflow"}]
     ELSE CASE v.kind = "plain" ->
            [loops |-> objects[v].loop >= 0, loopFails |-> {},
             lap |-> IF times = << >> THEN 0 ELSE LapDuration(times, objects[v].loop),
             lapFails |-> IF times = << >> THEN {"assert"} ELSE {}]
       [] v.kind = "modulated" -> inner(1)
       [] v.kind = "mixed" ->
            [loops |-> inner(1).loops \/ inner(2).loops,
             loopFails |-> inner(1).loopFails \cup (IF inner(1).loops THEN {} ELSE inner(2).loopFails),
             lap |-> IF inner(1).lap > inner(2).lap THEN inner(1).lap ELSE inner(2).lap,
             lapFails |-> inner(1).lapFails \cup inner(2).lapFails]

IsTiming(g, objects) ==
  /\ \A view : TimingIn(objects, view) = g[MaxDepth][view]
  /\ \A depth \in 0 .. MaxDepth : \A v \in Views : g[depth][v] = TimingStep(objects, g[depth - 1], depth, v)

LEMMA TimingExists ==
  ASSUME NEW objects
  PROVE  \E g : IsTiming(g, objects)
  <1> DEFINE lookAt[depth \in 0 .. MaxDepth] == [v \in Views |->
               LET parts == objects[v].parts
                   inner(i) == lookAt[depth - 1][parts[i]]
                   times == objects[parts[1]].times
               IN IF depth = 0 THEN [loops |-> FALSE, lap |-> 0, loopFails |-> {"overflow"}, lapFails |-> {"overflow"}]
                  ELSE CASE v.kind = "plain" ->
                         [loops |-> objects[v].loop >= 0, loopFails |-> {},
                          lap |-> IF times = << >> THEN 0 ELSE LapDuration(times, objects[v].loop),
                          lapFails |-> IF times = << >> THEN {"assert"} ELSE {}]
                    [] v.kind = "modulated" -> inner(1)
                    [] v.kind = "mixed" ->
                         [loops |-> inner(1).loops \/ inner(2).loops,
                          loopFails |-> inner(1).loopFails \cup (IF inner(1).loops THEN {} ELSE inner(2).loopFails),
                          lap |-> IF inner(1).lap > inner(2).lap THEN inner(1).lap ELSE inner(2).lap,
                          lapFails |-> inner(1).lapFails \cup inner(2).lapFails]]
             F(g) == [depth \in 0 .. MaxDepth |-> [v \in Views |->
               LET parts == objects[v].parts
                   inner(i) == g[depth - 1][parts[i]]
                   times == objects[parts[1]].times
               IN IF depth = 0 THEN [loops |-> FALSE, lap |-> 0, loopFails |-> {"overflow"}, lapFails |-> {"overflow"}]
                  ELSE CASE v.kind = "plain" ->
                         [loops |-> objects[v].loop >= 0, loopFails |-> {},
                          lap |-> IF times = << >> THEN 0 ELSE LapDuration(times, objects[v].loop),
                          lapFails |-> IF times = << >> THEN {"assert"} ELSE {}]
                    [] v.kind = "modulated" -> inner(1)
                    [] v.kind = "mixed" ->
                         [loops |-> inner(1).loops \/ inner(2).loops,
                          loopFails |-> inner(1).loopFails \cup (IF inner(1).loops THEN {} ELSE inner(2).loopFails),
                          lap |-> IF inner(1).lap > inner(2).lap THEN inner(1).lap ELSE inner(2).lap,
                          lapFails |-> inner(1).lapFails \cup inner(2).lapFails]]]
             Body(depth, inside) == [v \in Views |-> TimingStep(objects, inside, depth, v)]
             Ok(k, g) == g = [depth \in 0 .. k |-> Body(depth, g[depth - 1])]
             S == {k \in 0 .. MaxDepth : \E g : Ok(k, g)}
  <1>1. \A view : TimingIn(objects, view) = lookAt[MaxDepth][view]
    BY DEF TimingIn
  <1>2. lookAt = CHOOSE g : g = F(g)
    OBVIOUS
  <1>3. ASSUME NEW g PROVE F(g) = [depth \in 0 .. MaxDepth |-> Body(depth, g[depth - 1])]
    BY DEF TimingStep
  <1> HIDE DEF lookAt, F
  <1>4. ASSUME NEW x, NEW y PROVE Body(0, x) = Body(0, y)
    BY DEF TimingStep
  <1> HIDE DEF Body
  <1>5. 0 \in S
    <2> DEFINE g == [depth \in 0 .. 0 |-> Body(0, 0)]
    <2>1. g = [depth \in 0 .. 0 |-> Body(depth, g[depth - 1])]
      BY <1>4
    <2>2. Ok(0, g)
      BY <2>1
    <2> HIDE DEF g, Ok
    <2> QED BY <2>2, DepthIs
  <1>6. ASSUME NEW k \in 0 .. MaxDepth - 1, k \in S PROVE k + 1 \in S
    <2>1. PICK g : Ok(k, g)
      BY <1>6
    <2> DEFINE h == [depth \in 0 .. k + 1 |-> IF depth = k + 1 THEN Body(k + 1, g[k]) ELSE g[depth]]
    <2>2. k \in Nat /\ k \in 0 .. k /\ k \in 0 .. k + 1 /\ k # k + 1 /\ k + 1 \in 0 .. MaxDepth
      BY DepthIs
    <2>3. ASSUME NEW depth \in 0 .. k + 1 PROVE h[depth] = Body(depth, h[depth - 1])
      <3>1. CASE depth = k + 1
        <4>1. depth - 1 = k /\ h[k] = g[k]
          BY <2>2, <3>1
        <4>2. h[depth] = Body(k + 1, g[k])
          BY <2>2, <3>1
        <4> HIDE DEF h
        <4> QED BY <3>1, <4>1, <4>2
      <3>2. CASE depth # k + 1
        <4>1. depth \in 0 .. k /\ h[depth] = g[depth]
          BY <2>2, <3>2
        <4>2. g[depth] = Body(depth, g[depth - 1])
          <5> DEFINE G(f) == [d \in 0 .. k |-> Body(d, f[d - 1])]
          <5>1. g = G(g)
            BY <2>1
          <5>2. G(g)[depth] = Body(depth, g[depth - 1])
            BY <4>1
          <5> HIDE DEF G
          <5> QED BY <5>1, <5>2
        <4>3. CASE depth = 0
          <5> HIDE DEF h
          <5> QED BY <1>4, <4>1, <4>2, <4>3
        <4>4. CASE depth # 0
          <5>1. depth - 1 \in 0 .. k + 1 /\ depth - 1 # k + 1
            BY <4>1, <4>4
          <5>2. h[depth - 1] = g[depth - 1]
            BY <5>1
          <5> HIDE DEF h
          <5> QED BY <4>1, <4>2, <5>2
        <4> QED BY <4>3, <4>4
      <3> QED BY <3>1, <3>2
    <2>4. Ok(k + 1, h)
      <3>1. h = [depth \in 0 .. k + 1 |-> h[depth]]
        OBVIOUS
      <3> HIDE DEF h
      <3> QED BY <2>3, <3>1
    <2> HIDE DEF h, Ok
    <2> QED BY <2>2, <2>4
  <1>7. PICK g : Ok(MaxDepth, g)
    <2>1. MaxDepth \in S
      <3> HIDE DEF S
      <3>1. 0 .. MaxDepth \subseteq S
        BY <1>5, <1>6, SetInduction, DepthIs
      <3> QED BY <3>1, DepthIs
    <2> HIDE DEF Ok
    <2> QED BY <2>1
  <1>8. lookAt = F(lookAt)
    <2>1. g = F(g)
      BY <1>3, <1>7
    <2> QED BY <1>2, <2>1
  <1>9. ASSUME NEW depth \in 0 .. MaxDepth, NEW v \in Views
        PROVE  lookAt[depth][v] = TimingStep(objects, lookAt[depth - 1], depth, v)
    <2>1. lookAt = [d \in 0 .. MaxDepth |-> Body(d, lookAt[d - 1])]
      BY <1>3, <1>8
    <2> DEFINE G(f) == [d \in 0 .. MaxDepth |-> Body(d, f[d - 1])]
    <2>2. lookAt = G(lookAt)
      BY <2>1
    <2>3. G(lookAt)[depth] = Body(depth, lookAt[depth - 1])
      OBVIOUS
    <2> HIDE DEF G
    <2>4. lookAt[depth] = Body(depth, lookAt[depth - 1])
      BY <2>2, <2>3
    <2> QED BY <2>4 DEF Body
  <1> QED BY <1>1, <1>9 DEF IsTiming

-----------------------------------------------------------------------------
\* What the parts of a view are, whichever kind it is of.
LEMMA PartsOfView ==
  ASSUME StoreTypes, NEW v \in Views, v.kind # "plain"
  PROVE  /\ \A i \in DOMAIN store[v].parts :
              /\ store[v].parts[i] \in Views
              /\ store[v].parts[i].kind = "plain" \/ store[v].parts[i].family = v.family
         /\ store[v].ok => DOMAIN store[v].parts = {1, 2, 3}
         /\ v.kind \in CombinedKinds /\ v \in Places
  BY DEF StoreTypes, FitsIn, Views, Places, CombinedKinds

LEMMA TimingFailsIn ==
  ASSUME StoreTypes, NoDangling, NEW view \in Views, store[view].ok
  PROVE  Timing(view).loopFails \subseteq Failures /\ Timing(view).lapFails \subseteq Failures
  <1>1. PICK g : IsTiming(g, store)
    BY TimingExists
  <1> DEFINE Fails(timing) == timing.loopFails \subseteq Failures /\ timing.lapFails \subseteq Failures
             S == {d \in 0 .. MaxDepth : \A v \in Views : store[v].ok => Fails(g[d][v])}
  <1>2. ASSUME NEW d \in 0 .. MaxDepth, NEW v \in Views
        PROVE  g[d][v] = TimingStep(store, g[d - 1], d, v)
    BY <1>1, <1>2 DEF IsTiming
  <1>3. 0 \in S
    <2>1. ASSUME NEW v \in Views PROVE Fails(g[0][v])
      <3>1. 0 \in 0 .. MaxDepth
        BY DepthIs
      <3>2. g[0][v] = TimingStep(store, g[0 - 1], 0, v)
        BY <1>2, <3>1
      <3> QED BY <3>2 DEF TimingStep, Failures
    <2> QED BY <2>1, DepthIs
  <1>4. ASSUME NEW d \in 0 .. MaxDepth - 1, d \in S PROVE d + 1 \in S
    <2>1. d + 1 \in 0 .. MaxDepth /\ (d + 1) - 1 = d /\ d + 1 # 0
      BY DepthIs
    <2>2. \A v \in Views : store[v].ok => Fails(g[d][v])
      BY <1>4
    <2>3. ASSUME NEW v \in Views, store[v].ok PROVE Fails(g[d + 1][v])
      <3> DEFINE parts == store[v].parts
      <3>1. g[d + 1][v] = TimingStep(store, g[d], d + 1, v)
        BY <1>2, <2>1
      <3>2. CASE v.kind = "plain"
        BY <2>1, <3>1, <3>2 DEF TimingStep, Failures
      <3>3. CASE v.kind # "plain"
        <4>1. parts[1] \in Views /\ parts[2] \in Views /\ v.kind \in CombinedKinds /\ v \in Places
              /\ DOMAIN parts = {1, 2, 3}
          BY <2>3, <3>3, PartsOfView
        <4>2. store[parts[1]].ok /\ store[parts[2]].ok
          BY <2>3, <4>1 DEF NoDangling
        <4>3. Fails(g[d][parts[1]]) /\ Fails(g[d][parts[2]])
          BY <2>2, <4>1, <4>2
        <4>4. CASE v.kind = "modulated"
          <5>1. g[d + 1][v] = g[d][parts[1]]
            BY <2>1, <3>1, <4>4 DEF TimingStep
          <5> QED BY <4>3, <5>1
        <4>5. CASE v.kind = "mixed"
          <5> DEFINE a == g[d][parts[1]]
                     b == g[d][parts[2]]
          <5>0. g[d + 1][v] =
                  [loops |-> a.loops \/ b.loops,
                   loopFails |-> a.loopFails \cup (IF a.loops THEN {} ELSE b.loopFails),
                   lap |-> IF a.lap > b.lap THEN a.lap ELSE b.lap,
                   lapFails |-> a.lapFails \cup b.lapFails]
            BY <2>1, <3>1, <4>5, Zenon DEF TimingStep
          <5>1. /\ g[d + 1][v].loopFails = a.loopFails \cup (IF a.loops THEN {} ELSE b.loopFails)
                /\ g[d + 1][v].lapFails = a.lapFails \cup b.lapFails
            BY <5>0
          <5>2. Fails(a) /\ Fails(b)
            BY <4>3
          <5> HIDE DEF a, b
          <5> QED BY <5>1, <5>2
        <4> QED BY <4>1, <4>4, <4>5 DEF CombinedKinds
      <3> QED BY <3>2, <3>3
    <2> QED BY <2>1, <2>3
  <1>5. MaxDepth \in S
    <2> HIDE DEF S
    <2>1. 0 .. MaxDepth \subseteq S
      BY <1>3, <1>4, SetInduction, DepthIs
    <2> QED BY <2>1, DepthIs
  <1>6. Timing(view) = g[MaxDepth][view]
    BY <1>1 DEF IsTiming, Timing
  <1> QED BY <1>5, <1>6

\* How the evaluation of a view fails, from how those of its parts do.
StateStep(inside, depth, v) ==
  LET parts == store[v].parts IN
  IF depth = 0 THEN {"overflow"}
  ELSE IF v.kind = "plain" THEN IF store[parts[1]].times = << >> THEN {"assert"} ELSE {}
  ELSE UNION {inside[parts[i]] : i \in DOMAIN parts}

IsEvaluation(g) ==
  /\ \A view : StateFails(view) = g[MaxDepth][view]
  /\ g \in [0 .. MaxDepth -> [Views -> SUBSET Failures]]
  /\ \A depth \in 1 .. MaxDepth : \A v \in Views : g[depth][v] = StateStep(g[depth - 1], depth, v)

LEMMA EvaluationExists ==
  ASSUME StoreTypes
  PROVE  \E g : IsEvaluation(g)
  <1> DEFINE V == [Views -> SUBSET Failures]
             lookAt[depth \in 0 .. MaxDepth] == [v \in Views |->
               LET parts == store[v].parts IN
               IF depth = 0 THEN {"overflow"}
               ELSE IF v.kind = "plain" THEN IF store[parts[1]].times = << >> THEN {"assert"} ELSE {}
               ELSE UNION {lookAt[depth - 1][parts[i]] : i \in DOMAIN parts}]
             F(g) == [depth \in 0 .. MaxDepth |-> [v \in Views |->
               LET parts == store[v].parts IN
               IF depth = 0 THEN {"overflow"}
               ELSE IF v.kind = "plain" THEN IF store[parts[1]].times = << >> THEN {"assert"} ELSE {}
               ELSE UNION {g[depth - 1][parts[i]] : i \in DOMAIN parts}]]
             Body(depth, inside) == [v \in Views |-> StateStep(inside, depth, v)]
             first == [v \in Views |-> {"overflow"}]
             step == [x \in (1 .. MaxDepth) \X V |-> Body(x[1], x[2])]
  <1>1. \A view : StateFails(view) = lookAt[MaxDepth][view]
    BY DEF StateFails
  <1>2. lookAt = CHOOSE g : g = F(g)
    OBVIOUS
  <1>3. ASSUME NEW g PROVE F(g) = [depth \in 0 .. MaxDepth |-> Body(depth, g[depth - 1])]
    BY DEF StateStep
  <1> HIDE DEF lookAt, F
  <1>4. first \in V
    BY DEF Failures
  <1>5. ASSUME NEW depth \in 1 .. MaxDepth, NEW inside \in V PROVE Body(depth, inside) \in V
    <2>1. ASSUME NEW v \in Views PROVE StateStep(inside, depth, v) \in SUBSET Failures
      <3>1. CASE v.kind = "plain"
        BY <3>1, DepthIs DEF StateStep, Failures
      <3>2. CASE v.kind # "plain"
        <4>1. \A i \in DOMAIN store[v].parts : inside[store[v].parts[i]] \in SUBSET Failures
          BY <3>2, PartsOfView
        <4>2. StateStep(inside, depth, v) = UNION {inside[store[v].parts[i]] : i \in DOMAIN store[v].parts}
          BY <3>2, DepthIs DEF StateStep
        <4> QED BY <4>1, <4>2
      <3> QED BY <3>1, <3>2
    <2> QED BY <2>1
  <1>6. ASSUME NEW x PROVE Body(0, x) = first
    BY DEF StateStep
  <1> HIDE DEF Body, V, first
  <1>7. step \in [(1 .. MaxDepth) \X V -> V]
    BY <1>5
  <1>8. PICK g \in [0 .. MaxDepth -> V] : StepsFrom(g, first, step, MaxDepth)
    <2> HIDE DEF step
    <2> QED BY <1>4, <1>7, StepByStep, DepthIs
  <1>9. ASSUME NEW depth \in 1 .. MaxDepth PROVE g[depth] = Body(depth, g[depth - 1])
    <2>1. depth \in 0 .. MaxDepth /\ depth # 0 /\ depth - 1 \in 0 .. MaxDepth
      BY DepthIs
    <2>2. g[depth - 1] \in V
      BY <2>1
    <2>3. step[<<depth, g[depth - 1]>>] = Body(depth, g[depth - 1])
      BY <2>2
    <2>4. g[depth] = step[<<depth, g[depth - 1]>>]
      <3> HIDE DEF step
      <3> QED BY <1>8, <2>1 DEF StepsFrom
    <2> QED BY <2>3, <2>4
  <1>10. g[0] = first
    <2>1. 0 \in 0 .. MaxDepth
      BY DepthIs
    <2> HIDE DEF step
    <2> QED BY <1>8, <2>1 DEF StepsFrom
  <1>11. g = F(g)
    <2>1. ASSUME NEW depth \in 0 .. MaxDepth PROVE g[depth] = Body(depth, g[depth - 1])
      BY <1>6, <1>9, <1>10, DepthIs
    <2>2. g = [depth \in 0 .. MaxDepth |-> g[depth]]
      OBVIOUS
    <2> QED BY <1>3, <2>1, <2>2
  <1>12. lookAt = F(lookAt)
    BY <1>2, <1>11
  <1>13. ASSUME NEW depth \in 0 .. MaxDepth PROVE lookAt[depth] = Body(depth, lookAt[depth - 1])
    <2>1. lookAt = [d \in 0 .. MaxDepth |-> Body(d, lookAt[d - 1])]
      BY <1>3, <1>12
    <2> DEFINE G(f) == [d \in 0 .. MaxDepth |-> Body(d, f[d - 1])]
    <2>2. lookAt = G(lookAt)
      BY <2>1
    <2>3. G(lookAt)[depth] = Body(depth, lookAt[depth - 1])
      OBVIOUS
    <2> HIDE DEF G
    <2> QED BY <2>2, <2>3
  <1> DEFINE T == {d \in 0 .. MaxDepth : lookAt[d] \in V}
  <1>14. \A d \in 0 .. MaxDepth : lookAt[d] \in V
    <2>1. 0 \in T
      BY <1>4, <1>6, <1>13, DepthIs
    <2>2. ASSUME NEW d \in 0 .. MaxDepth - 1, d \in T PROVE d + 1 \in T
      <3>1. d + 1 \in 1 .. MaxDepth /\ d + 1 \in 0 .. MaxDepth /\ (d + 1) - 1 = d /\ lookAt[d] \in V
        BY <2>2, DepthIs
      <3>2. lookAt[d + 1] = Body(d + 1, lookAt[d])
        BY <1>13, <3>1
      <3> QED BY <1>5, <3>1, <3>2
    <2>3. 0 .. MaxDepth \subseteq T
      <3> HIDE DEF T
      <3> QED BY <2>1, <2>2, SetInduction, DepthIs
    <2> QED BY <2>3
  <1>15. lookAt \in [0 .. MaxDepth -> V]
    <2>1. lookAt = [d \in 0 .. MaxDepth |-> Body(d, lookAt[d - 1])]
      BY <1>3, <1>12
    <2>2. lookAt = [d \in 0 .. MaxDepth |-> lookAt[d]]
      BY <1>13, <2>1
    <2> QED BY <1>14, <2>2
  <1>16. ASSUME NEW depth \in 1 .. MaxDepth, NEW v \in Views
         PROVE  lookAt[depth][v] = StateStep(lookAt[depth - 1], depth, v)
    <2>1. lookAt[depth] = Body(depth, lookAt[depth - 1])
      BY <1>13, DepthIs
    <2> QED BY <2>1 DEF Body
  <1> QED BY <1>1, <1>15, <1>16 DEF IsEvaluation, V

-----------------------------------------------------------------------------
\* Evaluating a view returns, or fails in one of the two ways.
LEMMA StateFailsIn ==
  ASSUME StoreTypes, NEW view \in Views
  PROVE  StateFails(view) \subseteq Failures
  <1>1. PICK g : IsEvaluation(g)
    BY EvaluationExists
  <1>2. MaxDepth \in 0 .. MaxDepth
    BY DepthIs
  <1>3. g[MaxDepth][view] \in SUBSET Failures
    BY <1>1, <1>2 DEF IsEvaluation
  <1> QED BY <1>1, <1>3 DEF IsEvaluation

\* A rank of the views that is higher than that of any part, and no higher than
\* there are views that combine others.
CombinedOf(family) == {p \in Places : p.kind \in CombinedKinds /\ p.family = family /\ store[p].ok}
IsRank(rank) ==
  /\ rank \in [Places -> Nat]
  /\ \A p \in Places : p.kind = "plain" => rank[p] = 1
  /\ \A p \in Places : p.kind \in CombinedKinds /\ store[p].ok =>
       /\ 1 <= rank[p] /\ rank[p] <= 1 + Cardinality(CombinedOf(p.family))
       /\ \A i \in DOMAIN store[p].parts : rank[store[p].parts[i]] < rank[p]
Ranked == ~replaced => \E rank : IsRank(rank)

\* A family has two stores of views that combine others.
LEMMA CombinedCount ==
  ASSUME NEW family
  PROVE  /\ IsFiniteSet(CombinedOf(family))
         /\ Cardinality(CombinedOf(family)) \in Nat
         /\ Cardinality(CombinedOf(family)) <= 2 * Cardinality(Slots)
  <1> DEFINE In(kind) == {Place(kind, family, s) : s \in Slots}
             modulated == In("modulated")
             mixed == In("mixed")
  <1>1. ASSUME NEW kind
        PROVE  IsFiniteSet(In(kind)) /\ Cardinality(In(kind)) \in Nat /\ Cardinality(In(kind)) <= Cardinality(Slots)
    <2> DEFINE f == [s \in Slots |-> Place(kind, family, s)]
    <2>1. f \in Surjection(Slots, In(kind))
      BY DEF Surjection
    <2> HIDE DEF f, In
    <2>2. IsFiniteSet(In(kind)) /\ Cardinality(In(kind)) <= Cardinality(Slots)
      BY <2>1, FS_Surjection, MotionAssumption
    <2> QED BY <2>2, FS_CardinalityType
  <1>2. CombinedOf(family) \subseteq modulated \cup mixed
    BY DEF CombinedOf, CombinedKinds, Places, Place
  <1>3. /\ IsFiniteSet(modulated) /\ Cardinality(modulated) \in Nat /\ Cardinality(modulated) <= Cardinality(Slots)
        /\ IsFiniteSet(mixed) /\ Cardinality(mixed) \in Nat /\ Cardinality(mixed) <= Cardinality(Slots)
    <2> HIDE DEF In
    <2> QED BY <1>1
  <1> HIDE DEF modulated, mixed, In
  <1>4. /\ IsFiniteSet(modulated \cup mixed)
        /\ Cardinality(modulated \cup mixed) = Cardinality(modulated) + Cardinality(mixed) - Cardinality(modulated \cap mixed)
    BY <1>3, FS_Union
  <1>5. Cardinality(modulated \cap mixed) \in Nat
    BY <1>3, FS_Intersection, FS_CardinalityType
  <1>6. /\ IsFiniteSet(CombinedOf(family)) /\ Cardinality(CombinedOf(family)) \in Nat
        /\ Cardinality(CombinedOf(family)) <= Cardinality(modulated \cup mixed)
    BY <1>2, <1>4, FS_Subset, FS_CardinalityType
  <1>7. Cardinality(modulated \cup mixed) <= 2 * Cardinality(Slots)
    BY <1>3, <1>4, <1>5, DepthIs
  <1>8. Cardinality(modulated \cup mixed) \in Nat
    BY <1>4, FS_CardinalityType
  <1> QED BY <1>6, <1>7, <1>8, DepthIs

\* Where views have ranks, no evaluation goes deeper than MaxDepth.
LEMMA RankedReturns ==
  ASSUME StoreTypes, NoDangling, NEW rank, IsRank(rank), NEW view \in Views, store[view].ok
  PROVE  "overflow" \notin StateFails(view)
  <1>1. PICK g : IsEvaluation(g)
    BY EvaluationExists
  <1>2. \A depth \in 1 .. MaxDepth : \A v \in Views : g[depth][v] = StateStep(g[depth - 1], depth, v)
    BY <1>1 DEF IsEvaluation
  <1>3. ASSUME NEW v \in Views, store[v].ok
        PROVE  rank[v] \in Nat /\ 1 <= rank[v] /\ rank[v] <= MaxDepth
    <2>1. v \in Places /\ rank[v] \in Nat /\ (v.kind = "plain" \/ v.kind \in CombinedKinds)
      BY DEF IsRank, Views, Places, CombinedKinds
    <2>2. CASE v.kind = "plain"
      BY <2>1, <2>2, DepthIs DEF IsRank, MaxDepth
    <2>3. CASE v.kind \in CombinedKinds
      <3>1. 1 <= rank[v] /\ rank[v] <= 1 + Cardinality(CombinedOf(v.family))
        BY <1>3, <2>1, <2>3 DEF IsRank
      <3>2. Cardinality(CombinedOf(v.family)) \in Nat /\ Cardinality(CombinedOf(v.family)) <= 2 * Cardinality(Slots)
        BY CombinedCount
      <3> QED BY <2>1, <3>1, <3>2, DepthIs DEF MaxDepth
    <2> QED BY <2>1, <2>2, <2>3
  <1> DEFINE S == {d \in 0 .. MaxDepth : \A v \in Views : store[v].ok /\ rank[v] <= d => "overflow" \notin g[d][v]}
  <1>4. 0 \in S
    <2>1. \A v \in Views : store[v].ok => ~(rank[v] <= 0)
      BY <1>3
    <2> QED BY <2>1, DepthIs
  <1>5. ASSUME NEW d \in 0 .. MaxDepth - 1, d \in S PROVE d + 1 \in S
    <2>1. d + 1 \in 1 .. MaxDepth /\ d + 1 \in 0 .. MaxDepth /\ (d + 1) - 1 = d /\ d + 1 # 0 /\ d \in Nat
      BY DepthIs
    <2>2. \A v \in Views : store[v].ok /\ rank[v] <= d => "overflow" \notin g[d][v]
      BY <1>5
    <2>3. ASSUME NEW v \in Views, store[v].ok, rank[v] <= d + 1 PROVE "overflow" \notin g[d + 1][v]
      <3>1. g[d + 1][v] = StateStep(g[d], d + 1, v)
        BY <1>2, <2>1
      <3>2. CASE v.kind = "plain"
        BY <2>1, <3>1, <3>2 DEF StateStep
      <3>3. CASE v.kind # "plain"
        <4>1. g[d + 1][v] = UNION {g[d][store[v].parts[i]] : i \in DOMAIN store[v].parts}
          BY <2>1, <3>1, <3>3 DEF StateStep
        <4>2. ASSUME NEW i \in DOMAIN store[v].parts PROVE "overflow" \notin g[d][store[v].parts[i]]
          <5>1. store[v].parts[i] \in Views /\ v \in Places /\ v.kind \in CombinedKinds
            BY <3>3, PartsOfView
          <5>2. store[store[v].parts[i]].ok
            BY <2>3, <5>1 DEF NoDangling
          <5>3. rank[store[v].parts[i]] < rank[v]
            BY <2>3, <5>1 DEF IsRank
          <5>4. rank[store[v].parts[i]] \in Nat /\ rank[v] \in Nat
            BY <1>3, <2>3, <5>1, <5>2
          <5>5. rank[store[v].parts[i]] <= d
            BY <2>1, <2>3, <5>3, <5>4
          <5> QED BY <2>2, <5>1, <5>2, <5>5
        <4> QED BY <4>1, <4>2
      <3> QED BY <3>2, <3>3
    <2> QED BY <2>1, <2>3
  <1>6. MaxDepth \in S
    <2> HIDE DEF S
    <2>1. 0 .. MaxDepth \subseteq S
      BY <1>4, <1>5, SetInduction, DepthIs
    <2> QED BY <2>1, DepthIs
  <1>7. StateFails(view) = g[MaxDepth][view]
    BY <1>1 DEF IsEvaluation
  <1>8. rank[view] <= MaxDepth
    BY <1>3
  <1> QED BY <1>6, <1>7, <1>8

\* A view that combines others is created last of all that it refers to, and gets
\* a rank above theirs.
LEMMA RankedKept ==
  ASSUME StoreShape, StoreTypes, NoDangling, Ranked, [Next]_vars, replaced \in BOOLEAN
  PROVE  Ranked'
  <1>1. CASE UNCHANGED <<store, replaced>>
    BY <1>1 DEF Ranked, IsRank, CombinedOf
  <1>2. ASSUME NEW r \in Requests, StoresFor(r), ~replaced' PROVE \E rank : IsRank(rank)'
    <2> DEFINE t == Target(r)
    <2>1. /\ t \in Places /\ store'[t] = Created(r)
          /\ \A p \in Places \ {t} : store'[p] = store[p]
          /\ replaced' = (replaced \/ (store[t].ok /\ r.kind \in CombinedKinds))
      BY <1>2, StoringAt
    <2>2. ~replaced /\ (r.kind \in CombinedKinds => ~store[t].ok)
      BY <1>2, <2>1
    <2>3. PICK rank : IsRank(rank)
      BY <2>2 DEF Ranked
    <2>4. t.kind = r.kind /\ t.family = r.family /\ Created(r).parts = r.parts /\ Created(r).ok
      BY DEF Target, Place, Created
    <2>5. /\ \A i \in DOMAIN r.parts : r.parts[i] \in Places /\ store[r.parts[i]].ok
          /\ r.kind \in CombinedKinds =>
               \A i \in DOMAIN r.parts : /\ r.parts[i] \in Views
                                         /\ r.parts[i].kind = "plain" \/ r.parts[i].family = r.family
      BY <1>2, Successful, SuccessfulParts DEF StoresFor
    <2>6. rank \in [Places -> Nat] /\ \A p \in Places : p.kind = "plain" => rank[p] = 1
      BY <2>3 DEF IsRank
    <2> HIDE DEF t
    <2>7. \A p \in Places : p.kind \in CombinedKinds /\ store[p].ok =>
            /\ 1 <= rank[p] /\ rank[p] <= 1 + Cardinality(CombinedOf(p.family))
            /\ \A i \in DOMAIN store[p].parts : rank[store[p].parts[i]] < rank[p]
      BY <2>3 DEF IsRank
    <2>8. CASE r.kind \notin CombinedKinds
      <3>1. \A p \in Places : p.kind \in CombinedKinds => store'[p] = store[p]
        BY <2>1, <2>4, <2>8
      <3>2. ASSUME NEW family PROVE CombinedOf(family)' = CombinedOf(family)
        BY <3>1 DEF CombinedOf
      <3>3. IsRank(rank)'
        BY <2>6, <2>7, <3>1, <3>2 DEF IsRank
      <3> QED BY <3>3
    <2>9. CASE r.kind \in CombinedKinds
      <3>1. PICK high \in Nat : high = 2 + Cardinality(CombinedOf(t.family))
        <4>1. Cardinality(CombinedOf(t.family)) \in Nat
          BY CombinedCount
        <4> QED BY <4>1
      <3>2. PICK new : new = [rank EXCEPT ![t] = high]
        OBVIOUS
      <3>3. /\ new \in [Places -> Nat] /\ new[t] = high
            /\ \A p \in Places \ {t} : new[p] = rank[p]
        BY <2>1, <2>6, <3>1, <3>2
      <3>4. ~store[t].ok /\ t.kind \in CombinedKinds
        BY <2>2, <2>4, <2>9
      <3>5. CombinedOf(t.family)' = CombinedOf(t.family) \cup {t}
        BY <2>1, <2>4, <2>9 DEF CombinedOf
      <3>6. /\ t \notin CombinedOf(t.family)
            /\ Cardinality(CombinedOf(t.family) \cup {t}) = Cardinality(CombinedOf(t.family)) + 1
        <4>1. t \notin CombinedOf(t.family)
          BY <3>4 DEF CombinedOf
        <4> QED BY <4>1, CombinedCount, FS_AddElement
      <3>7. ASSUME NEW family, family # t.family PROVE CombinedOf(family)' = CombinedOf(family)
        BY <2>1, <3>7 DEF CombinedOf
      <3>8. ASSUME NEW family PROVE /\ Cardinality(CombinedOf(family)) \in Nat
                                    /\ Cardinality(CombinedOf(family)') \in Nat
                                    /\ Cardinality(CombinedOf(family)) <= Cardinality(CombinedOf(family)')
        <4>1. Cardinality(CombinedOf(family)) \in Nat
          BY CombinedCount
        <4>2. CASE family = t.family
          <5>1. CombinedOf(family)' = CombinedOf(family) \cup {t}
            BY <3>5, <4>2
          <5>2. Cardinality(CombinedOf(family)') = Cardinality(CombinedOf(family)) + 1
            BY <3>6, <4>2, <5>1
          <5> QED BY <4>1, <5>2
        <4>3. CASE family # t.family
          BY <3>7, <4>1, <4>3
        <4> QED BY <4>2, <4>3
      <3>9. ASSUME NEW i \in DOMAIN r.parts PROVE rank[r.parts[i]] < high /\ r.parts[i] # t
        <4>1. r.parts[i] \in Views /\ r.parts[i] \in Places /\ store[r.parts[i]].ok
              /\ (r.parts[i].kind = "plain" \/ r.parts[i].family = t.family)
          BY <2>4, <2>5, <2>9
        <4>2. CASE r.parts[i].kind = "plain"
          <5>1. rank[r.parts[i]] = 1
            BY <2>6, <4>1, <4>2
          <5>2. Cardinality(CombinedOf(t.family)) \in Nat
            BY <3>8
          <5> QED BY <3>1, <3>4, <4>1, <5>1, <5>2
        <4>3. CASE r.parts[i].kind # "plain"
          <5>1. r.parts[i].kind \in CombinedKinds /\ r.parts[i].family = t.family
            BY <4>1, <4>3 DEF Views, Places, CombinedKinds
          <5>2. rank[r.parts[i]] <= 1 + Cardinality(CombinedOf(t.family)) /\ rank[r.parts[i]] \in Nat
            BY <2>6, <2>7, <4>1, <5>1
          <5>3. Cardinality(CombinedOf(t.family)) \in Nat
            BY <3>8
          <5> QED BY <3>1, <3>4, <4>1, <5>2, <5>3
        <4> QED BY <4>2, <4>3
      <3>10. ASSUME NEW p \in Places, p.kind \in CombinedKinds, store'[p].ok
             PROVE  /\ 1 <= new[p] /\ new[p] <= 1 + Cardinality(CombinedOf(p.family)')
                    /\ \A i \in DOMAIN store'[p].parts : new[store'[p].parts[i]] < new[p]
        <4>1. CASE p = t
          <5>1. Cardinality(CombinedOf(t.family)') = Cardinality(CombinedOf(t.family)) + 1
            BY <3>5, <3>6
          <5>2. Cardinality(CombinedOf(t.family)) \in Nat
            BY <3>8
          <5>3. 1 <= high /\ high <= 1 + Cardinality(CombinedOf(t.family)')
            BY <3>1, <5>1, <5>2
          <5>4. store'[p].parts = r.parts
            BY <2>1, <2>4, <4>1
          <5>5. \A i \in DOMAIN r.parts : new[r.parts[i]] < high
            BY <2>5, <3>3, <3>9
          <5> QED BY <3>3, <4>1, <5>3, <5>4, <5>5
        <4>2. CASE p # t
          <5>1. store'[p] = store[p] /\ store[p].ok /\ new[p] = rank[p]
            BY <2>1, <3>3, <3>10, <4>2
          <5>2. /\ 1 <= rank[p] /\ rank[p] <= 1 + Cardinality(CombinedOf(p.family)) /\ rank[p] \in Nat
                /\ \A i \in DOMAIN store[p].parts : rank[store[p].parts[i]] < rank[p]
            BY <2>6, <2>7, <3>10, <5>1
          <5>3. ASSUME NEW i \in DOMAIN store[p].parts PROVE new[store[p].parts[i]] = rank[store[p].parts[i]]
            <6>1. store[p].parts[i] \in Places /\ store[store[p].parts[i]].ok
              BY <5>1 DEF StoreShape, NoDangling
            <6>2. store[p].parts[i] # t
              BY <3>4, <6>1
            <6> QED BY <3>3, <6>1, <6>2
          <5>4. /\ Cardinality(CombinedOf(p.family)) \in Nat /\ Cardinality(CombinedOf(p.family)') \in Nat
                /\ Cardinality(CombinedOf(p.family)) <= Cardinality(CombinedOf(p.family)')
            BY <3>8
          <5>5. rank[p] <= 1 + Cardinality(CombinedOf(p.family)')
            BY <5>2, <5>4
          <5> QED BY <5>1, <5>2, <5>3, <5>5
        <4> QED BY <4>1, <4>2
      <3>11. \A p \in Places : p.kind = "plain" => new[p] = 1
        BY <2>6, <3>3, <3>4 DEF CombinedKinds
      <3>12. IsRank(new)'
        BY <3>3, <3>10, <3>11 DEF IsRank
      <3> QED BY <3>12
    <2> QED BY <2>8, <2>9
  <1> QED BY <1>1, <1>2, StoreSteps DEF Ranked

-----------------------------------------------------------------------------
(* The other variables, and why the program stops.                          *)

Flags ==
  /\ halted \in {"no"} \cup Failures
  /\ taken \in 0 .. MaxRequests /\ replaced \in BOOLEAN
  /\ \A f \in Moving : controllers[f].started => controllers[f].view # NoPlace

\* The view that a controller has is in the store.
LEMMA ViewOfController ==
  ASSUME Types, NoDangling, NEW f \in Moving, controllers[f].view # NoPlace
  PROVE  controllers[f].view \in Views /\ store[controllers[f].view].ok
  BY DEF Types, ControllerRecords, NoDangling

\* An execution that goes on stops the program for one of the two reasons.
LEMMA ExecutionFailsIn ==
  ASSUME IInv, StoreTypes, NEW f \in Moving, controllers[f].view # NoPlace
  PROVE  FinishedFails(f) \subseteq Failures /\ ProgressFails(f) \subseteq Failures
  <1>1. controllers[f].view \in Views /\ store[controllers[f].view].ok
    BY ViewOfController DEF IInv
  <1>2. /\ Timing(controllers[f].view).loopFails \subseteq Failures
        /\ Timing(controllers[f].view).lapFails \subseteq Failures
    BY <1>1, TimingFailsIn DEF IInv
  <1> QED BY <1>2 DEF FinishedFails, ProgressFails

LEMMA FlagsKept ==
  ASSUME IInv, StoreTypes, Flags, [Next]_vars
  PROVE  Flags'
  <1> DEFINE Same == UNCHANGED <<controllers, taken, replaced>>
             Goal == Flags'
  <1> SUFFICES Goal
    OBVIOUS
  <1>0. MaxRequests \in Nat
    BY MotionAssumption
  <1>1. ASSUME NEW why \in SUBSET Failures, Halt(why) PROVE Goal
    BY <1>1 DEF Halt, Flags
  <1>2. ASSUME NEW kind \in {"trajectory", "plain", "modulated", "mixed"}, NEW family \in Families,
               Create(kind, family)
        PROVE  Goal
    <2>1. PICK r \in Requests :
            /\ TakesRequest(r)
            /\ halted' = "assert" \/ UNCHANGED halted
            /\ UNCHANGED replaced \/ Stores(r)
            /\ UNCHANGED controllers
      BY <1>2 DEF Create
    <2>2. taken' \in 0 .. MaxRequests
      BY <1>0, <2>1 DEF TakesRequest, Flags
    <2>3. replaced' \in BOOLEAN
      BY <2>1 DEF Stores, Flags
    <2>4. halted' \in {"no"} \cup Failures
      BY <2>1 DEF Flags, Failures
    <2> QED BY <2>1, <2>2, <2>3, <2>4 DEF Flags
  <1>3. CASE \/ CreateBaseTrajectory \/ CreateHeadTrajectory \/ CreateEnvelopeTrajectory
             \/ CreateBaseTrajectoryView \/ CreateHeadTrajectoryView \/ CreateEnvelopeTrajectoryView
    <2> HIDE DEF Goal
    <2> QED BY <1>2, <1>3 DEF Families, CreateBaseTrajectory, CreateHeadTrajectory, CreateEnvelopeTrajectory,
               CreateBaseTrajectoryView, CreateHeadTrajectoryView, CreateEnvelopeTrajectoryView
  <1>4. CASE \/ CreateBaseModulatedTrajectoryView \/ CreateHeadModulatedTrajectoryView
             \/ CreateBaseMixedTrajectoryView \/ CreateHeadMixedTrajectoryView
    <2> HIDE DEF Goal
    <2> QED BY <1>2, <1>4 DEF Families, CreateBaseModulatedTrajectoryView, CreateHeadModulatedTrajectoryView,
               CreateBaseMixedTrajectoryView, CreateHeadMixedTrajectoryView
  <1>5. ASSUME NEW family \in Moving, Execute(family) PROVE Goal
    <2>1. PICK r \in Requests :
            /\ r.kind = "execute" /\ r.family = family
            /\ TakesRequest(r)
            /\ \/ UNCHANGED controllers
               \/ StatusAt(r.view) = "success" /\ controllers' = [controllers EXCEPT ![family] = Started(r.view)]
            /\ UNCHANGED <<halted, replaced>>
      BY <1>5 DEF Execute
    <2>2. taken' \in 0 .. MaxRequests
      BY <1>0, <2>1 DEF TakesRequest, Flags
    <2>3. r.view \in ViewRefs(r.family)
      BY <2>1, MotionAssumption DEF CreateHandlers
    <2>4. r.view # NoPlace
      BY <2>3 DEF ViewRefs, RefsTo, NoPlace, Place
    <2>5. \A f \in Moving : controllers'[f] = controllers[f] \/ controllers'[f].view = r.view
      BY <2>1 DEF Started, IInv, Types
    <2>6. \A f \in Moving : controllers'[f].started => controllers'[f].view # NoPlace
      BY <2>4, <2>5 DEF Flags
    <2> QED BY <2>1, <2>2, <2>6 DEF Flags
  <1>6. CASE ExecuteBaseTrajectoryView \/ ExecuteHeadTrajectoryView
    <2> HIDE DEF Goal
    <2> QED BY <1>5, <1>6 DEF Moving, ExecuteBaseTrajectoryView, ExecuteHeadTrajectoryView
  <1>7. ASSUME NEW family \in Moving, Update(family) PROVE Goal
    <2> DEFINE controller == [controllers[family] EXCEPT !.time = Later(controllers[family].time)]
               fails == Timing(controller.view).loopFails
                          \cup (IF Timing(controller.view).loops THEN {} ELSE Timing(controller.view).lapFails)
    <2>1. controllers[family].started /\ controllers[family].view # NoPlace
      BY <1>7 DEF Update, Flags
    <2>2. controller.view = controllers[family].view /\ Stopped(controller).view = controllers[family].view
      BY DEF Stopped, IInv, Types, ControllerRecords
    <2>3. controller.view \in Views /\ store[controller.view].ok
      BY <2>1, <2>2, ViewOfController DEF IInv
    <2> HIDE DEF controller
    <2>4. fails \in SUBSET Failures /\ StateFails(controller.view) \in SUBSET Failures
      BY <2>3, TimingFailsIn, StateFailsIn DEF IInv
    <2>5. CASE Halt(fails) \/ Halt(StateFails(controller.view))
      <3> HIDE DEF fails, Goal
      <3> QED BY <1>1, <2>4, <2>5
    <2>6. ASSUME NEW c, c.view = controllers[family].view, controllers' = [controllers EXCEPT ![family] = c],
                 UNCHANGED <<halted, taken, replaced>>
          PROVE  Goal
      <3>1. \A f \in Moving : controllers'[f].view = controllers[f].view /\ (f # family => controllers'[f] = controllers[f])
        BY <2>6 DEF IInv, Types
      <3> QED BY <2>1, <2>6, <3>1 DEF Flags
    <2>7. \/ Halt(fails) \/ Halt(StateFails(controller.view))
          \/ /\ UNCHANGED <<halted, taken, replaced>>
             /\ \/ controllers' = [controllers EXCEPT ![family] = Stopped(controller)]
                \/ controllers' = [controllers EXCEPT ![family] = controller]
      BY <1>7 DEF Update, controller
    <2> HIDE DEF Goal, fails
    <2> QED BY <2>2, <2>5, <2>6, <2>7
  <1>8. CASE BaseUpdate \/ HeadUpdate
    <2> HIDE DEF Goal
    <2> QED BY <1>7, <1>8 DEF Moving, BaseUpdate, HeadUpdate
  <1>9. CASE \E f \in Moving : NoticeEnd(f) \/ SendProgress(f) \/ NoRoomForProgress(f)
    <2>1. PICK f \in Moving : NoticeEnd(f) \/ SendProgress(f) \/ NoRoomForProgress(f)
      BY <1>9
    <2>2. handlers[<<"execute", f>>].running /\ handlers[<<"execute", f>>].state \in {"waiting", "sendingProgress"}
      BY <2>1 DEF NoticeEnd, SendProgress, NoRoomForProgress, Waits
    <2>3. controllers[f].view # NoPlace
      BY <2>2 DEF Executes, IInv, AllNoticed, Noticed
    <2>4. FinishedFails(f) \in SUBSET Failures /\ ProgressFails(f) \in SUBSET Failures
      BY <2>3, ExecutionFailsIn
    <2>5. \/ Halt(FinishedFails(f)) \/ Halt(ProgressFails(f))
          \/ UNCHANGED <<controllers, halted, taken, replaced>>
      BY <2>1 DEF NoticeEnd, SendProgress, NoRoomForProgress
    <2>6. CASE Halt(FinishedFails(f)) \/ Halt(ProgressFails(f))
      <3> HIDE DEF Goal
      <3> QED BY <1>1, <2>4, <2>6
    <2>7. CASE UNCHANGED <<controllers, halted, taken, replaced>>
      BY <2>7 DEF Flags
    <2> QED BY <2>5, <2>6, <2>7
  <1>10. ASSUME NEW hs, OnCancel(hs), UNCHANGED <<halted, taken, replaced>> PROVE Goal
    <2>1. \A f \in Moving : controllers'[f] = controllers[f] \/ controllers'[f] = Stopped(controllers[f])
      BY <1>10 DEF OnCancel
    <2>2. \A f \in Moving : Stopped(controllers[f]).started = FALSE
      BY DEF Stopped, IInv, Types, ControllerRecords
    <2> QED BY <1>10, <2>1, <2>2 DEF Flags
  <1>11. CASE \E h \in Handlers : SendReply(h) \/ Cancel(h)
    <2>1. PICK h \in Handlers : SendReply(h) \/ Cancel(h)
      BY <1>11
    <2>2. CASE SendReply(h)
      BY <2>2 DEF SendReply, Flags
    <2>3. CASE Cancel(h)
      <3>1. OnCancel({h}) /\ UNCHANGED <<halted, taken, replaced>>
        BY <2>3 DEF Cancel
      <3> HIDE DEF Goal
      <3> QED BY <1>10, <3>1
    <2> QED BY <2>1, <2>2, <2>3
  <1>12. CASE OnOtherEndStarted
    <2>1. OnCancel(Handlers) /\ UNCHANGED <<halted, taken, replaced>>
      BY <1>12 DEF OnOtherEndStarted
    <2> HIDE DEF Goal
    <2> QED BY <1>10, <2>1
  <1>13. CASE UNCHANGED vars
    BY <1>13 DEF vars, Flags
  <1> QED BY <1>3, <1>4, <1>6, <1>8, <1>9, <1>11, <1>12, <1>13 DEF Next

-----------------------------------------------------------------------------
(* What the store holds, always.                                            *)

StoreInv == StoreTypes /\ Ranked /\ Flags

LEMMA StoreInvInitially ==
  ASSUME Init
  PROVE  StoreInv
  <1>1. StoreTypes
    BY StoreTypesInitially
  <1>2. Flags
    <2>1. halted = "no" /\ taken = 0 /\ replaced = FALSE /\ MaxRequests \in Nat
      BY MotionAssumption DEF Init, InitButStore
    <2>2. \A f \in Moving : ~controllers[f].started
      BY DEF Init, InitButStore
    <2>3. taken \in 0 .. MaxRequests /\ halted \in {"no"} \cup Failures
      BY <2>1
    <2>4. replaced \in BOOLEAN
      BY <2>1
    <2> QED BY <2>2, <2>3, <2>4 DEF Flags
  <1>3. Ranked
    <2> DEFINE rank == [p \in Places |-> 1]
    <2>1. \A p \in Places : ~store[p].ok
      BY DEF Init, Unavailable
    <2>2. IsRank(rank)
      BY <2>1 DEF IsRank
    <2> QED BY <2>2 DEF Ranked
  <1> QED BY <1>1, <1>2, <1>3 DEF StoreInv

\* The store holds objects that fit, views that have ranks, and the flags are in
\* their range: the second layer of the invariant, on top of IInv.
THEOREM StoreInvAlways == Spec => []StoreInv
  <1>1. Init => StoreInv
    BY StoreInvInitially
  <1>2. IInv /\ StoreInv /\ [Next]_vars => StoreInv'
    <2> SUFFICES ASSUME IInv, StoreInv, [Next]_vars PROVE StoreInv'
      OBVIOUS
    <2>1. StoreTypes'
      BY StoreTypesKept DEF StoreInv, IInv
    <2>2. Ranked'
      BY RankedKept DEF StoreInv, IInv, Flags
    <2>3. Flags'
      BY FlagsKept DEF StoreInv
    <2> QED BY <2>1, <2>2, <2>3 DEF StoreInv
  <1> QED BY <1>1, <1>2, Inductive, PTL DEF Spec

\* Every variable has its type, no trajectory is given more waypoints than fit
\* in its array, and the program stops for no other reason than an assertion or
\* its stack (trajectory.h:56-93, create_*_action_handler.cpp).
THEOREM TypeCorrect == Spec => []TypeOK
  <1>1. IInv /\ StoreInv => TypeOK
    <2> SUFFICES ASSUME IInv, StoreInv PROVE TypeOK
      OBVIOUS
    <2>1. store \in [Places -> [ok : BOOLEAN, parts : Seq(Places), times : Seq(Int), loop : Int]]
      <3>1. store = [p \in Places |-> store[p]]
        BY DEF IInv, StoreShape
      <3>2. \A p \in Places : store[p] \in [ok : BOOLEAN, parts : Seq(Places), times : Seq(Int), loop : Int]
        BY DEF StoreInv, StoreTypes, FitsIn, Objects
      <3> QED BY <3>1, <3>2
    <2>2. \A p \in Places : Len(store[p].times) <= MaxWaypoints
      BY DEF StoreInv, StoreTypes, FitsIn
    <2>3. handlers \in [Handlers -> HandlerRecords] /\ controllers \in [Moving -> ControllerRecords]
          /\ changed \in [Moving -> BOOLEAN]
      BY DEF IInv, Types
    <2>4. halted \in {"no", "assert", "overflow"} /\ taken \in 0 .. MaxRequests /\ replaced \in BOOLEAN
      BY DEF StoreInv, Flags, Failures
    <2> QED BY <2>1, <2>2, <2>3, <2>4 DEF TypeOK, HandlerRecords, ControllerRecords
  <1> QED BY <1>1, Inductive, StoreInvAlways, PTL

\* Whatever order the waypoints of a request come in, the trajectory has them in
\* the order of their times (Trajectory::Insert(), trajectory.h:56-79).
THEOREM TrajectoriesSortedAlways == Spec => []TrajectoriesSorted
  <1>1. StoreInv => TrajectoriesSorted
    BY DEF StoreInv, StoreTypes, FitsIn, Times, TrajectoriesSorted
  <1> QED BY <1>1, StoreInvAlways, PTL

\* The search that a view makes at any time finds a waypoint that its trajectory
\* has: the last one that the lap has reached (TrajectoryView::GetWaypoint() and
\* FindInsertionIndex()).
THEOREM WaypointReachedAlways == Spec => []WaypointReached
  <1>1. IInv /\ StoreInv => WaypointReached
    <2> SUFFICES ASSUME IInv, StoreInv, NEW p \in Views, NEW t \in 0 .. Horizon,
                        p.kind = "plain", store[p].ok, store[store[p].parts[1]].times # << >>
                 PROVE  LET times == store[store[p].parts[1]].times
                            loop == store[p].loop
                        IN /\ WaypointIndex(times, loop, t) \in 0 .. Len(times) - 1
                           /\ LapDuration(times, loop) > 0 =>
                                WaypointIndex(times, loop, t) = LastAtOrBefore(times, TimeInLap(times, loop, t))
      BY DEF WaypointReached
    <2>1. p \in Places /\ store[p].loop \in Int /\ 1 \in DOMAIN store[p].parts
      BY DEF StoreInv, StoreTypes, FitsIn, Objects, Views
    <2>2. store[p].parts[1] \in Places
      BY <2>1 DEF IInv, StoreShape
    <2>3. store[store[p].parts[1]].times \in Times
      BY <2>2 DEF StoreInv, StoreTypes, FitsIn
    <2>4. t \in Int
      BY MotionAssumption
    <2> QED BY <2>1, <2>3, <2>4, ViewReaches
  <1> QED BY <1>1, Inductive, StoreInvAlways, PTL

\* As long as no view that combines others is created again in its slot, no view
\* refers to itself, and evaluating one does not overflow the stack (store.h,
\* create_*_modulated_trajectory_view_action_handler.cpp and *_mixed_*).
THEOREM AcyclicUnlessReplacedAlways == Spec => []AcyclicUnlessReplaced
  <1>1. IInv /\ StoreInv => AcyclicUnlessReplaced
    <2> SUFFICES ASSUME IInv, StoreInv, ~replaced, NEW v \in Views, store[v].ok
                 PROVE  "overflow" \notin StateFails(v)
      BY DEF AcyclicUnlessReplaced
    <2>1. PICK rank : IsRank(rank)
      BY DEF StoreInv, Ranked
    <2> QED BY <2>1, RankedReturns DEF IInv, StoreInv
  <1> QED BY <1>1, Inductive, StoreInvAlways, PTL
=============================================================================
