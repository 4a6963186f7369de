-------------------------- MODULE OrderServiceProofs --------------------------
(***************************************************************************)
(* Theorems about OrderService, for any number of orders, users, workers,  *)
(* consumers, messages and faults.  Every step of the service is one of    *)
(* its model or none (StepOfModel), so that what is proved there of stale  *)
(* copies and versions holds here.  On it rests the invariant of the       *)
(* service: an order waits for payment in the row of version 0 and in no   *)
(* other, so that whoever lost a race for it finds it decided.             *)
(***************************************************************************)
EXTENDS OrderService, TLAPS

P == INSTANCE CachedModelProofs
       WITH Vals <- TradeStates, InitVals <- {WaitPay}, Allowed <- OrderChanges

\* The types of what the service keeps beside its model.
Types ==
  /\ job \in [Procs -> Jobs \union {None}]
  /\ task \in [Orders -> {"none", "scheduled", "active", "done"}]
  /\ notify \in [Orders -> Nat]
  /\ topic \in [Messages -> {"unsent", "pending", "taken", "done", "dropped"}]
  /\ faults \in 0..MaxFaults

Decided(s) == db[s] # None /\ db[s].val # WaitPay

Paid(s) == db[s] # None /\ db[s].val \notin {WaitPay, Cancel}

\* A handler works on the order it is about, which exists if it is one; only a
\* number that is no order's is not found; whoever sent an UPDATE, matched or
\* not, finds the order decided.
JobShape(p) ==
  /\ job[p] = None => pc[p] = "idle"
  /\ job[p] # None =>
       /\ job[p].sn \in Orders => db[job[p].sn] # None
       /\ pc[p] # "idle" => sn[p] = job[p].sn
       /\ pc[p] \in {"markAbsent", "notFound"} => job[p].sn \notin Orders
       /\ pc[p] = "delKeys" => Decided(job[p].sn)
       /\ job[p].kind \in {"close", "notify"} => pc[p] = "idle"
       /\ job[p].kind \in {"close", "update", "notify"} =>
            job[p].to \in TradeStates \ {WaitPay}
       /\ job[p].msg # None =>
            /\ job[p].kind \in {"update", "notify"}
            /\ job[p].msg.sn = job[p].sn
            /\ job[p].msg.pay = PaySuccess => job[p].to = WaitUse
       /\ want[p] # None => job[p].kind = "update" /\ want[p] = job[p].to

OrderInv(s) ==
  /\ snKey[s] # "absent"
  /\ \A r \in committed[s] : (r.val = WaitPay) <=> (r.version = 0)
  /\ \A p \in Procs : Winner(p, s) => Paid(s) /\ notify[s] = 0
  /\ \A p, q \in Procs : Winner(p, s) /\ Winner(q, s) => p = q
  /\ notify[s] \in {0, 1} /\ (notify[s] = 1 => Paid(s))
  /\ task[s] # "none" => db[s] # None
  /\ task[s] = "done" => Decided(s)

MessageInv(m) ==
  m.sn \in Orders =>
    /\ topic[m] # "unsent" => db[m.sn] # None
    /\ topic[m] = "dropped" /\ faults = 0 /\ m.pay = PaySuccess => Decided(m.sn)

ServiceInv ==
  /\ Types
  /\ \A p \in Procs : JobShape(p)
  /\ \A s \in Sns : db[s] # None => s \in Orders
  /\ \A s \in Orders : OrderInv(s)
  /\ \A m \in Messages : MessageInv(m)

-----------------------------------------------------------------------------
(* The service and its model                                               *)

LEMMA ModelAssumption == P!CachedModelAssumption
<1>1. {WaitPay} \subseteq TradeStates
  BY DEF TradeStates
<1>2. P!Row = Model!Row
  BY DEF P!Row, Model!Row
<1>3. QED BY <1>1, <1>2, OrderServiceAssumption

\* Every step of the service is a step of its model, or none of it.
LEMMA StepOfModel == Types /\ [Next]_vars => [Model!Next]_(Model!vars)
<1> SUFFICES ASSUME Types, [Next]_vars PROVE Model!Next \/ UNCHANGED modelVars
  BY DEF modelVars, Model!vars, Model!cacheVars, Model!procVars
<1>1. ASSUME NEW p \in Procs, NEW s \in Sns, Lookup(p, s)
      PROVE  Model!Next
  BY <1>1 DEF Lookup, Model!Next
<1>2. ASSUME NEW u \in Users, UserNext(u)
      PROVE  Model!Next \/ UNCHANGED modelVars
  <2>1. u \in Procs /\ Orders \subseteq Sns
    BY DEF Procs, Sns
  <2>2. ASSUME NEW s \in Orders, Create(u, s)
        PROVE  Model!Next
    BY <2>1, <2>2 DEF Create, Model!Next
  <2>3. ASSUME NEW s \in Orders, Detail(u, s)
        PROVE  Model!Next
    BY <1>1, <2>1, <2>3 DEF Detail
  <2>4. CASE EnqueueClose(u)
    BY <2>4 DEF EnqueueClose
  <2>5. CASE DetailReturn(u) \/ DelNewLater(u)
    BY <2>1, <2>5 DEF DetailReturn, DelNewLater, Model!Next, Model!CallStep
  <2>6. QED BY <1>2, <2>2, <2>3, <2>4, <2>5 DEF UserNext
<1>3. ASSUME NEW w \in Workers, WorkerNext(w)
      PROVE  Model!Next
  <2>1. w \in Procs /\ Orders \subseteq Sns
    BY DEF Procs, Sns
  <2>2. ASSUME NEW s \in Orders, StartClose(w, s)
        PROVE  Model!Next
    BY <1>1, <2>1, <2>2 DEF StartClose
  <2>3. CASE CheckWaitPay(w)
    BY <2>1, <2>3 DEF CheckWaitPay, Model!Next
  <2>4. CASE CallCancel(w)
    <3>1. job[w].sn \in Sns
      BY <2>1, <2>4 DEF CallCancel, Runs, Types, Jobs
    <3>2. QED BY <1>1, <2>1, <2>4, <3>1 DEF CallCancel
  <2>5. QED BY <1>3, <2>2, <2>3, <2>4 DEF WorkerNext
<1>4. ASSUME NEW c \in Consumers, NEW m \in Messages, Consume(c, m)
      PROVE  Model!Next \/ UNCHANGED modelVars
  BY <1>1, <1>4, OrderServiceAssumption DEF Consume, Procs
<1>5. ASSUME NEW p \in Procs, UpdateNext(p)
      PROVE  Model!Next \/ UNCHANGED modelVars
  <2>1. CASE UpdateReturnEarly(p)
    BY <2>1 DEF UpdateReturnEarly, Model!Next
  <2>2. CASE UpdateBegin(p)
    <3>1. PICK v : Model!BeginUpdate(p, v)
      BY <2>2 DEF UpdateBegin
    <3>2. v \in TradeStates
      BY <3>1 DEF Model!BeginUpdate, OrderChanges
    <3>3. QED BY <3>1, <3>2 DEF Model!Next
  <2>3. CASE UpdateEnd(p)
    BY <2>3 DEF UpdateEnd, Model!Next, Model!CallStep
  <2>4. CASE EnqueueNotify(p)
    BY <2>4 DEF EnqueueNotify
  <2>5. QED BY <1>5, <2>1, <2>2, <2>3, <2>4 DEF UpdateNext
<1>6. ASSUME NEW p \in Procs, Step(p)
      PROVE  Model!Next
  BY <1>6 DEF Step, Model!Next, Model!CallStep
<1>7. ASSUME NEW p \in Procs, FailCall(p)
      PROVE  Model!Next \/ UNCHANGED modelVars
  BY <1>7 DEF FailCall, Model!Next
<1>8. ASSUME NEW m \in Messages, Publish(m)
      PROVE  UNCHANGED modelVars
  BY <1>8 DEF Publish
<1>9. CASE Cache
  BY <1>9 DEF Cache, Model!Next
<1>10. CASE UNCHANGED vars
  BY <1>10 DEF vars
<1>11. QED
  BY <1>2, <1>3, <1>4, <1>5, <1>6, <1>7, <1>8, <1>9, <1>10 DEF Next, ConsumerNext

LEMMA SameNext == [Model!Next]_(Model!vars) => [P!Next]_(P!vars)
BY DEF Model!Next, Model!vars, Model!procVars, Model!cacheVars, Model!CallStep,
       Model!CacheStep, Model!InsertRow, Model!Write, Model!Goto, Model!GetSn,
       Model!ShareSn, Model!ShareRow, Model!BeginUpdate, Model!Release,
       Model!Abandon, Model!Return, Model!Deliver, Model!DelNew, Model!SelectSn,
       Model!MarkAbsent, Model!SetRow, Model!SetSn, Model!GetRow, Model!SelectRow,
       Model!FillRow, Model!UpdateRow, Model!DelKeys, Model!DelLater,
       Model!CleanKeys, Model!ExpireRow, Model!ExpireSn,
       P!Next, P!vars, P!procVars, P!cacheVars, P!CallStep,
       P!CacheStep, P!InsertRow, P!Write, P!Goto, P!GetSn,
       P!ShareSn, P!ShareRow, P!BeginUpdate, P!Release,
       P!Abandon, P!Return, P!Deliver, P!DelNew, P!SelectSn,
       P!MarkAbsent, P!SetRow, P!SetSn, P!GetRow, P!SelectRow,
       P!FillRow, P!UpdateRow, P!DelKeys, P!DelLater,
       P!CleanKeys, P!ExpireRow, P!ExpireSn


LEMMA TypesInit == Init => Types
BY OrderServiceAssumption DEF Init, Types

LEMMA JobIsTyped ==
  ASSUME Types, NEW p \in Procs, job[p] # None
  PROVE  /\ job[p] \in Jobs /\ job[p].sn \in Sns /\ job[p].kind \in Kinds
         /\ job[p].to \in TradeStates \union {None}
         /\ job[p].msg \in Messages \union {None}
<1>1. job[p] \in Jobs
  BY DEF Types
<1>2. QED BY <1>1 DEF Jobs

\* What a handler becomes.
LEMMA JobBecomes ==
  ASSUME Types, NEW p \in Procs, NEW j \in Jobs \union {None}, SetJob(p, j)
  PROVE  job' \in [Procs -> Jobs \union {None}]
BY DEF Types, SetJob

LEMMA KindBecomes ==
  ASSUME NEW j \in Jobs, NEW k \in Kinds
  PROVE  [j EXCEPT !.kind = k] \in Jobs
BY DEF Jobs

LEMMA JobIsJob ==
  ASSUME NEW k \in Kinds, NEW s \in Sns, NEW to \in TradeStates \union {None},
         NEW m \in Messages \union {None}
  PROVE  Job(k, s, to, m) \in Jobs
BY DEF Job, Jobs

LEMMA AnswerIsTyped ==
  ASSUME Types, NEW p \in Procs, NEW ok, Answer(p, ok)
  PROVE  /\ job' \in [Procs -> Jobs \union {None}]
         /\ task' \in [Orders -> {"none", "scheduled", "active", "done"}]
         /\ topic' \in [Messages -> {"unsent", "pending", "taken", "done", "dropped"}]
<1>1. job' \in [Procs -> Jobs \union {None}]
  BY JobBecomes DEF Answer
<1>2. CASE job[p].msg = None
  BY <1>1, <1>2 DEF Answer, RetryTask, Types
<1>3. CASE job[p].msg # None
  BY <1>1, <1>3 DEF Answer, Types
<1>4. QED BY <1>2, <1>3

LEMMA FaultIsTyped ==
  ASSUME Types, Fault \/ UNCHANGED faults
  PROVE  faults' \in 0..MaxFaults
BY OrderServiceAssumption DEF Fault, Types

LEMMA TypesNext == Types /\ [Next]_vars => Types'
<1> SUFFICES ASSUME Types, [Next]_vars PROVE Types'
  OBVIOUS
<1>1. ASSUME NEW u \in Users, UserNext(u)
      PROVE  Types'
  <2>1. u \in Procs /\ Orders \subseteq Sns
    BY DEF Procs, Sns
  <2>2. ASSUME NEW s \in Orders, Create(u, s) \/ Detail(u, s)
        PROVE  Types'
    <3>1. Job("create", s, None, None) \in Jobs /\ Job("detail", s, None, None) \in Jobs
      BY <2>1, JobIsJob DEF Kinds
    <3>2. QED BY <2>1, <2>2, <3>1, JobBecomes DEF Create, Detail, Types
  <2>3. CASE EnqueueClose(u)
    BY <2>1, <2>3, JobBecomes, FaultIsTyped DEF EnqueueClose, Types
  <2>4. CASE DetailReturn(u)
    BY <2>1, <2>4, JobBecomes DEF DetailReturn, Types
  <2>5. CASE DelNewLater(u)
    BY <2>1, <2>5, FaultIsTyped DEF DelNewLater, Types
  <2>6. QED BY <1>1, <2>2, <2>3, <2>4, <2>5 DEF UserNext
<1>2. ASSUME NEW w \in Workers, WorkerNext(w)
      PROVE  Types'
  <2>1. w \in Procs /\ Orders \subseteq Sns
    BY DEF Procs, Sns
  <2>2. ASSUME NEW s \in Orders, StartClose(w, s)
        PROVE  Types'
    <3>1. Job("check", s, None, None) \in Jobs
      BY <2>1, JobIsJob DEF Kinds
    <3>2. QED BY <2>1, <2>2, <3>1, JobBecomes DEF StartClose, Types
  <2>3. CASE CheckWaitPay(w)
    <3>1. job[w].sn \in Sns
      BY <2>1, <2>3, JobIsTyped DEF CheckWaitPay, Runs
    <3>2. Job("close", job[w].sn, Cancel, None) \in Jobs
      BY <3>1, JobIsJob DEF Kinds, TradeStates
    <3>3. job' \in [Procs -> Jobs \union {None}]
      BY <2>1, <2>3, <3>2, JobBecomes DEF CheckWaitPay
    <3>4. QED BY <2>3, <3>3 DEF CheckWaitPay, Types
  <2>4. CASE CallCancel(w)
    <3>1. [job[w] EXCEPT !.kind = "update"] \in Jobs
      BY <2>1, <2>4, JobIsTyped, KindBecomes DEF CallCancel, Runs, Kinds
    <3>2. QED BY <2>1, <2>4, <3>1, JobBecomes DEF CallCancel, Types
  <2>5. QED BY <1>2, <2>2, <2>3, <2>4 DEF WorkerNext
<1>3. ASSUME NEW c \in Consumers, NEW m \in Messages, Consume(c, m)
      PROVE  Types'
  <2> DEFINE to == getOrderTradeStateByPaymentTradeState(m.pay)
  <2>1. c \in Procs /\ m.sn \in Sns
    BY OrderServiceAssumption DEF Procs
  <2>2. CASE to = Ignored
    BY <1>3, <2>2 DEF Consume, Types
  <2>3. CASE to # Ignored
    <3>1. to \in TradeStates
      BY <2>3 DEF getOrderTradeStateByPaymentTradeState, TradeStates
    <3>2. Job("update", m.sn, to, m) \in Jobs
      BY <2>1, <3>1, JobIsJob DEF Kinds
    <3>3. QED BY <1>3, <2>1, <2>3, <3>2, JobBecomes DEF Consume, Types
  <2>4. QED BY <2>2, <2>3
<1>4. ASSUME NEW p \in Procs, UpdateNext(p)
      PROVE  Types'
  <2>1. ASSUME NEW ok, Answer(p, ok), notify' \in [Orders -> Nat],
               Fault \/ UNCHANGED faults
        PROVE  Types'
    BY <2>1, AnswerIsTyped, FaultIsTyped DEF Types
  <2>2. CASE UpdateReturnEarly(p)
    BY <2>1, <2>2 DEF UpdateReturnEarly, Types
  <2>3. CASE UpdateBegin(p)
    BY <2>3 DEF UpdateBegin, Types
  <2>4. CASE UpdateEnd(p)
    <3>1. CASE won[p] /\ job[p].to = WaitUse
      <4>1. [job[p] EXCEPT !.kind = "notify"] \in Jobs
        BY <2>4, JobIsTyped, KindBecomes DEF UpdateEnd, Runs, Kinds
      <4>2. QED BY <2>4, <3>1, <4>1, JobBecomes, FaultIsTyped DEF UpdateEnd, Types
    <3>2. CASE ~(won[p] /\ job[p].to = WaitUse)
      BY <2>1, <2>4, <3>2 DEF UpdateEnd, Types
    <3>3. QED BY <3>1, <3>2
  <2>5. CASE EnqueueNotify(p)
    <3>1. notify' \in [Orders -> Nat]
      BY <2>5 DEF EnqueueNotify, Types
    <3>2. QED BY <2>1, <2>5, <3>1 DEF EnqueueNotify
  <2>6. QED BY <1>4, <2>2, <2>3, <2>4, <2>5 DEF UpdateNext
<1>5. ASSUME NEW p \in Procs, Step(p)
      PROVE  Types'
  BY <1>5 DEF Step, Types
<1>6. ASSUME NEW p \in Procs, FailCall(p)
      PROVE  Types'
  <2>1. job' \in [Procs -> Jobs \union {None}] /\ faults' \in 0..MaxFaults
    BY <1>6, JobBecomes, FaultIsTyped DEF FailCall
  <2>2. QED BY <1>6, <2>1 DEF FailCall, RetryTask, Types
<1>7. ASSUME NEW m \in Messages, Publish(m)
      PROVE  Types'
  BY <1>7 DEF Publish, Types
<1>8. CASE Cache \/ UNCHANGED vars
  BY <1>8 DEF Cache, vars, Types
<1>9. QED
  BY <1>1, <1>2, <1>3, <1>4, <1>5, <1>6, <1>7, <1>8 DEF Next, ConsumerNext

LEMMA TypesHold == Spec => []Types
BY TypesInit, TypesNext, PTL DEF Spec

\* So what is proved of the model holds of the service.
LEMMA ModelInv == Spec => []P!Inv
<1>1. Init => P!Init
  BY DEF Init, Model!Init, P!Init
<1>2. Types /\ [Next]_vars => [P!Next]_(P!vars)
  BY StepOfModel, SameNext
<1>3. P!Spec => []P!Inv
  BY ModelAssumption, P!InvHolds, PTL
<1>4. Spec => P!Spec
  BY <1>1, <1>2, TypesHold, PTL DEF Spec, P!Spec
<1>5. QED BY <1>3, <1>4, PTL

-----------------------------------------------------------------------------
(* How handlers move                                                       *)

\* A step of the life of one order, or of none.
Lives == Life!Next \/ UNCHANGED Life!vars

\* What is shown of every step.
Advances == ServiceInv' /\ Lives

\* The call of q does not move.
Same(q) ==
  /\ job'[q] = job[q]
  /\ pc'[q] = pc[q] /\ sn'[q] = sn[q] /\ want'[q] = want[q] /\ won'[q] = won[q]

\* It moves, without a right it did not have.
Moved(q) ==
  JobShape(q)' /\ \A s \in Orders : Winner(q, s)' => Winner(q, s)

TaskMoves(s) ==
  \/ task'[s] = task[s]
  \/ db[s] # None /\ (task'[s] = "done" => Decided(s))

MessageMoves(m) ==
  \/ topic'[m] = topic[m]
  \/ m.sn \in Orders =>
       /\ db[m.sn] # None
       /\ topic'[m] = "dropped" /\ faults' = 0 /\ m.pay = PaySuccess => Decided(m.sn)

\* No order is marked as absent.
NoneAbsent == \A s \in Orders : snKey'[s] = "absent" => snKey[s] = "absent"

\* A step that writes no order and announces none.
LEMMA QuietStep ==
  ASSUME ServiceInv, Types', \A q \in Procs : Same(q) \/ Moved(q),
         UNCHANGED <<db, committed, notify>>, NoneAbsent,
         \A s \in Orders : TaskMoves(s),
         \A m \in Messages : MessageMoves(m),
         faults' = 0 => faults = 0
  PROVE  ServiceInv'
<1>1. ASSUME NEW q \in Procs
      PROVE  JobShape(q)'
  <2>1. CASE Same(q)
    BY <2>1 DEF ServiceInv, JobShape, Same, Decided
  <2>2. CASE Moved(q)
    BY <2>2 DEF Moved
  <2>3. QED BY <2>1, <2>2
<1>2. \A q \in Procs, s \in Orders : Winner(q, s)' => Winner(q, s)
  BY DEF Winner, Same, Moved
<1>3. ASSUME NEW s \in Orders
      PROVE  OrderInv(s)'
  <2>1. Paid(s)' = Paid(s) /\ Decided(s)' = Decided(s) /\ OrderInv(s)
    BY DEF Paid, Decided, ServiceInv
  <2>2. (task'[s] # "none" => db'[s] # None) /\ (task'[s] = "done" => Decided(s)')
    BY <2>1 DEF OrderInv, TaskMoves
  <2>3. snKey'[s] # "absent"
    BY <2>1 DEF OrderInv, NoneAbsent
  <2>4. QED BY <1>2, <2>1, <2>2, <2>3 DEF OrderInv
<1>4. ASSUME NEW m \in Messages
      PROVE  MessageInv(m)'
  <2>1. MessageInv(m) /\ MessageMoves(m)
    BY DEF ServiceInv
  <2>2. QED BY <2>1 DEF MessageInv, MessageMoves, Decided
<1>5. QED BY <1>1, <1>3, <1>4 DEF ServiceInv

\* A step that no handler takes.
LEMMA IdleStep ==
  ASSUME ServiceInv, Types', \A q \in Procs : Same(q),
         UNCHANGED <<db, committed, notify>>, NoneAbsent,
         \A s \in Orders : TaskMoves(s),
         \A m \in Messages : MessageMoves(m),
         faults' = 0 => faults = 0
  PROVE  Advances
<1>1. ServiceInv'
  BY QuietStep
<1>2. OrderState' = OrderState
  BY DEF OrderState
<1>3. \A q \in Procs, s \in Orders : Winner(q, s)' = Winner(q, s)
  BY DEF Winner, Same
<1>4. Owed' = Owed
  BY <1>3 DEF Owed
<1>5. QED BY <1>1, <1>2, <1>4 DEF Advances, Lives, Life!vars

\* A handler that writes and announces nothing: should it give up the right to
\* announce an order, that order is not announced.
LEMMA HandlerLives ==
  ASSUME NEW p \in Procs, Moved(p), \A q \in Procs : q # p => Same(q),
         UNCHANGED <<db, notify>>
  PROVE  Lives
<1>1. OrderState' = OrderState
  BY DEF OrderState
<1>2. \A q \in Procs, s \in Orders : q # p => Winner(q, s)' = Winner(q, s)
  BY DEF Winner, Same
<1>3. Owed' \subseteq Owed
  BY <1>2 DEF Owed, Moved
<1>4. CASE Owed' = Owed
  BY <1>1, <1>4 DEF Lives, Life!vars
<1>5. CASE Owed' # Owed
  <2>1. PICK s \in Owed : s \notin Owed'
    BY <1>3, <1>5
  <2>2. s \in Orders /\ Winner(p, s)
    BY <1>2, <2>1 DEF Owed
  <2>3. \A t \in Orders : t # s => ~Winner(p, t)
    BY <2>2 DEF Winner
  <2>4. Owed' = Owed \ {s}
    BY <1>2, <1>3, <2>1, <2>3 DEF Owed
  <2>5. Life!Fail(s)
    BY <1>1, <2>1, <2>4 DEF Life!Fail
  <2>6. QED BY <2>2, <2>5 DEF Lives, Life!Next
<1>6. QED BY <1>4, <1>5

\* The steps of one handler.
LEMMA HandlerStep ==
  ASSUME ServiceInv, Types', NEW p \in Procs, Moved(p),
         \A q \in Procs : q # p => Same(q),
         UNCHANGED <<db, committed, notify>>, NoneAbsent,
         \A s \in Orders : TaskMoves(s),
         \A m \in Messages : MessageMoves(m),
         faults' = 0 => faults = 0
  PROVE  Advances
<1>1. \A q \in Procs : Same(q) \/ Moved(q)
  OBVIOUS
<1>2. ServiceInv'
  BY <1>1, QuietStep
<1>3. Lives
  BY HandlerLives
<1>4. QED BY <1>2, <1>3 DEF Advances

LEMMA SetJobIs ==
  ASSUME Types, NEW p \in Procs, NEW j, SetJob(p, j)
  PROVE  job'[p] = j /\ \A q \in Procs : q # p => job'[q] = job[q]
BY DEF Types, SetJob

LEMMA NewJobIs ==
  ASSUME Types, NEW p \in Procs,
         NEW k \in Kinds, NEW s \in Sns, NEW to \in TradeStates \union {None},
         NEW m \in Messages \union {None}, SetJob(p, Job(k, s, to, m))
  PROVE  /\ job'[p] # None
         /\ job'[p].kind = k /\ job'[p].sn = s /\ job'[p].to = to /\ job'[p].msg = m
         /\ \A q \in Procs : q # p => job'[q] = job[q]
<1>1. job'[p] = Job(k, s, to, m) /\ \A q \in Procs : q # p => job'[q] = job[q]
  BY SetJobIs
<1>2. job'[p] # None
  BY <1>1, JobIsJob, OrderServiceAssumption
<1>3. QED BY <1>1, <1>2 DEF Job

\* A handler goes on to its next kind of work.
LEMMA NextKind ==
  ASSUME Types, NEW p \in Procs, job[p] # None, NEW k \in Kinds,
         SetJob(p, [job[p] EXCEPT !.kind = k])
  PROVE  /\ job'[p] # None /\ job'[p].kind = k
         /\ job'[p].sn = job[p].sn /\ job'[p].to = job[p].to
         /\ job'[p].msg = job[p].msg
         /\ \A q \in Procs : q # p => job'[q] = job[q]
<1>1. job[p] \in Jobs
  BY JobIsTyped
<1>2. [job[p] EXCEPT !.kind = k] \in Jobs
  BY <1>1, KindBecomes
<1>3. job'[p] = [job[p] EXCEPT !.kind = k]
  BY SetJobIs
<1>4. /\ job'[p].kind = k /\ job'[p].sn = job[p].sn /\ job'[p].to = job[p].to
      /\ job'[p].msg = job[p].msg
  BY <1>1, <1>3 DEF Jobs
<1>5. QED BY <1>2, <1>3, <1>4, SetJobIs, OrderServiceAssumption

\* A call of the model ends.
LEMMA ReturnIs ==
  ASSUME P!TypeOK, NEW p \in Procs, Model!Return(p),
         \A q \in Procs : q # p => job'[q] = job[q]
  PROVE  /\ pc'[p] = "idle" /\ want'[p] = None /\ won'[p] = FALSE
         /\ \A q \in Procs : q # p => Same(q)
BY DEF P!TypeOK, Model!Return, Model!Goto, Same

\* A lookup begins; an order is not answered to be absent.
LEMMA LookupIs ==
  ASSUME P!Inv, ServiceInv, NEW p \in Procs, NEW s \in Sns, Lookup(p, s),
         \A q \in Procs : q # p => job'[q] = job[q]
  PROVE  /\ pc[p] = "idle" /\ pc'[p] \in {"selectSn", "getRow", "notFound"}
         /\ pc'[p] = "notFound" => s \notin Orders
         /\ sn'[p] = s /\ want' = want /\ won' = won /\ want[p] = None /\ ~won[p]
         /\ \A q \in Procs : q # p => Same(q)
         /\ UNCHANGED <<db, committed, snKey>>
<1>1. P!TypeOK
  BY DEF P!Inv, P!Shape
<1>2. pc[p] = "idle" => want[p] = None /\ ~won[p]
  BY DEF P!Inv, P!Shape, P!CallShape, P!OneShape
<1>3. CASE Model!GetSn(p, s)
  <2>1. s \in Orders => snKey[s] # "absent"
    BY DEF ServiceInv, OrderInv
  <2>2. QED
    BY <1>1, <1>2, <1>3, <2>1 DEF P!TypeOK, Model!GetSn, Model!Goto, Model!cacheVars, Same
<1>4. ASSUME NEW q \in Procs, Model!ShareSn(p, q), sn'[p] = s
      PROVE  /\ pc[p] = "idle" /\ pc'[p] \in {"selectSn", "getRow", "notFound"}
             /\ pc'[p] = "notFound" => s \notin Orders
             /\ sn'[p] = s /\ want' = want /\ won' = won
             /\ \A r \in Procs : r # p => Same(r)
             /\ UNCHANGED <<db, committed, snKey>>
  <2>1. sn[q] = s
    BY <1>1, <1>4 DEF Model!ShareSn, P!TypeOK
  <2>2. pc[q] = "markAbsent" => s \notin Orders
    BY <2>1 DEF ServiceInv, JobShape
  <2>3. pc'[p] = "notFound" => pc[q] = "markAbsent"
    BY <1>1, <1>4 DEF Model!ShareSn, Model!Goto, P!TypeOK
  <2>4. QED
    BY <1>1, <1>4, <2>2, <2>3
       DEF P!TypeOK, Model!ShareSn, Model!Goto, Model!cacheVars, Same
<1>5. QED BY <1>2, <1>3, <1>4 DEF Lookup

LEMMA FaultsGrow ==
  ASSUME Types, Fault \/ UNCHANGED faults
  PROVE  (faults' = 0 => faults = 0) /\ (Fault => faults' # 0)
BY OrderServiceAssumption DEF Types, Fault

\* What an answer to an update does to asynq and Kafka.
LEMMA AnswerIs ==
  ASSUME ServiceInv, NEW p \in Procs, job[p] # None, NEW ok \in BOOLEAN, Answer(p, ok),
         job[p].sn \in Orders =>
           /\ ok /\ job[p].msg = None => Decided(job[p].sn)
           /\ ~ok /\ job[p].msg # None /\ job[p].msg.pay = PaySuccess
                => Decided(job[p].sn)
  PROVE  /\ job'[p] = None /\ \A q \in Procs : q # p => job'[q] = job[q]
         /\ \A s \in Orders : TaskMoves(s)
         /\ \A m \in Messages : MessageMoves(m)
<1>1. Types /\ JobShape(p)
  BY DEF ServiceInv
<1>2. job'[p] = None /\ \A q \in Procs : q # p => job'[q] = job[q]
  BY <1>1, SetJobIs DEF Answer
<1>3. job[p].sn \in Orders => db[job[p].sn] # None
  BY <1>1 DEF JobShape
<1>4. ASSUME NEW s \in Orders
      PROVE  TaskMoves(s)
  BY <1>1, <1>3 DEF Answer, RetryTask, TaskMoves, Types
<1>5. ASSUME NEW m \in Messages
      PROVE  MessageMoves(m)
  <2>1. CASE topic'[m] = topic[m]
    BY <2>1 DEF MessageMoves
  <2>2. CASE topic'[m] # topic[m]
    <3>1. /\ job[p].msg # None /\ m = job[p].msg
          /\ topic'[m] = "dropped" => ~ok
      BY <1>1, <2>2 DEF Answer, Types
    <3>2. m.sn = job[p].sn
      BY <1>1, <3>1 DEF JobShape
    <3>3. QED BY <1>3, <3>1, <3>2 DEF MessageMoves
  <2>3. QED BY <2>1, <2>2
<1>6. QED BY <1>2, <1>4, <1>5

-----------------------------------------------------------------------------
(* The handlers keep the invariant                                         *)

LEMMA CreateKeeps ==
  ASSUME P!Inv, ServiceInv, Types', NEW u \in Procs, NEW s \in Orders, Create(u, s)
  PROVE  Advances
<1> DEFINE new == [version |-> 0, val |-> WaitPay]
<1>1. /\ Types /\ P!TypeOK /\ s \in Sns /\ job[u] = None /\ pc[u] = "idle"
      /\ db[s] = None /\ committed[s] = {}
      /\ UNCHANGED <<snKey, task, notify, topic, faults>>
  BY DEF Sns, ServiceInv, P!Inv, P!Shape, P!AbsentIsNew, Create, Model!InsertRow,
         Model!cacheVars
<1>2. new # None
  <2>1. new \in Model!Row
    BY DEF Model!Row, TradeStates
  <2>2. QED BY <2>1, OrderServiceAssumption
<1>3. /\ db' = [db EXCEPT ![s] = new] /\ committed' = [committed EXCEPT ![s] = {new}]
      /\ pc' = [pc EXCEPT ![u] = "delNew"] /\ sn' = [sn EXCEPT ![u] = s]
      /\ want' = want /\ won' = won
  BY <1>1 DEF Create, Model!InsertRow, Model!Write, Model!Goto
<1>4. /\ job'[u] # None /\ job'[u].kind = "create" /\ job'[u].sn = s
      /\ job'[u].msg = None /\ \A q \in Procs : q # u => job'[q] = job[q]
  BY <1>1, NewJobIs DEF Create, Kinds
<1>5. pc'[u] = "delNew" /\ sn'[u] = s /\ \A q \in Procs : q # u => Same(q)
  BY <1>1, <1>3, <1>4 DEF P!TypeOK, Same
<1>6. want[u] = None /\ ~won[u]
  BY <1>1 DEF P!Inv, P!Shape, P!CallShape, P!OneShape
<1>7. db'[s] = new /\ committed'[s] = {new}
  BY <1>1, <1>3 DEF P!TypeOK
<1>8. \A t \in Sns : t # s => db'[t] = db[t] /\ committed'[t] = committed[t]
  BY <1>1, <1>3 DEF P!TypeOK
<1>9. \A t \in Sns : /\ db[t] # None => t # s
                     /\ db[t] # None => db'[t] # None
                     /\ Decided(t) => Decided(t)'
                     /\ Paid(t) => Paid(t)'
  BY <1>1, <1>8 DEF Decided, Paid
<1>10. ASSUME NEW q \in Procs
       PROVE  JobShape(q)'
  <2>1. CASE q = u
    BY <1>2, <1>3, <1>4, <1>5, <1>6, <1>7, <2>1 DEF JobShape
  <2>2. CASE q # u
    <3>1. job[q] # None => job[q].sn \in Sns
      BY <1>1, JobIsTyped
    <3>2. QED BY <1>5, <1>9, <2>2, <3>1 DEF ServiceInv, JobShape, Same
  <2>3. QED BY <2>1, <2>2
<1>11. \A q \in Procs, t \in Orders : Winner(q, t)' => Winner(q, t)
  BY <1>4, <1>5 DEF Winner, Same
<1>12. /\ \A q \in Procs : ~Winner(q, s)
       /\ notify[s] = 0 /\ task[s] = "none" /\ snKey[s] # "absent"
  BY <1>1 DEF ServiceInv, OrderInv, Paid
<1>13. ASSUME NEW t \in Orders
       PROVE  OrderInv(t)'
  <2>1. CASE t = s
    <3>1. \A r \in committed'[t] : (r.val = WaitPay) <=> (r.version = 0)
      BY <1>7, <2>1
    <3>2. QED BY <1>1, <1>11, <1>12, <2>1, <3>1 DEF OrderInv
  <2>2. CASE t # s
    <3>1. t \in Sns /\ committed'[t] = committed[t] /\ OrderInv(t)
      BY <1>8, <2>2 DEF Sns, ServiceInv
    <3>2. QED BY <1>1, <1>9, <1>11, <3>1 DEF OrderInv
  <2>3. QED BY <2>1, <2>2
<1>14. ASSUME NEW m \in Messages
       PROVE  MessageInv(m)'
  <2>1. m.sn \in Sns /\ MessageInv(m)
    BY OrderServiceAssumption DEF ServiceInv
  <2>2. QED BY <1>1, <1>9, <2>1 DEF MessageInv
<1>15. \A t \in Sns : db'[t] # None => t \in Orders
  BY <1>8 DEF ServiceInv
<1>16. Life!Begin(s)
  <2>1. OrderState[s] = None /\ OrderState' = [OrderState EXCEPT ![s] = WaitPay]
    <3>1. db'[s] # None /\ db'[s].val = WaitPay
      BY <1>2, <1>7
    <3>2. \A t \in Orders : t # s => db'[t] = db[t]
      BY <1>8 DEF Sns
    <3>3. QED BY <1>1, <3>1, <3>2 DEF OrderState
  <2>2. \A q \in Procs, t \in Orders : Winner(q, t) => Winner(q, t)'
    BY <1>1, <1>5 DEF Winner, Same
  <2>3. Owed' = Owed
    BY <1>11, <2>2 DEF Owed
  <2>4. QED BY <1>1, <2>1, <2>3 DEF Life!Begin
<1>17. ServiceInv'
  BY <1>1, <1>10, <1>13, <1>14, <1>15 DEF ServiceInv
<1>18. QED BY <1>16, <1>17 DEF Advances, Lives, Life!Next

LEMMA EnqueueCloseKeeps ==
  ASSUME P!Inv, ServiceInv, Types', NEW u \in Procs, EnqueueClose(u)
  PROVE  Advances
<1>1. /\ Types /\ job[u] # None /\ pc[u] = "idle"
      /\ UNCHANGED <<db, committed, snKey, pc, sn, want, won, notify, topic>>
  BY DEF ServiceInv, EnqueueClose, Runs, modelVars
<1>2. job'[u] = None /\ \A q \in Procs : q # u => job'[q] = job[q]
  BY <1>1, SetJobIs DEF EnqueueClose
<1>3. Moved(u) /\ \A q \in Procs : q # u => Same(q)
  BY <1>1, <1>2 DEF Moved, JobShape, Winner, Same
<1>4. job[u].sn \in Orders => db[job[u].sn] # None
  BY <1>1 DEF ServiceInv, JobShape
<1>5. \A s \in Orders : TaskMoves(s)
  BY <1>1, <1>4 DEF EnqueueClose, TaskMoves, Types
<1>6. faults' = 0 => faults = 0
  BY <1>1, FaultsGrow DEF EnqueueClose
<1>7. QED BY <1>1, <1>3, <1>5, <1>6, HandlerStep DEF NoneAbsent, MessageMoves

LEMMA DetailKeeps ==
  ASSUME P!Inv, ServiceInv, Types', NEW u \in Procs, NEW s \in Orders, Detail(u, s)
  PROVE  Advances
<1>1. Types /\ s \in Sns /\ db[s] # None /\ UNCHANGED <<task, notify, topic, faults>>
  BY DEF ServiceInv, Sns, Detail
<1>2. /\ job'[u] # None /\ job'[u].kind = "detail" /\ job'[u].sn = s
      /\ job'[u].msg = None /\ \A q \in Procs : q # u => job'[q] = job[q]
  BY <1>1, NewJobIs DEF Detail, Kinds
<1>3. /\ pc[u] = "idle" /\ pc'[u] \in {"selectSn", "getRow", "notFound"}
      /\ pc'[u] = "notFound" => s \notin Orders
      /\ sn'[u] = s /\ want' = want /\ won' = won /\ want[u] = None /\ ~won[u]
      /\ \A q \in Procs : q # u => Same(q)
      /\ UNCHANGED <<db, committed, snKey>>
  BY <1>1, <1>2, LookupIs DEF Detail
<1>4. Moved(u)
  BY <1>1, <1>2, <1>3 DEF Moved, JobShape, Winner
<1>5. QED BY <1>1, <1>3, <1>4, HandlerStep DEF NoneAbsent, TaskMoves, MessageMoves

LEMMA DetailReturnKeeps ==
  ASSUME P!Inv, ServiceInv, Types', NEW u \in Procs, DetailReturn(u)
  PROVE  Advances
<1>1. /\ Types /\ P!TypeOK /\ Model!Return(u)
      /\ UNCHANGED <<db, committed, snKey, task, notify, topic, faults>>
  BY DEF ServiceInv, P!Inv, P!Shape, DetailReturn, Model!Release, Model!cacheVars
<1>2. job'[u] = None /\ \A q \in Procs : q # u => job'[q] = job[q]
  BY <1>1, SetJobIs DEF DetailReturn
<1>3. pc'[u] = "idle" /\ \A q \in Procs : q # u => Same(q)
  BY <1>1, <1>2, ReturnIs
<1>4. Moved(u)
  BY <1>2, <1>3 DEF Moved, JobShape, Winner
<1>5. QED BY <1>1, <1>3, <1>4, HandlerStep DEF NoneAbsent, TaskMoves, MessageMoves

\* The call of a creator returns: its job stays, for the enqueue.
LEMMA CreateReturns ==
  ASSUME P!Inv, ServiceInv, Types', NEW u \in Procs, pc[u] = "delNew",
         Model!Return(u), NoneAbsent, Fault \/ UNCHANGED faults,
         UNCHANGED <<db, committed, job, task, notify, topic>>
  PROVE  Advances
<1>1. Types /\ P!TypeOK /\ job[u] # None /\ ~won[u]
  BY DEF ServiceInv, JobShape, P!Inv, P!Shape, P!CallShape, P!OneShape
<1>2. /\ pc'[u] = "idle" /\ want'[u] = None /\ won'[u] = FALSE
      /\ \A q \in Procs : q # u => Same(q)
  BY <1>1, ReturnIs
<1>3. JobShape(u)'
  BY <1>1, <1>2 DEF ServiceInv, JobShape, Decided
<1>4. Moved(u)
  BY <1>2, <1>3 DEF Moved, Winner
<1>5. faults' = 0 => faults = 0
  BY <1>1, FaultsGrow
<1>6. QED BY <1>2, <1>4, <1>5, HandlerStep DEF TaskMoves, MessageMoves

LEMMA DelNewLaterKeeps ==
  ASSUME P!Inv, ServiceInv, Types', NEW u \in Procs, DelNewLater(u)
  PROVE  Advances
BY CreateReturns DEF DelNewLater, Model!DelLater, NoneAbsent

LEMMA StartCloseKeeps ==
  ASSUME P!Inv, ServiceInv, Types', NEW w \in Procs, NEW s \in Orders, StartClose(w, s)
  PROVE  Advances
<1>1. Types /\ s \in Sns /\ task[s] = "scheduled" /\ UNCHANGED <<notify, topic, faults>>
  BY DEF ServiceInv, Sns, StartClose
<1>2. db[s] # None
  BY <1>1 DEF ServiceInv, OrderInv
<1>3. /\ job'[w] # None /\ job'[w].kind = "check" /\ job'[w].sn = s
      /\ job'[w].msg = None /\ \A q \in Procs : q # w => job'[q] = job[q]
  BY <1>1, NewJobIs DEF StartClose, Kinds
<1>4. /\ pc[w] = "idle" /\ pc'[w] \in {"selectSn", "getRow", "notFound"}
      /\ pc'[w] = "notFound" => s \notin Orders
      /\ sn'[w] = s /\ want' = want /\ won' = won /\ want[w] = None /\ ~won[w]
      /\ \A q \in Procs : q # w => Same(q)
      /\ UNCHANGED <<db, committed, snKey>>
  BY <1>1, <1>3, LookupIs DEF StartClose
<1>5. Moved(w)
  BY <1>2, <1>3, <1>4 DEF Moved, JobShape, Winner
<1>6. \A t \in Orders : TaskMoves(t)
  BY <1>1, <1>2 DEF StartClose, TaskMoves, Types
<1>7. QED BY <1>1, <1>4, <1>5, <1>6, HandlerStep DEF NoneAbsent, MessageMoves

\* The row of version 0 is the only one that waits for payment.
LEMMA LaterIsDecided ==
  ASSUME P!Inv, ServiceInv, NEW s \in Orders, NEW r \in committed[s],
         r.val # WaitPay
  PROVE  Decided(s)
<1>1. r \in P!Row /\ r.version # 0 /\ committed[s] \subseteq P!Row
  BY DEF ServiceInv, OrderInv, P!Inv, P!Shape, P!TypeOK, Sns
<1>2. db[s] # None /\ db[s] \in committed[s] /\ r.version <= db[s].version
  BY DEF P!Inv, P!AbsentIsNew, P!SnapshotsCommitted, P!VersionDeterminesRow, Sns
<1>3. db[s].version # 0
  BY <1>1, <1>2 DEF P!Row
<1>4. QED BY <1>2, <1>3 DEF ServiceInv, OrderInv, Decided

\* So a handler whose copy does not wait knows that the order does not either.
LEMMA HeldIsDecided ==
  ASSUME P!Inv, ServiceInv, NEW p \in Procs, job[p] # None, pc[p] = "held",
         data[p].val # WaitPay
  PROVE  Decided(job[p].sn)
<1>1. /\ sn[p] \in Sns /\ db[sn[p]] # None /\ data[p] \in committed[sn[p]]
  BY DEF P!Inv, P!Shape, P!CallShape, P!OneShape, P!SnapshotsCommitted
<1>2. sn[p] = job[p].sn
  BY DEF ServiceInv, JobShape
<1>3. sn[p] \in Orders
  BY <1>1 DEF ServiceInv
<1>4. QED BY <1>1, <1>2, <1>3, LaterIsDecided

LEMMA CheckWaitPayKeeps ==
  ASSUME P!Inv, ServiceInv, Types', NEW w \in Procs, CheckWaitPay(w)
  PROVE  Advances
<1>1. /\ Types /\ P!TypeOK /\ Model!Return(w) /\ job[w] # None /\ pc[w] = "held"
      /\ UNCHANGED <<db, committed, snKey, notify, topic, faults>>
  BY DEF ServiceInv, P!Inv, P!Shape, CheckWaitPay, Runs, Model!Release, Model!cacheVars
<1>2. job[w].sn \in Sns /\ (job[w].sn \in Orders => db[job[w].sn] # None)
  BY <1>1, JobIsTyped DEF ServiceInv, JobShape
<1>3. CASE data[w].val = WaitPay
  <2>1. SetJob(w, Job("close", job[w].sn, Cancel, None)) /\ task' = task
    BY <1>3 DEF CheckWaitPay
  <2>2. Cancel \in TradeStates \ {WaitPay}
    BY DEF TradeStates, Cancel, WaitPay
  <2>3. /\ job'[w] # None /\ job'[w].kind = "close" /\ job'[w].sn = job[w].sn
        /\ job'[w].to = Cancel /\ job'[w].msg = None
        /\ \A q \in Procs : q # w => job'[q] = job[q]
    BY <1>1, <1>2, <2>1, <2>2, NewJobIs DEF Kinds
  <2>4. pc'[w] = "idle" /\ want'[w] = None /\ \A q \in Procs : q # w => Same(q)
    BY <1>1, <2>3, ReturnIs
  <2>5. Moved(w)
    BY <1>1, <1>2, <2>2, <2>3, <2>4 DEF Moved, JobShape, Winner
  <2>6. QED BY <1>1, <2>1, <2>4, <2>5, HandlerStep DEF NoneAbsent, TaskMoves, MessageMoves
<1>4. CASE data[w].val # WaitPay
  <2>1. job'[w] = None /\ \A q \in Procs : q # w => job'[q] = job[q]
    BY <1>1, <1>4, SetJobIs DEF CheckWaitPay
  <2>2. pc'[w] = "idle" /\ \A q \in Procs : q # w => Same(q)
    BY <1>1, <2>1, ReturnIs
  <2>3. Moved(w)
    BY <2>1, <2>2 DEF Moved, JobShape, Winner
  <2>4. Decided(job[w].sn)
    BY <1>1, <1>4, HeldIsDecided
  <2>5. \A s \in Orders : TaskMoves(s)
    BY <1>1, <1>4, <2>4 DEF CheckWaitPay, TaskMoves, Types, Decided
  <2>6. QED BY <1>1, <2>2, <2>3, <2>5, HandlerStep DEF NoneAbsent, MessageMoves
<1>5. QED BY <1>3, <1>4

LEMMA CallCancelKeeps ==
  ASSUME P!Inv, ServiceInv, Types', NEW w \in Procs, CallCancel(w)
  PROVE  Advances
<1>1. /\ Types /\ job[w] # None /\ job[w].kind = "close" /\ job[w].sn \in Sns
      /\ UNCHANGED <<task, notify, topic, faults>>
  BY JobIsTyped DEF ServiceInv, CallCancel, Runs
<1>2. /\ job'[w] # None /\ job'[w].kind = "update" /\ job'[w].sn = job[w].sn
      /\ job'[w].to = job[w].to /\ job'[w].msg = job[w].msg
      /\ \A q \in Procs : q # w => job'[q] = job[q]
  BY <1>1, NextKind DEF CallCancel, Kinds
<1>3. /\ pc'[w] \in {"selectSn", "getRow", "notFound"}
      /\ pc'[w] = "notFound" => job[w].sn \notin Orders
      /\ sn'[w] = job[w].sn /\ want' = want /\ won' = won /\ want[w] = None /\ ~won[w]
      /\ \A q \in Procs : q # w => Same(q)
      /\ UNCHANGED <<db, committed, snKey>>
  BY <1>1, <1>2, LookupIs DEF CallCancel
<1>4. JobShape(w)'
  BY <1>1, <1>2, <1>3 DEF ServiceInv, JobShape
<1>5. Moved(w)
  BY <1>2, <1>3, <1>4 DEF Moved, Winner
<1>6. QED BY <1>1, <1>3, <1>5, HandlerStep DEF NoneAbsent, TaskMoves, MessageMoves

LEMMA PublishKeeps ==
  ASSUME ServiceInv, Types', NEW m \in Messages, Publish(m)
  PROVE  Advances
<1>1. /\ Types /\ UNCHANGED <<db, committed, snKey, pc, sn, want, won, job, task, notify, faults>>
  BY DEF ServiceInv, Publish, modelVars
<1>2. \A n \in Messages : MessageMoves(n)
  BY <1>1 DEF Publish, MessageMoves, Types
<1>3. QED BY <1>1, <1>2, IdleStep DEF Same, NoneAbsent, TaskMoves

LEMMA ConsumeKeeps ==
  ASSUME P!Inv, ServiceInv, Types', NEW c \in Procs, NEW m \in Messages, Consume(c, m)
  PROVE  Advances
<1> DEFINE to == getOrderTradeStateByPaymentTradeState(m.pay)
<1>1. /\ Types /\ m.sn \in Sns /\ topic[m] = "pending"
      /\ UNCHANGED <<task, notify, faults>>
  BY OrderServiceAssumption DEF ServiceInv, Consume
<1>2. m.sn \in Orders => db[m.sn] # None
  BY <1>1 DEF ServiceInv, MessageInv
<1>3. CASE to = Ignored
  <2>1. /\ UNCHANGED <<db, committed, snKey, pc, sn, want, won, job>>
        /\ topic' = [topic EXCEPT ![m] = "done"]
    BY <1>3 DEF Consume, modelVars
  <2>2. \A n \in Messages : MessageMoves(n)
    BY <1>1, <1>2, <2>1 DEF MessageMoves, Types
  <2>3. QED BY <1>1, <2>1, <2>2, IdleStep DEF Same, NoneAbsent, TaskMoves
<1>4. CASE to # Ignored
  <2>1. to \in TradeStates \ {WaitPay} /\ (m.pay = PaySuccess => to = WaitUse)
    BY <1>4 DEF getOrderTradeStateByPaymentTradeState, TradeStates, WaitPay, WaitUse,
                Refund, PaySuccess, PayRefund, Cancel, Used, Expire
  <2>2. /\ topic' = [topic EXCEPT ![m] = "taken"] /\ Lookup(c, m.sn)
        /\ SetJob(c, Job("update", m.sn, to, m))
    BY <1>4 DEF Consume
  <2>3. /\ job'[c] # None /\ job'[c].kind = "update" /\ job'[c].sn = m.sn
        /\ job'[c].to = to /\ job'[c].msg = m
        /\ \A q \in Procs : q # c => job'[q] = job[q]
    BY <1>1, <2>1, <2>2, NewJobIs DEF Kinds
  <2>4. /\ pc[c] = "idle" /\ pc'[c] \in {"selectSn", "getRow", "notFound"}
        /\ pc'[c] = "notFound" => m.sn \notin Orders
        /\ sn'[c] = m.sn /\ want' = want /\ won' = won /\ want[c] = None /\ ~won[c]
        /\ \A q \in Procs : q # c => Same(q)
        /\ UNCHANGED <<db, committed, snKey>>
    BY <1>1, <2>2, <2>3, LookupIs
  <2>5. JobShape(c)'
    BY <1>2, <2>1, <2>3, <2>4 DEF JobShape
  <2>6. Moved(c)
    BY <2>3, <2>4, <2>5 DEF Moved, Winner
  <2>7. \A n \in Messages : MessageMoves(n)
    BY <1>1, <1>2, <2>2 DEF MessageMoves, Types
  <2>8. QED BY <1>1, <2>4, <2>6, <2>7, HandlerStep DEF NoneAbsent, TaskMoves
<1>5. QED BY <1>3, <1>4

LEMMA UpdateReturnEarlyKeeps ==
  ASSUME P!Inv, ServiceInv, Types', NEW p \in Procs, UpdateReturnEarly(p)
  PROVE  Advances
<1>1. /\ Types /\ P!TypeOK /\ Model!Return(p)
      /\ job[p] # None /\ job[p].kind = "update"
      /\ UNCHANGED <<db, committed, snKey, notify, faults>>
  BY DEF ServiceInv, P!Inv, P!Shape, UpdateReturnEarly, Runs, Model!Release,
         Model!cacheVars
<1>2. job[p].to # WaitPay
  BY <1>1 DEF ServiceInv, JobShape
<1>3. PICK ok \in BOOLEAN :
        /\ Answer(p, ok)
        /\ job[p].sn \in Orders =>
             /\ ok /\ job[p].msg = None => Decided(job[p].sn)
             /\ ~ok /\ job[p].msg # None /\ job[p].msg.pay = PaySuccess
                  => Decided(job[p].sn)
  <2>1. CASE pc[p] = "notFound" /\ Answer(p, FALSE)
    BY <1>1, <2>1 DEF ServiceInv, JobShape
  <2>2. CASE pc[p] = "held" /\ data[p].val = job[p].to /\ Answer(p, TRUE)
    BY <1>1, <1>2, <2>2, HeldIsDecided
  <2>3. CASE pc[p] = "held" /\ ~verifyOrderTradeState(job[p].to, data[p].val)
             /\ Answer(p, FALSE)
    <3>1. ASSUME job[p].msg # None, job[p].msg.pay = PaySuccess
          PROVE  Decided(job[p].sn)
      <4>1. job[p].to = WaitUse
        BY <1>1, <3>1 DEF ServiceInv, JobShape
      <4>2. data[p].val # WaitPay
        BY <2>3, <4>1
           DEF verifyOrderTradeState, WaitUse, WaitPay, Cancel, Used, Refund, Expire
      <4>3. QED BY <1>1, <2>3, <4>2, HeldIsDecided
    <3>2. QED BY <2>3, <3>1
  <2>4. QED BY <2>1, <2>2, <2>3 DEF UpdateReturnEarly
<1>4. /\ job'[p] = None /\ \A q \in Procs : q # p => job'[q] = job[q]
      /\ \A s \in Orders : TaskMoves(s)
      /\ \A m \in Messages : MessageMoves(m)
  BY <1>1, <1>3, AnswerIs
<1>5. pc'[p] = "idle" /\ \A q \in Procs : q # p => Same(q)
  BY <1>1, <1>4, ReturnIs
<1>6. Moved(p)
  BY <1>4, <1>5 DEF Moved, JobShape, Winner
<1>7. QED BY <1>1, <1>4, <1>5, <1>6, HandlerStep DEF NoneAbsent

LEMMA UpdateBeginKeeps ==
  ASSUME P!Inv, ServiceInv, Types', NEW p \in Procs, UpdateBegin(p)
  PROVE  Advances
<1>1. /\ Types /\ P!TypeOK /\ job[p] # None /\ job[p].kind = "update" /\ pc[p] = "held"
      /\ UNCHANGED <<db, committed, snKey, job, task, notify, topic, faults>>
  BY DEF ServiceInv, P!Inv, P!Shape, UpdateBegin, Runs, Model!BeginUpdate,
         Model!cacheVars
<1>2. /\ pc'[p] = "getRow" /\ want'[p] = job[p].to /\ sn' = sn /\ won' = won
      /\ \A q \in Procs : q # p => Same(q)
  BY <1>1 DEF UpdateBegin, Model!BeginUpdate, Model!Goto, P!TypeOK, Same
<1>3. JobShape(p)'
  BY <1>1, <1>2 DEF ServiceInv, JobShape
<1>4. Moved(p)
  BY <1>1, <1>2, <1>3 DEF Moved, Winner
<1>5. QED BY <1>1, <1>2, <1>4, HandlerStep DEF NoneAbsent, TaskMoves, MessageMoves

LEMMA UpdateEndKeeps ==
  ASSUME P!Inv, ServiceInv, Types', NEW p \in Procs, UpdateEnd(p)
  PROVE  Advances
<1>1. /\ Types /\ P!TypeOK /\ Model!Return(p) /\ pc[p] = "delKeys"
      /\ job[p] # None /\ job[p].kind = "update" /\ won[p] \in BOOLEAN
      /\ UNCHANGED <<db, committed, notify>> /\ (Fault \/ UNCHANGED faults)
  BY DEF ServiceInv, P!Inv, P!Shape, P!TypeOK, UpdateEnd, Runs, Model!DelKeys,
         Model!DelLater
<1>2. NoneAbsent
  BY <1>1 DEF UpdateEnd, Model!DelKeys, Model!DelLater, P!TypeOK, NoneAbsent, Sns
<1>3. Decided(job[p].sn)
  BY <1>1 DEF ServiceInv, JobShape
<1>4. faults' = 0 => faults = 0
  BY <1>1, FaultsGrow
<1>5. CASE won[p] /\ job[p].to = WaitUse
  <2>1. /\ job'[p] # None /\ job'[p].kind = "notify" /\ job'[p].sn = job[p].sn
        /\ job'[p].to = job[p].to /\ job'[p].msg = job[p].msg
        /\ \A q \in Procs : q # p => job'[q] = job[q]
        /\ UNCHANGED <<task, topic>>
    BY <1>1, <1>5, NextKind DEF UpdateEnd, Kinds
  <2>2. pc'[p] = "idle" /\ want'[p] = None /\ \A q \in Procs : q # p => Same(q)
    BY <1>1, <2>1, ReturnIs
  <2>3. JobShape(p)'
    BY <1>1, <2>1, <2>2 DEF ServiceInv, JobShape
  <2>4. Moved(p)
    BY <1>1, <1>5, <2>1, <2>3 DEF Moved, Winner
  <2>5. QED BY <1>1, <1>2, <1>4, <2>1, <2>2, <2>4, HandlerStep DEF TaskMoves, MessageMoves
<1>6. CASE ~(won[p] /\ job[p].to = WaitUse)
  <2>1. Answer(p, won[p])
    BY <1>6 DEF UpdateEnd
  <2>2. /\ job'[p] = None /\ \A q \in Procs : q # p => job'[q] = job[q]
        /\ \A s \in Orders : TaskMoves(s)
        /\ \A m \in Messages : MessageMoves(m)
    BY <1>1, <1>3, <2>1, AnswerIs
  <2>3. pc'[p] = "idle" /\ \A q \in Procs : q # p => Same(q)
    BY <1>1, <2>2, ReturnIs
  <2>4. Moved(p)
    BY <2>2, <2>3 DEF Moved, JobShape, Winner
  <2>5. QED BY <1>1, <1>2, <1>4, <2>2, <2>3, <2>4, HandlerStep
<1>7. QED BY <1>5, <1>6

LEMMA EnqueueNotifyKeeps ==
  ASSUME P!Inv, ServiceInv, Types', NEW p \in Procs, EnqueueNotify(p)
  PROVE  Advances
<1>1. /\ Types /\ job[p] # None /\ job[p].kind = "notify" /\ Answer(p, TRUE)
      /\ UNCHANGED <<db, committed, snKey, pc, sn, want, won>>
      /\ (Fault \/ UNCHANGED faults)
  BY DEF ServiceInv, EnqueueNotify, Runs, modelVars
<1>2. PICK s : s = job[p].sn
  OBVIOUS
<1>3. pc[p] = "idle" /\ Winner(p, s)
  BY <1>1, <1>2 DEF ServiceInv, JobShape, Winner
<1>4. s \in Orders => /\ Paid(s) /\ notify[s] = 0
                     /\ \A q \in Procs : Winner(q, s) => q = p
  BY <1>3 DEF ServiceInv, OrderInv
<1>5. /\ job'[p] = None /\ \A q \in Procs : q # p => job'[q] = job[q]
      /\ \A t \in Orders : TaskMoves(t)
      /\ \A m \in Messages : MessageMoves(m)
  <2>1. s \in Orders => Decided(s)
    BY <1>4 DEF Paid, Decided
  <2>2. QED BY <1>1, <1>2, <2>1, AnswerIs
<1>6. ASSUME NEW q \in Procs
      PROVE  JobShape(q)'
  BY <1>1, <1>3, <1>5 DEF ServiceInv, JobShape, Decided
<1>7. \A q \in Procs, t \in Orders : Winner(q, t)' => q # p /\ Winner(q, t)
  BY <1>1, <1>5 DEF Winner
<1>8. faults' = 0 => faults = 0
  BY <1>1, FaultsGrow
<1>9. ASSUME NEW t \in Orders
      PROVE  OrderInv(t)'
  <2>1. Paid(t)' = Paid(t) /\ Decided(t)' = Decided(t) /\ OrderInv(t)
    BY <1>1 DEF Paid, Decided, ServiceInv
  <2>2. (task'[t] # "none" => db'[t] # None) /\ (task'[t] = "done" => Decided(t)')
    BY <1>1, <1>5, <2>1 DEF OrderInv, TaskMoves
  <2>3. CASE t = s
    <3>1. notify'[t] \in {0, 1}
      BY <1>1, <1>2, <1>4, <2>3 DEF EnqueueNotify, Types
    <3>2. QED BY <1>1, <1>4, <1>7, <2>1, <2>2, <2>3, <3>1 DEF OrderInv
  <2>4. CASE t # s
    <3>1. notify'[t] = notify[t]
      BY <1>1, <1>2, <2>4 DEF EnqueueNotify, Types
    <3>2. QED BY <1>1, <1>7, <2>1, <2>2, <3>1 DEF OrderInv
  <2>5. QED BY <2>3, <2>4
<1>10. ASSUME NEW m \in Messages
       PROVE  MessageInv(m)'
  <2>1. MessageInv(m) /\ MessageMoves(m)
    BY <1>5 DEF ServiceInv
  <2>2. QED BY <1>1, <1>8, <2>1 DEF MessageInv, MessageMoves, Decided
<1>11. ServiceInv'
  BY <1>1, <1>6, <1>9, <1>10 DEF ServiceInv
<1>12. OrderState' = OrderState
  BY <1>1 DEF OrderState
<1>13. \A q \in Procs, t \in Orders : q # p => Winner(q, t)' = Winner(q, t)
  BY <1>1, <1>5 DEF Winner
<1>14. CASE s \in Orders
  <2>1. \A q \in Procs, t \in Orders :
          Winner(q, t)' <=> Winner(q, t) /\ t # s
    BY <1>1, <1>2, <1>4, <1>7, <1>13, <1>14 DEF Winner
  <2>2. s \in Owed /\ Owed' = Owed \ {s}
    BY <1>3, <1>14, <2>1 DEF Owed
  <2>3. Life!Announce(s) \/ Life!Fail(s)
    BY <1>2, <1>12, <2>2 DEF EnqueueNotify, Life!Announce, Life!Fail
  <2>4. QED BY <1>11, <1>14, <2>3 DEF Advances, Lives, Life!Next
<1>15. CASE s \notin Orders
  <2>1. \A q \in Procs, t \in Orders : Winner(q, t)' = Winner(q, t)
    BY <1>1, <1>2, <1>5, <1>13, <1>15 DEF Winner
  <2>2. Owed' = Owed
    BY <2>1 DEF Owed
  <2>3. notify' = notify
    BY <1>1, <1>2, <1>15 DEF EnqueueNotify, Types
  <2>4. QED BY <1>11, <1>12, <2>2, <2>3 DEF Advances, Lives, Life!vars
<1>16. QED BY <1>14, <1>15

\* The UPDATE that does not match: the row has a later version than the copy.
LEMMA LoseKeeps ==
  ASSUME P!Inv, ServiceInv, Types', NEW p \in Procs, Model!UpdateRow(p),
         db[sn[p]].version # data[p].version,
         UNCHANGED <<job, task, notify, topic, faults>>
  PROVE  Advances
<1>1. /\ P!TypeOK /\ pc[p] = "cas" /\ sn[p] \in Sns /\ db[sn[p]] # None
      /\ db[sn[p]] \in committed[sn[p]]
      /\ data[p] \in committed[sn[p]] /\ data[p].version <= db[sn[p]].version
      /\ committed[sn[p]] \subseteq P!Row
  BY DEF Model!UpdateRow, P!Inv, P!Shape, P!CallShape, P!OneShape, P!TypeOK,
         P!SnapshotsCommitted, P!VersionDeterminesRow
<1>2. job[p] # None /\ sn[p] = job[p].sn /\ job[p].sn \in Orders
  BY <1>1 DEF ServiceInv, JobShape
<1>3. Decided(job[p].sn)
  <2>1. db[sn[p]].version # 0
    BY <1>1 DEF P!Row
  <2>2. QED BY <1>1, <1>2, <2>1 DEF ServiceInv, OrderInv, Decided
<1>4. /\ pc'[p] = "delKeys" /\ \A q \in Procs : q # p => Same(q)
      /\ UNCHANGED <<sn, want, won, db, committed, snKey>>
  BY <1>1 DEF Model!UpdateRow, Model!Goto, Model!cacheVars, P!TypeOK, Same
<1>5. JobShape(p)'
  BY <1>1, <1>2, <1>3, <1>4 DEF ServiceInv, JobShape, Decided
<1>6. Moved(p)
  BY <1>4, <1>5 DEF Moved, Winner
<1>7. QED BY <1>4, <1>6, HandlerStep DEF ServiceInv, NoneAbsent, TaskMoves, MessageMoves

\* The UPDATE that matches: it replaces the row its handler checked, so that an
\* order is made WaitUse or Cancel only while it waits.
LEMMA WinKeeps ==
  ASSUME P!Inv, ServiceInv, Types', NEW p \in Procs, Model!UpdateRow(p),
         db[sn[p]].version = data[p].version,
         UNCHANGED <<job, task, notify, topic, faults>>
  PROVE  Advances
<1>1. /\ Types /\ P!TypeOK /\ pc[p] = "cas" /\ sn[p] \in Sns /\ db[sn[p]] # None
      /\ data[p] # None /\ data[p] \in P!Row /\ want[p] # None /\ ~won[p]
      /\ <<data[p].val, want[p]>> \in OrderChanges
  BY DEF ServiceInv, Model!UpdateRow, P!Inv, P!Shape, P!CallShape, P!OneShape, P!TypeOK
<1>2. PICK s \in Orders : s = sn[p]
  BY <1>1 DEF ServiceInv
<1>3. PICK new : new = [version |-> data[p].version + 1, val |-> want[p]]
  OBVIOUS
<1>4. job[p] # None /\ job[p].sn = s /\ job[p].kind = "update" /\ want[p] = job[p].to
  BY <1>1, <1>2 DEF ServiceInv, JobShape
<1>5. db[s] = data[p] /\ s \in Sns
  <2>1. P!UpdateRow(p) /\ db[sn[p]].version = data[p].version
    BY DEF Model!UpdateRow, Model!Write, Model!Goto, Model!cacheVars,
           P!UpdateRow, P!Write, P!Goto, P!cacheVars
  <2>2. db[sn[p]] = data[p]
    BY <2>1, ModelAssumption, P!MatchIsCurrent
  <2>3. QED BY <1>1, <1>2, <2>2
<1>6. /\ want[p] \in TradeStates \ {WaitPay}
      /\ want[p] \in {Cancel, WaitUse} => data[p].val = WaitPay
  BY <1>1 DEF OrderChanges, verifyOrderTradeState
<1>7. new.val = want[p] /\ new.version # 0 /\ new # None
  <2>1. data[p].version + 1 \in Nat /\ data[p].version + 1 # 0
    BY <1>1 DEF P!Row
  <2>2. new \in Model!Row
    BY <1>3, <1>6, <2>1 DEF Model!Row
  <2>3. QED BY <1>3, <2>1, <2>2, OrderServiceAssumption
<1>8. /\ db' = [db EXCEPT ![s] = new]
      /\ committed' = [committed EXCEPT ![s] = @ \union {new}]
      /\ pc' = [pc EXCEPT ![p] = "delKeys"] /\ won' = [won EXCEPT ![p] = TRUE]
      /\ UNCHANGED <<sn, want, snKey>>
  BY <1>2, <1>3 DEF Model!UpdateRow, Model!Write, Model!Goto, Model!cacheVars
<1>9. pc'[p] = "delKeys" /\ \A q \in Procs : q # p => Same(q)
  BY <1>1, <1>8 DEF P!TypeOK, Same
<1>10. db'[s] = new /\ committed'[s] = committed[s] \union {new}
  BY <1>1, <1>5, <1>8 DEF P!TypeOK
<1>11. \A t \in Sns : t # s => db'[t] = db[t] /\ committed'[t] = committed[t]
  BY <1>1, <1>8 DEF P!TypeOK
<1>12. \A t \in Sns : /\ db[t] # None => db'[t] # None
                      /\ Decided(t) => Decided(t)'
                      /\ Paid(t) => Paid(t)'
  BY <1>5, <1>6, <1>7, <1>10, <1>11 DEF Decided, Paid, Cancel, WaitUse
<1>13. Decided(s)'
  BY <1>6, <1>7, <1>10 DEF Decided
<1>14. ASSUME NEW q \in Procs
       PROVE  JobShape(q)'
  <2>1. job[q] # None => job[q].sn \in Sns
    BY <1>1, JobIsTyped
  <2>2. CASE q = p
    <3>1. JobShape(p) /\ db'[s] # None
      BY <1>7, <1>10 DEF ServiceInv
    <3>2. QED BY <1>2, <1>4, <1>8, <1>9, <1>13, <2>2, <3>1 DEF JobShape
  <2>3. CASE q # p
    BY <1>9, <1>12, <2>1, <2>3 DEF ServiceInv, JobShape, Same
  <2>4. QED BY <2>2, <2>3
<1>15. \A q \in Procs, t \in Orders :
         Winner(q, t)' => \/ q = p /\ t = s /\ want[p] = WaitUse
                         \/ Winner(q, t)
  BY <1>4, <1>9 DEF Winner, Same
<1>16. ASSUME NEW t \in Orders
       PROVE  OrderInv(t)'
  <2>1. OrderInv(t) /\ t \in Sns
    BY DEF ServiceInv, Sns
  <2>2. CASE t = s
    <3>1. \A r \in committed'[t] : (r.val = WaitPay) <=> (r.version = 0)
      BY <1>6, <1>7, <1>10, <2>1, <2>2 DEF OrderInv
    <3>2. CASE want[p] = WaitUse
      <4>1. ~Paid(s)
        BY <1>5, <1>6, <3>2 DEF Paid
      <4>2. notify'[t] = 0 /\ \A q \in Procs : Winner(q, t)' => q = p
        BY <1>15, <2>1, <2>2, <4>1 DEF OrderInv
      <4>3. Paid(t)'
        BY <1>7, <1>10, <2>2, <3>2 DEF Paid, WaitUse, WaitPay, Cancel
      <4>4. QED BY <1>8, <1>13, <2>1, <2>2, <3>1, <4>2, <4>3 DEF OrderInv, Decided
    <3>3. CASE want[p] # WaitUse
      BY <1>8, <1>12, <1>13, <1>15, <2>1, <2>2, <3>1, <3>3 DEF OrderInv
    <3>4. QED BY <3>2, <3>3
  <2>3. CASE t # s
    BY <1>8, <1>11, <1>12, <1>15, <2>1, <2>3 DEF OrderInv
  <2>4. QED BY <2>2, <2>3
<1>17. ASSUME NEW m \in Messages
       PROVE  MessageInv(m)'
  <2>1. m.sn \in Sns /\ MessageInv(m)
    BY OrderServiceAssumption DEF ServiceInv
  <2>2. QED BY <1>12, <2>1 DEF MessageInv
<1>18. \A t \in Sns : db'[t] # None => t \in Orders
  BY <1>11 DEF ServiceInv
<1>19. ServiceInv'
  BY <1>14, <1>16, <1>17, <1>18 DEF ServiceInv
<1>20. Life!Change(s)
  <2>1. OrderState' = [OrderState EXCEPT ![s] = want[p]]
    BY <1>7, <1>10, <1>11 DEF OrderState, Sns
  <2>2. <<OrderState[s], want[p]>> \in OrderChanges /\ want[p] \in TradeStates
    BY <1>1, <1>5, <1>6 DEF OrderState
  <2>3. \A q \in Procs, t \in Orders : q # p => Winner(q, t)' = Winner(q, t)
    BY <1>9 DEF Winner, Same
  <2>4. \A t \in Orders : ~Winner(p, t) /\ (t # s => ~Winner(p, t)')
    BY <1>1, <1>4, <1>9 DEF Winner
  <2>5. CASE want[p] = WaitUse
    <3>1. Winner(p, s)'
      BY <1>1, <1>4, <1>8, <2>5 DEF Winner, P!TypeOK
    <3>2. ~Paid(s)
      BY <1>5, <1>6, <2>5 DEF Paid
    <3>3. s \notin Owed
      BY <3>2 DEF Owed, ServiceInv, OrderInv
    <3>4. Owed' = Owed \union {s}
      BY <2>3, <2>4, <3>1 DEF Owed
    <3>5. QED BY <2>1, <2>2, <2>5, <3>3, <3>4 DEF Life!Change
  <2>6. CASE want[p] # WaitUse
    <3>1. ~Winner(p, s)'
      BY <1>4, <2>6 DEF Winner
    <3>2. Owed' = Owed
      BY <2>3, <2>4, <3>1 DEF Owed
    <3>3. QED BY <2>1, <2>2, <2>6, <3>2 DEF Life!Change
  <2>7. QED BY <2>5, <2>6
<1>21. QED BY <1>19, <1>20 DEF Advances, Lives, Life!Next

\* A round trip that neither ends the call nor writes.
LEMMA ReadIs ==
  ASSUME P!Inv, ServiceInv, NEW p \in Procs, job' = job,
         \/ Model!SelectSn(p) \/ Model!MarkAbsent(p) \/ Model!SetRow(p) \/ Model!SetSn(p)
         \/ Model!GetRow(p) \/ Model!SelectRow(p) \/ Model!FillRow(p)
         \/ \E q \in Procs : Model!ShareRow(p, q)
  PROVE  /\ pc[p] # "idle" /\ pc'[p] \notin {"idle", "delKeys"}
         /\ pc'[p] \in {"markAbsent", "notFound"} => sn[p] \notin Orders
         /\ sn' = sn /\ want' = want /\ won' = won
         /\ \A q \in Procs : q # p => Same(q)
         /\ UNCHANGED <<db, committed>> /\ NoneAbsent
<1>1. P!TypeOK
  BY DEF P!Inv, P!Shape
<1>2. pc[p] # "idle" =>
        /\ job[p] # None /\ sn[p] = job[p].sn
        /\ sn[p] \in Orders => db[sn[p]] # None /\ pc[p] # "markAbsent"
  BY DEF ServiceInv, JobShape
<1>3. CASE Model!SelectSn(p)
  BY <1>1, <1>2, <1>3
     DEF P!TypeOK, Model!SelectSn, Model!Goto, Model!cacheVars, Same, NoneAbsent
<1>4. CASE Model!MarkAbsent(p)
  <2>1. sn[p] \notin Orders
    BY <1>2, <1>4 DEF Model!MarkAbsent
  <2>2. NoneAbsent
    BY <1>1, <1>4, <2>1 DEF P!TypeOK, Model!MarkAbsent, NoneAbsent
  <2>3. QED
    BY <1>1, <1>4, <2>1, <2>2 DEF P!TypeOK, Model!MarkAbsent, Model!Goto, Same
<1>5. CASE Model!SetRow(p) \/ Model!SelectRow(p)
  BY <1>1, <1>5
     DEF P!TypeOK, Model!SetRow, Model!SelectRow, Model!Goto, Model!cacheVars, Same,
         NoneAbsent
<1>6. ASSUME NEW row, Model!Deliver(p, row)
      PROVE  /\ pc'[p] \in {"held", "cas"} /\ sn' = sn /\ want' = want /\ won' = won
             /\ \A q \in Procs : q # p => Same(q)
  BY <1>1, <1>6 DEF P!TypeOK, Model!Deliver, Model!Goto, Same
<1>7. CASE Model!SetSn(p)
  <2>1. NoneAbsent
    BY <1>1, <1>7 DEF P!TypeOK, Model!SetSn, NoneAbsent, Sns
  <2>2. QED BY <1>6, <1>7, <2>1 DEF Model!SetSn
<1>8. CASE Model!FillRow(p)
  BY <1>6, <1>8 DEF Model!FillRow, NoneAbsent
<1>9. CASE Model!GetRow(p)
  <2>1. CASE idKey[sn[p]] = None
    BY <1>1, <1>9, <2>1
       DEF P!TypeOK, Model!GetRow, Model!Goto, Model!cacheVars, Same, NoneAbsent
  <2>2. CASE idKey[sn[p]] # None
    BY <1>6, <1>9, <2>2 DEF Model!GetRow, Model!cacheVars, NoneAbsent
  <2>3. QED BY <2>1, <2>2
<1>10. ASSUME NEW q \in Procs, Model!ShareRow(p, q)
       PROVE  /\ pc[p] # "idle" /\ pc'[p] \in {"held", "cas"}
              /\ sn' = sn /\ want' = want /\ won' = won
              /\ \A r \in Procs : r # p => Same(r)
              /\ UNCHANGED <<db, committed>> /\ NoneAbsent
  BY <1>6, <1>10 DEF Model!ShareRow, Model!cacheVars, NoneAbsent
<1>11. QED BY <1>3, <1>4, <1>5, <1>7, <1>8, <1>9, <1>10

LEMMA StepKeeps ==
  ASSUME P!Inv, ServiceInv, Types', NEW p \in Procs, Step(p)
  PROVE  Advances
<1>1. UNCHANGED <<job, task, notify, topic, faults>>
  BY DEF Step
<1>2. CASE Model!UpdateRow(p)
  BY <1>1, <1>2, WinKeeps, LoseKeeps
<1>3. CASE Model!DelNew(p)
  <2>1. NoneAbsent
    BY <1>3 DEF Model!DelNew, NoneAbsent, P!Inv, P!Shape, P!TypeOK, Sns
  <2>2. QED BY <1>1, <1>3, <2>1, CreateReturns DEF Model!DelNew
<1>4. CASE \/ Model!SelectSn(p) \/ Model!MarkAbsent(p) \/ Model!SetRow(p) \/ Model!SetSn(p)
           \/ Model!GetRow(p) \/ Model!SelectRow(p) \/ Model!FillRow(p)
           \/ \E q \in Procs : Model!ShareRow(p, q)
  <2>1. /\ pc[p] # "idle" /\ pc'[p] \notin {"idle", "delKeys"}
        /\ pc'[p] \in {"markAbsent", "notFound"} => sn[p] \notin Orders
        /\ sn' = sn /\ want' = want /\ won' = won
        /\ \A q \in Procs : q # p => Same(q)
        /\ UNCHANGED <<db, committed>> /\ NoneAbsent
    BY <1>1, <1>4, ReadIs
  <2>2. JobShape(p)'
    BY <1>1, <2>1 DEF ServiceInv, JobShape
  <2>3. Moved(p)
    BY <1>1, <2>1, <2>2 DEF Moved, Winner
  <2>4. QED BY <1>1, <2>1, <2>3, HandlerStep DEF TaskMoves, MessageMoves
<1>5. QED BY <1>2, <1>3, <1>4 DEF Step

LEMMA FailCallKeeps ==
  ASSUME P!Inv, ServiceInv, Types', NEW p \in Procs, FailCall(p)
  PROVE  Advances
<1>1. Types /\ P!TypeOK /\ job[p] # None /\ notify' = notify /\ Fault
  BY DEF ServiceInv, P!Inv, P!Shape, FailCall
<1>2. job'[p] = None /\ \A q \in Procs : q # p => job'[q] = job[q]
  BY <1>1, SetJobIs DEF FailCall
<1>3. /\ pc'[p] = "idle" /\ \A q \in Procs : q # p => Same(q)
      /\ UNCHANGED <<db, committed, snKey>>
  <2>1. CASE pc[p] = "idle"
    BY <1>2, <2>1 DEF FailCall, modelVars, Same
  <2>2. CASE pc[p] # "idle"
    BY <1>1, <1>2, <2>2, ReturnIs DEF FailCall, Model!Abandon, Model!cacheVars
  <2>3. QED BY <2>1, <2>2
<1>4. Moved(p)
  BY <1>2, <1>3 DEF Moved, JobShape, Winner
<1>5. job[p].sn \in Orders => db[job[p].sn] # None
  BY <1>1 DEF ServiceInv, JobShape
<1>6. ASSUME NEW s \in Orders
      PROVE  TaskMoves(s)
  BY <1>1, <1>5 DEF FailCall, RetryTask, TaskMoves, Types
<1>7. faults' # 0
  BY <1>1, FaultsGrow
<1>8. ASSUME NEW m \in Messages
      PROVE  MessageMoves(m)
  <2>1. CASE topic'[m] = topic[m]
    BY <2>1 DEF MessageMoves
  <2>2. CASE topic'[m] # topic[m]
    <3>1. m = job[p].msg
      BY <1>1, <2>2 DEF FailCall, Types
    <3>2. m.sn = job[p].sn
      BY <1>1, <3>1, OrderServiceAssumption DEF ServiceInv, JobShape
    <3>3. QED BY <1>5, <1>7, <3>2 DEF MessageMoves
  <2>3. QED BY <2>1, <2>2
<1>9. QED BY <1>1, <1>3, <1>4, <1>6, <1>7, <1>8, HandlerStep DEF NoneAbsent

\* The keys of the cache come and go by themselves.
LEMMA CacheKeeps ==
  ASSUME P!Inv, ServiceInv, Types', Cache
  PROVE  Advances
<1>1. /\ P!TypeOK
      /\ UNCHANGED <<db, committed, pc, sn, want, won, job, task, notify, topic, faults>>
  BY DEF P!Inv, P!Shape, Cache, Model!CacheStep, Model!CleanKeys, Model!ExpireRow,
         Model!ExpireSn, Model!procVars
<1>2. NoneAbsent
  <2>1. PICK s \in Sns : Model!CacheStep(s)
    BY DEF Cache
  <2>2. CASE Model!CleanKeys(s) \/ Model!ExpireSn(s)
    BY <1>1, <2>2 DEF Model!CleanKeys, Model!ExpireSn, NoneAbsent, P!TypeOK, Sns
  <2>3. CASE Model!ExpireRow(s)
    BY <2>3 DEF Model!ExpireRow, NoneAbsent
  <2>4. QED BY <2>1, <2>2, <2>3 DEF Model!CacheStep
<1>3. QED BY <1>1, <1>2, IdleStep DEF Same, TaskMoves, MessageMoves

-----------------------------------------------------------------------------
(* The invariant holds                                                     *)

LEMMA ServiceInit == Init => ServiceInv
<1> SUFFICES ASSUME Init PROVE ServiceInv
  OBVIOUS
<1>1. Types
  BY TypesInit
<1>2. /\ \A p \in Procs : job[p] = None /\ pc[p] = "idle"
      /\ \A s \in Sns : db[s] = None /\ committed[s] = {} /\ snKey[s] = "miss"
      /\ \A s \in Orders : task[s] = "none" /\ notify[s] = 0 /\ s \in Sns
      /\ \A m \in Messages : topic[m] = "unsent"
  BY DEF Init, Model!Init, Sns
<1>3. QED
  BY <1>1, <1>2 DEF ServiceInv, JobShape, OrderInv, MessageInv, Winner

LEMMA ServiceNext == P!Inv /\ ServiceInv /\ [Next]_vars => Advances
<1> SUFFICES ASSUME P!Inv, ServiceInv, [Next]_vars PROVE Advances
  OBVIOUS
<1>1. Types'
  BY TypesNext DEF ServiceInv
<1>2. ASSUME NEW u \in Users, UserNext(u)
      PROVE  Advances
  BY <1>1, <1>2, CreateKeeps, DetailKeeps, EnqueueCloseKeeps, DetailReturnKeeps,
     DelNewLaterKeeps DEF UserNext, Procs
<1>3. ASSUME NEW w \in Workers, WorkerNext(w)
      PROVE  Advances
  BY <1>1, <1>3, StartCloseKeeps, CheckWaitPayKeeps, CallCancelKeeps DEF WorkerNext, Procs
<1>4. ASSUME NEW c \in Consumers, ConsumerNext(c)
      PROVE  Advances
  BY <1>1, <1>4, ConsumeKeeps DEF ConsumerNext, Procs
<1>5. ASSUME NEW p \in Procs, UpdateNext(p)
      PROVE  Advances
  BY <1>1, <1>5, UpdateReturnEarlyKeeps, UpdateBeginKeeps, UpdateEndKeeps,
     EnqueueNotifyKeeps DEF UpdateNext
<1>6. CASE UNCHANGED vars
  <2>1. UNCHANGED <<db, committed, snKey, pc, sn, want, won, job, task, notify, topic, faults>>
    BY <1>6 DEF vars, modelVars
  <2>2. QED BY <1>1, <2>1, IdleStep DEF Same, NoneAbsent, TaskMoves, MessageMoves
<1>7. QED
  BY <1>1, <1>2, <1>3, <1>4, <1>5, <1>6, StepKeeps, FailCallKeeps, PublishKeeps,
     CacheKeeps DEF Next

LEMMA ServiceHolds == Spec => []ServiceInv
<1>1. P!Inv /\ ServiceInv /\ [Next]_vars => ServiceInv'
  BY ServiceNext DEF Advances
<1>2. QED BY <1>1, ServiceInit, ModelInv, PTL DEF Spec

-----------------------------------------------------------------------------
(* Nothing is forgotten on the way                                         *)

\* Who watches order s, handler by handler.
Creates(p, s) == p \in Users /\ Runs(p, "create") /\ job[p].sn = s

Closes(p, s) ==
  /\ p \in Workers
  /\ job[p] # None /\ job[p].sn = s /\ job[p].msg = None
  /\ job[p].kind \in {"check", "close", "update", "notify"}

\* What is shown of every step about every order.
StaysWatched(s) ==
  /\ db[s] = None /\ db'[s] # None => Watched(s)'
  /\ Watched(s) => Watched(s)' \/ Decided(s)' \/ (Creating(s) /\ faults' = faults + 1)

StaysOwed(s) ==
  s \in Owed => s \in Owed' \/ notify'[s] = notify[s] + 1 \/ faults' = faults + 1

Kept(s) == StaysWatched(s) /\ StaysOwed(s)

\* A step of p: it hands its order on, if it does not keep it.
LEMMA KeptBy ==
  ASSUME NEW p \in Procs, NEW s \in Orders, \A q \in Procs : q # p => Same(q),
         db[s] = None => db'[s] = None,
         \/ /\ task'[s] = task[s]
            /\ Creates(p, s) => Creates(p, s)' \/ faults' = faults + 1
            /\ Closes(p, s) => Closes(p, s)'
         \/ task'[s] = "scheduled"
         \/ Decided(s)',
         Winner(p, s) => \/ Winner(p, s)' \/ notify'[s] = notify[s] + 1
                         \/ faults' = faults + 1
  PROVE  Kept(s)
<1>1. ASSUME NEW q \in Procs, q # p
      PROVE  /\ Creates(q, s) => Creates(q, s)'
             /\ Closes(q, s) => Closes(q, s)'
             /\ Winner(q, s) => Winner(q, s)'
  BY <1>1 DEF Same, Creates, Closes, Winner, Runs
<1>2. ASSUME NEW q \in Procs, Creates(q, s)'
      PROVE  Creating(s)'
  BY <1>2 DEF Creating, Creates
<1>3. ASSUME NEW q \in Procs, Closes(q, s)', task'[s] = "active"
      PROVE  Closing(s)'
  BY <1>3 DEF Closing, Closes
<1>4. ASSUME NEW q \in Procs, Winner(q, s)'
      PROVE  s \in Owed'
  BY <1>4 DEF Owed
<1>5. StaysOwed(s)
  <2>1. CASE s \in Owed
    <3>1. PICK q \in Procs : Winner(q, s)
      BY <2>1 DEF Owed
    <3>2. QED BY <1>1, <1>4, <3>1 DEF StaysOwed
  <2>2. QED BY <2>1 DEF StaysOwed
<1>6. StaysWatched(s)
  <2>1. CASE task'[s] = "scheduled" \/ Decided(s)'
    BY <2>1 DEF StaysWatched, Watched
  <2>2. CASE /\ task'[s] = task[s]
             /\ Creates(p, s) => Creates(p, s)' \/ faults' = faults + 1
             /\ Closes(p, s) => Closes(p, s)'
    <3>1. CASE Creating(s)
      <4>1. PICK q \in Procs : Creates(q, s)
        BY <3>1 DEF Creating, Creates, Procs
      <4>2. Creating(s)' \/ faults' = faults + 1
        BY <1>1, <1>2, <2>2, <4>1
      <4>3. QED BY <3>1, <4>2 DEF StaysWatched, Watched
    <3>2. CASE Closing(s)
      <4>1. PICK q \in Procs : Closes(q, s)
        BY <3>2 DEF Closing, Closes, Procs
      <4>2. Closing(s)'
        BY <1>1, <1>3, <2>2, <3>2, <4>1 DEF Closing
      <4>3. QED BY <4>2 DEF StaysWatched, Watched
    <3>3. QED BY <2>2, <3>1, <3>2 DEF StaysWatched, Watched
  <2>3. QED BY <2>1, <2>2
<1>7. QED BY <1>5, <1>6 DEF Kept

\* A step that changes no handler's job and no task.
LEMMA KeptAlong ==
  ASSUME NEW s \in Orders, db[s] = None => db'[s] = None,
         UNCHANGED <<job, task>>, \A q \in Procs : won[q] => won'[q]
  PROVE  Kept(s)
<1>1. Creating(s)' = Creating(s) /\ Closing(s)' = Closing(s)
  BY DEF Creating, Closing, Runs
<1>2. \A q \in Procs : Winner(q, s) => Winner(q, s)'
  BY DEF Winner
<1>3. QED BY <1>1, <1>2 DEF Kept, StaysWatched, StaysOwed, Watched, Owed

\* An answer hands the task back or finds the order decided.
LEMMA KeptByAnswer ==
  ASSUME Types, ServiceInv', NEW p \in Procs, NEW s \in Orders, NEW ok \in BOOLEAN,
         Answer(p, ok), job[p] # None, job[p].kind \in {"update", "notify"},
         \A q \in Procs : q # p => Same(q), UNCHANGED db,
         Winner(p, s) => notify'[s] = notify[s] + 1 \/ faults' = faults + 1
  PROVE  Kept(s)
<1>1. ~Creates(p, s)
  BY DEF Creates, Runs
<1>2. CASE job[p].msg = None /\ job[p].sn = s
  <2>1. task'[s] = "scheduled" \/ task'[s] = "done"
    BY <1>2 DEF Answer, RetryTask, Types
  <2>2. task'[s] = "done" => Decided(s)'
    BY DEF ServiceInv, OrderInv
  <2>3. QED BY <2>1, <2>2, KeptBy
<1>3. CASE ~(job[p].msg = None /\ job[p].sn = s)
  <2>1. task'[s] = task[s]
    BY <1>3 DEF Answer, RetryTask, Types
  <2>2. ~Closes(p, s)
    BY <1>3 DEF Closes
  <2>3. QED BY <1>1, <2>1, <2>2, KeptBy
<1>4. QED BY <1>2, <1>3

LEMMA UserKeeps ==
  ASSUME P!Inv, ServiceInv, ServiceInv', NEW u \in Users, UserNext(u), NEW s \in Orders
  PROVE  Kept(s)
<1>1. /\ u \in Procs /\ Types /\ P!TypeOK /\ s \in Sns
      /\ \A q \in Procs : won[q] => pc[q] = "delKeys"
  BY DEF Procs, ServiceInv, P!Inv, P!Shape, P!CallShape, P!OneShape, Sns
<1>2. ASSUME NEW t \in Orders, Create(u, t)
      PROVE  Kept(s)
  <2>1. /\ job[u] = None /\ pc[u] = "idle" /\ task' = task
        /\ \A q \in Procs : q # u => job'[q] = job[q]
        /\ job'[u] # None /\ job'[u].kind = "create" /\ job'[u].sn = t
    BY <1>1, <1>2, NewJobIs DEF Create, Model!InsertRow, Kinds, Sns
  <2>2. \A q \in Procs : q # u => Same(q)
    BY <1>1, <1>2, <2>1 DEF Create, Model!InsertRow, Model!Goto, P!TypeOK, Same
  <2>3. ~Creates(u, s) /\ ~Closes(u, s) /\ ~Winner(u, s)
    BY <2>1 DEF Creates, Closes, Winner, Runs
  <2>4. CASE t = s
    <3>1. Watched(s)'
      BY <2>1, <2>4 DEF Watched, Creating, Runs
    <3>2. StaysOwed(s)
      BY <2>2, <2>3 DEF StaysOwed, Owed, Same, Winner
    <3>3. QED BY <3>1, <3>2 DEF Kept, StaysWatched
  <2>5. CASE t # s
    <3>1. db'[s] = db[s]
      BY <1>1, <1>2, <2>5 DEF Create, Model!InsertRow, Model!Write, P!TypeOK, Sns
    <3>2. QED BY <1>1, <2>1, <2>2, <2>3, <3>1, KeptBy
  <2>6. QED BY <2>4, <2>5
<1>3. ASSUME NEW t \in Orders, Detail(u, t)
      PROVE  Kept(s)
  <2>1. job[u] = None /\ task' = task /\ t \in Sns
    BY <1>3 DEF Detail, Sns
  <2>2. \A q \in Procs : q # u => job'[q] = job[q]
    BY <1>1, <1>3, SetJobIs DEF Detail
  <2>3. db' = db /\ \A q \in Procs : q # u => Same(q)
    BY <1>1, <1>3, <2>1, <2>2, LookupIs DEF Detail
  <2>4. ~Creates(u, s) /\ ~Closes(u, s) /\ ~Winner(u, s)
    BY <2>1 DEF Creates, Closes, Winner, Runs
  <2>5. QED BY <1>1, <2>1, <2>3, <2>4, KeptBy
<1>4. CASE EnqueueClose(u)
  <2>1. /\ job[u] # None /\ job[u].kind = "create"
        /\ UNCHANGED <<db, pc, sn, want, won>>
    BY <1>4 DEF EnqueueClose, Runs, modelVars
  <2>2. \A q \in Procs : q # u => Same(q)
    BY <1>1, <1>4, <2>1, SetJobIs DEF EnqueueClose, Same
  <2>3. ~Closes(u, s) /\ ~Winner(u, s)
    BY <2>1 DEF Closes, Winner
  <2>4. CASE job[u].sn = s
    <3>1. task'[s] = "scheduled" \/ (task'[s] = task[s] /\ faults' = faults + 1)
      BY <1>1, <1>4, <2>4 DEF EnqueueClose, Fault, Types
    <3>2. QED BY <1>1, <2>1, <2>2, <2>3, <3>1, KeptBy
  <2>5. CASE job[u].sn # s
    <3>1. task'[s] = task[s] /\ ~Creates(u, s)
      BY <1>1, <1>4, <2>5 DEF EnqueueClose, Types, Creates
    <3>2. QED BY <1>1, <2>1, <2>2, <2>3, <3>1, KeptBy
  <2>6. QED BY <2>4, <2>5
<1>5. CASE DetailReturn(u)
  <2>1. job[u].kind = "detail" /\ Model!Return(u) /\ UNCHANGED <<db, task>>
    BY <1>5 DEF DetailReturn, Runs, Model!Release
  <2>2. \A q \in Procs : q # u => job'[q] = job[q]
    BY <1>1, <1>5, SetJobIs DEF DetailReturn
  <2>3. \A q \in Procs : q # u => Same(q)
    BY <1>1, <2>1, <2>2, ReturnIs
  <2>4. ~Creates(u, s) /\ ~Closes(u, s) /\ ~Winner(u, s)
    BY <2>1 DEF Creates, Closes, Winner, Runs
  <2>5. QED BY <1>1, <2>1, <2>3, <2>4, KeptBy
<1>6. CASE DelNewLater(u)
  <2>1. /\ pc[u] = "delNew" /\ Model!Return(u) /\ UNCHANGED <<db, job, task>>
    BY <1>6 DEF DelNewLater, Model!DelLater
  <2>2. \A q \in Procs : won[q] => won'[q]
    BY <1>1, <2>1 DEF Model!Return, P!TypeOK
  <2>3. QED BY <2>1, <2>2, KeptAlong
<1>7. QED BY <1>2, <1>3, <1>4, <1>5, <1>6 DEF UserNext

LEMMA WorkerKeeps ==
  ASSUME P!Inv, ServiceInv, ServiceInv', NEW w \in Workers, WorkerNext(w), NEW s \in Orders
  PROVE  Kept(s)
<1>1. /\ w \in Procs /\ Types /\ P!TypeOK /\ s \in Sns
      /\ \A q \in Procs : won[q] => pc[q] = "delKeys"
  BY DEF Procs, ServiceInv, P!Inv, P!Shape, P!CallShape, P!OneShape, Sns
<1>2. ASSUME NEW t \in Orders, StartClose(w, t)
      PROVE  Kept(s)
  <2>1. /\ job[w] = None /\ t \in Sns /\ task' = [task EXCEPT ![t] = "active"]
        /\ job'[w] # None /\ job'[w].kind = "check" /\ job'[w].sn = t
        /\ job'[w].msg = None /\ \A q \in Procs : q # w => job'[q] = job[q]
    BY <1>1, <1>2, NewJobIs DEF StartClose, Kinds, Sns
  <2>2. db' = db /\ \A q \in Procs : q # w => Same(q)
    BY <1>1, <1>2, <2>1, LookupIs DEF StartClose
  <2>3. ~Creates(w, s) /\ ~Closes(w, s) /\ ~Winner(w, s)
    BY <2>1 DEF Creates, Closes, Winner, Runs
  <2>4. CASE t = s
    <3>1. Watched(s)'
      BY <1>1, <2>1, <2>4 DEF Watched, Closing, Types
    <3>2. StaysOwed(s)
      BY <2>2, <2>3 DEF StaysOwed, Owed, Same, Winner
    <3>3. QED BY <3>1, <3>2 DEF Kept, StaysWatched
  <2>5. CASE t # s
    <3>1. task'[s] = task[s]
      BY <1>1, <2>1, <2>5 DEF Types
    <3>2. QED BY <1>1, <2>2, <2>3, <3>1, KeptBy
  <2>6. QED BY <2>4, <2>5
<1>3. CASE CheckWaitPay(w)
  <2>1. /\ job[w] # None /\ job[w].kind = "check" /\ Model!Return(w) /\ db' = db
        /\ job[w].sn \in Sns
    BY <1>1, <1>3, JobIsTyped DEF CheckWaitPay, Runs, Model!Release
  <2>2. \A q \in Procs : q # w => job'[q] = job[q]
    BY <1>1, <1>3, SetJobIs DEF CheckWaitPay
  <2>3. \A q \in Procs : q # w => Same(q)
    BY <1>1, <2>1, <2>2, ReturnIs
  <2>4. ~Creates(w, s) /\ ~Winner(w, s)
    BY <2>1 DEF Creates, Winner, Runs
  <2>5. CASE data[w].val = WaitPay
    <3>1. SetJob(w, Job("close", job[w].sn, Cancel, None)) /\ task' = task
      BY <1>3, <2>5 DEF CheckWaitPay
    <3>2. /\ job'[w] # None /\ job'[w].kind = "close" /\ job'[w].sn = job[w].sn
          /\ job'[w].msg = None
      BY <1>1, <2>1, <3>1, NewJobIs DEF Kinds, TradeStates
    <3>3. Closes(w, s) => Closes(w, s)'
      BY <3>2 DEF Closes
    <3>4. QED BY <1>1, <2>1, <2>3, <2>4, <3>1, <3>3, KeptBy
  <2>6. CASE data[w].val # WaitPay
    <3>1. task' = [task EXCEPT ![job[w].sn] = "done"]
      BY <1>3, <2>6 DEF CheckWaitPay
    <3>2. CASE job[w].sn = s
      <4>1. task'[s] = "done"
        BY <1>1, <3>1, <3>2 DEF Types
      <4>2. Decided(s)'
        BY <4>1 DEF ServiceInv, OrderInv
      <4>3. QED BY <1>1, <2>1, <2>3, <2>4, <4>2, KeptBy
    <3>3. CASE job[w].sn # s
      <4>1. task'[s] = task[s] /\ ~Closes(w, s)
        BY <1>1, <3>1, <3>3 DEF Types, Closes
      <4>2. QED BY <1>1, <2>1, <2>3, <2>4, <4>1, KeptBy
    <3>4. QED BY <3>2, <3>3
  <2>7. QED BY <2>5, <2>6
<1>4. CASE CallCancel(w)
  <2>1. job[w] # None /\ job[w].kind = "close" /\ job[w].sn \in Sns /\ task' = task
    BY <1>1, <1>4, JobIsTyped DEF CallCancel, Runs
  <2>2. /\ job'[w] # None /\ job'[w].kind = "update" /\ job'[w].sn = job[w].sn
        /\ job'[w].msg = job[w].msg
        /\ \A q \in Procs : q # w => job'[q] = job[q]
    BY <1>1, <1>4, <2>1, NextKind DEF CallCancel, Kinds
  <2>3. db' = db /\ \A q \in Procs : q # w => Same(q)
    BY <1>1, <1>4, <2>1, <2>2, LookupIs DEF CallCancel
  <2>4. ~Creates(w, s) /\ ~Winner(w, s) /\ (Closes(w, s) => Closes(w, s)')
    BY <2>1, <2>2 DEF Creates, Closes, Winner, Runs
  <2>5. QED BY <1>1, <2>1, <2>3, <2>4, KeptBy
<1>5. QED BY <1>2, <1>3, <1>4 DEF WorkerNext

LEMMA ConsumerKeeps ==
  ASSUME P!Inv, ServiceInv, NEW c \in Consumers, ConsumerNext(c), NEW s \in Orders
  PROVE  Kept(s)
<1>1. PICK m \in Messages : Consume(c, m)
  BY DEF ConsumerNext
<1>2. c \in Procs /\ Types /\ m.sn \in Sns /\ job[c] = None /\ task' = task
  BY <1>1, OrderServiceAssumption DEF Procs, ServiceInv, Consume
<1>3. CASE UNCHANGED <<modelVars, job>>
  BY <1>2, <1>3, KeptAlong DEF modelVars
<1>4. CASE /\ Lookup(c, m.sn)
           /\ SetJob(c, Job("update", m.sn, getOrderTradeStateByPaymentTradeState(m.pay), m))
  <2>1. \A q \in Procs : q # c => job'[q] = job[q]
    BY <1>2, <1>4, SetJobIs
  <2>2. db' = db /\ \A q \in Procs : q # c => Same(q)
    BY <1>2, <1>4, <2>1, LookupIs
  <2>3. ~Creates(c, s) /\ ~Closes(c, s) /\ ~Winner(c, s)
    BY <1>2 DEF Creates, Closes, Winner, Runs
  <2>4. QED BY <1>2, <2>2, <2>3, KeptBy
<1>5. QED BY <1>1, <1>3, <1>4 DEF Consume

LEMMA UpdateKeeps ==
  ASSUME P!Inv, ServiceInv, ServiceInv', NEW p \in Procs, UpdateNext(p), NEW s \in Orders
  PROVE  Kept(s)
<1>1. /\ Types /\ P!TypeOK /\ JobShape(p)
      /\ won[p] => pc[p] = "delKeys"
  BY DEF ServiceInv, P!Inv, P!Shape, P!CallShape, P!OneShape
<1>2. ASSUME NEW ok \in BOOLEAN, Answer(p, ok), Model!Return(p), UNCHANGED db,
             job[p] # None, job[p].kind = "update", ~Winner(p, s)
      PROVE  Kept(s)
  <2>1. \A q \in Procs : q # p => job'[q] = job[q]
    BY <1>1, <1>2, SetJobIs DEF Answer
  <2>2. \A q \in Procs : q # p => Same(q)
    BY <1>1, <1>2, <2>1, ReturnIs
  <2>3. QED BY <1>1, <1>2, <2>2, KeptByAnswer
<1>3. CASE UpdateReturnEarly(p)
  <2>1. /\ job[p] # None /\ job[p].kind = "update" /\ pc[p] \in {"held", "notFound"}
        /\ Model!Return(p) /\ UNCHANGED db
    BY <1>3 DEF UpdateReturnEarly, Runs, Model!Release
  <2>2. ~Winner(p, s)
    BY <1>1, <2>1 DEF Winner
  <2>3. \E ok \in BOOLEAN : Answer(p, ok)
    BY <1>3 DEF UpdateReturnEarly
  <2>4. QED BY <1>2, <2>1, <2>2, <2>3
<1>4. CASE UpdateBegin(p)
  BY <1>4, KeptAlong DEF UpdateBegin, Model!BeginUpdate
<1>5. CASE UpdateEnd(p)
  <2>1. /\ job[p] # None /\ job[p].kind = "update" /\ Model!Return(p) /\ UNCHANGED db
        /\ won[p] \in BOOLEAN
    BY <1>1, <1>5 DEF UpdateEnd, Runs, Model!DelKeys, Model!DelLater, P!TypeOK
  <2>2. CASE won[p] /\ job[p].to = WaitUse
    <3>1. /\ job'[p] # None /\ job'[p].kind = "notify" /\ job'[p].sn = job[p].sn
          /\ job'[p].msg = job[p].msg
          /\ \A q \in Procs : q # p => job'[q] = job[q]
          /\ task' = task
      BY <1>1, <1>5, <2>1, <2>2, NextKind DEF UpdateEnd, Kinds
    <3>2. \A q \in Procs : q # p => Same(q)
      BY <1>1, <2>1, <3>1, ReturnIs
    <3>3. /\ ~Creates(p, s) /\ (Closes(p, s) => Closes(p, s)')
          /\ Winner(p, s) => Winner(p, s)'
      BY <2>1, <3>1 DEF Creates, Closes, Winner, Runs
    <3>4. QED BY <2>1, <3>1, <3>2, <3>3, KeptBy
  <2>3. CASE ~(won[p] /\ job[p].to = WaitUse)
    <3>1. Answer(p, won[p]) /\ ~Winner(p, s)
      BY <1>5, <2>1, <2>3 DEF UpdateEnd, Winner
    <3>2. QED BY <1>2, <2>1, <3>1
  <2>4. QED BY <2>2, <2>3
<1>6. CASE EnqueueNotify(p)
  <2>1. /\ job[p] # None /\ job[p].kind = "notify" /\ Answer(p, TRUE)
        /\ UNCHANGED <<db, pc, sn, want, won>>
    BY <1>6 DEF EnqueueNotify, Runs, modelVars
  <2>2. \A q \in Procs : q # p => Same(q)
    BY <1>1, <2>1, SetJobIs DEF Answer, Same
  <2>3. Winner(p, s) => notify'[s] = notify[s] + 1 \/ faults' = faults + 1
    BY <1>1, <1>6 DEF EnqueueNotify, Fault, Winner, Types
  <2>4. QED BY <1>1, <2>1, <2>2, <2>3, KeptByAnswer
<1>7. QED BY <1>3, <1>4, <1>5, <1>6 DEF UpdateNext

LEMMA StepKept ==
  ASSUME P!Inv, ServiceInv, NEW p \in Procs, Step(p), NEW s \in Orders
  PROVE  Kept(s)
<1>1. /\ P!TypeOK /\ s \in Sns /\ UNCHANGED <<job, task>>
      /\ \A q \in Procs : won[q] => pc[q] = "delKeys"
      /\ pc[p] = "cas" => db[sn[p]] # None
  BY DEF P!Inv, P!Shape, P!CallShape, P!OneShape, Sns, Step
<1>2. CASE Model!UpdateRow(p)
  <2>1. \A q \in Procs : won[q] => won'[q]
    BY <1>1, <1>2 DEF Model!UpdateRow, P!TypeOK
  <2>2. db[s] = None => db'[s] = None
    BY <1>1, <1>2 DEF Model!UpdateRow, Model!Write, P!TypeOK
  <2>3. QED BY <1>1, <2>1, <2>2, KeptAlong
<1>3. CASE Model!DelNew(p)
  <2>1. \A q \in Procs : won[q] => won'[q]
    BY <1>1, <1>3 DEF Model!DelNew, Model!Return, P!TypeOK
  <2>2. QED BY <1>1, <1>3, <2>1, KeptAlong DEF Model!DelNew
<1>4. CASE ~Model!UpdateRow(p) /\ ~Model!DelNew(p)
  <2>1. UNCHANGED <<db, won>>
    BY <1>1, <1>4, ReadIs DEF Step
  <2>2. QED BY <1>1, <2>1, KeptAlong
<1>5. QED BY <1>2, <1>3, <1>4

LEMMA FailCallKept ==
  ASSUME P!Inv, ServiceInv, NEW p \in Procs, FailCall(p), NEW s \in Orders
  PROVE  Kept(s)
<1>1. Types /\ P!TypeOK /\ job[p] # None /\ faults' = faults + 1
  BY DEF ServiceInv, P!Inv, P!Shape, FailCall, Fault
<1>2. \A q \in Procs : q # p => job'[q] = job[q]
  BY <1>1, SetJobIs DEF FailCall
<1>3. db' = db /\ \A q \in Procs : q # p => Same(q)
  <2>1. CASE pc[p] = "idle"
    BY <1>2, <2>1 DEF FailCall, modelVars, Same
  <2>2. CASE pc[p] # "idle"
    BY <1>1, <1>2, <2>2, ReturnIs DEF FailCall, Model!Abandon
  <2>3. QED BY <2>1, <2>2
<1>4. CASE p \in Workers /\ job[p].sn = s
  <2>1. task'[s] = "scheduled"
    BY <1>1, <1>4 DEF FailCall, RetryTask, Types
  <2>2. QED BY <1>1, <1>3, <2>1, KeptBy
<1>5. CASE ~(p \in Workers /\ job[p].sn = s)
  <2>1. task'[s] = task[s] /\ ~Closes(p, s)
    BY <1>1, <1>5 DEF FailCall, RetryTask, Types, Closes
  <2>2. QED BY <1>1, <1>3, <2>1, KeptBy
<1>6. QED BY <1>4, <1>5

LEMMA NextKeeps ==
  ASSUME P!Inv, ServiceInv, ServiceInv', [Next]_vars, NEW s \in Orders
  PROVE  Kept(s)
<1>1. ASSUME NEW m \in Messages, Publish(m)
      PROVE  Kept(s)
  BY <1>1, KeptAlong DEF Publish, modelVars
<1>2. CASE Cache
  BY <1>2, KeptAlong
     DEF Cache, Model!CacheStep, Model!CleanKeys, Model!ExpireRow, Model!ExpireSn,
         Model!procVars
<1>3. CASE UNCHANGED vars
  BY <1>3, KeptAlong DEF vars, modelVars
<1>4. QED
  BY <1>1, <1>2, <1>3, UserKeeps, WorkerKeeps, ConsumerKeeps, UpdateKeeps, StepKept,
     FailCallKept DEF Next

-----------------------------------------------------------------------------
(* The promises of the service                                             *)

\* Types of the order service and of its model, for any constants.
THEOREM OrderTypes == Spec => []TypeOK
<1>1. P!Inv /\ ServiceInv => TypeOK
  BY DEF P!Inv, P!Shape, P!TypeOK, P!Row, P!PCs, Model!TypeOK, Model!Row, Model!PCs,
         ServiceInv, Types, TypeOK
<1>2. QED BY <1>1, ModelInv, ServiceHolds, PTL

\* closeOrder.go:30-55: the close job is done with an order only when
\* it is paid or cancelled, whatever rows it decided on and whatever failed.
THEOREM ClosesAreDecided == Spec => []FinishedCloseMeansDecided
<1>1. ServiceInv => FinishedCloseMeansDecided
  BY DEF ServiceInv, OrderInv, Decided, FinishedCloseMeansDecided
<1>2. QED BY <1>1, ServiceHolds, PTL

\* updateHomestayOrderTradeStateLogic.go:34-83: of any number of results and
\* handlers, at most one tells the user that his order is paid, and it is.
THEOREM NotifiesOnce == Spec => []NotifiedOnceAndPaid
<1>1. ServiceInv => NotifiedOnceAndPaid
  <2> SUFFICES ASSUME ServiceInv, NEW s \in Orders
               PROVE  /\ notify[s] <= 1
                      /\ notify[s] = 1 => db[s].val \notin {WaitPay, Cancel}
    BY DEF NotifiedOnceAndPaid
  <2>1. notify[s] \in {0, 1} /\ (notify[s] = 1 => Paid(s))
    BY DEF ServiceInv, OrderInv
  <2>2. QED BY <2>1 DEF Paid
<1>2. QED BY <1>1, ServiceHolds, PTL

\* paymentUpdateStatus.go:34-65: as long as nothing breaks, a successful result
\* that the consumer fails on, and that Kafka therefore never delivers again, was
\* for an order that had been decided already.
THEOREM DropsWereLate == Spec => []DroppedResultsWereLate
<1>1. ServiceInv => DroppedResultsWereLate
  BY DEF ServiceInv, MessageInv, Decided, DroppedResultsWereLate
<1>2. QED BY <1>1, ServiceHolds, PTL
\* updateHomestayOrderTradeStateLogic.go:33-84, createHomestayOrderLogic.go:41-116:
\* the order service with its cache, its handlers, asynq and Kafka implements the
\* life of an order.
THEOREM OrdersFollowLifecycle == Spec => FollowsLifecycle
<1>1. Init => Life!Init
  <2> SUFFICES ASSUME Init PROVE Life!Init
    OBVIOUS
  <2>1. \A s \in Orders : db[s] = None
    BY DEF Init, Model!Init, Sns
  <2>2. OrderState = [s \in Orders |-> None]
    BY <2>1 DEF OrderState
  <2>3. Owed = {}
    BY DEF Init, Owed, Winner
  <2>4. QED BY <2>2, <2>3 DEF Init, Life!Init
<1>2. P!Inv /\ ServiceInv /\ [Next]_vars => [Life!Next]_(Life!vars)
  BY ServiceNext DEF Advances, Lives
<1>3. QED
  BY <1>1, <1>2, ServiceHolds, ModelInv, PTL DEF Spec, FollowsLifecycle, Life!Spec

\* What the next two theorems say of a step, as the properties name it.
WatchStep ==
  \A s \in Orders :
    /\ db[s] = None /\ db'[s] # None => Watched(s)'
    /\ Watched(s) => \/ Watched(s)'
                     \/ db'[s].val # WaitPay
                     \/ Creating(s) /\ faults' = faults + 1

AnnounceStep ==
  \A s \in Orders :
    /\ OrderState[s] # WaitUse /\ OrderState'[s] = WaitUse => s \in Owed'
    /\ s \in Owed => \/ s \in Owed'
                     \/ notify'[s] = notify[s] + 1
                     \/ faults' = faults + 1

\* createHomestayOrderLogic.go:94-113, closeOrder.go:30-55: an order that waits
\* for payment has its creator, asynq or a worker that will look after it, whatever
\* failed, unless the creator itself lost the close task.
THEOREM OrdersAreWatched == Spec => WaitingIsWatched
<1>1. P!Inv /\ ServiceInv /\ ServiceInv' /\ [Next]_vars => [WatchStep]_vars
  <2> SUFFICES ASSUME P!Inv, ServiceInv, ServiceInv', [Next]_vars PROVE WatchStep
    OBVIOUS
  <2>1. ASSUME NEW s \in Orders
        PROVE  /\ db[s] = None /\ db'[s] # None => Watched(s)'
               /\ Watched(s) => \/ Watched(s)'
                                \/ db'[s].val # WaitPay
                                \/ Creating(s) /\ faults' = faults + 1
    BY <2>1, NextKeeps DEF Kept, StaysWatched, Decided
  <2>2. QED BY <2>1 DEF WatchStep
<1>2. QED BY <1>1, ModelInv, ServiceHolds, PTL DEF Spec, WaitingIsWatched, WatchStep

\* updateHomestayOrderTradeStateLogic.go:56-83: the handler whose UPDATE made an
\* order paid announces it, or fails in doing so.
THEOREM PaidOrdersAreAnnounced == Spec => PaidIsAnnounced
<1>1. P!Inv /\ ServiceInv /\ ServiceInv' /\ [Next]_vars => [AnnounceStep]_vars
  <2> SUFFICES ASSUME P!Inv, ServiceInv, ServiceInv', [Next]_vars PROVE AnnounceStep
    OBVIOUS
  <2>1. ASSUME NEW s \in Orders
        PROVE  s \in Owed => \/ s \in Owed'
                             \/ notify'[s] = notify[s] + 1
                             \/ faults' = faults + 1
    BY <2>1, NextKeeps DEF Kept, StaysOwed
  <2>2. ASSUME NEW s \in Orders, OrderState[s] # WaitUse, OrderState'[s] = WaitUse
        PROVE  s \in Owed'
    <3>1. WaitPay # WaitUse
      BY DEF WaitPay, WaitUse
    <3>2. PICK t \in Orders : Life!Change(t) \/ OrderState' = OrderState \/ Life!Begin(t)
      BY <2>2, ServiceNext DEF Advances, Lives, Life!Next, Life!Announce, Life!Fail, Life!vars
    <3>3. \A v : OrderState' = [OrderState EXCEPT ![t] = v] => t = s /\ v = WaitUse
      BY <2>2 DEF OrderState
    <3>4. Life!Change(t) /\ t = s
      BY <2>2, <3>1, <3>2, <3>3 DEF Life!Change, Life!Begin
    <3>5. QED BY <3>3, <3>4 DEF Life!Change
  <2>3. QED BY <2>1, <2>2 DEF AnnounceStep
<1>2. QED BY <1>1, ModelInv, ServiceHolds, PTL DEF Spec, PaidIsAnnounced, AnnounceStep
=============================================================================
