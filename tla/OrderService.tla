----------------------------- MODULE OrderService -----------------------------
(***************************************************************************)
(* The order service and its asynchronous clients: the RPC handlers        *)
(* CreateHomestayOrder, HomestayOrderDetail and                            *)
(* UpdateHomestayOrderTradeState over the cached order model, the delayed  *)
(* close job of mqueue-job with asynq's retries, and the Kafka consumer of *)
(* order-mq that turns payment results into order states.                  *)
(*                                                                         *)
(* A process is a client together with the goroutine of order-rpc that     *)
(* serves its call.  A message names an order by serial number; which      *)
(* number the payment service puts there is the subject of FlashSale.      *)
(***************************************************************************)
EXTENDS States, FiniteSets

CONSTANTS
  Users,      \* callers of create and detail: order-api and payment-api
  Workers,    \* asynq workers of mqueue-job
  Consumers,  \* Kafka consumers of order-mq
  Orders,     \* serial numbers an order may be created with
  Strangers,  \* serial numbers that no order has
  Messages,   \* payment results: [id, sn, pay]
  None,
  MaxFaults   \* bound on failures of calls, deletions and enqueues

Procs == Users \union Workers \union Consumers
Sns == Orders \union Strangers

VARIABLES db, idKey, snKey, unsent, pc, sn, read, data, want, won, committed

Model == INSTANCE CachedModel
           WITH Vals <- TradeStates, InitVals <- {WaitPay}, Allowed <- OrderChanges

\* "create" and "notify" stand before their enqueue, "close" between the two
\* RPCs of the close job.
Kinds == {"create", "detail", "check", "close", "update", "notify"}
Job(kind, s, to, msg) == [kind |-> kind, sn |-> s, to |-> to, msg |-> msg]
Jobs == [kind : Kinds, sn : Sns, to : TradeStates \union {None},
         msg : Messages \union {None}]

\* None is not confused with anything else.
ASSUME OrderServiceAssumption ==
  /\ MaxFaults \in Nat
  /\ Orders \intersect Strangers = {}
  /\ \A m \in Messages : m.sn \in Sns /\ m.pay \in PayStates
  /\ None \notin Jobs /\ None \notin Messages /\ None \notin Sns
  /\ None \notin TradeStates
  /\ None \notin Model!Row /\ None \notin [sn : Sns, row : Model!Row]

VARIABLES
  job,      \* the handler each process runs: its kind, serial number, message
  task,     \* asynq: the close task of each order
  notify,   \* asynq: notification tasks enqueued for each order
  topic,    \* Kafka: where each message is
  faults    \* faults so far

modelVars == <<db, idKey, snKey, unsent, pc, sn, read, data, want, won, committed>>
vars == <<modelVars, job, task, notify, topic, faults>>

TypeOK ==
  /\ Model!TypeOK
  /\ job \in [Procs -> Jobs \union {None}]
  /\ task \in [Orders -> {"none", "scheduled", "active", "done"}]
  /\ notify \in [Orders -> Nat]
  /\ topic \in [Messages -> {"unsent", "pending", "taken", "done", "dropped"}]
  /\ faults \in 0..MaxFaults

Init ==
  /\ Model!Init
  /\ job = [p \in Procs |-> None]
  /\ task = [s \in Orders |-> "none"]
  /\ notify = [s \in Orders |-> 0]
  /\ topic = [m \in Messages |-> "unsent"]
  /\ faults = 0

-----------------------------------------------------------------------------
Runs(p, kind) == job[p] # None /\ job[p].kind = kind
SetJob(p, j) == job' = [job EXCEPT ![p] = j]

\* A call of FindOneBySn starts: its own GET or a flight of the same replica.
Lookup(p, s) ==
  \/ Model!GetSn(p, s)
  \/ \E q \in Procs : Model!ShareSn(p, q) /\ sn'[p] = s

Fault == faults < MaxFaults /\ faults' = faults + 1

\* Mutants of RetryTask: the error is not returned to asynq; the task of a
\* crashed worker is not recovered.
ForgetTask(s) == task' = [task EXCEPT ![s] = "done"]
LoseTask(s) == UNCHANGED task

\* The task failed: asynq schedules it again.  Its limit of 25 retries, spread
\* over days, is not modelled.
RetryTask(s) == task' = [task EXCEPT ![s] = "scheduled"]

\* The client of an update RPC learns whether it succeeded.  The close job
\* fails its task on an error.  The consumer's message is committed either
\* way: kq commits what its handler failed on.
Answer(p, ok) ==
  /\ SetJob(p, None)
  /\ IF job[p].msg = None
     THEN /\ IF ok THEN task' = [task EXCEPT ![job[p].sn] = "done"]
                   ELSE RetryTask(job[p].sn)
          /\ UNCHANGED topic
     ELSE /\ topic' = [topic EXCEPT ![job[p].msg] = IF ok THEN "done" ELSE "dropped"]
          /\ UNCHANGED task

-----------------------------------------------------------------------------
(* CreateHomestayOrder                                                     *)

Create(u, s) ==
  /\ job[u] = None
  /\ Model!InsertRow(u, s, WaitPay)
  /\ SetJob(u, Job("create", s, None, None))
  /\ UNCHANGED <<task, notify, topic, faults>>

\* The delayed close task; a failed enqueue is only logged.
EnqueueClose(u) ==
  /\ Runs(u, "create") /\ pc[u] = "idle"
  /\ \/ task' = [task EXCEPT ![job[u].sn] = "scheduled"] /\ UNCHANGED faults
     \/ Fault /\ UNCHANGED task
  /\ SetJob(u, None)
  /\ UNCHANGED <<modelVars, notify, topic>>

-----------------------------------------------------------------------------
(* HomestayOrderDetail, called by the APIs.                                *)

Detail(u, s) ==
  /\ job[u] = None
  /\ db[s] # None
  /\ Lookup(u, s)
  /\ SetJob(u, Job("detail", s, None, None))
  /\ UNCHANGED <<task, notify, topic, faults>>

DetailReturn(u) ==
  /\ Runs(u, "detail")
  /\ Model!Release(u)
  /\ SetJob(u, None)
  /\ UNCHANGED <<task, notify, topic, faults>>

-----------------------------------------------------------------------------
(* The close job: ProcessTask of CloseHomestayOrderHandler.                *)

\* The delay has passed: the worker asks for the order.
StartClose(w, s) ==
  /\ job[w] = None
  /\ task[s] = "scheduled"
  /\ Lookup(w, s)
  /\ task' = [task EXCEPT ![s] = "active"]
  /\ SetJob(w, Job("check", s, None, None))
  /\ UNCHANGED <<notify, topic, faults>>

\* Only an order that looks unpaid is closed.
CheckWaitPay(w) ==
  /\ Runs(w, "check") /\ pc[w] = "held"
  /\ Model!Release(w)
  /\ IF data[w].val = WaitPay
     THEN /\ SetJob(w, Job("close", job[w].sn, Cancel, None))
          /\ UNCHANGED task
     ELSE /\ SetJob(w, None)
          /\ task' = [task EXCEPT ![job[w].sn] = "done"]
  /\ UNCHANGED <<notify, topic, faults>>

\* The second RPC, which reads the order again.
CallCancel(w) ==
  /\ Runs(w, "close")
  /\ Lookup(w, job[w].sn)
  /\ SetJob(w, [job[w] EXCEPT !.kind = "update"])
  /\ UNCHANGED <<task, notify, topic, faults>>

-----------------------------------------------------------------------------
(* The consumer: PaymentUpdateStatusMq.                                    *)

\* The payment service publishes a result for an order that exists, or with a
\* number that is no order's.
Publish(m) ==
  /\ topic[m] = "unsent"
  /\ m.sn \in Orders => db[m.sn] # None
  /\ topic' = [topic EXCEPT ![m] = "pending"]
  /\ UNCHANGED <<modelVars, job, task, notify, faults>>

Consume(c, m) ==
  /\ job[c] = None
  /\ topic[m] = "pending"
  /\ LET to == getOrderTradeStateByPaymentTradeState(m.pay) IN
     IF to = Ignored
     THEN /\ topic' = [topic EXCEPT ![m] = "done"]
          /\ UNCHANGED <<modelVars, job>>
     ELSE /\ topic' = [topic EXCEPT ![m] = "taken"]
          /\ Lookup(c, m.sn)
          /\ SetJob(c, Job("update", m.sn, to, m))
  /\ UNCHANGED <<task, notify, faults>>

-----------------------------------------------------------------------------
(* UpdateHomestayOrderTradeState, after FindOneBySn.                       *)

\* No such order, the state is already there, or the check refuses.
UpdateReturnEarly(p) ==
  /\ Runs(p, "update")
  /\ \/ pc[p] = "notFound" /\ Answer(p, FALSE)
     \/ /\ pc[p] = "held"
        /\ data[p].val = job[p].to
        /\ Answer(p, TRUE)
     \/ /\ pc[p] = "held"
        /\ data[p].val # job[p].to
        /\ ~verifyOrderTradeState(job[p].to, data[p].val)
        /\ Answer(p, FALSE)
  /\ Model!Release(p)
  /\ UNCHANGED <<notify, faults>>

\* Mutant: the change is not verified.
UpdateUnverified(p) ==
  /\ Runs(p, "update") /\ pc[p] = "held" /\ data[p].val # job[p].to
  /\ want' = [want EXCEPT ![p] = job[p].to]
  /\ pc' = [pc EXCEPT ![p] = "getRow"]
  /\ UNCHANGED <<db, committed, idKey, snKey, unsent, sn, read, data, won>>
  /\ UNCHANGED <<job, task, notify, topic, faults>>

UpdateBegin(p) ==
  /\ Runs(p, "update")
  /\ Model!BeginUpdate(p, job[p].to)
  /\ UNCHANGED <<job, task, notify, topic, faults>>

\* Mutant of UpdateEnd: ErrNoRowsUpdate is ignored.
UpdateEndAnyway(p) ==
  /\ Runs(p, "update") /\ pc[p] = "delKeys"
  /\ \/ Model!DelKeys(p) /\ UNCHANGED faults
     \/ Model!DelLater(p) /\ Fault
  /\ IF job[p].to = WaitUse
     THEN SetJob(p, [job[p] EXCEPT !.kind = "notify"]) /\ UNCHANGED <<task, topic>>
     ELSE Answer(p, TRUE)
  /\ UNCHANGED notify

\* UpdateWithVersion returns: an error unless its UPDATE matched; an order
\* that became WaitUse is announced first.
UpdateEnd(p) ==
  /\ Runs(p, "update") /\ pc[p] = "delKeys"
  /\ \/ Model!DelKeys(p) /\ UNCHANGED faults
     \/ Model!DelLater(p) /\ Fault
  /\ IF won[p] /\ job[p].to = WaitUse
     THEN SetJob(p, [job[p] EXCEPT !.kind = "notify"]) /\ UNCHANGED <<task, topic>>
     ELSE Answer(p, won[p])
  /\ UNCHANGED notify

\* Mutant of EnqueueNotify: the task is not enqueued.
NotifyNobody(p) ==
  /\ Runs(p, "notify")
  /\ Answer(p, TRUE)
  /\ UNCHANGED <<modelVars, notify, faults>>

\* The notification task; a failed enqueue is only logged.
EnqueueNotify(p) ==
  /\ Runs(p, "notify")
  /\ \/ notify' = [notify EXCEPT ![job[p].sn] = @ + 1] /\ UNCHANGED faults
     \/ Fault /\ UNCHANGED notify
  /\ Answer(p, TRUE)
  /\ UNCHANGED modelVars

-----------------------------------------------------------------------------
(* Inside the model, and failures                                          *)

\* Redis and MySQL round trips of the call p is in.
Step(p) ==
  /\ \/ Model!SelectSn(p) \/ Model!MarkAbsent(p) \/ Model!SetRow(p) \/ Model!SetSn(p)
     \/ Model!GetRow(p) \/ Model!SelectRow(p) \/ Model!FillRow(p)
     \/ Model!UpdateRow(p) \/ Model!DelNew(p)
     \/ \E q \in Procs : Model!ShareRow(p, q)
  /\ UNCHANGED <<job, task, notify, topic, faults>>

DelNewLater(u) ==
  /\ Runs(u, "create") /\ pc[u] = "delNew"
  /\ Model!DelLater(u)
  /\ Fault
  /\ UNCHANGED <<job, task, notify, topic>>

Cache ==
  /\ \E s \in Sns : Model!CacheStep(s)
  /\ UNCHANGED <<job, task, notify, topic, faults>>

\* The call fails in the middle: an error of MySQL or Redis, a deadline, a
\* crash.  A task is retried; a message is dropped on an error, and delivered
\* again if the consumer died before committing it.
FailCall(p) ==
  /\ job[p] # None
  /\ Fault
  /\ SetJob(p, None)
  /\ IF pc[p] = "idle" THEN UNCHANGED modelVars ELSE Model!Abandon(p)
  /\ IF p \in Workers THEN RetryTask(job[p].sn) ELSE UNCHANGED task
  /\ IF p \in Consumers
     THEN \E after \in {"dropped", "pending"} : topic' = [topic EXCEPT ![job[p].msg] = after]
     ELSE UNCHANGED topic
  /\ UNCHANGED notify

-----------------------------------------------------------------------------
UserNext(u) ==
  \/ \E s \in Orders : Create(u, s) \/ Detail(u, s)
  \/ EnqueueClose(u) \/ DetailReturn(u) \/ DelNewLater(u)

WorkerNext(w) ==
  \/ \E s \in Orders : StartClose(w, s)
  \/ CheckWaitPay(w) \/ CallCancel(w)

ConsumerNext(c) == \E m \in Messages : Consume(c, m)

UpdateNext(p) ==
  UpdateReturnEarly(p) \/ UpdateBegin(p) \/ UpdateEnd(p) \/ EnqueueNotify(p)

Next ==
  \/ \E u \in Users : UserNext(u)
  \/ \E w \in Workers : WorkerNext(w)
  \/ \E c \in Consumers : ConsumerNext(c)
  \/ \E p \in Procs : UpdateNext(p) \/ Step(p) \/ FailCall(p)
  \/ \E m \in Messages : Publish(m)
  \/ Cache

\* Goroutines that can run do: a call proceeds to its end unless it fails, and
\* asynq hands a due task to a worker.  Nothing forces users, messages, the
\* cache's expiry or faults.
Fairness ==
  /\ \A w \in Workers : WF_vars(WorkerNext(w))
  /\ \A p \in Procs : WF_vars(UpdateNext(p) \/ Step(p))

Spec == Init /\ [][Next]_vars /\ Fairness

-----------------------------------------------------------------------------
(* Properties                                                              *)

\* The right to tell the user that s is paid: p has made it so.
Winner(p, s) ==
  /\ job[p] # None /\ job[p].sn = s
  /\ \/ job[p].kind = "notify"
     \/ job[p].kind = "update" /\ won[p] /\ job[p].to = WaitUse

OrderState == [s \in Orders |-> IF db[s] = None THEN None ELSE db[s].val]
Owed == {s \in Orders : \E p \in Procs : Winner(p, s)}

Life == INSTANCE Lifecycle
          WITH Items <- Orders, States <- TradeStates, InitStates <- {WaitPay},
               Changes <- OrderChanges, Announced <- {WaitUse},
               state <- OrderState, owed <- Owed, told <- notify

\* Seen without the cache and the handlers, an order goes from the state it is in
\* to one that may follow, and the change to WaitUse is announced by who made it.
FollowsLifecycle == Life!Spec

\* A close task that is finished found or left its order decided: a stale row
\* never makes the job forget an order that still waits for payment.
FinishedCloseMeansDecided ==
  \A s \in Orders : task[s] = "done" => db[s].val # WaitPay

\* However often results are delivered and calls repeated, the user is told at
\* most once that the payment succeeded, and never about a cancelled order.
NotifiedOnceAndPaid ==
  \A s \in Orders : /\ notify[s] <= 1
                    /\ notify[s] = 1 => db[s].val \notin {WaitPay, Cancel}

\* Kafka does not redeliver a result whose handling failed.  Unless something
\* broke, that loses no payment of an order that still waits for it: the
\* handling fails only when the order was decided otherwise.
DroppedResultsWereLate ==
  \A m \in Messages :
    topic[m] = "dropped" /\ faults = 0 /\ m.pay = PaySuccess /\ m.sn \in Orders
      => db[m.sn].val # WaitPay

\* Somebody will look whether s has been paid: its creator, who has the close task
\* still to enqueue, asynq, or a worker that has the task in hand.
Creating(s) == \E u \in Users : Runs(u, "create") /\ job[u].sn = s
Closing(s) ==
  /\ task[s] = "active"
  /\ \E w \in Workers :
       /\ job[w] # None /\ job[w].sn = s /\ job[w].msg = None
       /\ job[w].kind \in {"check", "close", "update", "notify"}
Watched(s) == Creating(s) \/ task[s] = "scheduled" \/ Closing(s)

\* No order is forgotten: from its creation on it is watched until it is decided,
\* whatever fails.  There is one way out: a failure that takes the close task
\* from its creator before the task is enqueued.
WaitingIsWatched ==
  [][\A s \in Orders :
       /\ db[s] = None /\ db'[s] # None => Watched(s)'
       /\ Watched(s) => \/ Watched(s)'
                        \/ db'[s].val # WaitPay
                        \/ Creating(s) /\ faults' = faults + 1]_vars

\* Who makes an order paid owes the announcement, and is rid of it only by
\* enqueuing it or by a failure in that very step; a failure of anybody else, a
\* lost race or a repeated result takes it from nobody.
PaidIsAnnounced ==
  [][\A s \in Orders :
       /\ OrderState[s] # WaitUse /\ OrderState'[s] = WaitUse => s \in Owed'
       /\ s \in Owed => \/ s \in Owed'
                        \/ notify'[s] = notify[s] + 1
                        \/ faults' = faults + 1]_vars

\* An order whose close task was enqueued does not wait for payment forever.
OrdersGetDecided ==
  <>[](\A s \in Orders :
         task[s] # "none" => db[s] # None /\ db[s].val # WaitPay)
=============================================================================
