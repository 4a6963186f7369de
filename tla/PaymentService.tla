---------------------------- MODULE PaymentService ----------------------------
(***************************************************************************)
(* The payment service: the pre-pay call of payment-api, which creates a   *)
(* payment and registers it with WeChat Pay, WeChat's notification, which  *)
(* payment-api checks and turns into UpdateTradeState of payment-rpc, and  *)
(* the publication of the result to Kafka.  WeChat Pay is external: it     *)
(* notifies each result until an answer of status 200, and may notify      *)
(* while an earlier notification is still being handled.                   *)
(*                                                                         *)
(* The state column of the model is here what UpdateTradeState writes into *)
(* a payment's row, but for the time: pay_status and trade_state.          *)
(***************************************************************************)
EXTENDS States

CONSTANTS
  Payers,     \* pre-pay calls in payment-api
  Callbacks,  \* notification handlers in payment-api
  Payments,   \* serial numbers of payments
  None,
  MaxFaults   \* bound on failures of calls, deletions and pushes

Procs == Payers \union Callbacks

Columns == [status : PayStates, trade : WxTradeStates \union {""}]
Fresh == [status |-> PayWait, trade |-> ""]

ColumnChanges ==
  {change \in Columns \X Columns :
     <<change[1].status, change[2].status>> \in PaymentChanges}

VARIABLES db, idKey, snKey, unsent, pc, sn, read, data, want, won, committed

Model == INSTANCE CachedModel
           WITH Sns <- Payments, Vals <- Columns, InitVals <- {Fresh},
                Allowed <- ColumnChanges

\* What a handler is in.  The kinds are "create", "prepay" before the call to
\* WeChat, "check", "call" between the two RPCs of the notification handler,
\* "update", and "publish" before the push.
Jobs ==
  [kind : {"create", "prepay", "check", "call", "update", "publish"},
   sn : Payments, trade : WxTradeStates \union {""}]

Job(kind, s, st) == [kind |-> kind, sn |-> s, trade |-> st]

\* None is not confused with anything else.
ASSUME PaymentServiceAssumption ==
  /\ MaxFaults \in Nat
  /\ None \notin Jobs /\ None \notin Payments /\ None \notin Columns
  /\ None \notin Model!Row /\ None \notin [sn : Payments, row : Model!Row]

VARIABLES
  job,        \* the handler each process runs
  discounted, \* payments whose payer_total will differ from pay_total
  wx,         \* WeChat: "none", then "prepaid", then the trade state
  notices,    \* WeChat: results still to be notified, <<sn, trade state>>
  published,  \* Kafka: how often success was pushed for each payment
  faults

modelVars == <<db, idKey, snKey, unsent, pc, sn, read, data, want, won, committed>>
vars == <<modelVars, discounted, job, wx, notices, published, faults>>

Init ==
  /\ Model!Init
  /\ discounted \in SUBSET Payments
  /\ job = [p \in Procs |-> None]
  /\ wx = [s \in Payments |-> "none"]
  /\ notices = {}
  /\ published = [s \in Payments |-> 0]
  /\ faults = 0

-----------------------------------------------------------------------------
Runs(p, kind) == job[p] # None /\ job[p].kind = kind
SetJob(p, j) == job' = [job EXCEPT ![p] = j]
Fault == faults < MaxFaults /\ faults' = faults + 1

Lookup(p, s) ==
  \/ Model!GetSn(p, s)
  \/ \E q \in Procs : Model!ShareSn(p, q) /\ sn'[p] = s

\* Mutant of Answer: every notification is answered with 200.
AnswerAlways200(c, ok) ==
  /\ SetJob(c, None)
  /\ notices' = notices \ {<<job[c].sn, job[c].trade>>}

\* The notification is answered: with 200 WeChat stops repeating it, with 400
\* it does not.
Answer(c, ok) ==
  /\ SetJob(c, None)
  /\ notices' = IF ok THEN notices \ {<<job[c].sn, job[c].trade>>} ELSE notices

-----------------------------------------------------------------------------
(* ThirdPaymentwxPay: pre-pay, for an order that exists.                   *)

CreatePayment(u, s) ==
  /\ job[u] = None
  /\ Model!InsertRow(u, s, Fresh)
  /\ SetJob(u, Job("create", s, ""))
  /\ UNCHANGED <<discounted, wx, notices, published, faults>>

\* CreatePayment returns, also when the DEL of its keys failed ...
CreateReturn(u) ==
  /\ Runs(u, "create")
  /\ \/ Model!DelNew(u) /\ UNCHANGED faults
     \/ Model!DelLater(u) /\ Fault
  /\ SetJob(u, [job[u] EXCEPT !.kind = "prepay"])
  /\ UNCHANGED <<discounted, wx, notices, published>>

\* ... and the payment is registered with WeChat under its serial number.
Prepay(u) ==
  /\ Runs(u, "prepay")
  /\ wx' = [wx EXCEPT ![job[u].sn] = "prepaid"]
  /\ SetJob(u, None)
  /\ UNCHANGED <<discounted, modelVars, notices, published, faults>>

-----------------------------------------------------------------------------
(* WeChat Pay (external)                                                   *)

\* The user pays, fails to pay or is still paying; a paid amount may later be
\* returned on the merchant's platform.  Every result is notified.
Settle(s, st) ==
  /\ \/ wx[s] \in {"prepaid", "USERPAYING"} /\ st \in {"SUCCESS", "PAYERROR", "USERPAYING"}
     \/ wx[s] = "SUCCESS" /\ st = "REFUND"
  /\ wx[s] # st
  /\ wx' = [wx EXCEPT ![s] = st]
  /\ notices' = notices \union {<<s, st>>}
  /\ UNCHANGED <<discounted, modelVars, job, published, faults>>

-----------------------------------------------------------------------------
(* ThirdPaymentWxPayCallback: verifyAndUpdateState                         *)

\* A notification arrives and its payment is asked for (GetPaymentBySn).
Notified(c, s, st) ==
  /\ job[c] = None
  /\ <<s, st>> \in notices
  /\ Lookup(c, s)
  /\ SetJob(c, Job("check", s, st))
  /\ UNCHANGED <<discounted, wx, notices, published, faults>>

\* The amounts must match; only a success of a waiting payment goes on.  Other
\* results are answered with 200 and nothing is written.
Verify(c) ==
  /\ Runs(c, "check") /\ pc[c] = "held"
  /\ Model!Release(c)
  /\ LET success == getPayStatusByWXPayTradeState(job[c].trade) = PaySuccess IN
     \/ job[c].sn \in discounted /\ Answer(c, FALSE)
     \/ /\ job[c].sn \notin discounted
        /\ success /\ data[c].val.status = PayWait
        /\ SetJob(c, [job[c] EXCEPT !.kind = "call"])
        /\ UNCHANGED notices
     \/ /\ job[c].sn \notin discounted
        /\ ~success \/ data[c].val.status # PayWait
        /\ Answer(c, TRUE)
  /\ UNCHANGED <<discounted, wx, published, faults>>

\* The second RPC, UpdateTradeState, which reads the payment again.
CallUpdate(c) ==
  /\ Runs(c, "call")
  /\ Lookup(c, job[c].sn)
  /\ SetJob(c, [job[c] EXCEPT !.kind = "update"])
  /\ UNCHANGED <<discounted, wx, notices, published, faults>>

-----------------------------------------------------------------------------
(* UpdateTradeState of payment-rpc                                         *)

\* What the row becomes.
Update(st) == [status |-> getPayStatusByWXPayTradeState(st), trade |-> st]

\* Somebody else recorded the payment: success, nothing to write or publish.
UpdateReturnEarly(c) ==
  /\ Runs(c, "update") /\ pc[c] = "held"
  /\ PaymentCheck(Update(job[c].trade).status, data[c].val.status) = "done"
  /\ Model!Release(c)
  /\ Answer(c, TRUE)
  /\ UNCHANGED <<discounted, wx, published, faults>>

\* Mutant: any state of the payment is replaced.
UpdateUnchecked(c) ==
  /\ Runs(c, "update") /\ pc[c] = "held"
  /\ want' = [want EXCEPT ![c] = Update(job[c].trade)]
  /\ pc' = [pc EXCEPT ![c] = "getRow"]
  /\ UNCHANGED <<db, committed, idKey, snKey, unsent, sn, read, data, won>>
  /\ UNCHANGED <<discounted, job, wx, notices, published, faults>>

UpdateBegin(c) ==
  /\ Runs(c, "update")
  /\ Model!BeginUpdate(c, Update(job[c].trade))
  /\ UNCHANGED <<discounted, job, wx, notices, published, faults>>

\* Mutant of UpdateEnd: ErrNoRowsUpdate is ignored.
UpdateEndAnyway(c) ==
  /\ Runs(c, "update") /\ pc[c] = "delKeys"
  /\ \/ Model!DelKeys(c) /\ UNCHANGED faults
     \/ Model!DelLater(c) /\ Fault
  /\ SetJob(c, [job[c] EXCEPT !.kind = "publish"])
  /\ UNCHANGED <<discounted, wx, notices, published>>

\* UpdateWithVersion returns; the winner goes on to publish.
UpdateEnd(c) ==
  /\ Runs(c, "update") /\ pc[c] = "delKeys"
  /\ \/ Model!DelKeys(c) /\ UNCHANGED faults
     \/ Model!DelLater(c) /\ Fault
  /\ IF won[c]
     THEN SetJob(c, [job[c] EXCEPT !.kind = "publish"]) /\ UNCHANGED notices
     ELSE Answer(c, FALSE)
  /\ UNCHANGED <<discounted, wx, published>>

\* Mutant of Push: nothing is pushed.
PushNothing(c) ==
  /\ Runs(c, "publish")
  /\ Answer(c, TRUE)
  /\ UNCHANGED <<discounted, modelVars, wx, published, faults>>

\* pubKqPaySuccess: a failed push is only logged, and the pusher may lose what
\* it has buffered.
Push(c) ==
  /\ Runs(c, "publish")
  /\ \/ published' = [published EXCEPT ![job[c].sn] = @ + 1] /\ UNCHANGED faults
     \/ Fault /\ UNCHANGED published
  /\ Answer(c, TRUE)
  /\ UNCHANGED <<discounted, modelVars, wx>>

-----------------------------------------------------------------------------
\* Round trips of the call p is in.  Nobody asks for an unknown serial number.
Step(p) ==
  /\ \/ Model!SelectSn(p) \/ Model!SetRow(p) \/ Model!SetSn(p)
     \/ Model!GetRow(p) \/ Model!SelectRow(p) \/ Model!FillRow(p)
     \/ Model!UpdateRow(p)
     \/ \E q \in Procs : Model!ShareRow(p, q)
  /\ UNCHANGED <<discounted, job, wx, notices, published, faults>>

Cache ==
  /\ \E s \in Payments : Model!CacheStep(s)
  /\ UNCHANGED <<discounted, job, wx, notices, published, faults>>

\* An error of MySQL, Redis or WeChat, a deadline or a crash ends the call; a
\* notification is then not answered with 200.
FailCall(p) ==
  /\ job[p] # None
  /\ Fault
  /\ SetJob(p, None)
  /\ IF pc[p] = "idle" THEN UNCHANGED modelVars ELSE Model!Abandon(p)
  /\ UNCHANGED <<discounted, wx, notices, published>>

CallbackNext(c) ==
  \/ Verify(c) \/ CallUpdate(c)
  \/ UpdateReturnEarly(c) \/ UpdateBegin(c) \/ UpdateEnd(c) \/ Push(c)
  \/ Step(c)

Next ==
  \/ \E u \in Payers, s \in Payments : CreatePayment(u, s)
  \/ \E u \in Payers : CreateReturn(u) \/ Prepay(u)
  \/ \E s \in Payments, st \in WxTradeStates : Settle(s, st)
  \/ \E c \in Callbacks, s \in Payments, st \in WxTradeStates : Notified(c, s, st)
  \/ \E c \in Callbacks : CallbackNext(c)
  \/ \E p \in Procs : FailCall(p)
  \/ Cache

\* Handlers run on, and WeChat repeats a success it got no 200 for.
Fairness ==
  /\ \A c \in Callbacks : WF_vars(CallbackNext(c))
  /\ \A s \in Payments :
       SF_vars(\E c \in Callbacks : Notified(c, s, "SUCCESS"))

Spec == Init /\ [][Next]_vars /\ Fairness

-----------------------------------------------------------------------------
(* Properties                                                              *)

Status(s) == IF db[s] = None THEN PayWait ELSE db[s].val.status

\* The right to publish the success of s: p has recorded it.
Winner(p, s) ==
  /\ job[p] # None /\ job[p].sn = s
  /\ job[p].kind = "publish" \/ (job[p].kind = "update" /\ won[p])

PaymentState == [s \in Payments |-> IF db[s] = None THEN None ELSE db[s].val]
Owed == {s \in Payments : \E p \in Procs : Winner(p, s)}

Life == INSTANCE Lifecycle
          WITH Items <- Payments, States <- Columns, InitStates <- {Fresh},
               Changes <- ColumnChanges,
               Announced <- {new \in Columns : new.status = PaySuccess},
               state <- PaymentState, owed <- Owed, told <- published

\* Seen without the cache and the handlers, a payment goes from the state it is in
\* to one that may follow, and its success is published by who recorded it.
FollowsLifecycle == Life!Spec

\* However many notifications of a payment are handled at once, its success is
\* published at most once, and only for a payment that WeChat reported paid.
PublishedOnceAndPaid ==
  \A s \in Payments :
    /\ published[s] <= 1
    /\ published[s] = 1 => Status(s) = PaySuccess /\ wx[s] \in {"SUCCESS", "REFUND"}

\* WeChat is told to stop notifying a success only when it is recorded, even
\* if the handler decided on a stale row.
AnsweredSuccessIsRecorded ==
  \A s \in Payments :
    wx[s] \in {"SUCCESS", "REFUND"} /\ <<s, "SUCCESS">> \notin notices
      => Status(s) = PaySuccess

\* Who records a success owes its publication, and is rid of it only by pushing
\* it or by a failure in that very step.  No failure of another call, repeated
\* notification or stale copy costs the order its result.
RecordedIsPublished ==
  [][\A s \in Payments :
       /\ Status(s) # PaySuccess /\ Status(s)' = PaySuccess => s \in Owed'
       /\ s \in Owed => \/ s \in Owed'
                        \/ published'[s] = published[s] + 1
                        \/ faults' = faults + 1]_vars

\* Unless something fails, every payment the user made is published, once the
\* amounts match.  (A push that fails after the commit is never repeated.)
PaidIsPublished ==
  <>[](\A s \in Payments :
         wx[s] \in {"SUCCESS", "REFUND"} /\ s \notin discounted
           => published[s] = 1 \/ faults > 0)
=============================================================================
