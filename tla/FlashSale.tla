------------------------------- MODULE FlashSale -------------------------------
(***************************************************************************)
(* The way of a payment through the whole system: an order is created with *)
(* its delayed close task, paid through WeChat Pay one or more times, the  *)
(* payment is recorded by payment-rpc and published to Kafka, and the      *)
(* consumer of order-mq and the close job compete for the order's state.   *)
(*                                                                         *)
(* Both tables are used at the grain of VersionedRow, which CachedModel    *)
(* implements: a caller takes a possibly stale row and replaces the        *)
(* current one only if its copy is current.  Nothing fails here; faults    *)
(* are the subject of OrderService and PaymentService.                     *)
(***************************************************************************)
EXTENDS States, FiniteSets

CONSTANTS
  Handlers,   \* processes: workers of mqueue-job, consumers, callbacks
  Orders,     \* serial numbers of orders
  Payments,   \* serial numbers of payments
  None

VARIABLES
  orders, orderRows, orderHand,         \* homestay_order
  payments, paymentRows, paymentHand,   \* third_payment, its pay_status
  orderSn,    \* third_payment.order_sn of each payment
  wx,         \* WeChat Pay: "none", "prepaid" or "SUCCESS"
  notices,    \* WeChat Pay: payments whose success is still to be notified
  task,       \* asynq: the close task of each order
  topic,      \* Kafka: messages not yet consumed
  consumed,   \* history: payments whose success the consumer is through with
  goal        \* what each handler is doing

Order == INSTANCE VersionedRow
           WITH Procs <- Handlers, Sns <- Orders, Vals <- TradeStates,
                InitVals <- {WaitPay}, Allowed <- OrderChanges,
                table <- orders, committed <- orderRows, hand <- orderHand

Payment == INSTANCE VersionedRow
             WITH Procs <- Handlers, Sns <- Payments, Vals <- PayStates,
                  InitVals <- {PayWait}, Allowed <- PaymentChanges,
                  table <- payments, committed <- paymentRows, hand <- paymentHand

orderVars == <<orders, orderRows, orderHand>>
paymentVars == <<payments, paymentRows, paymentHand>>
vars == <<orderVars, paymentVars, orderSn, wx, notices, task, topic, consumed, goal>>

Init ==
  /\ Order!Init /\ Payment!Init
  /\ orderSn = [p \in Payments |-> None]
  /\ wx = [p \in Payments |-> "none"]
  /\ notices = {}
  /\ task = [s \in Orders |-> "none"]
  /\ topic = {}
  /\ consumed = {}
  /\ goal = [h \in Handlers |-> None]

-----------------------------------------------------------------------------
\* CreateHomestayOrder, with its close task.
CreateOrder(s) ==
  /\ Order!Create(s, WaitPay)
  /\ task' = [task EXCEPT ![s] = "scheduled"]
  /\ UNCHANGED <<paymentVars, orderSn, wx, notices, topic, consumed, goal>>

\* ThirdPaymentwxPay: any order that exists can be paid, whatever its state
\* and however many payments it has.
Prepay(p, s) ==
  /\ orders[s] # None
  /\ Payment!Create(p, PayWait)
  /\ orderSn' = [orderSn EXCEPT ![p] = s]
  /\ wx' = [wx EXCEPT ![p] = "prepaid"]
  /\ UNCHANGED <<orderVars, notices, task, topic, consumed, goal>>

\* The user pays (external).
Pay(p) ==
  /\ wx[p] = "prepaid"
  /\ wx' = [wx EXCEPT ![p] = "SUCCESS"]
  /\ notices' = notices \union {p}
  /\ UNCHANGED <<orderVars, paymentVars, orderSn, task, topic, consumed, goal>>

-----------------------------------------------------------------------------
(* The notification handler and UpdateTradeState of payment-rpc            *)

Notified(h, p) ==
  /\ goal[h] = None /\ p \in notices
  /\ Payment!Take(h, p)
  /\ goal' = [goal EXCEPT ![h] = [kind |-> "record", sn |-> p]]
  /\ UNCHANGED <<orderVars, orderSn, wx, notices, task, topic, consumed>>

\* Mutant of Record: a row that was waiting is taken for one already recorded.
RecordInverted(h) ==
  /\ goal[h] # None /\ goal[h].kind = "record"
  /\ LET p == goal[h].sn IN
     /\ paymentHand[h].row.val = PayWait
     /\ Payment!Drop(h)
     /\ notices' = notices \ {p}
     /\ UNCHANGED topic
  /\ goal' = [goal EXCEPT ![h] = None]
  /\ UNCHANGED <<orderVars, orderSn, wx, task, consumed>>

\* The message is given in.Sn, the payment's serial number, as its OrderSn.  (Its
\* field "of" is history: which payment it reports.)  The answer to WeChat may be
\* lost, which then notifies again.
Record(h) ==
  /\ goal[h] # None /\ goal[h].kind = "record"
  /\ LET p == goal[h].sn IN
     \/ /\ Payment!Advance(h, PaySuccess)
        /\ topic' = topic \union {[OrderSn |-> p, PayStatus |-> PaySuccess, of |-> p]}
        /\ notices' \in {notices, notices \ {p}}
     \/ /\ paymentHand[h].row.val # PayWait
        /\ Payment!Drop(h)
        /\ notices' = notices \ {p}
        /\ UNCHANGED topic
     \/ /\ paymentHand[h].row # payments[p]
        /\ Payment!Drop(h)
        /\ UNCHANGED <<notices, topic>>
  /\ goal' = [goal EXCEPT ![h] = None]
  /\ UNCHANGED <<orderVars, orderSn, wx, task, consumed>>

-----------------------------------------------------------------------------
(* The consumer of order-mq and the close job, and the update RPC          *)

\* A message for a serial number without an order fails and is dropped.
Consume(h, m) ==
  /\ goal[h] = None /\ m \in topic
  /\ topic' = topic \ {m}
  /\ LET to == getOrderTradeStateByPaymentTradeState(m.PayStatus) IN
     IF m.OrderSn \in Orders
     THEN /\ Order!Take(h, m.OrderSn)
          /\ goal' = [goal EXCEPT ![h] = [kind |-> "move", to |-> to, msg |-> m]]
          /\ UNCHANGED consumed
     ELSE /\ consumed' = consumed \union {m.of}
          /\ UNCHANGED <<orderVars, goal>>
  /\ UNCHANGED <<paymentVars, orderSn, wx, notices, task>>

\* asynq delivers at least once: it may take a slow worker for dead.
StartClose(h, s) ==
  /\ goal[h] = None /\ task[s] \in {"scheduled", "active"}
  /\ Order!Take(h, s)
  /\ task' = [task EXCEPT ![s] = "active"]
  /\ goal' = [goal EXCEPT ![h] = [kind |-> "move", to |-> Cancel, msg |-> None]]
  /\ UNCHANGED <<paymentVars, orderSn, wx, notices, topic, consumed>>

\* The close job is repeated until it succeeds or finds the order decided;
\* a message is done with in any case.
Finish(h, ok) ==
  /\ goal' = [goal EXCEPT ![h] = None]
  /\ IF goal[h].msg = None
     THEN /\ task' = [task EXCEPT ![orderHand[h].sn] =
                       IF ok \/ @ = "done" THEN "done" ELSE "scheduled"]
          /\ UNCHANGED consumed
     ELSE /\ consumed' = consumed \union {goal[h].msg.of}
          /\ UNCHANGED task

Move(h) ==
  /\ goal[h] # None /\ goal[h].kind = "move"
  /\ \/ Order!Advance(h, goal[h].to) /\ Finish(h, TRUE)
     \/ /\ orderHand[h].row.val # WaitPay
        /\ Order!Drop(h) /\ Finish(h, TRUE)
     \/ /\ orderHand[h].row # orders[orderHand[h].sn]
        /\ Order!Drop(h) /\ Finish(h, FALSE)
  /\ UNCHANGED <<paymentVars, orderSn, wx, notices, topic>>

-----------------------------------------------------------------------------
Next ==
  \/ \E s \in Orders : CreateOrder(s)
  \/ \E p \in Payments, s \in Orders : Prepay(p, s)
  \/ \E p \in Payments : Pay(p)
  \/ \E h \in Handlers :
       \/ \E p \in Payments : Notified(h, p)
       \/ \E m \in topic : Consume(h, m)
       \/ \E s \in Orders : StartClose(h, s)
       \/ Record(h) \/ Move(h)

Spec == Init /\ [][Next]_vars

-----------------------------------------------------------------------------
Message == [OrderSn : Payments, PayStatus : PayStates, of : Payments]

Goals ==
  [kind : {"record"}, sn : Payments]
    \union [kind : {"move"}, to : TradeStates, msg : Message \union {None}]

\* The marker for nothing is no data.
ASSUME FlashSaleAssumption ==
  /\ None \notin Order!Row \union Payment!Row
  /\ None \notin [sn : Orders, row : Order!Row]
  /\ None \notin [sn : Payments, row : Payment!Row]
  /\ None \notin Message \union Goals

TypeOK ==
  /\ orders \in [Orders -> Order!Row \union {None}]
  /\ payments \in [Payments -> Payment!Row \union {None}]
  /\ orderRows \in [Orders -> SUBSET Order!Row]
  /\ paymentRows \in [Payments -> SUBSET Payment!Row]
  /\ orderHand \in [Handlers -> [sn : Orders, row : Order!Row] \union {None}]
  /\ paymentHand \in [Handlers -> [sn : Payments, row : Payment!Row] \union {None}]
  /\ orderSn \in [Payments -> Orders \union {None}]
  /\ wx \in [Payments -> {"none", "prepaid", "SUCCESS"}]
  /\ notices \subseteq Payments
  /\ task \in [Orders -> {"none", "scheduled", "active", "done"}]
  /\ topic \subseteq Message
  /\ consumed \subseteq Payments
  /\ goal \in [Handlers -> Goals \union {None}]

\* No result is lost between the systems, whichever handlers race for it: a
\* payment the user made is still to be notified or is recorded, and one that is
\* recorded is on its way to the order service or was consumed there, once.
ResultsTravel ==
  \A p \in Payments :
    LET recorded == payments[p] # None /\ payments[p].val = PaySuccess
        underway == {m \in topic : m.of = p}
        handled == {h \in Handlers :
                      /\ goal[h] # None /\ goal[h].kind = "move"
                      /\ goal[h].msg # None /\ goal[h].msg.of = p}
    IN /\ wx[p] = "SUCCESS" => p \in notices \/ recorded
       /\ Cardinality(underway) + Cardinality(handled)
            + (IF p \in consumed THEN 1 ELSE 0) = (IF recorded THEN 1 ELSE 0)

\* The consumer updates the order a message reports a payment of: once it is
\* through with a payment's success, the order no longer waits for payment.
PaidOrderLeavesWaitPay ==
  \A p \in consumed : orders[orderSn[p]].val # WaitPay
=============================================================================
