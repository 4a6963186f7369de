---------------------------- MODULE FlashSaleProofs ----------------------------
(***************************************************************************)
(* Theorems about FlashSale, for any number of orders, payments and        *)
(* handlers: no result of a payment is lost or multiplied on its way from  *)
(* WeChat through payment-rpc and Kafka to order-mq.                       *)
(***************************************************************************)
EXTENDS FlashSale, FiniteSetTheorems, TLAPS

Recorded(p) == payments[p] # None /\ payments[p].val = PaySuccess

\* The message of a payment that was made.
Result(p) == [OrderSn |-> p, PayStatus |-> PaySuccess, of |-> p]

Underway(p) == \E m \in topic : m.of = p

Handles(h, p) ==
  /\ goal[h] # None /\ goal[h].kind = "move"
  /\ goal[h].msg # None /\ goal[h].msg.of = p

Handled(p) == \E h \in Handlers : Handles(h, p)

\* A handler that records a payment holds a row that the payment has had.
GoalInv(h) ==
  goal[h] # None /\ goal[h].kind = "record" =>
    /\ paymentHand[h] # None /\ paymentHand[h].sn = goal[h].sn
    /\ paymentHand[h].row \in paymentRows[goal[h].sn]

\* Success is for good, and WeChat keeps notifying it until it is recorded.
StoreInv(p) ==
  /\ \A r \in paymentRows[p] :
       r.val \in {PayWait, PaySuccess} /\ (r.val = PaySuccess => Recorded(p))
  /\ wx[p] = "SUCCESS" => p \in notices \/ Recorded(p)

\* The result of a recorded payment, and of no other, is in one place.
TravelInv(p) ==
  /\ Recorded(p) <=> Underway(p) \/ Handled(p) \/ p \in consumed
  /\ ~(Underway(p) /\ Handled(p))
  /\ ~(p \in consumed /\ (Underway(p) \/ Handled(p)))
  /\ \A g, h \in Handlers : Handles(g, p) /\ Handles(h, p) => g = h

FlashInv ==
  /\ TypeOK
  /\ \A h \in Handlers : GoalInv(h)
  /\ \A p \in Payments : StoreInv(p) /\ TravelInv(p)
  /\ \A m \in topic : m = Result(m.of)

-----------------------------------------------------------------------------
(* Types                                                                   *)

LEMMA StatesAreStates ==
  /\ {Cancel, WaitPay, WaitUse} \subseteq TradeStates
  /\ {PayWait, PaySuccess} \subseteq PayStates
BY DEF TradeStates, PayStates, Cancel, WaitPay, WaitUse, PayWait, PaySuccess

\* A successful payment asks for WaitUse.
LEMMA ResultMovesToWaitUse ==
  getOrderTradeStateByPaymentTradeState(PaySuccess) = WaitUse
BY DEF getOrderTradeStateByPaymentTradeState, PaySuccess, PayRefund

\* The pay status of a payment is changed to success only from waiting.
LEMMA SuccessComesFromWaiting ==
  \A v : <<v, PaySuccess>> \in PaymentChanges => v = PayWait
BY DEF PaymentChanges, PaymentCheck, PayStates, PayFAIL, PayWait, PaySuccess, PayRefund

LEMMA InitIsTyped == Init => TypeOK
BY DEF Init, TypeOK, Order!Init, Payment!Init

LEMMA GoalIsTyped ==
  ASSUME TypeOK, NEW h \in Handlers, goal[h] # None
  PROVE  /\ goal[h].kind \in {"record", "move"}
         /\ goal[h].kind = "record" => goal[h].sn \in Payments
         /\ goal[h].kind = "move" =>
              goal[h].to \in TradeStates /\ goal[h].msg \in Message \union {None}
<1>1. goal[h] \in Goals
  BY DEF TypeOK
<1>2. CASE goal[h] \in [kind : {"record"}, sn : Payments]
  BY <1>2
<1>3. CASE goal[h] \in [kind : {"move"}, to : TradeStates, msg : Message \union {None}]
  BY <1>3
<1>4. QED BY <1>1, <1>2, <1>3 DEF Goals

LEMMA OrderCreateIsTyped ==
  ASSUME TypeOK, NEW s \in Orders, Order!Create(s, WaitPay)
  PROVE  /\ orders' \in [Orders -> Order!Row \union {None}]
         /\ orderRows' \in [Orders -> SUBSET Order!Row]
         /\ orderHand' = orderHand
<1>1. [version |-> 0, val |-> WaitPay] \in Order!Row
  BY StatesAreStates DEF Order!Row
<1>2. QED BY <1>1 DEF TypeOK, Order!Create, Order!Write

LEMMA OrderTakeIsTyped ==
  ASSUME TypeOK, NEW h \in Handlers, NEW s \in Orders, Order!Take(h, s)
  PROVE  /\ UNCHANGED <<orders, orderRows>>
         /\ orderHand' \in [Handlers -> [sn : Orders, row : Order!Row] \union {None}]
<1>1. PICK row \in orderRows[s] : orderHand' = [orderHand EXCEPT ![h] = [sn |-> s, row |-> row]]
  BY DEF Order!Take
<1>2. row \in Order!Row
  BY DEF TypeOK
<1>3. QED BY <1>1, <1>2 DEF TypeOK, Order!Take

LEMMA OrderDropIsTyped ==
  ASSUME TypeOK, NEW h \in Handlers, Order!Drop(h)
  PROVE  /\ UNCHANGED <<orders, orderRows>>
         /\ orderHand' \in [Handlers -> [sn : Orders, row : Order!Row] \union {None}]
         /\ orderHand[h].sn \in Orders
BY DEF TypeOK, Order!Drop

LEMMA OrderAdvanceIsTyped ==
  ASSUME TypeOK, NEW h \in Handlers, NEW v \in TradeStates, Order!Advance(h, v)
  PROVE  /\ orders' \in [Orders -> Order!Row \union {None}]
         /\ orderRows' \in [Orders -> SUBSET Order!Row]
         /\ orderHand' \in [Handlers -> [sn : Orders, row : Order!Row] \union {None}]
         /\ orderHand[h].sn \in Orders
<1>1. orderHand[h] \in [sn : Orders, row : Order!Row]
  BY DEF TypeOK, Order!Advance
<1>2. [version |-> orderHand[h].row.version + 1, val |-> v] \in Order!Row
  BY <1>1 DEF Order!Row
<1>3. QED BY <1>1, <1>2 DEF TypeOK, Order!Advance, Order!Write

\* What recording a payment does to its row.
LEMMA PaymentAdvanceIs ==
  ASSUME TypeOK, NEW h \in Handlers, Payment!Advance(h, PaySuccess)
  PROVE  LET p == paymentHand[h].sn
             row == [version |-> paymentHand[h].row.version + 1, val |-> PaySuccess] IN
         /\ p \in Payments /\ row \in Payment!Row
         /\ payments' = [payments EXCEPT ![p] = row]
         /\ paymentRows' = [paymentRows EXCEPT ![p] = @ \union {row}]
         /\ paymentHand' = [paymentHand EXCEPT ![h] = None]
         /\ payments[p] # None /\ payments[p].val = PayWait
<1>1. paymentHand[h] \in [sn : Payments, row : Payment!Row]
  BY DEF TypeOK, Payment!Advance
<1>2. [version |-> paymentHand[h].row.version + 1, val |-> PaySuccess] \in Payment!Row
  BY <1>1, StatesAreStates DEF Payment!Row
<1>3. paymentHand[h].row.val = PayWait
  BY SuccessComesFromWaiting DEF Payment!Advance
<1>4. payments[paymentHand[h].sn] = paymentHand[h].row
  BY DEF Payment!Advance
<1>5. paymentHand[h].row # None
  BY <1>1, FlashSaleAssumption
<1>6. QED BY <1>1, <1>2, <1>3, <1>4, <1>5 DEF Payment!Advance, Payment!Write

LEMMA ResultIsTyped == \A p \in Payments : Result(p) \in Message
BY StatesAreStates DEF Result, Message

-----------------------------------------------------------------------------
(* Every step keeps the invariant                                          *)

\* Nothing happens to a payment whose row, message and handlers stay.
LEMMA TravelStays ==
  ASSUME NEW p \in Payments, TravelInv(p),
         Recorded(p)' <=> Recorded(p), Underway(p)' <=> Underway(p),
         p \in consumed' <=> p \in consumed,
         \A h \in Handlers : Handles(h, p)' <=> Handles(h, p)
  PROVE  TravelInv(p)'
<1>1. Handled(p)' <=> Handled(p)
  BY DEF Handled
<1>2. QED BY <1>1 DEF TravelInv

LEMMA CreateOrderKeeps ==
  ASSUME FlashInv, NEW s \in Orders, CreateOrder(s)
  PROVE  FlashInv'
<1>1. TypeOK'
  <2>1. /\ orders' \in [Orders -> Order!Row \union {None}]
        /\ orderRows' \in [Orders -> SUBSET Order!Row]
        /\ orderHand' = orderHand
    BY OrderCreateIsTyped DEF FlashInv, CreateOrder
  <2>2. QED BY <2>1 DEF FlashInv, TypeOK, CreateOrder, paymentVars
<1>2. \A h \in Handlers : GoalInv(h)'
  BY DEF FlashInv, GoalInv, CreateOrder, paymentVars
<1>3. ASSUME NEW p \in Payments
      PROVE  StoreInv(p)' /\ TravelInv(p)'
  <2>1. StoreInv(p)'
    BY DEF FlashInv, StoreInv, Recorded, CreateOrder, paymentVars
  <2>2. TravelInv(p)'
    BY TravelStays DEF FlashInv, Recorded, Underway, Handles, CreateOrder, paymentVars
  <2>3. QED BY <2>1, <2>2
<1>4. \A m \in topic' : m = Result(m.of)
  BY DEF FlashInv, CreateOrder
<1>5. QED BY <1>1, <1>2, <1>3, <1>4 DEF FlashInv, Result

LEMMA PrepayKeeps ==
  ASSUME FlashInv, NEW p \in Payments, NEW s \in Orders, Prepay(p, s)
  PROVE  FlashInv'
<1> DEFINE row == [version |-> 0, val |-> PayWait]
<1>1. row \in Payment!Row
  BY StatesAreStates DEF Payment!Row
<1>2. /\ payments[p] = None /\ payments' = [payments EXCEPT ![p] = row]
      /\ paymentRows' = [paymentRows EXCEPT ![p] = @ \union {row}]
      /\ paymentHand' = paymentHand
  BY DEF Prepay, Payment!Create, Payment!Write
<1>3. TypeOK'
  BY <1>1, <1>2 DEF FlashInv, TypeOK, Prepay, orderVars
<1>4. \A h \in Handlers : GoalInv(h)'
  <2>1. \A q \in Payments : paymentRows[q] \subseteq paymentRows'[q]
    BY <1>2 DEF FlashInv, TypeOK
  <2>2. QED BY <1>2, <2>1, GoalIsTyped DEF FlashInv, GoalInv, Prepay
<1>5. ASSUME NEW q \in Payments
      PROVE  StoreInv(q)' /\ TravelInv(q)'
  <2>1. Recorded(q)' <=> Recorded(q)
    BY <1>1, <1>2, FlashSaleAssumption DEF FlashInv, TypeOK, Recorded, PayWait, PaySuccess
  <2>2. StoreInv(q)'
    <3>1. CASE q = p
      <4>1. wx'[q] # "SUCCESS"
        BY <3>1 DEF FlashInv, TypeOK, Prepay
      <4>2. paymentRows'[q] = paymentRows[q] \union {row}
        BY <1>2, <3>1 DEF FlashInv, TypeOK
      <4>3. \A r \in paymentRows'[q] :
              r.val \in {PayWait, PaySuccess} /\ (r.val = PaySuccess => Recorded(q)')
        BY <2>1, <4>2 DEF FlashInv, StoreInv, PayWait, PaySuccess
      <4>4. QED BY <4>1, <4>3 DEF StoreInv
    <3>2. CASE q # p
      <4>1. paymentRows'[q] = paymentRows[q] /\ wx'[q] = wx[q] /\ notices' = notices
        BY <1>2, <3>2 DEF FlashInv, TypeOK, Prepay
      <4>2. QED BY <2>1, <4>1 DEF FlashInv, StoreInv
    <3>3. QED BY <3>1, <3>2
  <2>3. TravelInv(q)'
    BY <2>1, TravelStays DEF FlashInv, Underway, Handles, Prepay
  <2>4. QED BY <2>2, <2>3
<1>6. \A m \in topic' : m = Result(m.of)
  BY DEF FlashInv, Prepay
<1>7. QED BY <1>3, <1>4, <1>5, <1>6 DEF FlashInv, Result

LEMMA PayKeeps ==
  ASSUME FlashInv, NEW p \in Payments, Pay(p)
  PROVE  FlashInv'
<1>1. TypeOK'
  BY DEF FlashInv, TypeOK, Pay, orderVars, paymentVars
<1>2. \A h \in Handlers : GoalInv(h)'
  BY DEF FlashInv, GoalInv, Pay, paymentVars
<1>3. ASSUME NEW q \in Payments
      PROVE  StoreInv(q)' /\ TravelInv(q)'
  <2>1. Recorded(q)' <=> Recorded(q)
    BY DEF Recorded, Pay, paymentVars
  <2>2. wx'[q] = "SUCCESS" => q \in notices' \/ wx[q] = "SUCCESS"
    BY DEF FlashInv, TypeOK, Pay
  <2>3. notices \subseteq notices' /\ paymentRows' = paymentRows
    BY DEF Pay, paymentVars
  <2>4. StoreInv(q)'
    BY <2>1, <2>2, <2>3 DEF FlashInv, StoreInv
  <2>5. TravelInv(q)'
    BY <2>1, TravelStays DEF FlashInv, Underway, Handles, Pay
  <2>6. QED BY <2>4, <2>5
<1>4. \A m \in topic' : m = Result(m.of)
  BY DEF FlashInv, Pay
<1>5. QED BY <1>1, <1>2, <1>3, <1>4 DEF FlashInv, Result

LEMMA NotifiedKeeps ==
  ASSUME FlashInv, NEW h \in Handlers, NEW p \in Payments, Notified(h, p)
  PROVE  FlashInv'
<1>1. PICK row \in paymentRows[p] :
        paymentHand' = [paymentHand EXCEPT ![h] = [sn |-> p, row |-> row]]
  BY DEF Notified, Payment!Take
<1>2. row \in Payment!Row
  BY DEF FlashInv, TypeOK
<1>3. UNCHANGED <<payments, paymentRows, orderVars, orderSn, wx, notices, task, topic, consumed>>
  BY DEF Notified, Payment!Take
<1>4. goal[h] = None /\ goal' = [goal EXCEPT ![h] = [kind |-> "record", sn |-> p]]
  BY DEF Notified
<1>5. TypeOK'
  <2>1. [kind |-> "record", sn |-> p] \in Goals
    BY DEF Goals
  <2>2. goal' \in [Handlers -> Goals \union {None}]
    BY <1>4, <2>1 DEF FlashInv, TypeOK
  <2>3. paymentHand' \in [Handlers -> [sn : Payments, row : Payment!Row] \union {None}]
    BY <1>1, <1>2 DEF FlashInv, TypeOK
  <2>4. QED BY <1>3, <2>2, <2>3 DEF FlashInv, TypeOK, orderVars
<1>6. ASSUME NEW g \in Handlers
      PROVE  GoalInv(g)'
  <2>1. CASE g = h
    <3>1. goal'[g] = [kind |-> "record", sn |-> p]
      BY <1>4, <2>1 DEF FlashInv, TypeOK
    <3>2. paymentHand'[g] = [sn |-> p, row |-> row]
      BY <1>1, <2>1 DEF FlashInv, TypeOK
    <3>3. paymentHand'[g] # None
      BY <1>2, <3>2, FlashSaleAssumption
    <3>4. QED BY <1>1, <1>3, <3>1, <3>2, <3>3 DEF GoalInv
  <2>2. CASE g # h
    <3>1. goal'[g] = goal[g] /\ paymentHand'[g] = paymentHand[g]
      BY <1>1, <1>4, <2>2 DEF FlashInv, TypeOK
    <3>2. QED BY <1>3, <3>1 DEF FlashInv, GoalInv
  <2>3. QED BY <2>1, <2>2
<1>7. ASSUME NEW q \in Payments
      PROVE  StoreInv(q)' /\ TravelInv(q)'
  <2>1. ASSUME NEW g \in Handlers
        PROVE  Handles(g, q)' <=> Handles(g, q)
    BY <1>4 DEF FlashInv, TypeOK, Handles
  <2>2. Recorded(q)' <=> Recorded(q)
    BY <1>3 DEF Recorded
  <2>3. TravelInv(q)'
    BY <1>3, <2>1, <2>2, TravelStays DEF FlashInv, Underway
  <2>4. StoreInv(q)'
    BY <1>3, <2>2 DEF FlashInv, StoreInv
  <2>5. QED BY <2>3, <2>4
<1>8. \A m \in topic' : m = Result(m.of)
  BY <1>3 DEF FlashInv
<1>9. QED BY <1>5, <1>6, <1>7, <1>8 DEF FlashInv, Result

\* A handler that is through with recording lets go of its row.
LEMMA RecordEnds ==
  ASSUME FlashInv, NEW h \in Handlers, goal[h] # None, goal[h].kind = "record",
         goal' = [goal EXCEPT ![h] = None],
         paymentHand' = [paymentHand EXCEPT ![h] = None],
         \A p \in Payments : paymentRows[p] \subseteq paymentRows'[p]
  PROVE  /\ \A g \in Handlers : GoalInv(g)'
         /\ \A g \in Handlers, p \in Payments : Handles(g, p)' <=> Handles(g, p)
         /\ goal' \in [Handlers -> Goals \union {None}]
         /\ paymentHand' \in [Handlers -> [sn : Payments, row : Payment!Row] \union {None}]
<1>1. ASSUME NEW g \in Handlers
      PROVE  GoalInv(g)'
  <2>1. CASE g = h
    BY <2>1 DEF FlashInv, TypeOK, GoalInv
  <2>2. CASE g # h
    <3>1. goal'[g] = goal[g] /\ paymentHand'[g] = paymentHand[g]
      BY <2>2 DEF FlashInv, TypeOK
    <3>2. QED BY <3>1, GoalIsTyped DEF FlashInv, GoalInv
  <2>3. QED BY <2>1, <2>2
<1>2. ASSUME NEW g \in Handlers, NEW p \in Payments
      PROVE  Handles(g, p)' <=> Handles(g, p)
  BY DEF FlashInv, TypeOK, Handles
<1>3. QED BY <1>1, <1>2 DEF FlashInv, TypeOK

\* The UPDATE matched, and its result is published.
LEMMA SuccessKeeps ==
  ASSUME FlashInv, NEW h \in Handlers, Record(h),
         Payment!Advance(h, PaySuccess),
         topic' = topic \union {Result(goal[h].sn)},
         notices' \in {notices, notices \ {goal[h].sn}}
  PROVE  FlashInv'
<1>0. goal[h] # None /\ goal[h].kind = "record"
  BY DEF Record
<1>p. PICK p \in Payments : p = goal[h].sn
  BY <1>0, GoalIsTyped DEF FlashInv
<1>r. PICK row : row = [version |-> paymentHand[h].row.version + 1, val |-> PaySuccess]
  OBVIOUS
<1>1. goal[h] # None /\ goal[h].kind = "record" /\ paymentHand[h].sn = p
  BY <1>0, <1>p DEF FlashInv, GoalInv
<1>2. /\ row \in Payment!Row
      /\ payments' = [payments EXCEPT ![p] = row]
      /\ paymentRows' = [paymentRows EXCEPT ![p] = @ \union {row}]
      /\ paymentHand' = [paymentHand EXCEPT ![h] = None]
      /\ payments[p] # None /\ payments[p].val = PayWait
  BY <1>1, <1>r, PaymentAdvanceIs DEF FlashInv
<1>3. goal' = [goal EXCEPT ![h] = None] /\ UNCHANGED <<orderVars, orderSn, wx, task, consumed>>
  BY DEF Record
<1>4. \A q \in Payments : paymentRows[q] \subseteq paymentRows'[q]
  BY <1>2 DEF FlashInv, TypeOK
<1>5. /\ \A g \in Handlers : GoalInv(g)'
      /\ \A g \in Handlers, q \in Payments : Handles(g, q)' <=> Handles(g, q)
      /\ goal' \in [Handlers -> Goals \union {None}]
      /\ paymentHand' \in [Handlers -> [sn : Payments, row : Payment!Row] \union {None}]
  BY <1>1, <1>2, <1>3, <1>4, RecordEnds
<1>6. TypeOK'
  <2>1. topic' \subseteq Message
    BY <1>p, ResultIsTyped DEF FlashInv, TypeOK
  <2>2. /\ payments' \in [Payments -> Payment!Row \union {None}]
        /\ paymentRows' \in [Payments -> SUBSET Payment!Row]
    BY <1>2 DEF FlashInv, TypeOK
  <2>3. QED BY <1>3, <1>5, <2>1, <2>2 DEF FlashInv, TypeOK, orderVars
<1>7. ~Recorded(p) /\ Recorded(p)'
  <2>1. payments'[p] = row
    BY <1>2 DEF FlashInv, TypeOK
  <2>2. row # None
    BY <1>2, FlashSaleAssumption
  <2>3. QED BY <1>2, <1>r, <2>1, <2>2 DEF Recorded, PayWait, PaySuccess
<1>8. StoreInv(p)' /\ TravelInv(p)'
  <2>1. paymentRows'[p] = paymentRows[p] \union {row}
    BY <1>2 DEF FlashInv, TypeOK
  <2>2. StoreInv(p)'
    <3>1. row.val = PaySuccess
      BY <1>r
    <3>2. \A r \in paymentRows'[p] : r.val \in {PayWait, PaySuccess}
      BY <2>1, <3>1 DEF FlashInv, StoreInv
    <3>3. QED BY <1>7, <3>2 DEF StoreInv
  <2>3. ~Underway(p) /\ ~Handled(p) /\ p \notin consumed
    BY <1>2, <1>7 DEF FlashInv, TravelInv
  <2>4. Underway(p)'
    <3>1. Result(p) \in topic'
      BY <1>p
    <3>2. Result(p).of = p
      BY DEF Result
    <3>3. QED BY <3>1, <3>2 DEF Underway
  <2>5. ~Handled(p)' /\ p \notin consumed'
    BY <1>2, <1>3, <1>5, <2>3 DEF Handled
  <2>6. QED BY <1>7, <2>2, <2>4, <2>5 DEF TravelInv, Handled
<1>9. ASSUME NEW q \in Payments, q # p
      PROVE  StoreInv(q)' /\ TravelInv(q)'
  <2>1. payments'[q] = payments[q] /\ paymentRows'[q] = paymentRows[q]
    BY <1>2, <1>9 DEF FlashInv, TypeOK
  <2>2. Recorded(q)' <=> Recorded(q)
    BY <2>1 DEF Recorded
  <2>3. Underway(q)' <=> Underway(q)
    BY <1>p, <1>9 DEF Underway, Result
  <2>4. TravelInv(q)'
    BY <1>3, <1>5, <2>2, <2>3, TravelStays DEF FlashInv
  <2>5. q \in notices' <=> q \in notices
    BY <1>p, <1>9
  <2>6. StoreInv(q)'
    BY <1>3, <2>1, <2>2, <2>5 DEF FlashInv, StoreInv
  <2>7. QED BY <2>4, <2>6
<1>10. ASSUME NEW m \in topic' PROVE m = Result(m.of)
  BY DEF FlashInv, Result
<1>11. QED BY <1>5, <1>6, <1>8, <1>9, <1>10 DEF FlashInv, Result

\* The payment was recorded before, or the handler was refused; in the first case
\* WeChat is told to stop.
LEMMA NoSuccessKeeps ==
  ASSUME FlashInv, NEW h \in Handlers, Record(h), Payment!Drop(h), UNCHANGED topic,
         \/ paymentHand[h].row.val # PayWait /\ notices' = notices \ {goal[h].sn}
         \/ UNCHANGED notices
  PROVE  FlashInv'
<1>1. goal[h] # None /\ goal[h].kind = "record" /\ goal[h].sn \in Payments
  BY GoalIsTyped DEF Record, FlashInv
<1>2. /\ UNCHANGED <<payments, paymentRows, orderVars, orderSn, wx, task, consumed>>
      /\ goal' = [goal EXCEPT ![h] = None]
      /\ paymentHand' = [paymentHand EXCEPT ![h] = None]
  BY DEF Record, Payment!Drop
<1>3. /\ \A g \in Handlers : GoalInv(g)'
      /\ \A g \in Handlers, q \in Payments : Handles(g, q)' <=> Handles(g, q)
      /\ goal' \in [Handlers -> Goals \union {None}]
      /\ paymentHand' \in [Handlers -> [sn : Payments, row : Payment!Row] \union {None}]
  BY <1>1, <1>2, RecordEnds
<1>4. TypeOK'
  BY <1>2, <1>3 DEF FlashInv, TypeOK, orderVars
<1>5. ASSUME NEW q \in Payments
      PROVE  StoreInv(q)' /\ TravelInv(q)'
  <2>1. Recorded(q)' <=> Recorded(q)
    BY <1>2 DEF Recorded
  <2>2. TravelInv(q)'
    BY <1>2, <1>3, <2>1, TravelStays DEF FlashInv, Underway
  <2>3. paymentHand[h].row.val # PayWait => Recorded(goal[h].sn)
    BY <1>1 DEF FlashInv, GoalInv, StoreInv
  <2>4. q \in notices => q \in notices' \/ Recorded(q)
    BY <2>3
  <2>5. StoreInv(q)'
    BY <1>2, <2>1, <2>4 DEF FlashInv, StoreInv
  <2>6. QED BY <2>2, <2>5
<1>6. QED BY <1>3, <1>4, <1>5 DEF FlashInv, Result

LEMMA RecordKeeps ==
  ASSUME FlashInv, NEW h \in Handlers, Record(h)
  PROVE  FlashInv'
<1>1. CASE /\ Payment!Advance(h, PaySuccess)
           /\ topic' = topic \union {Result(goal[h].sn)}
           /\ notices' \in {notices, notices \ {goal[h].sn}}
  BY <1>1, SuccessKeeps
<1>2. CASE /\ paymentHand[h].row.val # PayWait /\ Payment!Drop(h)
           /\ notices' = notices \ {goal[h].sn} /\ UNCHANGED topic
  BY <1>2, NoSuccessKeeps
<1>3. CASE Payment!Drop(h) /\ UNCHANGED <<notices, topic>>
  BY <1>3, NoSuccessKeeps
<1>4. QED BY <1>1, <1>2, <1>3 DEF Record, Result

LEMMA ConsumeKeeps ==
  ASSUME FlashInv, NEW h \in Handlers, NEW m \in topic, Consume(h, m)
  PROVE  FlashInv'
<1>p. PICK p \in Payments : p = m.of
  BY DEF FlashInv, TypeOK, Message
<1>1. m = Result(p) /\ m \in Message /\ m # None
  BY <1>p, FlashSaleAssumption DEF FlashInv, TypeOK
<1>2. /\ UNCHANGED <<paymentVars, orderSn, wx, notices, task>>
      /\ topic' = topic \ {m} /\ goal[h] = None
  BY DEF Consume
<1>3. /\ Underway(p) /\ ~Underway(p)'
      /\ \A q \in Payments : q # p => (Underway(q)' <=> Underway(q))
      /\ topic' \subseteq topic
  BY <1>p, <1>1, <1>2 DEF FlashInv, Underway
<1>4. ~Handled(p) /\ p \notin consumed /\ Recorded(p)
  BY <1>3 DEF FlashInv, TravelInv
<1>5. \A q \in Payments : (Recorded(q)' <=> Recorded(q)) /\ StoreInv(q)'
  BY <1>2 DEF FlashInv, StoreInv, Recorded, paymentVars
<1>6. CASE m.OrderSn \in Orders
  <2> DEFINE new == [kind |-> "move", to |-> WaitUse, msg |-> m]
  <2>1. /\ Order!Take(h, m.OrderSn) /\ UNCHANGED consumed
        /\ goal' = [goal EXCEPT ![h] = new]
    BY <1>1, <1>6, ResultMovesToWaitUse DEF Consume, Result
  <2>2. TypeOK'
    <3>1. new \in Goals
      BY <1>1, StatesAreStates DEF Goals
    <3>2. goal' \in [Handlers -> Goals \union {None}]
      BY <2>1, <3>1 DEF FlashInv, TypeOK
    <3>3. /\ UNCHANGED <<orders, orderRows>>
          /\ orderHand' \in [Handlers -> [sn : Orders, row : Order!Row] \union {None}]
      BY <1>6, <2>1, OrderTakeIsTyped DEF FlashInv
    <3>4. QED BY <1>2, <1>3, <2>1, <3>2, <3>3 DEF FlashInv, TypeOK, paymentVars
  <2>3. goal'[h] = new /\ goal'[h] # None
    <3>1. new \in Goals
      BY <1>1, StatesAreStates DEF Goals
    <3>2. QED BY <2>1, <3>1, FlashSaleAssumption DEF FlashInv, TypeOK
  <2>4. \A g \in Handlers : g # h => goal'[g] = goal[g]
    BY <2>1 DEF FlashInv, TypeOK
  <2>5. \A g \in Handlers : GoalInv(g)'
    BY <1>2, <2>3, <2>4 DEF FlashInv, GoalInv, paymentVars
  <2>6. Handles(h, p)' /\ \A q \in Payments : q # p => ~Handles(h, q)' /\ ~Handles(h, q)
    BY <1>p, <1>1, <1>2, <2>3 DEF Handles
  <2>7. \A g \in Handlers, q \in Payments : g # h => (Handles(g, q)' <=> Handles(g, q))
    BY <2>4 DEF Handles
  <2>8. TravelInv(p)'
    <3>1. \A g \in Handlers : Handles(g, p)' => g = h
      BY <1>4, <2>7 DEF Handled
    <3>2. QED BY <1>3, <1>4, <1>5, <2>1, <2>6, <3>1 DEF TravelInv, Handled
  <2>9. ASSUME NEW q \in Payments, q # p PROVE TravelInv(q)'
    BY <1>3, <1>5, <2>1, <2>6, <2>7, <2>9, TravelStays DEF FlashInv
  <2>10. QED BY <1>3, <1>5, <2>2, <2>5, <2>8, <2>9 DEF FlashInv, Result
<1>7. CASE m.OrderSn \notin Orders
  <2>1. UNCHANGED <<orderVars, goal>> /\ consumed' = consumed \union {p}
    BY <1>p, <1>7 DEF Consume
  <2>2. TypeOK'
    BY <1>2, <1>3, <2>1 DEF FlashInv, TypeOK, orderVars, paymentVars
  <2>3. \A g \in Handlers : GoalInv(g)'
    BY <1>2, <2>1 DEF FlashInv, GoalInv, paymentVars
  <2>4. \A g \in Handlers, q \in Payments : Handles(g, q)' <=> Handles(g, q)
    BY <2>1 DEF Handles
  <2>5. TravelInv(p)'
    BY <1>3, <1>4, <1>5, <2>1, <2>4 DEF TravelInv, Handled
  <2>6. ASSUME NEW q \in Payments, q # p PROVE TravelInv(q)'
    BY <1>3, <1>5, <2>1, <2>4, <2>6, TravelStays DEF FlashInv
  <2>7. QED BY <1>3, <1>5, <2>2, <2>3, <2>5, <2>6 DEF FlashInv, Result
<1>8. QED BY <1>6, <1>7

LEMMA StartCloseKeeps ==
  ASSUME FlashInv, NEW h \in Handlers, NEW s \in Orders, StartClose(h, s)
  PROVE  FlashInv'
<1> DEFINE new == [kind |-> "move", to |-> Cancel, msg |-> None]
<1>1. /\ UNCHANGED <<paymentVars, orderSn, wx, notices, topic, consumed>>
      /\ goal[h] = None /\ goal' = [goal EXCEPT ![h] = new]
      /\ task' = [task EXCEPT ![s] = "active"]
      /\ Order!Take(h, s)
  BY DEF StartClose
<1>2. new \in Goals
  BY StatesAreStates DEF Goals
<1>3. TypeOK'
  <2>1. goal' \in [Handlers -> Goals \union {None}]
    BY <1>1, <1>2 DEF FlashInv, TypeOK
  <2>2. /\ UNCHANGED <<orders, orderRows>>
        /\ orderHand' \in [Handlers -> [sn : Orders, row : Order!Row] \union {None}]
    BY <1>1, OrderTakeIsTyped DEF FlashInv
  <2>3. task' \in [Orders -> {"none", "scheduled", "active", "done"}]
    BY <1>1 DEF FlashInv, TypeOK
  <2>4. QED BY <1>1, <2>1, <2>2, <2>3 DEF FlashInv, TypeOK, paymentVars
<1>4. goal'[h] = new
  BY <1>1 DEF FlashInv, TypeOK
<1>5. \A g \in Handlers : g # h => goal'[g] = goal[g]
  BY <1>1 DEF FlashInv, TypeOK
<1>6. \A g \in Handlers : GoalInv(g)'
  BY <1>1, <1>4, <1>5 DEF FlashInv, GoalInv, paymentVars
<1>7. \A g \in Handlers, p \in Payments : Handles(g, p)' <=> Handles(g, p)
  BY <1>1, <1>4, <1>5 DEF Handles
<1>8. ASSUME NEW p \in Payments
      PROVE  StoreInv(p)' /\ TravelInv(p)'
  <2>1. Recorded(p)' <=> Recorded(p)
    BY <1>1 DEF Recorded, paymentVars
  <2>2. TravelInv(p)'
    BY <1>1, <1>7, <2>1, TravelStays DEF FlashInv, Underway
  <2>3. StoreInv(p)'
    BY <1>1, <2>1 DEF FlashInv, StoreInv, paymentVars
  <2>4. QED BY <2>2, <2>3
<1>9. QED BY <1>1, <1>3, <1>6, <1>8 DEF FlashInv, Result

LEMMA MoveKeeps ==
  ASSUME FlashInv, NEW h \in Handlers, Move(h)
  PROVE  FlashInv'
<1>1. goal[h] # None /\ goal[h].kind = "move" /\ UNCHANGED <<paymentVars, orderSn, wx, notices, topic>>
  BY DEF Move
<1>2. goal[h].to \in TradeStates /\ goal[h].msg \in Message \union {None}
  BY <1>1, GoalIsTyped DEF FlashInv
<1>3. /\ orders' \in [Orders -> Order!Row \union {None}]
      /\ orderRows' \in [Orders -> SUBSET Order!Row]
      /\ orderHand' \in [Handlers -> [sn : Orders, row : Order!Row] \union {None}]
      /\ orderHand[h].sn \in Orders
  <2>1. CASE Order!Advance(h, goal[h].to)
    BY <1>2, <2>1, OrderAdvanceIsTyped DEF FlashInv
  <2>2. CASE Order!Drop(h)
    BY <2>2, OrderDropIsTyped DEF FlashInv, TypeOK
  <2>3. QED BY <2>1, <2>2 DEF Move
<1>4. Finish(h, TRUE) \/ Finish(h, FALSE)
  BY DEF Move
<1>5. goal' = [goal EXCEPT ![h] = None]
  BY <1>4 DEF Finish
<1>6. \A g \in Handlers : IF g = h THEN goal'[g] = None ELSE goal'[g] = goal[g]
  BY <1>5 DEF FlashInv, TypeOK
<1>7. \A g \in Handlers : GoalInv(g)'
  BY <1>1, <1>6 DEF FlashInv, GoalInv, paymentVars
<1>8. \A p \in Payments : (Recorded(p)' <=> Recorded(p)) /\ (Underway(p)' <=> Underway(p)) /\ StoreInv(p)'
  BY <1>1 DEF FlashInv, StoreInv, Recorded, Underway, paymentVars
<1>9. CASE goal[h].msg = None
  <2>1. /\ UNCHANGED consumed
        /\ task' \in [Orders -> {"none", "scheduled", "active", "done"}]
    BY <1>3, <1>4, <1>9 DEF Finish, FlashInv, TypeOK
  <2>2. TypeOK'
    BY <1>1, <1>3, <1>5, <2>1 DEF FlashInv, TypeOK, paymentVars
  <2>3. \A g \in Handlers, p \in Payments : Handles(g, p)' <=> Handles(g, p)
    BY <1>6, <1>9 DEF Handles
  <2>4. \A p \in Payments : TravelInv(p)'
    BY <1>8, <2>1, <2>3, TravelStays DEF FlashInv
  <2>5. QED BY <1>1, <1>7, <1>8, <2>2, <2>4 DEF FlashInv, Result
<1>10. CASE goal[h].msg # None
  <2>p. PICK p \in Payments : p = goal[h].msg.of
    BY <1>2, <1>10 DEF Message
  <2>1. consumed' = consumed \union {p} /\ UNCHANGED task
    BY <1>4, <1>10, <2>p DEF Finish
  <2>2. TypeOK'
    BY <1>1, <1>3, <1>5, <2>1 DEF FlashInv, TypeOK, paymentVars
  <2>3. Handles(h, p)
    BY <1>1, <1>10, <2>p DEF Handles
  <2>4. ~Handled(p)'
    <3>1. \A g \in Handlers : g # h => ~Handles(g, p)
      BY <2>3 DEF FlashInv, TravelInv
    <3>2. \A g \in Handlers : ~Handles(g, p)'
      BY <1>6, <3>1 DEF Handles
    <3>3. QED BY <3>2 DEF Handled
  <2>5. Recorded(p) /\ ~Underway(p)
    BY <2>3 DEF FlashInv, TravelInv, Handled
  <2>6. TravelInv(p)'
    BY <1>8, <2>1, <2>4, <2>5 DEF TravelInv, Handled
  <2>7. ASSUME NEW q \in Payments, q # p PROVE TravelInv(q)'
    <3>1. \A g \in Handlers : Handles(g, q)' <=> Handles(g, q)
      BY <1>6, <2>p, <2>7 DEF Handles
    <3>2. QED BY <1>8, <2>1, <2>7, <3>1, TravelStays DEF FlashInv
  <2>8. QED BY <1>1, <1>7, <1>8, <2>2, <2>6, <2>7 DEF FlashInv, Result
<1>11. QED BY <1>9, <1>10

-----------------------------------------------------------------------------
(* The theorems                                                            *)

LEMMA InitFlash == Init => FlashInv
<1> SUFFICES ASSUME Init PROVE FlashInv
  OBVIOUS
<1>1. TypeOK
  BY InitIsTyped
<1>2. \A h \in Handlers : GoalInv(h)
  BY DEF Init, GoalInv
<1>3. \A p \in Payments : StoreInv(p)
  BY DEF Init, Payment!Init, StoreInv
<1>4. \A p \in Payments : TravelInv(p)
  BY DEF Init, Payment!Init, TravelInv, Recorded, Underway, Handled, Handles
<1>5. QED BY <1>1, <1>2, <1>3, <1>4 DEF FlashInv, Init

LEMMA FlashIsInvariant == Spec => []FlashInv
<1>1. FlashInv /\ [Next]_vars => FlashInv'
  <2> SUFFICES ASSUME FlashInv, [Next]_vars PROVE FlashInv'
    OBVIOUS
  <2>1. ASSUME NEW s \in Orders, CreateOrder(s) PROVE FlashInv'
    BY <2>1, CreateOrderKeeps
  <2>2. ASSUME NEW p \in Payments, NEW s \in Orders, Prepay(p, s) PROVE FlashInv'
    BY <2>2, PrepayKeeps
  <2>3. ASSUME NEW p \in Payments, Pay(p) PROVE FlashInv'
    BY <2>3, PayKeeps
  <2>4. ASSUME NEW h \in Handlers, NEW p \in Payments, Notified(h, p) PROVE FlashInv'
    BY <2>4, NotifiedKeeps
  <2>5. ASSUME NEW h \in Handlers, NEW m \in topic, Consume(h, m) PROVE FlashInv'
    BY <2>5, ConsumeKeeps
  <2>6. ASSUME NEW h \in Handlers, NEW s \in Orders, StartClose(h, s) PROVE FlashInv'
    BY <2>6, StartCloseKeeps
  <2>7. ASSUME NEW h \in Handlers, Record(h) PROVE FlashInv'
    BY <2>7, RecordKeeps
  <2>8. ASSUME NEW h \in Handlers, Move(h) PROVE FlashInv'
    BY <2>8, MoveKeeps
  <2>9. CASE UNCHANGED vars
    BY <2>9 DEF vars, orderVars, paymentVars, FlashInv, TypeOK, GoalInv, StoreInv, TravelInv,
         Recorded, Underway, Handled, Handles, Result
  <2>10. QED
    BY <2>1, <2>2, <2>3, <2>4, <2>5, <2>6, <2>7, <2>8, <2>9 DEF Next
<1>2. QED BY <1>1, InitFlash, PTL DEF Spec

\* The types of the composed system.
THEOREM FlashTypes == Spec => []TypeOK
<1>1. FlashInv => TypeOK
  BY DEF FlashInv
<1>2. QED BY <1>1, FlashIsInvariant, PTL

\* Whatever number of payments, orders and handlers: a payment the user made is
\* still notified or is recorded, and the result of a recorded one is in one place,
\* in Kafka, in a handler of the order service, or consumed.
THEOREM NoResultIsLost == Spec => []ResultsTravel
<1>1. ASSUME FlashInv, NEW p \in Payments
      PROVE  LET underway == {m \in topic : m.of = p}
                 handled == {h \in Handlers : Handles(h, p)} IN
             Cardinality(underway) + Cardinality(handled)
               + (IF p \in consumed THEN 1 ELSE 0) = (IF Recorded(p) THEN 1 ELSE 0)
  <2> DEFINE underway == {m \in topic : m.of = p}
             handled == {h \in Handlers : Handles(h, p)}
  <2>1. Cardinality(underway) = IF Underway(p) THEN 1 ELSE 0
    <3>1. CASE Underway(p)
      <4>1. underway = {Result(p)}
        BY <1>1, <3>1 DEF FlashInv, Underway
      <4>2. QED BY <3>1, <4>1, FS_Singleton
    <3>2. CASE ~Underway(p)
      <4>1. underway = {}
        BY <3>2 DEF Underway
      <4>2. QED BY <3>2, <4>1, FS_EmptySet
    <3>3. QED BY <3>1, <3>2
  <2>2. Cardinality(handled) = IF Handled(p) THEN 1 ELSE 0
    <3>1. CASE Handled(p)
      <4>1. PICK h \in Handlers : Handles(h, p)
        BY <3>1 DEF Handled
      <4>2. handled = {h}
        BY <1>1, <4>1 DEF FlashInv, TravelInv
      <4>3. QED BY <3>1, <4>2, FS_Singleton
    <3>2. CASE ~Handled(p)
      <4>1. handled = {}
        BY <3>2 DEF Handled
      <4>2. QED BY <3>2, <4>1, FS_EmptySet
    <3>3. QED BY <3>1, <3>2
  <2>3. TravelInv(p)
    BY <1>1 DEF FlashInv
  <2>4. QED BY <2>1, <2>2, <2>3 DEF TravelInv
<1>2. FlashInv => ResultsTravel
  <2> SUFFICES ASSUME FlashInv, NEW p \in Payments
      PROVE  /\ wx[p] = "SUCCESS" => p \in notices \/ Recorded(p)
             /\ Cardinality({m \in topic : m.of = p})
                  + Cardinality({h \in Handlers : Handles(h, p)})
                  + (IF p \in consumed THEN 1 ELSE 0) = (IF Recorded(p) THEN 1 ELSE 0)
    BY DEF ResultsTravel, Recorded, Handles
  <2>1. QED BY <1>1 DEF FlashInv, StoreInv
<1>3. QED BY <1>2, FlashIsInvariant, PTL
=============================================================================
