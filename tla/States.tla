-------------------------------- MODULE States --------------------------------
(***************************************************************************)
(* The state columns of orders and payments, and the pure functions of the *)
(* services over them.  The numbers are the code's.                        *)
(***************************************************************************)
EXTENDS Integers

\* homestay_order.trade_state (HomestayOrderTradeState...)
Cancel  == -1
WaitPay == 0
WaitUse == 1
Used    == 2
Refund  == 3
Expire  == 4
TradeStates == {Cancel, WaitPay, WaitUse, Used, Refund, Expire}

\* third_payment.pay_status (ThirdPaymentPayTradeState...)
PayFAIL    == -1
PayWait    == 0
PaySuccess == 1
PayRefund  == 2
PayStates == {PayFAIL, PayWait, PaySuccess, PayRefund}

\* Mutant of verifyOrderTradeState: WaitUse is grouped with the wrong states.
verifyMisgrouped(newTradeState, oldTradeState) ==
  /\ newTradeState # WaitPay
  /\ newTradeState = Cancel => oldTradeState = WaitPay
  /\ newTradeState \in {WaitUse, Used, Refund, Expire} => oldTradeState = WaitUse

\* The order service's check of a change of trade state.  A new state that the
\* code does not name falls through its if-chain and is accepted.
verifyOrderTradeState(newTradeState, oldTradeState) ==
  /\ newTradeState # WaitPay
  /\ newTradeState \in {Cancel, WaitUse} => oldTradeState = WaitPay
  /\ newTradeState \in {Used, Refund, Expire} => oldTradeState = WaitUse

\* The changes UpdateHomestayOrderTradeState writes.  Asking for the state the
\* order is in returns before the check.
OrderChanges ==
  {change \in TradeStates \X TradeStates :
     /\ change[2] # change[1]
     /\ verifyOrderTradeState(change[2], change[1])}

\* UpdateTradeState of the payment service, by the asked pay_status: "done"
\* returns success without writing, "refused" returns an error.
PaymentCheck(new, old) ==
  CASE new \in {PaySuccess, PayFAIL} -> IF old = PayWait THEN "write" ELSE "done"
    [] new = PayRefund -> IF old = PaySuccess THEN "write" ELSE "refused"
    [] OTHER -> "refused"

PaymentChanges ==
  {change \in PayStates \X PayStates :
     PaymentCheck(change[2], change[1]) = "write"}

\* The trade states WeChat Pay reports in a notification.
WxTradeStates ==
  {"SUCCESS", "REFUND", "NOTPAY", "CLOSED", "REVOKED", "USERPAYING", "PAYERROR"}

getPayStatusByWXPayTradeState(wxPayTradeState) ==
  CASE wxPayTradeState = "SUCCESS" -> PaySuccess
    [] wxPayTradeState \in {"USERPAYING", "REFUND"} -> PayWait
    [] OTHER -> PayFAIL

\* The order consumer's mapping; -99 stands for "nothing to do".
Ignored == -99

getOrderTradeStateByPaymentTradeState(payStatus) ==
  CASE payStatus = PaySuccess -> WaitUse
    [] payStatus = PayRefund -> Refund
    [] OTHER -> Ignored
=============================================================================
