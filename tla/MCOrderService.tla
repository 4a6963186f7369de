---------------------------- MODULE MCOrderService ----------------------------
(***************************************************************************)
(* One order, one client of each kind, and messages for it.                *)
(***************************************************************************)
EXTENDS OrderService

Msg(id, s, pay) == [id |-> id, sn |-> s, pay |-> pay]

\* Two payments of one order, both successful, as two pre-pay calls allow.
TwoPaid == {Msg(1, "order", PaySuccess), Msg(2, "order", PaySuccess)}

\* One success, and a failure, which the consumer ignores.
PaidAndFailed == {Msg(1, "order", PaySuccess), Msg(2, "order", PayFAIL)}
=============================================================================
