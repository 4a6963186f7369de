------------------------------ MODULE Lifecycle -------------------------------
(***************************************************************************)
(* What the order and the payment service promise about each order or      *)
(* payment, without cache, handlers and queues: it comes into being in a   *)
(* first state, goes from the state it is in to one that may follow, and   *)
(* whoever makes a change that others wait to hear of announces it, once,  *)
(* unless he fails before he does                                          *)
(* (updateHomestayOrderTradeStateLogic.go:33-84 of order-rpc,              *)
(* updateTradeStateLogic.go:33-93 of payment-rpc).                         *)
(*                                                                         *)
(* OrderService and PaymentService implement this specification.           *)
(***************************************************************************)
EXTENDS Naturals

CONSTANTS
  Items,       \* orders or payments
  States,      \* the states they may be in
  InitStates,  \* those they begin in
  Changes,     \* pairs <<old, new>>
  Announced,   \* states that are announced when they are reached
  None         \* not yet there

VARIABLES
  state,  \* of each item
  owed,   \* those whose announcement is still to be made
  told    \* how many were made

vars == <<state, owed, told>>

Init ==
  /\ state = [i \in Items |-> None]
  /\ owed = {}
  /\ told = [i \in Items |-> 0]

Begin(i) ==
  /\ state[i] = None
  /\ \E v \in InitStates : state' = [state EXCEPT ![i] = v]
  /\ UNCHANGED <<owed, told>>

\* Nobody reaches an announced state while an announcement is still owed.
Change(i) ==
  \E new \in States :
    /\ <<state[i], new>> \in Changes
    /\ state' = [state EXCEPT ![i] = new]
    /\ IF new \in Announced
       THEN i \notin owed /\ owed' = owed \union {i}
       ELSE UNCHANGED owed
    /\ UNCHANGED told

Announce(i) ==
  /\ i \in owed
  /\ owed' = owed \ {i}
  /\ told' = [told EXCEPT ![i] = @ + 1]
  /\ UNCHANGED state

\* Who owed it died, or the queue did not take it.
Fail(i) ==
  /\ i \in owed
  /\ owed' = owed \ {i}
  /\ UNCHANGED <<state, told>>

Next == \E i \in Items : Begin(i) \/ Change(i) \/ Announce(i) \/ Fail(i)

Spec == Init /\ [][Next]_vars
=============================================================================
