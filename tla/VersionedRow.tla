---------------------------- MODULE VersionedRow ----------------------------
(***************************************************************************)
(* What the generated models of the order and payment services promise     *)
(* (app/order/model/homestayOrderModel_gen.go and                          *)
(* app/payment/model/thirdPaymentModel_gen.go): a table of versioned rows  *)
(* in which a caller takes a copy of some committed row, not necessarily   *)
(* the current one, and may replace the current row only if the copy it    *)
(* decided on IS the current row.                                          *)
(*                                                                         *)
(* There is no cache here.  CachedModel, which has one, implements this    *)
(* specification; the services are modelled on top of it.                  *)
(***************************************************************************)
EXTENDS Integers

CONSTANTS
  Procs,      \* goroutines of the service's replicas
  Sns,        \* serial numbers, the unique key callers look rows up by
  Vals,       \* the state column of a row
  InitVals,   \* the states a row may be inserted with
  Allowed,    \* pairs <<old, new>> that the callers' check lets through
  None        \* no row, no copy

Row == [version : Nat, val : Vals]

VARIABLES
  table,      \* the current row of each serial number
  committed,  \* every row the table ever held
  hand        \* the copy each process decides on: its sn and row

vars == <<table, committed, hand>>

Init ==
  /\ table = [s \in Sns |-> None]
  /\ committed = [s \in Sns |-> {}]
  /\ hand = [p \in Procs |-> None]

Write(s, row) ==
  /\ table' = [table EXCEPT ![s] = row]
  /\ committed' = [committed EXCEPT ![s] = @ \union {row}]

\* Insert of a fresh serial number.
Create(s, v) ==
  /\ table[s] = None
  /\ Write(s, [version |-> 0, val |-> v])
  /\ UNCHANGED hand

\* FindOneBySn answers with a row that was current at some time.
Take(p, s) ==
  /\ hand[p] = None
  /\ \E row \in committed[s] : hand' = [hand EXCEPT ![p] = [sn |-> s, row |-> row]]
  /\ UNCHANGED <<table, committed>>

\* UpdateWithVersion succeeds: the copy is the current row.
Advance(p, v) ==
  /\ hand[p] # None
  /\ hand[p].row = table[hand[p].sn]
  /\ <<hand[p].row.val, v>> \in Allowed
  /\ Write(hand[p].sn, [version |-> hand[p].row.version + 1, val |-> v])
  /\ hand' = [hand EXCEPT ![p] = None]

\* The caller only wanted to read, was refused (ErrNoRowsUpdate) or died.
Drop(p) ==
  /\ hand[p] # None
  /\ hand' = [hand EXCEPT ![p] = None]
  /\ UNCHANGED <<table, committed>>

Next ==
  \/ \E s \in Sns, v \in InitVals : Create(s, v)
  \/ \E p \in Procs, s \in Sns : Take(p, s)
  \/ \E p \in Procs, v \in Vals : Advance(p, v)
  \/ \E p \in Procs : Drop(p)

Spec == Init /\ [][Next]_vars
=============================================================================
