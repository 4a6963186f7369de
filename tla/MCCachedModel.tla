---------------------------- MODULE MCCachedModel ----------------------------
(***************************************************************************)
(* CachedModel with the states of an order: the allowed changes are those  *)
(* of verifyOrderTradeState, restricted to the states the callers in the   *)
(* repository ask for.  They form no cycle, so the versions are bounded    *)
(* without a constraint.                                                   *)
(***************************************************************************)
EXTENDS CachedModel, TLC

\* Cancel, WaitPay, WaitUse, Refund of app/order/model/vars.go
MCVals == {-1, 0, 1, 3}
MCInitVals == {0}
MCAllowed == {<<0, -1>>, <<0, 1>>, <<1, 3>>}

Symmetry == Permutations(Procs)

=============================================================================
