-------------------------------- MODULE Lists ---------------------------------
(***************************************************************************)
(* The list queries of every table, and the lists that the services make   *)
(* of them, as kinds of lists for Paging.                                  *)
(***************************************************************************)
EXTENDS Paging

CONSTANT DataIds  \* what the column data_id of the activities may be: functions of the id

ASSUME DataIdsAssumption == DataIds \subseteq [Ids -> Int]

ByNumber == Offset \union {"FindAll", "FindSum"}

\* Nobody but the lists of activities passes an orderBy: it is "id DESC".
Kind(methods, flips, givesId) ==
  [methods |-> methods, place |-> NewestFirst, flips |-> flips, givesId |-> givesId]

-----------------------------------------------------------------------------
(* The queries of the eight generated models.  Those of orders, payments   *)
(* and activities are asked with a condition on a state that changes.      *)

UserQueriesById == Kind(Keyset, FALSE, TRUE)
UserQueriesByNumber == Kind(ByNumber, FALSE, TRUE)

UserAuthQueriesById == Kind(Keyset, FALSE, TRUE)
UserAuthQueriesByNumber == Kind(ByNumber, FALSE, TRUE)

HomestayOrderQueriesById == Kind(Keyset, TRUE, TRUE)
HomestayOrderQueriesByNumber == Kind(ByNumber, TRUE, TRUE)

ThirdPaymentQueriesById == Kind(Keyset, TRUE, TRUE)
ThirdPaymentQueriesByNumber == Kind(ByNumber, TRUE, TRUE)

HomestayBusinessQueriesById == Kind(Keyset, FALSE, TRUE)
HomestayBusinessQueriesByNumber == Kind(ByNumber, FALSE, TRUE)

HomestayQueriesById == Kind(Keyset, FALSE, TRUE)
HomestayQueriesByNumber == Kind(ByNumber, FALSE, TRUE)

\* The services ask ORDER BY data_id DESC, which no index makes unique.
HomestayActivityQueriesById == Kind(Keyset, TRUE, TRUE)
HomestayActivityQueriesByNumber(dataId) ==
  [Kind(ByNumber, TRUE, TRUE) EXCEPT !.place = dataId]

HomestayCommentQueriesById == Kind(Keyset, FALSE, TRUE)
HomestayCommentQueriesByNumber == Kind(ByNumber, FALSE, TRUE)

-----------------------------------------------------------------------------
(* The lists of the services                                               *)

\* The homestays of a business, which they never leave.
BusinessList == Kind({"FindPageListByIdDESC"}, FALSE, TRUE)

HomestayBussinessList == Kind({"FindPageListByIdDESC"}, FALSE, TRUE)

\* order-rpc: the orders of a user, in one trade state if that asked for is one of
\* the six, otherwise in any.  Its answer holds the ids.
OfOneState(tradeState) == tradeState \in -1..4

OrderRpcList == Kind({"FindPageListByIdDESC"}, OfOneState(0), TRUE)

\* order-api hands on lastId and the trade state, -99 for all.  Its answer holds
\* the serial numbers and no ids.
OrderApiList == Kind({"FindPageListByIdDESC"}, OfOneState(-99), FALSE)

AllLists ==
  {UserQueriesById, UserQueriesByNumber, UserAuthQueriesById,
   UserAuthQueriesByNumber, HomestayOrderQueriesById,
   HomestayOrderQueriesByNumber, ThirdPaymentQueriesById,
   ThirdPaymentQueriesByNumber, HomestayBusinessQueriesById,
   HomestayBusinessQueriesByNumber, HomestayQueriesById,
   HomestayQueriesByNumber, HomestayActivityQueriesById,
   HomestayCommentQueriesById, HomestayCommentQueriesByNumber, BusinessList,
   HomestayBussinessList, OrderRpcList, OrderApiList}
    \union {HomestayActivityQueriesByNumber(dataId) : dataId \in DataIds}
=============================================================================
