-------------------------------- MODULE Paging --------------------------------
(***************************************************************************)
(* The list queries of the generated models, FindSum to                    *)
(* FindPageListByIdASC, and a client that walks through a list page by     *)
(* page while others insert, delete softly and change the rows.  They do   *)
(* not use the cache: every page is one SELECT.                            *)
(*                                                                         *)
(* A row is its id.  The queries by page number have an ORDER BY of their  *)
(* own, on which rows may tie: id for most lists, data_id, which is not    *)
(* unique, for the activities.                                             *)
(***************************************************************************)
EXTENDS Integers, FiniteSets, FiniteSetsExt

CONSTANTS
  MaxId,      \* bound on the ids, which are 1..MaxId
  PageSizes,  \* what clients ask for
  ListKinds   \* records [methods, place, flips, givesId], see below

Keyset == {"FindPageListByIdDESC", "FindPageListByIdASC"}
Offset == {"FindPageListByPage", "FindPageListByPageWithTotal"}

Ids == 1..MaxId

ASSUME PagingAssumption ==
  /\ MaxId \in Nat
  /\ PageSizes \subseteq Nat \ {0}
  /\ ListKinds \subseteq
       [methods : SUBSET (Keyset \union Offset \union {"FindAll", "FindSum"}),
        place : [Ids -> Int],   \* the column of the ORDER BY, descending, of Offset
        flips : BOOLEAN,        \* the caller's condition may change for a row
        givesId : BOOLEAN]      \* the list that the client gets holds the ids

VARIABLES
  list,      \* the kind of list a behaviour is about; it never changes
  used,      \* ids that have been inserted
  found,     \* those that a query finds: del_state = 0, and the caller's condition
  deleted,   \* those that were deleted softly
  at,        \* where the client is: "idle", "count", "sum", "page" or "done"
  method, size,
  cursor,    \* lastId of its next request, preMinId and preMaxId of the query
  page,      \* page number of its next request
  total,     \* the count that came with the first page, or the sum; -1 before
  seen,      \* history: the rows it was given
  repeated,  \* history: those it was given twice
  stable,    \* history: rows that the query would have found all the time
  grew,      \* history: a row came into the list during the walk
  shrank     \* history: one left it

table == <<used, found, deleted>>
request == <<list, method, size, cursor, page>>
client == <<at, request, total, seen, repeated>>
history == <<stable, grew, shrank>>
vars == <<table, client, history>>

TypeOK ==
  /\ used \subseteq Ids /\ found \subseteq used /\ deleted \subseteq used \ found
  /\ at \in {"idle", "count", "sum", "page", "done"}
  /\ list \in ListKinds /\ method \in list.methods /\ size \in PageSizes
  /\ cursor \in 0..MaxId /\ page \in Nat
  /\ method # "FindSum" => total \in Nat \union {-1}
  /\ seen \subseteq used /\ repeated \subseteq seen /\ stable \subseteq found
  /\ grew \in BOOLEAN /\ shrank \in BOOLEAN

Init ==
  /\ used \in {1..n : n \in 0..MaxId}
  /\ found \in SUBSET used /\ deleted = {}
  /\ at = "idle"
  /\ list \in ListKinds /\ method \in list.methods /\ size \in PageSizes
  /\ cursor = 0 /\ page \in {0, 1} /\ total = -1
  /\ seen = {} /\ repeated = {}
  /\ stable = {} /\ grew = FALSE /\ shrank = FALSE

-----------------------------------------------------------------------------
(* The table changes                                                       *)

Walking == at \in {"count", "sum", "page"}

Enter(i) ==
  /\ found' = found \union {i}
  /\ grew' = (grew \/ Walking)
  /\ UNCHANGED <<stable, shrank>>

Leave(i) ==
  /\ found' = found \ {i}
  /\ stable' = stable \ {i}
  /\ shrank' = (shrank \/ (Walking /\ i \in found))
  /\ UNCHANGED grew

\* Ids are given out in order, but rows appear in the order of the commits.
InsertRow(i) ==
  /\ i \notin used
  /\ used' = used \union {i}
  /\ Enter(i)
  /\ UNCHANGED <<deleted, client>>

DeleteSoft(i) ==
  /\ i \in used \ deleted
  /\ deleted' = deleted \union {i}
  /\ Leave(i)
  /\ UNCHANGED <<used, client>>

\* An order changes its state, an activity is taken off line.
Update(i) ==
  /\ list.flips /\ i \in used \ deleted
  /\ IF i \in found THEN Leave(i) ELSE Enter(i)
  /\ UNCHANGED <<used, deleted, client>>

-----------------------------------------------------------------------------
(* The queries                                                             *)

\* ORDER BY id DESC and ORDER BY id, as the column that orders descending.
NewestFirst == [i \in Ids |-> i]
OldestFirst == [i \in Ids |-> MaxId - i]

\* Mutant of IsFirst: there is no ORDER BY.
IsSome(t, s, k, place) ==
  /\ t \subseteq s
  /\ Cardinality(t) <= k
  /\ t # s => Cardinality(t) = k

\* ORDER BY place DESC LIMIT k, of the rows s: t is as many as there are, up to k,
\* and none comes after one that is left out.  Of rows that tie it is any.
IsFirst(t, s, k, place) ==
  /\ t \subseteq s
  /\ Cardinality(t) <= k
  /\ t # s => Cardinality(t) = k
  /\ \A x \in t, y \in s \ t : place[x] >= place[y]

Ask ==
  CASE method = "FindPageListByPageWithTotal" -> "count"
    [] method = "FindSum" /\ total = -1 -> "sum"
    [] OTHER -> "page"

\* The page is returned, the last one when it is short.  Only an id in it lets
\* the client ask for what comes after.
Give(t, last) ==
  /\ seen' = seen \union t
  /\ repeated' = repeated \union (t \intersect seen)
  /\ at' = IF last \/ Cardinality(t) < size THEN "done" ELSE Ask

\* Mutant of FindPageListByIdDESC: the condition is id <= preMinId.
PageFromId ==
  /\ method = "FindPageListByIdDESC" /\ at = "page"
  /\ LET s == IF cursor > 0 THEN {i \in found : i <= cursor} ELSE found IN
     \E t \in SUBSET s :
       /\ IsFirst(t, s, size, NewestFirst)
       /\ Give(t, ~list.givesId)
       /\ IF t = {} \/ ~list.givesId THEN UNCHANGED cursor
          ELSE cursor' \in t /\ \A i \in t : cursor' <= i
  /\ UNCHANGED <<table, list, method, size, page, total, history>>

FindPageListByIdDESC ==
  /\ method = "FindPageListByIdDESC" /\ at = "page"
  /\ LET s == IF cursor > 0 THEN {i \in found : i < cursor} ELSE found IN
     \E t \in SUBSET s :
       /\ IsFirst(t, s, size, NewestFirst)
       /\ Give(t, ~list.givesId)
       /\ IF t = {} \/ ~list.givesId THEN UNCHANGED cursor
          ELSE cursor' \in t /\ \A i \in t : cursor' <= i
  /\ UNCHANGED <<table, list, method, size, page, total, history>>

FindPageListByIdASC ==
  /\ method = "FindPageListByIdASC" /\ at = "page"
  /\ LET s == IF cursor > 0 THEN {i \in found : i > cursor} ELSE found IN
     \E t \in SUBSET s :
       /\ IsFirst(t, s, size, OldestFirst)
       /\ Give(t, ~list.givesId)
       /\ IF t = {} \/ ~list.givesId THEN UNCHANGED cursor
          ELSE cursor' \in t /\ \A i \in t : cursor' >= i
  /\ UNCHANGED <<table, list, method, size, page, total, history>>

\* A page number below 1 means the first page.
PageNumber == IF page < 1 THEN 1 ELSE page

\* OFFSET (page - 1) * pageSize, LIMIT pageSize.  Each query breaks ties anew.
FindPageListByPage ==
  /\ method \in Offset /\ at = "page"
  /\ \E upTo \in SUBSET found : \E before \in SUBSET upTo :
       /\ IsFirst(before, found, (PageNumber - 1) * size, list.place)
       /\ IsFirst(upTo, found, PageNumber * size, list.place)
       /\ Give(upTo \ before, FALSE)
  /\ page' = PageNumber + 1
  /\ UNCHANGED <<table, list, method, size, cursor, total, history>>

\* Mutant of FindCount: there is no condition on del_state.
CountAll ==
  /\ method = "FindPageListByPageWithTotal" /\ at = "count"
  /\ total' = IF total = -1 THEN Cardinality(found \union deleted) ELSE total
  /\ at' = "page"
  /\ UNCHANGED <<table, request, seen, repeated, history>>

\* FindPageListByPageWithTotal counts in a query of its own before each page.
FindCount ==
  /\ method = "FindPageListByPageWithTotal" /\ at = "count"
  /\ total' = IF total = -1 THEN Cardinality(found) ELSE total
  /\ at' = "page"
  /\ UNCHANGED <<table, request, seen, repeated, history>>

\* The sum of a column, here the ids themselves, 0 if there is no row.
FindSum ==
  /\ method = "FindSum" /\ at = "sum"
  /\ total' = SumSet(found)
  /\ at' = "page"
  /\ UNCHANGED <<table, request, seen, repeated, history>>

\* All rows in one query, perhaps after their sum.
FindAll ==
  /\ method \in {"FindAll", "FindSum"} /\ at = "page"
  /\ Give(found, TRUE)
  /\ UNCHANGED <<table, request, total, history>>

-----------------------------------------------------------------------------
Start ==
  /\ at = "idle"
  /\ at' = Ask
  /\ stable' = found
  /\ UNCHANGED <<table, request, total, seen, repeated, grew, shrank>>

Next ==
  \/ Start
  \/ FindPageListByIdDESC \/ FindPageListByIdASC
  \/ FindPageListByPage \/ FindCount \/ FindSum \/ FindAll
  \/ \E i \in Ids : InsertRow(i) \/ DeleteSoft(i) \/ Update(i)

Spec == Init /\ [][Next]_vars

-----------------------------------------------------------------------------
(* Properties                                                              *)

\* A row that ties with no other has one place in the pages by number.  (By id, and
\* in one query, each row has.)
Placed(i) == method \in Offset => \A j \in used \ {i} : list.place[j] # list.place[i]

\* Whoever has read to the last page has been given every row that was there
\* all the time, whatever came and went meanwhile; with page numbers only if
\* nothing went, since what follows then moves forward, and only the rows that do
\* not tie: of activities with one data_id, OFFSET may pass over some.  A list
\* without ids is not asked for its second page.
NothingSkipped ==
  at = "done" /\ list.givesId /\ (method \in Offset => ~shrank) =>
    \A i \in stable : Placed(i) => i \in seen

\* No row is given twice; with page numbers only if nothing came, and then only
\* activities with one data_id are.
NothingRepeated ==
  (method \in Offset => ~grew) => \A i \in repeated : ~Placed(i)

\* The total that comes with the first page, or the sum asked for first, is not
\* less than what the client gets, unless rows came, and not more, unless some went
\* or, with page numbers, some tie.
TotalFits ==
  LET got == IF method = "FindSum" THEN SumSet(seen) ELSE Cardinality(seen) IN
  at = "done" /\ method \in {"FindPageListByPageWithTotal", "FindSum"} =>
    /\ ~grew => got <= total
    /\ ~shrank /\ (\A i \in used : Placed(i)) => total <= got
=============================================================================
