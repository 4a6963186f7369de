----------------------------- MODULE CachedModel -----------------------------
(***************************************************************************)
(* The goctl-generated models homestayOrderModel_gen.go and                *)
(* thirdPaymentModel_gen.go, which have the same shape: a MySQL table read *)
(* through a Redis cache with two keys per row, the index key sn -> id and *)
(* the row key id -> row, and updated with optimistic locking on the       *)
(* version column.  A row's id is identified with its serial number.       *)
(*                                                                         *)
(* Every call is split at its round trips to MySQL and Redis, so that the  *)
(* calls of several processes interleave there: a reader may put back into *)
(* the cache a row it selected before a writer deleted the keys, a writer  *)
(* may die between its UPDATE and the DEL of the keys, and a DEL may fail  *)
(* and be retried later by go-zero's cleaner.  The cache is therefore      *)
(* often stale; what the properties say is that the version check makes    *)
(* decisions taken on stale rows harmless.                                 *)
(*                                                                         *)
(* The generated Update, Delete and DeleteSoft have no caller in the       *)
(* repository: a row is inserted once and never deleted.                   *)
(***************************************************************************)
EXTENDS Integers

CONSTANTS
  Procs,      \* goroutines of the service's replicas
  Sns,        \* serial numbers
  Vals,       \* values of the state column (trade_state, pay_status)
  InitVals,   \* values a row may be inserted with
  Allowed,    \* pairs <<old, new>> that the callers' check lets through
  None        \* no row, no value, no serial number

Row == [version : Nat, val : Vals]

\* The None marker cannot be confused with data.
ASSUME CachedModelAssumption ==
  /\ InitVals \subseteq Vals
  /\ None \notin Row
  /\ None \notin [sn : Sns, row : Row]
  /\ None \notin Vals
  /\ None \notin Sns

VARIABLES
  db,         \* the table: the current row of each serial number
  idKey,      \* Redis, row key: a row, or None on a miss
  snKey,      \* Redis, index key: "miss", "absent" (the * placeholder) or "id"
  unsent,     \* serial numbers whose DEL failed and waits in the cleaner
  pc,         \* where each process is in its model call
  sn,         \* the serial number it works on
  read,       \* the row its current lookup has read
  data,       \* the row its caller was given, newData of UpdateWithVersion
  want,       \* the state it wants to write, None outside UpdateWithVersion
  won,        \* its UPDATE matched the version
  committed   \* history: every row the table ever held

procVars == <<pc, sn, read, data, want, won>>
cacheVars == <<idKey, snKey, unsent>>
vars == <<db, cacheVars, procVars, committed>>

PCs == {"idle", "delNew",
        "selectSn", "markAbsent", "setRow", "setSn",
        "getRow", "selectRow", "fillRow",
        "held", "notFound", "cas", "delKeys"}

TypeOK ==
  /\ db \in [Sns -> Row \union {None}]
  /\ idKey \in [Sns -> Row \union {None}]
  /\ snKey \in [Sns -> {"miss", "absent", "id"}]
  /\ unsent \in SUBSET Sns
  /\ pc \in [Procs -> PCs]
  /\ sn \in [Procs -> Sns \union {None}]
  /\ read \in [Procs -> Row \union {None}]
  /\ data \in [Procs -> Row \union {None}]
  /\ want \in [Procs -> Vals \union {None}]
  /\ won \in [Procs -> BOOLEAN]
  /\ committed \in [Sns -> SUBSET Row]

Init ==
  /\ db = [s \in Sns |-> None]
  /\ idKey = [s \in Sns |-> None]
  /\ snKey = [s \in Sns |-> "miss"]
  /\ unsent = {}
  /\ pc = [p \in Procs |-> "idle"]
  /\ sn = [p \in Procs |-> None]
  /\ read = [p \in Procs |-> None]
  /\ data = [p \in Procs |-> None]
  /\ want = [p \in Procs |-> None]
  /\ won = [p \in Procs |-> FALSE]
  /\ committed = [s \in Sns |-> {}]

-----------------------------------------------------------------------------
Goto(p, l) == pc' = [pc EXCEPT ![p] = l]

Write(s, row) ==
  /\ db' = [db EXCEPT ![s] = row]
  /\ committed' = [committed EXCEPT ![s] = @ \union {row}]

\* The call is over: its locals are gone.
Return(p) ==
  /\ Goto(p, "idle")
  /\ sn' = [sn EXCEPT ![p] = None]
  /\ read' = [read EXCEPT ![p] = None]
  /\ data' = [data EXCEPT ![p] = None]
  /\ want' = [want EXCEPT ![p] = None]
  /\ won' = [won EXCEPT ![p] = FALSE]

\* A lookup has its row: inside UpdateWithVersion it only served to name the
\* keys, otherwise the caller gets it.
Deliver(p, row) ==
  /\ read' = [read EXCEPT ![p] = row]
  /\ IF want[p] = None
     THEN data' = [data EXCEPT ![p] = row] /\ Goto(p, "held")
     ELSE UNCHANGED data /\ Goto(p, "cas")
  /\ UNCHANGED <<sn, want, won>>

-----------------------------------------------------------------------------
\* Mutant of InsertRow: the caller forgot to set the state.
InsertNoState(p, s, v) ==
  /\ pc[p] = "idle"
  /\ db[s] = None
  /\ Write(s, [version |-> 0, val |-> None])
  /\ Goto(p, "delNew")
  /\ sn' = [sn EXCEPT ![p] = s]
  /\ UNCHANGED <<cacheVars, read, data, want, won>>

\* Insert: the INSERT commits a fresh serial number with version 0 ...
InsertRow(p, s, v) ==
  /\ pc[p] = "idle"
  /\ db[s] = None
  /\ Write(s, [version |-> 0, val |-> v])
  /\ Goto(p, "delNew")
  /\ sn' = [sn EXCEPT ![p] = s]
  /\ UNCHANGED <<cacheVars, read, data, want, won>>

\* ... then deletes the index key, and the row key of id 0, which is nobody's:
\* data.Id is only assigned by the INSERT.
DelNew(p) ==
  /\ pc[p] = "delNew"
  /\ snKey' = [snKey EXCEPT ![sn[p]] = "miss"]
  /\ Return(p)
  /\ UNCHANGED <<db, committed, idKey, unsent>>

\* FindOneBySn (QueryRowIndexCtx): read the index key.  The * placeholder
\* answers ErrNotFound at once.
GetSn(p, s) ==
  /\ pc[p] = "idle"
  /\ \/ snKey[s] = "miss" /\ Goto(p, "selectSn")
     \/ snKey[s] = "id" /\ Goto(p, "getRow")
     \/ snKey[s] = "absent" /\ Goto(p, "notFound")
  /\ sn' = [sn EXCEPT ![p] = s]
  /\ UNCHANGED <<db, committed, cacheVars, read, data, want, won>>

\* Index miss: SELECT ... WHERE sn = ?
SelectSn(p) ==
  /\ pc[p] = "selectSn"
  /\ IF db[sn[p]] = None
     THEN Goto(p, "markAbsent") /\ UNCHANGED read
     ELSE Goto(p, "setRow") /\ read' = [read EXCEPT ![p] = db[sn[p]]]
  /\ UNCHANGED <<db, committed, cacheVars, sn, data, want, won>>

\* Nothing found: SETNX of the placeholder, and ErrNotFound.
MarkAbsent(p) ==
  /\ pc[p] = "markAbsent"
  /\ snKey' = [snKey EXCEPT ![sn[p]] = IF @ = "miss" THEN "absent" ELSE @]
  /\ Goto(p, "notFound")
  /\ UNCHANGED <<db, committed, idKey, unsent, sn, read, data, want, won>>

\* Found: SET of the row key ...
SetRow(p) ==
  /\ pc[p] = "setRow"
  /\ idKey' = [idKey EXCEPT ![sn[p]] = read[p]]
  /\ Goto(p, "setSn")
  /\ UNCHANGED <<db, committed, snKey, unsent, sn, read, data, want, won>>

\* ... and of the index key.
SetSn(p) ==
  /\ pc[p] = "setSn"
  /\ snKey' = [snKey EXCEPT ![sn[p]] = "id"]
  /\ Deliver(p, read[p])
  /\ UNCHANGED <<db, committed, idKey, unsent>>

\* FindOne by id (QueryRowCtx), reached from an index hit and from
\* UpdateWithVersion: read the row key.
GetRow(p) ==
  /\ pc[p] = "getRow"
  /\ IF idKey[sn[p]] = None
     THEN Goto(p, "selectRow") /\ UNCHANGED <<sn, read, data, want, won>>
     ELSE Deliver(p, idKey[sn[p]])
  /\ UNCHANGED <<db, committed, cacheVars>>

\* Row miss: SELECT ... WHERE id = ?
SelectRow(p) ==
  /\ pc[p] = "selectRow"
  /\ read' = [read EXCEPT ![p] = db[sn[p]]]
  /\ Goto(p, "fillRow")
  /\ UNCHANGED <<db, committed, cacheVars, sn, data, want, won>>

\* SET of the row key.  A SET that fails is only logged: it is this step
\* followed by an expiry.
FillRow(p) ==
  /\ pc[p] = "fillRow"
  /\ idKey' = [idKey EXCEPT ![sn[p]] = read[p]]
  /\ Deliver(p, read[p])
  /\ UNCHANGED <<db, committed, snKey, unsent>>

\* The singleflight barrier, on the index key: p asks while q of the same
\* replica is fetching it, and gets q's answer without a round trip of its own.
\* p may go on before q's SET lands, as it would on another replica.
ShareSn(p, q) ==
  /\ pc[p] = "idle"
  /\ \/ pc[q] \in {"setRow", "setSn"} /\ Goto(p, "getRow")
     \/ pc[q] = "markAbsent" /\ Goto(p, "notFound")
  /\ sn' = [sn EXCEPT ![p] = sn[q]]
  /\ UNCHANGED <<db, committed, cacheVars, read, data, want, won>>

\* The same on the row key: p gets the row that q has selected.
ShareRow(p, q) ==
  /\ pc[p] = "getRow"
  /\ pc[q] = "fillRow"
  /\ sn[p] = sn[q]
  /\ Deliver(p, read[q])
  /\ UNCHANGED <<db, committed, cacheVars>>

\* The caller only read, or found nothing, or its check refused the change.
Release(p) ==
  /\ pc[p] \in {"held", "notFound"}
  /\ Return(p)
  /\ UNCHANGED <<db, committed, cacheVars>>

\* Mutant of BeginUpdate: the caller does not check the change.
BeginUnchecked(p, v) ==
  /\ pc[p] = "held"
  /\ want' = [want EXCEPT ![p] = v]
  /\ Goto(p, "getRow")
  /\ UNCHANGED <<db, committed, cacheVars, sn, read, data, won>>

\* The caller's check, made on its copy, lets the new state through and
\* UpdateWithVersion starts, with a FindOne of its own.
BeginUpdate(p, v) ==
  /\ pc[p] = "held"
  /\ <<data[p].val, v>> \in Allowed
  /\ want' = [want EXCEPT ![p] = v]
  /\ Goto(p, "getRow")
  /\ UNCHANGED <<db, committed, cacheVars, sn, read, data, won>>

\* Mutants of UpdateRow.  Without "and version = ?":
UpdateBlind(p) ==
  /\ pc[p] = "cas"
  /\ Write(sn[p], [version |-> data[p].version + 1, val |-> want[p]])
  /\ won' = [won EXCEPT ![p] = TRUE]
  /\ Goto(p, "delKeys")
  /\ UNCHANGED <<cacheVars, sn, read, data, want>>

\* With the version of the row that UpdateWithVersion itself reads:
UpdateReread(p) ==
  /\ pc[p] = "cas"
  /\ IF db[sn[p]].version = read[p].version
     THEN /\ Write(sn[p], [version |-> read[p].version + 1, val |-> want[p]])
          /\ won' = [won EXCEPT ![p] = TRUE]
     ELSE UNCHANGED <<db, committed, won>>
  /\ Goto(p, "delKeys")
  /\ UNCHANGED <<cacheVars, sn, read, data, want>>

\* UPDATE ... WHERE id = ? AND version = oldVersion
UpdateRow(p) ==
  /\ pc[p] = "cas"
  /\ IF db[sn[p]].version = data[p].version
     THEN /\ Write(sn[p], [version |-> data[p].version + 1, val |-> want[p]])
          /\ won' = [won EXCEPT ![p] = TRUE]
     ELSE UNCHANGED <<db, committed, won>>
  /\ Goto(p, "delKeys")
  /\ UNCHANGED <<cacheVars, sn, read, data, want>>

\* Mutant of DelKeys: the row is written to the cache instead.
CacheNewRow(p) ==
  /\ pc[p] = "delKeys"
  /\ idKey' = [idKey EXCEPT ![sn[p]] = [version |-> data[p].version + 1, val |-> want[p]]]
  /\ Return(p)
  /\ UNCHANGED <<db, committed, snKey, unsent>>

\* DEL of both keys, whether or not the UPDATE matched a row: the refused
\* writer clears the stale row it was misled by.  Then nil if won, otherwise
\* ErrNoRowsUpdate.
DelKeys(p) ==
  /\ pc[p] = "delKeys"
  /\ idKey' = [idKey EXCEPT ![sn[p]] = None]
  /\ snKey' = [snKey EXCEPT ![sn[p]] = "miss"]
  /\ Return(p)
  /\ UNCHANGED <<db, committed, unsent>>

\* The DEL fails: it is handed to the cleaner and the call returns as if done.
DelLater(p) ==
  /\ pc[p] \in {"delNew", "delKeys"}
  /\ unsent' = unsent \union {sn[p]}
  /\ Return(p)
  /\ UNCHANGED <<db, committed, idKey, snKey>>

\* The cleaner's retry.
CleanKeys(s) ==
  /\ s \in unsent
  /\ idKey' = [idKey EXCEPT ![s] = None]
  /\ snKey' = [snKey EXCEPT ![s] = "miss"]
  /\ unsent' = unsent \ {s}
  /\ UNCHANGED <<db, committed, procVars>>

\* A key reaches its expiry: 7 days for rows, 1 minute for the placeholder.
ExpireRow(s) ==
  /\ idKey[s] # None
  /\ idKey' = [idKey EXCEPT ![s] = None]
  /\ UNCHANGED <<db, committed, snKey, unsent, procVars>>

ExpireSn(s) ==
  /\ snKey[s] # "miss"
  /\ snKey' = [snKey EXCEPT ![s] = "miss"]
  /\ UNCHANGED <<db, committed, idKey, unsent, procVars>>

\* The replica dies, the call's deadline passes, or MySQL or Redis answers
\* with an error: what is left of the call does not happen.
Abandon(p) ==
  /\ pc[p] # "idle"
  /\ Return(p)
  /\ UNCHANGED <<db, committed, cacheVars>>

-----------------------------------------------------------------------------
\* The steps inside a call, which need no decision of the caller.
CallStep(p) ==
  \/ DelNew(p) \/ SelectSn(p) \/ MarkAbsent(p) \/ SetRow(p) \/ SetSn(p)
  \/ GetRow(p) \/ SelectRow(p) \/ FillRow(p)
  \/ UpdateRow(p) \/ DelKeys(p) \/ DelLater(p)

CacheStep(s) == CleanKeys(s) \/ ExpireRow(s) \/ ExpireSn(s)

Next ==
  \/ \E p \in Procs, s \in Sns, v \in InitVals : InsertRow(p, s, v)
  \/ \E p \in Procs, s \in Sns : GetSn(p, s)
  \/ \E p, q \in Procs : ShareSn(p, q) \/ ShareRow(p, q)
  \/ \E p \in Procs, v \in Vals : BeginUpdate(p, v)
  \/ \E p \in Procs : CallStep(p) \/ Release(p) \/ Abandon(p)
  \/ \E s \in Sns : CacheStep(s)

Spec == Init /\ [][Next]_vars

-----------------------------------------------------------------------------
(* Properties                                                              *)

\* A row in the cache or in a caller's hands is a row the table really held
\* for that serial number: a cache filled from interleaved SELECTs never mixes
\* rows or serves one that was not committed.
SnapshotsCommitted ==
  /\ \A s \in Sns :
       /\ db[s] # None => db[s] \in committed[s]
       /\ idKey[s] # None => idKey[s] \in committed[s]
  /\ \A p \in Procs :
       /\ read[p] # None => read[p] \in committed[sn[p]]
       /\ data[p] # None => data[p] \in committed[sn[p]]

\* The version column identifies a row's contents: no two different rows of a
\* serial number were ever committed with one version, and none is newer than
\* the current one.  This is what lets UpdateWithVersion compare versions
\* instead of rows.
VersionDeterminesRow ==
  \A s \in Sns :
    /\ \A r1, r2 \in committed[s] : r1.version = r2.version => r1 = r2
    /\ \A r \in committed[s] : r.version <= db[s].version

\* Of the writers that decided on the same row at most one is told it
\* succeeded, however stale the caches they read from.
OneWinner ==
  \A p, q \in Procs :
    p # q /\ won[p] /\ won[q] /\ sn[p] = sn[q]
      => data[p].version # data[q].version

\* An update replaces exactly the row its caller checked: the current row
\* changes only to an allowed state of the next version.
ChecksAreAtomic ==
  [][\A s \in Sns : db[s] # None /\ db'[s] # db[s]
       => /\ db'[s].version = db[s].version + 1
          /\ <<db[s].val, db'[s].val>> \in Allowed]_vars

-----------------------------------------------------------------------------
\* The row a process decides on, as its caller knows it.
Hand(p) ==
  IF data[p] = None \/ pc[p] = "delKeys"
  THEN None ELSE [sn |-> sn[p], row |-> data[p]]

Hands == [p \in Procs |-> Hand(p)]

\* The cached model keeps the promise of the uncached one.
Rows == INSTANCE VersionedRow WITH table <- db, hand <- Hands
RowsSpec == Rows!Spec
=============================================================================
