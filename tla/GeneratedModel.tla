---------------------------- MODULE GeneratedModel ----------------------------
(***************************************************************************)
(* The template of goctl from which all the *_gen.go models are made: the  *)
(* whole of its reading and writing interface, over a MySQL table with     *)
(* soft deletion, a version and any number of unique indexes, cached in    *)
(* Redis under one key for the id and one for each index.  Tables.tla      *)
(* gives the eight tables of the repository.  They share nothing, so a     *)
(* behaviour is that of one table, which the initial state chooses.        *)
(*                                                                         *)
(* CachedModel is the part of this interface the order and payment         *)
(* services use, on a table with one index and without deletion.  Here is  *)
(* the rest: Update, which writes what the caller holds whatever the row   *)
(* has become, deletion of both kinds, tables without or with several      *)
(* indexes, and the placeholders of both kinds of keys.  The columns of an *)
(* index are never changed, as nowhere in the repository.                  *)
(***************************************************************************)
EXTENDS Integers

CONSTANTS
  Procs,    \* goroutines
  Schemas,  \* the tables: records [name, rows, indexes, methods, maxId, maxVersion]
  None,
  Absent,   \* the placeholder * in Redis
  Miss      \* no key in Redis

\* Of a table: what callers insert (a row's indexed columns), its unique indexes (sets
\* of columns), the writing methods that callers use, and bounds on the rows inserted
\* and on the versions of a row.
ASSUME ModelAssumption ==
  \A s \in Schemas :
    /\ s.methods \subseteq {"Update", "UpdateWithVersion", "DeleteSoft", "Delete"}
    /\ s.maxId \in Nat /\ s.maxVersion \in Nat

VARIABLES
  schema,  \* the table a behaviour is about; it never changes
  rows,    \* the table: [id, version, deleted, cols] by id, None before the insert
           \* and after a DELETE
  lastId,  \* AUTO_INCREMENT
  idKey,   \* Redis by id: a row, Absent or Miss
  ixKey,   \* Redis by index key: an id, Absent or Miss
  pc,      \* where each goroutine is
  op,      \* the method it is in
  ask,     \* the index key it looks up, None in a lookup by id
  id,      \* the id it looks up
  read,    \* the row its lookup has selected
  held,    \* the copy its caller holds
  named    \* the columns whose keys its method will delete

database == <<schema, rows, lastId>>
cache == <<idKey, ixKey>>
locals == <<pc, op, ask, id, read, held, named>>
modelVars == <<database, cache, locals>>

RowIds == 1..schema.maxId
IndexKey(i, c) == [col \in i |-> c[col]]
IndexKeys(c) == {IndexKey(i, c) : i \in schema.indexes}
Keys == UNION {IndexKeys(c) : c \in schema.rows}

ModelInit ==
  /\ schema \in Schemas
  /\ rows = [n \in RowIds |-> None] /\ lastId = 0
  /\ idKey = [n \in RowIds |-> Miss]
  /\ ixKey = [k \in Keys |-> Miss]
  /\ pc = [p \in Procs |-> "idle"]
  /\ op = [p \in Procs |-> None]
  /\ ask = [p \in Procs |-> None]
  /\ id = [p \in Procs |-> 0]
  /\ read = [p \in Procs |-> None]
  /\ held = [p \in Procs |-> None]
  /\ named = [p \in Procs |-> None]

-----------------------------------------------------------------------------
Goto(p, l) == pc' = [pc EXCEPT ![p] = l]

Return(p) ==
  /\ Goto(p, "idle")
  /\ op' = [op EXCEPT ![p] = None]
  /\ ask' = [ask EXCEPT ![p] = None]
  /\ id' = [id EXCEPT ![p] = 0]
  /\ read' = [read EXCEPT ![p] = None]
  /\ held' = [held EXCEPT ![p] = None]
  /\ named' = [named EXCEPT ![p] = None]

\* A SELECT of either kind leaves out what was deleted softly.
Live(n) == rows[n] # None /\ ~rows[n].deleted

-----------------------------------------------------------------------------
(* FindOne and FindOneBy...                                                *)

\* The lookup has its row: the caller of FindOne gets it, a writing method has
\* the keys to delete.
Deliver(p, method, row) ==
  /\ op' = [op EXCEPT ![p] = method]
  /\ read' = [read EXCEPT ![p] = None]
  /\ IF method = "Find"
     THEN /\ held' = [held EXCEPT ![p] = row]
          /\ id' = [id EXCEPT ![p] = 0]
          /\ Goto(p, "held") /\ UNCHANGED named
     ELSE /\ named' = [named EXCEPT ![p] = row.cols]
          /\ id' = [id EXCEPT ![p] = row.id]
          /\ Goto(p, "exec") /\ UNCHANGED held

\* FindOne begins with a GET of the row.
LookUpRow(p, method, n) ==
  \/ /\ idKey[n] = Absent
     /\ Return(p)
  \/ /\ idKey[n] = Miss
     /\ op' = [op EXCEPT ![p] = method]
     /\ id' = [id EXCEPT ![p] = n]
     /\ Goto(p, "selectRow")
     /\ UNCHANGED <<ask, read, held, named>>
  \/ /\ idKey[n] \notin {Absent, Miss}
     /\ Deliver(p, method, idKey[n])
     /\ UNCHANGED ask

FindOne(p, n) ==
  /\ pc[p] = "idle"
  /\ LookUpRow(p, "Find", n)
  /\ UNCHANGED <<database, cache>>

\* FindOneBy... begins with a GET of the index.
FindOneBy(p, k) ==
  /\ pc[p] = "idle"
  /\ ixKey[k] # Absent
  /\ op' = [op EXCEPT ![p] = "Find"]
  /\ ask' = [ask EXCEPT ![p] = k]
  /\ IF ixKey[k] = Miss
     THEN Goto(p, "selectIx") /\ UNCHANGED id
     ELSE Goto(p, "getRow") /\ id' = [id EXCEPT ![p] = ixKey[k]]
  /\ UNCHANGED <<database, cache, read, held, named>>

SelectIx(p) ==
  /\ pc[p] = "selectIx"
  /\ LET found == {n \in RowIds : Live(n) /\ ask[p] \in IndexKeys(rows[n].cols)} IN
     IF found = {} THEN Goto(p, "ixAbsent") /\ UNCHANGED <<id, read>>
     ELSE \E n \in found : /\ id' = [id EXCEPT ![p] = n]
                           /\ read' = [read EXCEPT ![p] = rows[n]]
                           /\ Goto(p, "setRow")
  /\ UNCHANGED <<database, cache, op, ask, held, named>>

\* SETNX of the placeholder; the caller gets ErrNotFound.
MarkIx(p) ==
  /\ pc[p] = "ixAbsent"
  /\ ixKey' = [ixKey EXCEPT ![ask[p]] = IF @ = Miss THEN Absent ELSE @]
  /\ Return(p)
  /\ UNCHANGED <<database, idKey>>

SetRow(p) ==
  /\ pc[p] = "setRow"
  /\ idKey' = [idKey EXCEPT ![id[p]] = read[p]]
  /\ Goto(p, "setIx")
  /\ UNCHANGED <<database, ixKey, op, ask, id, read, held, named>>

SetIx(p) ==
  /\ pc[p] = "setIx"
  /\ ixKey' = [ixKey EXCEPT ![ask[p]] = id[p]]
  /\ Deliver(p, op[p], read[p])
  /\ UNCHANGED <<database, idKey, ask>>

GetRow(p) ==
  /\ pc[p] = "getRow"
  /\ LookUpRow(p, op[p], id[p])
  /\ UNCHANGED <<database, cache>>

SelectRow(p) ==
  /\ pc[p] = "selectRow"
  /\ IF ~Live(id[p]) THEN Goto(p, "rowAbsent") /\ UNCHANGED read
     ELSE read' = [read EXCEPT ![p] = rows[id[p]]] /\ Goto(p, "fillRow")
  /\ UNCHANGED <<database, cache, op, ask, id, held, named>>

MarkRow(p) ==
  /\ pc[p] = "rowAbsent"
  /\ idKey' = [idKey EXCEPT ![id[p]] = IF @ = Miss THEN Absent ELSE @]
  /\ Return(p)
  /\ UNCHANGED <<database, ixKey>>

FillRow(p) ==
  /\ pc[p] = "fillRow"
  /\ idKey' = [idKey EXCEPT ![id[p]] = read[p]]
  /\ Deliver(p, op[p], read[p])
  /\ UNCHANGED <<database, ixKey, ask>>

Release(p) ==
  /\ pc[p] = "held"
  /\ Return(p)
  /\ UNCHANGED <<database, cache>>

-----------------------------------------------------------------------------
(* Writing                                                                 *)

\* Mutant of Insert: the id of a deleted row is used again.
InsertReusedId(p, c) ==
  /\ pc[p] = "idle"
  /\ \E n \in RowIds : rows[n] = None
  /\ \A n \in RowIds : rows[n] # None => IndexKeys(rows[n].cols) \intersect IndexKeys(c) = {}
  /\ LET n == CHOOSE n \in RowIds : rows[n] = None /\ \A m \in 1..(n - 1) : rows[m] # None
         row == [id |-> n, version |-> 0, deleted |-> FALSE, cols |-> c] IN
     rows' = [rows EXCEPT ![n] = row]
  /\ named' = [named EXCEPT ![p] = c]
  /\ op' = [op EXCEPT ![p] = "Insert"]
  /\ Goto(p, "del")
  /\ UNCHANGED <<schema, lastId, cache, ask, id, read, held>>

\* INSERT; a unique index refuses what it has, soft-deleted rows included.
Insert(p, c) ==
  /\ pc[p] = "idle"
  /\ lastId < schema.maxId
  /\ \A n \in RowIds : rows[n] # None => IndexKeys(rows[n].cols) \intersect IndexKeys(c) = {}
  /\ lastId' = lastId + 1
  /\ LET row == [id |-> lastId', version |-> 0, deleted |-> FALSE, cols |-> c] IN
     rows' = [rows EXCEPT ![lastId'] = row]
  /\ named' = [named EXCEPT ![p] = c]
  /\ op' = [op EXCEPT ![p] = "Insert"]
  /\ Goto(p, "del")
  /\ UNCHANGED <<schema, cache, ask, id, read, held>>

\* Update, UpdateWithVersion and DeleteSoft of the copy the caller holds, and
\* Delete of an id, all begin with a FindOne to name the keys.
Delete(p, n) ==
  /\ pc[p] = "idle"
  /\ LookUpRow(p, "Delete", n)
  /\ UNCHANGED <<database, cache>>

Begin(p, method) ==
  /\ pc[p] = "held"
  /\ LookUpRow(p, method, held[p].id)
  /\ UNCHANGED <<database, cache>>

\* Mutant of Matches: the version is not compared.
MatchesAny(old, mine) == old # None

\* ... where id = ? and version = ?
Matches(old, mine) == old # None /\ old.version = mine.version

\* The statement.  The version condition is UpdateWithVersion's alone.
Exec(p) ==
  /\ pc[p] = "exec"
  /\ LET n == id[p]
         old == rows[n]
         next == [held[p] EXCEPT !.version = @ + 1]
         matches == Matches(old, held[p])
     IN rows' = CASE op[p] = "Update" /\ old # None -> [rows EXCEPT ![n] = held[p]]
                  [] op[p] = "UpdateWithVersion" /\ matches -> [rows EXCEPT ![n] = next]
                  [] op[p] = "DeleteSoft" /\ matches ->
                       [rows EXCEPT ![n] = [next EXCEPT !.deleted = TRUE]]
                  [] op[p] = "Delete" -> [rows EXCEPT ![n] = None]
                  [] OTHER -> rows
  /\ op[p] \in {"UpdateWithVersion", "DeleteSoft"} => held[p].version < schema.maxVersion
  /\ Goto(p, "del")
  /\ held' = [held EXCEPT ![p] = None]
  /\ UNCHANGED <<schema, lastId, cache, op, ask, id, read, named>>

\* DEL of the keys of the row that was read, or inserted, under id 0 then.  It
\* may fail: the cleaner repeats it, which an expiry stands for.
DelKeys(p) ==
  /\ pc[p] = "del"
  /\ \/ /\ idKey' = IF op[p] = "Insert" THEN idKey ELSE [idKey EXCEPT ![id[p]] = Miss]
        /\ ixKey' = [k \in Keys |-> IF k \in IndexKeys(named[p]) THEN Miss ELSE ixKey[k]]
     \/ UNCHANGED cache
  /\ Return(p)
  /\ UNCHANGED database

ExpireRow(n) ==
  /\ idKey[n] # Miss
  /\ idKey' = [idKey EXCEPT ![n] = Miss]
  /\ UNCHANGED <<database, ixKey, locals>>

ExpireIx(k) ==
  /\ ixKey[k] # Miss
  /\ ixKey' = [ixKey EXCEPT ![k] = Miss]
  /\ UNCHANGED <<database, idKey, locals>>

\* An error of MySQL or Redis, a deadline, a crash.
Abandon(p) ==
  /\ pc[p] # "idle"
  /\ Return(p)
  /\ UNCHANGED <<database, cache>>

-----------------------------------------------------------------------------
CallStep(p) ==
  \/ SelectIx(p) \/ MarkIx(p) \/ SetRow(p) \/ SetIx(p)
  \/ GetRow(p) \/ SelectRow(p) \/ MarkRow(p) \/ FillRow(p)
  \/ Exec(p) \/ DelKeys(p)

ModelNext ==
  \/ \E p \in Procs :
       \/ \E c \in schema.rows : Insert(p, c)
       \/ \E n \in RowIds : FindOne(p, n)
       \/ \E k \in Keys : FindOneBy(p, k)
       \/ \E n \in RowIds : "Delete" \in schema.methods /\ Delete(p, n)
       \/ \E method \in schema.methods \ {"Delete"} : Begin(p, method)
       \/ CallStep(p) \/ Release(p) \/ Abandon(p)
  \/ \E n \in RowIds : ExpireRow(n)
  \/ \E k \in Keys : ExpireIx(k)

ModelSpec == ModelInit /\ [][ModelNext]_modelVars

-----------------------------------------------------------------------------
(* Properties                                                              *)

\* A lookup by a unique index, say by mobile number, never returns the row of another,
\* although the index and the row are two keys in Redis, each possibly stale, and rows
\* are deleted: an id, once cached for a number, means the same user as long as it
\* means anything.
IndexLeadsToRow ==
  \A p \in Procs : pc[p] = "held" /\ ask[p] # None => ask[p] \in IndexKeys(held[p].cols)

\* When no writer uses Update, what one of them has deleted no other brings back, not
\* even one that still decides on a cached copy.
DeletedStaysDeleted ==
  [][\A n \in RowIds :
       "Update" \notin schema.methods /\ rows[n] # None /\ rows[n].deleted
         => rows'[n] = None \/ rows'[n].deleted]_modelVars
=============================================================================
