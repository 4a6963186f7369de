------------------------- MODULE GeneratedModelProofs --------------------------
(***************************************************************************)
(* Theorems about what goctl generates.  GeneratedModel: for every table,  *)
(* with any rows and unique indexes, and any number of goroutines.         *)
(* Paging: for every table, every page size and every sequence of          *)
(* insertions, deletions and changes meanwhile.                            *)
(***************************************************************************)
EXTENDS GeneratedModel, Paging, FiniteSetTheorems, TLAPS

(***************************************************************************)
(* An id means one row                                                     *)
(***************************************************************************)

\* A row that was inserted, where C says which columns under which id.
IsRow(r, C) ==
  /\ r \in [id : 1..lastId, version : Nat, deleted : BOOLEAN, cols : schema.rows]
  /\ r.cols = C[r.id]

\* A copy is as old as the row or older, and older than its deletion.
IsCopy(r, C) ==
  /\ IsRow(r, C)
  /\ "Update" \notin schema.methods =>
       /\ ~r.deleted
       /\ rows[r.id] # None =>
            /\ r.version <= rows[r.id].version
            /\ rows[r.id].deleted => r.version < rows[r.id].version

\* What the ids mean in the table, in Redis by id, and by index key.
StoredInv(C) ==
  /\ schema \in Schemas /\ lastId \in Nat /\ lastId <= schema.maxId
  /\ C \in [1..lastId -> schema.rows]
  /\ DOMAIN rows = RowIds /\ DOMAIN idKey = RowIds /\ DOMAIN ixKey = Keys
  /\ \A n \in RowIds : rows[n] # None => IsRow(rows[n], C) /\ rows[n].id = n
  /\ \A n \in RowIds :
       idKey[n] \notin {Absent, Miss} => IsCopy(idKey[n], C) /\ idKey[n].id = n
  /\ \A k \in Keys :
       ixKey[k] \notin {Absent, Miss} => ixKey[k] \in 1..lastId /\ k \in IndexKeys(C[ixKey[k]])

ByIndex == {"selectIx", "ixAbsent", "setRow", "setIx"}

WithId == {"getRow", "selectRow", "rowAbsent", "fillRow", "setRow", "setIx"}

\* The index key k is one of the row under the id n.
LeadsTo(k, n, C) == k # None => n \in 1..lastId /\ k \in IndexKeys(C[n])

\* What a goroutine at the label l of method o holds: k, the key it asks for, n, the id it
\* has found, r, the row it has read, and h, the copy it is about to write.
MayHold(C, l, o, k, n, r, h) ==
  /\ l = "idle" => k = None
  /\ l \in ByIndex => k \in Keys /\ o = "Find"
  /\ l = "held" => IsCopy(h, C) /\ LeadsTo(k, h.id, C)
  /\ l \in WithId => n \in RowIds /\ LeadsTo(k, n, C)
  /\ l \in {"fillRow", "setRow", "setIx"} => IsCopy(r, C) /\ r.id = n
  /\ l \in {"setRow", "setIx"} => n \in 1..lastId /\ k \in IndexKeys(C[n])
  /\ l \in WithId \union {"exec"} /\ o \notin {"Find", "Delete"} =>
       IsCopy(h, C) /\ h.id = n /\ o \in schema.methods
  /\ l = "exec" => n \in RowIds

HoldsInv(C, p) == MayHold(C, pc[p], op[p], ask[p], id[p], read[p], held[p])

ForEach(f) == f = [p \in Procs |-> f[p]]

LocalsTyped ==
  /\ ForEach(pc) /\ ForEach(op) /\ ForEach(ask) /\ ForEach(id)
  /\ ForEach(read) /\ ForEach(held) /\ ForEach(named)

MeaningOf(C) == StoredInv(C) /\ LocalsTyped /\ \A p \in Procs : HoldsInv(C, p)

\* An id, once given to a row, means this row in every copy and under every key.
IdsMeanOneRow == \E C : MeaningOf(C)

LEMMA ForEachStays ==
  ASSUME NEW f, ForEach(f), NEW p \in Procs, NEW v
  PROVE  /\ ForEach([f EXCEPT ![p] = v]) /\ [f EXCEPT ![p] = v][p] = v
         /\ \A q \in Procs : q # p => [f EXCEPT ![p] = v][q] = f[q]
         /\ [f EXCEPT ![p] = f[p]] = f
BY DEF ForEach

LEMMA InitMeans == ModelInit => IdsMeanOneRow
<1> SUFFICES ASSUME ModelInit
             PROVE  MeaningOf([n \in 1..0 |-> None])
  BY DEF IdsMeanOneRow
<1>1. lastId = 0 /\ schema \in Schemas /\ 1..lastId = {}
  BY DEF ModelInit
<1>2. StoredInv([n \in 1..0 |-> None])
  BY <1>1, ModelAssumption DEF StoredInv, ModelInit
<1>3. LocalsTyped
  BY DEF LocalsTyped, ForEach, ModelInit
<1>4. \A p \in Procs : HoldsInv([n \in 1..0 |-> None], p)
  BY DEF HoldsInv, MayHold, ModelInit, ByIndex, WithId
<1>5. QED BY <1>2, <1>3, <1>4 DEF MeaningOf

\* Copies stay what they are while the table does.
LEMMA CopiesStay ==
  ASSUME UNCHANGED database, NEW C
  PROVE  /\ \A r : IsRow(r, C)' <=> IsRow(r, C)
         /\ \A r : IsCopy(r, C)' <=> IsCopy(r, C)
         /\ \A k, n : LeadsTo(k, n, C)' <=> LeadsTo(k, n, C)
         /\ \A c : IndexKeys(c)' = IndexKeys(c)
         /\ RowIds' = RowIds /\ Keys' = Keys
BY DEF database, IsRow, IsCopy, LeadsTo, IndexKeys, IndexKey, Keys, RowIds

LEMMA HoldsStay ==
  ASSUME UNCHANGED database, NEW C
  PROVE  \A l, o, k, n, r, h : MayHold(C, l, o, k, n, r, h)' <=> MayHold(C, l, o, k, n, r, h)
BY CopiesStay DEF MayHold, database

\* Whatever goroutine p does with its own variables, the others keep theirs.
LEMMA OthersHold ==
  ASSUME NEW C, MeaningOf(C), NEW p \in Procs, UNCHANGED database, StoredInv(C)',
         NEW l, NEW o, NEW k, NEW n, NEW r, NEW h, NEW c,
         pc' = [pc EXCEPT ![p] = l], op' = [op EXCEPT ![p] = o],
         ask' = [ask EXCEPT ![p] = k], id' = [id EXCEPT ![p] = n],
         read' = [read EXCEPT ![p] = r], held' = [held EXCEPT ![p] = h],
         named' = [named EXCEPT ![p] = c], MayHold(C, l, o, k, n, r, h)
  PROVE  MeaningOf(C)'
<1>1. LocalsTyped'
  BY ForEachStays DEF MeaningOf, LocalsTyped
<1>2. ASSUME NEW q \in Procs
      PROVE  HoldsInv(C, q)'
  <2>1. CASE q # p
    <3>1. /\ pc'[q] = pc[q] /\ op'[q] = op[q] /\ ask'[q] = ask[q] /\ id'[q] = id[q]
          /\ read'[q] = read[q] /\ held'[q] = held[q]
      BY <2>1, ForEachStays DEF MeaningOf, LocalsTyped
    <3>2. QED BY <3>1, HoldsStay DEF MeaningOf, HoldsInv
  <2>2. CASE q = p
    <3>1. /\ pc'[p] = l /\ op'[p] = o /\ ask'[p] = k /\ id'[p] = n
          /\ read'[p] = r /\ held'[p] = h
      BY DEF MeaningOf, LocalsTyped, ForEach
    <3>2. QED BY <2>2, <3>1, HoldsStay DEF HoldsInv
  <2>3. QED BY <2>1, <2>2
<1>3. QED BY <1>1, <1>2 DEF MeaningOf

\* The steps that touch neither the table nor the cache keep what is stored.
LEMMA StoredStays ==
  ASSUME NEW C, StoredInv(C), UNCHANGED <<database, cache>>
  PROVE  StoredInv(C)'
<1>1. UNCHANGED database /\ UNCHANGED <<idKey, ixKey>> /\ UNCHANGED <<rows, lastId, schema>>
  BY DEF cache, database
<1>2. QED BY <1>1, CopiesStay DEF StoredInv

\* A goroutine that has returned holds nothing.
LEMMA Returns ==
  ASSUME NEW C, MeaningOf(C), NEW p \in Procs, UNCHANGED database, StoredInv(C)', Return(p)
  PROVE  MeaningOf(C)'
<1>1. MayHold(C, "idle", None, None, 0, None, None)
  BY DEF MayHold, ByIndex, WithId
<1>2. QED BY <1>1, OthersHold DEF Return, Goto

\* The caller of a lookup gets a copy of the row, and a writing method its id.
LEMMA Delivers ==
  ASSUME NEW C, MeaningOf(C), NEW p \in Procs, UNCHANGED database, StoredInv(C)',
         NEW method1, NEW row, Deliver(p, method1, row), UNCHANGED ask,
         IsCopy(row, C), row.id \in RowIds, LeadsTo(ask[p], row.id, C),
         method1 \notin {"Find", "Delete"} =>
           IsCopy(held[p], C) /\ held[p].id = row.id /\ method1 \in schema.methods
  PROVE  MeaningOf(C)'
<1>1. ask' = [ask EXCEPT ![p] = ask[p]] /\ named = [named EXCEPT ![p] = named[p]]
      /\ held = [held EXCEPT ![p] = held[p]]
  BY ForEachStays DEF MeaningOf, LocalsTyped
<1>2. CASE method1 = "Find"
  <2>1. MayHold(C, "held", "Find", ask[p], 0, None, row)
    BY DEF MayHold, ByIndex, WithId
  <2>2. /\ op' = [op EXCEPT ![p] = "Find"] /\ read' = [read EXCEPT ![p] = None]
        /\ held' = [held EXCEPT ![p] = row] /\ id' = [id EXCEPT ![p] = 0]
        /\ pc' = [pc EXCEPT ![p] = "held"] /\ named' = [named EXCEPT ![p] = named[p]]
    BY <1>1, <1>2 DEF Deliver, Goto
  <2>3. QED BY <1>1, <2>1, <2>2, OthersHold
<1>3. CASE method1 # "Find"
  <2>1. MayHold(C, "exec", method1, ask[p], row.id, None, held[p])
    BY <1>3 DEF MayHold, ByIndex, WithId
  <2>2. /\ op' = [op EXCEPT ![p] = method1] /\ read' = [read EXCEPT ![p] = None]
        /\ named' = [named EXCEPT ![p] = row.cols] /\ id' = [id EXCEPT ![p] = row.id]
        /\ pc' = [pc EXCEPT ![p] = "exec"] /\ held' = [held EXCEPT ![p] = held[p]]
    BY <1>1, <1>3 DEF Deliver, Goto
  <2>3. QED BY <1>1, <2>1, <2>2, OthersHold
<1>4. QED BY <1>2, <1>3

LEMMA LooksUp ==
  ASSUME NEW C, MeaningOf(C), NEW p \in Procs, UNCHANGED <<database, cache>>,
         NEW method1, NEW n \in RowIds, LookUpRow(p, method1, n),
         LeadsTo(ask[p], n, C),
         method1 \notin {"Find", "Delete"} =>
           IsCopy(held[p], C) /\ held[p].id = n /\ method1 \in schema.methods
  PROVE  MeaningOf(C)'
<1>1. StoredInv(C)' /\ UNCHANGED database
  BY StoredStays DEF MeaningOf
<1>2. CASE Return(p)
  BY <1>1, <1>2, Returns
<1>3. CASE /\ op' = [op EXCEPT ![p] = method1] /\ id' = [id EXCEPT ![p] = n]
           /\ Goto(p, "selectRow") /\ UNCHANGED <<ask, read, held, named>>
  <2>1. /\ ask = [ask EXCEPT ![p] = ask[p]] /\ named = [named EXCEPT ![p] = named[p]]
        /\ held = [held EXCEPT ![p] = held[p]] /\ read = [read EXCEPT ![p] = read[p]]
    BY ForEachStays DEF MeaningOf, LocalsTyped
  <2>2. MayHold(C, "selectRow", method1, ask[p], n, read[p], held[p])
    BY DEF MayHold, ByIndex, WithId
  <2>3. /\ pc' = [pc EXCEPT ![p] = "selectRow"]
        /\ op' = [op EXCEPT ![p] = method1] /\ id' = [id EXCEPT ![p] = n]
        /\ ask' = [ask EXCEPT ![p] = ask[p]] /\ named' = [named EXCEPT ![p] = named[p]]
        /\ held' = [held EXCEPT ![p] = held[p]] /\ read' = [read EXCEPT ![p] = read[p]]
    BY <1>3, <2>1 DEF Goto
  <2>4. QED BY <1>1, <2>2, <2>3, OthersHold
<1>4. CASE idKey[n] \notin {Absent, Miss} /\ Deliver(p, method1, idKey[n]) /\ UNCHANGED ask
  <2>1. IsCopy(idKey[n], C) /\ idKey[n].id = n
    BY <1>4 DEF MeaningOf, StoredInv
  <2>2. QED BY <1>1, <1>4, <2>1, Delivers
<1>5. QED BY <1>2, <1>3, <1>4 DEF LookUpRow

\* The steps of a lookup by an index.
LEMMA FindOneByStep ==
  ASSUME NEW C, MeaningOf(C), NEW p \in Procs, NEW k \in Keys, FindOneBy(p, k)
  PROVE  MeaningOf(C)'
<1>1. StoredInv(C)' /\ UNCHANGED database
  BY StoredStays DEF MeaningOf, FindOneBy
<1>2. /\ read' = [read EXCEPT ![p] = read[p]] /\ held' = [held EXCEPT ![p] = held[p]]
      /\ named' = [named EXCEPT ![p] = named[p]] /\ op' = [op EXCEPT ![p] = "Find"]
      /\ ask' = [ask EXCEPT ![p] = k]
  BY ForEachStays DEF MeaningOf, LocalsTyped, FindOneBy
<1>3. CASE ixKey[k] = Miss
  <2>1. MayHold(C, "selectIx", "Find", k, id[p], read[p], held[p])
    BY DEF MayHold, ByIndex, WithId
  <2>2. pc' = [pc EXCEPT ![p] = "selectIx"] /\ id' = [id EXCEPT ![p] = id[p]]
    BY <1>3, ForEachStays DEF MeaningOf, LocalsTyped, FindOneBy, Goto
  <2>3. QED BY <1>1, <1>2, <2>1, <2>2, OthersHold
<1>4. CASE ixKey[k] # Miss
  <2>1. LeadsTo(k, ixKey[k], C) /\ ixKey[k] \in RowIds
    BY <1>4, ModelAssumption DEF MeaningOf, StoredInv, LeadsTo, RowIds, FindOneBy
  <2>2. MayHold(C, "getRow", "Find", k, ixKey[k], read[p], held[p])
    BY <2>1 DEF MayHold, ByIndex, WithId
  <2>3. pc' = [pc EXCEPT ![p] = "getRow"] /\ id' = [id EXCEPT ![p] = ixKey[k]]
    BY <1>4 DEF FindOneBy, Goto
  <2>4. QED BY <1>1, <1>2, <2>2, <2>3, OthersHold
<1>5. QED BY <1>3, <1>4

\* What a SELECT finds is a copy, as old as the row.
LEMMA SelectsCopy ==
  ASSUME NEW C, MeaningOf(C), NEW n \in RowIds, Live(n)
  PROVE  IsCopy(rows[n], C) /\ rows[n].id = n /\ n \in 1..lastId /\ rows[n].cols = C[n]
<1>1. IsRow(rows[n], C) /\ rows[n].id = n /\ ~rows[n].deleted
  BY DEF MeaningOf, StoredInv, Live
<1>2. rows[n].version \in Nat /\ n \in 1..lastId
  BY <1>1 DEF IsRow
<1>3. QED BY <1>1, <1>2 DEF IsCopy, IsRow

LEMMA SelectIxStep ==
  ASSUME NEW C, MeaningOf(C), NEW p \in Procs, SelectIx(p)
  PROVE  MeaningOf(C)'
<1>1. StoredInv(C)' /\ UNCHANGED database
  BY StoredStays DEF MeaningOf, SelectIx
<1>2. ask[p] \in Keys /\ op[p] = "Find"
  BY DEF MeaningOf, HoldsInv, MayHold, ByIndex, SelectIx
<1>3. /\ op' = [op EXCEPT ![p] = op[p]] /\ held' = [held EXCEPT ![p] = held[p]]
      /\ named' = [named EXCEPT ![p] = named[p]] /\ ask' = [ask EXCEPT ![p] = ask[p]]
  BY ForEachStays DEF MeaningOf, LocalsTyped, SelectIx
<1>4. CASE Goto(p, "ixAbsent") /\ UNCHANGED <<id, read>>
  <2>1. MayHold(C, "ixAbsent", op[p], ask[p], id[p], read[p], held[p])
    BY <1>2 DEF MayHold, ByIndex, WithId
  <2>2. /\ pc' = [pc EXCEPT ![p] = "ixAbsent"] /\ id' = [id EXCEPT ![p] = id[p]]
        /\ read' = [read EXCEPT ![p] = read[p]]
    BY <1>4, ForEachStays DEF MeaningOf, LocalsTyped, Goto
  <2>3. QED BY <1>1, <1>3, <2>1, <2>2, OthersHold
<1>5. ASSUME NEW n \in RowIds, Live(n), ask[p] \in IndexKeys(rows[n].cols),
             id' = [id EXCEPT ![p] = n], read' = [read EXCEPT ![p] = rows[n]],
             Goto(p, "setRow")
      PROVE  MeaningOf(C)'
  <2>1. IsCopy(rows[n], C) /\ rows[n].id = n /\ n \in 1..lastId /\ rows[n].cols = C[n]
    BY <1>5, SelectsCopy
  <2>2. MayHold(C, "setRow", op[p], ask[p], n, rows[n], held[p])
    BY <1>2, <1>5, <2>1 DEF MayHold, ByIndex, WithId, LeadsTo
  <2>3. pc' = [pc EXCEPT ![p] = "setRow"]
    BY <1>5 DEF Goto
  <2>4. QED BY <1>1, <1>3, <1>5, <2>2, <2>3, OthersHold
<1>6. QED BY <1>4, <1>5 DEF SelectIx

LEMMA MarkIxStep ==
  ASSUME NEW C, MeaningOf(C), NEW p \in Procs, MarkIx(p)
  PROVE  MeaningOf(C)'
<1>1. UNCHANGED database /\ idKey' = idKey /\ Return(p)
      /\ ixKey' = [ixKey EXCEPT ![ask[p]] = IF @ = Miss THEN Absent ELSE @]
  BY DEF MarkIx
<1>2. UNCHANGED <<rows, lastId, schema>>
  BY <1>1 DEF database
<1>3. DOMAIN ixKey' = Keys /\ \A k \in Keys : ixKey'[k] = ixKey[k] \/ ixKey'[k] = Absent
  BY <1>1 DEF MeaningOf, StoredInv
<1>4. StoredInv(C)'
  BY <1>1, <1>2, <1>3, CopiesStay DEF MeaningOf, StoredInv
<1>5. QED BY <1>1, <1>4, Returns

\* What is written to the cache is what was read.
LEMMA RowIsCached ==
  ASSUME NEW C, StoredInv(C), UNCHANGED <<database, ixKey>>, NEW n \in RowIds, NEW r,
         idKey' = [idKey EXCEPT ![n] = r],
         r \notin {Absent, Miss} => IsCopy(r, C) /\ r.id = n
  PROVE  StoredInv(C)'
<1>1. UNCHANGED database /\ UNCHANGED <<rows, lastId, schema, ixKey>>
  BY DEF database
<1>2. DOMAIN idKey' = RowIds /\ idKey'[n] = r /\ \A m \in RowIds : m # n => idKey'[m] = idKey[m]
  BY DEF StoredInv
<1>3. QED BY <1>1, <1>2, CopiesStay DEF StoredInv

LEMMA SetRowStep ==
  ASSUME NEW C, MeaningOf(C), NEW p \in Procs, SetRow(p)
  PROVE  MeaningOf(C)'
<1>1. UNCHANGED database /\ pc' = [pc EXCEPT ![p] = "setIx"]
  BY DEF SetRow, Goto
<1>2. MayHold(C, "setRow", op[p], ask[p], id[p], read[p], held[p])
  BY DEF MeaningOf, HoldsInv, SetRow
<1>3. IsCopy(read[p], C) /\ read[p].id = id[p] /\ id[p] \in RowIds
  BY <1>2 DEF MayHold, WithId
<1>4. StoredInv(C)'
  BY <1>3, RowIsCached DEF MeaningOf, SetRow
<1>5. MayHold(C, "setIx", op[p], ask[p], id[p], read[p], held[p])
  BY <1>2 DEF MayHold, ByIndex, WithId
<1>6. /\ op' = [op EXCEPT ![p] = op[p]] /\ held' = [held EXCEPT ![p] = held[p]]
      /\ named' = [named EXCEPT ![p] = named[p]] /\ ask' = [ask EXCEPT ![p] = ask[p]]
      /\ id' = [id EXCEPT ![p] = id[p]] /\ read' = [read EXCEPT ![p] = read[p]]
  BY ForEachStays DEF MeaningOf, LocalsTyped, SetRow
<1>7. QED BY <1>1, <1>4, <1>5, <1>6, OthersHold

LEMMA SetIxStep ==
  ASSUME NEW C, MeaningOf(C), NEW p \in Procs, SetIx(p)
  PROVE  MeaningOf(C)'
<1>1. /\ pc[p] = "setIx" /\ UNCHANGED <<database, idKey, ask>>
      /\ ixKey' = [ixKey EXCEPT ![ask[p]] = id[p]] /\ Deliver(p, op[p], read[p])
  BY DEF SetIx
<1>2. MayHold(C, "setIx", op[p], ask[p], id[p], read[p], held[p])
  BY <1>1 DEF MeaningOf, HoldsInv
<1>3. /\ IsCopy(read[p], C) /\ read[p].id = id[p] /\ id[p] \in RowIds /\ id[p] \in 1..lastId
      /\ ask[p] \in Keys /\ ask[p] \in IndexKeys(C[id[p]]) /\ LeadsTo(ask[p], id[p], C)
      /\ op[p] = "Find"
  BY <1>2 DEF MayHold, WithId, ByIndex
<1>4. UNCHANGED <<rows, lastId, schema, idKey>>
  BY <1>1 DEF database
<1>5. /\ DOMAIN ixKey' = Keys /\ ixKey'[ask[p]] = id[p]
      /\ \A k \in Keys : k # ask[p] => ixKey'[k] = ixKey[k]
  BY <1>1, <1>3 DEF MeaningOf, StoredInv
<1>6. StoredInv(C)'
  BY <1>1, <1>3, <1>4, <1>5, CopiesStay DEF MeaningOf, StoredInv
<1>7. QED BY <1>1, <1>3, <1>6, Delivers

\* The steps of a lookup by id, which those of the writing methods begin with.
LEMMA FindOneStep ==
  ASSUME NEW C, MeaningOf(C), NEW p \in Procs, NEW n \in RowIds,
         FindOne(p, n) \/ Delete(p, n)
  PROVE  MeaningOf(C)'
<1>1. LeadsTo(ask[p], n, C) /\ UNCHANGED <<database, cache>>
  BY DEF MeaningOf, HoldsInv, MayHold, LeadsTo, FindOne, Delete
<1>2. LookUpRow(p, "Find", n) \/ LookUpRow(p, "Delete", n)
  BY DEF FindOne, Delete
<1>3. QED BY <1>1, <1>2, LooksUp

LEMMA BeginStep ==
  ASSUME NEW C, MeaningOf(C), NEW p \in Procs, NEW m \in schema.methods, Begin(p, m)
  PROVE  MeaningOf(C)'
<1>1. IsCopy(held[p], C) /\ LeadsTo(ask[p], held[p].id, C) /\ UNCHANGED <<database, cache>>
  BY DEF MeaningOf, HoldsInv, MayHold, Begin
<1>2. held[p].id \in RowIds
  BY <1>1, ModelAssumption DEF IsCopy, IsRow, RowIds, MeaningOf, StoredInv
<1>3. LookUpRow(p, m, held[p].id)
  BY DEF Begin
<1>4. QED BY <1>1, <1>2, <1>3, LooksUp

LEMMA GetRowStep ==
  ASSUME NEW C, MeaningOf(C), NEW p \in Procs, GetRow(p)
  PROVE  MeaningOf(C)'
<1>1. MayHold(C, "getRow", op[p], ask[p], id[p], read[p], held[p])
  BY DEF MeaningOf, HoldsInv, GetRow
<1>2. /\ id[p] \in RowIds /\ LeadsTo(ask[p], id[p], C)
      /\ op[p] \notin {"Find", "Delete"} =>
           IsCopy(held[p], C) /\ held[p].id = id[p] /\ op[p] \in schema.methods
  BY <1>1 DEF MayHold, WithId
<1>3. LookUpRow(p, op[p], id[p]) /\ UNCHANGED <<database, cache>>
  BY DEF GetRow
<1>4. QED BY <1>2, <1>3, LooksUp

LEMMA SelectRowStep ==
  ASSUME NEW C, MeaningOf(C), NEW p \in Procs, SelectRow(p)
  PROVE  MeaningOf(C)'
<1>1. StoredInv(C)' /\ UNCHANGED database
  BY StoredStays DEF MeaningOf, SelectRow
<1>2. MayHold(C, "selectRow", op[p], ask[p], id[p], read[p], held[p])
  BY DEF MeaningOf, HoldsInv, SelectRow
<1>3. /\ op' = [op EXCEPT ![p] = op[p]] /\ held' = [held EXCEPT ![p] = held[p]]
      /\ named' = [named EXCEPT ![p] = named[p]] /\ ask' = [ask EXCEPT ![p] = ask[p]]
      /\ id' = [id EXCEPT ![p] = id[p]]
  BY ForEachStays DEF MeaningOf, LocalsTyped, SelectRow
<1>4. CASE ~Live(id[p])
  <2>1. MayHold(C, "rowAbsent", op[p], ask[p], id[p], read[p], held[p])
    BY <1>2 DEF MayHold, ByIndex, WithId
  <2>2. pc' = [pc EXCEPT ![p] = "rowAbsent"] /\ read' = [read EXCEPT ![p] = read[p]]
    BY <1>4, ForEachStays DEF MeaningOf, LocalsTyped, SelectRow, Goto
  <2>3. QED BY <1>1, <1>3, <2>1, <2>2, OthersHold
<1>5. CASE Live(id[p])
  <2>1. id[p] \in RowIds
    BY <1>2 DEF MayHold, WithId
  <2>2. IsCopy(rows[id[p]], C) /\ rows[id[p]].id = id[p]
    BY <1>5, <2>1, SelectsCopy
  <2>3. MayHold(C, "fillRow", op[p], ask[p], id[p], rows[id[p]], held[p])
    BY <1>2, <2>2 DEF MayHold, ByIndex, WithId
  <2>4. pc' = [pc EXCEPT ![p] = "fillRow"] /\ read' = [read EXCEPT ![p] = rows[id[p]]]
    BY <1>5 DEF SelectRow, Goto
  <2>5. QED BY <1>1, <1>3, <2>3, <2>4, OthersHold
<1>6. QED BY <1>4, <1>5

LEMMA MarkRowStep ==
  ASSUME NEW C, MeaningOf(C), NEW p \in Procs, MarkRow(p)
  PROVE  MeaningOf(C)'
<1>1. id[p] \in RowIds
  BY DEF MeaningOf, HoldsInv, MayHold, WithId, MarkRow
<1>2. UNCHANGED <<database, ixKey>> /\ Return(p)
  BY DEF MarkRow
<1>3. idKey' = [idKey EXCEPT ![id[p]] = IF idKey[id[p]] = Miss THEN Absent ELSE idKey[id[p]]]
  BY DEF MarkRow
<1>4. StoredInv(C)'
  <2> DEFINE r == IF idKey[id[p]] = Miss THEN Absent ELSE idKey[id[p]]
  <2>1. r \notin {Absent, Miss} => IsCopy(r, C) /\ r.id = id[p]
    BY <1>1 DEF MeaningOf, StoredInv
  <2>2. QED BY <1>1, <1>2, <1>3, <2>1, RowIsCached DEF MeaningOf
<1>5. QED BY <1>2, <1>4, Returns

LEMMA FillRowStep ==
  ASSUME NEW C, MeaningOf(C), NEW p \in Procs, FillRow(p)
  PROVE  MeaningOf(C)'
<1>1. MayHold(C, "fillRow", op[p], ask[p], id[p], read[p], held[p])
  BY DEF MeaningOf, HoldsInv, FillRow
<1>2. /\ IsCopy(read[p], C) /\ read[p].id = id[p] /\ id[p] \in RowIds
      /\ LeadsTo(ask[p], id[p], C)
      /\ op[p] \notin {"Find", "Delete"} =>
           IsCopy(held[p], C) /\ held[p].id = id[p] /\ op[p] \in schema.methods
  BY <1>1 DEF MayHold, WithId
<1>3. StoredInv(C)'
  BY <1>2, RowIsCached DEF MeaningOf, FillRow
<1>4. UNCHANGED database /\ Deliver(p, op[p], read[p]) /\ UNCHANGED ask
  BY DEF FillRow
<1>5. QED BY <1>2, <1>3, <1>4, Delivers

\* Keys disappear from Redis when they are deleted or expire.
LEMMA KeysGo ==
  ASSUME NEW C, StoredInv(C), UNCHANGED database, DOMAIN idKey' = RowIds, DOMAIN ixKey' = Keys,
         \A n \in RowIds : idKey'[n] = idKey[n] \/ idKey'[n] = Miss,
         \A k \in Keys : ixKey'[k] = ixKey[k] \/ ixKey'[k] = Miss
  PROVE  StoredInv(C)'
<1>1. UNCHANGED <<rows, lastId, schema>>
  BY DEF database
<1>2. QED BY <1>1, CopiesStay DEF StoredInv

LEMMA DelKeysStep ==
  ASSUME NEW C, MeaningOf(C), NEW p \in Procs, DelKeys(p)
  PROVE  MeaningOf(C)'
<1>1. UNCHANGED database /\ Return(p)
  BY DEF DelKeys
<1>2. /\ DOMAIN idKey' = RowIds /\ DOMAIN ixKey' = Keys
      /\ \A n \in RowIds : idKey'[n] = idKey[n] \/ idKey'[n] = Miss
      /\ \A k \in Keys : ixKey'[k] = ixKey[k] \/ ixKey'[k] = Miss
  BY DEF DelKeys, MeaningOf, StoredInv, cache
<1>3. QED BY <1>1, <1>2, KeysGo, Returns DEF MeaningOf

LEMMA ExpireStep ==
  ASSUME NEW C, MeaningOf(C),
         (\E n \in RowIds : ExpireRow(n)) \/ (\E k \in Keys : ExpireIx(k))
  PROVE  MeaningOf(C)'
<1>1. UNCHANGED database /\ UNCHANGED locals
  BY DEF ExpireRow, ExpireIx
<1>2. /\ DOMAIN idKey' = RowIds /\ DOMAIN ixKey' = Keys
      /\ \A n \in RowIds : idKey'[n] = idKey[n] \/ idKey'[n] = Miss
      /\ \A k \in Keys : ixKey'[k] = ixKey[k] \/ ixKey'[k] = Miss
  BY DEF ExpireRow, ExpireIx, MeaningOf, StoredInv
<1>3. StoredInv(C)'
  BY <1>1, <1>2, KeysGo DEF MeaningOf
<1>4. UNCHANGED <<pc, op, ask, id, read, held, named>>
  BY <1>1 DEF locals
<1>5. QED BY <1>1, <1>3, <1>4, HoldsStay DEF MeaningOf, LocalsTyped, HoldsInv

LEMMA GiveUpStep ==
  ASSUME NEW C, MeaningOf(C), NEW p \in Procs, Release(p) \/ Abandon(p)
  PROVE  MeaningOf(C)'
<1>1. UNCHANGED <<database, cache>> /\ Return(p)
  BY DEF Release, Abandon
<1>2. QED BY <1>1, StoredStays, Returns DEF MeaningOf

\* A statement of goroutine p that keeps what every copy means.
LEMMA TableIsWritten ==
  ASSUME NEW C, MeaningOf(C), NEW C2, NEW p \in Procs, UNCHANGED <<schema, cache>>,
         lastId' \in Nat, lastId <= lastId', lastId' <= schema.maxId,
         C2 \in [1..lastId' -> schema.rows], \A n \in 1..lastId : C2[n] = C[n],
         DOMAIN rows' = RowIds,
         \A n \in RowIds : (rows[n] # None => IsRow(rows[n], C2) /\ rows[n].id = n)',
         \A r : IsCopy(r, C) => IsCopy(r, C2)',
         LocalsTyped', pc'[p] = "del",
         \A q \in Procs : q # p => /\ pc'[q] = pc[q] /\ op'[q] = op[q] /\ ask'[q] = ask[q]
                                   /\ id'[q] = id[q] /\ read'[q] = read[q] /\ held'[q] = held[q]
  PROVE  MeaningOf(C2)'
<1>1. /\ \A n \in 1..lastId : n \in 1..lastId'
      /\ \A c : IndexKeys(c)' = IndexKeys(c)
      /\ RowIds' = RowIds /\ Keys' = Keys
  BY DEF MeaningOf, StoredInv, IndexKeys, IndexKey, Keys, RowIds
<1>2. \A k, n : LeadsTo(k, n, C) => LeadsTo(k, n, C2)'
  BY <1>1 DEF LeadsTo
<1>3. UNCHANGED <<idKey, ixKey>>
  BY DEF cache
<1>4. \A k \in Keys : ixKey[k] \notin {Absent, Miss} =>
        ixKey[k] \in 1..lastId' /\ k \in IndexKeys(C2[ixKey[k]])
  BY <1>1 DEF MeaningOf, StoredInv
<1>5. StoredInv(C2)'
  <2>1. schema' = schema
    OBVIOUS
  <2>2. \A n \in RowIds :
          (idKey[n] \notin {Absent, Miss} => IsCopy(idKey[n], C2) /\ idKey[n].id = n)'
    BY <1>3 DEF MeaningOf, StoredInv
  <2>3. QED BY <1>1, <1>3, <1>4, <2>1, <2>2 DEF MeaningOf, StoredInv
<1>6. ASSUME NEW q \in Procs, q # p
      PROVE  HoldsInv(C2, q)'
  <2>1. MayHold(C, pc[q], op[q], ask[q], id[q], read[q], held[q])
    BY DEF MeaningOf, HoldsInv
  <2>2. /\ pc'[q] = pc[q] /\ op'[q] = op[q] /\ ask'[q] = ask[q]
        /\ id'[q] = id[q] /\ read'[q] = read[q] /\ held'[q] = held[q]
    BY <1>6
  <2>3. QED BY <1>1, <1>2, <2>1, <2>2 DEF HoldsInv, MayHold
<1>7. HoldsInv(C2, p)'
  BY DEF HoldsInv, MayHold, ByIndex, WithId
<1>8. QED BY <1>5, <1>6, <1>7 DEF MeaningOf

LEMMA InsertStep ==
  ASSUME NEW C, MeaningOf(C), NEW p \in Procs, NEW c \in schema.rows, Insert(p, c)
  PROVE  \E C2 : MeaningOf(C2)'
<1>1. PICK n, row : n = lastId + 1 /\ row = [id |-> n, version |-> 0, deleted |-> FALSE, cols |-> c]
  OBVIOUS
<1>2. PICK C2 : C2 = [m \in 1..n |-> IF m = n THEN c ELSE C[m]]
  OBVIOUS
<1>3. /\ lastId < schema.maxId /\ lastId' = n /\ rows' = [rows EXCEPT ![n] = row]
      /\ schema' = schema /\ UNCHANGED <<schema, cache>>
  BY <1>1 DEF Insert
<1>4. /\ n \in Nat /\ lastId <= n /\ n <= schema.maxId /\ lastId \in Nat /\ n \in RowIds
      /\ \A m \in 1..n : m = n \/ m \in 1..lastId
      /\ \A m \in 1..lastId : m # n /\ m \in RowIds /\ m \in 1..n
  BY <1>1, <1>3, ModelAssumption DEF MeaningOf, StoredInv, RowIds
<1>5. C2 \in [1..n -> schema.rows] /\ \A m \in 1..lastId : C2[m] = C[m]
  BY <1>2, <1>4 DEF MeaningOf, StoredInv
<1>6. /\ C2[n] = c /\ row.id = n /\ row.cols = c
      /\ row \in [id : 1..n, version : Nat, deleted : BOOLEAN, cols : schema.rows]
  <2>1. n \in 1..n
    BY <1>1, <1>4
  <2>2. C2[n] = c
    BY <1>2, <2>1
  <2>3. QED BY <1>1, <2>1, <2>2
<1>7. /\ DOMAIN rows' = RowIds /\ rows'[n] = row
      /\ \A m \in RowIds : m # n => rows'[m] = rows[m]
  BY <1>3, <1>4 DEF MeaningOf, StoredInv
<1>8. \A r : IsRow(r, C) => IsRow(r, C2)' /\ r.id \in RowIds /\ r.id # n
  <2> SUFFICES ASSUME NEW r, IsRow(r, C)
               PROVE  IsRow(r, C2)' /\ r.id \in RowIds /\ r.id # n
    OBVIOUS
  <2>1. /\ r \in [id : 1..lastId, version : Nat, deleted : BOOLEAN, cols : schema.rows]
        /\ r.cols = C[r.id]
    BY DEF IsRow
  <2>2. r \in [id : 1..n, version : Nat, deleted : BOOLEAN, cols : schema.rows]
    BY <1>4, <2>1
  <2>3. QED BY <1>3, <1>4, <1>5, <2>1, <2>2 DEF IsRow
<1>9. IsRow(row, C2)'
  BY <1>3, <1>6 DEF IsRow
<1>10. ASSUME NEW m \in RowIds
       PROVE  (rows[m] # None => IsRow(rows[m], C2) /\ rows[m].id = m)'
  <2>1. CASE m = n
    BY <1>6, <1>7, <1>9, <2>1
  <2>2. CASE m # n
    BY <1>7, <1>8, <2>2 DEF MeaningOf, StoredInv
  <2>3. QED BY <2>1, <2>2
<1>11. \A r : IsCopy(r, C) => IsCopy(r, C2)'
  BY <1>3, <1>7, <1>8 DEF IsCopy
<1>12. /\ LocalsTyped' /\ pc'[p] = "del"
       /\ \A q \in Procs : q # p => /\ pc'[q] = pc[q] /\ op'[q] = op[q] /\ ask'[q] = ask[q]
                                    /\ id'[q] = id[q] /\ read'[q] = read[q] /\ held'[q] = held[q]
  <2>1. /\ pc' = [pc EXCEPT ![p] = "del"] /\ op' = [op EXCEPT ![p] = "Insert"]
        /\ named' = [named EXCEPT ![p] = c]
        /\ ask' = ask /\ id' = id /\ read' = read /\ held' = held
    BY DEF Insert, Goto
  <2>2. LocalsTyped'
    BY <2>1, ForEachStays DEF MeaningOf, LocalsTyped
  <2>3. pc'[p] = "del" /\ \A q \in Procs : q # p => pc'[q] = pc[q] /\ op'[q] = op[q]
    BY <2>1 DEF MeaningOf, LocalsTyped, ForEach
  <2>4. QED BY <2>1, <2>2, <2>3
<1>13. MeaningOf(C2)'
  BY <1>3, <1>4, <1>5, <1>7, <1>10, <1>11, <1>12, TableIsWritten
<1>14. QED BY <1>13

\* A statement that overwrites a row, or deletes it.  Unless it is Update, the row gets a
\* version that no copy has.
LEMMA RowIsWritten ==
  ASSUME NEW C, MeaningOf(C), UNCHANGED <<schema, lastId>>, NEW n \in RowIds, NEW x,
         rows' = [rows EXCEPT ![n] = x], x # None => IsRow(x, C) /\ x.id = n,
         "Update" \notin schema.methods =>
           x = None \/ (rows[n] # None /\ x.version > rows[n].version)
  PROVE  /\ DOMAIN rows' = RowIds
         /\ \A m \in RowIds : (rows[m] # None => IsRow(rows[m], C) /\ rows[m].id = m)'
         /\ \A r : IsCopy(r, C) => IsCopy(r, C)'
<1>1. /\ DOMAIN rows' = RowIds /\ rows'[n] = x
      /\ \A m \in RowIds : m # n => rows'[m] = rows[m]
  BY DEF MeaningOf, StoredInv
<1>2. schema' = schema /\ lastId' = lastId
  OBVIOUS
<1>3. \A r : IsRow(r, C)' <=> IsRow(r, C)
  BY <1>2 DEF IsRow
<1>4. ASSUME NEW m \in RowIds
      PROVE  (rows[m] # None => IsRow(rows[m], C) /\ rows[m].id = m)'
  BY <1>1, <1>3 DEF MeaningOf, StoredInv
<1>5. ASSUME NEW r, IsCopy(r, C)
      PROVE  IsCopy(r, C)'
  <2>1. /\ IsRow(r, C) /\ r.id \in RowIds /\ r.version \in Nat
        /\ rows[r.id] # None => rows[r.id].version \in Nat
    BY <1>5, ModelAssumption DEF IsCopy, IsRow, MeaningOf, StoredInv, RowIds
  <2>2. x # None => x.version \in Nat
    BY DEF IsRow
  <2>3. CASE r.id # n
    BY <1>1, <1>2, <1>3, <1>5, <2>1, <2>3 DEF IsCopy
  <2>4. CASE r.id = n
    <3>1. ASSUME "Update" \notin schema.methods
          PROVE  ~r.deleted /\ (x # None => r.version < x.version)
      BY <1>5, <2>1, <2>2, <2>4, <3>1 DEF IsCopy
    <3>2. QED BY <1>1, <1>2, <1>3, <2>1, <2>2, <2>4, <3>1 DEF IsCopy
  <2>5. QED BY <2>3, <2>4
<1>6. QED BY <1>1, <1>4, <1>5

LEMMA ExecStep ==
  ASSUME NEW C, MeaningOf(C), NEW p \in Procs, Exec(p)
  PROVE  MeaningOf(C)'
<1>1. PICK n, h : n = id[p] /\ h = held[p]
  OBVIOUS
<1> DEFINE next == [h EXCEPT !.version = @ + 1]
           gone == [next EXCEPT !.deleted = TRUE]
<1>2. /\ pc[p] = "exec" /\ pc' = [pc EXCEPT ![p] = "del"] /\ held' = [held EXCEPT ![p] = None]
      /\ op' = op /\ ask' = ask /\ id' = id /\ read' = read /\ named' = named
      /\ schema' = schema /\ lastId' = lastId /\ UNCHANGED cache
  BY DEF Exec, Goto
<1>3. /\ n \in RowIds
      /\ op[p] \in {"Update", "UpdateWithVersion", "DeleteSoft"} =>
           IsCopy(h, C) /\ h.id = n /\ op[p] \in schema.methods
  BY <1>1, <1>2 DEF MeaningOf, HoldsInv, MayHold, WithId
<1>4. \/ op[p] = "Update" /\ rows' = [rows EXCEPT ![n] = h]
      \/ /\ op[p] = "UpdateWithVersion" /\ rows[n] # None /\ rows[n].version = h.version
         /\ rows' = [rows EXCEPT ![n] = next]
      \/ /\ op[p] = "DeleteSoft" /\ rows[n] # None /\ rows[n].version = h.version
         /\ rows' = [rows EXCEPT ![n] = gone]
      \/ op[p] = "Delete" /\ rows' = [rows EXCEPT ![n] = None]
      \/ rows' = rows
  BY <1>1 DEF Exec, Matches
<1> DEFINE Kept ==
      /\ DOMAIN rows' = RowIds
      /\ \A m \in RowIds : (rows[m] # None => IsRow(rows[m], C) /\ rows[m].id = m)'
      /\ \A r : IsCopy(r, C) => IsCopy(r, C)'
<1>5. ASSUME IsRow(h, C), h.id = n
      PROVE  /\ IsRow(next, C) /\ next.id = n /\ next.version = h.version + 1
             /\ IsRow(gone, C) /\ gone.id = n /\ gone.version = h.version + 1
             /\ h.version \in Nat
  <2>1. /\ h \in [id : 1..lastId, version : Nat, deleted : BOOLEAN, cols : schema.rows]
        /\ h.cols = C[h.id]
    BY <1>5 DEF IsRow
  <2>2. next \in [id : 1..lastId, version : Nat, deleted : BOOLEAN, cols : schema.rows]
        /\ next.id = h.id /\ next.cols = h.cols /\ next.version = h.version + 1
    BY <2>1
  <2> HIDE DEF next
  <2>3. gone \in [id : 1..lastId, version : Nat, deleted : BOOLEAN, cols : schema.rows]
        /\ gone.id = next.id /\ gone.cols = next.cols /\ gone.version = next.version
    BY <2>2
  <2> HIDE DEF gone
  <2>4. QED BY <1>5, <2>1, <2>2, <2>3 DEF IsRow
<1>6. Kept
  <2>1. CASE op[p] = "Update" /\ rows' = [rows EXCEPT ![n] = h]
    BY <1>2, <1>3, <2>1, RowIsWritten DEF IsCopy
  <2>2. CASE /\ op[p] \in {"UpdateWithVersion", "DeleteSoft"}
             /\ rows[n] # None /\ rows[n].version = h.version
             /\ rows' = [rows EXCEPT ![n] = next] \/ rows' = [rows EXCEPT ![n] = gone]
    <3>1. PICK x \in {next, gone} : rows' = [rows EXCEPT ![n] = x]
      BY <2>2
    <3>2. IsRow(x, C) /\ x.id = n /\ x.version > rows[n].version
      <4>1. IsRow(h, C) /\ h.id = n
        BY <1>3, <2>2 DEF IsCopy
      <4>2. /\ IsRow(next, C) /\ next.id = n /\ next.version = h.version + 1
            /\ IsRow(gone, C) /\ gone.id = n /\ gone.version = h.version + 1
            /\ h.version \in Nat
        BY <1>5, <4>1
      <4> HIDE DEF next, gone
      <4>3. QED BY <2>2, <4>2
    <3> HIDE DEF next, gone
    <3>3. QED BY <1>2, <1>3, <2>2, <3>1, <3>2, RowIsWritten
  <2>3. CASE rows' = [rows EXCEPT ![n] = None]
    BY <1>2, <1>3, <2>3, RowIsWritten
  <2>4. CASE rows' = rows
    BY <1>2, <2>4, CopiesStay DEF MeaningOf, StoredInv, database
  <2>5. QED BY <1>4, <2>1, <2>2, <2>3, <2>4
<1>7. LocalsTyped'
  BY <1>2, ForEachStays DEF MeaningOf, LocalsTyped
<1>8. /\ pc'[p] = "del"
      /\ \A q \in Procs : q # p => pc'[q] = pc[q] /\ held'[q] = held[q]
  BY <1>2 DEF MeaningOf, LocalsTyped, ForEach
<1>9. /\ lastId \in Nat /\ lastId <= lastId /\ lastId <= schema.maxId
      /\ C \in [1..lastId -> schema.rows]
  BY DEF MeaningOf, StoredInv
<1>10. QED
  BY <1>2, <1>6, <1>7, <1>8, <1>9, TableIsWritten

LEMMA ModelStep ==
  ASSUME IdsMeanOneRow, [ModelNext]_modelVars
  PROVE  IdsMeanOneRow'
<1>1. PICK C : MeaningOf(C)
  BY DEF IdsMeanOneRow
<1>2. ASSUME NEW p \in Procs, CallStep(p)
      PROVE  MeaningOf(C)'
  BY <1>1, <1>2, SelectIxStep, MarkIxStep, SetRowStep, SetIxStep, GetRowStep, SelectRowStep,
     MarkRowStep, FillRowStep, ExecStep, DelKeysStep DEF CallStep
<1>3. ASSUME NEW p \in Procs, NEW n \in RowIds, FindOne(p, n) \/ Delete(p, n)
      PROVE  MeaningOf(C)'
  BY <1>1, <1>3, FindOneStep
<1>4. ASSUME NEW p \in Procs, NEW k \in Keys, FindOneBy(p, k)
      PROVE  MeaningOf(C)'
  BY <1>1, <1>4, FindOneByStep
<1>5. ASSUME NEW p \in Procs, NEW m \in schema.methods, Begin(p, m)
      PROVE  MeaningOf(C)'
  BY <1>1, <1>5, BeginStep
<1>6. ASSUME NEW p \in Procs, Release(p) \/ Abandon(p)
      PROVE  MeaningOf(C)'
  BY <1>1, <1>6, GiveUpStep
<1>7. ASSUME NEW p \in Procs, NEW c \in schema.rows, Insert(p, c)
      PROVE  IdsMeanOneRow'
  BY <1>1, <1>7, InsertStep DEF IdsMeanOneRow
<1>8. CASE (\E n \in RowIds : ExpireRow(n)) \/ (\E k \in Keys : ExpireIx(k))
  BY <1>1, <1>8, ExpireStep DEF IdsMeanOneRow
<1>9. CASE UNCHANGED modelVars
  <2>1. UNCHANGED <<database, cache>> /\ UNCHANGED database /\ UNCHANGED <<pc, op, ask, id, read, held, named>>
    BY <1>9 DEF modelVars, locals
  <2>2. MeaningOf(C)'
    BY <1>1, <2>1, StoredStays, HoldsStay DEF MeaningOf, LocalsTyped, HoldsInv
  <2>3. QED BY <2>2 DEF IdsMeanOneRow
<1>10. QED
  BY <1>2, <1>3, <1>4, <1>5, <1>6, <1>7, <1>8, <1>9 DEF ModelNext, IdsMeanOneRow

LEMMA MeaningIsInvariant == ModelSpec => []IdsMeanOneRow
BY InitMeans, ModelStep, PTL DEF ModelSpec

\* Of every table, whatever is inserted and deleted while others look it up, a lookup by
\* a unique index returns a row of this index, or none.
THEOREM IndexesLeadToRows == ModelSpec => []IndexLeadsToRow
<1>1. IdsMeanOneRow => IndexLeadsToRow
  <2> SUFFICES ASSUME NEW C, MeaningOf(C)
               PROVE  IndexLeadsToRow
    BY DEF IdsMeanOneRow
  <2>1. ASSUME NEW p \in Procs, pc[p] = "held", ask[p] # None
        PROVE  ask[p] \in IndexKeys(held[p].cols)
    <3>1. IsCopy(held[p], C) /\ LeadsTo(ask[p], held[p].id, C)
      BY <2>1 DEF MeaningOf, HoldsInv, MayHold
    <3>2. QED BY <2>1, <3>1 DEF IsCopy, IsRow, LeadsTo
  <2>2. QED BY <2>1 DEF IndexLeadsToRow
<1>2. QED BY MeaningIsInvariant, <1>1, PTL

\* What a statement may do to a row that was deleted softly.
LEMMA ExecKeepsDeleted ==
  ASSUME NEW C, MeaningOf(C), NEW p \in Procs, Exec(p), NEW n \in RowIds,
         "Update" \notin schema.methods, rows[n] # None, rows[n].deleted
  PROVE  rows'[n] = None \/ rows'[n].deleted
<1>1. \A x, m : rows' = [rows EXCEPT ![m] = x] => rows'[n] = rows[n] \/ (m = n /\ rows'[n] = x)
  BY DEF MeaningOf, StoredInv
<1>2. MayHold(C, "exec", op[p], ask[p], id[p], read[p], held[p])
  BY DEF MeaningOf, HoldsInv, Exec
<1>3. op[p] \in {"Update", "UpdateWithVersion", "DeleteSoft"} =>
        IsCopy(held[p], C) /\ held[p].id = id[p] /\ op[p] \in schema.methods
  BY <1>2 DEF MayHold, WithId
<1>4. CASE op[p] \in {"UpdateWithVersion", "DeleteSoft"} /\ Matches(rows[id[p]], held[p])
  <2>1. rows[id[p]] # None /\ rows[id[p]].version = held[p].version
    BY <1>4 DEF Matches
  <2>2. id[p] # n
    <3> SUFFICES ASSUME id[p] = n
                 PROVE  FALSE
      OBVIOUS
    <3>1. held[p].version < rows[n].version /\ rows[n].version = held[p].version
      BY <1>3, <1>4, <2>1 DEF IsCopy
    <3>2. held[p].version \in Nat
      BY <1>3, <1>4 DEF IsCopy, IsRow
    <3>3. QED BY <3>1, <3>2
  <2>3. \E x : rows' = [rows EXCEPT ![id[p]] = x]
    BY <1>4 DEF Exec
  <2>4. QED BY <1>1, <2>2, <2>3
<1>5. CASE op[p] = "Delete"
  BY <1>1, <1>5 DEF Exec
<1>6. CASE rows' = rows
  BY <1>6
<1>7. QED BY <1>3, <1>4, <1>5, <1>6 DEF Exec

LEMMA StepKeepsDeleted ==
  ASSUME IdsMeanOneRow, ModelNext, NEW n \in RowIds,
         "Update" \notin schema.methods, rows[n] # None, rows[n].deleted
  PROVE  rows'[n] = None \/ rows'[n].deleted
<1>1. PICK C : MeaningOf(C)
  BY DEF IdsMeanOneRow
<1>2. ASSUME NEW p \in Procs, Exec(p)
      PROVE  rows'[n] = None \/ rows'[n].deleted
  BY <1>1, <1>2, ExecKeepsDeleted
<1>3. ASSUME NEW p \in Procs, NEW c \in schema.rows, Insert(p, c)
      PROVE  rows'[n] = rows[n]
  <2>1. n \in 1..lastId /\ lastId \in Nat
    BY <1>1 DEF MeaningOf, StoredInv, IsRow
  <2>2. \E x : rows' = [rows EXCEPT ![lastId + 1] = x]
    BY <1>3 DEF Insert
  <2>3. QED BY <1>1, <2>1, <2>2 DEF MeaningOf, StoredInv
<1>4. CASE UNCHANGED database
  BY <1>4 DEF database
<1>5. QED
  BY <1>2, <1>3, <1>4 DEF ModelNext, CallStep, FindOne, FindOneBy, SelectIx, MarkIx, SetRow,
     SetIx, GetRow, SelectRow, MarkRow, FillRow, Release, Delete, Begin, DelKeys, ExpireRow,
     ExpireIx, Abandon

\* When no writer uses Update, no statement of anybody, on however old a copy, brings a
\* row back that was deleted softly.
THEOREM DeletedRowsStayDeleted == ModelSpec => DeletedStaysDeleted
<1>1. IdsMeanOneRow /\ [ModelNext]_modelVars =>
        [\A n \in RowIds :
           "Update" \notin schema.methods /\ rows[n] # None /\ rows[n].deleted
             => rows'[n] = None \/ rows'[n].deleted]_modelVars
  BY StepKeepsDeleted
<1>2. QED BY MeaningIsInvariant, <1>1, PTL DEF ModelSpec, DeletedStaysDeleted

(***************************************************************************)
(* Walks through a list                                                    *)
(***************************************************************************)

\* The rows of s that a list by page number gives before i, whatever it does with ties.
Before(s, i) == {j \in s : list.place[i] < list.place[j]}

\* The rows that the pages of a walk by number have passed over so far, and those
\* of s that are not given yet are not passed over either, unless they tie.
Passed == (PageNumber - 1) * size
StillToCome(s) == \A i \in s \ seen : Placed(i) => Cardinality(Before(found, i)) >= Passed
AllGiven(s) == \A i \in s : Placed(i) => i \in seen

\* A walk by id: the client has been given only rows on its side of the cursor, and
\* every row on that side that was there all the time, and when it ends, those on
\* the other side too.  Without ids in the list it ends with the first page.
KeysetInv ==
  /\ at \notin {"count", "sum"} /\ repeated = {}
  /\ at = "idle" => cursor = 0
  /\ ~list.givesId => cursor = 0 /\ (at = "page" => seen = {})
  /\ list.givesId =>
       /\ method = "FindPageListByIdDESC" => \A i \in seen : cursor > 0 /\ cursor <= i
       /\ method = "FindPageListByIdASC" => \A i \in seen : cursor > 0 /\ i <= cursor
       /\ method = "FindPageListByIdDESC" /\ at = "page" =>
            \A i \in stable \ seen : cursor > 0 => i < cursor
       /\ method = "FindPageListByIdASC" /\ at = "page" =>
            \A i \in stable \ seen : cursor > 0 => cursor < i
       /\ at = "done" => stable \subseteq seen

\* A walk by page number, as far as rows do not tie: as long as no row has come, each
\* it was given is among the first Passed rows, and as long as none has gone, each it
\* was not given is not.
OffsetInv ==
  /\ at # "sum"
  /\ ~grew =>
       /\ \A i \in repeated : ~Placed(i)
       /\ Walking => \A i \in seen \intersect found :
                       Placed(i) => Cardinality(Before(found, i)) < Passed
  /\ ~shrank =>
       /\ Walking => StillToCome(stable)
       /\ at = "done" => AllGiven(stable)

\* The rows that were counted are those that it gets, as far as none came or went.
CountInv ==
  IF total = -1
  THEN at \in {"idle", "count"} /\ seen = {} /\ page \in {0, 1}
  ELSE /\ at # "idle"
       /\ \E counted \in SUBSET used :
            /\ Cardinality(counted) = total
            /\ ~grew => seen \subseteq counted /\ (Walking => found \subseteq counted)
            /\ ~shrank =>
                 /\ Walking => counted \subseteq found /\ StillToCome(counted)
                 /\ at = "done" => AllGiven(counted)

\* All rows at once.
AllInv ==
  /\ at # "count" /\ repeated = {}
  /\ Walking => seen = {}
  /\ at = "done" => stable \subseteq seen

\* What every step of a walk preserves.
WalkInv ==
  /\ TypeOK
  /\ at = "idle" => seen = {} /\ repeated = {} /\ page \in {0, 1} /\ total = -1
  /\ method \in Keyset => KeysetInv
  /\ method \in Offset => OffsetInv
  /\ method = "FindPageListByPageWithTotal" => CountInv
  /\ method \in {"FindAll", "FindSum"} => AllInv

-----------------------------------------------------------------------------

LEMMA RowsAreFinite ==
  ASSUME NEW s \in SUBSET Ids
  PROVE  IsFiniteSet(s) /\ Cardinality(s) \in Nat
<1>1. IsFiniteSet(Ids)
  BY FS_Interval, PagingAssumption DEF Ids
<1>2. QED BY <1>1, FS_Subset, FS_CardinalityType

LEMMA BeforeGrows ==
  ASSUME NEW s \in SUBSET Ids, NEW t \in SUBSET s, NEW i
  PROVE  /\ Cardinality(Before(t, i)) \in Nat /\ Cardinality(Before(s, i)) \in Nat
         /\ Cardinality(Before(t, i)) <= Cardinality(Before(s, i))
<1>1. Before(s, i) \in SUBSET Ids /\ Before(t, i) \in SUBSET Before(s, i)
  BY DEF Before
<1>2. Before(t, i) \in SUBSET Ids
  BY <1>1
<1>3. IsFiniteSet(Before(s, i))
  BY <1>1, RowsAreFinite
<1>4. QED BY <1>1, <1>2, <1>3, RowsAreFinite, FS_Subset

\* The first k rows are those that fewer than k rows come before, but for ties.
LEMMA FirstByRank ==
  ASSUME TypeOK, method \in Offset, NEW s \in SUBSET used, NEW t, NEW k \in Nat,
         IsFirst(t, s, k, list.place), NEW i \in s, Placed(i)
  PROVE  i \in t <=> Cardinality(Before(s, i)) < k
<1>1. t \in SUBSET s /\ s \in SUBSET Ids /\ t \in SUBSET Ids
  BY DEF IsFirst, TypeOK
<1> DEFINE place == list.place
<1>0. /\ \A j \in s : place[j] \in Int
      /\ \A j \in s : j # i => place[j] # place[i]
  <2>1. place \in [Ids -> Int]
    BY PagingAssumption DEF TypeOK
  <2>2. QED BY <1>1, <2>1 DEF Placed
<1>2. IsFiniteSet(t) /\ Cardinality(t) \in Nat
  BY <1>1, RowsAreFinite
<1>3. Before(s, i) \in SUBSET Ids /\ IsFiniteSet(Before(s, i))
      /\ Cardinality(Before(s, i)) \in Nat
  BY <1>1, RowsAreFinite DEF Before
<1>4. ASSUME i \in t PROVE Cardinality(Before(s, i)) < k
  <2>1. IsFiniteSet(t \ {i}) /\ Cardinality(t \ {i}) = Cardinality(t) - 1
    BY <1>2, <1>4, FS_RemoveElement
  <2>2. Before(s, i) \in SUBSET (t \ {i})
    <3>1. SUFFICES ASSUME NEW j \in s, place[i] < place[j] PROVE j \in t /\ j # i
      BY DEF Before
    <3>2. place[i] \in Int /\ place[j] \in Int
      BY <1>0
    <3>3. j \notin t => place[i] >= place[j]
      BY <1>4 DEF IsFirst
    <3>4. QED BY <3>1, <3>2, <3>3
  <2>3. Cardinality(Before(s, i)) <= Cardinality(t \ {i})
    BY <2>1, <2>2, FS_Subset
  <2>4. Cardinality(t) <= k
    BY DEF IsFirst
  <2>5. QED BY <1>2, <1>3, <2>1, <2>3, <2>4
<1>5. ASSUME i \notin t PROVE ~(Cardinality(Before(s, i)) < k)
  <2>1. Cardinality(t) = k
    BY <1>5 DEF IsFirst
  <2>2. t \in SUBSET Before(s, i)
    <3>1. SUFFICES ASSUME NEW j \in t PROVE j \in s /\ place[i] < place[j]
      BY DEF Before
    <3>2. j \in s /\ j # i /\ place[j] >= place[i]
      BY <1>1, <1>5 DEF IsFirst
    <3>3. QED BY <1>0, <3>2
  <2>3. Cardinality(t) <= Cardinality(Before(s, i))
    BY <1>3, <2>2, FS_Subset
  <2>4. QED BY <1>3, <2>1, <2>3
<1>6. QED BY <1>4, <1>5

\* A short page is the last one.
LEMMA ShortPageIsLast ==
  ASSUME NEW s \in SUBSET Ids, NEW b, NEW t, NEW k \in Nat, NEW n \in Nat,
         IsFirst(b, s, k, list.place), IsFirst(t, s, k + n, list.place),
         Cardinality(t \ b) < n
  PROVE  t = s
<1>1. b \in SUBSET Ids /\ t \in SUBSET Ids
  BY DEF IsFirst
<1>2. IsFiniteSet(b) /\ Cardinality(b) \in Nat /\ IsFiniteSet(t) /\ Cardinality(t) \in Nat
  BY <1>1, RowsAreFinite
<1>3. Cardinality(t \ b) = Cardinality(t) - Cardinality(t \intersect b)
  BY <1>2, FS_Difference
<1>4. /\ Cardinality(t \intersect b) <= Cardinality(b)
      /\ Cardinality(t \intersect b) \in Nat
  <2>1. t \intersect b \in SUBSET b /\ t \intersect b \in SUBSET Ids
    BY <1>1
  <2>2. QED BY <1>2, <2>1, FS_Subset, RowsAreFinite
<1>5. Cardinality(b) <= k /\ (t # s => Cardinality(t) = k + n)
  BY DEF IsFirst
<1>6. QED BY <1>2, <1>3, <1>4, <1>5

LEMMA PassedIsNat ==
  ASSUME TypeOK
  PROVE  PageNumber \in Nat \ {0} /\ size \in Nat \ {0} /\ Passed \in Nat
<1>1. PageNumber \in Nat \ {0} /\ size \in Nat \ {0}
  BY PagingAssumption DEF TypeOK, PageNumber
<1>2. \A a, b \in Nat : a * b \in Nat
  OBVIOUS
<1>3. PageNumber - 1 \in Nat
  BY <1>1
<1>4. QED BY <1>1, <1>2, <1>3 DEF Passed

\* A page: what was before it is passed over, what is on it is given.
LEMMA PageStep ==
  ASSUME WalkInv, FindPageListByPage
  PROVE  WalkInv'
<1>1. /\ method \in Offset /\ at = "page" /\ page' = PageNumber + 1
      /\ UNCHANGED <<table, list, method, size, cursor, total, history>>
      /\ TypeOK /\ OffsetInv /\ Walking /\ at # "idle"
  BY DEF FindPageListByPage, WalkInv, Walking
<1>2. PageNumber \in Nat \ {0} /\ size \in Nat \ {0} /\ Passed \in Nat
  BY <1>1, PassedIsNat
<1>3. Passed + size = PageNumber * size /\ Passed' = Passed + size
  <2>1. \A a \in Nat \ {0}, c \in Nat : a * c = (a - 1) * c + c
    OBVIOUS
  <2>2. Passed + size = PageNumber * size
    BY <1>2, <2>1 DEF Passed
  <2>3. PageNumber' = PageNumber + 1
    BY <1>1, <1>2 DEF PageNumber
  <2>4. PageNumber' - 1 = PageNumber /\ size' = size
    BY <1>1, <1>2, <2>3
  <2>5. QED BY <2>2, <2>4 DEF Passed
<1>4. PICK t \in SUBSET found : \E b \in SUBSET t :
        /\ IsFirst(b, found, Passed, list.place)
        /\ IsFirst(t, found, Passed + size, list.place)
        /\ Give(t \ b, FALSE)
  BY <1>3 DEF FindPageListByPage, Passed
<1>4a. PICK b \in SUBSET found :
        /\ IsFirst(b, found, Passed, list.place)
        /\ IsFirst(t, found, Passed + size, list.place)
        /\ Give(t \ b, FALSE)
  BY <1>4
<1>5. found \in SUBSET Ids /\ found \in SUBSET used /\ stable \in SUBSET found
  BY <1>1 DEF TypeOK
<1>6. \A i \in found : Placed(i) =>
        /\ Cardinality(Before(found, i)) \in Nat
        /\ i \in b <=> Cardinality(Before(found, i)) < Passed
        /\ i \in t <=> Cardinality(Before(found, i)) < Passed + size
  <2>1. SUFFICES ASSUME NEW i \in found, Placed(i)
                 PROVE  /\ Cardinality(Before(found, i)) \in Nat
                        /\ i \in b <=> Cardinality(Before(found, i)) < Passed
                        /\ i \in t <=> Cardinality(Before(found, i)) < Passed + size
    OBVIOUS
  <2>2. Cardinality(Before(found, i)) \in Nat
    BY <1>5, BeforeGrows
  <2>3. Passed + size \in Nat
    BY <1>2
  <2>4. i \in b <=> Cardinality(Before(found, i)) < Passed
    <3>1. IsFirst(b, found, Passed, list.place)
      BY <1>4a
    <3>2. QED BY <1>1, <1>2, <1>5, <2>1, <3>1, FirstByRank
  <2>5. i \in t <=> Cardinality(Before(found, i)) < Passed + size
    <3>1. IsFirst(t, found, Passed + size, list.place)
      BY <1>4a
    <3>2. QED BY <1>1, <1>5, <2>1, <2>3, <3>1, FirstByRank
  <2>6. QED BY <2>2, <2>4, <2>5
<1>7. /\ seen' = seen \union (t \ b) /\ repeated' = repeated \union ((t \ b) \intersect seen)
      /\ at' \in {"count", "page", "done"}
      /\ at' = "done" => Cardinality(t \ b) < size
  BY <1>1, <1>4a DEF Give, Ask, Offset
<1>8. at' = "done" => t = found
  BY <1>2, <1>4a, <1>5, <1>7, ShortPageIsLast
<1>9. /\ found' = found /\ stable' = stable /\ grew' = grew /\ shrank' = shrank
      /\ total' = total /\ method' = method /\ list' = list /\ used' = used
  BY <1>1 DEF table, history
<1>10. ~grew => \A i \in repeated' : ~Placed(i)
  <2>1. SUFFICES ASSUME ~grew, NEW i \in t \ b, i \in seen, Placed(i) PROVE FALSE
    BY <1>1, <1>7 DEF OffsetInv
  <2>2. Cardinality(Before(found, i)) < Passed
    BY <1>1, <2>1 DEF OffsetInv
  <2>3. QED BY <1>6, <2>1, <2>2
<1>11. ~grew => \A i \in seen' \intersect found :
                  Placed(i) => Cardinality(Before(found, i)) < Passed + size
  <2>1. SUFFICES ASSUME ~grew, NEW i \in (seen \union (t \ b)) \intersect found, Placed(i)
                 PROVE  Cardinality(Before(found, i)) < Passed + size
    BY <1>7
  <2>2. CASE i \in seen
    <3>1. Cardinality(Before(found, i)) < Passed
      BY <1>1, <2>1, <2>2 DEF OffsetInv
    <3>2. QED BY <1>2, <1>6, <2>1, <3>1
  <2>3. CASE i \in t \ b
    BY <1>6, <2>1, <2>3
  <2>4. QED BY <2>1, <2>2, <2>3
<1>12. \A s \in SUBSET found : StillToCome(s) =>
         /\ \A i \in s \ seen' :
              Placed(i) => Cardinality(Before(found, i)) >= Passed + size
         /\ t = found => \A i \in s : Placed(i) => i \in seen'
  <2>1. SUFFICES ASSUME NEW s \in SUBSET found, StillToCome(s)
                 PROVE  \A i \in s \ seen' : Placed(i) =>
                          /\ Cardinality(Before(found, i)) >= Passed + size
                          /\ t # found
    OBVIOUS
  <2>2. SUFFICES ASSUME NEW i \in s, i \notin seen, i \notin t \ b, Placed(i)
                 PROVE  Cardinality(Before(found, i)) >= Passed + size /\ t # found
    BY <1>7
  <2>3. Cardinality(Before(found, i)) >= Passed /\ i \in found
    BY <2>1, <2>2 DEF StillToCome
  <2>4. i \notin b
    BY <1>2, <1>6, <2>2, <2>3
  <2>5. i \notin t
    BY <2>2, <2>4
  <2>6. QED BY <1>2, <1>6, <2>2, <2>3, <2>5
<1>13. TypeOK'
  <2>1. seen' \subseteq used /\ repeated' \subseteq seen'
    BY <1>1, <1>4a, <1>7 DEF TypeOK
  <2>2. page' \in Nat
    BY <1>1, <1>2
  <2>3. QED BY <1>1, <1>7, <2>1, <2>2 DEF TypeOK, table, history
<1>14. OffsetInv'
  <2>1. ~grew => /\ \A i \in repeated' : ~Placed(i)
                 /\ \A i \in seen' \intersect found' :
                      Placed(i) => Cardinality(Before(found', i)) < Passed'
    BY <1>3, <1>9, <1>10, <1>11
  <2>2. ~shrank => StillToCome(stable)
    BY <1>1 DEF OffsetInv
  <2>3. ~shrank' => /\ StillToCome(stable)'
                    /\ at' = "done" => AllGiven(stable)'
    BY <1>3, <1>5, <1>8, <1>9, <1>12, <2>2 DEF StillToCome, AllGiven, Before, Placed
  <2>4. at' # "sum"
    BY <1>7
  <2>5. QED BY <1>9, <2>1, <2>3, <2>4 DEF OffsetInv, Before, Placed
<1>15. method = "FindPageListByPageWithTotal" => CountInv'
  <2>1. SUFFICES ASSUME method = "FindPageListByPageWithTotal" PROVE CountInv'
    OBVIOUS
  <2>2. CountInv /\ total # -1
    BY <1>1, <2>1 DEF WalkInv, CountInv
  <2>3. PICK counted \in SUBSET used :
          /\ Cardinality(counted) = total
          /\ ~grew => seen \subseteq counted /\ found \subseteq counted
          /\ ~shrank => counted \subseteq found /\ StillToCome(counted)
    BY <1>1, <2>2 DEF CountInv
  <2>4. ~grew' => seen' \subseteq counted /\ (Walking' => found' \subseteq counted)
    BY <1>4, <1>7, <1>9, <2>3
  <2>5. ~shrank' => /\ Walking' => counted \subseteq found' /\ (StillToCome(counted))'
                    /\ at' = "done" => (AllGiven(counted))'
    BY <1>3, <1>8, <1>9, <1>12, <2>3 DEF StillToCome, AllGiven, Before, Placed
  <2>6. total' # -1 /\ at' # "idle" /\ Cardinality(counted) = total'
        /\ counted \in SUBSET used'
    BY <1>7, <1>9, <2>2, <2>3
  <2>7. QED BY <2>4, <2>5, <2>6 DEF CountInv
<1>16. /\ method' \notin Keyset /\ method' \notin {"FindAll", "FindSum"} /\ at' # "idle"
  BY <1>1, <1>7, <1>9 DEF Keyset, Offset
<1>17. QED BY <1>9, <1>13, <1>14, <1>15, <1>16 DEF WalkInv

LEMMA DescStep ==
  ASSUME WalkInv, list.givesId, FindPageListByIdDESC
  PROVE  WalkInv'
<1> DEFINE s == IF cursor > 0 THEN {i \in found : i < cursor} ELSE found
<1>1. PICK t \in SUBSET s :
        /\ IsFirst(t, s, size, NewestFirst)
        /\ Give(t, FALSE)
        /\ IF t = {} THEN UNCHANGED cursor
           ELSE cursor' \in t /\ \A i \in t : cursor' <= i
  BY DEF FindPageListByIdDESC
<1>2. /\ method = "FindPageListByIdDESC" /\ at = "page"
      /\ UNCHANGED <<table, list, method, size, page, total, history>>
      /\ TypeOK /\ KeysetInv
  BY DEF FindPageListByIdDESC, WalkInv, Keyset
<1>3. s \subseteq found /\ found \subseteq Ids /\ seen \subseteq Ids /\ cursor \in 0..MaxId
  BY <1>2 DEF TypeOK
<1>4. seen' = seen \union t /\ t \intersect seen = {} /\ repeated' = {}
  <2>1. SUFFICES ASSUME NEW i \in t, i \in seen PROVE FALSE
    BY <1>1, <1>2 DEF Give, KeysetInv
  <2>2. cursor > 0 /\ cursor <= i
    BY <1>2, <2>1 DEF KeysetInv
  <2>3. i < cursor
    BY <2>1, <2>2
  <2>4. QED BY <1>3, <2>1, <2>2, <2>3 DEF Ids
<1>5. cursor' \in 0..MaxId
  <2>1. t \subseteq 1..MaxId
    BY <1>1, <1>3 DEF Ids
  <2>2. \A i \in 1..MaxId : i \in 0..MaxId
    BY PagingAssumption
  <2>3. cursor' = cursor \/ cursor' \in t
    BY <1>1
  <2>4. QED BY <1>3, <2>1, <2>2, <2>3
<1>6. \A i \in seen' : cursor' > 0 /\ cursor' <= i
  <2>1. CASE t = {}
    BY <1>1, <1>2, <1>4, <2>1 DEF KeysetInv
  <2>2. CASE t # {}
    <3>1. cursor' \in t /\ \A i \in t : cursor' <= i
      BY <1>1, <2>2
    <3>2. \A i \in seen : cursor' < cursor /\ cursor <= i
      BY <1>2, <1>3, <3>1 DEF KeysetInv, Ids
    <3>3. QED BY <1>3, <1>4, <1>5, <3>1, <3>2 DEF Ids
  <2>3. QED BY <2>1, <2>2
<1>7. \A i \in stable \ seen : i \in s
  BY <1>2 DEF KeysetInv, TypeOK
<1>8. at' = "page" => \A i \in stable' \ seen' : cursor' > 0 => i < cursor'
  <2>1. SUFFICES ASSUME NEW i \in stable \ (seen \union t), cursor' > 0
                 PROVE  i < cursor'
    BY <1>2, <1>4 DEF history
  <2>2. CASE t = {}
    BY <1>1, <1>2, <2>1, <2>2 DEF KeysetInv
  <2>3. CASE t # {}
    <3>1. cursor' \in t /\ i \in s \ t /\ cursor' \in Ids /\ i \in Ids
      BY <1>1, <1>3, <1>7, <2>1, <2>3
    <3>2. NewestFirst[cursor'] >= NewestFirst[i] /\ cursor' # i
      BY <1>1, <3>1 DEF IsFirst
    <3>3. QED BY <3>1, <3>2 DEF NewestFirst, Ids
  <2>4. QED BY <2>2, <2>3
<1>9. at' = "done" => stable' \subseteq seen'
  <2>1. SUFFICES ASSUME at' = "done" PROVE stable \subseteq seen \union t
    BY <1>2, <1>4 DEF history
  <2>2. Cardinality(t) < size
    BY <1>1, <2>1 DEF Give, Ask
  <2>3. Cardinality(t) # size
    BY <1>2, <2>2, PagingAssumption DEF TypeOK
  <2>4. t = s
    BY <1>1, <2>3 DEF IsFirst
  <2>5. QED BY <1>7, <2>4
<1>10. at' \in {"page", "done"}
  BY <1>1, <1>2 DEF Give, Ask
<1>11. TypeOK'
  BY <1>1, <1>2, <1>3, <1>4, <1>5, <1>10 DEF TypeOK, table, history
<1>12. KeysetInv'
  BY <1>2, <1>4, <1>6, <1>8, <1>9, <1>10 DEF KeysetInv
<1>13. method' \notin Offset /\ method' \notin {"FindAll", "FindSum"}
  BY <1>2 DEF Offset
<1>14. QED BY <1>10, <1>11, <1>12, <1>13 DEF WalkInv, Offset

LEMMA AscStep ==
  ASSUME WalkInv, list.givesId, FindPageListByIdASC
  PROVE  WalkInv'
<1> DEFINE s == IF cursor > 0 THEN {i \in found : i > cursor} ELSE found
<1>1. PICK t \in SUBSET s :
        /\ IsFirst(t, s, size, OldestFirst)
        /\ Give(t, FALSE)
        /\ IF t = {} THEN UNCHANGED cursor
           ELSE cursor' \in t /\ \A i \in t : cursor' >= i
  BY DEF FindPageListByIdASC
<1>2. /\ method = "FindPageListByIdASC" /\ at = "page"
      /\ UNCHANGED <<table, list, method, size, page, total, history>>
      /\ TypeOK /\ KeysetInv
  BY DEF FindPageListByIdASC, WalkInv, Keyset
<1>3. s \subseteq found /\ found \subseteq Ids /\ seen \subseteq Ids /\ cursor \in 0..MaxId
  BY <1>2 DEF TypeOK
<1>4. seen' = seen \union t /\ t \intersect seen = {} /\ repeated' = {}
  <2>1. SUFFICES ASSUME NEW i \in t, i \in seen PROVE FALSE
    BY <1>1, <1>2 DEF Give, KeysetInv
  <2>2. cursor > 0 /\ i <= cursor
    BY <1>2, <2>1 DEF KeysetInv
  <2>3. cursor < i
    BY <2>1, <2>2
  <2>4. QED BY <1>3, <2>1, <2>2, <2>3 DEF Ids
<1>5. cursor' \in 0..MaxId
  <2>1. t \subseteq 1..MaxId
    BY <1>1, <1>3 DEF Ids
  <2>2. \A i \in 1..MaxId : i \in 0..MaxId
    BY PagingAssumption
  <2>3. cursor' = cursor \/ cursor' \in t
    BY <1>1
  <2>4. QED BY <1>3, <2>1, <2>2, <2>3
<1>6. \A i \in seen' : cursor' > 0 /\ i <= cursor'
  <2>1. CASE t = {}
    BY <1>1, <1>2, <1>4, <2>1 DEF KeysetInv
  <2>2. CASE t # {}
    <3>1. cursor' \in t /\ \A i \in t : cursor' >= i
      BY <1>1, <2>2
    <3>2. \A i \in seen : cursor < cursor' /\ i <= cursor
      BY <1>2, <1>3, <3>1 DEF KeysetInv, Ids
    <3>3. QED BY <1>3, <1>4, <1>5, <3>1, <3>2 DEF Ids
  <2>3. QED BY <2>1, <2>2
<1>7. \A i \in stable \ seen : i \in s
  BY <1>2 DEF KeysetInv, TypeOK
<1>8. at' = "page" => \A i \in stable' \ seen' : cursor' > 0 => cursor' < i
  <2>1. SUFFICES ASSUME NEW i \in stable \ (seen \union t), cursor' > 0
                 PROVE  cursor' < i
    BY <1>2, <1>4 DEF history
  <2>2. CASE t = {}
    BY <1>1, <1>2, <2>1, <2>2 DEF KeysetInv
  <2>3. CASE t # {}
    <3>1. cursor' \in t /\ i \in s \ t /\ cursor' \in Ids /\ i \in Ids
      BY <1>1, <1>3, <1>7, <2>1, <2>3
    <3>2. OldestFirst[cursor'] >= OldestFirst[i] /\ cursor' # i
      BY <1>1, <3>1 DEF IsFirst
    <3>3. MaxId - cursor' >= MaxId - i
      BY <3>1, <3>2 DEF OldestFirst
    <3>4. \A a, b, m \in Int : m - a >= m - b /\ a # b => a < b
      OBVIOUS
    <3>5. cursor' \in Int /\ i \in Int /\ MaxId \in Int
      BY <3>1, PagingAssumption DEF Ids
    <3>6. QED BY <3>2, <3>3, <3>4, <3>5
  <2>4. QED BY <2>2, <2>3
<1>9. at' = "done" => stable' \subseteq seen'
  <2>1. SUFFICES ASSUME at' = "done" PROVE stable \subseteq seen \union t
    BY <1>2, <1>4 DEF history
  <2>2. Cardinality(t) < size
    BY <1>1, <2>1 DEF Give, Ask
  <2>3. Cardinality(t) # size
    BY <1>2, <2>2, PagingAssumption DEF TypeOK
  <2>4. t = s
    BY <1>1, <2>3 DEF IsFirst
  <2>5. QED BY <1>7, <2>4
<1>10. at' \in {"page", "done"}
  BY <1>1, <1>2 DEF Give, Ask
<1>11. TypeOK'
  BY <1>1, <1>2, <1>3, <1>4, <1>5, <1>10 DEF TypeOK, table, history
<1>12. KeysetInv'
  BY <1>2, <1>4, <1>6, <1>8, <1>9, <1>10 DEF KeysetInv
<1>13. method' \notin Offset /\ method' \notin {"FindAll", "FindSum"}
  BY <1>2 DEF Offset
<1>14. QED BY <1>10, <1>11, <1>12, <1>13 DEF WalkInv, Offset

\* A list without ids ends with its first page.
LEMMA OnlyPageStep ==
  ASSUME WalkInv, ~list.givesId, FindPageListByIdDESC \/ FindPageListByIdASC
  PROVE  WalkInv'
<1>1. /\ method \in Keyset /\ at = "page"
      /\ UNCHANGED <<table, list, method, size, page, total, history>>
      /\ TypeOK /\ KeysetInv
  BY DEF FindPageListByIdDESC, FindPageListByIdASC, WalkInv, Keyset
<1>2. PICK t \in SUBSET found : Give(t, TRUE) /\ UNCHANGED cursor
  BY DEF FindPageListByIdDESC, FindPageListByIdASC
<1>3. seen' = t /\ repeated' = {} /\ at' = "done"
  BY <1>1, <1>2 DEF KeysetInv, Give
<1>4. TypeOK'
  BY <1>1, <1>2, <1>3 DEF TypeOK, table, history
<1>5. KeysetInv'
  BY <1>1, <1>2, <1>3 DEF KeysetInv
<1>6. method' \notin Offset /\ method' \notin {"FindAll", "FindSum"}
  BY <1>1 DEF Offset, Keyset
<1>7. QED BY <1>3, <1>4, <1>5, <1>6 DEF WalkInv, Offset

LEMMA CountStep ==
  ASSUME WalkInv, FindCount
  PROVE  WalkInv'
<1>1. /\ method = "FindPageListByPageWithTotal" /\ at = "count" /\ at' = "page"
      /\ UNCHANGED <<table, request, seen, repeated, history>>
      /\ total' = IF total = -1 THEN Cardinality(found) ELSE total
      /\ TypeOK /\ OffsetInv /\ CountInv /\ Walking
  BY DEF FindCount, WalkInv, Walking, Offset
<1>2. Cardinality(found) \in Nat /\ found \in SUBSET Ids /\ found \in SUBSET used
  BY <1>1, RowsAreFinite DEF TypeOK
<1>3. TypeOK'
  BY <1>1, <1>2 DEF TypeOK, table, request, history
<1>4. OffsetInv'
  BY <1>1 DEF OffsetInv, StillToCome, AllGiven, Placed, Passed, PageNumber, Before, Walking, table, request, history
<1>5. CountInv'
  <2>1. CASE total = -1
    <3>1. total' = Cardinality(found) /\ total' # -1
      BY <1>1, <1>2, <2>1
    <3>2. Passed = 0
      <4>1. \A n \in Nat : 0 * n = 0
        OBVIOUS
      <4>2. page \in {0, 1} /\ size \in Nat
        BY <1>1, <2>1, PagingAssumption DEF CountInv, TypeOK
      <4>3. PageNumber - 1 = 0
        BY <4>2 DEF PageNumber
      <4>4. QED BY <4>1, <4>2, <4>3 DEF Passed
    <3>3. StillToCome(found) /\ seen = {}
      BY <1>1, <1>2, <2>1, <3>2, BeforeGrows DEF CountInv, StillToCome
    <3>4. (StillToCome(found))' /\ found' = found /\ seen' = {} /\ at' = "page"
      BY <1>1, <3>3 DEF StillToCome, Placed, Passed, PageNumber, Before, table, request
    <3>5. used' = used /\ (StillToCome(found))' = StillToCome(found)'
      BY <1>1 DEF table
    <3>6. QED BY <1>2, <3>1, <3>4, <3>5 DEF CountInv, StillToCome, Placed
  <2>2. CASE total # -1
    <3>1. PICK counted \in SUBSET used :
            /\ Cardinality(counted) = total
            /\ ~grew => seen \subseteq counted /\ found \subseteq counted
            /\ ~shrank => counted \subseteq found /\ StillToCome(counted)
      BY <1>1, <2>2 DEF CountInv
    <3>2. ~shrank => (StillToCome(counted))'
      BY <1>1, <3>1 DEF StillToCome, Placed, Passed, PageNumber, Before, table, request
    <3>3. /\ total' = total /\ found' = found /\ seen' = seen /\ used' = used
          /\ grew' = grew /\ shrank' = shrank
      BY <1>1, <2>2 DEF table, history
    <3>4. QED BY <1>1, <2>2, <3>1, <3>2, <3>3 DEF CountInv
  <2>3. QED BY <2>1, <2>2
<1>6. method' = method /\ method \notin Keyset
  BY <1>1 DEF request, Keyset
<1>7. QED BY <1>1, <1>3, <1>4, <1>5, <1>6 DEF WalkInv

LEMMA AllStep ==
  ASSUME WalkInv, FindSum \/ FindAll
  PROVE  WalkInv'
<1>1. method \in {"FindAll", "FindSum"} /\ method' = method /\ TypeOK /\ AllInv
  BY DEF FindSum, FindAll, WalkInv, request
<1>2. method' \notin Keyset /\ method' \notin Offset
  BY <1>1 DEF Keyset, Offset
<1>3. CASE FindSum
  BY <1>1, <1>2, <1>3
     DEF FindSum, WalkInv, TypeOK, AllInv, Walking, table, request, history, Offset
<1>4. CASE FindAll
  <2>1. /\ at' = "done" /\ seen' = found /\ repeated' = {}
        /\ UNCHANGED <<table, request, total, history>>
    BY <1>1, <1>4 DEF FindAll, Give, AllInv, Walking
  <2>2. TypeOK' /\ AllInv'
    BY <1>1, <2>1 DEF TypeOK, AllInv, Walking, table, request, history
  <2>3. QED BY <1>2, <2>1, <2>2 DEF WalkInv, Offset
<1>5. QED BY <1>3, <1>4

-----------------------------------------------------------------------------
(* Others change the table.                                                *)

\* A row that comes or goes during a walk is noted in grew and shrank.
LEMMA ChangesAreNoted ==
  ASSUME TypeOK, NEW i \in Ids, InsertRow(i) \/ DeleteSoft(i) \/ Update(i)
  PROVE  /\ TypeOK' /\ UNCHANGED client
         /\ used \subseteq used' /\ stable' \subseteq stable
         /\ ~grew' => ~grew /\ (Walking => found' \subseteq found)
         /\ ~shrank' => ~shrank /\ (Walking => found \subseteq found')
<1>1. CASE InsertRow(i)
  BY <1>1 DEF TypeOK, InsertRow, Enter, client, request
<1>2. CASE DeleteSoft(i)
  BY <1>2 DEF TypeOK, DeleteSoft, Leave, client, request
<1>3. CASE Update(i)
  BY <1>3 DEF TypeOK, Update, Enter, Leave, client, request
<1>4. QED BY <1>1, <1>2, <1>3

LEMMA TableStep ==
  ASSUME WalkInv, NEW i \in Ids, InsertRow(i) \/ DeleteSoft(i) \/ Update(i)
  PROVE  WalkInv'
<1>1. /\ TypeOK /\ TypeOK' /\ UNCHANGED client
      /\ used \subseteq used' /\ stable' \subseteq stable
      /\ ~grew' => ~grew /\ (Walking => found' \subseteq found)
      /\ ~shrank' => ~shrank /\ (Walking => found \subseteq found')
  BY ChangesAreNoted DEF WalkInv
<1>2. /\ at' = at /\ list' = list /\ method' = method /\ size' = size /\ page' = page
      /\ cursor' = cursor /\ total' = total /\ seen' = seen /\ repeated' = repeated
  BY <1>1 DEF client, request
<1>3. found \in SUBSET Ids /\ found' \in SUBSET Ids /\ Passed \in Nat /\ Passed' = Passed
  <2>1. found \subseteq Ids /\ found' \subseteq Ids
    BY <1>1 DEF TypeOK, Ids
  <2>2. QED BY <1>1, <1>2, <2>1, PassedIsNat DEF Passed, PageNumber
<1>3a. list' = list /\ \A j : Placed(j)' => Placed(j)
  BY <1>1, <1>2 DEF Placed
<1>4. Walking /\ ~grew' =>
        \A j : Cardinality(Before(found, j)) < Passed => Cardinality(Before(found', j)) < Passed
  <2>1. SUFFICES ASSUME found' \in SUBSET found, NEW j, Cardinality(Before(found, j)) < Passed
                 PROVE  Cardinality(Before(found', j)) < Passed
    BY <1>1
  <2>2. /\ Cardinality(Before(found', j)) \in Nat /\ Cardinality(Before(found, j)) \in Nat
        /\ Cardinality(Before(found', j)) <= Cardinality(Before(found, j))
    BY <1>3, <2>1, BeforeGrows
  <2>3. QED BY <1>3, <2>1, <2>2
<1>5. Walking /\ ~shrank' =>
        \A j : Cardinality(Before(found, j)) >= Passed => Cardinality(Before(found', j)) >= Passed
  <2>1. SUFFICES ASSUME found \in SUBSET found', NEW j, Cardinality(Before(found, j)) >= Passed
                 PROVE  Cardinality(Before(found', j)) >= Passed
    BY <1>1
  <2>2. /\ Cardinality(Before(found', j)) \in Nat /\ Cardinality(Before(found, j)) \in Nat
        /\ Cardinality(Before(found, j)) <= Cardinality(Before(found', j))
    BY <1>3, <2>1, BeforeGrows
  <2>3. QED BY <1>3, <2>1, <2>2
<1>6. ASSUME method \in Keyset PROVE KeysetInv'
  BY <1>1, <1>2, <1>6 DEF WalkInv, KeysetInv
<1>7. ASSUME method \in Offset PROVE OffsetInv'
  <2>1. OffsetInv
    BY <1>7 DEF WalkInv
  <2>2. ~grew' => /\ \A j \in repeated' : ~Placed(j)
                  /\ Walking' => \A j \in seen' \intersect found' :
                       Placed(j) => Cardinality(Before(found', j)) < Passed'
    BY <1>1, <1>2, <1>3, <1>4, <2>1 DEF OffsetInv, Walking
  <2>3. ~shrank' => /\ Walking' => \A j \in stable' \ seen' :
                         Placed(j) => Cardinality(Before(found', j)) >= Passed'
                    /\ at' = "done" => \A j \in stable' : Placed(j) => j \in seen'
    BY <1>1, <1>2, <1>3, <1>5, <2>1 DEF OffsetInv, StillToCome, AllGiven, Walking
  <2>4. ~grew' => /\ \A j \in repeated' : ~Placed(j)'
                  /\ Walking' => \A j \in seen' \intersect found' :
                       Placed(j)' => Cardinality(Before(found', j)) < Passed'
    BY <1>3a, <2>2
  <2>5. ~shrank' => /\ Walking' => \A j \in stable' \ seen' :
                         Placed(j)' => Cardinality(Before(found', j)) >= Passed'
                    /\ at' = "done" => \A j \in stable' : Placed(j)' => j \in seen'
    BY <1>3a, <2>3
  <2>6. at' # "sum"
    BY <1>2, <2>1 DEF OffsetInv
  <2>7. QED BY <1>3a, <2>4, <2>5, <2>6 DEF OffsetInv, StillToCome, AllGiven, Before
<1>8. ASSUME method = "FindPageListByPageWithTotal" PROVE CountInv'
  <2>1. CountInv
    BY <1>8 DEF WalkInv
  <2>2. CASE total = -1
    BY <1>2, <2>1, <2>2 DEF CountInv
  <2>3. CASE total # -1
    <3>1. PICK counted \in SUBSET used :
            /\ Cardinality(counted) = total
            /\ ~grew => seen \subseteq counted /\ (Walking => found \subseteq counted)
            /\ ~shrank => /\ Walking => counted \subseteq found /\ StillToCome(counted)
                          /\ at = "done" => AllGiven(counted)
      BY <2>1, <2>3 DEF CountInv
    <3>2. ~grew' => seen' \subseteq counted /\ (Walking' => found' \subseteq counted)
      BY <1>1, <1>2, <3>1 DEF Walking
    <3>3. ~shrank' =>
            /\ Walking' => /\ counted \subseteq found'
                           /\ \A j \in counted \ seen' :
                                Placed(j)' => Cardinality(Before(found', j)) >= Passed'
            /\ at' = "done" => \A j \in counted : Placed(j)' => j \in seen'
      BY <1>1, <1>2, <1>3, <1>3a, <1>5, <3>1 DEF Walking, StillToCome, AllGiven
    <3>4. at # "idle"
      BY <2>1, <2>3 DEF CountInv
    <3>5. counted \in SUBSET used'
      BY <1>1, <3>1
    <3>6. QED
      BY <1>2, <1>3a, <2>3, <3>1, <3>2, <3>3, <3>4, <3>5
         DEF CountInv, StillToCome, AllGiven, Before
  <2>4. QED BY <2>2, <2>3
<1>9. ASSUME method \in {"FindAll", "FindSum"} PROVE AllInv'
  BY <1>1, <1>2, <1>9 DEF WalkInv, AllInv, Walking
<1>10. at' = "idle" => seen' = {} /\ repeated' = {} /\ page' \in {0, 1} /\ total' = -1
  BY <1>2 DEF WalkInv
<1>11. QED BY <1>1, <1>2, <1>6, <1>7, <1>8, <1>9, <1>10 DEF WalkInv

-----------------------------------------------------------------------------

LEMMA InitWalks == Init => WalkInv
<1> SUFFICES ASSUME Init PROVE WalkInv
  OBVIOUS
<1>1. used \subseteq Ids /\ found \subseteq used /\ deleted \subseteq used \ found
  <2>1. PICK n \in 0..MaxId : used = 1..n
    BY DEF Init
  <2>2. \A i \in 1..n : i \in 1..MaxId
    BY PagingAssumption
  <2>3. QED BY <2>1, <2>2 DEF Init, Ids
<1>2. cursor \in 0..MaxId /\ page \in Nat /\ total \in Nat \union {-1}
  BY PagingAssumption DEF Init
<1>3. TypeOK
  BY <1>1, <1>2 DEF Init, TypeOK
<1>4. KeysetInv /\ OffsetInv /\ CountInv /\ AllInv
  BY DEF Init, KeysetInv, OffsetInv, CountInv, AllInv, Walking
<1>5. QED BY <1>3, <1>4 DEF Init, WalkInv

\* Nothing is passed over before the first page.
LEMMA StartStep ==
  ASSUME WalkInv, Start
  PROVE  WalkInv'
<1>1. /\ TypeOK /\ at = "idle" /\ seen = {} /\ repeated = {} /\ total = -1
      /\ page \in {0, 1} /\ at' = Ask /\ stable' = found
      /\ UNCHANGED <<table, request, total, seen, repeated, grew, shrank>>
  BY DEF WalkInv, Start
<1>2. TypeOK'
  BY <1>1 DEF TypeOK, Ask, table, request
<1>3. Passed' = 0
  <2>1. \A n \in Nat : 0 * n = 0
    OBVIOUS
  <2>2. PageNumber' - 1 = 0 /\ size' \in Nat
    BY <1>1, PagingAssumption DEF PageNumber, TypeOK, request
  <2>3. QED BY <2>1, <2>2 DEF Passed
<1>4. method \in Keyset => KeysetInv'
  BY <1>1 DEF WalkInv, KeysetInv, Keyset, Ask, request
<1>5. method \in Offset => OffsetInv'
  <2>1. SUFFICES ASSUME method \in Offset PROVE OffsetInv'
    OBVIOUS
  <2>2. \A j : Cardinality(Before(found, j)) \in Nat
    <3>1. found \in SUBSET Ids
      BY <1>1 DEF TypeOK
    <3>2. QED BY <3>1, BeforeGrows
  <2>3. /\ found' = found /\ seen' = {} /\ at' \in {"count", "page"} /\ repeated' = {}
        /\ list' = list
    BY <1>1, <2>1 DEF Ask, Offset, table, request
  <2>4. \A j \in stable' \ seen' : Cardinality(Before(found', j)) >= Passed'
    BY <1>1, <1>3, <2>2, <2>3
  <2>5. QED BY <2>3, <2>4 DEF OffsetInv, StillToCome, Before, Placed
<1>6. method = "FindPageListByPageWithTotal" => CountInv'
  BY <1>1 DEF CountInv, Ask, request
<1>7. method \in {"FindAll", "FindSum"} => AllInv'
  BY <1>1 DEF AllInv, Walking, Ask, request
<1>8. method' = method /\ at' # "idle"
  BY <1>1 DEF Ask, request
<1>9. QED BY <1>2, <1>4, <1>5, <1>6, <1>7, <1>8 DEF WalkInv

LEMMA WalkStep ==
  ASSUME WalkInv, [Next]_vars
  PROVE  WalkInv'
<1>1. CASE Start
  BY <1>1, StartStep
<1>2. CASE FindPageListByIdDESC
  BY <1>2, DescStep, OnlyPageStep
<1>3. CASE FindPageListByIdASC
  BY <1>3, AscStep, OnlyPageStep
<1>4. CASE FindPageListByPage
  BY <1>4, PageStep
<1>5. CASE FindCount
  BY <1>5, CountStep
<1>6. CASE FindSum \/ FindAll
  BY <1>6, AllStep
<1>7. CASE \E i \in Ids : InsertRow(i) \/ DeleteSoft(i) \/ Update(i)
  BY <1>7, TableStep
<1>8. CASE UNCHANGED vars
  BY <1>8 DEF vars, table, client, request, history, WalkInv, TypeOK, KeysetInv,
              OffsetInv, CountInv, AllInv, StillToCome, AllGiven, Placed, Passed, PageNumber, Before, Walking
<1>9. QED
  BY <1>1, <1>2, <1>3, <1>4, <1>5, <1>6, <1>7, <1>8 DEF Next

\* The invariant of a walk through any list.
THEOREM WalksAreInvariant == Spec => []WalkInv
<1>1. WalkInv /\ [Next]_vars => WalkInv'
  BY WalkStep
<1>2. QED BY InitWalks, <1>1, PTL DEF Spec

\* A walk skips no row that was in the list all the time, whatever others insert,
\* delete or change between its pages; by page number if none leaves the list, and
\* but for rows that the column of its ORDER BY does not tell apart
\* (FindAll, FindPageListByPage, FindPageListByIdDESC and the like).
THEOREM WalksSkipNothing == Spec => []NothingSkipped
<1>1. WalkInv => NothingSkipped
  <2>1. SUFFICES ASSUME WalkInv, at = "done", list.givesId, method \in Offset => ~shrank
                 PROVE  \A i \in stable : Placed(i) => i \in seen
    BY DEF NothingSkipped
  <2>2. method \in Keyset \union Offset \union {"FindAll", "FindSum"}
    BY <2>1, PagingAssumption DEF WalkInv, TypeOK
  <2>3. QED BY <2>1, <2>2, Zenon DEF WalkInv, KeysetInv, OffsetInv, AllInv, AllGiven
<1>2. QED BY <1>1, WalksAreInvariant, PTL

\* Nor is any row given twice; by page number if none comes into the list, and but
\* for rows that tie.
THEOREM WalksRepeatNothing == Spec => []NothingRepeated
<1>1. WalkInv => NothingRepeated
  <2>1. SUFFICES ASSUME WalkInv, method \in Offset => ~grew 
                 PROVE  \A i \in repeated : ~Placed(i)
    BY DEF NothingRepeated
  <2>2. method \in Keyset \union Offset \union {"FindAll", "FindSum"}
    BY <2>1, PagingAssumption DEF WalkInv, TypeOK
  <2>3. QED BY <2>1, <2>2 DEF WalkInv, KeysetInv, OffsetInv, AllInv
<1>2. QED BY <1>1, WalksAreInvariant, PTL

\* The total that comes with a walk is the number of rows it gets, as far as none
\* comes or goes, and none ties (FindPageListByPageWithTotal).
THEOREM TotalsAreCounts == Spec => [](method # "FindSum" => TotalFits)
<1>1. WalkInv => (method # "FindSum" => TotalFits)
  <2>1. SUFFICES ASSUME WalkInv, at = "done", method = "FindPageListByPageWithTotal"
                 PROVE  /\ ~grew => Cardinality(seen) <= total
                        /\ ~shrank /\ (\A i \in used : Placed(i)) =>
                             total <= Cardinality(seen)
    BY DEF TotalFits
  <2>2. CountInv /\ seen \in SUBSET Ids /\ used \in SUBSET Ids
    BY <2>1 DEF WalkInv, TypeOK
  <2>3. PICK counted \in SUBSET used :
          /\ Cardinality(counted) = total
          /\ ~grew => seen \subseteq counted
          /\ ~shrank => AllGiven(counted)
    BY <2>1, <2>2 DEF CountInv
  <2>4. IsFiniteSet(counted) /\ IsFiniteSet(seen)
    BY <2>2, RowsAreFinite
  <2>5. ASSUME ~grew PROVE Cardinality(seen) <= total
    <3>1. seen \in SUBSET counted
      BY <2>3, <2>5
    <3>2. QED BY <2>3, <2>4, <3>1, FS_Subset
  <2>6. ASSUME ~shrank, \A i \in used : Placed(i) PROVE total <= Cardinality(seen)
    <3>1. counted \in SUBSET seen
      BY <2>3, <2>6 DEF AllGiven
    <3>2. QED BY <2>3, <2>4, <3>1, FS_Subset
  <2>7. QED BY <2>5, <2>6
<1>2. QED BY <1>1, WalksAreInvariant, PTL
=============================================================================
