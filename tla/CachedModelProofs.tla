-------------------------- MODULE CachedModelProofs --------------------------
(***************************************************************************)
(* Proofs about CachedModel, for every set of processes, serial numbers    *)
(* and states, and every relation of allowed changes.                      *)
(*                                                                         *)
(* The inductive invariant joins the properties with the shape of a call   *)
(* (OneShape).  The table changes in two places only (StoreStep), which    *)
(* makes VersionDeterminesRow inductive; from it a writer whose version    *)
(* matches holds the current row itself (MatchIsCurrent), and from that    *)
(* follow both ChecksAreAtomic and the step of the refinement in which     *)
(* UPDATE becomes VersionedRow's Advance.                                  *)
(***************************************************************************)
EXTENDS CachedModel, TLAPS

\* Where a process is in its call says what its locals hold: it works on a
\* serial number that the table has, its caller was given a row before it
\* updates, the change it is about to write was allowed on that row, and a
\* process that won holds a row older than the current one.
OneShape(p) ==
  /\ pc[p] = "idle" => read[p] = None /\ data[p] = None /\ want[p] = None
  /\ pc[p] # "idle" => sn[p] \in Sns
  /\ pc[p] \in {"delNew", "setRow", "setSn", "getRow", "selectRow", "fillRow",
                "held", "cas", "delKeys"} => db[sn[p]] # None
  /\ pc[p] \in {"setRow", "setSn", "fillRow", "held", "cas"} => read[p] # None
  /\ pc[p] \in {"held", "cas", "delKeys"} => data[p] # None
  /\ pc[p] \in {"cas", "delKeys"} => want[p] # None
  /\ want[p] # None =>
       /\ pc[p] \in {"getRow", "selectRow", "fillRow", "cas", "delKeys"}
       /\ data[p] # None
       /\ <<data[p].val, want[p]>> \in Allowed
  /\ data[p] # None => pc[p] = "held" \/ want[p] # None
  /\ won[p] => /\ pc[p] = "delKeys"
               /\ data[p].version < db[sn[p]].version

CallShape == \A p \in Procs : OneShape(p)

\* The index key names only rows the table has: rows are never deleted.
IndexHasRow == \A s \in Sns : snKey[s] = "id" => db[s] # None

Shape == TypeOK /\ CallShape /\ IndexHasRow

\* A serial number that is not in the table never was.
AbsentIsNew == \A s \in Sns : db[s] = None => committed[s] = {}

\* The inductive invariant.
Inv == Shape /\ SnapshotsCommitted /\ AbsentIsNew /\ VersionDeterminesRow /\ OneWinner

\* Every round trip of a model call, of any process, keeps the types and the
\* shape of the calls.
LEMMA ShapeNext == Shape /\ [Next]_vars => Shape'
<1> SUFFICES ASSUME Shape, [Next]_vars
             PROVE  Shape'
  OBVIOUS
<1> USE CachedModelAssumption DEF Shape, vars, procVars, cacheVars
<1>1. ASSUME NEW p \in Procs, NEW s \in Sns, NEW v \in InitVals, InsertRow(p, s, v)
      PROVE  Shape'
  BY <1>1 DEF InsertRow, Write, Goto, TypeOK, CallShape, OneShape, IndexHasRow, PCs, Row
<1>2. ASSUME NEW p \in Procs, NEW s \in Sns, GetSn(p, s)
      PROVE  Shape'
  BY <1>2 DEF GetSn, Goto, TypeOK, CallShape, OneShape, IndexHasRow, PCs, Row
<1>3. ASSUME NEW p \in Procs, NEW q \in Procs, ShareSn(p, q)
      PROVE  Shape'
  <2>1. TypeOK'
    BY <1>3 DEF ShareSn, Goto, TypeOK, PCs
  <2>2. ASSUME NEW r \in Procs PROVE OneShape(r)'
    <3>1. CASE r = p
      BY ZenonT(60), <3>1, <1>3 DEF ShareSn, Goto, TypeOK, CallShape, OneShape, IndexHasRow, Row
    <3>2. CASE r # p
      BY <3>2, <1>3 DEF ShareSn, Goto, TypeOK, CallShape, OneShape, IndexHasRow, Row
    <3> QED BY <3>1, <3>2
  <2>3. IndexHasRow'
    BY <1>3 DEF ShareSn, Goto, TypeOK, CallShape, OneShape, IndexHasRow, Row
  <2> QED BY <2>1, <2>2, <2>3 DEF CallShape
<1>4. ASSUME NEW p \in Procs, NEW q \in Procs, ShareRow(p, q)
      PROVE  Shape'
  <2>0. read[q] \in Row
    BY <1>4 DEF ShareRow, TypeOK, CallShape, OneShape
  <2>1. TypeOK'
    <3>1. CASE want[p] = None
      BY <2>0, <3>1, <1>4 DEF ShareRow, Deliver, Goto, TypeOK, PCs
    <3>2. CASE want[p] # None
      BY <2>0, <3>2, <1>4 DEF ShareRow, Deliver, Goto, TypeOK, PCs
    <3> QED BY <3>1, <3>2
  <2>2. ASSUME NEW r \in Procs PROVE OneShape(r)'
    <3>1. CASE r = p
      BY ZenonT(60), <2>0, <3>1, <1>4 DEF ShareRow, Deliver, Goto, TypeOK, CallShape, OneShape, IndexHasRow, Row
    <3>2. CASE r # p
      BY <2>0, <3>2, <1>4 DEF ShareRow, Deliver, Goto, TypeOK, CallShape, OneShape, IndexHasRow, Row
    <3> QED BY <3>1, <3>2
  <2>3. IndexHasRow'
    BY <2>0, <1>4 DEF ShareRow, Deliver, Goto, TypeOK, CallShape, OneShape, IndexHasRow, Row
  <2> QED BY <2>1, <2>2, <2>3 DEF CallShape
<1>5. ASSUME NEW p \in Procs, NEW v \in Vals, BeginUpdate(p, v)
      PROVE  Shape'
  BY ZenonT(60), <1>5 DEF BeginUpdate, Goto, TypeOK, CallShape, OneShape, IndexHasRow, PCs, Row
<1>6. ASSUME NEW p \in Procs, DelNew(p)
      PROVE  Shape'
  BY ZenonT(60), <1>6 DEF DelNew, Return, Goto, TypeOK, CallShape, OneShape, IndexHasRow, PCs, Row
<1>7. ASSUME NEW p \in Procs, SelectSn(p)
      PROVE  Shape'
  <2>0. sn[p] \in Sns
    BY <1>7 DEF SelectSn, TypeOK, CallShape, OneShape
  <2>1. TypeOK'
    <3>1. CASE db[sn[p]] = None
      BY <2>0, <3>1, <1>7 DEF SelectSn, Goto, TypeOK, PCs
    <3>2. CASE db[sn[p]] # None
      BY <2>0, <3>2, <1>7 DEF SelectSn, Goto, TypeOK, PCs
    <3> QED BY <3>1, <3>2
  <2>2. ASSUME NEW r \in Procs PROVE OneShape(r)'
    <3>1. CASE r = p
      BY <2>0, <3>1, <1>7 DEF SelectSn, Goto, TypeOK, CallShape, OneShape, IndexHasRow, Row
    <3>2. CASE r # p
      BY <2>0, <3>2, <1>7 DEF SelectSn, Goto, TypeOK, CallShape, OneShape, IndexHasRow, Row
    <3> QED BY <3>1, <3>2
  <2>3. IndexHasRow'
    BY <2>0, <1>7 DEF SelectSn, Goto, TypeOK, CallShape, OneShape, IndexHasRow, Row
  <2> QED BY <2>1, <2>2, <2>3 DEF CallShape
<1>8. ASSUME NEW p \in Procs, MarkAbsent(p)
      PROVE  Shape'
  BY <1>8 DEF MarkAbsent, Goto, TypeOK, CallShape, OneShape, IndexHasRow, PCs, Row
<1>9. ASSUME NEW p \in Procs, SetRow(p)
      PROVE  Shape'
  BY ZenonT(60), <1>9 DEF SetRow, Goto, TypeOK, CallShape, OneShape, IndexHasRow, PCs, Row
<1>10. ASSUME NEW p \in Procs, SetSn(p)
      PROVE  Shape'
  <2>0. read[p] \in Row
    BY <1>10 DEF SetSn, TypeOK, CallShape, OneShape
  <2>1. TypeOK'
    <3>1. CASE want[p] = None
      BY ZenonT(60), <2>0, <3>1, <1>10 DEF SetSn, Deliver, Goto, TypeOK, PCs
    <3>2. CASE want[p] # None
      BY <2>0, <3>2, <1>10 DEF SetSn, Deliver, Goto, TypeOK, PCs
    <3> QED BY <3>1, <3>2
  <2>2. ASSUME NEW r \in Procs PROVE OneShape(r)'
    <3>1. CASE r = p
      BY ZenonT(60), <2>0, <3>1, <1>10 DEF SetSn, Deliver, Goto, TypeOK, CallShape, OneShape, IndexHasRow, Row
    <3>2. CASE r # p
      BY <2>0, <3>2, <1>10 DEF SetSn, Deliver, Goto, TypeOK, CallShape, OneShape, IndexHasRow, Row
    <3> QED BY <3>1, <3>2
  <2>3. IndexHasRow'
    BY <2>0, <1>10 DEF SetSn, Deliver, Goto, TypeOK, CallShape, OneShape, IndexHasRow, Row
  <2> QED BY <2>1, <2>2, <2>3 DEF CallShape
<1>11. ASSUME NEW p \in Procs, GetRow(p)
      PROVE  Shape'
  <2>0. sn[p] \in Sns
    BY <1>11 DEF GetRow, TypeOK, CallShape, OneShape
  <2>1. TypeOK'
    <3>1. CASE idKey[sn[p]] = None
      BY <2>0, <3>1, <1>11 DEF GetRow, Deliver, Goto, TypeOK, PCs
    <3>2. CASE idKey[sn[p]] # None /\ want[p] = None
      BY <2>0, <3>2, <1>11 DEF GetRow, Deliver, Goto, TypeOK, PCs
    <3>3. CASE idKey[sn[p]] # None /\ want[p] # None
      BY <2>0, <3>3, <1>11 DEF GetRow, Deliver, Goto, TypeOK, PCs
    <3> QED BY <3>1, <3>2, <3>3
  <2>2. ASSUME NEW r \in Procs PROVE OneShape(r)'
    <3>1. CASE r = p /\ idKey[sn[p]] = None
      BY <2>0, <3>1, <1>11 DEF GetRow, Deliver, Goto, TypeOK, CallShape, OneShape
    <3>3. CASE r = p /\ idKey[sn[p]] # None /\ want[p] = None
      BY ZenonT(60), <2>0, <3>3, <1>11 DEF GetRow, Deliver, Goto, TypeOK, CallShape, OneShape
    <3>4. CASE r = p /\ idKey[sn[p]] # None /\ want[p] # None
      BY <2>0, <3>4, <1>11 DEF GetRow, Deliver, Goto, TypeOK, CallShape, OneShape
    <3>2. CASE r # p
      BY <2>0, <3>2, <1>11 DEF GetRow, Deliver, Goto, TypeOK, CallShape, OneShape, IndexHasRow, Row
    <3> QED BY <3>1, <3>2, <3>3, <3>4
  <2>3. IndexHasRow'
    BY <2>0, <1>11 DEF GetRow, Deliver, Goto, TypeOK, CallShape, OneShape, IndexHasRow, Row
  <2> QED BY <2>1, <2>2, <2>3 DEF CallShape
<1>12. ASSUME NEW p \in Procs, SelectRow(p)
      PROVE  Shape'
  BY ZenonT(60), <1>12 DEF SelectRow, Goto, TypeOK, CallShape, OneShape, IndexHasRow, PCs, Row
<1>13. ASSUME NEW p \in Procs, FillRow(p)
      PROVE  Shape'
  <2>0. read[p] \in Row /\ sn[p] \in Sns
    BY <1>13 DEF FillRow, TypeOK, CallShape, OneShape
  <2>1. TypeOK'
    <3>1. CASE want[p] = None
      BY <2>0, <3>1, <1>13 DEF FillRow, Deliver, Goto, TypeOK, PCs
    <3>2. CASE want[p] # None
      BY <2>0, <3>2, <1>13 DEF FillRow, Deliver, Goto, TypeOK, PCs
    <3> QED BY <3>1, <3>2
  <2>2. ASSUME NEW r \in Procs PROVE OneShape(r)'
    <3>1. CASE r = p
      BY ZenonT(60), <2>0, <3>1, <1>13 DEF FillRow, Deliver, Goto, TypeOK, CallShape, OneShape, IndexHasRow, Row
    <3>2. CASE r # p
      BY <2>0, <3>2, <1>13 DEF FillRow, Deliver, Goto, TypeOK, CallShape, OneShape, IndexHasRow, Row
    <3> QED BY <3>1, <3>2
  <2>3. IndexHasRow'
    BY <2>0, <1>13 DEF FillRow, Deliver, Goto, TypeOK, CallShape, OneShape, IndexHasRow, Row
  <2> QED BY <2>1, <2>2, <2>3 DEF CallShape
<1>14. ASSUME NEW p \in Procs, UpdateRow(p)
      PROVE  Shape'
  <2>0. db[sn[p]] \in Row /\ data[p] \in Row /\ want[p] \in Vals /\ sn[p] \in Sns
    BY ZenonT(60), <1>14 DEF UpdateRow, TypeOK, CallShape, OneShape
  <2>1. TypeOK'
    <3> DEFINE new == [version |-> data[p].version + 1, val |-> want[p]]
    <3>1. new \in Row
      BY <2>0 DEF Row
    <3>2. CASE db[sn[p]].version = data[p].version
      <4>1. /\ db' = [db EXCEPT ![sn[p]] = new]
            /\ committed' = [committed EXCEPT ![sn[p]] = @ \union {new}]
            /\ won' = [won EXCEPT ![p] = TRUE]
            /\ pc' = [pc EXCEPT ![p] = "delKeys"]
            /\ UNCHANGED <<cacheVars, sn, read, data, want>>
        BY <3>2, <1>14 DEF UpdateRow, Write, Goto
      <4> HIDE DEF new
      <4> QED
        BY <2>0, <3>1, <4>1 DEF TypeOK, PCs
    <3>3. CASE db[sn[p]].version # data[p].version
      BY <2>0, <3>3, <1>14 DEF UpdateRow, Write, Goto, TypeOK, PCs
    <3> QED BY <3>2, <3>3
  <2>2. ASSUME NEW r \in Procs PROVE OneShape(r)'
    <3>1. CASE r = p
      BY <2>0, <3>1, <1>14 DEF UpdateRow, Write, Goto, TypeOK, CallShape, OneShape, IndexHasRow, Row
    <3>2. CASE r # p
      BY <2>0, <3>2, <1>14 DEF UpdateRow, Write, Goto, TypeOK, CallShape, OneShape, IndexHasRow, Row
    <3> QED BY <3>1, <3>2
  <2>3. IndexHasRow'
    BY <2>0, <1>14 DEF UpdateRow, Write, Goto, TypeOK, CallShape, OneShape, IndexHasRow, Row
  <2> QED BY <2>1, <2>2, <2>3 DEF CallShape
<1>15. ASSUME NEW p \in Procs, DelKeys(p)
      PROVE  Shape'
  <2>1. TypeOK'
    BY <1>15 DEF DelKeys, Return, Goto, TypeOK, PCs
  <2>2. ASSUME NEW r \in Procs PROVE OneShape(r)'
    <3>1. CASE r = p
      BY <3>1, <1>15 DEF DelKeys, Return, Goto, TypeOK, CallShape, OneShape, IndexHasRow, Row
    <3>2. CASE r # p
      BY <3>2, <1>15 DEF DelKeys, Return, Goto, TypeOK, CallShape, OneShape, IndexHasRow, Row
    <3> QED BY <3>1, <3>2
  <2>3. IndexHasRow'
    BY <1>15 DEF DelKeys, Return, Goto, TypeOK, CallShape, OneShape, IndexHasRow, Row
  <2> QED BY <2>1, <2>2, <2>3 DEF CallShape
<1>16. ASSUME NEW p \in Procs, DelLater(p)
      PROVE  Shape'
  <2>0. sn[p] \in Sns
    BY <1>16 DEF DelLater, TypeOK, CallShape, OneShape
  <2>1. TypeOK'
    BY <2>0, <1>16 DEF DelLater, Return, Goto, TypeOK, PCs
  <2>2. ASSUME NEW r \in Procs PROVE OneShape(r)'
    <3>1. CASE r = p
      BY <2>0, <3>1, <1>16 DEF DelLater, Return, Goto, TypeOK, CallShape, OneShape, IndexHasRow, Row
    <3>2. CASE r # p
      BY <2>0, <3>2, <1>16 DEF DelLater, Return, Goto, TypeOK, CallShape, OneShape, IndexHasRow, Row
    <3> QED BY <3>1, <3>2
  <2>3. IndexHasRow'
    BY <2>0, <1>16 DEF DelLater, Return, Goto, TypeOK, CallShape, OneShape, IndexHasRow, Row
  <2> QED BY <2>1, <2>2, <2>3 DEF CallShape
<1>17. ASSUME NEW p \in Procs, Release(p)
      PROVE  Shape'
  BY <1>17 DEF Release, Return, Goto, TypeOK, CallShape, OneShape, IndexHasRow, PCs, Row
<1>18. ASSUME NEW p \in Procs, Abandon(p)
      PROVE  Shape'
  BY <1>18 DEF Abandon, Return, Goto, TypeOK, CallShape, OneShape, IndexHasRow, PCs, Row
<1>19. ASSUME NEW s \in Sns, CleanKeys(s)
      PROVE  Shape'
  BY <1>19 DEF CleanKeys, TypeOK, CallShape, OneShape, IndexHasRow, PCs, Row
<1>20. ASSUME NEW s \in Sns, ExpireRow(s)
      PROVE  Shape'
  BY <1>20 DEF ExpireRow, TypeOK, CallShape, OneShape, IndexHasRow, PCs, Row
<1>21. ASSUME NEW s \in Sns, ExpireSn(s)
      PROVE  Shape'
  BY <1>21 DEF ExpireSn, TypeOK, CallShape, OneShape, IndexHasRow, PCs, Row
<1>22. CASE UNCHANGED vars
  BY <1>22 DEF TypeOK, CallShape, OneShape, IndexHasRow
<1> QED
  BY <1>1, <1>2, <1>3, <1>4, <1>5, <1>6, <1>7, <1>8, <1>9, <1>10, <1>11, <1>12, <1>13, <1>14, <1>15, <1>16, <1>17, <1>18, <1>19, <1>20, <1>21, <1>22 DEF Next, CallStep, CacheStep

\* The table changes only by an INSERT or by an UPDATE whose version matches.
LEMMA StoreStep ==
  ASSUME Shape, [Next]_vars
  PROVE  \/ \E p \in Procs, s \in Sns, v \in InitVals : InsertRow(p, s, v)
         \/ \E p \in Procs : UpdateRow(p) /\ db[sn[p]].version = data[p].version
         \/ UNCHANGED <<db, committed>>
<1>1. ASSUME NEW p \in Procs, CallStep(p)
      PROVE  \/ UpdateRow(p) /\ db[sn[p]].version = data[p].version
             \/ UNCHANGED <<db, committed>>
  BY <1>1 DEF CallStep, DelNew, SelectSn, MarkAbsent, SetRow, SetSn, GetRow,
              SelectRow, FillRow, UpdateRow, DelKeys, DelLater
<1>2. ASSUME NEW s \in Sns, CacheStep(s)
      PROVE  UNCHANGED <<db, committed>>
  BY <1>2 DEF CacheStep, CleanKeys, ExpireRow, ExpireSn
<1>3. ASSUME NEW p \in Procs, Release(p) \/ Abandon(p)
      PROVE  UNCHANGED <<db, committed>>
  BY <1>3 DEF Release, Abandon
<1>4. ASSUME NEW p \in Procs, NEW q \in Procs, ShareSn(p, q) \/ ShareRow(p, q)
      PROVE  UNCHANGED <<db, committed>>
  BY <1>4 DEF ShareSn, ShareRow
<1>5. ASSUME NEW p \in Procs, NEW s \in Sns, GetSn(p, s)
      PROVE  UNCHANGED <<db, committed>>
  BY <1>5 DEF GetSn
<1>6. ASSUME NEW p \in Procs, NEW v \in Vals, BeginUpdate(p, v)
      PROVE  UNCHANGED <<db, committed>>
  BY <1>6 DEF BeginUpdate
<1>7. CASE UNCHANGED vars
  BY <1>7 DEF vars
<1> QED
  BY <1>1, <1>2, <1>3, <1>4, <1>5, <1>6, <1>7 DEF Next

\* No step puts into the cache, or gives to a caller, a row that the table never
\* held for that serial number.
LEMMA SnapshotsNext ==
  ASSUME Shape, SnapshotsCommitted, [Next]_vars
  PROVE  SnapshotsCommitted'
<1> USE CachedModelAssumption DEF Shape, vars, procVars, cacheVars, SnapshotsCommitted, TypeOK, CallShape, OneShape
<1>1. ASSUME NEW p \in Procs, NEW s \in Sns, NEW v \in InitVals, InsertRow(p, s, v)
      PROVE  SnapshotsCommitted'
  <2> DEFINE new == [version |-> 0, val |-> v]
  <2>1. /\ db' = [db EXCEPT ![s] = new]
        /\ committed' = [committed EXCEPT ![s] = @ \union {new}]
        /\ read[p] = None /\ data[p] = None
        /\ sn' = [sn EXCEPT ![p] = s]
        /\ UNCHANGED <<idKey, read, data>>
    BY <1>1 DEF InsertRow, Write
  <2> HIDE DEF new
  <2> QED
    BY <2>1 DEF SnapshotsCommitted
<1>2. ASSUME NEW p \in Procs, NEW s \in Sns, GetSn(p, s)
      PROVE  SnapshotsCommitted'
  BY ZenonT(60), <1>2 DEF GetSn, Goto
<1>3. ASSUME NEW p \in Procs, NEW q \in Procs, ShareSn(p, q)
      PROVE  SnapshotsCommitted'
  BY ZenonT(60), <1>3 DEF ShareSn, Goto
<1>4. ASSUME NEW p \in Procs, NEW q \in Procs, ShareRow(p, q)
      PROVE  SnapshotsCommitted'
  BY <1>4 DEF ShareRow, Deliver, Goto
<1>5. ASSUME NEW p \in Procs, NEW v \in Vals, BeginUpdate(p, v)
      PROVE  SnapshotsCommitted'
  BY <1>5 DEF BeginUpdate, Goto
<1>6. ASSUME NEW p \in Procs, DelNew(p)
      PROVE  SnapshotsCommitted'
  BY <1>6 DEF DelNew, Return, Goto
<1>7. ASSUME NEW p \in Procs, SelectSn(p)
      PROVE  SnapshotsCommitted'
  <2>1. CASE db[sn[p]] = None
    BY <1>7, <2>1 DEF SelectSn, Goto
  <2>2. CASE db[sn[p]] # None
    <3>1. /\ sn[p] \in Sns
          /\ db[sn[p]] \in committed[sn[p]]
          /\ read' = [read EXCEPT ![p] = db[sn[p]]]
          /\ UNCHANGED <<db, committed, idKey, sn, data>>
      BY <1>7, <2>2 DEF SelectSn
    <3> QED
      BY <3>1 DEF SnapshotsCommitted
  <2> QED BY <2>1, <2>2
<1>8. ASSUME NEW p \in Procs, MarkAbsent(p)
      PROVE  SnapshotsCommitted'
  BY <1>8 DEF MarkAbsent, Goto
<1>9. ASSUME NEW p \in Procs, SetRow(p)
      PROVE  SnapshotsCommitted'
  BY <1>9 DEF SetRow, Goto
<1>10. ASSUME NEW p \in Procs, SetSn(p)
      PROVE  SnapshotsCommitted'
  BY <1>10 DEF SetSn, Deliver, Goto
<1>11. ASSUME NEW p \in Procs, GetRow(p)
      PROVE  SnapshotsCommitted'
  <2>1. CASE idKey[sn[p]] = None
    BY <1>11, <2>1 DEF GetRow, Deliver, Goto
  <2>2. CASE idKey[sn[p]] # None /\ want[p] = None
    <3>1. /\ sn[p] \in Sns
          /\ idKey[sn[p]] \in committed[sn[p]]
          /\ read' = [read EXCEPT ![p] = idKey[sn[p]]]
          /\ data' = [data EXCEPT ![p] = idKey[sn[p]]]
          /\ UNCHANGED <<db, committed, idKey, sn>>
      BY <1>11, <2>2 DEF GetRow, Deliver
    <3> QED
      BY <3>1 DEF SnapshotsCommitted
  <2>3. CASE idKey[sn[p]] # None /\ want[p] # None
    <3>1. /\ sn[p] \in Sns
          /\ idKey[sn[p]] \in committed[sn[p]]
          /\ read' = [read EXCEPT ![p] = idKey[sn[p]]]
          /\ UNCHANGED <<db, committed, idKey, sn, data>>
      BY <1>11, <2>3 DEF GetRow, Deliver
    <3> QED
      BY <3>1 DEF SnapshotsCommitted
  <2> QED BY <2>1, <2>2, <2>3
<1>12. ASSUME NEW p \in Procs, SelectRow(p)
      PROVE  SnapshotsCommitted'
  BY ZenonT(60), <1>12 DEF SelectRow, Goto
<1>13. ASSUME NEW p \in Procs, FillRow(p)
      PROVE  SnapshotsCommitted'
  BY <1>13 DEF FillRow, Deliver, Goto
<1>14. ASSUME NEW p \in Procs, UpdateRow(p)
      PROVE  SnapshotsCommitted'
  <2>1. CASE db[sn[p]].version = data[p].version
    <3> DEFINE new == [version |-> data[p].version + 1, val |-> want[p]]
    <3>1. /\ sn[p] \in Sns
          /\ db' = [db EXCEPT ![sn[p]] = new]
          /\ committed' = [committed EXCEPT ![sn[p]] = @ \union {new}]
          /\ UNCHANGED <<idKey, read, data, sn>>
      BY <1>14, <2>1 DEF UpdateRow, Write
    <3> HIDE DEF new
    <3> QED
      BY <3>1 DEF SnapshotsCommitted
  <2>2. CASE db[sn[p]].version # data[p].version
    BY <1>14, <2>2 DEF UpdateRow, Write, Goto
  <2> QED BY <2>1, <2>2
<1>15. ASSUME NEW p \in Procs, DelKeys(p)
      PROVE  SnapshotsCommitted'
  BY <1>15 DEF DelKeys, Return, Goto
<1>16. ASSUME NEW p \in Procs, DelLater(p)
      PROVE  SnapshotsCommitted'
  BY <1>16 DEF DelLater, Return, Goto
<1>17. ASSUME NEW p \in Procs, Release(p)
      PROVE  SnapshotsCommitted'
  BY <1>17 DEF Release, Return, Goto
<1>18. ASSUME NEW p \in Procs, Abandon(p)
      PROVE  SnapshotsCommitted'
  BY <1>18 DEF Abandon, Return, Goto
<1>19. ASSUME NEW s \in Sns, CleanKeys(s)
      PROVE  SnapshotsCommitted'
  BY <1>19 DEF CleanKeys
<1>20. ASSUME NEW s \in Sns, ExpireRow(s)
      PROVE  SnapshotsCommitted'
  BY <1>20 DEF ExpireRow
<1>21. ASSUME NEW s \in Sns, ExpireSn(s)
      PROVE  SnapshotsCommitted'
  BY <1>21 DEF ExpireSn
<1>22. CASE UNCHANGED vars
  BY <1>22
<1> QED
  BY <1>1, <1>2, <1>3, <1>4, <1>5, <1>6, <1>7, <1>8, <1>9, <1>10, <1>11, <1>12, <1>13, <1>14, <1>15, <1>16, <1>17, <1>18, <1>19, <1>20, <1>21, <1>22 DEF Next, CallStep, CacheStep

\* An INSERT starts the history of its serial number and a matching UPDATE adds
\* the next version to it, so that versions stay unique.
LEMMA VersionsNext ==
  ASSUME Shape, SnapshotsCommitted, AbsentIsNew, VersionDeterminesRow, [Next]_vars
  PROVE  (AbsentIsNew /\ VersionDeterminesRow)'
<1>1. ASSUME NEW p \in Procs, NEW s \in Sns, NEW v \in InitVals, InsertRow(p, s, v)
      PROVE  (AbsentIsNew /\ VersionDeterminesRow)'
  <2> DEFINE new == [version |-> 0, val |-> v]
  <2>1. /\ db' = [db EXCEPT ![s] = new]
        /\ committed' = [committed EXCEPT ![s] = {new}]
    BY <1>1 DEF InsertRow, Write, AbsentIsNew, Shape, TypeOK
  <2>2. new \in Row /\ new.version = 0 /\ new # None
    BY CachedModelAssumption DEF Row
  <2> HIDE DEF new
  <2> QED
    BY <2>1, <2>2 DEF Shape, TypeOK, AbsentIsNew, VersionDeterminesRow
<1>2. ASSUME NEW p \in Procs, UpdateRow(p), db[sn[p]].version = data[p].version
      PROVE  (AbsentIsNew /\ VersionDeterminesRow)'
  <2> DEFINE new == [version |-> data[p].version + 1, val |-> want[p]]
  <2>1. /\ sn[p] \in Sns
        /\ db[sn[p]] \in Row
        /\ data[p] \in Row
        /\ want[p] \in Vals
    BY <1>2 DEF UpdateRow, Shape, TypeOK, CallShape, OneShape
  <2>2. new \in Row /\ new.version = db[sn[p]].version + 1
    BY <1>2, <2>1 DEF Row
  <2>3. /\ db' = [db EXCEPT ![sn[p]] = new]
        /\ committed' = [committed EXCEPT ![sn[p]] = @ \union {new}]
    BY <1>2 DEF UpdateRow, Write
  <2> HIDE DEF new
  <2>4. ASSUME NEW r \in committed[sn[p]]
        PROVE  r.version \in Nat /\ r.version < new.version
    BY <2>1, <2>2 DEF VersionDeterminesRow, Shape, TypeOK, Row
  <2>5. AbsentIsNew'
    BY <2>1, <2>2, <2>3, CachedModelAssumption DEF Shape, TypeOK, AbsentIsNew
  <2>6. ASSUME NEW s \in Sns
        PROVE  /\ \A r1, r2 \in committed'[s] : r1.version = r2.version => r1 = r2
               /\ \A r \in committed'[s] : r.version <= db'[s].version
    <3>1. CASE s = sn[p]
      BY <3>1, <2>1, <2>2, <2>3, <2>4 DEF Shape, TypeOK, VersionDeterminesRow, Row
    <3>2. CASE s # sn[p]
      BY <3>2, <2>1, <2>3 DEF Shape, TypeOK, VersionDeterminesRow
    <3> QED BY <3>1, <3>2
  <2> QED BY <2>5, <2>6 DEF VersionDeterminesRow
<1>3. CASE UNCHANGED <<db, committed>>
  BY <1>3 DEF AbsentIsNew, VersionDeterminesRow
<1> QED
  BY <1>1, <1>2, <1>3, StoreStep

\* A process that has won has won in this step or before, on the same row.
LEMMA WinnerStep ==
  ASSUME Shape, [Next]_vars, NEW r \in Procs, won'[r]
  PROVE  \/ UpdateRow(r) /\ db[sn[r]].version = data[r].version
         \/ won[r] /\ data'[r] = data[r] /\ sn'[r] = sn[r]
<1> DEFINE Goal == \/ UpdateRow(r) /\ db[sn[r]].version = data[r].version
                   \/ won[r] /\ data'[r] = data[r] /\ sn'[r] = sn[r]
<1> USE DEF Shape, TypeOK, CallShape, OneShape
<1>1. ASSUME NEW p \in Procs, CallStep(p)
      PROVE  Goal
  <2>1. CASE UpdateRow(p)
    BY <2>1 DEF UpdateRow, Goto
  <2>2. CASE DelNew(p) \/ DelKeys(p) \/ DelLater(p)
    BY <2>2 DEF DelNew, DelKeys, DelLater, Return
  <2>3. CASE SelectSn(p) \/ MarkAbsent(p) \/ SetRow(p) \/ SelectRow(p)
    BY <2>3 DEF SelectSn, MarkAbsent, SetRow, SelectRow, Goto
  <2>4. CASE SetSn(p)
    BY <2>4 DEF SetSn, Deliver, Goto
  <2>5. CASE GetRow(p)
    BY <2>5 DEF GetRow, Deliver, Goto
  <2>6. CASE FillRow(p)
    BY <2>6 DEF FillRow, Deliver, Goto
  <2> QED BY <1>1, <2>1, <2>2, <2>3, <2>4, <2>5, <2>6 DEF CallStep
<1>2. ASSUME NEW s \in Sns, CacheStep(s)
      PROVE  Goal
  BY <1>2 DEF CacheStep, CleanKeys, ExpireRow, ExpireSn, procVars
<1>3. ASSUME NEW p \in Procs, Release(p) \/ Abandon(p)
      PROVE  Goal
  BY <1>3 DEF Release, Abandon, Return
<1>4. ASSUME NEW p \in Procs, NEW q \in Procs, ShareSn(p, q)
      PROVE  Goal
  BY <1>4 DEF ShareSn
<1>5. ASSUME NEW p \in Procs, NEW q \in Procs, ShareRow(p, q)
      PROVE  Goal
  BY <1>5 DEF ShareRow, Deliver
<1>6. ASSUME NEW p \in Procs, NEW s \in Sns, GetSn(p, s)
      PROVE  Goal
  BY <1>6 DEF GetSn
<1>7. ASSUME NEW p \in Procs, NEW v \in Vals, BeginUpdate(p, v)
      PROVE  Goal
  BY <1>7 DEF BeginUpdate
<1>8. ASSUME NEW p \in Procs, NEW s \in Sns, NEW v \in InitVals, InsertRow(p, s, v)
      PROVE  Goal
  BY <1>8 DEF InsertRow
<1>9. CASE UNCHANGED vars
  BY <1>9 DEF vars, procVars
<1> QED
  BY <1>1, <1>2, <1>3, <1>4, <1>5, <1>6, <1>7, <1>8, <1>9 DEF Next

\* Two processes never both win with one version: the first advances the
\* current version beyond what the second holds.
LEMMA OneWinnerNext ==
  ASSUME Shape, OneWinner, [Next]_vars
  PROVE  OneWinner'
<1> SUFFICES ASSUME NEW p \in Procs, NEW q \in Procs, p # q,
                    won'[p], won'[q], sn'[p] = sn'[q]
             PROVE  data'[p].version # data'[q].version
  BY DEF OneWinner
<1>1. ASSUME NEW a \in Procs, NEW b \in Procs, a # b, UpdateRow(a),
             db[sn[a]].version = data[a].version, won'[b]
      PROVE  /\ won[b] /\ data'[b] = data[b] /\ sn'[b] = sn[b]
             /\ data'[a] = data[a] /\ sn'[a] = sn[a]
             /\ sn[a] = sn[b] => data[b].version # data[a].version
  <2>1. /\ won[b] /\ data' = data /\ sn' = sn
    BY <1>1 DEF UpdateRow, Shape, TypeOK
  <2>2. data[b].version < db[sn[b]].version /\ sn[b] \in Sns /\ data[b] # None
    BY <2>1 DEF Shape, CallShape, OneShape
  <2>3. data[b].version \in Nat
    BY <2>2 DEF Shape, TypeOK, Row
  <2>4. db[sn[a]].version \in Nat
    BY <1>1 DEF UpdateRow, Shape, TypeOK, CallShape, OneShape, Row
  <2> QED
    BY <1>1, <2>1, <2>2, <2>3, <2>4
<1>2. CASE UpdateRow(p) /\ db[sn[p]].version = data[p].version
  BY <1>1, <1>2
<1>3. CASE UpdateRow(q) /\ db[sn[q]].version = data[q].version
  BY <1>1, <1>3
<1>4. CASE /\ won[p] /\ data'[p] = data[p] /\ sn'[p] = sn[p]
           /\ won[q] /\ data'[q] = data[q] /\ sn'[q] = sn[q]
  BY <1>4 DEF OneWinner
<1> QED
  BY <1>2, <1>3, <1>4, WinnerStep

\* The invariant holds when the table and the cache are empty.
LEMMA InvInit == Init => Inv
BY CachedModelAssumption
   DEF Init, Inv, Shape, TypeOK, CallShape, OneShape, IndexHasRow, PCs,
       SnapshotsCommitted, AbsentIsNew, VersionDeterminesRow, OneWinner

\* The invariant is kept by every step.
LEMMA InvNext == Inv /\ [Next]_vars => Inv'
BY ShapeNext, SnapshotsNext, VersionsNext, OneWinnerNext DEF Inv

\* The invariant holds in every state of the cached model.
THEOREM InvHolds == Spec => []Inv
BY InvInit, InvNext, PTL DEF Spec

\* Type correctness of the model calls of homestayOrderModel_gen.go and
\* thirdPaymentModel_gen.go, for any number of processes and serial numbers.
THEOREM TypeCorrect == Spec => []TypeOK
<1>1. Inv => TypeOK
  BY DEF Inv, Shape
<1> QED
  BY <1>1, InvHolds, PTL

\* FindOneBySn and FindOne never answer, and Redis never holds, a row that was
\* not committed, however their fills interleave with UpdateWithVersion.
THEOREM SnapshotsAreCommitted == Spec => []SnapshotsCommitted
<1>1. Inv => SnapshotsCommitted
  BY DEF Inv
<1> QED
  BY <1>1, InvHolds, PTL

\* The version column of a table determines the row, which is what the WHERE
\* clause of UpdateWithVersion relies on.
THEOREM VersionsDetermineRows == Spec => []VersionDeterminesRow
<1>1. Inv => VersionDeterminesRow
  BY DEF Inv
<1> QED
  BY <1>1, InvHolds, PTL

\* At most one of the callers of UpdateWithVersion with one version gets nil.
THEOREM AtMostOneWinner == Spec => []OneWinner
<1>1. Inv => OneWinner
  BY DEF Inv
<1> QED
  BY <1>1, InvHolds, PTL

\* A writer whose version matches holds the current row itself.
LEMMA MatchIsCurrent ==
  ASSUME Inv, NEW p \in Procs, UpdateRow(p), db[sn[p]].version = data[p].version
  PROVE  db[sn[p]] = data[p]
<1>1. /\ sn[p] \in Sns /\ db[sn[p]] # None /\ data[p] # None
  BY DEF UpdateRow, Inv, Shape, CallShape, OneShape
<1>2. db[sn[p]] \in committed[sn[p]] /\ data[p] \in committed[sn[p]]
  BY <1>1 DEF Inv, SnapshotsCommitted
<1> QED
  BY <1>1, <1>2 DEF Inv, VersionDeterminesRow

\* ChecksAreAtomic of one step.
ChecksStep ==
  \A s \in Sns : db[s] # None /\ db'[s] # db[s]
    => /\ db'[s].version = db[s].version + 1
       /\ <<db[s].val, db'[s].val>> \in Allowed

\* A step that changes a row replaces the row that its caller checked.
LEMMA ChecksNext == Inv /\ [Next]_vars => ChecksStep
<1> SUFFICES ASSUME Inv, [Next]_vars
             PROVE  ChecksStep
  OBVIOUS
<1>1. ASSUME NEW p \in Procs, NEW s \in Sns, NEW v \in InitVals, InsertRow(p, s, v)
      PROVE  ChecksStep
  BY <1>1 DEF InsertRow, Write, ChecksStep, Inv, Shape, TypeOK
<1>2. ASSUME NEW p \in Procs, UpdateRow(p), db[sn[p]].version = data[p].version
      PROVE  ChecksStep
  <2>1. db[sn[p]] = data[p]
    BY <1>2, MatchIsCurrent
  <2>2. <<data[p].val, want[p]>> \in Allowed /\ sn[p] \in Sns
    BY <1>2 DEF UpdateRow, Inv, Shape, CallShape, OneShape
  <2> QED
    BY <1>2, <2>1, <2>2 DEF UpdateRow, Write, ChecksStep, Inv, Shape, TypeOK
<1>3. CASE UNCHANGED <<db, committed>>
  BY <1>3 DEF ChecksStep
<1> QED
  BY <1>1, <1>2, <1>3, StoreStep DEF Inv

\* The callers' read-check-update sequences (UpdateHomestayOrderTradeState and
\* UpdateTradeState) behave as if the check were made in the UPDATE itself.
THEOREM UpdatesAreChecked == Spec => ChecksAreAtomic
<1>1. Inv /\ [Next]_vars => [ChecksStep]_vars
  BY ChecksNext
<1> QED
  BY <1>1, InvHolds, PTL DEF Spec, ChecksAreAtomic, ChecksStep

\* A step that touches only the locals of p moves only p's hand.
LEMMA LocalStep ==
  ASSUME Shape, Shape', NEW p \in Procs,
         \A r \in Procs : r # p =>
           pc'[r] = pc[r] /\ sn'[r] = sn[r] /\ data'[r] = data[r]
  PROVE  Hands' = [Hands EXCEPT ![p] = Hand(p)']
<1>1. ASSUME NEW r \in Procs, r # p
      PROVE  Hand(r)' = Hand(r)
  BY <1>1 DEF Hand
<1> QED
  BY <1>1 DEF Hands

\* If p's hand stays the same, all hands do.
LEMMA HandKept ==
  ASSUME NEW p \in Procs,
         Hands' = [Hands EXCEPT ![p] = Hand(p)'], Hand(p)' = Hand(p)
  PROVE  Hands' = Hands
BY DEF Hands

\* The variables of the uncached specification.
RowsVars == <<db, committed, Hands>>

\* Giving a row to p is a Take unless p is inside UpdateWithVersion.
LEMMA DeliverStep ==
  ASSUME Inv, Inv', NEW p \in Procs, NEW row \in committed[sn[p]],
         pc[p] \in {"getRow", "fillRow", "setSn"},
         Deliver(p, row), UNCHANGED <<db, committed>>
  PROVE  Rows!Take(p, sn[p]) \/ UNCHANGED RowsVars
<1> USE DEF Inv, Shape, TypeOK, CallShape, OneShape
<1>1. Hands' = [Hands EXCEPT ![p] = Hand(p)']
  BY LocalStep DEF Deliver, Goto
<1>2. CASE want[p] = None
  <2>1. data[p] = None /\ sn[p] \in Sns
    BY <1>2
  <2>2. Hands[p] = None
    BY <2>1 DEF Hands, Hand
  <2>3. Hand(p)' = [sn |-> sn[p], row |-> row]
    <3>1. data'[p] = row /\ pc'[p] = "held" /\ sn' = sn
      BY <1>2 DEF Deliver, Goto
    <3>2. row # None
      BY <2>1, CachedModelAssumption
    <3> QED BY <3>1, <3>2 DEF Hand
  <2> QED
    BY <1>1, <2>2, <2>3 DEF Rows!Take
<1>3. CASE want[p] # None
  <2>1. Hand(p)' = Hand(p)
    BY <1>3 DEF Deliver, Goto, Hand
  <2> QED
    BY <1>1, <2>1, HandKept DEF RowsVars
<1> QED BY <1>2, <1>3

\* Ending a call drops what p held.
LEMMA ReturnStep ==
  ASSUME Inv, Inv', NEW p \in Procs, Return(p), UNCHANGED <<db, committed>>
  PROVE  Rows!Drop(p) \/ UNCHANGED RowsVars
<1> USE DEF Inv, Shape, TypeOK, CallShape, OneShape
<1>1. Hands' = [Hands EXCEPT ![p] = Hand(p)']
  BY LocalStep DEF Return, Goto
<1>2. Hand(p)' = None
  BY DEF Return, Hand
<1>3. CASE Hand(p) = None
  BY <1>1, <1>2, <1>3, HandKept DEF RowsVars
<1>4. CASE Hand(p) # None
  BY <1>1, <1>2, <1>4 DEF Hands, Rows!Drop
<1> QED BY <1>3, <1>4

\* A step that changes neither the table nor any hand.
LEMMA QuietStep ==
  ASSUME Inv, Inv', NEW p \in Procs, UNCHANGED <<db, committed>>,
         \A r \in Procs : r # p => pc'[r] = pc[r] /\ sn'[r] = sn[r],
         data' = data,
         data[p] = None \/ (pc[p] # "delKeys" /\ pc'[p] # "delKeys" /\ sn'[p] = sn[p])
  PROVE  UNCHANGED RowsVars
<1>1. Hands' = [Hands EXCEPT ![p] = Hand(p)']
  BY LocalStep DEF Inv
<1>2. Hand(p)' = Hand(p)
  BY DEF Hand
<1> QED
  BY <1>1, <1>2, HandKept DEF RowsVars

\* The UPDATE advances the uncached row if its version matches, and otherwise
\* drops the copy.
LEMMA UpdateStep ==
  ASSUME Inv, Inv', NEW p \in Procs, UpdateRow(p)
  PROVE  Rows!Drop(p) \/ \E v \in Vals : Rows!Advance(p, v)
<1> DEFINE new == [version |-> data[p].version + 1, val |-> want[p]]
<1>1. Hands' = [Hands EXCEPT ![p] = Hand(p)']
  BY LocalStep DEF Inv, UpdateRow, Goto, Shape, TypeOK
<1>2. /\ sn[p] \in Sns /\ data[p] # None /\ want[p] \in Vals
      /\ <<data[p].val, want[p]>> \in Allowed
  BY DEF UpdateRow, Inv, Shape, TypeOK, CallShape, OneShape
<1>3. Hand(p)' = None
  BY DEF UpdateRow, Goto, Hand, Inv, Shape, TypeOK
<1>4. Hands[p] = [sn |-> sn[p], row |-> data[p]]
  BY <1>2 DEF UpdateRow, Hands, Hand
<1>5. Hands[p] # None
  <2>1. Hands[p] \in [sn : Sns, row : Row]
    BY <1>2, <1>4 DEF Inv, Shape, TypeOK
  <2> QED
    BY <2>1, CachedModelAssumption
<1>6. CASE db[sn[p]].version = data[p].version
  <2>1. db[sn[p]] = data[p]
    BY <1>6, MatchIsCurrent
  <2>2. Rows!Write(sn[p], new)
    BY <1>6 DEF UpdateRow, Write, Rows!Write
  <2>3. Rows!Advance(p, want[p])
    BY <1>1, <1>2, <1>3, <1>4, <1>5, <2>1, <2>2 DEF Rows!Advance
  <2> QED BY <1>2, <2>3
<1>7. CASE db[sn[p]].version # data[p].version
  <2>1. UNCHANGED <<db, committed>>
    BY <1>7 DEF UpdateRow
  <2> QED
    BY <1>1, <1>3, <1>5, <2>1 DEF Rows!Drop
<1> QED BY <1>6, <1>7

\* The INSERT creates the uncached row.
LEMMA InsertStep ==
  ASSUME Inv, Inv', NEW p \in Procs, NEW s \in Sns, NEW v \in InitVals,
         InsertRow(p, s, v)
  PROVE  Rows!Create(s, v)
<1>1. Hands' = [Hands EXCEPT ![p] = Hand(p)']
  BY LocalStep DEF Inv, InsertRow, Goto, Shape, TypeOK
<1>2. Hand(p) = None /\ Hand(p)' = None
  BY DEF InsertRow, Hand, Inv, Shape, CallShape, OneShape
<1>3. Hands' = Hands
  BY <1>1, <1>2, HandKept
<1> QED
  BY <1>3 DEF InsertRow, Write, Rows!Create, Rows!Write

\* Every step of the cached model is a step of the uncached one or a stutter.
LEMMA RowsNext ==
  ASSUME Inv, Inv', [Next]_vars
  PROVE  Rows!Next \/ UNCHANGED RowsVars
<1> USE DEF Inv, Shape, TypeOK, CallShape, OneShape
<1>1. ASSUME NEW p \in Procs, CallStep(p)
      PROVE  Rows!Next \/ UNCHANGED RowsVars
  <2>1. CASE DelNew(p) \/ DelKeys(p) \/ DelLater(p)
    BY <2>1, ReturnStep DEF DelNew, DelKeys, DelLater, Rows!Next
  <2>2. CASE SelectSn(p)
    BY <2>2, QuietStep DEF SelectSn, Goto
  <2>3. CASE MarkAbsent(p)
    BY <2>3, QuietStep DEF MarkAbsent, Goto
  <2>4. CASE SetRow(p)
    BY <2>4, QuietStep DEF SetRow, Goto
  <2>5. CASE SelectRow(p)
    BY <2>5, QuietStep DEF SelectRow, Goto
  <2>6. CASE SetSn(p)
    <3>1. read[p] \in committed[sn[p]] /\ sn[p] \in Sns
      BY <2>6 DEF SetSn, SnapshotsCommitted
    <3> QED
      BY <3>1, <2>6, DeliverStep DEF SetSn, Rows!Next
  <2>7. CASE FillRow(p)
    <3>1. read[p] \in committed[sn[p]] /\ sn[p] \in Sns
      BY <2>7 DEF FillRow, SnapshotsCommitted
    <3> QED
      BY <3>1, <2>7, DeliverStep DEF FillRow, Rows!Next
  <2>8. CASE GetRow(p) /\ idKey[sn[p]] # None
    <3>1. idKey[sn[p]] \in committed[sn[p]] /\ sn[p] \in Sns
      BY <2>8 DEF GetRow, SnapshotsCommitted
    <3> QED
      BY <3>1, <2>8, DeliverStep DEF GetRow, Rows!Next
  <2>9. CASE GetRow(p) /\ idKey[sn[p]] = None
    BY <2>9, QuietStep DEF GetRow, Goto
  <2>10. CASE UpdateRow(p)
    BY <2>10, UpdateStep DEF Rows!Next
  <2> QED
    BY <1>1, <2>1, <2>2, <2>3, <2>4, <2>5, <2>6, <2>7, <2>8, <2>9, <2>10 DEF CallStep
<1>2. ASSUME NEW s \in Sns, CacheStep(s)
      PROVE  UNCHANGED RowsVars
  BY <1>2 DEF CacheStep, CleanKeys, ExpireRow, ExpireSn, procVars, RowsVars, Hands, Hand
<1>3. ASSUME NEW p \in Procs, Release(p) \/ Abandon(p)
      PROVE  Rows!Next \/ UNCHANGED RowsVars
  BY <1>3, ReturnStep DEF Release, Abandon, Rows!Next
<1>4. ASSUME NEW p \in Procs, NEW q \in Procs, ShareSn(p, q)
      PROVE  UNCHANGED RowsVars
  BY <1>4, QuietStep DEF ShareSn, Goto
<1>5. ASSUME NEW p \in Procs, NEW q \in Procs, ShareRow(p, q)
      PROVE  Rows!Next \/ UNCHANGED RowsVars
  <2>1. read[q] \in committed[sn[p]] /\ sn[p] \in Sns
    BY <1>5 DEF ShareRow, SnapshotsCommitted
  <2> QED
    BY <2>1, <1>5, DeliverStep DEF ShareRow, Rows!Next
<1>6. ASSUME NEW p \in Procs, NEW s \in Sns, GetSn(p, s)
      PROVE  UNCHANGED RowsVars
  BY <1>6, QuietStep DEF GetSn, Goto
<1>7. ASSUME NEW p \in Procs, NEW v \in Vals, BeginUpdate(p, v)
      PROVE  UNCHANGED RowsVars
  BY <1>7, QuietStep DEF BeginUpdate, Goto
<1>8. ASSUME NEW p \in Procs, NEW s \in Sns, NEW v \in InitVals, InsertRow(p, s, v)
      PROVE  Rows!Next
  BY <1>8, InsertStep DEF Rows!Next
<1>9. CASE UNCHANGED vars
  BY <1>9 DEF vars, procVars, RowsVars, Hands, Hand
<1> QED
  BY <1>1, <1>2, <1>3, <1>4, <1>5, <1>6, <1>7, <1>8, <1>9 DEF Next

\* The model with its stale Redis cache, failing deletions and crashes implements
\* the table of versioned rows that has no cache.
THEOREM CacheIsTransparent == Spec => RowsSpec
<1>1. Init => Rows!Init
  BY DEF Init, Rows!Init, Hands, Hand
<1>2. Inv /\ Inv' /\ [Next]_vars => [Rows!Next]_Rows!vars
  BY RowsNext DEF RowsVars, Rows!vars
<1> QED
  BY <1>1, <1>2, InvHolds, PTL DEF Spec, RowsSpec, Rows!Spec

=============================================================================
