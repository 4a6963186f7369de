-------------------------- MODULE PaymentServiceProofs -------------------------
(***************************************************************************)
(* Theorems about PaymentService, for any number of payments, of pre-pay   *)
(* calls and notification handlers, and of faults.  Every step of the      *)
(* service is one of its model or none (StepOfModel), so that what is      *)
(* proved there of stale copies and versions holds here; on it rest the    *)
(* promises of the service itself.                                         *)
(***************************************************************************)
EXTENDS PaymentService, TLAPS

P == INSTANCE CachedModelProofs
       WITH Sns <- Payments, Vals <- Columns, InitVals <- {Fresh},
            Allowed <- ColumnChanges

Success == [status |-> PaySuccess, trade |-> "SUCCESS"]

Paid == {"SUCCESS", "REFUND"}

Types ==
  /\ job \in [Procs -> Jobs \union {None}]
  /\ notices \subseteq Payments \X WxTradeStates
  /\ published \in [Payments -> Nat]
  /\ wx \in [Payments -> WxTradeStates \union {"none", "prepaid"}]

\* A handler in a call of the model works on the payment it is about, and only
\* a success is written.
JobShape(p) ==
  /\ job[p] = None => pc[p] = "idle"
  /\ job[p] # None =>
       /\ job[p].kind \in {"prepay", "call", "publish"} <=> pc[p] = "idle"
       /\ pc[p] # "idle" => sn[p] = job[p].sn
       /\ job[p].kind \in {"call", "update", "publish"} => job[p].trade = "SUCCESS"
       /\ job[p].trade = "SUCCESS" => wx[job[p].sn] \in Paid
       /\ want[p] # None => job[p].kind = "update" /\ want[p] = Success

\* A payment is registered with WeChat once, by the call that has created it.
Creating(p, s) ==
  job[p] # None /\ job[p].sn = s /\ job[p].kind \in {"create", "prepay"}

CreateInv(s) ==
  /\ db[s] = None => wx[s] = "none"
  /\ \A p \in Procs : Creating(p, s) => wx[s] = "none" /\ db[s] # None
  /\ \A p, q \in Procs : Creating(p, s) /\ Creating(q, s) => p = q

Recorded(s) == db[s] # None /\ db[s].val.status = PaySuccess

\* Success is for good, and the right to publish it is used up.
StoreInv(s) ==
  /\ \A r \in committed[s] : r.val.status \in {PayWait, PaySuccess}
  /\ (\E r \in committed[s] : r.val.status = PaySuccess) => Recorded(s)
  /\ \A p \in Procs : Winner(p, s) => Recorded(s) /\ published[s] = 0
  /\ \A p, q \in Procs : Winner(p, s) /\ Winner(q, s) => p = q
  /\ published[s] \in {0, 1} /\ (published[s] = 1 => Recorded(s))

\* WeChat keeps notifying a success until it is recorded.
NoticeInv(s) ==
  /\ published[s] = 1 => wx[s] \in Paid
  /\ <<s, "SUCCESS">> \in notices => wx[s] \in Paid
  /\ wx[s] \in Paid /\ <<s, "SUCCESS">> \notin notices => Recorded(s)

ServiceInv ==
  /\ Types
  /\ \A p \in Procs : JobShape(p)
  /\ \A s \in Payments : CreateInv(s) /\ StoreInv(s) /\ NoticeInv(s)

-----------------------------------------------------------------------------
(* The service and its model                                               *)

LEMMA ModelAssumption == P!CachedModelAssumption
<1>1. {Fresh} \subseteq Columns
  BY DEF Columns, Fresh, PayStates
<1>2. P!Row = Model!Row
  BY DEF P!Row, Model!Row
<1>3. QED BY <1>1, <1>2, PaymentServiceAssumption

\* Every step of the service is a step of its model, or none of it.
LEMMA StepOfModel == Types /\ [Next]_vars => [Model!Next]_(Model!vars)
<1> SUFFICES ASSUME Types, [Next]_vars PROVE Model!Next \/ UNCHANGED modelVars
  BY DEF modelVars, Model!vars, Model!cacheVars, Model!procVars
<1>1. ASSUME NEW u \in Payers, NEW s \in Payments, CreatePayment(u, s)
      PROVE  Model!Next
  BY <1>1 DEF CreatePayment, Model!Next, Procs
<1>2. ASSUME NEW u \in Payers, CreateReturn(u)
      PROVE  Model!Next
  BY <1>2 DEF CreateReturn, Model!Next, Model!CallStep, Procs
<1>3. ASSUME NEW u \in Payers, Prepay(u)
      PROVE  UNCHANGED modelVars
  BY <1>3 DEF Prepay
<1>4. ASSUME NEW s \in Payments, NEW st \in WxTradeStates, Settle(s, st)
      PROVE  UNCHANGED modelVars
  BY <1>4 DEF Settle
<1>5. ASSUME NEW c \in Procs, NEW s \in Payments, Lookup(c, s)
      PROVE  Model!Next
  BY <1>5 DEF Lookup, Model!Next
<1>6. ASSUME NEW c \in Callbacks, NEW s \in Payments, NEW st \in WxTradeStates,
             Notified(c, s, st)
      PROVE  Model!Next
  BY <1>5, <1>6 DEF Notified, Procs
<1>7. ASSUME NEW c \in Callbacks, Verify(c) \/ UpdateReturnEarly(c)
      PROVE  Model!Next
  BY <1>7 DEF Verify, UpdateReturnEarly, Model!Next, Procs
<1>8. ASSUME NEW c \in Callbacks, CallUpdate(c)
      PROVE  Model!Next
  BY <1>5, <1>8 DEF CallUpdate, Runs, Types, Jobs, Procs
<1>9. ASSUME NEW c \in Callbacks, UpdateBegin(c)
      PROVE  Model!Next
  <2>1. PICK v : Model!BeginUpdate(c, v)
    BY <1>9 DEF UpdateBegin
  <2>2. v \in Columns
    BY <2>1 DEF Model!BeginUpdate, ColumnChanges
  <2>3. QED BY <2>1, <2>2 DEF Model!Next, Procs
<1>10. ASSUME NEW c \in Callbacks, UpdateEnd(c)
       PROVE  Model!Next
  BY <1>10 DEF UpdateEnd, Model!Next, Model!CallStep, Procs
<1>11. ASSUME NEW c \in Callbacks, Push(c)
       PROVE  UNCHANGED modelVars
  BY <1>11 DEF Push
<1>12. ASSUME NEW c \in Callbacks, Step(c)
       PROVE  Model!Next
  BY <1>12 DEF Step, Model!Next, Model!CallStep, Procs
<1>13. ASSUME NEW p \in Procs, FailCall(p)
       PROVE  Model!Next \/ UNCHANGED modelVars
  BY <1>13 DEF FailCall, Model!Next
<1>14. CASE Cache
  BY <1>14 DEF Cache, Model!Next
<1>15. CASE UNCHANGED vars
  BY <1>15 DEF vars
<1>16. QED
  BY <1>1, <1>2, <1>3, <1>4, <1>6, <1>7, <1>8, <1>9, <1>10, <1>11, <1>12, <1>13,
     <1>14, <1>15 DEF Next, CallbackNext

LEMMA SameNext == [Model!Next]_(Model!vars) => [P!Next]_(P!vars)
BY DEF Model!Next, Model!vars, Model!procVars, Model!cacheVars, Model!CallStep,
       Model!CacheStep, Model!InsertRow, Model!Write, Model!Goto, Model!GetSn,
       Model!ShareSn, Model!ShareRow, Model!BeginUpdate, Model!Release,
       Model!Abandon, Model!Return, Model!Deliver, Model!DelNew, Model!SelectSn,
       Model!MarkAbsent, Model!SetRow, Model!SetSn, Model!GetRow, Model!SelectRow,
       Model!FillRow, Model!UpdateRow, Model!DelKeys, Model!DelLater,
       Model!CleanKeys, Model!ExpireRow, Model!ExpireSn,
       P!Next, P!vars, P!procVars, P!cacheVars, P!CallStep,
       P!CacheStep, P!InsertRow, P!Write, P!Goto, P!GetSn,
       P!ShareSn, P!ShareRow, P!BeginUpdate, P!Release,
       P!Abandon, P!Return, P!Deliver, P!DelNew, P!SelectSn,
       P!MarkAbsent, P!SetRow, P!SetSn, P!GetRow, P!SelectRow,
       P!FillRow, P!UpdateRow, P!DelKeys, P!DelLater,
       P!CleanKeys, P!ExpireRow, P!ExpireSn

LEMMA TypesInit == Init => Types
BY DEF Init, Types

LEMMA JobIsTyped ==
  ASSUME Types, NEW p \in Procs, NEW k, Runs(p, k)
  PROVE  /\ job[p] \in Jobs /\ job[p].sn \in Payments /\ job[p].kind = k
         /\ job[p].trade \in WxTradeStates \union {""}
<1>1. job[p] \in Jobs /\ job[p].kind = k
  BY DEF Types, Runs
<1>2. QED BY <1>1 DEF Jobs

\* What a handler becomes.
LEMMA JobBecomes ==
  ASSUME Types, NEW p \in Procs, NEW j \in Jobs \union {None}, SetJob(p, j)
  PROVE  job' \in [Procs -> Jobs \union {None}]
BY DEF Types, SetJob

LEMMA KindBecomes ==
  ASSUME NEW j \in Jobs,
         NEW k \in {"create", "prepay", "check", "call", "update", "publish"}
  PROVE  [j EXCEPT !.kind = k] \in Jobs
BY DEF Jobs

LEMMA AnswerIsTyped ==
  ASSUME Types, NEW p \in Procs, NEW ok \in BOOLEAN, Answer(p, ok)
  PROVE  job' \in [Procs -> Jobs \union {None}] /\ notices' \subseteq notices
<1>1. job' \in [Procs -> Jobs \union {None}]
  BY JobBecomes DEF Answer
<1>2. notices' \subseteq notices
  BY DEF Answer
<1>3. QED BY <1>1, <1>2

LEMMA TypesNext == Types /\ [Next]_vars => Types'
<1> SUFFICES ASSUME Types, [Next]_vars PROVE Types'
  OBVIOUS
<1>1. ASSUME NEW u \in Payers, NEW s \in Payments, CreatePayment(u, s)
      PROVE  Types'
  <2>1. Job("create", s, "") \in Jobs
    BY DEF Job, Jobs
  <2>2. QED BY <1>1, <2>1, JobBecomes DEF CreatePayment, Types, Procs
<1>2. ASSUME NEW u \in Payers, CreateReturn(u)
      PROVE  Types'
  <2>1. [job[u] EXCEPT !.kind = "prepay"] \in Jobs
    BY <1>2, JobIsTyped, KindBecomes DEF CreateReturn, Procs
  <2>2. QED BY <1>2, <2>1, JobBecomes DEF CreateReturn, Types, Procs
<1>3. ASSUME NEW u \in Payers, Prepay(u)
      PROVE  Types'
  BY <1>3, JobBecomes DEF Prepay, Types, Procs
<1>4. ASSUME NEW s \in Payments, NEW st \in WxTradeStates, Settle(s, st)
      PROVE  Types'
  BY <1>4 DEF Settle, Types
<1>5. ASSUME NEW c \in Callbacks, NEW s \in Payments, NEW st \in WxTradeStates,
             Notified(c, s, st)
      PROVE  Types'
  <2>1. Job("check", s, st) \in Jobs
    BY DEF Job, Jobs
  <2>2. QED BY <1>5, <2>1, JobBecomes DEF Notified, Types, Procs
<1>6. ASSUME NEW c \in Callbacks, NEW ok \in BOOLEAN, Answer(c, ok),
             published' \in [Payments -> Nat], wx' = wx
      PROVE  Types'
  BY <1>6, AnswerIsTyped DEF Types, Procs
<1>7. ASSUME NEW c \in Callbacks, Verify(c)
      PROVE  Types'
  <2>1. CASE Answer(c, TRUE) \/ Answer(c, FALSE)
    BY <1>6, <1>7, <2>1 DEF Verify, Types
  <2>2. CASE SetJob(c, [job[c] EXCEPT !.kind = "call"]) /\ UNCHANGED notices
    <3>1. [job[c] EXCEPT !.kind = "call"] \in Jobs
      BY <1>7, JobIsTyped, KindBecomes DEF Verify, Procs
    <3>2. QED BY <1>7, <2>2, <3>1, JobBecomes DEF Verify, Types, Procs
  <2>3. QED BY <1>7, <2>1, <2>2 DEF Verify
<1>8. ASSUME NEW c \in Callbacks, CallUpdate(c)
      PROVE  Types'
  <2>1. [job[c] EXCEPT !.kind = "update"] \in Jobs
    BY <1>8, JobIsTyped, KindBecomes DEF CallUpdate, Procs
  <2>2. QED BY <1>8, <2>1, JobBecomes DEF CallUpdate, Types, Procs
<1>9. ASSUME NEW c \in Callbacks, UpdateReturnEarly(c)
      PROVE  Types'
  BY <1>6, <1>9 DEF UpdateReturnEarly, Types
<1>10. ASSUME NEW c \in Callbacks, UpdateBegin(c) \/ Step(c)
       PROVE  Types'
  BY <1>10 DEF UpdateBegin, Step, Types
<1>11. ASSUME NEW c \in Callbacks, UpdateEnd(c)
       PROVE  Types'
  <2>1. CASE won[c]
    <3>1. [job[c] EXCEPT !.kind = "publish"] \in Jobs
      BY <1>11, JobIsTyped, KindBecomes DEF UpdateEnd, Procs
    <3>2. QED BY <1>11, <2>1, <3>1, JobBecomes DEF UpdateEnd, Types, Procs
  <2>2. CASE ~won[c]
    BY <1>6, <1>11, <2>2 DEF UpdateEnd, Types
  <2>3. QED BY <2>1, <2>2
<1>12. ASSUME NEW c \in Callbacks, Push(c)
       PROVE  Types'
  <2>1. published' \in [Payments -> Nat]
    <3>1. job[c].sn \in Payments
      BY <1>12, JobIsTyped DEF Push, Procs
    <3>2. published[job[c].sn] + 1 \in Nat
      BY <3>1 DEF Types
    <3>3. QED BY <1>12, <3>2 DEF Push, Types
  <2>2. QED BY <1>6, <1>12, <2>1 DEF Push
<1>13. ASSUME NEW p \in Procs, FailCall(p)
       PROVE  Types'
  BY <1>13, JobBecomes DEF FailCall, Types
<1>14. CASE Cache \/ UNCHANGED vars
  BY <1>14 DEF Cache, vars, Types
<1>15. QED
  BY <1>1, <1>2, <1>3, <1>4, <1>5, <1>7, <1>8, <1>9, <1>10, <1>11, <1>12, <1>13,
     <1>14 DEF Next, CallbackNext

LEMMA TypesHold == Spec => []Types
BY TypesInit, TypesNext, PTL DEF Spec

\* So what is proved of the model holds of the service.
LEMMA ModelInv == Spec => []P!Inv
<1>1. Init => P!Init
  BY DEF Init, Model!Init, P!Init
<1>2. Types /\ [Next]_vars => [P!Next]_(P!vars)
  BY StepOfModel, SameNext
<1>3. P!Spec => []P!Inv
  BY ModelAssumption, P!InvHolds, PTL
<1>4. Spec => P!Spec
  BY <1>1, <1>2, TypesHold, PTL DEF Spec, P!Spec
<1>5. QED BY <1>3, <1>4, PTL

-----------------------------------------------------------------------------
(* What the calls of the model leave alone                                 *)

\* The call of q does not move.
Same(q) ==
  /\ job'[q] = job[q]
  /\ pc'[q] = pc[q] /\ sn'[q] = sn[q] /\ want'[q] = want[q] /\ won'[q] = won[q]

Others(p) == \A q \in Procs : q # p => Same(q)

LEMMA SetJobIs ==
  ASSUME Types, NEW p \in Procs, NEW j, SetJob(p, j)
  PROVE  job'[p] = j /\ \A q \in Procs : q # p => job'[q] = job[q]
BY DEF Types, SetJob

\* A call of the model ends.
LEMMA ReturnIs ==
  ASSUME P!TypeOK, NEW p \in Procs, Model!Return(p),
         \A q \in Procs : q # p => job'[q] = job[q]
  PROVE  /\ pc'[p] = "idle" /\ want'[p] = None /\ won'[p] = FALSE
         /\ Others(p)
BY DEF P!TypeOK, Model!Return, Model!Goto, Others, Same

\* A lookup begins.
LEMMA LookupIs ==
  ASSUME P!TypeOK, NEW p \in Procs, NEW s \in Payments, Lookup(p, s),
         \A q \in Procs : q # p => job'[q] = job[q]
  PROVE  /\ pc[p] = "idle" /\ pc'[p] # "idle" /\ sn'[p] = s
         /\ want' = want /\ won' = won
         /\ Others(p) /\ UNCHANGED <<db, committed>>
<1>1. CASE Model!GetSn(p, s)
  BY <1>1 DEF P!TypeOK, Model!GetSn, Model!Goto, Others, Same
<1>2. ASSUME NEW q \in Procs, Model!ShareSn(p, q), sn'[p] = s
      PROVE  /\ pc[p] = "idle" /\ pc'[p] # "idle" /\ sn'[p] = s
             /\ want' = want /\ won' = won
             /\ Others(p) /\ UNCHANGED <<db, committed>>
  BY <1>2 DEF P!TypeOK, Model!ShareSn, Model!Goto, Others, Same
<1>3. QED BY <1>1, <1>2 DEF Lookup

\* An UPDATE of p whose version matches.
Wins(p) == Model!UpdateRow(p) /\ db[sn[p]].version = data[p].version

\* A call goes on.
LEMMA StepIs ==
  ASSUME P!TypeOK, NEW p \in Procs, Step(p)
  PROVE  /\ pc[p] # "idle" /\ pc'[p] # "idle"
         /\ sn' = sn /\ want' = want /\ Others(p)
         /\ Wins(p) \/ (won' = won /\ UNCHANGED <<db, committed>>)
<1>1. UNCHANGED job
  BY DEF Step
<1>2. CASE Model!UpdateRow(p)
  BY <1>1, <1>2 DEF P!TypeOK, Model!UpdateRow, Model!Goto, Others, Same, Wins
<1>3. CASE Model!SelectSn(p) \/ Model!SetRow(p) \/ Model!SelectRow(p)
  BY <1>1, <1>3 DEF P!TypeOK, Model!SelectSn, Model!SetRow, Model!SelectRow,
                    Model!Goto, Others, Same
<1>4. ASSUME NEW row, Model!Deliver(p, row)
      PROVE  /\ pc'[p] # "idle" /\ sn' = sn /\ want' = want /\ won' = won
             /\ \A q \in Procs : q # p => pc'[q] = pc[q]
  BY <1>4 DEF P!TypeOK, Model!Deliver, Model!Goto
<1>5. CASE Model!SetSn(p) \/ Model!FillRow(p) \/ Model!GetRow(p)
  <2>1. CASE Model!SetSn(p) \/ Model!FillRow(p)
    BY <1>1, <1>4, <2>1 DEF Model!SetSn, Model!FillRow, Others, Same
  <2>2. CASE Model!GetRow(p)
    <3>1. CASE idKey[sn[p]] = None
      BY <1>1, <2>2, <3>1 DEF P!TypeOK, Model!GetRow, Model!Goto, Others, Same
    <3>2. CASE idKey[sn[p]] # None
      BY <1>1, <1>4, <2>2, <3>2 DEF Model!GetRow, Others, Same
    <3>3. QED BY <3>1, <3>2
  <2>3. QED BY <1>5, <2>1, <2>2
<1>6. ASSUME NEW q \in Procs, Model!ShareRow(p, q)
      PROVE  /\ pc[p] # "idle" /\ pc'[p] # "idle"
             /\ sn' = sn /\ want' = want /\ Others(p)
             /\ won' = won /\ UNCHANGED <<db, committed>>
  BY <1>1, <1>4, <1>6 DEF Model!ShareRow, Others, Same
<1>7. QED BY <1>2, <1>3, <1>5, <1>6 DEF Step

-----------------------------------------------------------------------------
(* The invariant of the service                                            *)

LEMMA StatesApart ==
  /\ PaySuccess # PayWait
  /\ Update("SUCCESS") = Success
  /\ \A t \in WxTradeStates \union {""} :
       getPayStatusByWXPayTradeState(t) = PaySuccess => t = "SUCCESS"
BY DEF PaySuccess, PayWait, PayFAIL, Update, Success, WxTradeStates,
       getPayStatusByWXPayTradeState

\* A handler goes on to its next kind of work.
LEMMA NextKind ==
  ASSUME Types, NEW p \in Procs, NEW k, Runs(p, k),
         NEW l \in {"create", "prepay", "check", "call", "update", "publish"},
         SetJob(p, [job[p] EXCEPT !.kind = l])
  PROVE  /\ job'[p] # None /\ job'[p].kind = l
         /\ job'[p].sn = job[p].sn /\ job'[p].trade = job[p].trade
         /\ \A q \in Procs : q # p => job'[q] = job[q]
<1>1. job[p] \in Jobs
  BY JobIsTyped
<1>2. [job[p] EXCEPT !.kind = l] \in Jobs
  BY <1>1, KindBecomes
<1>3. job'[p] = [job[p] EXCEPT !.kind = l]
  BY SetJobIs
<1>4. job'[p].kind = l /\ job'[p].sn = job[p].sn /\ job'[p].trade = job[p].trade
  BY <1>1, <1>3 DEF Jobs
<1>5. QED BY <1>2, <1>3, <1>4, SetJobIs, PaymentServiceAssumption

\* A row a handler holds is one the table had; unless it waits, the payment is
\* recorded.
LEMMA HeldIsWaitingOrRecorded ==
  ASSUME P!Inv, ServiceInv, NEW p \in Procs, job[p] # None, data[p] # None
  PROVE  data[p].val.status = PayWait \/ Recorded(job[p].sn)
<1>1. pc[p] # "idle" /\ sn[p] \in Payments /\ data[p] \in committed[sn[p]]
  BY DEF P!Inv, P!Shape, P!CallShape, P!OneShape, P!SnapshotsCommitted
<1>2. sn[p] = job[p].sn
  BY <1>1 DEF ServiceInv, JobShape
<1>3. QED BY <1>1, <1>2 DEF ServiceInv, StoreInv

\* A step of the life of one payment, or of none.
Lives == Life!Next \/ UNCHANGED Life!vars

\* What is shown of every step.
Advances == ServiceInv' /\ Lives

\* A handler that writes and publishes nothing: should it give up the right to
\* publish a payment, that payment is not published.
LEMMA HandlerLives ==
  ASSUME NEW p \in Procs, Others(p), UNCHANGED <<db, published>>,
         \A s \in Payments : Winner(p, s)' => Winner(p, s)
  PROVE  Lives
<1>1. PaymentState' = PaymentState
  BY DEF PaymentState
<1>2. \A q \in Procs, s \in Payments : q # p => Winner(q, s)' = Winner(q, s)
  BY DEF Winner, Others, Same
<1>3. Owed' \subseteq Owed
  BY <1>2 DEF Owed
<1>4. CASE Owed' = Owed
  BY <1>1, <1>4 DEF Lives, Life!vars
<1>5. CASE Owed' # Owed
  <2>1. PICK s \in Owed : s \notin Owed'
    BY <1>3, <1>5
  <2>2. s \in Payments /\ Winner(p, s)
    BY <1>2, <2>1 DEF Owed
  <2>3. \A t \in Payments : t # s => ~Winner(p, t)
    BY <2>2 DEF Winner
  <2>4. Owed' = Owed \ {s}
    BY <1>2, <1>3, <2>1, <2>3 DEF Owed
  <2>5. Life!Fail(s)
    BY <1>1, <2>1, <2>4 DEF Life!Fail
  <2>6. QED BY <2>2, <2>5 DEF Lives, Life!Next
<1>6. QED BY <1>4, <1>5

\* A step that changes neither a row nor a right nor what is published.
LEMMA IdleLives ==
  ASSUME UNCHANGED <<db, published>>,
         \A q \in Procs, s \in Payments : Winner(q, s)' = Winner(q, s)
  PROVE  Lives
<1>1. PaymentState' = PaymentState
  BY DEF PaymentState
<1>2. Owed' = Owed
  BY DEF Owed
<1>3. QED BY <1>1, <1>2 DEF Lives, Life!vars

\* A handler that neither writes nor publishes.
LEMMA QuietStep ==
  ASSUME ServiceInv, Types', NEW p \in Procs, Others(p), JobShape(p)',
         UNCHANGED <<db, committed, published, wx>>,
         \A s \in Payments : Creating(p, s)' => Creating(p, s),
         \A s \in Payments : Winner(p, s)' => Winner(p, s),
         notices' \subseteq notices,
         \A s \in Payments :
           <<s, "SUCCESS">> \in notices \ notices' => Recorded(s)
  PROVE  Advances
<1>1. ASSUME NEW q \in Procs
      PROVE  JobShape(q)'
  BY <1>1 DEF ServiceInv, JobShape, Others, Same
<1>2. \A q \in Procs, s \in Payments :
        /\ Creating(q, s)' => Creating(q, s)
        /\ Winner(q, s)' => Winner(q, s)
  BY DEF Creating, Winner, Others, Same
<1>3. ASSUME NEW s \in Payments
      PROVE  CreateInv(s)'
  BY <1>2 DEF ServiceInv, CreateInv
<1>4. ASSUME NEW s \in Payments
      PROVE  StoreInv(s)'
  BY <1>2 DEF ServiceInv, StoreInv, Recorded
<1>5. ASSUME NEW s \in Payments
      PROVE  NoticeInv(s)'
  BY DEF ServiceInv, NoticeInv, Recorded
<1>6. ServiceInv'
  BY <1>1, <1>3, <1>4, <1>5 DEF ServiceInv
<1>7. Lives
  BY HandlerLives
<1>8. QED BY <1>6, <1>7 DEF Advances

LEMMA CreateReturnKeeps ==
  ASSUME P!Inv, ServiceInv, Types', NEW u \in Payers, CreateReturn(u)
  PROVE  Advances
<1>1. u \in Procs /\ Types /\ P!TypeOK /\ Runs(u, "create")
  BY DEF Procs, ServiceInv, P!Inv, P!Shape, CreateReturn
<1>2. /\ job'[u] # None /\ job'[u].kind = "prepay"
      /\ job'[u].sn = job[u].sn /\ job'[u].trade = job[u].trade
      /\ \A q \in Procs : q # u => job'[q] = job[q]
  BY <1>1, NextKind DEF CreateReturn
<1>3. /\ pc'[u] = "idle" /\ want'[u] = None /\ won'[u] = FALSE /\ Others(u)
      /\ UNCHANGED <<db, committed>>
  BY <1>1, <1>2, ReturnIs DEF CreateReturn, Model!DelNew, Model!DelLater
<1>4. JobShape(u)'
  BY <1>1, <1>2, <1>3 DEF ServiceInv, JobShape, CreateReturn, Runs
<1>5. \A s \in Payments :
        (Creating(u, s)' => Creating(u, s)) /\ (Winner(u, s)' => Winner(u, s))
  BY <1>1, <1>2 DEF Creating, Winner, Runs
<1>6. QED BY <1>1, <1>3, <1>4, <1>5, QuietStep DEF CreateReturn

LEMMA NotifiedKeeps ==
  ASSUME P!Inv, ServiceInv, Types', NEW c \in Callbacks, NEW s \in Payments,
         NEW st \in WxTradeStates, Notified(c, s, st)
  PROVE  Advances
<1>1. c \in Procs /\ Types /\ P!TypeOK
  BY DEF Procs, ServiceInv, P!Inv, P!Shape
<1>2. Job("check", s, st) \in Jobs
  BY DEF Job, Jobs
<1>3. /\ job'[c] = Job("check", s, st)
      /\ \A q \in Procs : q # c => job'[q] = job[q]
  BY <1>1, SetJobIs DEF Notified
<1>4. /\ job'[c] # None /\ job'[c].kind = "check" /\ job'[c].sn = s
      /\ job'[c].trade = st
  BY <1>2, <1>3, PaymentServiceAssumption DEF Job
<1>5. /\ pc[c] = "idle" /\ pc'[c] # "idle" /\ sn'[c] = s
      /\ want' = want /\ won' = won
      /\ Others(c) /\ UNCHANGED <<db, committed>>
  BY <1>1, <1>3, LookupIs DEF Notified
<1>6. want[c] = None
  BY <1>1, <1>5 DEF P!Inv, P!Shape, P!CallShape, P!OneShape
<1>7. st = "SUCCESS" => wx'[s] \in Paid
  BY DEF Notified, ServiceInv, NoticeInv
<1>8. JobShape(c)'
  BY <1>4, <1>5, <1>6, <1>7 DEF JobShape
<1>9. \A t \in Payments : ~Creating(c, t)' /\ ~Winner(c, t)'
  BY <1>4 DEF Creating, Winner
<1>10. QED BY <1>1, <1>5, <1>8, <1>9, QuietStep DEF Notified

\* A handler answers its notification; with 200 only when its payment is
\* recorded, or when it was not notified of a success.
LEMMA AnswerKeeps ==
  ASSUME P!Inv, ServiceInv, Types', NEW c \in Callbacks, NEW ok \in BOOLEAN,
         job[c] # None, Answer(c, ok), Model!Return(c),
         ok /\ job[c].trade = "SUCCESS" => Recorded(job[c].sn),
         UNCHANGED <<db, committed, published, wx>>
  PROVE  Advances
<1>1. c \in Procs /\ Types /\ P!TypeOK
  BY DEF Procs, ServiceInv, P!Inv, P!Shape
<1>2. job'[c] = None /\ \A q \in Procs : q # c => job'[q] = job[q]
  BY <1>1, SetJobIs DEF Answer
<1>3. pc'[c] = "idle" /\ Others(c)
  BY <1>1, <1>2, ReturnIs
<1>4. JobShape(c)'
  BY <1>2, <1>3 DEF JobShape
<1>5. \A s \in Payments : ~Creating(c, s)' /\ ~Winner(c, s)'
  BY <1>2 DEF Creating, Winner
<1>6. /\ notices' \subseteq notices
      /\ \A s \in Payments :
           <<s, "SUCCESS">> \in notices \ notices' => Recorded(s)
  BY DEF Answer
<1>7. QED BY <1>1, <1>3, <1>4, <1>5, <1>6, QuietStep

LEMMA VerifyKeeps ==
  ASSUME P!Inv, ServiceInv, Types', NEW c \in Callbacks, Verify(c)
  PROVE  Advances
<1>1. /\ c \in Procs /\ Types /\ P!TypeOK /\ Runs(c, "check")
      /\ job[c] # None /\ pc[c] = "held"
      /\ Model!Return(c) /\ UNCHANGED <<db, committed, published, wx>>
  BY DEF Procs, ServiceInv, P!Inv, P!Shape, Verify, Runs, Model!Release
<1>2. data[c] # None
  BY <1>1 DEF P!Inv, P!Shape, P!CallShape, P!OneShape
<1>3. job[c].trade \in WxTradeStates \union {""}
  BY <1>1, JobIsTyped
<1>4. CASE Answer(c, FALSE)
  BY <1>1, <1>4, AnswerKeeps
<1>5. CASE /\ Answer(c, TRUE)
           /\ \/ getPayStatusByWXPayTradeState(job[c].trade) # PaySuccess
              \/ data[c].val.status # PayWait
  <2>1. job[c].trade = "SUCCESS" => data[c].val.status # PayWait
    BY <1>5 DEF getPayStatusByWXPayTradeState
  <2>2. job[c].trade = "SUCCESS" => Recorded(job[c].sn)
    BY <1>1, <1>2, <2>1, HeldIsWaitingOrRecorded
  <2>3. QED BY <1>1, <1>5, <2>2, AnswerKeeps
<1>6. CASE /\ getPayStatusByWXPayTradeState(job[c].trade) = PaySuccess
           /\ SetJob(c, [job[c] EXCEPT !.kind = "call"])
           /\ UNCHANGED notices
  <2>1. /\ job'[c] # None /\ job'[c].kind = "call"
        /\ job'[c].sn = job[c].sn /\ job'[c].trade = job[c].trade
        /\ \A q \in Procs : q # c => job'[q] = job[q]
    BY <1>1, <1>6, NextKind
  <2>2. pc'[c] = "idle" /\ want'[c] = None /\ Others(c)
    BY <1>1, <2>1, ReturnIs
  <2>3. job[c].trade = "SUCCESS"
    BY <1>3, <1>6, StatesApart
  <2>4. JobShape(c)'
    BY <1>1, <2>1, <2>2, <2>3 DEF ServiceInv, JobShape
  <2>5. \A s \in Payments : ~Creating(c, s)' /\ ~Winner(c, s)'
    BY <2>1 DEF Creating, Winner
  <2>6. QED BY <1>1, <1>6, <2>2, <2>4, <2>5, QuietStep
<1>7. QED BY <1>4, <1>5, <1>6 DEF Verify

LEMMA CallUpdateKeeps ==
  ASSUME P!Inv, ServiceInv, Types', NEW c \in Callbacks, CallUpdate(c)
  PROVE  Advances
<1>1. c \in Procs /\ Types /\ P!TypeOK /\ Runs(c, "call") /\ job[c].sn \in Payments
  BY JobIsTyped DEF Procs, ServiceInv, P!Inv, P!Shape, CallUpdate
<1>2. /\ job'[c] # None /\ job'[c].kind = "update"
      /\ job'[c].sn = job[c].sn /\ job'[c].trade = job[c].trade
      /\ \A q \in Procs : q # c => job'[q] = job[q]
  BY <1>1, NextKind DEF CallUpdate
<1>3. /\ pc[c] = "idle" /\ pc'[c] # "idle" /\ sn'[c] = job[c].sn
      /\ want' = want /\ won' = won
      /\ Others(c) /\ UNCHANGED <<db, committed>>
  BY <1>1, <1>2, LookupIs DEF CallUpdate
<1>4. want[c] = None /\ ~won[c]
  BY <1>1, <1>3 DEF P!Inv, P!Shape, P!CallShape, P!OneShape
<1>5. JobShape(c)'
  BY <1>1, <1>2, <1>3, <1>4 DEF ServiceInv, JobShape, Runs, CallUpdate
<1>6. \A s \in Payments : ~Creating(c, s)' /\ ~Winner(c, s)'
  BY <1>2, <1>3, <1>4 DEF Creating, Winner
<1>7. QED BY <1>1, <1>3, <1>5, <1>6, QuietStep DEF CallUpdate

LEMMA UpdateReturnEarlyKeeps ==
  ASSUME P!Inv, ServiceInv, Types', NEW c \in Callbacks, UpdateReturnEarly(c)
  PROVE  Advances
<1>1. /\ c \in Procs /\ job[c] # None /\ job[c].kind = "update" /\ pc[c] = "held"
      /\ Model!Return(c) /\ UNCHANGED <<db, committed, published, wx>>
  BY DEF Procs, UpdateReturnEarly, Runs, Model!Release
<1>2. data[c] # None /\ job[c].trade = "SUCCESS"
  BY <1>1 DEF P!Inv, P!Shape, P!CallShape, P!OneShape, ServiceInv, JobShape
<1>3. data[c].val.status # PayWait
  BY <1>2, StatesApart DEF UpdateReturnEarly, PaymentCheck, Success
<1>4. QED BY <1>1, <1>2, <1>3, HeldIsWaitingOrRecorded, AnswerKeeps
          DEF UpdateReturnEarly

LEMMA UpdateBeginKeeps ==
  ASSUME P!Inv, ServiceInv, Types', NEW c \in Callbacks, UpdateBegin(c)
  PROVE  Advances
<1>1. /\ c \in Procs /\ Types /\ P!TypeOK /\ job' = job
      /\ job[c] # None /\ job[c].kind = "update" /\ pc[c] = "held"
      /\ UNCHANGED <<db, committed, published, wx, notices>>
  BY DEF Procs, ServiceInv, P!Inv, P!Shape, UpdateBegin, Runs, Model!BeginUpdate
<1>2. job[c].trade = "SUCCESS"
  BY <1>1 DEF ServiceInv, JobShape
<1>3. /\ pc'[c] = "getRow" /\ want'[c] = Success /\ sn' = sn /\ won' = won
      /\ Others(c)
  BY <1>1, <1>2, StatesApart
     DEF UpdateBegin, Model!BeginUpdate, Model!Goto, P!TypeOK, Others, Same
<1>4. JobShape(c)'
  BY <1>1, <1>2, <1>3 DEF ServiceInv, JobShape
<1>5. \A s \in Payments :
        (Creating(c, s)' => Creating(c, s)) /\ (Winner(c, s)' => Winner(c, s))
  BY <1>1, <1>3 DEF Creating, Winner
<1>6. QED BY <1>1, <1>3, <1>4, <1>5, QuietStep

LEMMA UpdateEndKeeps ==
  ASSUME P!Inv, ServiceInv, Types', NEW c \in Callbacks, UpdateEnd(c)
  PROVE  Advances
<1>1. /\ c \in Procs /\ Types /\ P!TypeOK /\ Runs(c, "update")
      /\ job[c] # None /\ job[c].kind = "update"
      /\ Model!Return(c) /\ UNCHANGED <<db, committed, published, wx>>
  BY DEF Procs, ServiceInv, P!Inv, P!Shape, UpdateEnd, Runs, Model!DelKeys,
         Model!DelLater
<1>2. CASE won[c]
  <2>1. /\ job'[c] # None /\ job'[c].kind = "publish"
        /\ job'[c].sn = job[c].sn /\ job'[c].trade = job[c].trade
        /\ \A q \in Procs : q # c => job'[q] = job[q]
    BY <1>1, <1>2, NextKind DEF UpdateEnd
  <2>2. pc'[c] = "idle" /\ want'[c] = None /\ Others(c)
    BY <1>1, <2>1, ReturnIs
  <2>3. JobShape(c)'
    BY <1>1, <2>1, <2>2 DEF ServiceInv, JobShape
  <2>4. \A s \in Payments : ~Creating(c, s)' /\ (Winner(c, s)' => Winner(c, s))
    BY <1>1, <1>2, <2>1 DEF Creating, Winner
  <2>5. QED BY <1>1, <1>2, <2>2, <2>3, <2>4, QuietStep DEF UpdateEnd
<1>3. CASE ~won[c]
  BY <1>1, <1>3, AnswerKeeps DEF UpdateEnd
<1>4. QED BY <1>2, <1>3

LEMMA FailCallKeeps ==
  ASSUME P!Inv, ServiceInv, Types', NEW p \in Procs, FailCall(p)
  PROVE  Advances
<1>1. Types /\ P!TypeOK
  BY DEF ServiceInv, P!Inv, P!Shape
<1>2. job'[p] = None /\ \A q \in Procs : q # p => job'[q] = job[q]
  BY <1>1, SetJobIs DEF FailCall
<1>3. pc'[p] = "idle" /\ Others(p) /\ UNCHANGED <<db, committed>>
  <2>1. CASE pc[p] = "idle"
    BY <1>2, <2>1 DEF FailCall, modelVars, Others, Same
  <2>2. CASE pc[p] # "idle"
    BY <1>1, <1>2, <2>2, ReturnIs DEF FailCall, Model!Abandon
  <2>3. QED BY <2>1, <2>2
<1>4. JobShape(p)'
  BY <1>2, <1>3 DEF JobShape
<1>5. \A s \in Payments : ~Creating(p, s)' /\ ~Winner(p, s)'
  BY <1>2 DEF Creating, Winner
<1>6. QED BY <1>3, <1>4, <1>5, QuietStep DEF FailCall

LEMMA CreatePaymentKeeps ==
  ASSUME P!Inv, ServiceInv, Types', NEW u \in Payers, NEW s \in Payments,
         CreatePayment(u, s)
  PROVE  Advances
<1> DEFINE new == [version |-> 0, val |-> Fresh]
<1>1. /\ u \in Procs /\ Types /\ P!TypeOK /\ job[u] = None /\ pc[u] = "idle"
      /\ db[s] = None /\ committed[s] = {}
      /\ UNCHANGED <<wx, notices, published>>
  BY DEF Procs, ServiceInv, P!Inv, P!Shape, P!AbsentIsNew, CreatePayment,
         Model!InsertRow
<1>2. new # None
  <2>1. new \in Model!Row
    BY DEF Model!Row, Columns, Fresh, PayStates
  <2>2. QED BY <2>1, PaymentServiceAssumption
<1>3. /\ db' = [db EXCEPT ![s] = new] /\ committed' = [committed EXCEPT ![s] = {new}]
      /\ pc' = [pc EXCEPT ![u] = "delNew"] /\ sn' = [sn EXCEPT ![u] = s]
      /\ want' = want /\ won' = won
  BY <1>1 DEF CreatePayment, Model!InsertRow, Model!Write, Model!Goto
<1>4. Job("create", s, "") \in Jobs
  BY DEF Job, Jobs
<1>5. /\ job'[u] = Job("create", s, "")
      /\ \A q \in Procs : q # u => job'[q] = job[q]
  BY <1>1, SetJobIs DEF CreatePayment
<1>6. /\ job'[u] # None /\ job'[u].kind = "create" /\ job'[u].sn = s
      /\ job'[u].trade = ""
  <2>1. job'[u] # None
    BY <1>4, <1>5, PaymentServiceAssumption
  <2>2. PICK st : st = ""
    OBVIOUS
  <2>3. job'[u] = [kind |-> "create", sn |-> s, trade |-> st]
    BY <1>5, <2>2, Zenon DEF Job
  <2>4. job'[u].kind = "create" /\ job'[u].sn = s /\ job'[u].trade = st
    BY <2>3
  <2>5. QED BY <2>1, <2>2, <2>4, Zenon
<1>7. pc'[u] = "delNew" /\ sn'[u] = s /\ Others(u)
  BY <1>1, <1>3, <1>5 DEF P!TypeOK, Others, Same
<1>8. want[u] = None /\ ~won[u]
  BY <1>1 DEF P!Inv, P!Shape, P!CallShape, P!OneShape
<1>9. ASSUME NEW q \in Procs
      PROVE  JobShape(q)'
  <2>1. CASE q = u
    BY <1>3, <1>6, <1>7, <1>8, <2>1 DEF JobShape
  <2>2. CASE q # u
    BY <1>1, <1>7, <2>2 DEF ServiceInv, JobShape, Others, Same
  <2>3. QED BY <2>1, <2>2
<1>10. \A q \in Procs, t \in Payments :
         /\ Creating(q, t)' => (q = u /\ t = s) \/ (q # u /\ Creating(q, t))
         /\ Winner(q, t)' => Winner(q, t)
  BY <1>1, <1>6, <1>7 DEF Creating, Winner, Others, Same
<1>11. db'[s] = new /\ committed'[s] = {new}
  BY <1>1, <1>3 DEF P!TypeOK
<1>12. \A t \in Payments : t # s => db'[t] = db[t] /\ committed'[t] = committed[t]
  BY <1>1, <1>3 DEF P!TypeOK
<1>13. wx[s] = "none" /\ published[s] = 0 /\ \A q \in Procs : ~Winner(q, s) /\ ~Creating(q, s)
  BY <1>1 DEF ServiceInv, CreateInv, StoreInv, Recorded
<1>14. ASSUME NEW t \in Payments
       PROVE  CreateInv(t)' /\ StoreInv(t)' /\ NoticeInv(t)'
  <2>1. CASE t = s
    <3>1. CreateInv(t)'
      BY <1>1, <1>2, <1>10, <1>11, <1>13, <2>1 DEF CreateInv
    <3>2. StoreInv(t)'
      <4>1. new.val.status = PayWait
        BY DEF Fresh
      <4>2. \A r \in committed'[t] : r.val.status = PayWait
        BY <1>11, <2>1, <4>1
      <4>3. \A q \in Procs : ~Winner(q, t)'
        BY <1>10, <1>13, <2>1
      <4>4. published'[t] = 0
        BY <1>1, <1>13, <2>1
      <4>5. QED BY <4>2, <4>3, <4>4 DEF StoreInv, PayWait, PaySuccess
    <3>3. NoticeInv(t)'
      BY <1>1, <1>13, <2>1 DEF ServiceInv, NoticeInv, Paid
    <3>4. QED BY <3>1, <3>2, <3>3
  <2>2. CASE t # s
    BY <1>1, <1>10, <1>12, <2>2
       DEF ServiceInv, CreateInv, StoreInv, NoticeInv, Recorded
  <2>3. QED BY <2>1, <2>2
<1>15. Life!Begin(s)
  <2>1. PaymentState[s] = None /\ PaymentState' = [PaymentState EXCEPT ![s] = Fresh]
    <3>1. db'[s] # None /\ db'[s].val = Fresh
      BY <1>2, <1>11
    <3>2. QED BY <1>1, <1>12, <3>1 DEF PaymentState
  <2>2. \A q \in Procs, t \in Payments : Winner(q, t) => Winner(q, t)'
    BY <1>1, <1>7 DEF Winner, Others, Same
  <2>3. Owed' = Owed
    BY <1>10, <2>2 DEF Owed
  <2>4. QED BY <1>1, <2>1, <2>3 DEF Life!Begin
<1>16. ServiceInv'
  BY <1>1, <1>9, <1>14 DEF ServiceInv
<1>17. QED BY <1>15, <1>16 DEF Advances, Lives, Life!Next

LEMMA PrepayKeeps ==
  ASSUME P!Inv, ServiceInv, Types', NEW u \in Payers, Prepay(u)
  PROVE  Advances
<1> DEFINE s == job[u].sn
<1>1. /\ u \in Procs /\ Types /\ job[u] # None /\ job[u].kind = "prepay"
      /\ UNCHANGED <<db, committed, pc, sn, want, won, notices, published>>
  BY DEF Procs, ServiceInv, Prepay, Runs, modelVars
<1>2. s \in Payments
  BY <1>1, JobIsTyped DEF Prepay
<1>3. job'[u] = None /\ \A q \in Procs : q # u => job'[q] = job[q]
  BY <1>1, SetJobIs DEF Prepay
<1>4. pc[u] = "idle" /\ Creating(u, s)
  BY <1>1 DEF ServiceInv, JobShape, Creating
<1>5. wx[s] = "none" /\ db[s] # None /\ \A q \in Procs : Creating(q, s) => q = u
  BY <1>1, <1>2, <1>4 DEF ServiceInv, CreateInv
<1>6. wx'[s] = "prepaid" /\ \A t \in Payments : t # s => wx'[t] = wx[t]
  BY <1>1, <1>2 DEF Prepay, Types
<1>7. ASSUME NEW q \in Procs
      PROVE  JobShape(q)'
  <2>1. CASE q = u
    BY <1>1, <1>3, <1>4, <2>1 DEF JobShape
  <2>2. CASE q # u
    <3>1. job[q] # None => job[q].sn \in Payments
      BY <1>1, JobIsTyped DEF Runs
    <3>2. job[q] # None /\ job[q].trade = "SUCCESS" => job[q].sn # s
      BY <1>5 DEF ServiceInv, JobShape, Paid
    <3>3. QED
      BY <1>1, <1>3, <1>6, <2>2, <3>1, <3>2 DEF ServiceInv, JobShape
  <2>3. QED BY <2>1, <2>2
<1>8. \A q \in Procs, t \in Payments :
        /\ Creating(q, t)' => q # u /\ Creating(q, t)
        /\ Winner(q, t)' => Winner(q, t)
  BY <1>1, <1>3 DEF Creating, Winner
<1>9. ASSUME NEW t \in Payments
      PROVE  CreateInv(t)' /\ StoreInv(t)' /\ NoticeInv(t)'
  <2>1. StoreInv(t)'
    BY <1>1, <1>8 DEF ServiceInv, StoreInv, Recorded
  <2>2. CASE t = s
    <3>1. CreateInv(t)'
      BY <1>1, <1>5, <1>8, <2>2 DEF CreateInv
    <3>2. NoticeInv(t)'
      BY <1>1, <1>5, <1>6, <2>2 DEF ServiceInv, NoticeInv, Paid
    <3>3. QED BY <2>1, <3>1, <3>2
  <2>3. CASE t # s
    BY <1>1, <1>6, <1>8, <2>1, <2>3 DEF ServiceInv, CreateInv, NoticeInv, Recorded
  <2>4. QED BY <2>2, <2>3
<1>10. \A q \in Procs, t \in Payments : Winner(q, t) => Winner(q, t)'
  BY <1>1, <1>3, <1>4 DEF Winner, ServiceInv, JobShape, P!Inv, P!Shape, P!CallShape, P!OneShape
<1>11. Lives
  <2>1. \A q \in Procs, t \in Payments : Winner(q, t)' = Winner(q, t)
    BY <1>8, <1>10 DEF Winner
  <2>2. UNCHANGED <<db, published>>
    BY <1>1
  <2>3. QED BY <2>1, <2>2, IdleLives
<1>12. QED BY <1>7, <1>9, <1>11 DEF Advances, ServiceInv

LEMMA SettleKeeps ==
  ASSUME P!Inv, ServiceInv, Types', NEW s \in Payments, NEW st \in WxTradeStates,
         Settle(s, st)
  PROVE  Advances
<1>1. /\ Types
      /\ UNCHANGED <<db, committed, pc, sn, want, won, job, published>>
      /\ notices' = notices \union {<<s, st>>}
  BY DEF ServiceInv, Settle, modelVars
<1>2. wx'[s] = st /\ \A t \in Payments : t # s => wx'[t] = wx[t]
  BY <1>1 DEF Settle, Types
<1>3. /\ wx[s] # "none"
      /\ wx[s] \in Paid <=> st = "REFUND"
      /\ wx[s] \notin Paid => st \in {"SUCCESS", "PAYERROR", "USERPAYING"}
  BY DEF Settle, Paid
<1>4. ASSUME NEW q \in Procs
      PROVE  JobShape(q)'
  <2>1. job[q] # None => job[q].sn \in Payments
    BY <1>1, JobIsTyped DEF Runs
  <2>2. QED BY <1>1, <1>2, <1>3, <2>1 DEF ServiceInv, JobShape, Paid
<1>5. \A q \in Procs, t \in Payments :
        Creating(q, t)' = Creating(q, t) /\ Winner(q, t)' = Winner(q, t)
  BY <1>1 DEF Creating, Winner
<1>6. ASSUME NEW t \in Payments
      PROVE  CreateInv(t)' /\ StoreInv(t)' /\ NoticeInv(t)'
  <2>1. StoreInv(t)'
    BY <1>1, <1>5 DEF ServiceInv, StoreInv, Recorded
  <2>2. CASE t = s
    <3>1. CreateInv(t)'
      BY <1>1, <1>3, <1>5, <2>2 DEF ServiceInv, CreateInv
    <3>2. NoticeInv(t)'
      BY <1>1, <1>2, <1>3, <2>2 DEF ServiceInv, NoticeInv, Recorded, Paid
    <3>3. QED BY <2>1, <3>1, <3>2
  <2>3. CASE t # s
    BY <1>1, <1>2, <1>5, <2>1, <2>3 DEF ServiceInv, CreateInv, NoticeInv, Recorded
  <2>4. QED BY <2>2, <2>3
<1>7. Lives
  BY <1>1, <1>5, IdleLives
<1>8. QED BY <1>1, <1>4, <1>6, <1>7 DEF Advances, ServiceInv

LEMMA PushKeeps ==
  ASSUME P!Inv, ServiceInv, Types', NEW c \in Callbacks, Push(c)
  PROVE  Advances
<1> DEFINE s == job[c].sn
<1>1. /\ c \in Procs /\ Types /\ job[c] # None /\ job[c].kind = "publish"
      /\ UNCHANGED <<db, committed, pc, sn, want, won, wx>>
  BY DEF Procs, ServiceInv, Push, Runs, modelVars
<1>2. s \in Payments
  BY <1>1, JobIsTyped DEF Push
<1>3. job'[c] = None /\ \A q \in Procs : q # c => job'[q] = job[q]
  BY <1>1, SetJobIs DEF Push, Answer
<1>4. pc[c] = "idle" /\ Winner(c, s) /\ wx[s] \in Paid
  BY <1>1 DEF ServiceInv, JobShape, Winner
<1>5. /\ Recorded(s) /\ published[s] = 0
      /\ \A q \in Procs : Winner(q, s) => q = c
  BY <1>1, <1>2, <1>4 DEF ServiceInv, StoreInv
<1>6. published'[s] \in {0, 1} /\ \A t \in Payments : t # s => published'[t] = published[t]
  BY <1>1, <1>2, <1>5 DEF Push, Types
<1>7. /\ notices' \subseteq notices
      /\ \A t \in Payments : t # s =>
           (<<t, "SUCCESS">> \in notices' <=> <<t, "SUCCESS">> \in notices)
  BY DEF Push, Answer
<1>8. ASSUME NEW q \in Procs
      PROVE  JobShape(q)'
  BY <1>1, <1>3, <1>4 DEF ServiceInv, JobShape
<1>9. \A q \in Procs, t \in Payments :
        /\ Creating(q, t)' => Creating(q, t)
        /\ Winner(q, t)' => q # c /\ Winner(q, t)
  BY <1>1, <1>3 DEF Creating, Winner
<1>10. ASSUME NEW t \in Payments
       PROVE  CreateInv(t)' /\ StoreInv(t)' /\ NoticeInv(t)'
  <2>1. CreateInv(t)'
    BY <1>1, <1>9 DEF ServiceInv, CreateInv
  <2>2. CASE t = s
    <3>1. StoreInv(t)'
      BY <1>1, <1>5, <1>6, <1>9, <2>2 DEF ServiceInv, StoreInv, Recorded
    <3>2. NoticeInv(t)'
      BY <1>1, <1>4, <1>5, <1>7, <2>2 DEF ServiceInv, NoticeInv, Recorded
    <3>3. QED BY <2>1, <3>1, <3>2
  <2>3. CASE t # s
    BY <1>1, <1>6, <1>7, <1>9, <2>1, <2>3 DEF ServiceInv, StoreInv, NoticeInv, Recorded
  <2>4. QED BY <2>2, <2>3
<1>11. \A q \in Procs, t \in Payments : Winner(q, t)' <=> Winner(q, t) /\ t # s
  <2>1. \A t \in Payments : Winner(c, t) => t = s
    BY DEF Winner
  <2>2. \A q \in Procs, t \in Payments : q # c => Winner(q, t)' = Winner(q, t)
    BY <1>1, <1>3 DEF Winner
  <2>3. QED BY <1>2, <1>5, <1>9, <2>1, <2>2
<1>12. s \in Owed /\ Owed' = Owed \ {s}
  BY <1>1, <1>2, <1>4, <1>11 DEF Owed
<1>13. PaymentState' = PaymentState
  BY <1>1 DEF PaymentState
<1>14. Life!Announce(s) \/ Life!Fail(s)
  BY <1>12, <1>13 DEF Push, Life!Announce, Life!Fail
<1>15. ServiceInv'
  BY <1>8, <1>10 DEF ServiceInv
<1>16. QED BY <1>2, <1>14, <1>15 DEF Advances, Lives, Life!Next

\* The UPDATE that matches replaces a row that was waiting, so that nobody has
\* recorded or published the payment before.
LEMMA WinKeeps ==
  ASSUME P!Inv, ServiceInv, Types', NEW p \in Procs, Step(p), Wins(p)
  PROVE  Advances
<1>1. /\ Types /\ P!TypeOK /\ pc[p] = "cas"
      /\ UNCHANGED <<job, wx, notices, published>>
  BY DEF ServiceInv, P!Inv, P!Shape, Step, Wins, Model!UpdateRow
<1>2. /\ sn[p] \in Payments /\ data[p] # None /\ want[p] # None /\ data[p] \in P!Row
      /\ <<data[p].val, want[p]>> \in ColumnChanges
  BY <1>1 DEF P!Inv, P!Shape, P!CallShape, P!OneShape, P!TypeOK
<1>s. PICK s \in Payments : s = sn[p]
  BY <1>2
<1>n. PICK new : new = [version |-> data[p].version + 1, val |-> want[p]]
  OBVIOUS
<1>3. job[p] # None /\ job[p].sn = s /\ job[p].kind = "update" /\ want[p] = Success
  BY <1>1, <1>2, <1>s DEF ServiceInv, JobShape
<1>4. db[s] = data[p]
  <2>1. P!UpdateRow(p) /\ db[sn[p]].version = data[p].version
    BY DEF Wins, Model!UpdateRow, Model!Write, Model!Goto, Model!cacheVars,
           P!UpdateRow, P!Write, P!Goto, P!cacheVars
  <2>2. db[sn[p]] = data[p]
    BY <2>1, ModelAssumption, P!MatchIsCurrent
  <2>3. QED BY <2>2, <1>s
<1>5. data[p].val.status = PayWait
  <2>1. <<data[p].val.status, PaySuccess>> \in PaymentChanges
    BY <1>2, <1>3 DEF ColumnChanges, Success
  <2>2. PaymentCheck(PaySuccess, data[p].val.status) = "write"
    BY <2>1 DEF PaymentChanges
  <2>3. QED BY <2>2 DEF PaymentCheck, PaySuccess, PayFAIL, PayRefund, PayWait
<1>6. ~Recorded(s)
  BY <1>4, <1>5, StatesApart DEF Recorded
<1>7. /\ published[s] = 0 /\ \A q \in Procs : ~Winner(q, s)
      /\ \A r \in committed[s] : r.val.status = PayWait
  BY <1>6 DEF ServiceInv, StoreInv
<1>8. new \in P!Row
  <2>1. data[p].version + 1 \in Nat
    BY <1>2 DEF P!Row
  <2>2. Success \in Columns
    BY DEF Columns, Success, PayStates, WxTradeStates
  <2>3. QED BY <1>3, <1>n, <2>1, <2>2 DEF P!Row
<1>9. new # None /\ new.val.status = PaySuccess
  <2>1. new # None
    BY <1>8, PaymentServiceAssumption DEF P!Row, Model!Row
  <2>2. QED BY <1>3, <1>n, <2>1 DEF Success
<1>10. /\ db' = [db EXCEPT ![s] = new]
       /\ committed' = [committed EXCEPT ![s] = @ \union {new}]
       /\ pc' = [pc EXCEPT ![p] = "delKeys"] /\ won' = [won EXCEPT ![p] = TRUE]
       /\ UNCHANGED <<sn, want>>
  BY <1>s, <1>n DEF Wins, Model!UpdateRow, Model!Write, Model!Goto
<1>11. pc'[p] = "delKeys" /\ Others(p)
  BY <1>1, <1>10 DEF P!TypeOK, Others, Same
<1>12. db'[s] = new /\ committed'[s] = committed[s] \union {new}
  BY <1>1, <1>2, <1>10 DEF P!TypeOK
<1>13. \A t \in Payments : t # s => db'[t] = db[t] /\ committed'[t] = committed[t]
  BY <1>1, <1>10 DEF P!TypeOK
<1>14. Recorded(s)'
  BY <1>9, <1>12 DEF Recorded
<1>15. ASSUME NEW q \in Procs
       PROVE  JobShape(q)'
  BY <1>1, <1>10, <1>11 DEF ServiceInv, JobShape, Others, Same
<1>16. \A q \in Procs, t \in Payments :
         /\ Creating(q, t)' => Creating(q, t)
         /\ Winner(q, t)' => (q = p /\ t = s) \/ Winner(q, t)
  BY <1>1, <1>3, <1>11 DEF Creating, Winner, Others, Same
<1>17. ASSUME NEW t \in Payments
       PROVE  CreateInv(t)' /\ StoreInv(t)' /\ NoticeInv(t)'
  <2>1. CASE t = s
    <3>1. CreateInv(t)'
      BY <1>1, <1>2, <1>4, <1>9, <1>12, <1>16, <2>1 DEF ServiceInv, CreateInv
    <3>2. StoreInv(t)'
      <4>1. \A r \in committed'[t] : r.val.status \in {PayWait, PaySuccess}
        BY <1>7, <1>9, <1>12, <2>1
      <4>2. \A q \in Procs : Winner(q, t)' => q = p
        BY <1>7, <1>16, <2>1
      <4>3. published'[t] = 0 /\ Recorded(t)'
        BY <1>1, <1>7, <1>14, <2>1
      <4>4. QED BY <4>1, <4>2, <4>3 DEF StoreInv
    <3>3. NoticeInv(t)'
      <4>1. Recorded(t)' /\ published'[t] = 0
        BY <1>1, <1>7, <1>14, <2>1
      <4>2. QED BY <1>1, <4>1 DEF ServiceInv, NoticeInv
    <3>4. QED BY <3>1, <3>2, <3>3
  <2>2. CASE t # s
    BY <1>1, <1>13, <1>16, <2>2
       DEF ServiceInv, CreateInv, StoreInv, NoticeInv, Recorded
  <2>3. QED BY <2>1, <2>2
<1>18. Life!Change(s)
  <2>1. PaymentState' = [PaymentState EXCEPT ![s] = Success]
    <3>1. db'[s].val = Success
      BY <1>3, <1>12, <1>n
    <3>2. QED BY <1>9, <1>12, <1>13, <3>1 DEF PaymentState
  <2>2. /\ <<PaymentState[s], Success>> \in ColumnChanges
        /\ Success \in {v \in Columns : v.status = PaySuccess}
    <3>1. PaymentState[s] = data[p].val
      BY <1>2, <1>4 DEF PaymentState
    <3>2. Success \in Columns /\ Success.status = PaySuccess
      BY DEF Columns, Success, PayStates, WxTradeStates
    <3>3. QED BY <1>2, <1>3, <3>1, <3>2
  <2>3. s \notin Owed
    BY <1>7 DEF Owed
  <2>4. Winner(p, s)'
    BY <1>1, <1>3, <1>10 DEF Winner, P!TypeOK
  <2>5. \A q \in Procs, t \in Payments : Winner(q, t) => Winner(q, t)'
    BY <1>1, <1>3, <1>4, <1>7, <1>11, <2>4 DEF Winner, Others, Same
  <2>6. Owed' = Owed \union {s}
    BY <1>16, <2>4, <2>5 DEF Owed
  <2>7. QED BY <1>1, <2>1, <2>2, <2>3, <2>6 DEF Life!Change
<1>19. ServiceInv'
  BY <1>15, <1>17 DEF ServiceInv
<1>20. QED BY <1>18, <1>19 DEF Advances, Lives, Life!Next

LEMMA StepKeeps ==
  ASSUME P!Inv, ServiceInv, Types', NEW p \in Procs, Step(p)
  PROVE  Advances
<1>1. P!TypeOK /\ UNCHANGED <<job, wx, notices, published>>
  BY DEF P!Inv, P!Shape, Step
<1>2. CASE Wins(p)
  BY <1>2, WinKeeps
<1>3. CASE ~Wins(p)
  <2>1. /\ pc[p] # "idle" /\ pc'[p] # "idle" /\ sn' = sn /\ want' = want
        /\ won' = won /\ Others(p) /\ UNCHANGED <<db, committed>>
    BY <1>1, <1>3, StepIs
  <2>2. JobShape(p)'
    BY <1>1, <2>1 DEF ServiceInv, JobShape
  <2>3. \A s \in Payments :
          (Creating(p, s)' => Creating(p, s)) /\ (Winner(p, s)' => Winner(p, s))
    BY <1>1, <2>1 DEF Creating, Winner
  <2>4. QED BY <1>1, <2>1, <2>2, <2>3, QuietStep
<1>4. QED BY <1>2, <1>3

\* The keys of the cache come and go by themselves.
LEMMA CacheKeeps ==
  ASSUME ServiceInv, Types',
         UNCHANGED <<db, committed, pc, sn, want, won, job, wx, notices, published>>
  PROVE  Advances
<1>1. ServiceInv'
  BY DEF ServiceInv, JobShape, CreateInv, StoreInv, NoticeInv, Creating, Winner, Recorded
<1>2. \A q \in Procs, s \in Payments : Winner(q, s)' = Winner(q, s)
  BY DEF Winner
<1>3. Lives
  BY <1>2, IdleLives
<1>4. QED BY <1>1, <1>3 DEF Advances

LEMMA ServiceInit == Init => ServiceInv
<1> SUFFICES ASSUME Init PROVE ServiceInv
  OBVIOUS
<1>1. Types
  BY TypesInit
<1>2. /\ \A p \in Procs : job[p] = None /\ pc[p] = "idle"
      /\ \A s \in Payments :
           db[s] = None /\ committed[s] = {} /\ wx[s] = "none" /\ published[s] = 0
      /\ notices = {}
  BY DEF Init, Model!Init
<1>3. QED
  BY <1>1, <1>2
     DEF ServiceInv, JobShape, CreateInv, StoreInv, NoticeInv, Creating, Winner, Paid

LEMMA ServiceNext == P!Inv /\ ServiceInv /\ [Next]_vars => Advances
<1> SUFFICES ASSUME P!Inv, ServiceInv, [Next]_vars PROVE Advances
  OBVIOUS
<1>1. Types'
  BY TypesNext DEF ServiceInv
<1>2. ASSUME NEW c \in Callbacks, CallbackNext(c)
      PROVE  Advances
  BY <1>1, <1>2, VerifyKeeps, CallUpdateKeeps, UpdateReturnEarlyKeeps,
     UpdateBeginKeeps, UpdateEndKeeps, PushKeeps, StepKeeps
     DEF CallbackNext, Procs
<1>3. CASE Cache \/ UNCHANGED vars
  <2>1. UNCHANGED <<db, committed, pc, sn, want, won, job, wx, notices, published>>
    BY <1>3 DEF Cache, vars, modelVars, Model!CacheStep, Model!CleanKeys,
                Model!ExpireRow, Model!ExpireSn, Model!procVars
  <2>2. QED BY <1>1, <2>1, CacheKeeps
<1>4. QED
  BY <1>1, <1>2, <1>3, CreatePaymentKeeps, CreateReturnKeeps, PrepayKeeps,
     SettleKeeps, NotifiedKeeps, FailCallKeeps DEF Next

LEMMA ServiceHolds == Spec => []ServiceInv
<1>1. P!Inv /\ ServiceInv /\ [Next]_vars => ServiceInv'
  BY ServiceNext DEF Advances
<1>2. QED BY <1>1, ServiceInit, ModelInv, PTL DEF Spec

\* updateTradeStateLogic.go:33-79: of any number of handlers of the notifications
\* of a payment, on stale rows or fresh ones, at most one gets to publish its
\* success, and only a success that is recorded and that WeChat reported.
THEOREM PublishesOnce == Spec => []PublishedOnceAndPaid
<1>1. ServiceInv => PublishedOnceAndPaid
  <2> SUFFICES ASSUME ServiceInv, NEW s \in Payments
               PROVE  /\ published[s] <= 1
                      /\ published[s] = 1 => Status(s) = PaySuccess /\ wx[s] \in Paid
    BY DEF PublishedOnceAndPaid, Paid
  <2>1. published[s] \in {0, 1} /\ (published[s] = 1 => Recorded(s) /\ wx[s] \in Paid)
    BY DEF ServiceInv, StoreInv, NoticeInv
  <2>2. QED BY <2>1 DEF Recorded, Status
<1>2. QED BY <1>1, ServiceHolds, PTL

\* thirdPaymentWxPayCallbackLogic.go:62-116: a success that WeChat need not notify
\* again is in the table, whatever failed and however handlers interleaved.
THEOREM AnswersAreRecorded == Spec => []AnsweredSuccessIsRecorded
<1>1. ServiceInv => AnsweredSuccessIsRecorded
  BY DEF ServiceInv, NoticeInv, Recorded, Status, Paid, AnsweredSuccessIsRecorded
<1>2. QED BY <1>1, ServiceHolds, PTL
\* updateTradeStateLogic.go:33-93, createPaymentLogic.go:31-48: the payment
\* service with its cache and the handlers of repeated notifications implements
\* the life of a payment.
THEOREM PaymentsFollowLifecycle == Spec => FollowsLifecycle
<1>1. Init => Life!Init
  <2> SUFFICES ASSUME Init PROVE Life!Init
    OBVIOUS
  <2>1. PaymentState = [s \in Payments |-> None]
    BY DEF Init, Model!Init, PaymentState
  <2>2. Owed = {}
    BY DEF Init, Owed, Winner
  <2>3. QED BY <2>1, <2>2 DEF Init, Life!Init
<1>2. P!Inv /\ ServiceInv /\ [Next]_vars => [Life!Next]_(Life!vars)
  BY ServiceNext DEF Advances, Lives
<1>3. QED
  BY <1>1, <1>2, ServiceHolds, ModelInv, PTL DEF Spec, FollowsLifecycle, Life!Spec

-----------------------------------------------------------------------------
(* No recorded payment is left unpublished without a failure               *)

StaysOwed(s) ==
  s \in Owed => \/ s \in Owed'
               \/ published'[s] = published[s] + 1
               \/ faults' = faults + 1

\* A step of p that leaves the other handlers alone.
LEMMA OwedBy ==
  ASSUME NEW p \in Procs, NEW s \in Payments, Others(p),
         Winner(p, s) => \/ Winner(p, s)'
                         \/ published'[s] = published[s] + 1
                         \/ faults' = faults + 1
  PROVE  StaysOwed(s)
<1>1. ASSUME NEW q \in Procs, q # p
      PROVE  Winner(q, s) => Winner(q, s)'
  BY <1>1 DEF Winner, Others, Same
<1>2. ASSUME NEW q \in Procs, Winner(q, s)'
      PROVE  s \in Owed'
  BY <1>2 DEF Owed
<1>3. CASE s \in Owed
  <2>1. PICK q \in Procs : Winner(q, s)
    BY <1>3 DEF Owed
  <2>2. QED BY <1>1, <1>2, <2>1 DEF StaysOwed
<1>4. QED BY <1>3 DEF StaysOwed

\* A step that changes no handler's job.
LEMMA OwedAlong ==
  ASSUME NEW s \in Payments, UNCHANGED job, \A q \in Procs : won[q] => won'[q]
  PROVE  StaysOwed(s)
<1>1. \A q \in Procs : Winner(q, s) => Winner(q, s)'
  BY DEF Winner
<1>2. QED BY <1>1 DEF StaysOwed, Owed

\* A handler that ends its call, or moves on, without having recorded anything.
LEMMA OwedByOthers ==
  ASSUME P!TypeOK, Types, NEW p \in Procs, NEW s \in Payments, Model!Return(p),
         NEW j, SetJob(p, j), ~Winner(p, s)
  PROVE  StaysOwed(s)
<1>1. \A q \in Procs : q # p => job'[q] = job[q]
  BY SetJobIs
<1>2. Others(p)
  BY <1>1, ReturnIs
<1>3. QED BY <1>2, OwedBy

LEMMA CallbackOwes ==
  ASSUME P!Inv, ServiceInv, NEW c \in Callbacks, CallbackNext(c), NEW s \in Payments
  PROVE  StaysOwed(s)
<1>1. /\ c \in Procs /\ Types /\ P!TypeOK
      /\ \A q \in Procs : won[q] => pc[q] = "delKeys"
  BY DEF Procs, ServiceInv, P!Inv, P!Shape, P!CallShape, P!OneShape
<1>2. CASE Verify(c)
  <2>1. job[c].kind = "check" /\ Model!Return(c) /\ ~Winner(c, s)
    BY <1>2 DEF Verify, Runs, Model!Release, Winner
  <2>2. PICK j : SetJob(c, j)
    BY <1>2 DEF Verify, Answer
  <2>3. QED BY <1>1, <2>1, <2>2, OwedByOthers
<1>3. CASE CallUpdate(c)
  <2>1. job[c].kind = "call" /\ job[c].sn \in Payments /\ ~Winner(c, s)
    BY <1>1, <1>3, JobIsTyped DEF CallUpdate, Runs, Winner
  <2>2. \A q \in Procs : q # c => job'[q] = job[q]
    BY <1>1, <1>3, SetJobIs DEF CallUpdate
  <2>3. Others(c)
    BY <1>1, <1>3, <2>1, <2>2, LookupIs DEF CallUpdate
  <2>4. QED BY <1>1, <2>1, <2>3, OwedBy
<1>4. CASE UpdateReturnEarly(c)
  <2>1. /\ job[c].kind = "update" /\ pc[c] = "held" /\ Model!Return(c)
        /\ SetJob(c, None)
    BY <1>4 DEF UpdateReturnEarly, Runs, Model!Release, Answer
  <2>2. ~Winner(c, s)
    BY <1>1, <2>1 DEF Winner
  <2>3. QED BY <1>1, <2>1, <2>2, OwedByOthers
<1>5. CASE UpdateBegin(c)
  BY <1>5, OwedAlong DEF UpdateBegin, Model!BeginUpdate
<1>6. CASE UpdateEnd(c)
  <2>1. Runs(c, "update") /\ Model!Return(c)
    BY <1>6 DEF UpdateEnd, Model!DelKeys, Model!DelLater
  <2>2. CASE won[c]
    <3>1. /\ job'[c] # None /\ job'[c].kind = "publish" /\ job'[c].sn = job[c].sn
          /\ \A q \in Procs : q # c => job'[q] = job[q]
      BY <1>1, <1>6, <2>1, <2>2, NextKind DEF UpdateEnd
    <3>2. Others(c) /\ (Winner(c, s) => Winner(c, s)')
      BY <1>1, <2>1, <3>1, ReturnIs DEF Winner
    <3>3. QED BY <1>1, <3>2, OwedBy
  <2>3. CASE ~won[c]
    <3>1. SetJob(c, None) /\ ~Winner(c, s)
      BY <1>6, <2>1, <2>3 DEF UpdateEnd, Answer, Winner, Runs
    <3>2. QED BY <1>1, <2>1, <3>1, OwedByOthers
  <2>4. QED BY <2>2, <2>3
<1>7. CASE Push(c)
  <2>1. UNCHANGED <<pc, sn, want, won>> /\ SetJob(c, None)
    BY <1>7 DEF Push, Answer, modelVars
  <2>2. Others(c)
    BY <1>1, <2>1, SetJobIs DEF Others, Same
  <2>3. Winner(c, s) => published'[s] = published[s] + 1 \/ faults' = faults + 1
    BY <1>1, <1>7 DEF Push, Fault, Winner, Types
  <2>4. QED BY <1>1, <2>2, <2>3, OwedBy
<1>8. CASE Step(c)
  <2>1. Others(c) /\ (won[c] => won'[c])
    BY <1>1, <1>8, StepIs DEF Wins, Model!UpdateRow, P!TypeOK
  <2>2. QED BY <1>1, <1>8, <2>1, OwedBy DEF Step, Winner
<1>9. QED
  BY <1>2, <1>3, <1>4, <1>5, <1>6, <1>7, <1>8 DEF CallbackNext

LEMMA NextOwes ==
  ASSUME P!Inv, ServiceInv, [Next]_vars, NEW s \in Payments
  PROVE  StaysOwed(s)
<1>1. /\ Types /\ P!TypeOK /\ Payers \subseteq Procs /\ Callbacks \subseteq Procs
  BY DEF Procs, ServiceInv, P!Inv, P!Shape
<1>2. ASSUME NEW u \in Payers, NEW t \in Payments, CreatePayment(u, t)
      PROVE  StaysOwed(s)
  <2>1. job[u] = None /\ \A q \in Procs : q # u => job'[q] = job[q]
    BY <1>1, <1>2, SetJobIs DEF CreatePayment
  <2>2. Others(u)
    BY <1>1, <1>2, <2>1
       DEF CreatePayment, Model!InsertRow, Model!Goto, P!TypeOK, Others, Same
  <2>3. QED BY <1>1, <2>1, <2>2, OwedBy DEF Winner
<1>3. ASSUME NEW u \in Payers, CreateReturn(u)
      PROVE  StaysOwed(s)
  <2>1. job[u].kind = "create" /\ Model!Return(u) /\ ~Winner(u, s)
    BY <1>3 DEF CreateReturn, Runs, Model!DelNew, Model!DelLater, Winner
  <2>2. PICK j : SetJob(u, j)
    BY <1>3 DEF CreateReturn
  <2>3. QED BY <1>1, <2>1, <2>2, OwedByOthers
<1>4. ASSUME NEW u \in Payers, Prepay(u)
      PROVE  StaysOwed(s)
  <2>1. UNCHANGED <<pc, sn, want, won>> /\ ~Winner(u, s)
    BY <1>4 DEF Prepay, Runs, modelVars, Winner
  <2>2. Others(u)
    BY <1>1, <1>4, <2>1, SetJobIs DEF Prepay, Others, Same
  <2>3. QED BY <1>1, <2>1, <2>2, OwedBy
<1>5. ASSUME NEW t \in Payments, NEW st \in WxTradeStates, Settle(t, st)
      PROVE  StaysOwed(s)
  BY <1>5, OwedAlong DEF Settle, modelVars
<1>6. ASSUME NEW c \in Callbacks, NEW t \in Payments, NEW st \in WxTradeStates,
             Notified(c, t, st)
      PROVE  StaysOwed(s)
  <2>1. job[c] = None /\ \A q \in Procs : q # c => job'[q] = job[q]
    BY <1>1, <1>6, SetJobIs DEF Notified
  <2>2. Others(c)
    BY <1>1, <1>6, <2>1, LookupIs DEF Notified
  <2>3. QED BY <1>1, <2>1, <2>2, OwedBy DEF Winner
<1>7. ASSUME NEW p \in Procs, FailCall(p)
      PROVE  StaysOwed(s)
  BY <1>7 DEF FailCall, Fault, StaysOwed
<1>8. CASE Cache
  BY <1>8, OwedAlong
     DEF Cache, Model!CacheStep, Model!CleanKeys, Model!ExpireRow, Model!ExpireSn,
         Model!procVars
<1>9. CASE UNCHANGED vars
  BY <1>9, OwedAlong DEF vars, modelVars
<1>10. QED
  BY <1>2, <1>3, <1>4, <1>5, <1>6, <1>7, <1>8, <1>9, CallbackOwes DEF Next

\* What the next theorem says of a step, as the property names it.
PublishStep ==
  \A s \in Payments :
    /\ Status(s) # PaySuccess /\ Status(s)' = PaySuccess => s \in Owed'
    /\ s \in Owed => \/ s \in Owed'
                     \/ published'[s] = published[s] + 1
                     \/ faults' = faults + 1

\* updateTradeStateLogic.go:66-93: the handler whose UPDATE recorded a success
\* publishes it, or fails in doing so.
THEOREM RecordedArePublished == Spec => RecordedIsPublished
<1>1. P!Inv /\ P!Inv' /\ ServiceInv /\ [Next]_vars => [PublishStep]_vars
  <2> SUFFICES ASSUME P!Inv, P!Inv', ServiceInv, [Next]_vars PROVE PublishStep
    OBVIOUS
  <2>1. ASSUME NEW s \in Payments
        PROVE  s \in Owed => \/ s \in Owed'
                             \/ published'[s] = published[s] + 1
                             \/ faults' = faults + 1
    BY <2>1, NextOwes DEF StaysOwed
  <2>2. ASSUME NEW s \in Payments, Status(s) # PaySuccess, Status(s)' = PaySuccess
        PROVE  s \in Owed'
    <3>1. PaymentState'[s] # PaymentState[s] /\ PaymentState'[s].status = PaySuccess
      <4>1. db'[s] # None /\ db'[s].val.status = PaySuccess
        BY <2>2, StatesApart DEF Status
      <4>2. db'[s].val \in Columns
        BY <4>1 DEF P!Inv, P!Shape, P!TypeOK, P!Row
      <4>3. db'[s].val # None
        BY <4>2, PaymentServiceAssumption
      <4>4. db[s] # None => db[s].val # db'[s].val
        BY <2>2, <4>1 DEF Status
      <4>5. QED BY <4>1, <4>3, <4>4 DEF PaymentState
    <3>2. PICK t \in Payments : \/ Life!Change(t) \/ Life!Begin(t)
                               \/ PaymentState' = PaymentState
      BY <2>2, ServiceNext DEF Advances, Lives, Life!Next, Life!Announce, Life!Fail, Life!vars
    <3>3. \A v : PaymentState' = [PaymentState EXCEPT ![t] = v]
                  => t = s /\ v = PaymentState'[s]
      BY <3>1 DEF PaymentState
    <3>4. Life!Change(t) /\ t = s
      <4>1. ASSUME Life!Begin(t)
            PROVE  FALSE
        <5>1. PaymentState' = [PaymentState EXCEPT ![t] = Fresh]
          BY <4>1 DEF Life!Begin
        <5>2. PaymentState'[s] = Fresh
          BY <3>3, <5>1
        <5>3. PICK w : w = PayWait
          OBVIOUS
        <5>4. Fresh.status = w
          BY <5>3 DEF Fresh
        <5>5. QED BY <3>1, <5>2, <5>3, <5>4, StatesApart
      <4>2. ASSUME Life!Change(t)
            PROVE  t = s
        <5>1. \E v : PaymentState' = [PaymentState EXCEPT ![t] = v]
          BY <4>2, Zenon DEF Life!Change
        <5>2. QED BY <3>3, <5>1
      <4>3. QED BY <3>1, <3>2, <4>1, <4>2
    <3>5. PICK v \in Columns :
            /\ PaymentState' = [PaymentState EXCEPT ![t] = v]
            /\ v \in {new \in Columns : new.status = PaySuccess}
                 => Owed' = Owed \union {t}
      BY <3>4 DEF Life!Change
    <3>6. v = PaymentState'[s]
      BY <3>3, <3>5
    <3>7. QED BY <3>1, <3>4, <3>5, <3>6
  <2>3. QED BY <2>1, <2>2 DEF PublishStep
<1>2. QED BY <1>1, ModelInv, ServiceHolds, PTL DEF Spec, RecordedIsPublished, PublishStep
=============================================================================
