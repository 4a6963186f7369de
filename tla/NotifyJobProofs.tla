---------------------------- MODULE NotifyJobProofs ---------------------------
(***************************************************************************)
(* Theorems about NotifyJob, for any finite set of orders, any number of   *)
(* workers and any limits on retries, lost answers and crashes: messages   *)
(* are repeated only with a cause, and a task that is done has forgotten   *)
(* none.                                                                   *)
(***************************************************************************)
EXTENDS NotifyJob, FiniteSetTheorems, TLAPS

\* What is known of message m is enough for a run to leave it.
Tried(o, m) == delivered[o][m] > 0 \/ failures[o][m] > MaxRetryNum

\* Every arrival of message m so far has its cause, so that one more is allowed.
Excused(o, m) == delivered[o][m] <= lost[o][m] + crashes[o]

\* No run of the task has come to the messages since the last crash.
Fresh(o) == task[o] \in {"none", "pending"} \/ (task[o] = "active" /\ at[o] = "auth")

Sending(o) == task[o] = "active" /\ at[o] = "send"

Finished(o) == task[o] = "done" \/ (task[o] = "active" /\ at[o] = "return")

\* What a run has behind it and before it, at the message it sends.
SendInv(o) ==
  /\ \A m \in Msgs : m >= msg[o] => Excused(o, m)
  /\ \A m \in Msgs : m < msg[o] => Tried(o, m)
  /\ failures[o][msg[o]] = retryNum[o]
  /\ \A m \in Msgs : m > msg[o] => failures[o][m] = 0

OrderInv(o) ==
  /\ \A m \in Msgs : delivered[o][m] <= 1 + lost[o][m] + crashes[o]
  /\ Fresh(o) => \A m \in Msgs : Excused(o, m)
  /\ Sending(o) => SendInv(o)
  /\ Finished(o) => \A m \in Msgs : Tried(o, m)

NotifyInv == TypeOK /\ \A o \in Orders : OrderInv(o)

-----------------------------------------------------------------------------
(* Types                                                                   *)

Active == {o \in Orders : task[o] = "active"}

\* Tasks that end leave no fewer workers free.
LEMMA NoMoreActive ==
  ASSUME TypeOK, Active' \subseteq Active
  PROVE  Cardinality(Active') <= Concurrency
<1>1. IsFiniteSet(Active)
  BY NotifyJobAssumption, FS_Subset DEF Active
<1>2. Cardinality(Active') <= Cardinality(Active)
  BY <1>1, FS_Subset
<1>3. IsFiniteSet(Active')
  BY <1>1, FS_Subset
<1>4. Cardinality(Active) \in Nat /\ Cardinality(Active') \in Nat
  BY <1>1, <1>3, FS_CardinalityType
<1>5. Cardinality(Active) <= Concurrency
  BY DEF TypeOK, Active
<1>6. QED BY <1>2, <1>4, <1>5, NotifyJobAssumption

\* A task that is taken needs a free worker.
LEMMA OneMoreActive ==
  ASSUME TypeOK, NEW o \in Orders, Take(o)
  PROVE  Cardinality(Active') <= Concurrency
<1>1. IsFiniteSet(Active)
  BY NotifyJobAssumption, FS_Subset DEF Active
<1>2. o \notin Active
  BY DEF Take, Active
<1>3. Active' = Active \union {o}
  BY DEF Take, Active, TypeOK
<1>4. Cardinality(Active') = Cardinality(Active) + 1
  BY <1>1, <1>2, <1>3, FS_AddElement
<1>5. Cardinality(Active) < Concurrency
  BY DEF Take, Active
<1>6. Cardinality(Active) \in Nat
  BY <1>1, FS_CardinalityType
<1>7. QED BY <1>4, <1>5, <1>6, NotifyJobAssumption

\* In vain or not, a run of an active task ends, which only makes workers free.
LEMMA AgainIsTyped ==
  ASSUME TypeOK, NEW o \in Orders, task[o] = "active", Again(o)
  PROVE  /\ task' \in [Orders -> {"none", "pending", "active", "done", "archived"}]
         /\ retried' \in [Orders -> 0..MaxRetry]
         /\ Active' \subseteq Active
         /\ \A p \in Orders : p # o => task'[p] = task[p]
         /\ task'[o] \in {"pending", "archived"}
<1>1. CASE retried[o] < MaxRetry
  <2>1. retried[o] + 1 \in 0..MaxRetry
    BY <1>1, NotifyJobAssumption DEF TypeOK
  <2>2. /\ task' = [task EXCEPT ![o] = "pending"]
        /\ retried' = [retried EXCEPT ![o] = retried[o] + 1]
    BY <1>1 DEF Again
  <2>3. QED BY <2>1, <2>2 DEF TypeOK, Active
<1>2. CASE ~(retried[o] < MaxRetry)
  <2>1. task' = [task EXCEPT ![o] = "archived"] /\ retried' = retried
    BY <1>2 DEF Again
  <2>2. QED BY <2>1 DEF TypeOK, Active
<1>3. QED BY <1>1, <1>2

LEMMA InitIsTyped == Init => TypeOK
<1> SUFFICES ASSUME Init PROVE TypeOK
  OBVIOUS
<1>1. {o \in Orders : task[o] = "active"} = {}
  BY DEF Init
<1>2. Cardinality({o \in Orders : task[o] = "active"}) <= Concurrency
  BY <1>1, FS_EmptySet, NotifyJobAssumption
<1>3. QED BY <1>2, NotifyJobAssumption DEF Init, TypeOK, Msgs

\* What SendFailed and Sent do to a run.
LEMMA NextMessageIsTyped ==
  ASSUME TypeOK, NEW o \in Orders, NextMessage(o)
  PROVE  /\ at' \in [Orders -> {"auth", "send", "return"}]
         /\ msg' \in [Orders -> Msgs]
         /\ retryNum' \in [Orders -> 0..(MaxRetryNum + 1)]
<1>1. at' \in [Orders -> {"auth", "send", "return"}] /\ msg' \in [Orders -> Msgs]
  <2>1. CASE msg[o] = 2
    BY <2>1 DEF NextMessage, TypeOK
  <2>2. CASE msg[o] # 2
    <3>1. 2 \in Msgs
      BY DEF Msgs
    <3>2. QED BY <2>2, <3>1 DEF NextMessage, TypeOK
  <2>3. QED BY <2>1, <2>2
<1>2. 0 \in 0..(MaxRetryNum + 1)
  BY NotifyJobAssumption
<1>3. retryNum' \in [Orders -> 0..(MaxRetryNum + 1)]
  BY <1>2 DEF NextMessage, TypeOK
<1>4. QED BY <1>1, <1>3

\* A failed send of a run whose failures are counted.
LEMMA SendFailedIsTyped ==
  ASSUME TypeOK, NEW o \in Orders, SendFailed(o), failures[o][msg[o]] = retryNum[o]
  PROVE  /\ at' \in [Orders -> {"auth", "send", "return"}]
         /\ msg' \in [Orders -> Msgs]
         /\ retryNum' \in [Orders -> 0..(MaxRetryNum + 1)]
         /\ failures' = [failures EXCEPT ![o][msg[o]] = retryNum[o] + 1]
         /\ failures' \in [Orders -> [Msgs -> 0..(MaxRetryNum + 2)]]
<1>1. retryNum[o] \in 0..(MaxRetryNum + 1) /\ msg[o] \in Msgs
  BY DEF TypeOK
<1>2. failures' = [failures EXCEPT ![o][msg[o]] = retryNum[o] + 1]
  <2>1. failures' = [failures EXCEPT ![o][msg[o]] = Counted(failures[o][msg[o]])]
    BY DEF SendFailed
  <2>2. Counted(failures[o][msg[o]]) = retryNum[o] + 1
    BY <1>1, NotifyJobAssumption DEF Counted
  <2>3. QED BY <2>1, <2>2, Zenon
<1>3. retryNum[o] + 1 \in 0..(MaxRetryNum + 2)
  BY <1>1, NotifyJobAssumption
<1>4. failures' \in [Orders -> [Msgs -> 0..(MaxRetryNum + 2)]]
  BY <1>1, <1>2, <1>3 DEF TypeOK
<1>5. CASE retryNum[o] > MaxRetryNum
  <2>1. NextMessage(o)
    BY <1>5 DEF SendFailed
  <2>2. QED BY <2>1, <1>2, <1>4, NextMessageIsTyped
<1>6. CASE ~(retryNum[o] > MaxRetryNum)
  <2>1. retryNum' = [retryNum EXCEPT ![o] = retryNum[o] + 1] /\ UNCHANGED <<at, msg>>
    BY <1>6 DEF SendFailed
  <2>2. retryNum[o] + 1 \in 0..(MaxRetryNum + 1)
    BY <1>1, <1>6, NotifyJobAssumption
  <2>3. QED BY <2>1, <2>2, <1>2, <1>4 DEF TypeOK
<1>7. QED BY <1>5, <1>6

LEMMA SendIsTyped ==
  ASSUME TypeOK, NEW o \in Orders, OrderInv(o), Send(o)
  PROVE  TypeOK'
<1>1. task' = task /\ UNCHANGED <<bound, retried, crashes>>
  BY DEF Send
<1>2. Cardinality({p \in Orders : task'[p] = "active"}) <= Concurrency
  BY <1>1 DEF TypeOK
<1>3. msg[o] \in Msgs /\ delivered[o][msg[o]] \in Nat
  BY DEF TypeOK
<1>4. failures[o][msg[o]] = retryNum[o]
  BY DEF Send, OrderInv, Sending, SendInv
<1>5. ASSUME delivered' = [delivered EXCEPT ![o][msg[o]] = @ + 1]
      PROVE  delivered' \in [Orders -> [Msgs -> Nat]]
  <2>1. delivered[o][msg[o]] + 1 \in Nat
    BY <1>3
  <2>2. QED BY <1>3, <1>5, <2>1 DEF TypeOK
<1>6. CASE /\ delivered' = [delivered EXCEPT ![o][msg[o]] = @ + 1]
           /\ Sent(o)
           /\ UNCHANGED <<lost, failures>>
  <2>1. NextMessage(o)
    BY <1>6 DEF Sent
  <2>2. QED BY <1>1, <1>2, <1>5, <1>6, <2>1, NextMessageIsTyped DEF TypeOK
<1>7. CASE /\ lost[o][msg[o]] < MaxLost
           /\ delivered' = [delivered EXCEPT ![o][msg[o]] = @ + 1]
           /\ lost' = [lost EXCEPT ![o][msg[o]] = @ + 1]
           /\ SendFailed(o)
  <2>1. lost[o][msg[o]] + 1 \in 0..MaxLost
    BY <1>3, <1>7, NotifyJobAssumption DEF TypeOK
  <2>2. lost' \in [Orders -> [Msgs -> 0..MaxLost]]
    BY <1>3, <1>7, <2>1 DEF TypeOK
  <2>3. QED BY <1>1, <1>2, <1>4, <1>5, <1>7, <2>2, SendFailedIsTyped DEF TypeOK
<1>8. CASE SendFailed(o) /\ UNCHANGED <<delivered, lost>>
  BY <1>1, <1>2, <1>4, <1>8, SendFailedIsTyped DEF TypeOK
<1>9. QED BY <1>6, <1>7, <1>8 DEF Send

-----------------------------------------------------------------------------
(* Messages                                                                *)

\* Steps of another order.
LEMMA Elsewhere ==
  ASSUME NEW p, OrderInv(p),
         UNCHANGED <<task[p], at[p], msg[p], retryNum[p],
                     delivered[p], lost[p], failures[p], crashes[p]>>
  PROVE  OrderInv(p)'
BY DEF OrderInv, Fresh, Sending, Finished, SendInv, Tried, Excused

\* Message m has come or failed for good, and the run leaves it.
LEMMA NextMessageKeeps ==
  ASSUME TypeOK, NEW o \in Orders, OrderInv(o), Sending(o), NextMessage(o),
         task' = task, crashes' = crashes,
         \A m \in Msgs : delivered'[o][m] <= 1 + lost'[o][m] + crashes[o],
         \A m \in Msgs \ {msg[o]} :
           /\ delivered'[o][m] = delivered[o][m] /\ lost'[o][m] = lost[o][m]
           /\ failures'[o][m] = failures[o][m],
         delivered'[o][msg[o]] > 0 \/ failures'[o][msg[o]] > MaxRetryNum
  PROVE  OrderInv(o)'
<1>1. msg[o] = 1 \/ msg[o] = 2
  BY DEF TypeOK, Msgs
<1>2. CASE msg[o] = 2
  <2>1. at'[o] = "return" /\ task'[o] = "active"
    BY <1>2 DEF NextMessage, TypeOK, Sending
  <2>2. Tried(o, 1)
    BY <1>2 DEF OrderInv, SendInv, Msgs
  <2>3. \A m \in Msgs : Tried(o, m)'
    BY <1>2, <2>2 DEF Tried, Msgs
  <2>4. QED BY <2>1, <2>3 DEF OrderInv, Fresh, Sending, Finished
<1>3. CASE msg[o] = 1
  <2>1. at'[o] = "send" /\ msg'[o] = 2 /\ retryNum'[o] = 0 /\ task'[o] = "active"
    BY <1>3 DEF NextMessage, TypeOK, Sending
  <2>2. Excused(o, 2) /\ failures[o][2] = 0
    BY <1>3 DEF OrderInv, SendInv, Msgs
  <2>3. Excused(o, 2)' /\ failures'[o][2] = 0
    BY <1>3, <2>2 DEF Excused, Msgs
  <2>4. Tried(o, 1)'
    BY <1>3 DEF Tried
  <2>5. SendInv(o)'
    BY <2>1, <2>3, <2>4 DEF SendInv, Msgs
  <2>6. QED BY <2>1, <2>5 DEF OrderInv, Fresh, Sending, Finished
<1>4. QED BY <1>1, <1>2, <1>3

\* A send failed, whether or not the message arrived with its answer lost.
LEMMA SendFailedKeeps ==
  ASSUME TypeOK, NEW o \in Orders, OrderInv(o), Sending(o), SendFailed(o),
         task' = task, crashes' = crashes,
         NEW d \in {0, 1},
         delivered'[o][msg[o]] = delivered[o][msg[o]] + d,
         lost'[o][msg[o]] = lost[o][msg[o]] + d,
         \A m \in Msgs \ {msg[o]} :
           delivered'[o][m] = delivered[o][m] /\ lost'[o][m] = lost[o][m]
  PROVE  OrderInv(o)'
<1>1. msg[o] \in Msgs /\ retryNum[o] \in Nat
  BY NotifyJobAssumption DEF TypeOK
<1>2. /\ failures'[o][msg[o]] = retryNum[o] + 1
      /\ \A m \in Msgs \ {msg[o]} : failures'[o][m] = failures[o][m]
  <2>1. failures' = [failures EXCEPT ![o][msg[o]] = retryNum[o] + 1]
    BY SendFailedIsTyped DEF OrderInv, SendInv
  <2>2. QED BY <1>1, <2>1 DEF TypeOK
<1>3. \A m \in Msgs : /\ delivered[o][m] \in Nat /\ lost[o][m] \in Nat
                      /\ crashes[o] \in Nat
  BY NotifyJobAssumption DEF TypeOK
<1>4. \A m \in Msgs : Excused(o, m) => Excused(o, m)'
  <2> SUFFICES ASSUME NEW m \in Msgs, Excused(o, m) PROVE Excused(o, m)'
    OBVIOUS
  <2>1. CASE m = msg[o]
    BY <1>3, <2>1 DEF Excused
  <2>2. CASE m # msg[o]
    BY <2>2 DEF Excused
  <2>3. QED BY <2>1, <2>2
<1>5. \A m \in Msgs : delivered'[o][m] <= 1 + lost'[o][m] + crashes[o]
  <2> SUFFICES ASSUME NEW m \in Msgs
               PROVE  delivered'[o][m] <= 1 + lost'[o][m] + crashes[o]
    OBVIOUS
  <2>1. delivered[o][m] <= 1 + lost[o][m] + crashes[o]
    BY DEF OrderInv
  <2>2. CASE m = msg[o]
    BY <1>3, <2>1, <2>2
  <2>3. CASE m # msg[o]
    BY <2>1, <2>3
  <2>4. QED BY <2>2, <2>3
<1>6. CASE retryNum[o] > MaxRetryNum
  <2>1. NextMessage(o)
    BY <1>6 DEF SendFailed
  <2>2. failures'[o][msg[o]] > MaxRetryNum
    BY <1>1, <1>2, <1>6, NotifyJobAssumption
  <2>3. QED BY <1>2, <1>5, <2>1, <2>2, NextMessageKeeps
<1>7. CASE ~(retryNum[o] > MaxRetryNum)
  <2>1. retryNum'[o] = retryNum[o] + 1 /\ UNCHANGED <<at, msg>>
    BY <1>7 DEF SendFailed, TypeOK
  <2>2. SendInv(o)
    BY DEF OrderInv
  <2>3. \A m \in Msgs : m >= msg'[o] => Excused(o, m)'
    BY <1>4, <2>1, <2>2 DEF SendInv
  <2>4. \A m \in Msgs : m < msg'[o] => Tried(o, m)'
    <3> SUFFICES ASSUME NEW m \in Msgs, m < msg[o] PROVE Tried(o, m)'
      BY <2>1
    <3>1. m # msg[o]
      BY <1>1 DEF Msgs
    <3>2. Tried(o, m)
      BY <2>2 DEF SendInv
    <3>3. QED BY <1>2, <3>1, <3>2 DEF Tried
  <2>5. \A m \in Msgs : m > msg'[o] => failures'[o][m] = 0
    <3> SUFFICES ASSUME NEW m \in Msgs, m > msg[o] PROVE failures'[o][m] = 0
      BY <2>1
    <3>1. m # msg[o]
      BY <1>1 DEF Msgs
    <3>2. QED BY <1>2, <2>2, <3>1 DEF SendInv
  <2>6. SendInv(o)'
    BY <1>2, <2>1, <2>3, <2>4, <2>5 DEF SendInv
  <2>7. QED BY <1>5, <2>1, <2>6 DEF OrderInv, Fresh, Sending, Finished
<1>8. QED BY <1>6, <1>7

LEMMA SendKeeps ==
  ASSUME TypeOK, NEW o \in Orders, OrderInv(o), Send(o)
  PROVE  OrderInv(o)'
<1>1. Sending(o) /\ task' = task /\ crashes' = crashes
  BY DEF Send, Sending
<1>2. msg[o] \in Msgs
  BY DEF TypeOK
<1>3. \A m \in Msgs : /\ delivered[o][m] \in Nat /\ lost[o][m] \in Nat
                      /\ crashes[o] \in Nat
  BY NotifyJobAssumption DEF TypeOK
<1>4. CASE /\ delivered' = [delivered EXCEPT ![o][msg[o]] = @ + 1]
           /\ Sent(o)
           /\ UNCHANGED <<lost, failures>>
  <2>1. NextMessage(o)
    BY <1>4 DEF Sent
  <2>2. /\ delivered'[o][msg[o]] = delivered[o][msg[o]] + 1
        /\ \A m \in Msgs \ {msg[o]} : delivered'[o][m] = delivered[o][m]
    BY <1>2, <1>4 DEF TypeOK
  <2>3. \A m \in Msgs : delivered'[o][m] <= 1 + lost'[o][m] + crashes[o]
    <3> SUFFICES ASSUME NEW m \in Msgs
                 PROVE  delivered'[o][m] <= 1 + lost'[o][m] + crashes[o]
      OBVIOUS
    <3>1. CASE m = msg[o]
      <4>1. delivered[o][m] <= lost[o][m] + crashes[o]
        BY <1>1, <1>2, <3>1 DEF OrderInv, SendInv, Excused, Msgs
      <4>2. QED BY <1>3, <1>4, <2>2, <3>1, <4>1
    <3>2. CASE m # msg[o]
      BY <1>4, <2>2, <3>2 DEF OrderInv
    <3>3. QED BY <3>1, <3>2
  <2>4. delivered'[o][msg[o]] > 0
    BY <1>2, <1>3, <2>2
  <2>5. QED BY <1>1, <1>4, <2>1, <2>2, <2>3, <2>4, NextMessageKeeps
<1>5. CASE /\ lost[o][msg[o]] < MaxLost
           /\ delivered' = [delivered EXCEPT ![o][msg[o]] = @ + 1]
           /\ lost' = [lost EXCEPT ![o][msg[o]] = @ + 1]
           /\ SendFailed(o)
  <2>1. /\ delivered'[o][msg[o]] = delivered[o][msg[o]] + 1
        /\ lost'[o][msg[o]] = lost[o][msg[o]] + 1
        /\ \A m \in Msgs \ {msg[o]} :
             delivered'[o][m] = delivered[o][m] /\ lost'[o][m] = lost[o][m]
    BY <1>2, <1>5 DEF TypeOK
  <2>2. QED BY <1>1, <1>5, <2>1, SendFailedKeeps
<1>6. CASE SendFailed(o) /\ UNCHANGED <<delivered, lost>>
  <2>1. /\ delivered'[o][msg[o]] = delivered[o][msg[o]] + 0
        /\ lost'[o][msg[o]] = lost[o][msg[o]] + 0
    BY <1>2, <1>3, <1>6
  <2>2. QED BY <1>1, <1>6, <2>1, SendFailedKeeps
<1>7. QED BY <1>4, <1>5, <1>6 DEF Send

\* A run that was in vain leaves the task to another.
LEMMA AgainKeeps ==
  ASSUME TypeOK, TypeOK', NEW o \in Orders, Again(o), task[o] = "active",
         \A m \in Msgs : Excused(o, m)'
  PROVE  OrderInv(o)'
<1>1. task'[o] \in {"pending", "archived"}
  BY AgainIsTyped
<1>2. \A m \in Msgs : /\ delivered'[o][m] \in Nat /\ lost'[o][m] \in Nat
                      /\ crashes'[o] \in Nat
  BY NotifyJobAssumption DEF TypeOK
<1>3. \A m \in Msgs : delivered'[o][m] <= 1 + lost'[o][m] + crashes'[o]
  BY <1>2 DEF Excused
<1>4. QED BY <1>1, <1>3 DEF OrderInv, Fresh, Sending, Finished

-----------------------------------------------------------------------------
(* The inductive invariant                                                 *)

LEMMA InitNotifyInv == Init => NotifyInv
<1> SUFFICES ASSUME Init PROVE NotifyInv
  OBVIOUS
<1>1. TypeOK
  BY InitIsTyped
<1>2. ASSUME NEW o \in Orders PROVE OrderInv(o)
  <2>1. /\ task[o] = "none" /\ crashes[o] = 0
        /\ \A m \in Msgs : delivered[o][m] = 0 /\ lost[o][m] = 0
    BY DEF Init
  <2>2. QED BY <2>1 DEF OrderInv, Fresh, Sending, Finished, Excused
<1>3. QED BY <1>1, <1>2 DEF NotifyInv

LEMMA EnqueueStep ==
  ASSUME NotifyInv, NEW o \in Orders, Enqueue(o)
  PROVE  NotifyInv'
<1>1. TypeOK'
  <2>1. Active' \subseteq Active
    BY DEF Enqueue, Active, NotifyInv, TypeOK
  <2>2. Cardinality(Active') <= Concurrency
    BY <2>1, NoMoreActive DEF NotifyInv
  <2>3. QED BY <2>2 DEF Active, Enqueue, NotifyInv, TypeOK, run, history
<1>2. ASSUME NEW p \in Orders PROVE OrderInv(p)'
  <2>1. CASE p = o
    <3>1. Fresh(o) /\ task'[o] = "pending"
      BY DEF Enqueue, Fresh, NotifyInv, TypeOK
    <3>2. \A m \in Msgs : Excused(o, m)
      BY <3>1 DEF NotifyInv, OrderInv
    <3>3. UNCHANGED <<run, history, crashes>>
      BY DEF Enqueue
    <3>4. QED BY <2>1, <3>1, <3>2, <3>3
              DEF NotifyInv, OrderInv, Fresh, Sending, Finished, Excused, run, history
  <2>2. CASE p # o
    BY <2>2, Elsewhere DEF Enqueue, NotifyInv, TypeOK, run, history
  <2>3. QED BY <2>1, <2>2
<1>3. QED BY <1>1, <1>2 DEF NotifyInv

LEMMA TakeStep ==
  ASSUME NotifyInv, NEW o \in Orders, Take(o)
  PROVE  NotifyInv'
<1>1. TypeOK'
  <2>1. Cardinality(Active') <= Concurrency
    BY OneMoreActive DEF NotifyInv
  <2>2. QED BY <2>1 DEF Active, Take, NotifyInv, TypeOK, history
<1>2. ASSUME NEW p \in Orders PROVE OrderInv(p)'
  <2>1. CASE p = o
    <3>1. Fresh(o) /\ task'[o] = "active" /\ at'[o] = "auth"
      BY DEF Take, Fresh, NotifyInv, TypeOK
    <3>2. \A m \in Msgs : Excused(o, m)
      BY <3>1 DEF NotifyInv, OrderInv
    <3>3. UNCHANGED <<history, crashes>>
      BY DEF Take
    <3>4. QED BY <2>1, <3>1, <3>2, <3>3
              DEF NotifyInv, OrderInv, Fresh, Sending, Finished, Excused, history
  <2>2. CASE p # o
    BY <2>2, Elsewhere DEF Take, NotifyInv, TypeOK, history
  <2>3. QED BY <2>1, <2>2
<1>3. QED BY <1>1, <1>2 DEF NotifyInv

LEMMA CrashStep ==
  ASSUME NotifyInv, NEW o \in Orders, Crash(o)
  PROVE  NotifyInv'
<1>1. TypeOK'
  <2>1. Again(o) /\ task[o] = "active" /\ UNCHANGED <<bound, run, history>>
    BY DEF Crash
  <2>2. Cardinality(Active') <= Concurrency
    BY <2>1, AgainIsTyped, NoMoreActive DEF NotifyInv
  <2>3. crashes' \in [Orders -> 0..MaxCrashes]
    <3>1. crashes[o] + 1 \in 0..MaxCrashes
      BY NotifyJobAssumption DEF Crash, NotifyInv, TypeOK
    <3>2. QED BY <3>1 DEF Crash, NotifyInv, TypeOK
  <2>4. /\ task' \in [Orders -> {"none", "pending", "active", "done", "archived"}]
        /\ retried' \in [Orders -> 0..MaxRetry]
    BY <2>1, AgainIsTyped DEF NotifyInv
  <2>5. QED BY <2>1, <2>2, <2>3, <2>4 DEF Active, NotifyInv, TypeOK, run, history
<1>2. ASSUME NEW p \in Orders PROVE OrderInv(p)'
  <2>1. CASE p = o
    <3>1. \A m \in Msgs : delivered[o][m] <= 1 + lost[o][m] + crashes[o]
      BY DEF NotifyInv, OrderInv
    <3>2. \A m \in Msgs : /\ delivered[o][m] \in Nat /\ lost[o][m] \in Nat
                          /\ crashes[o] \in Nat
      BY NotifyJobAssumption DEF NotifyInv, TypeOK
    <3>3. crashes'[o] = crashes[o] + 1 /\ UNCHANGED history
      BY DEF Crash, NotifyInv, TypeOK
    <3>4. \A m \in Msgs : Excused(o, m)'
      BY <3>1, <3>2, <3>3 DEF Excused, history
    <3>5. QED BY <1>1, <2>1, <3>4, AgainKeeps DEF Crash, NotifyInv
  <2>2. CASE p # o
    <3>1. task'[p] = task[p]
      BY <2>2, AgainIsTyped DEF Crash, NotifyInv
    <3>2. QED BY <2>2, <3>1, Elsewhere DEF Crash, NotifyInv, TypeOK, run, history
  <2>3. QED BY <2>1, <2>2
<1>3. QED BY <1>1, <1>2 DEF NotifyInv

LEMMA DoneStep ==
  ASSUME NotifyInv, NEW o \in Orders, Done(o)
  PROVE  NotifyInv'
<1>1. TypeOK'
  <2>1. Active' \subseteq Active
    BY DEF Done, Active, NotifyInv, TypeOK
  <2>2. Cardinality(Active') <= Concurrency
    BY <2>1, NoMoreActive DEF NotifyInv
  <2>3. QED BY <2>2 DEF Active, Done, NotifyInv, TypeOK, run, history
<1>2. ASSUME NEW p \in Orders PROVE OrderInv(p)'
  <2>1. CASE p = o
    <3>1. Finished(o) /\ task'[o] = "done"
      BY DEF Done, Finished, NotifyInv, TypeOK
    <3>2. \A m \in Msgs : Tried(o, m)
      BY <3>1 DEF NotifyInv, OrderInv
    <3>3. UNCHANGED <<history, crashes>>
      BY DEF Done
    <3>4. QED BY <2>1, <3>1, <3>2, <3>3
              DEF NotifyInv, OrderInv, Fresh, Sending, Finished, Tried, history
  <2>2. CASE p # o
    BY <2>2, Elsewhere DEF Done, NotifyInv, TypeOK, run, history
  <2>3. QED BY <2>1, <2>2
<1>3. QED BY <1>1, <1>2 DEF NotifyInv

LEMMA GetUserAuthStep ==
  ASSUME NotifyInv, NEW o \in Orders, GetUserAuth(o)
  PROVE  NotifyInv'
<1>1. /\ task[o] = "active" /\ at[o] = "auth"
      /\ UNCHANGED <<bound, delivered, lost, crashes>>
  BY DEF GetUserAuth
<1>2. \A m \in Msgs : Excused(o, m)
  BY <1>1 DEF NotifyInv, OrderInv, Fresh
<1>3. CASE Again(o) /\ UNCHANGED <<run, failures>>
  <2>1. TypeOK'
    <3>1. Cardinality(Active') <= Concurrency
      BY <1>1, <1>3, AgainIsTyped, NoMoreActive DEF NotifyInv
    <3>2. /\ task' \in [Orders -> {"none", "pending", "active", "done", "archived"}]
          /\ retried' \in [Orders -> 0..MaxRetry]
      BY <1>1, <1>3, AgainIsTyped DEF NotifyInv
    <3>3. QED BY <1>1, <1>3, <3>1, <3>2 DEF Active, NotifyInv, TypeOK, run
  <2>2. ASSUME NEW p \in Orders PROVE OrderInv(p)'
    <3>1. CASE p = o
      <4>1. \A m \in Msgs : Excused(o, m)'
        BY <1>1, <1>2 DEF Excused
      <4>2. QED BY <1>1, <1>3, <2>1, <3>1, <4>1, AgainKeeps DEF NotifyInv
    <3>2. CASE p # o
      <4>1. task'[p] = task[p]
        BY <1>1, <1>3, <3>2, AgainIsTyped DEF NotifyInv
      <4>2. QED BY <1>1, <1>3, <3>2, <4>1, Elsewhere DEF NotifyInv, run
    <3>3. QED BY <3>1, <3>2
  <2>3. QED BY <2>1, <2>2 DEF NotifyInv
<1>4. CASE /\ at' = [at EXCEPT ![o] = "send"]
           /\ msg' = [msg EXCEPT ![o] = 1]
           /\ retryNum' = [retryNum EXCEPT ![o] = 0]
           /\ failures' = [failures EXCEPT ![o] = [m \in Msgs |-> 0]]
           /\ UNCHANGED <<task, retried>>
  <2>1. TypeOK'
    <3>1. /\ 1 \in Msgs /\ 0 \in 0..(MaxRetryNum + 1)
          /\ [m \in Msgs |-> 0] \in [Msgs -> 0..(MaxRetryNum + 2)]
      BY NotifyJobAssumption DEF Msgs
    <3>2. QED BY <1>1, <1>4, <3>1 DEF NotifyInv, TypeOK
  <2>2. ASSUME NEW p \in Orders PROVE OrderInv(p)'
    <3>1. CASE p = o
      <4>1. /\ at'[o] = "send" /\ msg'[o] = 1 /\ retryNum'[o] = 0
            /\ task'[o] = "active" /\ \A m \in Msgs : failures'[o][m] = 0
        BY <1>1, <1>4 DEF NotifyInv, TypeOK
      <4>2. SendInv(o)'
        BY <1>1, <1>2, <4>1 DEF SendInv, Excused, Msgs
      <4>3. \A m \in Msgs : delivered'[o][m] <= 1 + lost'[o][m] + crashes'[o]
        BY <1>1 DEF NotifyInv, OrderInv
      <4>4. QED BY <3>1, <4>1, <4>2, <4>3 DEF OrderInv, Fresh, Sending, Finished
    <3>2. CASE p # o
      BY <1>1, <1>4, <3>2, Elsewhere DEF NotifyInv, TypeOK
    <3>3. QED BY <3>1, <3>2
  <2>3. QED BY <2>1, <2>2 DEF NotifyInv
<1>5. QED BY <1>3, <1>4 DEF GetUserAuth

LEMMA SendStep ==
  ASSUME NotifyInv, NEW o \in Orders, Send(o)
  PROVE  NotifyInv'
<1>1. TypeOK'
  BY SendIsTyped DEF NotifyInv
<1>2. ASSUME NEW p \in Orders, p # o PROVE OrderInv(p)'
  <2>1. /\ at'[p] = at[p] /\ msg'[p] = msg[p] /\ retryNum'[p] = retryNum[p]
        /\ delivered'[p] = delivered[p] /\ lost'[p] = lost[p] /\ failures'[p] = failures[p]
    BY <1>2 DEF Send, Sent, SendFailed, NextMessage, NotifyInv, TypeOK
  <2>2. UNCHANGED <<task[p], crashes[p]>>
    BY DEF Send
  <2>3. QED BY <2>1, <2>2, Elsewhere DEF NotifyInv
<1>3. OrderInv(o)'
  BY SendKeeps DEF NotifyInv
<1>4. QED BY <1>1, <1>2, <1>3 DEF NotifyInv

\* The invariant of the job is kept by every step.
THEOREM NotifyIsInvariant == Spec => []NotifyInv
<1>1. Init => NotifyInv
  BY InitNotifyInv
<1>2. NotifyInv /\ [Next]_vars => NotifyInv'
  <2> SUFFICES ASSUME NotifyInv, [Next]_vars PROVE NotifyInv'
    OBVIOUS
  <2>1. ASSUME NEW o \in Orders, Enqueue(o) PROVE NotifyInv'
    BY <2>1, EnqueueStep
  <2>2. ASSUME NEW o \in Orders, Take(o) PROVE NotifyInv'
    BY <2>2, TakeStep
  <2>3. ASSUME NEW o \in Orders, GetUserAuth(o) PROVE NotifyInv'
    BY <2>3, GetUserAuthStep
  <2>4. ASSUME NEW o \in Orders, Send(o) PROVE NotifyInv'
    BY <2>4, SendStep
  <2>5. ASSUME NEW o \in Orders, Done(o) PROVE NotifyInv'
    BY <2>5, DoneStep
  <2>6. ASSUME NEW o \in Orders, Crash(o) PROVE NotifyInv'
    BY <2>6, CrashStep
  <2>7. ASSUME NEW o \in Orders, Bind(o) PROVE NotifyInv'
    BY <2>7 DEF Bind, NotifyInv, TypeOK, OrderInv, Fresh, Sending, Finished, SendInv,
               Tried, Excused, run, history
  <2>8. CASE UNCHANGED vars
    BY <2>8 DEF vars, NotifyInv, TypeOK, OrderInv, Fresh, Sending, Finished, SendInv,
               Tried, Excused
  <2>9. QED BY <2>1, <2>2, <2>3, <2>4, <2>5, <2>6, <2>7, <2>8 DEF Next, Step
<1>3. QED BY <1>1, <1>2, PTL DEF Spec

\* For any limits and any number of orders, a message comes again only when its
\* answer was lost or a worker died: the retries in SendWxMini and those of asynq
\* never repeat what is known to be sent.
THEOREM RepeatsAreCaused == Spec => []RepeatsHaveACause
<1>1. NotifyInv => RepeatsHaveACause
  BY DEF NotifyInv, OrderInv, RepeatsHaveACause
<1>2. QED BY <1>1, NotifyIsInvariant, PTL

\* A task that is done has had each of its messages arrive, or fail as often as
\* a run of ProcessTask tries.
THEOREM NoneIsForgotten == Spec => []DoneMeansSentOrTried
<1>1. NotifyInv => DoneMeansSentOrTried
  BY DEF NotifyInv, OrderInv, Finished, Tried, DoneMeansSentOrTried
<1>2. QED BY <1>1, NotifyIsInvariant, PTL

\* asynq never has more tasks in work than it has workers.
THEOREM NotifyTypes == Spec => []TypeOK
BY NotifyIsInvariant, PTL DEF NotifyInv
=============================================================================
