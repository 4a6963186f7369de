------------------------------ MODULE NotifyJob -------------------------------
(***************************************************************************)
(* mqueue-job telling users that their orders are paid.  asynq hands the   *)
(* tasks to a limited number of workers, again after an error, or when a   *)
(* worker has died.  A run looks the user's openid up and then sends two   *)
(* messages, each of which it tries several times.                         *)
(***************************************************************************)
EXTENDS Integers, FiniteSets

CONSTANTS
  Orders,        \* orders that get paid
  Concurrency,   \* workers
  MaxRetry,      \* how often asynq repeats a task
  MaxRetryNum,   \* maxRetryNum, 5 in the code
  MaxLost,       \* bound on the messages of an order that arrive unanswered
  MaxCrashes     \* bound on the crashes

Msgs == 1..2     \* order paid, what to know about the stay

ASSUME NotifyJobAssumption ==
  /\ IsFiniteSet(Orders)
  /\ Concurrency \in Nat \ {0} /\ MaxRetry \in Nat /\ MaxRetryNum \in Nat
  /\ MaxLost \in Nat /\ MaxCrashes \in Nat

VARIABLES
  bound,     \* orders whose user has an openid
  task,      \* of each order: "none", "pending", "active", "done" or "archived"
  retried,   \* runs that were in vain
  at,        \* where the run of an active task is: "auth", "send" or "return"
  msg,       \* the message it sends
  retryNum,
  delivered, \* history: how often each message came
  lost,      \* history: of these, how often the answer did not
  failures,  \* history: failed sends of each message in the latest run
  crashes    \* history: how often a worker died with the task

vars == <<bound, task, retried, at, msg, retryNum, delivered, lost, failures, crashes>>

run == <<at, msg, retryNum>>
history == <<delivered, lost, failures>>

TypeOK ==
  /\ bound \subseteq Orders
  /\ task \in [Orders -> {"none", "pending", "active", "done", "archived"}]
  /\ Cardinality({o \in Orders : task[o] = "active"}) <= Concurrency
  /\ retried \in [Orders -> 0..MaxRetry]
  /\ at \in [Orders -> {"auth", "send", "return"}]
  /\ msg \in [Orders -> Msgs]
  /\ retryNum \in [Orders -> 0..(MaxRetryNum + 1)]
  /\ delivered \in [Orders -> [Msgs -> Nat]]
  /\ lost \in [Orders -> [Msgs -> 0..MaxLost]]
  /\ failures \in [Orders -> [Msgs -> 0..(MaxRetryNum + 2)]]
  /\ crashes \in [Orders -> 0..MaxCrashes]

Init ==
  /\ bound \in SUBSET Orders
  /\ task = [o \in Orders |-> "none"]
  /\ retried = [o \in Orders |-> 0]
  /\ at = [o \in Orders |-> "auth"]
  /\ msg = [o \in Orders |-> 1]
  /\ retryNum = [o \in Orders |-> 0]
  /\ delivered = [o \in Orders |-> [m \in Msgs |-> 0]]
  /\ lost = [o \in Orders |-> [m \in Msgs |-> 0]]
  /\ failures = [o \in Orders |-> [m \in Msgs |-> 0]]
  /\ crashes = [o \in Orders |-> 0]

-----------------------------------------------------------------------------
(* asynq                                                                   *)

\* order-rpc has set the order to WaitUse.
Enqueue(o) ==
  /\ task[o] = "none"
  /\ task' = [task EXCEPT ![o] = "pending"]
  /\ UNCHANGED <<bound, retried, run, history, crashes>>

Take(o) ==
  /\ task[o] = "pending"
  /\ Cardinality({p \in Orders : task[p] = "active"}) < Concurrency
  /\ task' = [task EXCEPT ![o] = "active"]
  /\ at' = [at EXCEPT ![o] = "auth"]
  /\ UNCHANGED <<bound, retried, msg, retryNum, history, crashes>>

\* The run was in vain: again, or never.
Again(o) ==
  IF retried[o] < MaxRetry
  THEN /\ task' = [task EXCEPT ![o] = "pending"]
       /\ retried' = [retried EXCEPT ![o] = @ + 1]
  ELSE task' = [task EXCEPT ![o] = "archived"] /\ UNCHANGED retried

\* A worker dies, wherever its run is, also when only asynq has not heard of its end.
Crash(o) ==
  /\ task[o] = "active" /\ crashes[o] < MaxCrashes
  /\ crashes' = [crashes EXCEPT ![o] = @ + 1]
  /\ Again(o)
  /\ UNCHANGED <<bound, run, history>>

Done(o) ==
  /\ task[o] = "active" /\ at[o] = "return"
  /\ task' = [task EXCEPT ![o] = "done"]
  /\ UNCHANGED <<bound, retried, run, history, crashes>>

\* The user logs in with WeChat.
Bind(o) ==
  /\ o \notin bound
  /\ bound' = bound \union {o}
  /\ UNCHANGED <<task, retried, run, history, crashes>>

-----------------------------------------------------------------------------
(* ProcessTask                                                             *)

\* Without an openid, or when the call fails, the task fails.
GetUserAuth(o) ==
  /\ task[o] = "active" /\ at[o] = "auth"
  /\ \/ Again(o) /\ UNCHANGED <<run, failures>>
     \/ /\ o \in bound
        /\ at' = [at EXCEPT ![o] = "send"]
        /\ msg' = [msg EXCEPT ![o] = 1]
        /\ retryNum' = [retryNum EXCEPT ![o] = 0]
        /\ failures' = [failures EXCEPT ![o] = [m \in Msgs |-> 0]]
        /\ UNCHANGED <<task, retried>>
  /\ UNCHANGED <<bound, delivered, lost, crashes>>

\* Mutant of NextMessage: the first is the last.
NoNextMessage(o) == at' = [at EXCEPT ![o] = "return"] /\ UNCHANGED <<msg, retryNum>>

\* SendWxMini returns, and the loop over the messages goes on.
NextMessage(o) ==
  /\ IF msg[o] = 2
     THEN at' = [at EXCEPT ![o] = "return"] /\ UNCHANGED msg
     ELSE msg' = [msg EXCEPT ![o] = 2] /\ UNCHANGED at
  /\ retryNum' = [retryNum EXCEPT ![o] = 0]

\* One more.  What no run should reach is counted to and fro, so that it is finite
\* and yet every failure is a step.
Counted(n) == IF n < MaxRetryNum + 3 THEN n + 1 ELSE MaxRetryNum + 2

\* Mutant of SendFailed: the retries are not counted.
SendFailedUncounted(o) ==
  /\ failures' = [failures EXCEPT ![o][msg[o]] = Counted(@)]
  /\ IF retryNum[o] > MaxRetryNum THEN NextMessage(o) ELSE UNCHANGED run

\* The number of retries is compared before the failed one is counted.
SendFailed(o) ==
  /\ failures' = [failures EXCEPT ![o][msg[o]] = Counted(@)]
  /\ IF retryNum[o] > MaxRetryNum
     THEN NextMessage(o)
     ELSE retryNum' = [retryNum EXCEPT ![o] = @ + 1] /\ UNCHANGED <<at, msg>>

\* Mutant of Sent: what was sent is sent again.
SentAgain(o) ==
  IF retryNum[o] > MaxRetryNum THEN NextMessage(o)
  ELSE retryNum' = [retryNum EXCEPT ![o] = @ + 1] /\ UNCHANGED <<at, msg>>

Sent(o) == NextMessage(o)

\* The message comes or not, and so does WeChat's answer.
Send(o) ==
  /\ task[o] = "active" /\ at[o] = "send"
  /\ \/ /\ delivered' = [delivered EXCEPT ![o][msg[o]] = @ + 1]
        /\ Sent(o)
        /\ UNCHANGED <<lost, failures>>
     \/ /\ lost[o][msg[o]] < MaxLost
        /\ delivered' = [delivered EXCEPT ![o][msg[o]] = @ + 1]
        /\ lost' = [lost EXCEPT ![o][msg[o]] = @ + 1]
        /\ SendFailed(o)
     \/ SendFailed(o) /\ UNCHANGED <<delivered, lost>>
  /\ UNCHANGED <<bound, task, retried, crashes>>

Step(o) == Take(o) \/ GetUserAuth(o) \/ Send(o) \/ Done(o)

Next == \E o \in Orders : Enqueue(o) \/ Step(o) \/ Crash(o) \/ Bind(o)

\* asynq hands out what is pending, and a worker that has a task goes on with it.
Fairness == \A o \in Orders : SF_vars(Take(o)) /\ WF_vars(Step(o))

Spec == Init /\ [][Next]_vars /\ Fairness

-----------------------------------------------------------------------------
(* Properties                                                              *)

\* A message comes twice only when WeChat's answer was lost or a worker died: the
\* retries of a message and those of the task never repeat what is known to be sent.
RepeatsHaveACause ==
  \A o \in Orders, m \in Msgs : delivered[o][m] <= 1 + lost[o][m] + crashes[o]

\* When a task is done, each of its messages has come, or has failed as often as a
\* run tries: the failure of one takes nothing from the other.
DoneMeansSentOrTried ==
  \A o \in Orders, m \in Msgs :
    task[o] = "done" => delivered[o][m] > 0 \/ failures[o][m] > MaxRetryNum

\* Every task gets done or archived, also those that wait for a worker that has
\* to do with an unwilling WeChat.
TasksEnd == <>[](\A o \in Orders : task[o] \in {"none", "done", "archived"})
=============================================================================
