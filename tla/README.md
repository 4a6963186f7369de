# Verification of the flash-sale system

TLA+ models of this repository's services, TLC configurations that check them on
small instances, and TLAPS proofs about the parts the others rest on.

## 1. Inventory

The repository is a set of go-zero microservices for renting homestays. The
seckill stock in Redis and the distributed lock that the top-level README
announces have no code.

| part | state | operations | talks to |
|---|---|---|---|
| generated models (`app/*/model/*_gen.go`), one for each of eight tables | a MySQL table with a `version` and a `del_state` column; in Redis one key for the id and one for each unique index of a row | Insert, FindOne, FindOneBy..., Update, UpdateWithVersion, Delete, DeleteSoft, the list queries | MySQL, Redis |
| order-rpc | `homestay_order.trade_state`, the prices of an order | CreateHomestayOrder, HomestayOrderDetail, UpdateHomestayOrderTradeState, UserHomestayOrderList | travel-rpc, asynq |
| order-mq | none | Consume of payment results | Kafka, order-rpc |
| mqueue-job | none | close an unpaid order, tell a user, settle (prints) | asynq, order-rpc, usercenter-rpc, WeChat |
| payment-rpc | `third_payment.pay_status`, `trade_state`, `pay_time` | CreatePayment, GetPaymentBySn, UpdateTradeState, GetPaymentSuccessRefundByOrderSn | Kafka |
| payment-api | none | pre-pay, WeChat notification | order-rpc, payment-rpc, usercenter-rpc, WeChat Pay |
| order-api | none | make an order, list and detail of orders | order-rpc, travel-rpc, payment-rpc |
| travel-rpc, travel-api | homestays, their owners, comments, activities | HomestayDetail; lists of homestays, of owners, of an owner's homestays | MySQL, usercenter-rpc |
| usercenter-rpc, usercenter-api | `user`, `user_auth` | Register, Login, WeChat login, GenerateToken, GetUserInfo, GetUserAuthBy... | MySQL, WeChat |
| mqueue-scheduler | none | a cron entry whose handler prints | asynq |
| `pkg` | none | errors, answers over HTTP, the RPC logger, the user id in a context | - |

How they interact. order-api asks travel-rpc whether the homestay exists;
order-rpc asks again, prices the order, inserts it in state WaitPay and enqueues a
delayed close task. payment-api creates a payment row and registers it with
WeChat Pay under the payment's serial number. WeChat notifies payment-api, which
asks payment-rpc to record the result; payment-rpc publishes it to Kafka.
order-mq consumes it and asks order-rpc to move the order to WaitUse. When the
delay has passed the close job looks at the order and asks order-rpc to cancel
it. The notification task asks usercenter-rpc for the openid of the user and
sends him two messages.

What is hard:

- Every read by a key may come from a stale cache, and several round trips lie
  between a read, the check of the state and the UPDATE. Only the `version` column
  in the WHERE clause stands between that and a lost update; `Update` and `Delete`
  do not even have that.
- A lookup by an index goes through two keys that expire and are deleted
  separately. A transaction deletes its keys before it commits.
- The close job, the consumer, repeated deliveries and repeated notifications
  race for one row; registrations race for unique index entries.
- Failures in the middle: a crash between UPDATE and DEL of the cache keys, a
  failed DEL that go-zero's cleaner repeats later, an enqueue or a push that
  fails after the commit and is only logged, a Kafka message whose handler fails
  and which is not delivered again, a WeChat message whose answer is lost.
- Lists are read page by page while rows come and go, and filled by concurrent
  lookups of which some fail or find nothing.
- Prices are read long before they are charged.
- Serial numbers of orders and payments are both strings.

What makes each part correct: for the models, that decisions made on stale rows
are never applied and that an index leads to the row it names; for the order
service, that a paid order is not cancelled, an unpaid one is not forgotten, and the
user is told once; for the payment service, that success is recorded before WeChat
is told to stop and is published once; for the whole, that the result of a payment
reaches its order; for the user centre, that registration is all or nothing and a
token goes to whom it belongs; for what is asked and charged, that it is
the price of the nights at one moment; for lists, that nothing is skipped or repeated; for
the HTTP services, that a client learns what is meant for him and no more.
`PROJECT.json` lists the hazards at their lines and the properties that cover them.

## 2. Modules

| module | models | state and actions |
|---|---|---|
| `VersionedRow` | what a generated model promises: a table of versioned rows with no cache | `table`, `committed` (history), `hand` (the copy each caller decides on); Create, Take (any row that was ever current), Advance (only if the copy is current), Drop |
| `CachedModel` | the part of the generated models that orders and payments use, with its Redis cache | `db`; the keys `idKey`, `snKey`; `unsent`, keys whose DEL failed; a program counter and locals per goroutine. Each action is one round trip: GET, SELECT, SETNX of the `*` placeholder, SET, UPDATE, DEL, and the sharing of a flight (go-zero's SingleFlight) |
| `GeneratedModel` | the whole reading and writing interface of a generated model, with any number of unique indexes, both deletions and the update without version | `schema`, the table a behaviour is about, which never changes; `rows`, `lastId`, `idKey`, `ixKey`, a program counter and locals per goroutine |
| `Tables` | the eight tables: for each its unique indexes, the rows its service inserts and the methods its callers use | the records that `schema` may be |
| `States` | state constants and pure functions: the verification of a change, the mapping of WeChat states and of payment states | operators |
| `Lifecycle` | what the order and the payment service promise about one order or payment, without cache, handlers and queues | `state`, `owed` (a change whose announcement is still to be made), `told`; Begin, Change, Announce, Fail |
| `OrderService` | order-rpc, the close job and the Kafka consumer over an instance of CachedModel | `job` (the handler each goroutine is in), `task` (asynq), `notify`, `topic` (Kafka), `faults`; one action per step of a handler |
| `PaymentService` | payment-rpc and payment-api over another instance | `job`, `wx` and `notices` (WeChat), `published`, `discounted`, `faults` |
| `FlashSale` | the way of a payment through both services, with both tables at the grain of VersionedRow | also `orderSn`, `task`, `topic`, `consumed` (history), `goal` |
| `Booking` | what an order costs: order-api, order-rpc's pricing, travel-rpc's detail, and the pre-pay call | `versions` of the homestay, `request`, `order`, `payments` |
| `UserCenter` | registration in its transaction, the three logins, the lookups | `users`, `auths`, open transactions with the index entries they hold, the index keys in Redis, a program counter and an answer per request |
| `NotifyJob` | telling users that they have paid: asynq's workers, retries and crashes, the two messages and their retries | `task`, `retried`, `at`, `msg`, `retryNum`, and what each message became |
| `Paging` | the list queries as walks of a client, page by page | the table, `seen`, `cursor`, `total` |
| `Lists` | the queries of the eight models and the lists of the services as kinds of walks | operators |
| `ActivityLists` | HomestayList and GoodBoss: a page whose entries are looked up by MapReduceVoid | `mapper`, `pipe`, `list`, `stage` |
| `Api` | the routes of the HTTP services, the steps and errors of each, and the way of an error through pkg/errors, gRPC and HTTP | `route`, `token`, `uid`, the step, `answer` |
| `HttpRequests` | Api with ActivityLists behind two of its routes | both |
| `*Proofs` | theorems; `GeneratedModelProofs` is about GeneratedModel and Paging, `RequestsProofs` about HttpRequests with Api and ActivityLists, and about Booking | - |
| `MC*` | instances for TLC | - |

A handler step of `OrderService` or `PaymentService` is the conjunction of an
action of its CachedModel instance and the update of the handler's own state. The
primary key is identified with the serial number: both are unique and fixed at
the INSERT. Two details look odd and are the code's: the INSERT deletes the row
key of id 0, because `data.Id` is not yet known (DelNew); and UpdateWithVersion
deletes the keys also when its UPDATE matched no row (DelKeys), which is what
frees the refused writer from its stale row.

In `UserCenter` a request may follow another one and carry its token; a key's
entry says whether it leads to a row, is the placeholder or is missing, which is
all that matters of rows that never change. An INSERT waits while another open
transaction holds the same index entry and fails when that one has committed.

`Booking` models two reads of the homestay, each of which may be of any version
it had, since both may come from a cache. Once gone, a homestay does not come back: no
id is given twice and nothing clears `del_state`.

`Paging` takes the column of an ORDER BY as a function of the ids and lets rows tie:
each query then breaks the tie anew. Ids are given out in order, but rows appear in
the order of their commits.

Definitions with "Mutant of" in their comment are no part of the specifications.
Each is a definition changed the way a plausible bug would change it; replacing
the definition by its mutant must break the property that `PROJECT.json` names,
which shows that the property depends on the code.

## 3. Runs

| run | configuration | what it shows |
|---|---|---|
| `cached_model` | `MCCachedModel.cfg`: 3 goroutines (symmetric), 1 row | SnapshotsCommitted: cache and callers only hold rows the table really had; VersionDeterminesRow; OneWinner; ChecksAreAtomic: a row is replaced only by a change checked on that row; RowsSpec: refinement of VersionedRow |
| `order_service` | `MCOrderService.cfg`: 1 order, 1 user, 1 worker, 1 consumer, 2 successful payments, 1 fault | FinishedCloseMeansDecided, NotifiedOnceAndPaid, DroppedResultsWereLate; WaitingIsWatched, PaidIsAnnounced: which step alone may lose a waiting order or an announcement; FollowsLifecycle: refinement of Lifecycle |
| `order_service_live` | `MCOrderServiceLive.cfg`: a success and an ignored failure, 1 fault | OrdersGetDecided |
| `payment_service` | `MCPaymentService.cfg`: 1 payment, 2 notification handlers, 1 fault | PublishedOnceAndPaid, AnsweredSuccessIsRecorded; RecordedIsPublished: which step alone may lose a publication; FollowsLifecycle; PaidIsPublished |
| `flash_sale` | `MCFlashSale.cfg`: 1 order, 2 payments, 2 handlers (symmetric) | ResultsTravel: no result is lost or multiplied |
| `flash_sale_lost` | `MCFlashSaleLost.cfg` | violated: PaidOrderLeavesWaitPay |
| `user_center` | `MCUserCenter.cfg`: 7 requests of one caller under three numbers, 1 fault | UsersAreBound, OneUserPerMobile, TokensAreForTheCaller; RequestsEnd, UsersAppear |
| `tables` | `MCTables.cfg`: 8 tables, 2 goroutines (symmetric), 1 row, 2 versions; the users also without versions and with 2 rows | IndexLeadsToRow, DeletedStaysDeleted |
| `lists` | `MCLists.cfg`: every list, 4 ids, pages of 1 and 2, activities with and without ties | NothingSkipped, NothingRepeated, TotalFits |
| `http_requests` | `MCHttpRequests.cfg`: every route, pages of up to 4, 2 mappers | InternalsStayInside, OwnErrorsArrive, UidIsCallers, ListIsWhatWasFound; RequestEnds |
| `booking` | `MCBooking.cfg`: days of 3 units, 7 times, up to 2 people, 3 versions of the homestay, 2 payments | TotalsAreOfNights, ChargedForNights |
| `notify` | `MCNotifyJob.cfg`: 2 orders, 1 worker, `MaxRetry` and `MaxRetryNum` 1, 1 lost answer per message and 1 crash per order | RepeatsHaveACause, DoneMeansSentOrTried; TasksEnd |

### What the violated property shows

`UpdateTradeState` publishes the payment's serial number (`in.Sn`) as
`OrderSn` (`updateTradeStateLogic.go:74`). The consumer looks for an order of
that number, finds none and drops the message. The paid order stays in WaitPay
and the close job cancels it.

`OrderService` is checked for messages that name orders, as its consumer expects;
the theorems about it hold for other numbers too. What it says of paid orders
holds once this is repaired.

### Other places where the code departs from its comments and documents

They follow from the models or were met while writing them. No run is about them:
in each the departure is one line, which the model contains as it is.

- The notification handler gives no pay time
  (`thirdPaymentWxPayCallbackLogic.go:99`), so `pay_time`, documented as the time
  of success (`flashsale_payment.sql:42`, `payment.proto:38`), becomes the epoch
  (`updateTradeStateLogic.go:68`).
- `GetPaymentSuccessRefundByOrderSn` compares the text `trade_state` with the
  numbers of `pay_status` and finds nothing
  (`getPaymentSuccessRefundByOrderSnLogic.go:33`).
- The WeChat login of a user who has registered by password is to bind him
  (`wxMiniAuthLogic.go:66`, "bind user."), but Register refuses a known number
  (`registerLogic.go:38`). A nickname that was given is dropped
  (`registerLogic.go:46`). The placeholder of a number that was looked up while its
  registration had deleted the key and not yet committed (`registerLogic.go:52`)
  hides the new user until it expires; UsersAppear says that it is not longer.
- The answer of order-api's list has no ids (`types.go:57-78`), while its
  next page is asked for by the last id (`userHomestayOrderListLogic.go:58`).
- An activity that names a homestay which does not exist makes the reducer panic
  (`homestayListLogic.go:54`, `:70`), although a homestay that is not found is
  passed over as no error.
- order-rpc refuses an order with "This record does not exist" if the homestay it is
  answered is nil (`createHomestayOrderLogic.go:54-56` of order-rpc). travel-rpc
  answers an empty homestay instead (`homestayDetailLogic.go:38-45`), so a homestay
  that order-api still found, in the cache or just before it went, is ordered at
  price 0. No service takes a homestay off; whoever does uses the model's methods or
  SQL.
- "Stay at least one night" (`:44` there) is said only of stays that do not end after
  they start (`:43`). One of less than a day passes, has 0 days (`:86`) and costs
  nothing. ChargedForNights allows these two cases of a free order, and no other.
- The activities are paged with OFFSET in the order of `data_id`
  (`homestayListLogic.go:39`), which no index makes unique
  (`flashsale_product.sql:58-62`). Activities with the same one may be passed over or
  given twice although nothing changes between two pages. NothingSkipped and
  NothingRepeated except them and no others; TLC finds a counterexample to either
  without the exception.
- A request that cannot be read is answered with the text of the parser's error
  (`httpResult.go:83`). InternalsStayInside allows that text in that answer and nowhere else.
- Lookups of a list that fail are logged, and the list is answered with 200 and
  without their entries (`homestayListLogic.go:54-57`, `goodBossLogic.go:58-61`).
- A message that fails is sent seven times, not five or six: the counter is
  compared before it is incremented (`paySuccessNotifyUser.go:105`, `:114`,
  `:118`).
- The page of an order panics when payment-rpc fails: the error is logged and the
  nil answer is used (`userHomestayOrderDetailLogic.go:64`, `:67`).
- The code of success is 200 (`responseBean.go:11`), where `LOCAL_START_GUIDE.md`
  lines 102 and 103 show 0.

### Bounds, and why they are enough

- One row, in `CachedModel` and the services. No action touches the keys of two
  rows, so rows interact only through goroutines, and each goroutine works on one
  at a time. The theorems hold for any number.
- Three goroutines for the cache: a slow reader that fills the cache with an old
  row, a writer, and a caller misled by that row.
- Versions of orders and payments need no bound: the allowed changes have no cycle
  (WaitPay to Cancel or WaitUse, WaitUse to Refund), so a row has at most three
  versions. `MCAllowed` leaves out Used and Expire, which no caller asks for and
  which take the place of Refund.
- `MaxFaults` bounds the failing calls, deletions, enqueues and pushes. One fault
  is enough to separate any two adjacent steps. The refinement of VersionedRow is
  checked on CachedModel itself, which contains every failure of a model call
  without a bound.
- One worker and one consumer, because one order has one close task and one
  partition's messages are handled in turn. Two messages allow two payments of an
  order. Redelivery of a task that is still running is modelled in `FlashSale`.
- `discounted` covers payments with and without a difference between
  `payer_total`, which the handler compares, and `pay_total`.
- The seven requests of `MCUserCenter`: two registrations by password, two logins
  by WeChat with one openid under different numbers (one of which is also
  registered by password, so that the requests hold index entries of one another in
  either table), a login by password, and the two lookups with a token.
- `Tables`: a row whose keys go stale at different times needs one writer and one
  reader; users are also written without the version, with two rows, so that a row
  may come again after a deletion.
- `Lists`: with four ids and pages of one or two there are a first, a middle and a
  last page, and rows can come and go before, on and after each. An id that was given
  out earlier may appear later, when its transaction commits. For `data_id` there is
  an order other than that of the ids, one with two rows that tie, and one with two
  pairs of them.
- `Booking`: days of three units make every remainder of a stay possible; of
  three versions of a homestay the last may be its absence.
- `NotifyJob`: one worker, so that two tasks compete; a message is given up at its
  third failure, and a task has one retry, one crash and one lost answer per message.

Deadlock is checked where the system goes on forever. It is not checked where the
system rightly stops: a payment whose pre-pay call failed or whose notices are all
answered, an order that is decided and consumed, a request that is answered, a walk
that is at its end, a table whose bounds are reached, tasks that are done.

### Fairness

- `OrderService`: weak fairness of each worker's own steps (asynq hands a due task
  to an idle worker) and of each goroutine's steps inside a call (the Go scheduler
  runs it until it ends or fails). Nothing forces a user, the publication of a
  result, the expiry of a key, the cleaner or a fault.
- `PaymentService`: weak fairness of each notification handler, and strong
  fairness of the delivery of a success notice. WeChat repeats a notice that was
  not answered with 200, and the handlers are idle again and again in between.
  PaidIsPublished excuses behaviours with a fault: a failed push is only logged.
- `UserCenter`: weak fairness of each request's own steps (an insert whose index
  entry is free again proceeds) and of the expiry of each key (the keys are set
  with a time to live). Nothing forces a request to be sent. UsersAppear needs the
  expiry: nothing else removes a placeholder that came late.
- `HttpRequests`: weak fairness of the request, whose goroutines are scheduled
  and whose calls return or fail.
- `NotifyJob`: weak fairness of a worker that has a task, and strong fairness of
  handing out a pending one, since the worker is free only now and then.

OrdersGetDecided needs no expiry of the cache: a refused writer deletes the row
that misled it, so the retry reads the table.

## 4. Proofs

TLAPS checks the theorems for every value of the constants that their modules'
assumptions allow. `PROJECT.json` lists them. The assumptions say that initial
states are states, that bounds are numbers, and that the marker `None` is no row,
state, message or serial number; TLC evaluates them in every run.

### CachedModelProofs

| theorem | property |
|---|---|
| InvHolds | the inductive invariant `Inv` |
| TypeCorrect | TypeOK |
| SnapshotsAreCommitted | SnapshotsCommitted |
| VersionsDetermineRows | VersionDeterminesRow |
| AtMostOneWinner | OneWinner |
| UpdatesAreChecked | ChecksAreAtomic |
| CacheIsTransparent | RowsSpec, the refinement of VersionedRow |

The safety properties are not inductive by themselves. `Inv` adds the shape of a
call (`OneShape`: what the locals hold at each program point, that the change to be
written was allowed on the caller's copy, and that a winner's copy is older than
the current row), that index keys name existing rows (`IndexHasRow`) and that an
absent serial number has no history (`AbsentIsNew`). The argument: `StoreStep`
shows that the table changes only by an INSERT or a matching UPDATE. A copy was
committed (SnapshotsCommitted) and versions identify committed rows
(VersionDeterminesRow), so a writer whose version matches holds the current row
itself (`MatchIsCurrent`). Then its check was a check of the current row, which is
ChecksAreAtomic, and its UPDATE is VersionedRow's Advance, which is the step of the
refinement that matters; every other step takes a copy, drops one or is invisible.

### OrderServiceProofs and PaymentServiceProofs

Both use what is proved of the cache instead of proving it again. `StepOfModel`
shows that every step of the service is a step of its CachedModel instance or leaves
it alone: the services call nothing but the model's methods. With it InvHolds of the
instance carries over (`ModelInv`). On it rests the invariant of each service, `ServiceInv`.

| theorem | property |
|---|---|
| OrderTypes | TypeOK of OrderService |
| OrdersFollowLifecycle, PaymentsFollowLifecycle | FollowsLifecycle, the refinement of Lifecycle |
| ClosesAreDecided | FinishedCloseMeansDecided |
| NotifiesOnce | NotifiedOnceAndPaid |
| DropsWereLate | DroppedResultsWereLate |
| OrdersAreWatched | WaitingIsWatched |
| PaidOrdersAreAnnounced | PaidIsAnnounced |
| PublishesOnce | PublishedOnceAndPaid |
| AnswersAreRecorded | AnsweredSuccessIsRecorded |
| RecordedArePublished | RecordedIsPublished |

Orders: an order waits for payment in the row of version 0 and in no other. So
whoever holds a row of a later version, or was refused because his version was no
longer the current one, finds the order decided (`LaterIsDecided`, `HeldIsDecided`):
that is what the close job, the consumer and a dropped result need. Among those who
hold a matching UPDATE to WaitUse, or stand before the enqueue after one, there is at
most one for an order (`Winner`), and nobody has announced it before him.

Payments: a success that is recorded stays (no change leads back to waiting); at
most one handler is the winner between its UPDATE and its push, nothing was
published before him, and a notice stays with WeChat until the row is no longer
waiting. An UPDATE that matched replaced a waiting row, by `MatchIsCurrent`.

The refinement maps the state of an order to the value of its row, what is owed to the
orders that have a `Winner`, and what was told to the tasks enqueued (for payments, to the
messages published). `Advances` is shown of every step: it keeps `ServiceInv` and is
a step of Lifecycle or none. An INSERT is Begin; an UPDATE that matches is Change, allowed
because the check was made on the very row it replaces, and with nothing owed before it because
an order that is paid cannot become so again; the enqueue is Announce, or Fail when asynq
refuses. Every other step either leaves the winners alone or is the death of one, which is
Fail (`HandlerLives`). That an announcement may fail for good is thus part of the promise;
PaidIsAnnounced and RecordedIsPublished say when: only by a failure in the very step in
which the winner would have made it. WaitingIsWatched is the same of an order that waits: it
passes from its creator to asynq and to a worker and back (`StaysWatched`), and a worker that
lets go of it does so because the order is decided (`ServiceInv`) or gives it back.

### FlashSaleProofs and UserCenterProofs

| theorem | property |
|---|---|
| FlashTypes | TypeOK |
| NoResultIsLost | ResultsTravel |
| UserCenterSafe | the inductive invariant `UserInv` |
| RegistrationIsAtomic | UsersAreBound |
| NumbersAreUnique | OneUserPerMobile |
| TokensAreRightful | TokensAreForTheCaller |

The way of a payment (`FlashInv`): the result of a recorded payment, and of no other,
is in exactly one place, in Kafka, with one handler or consumed (`TravelInv`). Each step
moves it to the next place or leaves it where it is. That needs three facts more: a
message is always the result of its own payment, so that two messages of a payment
are the same; a recorded success is for good, so that whoever holds an older row
and wants to record again fails (`RecordEnds`); and a notice stays with WeChat until its
success is recorded (`StoreInv`).

Registration (`UserInv`): an open transaction holds exactly the rows its request has
inserted so far (`TxShape`), none of which has an index entry or an id of a committed
row (`TxFresh`) or of another open transaction (`TxApart`). An insert keeps that, because
it waits for the transaction that holds its entry (`NotBlocked`) and fails when the entry
is committed; so a commit adds a user and his login record to tables that have neither. Committed
rows stay, and with them what every token that was issued says (`TokensLast`). The cache
occurs nowhere in the invariant: a stale placeholder delays a registration or a login and
endangers neither.

### NotifyJobProofs

| theorem | property |
|---|---|
| NotifyIsInvariant, NotifyTypes | the inductive invariant `NotifyInv`; TypeOK |
| RepeatsAreCaused | RepeatsHaveACause |
| NoneIsForgotten | DoneMeansSentOrTried |

`NotifyInv` says of each order that its messages before the current one are sent or
given up, that those after it are untouched in this run, and that what was
delivered is accounted for by lost answers and crashes; the number of active tasks
needs that there are finitely many orders.

### GeneratedModelProofs

| theorem | property |
|---|---|
| IndexesLeadToRows | IndexLeadsToRow |
| DeletedRowsStayDeleted | DeletedStaysDeleted |
| WalksAreInvariant | the inductive invariant `WalkInv` |
| WalksSkipNothing, WalksRepeatNothing | NothingSkipped, NothingRepeated |
| TotalsAreCounts | TotalFits, except for FindSum |

The keys of the cache go stale at different times, so no invariant relates one key to
another. What they all relate to is history: an id, once given, means the same columns in
every copy and under every index key, as long as it means anything (`IdsMeanOneRow`: there
is a map from the ids given so far to columns that all of them respect). An INSERT
extends the map by a new id, since AUTO_INCREMENT gives none twice; no other step touches
it. Besides, if nobody writes without the version, a copy is not newer than the row and
older than its deletion (`IsCopy`), so a writer with a copy from before the deletion is refused.

`WalkInv` treats the four kinds of walks apart. By id: everything that was always there
lies beyond the cursor or has been given, and nothing given lies beyond it. By page number
there is no cursor that rows come before or after, and what matters is rank in the column
ordered by: as long as no row went, the always present rows that were not given have as many
others before them as were passed, and as long as none came, those given are among so many
first ones. That places only a row that ties with no other (`Placed`), but it may stand among
rows that do (`FirstByRank`, `ShortPageIsLast`). The total is compared with the cardinality of what is
given through the rows that came and went since it was counted.

### RequestsProofs

| theorem | property |
|---|---|
| InternalsAreHidden, RefusalsArrive | InternalsStayInside, OwnErrorsArrive |
| CallersAreKnown | UidIsCallers |
| ListsHoldWhatWasFound | ListIsWhatWasFound |
| BookingTypes | TypeOK of Booking |
| NightsArePaid | TotalsAreOfNights |
| NightsAreCharged | ChargedForNights |

`ApiInv` says of an answer that was given what it may say, given the errors that were raised
(`MayBeTold`), and that beyond the token check of a guarded route there is a token. That each
route whose logic uses the caller's id is guarded is a fact about the table of routes
(`RoutesAreGuarded`), and what the error of a call becomes on its way through the RPC logger,
gRPC and HttpResult is one about these functions (`CallErrors`, `ResultsArePublic`).
`LookupsInv` accounts for each entry of a page: its lookup is to be done, is running, is
written to the pipe or has been read by the reducer, once, in any order. For any number of
entries and mappers the list therefore holds each that was found once (`NothingLost`).

`BookingInv` keeps the prices of an order among those the homestay had, and its payments
at its total. The rest is arithmetic: the truncated quotient of the seconds counts each whole
day once (`DaysAreNights`), for any length of a day.

### Only model-checked

- All liveness (OrdersGetDecided, PaidIsPublished, RequestsEnd, UsersAppear, RequestEnds,
  TasksEnd) and ENABLED, which are out of the prover's reach.
- The part of TotalFits that is about FindSum: the sum of a set is a fold, about which a
  proof would need an induction over sets.
- `Lists` and `Tables` only give values to the constants of Paging and GeneratedModel; that
  the values are those of the services is read off the code, not proved.

## 5. Abstractions and what is not modelled

- Columns that no decision depends on, texts and logging.
- asynq's limit of 25 retries in `OrderService`. They are spread over days by
  growing delays; without time a model would spend them on one slow reader.
  `NotifyJob` has it, as `MaxRetry`.
- An RPC whose caller's deadline passes ends at its next round trip (the context is
  passed on). A statement that MySQL executes after its caller gave up is not
  distinguished from one executed just before.
- kq commits a message also when its handler returned an error, and delivers again
  what was not committed when the consumer died.
- A failed SET of a cache key is a SET followed by its expiry.
- The INSERT of a payment writes the zero time as `pay_time`; the model takes it
  that MySQL accepts it.
- `FlashSale` merges the close job's detail call and its update call into one read
  and one decision, and a handler's round trips into Take and Advance or Drop; the
  finer grain is in `OrderService` and `PaymentService`.
- `GeneratedModel` looks at two goroutines per table and does not ask that the
  deleted row fades from the cache, which only the expiry of its keys does.
- Serial numbers are unique and unknown to anyone before the row exists
  (`uniqueid.GenSn`: time and eight random digits). Random strings are taken as
  unique and md5 as injective. A token is the id of its user.
- Messages about refunds are in the models and in the theorems, but in no run:
  nothing in the repository sends one.
- Times are numbers without width. In the code a stay of more than 292 years would be
  shortened to that by `Sub`.
- Prices are numbers without width. They are int64 in the code, and an order would
  need 10^17 cents to overflow.

Not modelled at all: the protobuf code and the types of the HTTP services, which have
no logic; the second copy of the generated models under `deploy/script/mysql/genModel`;
the healthz routes; mqueue-scheduler and its handler, which prints; CommentList,
which is empty; `JobResult` and `AuthHttpResult`, which nothing calls; deployment.

## 6. Plan

1. Done: the cached model and the whole of the generated ones; all services with
   state; the composition of the payment's way; lists, routes, prices and messages; the
   abstract specifications VersionedRow and Lifecycle with what implements them; the
   proofs of section 4, which state every safety property that a run checks, but for
   FindSum's part of TotalFits.
2. Left to model: a second worker and redelivery of close tasks in `OrderService`.
3. Left to prove: that `FlashSale`, whose tables are VersionedRows, gives each order and
   payment the life that `Lifecycle` describes; an abstract specification of
   registration, in which a user and his login record appear at once, implemented by
   `UserCenter`.
