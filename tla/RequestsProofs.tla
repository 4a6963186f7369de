---------------------------- MODULE RequestsProofs -----------------------------
(***************************************************************************)
(* Theorems about what a request to the HTTP services comes to.            *)
(* HttpRequests: for every route, any number of activities on a page and   *)
(* of mappers.  Booking: for all prices, stays, numbers of people, and any *)
(* number of changes of the homestay and of tries to pay.                  *)
(***************************************************************************)
EXTENDS HttpRequests, Booking, FiniteSetTheorems, TLAPS

(***************************************************************************)
(* Booking                                                                 *)
(***************************************************************************)

Homestays == [homestay : Nat, food : Nat]

Orders == [price : Homestays, homestayTotal : Nat, foodTotal : Nat, total : Nat]

\* What a stay of n days costs at the prices p.
CostOf(p, n) ==
  p.homestay * n + (IF request.food THEN p.food * request.people * n ELSE 0)

\* An order is for a stay that ends after it begins, and costs its whole days.
TotalsInv ==
  \A i \in DOMAIN order :
    request.to > request.from /\ order[i].total = CostOf(order[i].price, LiveDays)

\* It has the prices of one moment, and that is what is charged for it.
SnapshotInv == \A i \in DOMAIN order : order[i].price \in ToSet(versions)

ChargedInv ==
  \A i \in DOMAIN payments :
    /\ payments[i].payTotal = order[1].total
    /\ payments[i].charged \in {-1, order[1].total}

\* An order is there when the request is at step "ordered", and is paid only then.
BookingInv ==
  /\ TypeOK
  /\ SnapshotInv
  /\ TotalsInv
  /\ ChargedInv
  /\ step # "ordered" => payments = <<>>
  /\ payments \in Seq([payTotal : Nat, charged : Nat \union {-1}])

LEMMA PricesAreNat == Prices \union {Gone} \subseteq Homestays
BY BookingAssumption DEF Gone, Homestays

LEMMA ProductIsNat == \A a, b \in Nat : a * b \in Nat
BY SMT

LEMMA QuotientIsNat ==
  \A a \in Nat, b \in Nat \ {0} :
    a \div b \in Nat /\ (a \div b) * b <= a /\ a < (a \div b) * b + b
BY SMT

LEMMA ProductIsMonotone == \A a, b, c \in Nat : a <= b => a * c <= b * c
BY SMT

LEMMA ProductDistributes ==
  \A a, b, c \in Nat : /\ (a + b) * c = a * c + b * c
                        /\ (a * b) * c = a * (b * c) /\ a * b = b * a
BY SMT

\* The multiples of b up to a are as many as the quotient.
LEMMA WholeTimes ==
  ASSUME NEW a \in Nat, NEW b \in Nat \ {0}, NEW n \in Nat
  PROVE  n * b <= a <=> n <= a \div b
<1> DEFINE q == a \div b
<1>1. q \in Nat /\ q * b \in Nat /\ q * b <= a /\ a < q * b + b
  BY QuotientIsNat, ProductIsNat
<1> HIDE DEF q
<1>2. n <= q => n * b <= q * b
  BY <1>1, ProductIsMonotone
<1>3. q + 1 <= n => q * b + b <= n * b
  <2>1. (q + 1) * b = q * b + b
    BY <1>1, ProductDistributes
  <2>2. QED BY <1>1, <2>1, ProductIsMonotone
<1>4. n * b \in Nat
  BY ProductIsNat
<1>5. QED BY <1>1, <1>2, <1>3, <1>4 DEF q

\* What an order comes to is a natural number when the stay ends after it begins.
LEMMA OrderIsTyped ==
  ASSUME TypeOK, request.to > request.from, NEW p \in ToSet(versions)
  PROVE  /\ OrderOf(p) \in Orders /\ OrderOf(p).price = p
         /\ OrderOf(p).total = CostOf(p, LiveDays)
<1>1. p \in Homestays
  BY PricesAreNat DEF TypeOK, ToSet
<1>2. LiveDays \in Nat
  <2>1. request.to \in Nat /\ request.from \in Nat
    <3>1. request.to \in Times /\ request.from \in Times
      BY DEF TypeOK, Requests
    <3>2. QED BY <3>1, BookingAssumption
  <2>2. request.to - request.from \in Nat
    BY <2>1
  <2>3. QED BY <2>2, QuotientIsNat, BookingAssumption DEF LiveDays
<1>3. p.homestay * LiveDays \in Nat
  BY <1>1, <1>2, ProductIsNat DEF Homestays
<1>4. p.food * request.people * LiveDays \in Nat
  <2>1. request.people \in Nat
    BY BookingAssumption DEF TypeOK, Requests
  <2>2. p.food * request.people \in Nat
    BY <1>1, <2>1, ProductIsNat DEF Homestays
  <2>3. QED BY <1>2, <2>2, ProductIsNat
<1> DEFINE h == p.homestay * LiveDays
           f == IF request.food THEN p.food * request.people * LiveDays ELSE 0
<1>5. h \in Nat /\ f \in Nat
  BY <1>3, <1>4
<1>6. OrderOf(p) = [price |-> p, homestayTotal |-> h, foodTotal |-> f, total |-> h + f]
  BY DEF OrderOf
<1> HIDE DEF h, f
<1>7. h + f = CostOf(p, LiveDays)
  BY DEF CostOf, h, f
<1>8. QED BY <1>1, <1>5, <1>6, <1>7 DEF Orders

LEMMA InitBooks == BookingInit => BookingInv
<1> SUFFICES ASSUME BookingInit PROVE BookingInv
  OBVIOUS
<1>1. versions \in Seq(Prices \union {Gone})
  <2>1. PICK p \in Prices \union {Gone} : versions = <<p>>
    BY DEF BookingInit
  <2>2. QED BY <2>1
<1>2. QED
  BY <1>1 DEF BookingInit, BookingInv, TypeOK, SnapshotInv, TotalsInv, ChargedInv

LEMMA EditStep ==
  ASSUME BookingInv, Edit
  PROVE  BookingInv'
<1>1. PICK p \in (Prices \union {Gone}) \ {Last(versions)} : versions' = Append(versions, p)
  BY DEF Edit
<1>2. versions \in Seq(Prices \union {Gone})
  BY DEF BookingInv, TypeOK
<1>3. versions' \in Seq(Prices \union {Gone}) /\ ToSet(versions) \subseteq ToSet(versions')
  BY <1>1, <1>2 DEF ToSet
<1>4. UNCHANGED <<step, request, order, payments>>
  BY DEF Edit
<1>5. TypeOK'
  BY <1>3, <1>4 DEF BookingInv, TypeOK, Requests
<1>6. SnapshotInv'
  BY <1>3, <1>4 DEF BookingInv, SnapshotInv
<1>7. TotalsInv'
  BY <1>4 DEF BookingInv, TotalsInv, CostOf, LiveDays
<1>8. QED BY <1>4, <1>5, <1>6, <1>7 DEF BookingInv, ChargedInv

LEMMA CheckStep ==
  ASSUME BookingInv, CheckHomestay
  PROVE  BookingInv'
<1>1. step = "start" /\ step' \in {"refused", "create"}
      /\ UNCHANGED <<versions, request, order, payments>>
  BY DEF CheckHomestay
<1>2. TotalsInv'
  BY <1>1 DEF BookingInv, TotalsInv, CostOf, LiveDays
<1>3. QED
  BY <1>1, <1>2 DEF BookingInv, TypeOK, Requests, SnapshotInv, ChargedInv

LEMMA CreateStep ==
  ASSUME BookingInv, CreateHomestayOrder
  PROVE  BookingInv'
<1>1. step = "create" /\ payments = <<>> /\ UNCHANGED <<versions, request, payments>>
  BY DEF CreateHomestayOrder, BookingInv
<1>2. CASE step' = "refused" /\ UNCHANGED order
  <2>1. TotalsInv'
    BY <1>1, <1>2 DEF BookingInv, TotalsInv, CostOf, LiveDays
  <2>2. QED
    BY <1>1, <1>2, <2>1 DEF BookingInv, TypeOK, Requests, SnapshotInv, ChargedInv
<1>3. CASE /\ request.to > request.from
           /\ \E p \in HomestayDetail : order' = <<OrderOf(p)>>
           /\ step' = "ordered"
  <2>1. PICK p \in ToSet(versions) : order' = <<OrderOf(p)>>
    BY <1>3 DEF HomestayDetail
  <2>2. /\ OrderOf(p) \in Orders /\ OrderOf(p).price = p
        /\ OrderOf(p).total = CostOf(p, LiveDays)
    BY <1>3, OrderIsTyped DEF BookingInv
  <2> HIDE DEF OrderOf
  <2>3. order' \in Seq(Orders) /\ Len(order') = 1 /\ order'[1] = OrderOf(p)
    BY <2>1, <2>2
  <2>4. TypeOK'
    BY <1>1, <1>3, <2>2, <2>3 DEF BookingInv, TypeOK, Requests, Orders, Homestays
  <2>5. SnapshotInv'
    BY <1>1, <2>1, <2>2, <2>3 DEF SnapshotInv
  <2>6. ChargedInv'
    BY <1>1 DEF ChargedInv
  <2>7. TotalsInv'
    <3>1. LiveDays' = LiveDays /\ CostOf(p, LiveDays)' = CostOf(p, LiveDays)
      BY <1>1 DEF LiveDays, CostOf
    <3>2. DOMAIN order' = {1}
      BY <2>1
    <3>3. CostOf(order[1].price, LiveDays)' = CostOf(p, LiveDays)
      BY <1>1, <2>2, <2>3, <3>1 DEF CostOf
    <3>4. QED BY <1>1, <1>3, <2>2, <2>3, <3>2, <3>3 DEF TotalsInv
  <2>8. QED BY <1>1, <2>4, <2>5, <2>6, <2>7 DEF BookingInv
<1>4. QED BY <1>2, <1>3 DEF CreateHomestayOrder

LEMMA PayStep ==
  ASSUME BookingInv, ThirdPaymentwxPay
  PROVE  BookingInv'
<1>1. step = "ordered" /\ UNCHANGED <<versions, step, request, order>>
  BY DEF ThirdPaymentwxPay
<1>2. PICK prepaid \in BOOLEAN :
        payments' = Append(payments,
          [payTotal |-> PayPrice, charged |-> IF prepaid THEN PayPrice ELSE -1])
  BY DEF ThirdPaymentwxPay
<1>3. PayPrice \in Nat
  <2>1. 1 \in DOMAIN order
    BY <1>1 DEF BookingInv, TypeOK
  <2>2. QED BY <2>1 DEF BookingInv, TypeOK, PayPrice
<1> DEFINE try == [payTotal |-> PayPrice, charged |-> IF prepaid THEN PayPrice ELSE -1]
<1>4. /\ try \in [payTotal : Nat, charged : Nat \union {-1}]
      /\ try.payTotal = PayPrice /\ try.charged \in {-1, PayPrice}
  BY <1>3
<1> HIDE DEF try
<1>5. payments' = Append(payments, try)
  BY <1>2 DEF try
<1>6. payments' \in Seq([payTotal : Nat, charged : Nat \union {-1}])
  BY <1>4, <1>5 DEF BookingInv
<1>7. \A i \in DOMAIN payments' :
        (i \in DOMAIN payments /\ payments'[i] = payments[i]) \/ payments'[i] = try
  BY <1>4, <1>5 DEF BookingInv
<1>8. TypeOK'
  <2>1. \A i \in DOMAIN payments' :
          payments'[i] \in [payTotal : Nat, charged : Nat \union {-1}]
    BY <1>4, <1>7 DEF BookingInv, TypeOK
  <2>2. QED BY <1>1, <2>1 DEF BookingInv, TypeOK, Requests
<1>9. ChargedInv'
  BY <1>1, <1>4, <1>7 DEF BookingInv, ChargedInv, PayPrice
<1>10. TotalsInv'
  BY <1>1 DEF BookingInv, TotalsInv, CostOf, LiveDays
<1>11. QED BY <1>1, <1>6, <1>8, <1>9, <1>10 DEF BookingInv, SnapshotInv

LEMMA BookingIsInvariant == BookingSpec => []BookingInv
<1>1. BookingInv /\ [BookingNext]_bookingVars => BookingInv'
  <2> SUFFICES ASSUME BookingInv, [BookingNext]_bookingVars PROVE BookingInv'
    OBVIOUS
  <2>1. CASE BookingNext
    BY <2>1, EditStep, CheckStep, CreateStep, PayStep DEF BookingNext
  <2>2. CASE UNCHANGED bookingVars
    BY <2>2 DEF bookingVars, BookingInv, TypeOK, Requests, SnapshotInv,
              TotalsInv, CostOf, LiveDays, ChargedInv
  <2>3. QED BY <2>1, <2>2
<1>2. QED BY InitBooks, <1>1, PTL DEF BookingSpec

\* The totals of an order are natural numbers, of whatever prices and stays.
THEOREM BookingTypes == BookingSpec => []TypeOK
<1>1. BookingInv => TypeOK
  BY DEF BookingInv
<1>2. QED BY BookingIsInvariant, <1>1, PTL

\* The whole days of a stay are its nights.
LEMMA DaysAreNights ==
  ASSUME TypeOK, request.to > request.from
  PROVE  Nights = 1..LiveDays /\ LiveDays \in Nat
<1>1. request.to \in Nat /\ request.from \in Nat
  <2>1. request.to \in Times /\ request.from \in Times
    BY DEF TypeOK, Requests
  <2>2. QED BY <2>1, BookingAssumption
<1> DEFINE a == request.to - request.from
<1>2. a \in Nat /\ a <= request.to /\ Day \in Nat \ {0}
  BY <1>1, BookingAssumption
<1>3. LiveDays \in Nat /\ LiveDays <= a
  <2>1. /\ a \div Day \in Nat /\ (a \div Day) * Day <= a
        /\ (a \div Day) * 1 <= (a \div Day) * Day
    BY <1>2, QuotientIsNat, ProductIsMonotone, ProductDistributes
  <2>2. QED BY <1>2, <2>1 DEF LiveDays
<1>4. ASSUME NEW n \in Nat
      PROVE  request.from + n * Day <= request.to <=> n <= LiveDays
  <2>1. n * Day <= a <=> n <= a \div Day
    BY <1>2, WholeTimes
  <2>2. n * Day \in Nat
    BY <1>2, ProductIsNat
  <2>3. QED BY <1>1, <2>1, <2>2 DEF LiveDays
<1>5. QED BY <1>1, <1>2, <1>3, <1>4 DEF Nights

\* The products of the code come to the nights times what each costs.
LEMMA CostsAreOfNights ==
  ASSUME BookingInv, NEW i \in DOMAIN order
  PROVE  order[i].total = Cardinality(Nights) * EachNight(order[i].price)
<1> DEFINE h == order[i].price.homestay
           f == order[i].price.food
           q == request.people
           n == LiveDays
<1>1. h \in Nat /\ f \in Nat /\ q \in Nat
  BY BookingAssumption DEF BookingInv, TypeOK, Requests
<1>2. Cardinality(Nights) = n /\ n \in Nat
  <2>1. request.to > request.from
    BY DEF BookingInv, TotalsInv
  <2>2. Nights = 1..n /\ n \in Nat
    BY <2>1, DaysAreNights DEF BookingInv
  <2>3. QED BY <2>2, FS_Interval
<1>3. order[i].total = h * n + (IF request.food THEN f * q * n ELSE 0)
  BY DEF BookingInv, TotalsInv, CostOf
<1> HIDE DEF h, f, q, n
<1>4. f * q \in Nat /\ f * q = q * f /\ h * n = n * h /\ h * n \in Nat
  BY <1>1, <1>2, ProductIsNat, ProductDistributes
<1>5. (h + q * f) * n = h * n + (q * f) * n /\ (h + q * f) * n = n * (h + q * f)
  BY <1>1, <1>2, <1>4, ProductDistributes
<1>6. order[i].total = n * (h + IF request.food THEN q * f ELSE 0)
  BY <1>1, <1>3, <1>4, <1>5
<1>7. QED BY <1>2, <1>6 DEF h, f, q, EachNight

\* What an order costs is the price of a night, with the food of all, times the
\* nights of the stay, for whatever times the guest asks.
THEOREM NightsArePaid == BookingSpec => []TotalsAreOfNights
<1>1. BookingInv => TotalsAreOfNights
  BY CostsAreOfNights DEF TotalsAreOfNights
<1>2. QED BY BookingIsInvariant, <1>1, PTL

\* Whatever the owner changes between the request and the payments, the order, its
\* payments and the WeChat orders are of one price: the nights at the prices that the
\* homestay had at one moment.
THEOREM NightsAreCharged == BookingSpec => []ChargedForNights
<1>1. BookingInv => ChargedForNights
  <2>1. SUFFICES ASSUME BookingInv, order # <<>> PROVE ChargedForNights
    BY DEF ChargedForNights
  <2> DEFINE p == order[1].price
             cost == Cardinality(Nights) * EachNight(p)
  <2>2. 1 \in DOMAIN order
    BY <2>1 DEF BookingInv, TypeOK
  <2>3. p \in ToSet(versions)
    BY <2>1, <2>2 DEF BookingInv, SnapshotInv
  <2>4. order[1].total = cost
    BY <2>1, <2>2, CostsAreOfNights
  <2> HIDE DEF cost, p
  <2>5. \A i \in DOMAIN payments :
          payments[i].payTotal = cost /\ payments[i].charged \in {-1, cost}
    BY <2>1, <2>4 DEF BookingInv, ChargedInv
  <2>6. QED BY <2>3, <2>4, <2>5 DEF ChargedForNights, cost
<1>2. QED BY BookingIsInvariant, <1>1, PTL

(***************************************************************************)
(* The requests of Api                                                     *)
(***************************************************************************)

\* The steps of a handler are those of its logic, after the parsing.
LEMMA HandlerSteps ==
  ASSUME NEW K, NEW logic \in Seq(K), NEW i \in DOMAIN Handler(logic)
  PROVE  Handler(logic)[i] \in {Parse} \union {logic[j] : j \in DOMAIN logic}
BY DEF Handler

\* The logic of the routes that need no token, apart from the two lists.
OpenLogics ==
  {<<Pass>>, <<Db>>, HomestayDetailLogic, GuessListLogic, HomestayBussinessDetailLogic,
   CommentListLogic}

\* That of the routes that do.
JwtLogics ==
  {DetailLogic, <<Mask, Mask, Mask, May, Mask, Mask>>, <<Pass, Own, Uid, Mask>>, <<Uid, Mask>>,
   UserHomestayOrderDetailLogic, <<Own, Mask, Uid, Mask, Own, Mask, Plain, Mask>>}

ListNames == {"homestayList", "goodBoss"}

LEMMA RoutesAre ==
  ASSUME NEW r \in Routes
  PROVE  \/ ~r.jwt /\ \E logic \in OpenLogics : r.handler = Handler(logic)
         \/ ~r.jwt /\ r.name \in ListNames /\ r.handler = Handler(<<Activities>>)
         \/ r.jwt /\ \E logic \in JwtLogics : r.handler = Handler(logic)
BY DEF Routes, UsercenterRoutes, OrderRoutes, PaymentRoutes, TravelRoutes, Open, WithJwt,
       OpenLogics, JwtLogics, ListNames, LoginHandler, RegisterHandler, DetailHandler,
       WxMiniAuthHandler, CreateHomestayOrderHandler, UserHomestayOrderListHandler,
       UserHomestayOrderDetailHandler, ThirdPaymentwxPayHandler, BusinessListHandler,
       GuessListHandler, HomestayDetailHandler, HomestayListHandler, GoodBossHandler,
       HomestayBussinessDetailHandler, HomestayBussinessListHandler, CommentListHandler

LEMMA OpenSteps ==
  ASSUME NEW logic \in OpenLogics, NEW j \in DOMAIN Handler(logic)
  PROVE  Handler(logic)[j] \notin {Uid, Activities}
<1> DEFINE K == {Pass, Mask, Db, May}
<1>1. logic \in Seq(K)
  <2>1. Pass \in K /\ Mask \in K /\ Db \in K /\ May \in K
    OBVIOUS
  <2> HIDE DEF K
  <2>2. /\ <<Pass>> \in Seq(K) /\ <<Db>> \in Seq(K) /\ <<Mask>> \in Seq(K)
        /\ <<Db, May, Mask>> \in Seq(K) /\ <<>> \in Seq(K)
    BY <2>1
  <2>3. QED
    BY <2>2 DEF OpenLogics, HomestayDetailLogic, GuessListLogic, HomestayBussinessDetailLogic,
                CommentListLogic
<1>2. {Uid, Activities} \intersect (K \union {Parse}) = {}
  BY DEF Parse, Uid, Pass, Mask, Db, Activities, May
<1> HIDE DEF K
<1>3. \A i \in DOMAIN logic : logic[i] \in K
  BY <1>1
<1>4. QED BY <1>1, <1>2, <1>3, HandlerSteps

LEMMA JwtSteps ==
  ASSUME NEW logic \in JwtLogics, NEW j \in DOMAIN Handler(logic)
  PROVE  Handler(logic)[j] # Activities
<1> DEFINE K == {Pass, Mask, Own, Uid, Plain, Logged, May}
<1>1. logic \in Seq(K)
  <2>1. /\ Pass \in K /\ Mask \in K /\ Own \in K /\ Uid \in K /\ Plain \in K /\ Logged \in K
        /\ May \in K
    OBVIOUS
  <2> HIDE DEF K
  <2>2. /\ <<Uid, Pass>> \in Seq(K) /\ <<Mask, Mask, Mask, May, Mask, Mask>> \in Seq(K)
        /\ <<Pass, Own, Uid, Mask>> \in Seq(K) /\ <<Uid, Mask>> \in Seq(K)
        /\ <<Uid, Mask, May, Logged>> \in Seq(K)
        /\ <<Own, Mask, Uid, Mask, Own, Mask, Plain, Mask>> \in Seq(K)
    BY <2>1
  <2>3. QED BY <2>2 DEF JwtLogics, DetailLogic, UserHomestayOrderDetailLogic
<1>2. Activities \notin K \union {Parse}
  BY DEF Parse, Uid, Pass, Mask, Activities, May, Own, Plain, Logged
<1> HIDE DEF K
<1>3. \A i \in DOMAIN logic : logic[i] \in K
  BY <1>1
<1>4. QED BY <1>1, <1>2, <1>3, HandlerSteps

LEMMA RoutesAreSequences ==
  ASSUME NEW r \in Routes
  PROVE  Len(r.handler) \in Nat /\ DOMAIN r.handler = 1..Len(r.handler)
<1> DEFINE K == {Parse, Uid, Pass, Mask, Logged, Db, Own, Plain, Activities, May}
<1>1. /\ Parse \in K /\ Pass \in K /\ Mask \in K /\ Own \in K /\ Uid \in K /\ Plain \in K
      /\ Logged \in K /\ May \in K /\ Db \in K /\ Activities \in K
  OBVIOUS
<1> HIDE DEF K
<1>2. OpenLogics \subseteq Seq(K)
  <2>1. /\ <<Pass>> \in Seq(K) /\ <<Db>> \in Seq(K) /\ <<Mask>> \in Seq(K)
        /\ <<Db, May, Mask>> \in Seq(K) /\ <<>> \in Seq(K)
    BY <1>1
  <2>2. QED
    BY <2>1 DEF OpenLogics, HomestayDetailLogic, GuessListLogic, HomestayBussinessDetailLogic,
                CommentListLogic
<1>3. JwtLogics \subseteq Seq(K)
  <2>1. /\ <<Uid, Pass>> \in Seq(K) /\ <<Mask, Mask, Mask, May, Mask, Mask>> \in Seq(K)
        /\ <<Pass, Own, Uid, Mask>> \in Seq(K) /\ <<Uid, Mask>> \in Seq(K)
        /\ <<Uid, Mask, May, Logged>> \in Seq(K)
        /\ <<Own, Mask, Uid, Mask, Own, Mask, Plain, Mask>> \in Seq(K)
    BY <1>1
  <2>2. QED BY <2>1 DEF JwtLogics, DetailLogic, UserHomestayOrderDetailLogic
<1>4. <<Activities>> \in Seq(K) /\ <<Parse>> \in Seq(K)
  BY <1>1
<1>5. \A logic \in Seq(K) : Handler(logic) \in Seq(K)
  BY <1>4 DEF Handler
<1>6. r.handler \in Seq(K)
  BY <1>2, <1>3, <1>4, <1>5, RoutesAre
<1>7. QED BY <1>6

\* Whatever asks for the caller's id is behind the token check, and the lists of
\* activities are those of two routes.
LEMMA RoutesAreGuarded ==
  ASSUME NEW r \in Routes, NEW j \in DOMAIN r.handler
  PROVE  /\ r.handler[j] = Uid => r.jwt
         /\ r.handler[j] = Activities => r.name \in ListNames
<1>1. CASE r.handler = Handler(<<Activities>>) /\ r.name \in ListNames
  <2>1. <<Activities>> \in Seq({Activities})
    OBVIOUS
  <2>2. Uid # Parse /\ Uid # Activities
    BY DEF Uid, Parse, Activities
  <2>3. r.handler[j] # Uid
    <3>1. DOMAIN <<Activities>> = {1} /\ <<Activities>>[1] = Activities
      OBVIOUS
    <3>2. j \in DOMAIN Handler(<<Activities>>)
      BY <1>1
    <3>3. Handler(<<Activities>>)[j] \in {Parse} \union {<<Activities>>[k] : k \in DOMAIN <<Activities>>}
      BY <2>1, <3>2, HandlerSteps
    <3>4. QED BY <1>1, <2>2, <3>1, <3>3
  <2>4. QED BY <1>1, <2>3
<1>2. ASSUME NEW logic \in OpenLogics, r.handler = Handler(logic)
      PROVE  r.handler[j] \notin {Uid, Activities}
  BY <1>2, OpenSteps
<1>3. ASSUME NEW logic \in JwtLogics, r.handler = Handler(logic)
      PROVE  r.handler[j] # Activities
  BY <1>3, JwtSteps
<1>4. CASE r.jwt /\ \E logic \in JwtLogics : r.handler = Handler(logic)
  BY <1>3, <1>4
<1>5. CASE \E logic \in OpenLogics : r.handler = Handler(logic)
  BY <1>2, <1>5
<1>6. QED BY <1>1, <1>4, <1>5, RoutesAre

\* All that may be raised, and the messages that hold only what is for clients.
Errors == RpcErrors \union {GrpcStatus(Unavailable, "internal"), Malformed}

IsPublic(msg) == "internal" \notin msg /\ "malformed" \notin msg

\* What the client may be told, for what was raised.
MayBeTold(shown) ==
  /\ "internal" \notin shown.msg
  /\ "malformed" \in shown.msg =>
       /\ shown.code = REUQEST_PARAM_ERROR
       /\ \E j \in DOMAIN raised : raised[j] = Malformed
  /\ ~masked => \A j \in DOMAIN raised :
       raised[j].type = "code" /\ shown.status = 400 =>
         shown.code = raised[j].code /\ shown.msg = {raised[j].msg}

\* An error that is not masked ends the request; the token is looked at before all
\* else.
ApiInv ==
  /\ route \in Routes /\ at \in Nat
  /\ raised \in Seq(Errors)
  /\ answer = <<>> => raised = <<>> \/ masked
  /\ answer # <<>> => \E shown : answer = <<shown>> /\ MayBeTold(shown)
  /\ at > 0 /\ route.jwt => token
  /\ uid # "nobody" => uid = "caller" /\ token

\* What the code says of itself is for clients.
LEMMA MessagesArePublic ==
  ASSUME NEW code \in DOMAIN message
  PROVE  message[code] # "internal" /\ message[code] # "malformed"
<1>1. message[code] \in {"SUCCESS", "server busy", "parameter error", "token expired",
                         "no token generated", "database busy", "nothing updated"}
  BY DEF message
<1>2. QED BY <1>1

LEMMA CodesAreKnown ==
  /\ SERVER_COMMON_ERROR \in DOMAIN message /\ DB_ERROR \in DOMAIN message
  /\ REUQEST_PARAM_ERROR \in DOMAIN message
BY DEF message, SERVER_COMMON_ERROR, DB_UPDATE_AFFECTED_ZERO_ERROR, OK, DB_ERROR,
       REUQEST_PARAM_ERROR

\* What a call may fail with: the texts of CodeErrors are for clients.
LEMMA CallErrors ==
  ASSUME NEW err \in RpcErrors \union {GrpcStatus(Unavailable, "internal")}
  PROVE  \/ err = Internal \/ err = GrpcStatus(Unavailable, "internal")
         \/ err.type = "code" /\ err.code \in DOMAIN message /\ IsPublic({err.msg})
<1>1. CASE err = NewErrMsg("own")
  BY <1>1, CodesAreKnown DEF NewErrMsg, IsPublic
<1>2. ASSUME NEW code \in DOMAIN message, err = NewErrCode(code)
      PROVE  err.type = "code" /\ err.code \in DOMAIN message /\ IsPublic({err.msg})
  <2>1. message[code] # "internal" /\ message[code] # "malformed"
    BY <1>2, MessagesArePublic
  <2>2. QED BY <1>2, <2>1 DEF NewErrCode, MapErrMsg, IsCodeErr, IsPublic
<1>3. QED BY <1>1, <1>2 DEF RpcErrors

LEMMA RaisedAreErrors == Internal \in Errors /\ NewErrMsg("own") \in Errors /\ Malformed \in Errors
BY DEF Errors, RpcErrors

\* An answer for an error is a refusal, and shows its text only when that is for clients.
LEMMA ResultsArePublic ==
  ASSUME NEW err, err.type \in {"code", "grpc", "other"},
         err.type = "code" \/ (err.type = "grpc" /\ IsCodeErr(err.code)) => IsPublic({err.msg})
  PROVE  /\ IsPublic(HttpResult(err).msg)
         /\ err.type = "code" \/ (err.type = "grpc" /\ IsCodeErr(err.code)) =>
              HttpResult(err).code = err.code /\ HttpResult(err).msg = {err.msg}
BY CodesAreKnown, MessagesArePublic DEF HttpResult, IsPublic

\* The text of any other error is not shown.
LEMMA OthersAreHidden ==
  ASSUME NEW err, ~(err.type = "code" \/ (err.type = "grpc" /\ IsCodeErr(err.code)))
  PROVE  IsPublic(HttpResult(err).msg)
BY CodesAreKnown, MessagesArePublic DEF HttpResult, IsPublic

\* A step that goes on raises nothing.
LEMMA GoesOn ==
  ASSUME ApiInv, answer = <<>>, UNCHANGED <<route, token, raised, masked, answer>>,
         at' \in Nat, at > 0, uid' # "nobody" => uid' = "caller" /\ token
  PROVE  ApiInv'
BY DEF ApiInv

\* A step that fails, and hides what it failed with or shows it.
LEMMA Fails ==
  ASSUME ApiInv, answer = <<>>, UNCHANGED <<route, token, uid>>, at' = at,
         NEW err \in Errors, NEW shown, raised' = Append(raised, err), answer' = <<shown>>,
         masked => masked',
         \/ IsPublic(shown.msg)
         \/ /\ err = Malformed /\ shown.code = REUQEST_PARAM_ERROR
            /\ "internal" \notin shown.msg,
         ~masked' /\ err.type = "code" /\ shown.status = 400 =>
           shown.code = err.code /\ shown.msg = {err.msg}
  PROVE  ApiInv'
<1>1. raised' \in Seq(Errors) /\ \E j \in DOMAIN raised' : raised'[j] = err
  <2>1. raised \in Seq(Errors)
    BY DEF ApiInv
  <2>2. Len(raised) + 1 \in DOMAIN raised' /\ raised'[Len(raised) + 1] = err
    BY <2>1
  <2>3. QED BY <2>1, <2>2
<1>2. ~masked' => raised' = <<err>>
  <2>1. ~masked' => raised = <<>>
    BY Zenon DEF ApiInv
  <2>2. raised = <<>> => raised' = <<err>>
    OBVIOUS
  <2>3. QED BY <2>1, <2>2
<1>3. MayBeTold(shown)'
  BY <1>1, <1>2 DEF MayBeTold, IsPublic
<1>4. QED BY <1>1, <1>3 DEF ApiInv

\* A step that answers without an error.
LEMMA AnswersWith ==
  ASSUME ApiInv, answer = <<>>, UNCHANGED <<route, token, uid, at, raised, masked>>,
         NEW shown, answer' = <<shown>>, IsPublic(shown.msg)
  PROVE  ApiInv'
<1>1. MayBeTold(shown)'
  BY DEF ApiInv, MayBeTold, IsPublic
<1>2. QED BY <1>1 DEF ApiInv

LEMMA OwnIsShown ==
  /\ IsPublic(HttpResult(NewErrMsg("own")).msg)
  /\ HttpResult(NewErrMsg("own")).code = NewErrMsg("own").code
  /\ HttpResult(NewErrMsg("own")).msg = {NewErrMsg("own").msg}
BY ResultsArePublic DEF NewErrMsg, IsPublic

LEMMA DbErrorIsShown == IsPublic(HttpResult(NewErrCode(DB_ERROR)).msg)
<1>1. NewErrCode(DB_ERROR).type = "code" /\ IsPublic({NewErrCode(DB_ERROR).msg})
  BY CodesAreKnown, MessagesArePublic DEF NewErrCode, MapErrMsg, IsCodeErr, IsPublic
<1>2. QED BY <1>1, ResultsArePublic

\* A query that fails is answered with DB_ERROR.
LEMMA DbErrorIsMasked ==
  ASSUME ApiInv, answer = <<>>, UNCHANGED <<route, token, uid>>,
         Fail(Internal, HttpResult(NewErrCode(DB_ERROR)), TRUE)
  PROVE  ApiInv'
<1>1. /\ at' = at /\ raised' = Append(raised, Internal) /\ masked'
      /\ answer' = <<HttpResult(NewErrCode(DB_ERROR))>>
  BY DEF Fail
<1>2. QED BY <1>1, DbErrorIsShown, RaisedAreErrors, Fails, Zenon

LEMMA CallKeeps ==
  ASSUME ApiInv, Call
  PROVE  ApiInv'
<1>1. answer = <<>> /\ at > 0 /\ UNCHANGED <<route, token, uid>> /\ at + 1 \in Nat
  BY DEF Call, At, ApiInv
<1>2. CASE Go
  BY <1>1, <1>2, GoesOn DEF Go, ApiInv
<1>3. ASSUME NEW err \in RpcErrors \union {GrpcStatus(Unavailable, "internal")},
             Fail(err, HttpResult(IF err.type = "grpc" THEN err ELSE LoggerInterceptor(err)), FALSE)
      PROVE  ApiInv'
  <2> DEFINE arrives == IF err.type = "grpc" THEN err ELSE LoggerInterceptor(err)
  <2>1. \/ err.type # "code" /\ arrives.type = "grpc" /\ arrives.code \in {2, 14}
        \/ /\ err.type = "code" /\ arrives.type = "grpc" /\ arrives.code = err.code
           /\ arrives.msg = err.msg /\ IsCodeErr(err.code) /\ IsPublic({err.msg})
    BY CallErrors DEF Internal, GrpcStatus, LoggerInterceptor, Unknown, Unavailable, IsCodeErr
  <2>2. 2 \notin DOMAIN message /\ 14 \notin DOMAIN message
    BY DEF message, SERVER_COMMON_ERROR, DB_UPDATE_AFFECTED_ZERO_ERROR, OK
  <2> HIDE DEF arrives
  <2>3. /\ IsPublic(HttpResult(arrives).msg)
        /\ err.type = "code" =>
             HttpResult(arrives).code = err.code /\ HttpResult(arrives).msg = {err.msg}
    <3>1. CASE err.type # "code" /\ arrives.type = "grpc" /\ arrives.code \in {2, 14}
      <4>1. ~(arrives.type = "code" \/ (arrives.type = "grpc" /\ IsCodeErr(arrives.code)))
        BY <2>2, <3>1 DEF IsCodeErr
      <4>2. IsPublic(HttpResult(arrives).msg)
        BY <4>1, OthersAreHidden
      <4>3. QED BY <3>1, <4>2
    <3>2. CASE /\ err.type = "code" /\ arrives.type = "grpc" /\ arrives.code = err.code
               /\ arrives.msg = err.msg /\ IsCodeErr(err.code) /\ IsPublic({err.msg})
      <4>1. arrives.type \in {"code", "grpc", "other"} /\ arrives.type = "grpc"
        BY <3>2
      <4>2. IsPublic({arrives.msg}) /\ IsCodeErr(arrives.code)
        BY <3>2, Zenon
      <4>3. /\ IsPublic(HttpResult(arrives).msg)
            /\ HttpResult(arrives).code = arrives.code /\ HttpResult(arrives).msg = {arrives.msg}
        BY <4>1, <4>2, ResultsArePublic
      <4>4. QED BY <3>2, <4>3
    <3>3. QED BY <2>1, <3>1, <3>2
  <2>4. /\ at' = at /\ raised' = Append(raised, err) /\ answer' = <<HttpResult(arrives)>>
        /\ (masked => masked')
    BY <1>3 DEF arrives, Fail
  <2>5. err \in Errors
    BY DEF Errors
  <2>6. QED BY <1>1, <2>3, <2>4, <2>5, Fails, Zenon
<1>4. ASSUME NEW err \in Errors, Fail(err, HttpResult(NewErrMsg("own")), TRUE)
      PROVE  ApiInv'
  <2>1. /\ at' = at /\ raised' = Append(raised, err) /\ masked'
        /\ answer' = <<HttpResult(NewErrMsg("own"))>>
    BY <1>4 DEF Fail
  <2>2. QED BY <1>1, <2>1, OwnIsShown, Fails, Zenon
<1>5. ASSUME NEW err \in Errors, Fail(err, NoBody(500), FALSE)
      PROVE  ApiInv'
  <2>1. IsPublic(NoBody(500).msg) /\ NoBody(500).status # 400
    BY DEF NoBody, IsPublic
  <2>2. /\ at' = at /\ raised' = Append(raised, err) /\ (masked => masked')
        /\ answer' = <<NoBody(500)>>
    BY <1>5 DEF Fail
  <2>3. QED BY <1>1, <2>1, <2>2, Fails, Zenon
<1>6. RpcErrors \union {GrpcStatus(Unavailable, "internal")} \subseteq Errors
  BY DEF Errors
<1>7. QED BY <1>2, <1>3, <1>4, <1>5, <1>6 DEF Call

\* Every step of a handler.
LEMMA ServeKeeps ==
  ASSUME ApiInv, Next
  PROVE  ApiInv'
<1>1. CASE Authorize
  <2>1. at = 0 /\ answer = <<>> /\ UNCHANGED <<route, token, uid>>
    BY <1>1 DEF Authorize
  <2>2. CASE route.jwt /\ ~token
    <3>1. UNCHANGED <<at, raised, masked>> /\ answer' = <<NoBody(401)>>
      BY <1>1, <2>2 DEF Authorize
    <3>2. IsPublic(NoBody(401).msg)
      BY DEF NoBody, IsPublic
    <3>3. QED BY <2>1, <3>1, <3>2, AnswersWith
  <2>3. CASE ~(route.jwt /\ ~token)
    <3>1. at' = 1 /\ UNCHANGED <<raised, masked, answer>>
      BY <1>1, <2>1, <2>3 DEF Authorize, Go
    <3>2. QED BY <2>1, <2>3, <3>1 DEF ApiInv
  <2>4. QED BY <2>2, <2>3
<1>2. CASE ParseRequest
  <2>1. answer = <<>> /\ at > 0 /\ UNCHANGED <<route, token, uid>> /\ at + 1 \in Nat
    BY <1>2 DEF ParseRequest, At, ApiInv
  <2>2. CASE Go
    BY <2>1, <2>2, GoesOn DEF Go, ApiInv
  <2>3. CASE Fail(Malformed, ParamErrorResult(Malformed), FALSE)
    <3>1. /\ "internal" \notin ParamErrorResult(Malformed).msg
          /\ ParamErrorResult(Malformed).code = REUQEST_PARAM_ERROR
      BY CodesAreKnown, MessagesArePublic DEF ParamErrorResult, MapErrMsg, IsCodeErr, Malformed
    <3>2. Malformed.type = "other"
      BY DEF Malformed
    <3>3. /\ at' = at /\ raised' = Append(raised, Malformed) /\ (masked => masked')
          /\ answer' = <<ParamErrorResult(Malformed)>>
      BY <2>3 DEF Fail
    <3>4. QED BY <2>1, <3>1, <3>2, <3>3, RaisedAreErrors, Fails, Zenon
  <2>4. QED BY <1>2, <2>2, <2>3 DEF ParseRequest
<1>3. CASE GetUidFromCtx
  <2>1. /\ answer = <<>> /\ at \in DOMAIN route.handler /\ route.handler[at] = Uid /\ at > 0
        /\ at + 1 \in Nat
    BY <1>3, RoutesAreSequences DEF GetUidFromCtx, At, ApiInv, Steps
  <2>2. route.jwt
    BY <2>1, RoutesAreGuarded DEF ApiInv
  <2>3. uid' = "caller" /\ token /\ at' = at + 1 /\ UNCHANGED <<route, token, raised, masked, answer>>
    BY <1>3, <2>1, <2>2 DEF GetUidFromCtx, Go, ApiInv
  <2>4. QED BY <2>1, <2>3, GoesOn
<1>4. CASE Query
  <2>1. answer = <<>> /\ at > 0 /\ UNCHANGED <<route, token, uid>> /\ at + 1 \in Nat
    BY <1>4 DEF Query, At, ApiInv
  <2>2. CASE Go
    BY <2>1, <2>2, GoesOn DEF Go, ApiInv
  <2>3. CASE Fail(Internal, HttpResult(NewErrCode(DB_ERROR)), TRUE)
    BY <2>1, <2>3, DbErrorIsMasked
  <2>4. QED BY <1>4, <2>2, <2>3 DEF Query
<1>5. CASE Check
  <2>1. answer = <<>> /\ at > 0 /\ UNCHANGED <<route, token, uid>> /\ at + 1 \in Nat
    BY <1>5 DEF Check, At, ApiInv
  <2>2. CASE Go
    BY <2>1, <2>2, GoesOn DEF Go, ApiInv
  <2>3. CASE Fail(NewErrMsg("own"), HttpResult(NewErrMsg("own")), FALSE)
    <3>1. /\ at' = at /\ raised' = Append(raised, NewErrMsg("own")) /\ (masked => masked')
          /\ answer' = <<HttpResult(NewErrMsg("own"))>>
      BY <2>3 DEF Fail
    <3>2. QED BY <2>1, <3>1, OwnIsShown, RaisedAreErrors, Fails, Zenon
  <2>4. QED BY <1>5, <2>2, <2>3 DEF Check
<1>6. CASE NewWxPayClient
  <2>1. answer = <<>> /\ at > 0 /\ UNCHANGED <<route, token, uid>> /\ at + 1 \in Nat
    BY <1>6 DEF NewWxPayClient, At, ApiInv
  <2>2. CASE Go
    BY <2>1, <2>2, GoesOn DEF Go, ApiInv
  <2>3. CASE Fail(Internal, HttpResult(Internal), FALSE)
    <3>1. Internal.type = "other"
      BY DEF Internal
    <3>2. IsPublic(HttpResult(Internal).msg)
      BY <3>1, OthersAreHidden
    <3>3. /\ at' = at /\ raised' = Append(raised, Internal) /\ (masked => masked')
          /\ answer' = <<HttpResult(Internal)>>
      BY <2>3 DEF Fail
    <3>4. QED BY <2>1, <3>1, <3>2, <3>3, RaisedAreErrors, Fails, Zenon
  <2>4. QED BY <1>6, <2>2, <2>3 DEF NewWxPayClient
<1>7. CASE Decide
  <2>1. /\ answer = <<>> /\ at > 0 /\ at' \in Nat
        /\ UNCHANGED <<route, token, uid, raised, masked, answer>>
    BY <1>7, RoutesAreSequences DEF Decide, At, ApiInv, Steps
  <2>2. QED BY <2>1, GoesOn DEF ApiInv
<1>8. CASE Finish
  <2>1. /\ answer = <<>> /\ answer' = <<Success>>
        /\ UNCHANGED <<route, token, at, uid, raised, masked>>
    BY <1>8 DEF Finish
  <2>2. IsPublic(Success.msg)
    BY DEF Success, IsPublic
  <2>3. QED BY <2>1, <2>2, AnswersWith
<1>9. QED BY <1>1, <1>2, <1>3, <1>4, <1>5, <1>6, <1>7, <1>8, CallKeeps DEF Next

(***************************************************************************)
(* The lists of activities                                                 *)
(***************************************************************************)

Elements(s) == {s[k] : k \in DOMAIN s}

\* No two elements of s are the same.
Once(s) == \A k, l \in DOMAIN s : s[k] = s[l] => k = l

Outcomes == {"found", "missing", "failed"}

\* What the mapper of activity i writes when its lookup has ended.
Written(i) ==
  \/ route.name = "homestayList" /\ looked[i] \in {"found", "missing"}
  \/ route.name = "goodBoss" /\ looked[i] = "found"

MappersInv ==
  /\ DOMAIN mapper \subseteq Nat
  /\ mapper \in [DOMAIN mapper -> {"waiting", "looking", "writing", "done"}]
  /\ looked \in [DOMAIN mapper -> Outcomes \union {"none"}]
  /\ \A i \in DOMAIN mapper :
       /\ looked[i] = "none" <=> mapper[i] \in {"waiting", "looking"}
       /\ mapper[i] = "writing" => Written(i)

\* What is in the pipe is in it once and not yet in the list.
PipeInv ==
  /\ pipe \in Seq(Nat) /\ Once(pipe)
  /\ Elements(pipe) \intersect Elements(list) = {}
  /\ \A i \in Elements(pipe) : i \in DOMAIN mapper /\ mapper[i] = "done" /\ Written(i)

ListInv ==
  /\ list \in Seq(Nat)
  /\ \A i \in Elements(list) :
       i \in DOMAIN mapper /\ mapper[i] = "done" /\ looked[i] = "found"
  /\ IsFiniteSet(Elements(list)) /\ Len(list) = Cardinality(Elements(list))

\* Nothing that was written is lost while the reducer reads.
NothingLost ==
  \A i \in DOMAIN mapper :
    mapper[i] = "done" /\ Written(i) => i \in Elements(pipe) \union Elements(list)

StageInv ==
  /\ stage = "query" => mapper = <<>> /\ looked = <<>> /\ pipe = <<>> /\ list = <<>>
  /\ stage = "reduce" => NothingLost
  /\ stage = "answered" =>
       NothingLost /\ pipe = <<>> /\ \A i \in DOMAIN mapper : mapper[i] = "done"
  /\ stage \in {"drain", "panicked"} =>
       route.name = "homestayList" /\ \E i \in DOMAIN mapper : looked[i] = "missing"

LookupsInv == MappersInv /\ PipeInv /\ ListInv /\ StageInv

LEMMA CardinalityIsSame == \A S : Activity!Cardinality(S) = Cardinality(S)
BY DEF Activity!Cardinality, Cardinality

LEMMA AppendElements ==
  ASSUME NEW s \in Seq(Nat), NEW e \in Nat
  PROVE  /\ Append(s, e) \in Seq(Nat)
         /\ Elements(Append(s, e)) = Elements(s) \union {e}
         /\ Len(Append(s, e)) = Len(s) + 1
         /\ Once(s) /\ e \notin Elements(s) => Once(Append(s, e))
<1>1. /\ DOMAIN Append(s, e) = 1..(Len(s) + 1) /\ DOMAIN s = 1..Len(s) /\ Len(s) \in Nat
      /\ \A k \in 1..Len(s) : Append(s, e)[k] = s[k]
      /\ Append(s, e)[Len(s) + 1] = e
  OBVIOUS
<1>2. Elements(Append(s, e)) = Elements(s) \union {e}
  BY <1>1 DEF Elements
<1>3. ASSUME Once(s), e \notin Elements(s)
      PROVE  Once(Append(s, e))
  BY <1>1, <1>3 DEF Once, Elements
<1>4. QED BY <1>2, <1>3

LEMMA TailElements ==
  ASSUME NEW s \in Seq(Nat), s # <<>>
  PROVE  /\ Tail(s) \in Seq(Nat) /\ Head(s) \in Elements(s) /\ Head(s) \in Nat
         /\ Elements(s) = Elements(Tail(s)) \union {Head(s)}
         /\ Once(s) => Once(Tail(s)) /\ Head(s) \notin Elements(Tail(s))
<1> DEFINE t == Tail(s)
           e == Head(s)
<1>1. /\ Len(s) \in Nat /\ Len(s) > 0 /\ DOMAIN s = 1..Len(s) /\ e = s[1]
      /\ t \in Seq(Nat) /\ DOMAIN t = 1..(Len(s) - 1)
      /\ \A k \in 1..(Len(s) - 1) : t[k] = s[k + 1]
  OBVIOUS
<1>2. e \in Elements(s) /\ e \in Nat
  BY <1>1 DEF Elements
<1> HIDE DEF t, e
<1>3. \A k \in DOMAIN s : k = 1 \/ (k - 1 \in DOMAIN t /\ s[k] = t[k - 1])
  <2> SUFFICES ASSUME NEW k \in 1..Len(s), k # 1
               PROVE  k - 1 \in DOMAIN t /\ s[k] = t[k - 1]
    BY <1>1
  <2>1. k - 1 \in 1..(Len(s) - 1) /\ (k - 1) + 1 = k
    BY <1>1
  <2>2. QED BY <1>1, <2>1
<1>4. \A k \in DOMAIN t : k + 1 \in DOMAIN s /\ t[k] = s[k + 1] /\ k + 1 # 1 /\ k \in Nat
  BY <1>1
<1>5. Elements(s) \subseteq Elements(t) \union {e}
  BY <1>1, <1>3 DEF Elements
<1>6. Elements(t) \union {e} \subseteq Elements(s)
  BY <1>2, <1>4 DEF Elements
<1>7. ASSUME Once(s)
      PROVE  Once(t) /\ e \notin Elements(t)
  <2>1. e \notin Elements(t)
    BY <1>1, <1>4, <1>7 DEF Elements, Once
  <2>2. \A k, l \in DOMAIN t : t[k] = t[l] => k + 1 = l + 1
    BY <1>4, <1>7 DEF Once
  <2>3. Once(t)
    BY <1>4, <2>2 DEF Once
  <2>4. QED BY <2>1, <2>3
<1>8. QED BY <1>1, <1>2, <1>5, <1>6, <1>7 DEF t, e

LEMMA EmptyElements == Elements(<<>>) = {} /\ Once(<<>>) /\ <<>> \in Seq(Nat)
BY DEF Elements, Once

LEMMA PageIsRead ==
  ASSUME LookupsInv, route' = route, Activity!FindPageListByPage
  PROVE  LookupsInv'
<1>1. /\ stage = "query" /\ mapper = <<>> /\ looked = <<>> /\ pipe = <<>> /\ list = <<>>
      /\ pipe' = <<>> /\ list' = <<>>
  BY DEF Activity!FindPageListByPage, LookupsInv, StageInv
<1>2. Elements(pipe') = {} /\ Elements(list') = {} /\ PipeInv' /\ list' \in Seq(Nat)
  BY <1>1, EmptyElements DEF PipeInv
<1>3. IsFiniteSet(Elements(list')) /\ Len(list') = Cardinality(Elements(list'))
  BY <1>1, <1>2, FS_EmptySet
<1>4. CASE stage' = "failed" /\ UNCHANGED <<mapper, looked>>
  BY <1>1, <1>2, <1>3, <1>4 DEF LookupsInv, MappersInv, ListInv, StageInv, Written
<1>5. ASSUME NEW n \in 0..MaxRows, mapper' = [i \in 1..n |-> "waiting"],
             looked' = [i \in 1..n |-> "none"],
             stage' = IF n = 0 THEN "answered" ELSE "reduce"
      PROVE  LookupsInv'
  <2>1. /\ DOMAIN mapper' = 1..n /\ 1..n \subseteq Nat
        /\ \A i \in 1..n : mapper'[i] = "waiting" /\ looked'[i] = "none"
    BY <1>5
  <2>2. n = 0 => 1..n = {}
    BY <1>5
  <2>3. MappersInv'
    BY <1>5, <2>1 DEF MappersInv, Written
  <2>4. StageInv'
    BY <1>1, <1>2, <1>5, <2>1, <2>2 DEF StageInv, NothingLost
  <2>5. QED BY <1>2, <1>3, <2>3, <2>4 DEF LookupsInv, ListInv
<1>6. QED BY <1>4, <1>5 DEF Activity!FindPageListByPage

\* The steps of the mapper of activity i.
LEMMA MapperStarts ==
  ASSUME LookupsInv, route' = route, NEW i \in DOMAIN mapper, Activity!Generate(i)
  PROVE  LookupsInv'
<1>1. /\ mapper[i] = "waiting" /\ mapper' = [mapper EXCEPT ![i] = "looking"]
      /\ UNCHANGED <<stage, looked, pipe, list>>
  BY DEF Activity!Generate
<1>2. /\ DOMAIN mapper' = DOMAIN mapper /\ mapper'[i] = "looking"
      /\ \A j \in DOMAIN mapper : j # i => mapper'[j] = mapper[j]
      /\ mapper' \in [DOMAIN mapper -> {"waiting", "looking", "writing", "done"}]
  BY <1>1 DEF LookupsInv, MappersInv
<1>3. \A j : Written(j)' <=> Written(j)
  BY <1>1 DEF Written
<1>4. MappersInv'
  BY <1>1, <1>2, <1>3 DEF LookupsInv, MappersInv
<1>5. PipeInv' /\ ListInv'
  BY <1>1, <1>2, <1>3 DEF LookupsInv, PipeInv, ListInv
<1>6. StageInv'
  <2>1. NothingLost => NothingLost'
    BY <1>1, <1>2, <1>3 DEF NothingLost
  <2>2. stage # "query" /\ stage # "answered"
    BY <1>1 DEF LookupsInv, StageInv
  <2>3. QED BY <1>1, <1>2, <2>1, <2>2 DEF LookupsInv, StageInv
<1>7. QED BY <1>4, <1>5, <1>6 DEF LookupsInv

LEMMA MapperLooks ==
  ASSUME LookupsInv, route' = route, route.name \in ListNames,
         NEW i \in DOMAIN mapper, Activity!Look(i)
  PROVE  LookupsInv'
<1>1. PICK o \in Outcomes :
        /\ mapper[i] = "looking" /\ looked' = [looked EXCEPT ![i] = o]
        /\ mapper' = [mapper EXCEPT ![i] =
             IF \/ route.name = "homestayList" /\ o \in {"found", "missing"}
                \/ route.name = "goodBoss" /\ o = "found"
             THEN "writing" ELSE "done"]
        /\ UNCHANGED <<stage, pipe, list>>
  BY DEF Activity!Look, Activity!HomestayIsWritten, Activity!UserIsWritten, Outcomes
<1>2. /\ DOMAIN mapper' = DOMAIN mapper /\ looked'[i] = o
      /\ mapper'[i] \in {"writing", "done"}
      /\ \A j \in DOMAIN mapper : j # i => mapper'[j] = mapper[j] /\ looked'[j] = looked[j]
      /\ mapper' \in [DOMAIN mapper -> {"waiting", "looking", "writing", "done"}]
      /\ looked' \in [DOMAIN mapper -> Outcomes \union {"none"}]
  BY <1>1 DEF LookupsInv, MappersInv
<1>3. \A j \in DOMAIN mapper : j # i => (Written(j)' <=> Written(j))
  BY <1>2 DEF Written
<1>4. mapper'[i] = "writing" <=> Written(i)'
  BY <1>1, <1>2 DEF Written, LookupsInv, MappersInv
<1>5. o # "none" /\ looked[i] = "none"
  BY <1>1 DEF Outcomes, LookupsInv, MappersInv
<1>6. MappersInv'
  BY <1>1, <1>2, <1>3, <1>4, <1>5 DEF LookupsInv, MappersInv
<1>7. i \notin Elements(pipe) /\ i \notin Elements(list)
  BY <1>1, <1>5 DEF LookupsInv, PipeInv, ListInv
<1>8. PipeInv' /\ ListInv'
  BY <1>1, <1>2, <1>3, <1>7 DEF LookupsInv, PipeInv, ListInv
<1>9. StageInv'
  <2>1. NothingLost => NothingLost'
    BY <1>1, <1>2, <1>3, <1>4 DEF NothingLost
  <2>2. stage # "query" /\ stage # "answered"
    BY <1>1 DEF LookupsInv, StageInv
  <2>3. QED BY <1>1, <1>2, <1>5, <2>1, <2>2 DEF LookupsInv, StageInv
<1>10. QED BY <1>6, <1>8, <1>9 DEF LookupsInv

LEMMA MapperWrites ==
  ASSUME LookupsInv, route' = route, NEW i \in DOMAIN mapper, Activity!Write(i)
  PROVE  LookupsInv'
<1>1. /\ mapper[i] = "writing" /\ mapper' = [mapper EXCEPT ![i] = "done"]
      /\ pipe' = Append(pipe, i) /\ UNCHANGED <<stage, looked, list>>
  BY DEF Activity!Write
<1>2. /\ DOMAIN mapper' = DOMAIN mapper /\ mapper'[i] = "done"
      /\ \A j \in DOMAIN mapper : j # i => mapper'[j] = mapper[j]
      /\ mapper' \in [DOMAIN mapper -> {"waiting", "looking", "writing", "done"}]
  BY <1>1 DEF LookupsInv, MappersInv
<1>3. \A j : Written(j)' <=> Written(j)
  BY <1>1 DEF Written
<1>4. i \in Nat /\ Written(i) /\ i \notin Elements(pipe) /\ pipe \in Seq(Nat) /\ Once(pipe)
  BY <1>1 DEF LookupsInv, MappersInv, PipeInv
<1>5. i \notin Elements(list)
  BY <1>1 DEF LookupsInv, ListInv
<1>6. /\ pipe' \in Seq(Nat) /\ Once(pipe') /\ Elements(pipe') = Elements(pipe) \union {i}
  BY <1>1, <1>4, AppendElements
<1>7. MappersInv'
  BY <1>1, <1>2, <1>3 DEF LookupsInv, MappersInv
<1>8. PipeInv' /\ ListInv'
  BY <1>1, <1>2, <1>3, <1>4, <1>5, <1>6 DEF LookupsInv, PipeInv, ListInv
<1>9. StageInv'
  <2>1. NothingLost => NothingLost'
    BY <1>1, <1>2, <1>3, <1>6 DEF NothingLost
  <2>2. stage # "query" /\ stage # "answered"
    BY <1>1 DEF LookupsInv, StageInv
  <2>3. QED BY <1>1, <1>2, <2>1, <2>2 DEF LookupsInv, StageInv
<1>10. QED BY <1>7, <1>8, <1>9 DEF LookupsInv

\* The reducer reads an activity, and lists it unless it is a homestay that is not there.
LEMMA ReducerReads ==
  ASSUME LookupsInv, route' = route, Activity!Reduce
  PROVE  LookupsInv'
<1> DEFINE i == Head(pipe)
<1>1. /\ stage = "reduce" /\ pipe # <<>> /\ pipe' = Tail(pipe) /\ UNCHANGED <<mapper, looked>>
      /\ \/ /\ route.name = "homestayList" /\ looked[i] # "found"
            /\ stage' = "drain" /\ list' = list
         \/ /\ ~(route.name = "homestayList" /\ looked[i] # "found")
            /\ list' = Append(list, i) /\ stage' = stage
  BY DEF Activity!Reduce
<1>2. /\ pipe' \in Seq(Nat) /\ Once(pipe') /\ i \in Nat
      /\ Elements(pipe) = Elements(pipe') \union {i} /\ i \notin Elements(pipe')
  BY <1>1, TailElements DEF LookupsInv, PipeInv
<1>3. /\ i \in DOMAIN mapper /\ mapper[i] = "done" /\ Written(i) /\ i \notin Elements(list)
  BY <1>2 DEF LookupsInv, PipeInv
<1> HIDE DEF i
<1>4. \A j : Written(j)' <=> Written(j)
  BY <1>1 DEF Written
<1>5. MappersInv'
  BY <1>1, <1>4 DEF LookupsInv, MappersInv
<1>6. CASE stage' = "drain" /\ list' = list /\ route.name = "homestayList" /\ looked[i] # "found"
  <2>1. looked[i] = "missing"
    BY <1>3, <1>6 DEF Written
  <2>2. PipeInv' /\ ListInv'
    BY <1>1, <1>2, <1>4, <1>6 DEF LookupsInv, PipeInv, ListInv
  <2>3. StageInv'
    BY <1>1, <1>3, <1>6, <2>1 DEF StageInv
  <2>4. QED BY <1>5, <2>2, <2>3 DEF LookupsInv
<1>7. CASE /\ list' = Append(list, i) /\ stage' = stage
           /\ ~(route.name = "homestayList" /\ looked[i] # "found")
  <2>1. looked[i] = "found"
    BY <1>3, <1>7 DEF Written
  <2>2. /\ list' \in Seq(Nat) /\ Elements(list') = Elements(list) \union {i}
        /\ Len(list') = Len(list) + 1
    BY <1>2, <1>7, AppendElements DEF LookupsInv, ListInv
  <2>3. PipeInv'
    BY <1>1, <1>2, <1>3, <1>4, <2>2 DEF LookupsInv, PipeInv
  <2>4. IsFiniteSet(Elements(list')) /\ Cardinality(Elements(list')) = Len(list) + 1
    BY <1>3, <2>2, FS_AddElement DEF LookupsInv, ListInv
  <2>5. ListInv'
    BY <1>1, <1>3, <2>1, <2>2, <2>4 DEF LookupsInv, ListInv
  <2>6. StageInv'
    <3>1. NothingLost => NothingLost'
      BY <1>1, <1>2, <1>4, <2>2 DEF NothingLost
    <3>2. QED BY <1>1, <1>7, <3>1 DEF LookupsInv, StageInv
  <2>7. QED BY <1>5, <2>3, <2>5, <2>6 DEF LookupsInv
<1>8. QED BY <1>1, <1>6, <1>7

LEMMA PipeIsDrained ==
  ASSUME LookupsInv, route' = route, Activity!Drain
  PROVE  LookupsInv'
<1>1. /\ stage = "drain" /\ pipe # <<>> /\ pipe' = Tail(pipe)
      /\ UNCHANGED <<stage, mapper, looked, list>>
  BY DEF Activity!Drain
<1>2. /\ pipe' \in Seq(Nat) /\ Once(pipe') /\ Elements(pipe') \subseteq Elements(pipe)
  BY <1>1, TailElements DEF LookupsInv, PipeInv
<1>3. \A j : Written(j)' <=> Written(j)
  BY <1>1 DEF Written
<1>4. QED
  BY <1>1, <1>2, <1>3 DEF LookupsInv, MappersInv, PipeInv, ListInv, StageInv

LEMMA LookupsEnd ==
  ASSUME LookupsInv, route' = route, Activity!Finish
  PROVE  LookupsInv'
<1>1. /\ stage \in {"reduce", "drain"} /\ \A i \in DOMAIN mapper : mapper[i] = "done"
      /\ pipe = <<>> /\ stage' = IF stage = "reduce" THEN "answered" ELSE "panicked"
      /\ UNCHANGED <<mapper, looked, pipe, list>>
  BY DEF Activity!Finish, Activity!Page
<1>2. \A j : Written(j)' <=> Written(j)
  BY <1>1 DEF Written
<1>3. NothingLost => NothingLost'
  BY <1>1, <1>2 DEF NothingLost
<1>4. StageInv'
  BY <1>1, <1>3 DEF LookupsInv, StageInv
<1>5. QED
  BY <1>1, <1>2, <1>4 DEF LookupsInv, MappersInv, PipeInv, ListInv

\* What is answered is what was found.
LEMMA AnswerIsWhatWasFound ==
  ASSUME LookupsInv, stage # "query" => route.name \in ListNames
  PROVE  ListIsWhatWasFound
<1>1. Activity!ToSet(list) = Elements(list)
  BY DEF Activity!ToSet, Elements
<1>2. Len(list) = Activity!Cardinality(Activity!ToSet(list))
  BY <1>1, CardinalityIsSame DEF LookupsInv, ListInv
<1>3. ASSUME stage = "answered"
      PROVE  Elements(list) = {i \in DOMAIN mapper : looked[i] = "found"}
  <2>1. \A i \in DOMAIN mapper : looked[i] = "found" => Written(i)
    BY <1>3 DEF Written, ListNames
  <2>2. Elements(pipe) = {}
    BY <1>3, EmptyElements DEF LookupsInv, StageInv
  <2>3. QED BY <1>3, <2>1, <2>2 DEF LookupsInv, ListInv, StageInv, NothingLost
<1>4. stage = "panicked" => route.name = "homestayList" /\ \E i \in DOMAIN mapper : looked[i] = "missing"
  BY DEF LookupsInv, StageInv
<1>5. QED
  BY <1>1, <1>2, <1>3, <1>4 DEF ListIsWhatWasFound, Activity!ListIsWhatWasFound, Activity!Page

(***************************************************************************)
(* Requests with their lists                                               *)
(***************************************************************************)

\* A list is made only by the two routes that have one.
RequestInv == ApiInv /\ LookupsInv /\ (stage # "query" => route.name \in ListNames)

LEMMA InitRequests == RequestInit => RequestInv
<1> SUFFICES ASSUME RequestInit
             PROVE  RequestInv
  OBVIOUS
<1>1. ApiInv
  BY DEF RequestInit, Init, ApiInv
<1>2. /\ stage = "query" /\ mapper = <<>> /\ looked = <<>> /\ pipe = <<>> /\ list = <<>>
  BY DEF RequestInit, Activity!Init
<1>3. PipeInv /\ ListInv
  BY <1>2, EmptyElements, FS_EmptySet DEF PipeInv, ListInv
<1>4. MappersInv /\ StageInv
  BY <1>2 DEF MappersInv, StageInv
<1>5. QED BY <1>1, <1>2, <1>3, <1>4 DEF RequestInv, LookupsInv

LEMMA StillLookups ==
  ASSUME LookupsInv, UNCHANGED lists, route' = route
  PROVE  LookupsInv'
BY DEF lists, LookupsInv, MappersInv, PipeInv, ListInv, StageInv, Written, NothingLost

LEMMA RequestStep ==
  ASSUME RequestInv, RequestNext
  PROVE  RequestInv'
<1>1. CASE Serve
  <2>1. route' = route /\ UNCHANGED lists
    BY <1>1 DEF Serve, Next, Authorize, ParseRequest, GetUidFromCtx, Call, Query, Check,
                NewWxPayClient, Decide, Finish
  <2>2. ApiInv'
    BY <1>1, ServeKeeps DEF Serve, RequestInv
  <2>3. LookupsInv'
    BY <2>1, StillLookups DEF RequestInv
  <2>4. QED BY <2>1, <2>2, <2>3 DEF RequestInv, lists
<1>2. ASSUME At({Activities})
      PROVE  route.name \in ListNames /\ at > 0 /\ at \in Nat
  BY <1>2, RoutesAreSequences, RoutesAreGuarded DEF At, RequestInv, ApiInv, Steps
<1>3. CASE LookUp
  <2>1. route.name \in ListNames /\ UNCHANGED vars /\ route' = route
    BY <1>2, <1>3 DEF LookUp, vars
  <2>2. LookupsInv'
    BY <1>3, <2>1, PageIsRead, MapperStarts, MapperLooks, MapperWrites, ReducerReads,
       PipeIsDrained, LookupsEnd DEF LookUp, Activity!Next, Activity!Page, RequestInv
  <2>3. ApiInv'
    BY <2>1 DEF vars, RequestInv, ApiInv, MayBeTold
  <2>4. QED BY <2>1, <2>2, <2>3 DEF RequestInv
<1>4. CASE LookedUp
  <2>1. /\ ApiInv /\ answer = <<>> /\ at > 0 /\ at + 1 \in Nat
        /\ UNCHANGED <<route, token, uid>> /\ UNCHANGED lists
    BY <1>2, <1>4 DEF LookedUp, At, RequestInv
  <2>2. ASSUME Go PROVE ApiInv'
    BY <2>1, <2>2, GoesOn DEF Go, ApiInv
  <2>3. ASSUME Fail(Internal, HttpResult(NewErrCode(DB_ERROR)), TRUE)
        PROVE  ApiInv'
    BY <2>1, <2>3, DbErrorIsMasked
  <2>4. ASSUME Fail(Internal, NoBody(500), FALSE)
        PROVE  ApiInv'
    <3>1. IsPublic(NoBody(500).msg) /\ Internal.type = "other"
      BY DEF NoBody, IsPublic, Internal
    <3>2. /\ at' = at /\ raised' = Append(raised, Internal) /\ (masked => masked')
          /\ answer' = <<NoBody(500)>>
      BY <2>4 DEF Fail
    <3>3. QED BY <2>1, <3>1, <3>2, RaisedAreErrors, Fails, Zenon
  <2>5. ASSUME GoWithout PROVE ApiInv'
    <3>1. raised' \in Seq(Errors) /\ masked' /\ at' = at + 1 /\ answer' = answer
      BY <2>1, <2>5, RaisedAreErrors DEF GoWithout, ApiInv
    <3>2. QED BY <2>1, <3>1 DEF ApiInv
  <2>6. ApiInv'
    BY <1>4, <2>2, <2>3, <2>4, <2>5 DEF LookedUp
  <2>7. QED BY <2>1, <2>6, StillLookups DEF RequestInv, lists
<1>5. QED BY <1>1, <1>3, <1>4 DEF RequestNext

LEMMA RequestStutters ==
  ASSUME RequestInv, UNCHANGED <<vars, lists>>
  PROVE  RequestInv'
<1>1. UNCHANGED vars /\ UNCHANGED lists /\ route' = route
  BY DEF vars
<1>2. ApiInv'
  BY <1>1 DEF vars, RequestInv, ApiInv, MayBeTold
<1>3. QED BY <1>1, <1>2, StillLookups DEF RequestInv, lists

LEMMA RequestIsInvariant == Spec => []RequestInv
<1>1. RequestInv /\ [RequestNext]_<<vars, lists>> => RequestInv'
  BY RequestStep, RequestStutters
<1>2. QED BY InitRequests, <1>1, PTL DEF Spec

\* No client of any route reads the text of an error of the database, the network or
\* a library, except what httpx.Parse says of his own request.
THEOREM InternalsAreHidden == Spec => []InternalsStayInside
<1>1. RequestInv => InternalsStayInside
  BY DEF RequestInv, ApiInv, MayBeTold, InternalsStayInside
<1>2. QED BY RequestIsInvariant, <1>1, PTL

\* What a service says of a refusal comes to the client through gRPC as it is.
THEOREM RefusalsArrive == Spec => []OwnErrorsArrive
<1>1. RequestInv => OwnErrorsArrive
  BY DEF RequestInv, ApiInv, MayBeTold, OwnErrorsArrive
<1>2. QED BY RequestIsInvariant, <1>1, PTL

\* A logic that works with the caller's id has one, of a token that was checked.
THEOREM CallersAreKnown == Spec => []UidIsCallers
<1>1. RequestInv => UidIsCallers
  BY DEF RequestInv, ApiInv, UidIsCallers
<1>2. QED BY RequestIsInvariant, <1>1, PTL

\* For any number of activities and of mappers, and however these are scheduled, a list
\* holds what was found, once.
THEOREM ListsHoldWhatWasFound == Spec => []ListIsWhatWasFound
<1>1. RequestInv => ListIsWhatWasFound
  BY AnswerIsWhatWasFound DEF RequestInv
<1>2. QED BY RequestIsInvariant, <1>1, PTL
=============================================================================
