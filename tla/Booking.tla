------------------------------- MODULE Booking --------------------------------
(***************************************************************************)
(* What an order costs: from the homestay that is booked, whose prices and *)
(* existence may change at any time and may be read from a cache, through  *)
(* order-api and order-rpc to the amount that WeChat Pay is asked for.     *)
(*                                                                         *)
(* Amounts are in cents.  Of an order only what it costs is kept; what     *)
(* becomes of it is the subject of OrderService and PaymentService.        *)
(***************************************************************************)
EXTENDS Integers, Sequences, SequencesExt, FiniteSets

CONSTANTS
  Prices,       \* [homestay, food]: the prices a homestay may have
  Day,          \* 86400, in the units of Times
  Times,        \* start and end times that are asked for, less than the 292 years
                \* apart at which time.Sub saturates
  People,
  MaxVersions,  \* bound on the changes of the homestay
  MaxPayments   \* bound on the tries to pay

Gone == [homestay |-> 0, food |-> 0]

ASSUME BookingAssumption ==
  /\ Prices \subseteq [homestay : Nat \ {0}, food : Nat \ {0}]
  /\ Day \in Nat \ {0} /\ Times \subseteq Nat /\ People \subseteq Nat
  /\ MaxVersions \in Nat /\ MaxPayments \in Nat

VARIABLES
  versions,  \* what the homestay was, the current last; Gone when it did not exist
  step,      \* the request: "start", "create", "ordered" or "refused"
  request,   \* [from, to, people, food]
  order,     \* [price, homestayTotal, foodTotal, total], a sequence of at most one
  payments   \* pay_total and the amount in the WeChat order of each try

bookingVars == <<versions, step, request, order, payments>>

Requests == [from : Times, to : Times, people : People, food : BOOLEAN]

BookingInit ==
  /\ versions \in {<<p>> : p \in Prices \union {Gone}}
  /\ step = "start"
  /\ request \in Requests
  /\ order = <<>> /\ payments = <<>>

-----------------------------------------------------------------------------
(* The homestay                                                            *)

\* Its owner changes it or takes it off the site.  No id is used twice and nobody
\* clears del_state, so it does not come back.
Edit ==
  /\ Len(versions) < MaxVersions /\ Last(versions) # Gone
  /\ \E p \in (Prices \union {Gone}) \ {Last(versions)} : versions' = Append(versions, p)
  /\ UNCHANGED <<step, request, order, payments>>

\* HomestayDetail of travel-rpc, through the cache, gives any version.  For a
\* homestay that does not exist it gives an empty one, not nil.
HomestayDetail == ToSet(versions)

-----------------------------------------------------------------------------
(* The order                                                               *)

\* order-api looks for the homestay, and refuses the request without it.
CheckHomestay ==
  /\ step = "start"
  /\ \/ \E p \in HomestayDetail : step' = IF p = Gone THEN "refused" ELSE "create"
     \/ step' = "refused"
  /\ UNCHANGED <<versions, request, order, payments>>

\* Mutant of LiveDays: a day that has begun is counted.
LiveDaysBegun == (request.to - request.from + Day - 1) \div Day

\* The quotient of the seconds by 86400 is truncated.
LiveDays == (request.to - request.from) \div Day

OrderOf(p) ==
  LET homestayTotal == p.homestay * LiveDays
      foodTotal == IF request.food THEN p.food * request.people * LiveDays ELSE 0 IN
  [price |-> p, homestayTotal |-> homestayTotal, foodTotal |-> foodTotal,
   total |-> homestayTotal + foodTotal]

\* order-rpc reads the homestay again and only asks whether the answer is nil, which
\* it never is: of one that is gone by now an order is made, too.  A call may fail.
CreateHomestayOrder ==
  /\ step = "create"
  /\ \/ /\ request.to > request.from
        /\ \E p \in HomestayDetail : order' = <<OrderOf(p)>>
        /\ step' = "ordered"
     \/ step' = "refused" /\ UNCHANGED order
  /\ UNCHANGED <<versions, request, payments>>

-----------------------------------------------------------------------------
(* The payment                                                             *)

\* Mutant of PayPrice: the order is priced anew.
PayPriceOfToday == OrderOf(Last(versions)).total

\* getPayHomestayPriceDescription
PayPrice == order[1].total

\* The price goes into the payment and into the WeChat order.  Each may fail, and
\* the user may try again.
ThirdPaymentwxPay ==
  /\ step = "ordered" /\ Len(payments) < MaxPayments
  /\ \E prepaid \in BOOLEAN :
       payments' = Append(payments,
         [payTotal |-> PayPrice, charged |-> IF prepaid THEN PayPrice ELSE -1])
  /\ UNCHANGED <<versions, step, request, order>>

BookingNext == Edit \/ CheckHomestay \/ CreateHomestayOrder \/ ThirdPaymentwxPay

BookingSpec == BookingInit /\ [][BookingNext]_bookingVars

-----------------------------------------------------------------------------
(* Properties                                                              *)

TypeOK ==
  /\ versions \in Seq(Prices \union {Gone})
  /\ step \in {"start", "create", "ordered", "refused"}
  /\ request \in Requests
  /\ Len(order) = (IF step = "ordered" THEN 1 ELSE 0)
  /\ \A i \in DOMAIN order :
       order[i] \in [price : [homestay : Nat, food : Nat],
                     homestayTotal : Nat, foodTotal : Nat, total : Nat]
  /\ \A i \in DOMAIN payments : payments[i] \in [payTotal : Nat, charged : Nat \union {-1}]

\* The ends of the whole days from the start of the stay to its end.
Nights == {n \in 1..request.to : request.from + n * Day <= request.to}

\* What one of them costs, at the prices p: the homestay once and, if asked for, its
\* food once for everyone who stays.
EachNight(p) == p.homestay + (IF request.food THEN request.people * p.food ELSE 0)

\* Each whole day costs what the order says of a night.
TotalsAreOfNights ==
  \A i \in DOMAIN order : order[i].total = Cardinality(Nights) * EachNight(order[i].price)

\* However the owner changes the homestay while the order is made and while the user
\* tries to pay, what is ordered, what each payment says and what WeChat asks for is
\* one price: that of the whole nights, as the homestay was at one moment.  It is
\* nothing for a stay without a night and once the homestay is gone, both of which
\* order-rpc means to refuse and does not.
ChargedForNights ==
  order # <<>> =>
    \E p \in ToSet(versions) :
      LET cost == Cardinality(Nights) * EachNight(p) IN
      /\ order[1].total = cost
      /\ \A i \in DOMAIN payments :
           payments[i].payTotal = cost /\ payments[i].charged \in {-1, cost}
=============================================================================
