------------------------------ MODULE MCBooking -------------------------------
EXTENDS Booking

\* Two that differ in one price, and one that differs from both in both.
SomePrices == {[homestay |-> 2, food |-> 1], [homestay |-> 2, food |-> 3],
               [homestay |-> 5, food |-> 4]}
=============================================================================
