------------------------------- MODULE MCLists -------------------------------
EXTENDS Lists

\* No ties, in an order that is not that of the ids; two that tie, with one before
\* and one after; and two pairs.
SomeDataIds == {<<3, 1, 4, 2>>, <<2, 1, 2, 3>>, <<1, 2, 1, 2>>}
=============================================================================
