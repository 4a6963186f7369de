--------------------------- MODULE MCPaymentService ---------------------------
EXTENDS PaymentService
=============================================================================
