----------------------- MODULE MCPaymentFulfillment -----------------------
EXTENDS PaymentFulfillment

CONSTANTS o1, o2, u1

OneCustomer == [o \in Orders |-> u1]
=============================================================================
