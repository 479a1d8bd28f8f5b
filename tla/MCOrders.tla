-------------------------------- MODULE MCOrders --------------------------------
(* Instances of Orders for TLC. *)
EXTENDS OrdersProps

CONSTANTS c1, c2

\* A course with a verified track and a course that is paid for.
TwoOffers == {<<"cert", c1>>, <<"paid", c2>>}

Prices == [i \in Offers |-> IF i[1] = "cert" THEN 2 ELSE 1]

\* Nothing is promised once a copy has overwritten the status of an order, and
\* nothing but the exception of VerifiedIsPaid depends on a mode set for free.
Promised == ~raced /\ upgraded = {}

=============================================================================
