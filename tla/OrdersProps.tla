------------------------------- MODULE OrdersProps -------------------------------
(***************************************************************************)
(* What the user gets, what was paid for it and what is paid back.         *)
(***************************************************************************)
EXTENDS Orders

\* Types of all variables, but for amounts: they are sums of costs.
TypeOK ==
    /\ orders \in [OrderIds -> OrderStatus \cup {"none"}]
    /\ items \in [OrderIds -> [Offers -> Item \cup {None}]]
    /\ enrolment \in [Courses -> [active : BOOLEAN, mode : {"honor", "verified"}]]
    /\ redeemed \in [Courses -> OrderIds \cup {0, None}]
    /\ certified \in SUBSET Courses /\ gone \in SUBSET Courses
    /\ \A f \in forms : f.order \in OrderIds
    /\ posts \subseteq forms
    /\ req \in [Requests -> {Idle}
                  \cup [pc : {"add"}, order : OrderIds,
                        course : {c \in Courses : <<"paid", c>> \in Offers}]
                  \cup [pc : {"start", "sign"}, order : OrderIds]
                  \cup [pc : {"purchase"}, order : OrderIds, todo : [Offers -> Item \cup {None}]]]
    /\ unpriced \in SUBSET OrderIds /\ reposted \in SUBSET OrderIds
    /\ upgraded \in SUBSET Courses /\ raced \in BOOLEAN

\* Whatever the user does with the cart, codes, old forms and repeated posts
\* while orders are paid, no order delivers items worth more than was paid for
\* it, unless it was registered for free or a copy has overwritten its status.
PaymentsCoverPurchases ==
    ~raced => \A o \in OrderIds \ unpriced :
        Cost(o, {i \in In(o) : items[o][i].status \in {"purchased", "refunded"}}) <= paid[o]

\* Nobody is in the verified track of a course without a certificate purchased
\* and not refunded: refunds, downgrades, partial purchases and orders taken up
\* again by a late post included.  The page for mid-course reverification, which
\* puts whoever opens it in the verified track, is the exception.
VerifiedIsPaid ==
    ~raced => \A c \in Courses \ upgraded :
        enrolment[c] = [active |-> TRUE, mode |-> "verified"] => PurchasedCerts(c) # {}

\* Billing is told to refund no more of an order than was paid for it, although the
\* user may enrol and unenrol again and again.  It is told more of the orders left
\* out: a refunded order that a repeated post has purchased again is refunded again
\* when the user unenrols next; what register_courses has enrolled in without a look
\* at its price is refunded although nothing was paid; and nothing is claimed once a
\* copy has overwritten the status of an order.
RefundsWerePaid ==
    ~raced => \A o \in OrderIds \ (unpriced \cup reposted) : refunds[o] <= paid[o]

\* "At this point, the order should NOT be modified": an order that the user was
\* sent away to pay stays as it is until it is purchased.
PayingIsFrozen ==
    [][\A o \in OrderIds : orders[o] = "paying" =>
          \/ orders'[o] = "paying" /\ items'[o] = items[o]
          \/ orders'[o] = "purchased"]_vars

=============================================================================
