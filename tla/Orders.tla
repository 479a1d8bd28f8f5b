--------------------------------- MODULE Orders ---------------------------------
(***************************************************************************)
(* The shopping cart, the orders and the enrolments of one user: the cart  *)
(* pages, the verified track, the payment processor that posts back what   *)
(* was paid, and the refund a signal makes when a student unenrols.        *)
(*                                                                         *)
(* A request is one transaction and one step, but for three kinds that     *)
(* work on copies across steps: adding a course writes the order it read   *)
(* at its start, create_order commits three times, and the purchase of an  *)
(* order commits after every item.                                         *)
(***************************************************************************)
EXTENDS Integers, FiniteSets, FiniteSetsExt, Functions, TLC

CONSTANTS
    Courses,
    Offers,       \* what is sold: <<"paid", c>> registrations, <<"cert", c>> certificates
    Price,        \* of each offer
    Coded,        \* the courses with a registration code
    Deletable,    \* the courses that may be deleted
    Requests,     \* concurrent requests that work on copies
    MaxOrders,    \* bounds the orders of the user
    MaxForms,     \* bounds the forms the user is shown
    MaxPaid,      \* bounds what is paid for one order
    None          \* no item, nothing redeemed

ASSUME OffersAssumption == Offers \subseteq {"paid", "cert"} \X Courses /\ IsFiniteSet(Offers)
ASSUME PriceAssumption == Price \in [Offers -> Nat \ {0}]
ASSUME BoundsAssumption == MaxOrders \in Nat \ {0} /\ MaxForms \in Nat /\ MaxPaid \in Nat

OrderIds == 1..MaxOrders

VARIABLES
    orders,     \* the status of every order, "none" before it is created
    items,      \* the items of every order
    enrolment,  \* CourseEnrollment: no record is as good as an inactive honor one
    redeemed,   \* by which order the registration code of a course is used
    certified,  \* courses with a GeneratedCertificate
    gone,       \* courses no longer in the modulestore
    forms,      \* signed purchase forms the user has been shown: of an order, an amount
    posts,      \* what the processor has posted back: it may come again
    req,        \* the requests that work on copies
    paid,       \* history: how much was paid for each order
    refunds,    \* history: how much billing was told to refund of each order, until
                \* it is reposted
    unpriced,   \* history: orders registered for free that had a price
    reposted,   \* history: orders purchased again by a post after a refund
    upgraded,   \* history: courses whose reverification page set the mode
    raced       \* history: a copy has overwritten the status of an order

vars == <<orders, items, enrolment, redeemed, certified, gone, forms, posts, req,
          paid, refunds, unpriced, reposted, upgraded, raced>>

catalogue == <<certified, gone>>
history == <<paid, refunds, unpriced, reposted, upgraded, raced>>

-----------------------------------------------------------------------------
OrderStatus == {"cart", "paying", "purchased", "refunded"}

Item == [status : OrderStatus, cost : Nat]

ASSUME NoneAssumption == None \notin Item

\* The items of order o in the database.
In(o) == {i \in Offers : items[o][i] # None}

\* get_cart_for_user: the newest order that is a cart.
Carts == {o \in OrderIds : orders[o] = "cart"}
Cart == Max(Carts)

Cost(o, S) == SumFunctionOnSet([i \in Offers |-> items[o][i].cost], S)

\* Order.total_cost: the items that have the order's status.
TotalCost(o) == Cost(o, {i \in In(o) : items[o][i].status = orders[o]})

WithStatus(o, status) ==
    [items EXCEPT ![o] = [i \in Offers |->
        IF @[i] = None THEN None ELSE [@[i] EXCEPT !.status = status]]]

Unoffered == [i \in Offers |-> None]

\* The parameters of a form are what the processor posts back.
Form(o, amount) == [order |-> o, amount |-> amount]

Idle == [pc |-> "idle"]

Init ==
    /\ orders = [o \in OrderIds |-> "none"]
    /\ items = [o \in OrderIds |-> Unoffered]
    /\ enrolment = [c \in Courses |-> [active |-> FALSE, mode |-> "honor"]]
    /\ redeemed = [c \in Courses |-> None]
    /\ certified = {} /\ gone = {}
    /\ forms = {} /\ posts = {}
    /\ req = [r \in Requests |-> Idle]
    /\ paid = [o \in OrderIds |-> 0] /\ refunds = [o \in OrderIds |-> 0]
    /\ unpriced = {} /\ reposted = {} /\ upgraded = {} /\ raced = FALSE

-----------------------------------------------------------------------------
(***************************************************************************)
(* The cart.                                                               *)
(***************************************************************************)
\* Every page asks whether the user's cart has items, which creates it.
OpenCart ==
    /\ Carts = {}
    /\ \E o \in OrderIds :
          /\ orders[o] = "none" /\ \A p \in 1..(o - 1) : orders[p] # "none"
          /\ orders' = [orders EXCEPT ![o] = "cart"]
    /\ UNCHANGED <<items, enrolment, redeemed, catalogue, forms, posts, req, history>>

\* add_course_to_cart has read the cart and checked the course ...
AddCourseReads(r, c) ==
    /\ req[r] = Idle /\ Carts # {}
    /\ <<"paid", c>> \in Offers \ In(Cart)
    /\ c \notin gone /\ ~enrolment[c].active
    /\ req' = [req EXCEPT ![r] = [pc |-> "add", order |-> Cart, course |-> c]]
    /\ UNCHANGED <<orders, items, enrolment, redeemed, catalogue, forms, posts, history>>

\* ... and saves the order as read, and the item with its status.
AddCourse(r) ==
    /\ req[r].pc = "add"
    /\ LET o == req[r].order  i == <<"paid", req[r].course>> IN
          /\ orders' = [orders EXCEPT ![o] = "cart"]
          /\ items' = [items EXCEPT ![o][i] = [status |-> "cart", cost |-> Price[i]]]
          /\ raced' = (raced \/ orders[o] # "cart")
    /\ req' = [req EXCEPT ![r] = Idle]
    /\ UNCHANGED <<enrolment, redeemed, catalogue, forms, posts, paid, refunds, unpriced, reposted, upgraded>>

\* show_cart: the form is signed for the cart as it is; with nothing to pay the
\* page offers to register instead.
ShowCart ==
    /\ Carts # {} /\ TotalCost(Cart) > 0 /\ Cardinality(forms) < MaxForms
    /\ forms' = forms \cup {Form(Cart, TotalCost(Cart))}
    /\ UNCHANGED <<orders, items, enrolment, redeemed, catalogue, posts, req, history>>

ReleasedCodes(o) == [c \in Courses |-> IF redeemed[c] = o THEN None ELSE redeemed[c]]

ClearCart ==
    /\ Carts # {}
    /\ items' = [items EXCEPT ![Cart] = Unoffered]
    /\ redeemed' = ReleasedCodes(Cart)
    /\ UNCHANGED <<orders, enrolment, catalogue, forms, posts, req, history>>

\* remove_item: whichever order the item is in, if its status is "cart".  With two
\* codes in the order the lookup fails and the request is rolled back.
RemoveItem(o, i) ==
    /\ i \in In(o) /\ items[o][i].status = "cart"
    /\ Cardinality({c \in Courses : redeemed[c] = o}) < 2
    /\ items' = [items EXCEPT ![o][i] = None]
    /\ redeemed' = IF i[1] = "paid" /\ redeemed[i[2]] = o
                   THEN [redeemed EXCEPT ![i[2]] = None] ELSE redeemed
    /\ UNCHANGED <<orders, enrolment, catalogue, forms, posts, req, history>>

\* use_code with the registration code of a course: an item of it becomes free.
UseCode(c) ==
    /\ c \in Coded /\ Carts # {} /\ redeemed[c] = None
    /\ \E i \in In(Cart) :
          /\ i[2] = c
          /\ items' = [items EXCEPT ![Cart][i].cost = 0]
    /\ redeemed' = [redeemed EXCEPT ![c] = Cart]
    /\ UNCHANGED <<orders, enrolment, catalogue, forms, posts, req, history>>

-----------------------------------------------------------------------------
(***************************************************************************)
(* Enrolment.                                                              *)
(***************************************************************************)
Enrolled(mode) == [active |-> TRUE, mode |-> mode]

\* register_courses enrols in everything the cart holds: the page offers it for
\* a free cart only, the view does not look.
RegisterCourses ==
    /\ Carts # {} /\ In(Cart) # {}
    /\ enrolment' = [c \in Courses |-> IF \E i \in In(Cart) : i[2] = c
                                       THEN Enrolled("honor") ELSE enrolment[c]]
    /\ items' = WithStatus(Cart, "purchased")
    /\ orders' = [orders EXCEPT ![Cart] = "purchased"]
    /\ unpriced' = IF Cost(Cart, In(Cart)) > 0 THEN unpriced \cup {Cart} ELSE unpriced
    /\ UNCHANGED <<redeemed, catalogue, forms, posts, req, paid, refunds, reposted, upgraded, raced>>

EnrollHonor_KeepsMode(c) ==
    /\ c \notin gone
    /\ enrolment' = [enrolment EXCEPT ![c] = Enrolled(@.mode)]
    /\ UNCHANGED <<orders, items, redeemed, catalogue, forms, posts, req, history>>

\* The honor track, from the choice of modes: also when already enrolled.
EnrollHonor(c) ==
    /\ c \notin gone
    /\ enrolment' = [enrolment EXCEPT ![c] = Enrolled("honor")]
    /\ UNCHANGED <<orders, items, redeemed, catalogue, forms, posts, req, history>>

\* register_code_redemption: a code used without any order.
RedeemCode(c) ==
    /\ c \in Coded \ gone /\ redeemed[c] = None
    /\ redeemed' = [redeemed EXCEPT ![c] = 0]
    /\ enrolment' = [enrolment EXCEPT ![c] = Enrolled("honor")]
    /\ UNCHANGED <<orders, items, catalogue, forms, posts, req, history>>

\* MidCourseReverifyView sets the mode, paid for or not.
ReverifyPage(c) ==
    /\ <<"cert", c>> \in Offers
    /\ enrolment' = [enrolment EXCEPT ![c].mode = "verified"]
    /\ upgraded' = IF enrolment[c].mode = "honor" THEN upgraded \cup {c} ELSE upgraded
    /\ UNCHANGED <<orders, items, redeemed, catalogue, forms, posts, req,
                   paid, refunds, unpriced, reposted, raced>>

\* CourseEnrollment.refundable
Refundable(c) == c \notin certified /\ <<"cert", c>> \in Offers

PurchasedCerts(c) ==
    {o \in OrderIds : <<"cert", c>> \in In(o) /\ items[o][<<"cert", c>>].status = "purchased"}

\* The sum billing was told to refund; that of an order that is refunded for a
\* second time, since it was purchased again by a post, is not kept.
Told(o, c, sum) == IF o \in reposted THEN sum ELSE sum + items[o][<<"cert", c>>].cost

\* refund_cert_callback, on the signal that update_enrollment sends.
RefundCert_ItemLeft(c) ==
    IF ~Refundable(c) \/ PurchasedCerts(c) = {}
    THEN UNCHANGED <<orders, items, refunds>>
    ELSE \E o \in PurchasedCerts(c) :
            /\ orders' = [orders EXCEPT ![o] = "refunded"]
            /\ refunds' = [refunds EXCEPT ![o] = Told(o, c, @)]
            /\ UNCHANGED items

RefundCert(c) ==
    IF ~Refundable(c) \/ PurchasedCerts(c) = {}
    THEN UNCHANGED <<orders, items, refunds>>
    ELSE \E o \in PurchasedCerts(c) :
            /\ items' = [items EXCEPT ![o][<<"cert", c>>].status = "refunded"]
            /\ orders' = [orders EXCEPT ![o] = "refunded"]
            /\ refunds' = [refunds EXCEPT ![o] = Told(o, c, @)]

Unenroll(c) ==
    /\ enrolment[c].active
    /\ enrolment' = [enrolment EXCEPT ![c].active = FALSE]
    /\ RefundCert(c)
    /\ UNCHANGED <<redeemed, catalogue, forms, posts, req, paid, unpriced, reposted, upgraded, raced>>

-----------------------------------------------------------------------------
(***************************************************************************)
(* Buying.                                                                 *)
(***************************************************************************)
\* create_order empties the cart, codes it holds stay used, and adds the
\* certificate, which commits ...
CreateOrder(r, c) ==
    /\ req[r] = Idle /\ Carts # {}
    /\ <<"cert", c>> \in Offers /\ c \notin gone
    /\ items' = [items EXCEPT ![Cart] =
                    [Unoffered EXCEPT ![<<"cert", c>>] =
                        [status |-> "cart", cost |-> Price[<<"cert", c>>]]]]
    /\ req' = [req EXCEPT ![r] = [pc |-> "start", order |-> Cart]]
    /\ UNCHANGED <<orders, enrolment, redeemed, catalogue, forms, posts, history>>

\* ... start_purchase finds the status "cart" in its copy, commits ...
StartPurchase(r) ==
    /\ req[r].pc = "start"
    /\ LET o == req[r].order IN
          /\ orders' = [orders EXCEPT ![o] = "paying"]
          /\ items' = WithStatus(o, "paying")
          /\ raced' = (raced \/ orders[o] # "cart")
    /\ req' = [req EXCEPT ![r].pc = "sign"]
    /\ UNCHANGED <<enrolment, redeemed, catalogue, forms, posts, paid, refunds, unpriced, reposted, upgraded>>

\* ... and the form is signed for the items that are "paying".
SignPurchase(r) ==
    /\ req[r].pc = "sign" /\ Cardinality(forms) < MaxForms
    /\ LET o == req[r].order
           total == Cost(o, {i \in In(o) : items[o][i].status = "paying"}) IN
          forms' = IF total > 0 THEN forms \cup {Form(o, total)} ELSE forms
    /\ req' = [req EXCEPT ![r] = Idle]
    /\ UNCHANGED <<orders, items, enrolment, redeemed, catalogue, posts, history>>

\* The user pays what a form says, maybe an old one or one paid already.
Pay(f) ==
    /\ paid[f.order] + f.amount <= MaxPaid
    /\ paid' = [paid EXCEPT ![f.order] = @ + f.amount]
    /\ posts' = posts \cup {f}
    /\ UNCHANGED <<orders, items, enrolment, redeemed, catalogue, forms, req, refunds, unpriced, reposted, upgraded, raced>>

\* purchased_callback: a registration fails if its course is gone.
Purchasable(i) == i[1] = "cert" \/ i[2] \notin gone

Mode(i) == IF i[1] = "cert" THEN "verified" ELSE "honor"

\* purchase_item, on a copy of the item.
PurchaseItem(o, i, cost) ==
    /\ Purchasable(i)
    /\ enrolment' = [enrolment EXCEPT ![i[2]] = Enrolled(Mode(i))]
    /\ items' = [items EXCEPT ![o][i] = [status |-> "purchased", cost |-> cost]]

\* _payment_accepted: the amount is the total of the order.
Accepted_AnyAmount(m) == TRUE

Accepted(m) == m.amount = TotalCost(m.order)

\* postpay_callback of an accepted payment up to its first commit: the order and
\* the first item.  An order that is purchased already is left alone; if the
\* first item fails, all is rolled back.
PostpayCallback(r, m) ==
    /\ req[r] = Idle
    /\ Accepted(m) /\ orders[m.order] # "purchased"
    /\ orders' = [orders EXCEPT ![m.order] = "purchased"]
    /\ \E i \in In(m.order) :
          /\ PurchaseItem(m.order, i, items[m.order][i].cost)
          /\ req' = [req EXCEPT ![r] =
                        IF In(m.order) = {i} THEN Idle
                        ELSE [pc |-> "purchase", order |-> m.order,
                              todo |-> [items[m.order] EXCEPT ![i] = None]]]
    /\ reposted' = IF orders[m.order] = "refunded" THEN reposted \cup {m.order} ELSE reposted
    /\ UNCHANGED <<redeemed, catalogue, forms, posts, paid, refunds, unpriced, upgraded, raced>>

ToPurchase(r) == {i \in Offers : req[r].todo[i] # None}

\* The next item of the order, from the copies read with the first.
PurchaseNext(r) ==
    /\ req[r].pc = "purchase"
    /\ \E i \in ToPurchase(r) :
          /\ PurchaseItem(req[r].order, i, req[r].todo[i].cost)
          /\ req' = [req EXCEPT ![r] = IF ToPurchase(r) = {i} THEN Idle
                                       ELSE [@ EXCEPT !.todo[i] = None]]
    /\ UNCHANGED <<orders, redeemed, catalogue, forms, posts, history>>

\* A request ends early: an item that cannot be purchased, an exception in a
\* course's lookup, the death of the process.  What it committed stays.
RequestFails(r) ==
    /\ req[r] # Idle
    /\ req' = [req EXCEPT ![r] = Idle]
    /\ UNCHANGED <<orders, items, enrolment, redeemed, catalogue, forms, posts, history>>

-----------------------------------------------------------------------------
\* Certificates matter to refunds only: those of courses without a verified
\* track are left out.
CertificateGenerated(c) ==
    /\ <<"cert", c>> \in Offers
    /\ enrolment[c].active
    /\ certified' = certified \cup {c}
    /\ UNCHANGED <<orders, items, enrolment, redeemed, gone, forms, posts, req, history>>

CourseDeleted(c) ==
    /\ c \in Deletable
    /\ gone' = gone \cup {c}
    /\ UNCHANGED <<orders, items, enrolment, redeemed, certified, forms, posts, req, history>>

RequestStep(r) ==
    \/ \E c \in Courses : AddCourseReads(r, c) \/ CreateOrder(r, c)
    \/ AddCourse(r) \/ StartPurchase(r) \/ SignPurchase(r)
    \/ \E m \in posts : PostpayCallback(r, m)
    \/ PurchaseNext(r) \/ RequestFails(r)

CourseStep(c) ==
    \/ UseCode(c) \/ EnrollHonor(c) \/ RedeemCode(c) \/ ReverifyPage(c) \/ Unenroll(c)
    \/ CertificateGenerated(c) \/ CourseDeleted(c)

Next ==
    \/ OpenCart \/ ShowCart \/ ClearCart \/ RegisterCourses
    \/ \E o \in OrderIds, i \in Offers : RemoveItem(o, i)
    \/ \E f \in forms : Pay(f)
    \/ \E c \in Courses : CourseStep(c)
    \/ \E r \in Requests : RequestStep(r)

Spec == Init /\ [][Next]_vars

=============================================================================
