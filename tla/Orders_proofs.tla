------------------------------ MODULE Orders_proofs ------------------------------
(***************************************************************************)
(* Theorems about Orders, for any courses, offers, prices and bounds.      *)
(***************************************************************************)
EXTENDS OrdersProps, Sums_proofs, TLAPS, FiniteSetTheorems, WellFoundedInduction

-----------------------------------------------------------------------------
(***************************************************************************)
(* The cart is one of the user's carts.                                    *)
(***************************************************************************)
\* A set of order ids has a largest one: fewest ids are as large.
LEMMA LargestOrder ==
    ASSUME NEW S \in SUBSET OrderIds, S # {}
    PROVE  \E o \in S : \A p \in S : o >= p
  <1> DEFINE From(o) == {p \in OrderIds : p >= o}
             T == {From(o) : o \in S}
             R == StrictSubsetOrdering(OrderIds)
  <1>1. MaxOrders \in Nat /\ IsFiniteSet(OrderIds)
    BY BoundsAssumption, FS_Interval DEF OrderIds
  <1>2. IsWellFoundedOn(R, SUBSET OrderIds)
    BY <1>1, FS_StrictSubsetOrderingWellFounded, FS_FiniteSubsetsOfFinite
  <1>3. T \in SUBSET SUBSET OrderIds /\ T # {}
    OBVIOUS
  <1>4. PICK x \in T : \A y \in T : <<y, x>> \notin R
    <2> HIDE DEF T, R
    <2> QED
      BY <1>2, <1>3, WFMin
  <1>5. PICK o \in S : x = From(o)
    BY <1>4
  <1>6. ASSUME NEW p \in S, ~(o >= p)
        PROVE  FALSE
    <2>1. o \in Nat /\ p \in Nat /\ o \in OrderIds /\ p \in OrderIds /\ o < p
      BY <1>1, <1>6 DEF OrderIds
    <2>2. From(p) \subseteq From(o) /\ o \in From(o) /\ o \notin From(p)
      BY <2>1 DEF OrderIds
    <2>3. From(p) \in T /\ From(p) \in SUBSET OrderIds /\ From(o) \in SUBSET OrderIds
      OBVIOUS
    <2>4. <<From(p), From(o)>> \in R
      <3> HIDE DEF From
      <3> QED
        BY <2>2, <2>3 DEF StrictSubsetOrdering
    <2> QED
      BY <1>4, <1>5, <2>3, <2>4
  <1> QED
    BY <1>6

\* So the newest cart is one.
LEMMA CartFacts ==
    ASSUME Carts # {}
    PROVE  Cart \in OrderIds /\ orders[Cart] = "cart"
  <1>1. Carts \in SUBSET OrderIds
    BY DEF Carts
  <1>2. \E o \in Carts : \A p \in Carts : o >= p
    BY <1>1, LargestOrder
  <1>3. Cart \in Carts
    BY <1>2 DEF Cart, Max
  <1> QED
    BY <1>3 DEF Carts

-----------------------------------------------------------------------------
(***************************************************************************)
(* The invariant.                                                          *)
(***************************************************************************)
Entry == Item \cup {None}

\* A record of CourseEnrollment.
Enrolment == [active : BOOLEAN, mode : {"honor", "verified"}]

Verified == [active |-> TRUE, mode |-> "verified"]

Ended == {"purchased", "refunded"}

\* An item that was bought, and one that may have been refunded since.
Bought(x) == x # None /\ x.status = "purchased"
Delivered(x) == x # None /\ x.status \in Ended

\* Items are delivered with their order, and by a post that has ended it.
DeliveredWithOrder ==
    /\ \A o \in OrderIds, i \in Offers : Delivered(items[o][i]) => orders[o] \in Ended
    /\ \A r \in Requests : req[r].pc = "purchase" => orders[req[r].order] \in Ended

Invariant == TypeOK /\ (~raced => DeliveredWithOrder) /\ VerifiedIsPaid

\* What a step may do to those in the verified track: put them there with a
\* certificate bought, or leave them and their certificates alone.
KeepsPaid ==
    \A c \in Courses \ upgraded' : enrolment'[c] = Verified =>
        \/ <<"cert", c>> \in Offers /\ \E o \in OrderIds : Bought(items'[o][<<"cert", c>>])
        \/ /\ enrolment[c] = Verified /\ c \notin upgraded
           /\ <<"cert", c>> \in Offers => \A o \in OrderIds :
                  Bought(items[o][<<"cert", c>>]) => Bought(items'[o][<<"cert", c>>])

\* The certificates of a course that are bought, by their items.
LEMMA BoughtCerts ==
    ASSUME NEW c \in Courses
    PROVE  PurchasedCerts(c) # {} <=>
               <<"cert", c>> \in Offers /\ \E o \in OrderIds : Bought(items[o][<<"cert", c>>])
  BY DEF PurchasedCerts, In, Bought

\* A step of that kind keeps the invariant.
LEMMA KeepStep ==
    ASSUME Invariant, TypeOK', raced => raced',
           ~raced' => DeliveredWithOrder', ~raced' => KeepsPaid
    PROVE  Invariant'
  <1>1. SUFFICES ASSUME ~raced', NEW c \in Courses \ upgraded', enrolment'[c] = Verified
                 PROVE  PurchasedCerts(c)' # {}
    BY DEF Invariant, VerifiedIsPaid, Verified
  <1>2. PurchasedCerts(c)' # {} <=>
            <<"cert", c>> \in Offers /\ \E o \in OrderIds : Bought(items'[o][<<"cert", c>>])
    BY DEF PurchasedCerts, In, Bought
  <1>3. CASE /\ enrolment[c] = Verified /\ c \notin upgraded
             /\ <<"cert", c>> \in Offers => \A o \in OrderIds :
                    Bought(items[o][<<"cert", c>>]) => Bought(items'[o][<<"cert", c>>])
    <2>1. PurchasedCerts(c) # {}
      BY <1>1, <1>3 DEF Invariant, VerifiedIsPaid, Verified
    <2> QED
      BY <1>2, <1>3, <2>1, BoughtCerts
  <1> QED
    BY <1>1, <1>2, <1>3 DEF KeepsPaid

\* A step that leaves orders and items alone.
LEMMA KeepQuiet ==
    ASSUME Invariant, TypeOK', UNCHANGED <<orders, items, raced>>,
           \A r \in Requests : req'[r].pc = "purchase" => req'[r] = req[r],
           \A c \in Courses \ upgraded' : enrolment'[c] = Verified =>
               enrolment[c] = Verified /\ c \notin upgraded
    PROVE  Invariant'
  <1>1. ~raced' => DeliveredWithOrder'
    BY DEF Invariant, DeliveredWithOrder
  <1>2. KeepsPaid
    BY DEF KeepsPaid
  <1> QED
    BY <1>1, <1>2, KeepStep

-----------------------------------------------------------------------------
(***************************************************************************)
(* Types.                                                                  *)
(***************************************************************************)
Registrable == {c \in Courses : <<"paid", c>> \in Offers}

RequestType ==
    {Idle} \cup [pc : {"add"}, order : OrderIds, course : Registrable]
           \cup [pc : {"start", "sign"}, order : OrderIds]
           \cup [pc : {"purchase"}, order : OrderIds, todo : [Offers -> Entry]]

\* Types of the variables that steps change most.
LEMMA Types ==
    ASSUME TypeOK
    PROVE  /\ orders \in [OrderIds -> OrderStatus \cup {"none"}]
           /\ items \in [OrderIds -> [Offers -> Entry]]
           /\ enrolment \in [Courses -> Enrolment]
           /\ req \in [Requests -> RequestType]
  BY DEF TypeOK, Entry, Enrolment, RequestType, Registrable

\* Changing one item of an order.
LEMMA ItemStep ==
    ASSUME TypeOK, NEW o \in OrderIds, NEW i \in Offers, NEW x \in Entry,
           items' = [items EXCEPT ![o][i] = x]
    PROVE  /\ items' \in [OrderIds -> [Offers -> Entry]] /\ items'[o][i] = x
           /\ \A p \in OrderIds, j \in Offers : p # o \/ j # i => items'[p][j] = items[p][j]
  BY Types

\* Changing all items of an order.
LEMMA ItemsStep ==
    ASSUME TypeOK, NEW o \in OrderIds, NEW f \in [Offers -> Entry],
           items' = [items EXCEPT ![o] = f]
    PROVE  /\ items' \in [OrderIds -> [Offers -> Entry]] /\ items'[o] = f
           /\ \A p \in OrderIds : p # o => items'[p] = items[p]
  BY Types

\* Setting the status of all items of an order.
LEMMA StatusStep ==
    ASSUME TypeOK, NEW o \in OrderIds, NEW status \in OrderStatus, items' = WithStatus(o, status)
    PROVE  /\ items' \in [OrderIds -> [Offers -> Entry]]
           /\ \A j \in Offers : items'[o][j] # None => items'[o][j].status = status
           /\ \A j \in Offers : items[o][j] # None => items'[o][j] # None
           /\ \A p \in OrderIds : p # o => items'[p] = items[p]
  <1> DEFINE f == [j \in Offers |-> IF items[o][j] = None THEN None
                                    ELSE [items[o][j] EXCEPT !.status = status]]
  <1>1. \A j \in Offers : items[o][j] \in Entry
    BY Types
  <1>2. \A x \in Item : /\ [x EXCEPT !.status = status] \in Item
                        /\ [x EXCEPT !.status = status].status = status
                        /\ [x EXCEPT !.status = status] # None
    BY NoneAssumption DEF Item
  <1>3. f \in [Offers -> Entry] /\ \A j \in Offers :
            /\ f[j] # None => f[j].status = status
            /\ items[o][j] # None => f[j] # None
    BY <1>1, <1>2 DEF Entry
  <1>4. items' = [items EXCEPT ![o] = f]
    BY DEF WithStatus
  <1> HIDE DEF f
  <1> QED
    BY <1>3, <1>4, ItemsStep

\* An item is some entry of the type.
LEMMA ItemFacts ==
    /\ \A status \in OrderStatus, cost \in Nat :
           /\ [status |-> status, cost |-> cost] \in Entry
           /\ [status |-> status, cost |-> cost] # None
           /\ [status |-> status, cost |-> cost].status = status
    /\ \A i \in Offers : Price[i] \in Nat
    /\ OrderStatus = {"cart", "paying", "purchased", "refunded"}
  BY NoneAssumption, PriceAssumption DEF Item, Entry, OrderStatus

\* Changing one request, one order, one enrolment.
LEMMA RequestChange ==
    ASSUME TypeOK, NEW r \in Requests, NEW q \in RequestType, req' = [req EXCEPT ![r] = q]
    PROVE  /\ req' \in [Requests -> RequestType] /\ req'[r] = q
           /\ \A s \in Requests : s # r => req'[s] = req[s]
  BY Types

LEMMA OrderChange ==
    ASSUME TypeOK, NEW o \in OrderIds, NEW status \in OrderStatus,
           orders' = [orders EXCEPT ![o] = status]
    PROVE  /\ orders' \in [OrderIds -> OrderStatus \cup {"none"}] /\ orders'[o] = status
           /\ \A p \in OrderIds : p # o => orders'[p] = orders[p]
  BY Types

LEMMA EnrolmentChange ==
    ASSUME TypeOK, NEW c \in Courses, NEW e \in Enrolment, enrolment' = [enrolment EXCEPT ![c] = e]
    PROVE  /\ enrolment' \in [Courses -> Enrolment] /\ enrolment'[c] = e
           /\ \A d \in Courses : d # c => enrolment'[d] = enrolment[d]
  BY Types

\* A request ends.
LEMMA RequestEnds ==
    ASSUME TypeOK, NEW r \in Requests, req' = [req EXCEPT ![r] = Idle]
    PROVE  /\ req' \in [Requests -> RequestType] /\ req'[r].pc = "idle"
           /\ \A s \in Requests : s # r => req'[s] = req[s]
  <1>1. PICK q \in RequestType : q = Idle /\ req' = [req EXCEPT ![r] = q]
    BY DEF RequestType
  <1>2. q.pc = "idle"
    BY <1>1 DEF Idle
  <1> QED
    BY <1>1, <1>2, RequestChange

\* What the type of a request says of one at work.
LEMMA RequestFacts ==
    ASSUME TypeOK, NEW r \in Requests
    PROVE  /\ req[r].pc = "add" => req[r].order \in OrderIds /\ req[r].course \in Registrable
           /\ req[r].pc \in {"start", "sign"} =>
                  req[r].order \in OrderIds /\ req[r] \in [pc : {"start", "sign"}, order : OrderIds]
           /\ req[r].pc = "purchase" =>
                  /\ req[r].order \in OrderIds /\ req[r].todo \in [Offers -> Entry]
                  /\ req[r] \in [pc : {"purchase"}, order : OrderIds, todo : [Offers -> Entry]]
  <1>1. req[r] \in RequestType /\ Idle.pc = "idle"
    BY Types DEF Idle
  <1>2. PICK q : q = req[r]
    OBVIOUS
  <1>3. CASE q = Idle
    BY <1>1, <1>2, <1>3
  <1>4. CASE q \in [pc : {"add"}, order : OrderIds, course : Registrable]
    BY <1>2, <1>4
  <1>5. CASE q \in [pc : {"start", "sign"}, order : OrderIds]
    BY <1>2, <1>5
  <1>6. CASE q \in [pc : {"purchase"}, order : OrderIds, todo : [Offers -> Entry]]
    BY <1>2, <1>6
  <1> QED
    BY <1>1, <1>2, <1>3, <1>4, <1>5, <1>6 DEF RequestType

\* Every offer is of a course.
LEMMA OfferFacts ==
    ASSUME NEW i \in Offers
    PROVE  i[2] \in Courses /\ (i[1] = "cert" => i = <<"cert", i[2]>>)
  <1>1. PICK kind \in {"paid", "cert"}, c \in Courses : i = <<kind, c>>
    BY OffersAssumption
  <1> QED
    BY <1>1

\* A cart delivers nothing, while no copy has overwritten a status.
LEMMA CartDeliversNothing ==
    ASSUME Invariant, ~raced, NEW o \in OrderIds, orders[o] = "cart"
    PROVE  /\ \A i \in Offers : ~Delivered(items[o][i])
           /\ \A r \in Requests : req[r].pc = "purchase" => req[r].order # o
  BY DEF Invariant, DeliveredWithOrder, Ended

\* Types of the variables that few steps change.
OtherTypes ==
    /\ redeemed \in [Courses -> OrderIds \cup {0, None}]
    /\ certified \in SUBSET Courses /\ gone \in SUBSET Courses
    /\ (\A f \in forms : f.order \in OrderIds) /\ posts \subseteq forms
    /\ unpriced \in SUBSET OrderIds /\ reposted \in SUBSET OrderIds
    /\ upgraded \in SUBSET Courses /\ raced \in BOOLEAN

LEMMA Typed ==
    ASSUME orders \in [OrderIds -> OrderStatus \cup {"none"}],
           items \in [OrderIds -> [Offers -> Entry]],
           enrolment \in [Courses -> Enrolment],
           req \in [Requests -> RequestType],
           OtherTypes
    PROVE  TypeOK
  BY DEF TypeOK, OtherTypes, Entry, Enrolment, RequestType, Registrable

LEMMA OtherTyped ==
    ASSUME TypeOK
    PROVE  OtherTypes
  BY DEF TypeOK, OtherTypes

\* A step keeps the types it keeps one by one.
LEMMA TypedStep ==
    ASSUME orders' \in [OrderIds -> OrderStatus \cup {"none"}],
           items' \in [OrderIds -> [Offers -> Entry]],
           enrolment' \in [Courses -> Enrolment],
           req' \in [Requests -> RequestType],
           OtherTypes'
    PROVE  TypeOK'
  BY DEF TypeOK, OtherTypes, Entry, Enrolment, RequestType, Registrable

-----------------------------------------------------------------------------
(***************************************************************************)
(* The initial states.                                                     *)
(***************************************************************************)
LEMMA InitCorrect ==
    ASSUME Init
    PROVE  Invariant
  <1>1. TypeOK
    <2>1. items \in [OrderIds -> [Offers -> Entry]]
      BY DEF Init, Unoffered, Entry
    <2>2. enrolment \in [Courses -> Enrolment]
      BY DEF Init, Enrolment
    <2>3. req \in [Requests -> RequestType]
      BY DEF Init, RequestType
    <2>4. OtherTypes /\ orders \in [OrderIds -> OrderStatus \cup {"none"}]
      BY DEF Init, OtherTypes
    <2> QED
      BY <2>1, <2>2, <2>3, <2>4, Typed
  <1>2. DeliveredWithOrder
    BY DEF Init, DeliveredWithOrder, Delivered, Unoffered, Idle
  <1>3. VerifiedIsPaid
    BY DEF Init, VerifiedIsPaid
  <1> QED
    BY <1>1, <1>2, <1>3 DEF Invariant

-----------------------------------------------------------------------------
(***************************************************************************)
(* Steps that leave orders and items alone.                                *)
(***************************************************************************)
\* A request that reads, or ends.
LEMMA QuietRequest ==
    ASSUME Invariant, UNCHANGED <<orders, items, enrolment, upgraded, raced>>,
           NEW r \in Requests, NEW q \in RequestType, q.pc # "purchase",
           req' = [req EXCEPT ![r] = q], OtherTypes'
    PROVE  Invariant'
  <1>1. TypeOK'
    BY RequestChange, Types, TypedStep DEF Invariant
  <1>2. \A s \in Requests : req'[s].pc = "purchase" => req'[s] = req[s]
    BY RequestChange DEF Invariant
  <1> QED
    BY <1>1, <1>2, KeepQuiet

LEMMA AddCourseReadsCorrect ==
    ASSUME Invariant, NEW r \in Requests, NEW c \in Courses, AddCourseReads(r, c)
    PROVE  Invariant'
  <1>1. PICK q : q = [pc |-> "add", order |-> Cart, course |-> c]
    OBVIOUS
  <1>2. q \in RequestType /\ q.pc # "purchase"
    BY <1>1, CartFacts DEF AddCourseReads, RequestType, Registrable
  <1>3. OtherTypes'
    BY OtherTyped DEF AddCourseReads, Invariant, OtherTypes, catalogue, history
  <1> QED
    BY <1>1, <1>2, <1>3, QuietRequest DEF AddCourseReads, history

LEMMA RequestFailsCorrect ==
    ASSUME Invariant, NEW r \in Requests, RequestFails(r)
    PROVE  Invariant'
  <1>1. PICK q \in RequestType : q = Idle
    BY DEF RequestType
  <1>2. q.pc # "purchase"
    BY <1>1 DEF Idle
  <1>3. OtherTypes'
    BY OtherTyped DEF RequestFails, Invariant, OtherTypes, catalogue, history
  <1> QED
    BY <1>1, <1>2, <1>3, QuietRequest DEF RequestFails, history

LEMMA SignPurchaseCorrect ==
    ASSUME Invariant, NEW r \in Requests, SignPurchase(r)
    PROVE  Invariant'
  <1>1. PICK q \in RequestType : q = Idle
    BY DEF RequestType
  <1>2. q.pc # "purchase"
    BY <1>1 DEF Idle
  <1>3. PICK total : forms' = IF total > 0 THEN forms \cup {Form(req[r].order, total)} ELSE forms
    BY DEF SignPurchase
  <1>4. req[r].order \in OrderIds
    BY RequestFacts DEF SignPurchase, Invariant
  <1>5. OtherTypes'
    BY <1>3, <1>4, OtherTyped DEF SignPurchase, Invariant, OtherTypes, catalogue, history, Form
  <1> QED
    BY <1>1, <1>2, <1>5, QuietRequest DEF SignPurchase, history

\* Steps that leave the requests alone too.
LEMMA QuietStep ==
    ASSUME Invariant, UNCHANGED <<orders, items, raced, req>>, OtherTypes',
           enrolment' \in [Courses -> Enrolment],
           \A c \in Courses \ upgraded' : enrolment'[c] = Verified =>
               enrolment[c] = Verified /\ c \notin upgraded
    PROVE  Invariant'
  <1>1. TypeOK'
    BY Types, TypedStep DEF Invariant
  <1> QED
    BY <1>1, KeepQuiet

LEMMA ShowCartCorrect ==
    ASSUME Invariant, ShowCart
    PROVE  Invariant'
  <1>1. PICK total : forms' = forms \cup {Form(Cart, total)}
    BY DEF ShowCart
  <1>2. Cart \in OrderIds
    BY CartFacts DEF ShowCart
  <1>3. OtherTypes'
    BY <1>1, <1>2, OtherTyped DEF ShowCart, Invariant, OtherTypes, catalogue, history, Form
  <1>4. UNCHANGED <<orders, items, raced, req, enrolment, upgraded>>
    BY DEF ShowCart, history
  <1>5. enrolment' \in [Courses -> Enrolment]
    BY <1>4, Types DEF Invariant
  <1> QED
    BY <1>3, <1>4, <1>5, QuietStep

LEMMA PayCorrect ==
    ASSUME Invariant, NEW f \in forms, Pay(f)
    PROVE  Invariant'
  <1>1. OtherTypes'
    BY OtherTyped DEF Pay, Invariant, OtherTypes, catalogue
  <1>2. UNCHANGED <<orders, items, raced, req, enrolment, upgraded>>
    BY DEF Pay
  <1>3. enrolment' \in [Courses -> Enrolment]
    BY <1>2, Types DEF Invariant
  <1> QED
    BY <1>1, <1>2, <1>3, QuietStep

LEMMA HonorIsNotVerified ==
    Enrolled("honor") \in Enrolment /\ Enrolled("honor") # Verified
  BY DEF Enrolled, Enrolment, Verified

LEMMA EnrollHonorCorrect ==
    ASSUME Invariant, NEW c \in Courses, EnrollHonor(c)
    PROVE  Invariant'
  <1>1. PICK e \in Enrolment : e = Enrolled("honor") /\ e # Verified
    BY HonorIsNotVerified
  <1>2. /\ enrolment' \in [Courses -> Enrolment] /\ enrolment'[c] # Verified
        /\ \A d \in Courses : d # c => enrolment'[d] = enrolment[d]
    BY <1>1, EnrolmentChange DEF EnrollHonor, Invariant
  <1>3. OtherTypes'
    BY OtherTyped DEF EnrollHonor, Invariant, OtherTypes, catalogue, history
  <1>4. UNCHANGED <<orders, items, raced, req, upgraded>>
    BY DEF EnrollHonor, history
  <1> QED
    BY <1>2, <1>3, <1>4, QuietStep

LEMMA RedeemCodeCorrect ==
    ASSUME Invariant, NEW c \in Courses, RedeemCode(c)
    PROVE  Invariant'
  <1>1. PICK e \in Enrolment : e = Enrolled("honor") /\ e # Verified
    BY HonorIsNotVerified
  <1>2. /\ enrolment' \in [Courses -> Enrolment] /\ enrolment'[c] # Verified
        /\ \A d \in Courses : d # c => enrolment'[d] = enrolment[d]
    BY <1>1, EnrolmentChange DEF RedeemCode, Invariant
  <1>3. OtherTypes'
    BY OtherTyped DEF RedeemCode, Invariant, OtherTypes, catalogue, history
  <1>4. UNCHANGED <<orders, items, raced, req, upgraded>>
    BY DEF RedeemCode, history
  <1> QED
    BY <1>2, <1>3, <1>4, QuietStep

\* The page for reverification puts a course among the exceptions, unless its
\* student was in the verified track already.
LEMMA ReverifyPageCorrect ==
    ASSUME Invariant, NEW c \in Courses, ReverifyPage(c)
    PROVE  Invariant'
  <1>1. enrolment[c] \in Enrolment
    BY Types DEF Invariant
  <1>2. PICK e \in Enrolment : e = [enrolment[c] EXCEPT !.mode = "verified"]
    BY <1>1 DEF Enrolment
  <1>3. enrolment' = [enrolment EXCEPT ![c] = e]
    BY <1>2 DEF ReverifyPage
  <1>4. /\ enrolment' \in [Courses -> Enrolment] /\ enrolment'[c] = e
        /\ \A d \in Courses : d # c => enrolment'[d] = enrolment[d]
    BY <1>3, EnrolmentChange DEF Invariant
  <1>5. enrolment[c].mode = "honor" => upgraded' = upgraded \cup {c}
    BY DEF ReverifyPage
  <1>6. enrolment[c].mode # "honor" => e = enrolment[c] /\ upgraded' = upgraded
    BY <1>1, <1>2 DEF ReverifyPage, Enrolment
  <1>7. OtherTypes'
    BY OtherTyped DEF ReverifyPage, Invariant, OtherTypes, catalogue
  <1>8. UNCHANGED <<orders, items, raced, req>>
    BY DEF ReverifyPage
  <1>9. \A d \in Courses \ upgraded' : enrolment'[d] = Verified =>
            enrolment[d] = Verified /\ d \notin upgraded
    BY <1>4, <1>5, <1>6
  <1> QED
    BY <1>4, <1>7, <1>8, <1>9, QuietStep

LEMMA CatalogueCorrect ==
    ASSUME Invariant, NEW c \in Courses, CertificateGenerated(c) \/ CourseDeleted(c)
    PROVE  Invariant'
  <1>1. OtherTypes'
    BY OtherTyped DEF CertificateGenerated, CourseDeleted, Invariant, OtherTypes, history
  <1>2. UNCHANGED <<orders, items, raced, req, enrolment, upgraded>>
    BY DEF CertificateGenerated, CourseDeleted, history
  <1>3. enrolment' \in [Courses -> Enrolment]
    BY <1>2, Types DEF Invariant
  <1> QED
    BY <1>1, <1>2, <1>3, QuietStep

-----------------------------------------------------------------------------
(***************************************************************************)
(* Steps of the cart.                                                      *)
(***************************************************************************)
LEMMA OpenCartCorrect ==
    ASSUME Invariant, OpenCart
    PROVE  Invariant'
  <1>1. PICK o \in OrderIds : orders[o] = "none" /\ orders' = [orders EXCEPT ![o] = "cart"]
    BY DEF OpenCart
  <1>2. /\ orders' \in [OrderIds -> OrderStatus \cup {"none"}]
        /\ \A p \in OrderIds : p # o => orders'[p] = orders[p]
    BY <1>1, ItemFacts, OrderChange DEF Invariant
  <1>3. UNCHANGED <<items, enrolment, req, upgraded, raced>>
    BY DEF OpenCart, history
  <1>4. OtherTypes'
    BY OtherTyped DEF OpenCart, Invariant, OtherTypes, catalogue, history
  <1>5. TypeOK'
    BY <1>2, <1>3, <1>4, Types, TypedStep DEF Invariant
  <1>6. ~raced' => DeliveredWithOrder'
    BY <1>1, <1>2, <1>3 DEF Invariant, DeliveredWithOrder, Ended
  <1>7. KeepsPaid
    BY <1>3 DEF KeepsPaid
  <1> QED
    BY <1>3, <1>5, <1>6, <1>7, KeepStep

\* A step that changes only items that are not delivered.
LEMMA KeepDelivered ==
    ASSUME Invariant, TypeOK', UNCHANGED <<orders, enrolment, upgraded, raced>>,
           \A r \in Requests : req'[r].pc = "purchase" => req'[r] = req[r],
           ~raced => \A o \in OrderIds, i \in Offers :
               \/ items'[o][i] = items[o][i]
               \/ ~Delivered(items[o][i]) /\ ~Delivered(items'[o][i])
    PROVE  Invariant'
  <1>1. ~raced' => DeliveredWithOrder'
    BY DEF Invariant, DeliveredWithOrder
  <1>2. ~raced' => KeepsPaid
    BY DEF KeepsPaid, Bought, Delivered, Ended
  <1> QED
    BY <1>1, <1>2, KeepStep

\* None, and an item that is in a cart, are not delivered.
LEMMA Undelivered ==
    /\ ~Delivered(None)
    /\ \A x \in Entry : x # None /\ x.status \in {"cart", "paying"} => ~Delivered(x)
  BY DEF Delivered, Ended

LEMMA ClearCartCorrect ==
    ASSUME Invariant, ClearCart
    PROVE  Invariant'
  <1>1. PICK o \in OrderIds : o = Cart /\ orders[o] = "cart"
    BY CartFacts DEF ClearCart
  <1>2. PICK f \in [Offers -> Entry] : f = Unoffered /\ \A i \in Offers : f[i] = None
    <2>1. Unoffered \in [Offers -> Entry] /\ \A i \in Offers : Unoffered[i] = None
      BY DEF Unoffered, Entry
    <2> QED
      BY <2>1
  <1>3. items' = [items EXCEPT ![o] = f]
    BY <1>1, <1>2 DEF ClearCart
  <1>4. /\ items' \in [OrderIds -> [Offers -> Entry]] /\ items'[o] = f
        /\ \A p \in OrderIds : p # o => items'[p] = items[p]
    BY <1>3, ItemsStep DEF Invariant
  <1>5. UNCHANGED <<orders, enrolment, upgraded, raced, req>>
    BY DEF ClearCart, history
  <1>6. redeemed' \in [Courses -> OrderIds \cup {0, None}]
    BY OtherTyped DEF ClearCart, ReleasedCodes, Invariant, OtherTypes
  <1>7. OtherTypes'
    BY <1>6, OtherTyped DEF ClearCart, Invariant, OtherTypes, catalogue, history
  <1>8. TypeOK'
    BY <1>4, <1>5, <1>7, Types, TypedStep DEF Invariant
  <1>9. ~raced => \A p \in OrderIds, i \in Offers :
            items'[p][i] = items[p][i] \/ (~Delivered(items[p][i]) /\ ~Delivered(items'[p][i]))
    BY <1>1, <1>2, <1>4, CartDeliversNothing, Undelivered
  <1> QED
    BY <1>5, <1>8, <1>9, KeepDelivered

LEMMA RemoveItemCorrect ==
    ASSUME Invariant, NEW o \in OrderIds, NEW i \in Offers, RemoveItem(o, i)
    PROVE  Invariant'
  <1>1. items' = [items EXCEPT ![o][i] = None] /\ None \in Entry
    BY DEF RemoveItem, Entry
  <1>2. /\ items' \in [OrderIds -> [Offers -> Entry]] /\ items'[o][i] = None
        /\ \A p \in OrderIds, j \in Offers : p # o \/ j # i => items'[p][j] = items[p][j]
    BY <1>1, ItemStep DEF Invariant
  <1>3. ~Delivered(items[o][i]) /\ ~Delivered(items'[o][i])
    BY <1>2 DEF RemoveItem, In, Delivered, Ended
  <1>4. UNCHANGED <<orders, enrolment, upgraded, raced, req>>
    BY DEF RemoveItem, history
  <1>5. redeemed' \in [Courses -> OrderIds \cup {0, None}]
    BY OtherTyped DEF RemoveItem, Invariant, OtherTypes
  <1>6. OtherTypes'
    BY <1>5, OtherTyped DEF RemoveItem, Invariant, OtherTypes, catalogue, history
  <1>7. TypeOK'
    BY <1>2, <1>4, <1>6, Types, TypedStep DEF Invariant
  <1>8. \A p \in OrderIds, j \in Offers :
            items'[p][j] = items[p][j] \/ (~Delivered(items[p][j]) /\ ~Delivered(items'[p][j]))
    BY <1>2, <1>3
  <1> QED
    BY <1>4, <1>7, <1>8, KeepDelivered

LEMMA UseCodeCorrect ==
    ASSUME Invariant, NEW c \in Courses, UseCode(c)
    PROVE  Invariant'
  <1>1. PICK o \in OrderIds : o = Cart /\ orders[o] = "cart"
    BY CartFacts DEF UseCode
  <1>2. PICK i \in Offers : items[o][i] # None /\ items' = [items EXCEPT ![o][i].cost = 0]
    BY <1>1 DEF UseCode, In
  <1>3. items[o][i] \in Item
    BY <1>2, Types DEF Invariant, Entry
  <1>4. PICK x \in Entry : x = [items[o][i] EXCEPT !.cost = 0] /\ x # None
    <2>1. PICK x : x = [items[o][i] EXCEPT !.cost = 0]
      OBVIOUS
    <2>2. x \in Item
      BY <1>3, <2>1 DEF Item
    <2> QED
      BY <2>1, <2>2, NoneAssumption DEF Entry
  <1>5. x.status = items[o][i].status
    BY <1>3, <1>4 DEF Item
  <1>6. items' = [items EXCEPT ![o][i] = x]
    BY <1>2, <1>4
  <1>7. /\ items' \in [OrderIds -> [Offers -> Entry]] /\ items'[o][i] = x
        /\ \A p \in OrderIds, j \in Offers : p # o \/ j # i => items'[p][j] = items[p][j]
    BY <1>6, ItemStep DEF Invariant
  <1>8. UNCHANGED <<orders, enrolment, upgraded, raced, req>>
    BY DEF UseCode, history
  <1>9. redeemed' \in [Courses -> OrderIds \cup {0, None}]
    BY <1>1, OtherTyped DEF UseCode, Invariant, OtherTypes
  <1>10. OtherTypes'
    BY <1>9, OtherTyped DEF UseCode, Invariant, OtherTypes, catalogue, history
  <1>11. TypeOK'
    BY <1>7, <1>8, <1>10, Types, TypedStep DEF Invariant
  <1>12. ~raced => ~Delivered(items[o][i]) /\ ~Delivered(x)
    BY <1>1, <1>2, <1>4, <1>5, CartDeliversNothing DEF Delivered
  <1>13. ~raced => \A p \in OrderIds, j \in Offers :
             items'[p][j] = items[p][j] \/ (~Delivered(items[p][j]) /\ ~Delivered(items'[p][j]))
    BY <1>7, <1>12
  <1> QED
    BY <1>8, <1>11, <1>13, KeepDelivered

LEMMA CreateOrderCorrect ==
    ASSUME Invariant, NEW r \in Requests, NEW c \in Courses, CreateOrder(r, c)
    PROVE  Invariant'
  <1>1. PICK o \in OrderIds : o = Cart /\ orders[o] = "cart"
    BY CartFacts DEF CreateOrder
  <1>2. PICK k \in Offers : k = <<"cert", c>>
    BY DEF CreateOrder
  <1>3. PICK x \in Entry : x = [status |-> "cart", cost |-> Price[k]] /\ ~Delivered(x)
    BY ItemFacts DEF Delivered, Ended
  <1>4. PICK f \in [Offers -> Entry] :
            f = [Unoffered EXCEPT ![k] = x] /\ \A i \in Offers : f[i] = x \/ f[i] = None
    <2>1. [Unoffered EXCEPT ![k] = x] \in [Offers -> Entry]
      BY DEF Unoffered, Entry
    <2>2. \A i \in Offers : [Unoffered EXCEPT ![k] = x][i] \in {x, None}
      BY DEF Unoffered
    <2> QED
      BY <2>1, <2>2
  <1>5. items' = [items EXCEPT ![o] = f]
    BY <1>1, <1>2, <1>3, <1>4 DEF CreateOrder
  <1>6. /\ items' \in [OrderIds -> [Offers -> Entry]] /\ items'[o] = f
        /\ \A p \in OrderIds : p # o => items'[p] = items[p]
    BY <1>5, ItemsStep DEF Invariant
  <1>7. PICK q \in RequestType : q = [pc |-> "start", order |-> o] /\ q.pc # "purchase"
    <2>1. PICK q : q = [pc |-> "start", order |-> o]
      OBVIOUS
    <2>2. q \in RequestType /\ q.pc # "purchase"
      BY <2>1 DEF RequestType
    <2> QED
      BY <2>1, <2>2
  <1>8. req' = [req EXCEPT ![r] = q]
    BY <1>1, <1>7 DEF CreateOrder
  <1>9. /\ req' \in [Requests -> RequestType]
        /\ \A s \in Requests : req'[s].pc = "purchase" => req'[s] = req[s]
    BY <1>7, <1>8, RequestChange DEF Invariant
  <1>10. UNCHANGED <<orders, enrolment, upgraded, raced>>
    BY DEF CreateOrder, history
  <1>11. OtherTypes'
    BY OtherTyped DEF CreateOrder, Invariant, OtherTypes, catalogue, history
  <1>12. TypeOK'
    BY <1>6, <1>9, <1>10, <1>11, Types, TypedStep DEF Invariant
  <1>13. ~raced => \A p \in OrderIds, i \in Offers :
             items'[p][i] = items[p][i] \/ (~Delivered(items[p][i]) /\ ~Delivered(items'[p][i]))
    BY <1>1, <1>3, <1>4, <1>6, CartDeliversNothing, Undelivered
  <1> QED
    BY <1>9, <1>10, <1>12, <1>13, KeepDelivered

\* Writing back the copy of an order is harmless while the order is a cart.
LEMMA AddCourseCorrect ==
    ASSUME Invariant, NEW r \in Requests, AddCourse(r)
    PROVE  Invariant'
  <1>1. PICK o \in OrderIds, c \in Registrable : o = req[r].order /\ c = req[r].course
    BY RequestFacts DEF AddCourse, Invariant
  <1>2. PICK i \in Offers : i = <<"paid", c>>
    BY DEF Registrable
  <1>3. PICK x \in Entry : x = [status |-> "cart", cost |-> Price[i]] /\ ~Delivered(x)
    BY ItemFacts DEF Delivered, Ended
  <1>4. /\ orders' = [orders EXCEPT ![o] = "cart"]
        /\ items' = [items EXCEPT ![o][i] = x]
        /\ raced' = (raced \/ orders[o] # "cart")
    BY <1>1, <1>2, <1>3 DEF AddCourse
  <1>5. /\ items' \in [OrderIds -> [Offers -> Entry]] /\ items'[o][i] = x
        /\ \A p \in OrderIds, j \in Offers : p # o \/ j # i => items'[p][j] = items[p][j]
    BY <1>4, ItemStep DEF Invariant
  <1>6. /\ orders' \in [OrderIds -> OrderStatus \cup {"none"}]
        /\ \A p \in OrderIds : p # o => orders'[p] = orders[p]
    BY <1>4, ItemFacts, OrderChange DEF Invariant
  <1>7. /\ req' \in [Requests -> RequestType] /\ req'[r].pc = "idle"
        /\ \A s \in Requests : s # r => req'[s] = req[s]
    BY RequestEnds DEF AddCourse, Invariant
  <1>8. UNCHANGED <<enrolment, upgraded>>
    BY DEF AddCourse
  <1>9. raced' \in BOOLEAN
    BY <1>4
  <1>10. OtherTypes'
    BY <1>9, OtherTyped DEF AddCourse, Invariant, OtherTypes, catalogue
  <1>11. TypeOK'
    BY <1>5, <1>6, <1>7, <1>8, <1>10, Types, TypedStep DEF Invariant
  <1>12. ASSUME ~raced'
         PROVE  DeliveredWithOrder' /\ KeepsPaid
    <2>1. ~raced /\ orders[o] = "cart"
      BY <1>4, <1>12
    <2>2. /\ \A j \in Offers : ~Delivered(items[o][j])
          /\ \A s \in Requests : req[s].pc = "purchase" => req[s].order # o
      BY <2>1, CartDeliversNothing
    <2>3. DeliveredWithOrder
      BY <2>1 DEF Invariant
    <2>4. \A p \in OrderIds, j \in Offers :
              items'[p][j] = items[p][j] \/ (~Delivered(items[p][j]) /\ ~Delivered(items'[p][j]))
      BY <1>3, <1>5, <2>2
    <2>5. \A p \in OrderIds : orders'[p] \in Ended <=> orders[p] \in Ended
      BY <1>4, <1>6, <2>1, Types DEF Ended, Invariant
    <2>6. \A s \in Requests : req'[s].pc = "purchase" =>
              req'[s] = req[s] /\ req[s].order \in OrderIds
      BY <1>7, RequestFacts DEF Invariant
    <2>7. DeliveredWithOrder'
      BY <2>3, <2>4, <2>5, <2>6 DEF DeliveredWithOrder
    <2>8. KeepsPaid
      BY <1>8, <2>4 DEF KeepsPaid, Bought, Delivered, Ended
    <2> QED
      BY <2>7, <2>8
  <1>13. raced => raced'
    BY <1>4
  <1> QED
    BY <1>11, <1>12, <1>13, KeepStep

LEMMA StartPurchaseCorrect ==
    ASSUME Invariant, NEW r \in Requests, StartPurchase(r)
    PROVE  Invariant'
  <1>1. PICK o \in OrderIds : o = req[r].order
    BY RequestFacts DEF StartPurchase, Invariant
  <1>2. /\ orders' = [orders EXCEPT ![o] = "paying"]
        /\ items' = WithStatus(o, "paying")
        /\ raced' = (raced \/ orders[o] # "cart")
    BY <1>1 DEF StartPurchase
  <1>3. /\ items' \in [OrderIds -> [Offers -> Entry]]
        /\ \A j \in Offers : items'[o][j] # None => items'[o][j].status = "paying"
        /\ \A p \in OrderIds : p # o => items'[p] = items[p]
    BY <1>2, ItemFacts, StatusStep DEF Invariant
  <1>4. /\ orders' \in [OrderIds -> OrderStatus \cup {"none"}] /\ orders'[o] = "paying"
        /\ \A p \in OrderIds : p # o => orders'[p] = orders[p]
    BY <1>2, ItemFacts, OrderChange DEF Invariant
  <1>5. PICK q \in RequestType : q = [req[r] EXCEPT !.pc = "sign"] /\ q.pc # "purchase"
    <2>1. PICK q : q = [req[r] EXCEPT !.pc = "sign"]
      OBVIOUS
    <2>2. req[r] \in [pc : {"start", "sign"}, order : OrderIds]
      BY RequestFacts DEF StartPurchase, Invariant
    <2>3. q \in [pc : {"start", "sign"}, order : OrderIds] /\ q.pc = "sign"
      BY <2>1, <2>2
    <2>4. q \in RequestType
      BY <2>3 DEF RequestType
    <2> QED
      BY <2>1, <2>3, <2>4
  <1>6. req' = [req EXCEPT ![r] = q]
    BY <1>5 DEF StartPurchase
  <1>7. /\ req' \in [Requests -> RequestType] /\ req'[r].pc # "purchase"
        /\ \A s \in Requests : s # r => req'[s] = req[s]
    BY <1>5, <1>6, RequestChange DEF Invariant
  <1>8. UNCHANGED <<enrolment, upgraded>>
    BY DEF StartPurchase
  <1>9. raced' \in BOOLEAN
    BY <1>2
  <1>10. OtherTypes'
    BY <1>9, OtherTyped DEF StartPurchase, Invariant, OtherTypes, catalogue
  <1>11. TypeOK'
    BY <1>3, <1>4, <1>7, <1>8, <1>10, Types, TypedStep DEF Invariant
  <1>12. ASSUME ~raced'
         PROVE  DeliveredWithOrder' /\ KeepsPaid
    <2>1. ~raced /\ orders[o] = "cart"
      BY <1>2, <1>12
    <2>2. /\ \A j \in Offers : ~Delivered(items[o][j])
          /\ \A s \in Requests : req[s].pc = "purchase" => req[s].order # o
      BY <2>1, CartDeliversNothing
    <2>3. DeliveredWithOrder
      BY <2>1 DEF Invariant
    <2>4. \A j \in Offers : ~Delivered(items'[o][j])
      BY <1>3 DEF Delivered, Ended
    <2>5. \A s \in Requests : req'[s].pc = "purchase" =>
              req'[s] = req[s] /\ req[s].order \in OrderIds
      BY <1>7, RequestFacts DEF Invariant
    <2>6. DeliveredWithOrder'
      BY <1>3, <1>4, <2>2, <2>3, <2>4, <2>5 DEF DeliveredWithOrder
    <2>7. KeepsPaid
      BY <1>3, <1>8, <2>2 DEF KeepsPaid, Bought, Delivered, Ended
    <2> QED
      BY <2>6, <2>7
  <1>13. raced => raced'
    BY <1>2
  <1> QED
    BY <1>11, <1>12, <1>13, KeepStep

-----------------------------------------------------------------------------
(***************************************************************************)
(* Steps that deliver and refund.                                          *)
(***************************************************************************)
LEMMA RegisterCoursesCorrect ==
    ASSUME Invariant, RegisterCourses
    PROVE  Invariant'
  <1>1. PICK o \in OrderIds : o = Cart /\ orders[o] = "cart"
    BY CartFacts DEF RegisterCourses
  <1>2. /\ orders' = [orders EXCEPT ![o] = "purchased"]
        /\ items' = WithStatus(o, "purchased")
        /\ unpriced' = unpriced \cup {o} \/ unpriced' = unpriced
    BY <1>1 DEF RegisterCourses
  <1>3. /\ items' \in [OrderIds -> [Offers -> Entry]]
        /\ \A j \in Offers : items'[o][j] # None => items'[o][j].status = "purchased"
        /\ \A j \in Offers : items[o][j] # None => items'[o][j] # None
        /\ \A p \in OrderIds : p # o => items'[p] = items[p]
    BY <1>2, ItemFacts, StatusStep DEF Invariant
  <1>4. /\ orders' \in [OrderIds -> OrderStatus \cup {"none"}] /\ orders'[o] = "purchased"
        /\ \A p \in OrderIds : p # o => orders'[p] = orders[p]
    BY <1>2, ItemFacts, OrderChange DEF Invariant
  <1>5. PICK e \in Enrolment : e = Enrolled("honor") /\ e # Verified
    BY HonorIsNotVerified
  <1>6. enrolment' = [d \in Courses |-> IF \E i \in In(Cart) : i[2] = d THEN e ELSE enrolment[d]]
    BY <1>5 DEF RegisterCourses
  <1>7. /\ enrolment' \in [Courses -> Enrolment]
        /\ \A d \in Courses : enrolment'[d] = Verified => enrolment[d] = Verified
    BY <1>5, <1>6, Types DEF Invariant
  <1>8. UNCHANGED <<req, upgraded, raced>>
    BY DEF RegisterCourses
  <1>9. OtherTypes'
    BY <1>2, OtherTyped DEF RegisterCourses, Invariant, OtherTypes, catalogue
  <1>10. TypeOK'
    BY <1>3, <1>4, <1>7, <1>8, <1>9, Types, TypedStep DEF Invariant
  <1>11. ~raced' => DeliveredWithOrder'
    BY <1>3, <1>4, <1>8, RequestFacts DEF Invariant, DeliveredWithOrder, Ended
  <1>12. \A p \in OrderIds, j \in Offers : Bought(items[p][j]) => Bought(items'[p][j])
    BY <1>3 DEF Bought
  <1>13. KeepsPaid
    BY <1>7, <1>8, <1>12 DEF KeepsPaid
  <1> QED
    BY <1>8, <1>10, <1>11, <1>13, KeepStep

\* Refunding the certificate of a course leaves those of others alone.
LEMMA RefundFacts ==
    ASSUME TypeOK, NEW c \in Courses, RefundCert(c)
    PROVE  /\ items' \in [OrderIds -> [Offers -> Entry]]
           /\ orders' \in [OrderIds -> OrderStatus \cup {"none"}]
           /\ \A p \in OrderIds : orders'[p] # orders[p] => orders'[p] \in Ended
           /\ \A p \in OrderIds, j \in Offers : items'[p][j] # items[p][j] =>
                  j = <<"cert", c>> /\ orders'[p] \in Ended
  <1>1. CASE UNCHANGED <<orders, items>>
    BY <1>1, Types
  <1>2. CASE ~UNCHANGED <<orders, items>>
    <2>1. PICK o \in PurchasedCerts(c) :
              /\ items' = [items EXCEPT ![o][<<"cert", c>>].status = "refunded"]
              /\ orders' = [orders EXCEPT ![o] = "refunded"]
      BY <1>2 DEF RefundCert
    <2>2. o \in OrderIds
      BY DEF PurchasedCerts
    <2>3. PICK k \in Offers : k = <<"cert", c>> /\ items[o][k] # None
      BY DEF PurchasedCerts, In
    <2>4. items[o][k] \in Item
      BY <2>2, <2>3, Types DEF Entry
    <2>5. PICK x : x = [items[o][k] EXCEPT !.status = "refunded"]
      OBVIOUS
    <2>6. x \in Entry
      BY <2>4, <2>5 DEF Item, Entry, OrderStatus
    <2>7. items' = [items EXCEPT ![o][k] = x]
      BY <2>1, <2>3, <2>5
    <2>8. /\ items' \in [OrderIds -> [Offers -> Entry]]
          /\ \A p \in OrderIds, j \in Offers : p # o \/ j # k => items'[p][j] = items[p][j]
      BY <2>2, <2>6, <2>7, ItemStep
    <2>9. /\ orders' \in [OrderIds -> OrderStatus \cup {"none"}] /\ orders'[o] = "refunded"
          /\ \A p \in OrderIds : p # o => orders'[p] = orders[p]
      BY <2>1, <2>2, ItemFacts, OrderChange
    <2> QED
      BY <2>3, <2>8, <2>9 DEF Ended
  <1> QED
    BY <1>1, <1>2

LEMMA UnenrollCorrect ==
    ASSUME Invariant, NEW c \in Courses, Unenroll(c)
    PROVE  Invariant'
  <1>1. enrolment[c] \in Enrolment
    BY Types DEF Invariant
  <1>2. PICK e : e = [enrolment[c] EXCEPT !.active = FALSE]
    OBVIOUS
  <1>3. e \in Enrolment /\ e # Verified
    BY <1>1, <1>2 DEF Enrolment, Verified
  <1>4. enrolment' = [enrolment EXCEPT ![c] = e]
    BY <1>2 DEF Unenroll
  <1>5. /\ enrolment' \in [Courses -> Enrolment] /\ enrolment'[c] # Verified
        /\ \A d \in Courses : d # c => enrolment'[d] = enrolment[d]
    BY <1>3, <1>4, EnrolmentChange DEF Invariant
  <1>6. /\ items' \in [OrderIds -> [Offers -> Entry]]
        /\ orders' \in [OrderIds -> OrderStatus \cup {"none"}]
        /\ \A p \in OrderIds : orders'[p] # orders[p] => orders'[p] \in Ended
        /\ \A p \in OrderIds, j \in Offers : items'[p][j] # items[p][j] =>
               j = <<"cert", c>> /\ orders'[p] \in Ended
    BY RefundFacts DEF Unenroll, Invariant
  <1>7. UNCHANGED <<req, upgraded, raced>>
    BY DEF Unenroll
  <1>8. OtherTypes'
    BY OtherTyped DEF Unenroll, Invariant, OtherTypes, catalogue
  <1>9. TypeOK'
    BY <1>5, <1>6, <1>7, <1>8, Types, TypedStep DEF Invariant
  <1>10. ASSUME ~raced'
         PROVE  DeliveredWithOrder'
    <2>1. DeliveredWithOrder
      BY <1>7, <1>10 DEF Invariant
    <2>2. \A s \in Requests : req[s].pc = "purchase" => req[s].order \in OrderIds
      BY RequestFacts DEF Invariant
    <2> QED
      BY <1>6, <1>7, <2>1, <2>2 DEF DeliveredWithOrder
  <1>11. \A d \in Courses : d # c /\ <<"cert", d>> \in Offers =>
             \A p \in OrderIds : items'[p][<<"cert", d>>] = items[p][<<"cert", d>>]
    BY <1>6
  <1>12. KeepsPaid
    BY <1>5, <1>7, <1>11 DEF KeepsPaid
  <1> QED
    BY <1>7, <1>9, <1>10, <1>12, KeepStep

\* The purchase of an item: who it puts in the verified track has it.
LEMMA PurchaseFacts ==
    ASSUME TypeOK, NEW o \in OrderIds, NEW i \in Offers, NEW cost \in Nat,
           PurchaseItem(o, i, cost), upgraded' = upgraded
    PROVE  /\ items' \in [OrderIds -> [Offers -> Entry]]
           /\ \A p \in OrderIds, j \in Offers : p # o => items'[p][j] = items[p][j]
           /\ \A j \in Offers : j # i => items'[o][j] = items[o][j]
           /\ enrolment' \in [Courses -> Enrolment]
           /\ KeepsPaid
  <1>1. PICK x \in Entry : x = [status |-> "purchased", cost |-> cost] /\ Bought(x)
    BY ItemFacts DEF Bought
  <1>2. items' = [items EXCEPT ![o][i] = x]
    BY <1>1 DEF PurchaseItem
  <1>3. /\ items' \in [OrderIds -> [Offers -> Entry]] /\ items'[o][i] = x
        /\ \A p \in OrderIds, j \in Offers : p # o \/ j # i => items'[p][j] = items[p][j]
    BY <1>2, ItemStep
  <1>4. PICK c \in Courses : c = i[2] /\ (i[1] = "cert" => i = <<"cert", c>>)
    BY OfferFacts
  <1>5. PICK e \in Enrolment : e = Enrolled(Mode(i)) /\ (e = Verified => i[1] = "cert")
    <2>1. Enrolled(Mode(i)) \in Enrolment
      BY DEF Enrolled, Mode, Enrolment
    <2>2. Enrolled(Mode(i)) = Verified => i[1] = "cert"
      BY DEF Enrolled, Mode, Verified
    <2> QED
      BY <2>1, <2>2
  <1>6. enrolment' = [enrolment EXCEPT ![c] = e]
    BY <1>4, <1>5 DEF PurchaseItem
  <1>7. /\ enrolment' \in [Courses -> Enrolment] /\ enrolment'[c] = e
        /\ \A d \in Courses : d # c => enrolment'[d] = enrolment[d]
    BY <1>6, EnrolmentChange
  <1>8. \A p \in OrderIds, j \in Offers : Bought(items[p][j]) => Bought(items'[p][j])
    BY <1>1, <1>3
  <1>9. enrolment'[c] = Verified => <<"cert", c>> \in Offers /\ Bought(items'[o][<<"cert", c>>])
    BY <1>1, <1>3, <1>4, <1>5, <1>7
  <1>10. KeepsPaid
    BY <1>7, <1>8, <1>9 DEF KeepsPaid
  <1> QED
    BY <1>3, <1>7, <1>10

LEMMA PostpayCallbackCorrect ==
    ASSUME Invariant, NEW r \in Requests, NEW m \in posts, PostpayCallback(r, m)
    PROVE  Invariant'
  <1>1. PICK o \in OrderIds : o = m.order
    BY OtherTyped DEF Invariant, OtherTypes
  <1>2. PICK i \in In(o) :
            /\ PurchaseItem(o, i, items[o][i].cost)
            /\ req' = [req EXCEPT ![r] = IF In(o) = {i} THEN Idle
                                         ELSE [pc |-> "purchase", order |-> o,
                                               todo |-> [items[o] EXCEPT ![i] = None]]]
    BY <1>1 DEF PostpayCallback
  <1>3. i \in Offers /\ items[o][i] \in Item
    BY Types DEF In, Entry, Invariant
  <1>4. PICK cost \in Nat : cost = items[o][i].cost
    BY <1>3 DEF Item
  <1>5. UNCHANGED <<upgraded, raced>>
    BY DEF PostpayCallback
  <1>6. /\ items' \in [OrderIds -> [Offers -> Entry]]
        /\ \A p \in OrderIds, j \in Offers : p # o => items'[p][j] = items[p][j]
        /\ enrolment' \in [Courses -> Enrolment] /\ KeepsPaid
    BY <1>2, <1>3, <1>4, <1>5, PurchaseFacts DEF Invariant
  <1>7. orders' = [orders EXCEPT ![o] = "purchased"]
    BY <1>1 DEF PostpayCallback
  <1>8. /\ orders' \in [OrderIds -> OrderStatus \cup {"none"}] /\ orders'[o] = "purchased"
        /\ \A p \in OrderIds : p # o => orders'[p] = orders[p]
    BY <1>7, ItemFacts, OrderChange DEF Invariant
  <1>9. /\ req' \in [Requests -> RequestType]
        /\ req'[r].pc = "purchase" => req'[r].order = o
        /\ \A s \in Requests : s # r => req'[s] = req[s]
    <2>1. CASE In(o) = {i}
      <3>1. req' = [req EXCEPT ![r] = Idle]
        BY <1>2, <2>1
      <3> QED
        BY <3>1, RequestEnds DEF Invariant
    <2>2. CASE In(o) # {i}
      <3>1. PICK todo \in [Offers -> Entry] : todo = [items[o] EXCEPT ![i] = None]
        BY <1>3, Types DEF Entry, Invariant
      <3>2. PICK q : q = [pc |-> "purchase", order |-> o, todo |-> todo]
        OBVIOUS
      <3>3. q \in RequestType /\ q.order = o
        BY <3>2 DEF RequestType
      <3>4. req' = [req EXCEPT ![r] = q]
        BY <1>2, <2>2, <3>1, <3>2
      <3> QED
        BY <3>3, <3>4, RequestChange DEF Invariant
    <2> QED
      BY <2>1, <2>2
  <1>10. reposted' \in SUBSET OrderIds
    BY <1>1, OtherTyped DEF PostpayCallback, Invariant, OtherTypes
  <1>11. OtherTypes'
    BY <1>10, OtherTyped DEF PostpayCallback, Invariant, OtherTypes, catalogue
  <1>12. TypeOK'
    BY <1>6, <1>8, <1>9, <1>11, TypedStep
  <1>13. ASSUME ~raced'
         PROVE  DeliveredWithOrder'
    <2>1. DeliveredWithOrder
      BY <1>5, <1>13 DEF Invariant
    <2>2. \A s \in Requests : req[s].pc = "purchase" => req[s].order \in OrderIds
      BY RequestFacts DEF Invariant
    <2>3. \A p \in OrderIds : orders[p] \in Ended => orders'[p] \in Ended
      BY <1>8 DEF Ended
    <2>4. \A p \in OrderIds, j \in Offers : Delivered(items'[p][j]) => orders'[p] \in Ended
      BY <1>6, <1>8, <2>1, <2>3 DEF DeliveredWithOrder, Ended
    <2>5. ASSUME NEW s \in Requests, req'[s].pc = "purchase"
          PROVE  orders'[req'[s].order] \in Ended
      <3>1. CASE s = r
        BY <1>8, <1>9, <2>5, <3>1 DEF Ended
      <3>2. CASE s # r
        BY <1>9, <2>1, <2>2, <2>3, <2>5, <3>2 DEF DeliveredWithOrder
      <3> QED
        BY <3>1, <3>2
    <2> QED
      BY <2>4, <2>5 DEF DeliveredWithOrder
  <1> QED
    BY <1>5, <1>6, <1>12, <1>13, KeepStep

LEMMA PurchaseNextCorrect ==
    ASSUME Invariant, NEW r \in Requests, PurchaseNext(r)
    PROVE  Invariant'
  <1>1. PICK o \in OrderIds, todo \in [Offers -> Entry] : o = req[r].order /\ todo = req[r].todo
    BY RequestFacts DEF PurchaseNext, Invariant
  <1>2. PICK i \in ToPurchase(r) :
            /\ PurchaseItem(o, i, todo[i].cost)
            /\ req' = [req EXCEPT ![r] = IF ToPurchase(r) = {i} THEN Idle
                                         ELSE [@ EXCEPT !.todo[i] = None]]
    BY <1>1 DEF PurchaseNext
  <1>3. i \in Offers /\ todo[i] \in Item
    BY <1>1 DEF ToPurchase, Entry
  <1>4. PICK cost \in Nat : cost = todo[i].cost
    BY <1>3 DEF Item
  <1>5. UNCHANGED <<orders, upgraded, raced>>
    BY DEF PurchaseNext, history
  <1>6. /\ items' \in [OrderIds -> [Offers -> Entry]]
        /\ \A p \in OrderIds, j \in Offers : p # o => items'[p][j] = items[p][j]
        /\ enrolment' \in [Courses -> Enrolment] /\ KeepsPaid
    BY <1>2, <1>3, <1>4, <1>5, PurchaseFacts DEF Invariant
  <1>7. /\ req' \in [Requests -> RequestType]
        /\ req'[r].pc = "purchase" => req'[r].order = o
        /\ \A s \in Requests : s # r => req'[s] = req[s]
    <2>1. CASE ToPurchase(r) = {i}
      <3>1. req' = [req EXCEPT ![r] = Idle]
        BY <1>2, <2>1
      <3> QED
        BY <3>1, RequestEnds DEF Invariant
    <2>2. CASE ToPurchase(r) # {i}
      <3>1. PICK rest \in [Offers -> Entry] : rest = [todo EXCEPT ![i] = None]
        BY <1>3 DEF Entry
      <3>2. req[r] \in [pc : {"purchase"}, order : OrderIds, todo : [Offers -> Entry]]
        BY RequestFacts DEF PurchaseNext, Invariant
      <3>3. PICK q : q = [req[r] EXCEPT !.todo = rest]
        OBVIOUS
      <3>4. q \in [pc : {"purchase"}, order : OrderIds, todo : [Offers -> Entry]] /\ q.order = o
        BY <1>1, <3>2, <3>3
      <3>5. q \in RequestType
        BY <3>4 DEF RequestType
      <3>6. req' = [req EXCEPT ![r] = q]
        BY <1>1, <1>2, <2>2, <3>1, <3>2, <3>3
      <3> QED
        BY <3>4, <3>5, <3>6, RequestChange DEF Invariant
    <2> QED
      BY <2>1, <2>2
  <1>8. OtherTypes'
    BY OtherTyped DEF PurchaseNext, Invariant, OtherTypes, catalogue, history
  <1>9. TypeOK'
    BY <1>5, <1>6, <1>7, <1>8, Types, TypedStep DEF Invariant
  <1>10. ASSUME ~raced'
         PROVE  DeliveredWithOrder'
    <2>1. DeliveredWithOrder /\ orders[o] \in Ended
      BY <1>1, <1>5, <1>10 DEF Invariant, DeliveredWithOrder, PurchaseNext
    <2> QED
      BY <1>5, <1>6, <1>7, <2>1 DEF DeliveredWithOrder
  <1> QED
    BY <1>5, <1>6, <1>9, <1>10, KeepStep

-----------------------------------------------------------------------------
(***************************************************************************)
(* Every step, and the theorems.                                           *)
(***************************************************************************)
LEMMA NextCorrect ==
    ASSUME Invariant, [Next]_vars
    PROVE  Invariant'
  <1>1. ASSUME NEW r \in Requests, RequestStep(r)
        PROVE  Invariant'
    BY <1>1, AddCourseReadsCorrect, CreateOrderCorrect, AddCourseCorrect, StartPurchaseCorrect,
       SignPurchaseCorrect, PostpayCallbackCorrect, PurchaseNextCorrect, RequestFailsCorrect
       DEF RequestStep
  <1>2. ASSUME NEW c \in Courses, CourseStep(c)
        PROVE  Invariant'
    BY <1>2, UseCodeCorrect, EnrollHonorCorrect, RedeemCodeCorrect, ReverifyPageCorrect,
       UnenrollCorrect, CatalogueCorrect
       DEF CourseStep
  <1>3. CASE UNCHANGED vars
    <2>1. TypeOK' /\ UNCHANGED <<orders, items, raced, req, enrolment, upgraded>>
      BY <1>3, TypedStep, Types, OtherTyped DEF vars, Invariant, OtherTypes
    <2> QED
      BY <2>1, KeepQuiet
  <1> QED
    BY <1>1, <1>2, <1>3, OpenCartCorrect, ShowCartCorrect, ClearCartCorrect,
       RegisterCoursesCorrect, RemoveItemCorrect, PayCorrect
       DEF Next

\* Carts, orders, requests and enrolments are what their tables say, through
\* every page, post and refund (amounts are sums, and are left out).
THEOREM TypeCorrect == Spec => []TypeOK
  <1>1. Init => Invariant
    BY InitCorrect
  <1>2. Invariant /\ [Next]_vars => Invariant'
    BY NextCorrect
  <1>3. Invariant => TypeOK
    BY DEF Invariant
  <1> QED
    BY <1>1, <1>2, <1>3, PTL DEF Spec

\* For any number of courses, orders and requests: nobody is in the verified
\* track of a course without a certificate bought and not refunded.  What it
\* rests on: items are delivered with their order, so nothing in a cart is, and
\* what cart pages drop and overwrite was never delivered.
THEOREM VerifiedCorrect == Spec => []VerifiedIsPaid
  <1>1. Init => Invariant
    BY InitCorrect
  <1>2. Invariant /\ [Next]_vars => Invariant'
    BY NextCorrect
  <1>3. Invariant => VerifiedIsPaid
    BY DEF Invariant
  <1> QED
    BY <1>1, <1>2, <1>3, PTL DEF Spec

-----------------------------------------------------------------------------
(***************************************************************************)
(* Money.  From its first purchase on an order only loses items, and keeps *)
(* their costs, in the table and in the copies of requests: what was paid  *)
(* then covers what will ever be delivered.  Until it is purchased again   *)
(* an item is delivered once, so it is refunded once.                      *)
(***************************************************************************)
\* Request r is delivering the items of o.
Buys(r, o) == req[r].pc = "purchase" /\ req[r].order = o

\* Before it is purchased an order and its items have one status.
OneStatus(o) ==
    /\ orders[o] = "none" => In(o) = {}
    /\ orders[o] \in {"cart", "paying"} => \A i \in In(o) : items[o][i].status = orders[o]

\* What a purchased order held and holds is paid for.
Covered(o) ==
    orders[o] \in Ended /\ o \notin unpriced =>
        \E bought \in SUBSET Offers : \E price \in [bought -> Nat] :
            /\ SumFunctionOnSet(price, bought) <= paid[o]
            /\ \A i \in In(o) : i \in bought /\ items[o][i].cost <= price[i]
            /\ \A r \in Requests : Buys(r, o) =>
                  \A i \in ToPurchase(r) : i \in bought /\ req[r].todo[i].cost <= price[i]

\* One request delivers its items, each of them once.
BoughtOnce(o) ==
    o \notin reposted =>
        /\ \A r, s \in Requests : Buys(r, o) /\ Buys(s, o) => r = s
        /\ \A r \in Requests : Buys(r, o) => \A i \in ToPurchase(r) : ~Delivered(items[o][i])

\* The items of an order that are marked refunded, which are those refunded.
Refunded(o) == {i \in In(o) : items[o][i].status = "refunded"}

RefundedOnce(o) == o \notin reposted => refunds[o] = Cost(o, Refunded(o))

\* The accounts of an order.
Accounts(o) == OneStatus(o) /\ Covered(o) /\ BoughtOnce(o) /\ RefundedOnce(o)

\* Amounts are natural numbers, and what a post says was paid.
Amounts ==
    /\ \A f \in forms : f.amount \in Nat
    /\ \A m \in posts : m.amount <= paid[m.order]
    /\ paid \in [OrderIds -> Nat] /\ refunds \in [OrderIds -> Nat]

\* The inductive invariant.
Money == Invariant /\ Amounts /\ (~raced => \A o \in OrderIds : Accounts(o))

\* What items cost together.
LEMMA CostType ==
    ASSUME TypeOK, NEW o \in OrderIds, NEW S \in SUBSET In(o)
    PROVE  Cost(o, S) \in Nat /\ IsFiniteSet(S) /\ S \subseteq Offers
  <1> DEFINE f == [i \in Offers |-> items[o][i].cost]
  <1>1. S \subseteq Offers /\ IsFiniteSet(S)
    BY OffersAssumption, FS_Subset DEF In
  <1>2. \A i \in S : items[o][i] \in Item
    BY Types DEF In, Entry
  <1>3. \A i \in S : f[i] \in Nat
    BY <1>1, <1>2 DEF Item
  <1>4. SumFunctionOnSet(f, S) \in Nat
    <2> HIDE DEF f
    <2> QED
      BY <1>1, <1>3, SumType
  <1> QED
    BY <1>1, <1>4 DEF Cost

\* It depends on their costs only.
LEMMA CostSame ==
    ASSUME NEW o, NEW S \in SUBSET Offers, \A i \in S : items'[o][i].cost = items[o][i].cost
    PROVE  Cost(o, S)' = Cost(o, S)
  <1> DEFINE f == [i \in Offers |-> items[o][i].cost]
             g == [i \in Offers |-> items'[o][i].cost]
  <1>1. IsFiniteSet(S) /\ \A i \in S : f[i] = g[i]
    BY OffersAssumption, FS_Subset
  <1>2. SumFunctionOnSet(f, S) = SumFunctionOnSet(g, S)
    <2> HIDE DEF f, g
    <2> QED
      BY <1>1, SumSame
  <1> QED
    BY <1>2 DEF Cost

\* Nothing costs nothing.
LEMMA CostNothing ==
    ASSUME NEW o
    PROVE  Cost(o, {}) = 0 /\ Cost(o, {})' = 0
  <1>1. SumFunctionOnSet([i \in Offers |-> items[o][i].cost], {}) = 0
    BY SumEmpty
  <1>2. SumFunctionOnSet([i \in Offers |-> items'[o][i].cost], {}) = 0
    BY SumEmpty
  <1> QED
    BY <1>1, <1>2 DEF Cost

\* What an order holds can be its own price list.
LEMMA PriceList ==
    ASSUME TypeOK, NEW o \in OrderIds
    PROVE  \E bought \in SUBSET Offers : \E price \in [bought -> Nat] :
              /\ bought = In(o) /\ \A i \in bought : price[i] = items[o][i].cost
              /\ SumFunctionOnSet(price, bought) = Cost(o, In(o))
  <1> DEFINE bought == In(o)
             price == [i \in bought |-> items[o][i].cost]
             f == [i \in Offers |-> items[o][i].cost]
  <1>1. bought \in SUBSET Offers /\ IsFiniteSet(bought)
    BY CostType
  <1>2. \A i \in bought : items[o][i] \in Item
    BY Types DEF In, Entry
  <1>3. price \in [bought -> Nat]
    BY <1>2 DEF Item
  <1>4. \A i \in bought : price[i] = f[i]
    BY <1>1
  <1>5. SumFunctionOnSet(price, bought) = SumFunctionOnSet(f, bought)
    <2> HIDE DEF bought, price, f
    <2> QED
      BY <1>1, <1>4, SumSame
  <1> QED
    BY <1>1, <1>3, <1>5 DEF Cost

\* The accounts of an order a step does not touch.
LEMMA AccountsKept ==
    ASSUME TypeOK, NEW o \in OrderIds, Accounts(o), paid[o] \in Nat, paid'[o] \in Nat,
           paid[o] <= paid'[o], items'[o] = items[o], orders'[o] = orders[o],
           refunds'[o] = refunds[o], unpriced \subseteq unpriced', reposted \subseteq reposted',
           \A r \in Requests : Buys(r, o)' => req'[r] = req[r]
    PROVE  Accounts(o)'
  <1>1. In(o)' = In(o) /\ Refunded(o)' = Refunded(o) /\ Refunded(o) \in SUBSET Offers
    BY DEF In, Refunded
  <1>2. \A r \in Requests : Buys(r, o)' => Buys(r, o) /\ ToPurchase(r)' = ToPurchase(r)
    BY DEF Buys, ToPurchase
  <1>3. OneStatus(o)'
    BY <1>1 DEF Accounts, OneStatus
  <1>4. ASSUME (orders[o] \in Ended /\ o \notin unpriced)' PROVE Covered(o)'
    <2>1. PICK bought \in SUBSET Offers : \E price \in [bought -> Nat] :
            /\ SumFunctionOnSet(price, bought) <= paid[o]
            /\ \A i \in In(o) : i \in bought /\ items[o][i].cost <= price[i]
            /\ \A r \in Requests : Buys(r, o) =>
                  \A i \in ToPurchase(r) : i \in bought /\ req[r].todo[i].cost <= price[i]
      BY <1>4 DEF Accounts, Covered
    <2>2. PICK price \in [bought -> Nat] :
            /\ SumFunctionOnSet(price, bought) <= paid[o]
            /\ \A i \in In(o) : i \in bought /\ items[o][i].cost <= price[i]
            /\ \A r \in Requests : Buys(r, o) =>
                  \A i \in ToPurchase(r) : i \in bought /\ req[r].todo[i].cost <= price[i]
      BY <2>1
    <2>3. SumFunctionOnSet(price, bought) \in Nat
      BY OffersAssumption, FS_Subset, SumType
    <2>4. SumFunctionOnSet(price, bought) <= paid'[o]
      BY <2>2, <2>3
    <2>5. \A r \in Requests : Buys(r, o)' =>
              \A i \in ToPurchase(r)' : i \in bought /\ req'[r].todo[i].cost <= price[i]
      BY <1>2, <2>2
    <2>6. \A i \in In(o)' : i \in bought /\ items'[o][i].cost <= price[i]
      BY <1>1, <2>2
    <2> QED
      BY <2>4, <2>5, <2>6 DEF Covered
  <1>5. BoughtOnce(o)'
    BY <1>2 DEF Accounts, BoughtOnce
  <1>6. RefundedOnce(o)'
    <2>1. Cost(o, Refunded(o))' = Cost(o, Refunded(o))
      BY <1>1 DEF Cost
    <2> QED
      BY <2>1 DEF Accounts, RefundedOnce
  <1>7. Covered(o)'
    BY <1>4 DEF Covered
  <1> QED
    BY <1>3, <1>5, <1>6, <1>7 DEF Accounts

\* A step that touches one order.
LEMMA OneOrder ==
    ASSUME Money, Invariant', Amounts', raced => raced', NEW o \in OrderIds,
           \A p \in OrderIds \ {o} : /\ items'[p] = items[p] /\ orders'[p] = orders[p]
                                     /\ refunds'[p] = refunds[p]
                                     /\ \A r \in Requests : Buys(r, p)' => req'[r] = req[r],
           paid' = paid, unpriced \subseteq unpriced', reposted \subseteq reposted',
           ~raced' => Accounts(o)'
    PROVE  Money'
  <1>1. ASSUME ~raced', NEW p \in OrderIds, p # o PROVE Accounts(p)'
    <2>1. Accounts(p) /\ TypeOK /\ paid[p] \in Nat /\ paid[p] <= paid[p]
      BY <1>1 DEF Money, Invariant, Amounts
    <2> QED
      BY <1>1, <2>1, AccountsKept
  <1> QED
    BY <1>1 DEF Money

\* A step that touches none.
LEMMA NoOrder ==
    ASSUME Money, Invariant', Amounts', UNCHANGED <<orders, items, refunds, unpriced, reposted, raced>>,
           \A o \in OrderIds : paid[o] <= paid'[o],
           \A r \in Requests : req'[r].pc = "purchase" => req'[r] = req[r]
    PROVE  Money'
  <1>1. ASSUME ~raced', NEW o \in OrderIds PROVE Accounts(o)'
    <2>1. Accounts(o) /\ TypeOK /\ paid[o] \in Nat /\ paid'[o] \in Nat
      BY <1>1 DEF Money, Invariant, Amounts
    <2>2. \A r \in Requests : Buys(r, o)' => req'[r] = req[r]
      BY DEF Buys
    <2> QED
      BY <2>1, <2>2, AccountsKept
  <1> QED
    BY <1>1 DEF Money

\* An order that is not purchased yet, and is not by the step.
LEMMA StillOpen ==
    ASSUME Invariant, ~raced, NEW o \in OrderIds, Accounts(o), orders[o] \notin Ended,
           orders'[o] \in {"cart", "paying"}, refunds'[o] = refunds[o], reposted \subseteq reposted',
           \A i \in Offers : items'[o][i] # None => items'[o][i].status = orders'[o],
           \A r \in Requests : req'[r].pc = "purchase" => req'[r] = req[r]
    PROVE  Accounts(o)'
  <1>1. DeliveredWithOrder
    BY DEF Invariant
  <1>2. \A r \in Requests : ~Buys(r, o)'
    BY <1>1 DEF Buys, DeliveredWithOrder
  <1>3. Refunded(o) = {} /\ Refunded(o)' = {}
    BY <1>1 DEF Refunded, In, DeliveredWithOrder, Delivered, Ended
  <1>4. RefundedOnce(o)'
    <2>1. o \notin reposted => refunds[o] = 0
      BY <1>3, CostNothing DEF Accounts, RefundedOnce
    <2>2. Cost(o, Refunded(o))' = Cost(o, {})'
      BY <1>3 DEF Cost
    <2> QED
      BY <2>1, <2>2, CostNothing DEF RefundedOnce
  <1> QED
    BY <1>2, <1>4 DEF Accounts, OneStatus, Covered, BoughtOnce, In, Ended

-----------------------------------------------------------------------------
(***************************************************************************)
(* Steps that leave the accounts of every order alone.                     *)
(***************************************************************************)
\* Amounts change only with forms and payments.
LEMMA AmountsKept ==
    ASSUME Money, UNCHANGED <<forms, posts, paid, refunds>>
    PROVE  Amounts'
  BY DEF Money, Amounts

\* Neither orders, items nor amounts change.
LEMMA QuietMoney ==
    ASSUME Money, Invariant', UNCHANGED <<orders, items, forms, posts>>,
           UNCHANGED <<paid, refunds, unpriced, reposted, raced>>,
           \A r \in Requests : req'[r].pc = "purchase" => req'[r] = req[r]
    PROVE  Money'
  <1>1. UNCHANGED <<orders, items, forms, posts, paid, refunds, unpriced, reposted, raced>>
    OBVIOUS
  <1>2. Amounts'
    BY <1>1, AmountsKept
  <1>3. \A o \in OrderIds : paid[o] <= paid'[o]
    BY <1>1 DEF Money, Amounts
  <1> QED
    BY <1>1, <1>2, <1>3, NoOrder

\* A form is signed for what an order costs.
LEMMA FormMoney ==
    ASSUME Money, Invariant', UNCHANGED <<orders, items, posts, history>>,
           NEW o, NEW amount \in Nat, forms' \subseteq forms \cup {Form(o, amount)},
           \A r \in Requests : req'[r].pc = "purchase" => req'[r] = req[r]
    PROVE  Money'
  <1>1. UNCHANGED <<orders, items, posts, paid, refunds, unpriced, reposted, raced>>
    BY DEF history
  <1>2. Form(o, amount).amount = amount
    BY DEF Form
  <1>3. Amounts'
    BY <1>1, <1>2 DEF Money, Amounts
  <1>4. \A p \in OrderIds : paid[p] <= paid'[p]
    BY <1>1 DEF Money, Amounts
  <1> QED
    BY <1>1, <1>3, <1>4, NoOrder

\* The form of the cart.
LEMMA ShowCartMoney ==
    ASSUME Money, Invariant', ShowCart
    PROVE  Money'
  <1>1. PICK o \in OrderIds : o = Cart
    BY CartFacts DEF ShowCart
  <1>2. PICK S \in SUBSET In(o) : TotalCost(o) = Cost(o, S)
    BY DEF TotalCost
  <1>3. PICK amount \in Nat : amount = TotalCost(o)
    BY <1>2, CostType DEF Money, Invariant
  <1>4. forms' = forms \cup {Form(o, amount)}
    BY <1>1, <1>3 DEF ShowCart
  <1>5. UNCHANGED <<orders, items, posts, history, req>>
    BY DEF ShowCart
  <1> QED
    BY <1>4, <1>5, FormMoney

\* The form of create_order.
LEMMA SignPurchaseMoney ==
    ASSUME Money, Invariant', NEW r \in Requests, SignPurchase(r)
    PROVE  Money'
  <1>1. PICK o \in OrderIds : o = req[r].order
    BY RequestFacts DEF SignPurchase, Money, Invariant
  <1>2. PICK S \in SUBSET In(o) : S = {i \in In(o) : items[o][i].status = "paying"}
    OBVIOUS
  <1>3. PICK amount \in Nat : amount = Cost(o, S)
    BY CostType DEF Money, Invariant
  <1>4. forms' \subseteq forms \cup {Form(o, amount)}
    BY <1>1, <1>2, <1>3 DEF SignPurchase
  <1>5. UNCHANGED <<orders, items, posts, history>>
    BY DEF SignPurchase
  <1>6. \A s \in Requests : req'[s].pc = "purchase" => req'[s] = req[s]
    BY RequestEnds DEF SignPurchase, Money, Invariant
  <1> QED
    BY <1>4, <1>5, <1>6, FormMoney

\* What is paid is added up, and posted.
LEMMA PayMoney ==
    ASSUME Money, Invariant', NEW f \in forms, Pay(f)
    PROVE  Money'
  <1>1. PICK o \in OrderIds, amount \in Nat : o = f.order /\ amount = f.amount
    BY OtherTyped DEF Money, Invariant, OtherTypes, Amounts
  <1>2. /\ paid' = [paid EXCEPT ![o] = @ + amount]
        /\ posts' = posts \cup {f}
        /\ UNCHANGED <<orders, items, forms, req, refunds, unpriced, reposted, raced>>
    BY <1>1 DEF Pay
  <1>3. paid \in [OrderIds -> Nat]
    BY DEF Money, Amounts
  <1>4. /\ paid' \in [OrderIds -> Nat] /\ paid'[o] = paid[o] + amount
        /\ \A p \in OrderIds : p # o => paid'[p] = paid[p]
    BY <1>2, <1>3
  <1>5. \A p \in OrderIds : paid[p] \in Nat /\ paid[p] <= paid'[p]
    BY <1>3, <1>4
  <1>6. \A m \in posts : m.order \in OrderIds /\ m.amount \in Nat /\ m.amount <= paid[m.order]
    BY OtherTyped DEF Money, Invariant, OtherTypes, Amounts
  <1>7. f.amount <= paid'[f.order]
    BY <1>1, <1>3, <1>4
  <1>8. ASSUME NEW m \in posts' PROVE m.amount <= paid'[m.order]
    <2>1. CASE m = f
      BY <1>7, <2>1
    <2>2. CASE m \in posts
      <3>1. PICK p \in OrderIds, a \in Nat : p = m.order /\ a = m.amount /\ a <= paid[p]
        BY <1>6, <2>2
      <3> QED
        BY <1>4, <1>5, <3>1
    <2> QED
      BY <1>2, <2>1, <2>2
  <1>9. Amounts'
    BY <1>2, <1>4, <1>8 DEF Money, Amounts
  <1> QED
    BY <1>2, <1>5, <1>9, NoOrder

-----------------------------------------------------------------------------
(***************************************************************************)
(* Steps of an order that is not purchased.                                *)
(***************************************************************************)
LEMMA OpenOrder ==
    ASSUME Money, Invariant', UNCHANGED <<forms, posts, paid, refunds, unpriced, reposted>>,
           raced => raced', NEW o \in OrderIds,
           \A p \in OrderIds \ {o} : items'[p] = items[p] /\ orders'[p] = orders[p],
           \A r \in Requests : req'[r].pc = "purchase" => req'[r] = req[r],
           ~raced' => /\ orders[o] \notin Ended /\ orders'[o] \in {"cart", "paying"}
                      /\ \A i \in Offers : items'[o][i] # None => items'[o][i].status = orders'[o]
    PROVE  Money'
  <1>1. Amounts'
    BY AmountsKept
  <1>2. ASSUME ~raced' PROVE Accounts(o)'
    <2>1. Invariant /\ ~raced /\ Accounts(o)
      BY <1>2 DEF Money
    <2> QED
      BY <1>2, <2>1, StillOpen
  <1>3. \A p \in OrderIds, r \in Requests : Buys(r, p)' => req'[r] = req[r]
    BY DEF Buys
  <1> QED
    BY <1>1, <1>2, <1>3, OneOrder

\* What an order holds that is not purchased has its status.
LEMMA OpenItems ==
    ASSUME Money, ~raced, NEW o \in OrderIds, orders[o] \in {"none", "cart", "paying"}
    PROVE  \A i \in Offers : items[o][i] # None => items[o][i].status = orders[o]
  BY DEF Money, Accounts, OneStatus, In

\* A new cart holds nothing.
LEMMA OpenCartMoney ==
    ASSUME Money, Invariant', OpenCart
    PROVE  Money'
  <1>1. PICK o \in OrderIds : orders[o] = "none" /\ orders' = [orders EXCEPT ![o] = "cart"]
    BY DEF OpenCart
  <1>2. orders'[o] = "cart" /\ \A p \in OrderIds : p # o => orders'[p] = orders[p]
    BY <1>1, ItemFacts, OrderChange DEF Money, Invariant
  <1>3. UNCHANGED <<items, req, forms, posts, paid, refunds, unpriced, reposted, raced>>
    BY DEF OpenCart, history
  <1>4. ~raced => \A i \in Offers : items[o][i] = None
    BY <1>1 DEF Money, Accounts, OneStatus, In
  <1>5. orders[o] \notin Ended
    BY <1>1 DEF Ended
  <1> QED
    BY <1>2, <1>3, <1>4, <1>5, OpenOrder

\* Steps that change the items of an order alone.
LEMMA OpenChange ==
    ASSUME Money, Invariant', UNCHANGED <<orders, forms, posts, history>>, NEW o \in OrderIds,
           orders[o] \in {"cart", "paying"},
           \A p \in OrderIds \ {o} : items'[p] = items[p],
           \A r \in Requests : req'[r].pc = "purchase" => req'[r] = req[r],
           ~raced => \A i \in Offers : items'[o][i] # None => items'[o][i].status = orders[o]
    PROVE  Money'
  <1>1. UNCHANGED <<forms, posts, paid, refunds, unpriced, reposted, raced>>
    BY DEF history
  <1>2. orders[o] \notin Ended /\ orders'[o] = orders[o]
    BY DEF Ended
  <1>3. \A p \in OrderIds : orders'[p] = orders[p]
    OBVIOUS
  <1> QED
    BY <1>1, <1>2, <1>3, OpenOrder

\* Neither does one that was emptied.
LEMMA ClearCartMoney ==
    ASSUME Money, Invariant', ClearCart
    PROVE  Money'
  <1>1. PICK o \in OrderIds : o = Cart /\ orders[o] = "cart"
    BY CartFacts DEF ClearCart
  <1>2. Unoffered \in [Offers -> Entry] /\ \A i \in Offers : Unoffered[i] = None
    BY DEF Unoffered, Entry
  <1>3. PICK f \in [Offers -> Entry] : f = Unoffered
    BY <1>2
  <1>4. items' = [items EXCEPT ![o] = f]
    BY <1>1, <1>3 DEF ClearCart
  <1>5. items'[o] = f /\ \A p \in OrderIds : p # o => items'[p] = items[p]
    BY <1>4, ItemsStep DEF Money, Invariant
  <1>6. UNCHANGED <<orders, forms, posts, history, req>>
    BY DEF ClearCart
  <1> QED
    BY <1>1, <1>2, <1>3, <1>5, <1>6, OpenChange

\* A code changes the cost of an item, not its status.
LEMMA UseCodeMoney ==
    ASSUME Money, Invariant', NEW c \in Courses, UseCode(c)
    PROVE  Money'
  <1>1. PICK o \in OrderIds : o = Cart /\ orders[o] = "cart"
    BY CartFacts DEF UseCode
  <1>2. PICK i \in Offers : items[o][i] # None /\ items' = [items EXCEPT ![o][i].cost = 0]
    BY <1>1 DEF UseCode, In
  <1>3. items[o][i] \in Item
    BY <1>2, Types DEF Money, Invariant, Entry
  <1>4. PICK x \in Entry : x = [items[o][i] EXCEPT !.cost = 0]
    <2>1. PICK x : x = [items[o][i] EXCEPT !.cost = 0]
      OBVIOUS
    <2>2. x \in Item
      BY <1>3, <2>1 DEF Item
    <2> QED
      BY <2>1, <2>2 DEF Entry
  <1>5. x.status = items[o][i].status
    BY <1>3, <1>4 DEF Item
  <1>6. items' = [items EXCEPT ![o][i] = x]
    BY <1>2, <1>4
  <1>7. /\ items'[o][i] = x
        /\ \A p \in OrderIds, j \in Offers : p # o \/ j # i => items'[p][j] = items[p][j]
    BY <1>6, ItemStep DEF Money, Invariant
  <1>8. \A p \in OrderIds : p # o => items'[p] = items[p]
    BY <1>6, Types DEF Money, Invariant
  <1>9. UNCHANGED <<orders, forms, posts, history, req>>
    BY DEF UseCode
  <1>10. ~raced => \A j \in Offers : items[o][j] # None => items[o][j].status = orders[o]
    BY <1>1, OpenItems
  <1>11. ~raced => \A j \in Offers : items'[o][j] # None => items'[o][j].status = orders[o]
    BY <1>2, <1>5, <1>7, <1>10
  <1> QED
    BY <1>1, <1>8, <1>9, <1>11, OpenChange

\* The certificate alone is in the cart.
LEMMA CreateOrderMoney ==
    ASSUME Money, Invariant', NEW r \in Requests, NEW c \in Courses, CreateOrder(r, c)
    PROVE  Money'
  <1>1. PICK o \in OrderIds : o = Cart /\ orders[o] = "cart"
    BY CartFacts DEF CreateOrder
  <1>2. PICK k \in Offers : k = <<"cert", c>>
    BY DEF CreateOrder
  <1>3. PICK x \in Entry : x = [status |-> "cart", cost |-> Price[k]] /\ x.status = "cart"
    BY ItemFacts
  <1>4. PICK f : f = [Unoffered EXCEPT ![k] = x]
    OBVIOUS
  <1>5. f \in [Offers -> Entry] /\ \A i \in Offers : f[i] \in {x, None}
    BY <1>4 DEF Unoffered, Entry
  <1>6. items' = [items EXCEPT ![o] = f]
    BY <1>1, <1>2, <1>3, <1>4 DEF CreateOrder
  <1>7. items'[o] = f /\ \A p \in OrderIds : p # o => items'[p] = items[p]
    BY <1>5, <1>6, ItemsStep DEF Money, Invariant
  <1>8. PICK q : q = [pc |-> "start", order |-> o]
    OBVIOUS
  <1>9. q \in RequestType /\ q.pc = "start" /\ req' = [req EXCEPT ![r] = q]
    BY <1>1, <1>8 DEF CreateOrder, RequestType
  <1>10. \A s \in Requests : req'[s].pc = "purchase" => req'[s] = req[s]
    BY <1>9, RequestChange DEF Money, Invariant
  <1>11. UNCHANGED <<orders, forms, posts, history>>
    BY DEF CreateOrder
  <1> QED
    BY <1>1, <1>3, <1>5, <1>7, <1>10, <1>11, OpenChange

\* The order was a cart, or its status was overwritten.
LEMMA AddCourseMoney ==
    ASSUME Money, Invariant', NEW r \in Requests, AddCourse(r)
    PROVE  Money'
  <1>1. PICK o \in OrderIds, c \in Registrable : o = req[r].order /\ c = req[r].course
    BY RequestFacts DEF AddCourse, Money, Invariant
  <1>2. PICK i \in Offers : i = <<"paid", c>>
    BY DEF Registrable
  <1>3. PICK x \in Entry : x = [status |-> "cart", cost |-> Price[i]] /\ x.status = "cart"
    BY ItemFacts
  <1>4. /\ orders' = [orders EXCEPT ![o] = "cart"]
        /\ items' = [items EXCEPT ![o][i] = x]
        /\ raced' = (raced \/ orders[o] # "cart")
    BY <1>1, <1>2, <1>3 DEF AddCourse
  <1>5. /\ items'[o][i] = x
        /\ \A p \in OrderIds, j \in Offers : p # o \/ j # i => items'[p][j] = items[p][j]
    BY <1>4, ItemStep DEF Money, Invariant
  <1>6. \A p \in OrderIds : p # o => items'[p] = items[p]
    BY <1>4, Types DEF Money, Invariant
  <1>7. orders'[o] = "cart" /\ \A p \in OrderIds : p # o => orders'[p] = orders[p]
    BY <1>4, ItemFacts, OrderChange DEF Money, Invariant
  <1>8. \A s \in Requests : req'[s].pc = "purchase" => req'[s] = req[s]
    BY RequestEnds DEF AddCourse, Money, Invariant
  <1>9. UNCHANGED <<forms, posts, paid, refunds, unpriced, reposted>> /\ (raced => raced')
    BY <1>4 DEF AddCourse
  <1>10. ~raced' => ~raced /\ orders[o] = "cart" /\ orders[o] \notin Ended
    BY <1>4 DEF Ended
  <1>11. ~raced' => \A j \in Offers : items[o][j] # None => items[o][j].status = "cart"
    BY <1>10, OpenItems
  <1>12. ~raced' => \A j \in Offers : items'[o][j] # None => items'[o][j].status = "cart"
    BY <1>3, <1>5, <1>11
  <1> QED
    BY <1>6, <1>7, <1>8, <1>9, <1>10, <1>12, OpenOrder

\* So it was when the purchase starts.
LEMMA StartPurchaseMoney ==
    ASSUME Money, Invariant', NEW r \in Requests, StartPurchase(r)
    PROVE  Money'
  <1>1. PICK o \in OrderIds : o = req[r].order
    BY RequestFacts DEF StartPurchase, Money, Invariant
  <1>2. /\ orders' = [orders EXCEPT ![o] = "paying"]
        /\ items' = WithStatus(o, "paying")
        /\ raced' = (raced \/ orders[o] # "cart")
    BY <1>1 DEF StartPurchase
  <1>3. /\ \A j \in Offers : items'[o][j] # None => items'[o][j].status = "paying"
        /\ \A p \in OrderIds : p # o => items'[p] = items[p]
    BY <1>2, ItemFacts, StatusStep DEF Money, Invariant
  <1>4. orders'[o] = "paying" /\ \A p \in OrderIds : p # o => orders'[p] = orders[p]
    BY <1>2, ItemFacts, OrderChange DEF Money, Invariant
  <1>5. PICK q : q = [req[r] EXCEPT !.pc = "sign"]
    OBVIOUS
  <1>6. req[r] \in [pc : {"start", "sign"}, order : OrderIds]
    BY RequestFacts DEF StartPurchase, Money, Invariant
  <1>7. q \in RequestType /\ q.pc = "sign"
    BY <1>5, <1>6 DEF RequestType
  <1>8. req' = [req EXCEPT ![r] = q]
    BY <1>5 DEF StartPurchase
  <1>9. \A s \in Requests : req'[s].pc = "purchase" => req'[s] = req[s]
    BY <1>7, <1>8, RequestChange DEF Money, Invariant
  <1>10. UNCHANGED <<forms, posts, paid, refunds, unpriced, reposted>> /\ (raced => raced')
    BY <1>2 DEF StartPurchase
  <1>11. ~raced' => orders[o] \notin Ended
    BY <1>2 DEF Ended
  <1> QED
    BY <1>3, <1>4, <1>9, <1>10, <1>11, OpenOrder

-----------------------------------------------------------------------------
(***************************************************************************)
(* Steps of an order that was purchased.                                   *)
(***************************************************************************)
\* It stays covered while what it holds, and what requests hold of it, comes
\* from what they held.
LEMMA CoveredKept ==
    ASSUME NEW o \in OrderIds, Covered(o), orders[o] \in Ended, paid' = paid, unpriced \subseteq unpriced',
           \A i \in In(o)' :
               \/ i \in In(o) /\ items'[o][i].cost = items[o][i].cost
               \/ \E r \in Requests : /\ Buys(r, o) /\ i \in ToPurchase(r)
                                      /\ items'[o][i].cost = req[r].todo[i].cost,
           \A r \in Requests : Buys(r, o)' => \A i \in ToPurchase(r)' :
               \/ i \in In(o) /\ req'[r].todo[i].cost = items[o][i].cost
               \/ Buys(r, o) /\ i \in ToPurchase(r) /\ req'[r].todo[i].cost = req[r].todo[i].cost
    PROVE  Covered(o)'
  <1>1. SUFFICES ASSUME o \notin unpriced' PROVE Covered(o)'
    BY DEF Covered
  <1>2. PICK bought \in SUBSET Offers : \E price \in [bought -> Nat] :
            /\ SumFunctionOnSet(price, bought) <= paid[o]
            /\ \A i \in In(o) : i \in bought /\ items[o][i].cost <= price[i]
            /\ \A r \in Requests : Buys(r, o) =>
                  \A i \in ToPurchase(r) : i \in bought /\ req[r].todo[i].cost <= price[i]
    BY <1>1 DEF Covered
  <1>3. PICK price \in [bought -> Nat] :
            /\ SumFunctionOnSet(price, bought) <= paid[o]
            /\ \A i \in In(o) : i \in bought /\ items[o][i].cost <= price[i]
            /\ \A r \in Requests : Buys(r, o) =>
                  \A i \in ToPurchase(r) : i \in bought /\ req[r].todo[i].cost <= price[i]
    BY <1>2
  <1>4. SumFunctionOnSet(price, bought) <= paid'[o]
    BY <1>3
  <1>5. \A i \in In(o)' : i \in bought /\ items'[o][i].cost <= price[i]
    BY <1>3
  <1>6. \A r \in Requests : Buys(r, o)' =>
            \A i \in ToPurchase(r)' : i \in bought /\ req'[r].todo[i].cost <= price[i]
    BY <1>3
  <1> QED
    BY <1>4, <1>5, <1>6 DEF Covered

\* One item more costs its cost more.
LEMMA CostAdd ==
    ASSUME TypeOK, NEW o \in OrderIds, NEW S \in SUBSET In(o), NEW k \in In(o) \ S
    PROVE  Cost(o, S \cup {k}) = Cost(o, S) + items[o][k].cost
  <1> DEFINE f == [i \in Offers |-> items[o][i].cost]
  <1>1. IsFiniteSet(S) /\ S \subseteq Offers /\ k \in Offers /\ k \notin S
    BY CostType DEF In
  <1>2. \A i \in S \cup {k} : items[o][i] \in Item
    BY Types DEF In, Entry
  <1>3. \A i \in S \cup {k} : f[i] \in Nat
    BY <1>1, <1>2 DEF Item
  <1>4. f[k] = items[o][k].cost
    BY <1>1
  <1>5. SumFunctionOnSet(f, S \cup {k}) = f[k] + SumFunctionOnSet(f, S)
    <2> HIDE DEF f
    <2> QED
      BY <1>1, <1>3, SumAdd
  <1>6. SumFunctionOnSet(f, S) \in Nat /\ f[k] \in Nat
    <2> HIDE DEF f
    <2> QED
      BY <1>1, <1>3, SumType
  <1>7. SumFunctionOnSet(f, S \cup {k}) = SumFunctionOnSet(f, S) + items[o][k].cost
    <2> HIDE DEF f
    <2> QED
      BY <1>4, <1>5, <1>6
  <1> QED
    BY <1>7 DEF Cost

\* Removing an item that is still "cart" from an order that was purchased.
LEMMA RemoveItemEnded ==
    ASSUME TypeOK, NEW o \in OrderIds, NEW i \in Offers, Accounts(o), orders[o] \in Ended,
           UNCHANGED <<orders, req, history>>, items[o][i].status = "cart",
           items'[o][i] = None, \A j \in Offers : j # i => items'[o][j] = items[o][j]
    PROVE  Accounts(o)'
  <1>1. UNCHANGED <<paid, refunds, unpriced, reposted>>
    BY DEF history
  <1>2. OneStatus(o)'
    BY DEF OneStatus, Ended
  <1>3. \A j \in In(o)' : j \in In(o) /\ items'[o][j] = items[o][j]
    BY DEF In
  <1>4. \A r \in Requests : Buys(r, o)' => Buys(r, o) /\ req'[r] = req[r] /\ ToPurchase(r)' = ToPurchase(r)
    BY DEF Buys, ToPurchase
  <1>5. Covered(o)'
    BY <1>1, <1>3, <1>4, CoveredKept DEF Accounts
  <1>6. \A j \in Offers : Delivered(items'[o][j]) => Delivered(items[o][j])
    BY DEF Delivered
  <1>7. BoughtOnce(o)'
    BY <1>1, <1>4, <1>6 DEF Accounts, BoughtOnce, ToPurchase
  <1>8. PICK R \in SUBSET Offers : R = Refunded(o) /\ \A j \in R : items'[o][j].cost = items[o][j].cost
    <2>1. Refunded(o) \in SUBSET Offers /\ i \notin Refunded(o)
      BY DEF Refunded, In
    <2>2. \A j \in Refunded(o) : items'[o][j] = items[o][j]
      BY <2>1
    <2> QED
      BY <2>1, <2>2
  <1>9. Refunded(o)' = R
    BY <1>8 DEF Refunded, In
  <1>10. Cost(o, R)' = Cost(o, R)
    BY <1>8, CostSame
  <1>11. Cost(o, Refunded(o))' = Cost(o, R)'
    BY <1>9 DEF Cost
  <1>12. RefundedOnce(o)'
    BY <1>1, <1>8, <1>10, <1>11 DEF Accounts, RefundedOnce
  <1> QED
    BY <1>2, <1>5, <1>7, <1>12 DEF Accounts

\* Removing an item from any order.
LEMMA RemoveItemMoney ==
    ASSUME Money, Invariant', NEW o \in OrderIds, NEW i \in Offers, RemoveItem(o, i)
    PROVE  Money'
  <1>1. items' = [items EXCEPT ![o][i] = None] /\ None \in Entry
    BY DEF RemoveItem, Entry
  <1>2. /\ items'[o][i] = None
        /\ \A p \in OrderIds, j \in Offers : p # o \/ j # i => items'[p][j] = items[p][j]
    BY <1>1, ItemStep DEF Money, Invariant
  <1>3. \A p \in OrderIds : p # o => items'[p] = items[p]
    BY <1>1, Types DEF Money, Invariant
  <1>4. UNCHANGED <<orders, req, forms, posts, history>>
    BY DEF RemoveItem
  <1>5. UNCHANGED <<paid, refunds, unpriced, reposted, raced>>
    BY <1>4 DEF history
  <1>6. items[o][i] # None /\ items[o][i].status = "cart"
    BY DEF RemoveItem, In
  <1>7. ASSUME ~raced PROVE Accounts(o)'
    <2>1. Accounts(o) /\ TypeOK /\ Invariant
      BY <1>7 DEF Money, Invariant
    <2>2. CASE orders[o] \in Ended
      BY <1>2, <1>4, <1>6, <2>1, <2>2, RemoveItemEnded
    <2>3. CASE orders[o] \notin Ended
      <3>1. orders[o] # "none"
        BY <1>6, <2>1 DEF Accounts, OneStatus, In
      <3>2. orders[o] \in {"cart", "paying"}
        BY <2>1, <2>3, <3>1, Types DEF Ended, OrderStatus
      <3>3. \A j \in Offers : items'[o][j] # None => items'[o][j].status = orders[o]
        BY <1>2, <1>7, <3>2, OpenItems
      <3> QED
        BY <1>4, <1>5, <1>7, <2>1, <2>3, <3>2, <3>3, StillOpen
    <2> QED
      BY <2>2, <2>3
  <1>8. Amounts'
    BY <1>4, <1>5, AmountsKept
  <1> QED
    BY <1>3, <1>4, <1>5, <1>7, <1>8, OneOrder

\* The refund of a certificate.
LEMMA UnenrollMoney ==
    ASSUME Money, Invariant', NEW c \in Courses, Unenroll(c)
    PROVE  Money'
  <1>1. UNCHANGED <<req, forms, posts, paid, unpriced, reposted, raced>> /\ RefundCert(c)
    BY DEF Unenroll
  <1>2. CASE UNCHANGED <<orders, items, refunds>>
    BY <1>1, <1>2, QuietMoney
  <1>3. CASE ~UNCHANGED <<orders, items, refunds>>
    <2>1. PICK o \in PurchasedCerts(c) :
              /\ items' = [items EXCEPT ![o][<<"cert", c>>].status = "refunded"]
              /\ orders' = [orders EXCEPT ![o] = "refunded"]
              /\ refunds' = [refunds EXCEPT ![o] = IF o \in reposted THEN @
                                                   ELSE @ + items[o][<<"cert", c>>].cost]
      BY <1>1, <1>3 DEF RefundCert, Told
    <2>2. o \in OrderIds /\ TypeOK /\ Invariant
      BY DEF PurchasedCerts, Money, Invariant
    <2>3. PICK k \in Offers : k = <<"cert", c>> /\ items[o][k] # None /\ items[o][k].status = "purchased"
      BY DEF PurchasedCerts, In
    <2>4. items[o][k] \in Item
      BY <2>2, <2>3, Types DEF Entry
    <2>5. PICK x \in Entry : /\ x = [items[o][k] EXCEPT !.status = "refunded"]
                             /\ x # None /\ x.status = "refunded" /\ x.cost = items[o][k].cost
      <3>1. PICK x : x = [items[o][k] EXCEPT !.status = "refunded"]
        OBVIOUS
      <3>2. x \in Item /\ x.status = "refunded" /\ x.cost = items[o][k].cost
        BY <2>4, <3>1 DEF Item, OrderStatus
      <3> QED
        BY <3>1, <3>2, NoneAssumption DEF Entry
    <2>6. items' = [items EXCEPT ![o][k] = x]
      BY <2>1, <2>3, <2>5
    <2>7. /\ items'[o][k] = x
          /\ \A p \in OrderIds, j \in Offers : p # o \/ j # k => items'[p][j] = items[p][j]
      BY <2>2, <2>6, ItemStep
    <2>8. \A p \in OrderIds : p # o => items'[p] = items[p]
      BY <2>2, <2>6, Types
    <2>9. orders'[o] = "refunded" /\ \A p \in OrderIds : p # o => orders'[p] = orders[p]
      BY <2>1, <2>2, ItemFacts, OrderChange
    <2>10. PICK cost \in Nat : cost = items[o][k].cost
      BY <2>4 DEF Item
    <2>11. refunds \in [OrderIds -> Nat]
      BY DEF Money, Amounts
    <2>12. refunds' = [refunds EXCEPT ![o] = IF o \in reposted THEN refunds[o]
                                            ELSE refunds[o] + cost]
      BY <2>1, <2>2, <2>3, <2>10, <2>11
    <2>13. /\ refunds' \in [OrderIds -> Nat] /\ \A p \in OrderIds : p # o => refunds'[p] = refunds[p]
           /\ o \notin reposted => refunds'[o] = refunds[o] + cost
      BY <2>2, <2>11, <2>12
    <2>14. Amounts'
      BY <1>1, <2>13 DEF Money, Amounts
    <2>15. ASSUME ~raced PROVE Accounts(o)'
      <3>1. Accounts(o)
        BY <2>2, <2>15 DEF Money
      <3>2. orders[o] \in Ended
        BY <2>2, <2>3, <2>15 DEF Invariant, DeliveredWithOrder, Delivered, Ended
      <3>3. OneStatus(o)'
        BY <2>9 DEF OneStatus
      <3>4. \A j \in In(o)' : j \in In(o) /\ items'[o][j].cost = items[o][j].cost
        BY <2>2, <2>3, <2>5, <2>7 DEF In
      <3>5. \A r \in Requests : Buys(r, o)' =>
                Buys(r, o) /\ req'[r] = req[r] /\ ToPurchase(r)' = ToPurchase(r)
        BY <1>1 DEF Buys, ToPurchase
      <3>6. Covered(o)'
        BY <1>1, <2>2, <3>1, <3>2, <3>4, <3>5, CoveredKept DEF Accounts
      <3>7. \A j \in Offers : Delivered(items'[o][j]) => Delivered(items[o][j])
        BY <2>2, <2>3, <2>7 DEF Delivered, Ended
      <3>8. BoughtOnce(o)'
        BY <1>1, <3>1, <3>5, <3>7 DEF Accounts, BoughtOnce, ToPurchase
      <3>9. PICK R \in SUBSET In(o) : R = Refunded(o)
        BY DEF Refunded
      <3>10. k \in In(o) \ R /\ R \cup {k} \in SUBSET Offers
        BY <2>3, <3>9 DEF In, Refunded
      <3>11. Refunded(o)' = R \cup {k}
        <4>1. \A j \in Offers : j # k => (j \in Refunded(o)' <=> j \in Refunded(o))
          BY <2>2, <2>7 DEF Refunded, In
        <4>2. k \in Refunded(o)' /\ Refunded(o)' \subseteq Offers
          BY <2>5, <2>7 DEF Refunded, In
        <4> QED
          BY <3>9, <3>10, <4>1, <4>2
      <3>12. \A j \in R \cup {k} : items'[o][j].cost = items[o][j].cost
        BY <2>2, <2>5, <2>7, <3>10
      <3>13. Cost(o, R \cup {k})' = Cost(o, R \cup {k})
        BY <3>10, <3>12, CostSame
      <3>14. Cost(o, R \cup {k}) = Cost(o, R) + cost
        BY <2>2, <2>10, <3>10, CostAdd
      <3>15. Cost(o, Refunded(o))' = Cost(o, R \cup {k})'
        BY <3>11 DEF Cost
      <3>16. RefundedOnce(o)'
        BY <1>1, <2>13, <2>15, <3>1, <3>9, <3>13, <3>14, <3>15 DEF Accounts, RefundedOnce
      <3> QED
        BY <3>3, <3>6, <3>8, <3>16 DEF Accounts
    <2>16. \A p \in OrderIds, r \in Requests : Buys(r, p)' => req'[r] = req[r]
      BY <1>1
    <2> QED
      BY <1>1, <2>2, <2>8, <2>9, <2>13, <2>14, <2>15, <2>16, OneOrder
  <1> QED
    BY <1>2, <1>3

-----------------------------------------------------------------------------
(***************************************************************************)
(* Steps that purchase.                                                    *)
(***************************************************************************)
\* An order that is not purchased is not being delivered, and nothing of it was
\* refunded.
LEMMA OpenFacts ==
    ASSUME Money, ~raced, NEW o \in OrderIds, orders[o] \notin Ended
    PROVE  /\ \A r \in Requests : ~Buys(r, o)
           /\ \A i \in Offers : ~Delivered(items[o][i])
           /\ o \notin reposted => refunds[o] = 0
  <1>1. DeliveredWithOrder /\ Accounts(o)
    BY DEF Money, Invariant
  <1>2. Refunded(o) = {}
    BY <1>1 DEF Refunded, In, DeliveredWithOrder, Delivered, Ended
  <1>3. o \notin reposted => refunds[o] = 0
    BY <1>1, <1>2, CostNothing DEF Accounts, RefundedOnce
  <1> QED
    BY <1>1, <1>3 DEF Buys, DeliveredWithOrder

\* Setting the status of items keeps what they cost.
LEMMA StatusCost ==
    ASSUME TypeOK, NEW o \in OrderIds, NEW status \in OrderStatus, items' = WithStatus(o, status)
    PROVE  \A j \in Offers : /\ items'[o][j] # None => items[o][j] # None
                             /\ items[o][j] # None => items'[o][j].cost = items[o][j].cost
  <1> SUFFICES ASSUME NEW j \in Offers
               PROVE  /\ items'[o][j] # None => items[o][j] # None
                      /\ items[o][j] # None => items'[o][j].cost = items[o][j].cost
    OBVIOUS
  <1>1. items'[o][j] = IF items[o][j] = None THEN None ELSE [items[o][j] EXCEPT !.status = status]
    BY Types DEF WithStatus
  <1>2. items[o][j] \in Item \/ items[o][j] = None
    BY Types DEF Entry
  <1>3. items[o][j] \in Item => [items[o][j] EXCEPT !.status = status].cost = items[o][j].cost
    BY DEF Item
  <1> QED
    BY <1>1, <1>2, <1>3

\* An order registered for free costs nothing, or is among the exceptions.
LEMMA RegisterCoursesMoney ==
    ASSUME Money, Invariant', RegisterCourses
    PROVE  Money'
  <1>1. PICK o \in OrderIds : o = Cart /\ orders[o] = "cart"
    BY CartFacts DEF RegisterCourses
  <1>2. /\ orders' = [orders EXCEPT ![o] = "purchased"]
        /\ items' = WithStatus(o, "purchased")
        /\ unpriced' = IF Cost(o, In(o)) > 0 THEN unpriced \cup {o} ELSE unpriced
    BY <1>1 DEF RegisterCourses
  <1>3. /\ \A j \in Offers : items'[o][j] # None => items'[o][j].status = "purchased"
        /\ \A p \in OrderIds : p # o => items'[p] = items[p]
    BY <1>2, ItemFacts, StatusStep DEF Money, Invariant
  <1>4. \A j \in Offers : /\ items'[o][j] # None => items[o][j] # None
                          /\ items[o][j] # None => items'[o][j].cost = items[o][j].cost
    BY <1>2, ItemFacts, StatusCost DEF Money, Invariant
  <1>5. orders'[o] = "purchased" /\ \A p \in OrderIds : p # o => orders'[p] = orders[p]
    BY <1>2, ItemFacts, OrderChange DEF Money, Invariant
  <1>6. UNCHANGED <<forms, posts, req, paid, refunds, reposted, raced>>
    BY DEF RegisterCourses
  <1>7. unpriced \subseteq unpriced'
    BY <1>2
  <1>8. ASSUME ~raced PROVE Accounts(o)'
    <2>1. /\ \A r \in Requests : ~Buys(r, o)
          /\ o \notin reposted => refunds[o] = 0
      BY <1>1, <1>8, OpenFacts DEF Ended
    <2>2. \A r \in Requests : ~Buys(r, o)'
      BY <1>6, <2>1 DEF Buys
    <2>3. OneStatus(o)' /\ BoughtOnce(o)'
      BY <1>5, <2>2 DEF OneStatus, BoughtOnce
    <2>4. RefundedOnce(o)'
      <3>1. Refunded(o)' = {}
        BY <1>3 DEF Refunded, In
      <3>2. Cost(o, Refunded(o))' = Cost(o, {})'
        BY <3>1 DEF Cost
      <3> QED
        BY <1>6, <2>1, <3>2, CostNothing DEF RefundedOnce
    <2>5. ASSUME o \notin unpriced' PROVE Covered(o)'
      <3>1. TypeOK /\ paid[o] \in Nat
        BY DEF Money, Invariant, Amounts
      <3>2. Cost(o, In(o)) \in Nat
        BY <3>1, CostType
      <3>3. Cost(o, In(o)) <= paid'[o]
        BY <1>2, <1>6, <2>5, <3>1, <3>2
      <3>4. PICK bought \in SUBSET Offers : \E price \in [bought -> Nat] :
                /\ bought = In(o) /\ \A j \in bought : price[j] = items[o][j].cost
                /\ SumFunctionOnSet(price, bought) = Cost(o, In(o))
        BY <3>1, PriceList
      <3>5. PICK price \in [bought -> Nat] :
                /\ bought = In(o) /\ \A j \in bought : price[j] = items[o][j].cost
                /\ SumFunctionOnSet(price, bought) = Cost(o, In(o))
        BY <3>4
      <3>6. \A j \in In(o)' : j \in bought /\ items'[o][j].cost = price[j]
        BY <1>4, <3>5 DEF In
      <3>7. \A j \in In(o)' : j \in bought /\ items'[o][j].cost <= price[j]
        BY <3>6
      <3> QED
        BY <2>2, <3>3, <3>5, <3>7 DEF Covered
    <2>6. Covered(o)'
      BY <2>5 DEF Covered
    <2> QED
      BY <2>3, <2>4, <2>6 DEF Accounts
  <1>9. Amounts'
    BY <1>6, AmountsKept
  <1> QED
    BY <1>3, <1>5, <1>6, <1>7, <1>8, <1>9, OneOrder

\* What a purchase changes in the items of its order.
LEMMA PurchaseMoney ==
    ASSUME TypeOK, NEW o \in OrderIds, NEW i \in Offers, NEW cost \in Nat,
           PurchaseItem(o, i, cost)
    PROVE  /\ items'[o][i] # None /\ items'[o][i].status = "purchased" /\ items'[o][i].cost = cost
           /\ \A j \in Offers : j # i => items'[o][j] = items[o][j]
           /\ \A p \in OrderIds : p # o => items'[p] = items[p]
  <1>1. PICK x \in Entry : x = [status |-> "purchased", cost |-> cost] /\ x # None
    BY ItemFacts
  <1>2. items' = [items EXCEPT ![o][i] = x]
    BY <1>1 DEF PurchaseItem
  <1>3. /\ items'[o][i] = x
        /\ \A p \in OrderIds, j \in Offers : p # o \/ j # i => items'[p][j] = items[p][j]
    BY <1>2, ItemStep
  <1>4. \A p \in OrderIds : p # o => items'[p] = items[p]
    BY <1>2, Types
  <1> QED
    BY <1>1, <1>3, <1>4

\* Each copy is delivered once, and is of an item paid for.
LEMMA PurchaseNextMoney ==
    ASSUME Money, Invariant', NEW r \in Requests, PurchaseNext(r)
    PROVE  Money'
  <1>1. PICK o \in OrderIds, todo \in [Offers -> Entry] : o = req[r].order /\ todo = req[r].todo
    BY RequestFacts DEF PurchaseNext, Money, Invariant
  <1>2. PICK i \in ToPurchase(r) :
            /\ PurchaseItem(o, i, todo[i].cost)
            /\ req' = [req EXCEPT ![r] = IF ToPurchase(r) = {i} THEN Idle
                                         ELSE [@ EXCEPT !.todo[i] = None]]
    BY <1>1 DEF PurchaseNext
  <1>3. i \in Offers /\ todo[i] \in Item
    BY <1>1 DEF ToPurchase, Entry
  <1>4. PICK cost \in Nat : cost = todo[i].cost
    BY <1>3 DEF Item
  <1>5. UNCHANGED <<orders, forms, posts, paid, refunds, unpriced, reposted, raced>>
    BY DEF PurchaseNext, history
  <1>6. /\ items'[o][i] # None /\ items'[o][i].status = "purchased" /\ items'[o][i].cost = cost
        /\ \A j \in Offers : j # i => items'[o][j] = items[o][j]
        /\ \A p \in OrderIds : p # o => items'[p] = items[p]
    BY <1>2, <1>3, <1>4, PurchaseMoney DEF Money, Invariant
  <1>7. /\ req'[r].pc = "purchase" =>
              /\ req'[r].order = o
              /\ \A j \in Offers : req'[r].todo[j] # None => j # i /\ req'[r].todo[j] = todo[j]
        /\ \A s \in Requests : s # r => req'[s] = req[s]
    <2>1. CASE ToPurchase(r) = {i}
      <3>1. req' = [req EXCEPT ![r] = Idle]
        BY <1>2, <2>1
      <3> QED
        BY <3>1, RequestEnds DEF Money, Invariant
    <2>2. CASE ToPurchase(r) # {i}
      <3>1. PICK rest \in [Offers -> Entry] : rest = [todo EXCEPT ![i] = None]
        BY <1>3 DEF Entry
      <3>2. req[r] \in [pc : {"purchase"}, order : OrderIds, todo : [Offers -> Entry]]
        BY RequestFacts DEF PurchaseNext, Money, Invariant
      <3>3. PICK q : q = [req[r] EXCEPT !.todo = rest]
        OBVIOUS
      <3>4. /\ q \in [pc : {"purchase"}, order : OrderIds, todo : [Offers -> Entry]]
            /\ q.order = o /\ q.todo = rest
        BY <1>1, <3>2, <3>3
      <3>5. q \in RequestType
        BY <3>4 DEF RequestType
      <3>6. req' = [req EXCEPT ![r] = q]
        BY <1>1, <1>2, <2>2, <3>1, <3>2, <3>3
      <3>7. req'[r] = q /\ \A s \in Requests : s # r => req'[s] = req[s]
        BY <3>5, <3>6, RequestChange DEF Money, Invariant
      <3>8. \A j \in Offers : rest[j] # None => j # i /\ rest[j] = todo[j]
        BY <3>1
      <3> QED
        BY <3>4, <3>7, <3>8
    <2> QED
      BY <2>1, <2>2
  <1>8. \A s \in Requests : s # r => req'[s] = req[s]
    BY <1>7
  <1>9. Buys(r, o) /\ i \in ToPurchase(r) /\ \A j \in Offers : todo[j] # None => j \in ToPurchase(r)
    BY <1>1 DEF PurchaseNext, Buys, ToPurchase
  <1>10. ASSUME ~raced PROVE Accounts(o)'
    <2>1. Accounts(o) /\ orders[o] \in Ended
      BY <1>1, <1>10 DEF Money, Invariant, DeliveredWithOrder, PurchaseNext
    <2>2. OneStatus(o)'
      BY <1>5, <2>1 DEF OneStatus, Ended
    <2>3. \A j \in In(o)' :
              \/ j \in In(o) /\ items'[o][j].cost = items[o][j].cost
              \/ \E s \in Requests : /\ Buys(s, o) /\ j \in ToPurchase(s)
                                     /\ items'[o][j].cost = req[s].todo[j].cost
      BY <1>1, <1>4, <1>6, <1>9 DEF In
    <2>4. ASSUME NEW s \in Requests, Buys(s, o)'
          PROVE  /\ Buys(s, o) /\ ToPurchase(s)' \subseteq ToPurchase(s)
                 /\ \A j \in ToPurchase(s)' : req'[s].todo[j] = req[s].todo[j]
                 /\ s = r => i \notin ToPurchase(s)'
      <3>1. CASE s = r
        BY <1>1, <1>7, <1>9, <2>4, <3>1 DEF Buys, ToPurchase
      <3>2. CASE s # r
        BY <1>8, <2>4, <3>2 DEF Buys, ToPurchase
      <3> QED
        BY <3>1, <3>2
    <2>5. Covered(o)'
      BY <1>5, <2>1, <2>3, <2>4, CoveredKept DEF Accounts
    <2>6. ASSUME o \notin reposted
          PROVE  /\ \A s \in Requests : Buys(s, o) => s = r
                 /\ \A j \in ToPurchase(r) : ~Delivered(items[o][j])
      BY <1>9, <2>1, <2>6 DEF Accounts, BoughtOnce
    <2>7. BoughtOnce(o)'
      <3>1. ASSUME o \notin reposted, NEW s \in Requests, Buys(s, o)'
            PROVE  s = r /\ \A j \in ToPurchase(s)' : ~Delivered(items'[o][j])
        <4>1. s = r /\ i \notin ToPurchase(s)' /\ ToPurchase(s)' \subseteq ToPurchase(r)
          BY <2>4, <2>6, <3>1
        <4>2. ToPurchase(s)' \subseteq Offers
          BY DEF ToPurchase
        <4>3. \A j \in ToPurchase(s)' : items'[o][j] = items[o][j] /\ ~Delivered(items[o][j])
          BY <1>6, <2>6, <3>1, <4>1, <4>2
        <4> QED
          BY <4>1, <4>3
      <3> QED
        BY <1>5, <3>1 DEF BoughtOnce
    <2>8. ASSUME o \notin reposted PROVE RefundedOnce(o)'
      <3>1. PICK R \in SUBSET Offers : R = Refunded(o)
        BY DEF Refunded, In
      <3>2. i \notin R
        BY <1>9, <2>6, <2>8, <3>1 DEF Refunded, In, Delivered, Ended
      <3>3. Refunded(o)' = R
        <4>1. i \notin Refunded(o)' /\ Refunded(o)' \subseteq Offers
          BY <1>6 DEF Refunded, In
        <4>2. \A j \in Offers : j # i => (j \in Refunded(o)' <=> j \in Refunded(o))
          BY <1>6 DEF Refunded, In
        <4> QED
          BY <3>1, <3>2, <4>1, <4>2
      <3>4. \A j \in R : items'[o][j].cost = items[o][j].cost
        BY <1>6, <3>2
      <3>5. Cost(o, R)' = Cost(o, R)
        BY <3>4, CostSame
      <3>6. Cost(o, Refunded(o))' = Cost(o, R)'
        BY <3>3 DEF Cost
      <3> QED
        BY <1>5, <2>1, <2>8, <3>1, <3>5, <3>6 DEF Accounts, RefundedOnce
    <2>9. RefundedOnce(o)'
      BY <1>5, <2>8 DEF RefundedOnce
    <2> QED
      BY <2>2, <2>5, <2>7, <2>9 DEF Accounts
  <1>11. Amounts'
    BY <1>5, AmountsKept
  <1>12. \A p \in OrderIds \ {o}, s \in Requests : Buys(s, p)' => req'[s] = req[s]
    BY <1>7 DEF Buys
  <1> QED
    BY <1>5, <1>6, <1>10, <1>11, <1>12, OneOrder

\* What the first commit of a purchase changes: its request holds copies of the
\* other items.
LEMMA PostpayFacts ==
    ASSUME TypeOK, NEW r \in Requests, NEW m \in posts, PostpayCallback(r, m), NEW o, o = m.order
    PROVE  /\ o \in OrderIds /\ orders[o] # "purchased" /\ m.amount = TotalCost(o)
           /\ orders'[o] = "purchased"
           /\ \A p \in OrderIds : p # o => orders'[p] = orders[p] /\ items'[p] = items[p]
           /\ \E i \in In(o) :
                 /\ items'[o][i].status = "purchased" /\ items'[o][i].cost = items[o][i].cost
                 /\ \A j \in Offers : j # i => items'[o][j] = items[o][j]
                 /\ req'[r].pc = "purchase" =>
                       /\ req'[r].order = o
                       /\ \A j \in ToPurchase(r)' :
                             j \in In(o) /\ j # i /\ req'[r].todo[j] = items[o][j]
           /\ \A s \in Requests : s # r => req'[s] = req[s]
           /\ reposted' = IF orders[o] = "refunded" THEN reposted \cup {o} ELSE reposted
           /\ UNCHANGED <<forms, posts, paid, refunds, unpriced, raced>>
  <1>1. o \in OrderIds
    BY OtherTyped DEF OtherTypes
  <1>2. PICK i \in In(o) :
            /\ PurchaseItem(o, i, items[o][i].cost)
            /\ req' = [req EXCEPT ![r] = IF In(o) = {i} THEN Idle
                                         ELSE [pc |-> "purchase", order |-> o,
                                               todo |-> [items[o] EXCEPT ![i] = None]]]
    BY DEF PostpayCallback
  <1>3. i \in Offers /\ items[o][i] \in Item
    BY <1>1, Types DEF In, Entry
  <1>4. PICK cost \in Nat : cost = items[o][i].cost
    BY <1>3 DEF Item
  <1>5. /\ items'[o][i] # None /\ items'[o][i].status = "purchased" /\ items'[o][i].cost = cost
        /\ \A j \in Offers : j # i => items'[o][j] = items[o][j]
        /\ \A p \in OrderIds : p # o => items'[p] = items[p]
    BY <1>1, <1>2, <1>3, <1>4, PurchaseMoney
  <1>6. orders' = [orders EXCEPT ![o] = "purchased"]
    BY DEF PostpayCallback
  <1>7. orders'[o] = "purchased" /\ \A p \in OrderIds : p # o => orders'[p] = orders[p]
    BY <1>1, <1>6, ItemFacts, OrderChange
  <1>8. /\ req'[r].pc = "purchase" =>
              /\ req'[r].order = o
              /\ \A j \in Offers : req'[r].todo[j] # None =>
                    j \in In(o) /\ j # i /\ req'[r].todo[j] = items[o][j]
        /\ \A s \in Requests : s # r => req'[s] = req[s]
    <2>1. CASE In(o) = {i}
      <3>1. req' = [req EXCEPT ![r] = Idle]
        BY <1>2, <2>1
      <3> QED
        BY <3>1, RequestEnds
    <2>2. CASE In(o) # {i}
      <3>1. PICK todo \in [Offers -> Entry] : todo = [items[o] EXCEPT ![i] = None]
        BY <1>1, <1>3, Types DEF Entry
      <3>2. PICK q : q = [pc |-> "purchase", order |-> o, todo |-> todo]
        OBVIOUS
      <3>3. q \in RequestType /\ q.order = o /\ q.todo = todo
        BY <1>1, <3>2 DEF RequestType
      <3>4. req' = [req EXCEPT ![r] = q]
        BY <1>2, <2>2, <3>1, <3>2
      <3>5. req'[r] = q /\ \A s \in Requests : s # r => req'[s] = req[s]
        BY <3>3, <3>4, RequestChange
      <3>6. items[o] \in [Offers -> Entry]
        BY <1>1, Types
      <3>7. \A j \in Offers : todo[j] # None => j # i /\ todo[j] = items[o][j]
        BY <3>1, <3>6
      <3>8. \A j \in Offers : todo[j] # None => j \in In(o)
        BY <3>7 DEF In
      <3> QED
        BY <3>3, <3>5, <3>7, <3>8
    <2> QED
      BY <2>1, <2>2
  <1>9. /\ orders[o] # "purchased" /\ m.amount = TotalCost(o)
        /\ reposted' = IF orders[o] = "refunded" THEN reposted \cup {o} ELSE reposted
        /\ UNCHANGED <<forms, posts, paid, refunds, unpriced, raced>>
    BY DEF PostpayCallback, Accepted
  <1>10. req'[r].pc = "purchase" =>
             /\ req'[r].order = o
             /\ \A j \in ToPurchase(r)' : j \in In(o) /\ j # i /\ req'[r].todo[j] = items[o][j]
    BY <1>8 DEF ToPurchase
  <1> QED
    BY <1>1, <1>4, <1>5, <1>7, <1>8, <1>9, <1>10

\* The amount posted is the cost of all the order holds.
LEMMA PostpayCallbackMoney ==
    ASSUME Money, Invariant', NEW r \in Requests, NEW m \in posts, PostpayCallback(r, m)
    PROVE  Money'
  <1>1. PICK o \in OrderIds : o = m.order
    BY OtherTyped DEF Money, Invariant, OtherTypes
  <1>2. /\ orders[o] # "purchased" /\ m.amount = TotalCost(o) /\ orders'[o] = "purchased"
        /\ \A p \in OrderIds : p # o => orders'[p] = orders[p] /\ items'[p] = items[p]
        /\ \A s \in Requests : s # r => req'[s] = req[s]
        /\ reposted' = IF orders[o] = "refunded" THEN reposted \cup {o} ELSE reposted
        /\ UNCHANGED <<forms, posts, paid, refunds, unpriced, raced>>
    BY <1>1, PostpayFacts DEF Money, Invariant
  <1>3. PICK i \in In(o) :
            /\ items'[o][i].status = "purchased" /\ items'[o][i].cost = items[o][i].cost
            /\ \A j \in Offers : j # i => items'[o][j] = items[o][j]
            /\ req'[r].pc = "purchase" =>
                  /\ req'[r].order = o
                  /\ \A j \in ToPurchase(r)' : j \in In(o) /\ j # i /\ req'[r].todo[j] = items[o][j]
    BY <1>1, PostpayFacts DEF Money, Invariant
  <1>4. i \in Offers
    BY DEF In
  <1>5. OneStatus(o)'
    BY <1>2 DEF OneStatus
  <1>6. \A j \in In(o)' : j \in In(o) /\ items'[o][j].cost = items[o][j].cost
    BY <1>3 DEF In
  <1>7. \A s \in Requests : Buys(s, o)' /\ s # r => Buys(s, o) /\ req'[s] = req[s] /\ ToPurchase(s)' = ToPurchase(s)
    BY <1>2 DEF Buys, ToPurchase
  <1>8. Buys(r, o)' => \A j \in ToPurchase(r)' : j \in In(o) /\ j # i /\ req'[r].todo[j] = items[o][j]
    BY <1>3 DEF Buys
  <1>9. ASSUME ~raced, orders[o] \in Ended PROVE Accounts(o)'
    <2>1. orders[o] = "refunded" /\ o \in reposted' /\ Accounts(o)
      BY <1>2, <1>9 DEF Ended, Money
    <2>2. \A s \in Requests : Buys(s, o)' => \A j \in ToPurchase(s)' :
              \/ j \in In(o) /\ req'[s].todo[j].cost = items[o][j].cost
              \/ Buys(s, o) /\ j \in ToPurchase(s) /\ req'[s].todo[j].cost = req[s].todo[j].cost
      <3>1. ASSUME NEW s \in Requests, Buys(s, o)', NEW j \in ToPurchase(s)'
            PROVE  \/ j \in In(o) /\ req'[s].todo[j].cost = items[o][j].cost
                   \/ Buys(s, o) /\ j \in ToPurchase(s) /\ req'[s].todo[j].cost = req[s].todo[j].cost
        <4>1. CASE s = r
          BY <1>8, <3>1, <4>1
        <4>2. CASE s # r
          BY <1>7, <3>1, <4>2
        <4> QED
          BY <4>1, <4>2
      <3> QED
        BY <3>1
    <2>3. Covered(o)'
      BY <1>2, <1>6, <1>9, <2>1, <2>2, CoveredKept DEF Accounts
    <2> QED
      BY <1>5, <2>1, <2>3 DEF Accounts, BoughtOnce, RefundedOnce
  <1>10. ASSUME ~raced, orders[o] \notin Ended PROVE Accounts(o)'
    <2>1. /\ \A s \in Requests : ~Buys(s, o)
          /\ \A j \in Offers : ~Delivered(items[o][j])
          /\ o \notin reposted => refunds[o] = 0
      BY <1>10, OpenFacts
    <2>2. TypeOK /\ paid[o] \in Nat /\ m.amount <= paid[o] /\ Accounts(o)
      BY <1>1, <1>10 DEF Money, Invariant, Amounts
    <2>3. orders[o] # "none"
      BY <2>2 DEF Accounts, OneStatus
    <2>4. orders[o] \in {"cart", "paying"}
      BY <1>10, <2>2, <2>3, Types DEF Ended, OrderStatus
    <2>5. {j \in In(o) : items[o][j].status = orders[o]} = In(o)
      BY <2>2, <2>4 DEF Accounts, OneStatus
    <2>6. Cost(o, In(o)) <= paid'[o]
      BY <1>2, <2>2, <2>5 DEF TotalCost
    <2>7. \A s \in Requests : Buys(s, o)' => s = r
      BY <1>7, <2>1
    <2>8. Covered(o)'
      <3>1. PICK bought \in SUBSET Offers : \E price \in [bought -> Nat] :
                /\ bought = In(o) /\ \A j \in bought : price[j] = items[o][j].cost
                /\ SumFunctionOnSet(price, bought) = Cost(o, In(o))
        BY <2>2, PriceList
      <3>2. PICK price \in [bought -> Nat] :
                /\ bought = In(o) /\ \A j \in bought : price[j] = items[o][j].cost
                /\ SumFunctionOnSet(price, bought) = Cost(o, In(o))
        BY <3>1
      <3>3. \A j \in In(o)' : j \in bought /\ items'[o][j].cost <= price[j]
        BY <1>6, <3>2
      <3>4. \A s \in Requests : Buys(s, o)' =>
                \A j \in ToPurchase(s)' : j \in bought /\ req'[s].todo[j].cost <= price[j]
        BY <1>8, <2>7, <3>2
      <3> QED
        BY <2>6, <3>2, <3>3, <3>4 DEF Covered
    <2>9. BoughtOnce(o)'
      <3>1. \A j \in Offers : j # i => ~Delivered(items'[o][j])
        BY <1>3, <2>1
      <3>2. \A s \in Requests : Buys(s, o)' => \A j \in ToPurchase(s)' : ~Delivered(items'[o][j])
        BY <1>8, <2>7, <3>1 DEF In
      <3> QED
        BY <2>7, <3>2 DEF BoughtOnce
    <2>10. RefundedOnce(o)'
      <3>1. Refunded(o)' = {}
        <4>1. i \notin Refunded(o)'
          BY <1>3 DEF Refunded
        <4>2. \A j \in Offers : j # i => j \notin Refunded(o)'
          BY <1>3, <2>1 DEF Refunded, In, Delivered, Ended
        <4> QED
          BY <4>1, <4>2 DEF Refunded, In
      <3>2. Cost(o, Refunded(o))' = Cost(o, {})'
        BY <3>1 DEF Cost
      <3>3. o \notin reposted' => o \notin reposted
        BY <1>2
      <3> QED
        BY <1>2, <2>1, <3>2, <3>3, CostNothing DEF RefundedOnce
    <2> QED
      BY <1>5, <2>8, <2>9, <2>10 DEF Accounts
  <1>11. Amounts'
    BY <1>2, AmountsKept
  <1>12. \A p \in OrderIds \ {o}, s \in Requests : Buys(s, p)' => req'[s] = req[s]
    BY <1>2, <1>3 DEF Buys
  <1>13. reposted \subseteq reposted'
    BY <1>2
  <1> QED
    BY <1>2, <1>9, <1>10, <1>11, <1>12, <1>13, OneOrder

-----------------------------------------------------------------------------
(***************************************************************************)
(* Every step, and the theorems about money.                               *)
(***************************************************************************)
LEMMA MoneyInit ==
    ASSUME Init
    PROVE  Money
  <1>1. Amounts
    BY DEF Init, Amounts
  <1>2. ASSUME NEW o \in OrderIds PROVE Accounts(o)
    <2>1. orders[o] = "none" /\ \A i \in Offers : items[o][i] = None
      BY DEF Init, Unoffered
    <2>2. In(o) = {}
      BY <2>1 DEF In
    <2>3. \A r \in Requests : ~Buys(r, o)
      BY DEF Init, Idle, Buys
    <2>4. Refunded(o) = {}
      BY <2>2 DEF Refunded
    <2>5. RefundedOnce(o)
      BY <2>4, CostNothing DEF Init, RefundedOnce
    <2> QED
      BY <2>1, <2>2, <2>3, <2>5 DEF Accounts, OneStatus, Covered, BoughtOnce, Ended
  <1> QED
    BY <1>1, <1>2, InitCorrect DEF Money

\* Every step keeps the accounts.
LEMMA MoneyNext ==
    ASSUME Money, [Next]_vars
    PROVE  Money'
  <1>1. Invariant'
    BY NextCorrect DEF Money
  <1>2. ASSUME NEW r \in Requests, NEW c \in Courses, AddCourseReads(r, c) PROVE Money'
    <2>1. PICK q : q = [pc |-> "add", order |-> Cart, course |-> c]
      OBVIOUS
    <2>2. q \in RequestType /\ q.pc = "add" /\ req' = [req EXCEPT ![r] = q]
      BY <1>2, <2>1, CartFacts DEF AddCourseReads, RequestType, Registrable
    <2>3. \A s \in Requests : req'[s].pc = "purchase" => req'[s] = req[s]
      BY <2>2, RequestChange DEF Money, Invariant
    <2>4. UNCHANGED <<orders, items, forms, posts, paid, refunds, unpriced, reposted, raced>>
      BY <1>2 DEF AddCourseReads, history
    <2> QED
      BY <1>1, <2>3, <2>4, QuietMoney
  <1>3. ASSUME NEW r \in Requests, RequestFails(r) PROVE Money'
    <2>1. \A s \in Requests : req'[s].pc = "purchase" => req'[s] = req[s]
      BY <1>3, RequestEnds DEF RequestFails, Money, Invariant
    <2>2. UNCHANGED <<orders, items, forms, posts, paid, refunds, unpriced, reposted, raced>>
      BY <1>3 DEF RequestFails, history
    <2> QED
      BY <1>1, <2>1, <2>2, QuietMoney
  <1>4. ASSUME NEW r \in Requests, RequestStep(r)
        PROVE  Money'
    BY <1>1, <1>2, <1>3, <1>4, CreateOrderMoney, AddCourseMoney, StartPurchaseMoney,
       SignPurchaseMoney, PostpayCallbackMoney, PurchaseNextMoney
       DEF RequestStep
  <1>5. ASSUME NEW c \in Courses,
               \/ EnrollHonor(c) \/ RedeemCode(c) \/ ReverifyPage(c)
               \/ CertificateGenerated(c) \/ CourseDeleted(c)
        PROVE  Money'
    <2>1. UNCHANGED <<orders, items, forms, posts, req, paid, refunds, unpriced, reposted, raced>>
      BY <1>5 DEF EnrollHonor, RedeemCode, ReverifyPage, CertificateGenerated, CourseDeleted, history
    <2> QED
      BY <1>1, <2>1, QuietMoney
  <1>6. ASSUME NEW c \in Courses, CourseStep(c)
        PROVE  Money'
    BY <1>1, <1>5, <1>6, UseCodeMoney, UnenrollMoney DEF CourseStep
  <1>7. CASE UNCHANGED vars
    <2>1. UNCHANGED <<orders, items, forms, posts, req, paid, refunds, unpriced, reposted, raced>>
      BY <1>7 DEF vars
    <2> QED
      BY <1>1, <2>1, QuietMoney
  <1> QED
    BY <1>1, <1>4, <1>6, <1>7, OpenCartMoney, ShowCartMoney, ClearCartMoney,
       RegisterCoursesMoney, RemoveItemMoney, PayMoney
       DEF Next

\* What of an order was delivered costs no more than its price list says.
LEMMA MoneyCovers ==
    ASSUME Money, ~raced, NEW o \in OrderIds \ unpriced, NEW S \in SUBSET In(o),
           \A i \in S : Delivered(items[o][i])
    PROVE  Cost(o, S) <= paid[o]
  <1>1. TypeOK /\ Accounts(o) /\ paid[o] \in Nat
    BY DEF Money, Invariant, Amounts
  <1>2. CASE orders[o] \notin Ended
    <2>1. S = {}
      BY <1>2, OpenFacts DEF In
    <2>2. Cost(o, S) = 0
      BY <2>1, CostNothing
    <2> QED
      BY <1>1, <2>2
  <1>3. CASE orders[o] \in Ended
    <2>1. PICK bought \in SUBSET Offers : \E price \in [bought -> Nat] :
              /\ SumFunctionOnSet(price, bought) <= paid[o]
              /\ \A i \in In(o) : i \in bought /\ items[o][i].cost <= price[i]
      BY <1>1, <1>3 DEF Accounts, Covered
    <2>2. PICK price \in [bought -> Nat] :
              /\ SumFunctionOnSet(price, bought) <= paid[o]
              /\ \A i \in In(o) : i \in bought /\ items[o][i].cost <= price[i]
      BY <2>1
    <2>3. IsFiniteSet(bought) /\ S \in SUBSET bought /\ S \subseteq Offers
      BY <2>2, OffersAssumption, FS_Subset DEF In
    <2> DEFINE f == [i \in Offers |-> items[o][i].cost]
    <2>4. \A i \in S : items[o][i] \in Item
      BY <1>1, Types DEF In, Entry
    <2>5. \A i \in S : f[i] \in Nat /\ f[i] <= price[i]
      BY <2>2, <2>3, <2>4 DEF Item
    <2>6. Cost(o, S) = SumFunctionOnSet(f, S)
      BY DEF Cost
    <2>7. Cost(o, S) \in Nat /\ SumFunctionOnSet(price, bought) \in Nat
      BY <1>1, <2>3, CostType, SumType
    <2>8. SumFunctionOnSet(f, S) <= SumFunctionOnSet(price, bought)
      <3> HIDE DEF f
      <3> QED
        BY <2>3, <2>5, SumMonotone
    <2> QED
      BY <1>1, <2>2, <2>6, <2>7, <2>8
  <1> QED
    BY <1>2, <1>3

\* For any offers, prices, codes, requests and posts: an order that was not
\* registered for free delivers no more than was paid for it, while no copy has
\* overwritten its status.  When it is purchased the amount of the post, which
\* somebody paid, is the cost of all it holds, and from then on it only loses
\* items: what requests still hold of it are copies of the items paid for.
THEOREM PaymentsAlwaysCover == Spec => []PaymentsCoverPurchases
  <1>1. Init => Money
    BY MoneyInit
  <1>2. Money /\ [Next]_vars => Money'
    BY MoneyNext
  <1>3. ASSUME Money PROVE PaymentsCoverPurchases
    <2>1. SUFFICES ASSUME ~raced, NEW o \in OrderIds \ unpriced
                   PROVE  Cost(o, {i \in In(o) : items[o][i].status \in {"purchased", "refunded"}})
                              <= paid[o]
      BY DEF PaymentsCoverPurchases
    <2>2. PICK S \in SUBSET In(o) :
              S = {i \in In(o) : items[o][i].status \in {"purchased", "refunded"}}
      OBVIOUS
    <2>3. \A i \in S : Delivered(items[o][i])
      BY <2>2 DEF In, Delivered, Ended
    <2>4. Cost(o, S) <= paid[o]
      BY <1>3, <2>1, <2>3, MoneyCovers
    <2> QED
      BY <2>2, <2>4
  <1> QED
    BY <1>1, <1>2, <1>3, PTL DEF Spec

\* And billing is told to refund no more of it than was paid, however often the user
\* enrols and unenrols, as long as no repeated post has purchased the refunded order
\* again, it was not registered for free, and no copy has overwritten a status: an
\* item is then delivered once, so what was refunded is what the items marked
\* refunded cost.  Of the orders left out the code does refund more.
THEOREM RefundsAlwaysPaid == Spec => []RefundsWerePaid
  <1>1. Init => Money
    BY MoneyInit
  <1>2. Money /\ [Next]_vars => Money'
    BY MoneyNext
  <1>3. ASSUME Money PROVE RefundsWerePaid
    <2>1. SUFFICES ASSUME ~raced, NEW o \in OrderIds \ (unpriced \cup reposted)
                   PROVE  refunds[o] <= paid[o]
      BY DEF RefundsWerePaid
    <2>2. PICK S \in SUBSET In(o) : S = Refunded(o)
      BY DEF Refunded
    <2>3. \A i \in S : Delivered(items[o][i])
      BY <2>2 DEF Refunded, In, Delivered, Ended
    <2>4. Cost(o, S) <= paid[o]
      BY <1>3, <2>1, <2>3, MoneyCovers
    <2>5. refunds[o] = Cost(o, S)
      BY <1>3, <2>1, <2>2 DEF Money, Accounts, RefundedOnce
    <2> QED
      BY <2>4, <2>5
  <1> QED
    BY <1>1, <1>2, <1>3, PTL DEF Spec

=============================================================================
