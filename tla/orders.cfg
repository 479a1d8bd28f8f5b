SPECIFICATION Spec
CONSTANTS
    c1 = c1  c2 = c2
    r1 = r1
    None = None
    Courses = {c1, c2}
    Offers <- TwoOffers
    Price <- Prices
    Coded = {c2}
    Deletable = {c2}
    Requests = {r1}
    MaxOrders = 2
    MaxForms = 2
    MaxPaid = 3
CONSTRAINT Promised
CHECK_DEADLOCK FALSE
INVARIANTS PaymentsCoverPurchases VerifiedIsPaid RefundsWerePaid
