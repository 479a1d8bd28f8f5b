SPECIFICATION Spec
CONSTANTS
    c1 = c1  c2 = c2
    r1 = r1  r2 = r2
    None = None
    Courses = {c1, c2}
    Offers <- TwoOffers
    Price <- Prices
    Coded = {c2}
    Deletable = {c2}
    Requests = {r1, r2}
    MaxOrders = 1
    MaxForms = 2
    MaxPaid = 3
CHECK_DEADLOCK FALSE
PROPERTIES PayingIsFrozen
