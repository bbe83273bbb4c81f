CONSTANTS
    Addresses = {a1}
    Contents = {c1}
    Inquiries = {i1, i2, i3}
    Requests = {r1, r2}
    None = None
    RateLimit = 2
SYMMETRY Symmetric
SPECIFICATION Spec
INVARIANT TypeOK AlertsAreSentOnce OutcomeIsTrue CopiesAreBounded LimitIsBounded NothingIsForgotten
