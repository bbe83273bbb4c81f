CONSTANTS
    Addresses = {a1}
    Contents = {c1}
    Inquiries = {i1, i2}
    Requests = {r1}
    None = None
    RateLimit = 2
SPECIFICATION Spec
PROPERTY NoThanksForOrphans
