CONSTANTS
    Admins = {a1}
    PhoneNumbers = phone
    Locations = {loc}
    AccessRequests = {q1, q2, q3}
    Grants = {g1, g2, g3}
    Durations = {1}
    MaxTime = 2
    Workers = {w1, w2}
    None = None
SPECIFICATION MCSpec
SYMMETRY Symmetric
INVARIANT TypeOK OneGrantPerRequest AccessWasApproved SerialOneLiveGrant
PROPERTY SerialRevocationEndsAccess ImplementsAccessRight
