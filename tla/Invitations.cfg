\* The system may rest: every address has its account and no link is open.
CHECK_DEADLOCK FALSE
CONSTANTS
    Emails = {e1, e2}
    Tokens = {t1, t2, t3}
    Requests = {r1, r2}
    None = None
SPECIFICATION MCSpec
INVARIANT TypeOK OneAccountPerAcceptance SerialAcceptedIsNeverRevoked SerialOneWayIn
PROPERTY RevokedIsNeverAccepted RequestsEnd
