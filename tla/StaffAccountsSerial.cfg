CONSTANTS
    Staff = {u1, u2}
    Sessions = {s1, s2}
    Requests = {r1, r2}
    None = None
    MaxVersion = 4
SYMMETRY Symmetric
CONSTRAINT OneRaced
SPECIFICATION MCSpec
INVARIANT TypeOK FlagsAgree GroupUnlessRacing RightsUnlessRacing
PROPERTY SessionsEndUnlessRacing NoRevivalUnlessRacing
