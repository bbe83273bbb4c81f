CONSTANTS
    Staff = {u1}
    Sessions = {s1}
    Requests = {r1, r2}
    None = None
    MaxVersion = 4
SPECIFICATION MCSpec
PROPERTY ChangeEndsSessions
