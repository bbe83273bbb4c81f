\* The system may rest: the only row there is has been deleted.
CHECK_DEADLOCK FALSE
CONSTANTS
    Catalogue = {c1, d1, l1}
    Locations = {c1}
    Developments = {d1}
    Listings = {l1}
    Logged = {m1}
    Inquiries = {i1}
    Values = {x, y}
    Archived = {y}
    MaxHistory = 2
    Media = {p1, p2, p3}
    Targets = {t1, t2}
    Workers = {w1, w2}
    None = None
SPECIFICATION MCSpec
SYMMETRY Symmetric
INVARIANT RevisionsAreNumbered  SerialSavesSucceed CoverIsShown
PROPERTY CoverIsReplaced
