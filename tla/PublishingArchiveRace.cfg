CONSTANTS
    Requests = {r1, r2}
    Listings = {l1}
    Offers = {o1}
    Properties = {p1}
    Developments = {d1}
    Variants = {v1}
    Locations = {loc1}
    None = None
    Operations <- DependencyOperations
SPECIFICATION Spec
PROPERTY ArchiveRespectsDependants
