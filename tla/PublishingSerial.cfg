CONSTANTS
    Requests = {r1}
    Listings = {l1}
    Offers = {o1}
    Properties = {p1}
    Developments = {d1}
    Variants = {v1}
    Locations = {loc1}
    None = None
    Operations <- AllOperations
SPECIFICATION Spec
INVARIANT TypeOK PublicPagesAgree
PROPERTY PublishOnlyExplicitly RestoredAsDraft ArchiveRespectsDependants
