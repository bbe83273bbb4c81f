CONSTANTS
    Listings = {l1}
    Offers = {o1, o2}
    Amounts = {5, 7}
    Pesos = {2, 4}
    Bedrooms = {2}
    Facts <- SomeFacts
    None = None
    Pages = {a1, a2}
    ResourcesPage = resources
    Categories = {k1, k2}
SPECIFICATION MCSpec
SYMMETRY Symmetric
INVARIANT ResultsMatchCards GuidedFormIsSaved ListsAgreeWithPages
