CONSTANTS
    Pages = {a1, a2}
    ResourcesPage = resources
    Categories = {k1}
    None = None
SPECIFICATION Spec
INVARIANT ArchivedIsHidden
