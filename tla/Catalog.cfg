CONSTANTS
    Ids = {a1, a2}
    Labels = {l1, l2}
    Contacts = {c1, c2}
    Requests = {r1, r2}
    Null = Null
SPECIFICATION CatalogSpec
SYMMETRY Symmetry
INVARIANTS OneDefault PatchesSurvive
PROPERTIES DefaultNotLost
