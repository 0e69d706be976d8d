SPECIFICATION Spec
CONSTANTS
    p1 = p1
    p2 = p2
    top = top
    sub = sub
    Panels = {p1, p2}
    Paths = {top, sub}
    Links = {sub}
    Below <- MCBelow
    ParentOf <- MCParentOf
    Missing <- MCMissing
    Operations <- MCOperations
    TTL = 2
    MaxVersion = 1
    MaxBack = 1
INVARIANT TypeOK
INVARIANT OwnChangesShow
INVARIANT ServedIsYoung
SYMMETRY Symmetry
