CONSTANTS
    Heads = {h1, h2}
    Nodes = {n1, n2, n3}
    Owned = {n1, n2}
    DiesAt <- NotAtInsertEnd
    OwnedDiesAt <- InRemoval
    MaxCrashes = 3
    NoSrq = NoSrq
SYMMETRY Interchangeable
SPECIFICATION Spec
INVARIANTS WellLinked
PROPERTIES QueuesAtomic
