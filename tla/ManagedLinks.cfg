SPECIFICATION Spec
CONSTANTS
    None = None
    Identities = {i1, i2}
    Topologies = {t1, t2}
    LinkIds = {l1, l2}
    Callers = {c1, c2}
    MaxGenerations = 2
SYMMETRY Names
INVARIANTS LinksTypeOK LedgerOfThisConnection NeverAdoptsVisible
PROPERTIES RemovesOnlyClaimed ConfirmedIsOwned
