SPECIFICATION Spec
CONSTANTS
    Users = {u1, u2}
    Portfolios = {p1, p2, p3}
    Goals = {g1, g2}
    Requests = {r1, r2}
    MaxPortfolios = 1
    MaxGoals = 1
    NoRow = NoRow
    NoLink = NoLink
    NoRequest = NoRequest
SYMMETRY Symmetry
INVARIANTS WithinQuota LinksAreOwn
PROPERTIES ImplementsAtomicAccounts
