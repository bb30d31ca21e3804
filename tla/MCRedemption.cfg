SPECIFICATION Spec
CONSTANTS
    Key = {k1}
    User = {u1, u2}
    NoRow = NoRow
    Grant = {g1, g2}
    Exchange = {e1, e2, e3}
    Client = {c1}
    RedirectUri = {r1, r2}
    Purpose = {recovery}
    Slug = {NoSlug}
    Unissued = Unissued
    Spent = Spent
INVARIANTS
    TypeOK
    OneTokenPerGrant
    InactiveMeansRevoked
    TokensNameOwners
PROPERTIES
    ImplementsSingleUse
    RevokedCodeIsDead
CHECK_DEADLOCK FALSE
