SPECIFICATION Spec
CONSTANTS
    Authorize = {a1}
    Start = {s1}
    Callback = {c1, c2}
    Django = {d1}
    User = {u1, u2}
    Ticket = {t1}
    Partner = {p1, p2}
    Sub = {x1}
    Authn = {n1, n2}
    Exchange = {e1}
    PkceIdps = {}
    Client = {"app1"}
    RedirectUri = {"uri1"}
    AllowedUri <- MCAllowedUri
    AllowedPurpose <- MCAllowedPurpose
    Asks <- PartnerAsks
    TicketUser <- OneUserTickets
    NoRow = NoRow
    NoUser = NoUser
    NoPartner = NoPartner
    NoTicket = NoTicket
    NoVerifier = NoVerifier
    NoAuthn = NoAuthn
    NoSession = NoSession
    Unissued = Unissued
    Spent = Spent
SYMMETRY Symmetry
INVARIANTS
    TenantIsolation
    TokenProvenance
    EventsAreTrue
    GrantsAreReported
PROPERTY LinksAreApproved
CHECK_DEADLOCK FALSE
