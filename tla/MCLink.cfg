SPECIFICATION Spec
CONSTANTS
    Authorize = {a1, a2}
    Start = {s1, s2}
    Callback = {c1, c2}
    Django = {}
    User = {u1, u2}
    Ticket = {t1}
    Partner = {}
    Sub = {x1, x2}
    Authn = {n1, n2}
    Exchange = {e1}
    PkceIdps = {"google"}
    Client = {"app1"}
    RedirectUri = {"uri1"}
    AllowedUri <- MCAllowedUri
    AllowedPurpose <- MCAllowedPurpose
    Asks <- LinkAsks
    TicketUser <- OneUserTickets
    NoRow = NoRow
    NoUser = NoUser
    NoPartner = NoPartner
    NoTicket = NoTicket
    NoVerifier = NoVerifier
    NoAuthn = NoAuthn
    NoSession = NoSession
    Unissued = Unissued
    Spent = Spent
SYMMETRY Symmetry
INVARIANTS
    TicketLinksOneIdentity
    EventsAreTrue
    SpentVerifier
PROPERTY ImplementsRedemption
CHECK_DEADLOCK FALSE
