SPECIFICATION Spec
CONSTANTS
    Authorize = {a1}
    Start = {s1}
    Callback = {c1}
    Django = {}
    User = {u1}
    Ticket = {t1}
    Partner = {p1}
    Sub = {x1}
    Authn = {n1}
    Exchange = {e1}
    PkceIdps = {"google"}
    Client = {"app1", "app2"}
    RedirectUri = {"uri1", "uri2"}
    AllowedUri <- MCAllowedUri
    AllowedPurpose <- MCAllowedPurpose
    Asks <- PartnerAsks
    TicketUser <- OneUserTickets
    NoRow = NoRow
    NoUser = NoUser
    NoPartner = NoPartner
    NoTicket = NoTicket
    NoVerifier = NoVerifier
    NoAuthn = NoAuthn
    NoSession = NoSession
    Unissued = Unissued
    Spent = Spent
INVARIANT PartnerSessionStaysWithTenant
CHECK_DEADLOCK FALSE
