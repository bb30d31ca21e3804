SPECIFICATION Spec
CONSTANTS
    Authorize = {a1, a2}
    Start = {s1, s2}
    Callback = {c1, c2}
    Django = {}
    User = {u1}
    Ticket = {}
    Partner = {}
    Sub = {x1}
    Authn = {n1, n2}
    Exchange = {e1, e2}
    PkceIdps = {}
    Client = {"app1", "app2"}
    RedirectUri = {"uri1", "uri2"}
    AllowedUri <- MCAllowedUri
    AllowedPurpose <- MCAllowedPurpose
    Asks <- RecoveryAsks
    TicketUser <- OneUserTickets
    NoRow = NoRow
    NoUser = NoUser
    NoPartner = NoPartner
    NoTicket = NoTicket
    NoVerifier = NoVerifier
    NoAuthn = NoAuthn
    NoSession = NoSession
    Unissued = Unissued
    Spent = Spent
SYMMETRY Symmetry
INVARIANTS
    TypeOK
    TokenProvenance
    OneTokenPerAuthentication

CHECK_DEADLOCK FALSE
