------------------------------ MODULE MCKisAuth ------------------------------
(***************************************************************************)
(* Values for the constants of KisAuth, shared by its runs.  Two clients   *)
(* register one redirect_uri each; app2 may not use "link".                *)
(***************************************************************************)
EXTENDS KisAuth, TLC

MCAllowedUri == {<<"app1", "uri1">>, <<"app2", "uri2">>}

MCAllowedPurpose == {<<"app1", "link">>, <<"app1", "recovery">>,
                     <<"app1", "registration">>,
                     <<"app2", "recovery">>, <<"app2", "registration">>}

AskFor(client, uri, purpose, ticket, partner) ==
    [client |-> client, uri |-> uri, purpose |-> purpose, ticket |-> ticket,
     partner |-> partner]

\* Two apps ask for a recovery by Google; one query has the other app's
\* redirect_uri and is turned away.
RecoveryAsks ==
    {AskFor("app1", "uri1", "recovery", NoTicket, NoPartner),
     AskFor("app2", "uri2", "recovery", NoTicket, NoPartner),
     AskFor("app1", "uri2", "recovery", NoTicket, NoPartner)}

\* Every link ticket, by Google.
LinkAsks == {AskFor("app1", "uri1", "link", t, NoPartner) : t \in Ticket}

\* Registration by Google.
RegistrationAsks == {AskFor("app1", "uri1", "registration", NoTicket, NoPartner)}

\* Sign-in, linking and registration at every partner's IdP.
PartnerAsks ==
    UNION {{AskFor("app1", "uri1", "recovery", NoTicket, p),
            AskFor("app1", "uri1", "registration", NoTicket, p)}
           \cup {AskFor("app1", "uri1", "link", t, p) : t \in Ticket} : p \in Partner}

\* All tickets are minted for one user.
OneUserTickets == [t \in Ticket |-> CHOOSE u \in User : TRUE]

Symmetry == Permutations(Authorize) \cup Permutations(Start)
            \cup Permutations(Callback) \cup Permutations(Authn)
            \cup Permutations(Exchange)
=============================================================================
