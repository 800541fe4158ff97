--------------------------- MODULE UtilityPortal ---------------------------
(***************************************************************************)
(* The accounts of grid operators in the portal: registration, login by a  *)
(* mailed link, and the key of the API (utility_portal.py,                 *)
(* store/utility.py).  A request is a chain of short transactions; the     *)
(* requests of several browsers interleave, and any of them may end early. *)
(***************************************************************************)
EXTENDS Naturals, FiniteSets

CONSTANTS
    Clients,        \* utility_clients.client_id
    Inboxes,        \* contact_email
    Browsers,
    MaxTokens,      \* bound: links given out
    MaxApiKeys,     \* bound: keys given out
    NoClient

ASSUME UtilityAssumption == NoClient \notin Clients /\ {MaxTokens, MaxApiKeys} \subseteq Nat

VARIABLES
    client,         \* utility_clients; NoClient: no row.  link 0: NULL, or expired
    links,          \* links given out so far
    keys,           \* keys given out so far
    inbox,          \* mails with a link
    visit,          \* the request of each browser, and the client of its session
    logins          \* which link opened a session, in which browser

utilityVars == <<client, links, keys, inbox, visit, logins>>

-----------------------------------------------------------------------------

NoRequest == [at |-> "resting"]

\* A row of utility_clients.
Account == [mailbox : Inboxes, status : {"pending", "active"}, link : 0 .. MaxTokens, key : 0 .. MaxApiKeys]

ASSUME NoClientAssumption == NoClient \notin Account

\* What a browser's request knows at each of its transactions.
PortalRequests ==
    {NoRequest, [at |-> "entering"]}
    \cup [at : {"checked"}, mailbox : Inboxes]
    \cup [at : {"linking"}, client : Clients]
    \cup [at : {"mailing"}, client : Clients, link : 1 .. MaxTokens]

UtilityTypeOK ==
    /\ client \in [Clients -> Account \cup {NoClient}]
    /\ visit \in [Browsers -> [of : Clients \cup {NoClient}, request : PortalRequests]]
    /\ links \in 0 .. MaxTokens /\ keys \in 0 .. MaxApiKeys
    /\ inbox \subseteq [link : 1 .. MaxTokens, of : Clients, mailbox : Inboxes]
    /\ logins \subseteq [link : 1 .. MaxTokens, of : Clients, browser : Browsers, newest : BOOLEAN]

UtilityInit ==
    /\ client = [c \in Clients |-> NoClient] /\ links = 0 /\ keys = 0 /\ inbox = {} /\ logins = {}
    /\ visit = [b \in Browsers |-> [of |-> NoClient, request |-> NoRequest]]

Continue(b, request) == visit' = [visit EXCEPT ![b].request = request]

VisitAt(b, at) == visit[b].request.at = at

-----------------------------------------------------------------------------

get_utility_client_by_email(m) == {c \in Clients : client[c] # NoClient /\ client[c].mailbox = m}

\* An address that is known already is asked to log in.
register(b, m) ==
    /\ VisitAt(b, "resting") /\ get_utility_client_by_email(m) = {}
    /\ Continue(b, [at |-> "checked", mailbox |-> m])
    /\ UNCHANGED <<client, links, keys, inbox, logins>>

\* Under a new client_id: two requests with one address both succeed.
save_utility_client(b, c) ==
    /\ VisitAt(b, "checked") /\ client[c] = NoClient
    /\ client' = [client EXCEPT ![c] =
           [mailbox |-> visit[b].request.mailbox, status |-> "pending", link |-> 0, key |-> 0]]
    /\ Continue(b, [at |-> "linking", client |-> c])
    /\ UNCHANGED <<links, keys, inbox, logins>>

login_submit(b, m) ==
    /\ VisitAt(b, "resting")
    /\ \E c \in get_utility_client_by_email(m) : Continue(b, [at |-> "linking", client |-> c])
    /\ UNCHANGED <<client, links, keys, inbox, logins>>

\* The link takes the place of the one before.
set_utility_magic_token(b) ==
    /\ VisitAt(b, "linking") /\ links < MaxTokens
    /\ links' = links + 1
    /\ client' = [client EXCEPT ![visit[b].request.client].link = links + 1]
    /\ Continue(b, [at |-> "mailing", client |-> visit[b].request.client, link |-> links + 1])
    /\ UNCHANGED <<keys, inbox, logins>>

_send_magic_link(b) == LET c == visit[b].request.client IN
    /\ VisitAt(b, "mailing")
    /\ inbox' = inbox \cup {[link |-> visit[b].request.link, of |-> c, mailbox |-> client[c].mailbox]}
    /\ Continue(b, NoRequest)
    /\ UNCHANGED <<client, links, keys, logins>>

LinkExpires(c) ==
    /\ client[c] # NoClient /\ client[c].link # 0
    /\ client' = [client EXCEPT ![c].link = 0]
    /\ UNCHANGED <<links, keys, inbox, visit, logins>>

-----------------------------------------------------------------------------

\* login_page with a token: one statement consumes it and opens the session.
consume_utility_magic_token(b, c) == LET link == client[c].link IN
    /\ VisitAt(b, "resting") /\ client[c] # NoClient
    /\ \E m \in inbox : m.link = link /\ m.of = c
    /\ client' = [client EXCEPT ![c].link = 0]
    /\ logins' = logins \cup {[link |-> link, of |-> c, browser |-> b,
                               newest |-> \A m \in inbox : m.of = c => m.link <= link]}
    /\ visit' = [visit EXCEPT ![b] =
           [of |-> c, request |-> IF client[c].status = "pending" THEN [at |-> "entering"] ELSE NoRequest]]
    /\ UNCHANGED <<links, keys, inbox>>

update_utility_client_status(b) ==
    /\ VisitAt(b, "entering")
    /\ client' = [client EXCEPT ![visit[b].of].status = "active"]
    /\ Continue(b, NoRequest)
    /\ UNCHANGED <<links, keys, inbox, logins>>

logout(b) ==
    /\ VisitAt(b, "resting") /\ visit[b].of # NoClient
    /\ visit' = [visit EXCEPT ![b].of = NoClient]
    /\ UNCHANGED <<client, links, keys, inbox, logins>>

generate_api_key(b) ==
    /\ VisitAt(b, "resting") /\ visit[b].of # NoClient /\ keys < MaxApiKeys
    /\ keys' = keys + 1
    /\ client' = [client EXCEPT ![visit[b].of].key = keys + 1]
    /\ UNCHANGED <<links, inbox, visit, logins>>

revoke_api_key(b) ==
    /\ VisitAt(b, "resting") /\ visit[b].of # NoClient
    /\ client' = [client EXCEPT ![visit[b].of].key = 0]
    /\ UNCHANGED <<links, keys, inbox, visit, logins>>

\* The process dies; the session, if there is one by then, stays.
RequestDies(b) ==
    /\ ~VisitAt(b, "resting")
    /\ Continue(b, NoRequest)
    /\ UNCHANGED <<client, links, keys, inbox, logins>>

UtilityNext ==
    \/ \E c \in Clients : LinkExpires(c)
    \/ \E b \in Browsers :
          \/ \E m \in Inboxes : register(b, m) \/ login_submit(b, m)
          \/ \E c \in Clients : save_utility_client(b, c) \/ consume_utility_magic_token(b, c)
          \/ set_utility_magic_token(b) \/ _send_magic_link(b) \/ update_utility_client_status(b)
          \/ logout(b) \/ generate_api_key(b) \/ revoke_api_key(b) \/ RequestDies(b)

UtilitySpec == UtilityInit /\ [][UtilityNext]_utilityVars

-----------------------------------------------------------------------------

\* A link opens one session, whichever browsers follow it how often: that of the
\* account it was mailed for, and no link does that a later one has replaced
\* (store/utility.py consume_utility_magic_token).
LinkSignsInOnce ==
    \A l \in logins :
        /\ l.newest /\ \E m \in inbox : m.link = l.link /\ m.of = l.of
        /\ \A k \in logins : k.link = l.link => k = l

\* Who has a session followed a link of that account, and an account is active, or
\* has a key, only after somebody did (utility_portal.py login_page).
AccountsAreEntered ==
    /\ \A b \in Browsers : visit[b].of # NoClient => \E l \in logins : l.of = visit[b].of /\ l.browser = b
    /\ \A c \in Clients : client[c] # NoClient /\ (client[c].status = "active" \/ client[c].key # 0)
                             => \E l \in logins : l.of = c

\* A link opens one session, and an account is entered by its links only.
PortalHolds == LinkSignsInOnce /\ AccountsAreEntered
=============================================================================
