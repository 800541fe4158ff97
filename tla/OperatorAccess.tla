--------------------------- MODULE OperatorAccess ---------------------------
(***************************************************************************)
(* How an operator's system reads a community over the API: credentials    *)
(* that administrators create, rotate and revoke, the hourly limit of a    *)
(* client, and lists read page by page (operator_api.py,                   *)
(* store/operator_api.py, store/operator_operations.py).                   *)
(*                                                                         *)
(* A call authenticates, claims its use and reads in three transactions.   *)
(* Between the pages, rows are inserted by transactions that draw their id *)
(* when they begin and show it when they commit, and change their status.  *)
(* What the calls that write do is in the modules of what they write.      *)
(***************************************************************************)
EXTENDS Naturals, FiniteSets, FiniteSetsExt

CONSTANTS
    Credentials,    \* operator_api_clients.id
    Readers,        \* programs of the operator, each reading one list
    RateLimit,      \* rate_limit_per_hour
    MaxTokens,      \* bound: tokens given out
    MaxItems,       \* bound: rows
    PageSizes,      \* the limits asked for
    MaxHour,        \* bound of the clock
    Unlimited       \* no status asked for

ASSUME AccessAssumption ==
    /\ {RateLimit, MaxTokens, MaxItems, MaxHour} \subseteq Nat
    /\ PageSizes \subseteq 1 .. 100

VARIABLES
    client,         \* per credential: its current token, and whether it is active
    tokens,         \* tokens given out so far
    usage,          \* operator_api_usage: client, hour, and which call it was
    items,          \* the rows of a list, by id: status, and whether committed
    reader,         \* per program: its token, what it asks for and how far it is
    clockHour

accessVars == <<client, tokens, usage, items, reader, clockHour>>

-----------------------------------------------------------------------------

NoReading == [at |-> "resting"]

\* A row of a list.
Item == [status : {"open", "closed"}, shown : BOOLEAN]

\* A program on its way through a list.
ListReading == [at : {"asking", "known", "claimed", "ended"}, token : 0 .. MaxTokens, of : Credentials,
                filter : {"open", Unlimited}, size : PageSizes, cursor : 0 .. MaxItems,
                seen : SUBSET (1 .. MaxItems), awaited : SUBSET (1 .. MaxItems)]

AccessTypeOK ==
    /\ client \in [Credentials -> [token : 0 .. MaxTokens, active : BOOLEAN]]
    /\ tokens \in 0 .. MaxTokens
    /\ usage \subseteq [of : Credentials, hour : 0 .. MaxHour, token : 0 .. MaxTokens, number : Nat]
    /\ \E n \in 0 .. MaxItems : items \in [1 .. n -> Item]
    /\ reader \in [Readers -> ListReading \cup {NoReading}]
    /\ clockHour \in 0 .. MaxHour

AccessInit ==
    /\ client = [c \in Credentials |-> [token |-> 0, active |-> FALSE]]
    /\ tokens = 0 /\ usage = {} /\ items = << >>
    /\ reader = [r \in Readers |-> NoReading]
    /\ clockHour = 0

-----------------------------------------------------------------------------

\* create_credential, for a confirmed administrator: a client of its own
create_credential(c) ==
    /\ client[c].token = 0 /\ tokens < MaxTokens
    /\ tokens' = tokens + 1
    /\ client' = [client EXCEPT ![c] = [token |-> tokens + 1, active |-> TRUE]]
    /\ UNCHANGED <<usage, items, reader, clockHour>>

\* rotate_credential gives a revoked client back as well.
rotate_credential(c) ==
    /\ client[c].token # 0 /\ tokens < MaxTokens
    /\ tokens' = tokens + 1
    /\ client' = [client EXCEPT ![c] = [token |-> tokens + 1, active |-> TRUE]]
    /\ UNCHANGED <<usage, items, reader, clockHour>>

revoke_credential(c) ==
    /\ client[c].token # 0
    /\ client' = [client EXCEPT ![c].active = FALSE]
    /\ UNCHANGED <<tokens, usage, items, reader, clockHour>>

\* An hour later no earlier use counts.
HourPasses ==
    /\ clockHour < MaxHour
    /\ clockHour' = clockHour + 1
    /\ UNCHANGED <<client, tokens, usage, items, reader>>

-----------------------------------------------------------------------------

DrawId ==
    /\ Cardinality(DOMAIN items) < MaxItems
    /\ items' = [i \in 1 .. Cardinality(DOMAIN items) + 1 |->
                    IF i \in DOMAIN items THEN items[i] ELSE [status |-> "open", shown |-> FALSE]]
    /\ UNCHANGED <<client, tokens, usage, reader, clockHour>>

CommitItem(i) ==
    /\ ~items[i].shown
    /\ items' = [items EXCEPT ![i].shown = TRUE]
    /\ UNCHANGED <<client, tokens, usage, reader, clockHour>>

Matching(filter) == {i \in DOMAIN items : items[i].shown /\ filter \in {items[i].status, Unlimited}}

\* A reader that asked for the old status need not see the row any more.
CloseItem(i) ==
    /\ items[i].shown /\ items[i].status = "open"
    /\ items' = [items EXCEPT ![i].status = "closed"]
    /\ reader' = [r \in Readers |->
           IF reader[r] # NoReading /\ reader[r].filter = "open"
           THEN [reader[r] EXCEPT !.awaited = @ \ {i}] ELSE reader[r]]
    /\ UNCHANGED <<client, tokens, usage, clockHour>>

-----------------------------------------------------------------------------

\* awaited: what is there from the first page to the last
BeginReading(r, c, filter, size) ==
    /\ reader[r] = NoReading /\ client[c].token # 0
    /\ reader' = [reader EXCEPT ![r] =
           [at |-> "asking", token |-> client[c].token, of |-> c, filter |-> filter, size |-> size,
            cursor |-> 0, seen |-> {}, awaited |-> Matching(filter)]]
    /\ UNCHANGED <<client, tokens, usage, items, clockHour>>

\* require_operator up to the lookup; a credential that is not known any more
\* is answered 401, and the program gives up.
Authenticate(r) ==
    /\ reader[r].at = "asking"
    /\ reader' = [reader EXCEPT ![r] =
           IF client[reader[r].of] = [token |-> reader[r].token, active |-> TRUE]
           THEN [reader[r] EXCEPT !.at = "known"] ELSE NoReading]
    /\ UNCHANGED <<client, tokens, usage, items, clockHour>>

UsedThisHour(r) == {u \in usage : u.of = reader[r].of /\ u.hour = clockHour}

\* Under an advisory lock of the client; above the limit the program is told to
\* come again.
claim_usage(r) ==
    /\ reader[r].at = "known"
    /\ IF Cardinality(UsedThisHour(r)) >= RateLimit
       THEN reader' = [reader EXCEPT ![r].at = "asking"] /\ UNCHANGED usage
       ELSE /\ usage' = usage \cup {[of |-> reader[r].of, hour |-> clockHour, token |-> reader[r].token,
                                     number |-> Cardinality(UsedThisHour(r))]}
            /\ reader' = [reader EXCEPT ![r].at = "claimed"]
    /\ UNCHANGED <<client, tokens, items, clockHour>>

\* The next rows by id, one more than the page to know whether it is the last.
Found(r) == {i \in Matching(reader[r].filter) : i > reader[r].cursor}

FirstOf(S, n) == {i \in S : Cardinality({j \in S : j < i}) < n}

Cursor(found, size) == Max(FirstOf(found, size))

_page(r) == LET size == reader[r].size found == Found(r) IN
    /\ reader[r].at = "claimed"
    /\ reader' = [reader EXCEPT
           ![r].seen = @ \cup FirstOf(found, size),
           ![r].at = IF Cardinality(found) > size THEN "asking" ELSE "ended",
           ![r].cursor = IF Cardinality(found) > size THEN Cursor(found, size) ELSE 0]
    /\ UNCHANGED <<client, tokens, usage, items, clockHour>>

EndReading(r) ==
    /\ reader[r].at \in {"asking", "ended"}
    /\ reader' = [reader EXCEPT ![r] = NoReading]
    /\ UNCHANGED <<client, tokens, usage, items, clockHour>>

AccessNext ==
    \/ \E c \in Credentials : create_credential(c) \/ rotate_credential(c) \/ revoke_credential(c)
    \/ HourPasses \/ DrawId
    \/ \E i \in DOMAIN items : CommitItem(i) \/ CloseItem(i)
    \/ \E r \in Readers :
          \/ \E c \in Credentials, f \in {"open", Unlimited}, n \in PageSizes : BeginReading(r, c, f, n)
          \/ Authenticate(r) \/ claim_usage(r) \/ _page(r) \/ EndReading(r)

AccessSpec == AccessInit /\ [][AccessNext]_accessVars

-----------------------------------------------------------------------------

\* A program that has followed the cursors to the end has seen every row that
\* was there and matched all the while, whatever was inserted or closed between
\* the pages (store/operator_operations.py _page).
ReadingIsComplete == \A r \in Readers : reader[r].at = "ended" => reader[r].awaited \subseteq reader[r].seen

\* A client is served no more than its limit in an hour, however many programs
\* call at once and whichever of its tokens they hold (store/operator_api.py
\* claim_usage).
RateIsKept ==
    \A c \in Credentials, h \in 0 .. clockHour :
        Cardinality({u \in usage : u.of = c /\ u.hour = h}) <= RateLimit

\* Calls are limited, and lists are read in whole.
CallsAreServed == ReadingIsComplete /\ RateIsKept
=============================================================================
