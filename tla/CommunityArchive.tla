-------------------------- MODULE CommunityArchive --------------------------
(***************************************************************************)
(* The archive of one community (community_archive.py, docs/               *)
(* community-archive.md): exported as a snapshot, checked, and restored    *)
(* with its own ids beside sessions that go on writing for every community *)
(* of the destination.                                                     *)
(*                                                                         *)
(* Two of the serial tables stand for all of them: an event belongs to an  *)
(* invoice.  A session locks the sequence of a table from its first       *)
(* nextval to its end; a restore needs the sequences for itself.  What a   *)
(* restore inserts is seen by nobody before it commits.  Records that      *)
(* change without a new event, and readings in batches, are left out.      *)
(***************************************************************************)
EXTENDS Naturals, Sequences, FiniteSets, FiniteSetsExt

CONSTANTS
    Communities, Ours,  \* Ours is the one archived
    Sessions,           \* requests that write records
    Restorers,          \* requests that restore an archive
    MaxId,              \* bound: ids of a serial table
    NoArchive, Nobody, Nothing

ASSUME ArchiveAssumption ==
    /\ Ours \in Communities /\ MaxId \in Nat
    /\ Sessions \cap Restorers = {} /\ Nobody \notin Sessions \cup Restorers

VARIABLES
    tables,     \* committed rows
    position,   \* next value of each sequence
    users,      \* sessions that drew from a sequence and go on
    owner,      \* the restore that holds a sequence
    archive,    \* the file on the administrator's disk
    moved,      \* the destination is a new installation
    writes,     \* per session: what it is writing
    restoring         \* per restorer: its transaction

archiveVars == <<tables, position, users, owner, archive, moved, writes, restoring>>

\* In the order of restoring; "communities" has no sequence.
Tables == <<"communities", "invoices", "invoice_lifecycle_events">>
TableNames == {"communities", "invoices", "invoice_lifecycle_events"}
Serial == {"invoices", "invoice_lifecycle_events"}

\* The order the sequences are locked in: by the name of the table.
LockOrder == <<"invoice_lifecycle_events", "invoices">>

\* A row belongs to a community; an event has its invoice as parent.
Records == [id : Communities \cup (1 .. MaxId), of : Communities,
            parent : 0 .. MaxId, body : {"-", "issued", "paid"}]

Writing == [of : Communities, invoice : 1 .. MaxId, event : 0 .. MaxId, new : BOOLEAN]

NoRows == [t \in TableNames |-> {}]
Resting == [at |-> 0, of |-> NoArchive, new |-> NoRows]

ArchiveTypeOK ==
    /\ \A t \in TableNames : tables[t] \subseteq Records
    /\ \A s \in Serial : users[s] \subseteq Sessions /\ owner[s] \in Restorers \cup {Nobody}
    /\ \A s \in Serial : owner[s] # Nobody => users[s] = {}
    /\ \A w \in Sessions : writes[w] \in Writing \cup {Nothing}

CommunityRow(c) == [id |-> c, of |-> c, parent |-> 0, body |-> "-"]

ArchiveInit ==
    /\ tables = [NoRows EXCEPT !["communities"] = {CommunityRow(c) : c \in Communities}]
    /\ position = [s \in Serial |-> 1]
    /\ users = [s \in Serial |-> {}] /\ owner = [s \in Serial |-> Nobody]
    /\ archive = NoArchive /\ moved = FALSE
    /\ writes = [w \in Sessions |-> Nothing]
    /\ restoring = [r \in Restorers |-> Resting]

Ids(rows) == {row.id : row \in rows}
Known(c) == c \in Ids(tables["communities"])

-----------------------------------------------------------------------------
(* Sessions that write: an invoice with its first event, or the next event *)
(* of an invoice.                                                          *)

\* nextval, which waits for a restore that holds the sequence.
Draws(w, s) ==
    /\ owner[s] = Nobody /\ position[s] <= MaxId
    /\ position' = [position EXCEPT ![s] = @ + 1]
    /\ users' = [users EXCEPT ![s] = @ \cup {w}]

insert_invoice(w, c) ==
    /\ writes[w] = Nothing /\ Known(c)
    /\ Draws(w, "invoices")
    /\ writes' = [writes EXCEPT ![w] =
           [of |-> c, invoice |-> position["invoices"], event |-> 0, new |-> TRUE]]
    /\ UNCHANGED <<tables, owner, archive, moved, restoring>>

pay(w, row) ==
    /\ writes[w] = Nothing /\ row.body = "issued"
    /\ writes' = [writes EXCEPT ![w] =
           [of |-> row.of, invoice |-> row.id, event |-> 0, new |-> FALSE]]
    /\ UNCHANGED <<tables, position, users, owner, archive, moved, restoring>>

insert_event(w) ==
    /\ writes[w] # Nothing /\ writes[w].event = 0
    /\ Draws(w, "invoice_lifecycle_events")
    /\ writes' = [writes EXCEPT ![w].event = position["invoice_lifecycle_events"]]
    /\ UNCHANGED <<tables, owner, archive, moved, restoring>>

Ends(w) ==
    /\ writes' = [writes EXCEPT ![w] = Nothing]
    /\ users' = [s \in Serial |-> users[s] \ {w}]
    /\ UNCHANGED <<position, owner, archive, moved, restoring>>

\* The ids of a session's new rows are taken: a unique violation rolls it back.
Taken(w) ==
    \/ writes[w].new /\ writes[w].invoice \in Ids(tables["invoices"])
    \/ writes[w].event \in Ids(tables["invoice_lifecycle_events"])

CommitSession(w) ==
    /\ writes[w] # Nothing /\ writes[w].event # 0 /\ ~Taken(w)
    /\ LET x == writes[w]
           invoice == [id |-> x.invoice, of |-> x.of, parent |-> 0,
                       body |-> IF x.new THEN "issued" ELSE "paid"]
           event == [id |-> x.event, of |-> x.of, parent |-> x.invoice, body |-> "-"]
       IN  tables' = [tables EXCEPT
               !["invoices"] = {row \in @ : row.id # x.invoice} \cup {invoice},
               !["invoice_lifecycle_events"] = @ \cup {event}]
    /\ Ends(w)

RollBackSession(w) == writes[w] # Nothing /\ Ends(w) /\ UNCHANGED tables

-----------------------------------------------------------------------------
(* Export and check.                                                       *)

Owned(c) == [t \in TableNames |-> {row \in tables[t] : row.of = c}]

\* An event of another archive's invoice, or of none.
Orphans(data) ==
    {row \in data["invoice_lifecycle_events"] : row.parent \notin Ids(data["invoices"])}

\* One snapshot of the community's rows, refused when they do not hang together.
export_community_archive ==
    /\ archive = NoArchive /\ Known(Ours) /\ Orphans(Owned(Ours)) = {}
    /\ archive' = [version |-> 3, of |-> Ours, data |-> Owned(Ours), hashes |-> Owned(Ours)]
    /\ UNCHANGED <<tables, position, users, owner, moved, writes, restoring>>

\* Ways a file may differ from what was exported: a part cut off, with or without
\* its hash made to fit, a later version, rows of somebody else.
Damaged(a) ==
    LET Cut == [a EXCEPT !.data["invoices"] = {}] IN
    {Cut, [Cut EXCEPT !.hashes["invoices"] = {}], [a EXCEPT !.version = 4]}
    \cup {[a EXCEPT !.of = c] : c \in Communities}

Damage ==
    /\ archive # NoArchive
    /\ archive' \in Damaged(archive) /\ archive' # archive
    /\ UNCHANGED <<tables, position, users, owner, moved, writes, restoring>>

\* The community moves to an installation that knows only the others.
Move ==
    /\ ~moved /\ archive # NoArchive
    /\ \A w \in Sessions : writes[w] = Nothing
    /\ \A r \in Restorers : restoring[r] = Resting
    /\ moved' = TRUE
    /\ tables' = [NoRows EXCEPT !["communities"] = {CommunityRow(c) : c \in Communities \ {Ours}}]
    /\ position' = [s \in Serial |-> 1]
    /\ UNCHANGED <<users, owner, archive, writes, restoring>>

Valid(a) ==
    /\ a.version \in 1 .. 3
    /\ \A t \in TableNames : a.hashes[t] = a.data[t]
    /\ \E row \in a.data["communities"] : a.data["communities"] = {row} /\ row.id = a.of
    /\ \A t \in TableNames : \A row \in a.data[t] : row.of = a.of
    /\ Orphans(a.data) = {}

\* Rows of the archive whose id is used here for something else.
_same_record_unseen(existing, row) == existing.id = row.id

_same_record(existing, row) == existing = row

Clashes(t, rows) ==
    \E row \in rows, existing \in tables[t] :
        existing.id = row.id /\ ~_same_record(existing, row)

find_conflicts(a) == {t \in TableNames : Clashes(t, a.data[t])}

\* What is found wrong, or in the way, ends the request.
restore_community_archive(r) ==
    /\ restoring[r] = Resting /\ archive # NoArchive
    /\ Valid(archive) /\ find_conflicts(archive) = {}
    /\ restoring' = [restoring EXCEPT ![r] = [Resting EXCEPT !.at = 1, !.of = archive]]
    /\ UNCHANGED <<tables, position, users, owner, archive, moved, writes>>

-----------------------------------------------------------------------------
(* The restoring transaction locks the sequences it needs, in their order, *)
(* and then fills the tables; at is the next table to fill.                *)

Needed(r) == {s \in Serial : restoring[r].of.data[s] # {}}

Locked(r) == {s \in Serial : owner[s] = r}
Fills(r) == restoring[r].at > 0 /\ Needed(r) \subseteq Locked(r)

lock_sequence(r) ==
    /\ restoring[r].at > 0
    /\ \E n \in DOMAIN LockOrder :
          LET s == LockOrder[n] IN
          /\ s \in Needed(r) \ Locked(r) /\ users[s] = {} /\ owner[s] = Nobody
          /\ \A m \in 1 .. n - 1 : LockOrder[m] \notin Needed(r) \ Locked(r)
          /\ owner' = [owner EXCEPT ![s] = r]
    /\ UNCHANGED <<tables, position, users, archive, moved, writes, restoring>>

Released(r) == [s \in Serial |-> IF owner[s] = r THEN Nobody ELSE owner[s]]

RollBack(r) ==
    /\ restoring[r] # Resting
    /\ restoring' = [restoring EXCEPT ![r] = Resting]
    /\ owner' = Released(r)
    /\ UNCHANGED <<tables, position, users, archive, moved, writes>>

\* ON CONFLICT DO NOTHING, then a look at what was there: an identical row stays,
\* any other ends the restore.  A row another restore has yet to commit is waited for.
restore_rows(r) ==
    /\ Fills(r) /\ restoring[r].at \in DOMAIN Tables
    /\ LET t == Tables[restoring[r].at]
           rows == restoring[r].of.data[t]
       IN  /\ \A q \in Restorers \ {r} : Ids(restoring[q].new[t]) \cap Ids(rows) = {}
           /\ ~Clashes(t, rows)
           /\ restoring' = [restoring EXCEPT ![r].new[t] = {row \in rows : row.id \notin Ids(tables[t])},
                                             ![r].at = @ + 1]
    /\ UNCHANGED <<tables, position, users, owner, archive, moved, writes>>

\* Behind the largest id, and never back.
next_value(s, rows) == Max({position[s]} \cup {id + 1 : id \in Ids(rows)})

_advance_sequences(r) ==
    /\ Fills(r) /\ restoring[r].at > Len(Tables)
    /\ tables' = [t \in TableNames |-> tables[t] \cup restoring[r].new[t]]
    /\ position' = [s \in Serial |-> IF owner[s] = r THEN next_value(s, tables'[s]) ELSE position[s]]
    /\ owner' = Released(r)
    /\ restoring' = [restoring EXCEPT ![r] = Resting]
    /\ UNCHANGED <<users, archive, moved, writes>>

ArchiveNext ==
    \/ \E w \in Sessions :
          \/ \E c \in Communities : insert_invoice(w, c)
          \/ \E row \in tables["invoices"] : pay(w, row)
          \/ insert_event(w) \/ CommitSession(w) \/ RollBackSession(w)
    \/ export_community_archive \/ Damage \/ Move
    \/ \E r \in Restorers :
          \/ restore_community_archive(r) \/ lock_sequence(r) \/ restore_rows(r)
          \/ _advance_sequences(r) \/ RollBack(r)

ArchiveSpec == ArchiveInit /\ [][ArchiveNext]_archiveVars

-----------------------------------------------------------------------------

\* Every id names one record, an event belongs to the community of its invoice,
\* and no session draws an id that a restored record has: whatever was archived,
\* damaged, moved, restored twice and written in between (restore_community_archive).
RecordsHangTogether ==
    /\ \A t \in TableNames : \A x, y \in tables[t] : x.id = y.id => x = y
    /\ \A event \in tables["invoice_lifecycle_events"] : \E invoice \in tables["invoices"] :
           invoice.id = event.parent /\ invoice.of = event.of
    /\ \A w \in Sessions : writes[w] # Nothing => ~Taken(w)

\* A restore ends with all records of the archive in place and no other record
\* touched, or with nothing changed ("one store transaction").
RestoreIsWhole ==
    [][\A r \in Restorers : restoring[r] # Resting /\ restoring'[r] = Resting =>
          \/ tables' = tables /\ position' = position
          \/ \A t \in TableNames : tables[t] \cup restoring[r].of.data[t] = tables'[t]]_archiveVars
=============================================================================
