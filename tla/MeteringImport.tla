--------------------------- MODULE MeteringImport ---------------------------
(***************************************************************************)
(* Meter data from the grid operator's outbox to the readings table: one   *)
(* tenant's daily import, its retries, and an import run by hand.          *)
(*                                                                         *)
(* Source: sdat_ingestion.py (schedule, lock, attempts, report),           *)
(* store/sdat_ingestion.py (advisory lock, recorded runs), sdat_datahub.py *)
(* fetch_latest (download), scripts/import_sdat.py (files in order, ledger *)
(* check, packing), store/metering.py (readings and ledger), admin.py,     *)
(* cron.py and operator_api.py (who starts a run), and                     *)
(* store/operator_operations.py (the reserved key of an operator's retry). *)
(*                                                                         *)
(* Deliveries are numbered in the order of their file names, which start   *)
(* with their time stamp; each covers several slots (a slot is a point,    *)
(* direction and day) that later deliveries cover again.  A reading keeps  *)
(* the document it came from.  Every transaction and every change of the   *)
(* tenant's directory is a step; between any two the worker may die.       *)
(***************************************************************************)
EXTENDS Naturals, FiniteSets, FiniteSetsExt

CONSTANTS
    NumFiles,       \* bound: deliveries
    Slots,          \* readings, as coarse as the overlap of deliveries needs
    Covers,         \* Covers[f]: the slots of delivery f
    Workers,        \* requests of the application that may run the import
    Operators,      \* runs of scripts/import_sdat.py from a shell
    Keys,           \* Idempotency-Key values of an operator's retry
    MaxAttempts,    \* max_attempts of the schedule
    MaxFaults,      \* bound: failures, and deaths of a worker
    MaxExpiries,    \* bound: reservations that get older than 15 minutes
    Nobody,         \* lock: no session holds it
    NoKey           \* a run that answers no key

Files == 1..NumFiles

Processes == Workers \cup Operators

ASSUME ImportAssumption ==
    /\ NumFiles \in Nat
    /\ Covers \in [Files -> SUBSET Slots]
    /\ MaxAttempts \in 1..5
    /\ MaxFaults \in Nat /\ MaxExpiries \in Nat
    /\ Workers \cap Operators = {}
    /\ Nobody \notin Workers /\ NoKey \notin Keys

VARIABLES
    remote,         \* deliveries in the outbox
    plain,          \* deliveries in the directory as .xml
    packed,         \* deliveries in the directory as .xml.gz
    reading,        \* metering_point_readings.source_document_id; 0: no row
    ledger,         \* sdat_imports
    lock,           \* the worker whose session holds the tenant's advisory lock
    ranToday,       \* the last recorded run started on this local date
    failures,       \* a recorded run failed: an operator may retry it
    answer,         \* operator_action_idempotency row of each key
    proc,           \* what each process is doing
    faults, expiries

vars == <<remote, plain, packed, reading, ledger, lock, ranToday, failures,
          answer, proc, faults, expiries>>

dirVars == <<remote, plain, packed>>
dbVars == <<reading, ledger>>
runVars == <<lock, ranToday, failures>>
keyVars == <<answer, expiries>>

-----------------------------------------------------------------------------

PlaceNames == {"idle", "acquire", "fetch", "list", "import", "record", "report",
               "complete", "release"}

\* A directory entry as it was listed: the delivery, and whether it was packed.
Entries == Files \X BOOLEAN

Idle == [at |-> "idle", key |-> NoKey, today |-> FALSE,
         attempt |-> 0, todo |-> {}, index |-> {}, bad |-> FALSE]

TypeOK ==
    /\ remote \in SUBSET Files /\ plain \in SUBSET Files /\ packed \in SUBSET Files
    /\ reading \in [Slots -> 0..NumFiles]
    /\ ledger \in SUBSET Files
    /\ lock \in Workers \cup {Nobody}
    /\ ranToday \in BOOLEAN /\ failures \in BOOLEAN
    /\ answer \in [Keys -> {"none", "reserved", "answered"}]
    /\ proc \in [Processes -> [at : PlaceNames, key : Keys \cup {NoKey},
                               today : BOOLEAN, attempt : 0..MaxAttempts,
                               todo : SUBSET Entries, index : SUBSET Files,
                               bad : BOOLEAN]]
    /\ faults \in 0..MaxFaults /\ expiries \in 0..MaxExpiries

Init ==
    /\ remote = {} /\ plain = {} /\ packed = {}
    /\ reading = [s \in Slots |-> 0]
    /\ ledger = {}
    /\ lock = Nobody
    /\ ranToday = FALSE /\ failures = FALSE
    /\ answer = [k \in Keys |-> "none"]
    /\ proc = [p \in Processes |-> Idle]
    /\ faults = 0 /\ expiries = 0

At(p, place) == proc[p].at = place

Go(p, place) == proc' = [proc EXCEPT ![p].at = place]

Fault == faults < MaxFaults /\ faults' = faults + 1

-----------------------------------------------------------------------------
(* The world outside.                                                      *)

\* The grid operator publishes deliveries in order; nothing is deleted there
\* (--delete-remote is off in scheduled runs).
Publish(f) ==
    /\ f \notin remote
    /\ f = Cardinality(remote) + 1
    /\ remote' = remote \cup {f}
    /\ UNCHANGED <<plain, packed, dbVars, runVars, keyVars, proc, faults>>

\* Local midnight, seen from the schedule's time of day.
NewDay ==
    /\ ranToday' = FALSE
    /\ proc' = [p \in Processes |-> [proc[p] EXCEPT !.today = FALSE]]
    /\ UNCHANGED <<dirVars, dbVars, lock, failures, keyVars, faults>>

-----------------------------------------------------------------------------
(* Starting a run.                                                         *)

\* The cron request reads all schedules first and works through the due ones.
run_due(p) ==
    /\ At(p, "idle")
    /\ ~ranToday
    /\ proc' = [proc EXCEPT ![p] = [Idle EXCEPT !.at = "acquire"]]
    /\ UNCHANGED <<dirVars, dbVars, runVars, keyVars, faults>>

\* An administrator runs the schedule now, due or not.
admin_run_sdat_schedule(p) ==
    /\ At(p, "idle")
    /\ proc' = [proc EXCEPT ![p] = [Idle EXCEPT !.at = "acquire"]]
    /\ UNCHANGED <<dirVars, dbVars, runVars, keyVars, faults>>

\* An operator client retries a failed run under a key.  A reservation older
\* than 15 minutes is deleted first; a younger one, and an answer, end the
\* request without a write.
claim_ingestion_retry(p, k) ==
    /\ At(p, "idle")
    /\ failures
    /\ \/ /\ answer[k] = "none"
          /\ UNCHANGED expiries
       \/ /\ answer[k] = "reserved"
          /\ expiries < MaxExpiries
          /\ expiries' = expiries + 1
    /\ answer' = [answer EXCEPT ![k] = "reserved"]
    /\ proc' = [proc EXCEPT ![p] = [Idle EXCEPT !.at = "acquire", !.key = k]]
    /\ UNCHANGED <<dirVars, dbVars, runVars, faults>>

\* pg_try_advisory_lock
LockFree == lock = Nobody

\* run: a locked tenant is reported, and an operator's key is answered so.
\* A scheduled run may start long after its schedule was read.
acquire_sdat_ingestion_lock(p) ==
    /\ At(p, "acquire")
    /\ IF LockFree
       THEN /\ lock' = p
            /\ proc' = [proc EXCEPT ![p].at = "fetch", ![p].today = TRUE,
                                    ![p].attempt = 1]
       ELSE /\ Go(p, IF proc[p].key = NoKey THEN "idle" ELSE "complete")
            /\ UNCHANGED lock
    /\ UNCHANGED <<dirVars, dbVars, ranToday, failures, keyVars, faults>>

-----------------------------------------------------------------------------
(* One attempt: fetch, then import what the directory holds.               *)

\* After a failed attempt: back to the fetch, or the report of a failure.
NextAttempt(p) ==
    IF proc[p].attempt < MaxAttempts
    THEN proc' = [proc EXCEPT ![p].at = "fetch", ![p].attempt = proc[p].attempt + 1,
                              ![p].todo = {}, ![p].index = {}, ![p].bad = FALSE]
    ELSE proc' = [proc EXCEPT ![p].at = "report", ![p].bad = TRUE]

\* fetch_latest: a delivery whose .xml is there at its size is skipped; one
\* that has been packed since is loaded again.
Pending == remote \ plain

fetch_latest(p) ==
    /\ At(p, "fetch")
    /\ \/ /\ plain' = plain \cup Pending
          /\ Go(p, "list")
          /\ UNCHANGED faults
       \/ /\ Fault                              \* fetch_failed, or a part of it
          /\ \E D \in SUBSET Pending :
                /\ D = Pending => D = {}
                /\ plain' = plain \cup D
          /\ NextAttempt(p)
    /\ UNCHANGED <<remote, packed, dbVars, runVars, keyVars>>

\* The importer lists the directory and reads the ledger once.  A ledger it
\* cannot read counts as empty: every file is imported again.  (The two reads
\* are one step: an import that ends between them only shortens the work.)
get_sdat_import_index(p) ==
    /\ At(p, "list")
    /\ \E index \in {ledger, {}} :
        /\ IF index = ledger THEN UNCHANGED faults ELSE Fault
        /\ proc' = [proc EXCEPT ![p].at = "import", ![p].index = index,
                                ![p].todo = (plain \X {FALSE}) \cup (packed \X {TRUE})]
    /\ UNCHANGED <<dirVars, dbVars, runVars, keyVars>>

\* mutant: the newest delivery first
Earlier_newest(e, d) == e[1] > d[1] \/ (e[1] = d[1] /\ ~e[2] /\ d[2])

\* _sort_key: foo.xml before foo.xml.gz, and both before a later delivery
Earlier(e, d) == e[1] < d[1] \/ (e[1] = d[1] /\ ~e[2] /\ d[2])

NextEntry(p) ==
    CHOOSE e \in proc[p].todo : \A d \in proc[p].todo \ {e} : Earlier(e, d)

\* The entry still is in the directory under the name it was listed with.
Readable(e) == IF e[2] THEN e[1] \in packed ELSE e[1] \in plain

\* compress_imported_file: an existing archive is never overwritten, and a
\* file that cannot be packed stays where it is.
Pack(e) ==
    \/ /\ ~e[2] /\ e[1] \in plain /\ e[1] \notin packed
       /\ plain' = plain \ {e[1]}
       /\ packed' = packed \cup {e[1]}
    \/ UNCHANGED <<plain, packed>>

Drop(p, e, wrong) ==
    proc' = [proc EXCEPT ![p].at = "import", ![p].todo = @ \ {e},
                         ![p].bad = @ \/ wrong]

\* mutant: rows the database did not take are not noticed
AfterFailedSave_unnoticed(p, e) == Go(p, "record")

\* persisted # len(rows): no ledger entry, no packing
AfterFailedSave(p, e) == Drop(p, e, TRUE)

Store(f) == reading' = [s \in Slots |-> IF s \in Covers[f] THEN f ELSE reading[s]]

\* One file of the list: unreadable, already imported, not stored, or stored.
import_file(p) ==
    /\ At(p, "import")
    /\ proc[p].todo # {}
    /\ LET e == NextEntry(p) IN
       IF ~Readable(e)
       THEN /\ Drop(p, e, TRUE)
            /\ UNCHANGED <<dirVars, dbVars, faults>>
       ELSE \/ /\ e[1] \in proc[p].index
               /\ Pack(e)
               /\ Drop(p, e, FALSE)
               /\ UNCHANGED <<remote, dbVars, faults>>
            \/ /\ e[1] \notin proc[p].index
               /\ Store(e[1])
               /\ Go(p, "record")
               /\ UNCHANGED <<dirVars, ledger, faults>>
            \/ /\ e[1] \notin proc[p].index
               /\ Fault
               /\ AfterFailedSave(p, e)
               /\ UNCHANGED <<dirVars, dbVars>>
    /\ UNCHANGED <<runVars, keyVars>>

\* "Datei bleibt liegen"
PackUnrecorded(e) == UNCHANGED <<plain, packed>>

\* A second transaction enters the stored document in the ledger; then its
\* file is packed.  Flags that cannot be noted do not matter.
record_sdat_import(p) ==
    /\ At(p, "record")
    /\ LET e == NextEntry(p) IN
       \/ /\ ledger' = ledger \cup {e[1]}
          /\ Pack(e)
          /\ proc' = [proc EXCEPT ![p].at = "import", ![p].todo = @ \ {e},
                                  ![p].index = @ \cup {e[1]}]
          /\ UNCHANGED <<remote, reading, faults>>
       \/ /\ Fault
          /\ PackUnrecorded(e)
          /\ Drop(p, e, TRUE)
          /\ UNCHANGED <<remote, dbVars>>
    /\ UNCHANGED <<runVars, keyVars>>

\* Exit code 0 is a success; otherwise the run tries again or gives up.
EndAttempt(p) ==
    /\ p \in Workers
    /\ At(p, "import")
    /\ proc[p].todo = {}
    /\ IF proc[p].bad THEN NextAttempt(p) ELSE Go(p, "report")
    /\ UNCHANGED <<dirVars, dbVars, runVars, keyVars, faults>>

-----------------------------------------------------------------------------
(* Ending a run.                                                           *)

\* mutant: only a success gives the lock back
Released_on_success(p) == IF proc[p].bad THEN lock ELSE Nobody

\* finally: store.release
Released(p) == Nobody

\* record_sdat_ingestion_run, then the release of the lock.  The report may
\* not be stored: then the request fails, and the key is given back.
record_sdat_ingestion_run(p) ==
    /\ At(p, "report")
    /\ lock' = Released(p)
    /\ \/ /\ ranToday' = proc[p].today
          /\ failures' = (failures \/ proc[p].bad)
          /\ Go(p, IF proc[p].key = NoKey THEN "idle" ELSE "complete")
          /\ UNCHANGED faults
       \/ /\ Fault
          /\ Go(p, IF proc[p].key = NoKey THEN "idle" ELSE "release")
          /\ UNCHANGED <<ranToday, failures>>
    /\ UNCHANGED <<dirVars, dbVars, keyVars>>

\* mutant: the row is written whatever its response is
Unanswered_any(k) == TRUE

\* WHERE response IS NULL
Unanswered(k) == answer[k] = "reserved"

\* The run's result, "locked" included, becomes the answer of the key.
complete_ingestion_retry(p) ==
    /\ At(p, "complete")
    /\ answer' = [answer EXCEPT ![proc[p].key] = IF @ = "reserved" THEN "answered" ELSE @]
    /\ proc' = [proc EXCEPT ![p] = Idle]
    /\ UNCHANGED <<dirVars, dbVars, runVars, faults, expiries>>

release_ingestion_retry(p) ==
    /\ At(p, "release")
    /\ answer' = [answer EXCEPT ![proc[p].key] =
                      IF Unanswered(proc[p].key) THEN "none" ELSE @]
    /\ proc' = [proc EXCEPT ![p] = Idle]
    /\ UNCHANGED <<dirVars, dbVars, runVars, faults, expiries>>

\* The worker dies.  Its session ends, and with it the advisory lock; nothing
\* is recorded, and a reserved key stays reserved.
Die(p) ==
    /\ ~At(p, "idle")
    /\ Fault
    /\ lock' = IF lock = p THEN Nobody ELSE lock
    /\ proc' = [proc EXCEPT ![p] = Idle]
    /\ UNCHANGED <<dirVars, dbVars, ranToday, failures, keyVars>>

-----------------------------------------------------------------------------
(* scripts/import_sdat.py from a shell: the same import, no lock.          *)

StartByHand(p) ==
    /\ At(p, "idle")
    /\ proc' = [proc EXCEPT ![p] = [Idle EXCEPT !.at = "list"]]
    /\ UNCHANGED <<dirVars, dbVars, runVars, keyVars, faults>>

EndByHand(p) ==
    /\ At(p, "import")
    /\ proc[p].todo = {}
    /\ proc' = [proc EXCEPT ![p] = Idle]
    /\ UNCHANGED <<dirVars, dbVars, runVars, keyVars, faults>>

ImportStep(p) ==
    \/ get_sdat_import_index(p)
    \/ import_file(p)
    \/ record_sdat_import(p)

RunStep(p) ==
    \/ acquire_sdat_ingestion_lock(p)
    \/ fetch_latest(p)
    \/ ImportStep(p)
    \/ EndAttempt(p)
    \/ record_sdat_ingestion_run(p)
    \/ complete_ingestion_retry(p)
    \/ release_ingestion_retry(p)

Next ==
    \/ \E f \in Files : Publish(f)
    \/ NewDay
    \/ \E p \in Workers :
        \/ run_due(p)
        \/ admin_run_sdat_schedule(p)
        \/ \E k \in Keys : claim_ingestion_retry(p, k)
        \/ RunStep(p)
    \/ \E p \in Operators :
        \/ StartByHand(p)
        \/ ImportStep(p)
        \/ EndByHand(p)
    \/ \E p \in Processes : Die(p)

Spec == Init /\ [][Next]_vars

\* Days pass, the cron endpoint is called, and a running process goes on.
Fairness ==
    /\ WF_vars(NewDay)
    /\ \A p \in Workers : WF_vars(run_due(p)) /\ WF_vars(RunStep(p))

FairSpec == Spec /\ Fairness

-----------------------------------------------------------------------------

Running(p) == proc[p].at \in {"fetch", "list", "import", "record", "report"}

\* "A PostgreSQL advisory lock prevents two application processes from running
\* the same tenant concurrently" (docs/data-pipeline.md): whoever fetches,
\* imports or reports for the application holds the lock, through crashes,
\* failed reports and retries; and the lock is held by nobody else.
OneRunAtATime ==
    \A p \in Workers : Running(p) <=> lock = p

\* A document in the ledger is never opened again, so its readings have to be
\* there: a crash or an error between the two transactions loses no reading.
LedgeredIsStored ==
    \A f \in ledger : \A s \in Covers[f] : reading[s] # 0

\* One import of a tenant at a time, and a file is in the ledger only when its
\* readings are stored (store/sdat_ingestion.py, scripts/import_sdat.py).
ImportsAreWhole == OneRunAtATime /\ LedgeredIsStored

\* A packed delivery is settled: it is in the ledger.  Files that failed stay
\* plain for somebody to read.
PackedIsSettled == packed \subseteq ledger

Newest(s) == Max({f \in ledger : s \in Covers[f]} \cup {0})

\* Where nothing fails and nobody imports by hand, "later files correct
\* earlier values": each reading is the one of the newest imported delivery.
\* (Shown for faults = 0, and for faults in general refuted below.)
OrderedImportKeepsNewest ==
    (Operators = {} /\ faults = 0 /\ \A p \in Workers : ~At(p, "record")) =>
        \A s \in Slots : reading[s] = Newest(s)

\* "later files correct earlier values.  The import therefore upserts with
\* last write wins" (docs/data-pipeline.md).  A delivery that failed and is
\* retried after a later one was imported writes last, and wins.
LaterFilesCorrectEarlier ==
    (\A p \in Processes : At(p, "idle")) => \A s \in Slots : reading[s] >= Newest(s)

\* The answer of a retry key is durable: whoever worked under an expired
\* reservation of the same key neither removes nor renews it.
AnswerIsDurable ==
    [][\A k \in Keys : answer[k] = "answered" => answer'[k] = "answered"]_vars

\* Every published delivery is imported in the end: failures, crashes and
\* days without a run only delay it.
EveryDeliveryIsImported ==
    \A f \in Files : f \in remote ~> f \in ledger
=============================================================================
