------------------------------ MODULE Villages ------------------------------
(***************************************************************************)
(* The gateway of the practice villages (sandbox_runtime.py,               *)
(* sandbox_archive_runtime.py, sandbox_lifecycle.py).  Every visitor gets  *)
(* a village: a directory, a database and a worker process.  A village may *)
(* own one destination to restore an archive into.  Request threads and    *)
(* the reaper create, use and retire villages side by side; the gateway    *)
(* may be killed at any moment and retires what it finds when it starts    *)
(* again.                                                                  *)
(*                                                                         *)
(* A thread is a stack of calls, the innermost first.  One step is what a  *)
(* call does under the registry lock, or between two of them; op is the    *)
(* reentrant operation lock of a village.                                  *)
(***************************************************************************)
EXTENDS Naturals, Sequences, FiniteSets

CONSTANTS
    NumVillages,    \* bound on villages ever made
    Owners,         \* browsers, by the token of their session
    Visitors,       \* request threads
    Reaper,         \* the cleanup thread
    MaxVillages,    \* max_workspaces
    MaxCleanups,    \* attempts to clean up a village (3)
    MaxMishaps,     \* bound on failing cleanups and startups and kills of the gateway
    Free            \* nobody, no village

ASSUME VillagesAssumption ==
    /\ Reaper \notin Visitors /\ Free \notin Visitors \cup {Reaper} \cup 1 .. NumVillages
    /\ NumVillages \in Nat /\ MaxVillages \in Nat \ {0} /\ MaxCleanups \in Nat \ {0}
    /\ MaxMishaps \in Nat

VARIABLES
    village,        \* workspaces and retiring
    worker,         \* worker processes that run
    recorded,       \* villages with a worker.json
    storage,        \* villages with a directory and a database
    op,             \* the thread that holds a village's operation lock
    claimed,        \* retirement_claims
    replaced,       \* replacements: slots a reset keeps for its new village
    calls,          \* per thread: its stack of calls
    answered,       \* per thread: what the latest destroy returned
    up,             \* the gateway runs
    mishaps

registry == <<village, claimed, replaced>>
scratch == <<worker, recorded, storage>>
villageVars == <<registry, scratch, op, calls, answered, up, mishaps>>

Threads == Visitors \cup {Reaper}
Villages == 1 .. NumVillages     \* random ids, none used twice

-----------------------------------------------------------------------------

NoVillage == [at |-> "none", owner |-> Free, parent |-> Free, ready |-> FALSE,
              expired |-> FALSE, cleanups |-> 0, due |-> FALSE]

Village ==
    [at : {"none", "live", "retiring", "gone"}, owner : Owners \cup Villages \cup {Free},
     parent : Villages \cup {Free}, ready : BOOLEAN, expired : BOOLEAN,
     cleanups : 0 .. MaxCleanups, due : BOOLEAN]

Call(do, v) == [do |-> do, of |-> v, at |-> "begin", todo |-> {}, retry |-> FALSE, held |-> FALSE]

VillageTypeOK ==
    /\ village \in [Villages -> Village]
    /\ worker \subseteq Villages /\ recorded \subseteq Villages /\ storage \subseteq Villages
    /\ op \in [Villages -> Threads \cup {Free}]
    /\ claimed \subseteq Villages /\ replaced \subseteq Villages
    /\ \A t \in Threads : \A n \in DOMAIN calls[t] : calls[t][n].of \in Villages
    /\ answered \in [Threads -> BOOLEAN] /\ up \in BOOLEAN
    /\ mishaps \in 0 .. MaxMishaps

VillageInit ==
    /\ village = [v \in Villages |-> NoVillage]
    /\ worker = {} /\ recorded = {} /\ storage = {}
    /\ op = [v \in Villages |-> Free]
    /\ claimed = {} /\ replaced = {}
    /\ calls = [t \in Threads |-> << >>]
    /\ answered = [t \in Threads |-> TRUE]
    /\ up = TRUE /\ mishaps = 0

-----------------------------------------------------------------------------

Is(v, at) == village[v].at = at
Owned == {v \in Villages : Is(v, "live") \/ Is(v, "retiring")}
Children(v) == {c \in Owned : village[c].parent = v}

AtRest(t) == calls[t] = << >>
Doing(t, do, at) == /\ calls[t] # << >> /\ Head(calls[t]).do = do /\ Head(calls[t]).at = at
Current(t) == Head(calls[t]).of

Push(t, call) == calls' = [calls EXCEPT ![t] = <<call>> \o @]
GoTo(t, at) == calls' = [calls EXCEPT ![t][1].at = at]
Return(t) == calls' = [calls EXCEPT ![t] = Tail(@)]

\* a further call, after which the present one goes on at the given label
PushFrom(t, at, call) == calls' = [calls EXCEPT ![t] = <<call, [@[1] EXCEPT !.at = at]>> \o Tail(@)]

Acquire(t, v) == op[v] \in {t, Free} /\ op' = [op EXCEPT ![v] = t]
Release(v) == op' = [op EXCEPT ![v] = Free]

-----------------------------------------------------------------------------
(* create.                                                                 *)

\* A reset's own slot counts once it is taken over.
Occupied(replacement) == (Owned \cup replaced) \ (replacement \cap replaced)

\* A source that is expired or being retired gets no destination any more.
MayOwn(parent) == parent # Free =>
    Is(parent, "live") /\ ~village[parent].expired /\ parent \notin claimed

\* The id, the directory and the operation lock of a new village; an owner
\* that has one waits for it instead.
Allocate(t, v, owner, parent, replacement) ==
    /\ v = Cardinality({w \in Villages : village[w] # NoVillage}) + 1
    /\ \A w \in Villages : village[w].owner = owner => ~Is(w, "live")
    /\ MayOwn(parent)
    /\ Cardinality(Occupied(replacement)) < MaxVillages
    /\ village' = [village EXCEPT ![v] =
           [NoVillage EXCEPT !.at = "live", !.owner = owner, !.parent = parent]]
    /\ replaced' = replaced \ replacement
    /\ storage' = storage \cup {v}
    /\ op' = [op EXCEPT ![v] = t]

start(t, v, owner) ==
    /\ up /\ t \in Visitors /\ AtRest(t)
    /\ Allocate(t, v, owner, Free, {})
    /\ Push(t, Call("create", v))
    /\ UNCHANGED <<claimed, worker, recorded, answered, up, mishaps>>

\* _provision starts the worker, unless the source of a destination is gone ...
Spawn(t) == LET v == Current(t) IN
    /\ Doing(t, "create", "begin")
    /\ village[v].parent # Free => Is(village[v].parent, "live")
    /\ worker' = worker \cup {v}
    /\ GoTo(t, "spawned")
    /\ UNCHANGED <<registry, recorded, storage, op, answered, up, mishaps>>

\* ... and writes its identity down afterwards.
record_worker(t) ==
    /\ Doing(t, "create", "spawned")
    /\ recorded' = recorded \cup {Current(t)}
    /\ GoTo(t, "recorded")
    /\ UNCHANGED <<registry, worker, storage, op, answered, up, mishaps>>

BecomeReady(t) == LET v == Current(t) IN
    /\ Doing(t, "create", "recorded")
    /\ village' = [village EXCEPT ![v].ready = TRUE]
    /\ Release(v) /\ Return(t)
    /\ UNCHANGED <<claimed, replaced, scratch, answered, up, mishaps>>

\* A village that does not start is destroyed by the call that made it.
StartupFails(t) == LET v == Current(t) IN
    /\ calls[t] # << >> /\ Head(calls[t]).do = "create"
    /\ \/ /\ village[v].parent # Free /\ ~Is(village[v].parent, "live")
          /\ Doing(t, "create", "begin") /\ UNCHANGED mishaps
       \/ mishaps < MaxMishaps /\ mishaps' = mishaps + 1
    /\ Release(v)
    /\ calls' = [calls EXCEPT ![t] = <<Call("destroy", v)>> \o Tail(@)]
    /\ UNCHANGED <<registry, scratch, answered, up>>

-----------------------------------------------------------------------------
(* use.                                                                    *)

Usable(v) == Is(v, "live") /\ village[v].ready

\* get: an expired village is destroyed on the spot.
get(t, v, call) ==
    /\ up /\ t \in Visitors /\ AtRest(t) /\ Usable(v)
    /\ Push(t, IF village[v].expired THEN Call("destroy", v) ELSE call)
    /\ UNCHANGED <<registry, scratch, op, answered, up, mishaps>>

product(t, v) == get(t, v, Call("use", v))

archive_prepare(t, v) == village[v].parent = Free /\ get(t, v, Call("prepare", v))
archive_discard(t, v) == village[v].parent = Free /\ get(t, v, Call("unprepare", v))

\* use without the second look at the registry
Still_unchecked(v) == TRUE

Still(v) == Is(v, "live")

\* use waits for the operation lock and looks again.
use(t) == LET v == Current(t) IN
    /\ \E do \in {"use", "prepare", "unprepare"} : Doing(t, do, "begin")
    /\ op[v] = Free
    /\ IF Still(v) THEN Acquire(t, v) /\ GoTo(t, "in") ELSE Return(t) /\ UNCHANGED op
    /\ UNCHANGED <<registry, scratch, answered, up, mishaps>>

\* A request ends; an archive operation also when it can have no destination.
Leave(t) == LET v == Current(t) IN
    /\ \E do \in {"use", "prepare", "unprepare"} : Doing(t, do, "in") \/ Doing(t, do, "done")
    /\ Release(v) /\ Return(t)
    /\ UNCHANGED <<registry, scratch, answered, up, mishaps>>

\* target: the live destination, an expired one destroyed first, or a new one
\* allocated under the operation lock of its source; then run uses it.
target(t) == LET v == Current(t) IN
    /\ Doing(t, "prepare", "in")
    /\ \/ \E c \in Children(v) :
            /\ Usable(c)
            /\ IF village[c].expired THEN PushFrom(t, "in", Call("destroy", c))
                                     ELSE PushFrom(t, "done", Call("use", c))
            /\ UNCHANGED <<registry, storage, op>>
       \/ /\ \A c \in Children(v) : ~Usable(c)
          /\ \E c \in Villages : Allocate(t, c, v, v, {}) /\ PushFrom(t, "in", Call("create", c))
          /\ UNCHANGED claimed
    /\ UNCHANGED <<worker, recorded, answered, up, mishaps>>

-----------------------------------------------------------------------------
(* Retirement.                                                             *)

\* _claim_retirement: one reset or discard at a time
Claim(v, reset) ==
    /\ Is(v, "live") /\ v \notin claimed
    /\ claimed' = claimed \cup {v}
    /\ replaced' = IF reset THEN replaced \cup {v} ELSE replaced
    /\ UNCHANGED village

Unclaim(v) == claimed' = claimed \ {v} /\ replaced' = replaced \ {v} /\ UNCHANGED village

retire(t, v, do) ==
    /\ up /\ t \in Visitors /\ AtRest(t)
    /\ Usable(v) /\ ~village[v].expired /\ village[v].parent = Free
    /\ Claim(v, do = "reset")
    /\ calls' = [calls EXCEPT ![t] = <<Call("destroy", v), [Call(do, v) EXCEPT !.at = "destroyed"]>>]
    /\ UNCHANGED <<scratch, op, answered, up, mishaps>>

\* archive_discard retires the destination under its source's lock.
RetireTarget(t) == LET v == Current(t) IN
    /\ Doing(t, "unprepare", "in")
    /\ \E c \in Children(v) :
           /\ Usable(c) /\ ~village[c].expired /\ Claim(c, FALSE)
           /\ calls' = [calls EXCEPT ![t] =
                  <<Call("destroy", c), [Call("discard", c) EXCEPT !.at = "destroyed"],
                    [@[1] EXCEPT !.at = "done"]>> \o Tail(@)]
    /\ UNCHANGED <<scratch, op, answered, up, mishaps>>

discard(t) ==
    /\ Doing(t, "discard", "destroyed")
    /\ Unclaim(Current(t)) /\ Return(t)
    /\ UNCHANGED <<scratch, op, answered, up, mishaps>>

\* reset goes on to create, in the slot it kept, if its village is gone.
reset(t) == LET v == Current(t) IN
    /\ Doing(t, "reset", "destroyed")
    /\ \/ /\ answered[t]
          /\ \E n \in Villages, owner \in Owners :
                 /\ owner = village[v].owner
                 /\ Allocate(t, n, owner, Free, {v})
                 /\ PushFrom(t, "created", Call("create", n))
          /\ UNCHANGED claimed
       \/ UNCHANGED <<registry, storage, op>> /\ GoTo(t, "created")
    /\ UNCHANGED <<worker, recorded, answered, up, mishaps>>

EndReset(t) ==
    /\ Doing(t, "reset", "created")
    /\ Unclaim(Current(t)) /\ Return(t)
    /\ UNCHANGED <<scratch, op, answered, up, mishaps>>

\* reap: what has expired, and what waits for another attempt
reap(v) ==
    /\ up /\ AtRest(Reaper)
    /\ \/ Usable(v) /\ village[v].expired /\ Push(Reaper, Call("destroy", v))
       \/ /\ Is(v, "retiring") /\ village[v].cleanups < MaxCleanups /\ village[v].due
          /\ Push(Reaper, [Call("destroy", v) EXCEPT !.retry = TRUE])
    /\ UNCHANGED <<registry, scratch, op, answered, up, mishaps>>

-----------------------------------------------------------------------------
(* destroy.                                                                *)

\* The village leaves the registry first, so that no request finds it.
Withdraw(t) == LET v == Current(t) IN
    /\ Doing(t, "destroy", "begin")
    /\ IF v \in Owned
       THEN /\ village' = [village EXCEPT ![v].at = "retiring"]
            /\ GoTo(t, "wait") /\ UNCHANGED answered
       ELSE answered' = [answered EXCEPT ![t] = TRUE] /\ Return(t) /\ UNCHANGED village
    /\ UNCHANGED <<claimed, replaced, scratch, op, up, mishaps>>

\* destroy that collects the destinations before it waits for the lock
Collected_early(v) == {c \in Children(v) : village[c].ready}

Collected(v) == Children(v)

\* Then it waits for the request that still works in it.
BeginCleanup(t) == LET v == Current(t) IN
    /\ Doing(t, "destroy", "wait")
    /\ op[v] \in {t, Free}
    /\ IF v \notin Owned \/ village[v].cleanups = MaxCleanups
            \/ (Head(calls[t]).retry /\ ~village[v].due)
       THEN /\ answered' = [answered EXCEPT ![t] = v \notin Owned]
            /\ Return(t) /\ UNCHANGED <<village, op>>
       ELSE /\ village' = [village EXCEPT ![v].cleanups = @ + 1, ![v].due = FALSE]
            /\ calls' = [calls EXCEPT ![t][1].at = "children", ![t][1].todo = Collected(v),
                                      ![t][1].held = (op[v] = t)]
            /\ Acquire(t, v) /\ UNCHANGED answered
    /\ UNCHANGED <<claimed, replaced, scratch, up, mishaps>>

\* Its destinations go first, one after the other.
DestroyChild(t) ==
    /\ Doing(t, "destroy", "children") /\ Head(calls[t]).todo # {}
    /\ \E c \in Head(calls[t]).todo :
           calls' = [calls EXCEPT ![t] =
               <<Call("destroy", c), [Head(@) EXCEPT !.at = "child",
                                                     !.todo = Head(calls[t]).todo \ {c}]>> \o Tail(@)]
    /\ UNCHANGED <<registry, scratch, op, answered, up, mishaps>>

ChildGone(t) ==
    /\ Doing(t, "destroy", "child") /\ answered[t]
    /\ GoTo(t, "children")
    /\ UNCHANGED <<registry, scratch, op, answered, up, mishaps>>

EndCleanup(t, v, success) ==
    /\ answered' = [answered EXCEPT ![t] = success]
    /\ IF Head(calls[t]).held THEN UNCHANGED op ELSE Release(v)
    /\ Return(t)

\* A destination or a step that fails leaves the rest to a later attempt.
CleanupFails(t) == LET v == Current(t) IN
    /\ \/ Doing(t, "destroy", "child") /\ ~answered[t] /\ UNCHANGED mishaps
       \/ /\ Doing(t, "destroy", "stopped") \/ (Doing(t, "destroy", "children") /\ Head(calls[t]).todo = {})
          /\ mishaps < MaxMishaps /\ mishaps' = mishaps + 1
    /\ EndCleanup(t, v, FALSE)
    /\ UNCHANGED <<registry, scratch, up>>

stop_workspace(t) == LET v == Current(t) IN
    /\ Doing(t, "destroy", "children") /\ Head(calls[t]).todo = {}
    /\ worker' = worker \ {v}
    /\ GoTo(t, "stopped")
    /\ UNCHANGED <<registry, recorded, storage, op, answered, up, mishaps>>

\* The database and the directory, and then the registry entry
RemoveStorage(t) == LET v == Current(t) IN
    /\ Doing(t, "destroy", "stopped")
    /\ storage' = storage \ {v} /\ recorded' = recorded \ {v}
    /\ village' = [village EXCEPT ![v] = [NoVillage EXCEPT !.at = "gone", !.owner = village[v].owner]]
    /\ EndCleanup(t, v, TRUE)
    /\ UNCHANGED <<claimed, replaced, worker, up, mishaps>>

-----------------------------------------------------------------------------
(* Time, kills and recovery.                                               *)

\* lifetime or inactivity
VillageExpires(v) ==
    /\ Usable(v) /\ ~village[v].expired
    /\ village' = [village EXCEPT ![v].expired = TRUE]
    /\ UNCHANGED <<claimed, replaced, scratch, op, calls, answered, up, mishaps>>

\* retry_at passes; it is set when an attempt has failed
Cleaning(v) == \E t \in Threads : \E n \in DOMAIN calls[t] :
    calls[t][n].do = "destroy" /\ calls[t][n].of = v /\ calls[t][n].at # "begin"

RetryDue(v) ==
    /\ Is(v, "retiring") /\ ~village[v].due /\ village[v].cleanups > 0 /\ ~Cleaning(v)
    /\ village' = [village EXCEPT ![v].due = TRUE]
    /\ UNCHANGED <<claimed, replaced, scratch, op, calls, answered, up, mishaps>>

Kill ==
    /\ up /\ mishaps < MaxMishaps
    /\ mishaps' = mishaps + 1 /\ up' = FALSE
    /\ village' = [v \in Villages |-> IF village[v] = NoVillage THEN NoVillage
                                      ELSE [NoVillage EXCEPT !.at = "gone"]]
    /\ claimed' = {} /\ replaced' = {}
    /\ op' = [v \in Villages |-> Free]
    /\ calls' = [t \in Threads |-> << >>]
    /\ answered' = [t \in Threads |-> TRUE]
    /\ UNCHANGED scratch

\* a worker is found by its journal or by its working directory
Found(v) == v \in storage

\* recover: the workers of every directory, then the directories
recover ==
    /\ ~up /\ up' = TRUE
    /\ worker' = {v \in worker : ~Found(v)}
    /\ storage' = {} /\ recorded' = {}
    /\ UNCHANGED <<registry, op, calls, answered, mishaps>>

-----------------------------------------------------------------------------

\* what a call does by itself, once begun
Proceeding(t) ==
    \/ Spawn(t) \/ record_worker(t) \/ BecomeReady(t)
    \/ use(t) \/ Leave(t) \/ target(t) \/ RetireTarget(t)
    \/ discard(t) \/ reset(t) \/ EndReset(t)
    \/ Withdraw(t) \/ BeginCleanup(t) \/ DestroyChild(t) \/ ChildGone(t)
    \/ stop_workspace(t) \/ RemoveStorage(t)
    \/ CleanupFails(t)

VillageNext ==
    \/ \E t \in Visitors, v \in Villages :
        \/ \E owner \in Owners : start(t, v, owner)
        \/ product(t, v)
        \/ archive_prepare(t, v)
        \/ archive_discard(t, v)
        \/ \E do \in {"reset", "discard"} : retire(t, v, do)
    \/ \E v \in Villages : reap(v) \/ VillageExpires(v) \/ RetryDue(v)
    \/ \E t \in Threads : Proceeding(t) \/ StartupFails(t)
    \/ Kill
    \/ recover

VillageSpec == VillageInit /\ [][VillageNext]_villageVars

-----------------------------------------------------------------------------

\* There are never more villages than there is room for, those counted that
\* are being cleaned up or whose slot a reset keeps; and while the gateway
\* runs, every process and every directory belongs to one that is counted,
\* also after a kill in the middle of a start.
VillagesFitCapacity ==
    /\ Cardinality(Owned \cup replaced) <= MaxVillages
    /\ up => worker \subseteq storage /\ storage \subseteq Owned

\* A request works in a village that runs: neither the reaper nor a visitor
\* that resets or discards it takes away its worker or its storage, and of
\* two requests only one works in it.
RequestsFindTheirVillage ==
    \A t \in Visitors : \A n \in DOMAIN calls[t] :
        LET call == calls[t][n] IN
        call.do \in {"use", "prepare", "unprepare"} /\ call.at # "begin" =>
            /\ call.of \in worker /\ call.of \in storage
            /\ op[call.of] = t

\* Practice villages fit the gateway, and every request works on the village it
\* was let in to (sandbox_runtime.py Villages).
VillagesServe == VillagesFitCapacity /\ RequestsFindTheirVillage

\* "destinations ... retire first" (docs/sandbox.md): whatever is created,
\* expires, fails or is discarded meanwhile, no destination is left without
\* its source.
TargetsHaveTheirSource ==
    \A v \in Owned : village[v].parent # Free => village[v].parent \in Owned
=============================================================================
