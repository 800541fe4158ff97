-------------------------- MODULE OperatorWebhooks --------------------------
(***************************************************************************)
(* The outbox of operator events: an event and one delivery per subscribed *)
(* client are written in the transaction that causes the event; cron runs  *)
(* of several workers claim due deliveries in bounded batches, POST them   *)
(* and record what came back.                                              *)
(*                                                                         *)
(* Source: store/operator_api.py (tables operator_events,                  *)
(* operator_webhook_deliveries, operator_api_clients), operator_api.py     *)
(* dispatch_pending_webhooks.                                              *)
(*                                                                         *)
(* Time is abstract: a claim older than 15 minutes becomes stale, and a    *)
(* delivery waiting for its back-off becomes due, at arbitrary moments.    *)
(***************************************************************************)
EXTENDS Naturals, Sequences, FiniteSets

CONSTANTS
    HookEvents,    \* event identities (event_id_for is stable per transition)
    Clients,       \* operator_api_clients of the community
    Subscribed,    \* Subscribed[c]: events covered by the client's capabilities
    Workers,       \* cron runs that can be in progress together
    HookAttempts,  \* max_attempts of the cron route (5 in cron.py)
    BatchSize,     \* batch_size of one claim
    HookCrashes,   \* bound on worker crashes
    MaxReissues,   \* bound on revocations and re-armings by administrators
    MaxOverruns,   \* bound on claims that go stale under a worker still alive
    Nobody

ASSUME WebhooksAssumption ==
    /\ HookAttempts \in Nat \ {0}
    /\ BatchSize \in Nat \ {0}
    /\ HookCrashes \in Nat /\ MaxReissues \in Nat /\ MaxOverruns \in Nat
    /\ Subscribed \in [Clients -> SUBSET HookEvents]
    /\ Nobody \notin Workers

VARIABLES
    log,                         \* operator_events in the order they occurred
    active,                      \* clients whose credential is active
    hookStatus,                  \* hookStatus[d] of each delivery, "none" before it exists
    attempts,                    \* attempt_count
    claim,                       \* claim_id, as the worker that owns it
    stale,                       \* deliveries claimed more than 15 minutes ago
    hookDue,                     \* deliveries whose next_attempt_at has passed
    batch,                       \* batch[w]: claimed deliveries worker w has still to send
    answer,                      \* answer[w]: the delivery just POSTed and its outcome
    crashes, reissues, overruns

table == <<log, active, hookStatus, attempts, claim, stale, hookDue>>
run == <<batch, answer>>
hookVars == <<log, active, hookStatus, attempts, claim, stale, hookDue, batch, answer,
              crashes, reissues, overruns>>

-----------------------------------------------------------------------------

Deliveries == HookEvents \X Clients      \* UNIQUE (event_id, client_id)

Statuses == {"none", "pending", "processing", "retry", "delivered", "failed"}

Outcomes == {"2xx", "error"}

NoAnswer == [of |-> Nobody, outcome |-> "error"]

HookTypeOK ==
    /\ log \in Seq(HookEvents)
    /\ active \subseteq Clients
    /\ hookStatus \in [Deliveries -> Statuses]
    /\ attempts \in [Deliveries -> 0 .. HookAttempts]
    /\ claim \in [Deliveries -> Workers \cup {Nobody}]
    /\ stale \subseteq Deliveries
    /\ hookDue \subseteq Deliveries
    /\ batch \in [Workers -> SUBSET Deliveries]
    /\ answer \in [Workers -> [of : Deliveries \cup {Nobody}, outcome : Outcomes]]
    /\ crashes \in 0 .. HookCrashes
    /\ reissues \in 0 .. MaxReissues
    /\ overruns \in 0 .. MaxOverruns

Happened == {log[k] : k \in DOMAIN log}

HookInit ==
    /\ log = <<>>
    /\ active = Clients
    /\ hookStatus = [d \in Deliveries |-> "none"]
    /\ attempts = [d \in Deliveries |-> 0]
    /\ claim = [d \in Deliveries |-> Nobody]
    /\ stale = {}
    /\ hookDue = Deliveries
    /\ batch = [w \in Workers |-> {}]
    /\ answer = [w \in Workers |-> NoAnswer]
    /\ crashes = 0
    /\ reissues = 0
    /\ overruns = 0

\* enqueue_event.  A repeated identity adds no second event; it only adds a
\* delivery for a subscribed client that has none yet.
EnqueueEvent(e) ==
    /\ log' = IF e \in Happened THEN log ELSE Append(log, e)
    /\ hookStatus' = [d \in Deliveries |->
                    IF /\ d[1] = e /\ d[2] \in active
                       /\ e \in Subscribed[d[2]] /\ hookStatus[d] = "none"
                    THEN "pending" ELSE hookStatus[d]]
    /\ UNCHANGED <<active, attempts, claim, stale, hookDue, run, crashes, reissues, overruns>>

\* mutant: a claim that has gone stale is never taken over
Claimable_no_takeover(d) ==
    /\ hookStatus[d] \in {"pending", "retry"}
    /\ attempts[d] < HookAttempts
    /\ d[2] \in active
    /\ d \in hookDue

\* The WHERE clause of get_pending_deliveries.
Claimable(d) ==
    /\ hookStatus[d] \in {"pending", "retry"} \/ (hookStatus[d] = "processing" /\ d \in stale)
    /\ attempts[d] < HookAttempts
    /\ d[2] \in active
    /\ d \in hookDue

Older(d, b) ==
    \E j, k \in DOMAIN log : log[j] = d[1] /\ log[k] = b[1] /\ j < k

\* ORDER BY occurred_at LIMIT batch_size: the oldest claimable deliveries.
IsBatch(S) ==
    LET claimable == {d \in Deliveries : Claimable(d)} IN
    /\ S \subseteq claimable
    /\ Cardinality(S) = IF Cardinality(claimable) < BatchSize
                        THEN Cardinality(claimable) ELSE BatchSize
    /\ \A d \in S, b \in claimable \ S : ~Older(b, d)

\* get_pending_deliveries: one statement claims the batch (FOR UPDATE SKIP
\* LOCKED), under a fresh claim_id.
Claim(w) ==
    /\ batch[w] = {} /\ answer[w] = NoAnswer
    /\ \E S \in SUBSET Deliveries :
          /\ IsBatch(S) /\ S # {}
          /\ hookStatus' = [d \in Deliveries |-> IF d \in S THEN "processing" ELSE hookStatus[d]]
          /\ claim' = [d \in Deliveries |-> IF d \in S THEN w ELSE claim[d]]
          /\ stale' = stale \ S
          /\ batch' = [batch EXCEPT ![w] = S]
    /\ UNCHANGED <<log, active, attempts, hookDue, answer, crashes, reissues, overruns>>

\* transport: the endpoint may accept the message and the answer still be
\* lost, time out or be an error.
Post(w, d) ==
    /\ d \in batch[w]
    /\ answer[w] = NoAnswer
    /\ \E outcome \in Outcomes :
          answer' = [answer EXCEPT ![w] = [of |-> d, outcome |-> outcome]]
    /\ batch' = [batch EXCEPT ![w] = @ \ {d}]
    /\ UNCHANGED <<table, crashes, reissues, overruns>>

\* mutant: the attempt is recorded without looking at the claim
Record_unfenced(w) ==
    LET d == answer[w].of
        delivered == answer[w].outcome = "2xx"
        retryable == ~delivered /\ attempts[d] + 1 < HookAttempts
    IN
    /\ answer[w] # NoAnswer
    /\ attempts[d] < HookAttempts
    /\ hookStatus' = [hookStatus EXCEPT ![d] = IF delivered THEN "delivered"
                                       ELSE IF retryable THEN "retry" ELSE "failed"]
    /\ attempts' = [attempts EXCEPT ![d] = @ + 1]
    /\ hookDue' = IF retryable THEN hookDue \ {d} ELSE hookDue
    /\ claim' = [claim EXCEPT ![d] = Nobody]
    /\ stale' = stale \ {d}
    /\ answer' = [answer EXCEPT ![w] = NoAnswer]
    /\ UNCHANGED <<log, active, batch, crashes, reissues, overruns>>

\* record_attempt: only under the claim the POST was made with; a worker
\* whose claim was taken over writes nothing.
Record(w) ==
    LET d == answer[w].of
        delivered == answer[w].outcome = "2xx"
        retryable == ~delivered /\ attempts[d] + 1 < HookAttempts
    IN
    /\ answer[w] # NoAnswer
    /\ IF hookStatus[d] = "processing" /\ claim[d] = w
       THEN /\ hookStatus' = [hookStatus EXCEPT ![d] = IF delivered THEN "delivered"
                                               ELSE IF retryable THEN "retry" ELSE "failed"]
            /\ attempts' = [attempts EXCEPT ![d] = @ + 1]
            /\ hookDue' = IF retryable THEN hookDue \ {d} ELSE hookDue
            /\ claim' = [claim EXCEPT ![d] = Nobody]
            /\ stale' = stale \ {d}
       ELSE UNCHANGED <<hookStatus, attempts, hookDue, claim, stale>>
    /\ answer' = [answer EXCEPT ![w] = NoAnswer]
    /\ UNCHANGED <<log, active, batch, crashes, reissues, overruns>>

\* Fifteen minutes after the claim.  A worker that is alive and still has the
\* delivery overruns only now and then: a batch is at most 50 POSTs of ten
\* seconds each.
InHand(d) == \E w \in Workers : claim[d] = w /\ (d \in batch[w] \/ answer[w].of = d)

ClaimGoesStale(d) ==
    /\ hookStatus[d] = "processing" /\ d \notin stale
    /\ stale' = stale \cup {d}
    /\ IF InHand(d)
       THEN overruns < MaxOverruns /\ overruns' = overruns + 1
       ELSE UNCHANGED overruns
    /\ UNCHANGED <<log, active, hookStatus, attempts, claim, hookDue, run, crashes, reissues>>

\* next_attempt_at has passed.
BackoffEnds(d) ==
    /\ d \notin hookDue
    /\ hookDue' = hookDue \cup {d}
    /\ UNCHANGED <<log, active, hookStatus, attempts, claim, stale, run, crashes, reissues, overruns>>

\* The process running the batch dies: what it claimed stays "processing".
WorkerCrash(w) ==
    /\ crashes < HookCrashes
    /\ batch[w] # {} \/ answer[w] # NoAnswer
    /\ batch' = [batch EXCEPT ![w] = {}]
    /\ answer' = [answer EXCEPT ![w] = NoAnswer]
    /\ crashes' = crashes + 1
    /\ UNCHANGED <<table, reissues, overruns>>

\* retry_delivery: an administrator re-arms a failed delivery.
RetryDelivery(d) ==
    /\ hookStatus[d] = "failed"
    /\ reissues < MaxReissues
    /\ hookStatus' = [hookStatus EXCEPT ![d] = "retry"]
    /\ claim' = [claim EXCEPT ![d] = Nobody]
    /\ hookDue' = hookDue \cup {d}
    /\ reissues' = reissues + 1
    /\ UNCHANGED <<log, active, attempts, stale, run, crashes, overruns>>

\* revoke_client, and rotate_client, which makes the client active again.
RevokeClient(c) ==
    /\ c \in active
    /\ reissues < MaxReissues
    /\ active' = active \ {c}
    /\ reissues' = reissues + 1
    /\ UNCHANGED <<log, hookStatus, attempts, claim, stale, hookDue, run, crashes, overruns>>

RotateClient(c) ==
    /\ active' = active \cup {c}
    /\ UNCHANGED <<log, hookStatus, attempts, claim, stale, hookDue, run, crashes, reissues, overruns>>

Dispatch(w) == Claim(w) \/ Record(w) \/ \E d \in Deliveries : Post(w, d)

HookNext ==
    \/ \E e \in HookEvents : EnqueueEvent(e)
    \/ \E w \in Workers : Dispatch(w) \/ WorkerCrash(w)
    \/ \E d \in Deliveries : ClaimGoesStale(d) \/ BackoffEnds(d) \/ RetryDelivery(d)
    \/ \E c \in Clients : RevokeClient(c) \/ RotateClient(c)

HookSpec == HookInit /\ [][HookNext]_hookVars

\* Cron keeps calling the dispatch route, a run once started goes on unless
\* it crashes, and time passes.  Administrators need never act.
WebhookFairness ==
    /\ \A w \in Workers : WF_hookVars(Dispatch(w))
    /\ \A d \in Deliveries : WF_hookVars(ClaimGoesStale(d)) /\ WF_hookVars(BackoffEnds(d))

HookFairSpec == HookSpec /\ WebhookFairness

-----------------------------------------------------------------------------
(* Properties.                                                             *)

\* Claim fencing: once delivered, a late answer of a worker whose claim was
\* taken over changes nothing any more.
DeliveredIsFinal ==
    [][\A d \in Deliveries :
          hookStatus[d] = "delivered" => hookStatus'[d] = "delivered" /\ attempts'[d] = attempts[d]]_hookVars

\* Every enqueued delivery ends delivered or failed, or its client is
\* revoked: crashes and stale claims only delay it.
EveryDeliverySettles ==
    \A d \in Deliveries :
        hookStatus[d] # "none" /\ attempts[d] < HookAttempts ~>
            hookStatus[d] \in {"delivered", "failed"} \/ d[2] \notin active

\* "Einen endgültig fehlgeschlagenen Versuch können sie ... kontrolliert
\* erneut freigeben" (docs/operator-api.md): a re-armed delivery is sent
\* again.  retry_delivery leaves attempt_count at its maximum, which the
\* claim excludes: the delivery stays in "retry" for ever.
RetriedIsDispatched ==
    \A d \in Deliveries :
        hookStatus[d] = "retry" ~> hookStatus[d] # "retry" \/ d[2] \notin active
=============================================================================
