---------------------------- MODULE MCOperators ----------------------------
(* What others must be served in the end: cases about invoices, webhooks,  *)
(* and the interest of households.  They share no state; part says which   *)
(* one a behaviour is about, and in the initial states no fair action of   *)
(* the others is enabled.                                                  *)
(*                                                                         *)
(* Every case is about the same invoice; two events and two clients, each  *)
(* subscribed to one of them, so that an event must not reach the other's  *)
(* client.                                                                 *)
EXTENDS InvoiceQueries, OperatorWebhooks, Registration

CONSTANTS inv, e1, e2, c1, c2

VARIABLE part

MCInvoiceOf == [c \in Cases |-> inv]
MCSubscribed == [c \in Clients |-> IF c = c1 THEN {e1} ELSE {e2}]

MCInit ==
    /\ part \in {"queries", "webhooks", "interest"}
    /\ QueryInit /\ HookInit /\ RegInit

\* Cases and interest may come to rest within their bounds, webhook runs may not.
MCNext ==
    \/ part = "queries" /\ QueryNext /\ UNCHANGED <<hookVars, regVars, part>>
    \/ part = "webhooks" /\ HookNext /\ UNCHANGED <<queryVars, regVars, part>>
    \/ part = "interest" /\ RegNext /\ UNCHANGED <<queryVars, hookVars, part>>
    \/ part # "webhooks" /\ UNCHANGED <<queryVars, hookVars, regVars, part>>

MCSpec ==
    /\ MCInit /\ [][MCNext]_<<queryVars, hookVars, regVars, part>>
    /\ ReminderFairness
    /\ WebhookFairness
    /\ RegFairness

TypesOK == QueryTypeOK /\ HookTypeOK /\ RegTypeOK

\* The tables keep their types; the history of a case leads to its status, one
\* reminder is on record for one overdue deadline, and a key of an operator's
\* program stands for one reply (store/invoice_query.py).
RecordsOK == TypesOK /\ HistoryLeadsToStatus /\ RemindedOnce /\ KeyedRepliesOnce
=============================================================================
