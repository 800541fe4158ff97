------------------------ MODULE MCOperatorWebhooks ------------------------
(* Two events and two clients, each subscribed to one of them, so that one *)
(* event must not reach the other's client.                                *)
EXTENDS OperatorWebhooks

CONSTANTS e1, e2, c1, c2

MCSubscribed == [c \in Clients |-> IF c = c1 THEN {e1} ELSE {e2}]
===========================================================================
