------------------------ MODULE MCInvoiceLifecycle ------------------------
(* Two invoices of one household, one sent by e-mail and one by portal     *)
(* download, so that either can replace the other, and two concurrent      *)
(* requests.                                                               *)
EXTENDS InvoiceLifecycle

CONSTANTS i1, i2, h1

MCParticipant == [i \in Invoices |-> h1]
MCMethod == [i \in Invoices |-> IF i = i1 THEN "email" ELSE "download"]
===========================================================================
