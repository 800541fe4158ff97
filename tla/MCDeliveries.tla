---------------------------- MODULE MCDeliveries ----------------------------
(* What reaches the system from outside and must be in once: files of a    *)
(* grid operator, samples of a household's devices, and entries of the     *)
(* registry.  They share no state; part says which one a behaviour is      *)
(* about.  A run of the import is due at once, so its fairness is asked of *)
(* the behaviours about files only.                                        *)
EXTENDS MCMeteringImport, TelemetryDelivery, LegRegistry

VARIABLE part

\* Two readings, one of them without a time and one of an interval.
MCKindOf == [r \in Readings |-> r]

\* Entries are submitted, and then asked about; two runs are after the same one.
Asking == {c \in Crons : nudge[c].open # {} \/ nudge[c].of # NoListing}
RegistryScope ==
    /\ Asking # {} \/ requests > 0 => \A s \in Submitters : submission[s] = 0
    /\ Cardinality(Asking) > 1 => Cardinality({e \in Listings : listing[e] # NoListing}) = 1

\* At most one late post: it arrives while, or after, later ones are answered.
SampleScope == Cardinality({p \in posts : ~p.heard}) <= 1

MCInit ==
    /\ part \in {"files", "samples", "registry"}
    /\ Init /\ DeliveryInit /\ RegistryInit

\* The second failure finds an operator's retry reporting.
FaultScope == faults' > 1 => faults > 1 \/ \E p \in Workers : proc[p].key # NoKey /\ At(p, "report")

\* Only files must go on; the others may come to rest within their bounds.
MCNext ==
    \/ part = "files" /\ Next /\ FaultScope /\ UNCHANGED <<deliveryVars, registryVars, part>>
    \/ part = "samples" /\ DeliveryNext /\ SampleScope' /\ UNCHANGED <<vars, registryVars, part>>
    \/ part = "registry" /\ RegistryNext /\ RegistryScope' /\ UNCHANGED <<vars, deliveryVars, part>>
    \/ part # "files" /\ UNCHANGED <<vars, deliveryVars, registryVars, part>>

\* Fairness, where files are what it is about.
FilesFairness ==
    /\ WF_vars(part = "files" /\ NewDay)
    /\ \A p \in Workers : WF_vars(part = "files" /\ run_due(p)) /\ WF_vars(part = "files" /\ RunStep(p))

MCSpec ==
    /\ MCInit /\ [][MCNext]_<<vars, deliveryVars, registryVars, part>>
    /\ FilesFairness /\ DeliveryFairness

\* The tables keep their types, and the spool, the posts under way and the failed
\* attempts stay within their limits (telemetry_collector.py _flush_locked), and
\* a fresh entry of the registry was confirmed by its contact (store/registry.py).
RecordsOK ==
    /\ TypeOK /\ DeliveryTypeOK /\ RegistryTypeOK
    /\ RegistryHolds
=============================================================================
