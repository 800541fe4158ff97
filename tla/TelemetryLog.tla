---------------------------- MODULE TelemetryLog ----------------------------
(***************************************************************************)
(* What the collector and the ingestion of telemetry promise together: a   *)
(* sample is taken, counted at most once and in the order of its numbers,  *)
(* and let go by the collector only when it was counted, when its time has *)
(* passed or when the disk it was on is replaced.                          *)
(***************************************************************************)
EXTENDS Naturals, SequencesExt

CONSTANT Past(_, _)   \* Past(s, now): the collector need not hold s any longer

VARIABLES
    kept,   \* samples the collector holds
    log,    \* samples counted by the server, in order
    now,
    life    \* which disk the collector writes to

logVars == <<kept, log, now, life>>

LogInit == kept = {} /\ log = <<>> /\ now = 0 /\ life = 0

MayLetGo(gone) == \A s \in gone : s \in ToSet(log) \/ Past(s, now)

\* A new sample has a larger number than every one kept or counted.
Take(s) ==
    /\ \A t \in kept \cup ToSet(log) : t.number < s.number
    /\ MayLetGo(kept \ kept')
    /\ kept' \ kept = {s}
    /\ UNCHANGED <<log, now, life>>

LetGo == kept' \subseteq kept /\ MayLetGo(kept \ kept') /\ UNCHANGED <<log, now, life>>

\* The batch after the counted samples, in rising order.
Count ==
    /\ IsPrefix(log, log')
    /\ \A i \in DOMAIN log' : \A j \in Len(log) + 1 .. Len(log') :
           i < j => log'[i].number < log'[j].number
    /\ UNCHANGED <<kept, now, life>>

\* The disk of the collector is replaced, and what it held is lost with it.
Lose == life' = life + 1 /\ kept' = {} /\ UNCHANGED <<log, now>>

Pass == now' = now + 1 /\ UNCHANGED <<kept, log, life>>

LogNext == (\E s \in kept' : Take(s)) \/ LetGo \/ Count \/ Lose \/ Pass

LogSpec == LogInit /\ [][LogNext]_logVars
=============================================================================
