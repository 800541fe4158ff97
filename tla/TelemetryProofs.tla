--------------------------- MODULE TelemetryProofs ---------------------------
(***************************************************************************)
(* The delivery of telemetry samples implements the promise of             *)
(* TelemetryLog: whatever is lost, late, repeated or replaced, a sample is *)
(* counted at most once, in the order of its number, and kept until then.  *)
(* And of the notices about them the owner acknowledges what there is now, *)
(* never an outbreak that ended unseen.  What a household says it did      *)
(* about an advisory is about its device and a notice that stands.         *)
(***************************************************************************)
EXTENDS TelemetryDelivery, TelemetryNotices, DeviceAdvisories, FiniteSetTheorems, SequenceTheorems, TLAPS

-----------------------------------------------------------------------------
(* The inductive invariant.                                                *)

\* A sample with any number, of any life of the device.
AnySamples == [number : Nat, life : Nat, at : Nat, kind : Kinds]
\* A batch is a finite set of samples.
Batches == {b \in SUBSET AnySamples : IsFiniteSet(b)}
\* A post on its way, with the credential it was sent under.
AnyPosts == [batch : Batches, token : Nat, charged : BOOLEAN, heard : BOOLEAN]
\* A flush under way and what it was answered.
Flushings == [batch : Batches, answer : Answers \cup {Nothing}]
\* A rotation of the credential under way.
Rotations == [credential : Nat, highwater : Nat]

\* The types of the agent, the network and the platform.
DeliveryTypes ==
    /\ now \in Nat /\ number \in Nat /\ life \in Nat /\ highwater \in Nat
    /\ token \in Nat /\ credential \in Nat
    /\ spool \in Batches /\ posts \subseteq AnyPosts
    /\ flushing \in Flushings \cup {Nothing}
    /\ issued \in Rotations \cup {Nothing}
    /\ \A row \in stored : row.sample \in ToSet(log)
    /\ log \in Seq(AnySamples)

\* No sample is numbered above n.
Below(samples, n) == \A s \in samples : s.number <= n

\* What was counted lies below the highwater, and nothing above the number of
\* the collector exists that could still be counted.
NumbersRise ==
    /\ highwater <= number /\ Below(ToSet(log), highwater) /\ Below(spool, number)
    /\ \A p \in posts : p.token = token => Below(p.batch, number)

\* Credentials are used in the order they were issued.  While the collector has
\* not taken up the last one the highwater it was told stands still.
CredentialsRise ==
    /\ 1 <= token /\ token <= LastIssued /\ credential \in {0, LastIssued}
    /\ \A p \in posts : 1 <= p.token /\ p.token <= token
    /\ token < LastIssued => issued # Nothing /\ issued.highwater = highwater

\* The flusher listens to one post at most, and its batch is the head of the
\* spool; it hears of a success only when the batch was counted.
FlushIsHeard ==
    /\ \A p \in posts : p.heard =>
           flushing # Nothing /\ flushing.answer = Nothing /\ p.batch = flushing.batch
    /\ \A p, q \in posts : p.heard /\ q.heard => p = q
    /\ flushing # Nothing =>
           /\ Below(flushing.batch, number)
           /\ \A s \in Acknowledged(flushing.batch) : s \in flushing.batch
           /\ flushing.answer = "ok" => flushing.batch \subseteq ToSet(log)

\* The inductive invariant behind CountsOnceInOrder.
DeliveryInv == DeliveryTypes /\ NumbersRise /\ CredentialsRise /\ FlushIsHeard

-----------------------------------------------------------------------------
(* Sequences of samples.                                                   *)

\* What is put after a list leaves the list in place and adds its elements.
LEMMA PutAfter ==
    ASSUME NEW S, NEW s \in Seq(S), NEW t \in Seq(S)
    PROVE  IsPrefix(s, s \o t) /\ ToSet(s \o t) = ToSet(s) \cup ToSet(t)
<1>1. s \o t \in Seq(S) /\ Len(s \o t) = Len(s) + Len(t)
  BY ConcatProperties
<1>2. Len(s) \in Nat /\ Len(t) \in Nat
  BY LenProperties
<1>3. DOMAIN s = 1 .. Len(s) /\ DOMAIN t = 1 .. Len(t)
  BY LenProperties
<1>4. DOMAIN (s \o t) = 1 .. Len(s) + Len(t)
  BY <1>1, LenProperties
<1>5. \A i \in 1 .. Len(s) + Len(t) : (s \o t)[i] = IF i <= Len(s) THEN s[i] ELSE t[i - Len(s)]
  BY ConcatProperties
<1>6. IsPrefix(s, s \o t)
  <2>1. CASE Len(s) = 0
    <3>1. SubSeq(s, 1, Len(s)) = << >> /\ SubSeq(s \o t, 1, Len(s)) = << >>
      BY <1>1, <2>1, SubSeqEmpty
    <3> QED
      BY <1>1, <1>2, <3>1 DEF IsPrefix
  <2>2. CASE Len(s) # 0
    <3>1. 1 \in 1 .. Len(s) /\ Len(s) \in 1 .. Len(s)
      BY <1>2, <2>2
    <3>2. SubSeq(s \o t, 1, Len(s)) = SubSeq(s, 1, Len(s))
      BY <3>1, SubSeqOfConcat1
    <3> QED
      BY <1>1, <1>2, <3>2 DEF IsPrefix
  <2> QED
    BY <2>1, <2>2
<1>7. ASSUME NEW x \in ToSet(s \o t)
      PROVE  x \in ToSet(s) \cup ToSet(t)
  <2>1. PICK i \in 1 .. Len(s) + Len(t) : (s \o t)[i] = x
    BY <1>4 DEF ToSet
  <2>2. CASE i <= Len(s)
    <3>1. i \in DOMAIN s /\ s[i] = x
      BY <1>2, <1>3, <1>5, <2>1, <2>2
    <3> QED
      BY <3>1 DEF ToSet
  <2>3. CASE ~ (i <= Len(s))
    <3>1. i - Len(s) \in DOMAIN t /\ t[i - Len(s)] = x
      BY <1>2, <1>3, <1>5, <2>1, <2>3
    <3> QED
      BY <3>1 DEF ToSet
  <2> QED
    BY <2>2, <2>3
<1>8. ASSUME NEW x \in ToSet(s) \cup ToSet(t)
      PROVE  x \in ToSet(s \o t)
  <2>1. CASE x \in ToSet(s)
    <3>1. PICK i \in 1 .. Len(s) : s[i] = x
      BY <1>3, <2>1 DEF ToSet
    <3>2. i \in DOMAIN (s \o t) /\ (s \o t)[i] = x
      BY <1>2, <1>4, <1>5, <3>1
    <3> QED
      BY <3>2 DEF ToSet
  <2>2. CASE x \in ToSet(t)
    <3>1. PICK i \in 1 .. Len(t) : t[i] = x
      BY <1>3, <2>2 DEF ToSet
    <3>2. Len(s) + i \in 1 .. Len(s) + Len(t) /\ ~ (Len(s) + i <= Len(s)) /\ (Len(s) + i) - Len(s) = i
      BY <1>2
    <3>3. (s \o t)[Len(s) + i] = x
      BY <1>5, <3>1, <3>2
    <3> QED
      BY <1>4, <3>2, <3>3 DEF ToSet
  <2> QED
    BY <1>8, <2>1, <2>2
<1> QED
  BY <1>6, <1>7, <1>8

\* A batch put in order is a list of its samples with rising numbers.
LEMMA OrderedBatch ==
    ASSUME NEW samples \in Batches, NEW list \in InOrder(samples)
    PROVE  /\ list \in Seq(AnySamples) /\ ToSet(list) = samples
           /\ \A i, j \in 1 .. Len(list) : i < j => list[i].number < list[j].number
<1> DEFINE n == Cardinality(samples)
<1>1. n \in Nat
  BY FS_CardinalityType DEF Batches
<1>2. list \in [1 .. n -> samples] /\ samples \subseteq AnySamples
  BY DEF InOrder, Batches
<1>3. list \in Seq(AnySamples)
  <2>1. list \in [1 .. n -> AnySamples]
    BY <1>2
  <2> QED
    BY <1>1, <2>1, SeqDef
<1>4. DOMAIN list = 1 .. Len(list) /\ DOMAIN list = 1 .. n
  BY <1>2, <1>3, LenProperties
<1>5. ToSet(list) = samples
  <2>1. \A s \in samples : \E i \in DOMAIN list : list[i] = s
    BY DEF InOrder
  <2> QED
    BY <1>2, <1>4, <2>1 DEF ToSet
<1>6. \A i, j \in DOMAIN list : i < j => list[i].number < list[j].number
  BY DEF InOrder
<1> QED
  BY <1>3, <1>4, <1>5, <1>6

-----------------------------------------------------------------------------
(* Each step as a step of the log.                                         *)

\* Both modules take the operators on sequences from the same library.
LEMMA SameOperators ==
    ASSUME NEW s, NEW t
    PROVE  Log!ToSet(s) = ToSet(s) /\ Log!IsPrefix(s, t) = IsPrefix(s, t)
BY DEF Log!ToSet, ToSet, Log!IsPrefix, IsPrefix

\* What the collector drops for its age has passed.
LEMMA DroppedHavePassed ==
    ASSUME NEW gone \in SUBSET (spool \ _expire(spool))
    PROVE  Log!MayLetGo(gone)
BY DEF _expire, Log!MayLetGo

\* A new sample has a number above all that were kept or counted.
LEMMA EnqueueTakes ==
    ASSUME DeliveryInv, NEW r \in Readings, enqueue(r)
    PROVE  Log!LogNext
<1>1. UNCHANGED <<log, now, life>>
  BY DEF enqueue, serverVars
<1>2. CASE spool' = _expire(spool)
  <2>1. spool' \subseteq spool
    BY <1>2 DEF _expire
  <2>2. Log!MayLetGo(spool \ spool')
    BY <1>2, DroppedHavePassed
  <2> QED
    BY <1>1, <2>1, <2>2 DEF Log!LogNext, Log!LetGo
<1>3. CASE spool' = _expire(spool) \cup
                 {[number |-> number + 1, life |-> life, at |-> now, kind |-> KindOf[r]]}
  <2> DEFINE s == [number |-> number + 1, life |-> life, at |-> now, kind |-> KindOf[r]]
  <2>1. s.number = number + 1
    OBVIOUS
  <2>2. \A t \in spool \cup ToSet(log) : t.number < s.number
    <3>1. ASSUME NEW t \in spool
          PROVE  t.number < number + 1
      <4>1. t.number \in Nat /\ number \in Nat /\ t.number <= number
        BY <3>1 DEF DeliveryInv, DeliveryTypes, NumbersRise, Below, Batches, AnySamples
      <4> QED
        BY <4>1
    <3>2. ASSUME NEW t \in ToSet(log)
          PROVE  t.number < number + 1
      <4>1. t \in AnySamples
        <5>1. log \in Seq(AnySamples)
          BY DEF DeliveryInv, DeliveryTypes
        <5>2. PICK i \in 1 .. Len(log) : log[i] = t
          BY <3>2, <5>1, LenProperties DEF ToSet
        <5> QED
          BY <5>1, <5>2, ElementOfSeq
      <4>2. t.number \in Nat /\ number \in Nat /\ highwater \in Nat
        BY <4>1 DEF DeliveryInv, DeliveryTypes, AnySamples
      <4>3. t.number <= highwater /\ highwater <= number
        BY <3>2 DEF DeliveryInv, NumbersRise, Below
      <4> QED
        BY <4>2, <4>3
    <3> QED
      BY <2>1, <3>1, <3>2
  <2>3. s \notin spool
    <3>1. s \in spool => s.number < s.number
      BY <2>2
    <3>2. number \in Nat
      BY DEF DeliveryInv, DeliveryTypes
    <3> HIDE DEF s
    <3> QED
      BY <2>1, <3>1, <3>2
  <2>4. spool' \ spool = {s}
    BY <1>3, <2>3 DEF _expire
  <2>5. Log!MayLetGo(spool \ spool')
    <3>1. spool \ spool' \subseteq spool \ _expire(spool)
      BY <1>3
    <3> QED
      BY <3>1, DroppedHavePassed
  <2> QED
    BY <1>1, <2>2, <2>4, <2>5, SameOperators DEF Log!LogNext, Log!Take
<1> QED
  BY <1>2, <1>3 DEF enqueue

\* The flusher drops what has passed before it posts.
LEMMA FlushLetsGo ==
    ASSUME flush_once
    PROVE  Log!LogNext
<1>1. UNCHANGED <<log, now, life>> /\ spool' = _expire(spool)
  BY DEF flush_once, serverVars
<1>2. spool' \subseteq spool
  BY <1>1 DEF _expire
<1>3. Log!MayLetGo(spool \ spool')
  BY <1>1, DroppedHavePassed
<1> QED
  BY <1>1, <1>2, <1>3 DEF Log!LogNext, Log!LetGo

\* After an answer it lets go of nothing but what was counted.
LEMMA AnswerLetsGo ==
    ASSUME DeliveryInv, _flush_locked
    PROVE  Log!LogNext
<1>1. UNCHANGED <<log, now, life>>
  BY DEF _flush_locked, serverVars
<1>2. CASE flushing.answer = "ok"
  <2>1. spool' = spool \ Acknowledged(flushing.batch) /\ flushing # Nothing
    BY <1>2 DEF _flush_locked
  <2>2. Acknowledged(flushing.batch) \subseteq ToSet(log)
    BY <1>2, <2>1 DEF DeliveryInv, FlushIsHeard
  <2>3. Log!MayLetGo(spool \ spool')
    BY <2>1, <2>2, SameOperators DEF Log!MayLetGo
  <2>4. spool' \subseteq spool
    BY <2>1
  <2> QED
    BY <1>1, <2>3, <2>4 DEF Log!LogNext, Log!LetGo
<1>3. CASE flushing.answer # "ok"
  <2>1. spool' = spool
    BY <1>3 DEF _flush_locked
  <2>2. spool \ spool' = {} /\ spool' \subseteq spool
    BY <2>1
  <2>3. Log!MayLetGo(spool \ spool')
    BY <2>2 DEF Log!MayLetGo
  <2> QED
    BY <1>1, <2>2, <2>3 DEF Log!LogNext, Log!LetGo
<1> QED
  BY <1>2, <1>3

\* What a batch adds to the log comes after the rest, with larger numbers, and
\* the highwater follows.
LEMMA CountedInOrder ==
    ASSUME DeliveryTypes, Below(ToSet(log), highwater), NEW samples \in Batches,
           \A s \in samples : s.number > highwater, StoreSamples(samples)
    PROVE  /\ IsPrefix(log, log') /\ log' \in Seq(AnySamples)
           /\ \A i \in DOMAIN log' : \A j \in Len(log) + 1 .. Len(log') :
                  i < j => log'[i].number < log'[j].number
           /\ ToSet(log') = ToSet(log) \cup samples
           /\ highwater' \in Nat /\ highwater <= highwater' /\ Below(samples, highwater')
           /\ highwater' = highwater \/ \E s \in samples : s.number = highwater'
           /\ \A row \in stored' : row.sample \in ToSet(log')
<1>1. log \in Seq(AnySamples) /\ highwater \in Nat
  BY DEF DeliveryTypes
<1>2. PICK list \in InOrder(samples) : log' = log \o list
  BY DEF StoreSamples
<1>3. list \in Seq(AnySamples) /\ ToSet(list) = samples
  BY OrderedBatch
<1>4. IsPrefix(log, log') /\ ToSet(log') = ToSet(log) \cup samples
  BY <1>1, <1>2, <1>3, PutAfter
<1>5. log' \in Seq(AnySamples) /\ Len(log') = Len(log) + Len(list)
  BY <1>1, <1>2, <1>3, ConcatProperties
<1>6. Len(log) \in Nat /\ Len(list) \in Nat /\ DOMAIN log = 1 .. Len(log) /\ DOMAIN list = 1 .. Len(list)
  BY <1>1, <1>3, LenProperties
<1>7. DOMAIN log' = 1 .. Len(log) + Len(list)
  BY <1>5, LenProperties
<1>8. \A i \in 1 .. Len(log) + Len(list) : log'[i] = IF i <= Len(log) THEN log[i] ELSE list[i - Len(log)]
  BY <1>1, <1>2, <1>3, ConcatProperties
<1>9. ASSUME NEW i \in DOMAIN log', NEW j \in Len(log) + 1 .. Len(log'), i < j
      PROVE  log'[i].number < log'[j].number
  <2>1. i \in 1 .. Len(log) + Len(list) /\ j \in 1 .. Len(log) + Len(list) /\ ~ (j <= Len(log))
    BY <1>5, <1>6, <1>7
  <2>2. j - Len(log) \in 1 .. Len(list) /\ log'[j] = list[j - Len(log)]
    BY <1>5, <1>6, <1>8, <2>1
  <2>3. CASE i <= Len(log)
    <3>1. i \in DOMAIN log /\ log'[i] = log[i]
      BY <1>6, <1>8, <2>1, <2>3
    <3>2. log[i] \in ToSet(log) /\ log[i] \in AnySamples
      BY <1>1, <1>6, <3>1, ElementOfSeq DEF ToSet
    <3>3. list[j - Len(log)] \in samples /\ list[j - Len(log)] \in AnySamples
      BY <1>3, <1>6, <2>2, ElementOfSeq DEF ToSet
    <3>4. log[i].number <= highwater /\ list[j - Len(log)].number > highwater
      BY <3>2, <3>3 DEF Below
    <3>5. log[i].number \in Nat /\ list[j - Len(log)].number \in Nat
      BY <3>2, <3>3 DEF AnySamples
    <3> QED
      BY <1>1, <2>2, <3>1, <3>4, <3>5
  <2>4. CASE ~ (i <= Len(log))
    <3>1. i - Len(log) \in 1 .. Len(list) /\ log'[i] = list[i - Len(log)]
      BY <1>6, <1>8, <2>1, <2>4
    <3>2. i - Len(log) < j - Len(log)
      BY <1>6, <1>9, <2>1
    <3>3. list[i - Len(log)].number < list[j - Len(log)].number
      BY <2>2, <3>1, <3>2, OrderedBatch
    <3> QED
      BY <2>2, <3>1, <3>3
  <2> QED
    BY <2>3, <2>4
<1>10. \A n \in Numbers(samples) : n \in Nat
  BY DEF Numbers, Batches, AnySamples
<1>11. highwater' \in {highwater} \cup Numbers(samples) /\ \A n \in {highwater} \cup Numbers(samples) : n <= highwater'
  BY DEF StoreSamples
<1>12. highwater' \in Nat /\ highwater <= highwater' /\ Below(samples, highwater')
  BY <1>1, <1>10, <1>11 DEF Below, Numbers
<1>13. highwater' = highwater \/ \E s \in samples : s.number = highwater'
  BY <1>11 DEF Numbers
<1>14. \A row \in stored' : row.sample \in ToSet(log')
  <2>1. stored' = stored \cup {[sample |-> s, received |-> now] : s \in samples}
    BY DEF StoreSamples
  <2>2. \A row \in stored : row.sample \in ToSet(log)
    BY DEF DeliveryTypes
  <2> QED
    BY <1>4, <2>1, <2>2
<1> QED
  BY <1>4, <1>5, <1>9, <1>12, <1>13, <1>14

\* A post that is counted carries the credential of the collector, the last one
\* issued, and numbers up to its own.
LEMMA CountedPost ==
    ASSUME DeliveryInv, NEW p \in posts, ~Refuses(p)
    PROVE  /\ token = LastIssued /\ Below(p.batch, number)
           /\ \A s \in p.batch \ Known(p.batch) : s.number > highwater
           /\ p.batch \ Known(p.batch) \in Batches
           /\ Known(p.batch) \subseteq ToSet(log)
<1>1. p \in AnyPosts /\ token \in Nat /\ credential \in Nat
  BY DEF DeliveryInv, DeliveryTypes
<1>2. p.token = credential /\ p.token \in Nat /\ p.batch \in Batches
  BY <1>1 DEF Refuses, _authenticate, AnyPosts
<1>3. 1 <= p.token /\ p.token <= token /\ token <= LastIssued /\ credential \in {0, LastIssued}
  BY DEF DeliveryInv, CredentialsRise
<1>4. p.token = token /\ token = LastIssued
  BY <1>1, <1>2, <1>3
<1>5. Below(p.batch, number)
  BY <1>4 DEF DeliveryInv, NumbersRise
<1>6. \A s \in p.batch \ Known(p.batch) : s.number > highwater
  <2>1. \A s \in p.batch \ Known(p.batch) : ~ (s.number <= highwater)
    BY DEF Refuses, Replays
  <2>2. \A s \in p.batch : s.number \in Nat
    BY <1>2 DEF Batches, AnySamples
  <2>3. highwater \in Nat
    BY DEF DeliveryInv, DeliveryTypes
  <2> QED
    BY <2>1, <2>2, <2>3
<1>7. p.batch \ Known(p.batch) \in Batches
  <2>1. p.batch \ Known(p.batch) \subseteq p.batch
    OBVIOUS
  <2> QED
    BY <1>2, <2>1, FS_Subset DEF Batches
<1>8. Known(p.batch) \subseteq ToSet(log)
  <2>1. \A row \in stored : row.sample \in ToSet(log)
    BY DEF DeliveryInv, DeliveryTypes
  <2> QED
    BY <2>1 DEF Known
<1> QED
  BY <1>4, <1>5, <1>6, <1>7, <1>8

\* A batch is counted as a whole or not at all.
LEMMA IngestCounts ==
    ASSUME DeliveryInv, NEW p \in posts, ingest(p)
    PROVE  Log!LogNext
<1>1. UNCHANGED <<spool, now, life>>
  BY DEF ingest, collectorVars
<1>2. CASE Refuses(p)
  <2>1. UNCHANGED <<spool, log, now, life>>
    BY <1>1, <1>2 DEF ingest, serverVars
  <2>2. Log!MayLetGo(spool \ spool') /\ spool' \subseteq spool
    BY <2>1 DEF Log!MayLetGo
  <2> QED
    BY <2>1, <2>2 DEF Log!LogNext, Log!LetGo
<1>3. CASE ~Refuses(p)
  <2> DEFINE samples == p.batch \ Known(p.batch)
  <2>1. StoreSamples(samples)
    BY <1>3 DEF ingest
  <2>2. samples \in Batches /\ \A s \in samples : s.number > highwater
    BY <1>3, CountedPost
  <2>3. DeliveryTypes /\ Below(ToSet(log), highwater)
    BY DEF DeliveryInv, NumbersRise
  <2> HIDE DEF samples
  <2>4. IsPrefix(log, log')
    BY <2>1, <2>2, <2>3, CountedInOrder
  <2>5. \A i \in DOMAIN log' : \A j \in Len(log) + 1 .. Len(log') :
            i < j => log'[i].number < log'[j].number
    BY <2>1, <2>2, <2>3, CountedInOrder
  <2> QED
    BY <1>1, <2>4, <2>5, SameOperators DEF Log!LogNext, Log!Count
<1> QED
  BY <1>2, <1>3

\* The other steps touch neither the log nor the spool, lose the disk, or are
\* the clock's.
LEMMA OtherSteps ==
    ASSUME \/ BackedOff \/ resume \/ FlusherDies \/ configuration
           \/ cleanup \/ rotate \/ Withdrawn \/ SetRetention \/ Tick
           \/ \E p \in posts : TimesOut(p) \/ charge_ingestion(p)
           \/ UNCHANGED deliveryVars
    PROVE  Log!LogNext \/ UNCHANGED <<spool, log, now, life>>
<1>1. CASE configuration
  <2>1. life' = life + 1 /\ spool' = {} /\ UNCHANGED <<log, now>>
    BY <1>1 DEF configuration, serverVars
  <2> QED
    BY <2>1 DEF Log!LogNext, Log!Lose
<1>2. CASE Tick
  <2>1. now' = now + 1 /\ UNCHANGED <<spool, log, life>>
    BY <1>2 DEF Tick, collectorVars, serverVars
  <2> QED
    BY <2>1 DEF Log!LogNext, Log!Pass
<1>3. CASE BackedOff \/ resume \/ FlusherDies \/ cleanup \/ rotate \/ Withdrawn \/ SetRetention
           \/ (\E p \in posts : TimesOut(p) \/ charge_ingestion(p)) \/ UNCHANGED deliveryVars
  BY <1>3 DEF BackedOff, resume, FlusherDies, cleanup, rotate, Withdrawn, SetRetention, TimesOut,
       charge_ingestion, deliveryVars, collectorVars, serverVars
<1> QED
  BY <1>1, <1>2, <1>3

-----------------------------------------------------------------------------
(* Type correctness.                                                       *)

\* A part of a batch is a batch.
LEMMA PartOfBatch ==
    ASSUME NEW b \in Batches, NEW c \in SUBSET b
    PROVE  c \in Batches
BY FS_Subset DEF Batches

\* Posts with a flag changed, or under way no longer, are posts.
LEMMA FlaggedPosts ==
    ASSUME NEW p \in AnyPosts
    PROVE  [p EXCEPT !.heard = FALSE] \in AnyPosts /\ [p EXCEPT !.charged = TRUE] \in AnyPosts
BY DEF AnyPosts

\* An answer reaches the flusher that listens.
LEMMA AnsweredFlush ==
    ASSUME NEW f \in Flushings, NEW code \in Answers
    PROVE  [f EXCEPT !.answer = code] \in Flushings
BY DEF Flushings

\* Enqueueing keeps the types.
LEMMA EnqueueTypes ==
    ASSUME DeliveryInv, NEW r \in Readings, enqueue(r)
    PROVE  DeliveryTypes'
<1>1. DeliveryTypes
  BY DEF DeliveryInv
<1>2. _expire(spool) \in Batches
  BY <1>1, PartOfBatch DEF DeliveryTypes, _expire
<1>3. number' \in Nat /\ spool' \in Batches
  <2>1. CASE spool' = _expire(spool) /\ number' = number
    BY <1>1, <1>2, <2>1 DEF DeliveryTypes
  <2>2. CASE /\ number' = number + 1
             /\ spool' = _expire(spool) \cup
                    {[number |-> number + 1, life |-> life, at |-> now, kind |-> KindOf[r]]}
    <3> DEFINE s == [number |-> number + 1, life |-> life, at |-> now, kind |-> KindOf[r]]
    <3>1. KindOf[r] \in Kinds
      BY TelemetryAssumption DEF Kinds
    <3>2. s \in AnySamples /\ number' \in Nat
      BY <1>1, <2>2, <3>1 DEF DeliveryTypes, AnySamples
    <3>3. IsFiniteSet(_expire(spool) \cup {s})
      BY <1>2, FS_AddElement DEF Batches
    <3> HIDE DEF s
    <3>4. _expire(spool) \cup {s} \in Batches
      BY <1>2, <3>2, <3>3 DEF Batches
    <3> QED
      BY <2>2, <3>2, <3>4 DEF s
  <2> QED
    BY <2>1, <2>2 DEF enqueue
<1>4. UNCHANGED <<now, life, token, flushing, posts, highwater, credential, issued, stored, log>>
  BY DEF enqueue, serverVars
<1> QED
  BY <1>1, <1>3, <1>4 DEF DeliveryTypes

\* Posting a batch keeps the types.
LEMMA FlushTypes ==
    ASSUME DeliveryInv, flush_once
    PROVE  DeliveryTypes'
<1>1. DeliveryTypes
  BY DEF DeliveryInv
<1>2. spool' \in Batches
  BY <1>1, PartOfBatch DEF DeliveryTypes, _expire, flush_once
<1>3. UNCHANGED <<now, number, life, token, highwater, credential, issued, stored, log>>
  BY DEF flush_once, serverVars
<1>4. posts' \subseteq AnyPosts /\ flushing' \in Flushings \cup {Nothing}
  <2>1. CASE UNCHANGED <<flushing, posts>>
    BY <1>1, <2>1 DEF DeliveryTypes
  <2>2. CASE ~ UNCHANGED <<flushing, posts>>
    <3> DEFINE batch == FirstOf(spool')
    <3>1. /\ flushing' = [batch |-> batch, answer |-> Nothing]
          /\ posts' = posts \cup
                 {[batch |-> batch, token |-> token, charged |-> FALSE, heard |-> TRUE]}
      BY <2>2 DEF flush_once
    <3>2. batch \in Batches
      BY <1>2, PartOfBatch DEF FirstOf
    <3> HIDE DEF batch
    <3>3. token \in Nat /\ posts \subseteq AnyPosts
      BY <1>1 DEF DeliveryTypes
    <3>4. [batch |-> batch, token |-> token, charged |-> FALSE, heard |-> TRUE] \in AnyPosts
      BY <3>2, <3>3 DEF AnyPosts
    <3>5. flushing' \in Flushings
      BY <3>1, <3>2 DEF Flushings
    <3> QED
      BY <3>1, <3>3, <3>4, <3>5
  <2> QED
    BY <2>1, <2>2
<1> QED
  BY <1>1, <1>2, <1>3, <1>4 DEF DeliveryTypes

\* Answering a post keeps the types of posts and flushes.
LEMMA AnswerTypes ==
    ASSUME DeliveryInv, NEW p \in posts, NEW code \in Answers, Answer(p, code)
    PROVE  posts' \subseteq AnyPosts /\ flushing' \in Flushings \cup {Nothing}
<1>1. posts \subseteq AnyPosts /\ flushing \in Flushings \cup {Nothing}
  BY DEF DeliveryInv, DeliveryTypes
<1>2. posts' \subseteq AnyPosts
  BY <1>1 DEF Answer
<1>3. CASE p.heard
  <2>1. flushing \in Flushings
    BY <1>1, <1>3 DEF DeliveryInv, FlushIsHeard
  <2>2. flushing' = [flushing EXCEPT !.answer = code]
    BY <1>3 DEF Answer
  <2> QED
    BY <1>2, <2>1, <2>2, AnsweredFlush
<1>4. CASE ~p.heard
  BY <1>1, <1>2, <1>4 DEF Answer
<1> QED
  BY <1>3, <1>4

\* Ingesting a batch keeps the types.
LEMMA IngestTypes ==
    ASSUME DeliveryInv, NEW p \in posts, ingest(p)
    PROVE  DeliveryTypes'
<1>1. DeliveryTypes
  BY DEF DeliveryInv
<1>2. UNCHANGED <<now, number, life, token, spool, credential, issued>>
  BY DEF ingest, collectorVars, serverVars
<1>3. posts' \subseteq AnyPosts /\ flushing' \in Flushings \cup {Nothing}
  <2>1. Answer(p, "refused") \/ Answer(p, "ok")
    BY DEF ingest
  <2>2. "refused" \in Answers /\ "ok" \in Answers
    BY DEF Answers
  <2> QED
    BY <2>1, <2>2, AnswerTypes
<1>4. /\ highwater' \in Nat /\ log' \in Seq(AnySamples)
      /\ \A row \in stored' : row.sample \in ToSet(log')
  <2>1. CASE Refuses(p)
    <3>1. UNCHANGED <<highwater, log, stored>>
      BY <2>1 DEF ingest, serverVars
    <3> QED
      BY <1>1, <3>1 DEF DeliveryTypes
  <2>2. CASE ~Refuses(p)
    <3> DEFINE samples == p.batch \ Known(p.batch)
    <3>1. StoreSamples(samples)
      BY <2>2 DEF ingest
    <3>2. samples \in Batches /\ \A s \in samples : s.number > highwater
      BY <2>2, CountedPost
    <3>3. Below(ToSet(log), highwater)
      BY DEF DeliveryInv, NumbersRise
    <3> HIDE DEF samples
    <3> QED
      BY <1>1, <3>1, <3>2, <3>3, CountedInOrder
  <2> QED
    BY <2>1, <2>2
<1> QED
  BY <1>1, <1>2, <1>3, <1>4 DEF DeliveryTypes

\* Giving up on an answer keeps the types.
LEMMA TimeOutTypes ==
    ASSUME DeliveryInv, NEW p \in posts, TimesOut(p)
    PROVE  DeliveryTypes'
<1>1. DeliveryTypes
  BY DEF DeliveryInv
<1>2. flushing \in Flushings
  BY <1>1 DEF TimesOut, DeliveryInv, DeliveryTypes, FlushIsHeard
<1>3. flushing' \in Flushings
  <2>1. "retry" \in Answers
    BY DEF Answers
  <2> QED
    BY <1>2, <2>1, AnsweredFlush DEF TimesOut
<1>4. posts' \subseteq AnyPosts
  BY <1>1, FlaggedPosts DEF TimesOut, DeliveryTypes
<1>5. UNCHANGED <<now, number, life, token, spool, highwater, credential, issued, stored, log>>
  BY DEF TimesOut, collectorVars, serverVars
<1> QED
  BY <1>1, <1>3, <1>4, <1>5 DEF DeliveryTypes

\* Charging the rate limit keeps the types.
LEMMA ChargeTypes ==
    ASSUME DeliveryInv, NEW p \in posts, charge_ingestion(p)
    PROVE  DeliveryTypes'
<1>1. DeliveryTypes
  BY DEF DeliveryInv
<1>2. posts' \subseteq AnyPosts /\ flushing' \in Flushings \cup {Nothing}
  <2>1. CASE posts' = (posts \ {p}) \cup {[p EXCEPT !.charged = TRUE]} /\ UNCHANGED flushing
    BY <1>1, <2>1, FlaggedPosts DEF DeliveryTypes
  <2>2. CASE Answer(p, "retry") \/ Answer(p, "refused")
    BY <2>2, AnswerTypes DEF Answers
  <2> QED
    BY <2>1, <2>2 DEF charge_ingestion
<1>3. UNCHANGED <<now, number, life, token, spool, highwater, credential, issued, stored, log>>
  BY DEF charge_ingestion, collectorVars, serverVars
<1> QED
  BY <1>1, <1>2, <1>3 DEF DeliveryTypes

\* The death of the agent keeps the types.
LEMMA DeathTypes ==
    ASSUME DeliveryInv, FlusherDies
    PROVE  DeliveryTypes'
<1>1. DeliveryTypes
  BY DEF DeliveryInv
<1>2. posts' \subseteq AnyPosts
  BY <1>1, FlaggedPosts DEF FlusherDies, Deafened, DeliveryTypes
<1>3. flushing' = Nothing
  BY DEF FlusherDies
<1>4. UNCHANGED <<now, number, life, token, spool, highwater, credential, issued, stored, log>>
  BY DEF FlusherDies, collectorVars, serverVars
<1> QED
  BY <1>1, <1>2, <1>3, <1>4 DEF DeliveryTypes

\* A collector that takes up the last credential, alone or with its highwater.
LEMMA TakeUpTypes ==
    ASSUME DeliveryInv, (resume /\ token' # token) \/ configuration
    PROVE  DeliveryTypes' /\ issued # Nothing /\ token' = issued.credential /\ flushing = Nothing
<1>1. DeliveryTypes
  BY DEF DeliveryInv
<1>2. issued # Nothing /\ token' = issued.credential /\ flushing = Nothing
  BY DEF resume, configuration
<1>3. issued \in Rotations
  BY <1>1, <1>2 DEF DeliveryTypes
<1>4. token' \in Nat
  BY <1>2, <1>3 DEF Rotations
<1>5. number' \in Nat /\ life' \in Nat /\ spool' \in Batches
  <2>1. CASE resume
    BY <1>1, <2>1 DEF DeliveryTypes, resume
  <2>2. CASE configuration
    <3>1. {} \in Batches
      BY FS_EmptySet DEF Batches
    <3> QED
      BY <1>1, <1>3, <2>2, <3>1 DEF DeliveryTypes, configuration, Rotations
  <2> QED
    BY <2>1, <2>2
<1>6. UNCHANGED <<now, flushing, posts, highwater, credential, issued, stored, log>>
  BY DEF resume, configuration, serverVars
<1> QED
  BY <1>1, <1>2, <1>4, <1>5, <1>6 DEF DeliveryTypes

\* A collector that resumes with the credential it has.
LEMMA PlainResume ==
    ASSUME DeliveryInv, resume, token' = token
    PROVE  DeliveryInv'
<1>1. UNCHANGED <<now, spool, number, life, token, flushing, posts, highwater, credential, issued, stored, log>>
  BY DEF resume, serverVars
<1>2. DeliveryTypes'
  BY <1>1 DEF DeliveryInv, DeliveryTypes
<1>3. NumbersRise' /\ CredentialsRise' /\ FlushIsHeard'
  BY <1>1 DEF DeliveryInv, NumbersRise, CredentialsRise, FlushIsHeard, Below, Acknowledged, LastIssued
<1> QED
  BY <1>2, <1>3 DEF DeliveryInv

\* Applying the answer to the spool keeps the types.
LEMMA LockedTypes ==
    ASSUME DeliveryInv, _flush_locked
    PROVE  DeliveryTypes'
<1>1. DeliveryTypes
  BY DEF DeliveryInv
<1>2. spool' \in Batches
  <2>1. spool' \subseteq spool
    BY DEF _flush_locked
  <2> QED
    BY <1>1, <2>1, PartOfBatch DEF DeliveryTypes
<1>3. flushing' = Nothing
  BY DEF _flush_locked
<1>4. UNCHANGED <<now, number, life, token, posts, highwater, credential, issued, stored, log>>
  BY DEF _flush_locked, serverVars
<1> QED
  BY <1>1, <1>2, <1>3, <1>4 DEF DeliveryTypes

\* The owner's acts, the clean-up, the clock and the end of a back-off.
LEMMA QuietTypes ==
    ASSUME DeliveryInv, BackedOff \/ cleanup \/ rotate \/ Withdrawn \/ SetRetention \/ Tick
    PROVE  DeliveryTypes'
<1>1. DeliveryTypes
  BY DEF DeliveryInv
<1>2. UNCHANGED <<number, life, token, spool, flushing, posts, highwater, log>>
  BY DEF BackedOff, cleanup, rotate, Withdrawn, SetRetention, Tick, collectorVars, serverVars
<1>3. stored' \subseteq stored
  BY DEF BackedOff, cleanup, rotate, Withdrawn, SetRetention, Tick, serverVars, _cleanup
<1>4. now' \in Nat
  BY <1>1 DEF BackedOff, cleanup, rotate, Withdrawn, SetRetention, Tick, DeliveryTypes
<1>5. credential' \in Nat /\ issued' \in Rotations \cup {Nothing}
  <2>1. CASE rotate
    <3>1. LastIssued \in Nat
      BY <1>1 DEF DeliveryTypes, LastIssued, Rotations
    <3>2. LastIssued + 1 \in Nat
      BY <3>1
    <3>3. highwater \in Nat /\ credential' = LastIssued + 1
          /\ issued' = [credential |-> LastIssued + 1, highwater |-> highwater]
      BY <1>1, <2>1 DEF rotate, DeliveryTypes
    <3> QED
      BY <3>2, <3>3 DEF Rotations
  <2>2. CASE BackedOff \/ cleanup \/ Withdrawn \/ SetRetention \/ Tick
    <3>1. UNCHANGED issued /\ credential' \in {credential, 0}
      BY <2>2 DEF BackedOff, cleanup, Withdrawn, SetRetention, Tick, serverVars
    <3> QED
      BY <1>1, <3>1 DEF DeliveryTypes
  <2> QED
    BY <2>1, <2>2
<1> QED
  BY <1>1, <1>2, <1>3, <1>4, <1>5 DEF DeliveryTypes

-----------------------------------------------------------------------------
(* Numbers and credentials rise.                                           *)

\* Numbers and credentials only rise.
Rise == NumbersRise /\ CredentialsRise

\* Every post was under way before, with its batch and its credential.
PostsStay == \A q \in posts' : \E p \in posts : q.batch = p.batch /\ q.token = p.token

\* Marking a post as charged or heard leaves its samples alone.
LEMMA FlagsOnly ==
    ASSUME NEW p \in AnyPosts
    PROVE  /\ [p EXCEPT !.heard = FALSE].batch = p.batch /\ [p EXCEPT !.heard = FALSE].token = p.token
           /\ [p EXCEPT !.charged = TRUE].batch = p.batch /\ [p EXCEPT !.charged = TRUE].token = p.token
           /\ ~[p EXCEPT !.heard = FALSE].heard /\ [p EXCEPT !.charged = TRUE].heard = p.heard
BY DEF AnyPosts

\* What the network does leaves the samples of every post alone.
LEMMA NetworkKeepsPosts ==
    ASSUME DeliveryInv,
           FlusherDies \/ \E p \in posts : TimesOut(p) \/ charge_ingestion(p) \/ ingest(p)
    PROVE  PostsStay
<1>1. posts \subseteq AnyPosts
  BY DEF DeliveryInv, DeliveryTypes
<1>2. CASE FlusherDies
  <2>1. posts' = {[p EXCEPT !.heard = FALSE] : p \in posts}
    BY <1>2 DEF FlusherDies, Deafened
  <2>2. ASSUME NEW q \in posts'
        PROVE  \E p \in posts : q.batch = p.batch /\ q.token = p.token
    <3>1. PICK p \in posts : q = [p EXCEPT !.heard = FALSE]
      BY <2>1
    <3>2. p \in AnyPosts
      BY <1>1
    <3>3. q.batch = p.batch /\ q.token = p.token
      BY <3>1, <3>2, FlagsOnly
    <3> QED
      BY <3>3
  <2> QED
    BY <2>2 DEF PostsStay
<1>3. ASSUME NEW p \in posts, TimesOut(p)
      PROVE  PostsStay
  <2> DEFINE deaf == [p EXCEPT !.heard = FALSE]
  <2>1. deaf.batch = p.batch /\ deaf.token = p.token
    BY <1>1, FlagsOnly
  <2>2. posts' \subseteq posts \cup {deaf}
    BY <1>3 DEF TimesOut
  <2> HIDE DEF deaf
  <2>3. \A q \in posts' : q = deaf \/ q \in posts
    BY <2>2
  <2> QED
    BY <2>1, <2>3 DEF PostsStay
<1>4. ASSUME NEW p \in posts, charge_ingestion(p)
      PROVE  PostsStay
  <2>1. CASE posts' = (posts \ {p}) \cup {[p EXCEPT !.charged = TRUE]}
    <3> DEFINE charged == [p EXCEPT !.charged = TRUE]
    <3>1. charged.batch = p.batch /\ charged.token = p.token
      BY <1>1, FlagsOnly
    <3>2. posts' \subseteq posts \cup {charged}
      BY <2>1
    <3> HIDE DEF charged
    <3>3. \A q \in posts' : q = charged \/ q \in posts
      BY <3>2
    <3> QED
      BY <3>1, <3>3 DEF PostsStay
  <2>2. CASE posts' = posts \ {p}
    BY <2>2 DEF PostsStay
  <2> QED
    BY <1>4, <2>1, <2>2 DEF charge_ingestion, Answer
<1>5. ASSUME NEW p \in posts, ingest(p)
      PROVE  PostsStay
  <2>1. posts' = posts \ {p}
    BY <1>5 DEF ingest, Answer
  <2> QED
    BY <2>1 DEF PostsStay
<1> QED
  BY <1>2, <1>3, <1>4, <1>5

\* What depends on posts alone, when the rest stands still.
LEMMA RiseWithPosts ==
    ASSUME DeliveryInv, PostsStay,
           UNCHANGED <<spool, number, token, credential, issued, highwater, log>>
    PROVE  Rise'
<1>1. NumbersRise'
  <2>1. \A q \in posts' : q.token = token => Below(q.batch, number)
    BY DEF PostsStay, DeliveryInv, NumbersRise
  <2>2. highwater <= number /\ Below(ToSet(log), highwater) /\ Below(spool, number)
    BY DEF DeliveryInv, NumbersRise
  <2> QED
    BY <2>1, <2>2 DEF NumbersRise, Below
<1>2. CredentialsRise'
  BY DEF PostsStay, DeliveryInv, CredentialsRise, LastIssued
<1> QED
  BY <1>1, <1>2 DEF Rise

\* Charging, giving up and dying keep Rise.
LEMMA RiseOnNetwork ==
    ASSUME DeliveryInv, FlusherDies \/ \E p \in posts : TimesOut(p) \/ charge_ingestion(p)
    PROVE  Rise'
<1>1. PostsStay
  BY NetworkKeepsPosts
<1>2. UNCHANGED <<spool, number, token, credential, issued, highwater, log>>
  BY DEF FlusherDies, TimesOut, charge_ingestion, collectorVars, serverVars
<1> QED
  BY <1>1, <1>2, RiseWithPosts

\* Ingesting a batch keeps Rise.
LEMMA RiseOnIngest ==
    ASSUME DeliveryInv, NEW p \in posts, ingest(p)
    PROVE  Rise'
<1>1. PostsStay
  BY NetworkKeepsPosts
<1>2. UNCHANGED <<spool, number, token, credential, issued>>
  BY DEF ingest, collectorVars, serverVars
<1>3. CASE Refuses(p)
  <2>1. UNCHANGED <<highwater, log>>
    BY <1>3 DEF ingest, serverVars
  <2> QED
    BY <1>1, <1>2, <2>1, RiseWithPosts
<1>4. CASE ~Refuses(p)
  <2> DEFINE samples == p.batch \ Known(p.batch)
  <2>1. StoreSamples(samples)
    BY <1>4 DEF ingest
  <2>2. samples \in Batches /\ \A s \in samples : s.number > highwater
    BY <1>4, CountedPost
  <2>3. DeliveryTypes /\ Below(ToSet(log), highwater) /\ highwater <= number
    BY DEF DeliveryInv, NumbersRise
  <2>4. token = LastIssued /\ Below(samples, number)
    BY <1>4, CountedPost DEF Below
  <2> HIDE DEF samples
  <2>5. /\ ToSet(log') = ToSet(log) \cup samples
        /\ highwater' \in Nat /\ highwater <= highwater' /\ Below(samples, highwater')
        /\ highwater' = highwater \/ \E s \in samples : s.number = highwater'
    BY <2>1, <2>2, <2>3, CountedInOrder
  <2>6. highwater' <= number
    BY <2>3, <2>4, <2>5 DEF Below
  <2>7. Below(ToSet(log'), highwater')
    <3>1. ASSUME NEW t \in ToSet(log)
          PROVE  t.number <= highwater'
      <4>1. t \in AnySamples
        <5>1. log \in Seq(AnySamples)
          BY <2>3 DEF DeliveryTypes
        <5>2. PICK i \in 1 .. Len(log) : log[i] = t
          BY <3>1, <5>1, LenProperties DEF ToSet
        <5> QED
          BY <5>1, <5>2, ElementOfSeq
      <4>2. t.number \in Nat /\ highwater \in Nat /\ t.number <= highwater
        BY <2>3, <3>1, <4>1 DEF AnySamples, DeliveryTypes, Below
      <4> QED
        BY <2>5, <4>2
    <3> QED
      BY <2>5, <3>1 DEF Below
  <2>8. NumbersRise'
    <3>1. \A q \in posts' : q.token = token => Below(q.batch, number)
      BY <1>1 DEF PostsStay, DeliveryInv, NumbersRise
    <3>2. Below(spool, number)
      BY DEF DeliveryInv, NumbersRise
    <3> QED
      BY <1>2, <2>6, <2>7, <3>1, <3>2 DEF NumbersRise, Below
  <2>9. CredentialsRise'
    <3>1. LastIssued' = LastIssued /\ LastIssued \in Nat
      BY <1>2, <2>3 DEF LastIssued, DeliveryTypes, Rotations
    <3>2. ~ (token < LastIssued)
      BY <2>4, <3>1
    <3> QED
      BY <1>1, <1>2, <3>1, <3>2 DEF PostsStay, DeliveryInv, CredentialsRise
  <2> QED
    BY <2>8, <2>9 DEF Rise
<1> QED
  BY <1>3, <1>4

\* The collector keeps what it has, or adds a sample with the next number.
LEMMA RiseOnSpool ==
    ASSUME DeliveryInv, _flush_locked \/ \E r \in Readings : enqueue(r)
    PROVE  Rise'
<1>1. DeliveryTypes /\ NumbersRise /\ CredentialsRise
  BY DEF DeliveryInv
<1>2. UNCHANGED <<token, posts, highwater, credential, issued, log>>
  BY DEF enqueue, _flush_locked, serverVars
<1>3. number' \in {number, number + 1} /\ \A s \in spool' : s \in spool \/ s.number = number'
  <2>1. CASE _flush_locked
    BY <2>1 DEF _flush_locked
  <2>2. ASSUME NEW r \in Readings, enqueue(r)
        PROVE  number' \in {number, number + 1} /\ \A s \in spool' : s \in spool \/ s.number = number'
    BY <2>2 DEF enqueue, _expire
  <2> QED
    BY <2>1, <2>2
<1>4. number \in Nat /\ highwater \in Nat
  BY <1>1 DEF DeliveryTypes
<1>5. Below(spool', number')
  <2>1. ASSUME NEW s \in spool, s.number <= number
        PROVE  s.number <= number'
    <3>1. s.number \in Nat
      BY <1>1, <2>1 DEF DeliveryTypes, Batches, AnySamples
    <3> QED
      BY <1>3, <1>4, <2>1, <3>1
  <2>2. Below(spool, number)
    BY <1>1 DEF NumbersRise
  <2>3. number' <= number'
    BY <1>3, <1>4
  <2> QED
    BY <1>3, <2>1, <2>2, <2>3 DEF Below
<1>6. \A p \in posts : p.token = token => Below(p.batch, number')
  <2>1. ASSUME NEW p \in posts, p.token = token, NEW s \in p.batch
        PROVE  s.number <= number'
    <3>1. s.number \in Nat
      BY <1>1, <2>1 DEF DeliveryTypes, AnyPosts, Batches, AnySamples
    <3>2. s.number <= number
      BY <1>1, <2>1 DEF NumbersRise, Below
    <3> QED
      BY <1>3, <1>4, <3>1, <3>2
  <2> QED
    BY <2>1 DEF Below
<1>7. NumbersRise'
  <2>1. highwater' <= number' /\ Below(ToSet(log'), highwater')
    BY <1>1, <1>2, <1>3, <1>4 DEF NumbersRise
  <2> QED
    BY <1>2, <1>5, <1>6, <2>1 DEF NumbersRise
<1>8. CredentialsRise'
  BY <1>1, <1>2 DEF CredentialsRise, LastIssued
<1> QED
  BY <1>7, <1>8 DEF Rise

\* A new post carries the credential of the collector.
LEMMA RiseOnFlush ==
    ASSUME DeliveryInv, flush_once
    PROVE  Rise'
<1>1. DeliveryTypes /\ NumbersRise /\ CredentialsRise
  BY DEF DeliveryInv
<1>2. UNCHANGED <<number, token, highwater, credential, issued, log>>
  BY DEF flush_once, serverVars
<1>3. spool' \subseteq spool
  BY DEF flush_once, _expire
<1>4. \A p \in posts' : p \in posts \/ (p.batch \subseteq spool /\ p.token = token)
  <2> DEFINE batch == FirstOf(spool')
             new == [batch |-> batch, token |-> token, charged |-> FALSE, heard |-> TRUE]
  <2>1. posts' \subseteq posts \cup {new}
    BY DEF flush_once
  <2>2. batch \subseteq spool
    BY <1>3 DEF FirstOf
  <2> HIDE DEF batch
  <2>3. new.batch \subseteq spool /\ new.token = token
    BY <2>2
  <2> HIDE DEF new
  <2> QED
    BY <2>1, <2>3
<1>5. Below(spool, number) /\ token \in Nat /\ 1 <= token
  BY <1>1 DEF NumbersRise, CredentialsRise, DeliveryTypes
<1>6. NumbersRise'
  <2>1. \A p \in posts' : p.token = token => Below(p.batch, number)
    BY <1>1, <1>4, <1>5 DEF NumbersRise, Below
  <2>2. Below(spool', number)
    BY <1>3, <1>5 DEF Below
  <2>3. highwater <= number /\ Below(ToSet(log), highwater)
    BY <1>1 DEF NumbersRise
  <2> QED
    BY <1>2, <2>1, <2>2, <2>3 DEF NumbersRise
<1>7. CredentialsRise'
  <2>1. token <= token
    BY <1>5
  <2>2. \A p \in posts' : 1 <= p.token /\ p.token <= token
    BY <1>1, <1>4, <1>5, <2>1 DEF CredentialsRise
  <2> QED
    BY <1>1, <1>2, <2>2 DEF CredentialsRise, LastIssued
<1> QED
  BY <1>6, <1>7 DEF Rise

\* Once the last credential is taken up no older post can be counted, so a new
\* spool goes on from the highwater it was told.
LEMMA RiseOnTakeUp ==
    ASSUME DeliveryInv, (resume /\ token' # token) \/ configuration
    PROVE  Rise'
<1>1. DeliveryTypes /\ NumbersRise /\ CredentialsRise
  BY DEF DeliveryInv
<1>2. issued # Nothing /\ token' = issued.credential
  BY TakeUpTypes
<1>3. LastIssued = issued.credential /\ LastIssued \in Nat /\ token \in Nat
  BY <1>1, <1>2 DEF LastIssued, DeliveryTypes, Rotations
<1>4. token # token'
  BY <1>2 DEF resume, configuration
<1>5. token < LastIssued /\ 1 <= LastIssued /\ token' = LastIssued
  BY <1>1, <1>2, <1>3, <1>4 DEF CredentialsRise
<1>6. issued.highwater = highwater
  BY <1>1, <1>5 DEF CredentialsRise
<1>7. UNCHANGED <<posts, highwater, credential, issued, log>>
  BY DEF resume, configuration, serverVars
<1>8. \A p \in posts : 1 <= p.token /\ p.token < token'
  <2>1. \A p \in posts : p.token \in Nat
    BY <1>1 DEF DeliveryTypes, AnyPosts
  <2> QED
    BY <1>1, <1>3, <1>5, <2>1 DEF CredentialsRise
<1>9. highwater' <= number' /\ Below(spool', number')
  <2>1. CASE resume
    BY <1>1, <1>7, <2>1 DEF resume, NumbersRise
  <2>2. CASE configuration
    <3>1. spool' = {} /\ number' = highwater /\ highwater \in Nat
      BY <1>1, <1>6, <2>2 DEF configuration, DeliveryTypes
    <3> QED
      BY <1>7, <3>1 DEF Below
  <2> QED
    BY <2>1, <2>2
<1>10. \A p \in posts : p.token # token'
  <2>1. \A p \in posts : p.token \in Nat
    BY <1>1 DEF DeliveryTypes, AnyPosts
  <2> QED
    BY <1>3, <1>5, <1>8, <2>1
<1>11. NumbersRise'
  BY <1>1, <1>7, <1>9, <1>10 DEF NumbersRise
<1>12. CredentialsRise'
  <2>1. LastIssued' = LastIssued
    BY <1>7 DEF LastIssued
  <2>2. \A p \in posts : p.token <= token'
    <3>1. \A p \in posts : p.token \in Nat
      BY <1>1 DEF DeliveryTypes, AnyPosts
    <3> QED
      BY <1>3, <1>5, <1>8, <3>1
  <2>3. 1 <= token' /\ token' <= LastIssued /\ ~ (token' < LastIssued)
    BY <1>3, <1>5
  <2>4. credential \in {0, LastIssued}
    BY <1>1 DEF CredentialsRise
  <2> QED
    BY <1>7, <1>8, <2>1, <2>2, <2>3, <2>4 DEF CredentialsRise
<1> QED
  BY <1>11, <1>12 DEF Rise

\* A rotation tells the highwater of its moment.
LEMMA RiseOnQuiet ==
    ASSUME DeliveryInv, BackedOff \/ cleanup \/ rotate \/ Withdrawn \/ SetRetention \/ Tick
    PROVE  Rise'
<1>1. DeliveryTypes /\ NumbersRise /\ CredentialsRise
  BY DEF DeliveryInv
<1>2. UNCHANGED <<number, token, spool, posts, highwater, log>>
  BY DEF BackedOff, cleanup, rotate, Withdrawn, SetRetention, Tick, collectorVars, serverVars
<1>3. NumbersRise'
  BY <1>1, <1>2 DEF NumbersRise
<1>4. CASE rotate
  <2>1. LastIssued \in Nat /\ token \in Nat /\ highwater \in Nat
    BY <1>1 DEF DeliveryTypes, LastIssued, Rotations
  <2>2. credential' = LastIssued + 1 /\ issued' = [credential |-> LastIssued + 1, highwater |-> highwater]
    BY <1>4 DEF rotate
  <2>3. issued' # Nothing
    BY <2>1, <2>2, NothingAssumption
  <2>4. LastIssued' = LastIssued + 1 /\ issued'.highwater = highwater
    BY <2>2, <2>3 DEF LastIssued
  <2>5. token <= LastIssued + 1
    BY <1>1, <2>1 DEF CredentialsRise
  <2>6. 1 <= token /\ \A p \in posts : 1 <= p.token /\ p.token <= token
    BY <1>1 DEF CredentialsRise
  <2>7. CredentialsRise'
    BY <1>2, <2>2, <2>3, <2>4, <2>5, <2>6 DEF CredentialsRise
  <2> QED
    BY <1>3, <2>7 DEF Rise
<1>5. CASE BackedOff \/ cleanup \/ Withdrawn \/ SetRetention \/ Tick
  <2>1. UNCHANGED issued /\ credential' \in {credential, 0}
    BY <1>5 DEF BackedOff, cleanup, Withdrawn, SetRetention, Tick, serverVars
  <2>2. CredentialsRise'
    BY <1>1, <1>2, <2>1 DEF CredentialsRise, LastIssued
  <2> QED
    BY <1>3, <2>2 DEF Rise
<1> QED
  BY <1>4, <1>5

-----------------------------------------------------------------------------
(* The flusher hears of a success only when its batch was counted.         *)

\* While a flush is under way its batch stays the head of the spool: samples
\* leave, and what is added has a larger number.
LEMMA HeardOnEnqueue ==
    ASSUME DeliveryInv, NEW r \in Readings, enqueue(r)
    PROVE  FlushIsHeard'
<1>1. DeliveryTypes /\ FlushIsHeard
  BY DEF DeliveryInv
<1>2. UNCHANGED <<flushing, posts, log>>
  BY DEF enqueue, serverVars
<1>3. ASSUME flushing # Nothing
      PROVE  /\ \A b \in flushing.batch : b.number <= number'
             /\ \A s \in spool' : (\E b \in flushing.batch : s.number <= b.number) => s \in flushing.batch
             /\ flushing.answer = "ok" => flushing.batch \subseteq ToSet(log)
  <2>1. number \in Nat /\ \A b \in flushing.batch : b.number \in Nat /\ b.number <= number
    BY <1>1, <1>3 DEF DeliveryTypes, FlushIsHeard, Flushings, Batches, AnySamples, Below
  <2>2. number' \in {number, number + 1}
    BY DEF enqueue
  <2>3. \A s \in spool' : s \in spool \/ s.number = number + 1
    BY DEF enqueue, _expire
  <2>4. \A s \in spool : (\E b \in flushing.batch : s.number <= b.number) => s \in flushing.batch
    BY <1>1, <1>3 DEF FlushIsHeard, Acknowledged
  <2>5. \A b \in flushing.batch : ~ (number + 1 <= b.number) /\ b.number <= number'
    BY <2>1, <2>2
  <2>6. flushing.answer = "ok" => flushing.batch \subseteq ToSet(log)
    BY <1>1, <1>3 DEF FlushIsHeard
  <2> QED
    BY <2>3, <2>4, <2>5, <2>6
<1> QED
  BY <1>1, <1>2, <1>3 DEF FlushIsHeard, Below, Acknowledged

\* The first samples of the spool, by number, are its head.
LEMMA FirstAreHead ==
    ASSUME NEW samples \in Batches, NEW s \in samples, NEW b \in FirstOf(samples), s.number <= b.number
    PROVE  s \in FirstOf(samples)
<1> DEFINE UpTo(t) == {u \in samples : u.number <= t.number}
<1>1. b \in samples /\ Cardinality(UpTo(b)) <= MAX_BATCH
  BY DEF FirstOf
<1>2. \A u \in samples : u.number \in Nat
  BY DEF Batches, AnySamples
<1>3. UpTo(s) \subseteq UpTo(b) /\ UpTo(b) \subseteq samples
  BY <1>1, <1>2
<1>4. IsFiniteSet(UpTo(b))
  BY <1>3, FS_Subset DEF Batches
<1>5. IsFiniteSet(UpTo(s)) /\ Cardinality(UpTo(s)) <= Cardinality(UpTo(b))
  BY <1>3, <1>4, FS_Subset
<1>6. Cardinality(UpTo(s)) \in Nat /\ Cardinality(UpTo(b)) \in Nat /\ MAX_BATCH \in Nat
  BY <1>4, <1>5, FS_CardinalityType, TelemetryAssumption
<1>7. Cardinality(UpTo(s)) <= MAX_BATCH
  BY <1>1, <1>5, <1>6
<1> QED
  BY <1>7 DEF FirstOf

\* Starting a flush keeps FlushIsHeard.
LEMMA HeardOnFlush ==
    ASSUME DeliveryInv, flush_once
    PROVE  FlushIsHeard'
<1>1. DeliveryTypes /\ FlushIsHeard /\ NumbersRise
  BY DEF DeliveryInv
<1>2. flushing = Nothing /\ \A p \in posts : ~p.heard
  BY <1>1 DEF flush_once, FlushIsHeard
<1>3. CASE UNCHANGED <<flushing, posts>>
  BY <1>2, <1>3 DEF FlushIsHeard
<1>4. CASE ~ UNCHANGED <<flushing, posts>>
  <2>1. PICK batch : batch = FirstOf(spool')
    OBVIOUS
  <2>2. /\ flushing' = [batch |-> batch, answer |-> Nothing]
        /\ posts' = posts \cup
               {[batch |-> batch, token |-> token, charged |-> FALSE, heard |-> TRUE]}
    BY <1>4, <2>1 DEF flush_once
  <2>3. spool' \in Batches /\ spool' \subseteq spool /\ UNCHANGED number
    BY <1>1, PartOfBatch DEF flush_once, _expire, DeliveryTypes
  <2>4. batch \in Batches
    BY <2>1, <2>3, PartOfBatch DEF FirstOf
  <2>5. flushing' # Nothing /\ flushing'.batch = batch /\ flushing'.answer = Nothing
    BY <2>2, <2>4, NothingAssumption DEF Batches, AnySamples
  <2>6. PICK post : post = [batch |-> batch, token |-> token, charged |-> FALSE, heard |-> TRUE]
    OBVIOUS
  <2>7. posts' = posts \cup {post} /\ post.batch = batch
    BY <2>2, <2>6
  <2>8. \A p \in posts' : p.heard => p = post
    BY <1>2, <2>7
  <2>9. Below(batch, number)
    BY <1>1, <2>1, <2>3 DEF NumbersRise, Below, FirstOf
  <2>10. \A s \in spool' : (\E b \in batch : s.number <= b.number) => s \in batch
    BY <2>1, <2>3, FirstAreHead
  <2>11. Nothing # "ok"
    BY NothingAssumption DEF Answers
  <2> QED
    BY <2>3, <2>5, <2>7, <2>8, <2>9, <2>10, <2>11 DEF FlushIsHeard, Acknowledged
<1> QED
  BY <1>3, <1>4

\* When the one who listened is answered, nobody listens any more.
LEMMA HeardOnAnswer ==
    ASSUME DeliveryInv, NEW p \in posts, p.heard, NEW code \in Answers,
           UNCHANGED <<spool, number>>, ToSet(log) \subseteq ToSet(log'),
           flushing' = [flushing EXCEPT !.answer = code],
           \A q \in posts' : q.heard => q \in posts /\ q # p,
           code = "ok" => p.batch \subseteq ToSet(log')
    PROVE  FlushIsHeard'
<1>1. DeliveryTypes /\ FlushIsHeard
  BY DEF DeliveryInv
<1>2. flushing \in Flushings /\ p.batch = flushing.batch
  BY <1>1 DEF DeliveryTypes, FlushIsHeard
<1>3. flushing' # Nothing /\ flushing'.batch = flushing.batch /\ flushing'.answer = code
  <2>1. flushing' \in Flushings
    BY <1>2, AnsweredFlush
  <2>2. flushing' # Nothing
    BY <2>1, NothingAssumption DEF Flushings, Batches, AnySamples
  <2> QED
    BY <1>2, <2>2 DEF Flushings
<1>4. \A q \in posts' : ~q.heard
  BY <1>1 DEF FlushIsHeard
<1>5. Below(flushing.batch, number)
      /\ \A s \in spool : (\E b \in flushing.batch : s.number <= b.number) => s \in flushing.batch
  <2>1. flushing # Nothing
    BY <1>1 DEF FlushIsHeard
  <2> QED
    BY <1>1, <2>1 DEF FlushIsHeard, Acknowledged
<1> QED
  BY <1>2, <1>3, <1>4, <1>5 DEF FlushIsHeard, Acknowledged

\* As long as the flusher is not answered it listens to the post it listened to.
LEMMA HeardOnOthers ==
    ASSUME DeliveryInv, UNCHANGED <<spool, number, flushing>>, ToSet(log) \subseteq ToSet(log'),
           \A q \in posts' : q.heard => \E p \in posts : p.heard /\ q.batch = p.batch,
           \A q, r \in posts' : q.heard /\ r.heard => q = r
    PROVE  FlushIsHeard'
<1>1. FlushIsHeard
  BY DEF DeliveryInv
<1>2. \A q \in posts' : q.heard =>
          flushing # Nothing /\ flushing.answer = Nothing /\ q.batch = flushing.batch
  BY <1>1 DEF FlushIsHeard
<1>3. flushing # Nothing =>
          /\ Below(flushing.batch, number)
          /\ \A s \in spool : (\E b \in flushing.batch : s.number <= b.number) => s \in flushing.batch
          /\ flushing.answer = "ok" => flushing.batch \subseteq ToSet(log')
  BY <1>1 DEF FlushIsHeard, Acknowledged
<1> QED
  BY <1>2, <1>3 DEF FlushIsHeard, Acknowledged

\* Charging and giving up keep FlushIsHeard.
LEMMA HeardOnNetwork ==
    ASSUME DeliveryInv, NEW p \in posts, TimesOut(p) \/ charge_ingestion(p)
    PROVE  FlushIsHeard'
<1>1. UNCHANGED <<spool, number, log>>
  BY DEF TimesOut, charge_ingestion, collectorVars, serverVars
<1>2. p \in AnyPosts /\ \A q, r \in posts : q.heard /\ r.heard => q = r
  BY DEF DeliveryInv, DeliveryTypes, FlushIsHeard
<1>3. CASE TimesOut(p)
  <2>1. PICK deaf : deaf = [p EXCEPT !.heard = FALSE]
    OBVIOUS
  <2>2. ~deaf.heard
    BY <1>2, <2>1, FlagsOnly
  <2>3. posts' \subseteq (posts \ {p}) \cup {deaf} /\ p.heard
    BY <1>3, <2>1 DEF TimesOut
  <2>4. \A q \in posts' : q.heard => q \in posts /\ q # p
    BY <2>2, <2>3
  <2>5. "retry" \in Answers /\ "retry" # "ok"
    BY DEF Answers
  <2>6. flushing' = [flushing EXCEPT !.answer = "retry"]
    BY <1>3 DEF TimesOut
  <2> QED
    BY <1>1, <2>3, <2>4, <2>5, <2>6, HeardOnAnswer
<1>4. CASE charge_ingestion(p)
  <2>1. CASE UNCHANGED flushing /\ posts' = (posts \ {p}) \cup {[p EXCEPT !.charged = TRUE]}
    <3>1. PICK charged : charged = [p EXCEPT !.charged = TRUE]
      OBVIOUS
    <3>2. charged.batch = p.batch /\ charged.heard = p.heard
      BY <1>2, <3>1, FlagsOnly
    <3>3. \A q \in posts' : q = charged \/ (q \in posts /\ q # p)
      BY <2>1, <3>1
    <3>4. \A q, r \in posts' : q.heard /\ r.heard => q = r
      BY <1>2, <3>2, <3>3
    <3>5. \A q \in posts' : q.heard => \E o \in posts : o.heard /\ q.batch = o.batch
      BY <3>2, <3>3
    <3> QED
      BY <1>1, <2>1, <3>4, <3>5, HeardOnOthers
  <2>2. ASSUME NEW code \in {"retry", "refused"}, Answer(p, code)
        PROVE  FlushIsHeard'
    <3>1. posts' = posts \ {p} /\ code \in Answers /\ code # "ok"
      BY <2>2 DEF Answer, Answers
    <3>2. CASE p.heard
      BY <1>1, <2>2, <3>1, <3>2, HeardOnAnswer DEF Answer
    <3>3. CASE ~p.heard
      BY <1>1, <1>2, <2>2, <3>1, <3>3, HeardOnOthers DEF Answer
    <3> QED
      BY <3>2, <3>3
  <2> QED
    BY <1>4, <2>1, <2>2 DEF charge_ingestion
<1> QED
  BY <1>3, <1>4

\* Ingesting a batch keeps FlushIsHeard.
LEMMA HeardOnIngest ==
    ASSUME DeliveryInv, NEW p \in posts, ingest(p)
    PROVE  FlushIsHeard'
<1>1. UNCHANGED <<spool, number>>
  BY DEF ingest, collectorVars
<1>2. \A q, r \in posts : q.heard /\ r.heard => q = r
  BY DEF DeliveryInv, FlushIsHeard
<1>3. PICK code \in {"refused", "ok"} :
          /\ Answer(p, code)
          /\ ToSet(log) \subseteq ToSet(log')
          /\ code = "ok" => p.batch \subseteq ToSet(log')
  <2>1. CASE Refuses(p)
    BY <2>1 DEF ingest, serverVars
  <2>2. CASE ~Refuses(p)
    <3> DEFINE samples == p.batch \ Known(p.batch)
    <3>1. StoreSamples(samples) /\ Answer(p, "ok")
      BY <2>2 DEF ingest
    <3>2. samples \in Batches /\ \A s \in samples : s.number > highwater
      BY <2>2, CountedPost
    <3>3. DeliveryTypes /\ Below(ToSet(log), highwater)
      BY DEF DeliveryInv, NumbersRise
    <3>4. Known(p.batch) \subseteq ToSet(log) /\ p.batch \subseteq samples \cup Known(p.batch)
      BY <2>2, CountedPost
    <3> HIDE DEF samples
    <3>5. ToSet(log') = ToSet(log) \cup samples
      BY <3>1, <3>2, <3>3, CountedInOrder
    <3> QED
      BY <3>1, <3>4, <3>5
  <2> QED
    BY <2>1, <2>2
<1>4. posts' = posts \ {p} /\ code \in Answers
  BY <1>3 DEF Answer, Answers
<1>5. CASE p.heard
  BY <1>1, <1>3, <1>4, <1>5, HeardOnAnswer DEF Answer
<1>6. CASE ~p.heard
  BY <1>1, <1>2, <1>3, <1>4, <1>6, HeardOnOthers DEF Answer
<1> QED
  BY <1>5, <1>6

\* Nobody flushes, or nothing of a flush changes.
LEMMA HeardOnRest ==
    ASSUME DeliveryInv,
           \/ _flush_locked \/ BackedOff \/ resume \/ FlusherDies \/ configuration
           \/ cleanup \/ rotate \/ Withdrawn \/ SetRetention \/ Tick
    PROVE  FlushIsHeard'
<1>1. FlushIsHeard /\ DeliveryTypes
  BY DEF DeliveryInv
<1>2. CASE _flush_locked
  <2>1. flushing' = Nothing /\ UNCHANGED posts /\ flushing.answer # Nothing
    BY <1>2, NothingAssumption DEF _flush_locked
  <2>2. \A p \in posts : ~p.heard
    BY <1>1, <2>1 DEF FlushIsHeard
  <2> QED
    BY <2>1, <2>2 DEF FlushIsHeard
<1>3. CASE resume \/ configuration
  <2>1. flushing = Nothing /\ UNCHANGED <<flushing, posts>>
    BY <1>3 DEF resume, configuration
  <2> QED
    BY <1>1, <2>1 DEF FlushIsHeard
<1>4. CASE FlusherDies
  <2>1. flushing' = Nothing /\ posts' = {[p EXCEPT !.heard = FALSE] : p \in posts}
    BY <1>4 DEF FlusherDies, Deafened
  <2>2. ASSUME NEW q \in posts'
        PROVE  ~q.heard
    <3>1. PICK p \in posts : q = [p EXCEPT !.heard = FALSE]
      BY <2>1
    <3>2. p \in AnyPosts
      BY <1>1 DEF DeliveryTypes
    <3> QED
      BY <3>1, <3>2, FlagsOnly
  <2> QED
    BY <2>1, <2>2 DEF FlushIsHeard
<1>5. CASE BackedOff \/ cleanup \/ rotate \/ Withdrawn \/ SetRetention \/ Tick
  <2>1. UNCHANGED <<spool, number, flushing, posts, log>>
    BY <1>5 DEF BackedOff, cleanup, rotate, Withdrawn, SetRetention, Tick, collectorVars, serverVars
  <2> QED
    BY <1>1, <2>1 DEF FlushIsHeard, Below, Acknowledged
<1> QED
  BY <1>2, <1>3, <1>4, <1>5

-----------------------------------------------------------------------------
(* The refinement.                                                         *)

\* The inductive invariant holds before the first sample.
LEMMA DeliveryInvInit ==
    DeliveryInit => DeliveryInv
<1> SUFFICES ASSUME DeliveryInit
             PROVE  DeliveryInv
  OBVIOUS
<1>1. {} \in Batches /\ << >> \in Seq(AnySamples) /\ ToSet(<< >>) = {}
  BY FS_EmptySet, EmptySeq DEF Batches, ToSet
<1>2. DeliveryTypes
  BY <1>1 DEF DeliveryInit, DeliveryTypes
<1>3. NumbersRise /\ CredentialsRise /\ FlushIsHeard
  BY <1>1 DEF DeliveryInit, NumbersRise, CredentialsRise, FlushIsHeard, Below, LastIssued
<1> QED
  BY <1>2, <1>3 DEF DeliveryInv

\* Every step keeps the inductive invariant.
LEMMA DeliveryInvStep ==
    DeliveryInv /\ [DeliveryNext]_deliveryVars => DeliveryInv'
<1> SUFFICES ASSUME DeliveryInv, [DeliveryNext]_deliveryVars
             PROVE  DeliveryInv'
  OBVIOUS
<1>1. CASE UNCHANGED deliveryVars
  BY <1>1 DEF deliveryVars, collectorVars, serverVars, DeliveryInv, DeliveryTypes, NumbersRise,
       CredentialsRise, FlushIsHeard, Below, Acknowledged, LastIssued
<1>2. ASSUME NEW r \in Readings, enqueue(r)
      PROVE  DeliveryInv'
  BY <1>2, EnqueueTypes, RiseOnSpool, HeardOnEnqueue DEF DeliveryInv, Rise
<1>3. CASE flush_once
  BY <1>3, FlushTypes, RiseOnFlush, HeardOnFlush DEF DeliveryInv, Rise
<1>4. CASE _flush_locked
  BY <1>4, LockedTypes, RiseOnSpool, HeardOnRest DEF DeliveryInv, Rise
<1>5. CASE FlusherDies
  BY <1>5, DeathTypes, RiseOnNetwork, HeardOnRest DEF DeliveryInv, Rise
<1>6. CASE (resume /\ token' # token) \/ configuration
  BY <1>6, TakeUpTypes, RiseOnTakeUp, HeardOnRest DEF DeliveryInv, Rise
<1>7. ASSUME NEW p \in posts, TimesOut(p)
      PROVE  DeliveryInv'
  BY <1>7, TimeOutTypes, RiseOnNetwork, HeardOnNetwork DEF DeliveryInv, Rise
<1>8. ASSUME NEW p \in posts, charge_ingestion(p)
      PROVE  DeliveryInv'
  BY <1>8, ChargeTypes, RiseOnNetwork, HeardOnNetwork DEF DeliveryInv, Rise
<1>9. ASSUME NEW p \in posts, ingest(p)
      PROVE  DeliveryInv'
  BY <1>9, IngestTypes, RiseOnIngest, HeardOnIngest DEF DeliveryInv, Rise
<1>10. CASE BackedOff \/ cleanup \/ rotate \/ Withdrawn \/ SetRetention \/ Tick
  BY <1>10, QuietTypes, RiseOnQuiet, HeardOnRest DEF DeliveryInv, Rise
<1>11. CASE resume /\ token' = token
  BY <1>11, PlainResume
<1> QED
  BY <1>1, <1>2, <1>3, <1>4, <1>5, <1>6, <1>7, <1>8, <1>9, <1>10, <1>11 DEF DeliveryNext

\* Every step is a step of the log, or leaves it alone.
LEMMA LogStep ==
    DeliveryInv /\ [DeliveryNext]_deliveryVars => [Log!LogNext]_(Log!logVars)
<1> SUFFICES ASSUME DeliveryInv, [DeliveryNext]_deliveryVars
             PROVE  Log!LogNext \/ UNCHANGED <<spool, log, now, life>>
  BY DEF Log!logVars
<1>1. ASSUME NEW r \in Readings, enqueue(r)
      PROVE  Log!LogNext
  BY <1>1, EnqueueTakes
<1>2. CASE flush_once
  BY <1>2, FlushLetsGo
<1>3. CASE _flush_locked
  BY <1>3, AnswerLetsGo
<1>4. ASSUME NEW p \in posts, ingest(p)
      PROVE  Log!LogNext
  BY <1>4, IngestCounts
<1>5. CASE \/ BackedOff \/ resume \/ FlusherDies \/ configuration
           \/ cleanup \/ rotate \/ Withdrawn \/ SetRetention \/ Tick
           \/ \E p \in posts : TimesOut(p) \/ charge_ingestion(p)
           \/ UNCHANGED deliveryVars
  BY <1>5, OtherSteps
<1> QED
  BY <1>1, <1>2, <1>3, <1>4, <1>5 DEF DeliveryNext

\* Samples are counted at most once and in the order of their numbers, and the
\* collector lets go of one only when it was counted, its day has passed or its
\* disk is replaced, for any number of readings, retries, late posts, rotations
\* and lost disks (telemetry_collector.py, store/telemetry.py ingest).
THEOREM CountsOnceInOrderHolds == DeliverySpec => CountsOnceInOrder
<1>1. DeliveryInit => Log!LogInit
  BY DEF DeliveryInit, Log!LogInit
<1>2. DeliverySpec => []DeliveryInv
  BY DeliveryInvInit, DeliveryInvStep, PTL DEF DeliverySpec
<1> QED
  BY <1>1, <1>2, LogStep, PTL DEF DeliverySpec, CountsOnceInOrder, Log!LogSpec

-----------------------------------------------------------------------------
(* Notices.  While projections were missed anything may be told; the one    *)
(* that comes next starts a new episode of whatever is active, above every  *)
(* episode that was ever told.                                              *)

\* A notice row with any episode.
AnyNotices == [active : BOOLEAN, episode : Nat, snoozed : BOOLEAN, clear : BOOLEAN]

\* The types of the notices.
NoticeTypes ==
    /\ DOMAIN notice = Conditions /\ \A c \in Conditions : notice[c] \in AnyNotices \cup {NoNotice}
    /\ DOMAIN told = Conditions /\ pending \in BOOLEAN

\* What was told is no later than the row it is about, and the same when the
\* row was looked at since.
ToldInTime ==
    \A c \in Conditions : told[c] # NoNotice =>
        /\ notice[c] # NoNotice
        /\ told[c].episode \in Nat /\ told[c].episode <= notice[c].episode

\* The inductive invariant behind AcknowledgedIsCurrent.
NoticeInv == NoticeTypes /\ ToldInTime /\ AcknowledgedIsCurrent

\* A missing row is not a row.
LEMMA NoRowIsNoNotice == NoNotice \notin AnyNotices
BY NoNoticeAssumption DEF AnyNotices

\* A row that is looked at after a missed projection.
LEMMA UncertainRow ==
    ASSUME NEW n \in AnyNotices \cup {NoNotice}
    PROVE  /\ Uncertain(n) \in AnyNotices \cup {NoNotice}
           /\ Uncertain(n) = NoNotice <=> n = NoNotice
           /\ n # NoNotice /\ n.active => Uncertain(n).active /\ Uncertain(n).episode = n.episode + 1
           /\ ~(n # NoNotice /\ n.active) => Uncertain(n) = n
<1>1. CASE n = NoNotice
  BY <1>1 DEF Uncertain
<1>2. CASE n # NoNotice /\ ~n.active
  BY <1>2 DEF Uncertain
<1>3. CASE n # NoNotice /\ n.active
  <2>1. Uncertain(n) = [active |-> TRUE, episode |-> n.episode + 1, snoozed |-> FALSE, clear |-> n.clear]
    BY <1>3 DEF Uncertain
  <2>2. n.episode + 1 \in Nat /\ n.clear \in BOOLEAN
    BY <1>3 DEF AnyNotices
  <2>3. Uncertain(n) \in AnyNotices
    BY <2>1, <2>2 DEF AnyNotices
  <2>4. Uncertain(n).active /\ Uncertain(n).episode = n.episode + 1
    BY <2>1
  <2> QED
    BY <1>3, <2>3, <2>4, NoRowIsNoNotice
<1> QED
  BY <1>1, <1>2, <1>3

\* A condition that holds keeps its active row, or starts an episode.
LEMMA RaisedRow ==
    ASSUME NEW n \in AnyNotices \cup {NoNotice}
    PROVE  /\ Raise(n) \in AnyNotices /\ Raise(n).active
           /\ n # NoNotice /\ n.active => Raise(n) = n
           /\ n # NoNotice /\ ~n.active => Raise(n).episode = n.episode + 1
BY DEF AnyNotices, Raise

\* One that does not hold has a row at rest, of the same episode.
LEMMA ResolvedRow ==
    ASSUME NEW n \in AnyNotices \cup {NoNotice}, NEW c, NEW r
    PROVE  /\ Resolve(n, c, r) \in AnyNotices \cup {NoNotice}
           /\ Resolve(n, c, r) = NoNotice <=> n = NoNotice
           /\ n # NoNotice => ~Resolve(n, c, r).active /\ Resolve(n, c, r).episode = n.episode
<1>1. CASE Subsided(n, c)
  BY <1>1 DEF Resolve, Subsided
<1>2. CASE ~Subsided(n, c)
  <2>1. PICK healthy : healthy \in BOOLEAN /\ healthy = (c[2] \in Healthy(r))
    <3>1. (c[2] \in Healthy(r)) \in BOOLEAN
      OBVIOUS
    <3> QED
      BY <3>1, Zenon
  <2>2. Resolve(n, c, r) = [active |-> FALSE, episode |-> n.episode, snoozed |-> n.snoozed, clear |-> healthy]
    BY <1>2, <2>1 DEF Resolve
  <2>3. n # NoNotice /\ n \in AnyNotices
    BY <1>2 DEF Subsided
  <2>4. n.episode \in Nat /\ n.snoozed \in BOOLEAN
    BY <2>3 DEF AnyNotices
  <2>5. Resolve(n, c, r) \in AnyNotices
    BY <2>1, <2>2, <2>4 DEF AnyNotices
  <2>6. ~Resolve(n, c, r).active /\ Resolve(n, c, r).episode = n.episode
    BY <2>2
  <2> QED
    BY <2>3, <2>5, <2>6, NoRowIsNoNotice
<1> QED
  BY <1>1, <1>2

\* The row of a condition after the readings r were looked at, for what was told
\* of it before.
LEMMA ReconciledRow ==
    ASSUME NoticeInv, NEW c \in Conditions, NEW r, NEW uncertain \in BOOLEAN, NEW row,
           row = Reconciled(r, uncertain)[c]
    PROVE  /\ row \in AnyNotices \cup {NoNotice}
           /\ c \notin _conditions(r) /\ row # NoNotice => ~row.active
           /\ told[c] # NoNotice =>
                 /\ row # NoNotice /\ told[c].episode <= row.episode
                 /\ row.active /\ row.episode = told[c].episode
                       => ~uncertain /\ notice[c].active /\ row = notice[c]
<1>1. notice[c] \in AnyNotices \cup {NoNotice}
  BY DEF NoticeInv, NoticeTypes
<1>2. PICK n : n = IF uncertain THEN Uncertain(notice[c]) ELSE notice[c]
  OBVIOUS
<1>3. row = IF c \in _conditions(r) THEN Raise(n) ELSE Resolve(n, c, r)
  BY <1>2 DEF Reconciled
<1>4. /\ n \in AnyNotices \cup {NoNotice}
      /\ n = NoNotice <=> notice[c] = NoNotice
      /\ n # NoNotice /\ n.active =>
             notice[c].active /\ n.episode = IF uncertain THEN notice[c].episode + 1 ELSE notice[c].episode
      /\ n # NoNotice /\ ~n.active => n = notice[c]
      /\ ~uncertain => n = notice[c]
  BY <1>1, <1>2, UncertainRow
<1>5. row \in AnyNotices \cup {NoNotice} /\ (c \notin _conditions(r) /\ row # NoNotice => ~row.active)
  BY <1>3, <1>4, RaisedRow, ResolvedRow
<1>6. ASSUME told[c] # NoNotice
      PROVE  /\ row # NoNotice /\ told[c].episode <= row.episode
             /\ row.active /\ row.episode = told[c].episode
                   => ~uncertain /\ notice[c].active /\ row = notice[c]
  <2>1. notice[c] # NoNotice /\ told[c].episode \in Nat /\ told[c].episode <= notice[c].episode
    BY <1>6 DEF NoticeInv, ToldInTime
  <2>2. n # NoNotice /\ n.episode \in Nat /\ notice[c].episode \in Nat /\ row # NoNotice
    BY <1>1, <1>3, <1>4, <2>1, RaisedRow, ResolvedRow, NoRowIsNoNotice DEF AnyNotices
  <2>3. CASE c \notin _conditions(r)
    <3>1. ~row.active /\ row.episode = n.episode
      BY <1>3, <1>4, <2>2, <2>3, ResolvedRow
    <3>2. notice[c].episode <= n.episode
      BY <1>4, <2>2
    <3> QED
      BY <2>1, <2>2, <3>1, <3>2
  <2>4. CASE c \in _conditions(r) /\ n.active
    <3>1. row = n /\ notice[c].active
      BY <1>3, <1>4, <2>2, <2>4, RaisedRow
    <3>2. n.episode = IF uncertain THEN notice[c].episode + 1 ELSE notice[c].episode
      BY <1>4, <2>2, <2>4
    <3> QED
      BY <1>4, <2>1, <2>2, <3>1, <3>2
  <2>5. CASE c \in _conditions(r) /\ ~n.active
    <3>1. row.episode = notice[c].episode + 1
      BY <1>3, <1>4, <2>2, <2>5, RaisedRow
    <3> QED
      BY <2>1, <2>2, <3>1
  <2> QED
    BY <2>3, <2>4, <2>5
<1> QED
  BY <1>5, <1>6

\* Nobody was told of anything before the first reading.
LEMMA NoticeInvInit == NoticeInit => NoticeInv
BY NoRowIsNoNotice DEF NoticeInit, NoticeInv, NoticeTypes, ToldInTime, AcknowledgedIsCurrent

\* Readings arrive.  What they end is over in its row, and in the next spell.
LEMMA IngestStep ==
    ASSUME NoticeInv, ingest_readings
    PROVE  NoticeInv'
<1>1. told' = told /\ pending \in BOOLEAN /\ DOMAIN told = Conditions
  BY DEF ingest_readings, NoticeInv, NoticeTypes
<1>2. CASE pending' = TRUE /\ UNCHANGED notice
  BY <1>1, <1>2 DEF NoticeInv, NoticeTypes, ToldInTime, AcknowledgedIsCurrent
<1>3. CASE reconcile(latest', pending)
  <2>1. PICK r : r = latest'
    OBVIOUS
  <2>2. notice' = Reconciled(r, pending) /\ pending' = FALSE
    BY <1>3, <2>1 DEF reconcile
  <2>3. \A c \in Conditions : spell'[c] = IF c \in _conditions(r) THEN spell[c] ELSE spell[c] + 1
    BY <2>1 DEF ingest_readings
  <2>4. ASSUME NEW c \in Conditions
        PROVE  /\ notice'[c] \in AnyNotices \cup {NoNotice}
               /\ c \notin _conditions(r) /\ notice'[c] # NoNotice => ~notice'[c].active
               /\ told[c] # NoNotice =>
                     /\ notice'[c] # NoNotice /\ told[c].episode <= notice'[c].episode
                     /\ notice'[c].active /\ notice'[c].episode = told[c].episode
                           => ~pending /\ notice[c].active /\ notice'[c] = notice[c]
    <3>1. PICK row : row = Reconciled(r, pending)[c]
      OBVIOUS
    <3>2. row = notice'[c]
      BY <2>2, <3>1
    <3> QED
      BY <1>1, <3>1, <3>2, ReconciledRow
  <2>5. NoticeTypes'
    BY <1>1, <2>2, <2>4 DEF NoticeTypes, Reconciled
  <2>6. ToldInTime'
    BY <1>1, <2>4 DEF NoticeInv, ToldInTime
  <2>7. AcknowledgedIsCurrent'
    <3>1. SUFFICES ASSUME NEW c \in Conditions, told[c] # NoNotice, notice'[c] # NoNotice,
                          notice'[c].active, notice'[c].episode = told[c].episode
                   PROVE  told[c].spell = spell'[c]
      BY <1>1 DEF AcknowledgedIsCurrent
    <3>2. ~pending /\ notice[c].active /\ notice'[c] = notice[c] /\ c \in _conditions(r)
      BY <2>4, <3>1
    <3>3. spell'[c] = spell[c]
      BY <2>3, <3>2
    <3> QED
      BY <3>1, <3>2, <3>3 DEF NoticeInv, AcknowledgedIsCurrent
  <2> QED
    BY <2>5, <2>6, <2>7 DEF NoticeInv
<1> QED
  BY <1>2, <1>3 DEF ingest_readings

\* The owner looks: what it is told of is the row and the spell there is now.
LEMMA OwnerStep ==
    ASSUME NoticeInv, owner_notices
    PROVE  NoticeInv'
<1>1. notice' = Reconciled(latest, pending) /\ pending' = FALSE /\ spell' = spell /\ pending \in BOOLEAN
  BY DEF owner_notices, reconcile, NoticeInv, NoticeTypes
<1>2. DOMAIN told' = Conditions
  BY DEF owner_notices
<1>3. ASSUME NEW c \in Conditions
      PROVE  notice'[c] \in AnyNotices \cup {NoNotice}
  <2>1. PICK r, row : r = latest /\ row = Reconciled(r, pending)[c]
    OBVIOUS
  <2> QED
    BY <1>1, <2>1, ReconciledRow
<1>4. ASSUME NEW c \in Conditions, told'[c] # NoNotice
      PROVE  /\ notice'[c] # NoNotice /\ notice'[c].active
             /\ told'[c].episode = notice'[c].episode /\ told'[c].spell = spell[c]
  <2>1. /\ notice'[c] # NoNotice /\ notice'[c].active
        /\ told'[c] = [episode |-> notice'[c].episode, spell |-> spell[c]]
    BY <1>4 DEF owner_notices
  <2> QED
    BY <2>1
<1>5. NoticeTypes'
  BY <1>1, <1>2, <1>3 DEF NoticeTypes, Reconciled
<1>6. ToldInTime'
  <2>1. SUFFICES ASSUME NEW c \in Conditions, told'[c] # NoNotice
                 PROVE  /\ notice'[c] # NoNotice
                        /\ told'[c].episode \in Nat /\ told'[c].episode <= notice'[c].episode
    BY DEF ToldInTime
  <2>2. notice'[c] \in AnyNotices
    BY <1>3, <1>4, <2>1
  <2>3. notice'[c].episode \in Nat
    BY <2>2 DEF AnyNotices
  <2> QED
    BY <1>4, <2>1, <2>3
<1>7. AcknowledgedIsCurrent'
  <2>1. SUFFICES ASSUME NEW c \in Conditions, told'[c] # NoNotice
                 PROVE  told'[c].spell = spell'[c]
    BY DEF AcknowledgedIsCurrent
  <2> QED
    BY <1>1, <1>4, <2>1
<1> QED
  BY <1>5, <1>6, <1>7 DEF NoticeInv

\* An acknowledgement is of the episode that was told, so of a row that was not
\* started anew by looking.
LEMMA AcknowledgeStep ==
    ASSUME NoticeInv, NEW c \in Conditions, acknowledge_notice(c)
    PROVE  NoticeInv'
<1>1. PICK r, rows : r = latest /\ rows = Reconciled(r, pending)
  OBVIOUS
<1>2. /\ told' = told /\ spell' = spell /\ pending' = FALSE /\ pending \in BOOLEAN
      /\ DOMAIN told = Conditions /\ rows[c].active
      /\ notice' = [rows EXCEPT ![c] = [rows[c] EXCEPT !.snoozed = TRUE]]
      /\ told[c] # NoNotice
  BY <1>1 DEF acknowledge_notice, NoticeInv, NoticeTypes
<1>3. DOMAIN rows = Conditions
  BY <1>1 DEF Reconciled
<1>4. ASSUME NEW d \in Conditions
      PROVE  /\ rows[d] \in AnyNotices \cup {NoNotice}
             /\ told[d] # NoNotice =>
                   /\ rows[d] # NoNotice /\ told[d].episode <= rows[d].episode
                   /\ rows[d].active /\ rows[d].episode = told[d].episode
                         => ~pending /\ notice[d].active /\ rows[d] = notice[d]
  <2>1. PICK row : row = Reconciled(r, pending)[d]
    OBVIOUS
  <2> QED
    BY <1>1, <1>2, <2>1, ReconciledRow
<1>5. ASSUME NEW d \in Conditions
      PROVE  /\ notice'[d] \in AnyNotices \cup {NoNotice}
             /\ told[d] # NoNotice =>
                   /\ notice'[d] # NoNotice /\ told[d].episode <= notice'[d].episode
                   /\ notice'[d].active /\ notice'[d].episode = told[d].episode
                         => /\ ~pending /\ notice[d] # NoNotice /\ notice[d].active
                            /\ notice[d].episode = told[d].episode
  <2>1. CASE d # c
    <3>1. notice'[d] = rows[d]
      BY <1>2, <1>3, <2>1
    <3> QED
      BY <1>4, <3>1
  <2>2. CASE d = c
    <3>1. rows[c] \in AnyNotices
      BY <1>2, <1>4
    <3>2. notice'[c] = [rows[c] EXCEPT !.snoozed = TRUE]
      BY <1>2, <1>3
    <3>3. notice'[c].episode = rows[c].episode /\ notice'[c].active = rows[c].active
      BY <3>1, <3>2 DEF AnyNotices
    <3>4. notice'[c] \in AnyNotices
      BY <3>1, <3>2 DEF AnyNotices
    <3> QED
      BY <1>4, <2>2, <3>1, <3>3, <3>4, NoRowIsNoNotice
  <2> QED
    BY <2>1, <2>2
<1>6. NoticeTypes'
  BY <1>2, <1>3, <1>5 DEF NoticeTypes
<1>7. ToldInTime'
  BY <1>2, <1>5 DEF NoticeInv, ToldInTime
<1>8. AcknowledgedIsCurrent'
  BY <1>2, <1>5 DEF NoticeInv, AcknowledgedIsCurrent
<1> QED
  BY <1>6, <1>7, <1>8 DEF NoticeInv

\* What resurfaces is the same episode; what is cleaned up was told of no more.
LEMMA RowStep ==
    ASSUME NoticeInv, NEW c \in Conditions, Resurface(c) \/ cleanup_notices(c)
    PROVE  NoticeInv'
<1>1. CASE Resurface(c)
  <2>1. notice[c] \in AnyNotices /\ DOMAIN notice = Conditions
    BY <1>1 DEF Resurface, NoticeInv, NoticeTypes
  <2>2. notice'[c] = [notice[c] EXCEPT !.snoozed = FALSE] /\ DOMAIN notice' = Conditions
    BY <1>1, <2>1 DEF Resurface
  <2>3. /\ notice'[c].episode = notice[c].episode /\ notice'[c].active = notice[c].active
        /\ notice'[c] \in AnyNotices
    BY <2>1, <2>2 DEF AnyNotices
  <2>4. \A d \in Conditions : d # c => notice'[d] = notice[d]
    BY <1>1, <2>1 DEF Resurface
  <2>5. told' = told /\ pending' = pending /\ spell' = spell
    BY <1>1 DEF Resurface
  <2>6. NoticeTypes'
    BY <2>2, <2>3, <2>4, <2>5 DEF NoticeInv, NoticeTypes
  <2>7. ToldInTime'
    BY <2>1, <2>3, <2>4, <2>5, NoRowIsNoNotice DEF NoticeInv, ToldInTime
  <2>8. AcknowledgedIsCurrent'
    BY <2>1, <2>3, <2>4, <2>5, NoRowIsNoNotice DEF NoticeInv, AcknowledgedIsCurrent
  <2> QED
    BY <2>6, <2>7, <2>8 DEF NoticeInv
<1>2. CASE cleanup_notices(c)
  <2>1. DOMAIN notice = Conditions /\ DOMAIN told = Conditions
    BY DEF NoticeInv, NoticeTypes
  <2>2. notice'[c] = NoNotice /\ told'[c] = NoNotice /\ DOMAIN notice' = Conditions /\ DOMAIN told' = Conditions
    BY <1>2, <2>1 DEF cleanup_notices
  <2>3. \A d \in Conditions : d # c => notice'[d] = notice[d] /\ told'[d] = told[d]
    BY <1>2, <2>1 DEF cleanup_notices
  <2>4. pending' = pending /\ spell' = spell
    BY <1>2 DEF cleanup_notices
  <2>5. NoticeTypes'
    BY <2>2, <2>3, <2>4 DEF NoticeInv, NoticeTypes
  <2>6. ToldInTime'
    BY <2>2, <2>3 DEF NoticeInv, ToldInTime
  <2>7. AcknowledgedIsCurrent'
    BY <2>2, <2>3, <2>4 DEF NoticeInv, AcknowledgedIsCurrent
  <2> QED
    BY <2>5, <2>6, <2>7 DEF NoticeInv
<1> QED
  BY <1>1, <1>2

\* Every step keeps what is told and what is the case together.
LEMMA NoticeInvStep == NoticeInv /\ [NoticeNext]_noticeVars => NoticeInv'
<1>1. SUFFICES ASSUME NoticeInv, [NoticeNext]_noticeVars
               PROVE  NoticeInv'
  OBVIOUS
<1>2. CASE GrowOld
  BY <1>1, <1>2 DEF GrowOld, NoticeInv, NoticeTypes, ToldInTime, AcknowledgedIsCurrent
<1>3. CASE UNCHANGED noticeVars
  BY <1>1, <1>3 DEF noticeVars, NoticeInv, NoticeTypes, ToldInTime, AcknowledgedIsCurrent
<1> QED
  BY <1>1, <1>2, <1>3, IngestStep, OwnerStep, AcknowledgeStep, RowStep DEF NoticeNext

\* What the owner of an installation was told of and may acknowledge is the
\* outbreak there is now: of an active row, once no projection is missed, the
\* episode that was told is of the spell the condition is in.
THEOREM AcknowledgedIsCurrentHolds == NoticeSpec => []AcknowledgedIsCurrent
<1>1. NoticeInv => AcknowledgedIsCurrent
  BY DEF NoticeInv
<1> QED
  BY <1>1, NoticeInvInit, NoticeInvStep, PTL DEF NoticeSpec

-----------------------------------------------------------------------------
(* What a household says it did about an advisory.                         *)

\* A window that is recording an action holds the household's row.
Recorder(t) == tab[t].at \in {"owner", "policies", "catalog", "read", "judged"}

OneRecords == \A s, t \in Tabs : Recorder(s) /\ Recorder(t) => s = t

\* The device is the one the recorder found under the lock.
DeviceStands == \A t \in Tabs :
    Recorder(t) => equipment # NoEquipment /\ equipment.device = tab[t].device.now

\* The notice is the one published last.
IsLast(t) == tab[t].revision = Max(publications[tab[t].advisory])

\* The advisory calls for an action about the device, by the reviews up to a day.
Called(a, r, c, day) ==
    action_allowed(c, revisions[a][r], TRUE, LatestPolicy,
                   catalog_health(LatestPolicy, ReviewsOf(Len(policies)), day))

\* What was read and judged under the locks.
JudgementStands == \A t \in Tabs :
    /\ tab[t].at = "read" /\ tab[t].newest => IsLast(t)
    /\ tab[t].at = "judged" =>
           IsLast(t) /\ Called(tab[t].advisory, tab[t].revision, tab[t].device.now, tab[t].day)

\* The inductive invariant behind ActionsStood.
AdvisoryInv ==
    /\ AdvisoryTypeOK
    /\ OneRecords
    /\ DeviceStands
    /\ JudgementStands
    /\ ActionsStood

TabStates == {Resting} \cup Notice \cup Recording \cup Compared \cup Judged

\* No catalogue, no equipment.
LEMMA AdvisoryInvInit == AdvisoryInit => AdvisoryInv
<1> SUFFICES ASSUME AdvisoryInit
             PROVE  AdvisoryInv
  OBVIOUS
<1>1. AdvisoryTypeOK
  <2>1. << >> \in Seq(Contents) /\ Len(<< >>) = 0 /\ 0 \in 0 .. MaxDay
    BY AdvisoryAssumption
  <2> QED
    BY <2>1, AdvisoryAssumption DEF AdvisoryInit, AdvisoryTypeOK
<1>2. \A t \in Tabs : tab[t].at = "resting"
  BY DEF AdvisoryInit, Resting
<1>3. actions = {}
  BY DEF AdvisoryInit
<1> QED
  BY <1>1, <1>2, <1>3 DEF AdvisoryInv, OneRecords, Recorder, DeviceStands, JudgementStands, ActionsStood

\* A judgement depends on the revision, the policy and the reviews only.
LEMMA CalledStays ==
    ASSUME UNCHANGED <<policies, reviews>>, NEW a, NEW r, NEW c, NEW day,
           revisions'[a] = revisions[a], Called(a, r, c, day)
    PROVE  Called(a, r, c, day)'
BY DEF Called, LatestPolicy, ReviewsOf, catalog_health

\* What a window's record looks like at each point.
LEMMA TabShapes ==
    ASSUME AdvisoryTypeOK, NEW t \in Tabs
    PROVE  /\ tab[t].at = "resting" => tab[t] = Resting
           /\ tab[t].at = "seen" => tab[t] \in Notice
           /\ tab[t].at \in {"owner", "policies", "catalog"} => tab[t] \in Recording
           /\ tab[t].at = "read" => tab[t] \in Compared
           /\ tab[t].at = "judged" => tab[t] \in Judged
           /\ tab[t].at \in {"resting", "seen", "owner", "policies", "catalog", "read", "judged"}
<1>1. tab[t] \in TabStates
  BY DEF AdvisoryTypeOK, TabStates
<1> QED
  BY <1>1 DEF TabStates, Resting, Notice, Recording, Compared, Judged

\* The reviewers wait for whoever has locked the catalogue.
LEMMA CatalogStep ==
    ASSUME AdvisoryInv, NEW a \in Advisories,
           \/ \E e \in Contents : create_advisory(a, e) \/ append_advisory_revision(a, e)
           \/ publish_advisory_revision(a)
    PROVE  AdvisoryInv'
<1>1. UNCHANGED <<policies, reviews, equipment, actions, tab, today>>
  BY DEF create_advisory, append_advisory_revision, publish_advisory_revision
<1>2. /\ revisions \in [Advisories -> Seq(Contents)] /\ publications \in [Advisories -> SUBSET (1 .. MaxRevisions)]
      /\ \A b \in Advisories : Len(revisions[b]) <= MaxRevisions /\ publications[b] \subseteq DOMAIN revisions[b]
      /\ MaxRevisions \in Nat /\ MaxRevisions > 0
  BY AdvisoryAssumption DEF AdvisoryInv, AdvisoryTypeOK
<1>3. /\ revisions' \in [Advisories -> Seq(Contents)] /\ publications' \in [Advisories -> SUBSET (1 .. MaxRevisions)]
      /\ \A b \in Advisories : Len(revisions'[b]) <= MaxRevisions /\ publications'[b] \subseteq DOMAIN revisions'[b]
      /\ ~CatalogLocked(a)
      /\ \A b \in Advisories \ {a} : revisions'[b] = revisions[b] /\ publications'[b] = publications[b]
  <2>1. ASSUME NEW e \in Contents, create_advisory(a, e)
        PROVE  <1>3!:
    <3>1. <<e>> \in Seq(Contents) /\ Len(<<e>>) = 1 /\ DOMAIN revisions[a] = {}
      BY <2>1 DEF create_advisory
    <3> QED
      BY <1>2, <2>1, <3>1 DEF create_advisory
  <2>2. ASSUME NEW e \in Contents, append_advisory_revision(a, e)
        PROVE  <1>3!:
    <3> DEFINE longer == Append(revisions[a], e)
    <3>1. revisions[a] \in Seq(Contents) /\ Len(revisions[a]) < MaxRevisions /\ Len(revisions[a]) \in Nat
      BY <1>2, <2>2 DEF append_advisory_revision
    <3>2. longer \in Seq(Contents) /\ Len(longer) = Len(revisions[a]) + 1
          /\ DOMAIN revisions[a] \subseteq DOMAIN longer
      BY <3>1
    <3>3. revisions' = [revisions EXCEPT ![a] = longer] /\ publications' = publications /\ ~CatalogLocked(a)
      BY <2>2 DEF append_advisory_revision
    <3> HIDE DEF longer
    <3> QED
      BY <1>2, <3>1, <3>2, <3>3
  <2>3. CASE publish_advisory_revision(a)
    <3>1. Len(revisions[a]) \in DOMAIN revisions[a] /\ Len(revisions[a]) \in 1 .. MaxRevisions
      BY <1>2, <2>3 DEF publish_advisory_revision
    <3> QED
      BY <1>2, <2>3, <3>1 DEF publish_advisory_revision
  <2> QED
    BY <2>1, <2>2, <2>3
<1>4. AdvisoryTypeOK'
  BY <1>1, <1>3 DEF AdvisoryInv, AdvisoryTypeOK
<1>5. ASSUME NEW t \in Tabs, tab[t].at \in {"read", "judged"}
      PROVE  tab[t].advisory \in Advisories \ {a}
  BY <1>3, <1>5, TabShapes DEF AdvisoryInv, CatalogLocked, Compared, Judged
<1>6. JudgementStands'
  <2> SUFFICES ASSUME NEW t \in Tabs
               PROVE  JudgementStands!(t)'
    BY DEF JudgementStands
  <2>1. ASSUME tab[t].at = "read", tab[t].newest
        PROVE  IsLast(t)'
    BY <1>1, <1>3, <1>5, <2>1 DEF AdvisoryInv, JudgementStands, IsLast
  <2>2. ASSUME tab[t].at = "judged"
        PROVE  (IsLast(t) /\ Called(tab[t].advisory, tab[t].revision, tab[t].device.now, tab[t].day))'
    <3>1. IsLast(t) /\ Called(tab[t].advisory, tab[t].revision, tab[t].device.now, tab[t].day)
      BY <2>2 DEF AdvisoryInv, JudgementStands
    <3>2. IsLast(t)'
      BY <1>1, <1>3, <1>5, <2>2, <3>1 DEF IsLast
    <3>3. Called(tab[t].advisory, tab[t].revision, tab[t].device.now, tab[t].day)'
      BY <1>1, <1>3, <1>5, <2>2, <3>1 DEF Called, LatestPolicy, ReviewsOf, catalog_health
    <3> QED
      BY <3>2, <3>3
  <2> QED
    BY <1>1, <2>1, <2>2
<1> QED
  BY <1>1, <1>4, <1>6 DEF AdvisoryInv, OneRecords, Recorder, DeviceStands, ActionsStood

\* The policies and their reviews wait for whoever has locked them, and no day
\* that passes changes what was judged on another.
LEMMA PolicyStep ==
    ASSUME AdvisoryInv,
           \/ \E p \in Policies : set_advisory_source_policy(p)
           \/ \E outcome \in {"success", "failure"}, day \in 0 .. today : record_advisory_source_review(outcome, day)
           \/ DayPasses
    PROVE  AdvisoryInv'
<1>1. UNCHANGED <<revisions, publications, equipment, actions, tab>>
  BY DEF set_advisory_source_policy, record_advisory_source_review, DayPasses
<1>2. /\ policies \in Seq(Policies) /\ Len(policies) \in Nat /\ Len(policies) <= MaxPolicies
      /\ reviews \in Seq([policy : Nat, outcome : {"success", "failure"}, day : 0 .. MaxDay])
      /\ Len(reviews) \in Nat /\ Len(reviews) <= MaxReviews
      /\ \A i \in DOMAIN reviews : reviews[i].policy \in DOMAIN policies
      /\ today \in 0 .. MaxDay /\ {MaxPolicies, MaxReviews, MaxDay} \subseteq Nat
  BY AdvisoryAssumption DEF AdvisoryInv, AdvisoryTypeOK
<1>3. /\ policies' \in Seq(Policies) /\ Len(policies') <= MaxPolicies
      /\ reviews' \in Seq([policy : Nat, outcome : {"success", "failure"}, day : 0 .. MaxDay])
      /\ Len(reviews') <= MaxReviews
      /\ \A i \in DOMAIN reviews' : reviews'[i].policy \in DOMAIN policies'
      /\ today' \in 0 .. MaxDay
      /\ UNCHANGED <<policies, reviews>> \/ ~PoliciesLocked
  <2>1. ASSUME NEW p \in Policies, set_advisory_source_policy(p)
        PROVE  <1>3!:
    BY <1>2, <2>1 DEF set_advisory_source_policy
  <2>2. ASSUME NEW outcome \in {"success", "failure"}, NEW day \in 0 .. today,
               record_advisory_source_review(outcome, day)
        PROVE  <1>3!:
    <3> DEFINE review == [policy |-> Len(policies), outcome |-> outcome, day |-> day]
    <3>1. review \in [policy : Nat, outcome : {"success", "failure"}, day : 0 .. MaxDay]
      BY <1>2
    <3>2. review.policy \in DOMAIN policies
      BY <1>2, <2>2 DEF record_advisory_source_review
    <3>3. /\ reviews' = Append(reviews, review) /\ Len(reviews) < MaxReviews
          /\ UNCHANGED <<policies, today>> /\ ~PoliciesLocked
      BY <2>2 DEF record_advisory_source_review
    <3> HIDE DEF review
    <3> QED
      BY <1>2, <3>1, <3>2, <3>3
  <2>3. CASE DayPasses
    BY <1>2, <2>3 DEF DayPasses
  <2> QED
    BY <2>1, <2>2, <2>3
<1>4. AdvisoryTypeOK'
  BY <1>1, <1>3 DEF AdvisoryInv, AdvisoryTypeOK
<1>5. JudgementStands'
  <2>1. CASE ~PoliciesLocked
    BY <1>1, <2>1 DEF AdvisoryInv, JudgementStands, IsLast, PoliciesLocked
  <2>2. CASE UNCHANGED <<policies, reviews>>
    BY <1>1, <2>2, CalledStays DEF AdvisoryInv, JudgementStands, IsLast
  <2> QED
    BY <1>3, <2>1, <2>2
<1> QED
  BY <1>1, <1>4, <1>5 DEF AdvisoryInv, OneRecords, Recorder, DeviceStands, ActionsStood

\* The household's record waits for whoever has locked it.
LEMMA EquipmentStep ==
    ASSUME AdvisoryInv,
           \/ \E c \in Contexts, done \in BOOLEAN : create_equipment(c, done) \/ update_equipment(c, done)
           \/ delete_equipment
    PROVE  AdvisoryInv'
<1>1. UNCHANGED <<revisions, publications, policies, reviews, tab, today>> /\ ~OwnerLocked
      /\ actions' \subseteq actions
  BY DEF create_equipment, update_equipment, delete_equipment
<1>2. equipment' \in [device : Contexts, done : BOOLEAN] \cup {NoEquipment}
  <2>1. ASSUME NEW c \in Contexts, NEW done \in BOOLEAN, update_equipment(c, done)
        PROVE  equipment' \in [device : Contexts, done : BOOLEAN]
    <3>1. PICK checked \in BOOLEAN : reset_model_evidence(c, done) = checked
      BY Zenon DEF reset_model_evidence
    <3>2. equipment' = [device |-> c, done |-> checked]
      BY <2>1, <3>1 DEF update_equipment
    <3> QED
      BY <3>2
  <2>2. ASSUME NEW c \in Contexts, NEW done \in BOOLEAN, create_equipment(c, done)
        PROVE  equipment' \in [device : Contexts, done : BOOLEAN]
    BY <2>2 DEF create_equipment
  <2> QED
    BY <2>1, <2>2 DEF delete_equipment
<1>3. AdvisoryTypeOK'
  BY <1>1, <1>2 DEF AdvisoryInv, AdvisoryTypeOK
<1>4. \A t \in Tabs : ~Recorder(t) /\ ~Recorder(t)'
  BY <1>1 DEF OwnerLocked, Recorder
<1>5. JudgementStands' /\ ActionsStood'
  BY <1>1, <1>4 DEF AdvisoryInv, JudgementStands, Recorder, ActionsStood
<1> QED
  BY <1>3, <1>4, <1>5 DEF AdvisoryInv, OneRecords, DeviceStands

\* A window that goes on leaves the others as they are.
LEMMA TabMoves ==
    ASSUME AdvisoryTypeOK, NEW t \in Tabs, NEW row \in TabStates, tab' = [tab EXCEPT ![t] = row],
           UNCHANGED <<revisions, publications, policies, reviews, equipment, today>>,
           actions' \subseteq [advisory : Advisories, revision : 1 .. MaxRevisions, device : Contexts, stood : BOOLEAN]
    PROVE  /\ AdvisoryTypeOK'
           /\ tab'[t] = row /\ \A s \in Tabs \ {t} : tab'[s] = tab[s]
<1>1. tab \in [Tabs -> TabStates]
  BY DEF AdvisoryTypeOK, TabStates
<1>2. /\ tab' \in [Tabs -> TabStates]
      /\ tab'[t] = row /\ \A s \in Tabs \ {t} : tab'[s] = tab[s]
  BY <1>1
<1> QED
  BY <1>2 DEF AdvisoryTypeOK, TabStates

\* Nor does what was judged for them change.
LEMMA OthersStand ==
    ASSUME AdvisoryInv, NEW t \in Tabs, \A s \in Tabs \ {t} : tab'[s] = tab[s],
           UNCHANGED <<revisions, publications, policies, reviews>>, JudgementStands!(t)'
    PROVE  JudgementStands'
<1> SUFFICES ASSUME NEW s \in Tabs \ {t}
             PROVE  JudgementStands!(s)'
  BY DEF JudgementStands
<1>1. JudgementStands!(s)
  BY DEF AdvisoryInv, JudgementStands
<1> QED
  BY <1>1, CalledStays DEF IsLast

\* A window looks at a notice, waits for the household's row, and takes the locks
\* of the policies and the catalogue: nothing is judged yet.
LEMMA LockStep ==
    ASSUME AdvisoryInv, NEW t \in Tabs,
           get_equipment_advisories(t) \/ LockOwner(t) \/ LockPolicies(t) \/ ShareCatalog(t)
    PROVE  AdvisoryInv'
<1>1. UNCHANGED <<revisions, publications, policies, reviews, equipment, actions, today>>
  BY DEF get_equipment_advisories, LockOwner, LockPolicies, ShareCatalog
<1>2. \E row \in TabStates :
          /\ tab' = [tab EXCEPT ![t] = row] /\ row.at \in {"resting", "seen", "owner", "policies", "catalog"}
          /\ row.at \in {"owner", "policies", "catalog"} =>
                /\ equipment # NoEquipment /\ equipment.device = row.device.now
                /\ Recorder(t) \/ ~OwnerLocked
  <2>1. CASE get_equipment_advisories(t)
    <3>1. PICK a \in Advisories : \E r \in publications[a] :
              tab' = [tab EXCEPT ![t] = [at |-> "seen", advisory |-> a, revision |-> r, device |-> equipment.device]]
      BY <2>1 DEF get_equipment_advisories
    <3> PICK r \in publications[a] :
              tab' = [tab EXCEPT ![t] = [at |-> "seen", advisory |-> a, revision |-> r, device |-> equipment.device]]
      BY <3>1
    <3>2. r \in 1 .. MaxRevisions /\ equipment.device \in Contexts
      BY <2>1, <3>1 DEF AdvisoryInv, AdvisoryTypeOK, get_equipment_advisories
    <3> DEFINE row == [at |-> "seen", advisory |-> a, revision |-> r, device |-> equipment.device]
    <3>3. row \in Notice /\ row.at = "seen" /\ tab' = [tab EXCEPT ![t] = row]
      BY <3>2 DEF Notice
    <3> HIDE DEF row
    <3> QED
      BY <3>3 DEF TabStates
  <2>2. CASE LockOwner(t)
    <3>1. tab[t] \in Notice /\ tab \in [Tabs -> TabStates]
      BY <2>2, TabShapes DEF AdvisoryInv, AdvisoryTypeOK, TabStates, LockOwner
    <3>2. CASE equipment = NoEquipment
      <4>1. tab' = [tab EXCEPT ![t] = Resting]
        BY <2>2, <3>2 DEF LockOwner
      <4>2. Resting \in TabStates /\ Resting.at = "resting"
        BY DEF TabStates, Resting
      <4> QED
        BY <4>1, <4>2
    <3>3. CASE equipment # NoEquipment
      <4> DEFINE row == [at |-> "owner", advisory |-> tab[t].advisory, revision |-> tab[t].revision,
                         device |-> [seen |-> tab[t].device, now |-> equipment.device]]
      <4>1. equipment.device \in Contexts
        BY <3>3 DEF AdvisoryInv, AdvisoryTypeOK
      <4>2. row \in Recording /\ row.at = "owner" /\ row.device.now = equipment.device
        BY <3>1, <4>1 DEF Notice, Recording
      <4>3. tab' = [tab EXCEPT ![t] = row]
        BY <2>2, <3>1, <3>3 DEF LockOwner, Notice
      <4> HIDE DEF row
      <4>4. ~OwnerLocked
        BY <2>2 DEF LockOwner
      <4> QED
        BY <3>3, <4>2, <4>3, <4>4 DEF TabStates
    <3> QED
      BY <3>2, <3>3
  <2>3. ASSUME NEW at \in {"policies", "catalog"}, tab[t].at \in {"owner", "policies"}, Enter(t, at)
        PROVE  <1>2!:
    <3>1. tab[t] \in Recording /\ tab \in [Tabs -> TabStates]
      BY <2>3, TabShapes DEF AdvisoryInv, AdvisoryTypeOK, TabStates
    <3>2. /\ [tab[t] EXCEPT !.at = at] \in Recording /\ [tab[t] EXCEPT !.at = at].at = at
          /\ [tab[t] EXCEPT !.at = at].device = tab[t].device
      BY <3>1 DEF Recording
    <3>3. tab' = [tab EXCEPT ![t] = [tab[t] EXCEPT !.at = at]]
      BY <2>3 DEF Enter
    <3>4. Recorder(t) /\ equipment # NoEquipment /\ equipment.device = tab[t].device.now
      BY <2>3 DEF AdvisoryInv, DeviceStands, Recorder
    <3> QED
      BY <3>2, <3>3, <3>4 DEF TabStates
  <2> QED
    BY <2>1, <2>2, <2>3 DEF LockPolicies, ShareCatalog
<1>3. PICK row \in TabStates :
          /\ tab' = [tab EXCEPT ![t] = row] /\ row.at \in {"resting", "seen", "owner", "policies", "catalog"}
          /\ row.at \in {"owner", "policies", "catalog"} =>
                /\ equipment # NoEquipment /\ equipment.device = row.device.now
                /\ Recorder(t) \/ ~OwnerLocked
  BY <1>2
<1>4. AdvisoryTypeOK' /\ tab'[t] = row /\ \A s \in Tabs \ {t} : tab'[s] = tab[s]
  BY <1>1, <1>3, TabMoves DEF AdvisoryInv, AdvisoryTypeOK
<1>5. OneRecords' /\ DeviceStands'
  BY <1>1, <1>3, <1>4 DEF AdvisoryInv, OneRecords, DeviceStands, Recorder, OwnerLocked
<1>6. JudgementStands'
  BY <1>1, <1>3, <1>4, OthersStand
<1> QED
  BY <1>1, <1>4, <1>5, <1>6 DEF AdvisoryInv, ActionsStood

\* Under the locks the notice is read and judged.
LEMMA JudgeStep ==
    ASSUME AdvisoryInv, NEW t \in Tabs, _published(t) \/ Assess(t)
    PROVE  AdvisoryInv'
<1>1. UNCHANGED <<revisions, publications, policies, reviews, equipment, actions, today>>
  BY DEF _published, Assess
<1>2. Recorder(t)
  BY DEF Recorder, _published, Assess
<1>3. \E row \in TabStates :
          /\ tab' = [tab EXCEPT ![t] = row] /\ row.at \in {"resting", "read", "judged"}
          /\ row.at # "resting" => row.device = tab[t].device
          /\ row.at = "read" /\ row.newest => row.revision = Max(publications[row.advisory])
          /\ row.at = "judged" => /\ row.revision = Max(publications[row.advisory])
                                  /\ Called(row.advisory, row.revision, row.device.now, row.day)
  <2>1. CASE _published(t)
    <3> DEFINE row == [at |-> "read", advisory |-> tab[t].advisory, revision |-> tab[t].revision,
                       device |-> tab[t].device,
                       newest |-> tab[t].revision = Max(publications[tab[t].advisory])]
    <3>1. tab[t] \in Recording
      BY <2>1, TabShapes DEF AdvisoryInv, _published
    <3>2. (tab[t].revision = Max(publications[tab[t].advisory])) \in BOOLEAN
      OBVIOUS
    <3>3. row \in Compared
      BY <3>1, <3>2 DEF Recording, Compared
    <3>4. row.at = "read" /\ row.device = tab[t].device
          /\ (row.newest => row.revision = Max(publications[row.advisory]))
      OBVIOUS
    <3>5. tab' = [tab EXCEPT ![t] = row]
      BY <2>1 DEF _published, AdvisoryInv, AdvisoryTypeOK
    <3> HIDE DEF row
    <3> QED
      BY <3>3, <3>4, <3>5 DEF TabStates
  <2>2. CASE Assess(t)
    <3>1. tab[t] \in Compared /\ (tab[t].newest => IsLast(t))
      BY <2>2, TabShapes DEF AdvisoryInv, JudgementStands, Assess
    <3>2. CASE action_allowed(tab[t].device.now, revisions[tab[t].advisory][tab[t].revision],
                              tab[t].newest, LatestPolicy, Health)
      <4> DEFINE row == [at |-> "judged", advisory |-> tab[t].advisory, revision |-> tab[t].revision,
                         device |-> tab[t].device, day |-> today]
      <4>1. tab' = [tab EXCEPT ![t] = row]
        BY <2>2, <3>2 DEF Assess, AdvisoryInv, AdvisoryTypeOK
      <4>2. row \in Judged
        BY <3>1 DEF Compared, Judged, AdvisoryInv, AdvisoryTypeOK
      <4>3. Called(tab[t].advisory, tab[t].revision, tab[t].device.now, today) /\ tab[t].newest
        BY <3>2 DEF Called, action_allowed, Health
      <4>4. row.at = "judged" /\ row.advisory = tab[t].advisory /\ row.revision = tab[t].revision
            /\ row.device = tab[t].device /\ row.day = today
        OBVIOUS
      <4> HIDE DEF row
      <4> QED
        BY <3>1, <4>1, <4>2, <4>3, <4>4 DEF TabStates, IsLast
    <3>3. CASE tab' = [tab EXCEPT ![t] = Resting]
      <4>1. Resting \in TabStates /\ Resting.at = "resting"
        BY DEF TabStates, Resting
      <4> QED
        BY <3>3, <4>1
    <3> QED
      BY <2>2, <3>2, <3>3 DEF Assess
  <2> QED
    BY <2>1, <2>2
<1>4. PICK row \in TabStates :
          /\ tab' = [tab EXCEPT ![t] = row] /\ row.at \in {"resting", "read", "judged"}
          /\ row.at # "resting" => row.device = tab[t].device
          /\ row.at = "read" /\ row.newest => row.revision = Max(publications[row.advisory])
          /\ row.at = "judged" => /\ row.revision = Max(publications[row.advisory])
                                  /\ Called(row.advisory, row.revision, row.device.now, row.day)
  BY <1>3
<1>5. AdvisoryTypeOK' /\ tab'[t] = row /\ \A s \in Tabs \ {t} : tab'[s] = tab[s]
  BY <1>1, <1>4, TabMoves DEF AdvisoryInv, AdvisoryTypeOK
<1>6. OneRecords' /\ DeviceStands'
  BY <1>1, <1>2, <1>4, <1>5 DEF AdvisoryInv, OneRecords, DeviceStands, Recorder
<1>7. JudgementStands!(t)'
  BY <1>1, <1>4, <1>5, CalledStays DEF IsLast
<1>8. JudgementStands'
  BY <1>1, <1>5, <1>7, OthersStand
<1> QED
  BY <1>1, <1>5, <1>6, <1>8 DEF AdvisoryInv, ActionsStood

\* The device that was seen is the one there is: the notice stands for it.
LEMMA RecordStep ==
    ASSUME AdvisoryInv, NEW t \in Tabs, record_equipment_advisory_action(t)
    PROVE  AdvisoryInv'
<1> DEFINE a == tab[t].advisory
           r == tab[t].revision
           c == tab[t].device.seen
           day == tab[t].day
<1>1. /\ UNCHANGED <<revisions, publications, policies, reviews, equipment, today>>
      /\ tab' = [tab EXCEPT ![t] = Resting] /\ tab[t].at = "judged" /\ tab[t] \in Judged
  BY TabShapes DEF AdvisoryInv, record_equipment_advisory_action
<1>2. ASSUME validate_owner_action(tab[t].device)
      PROVE  Stands(a, r, c, day)
  <2>1. c = tab[t].device.now
    BY <1>2 DEF validate_owner_action
  <2>2. equipment # NoEquipment /\ equipment.device = tab[t].device.now
    BY <1>1 DEF AdvisoryInv, DeviceStands, Recorder
  <2>3. IsLast(t) /\ Called(a, r, tab[t].device.now, day)
    BY <1>1 DEF AdvisoryInv, JudgementStands
  <2> QED
    BY <2>1, <2>2, <2>3 DEF Stands, IsLast, Called
<1>3. \A x \in actions' : x \in actions \/ x = [advisory |-> a, revision |-> r, device |-> c, stood |-> TRUE]
  <2>1. CASE ~validate_owner_action(tab[t].device)
    BY <2>1 DEF record_equipment_advisory_action
  <2>2. CASE validate_owner_action(tab[t].device)
    <3>1. Stands(a, r, c, day) = TRUE
      BY <1>2, <2>2 DEF Stands
    <3> QED
      BY <2>2, <3>1 DEF record_equipment_advisory_action
  <2> QED
    BY <2>1, <2>2
<1>4. [advisory |-> a, revision |-> r, device |-> c, stood |-> TRUE]
          \in [advisory : Advisories, revision : 1 .. MaxRevisions, device : Contexts, stood : BOOLEAN]
  BY <1>1 DEF Judged
<1>5. ActionsStood' /\ actions' \subseteq [advisory : Advisories, revision : 1 .. MaxRevisions,
                                          device : Contexts, stood : BOOLEAN]
  BY <1>3, <1>4 DEF AdvisoryInv, AdvisoryTypeOK, ActionsStood
<1>6. Resting \in TabStates /\ Resting.at = "resting"
  BY DEF TabStates, Resting
<1>7. AdvisoryTypeOK' /\ tab'[t] = Resting /\ \A s \in Tabs \ {t} : tab'[s] = tab[s]
  BY <1>1, <1>5, <1>6, TabMoves DEF AdvisoryInv
<1>8. OneRecords' /\ DeviceStands'
  BY <1>1, <1>6, <1>7 DEF AdvisoryInv, OneRecords, DeviceStands, Recorder
<1>9. JudgementStands'
  BY <1>1, <1>6, <1>7, OthersStand
<1> QED
  BY <1>5, <1>7, <1>8, <1>9 DEF AdvisoryInv

\* Every step keeps it.
LEMMA AdvisoryInvStep == AdvisoryInv /\ [AdvisoryNext]_advisoryVars => AdvisoryInv'
<1> SUFFICES ASSUME AdvisoryInv, [AdvisoryNext]_advisoryVars
             PROVE  AdvisoryInv'
  OBVIOUS
<1>1. CASE UNCHANGED advisoryVars
  <2>1. JudgementStands'
    BY <1>1, CalledStays DEF advisoryVars, AdvisoryInv, JudgementStands, IsLast
  <2> QED
    BY <1>1, <2>1 DEF advisoryVars, AdvisoryInv, AdvisoryTypeOK, OneRecords, Recorder, DeviceStands, ActionsStood
<1>2. CASE AdvisoryNext
  BY <1>2, CatalogStep, PolicyStep, EquipmentStep, LockStep, JudgeStep, RecordStep DEF AdvisoryNext
<1> QED
  BY <1>1, <1>2

\* Catalogue, policies, equipment and windows keep their types
\* (store/advisories.py).
THEOREM AdvisoryTypes == AdvisorySpec => []AdvisoryTypeOK
<1>1. AdvisoryInv => AdvisoryTypeOK
  BY DEF AdvisoryInv
<1> QED
  BY <1>1, AdvisoryInvInit, AdvisoryInvStep, PTL DEF AdvisorySpec

\* What a household says it did is about the device it has and a notice that
\* stands when it is recorded, whatever reviewers and other windows do meanwhile
\* (DeviceAdvisories!ActionsStood, record_equipment_advisory_action).
THEOREM ActionsStoodHolds == AdvisorySpec => []ActionsStood
<1>1. AdvisoryInv => ActionsStood
  BY DEF AdvisoryInv
<1> QED
  BY <1>1, AdvisoryInvInit, AdvisoryInvStep, PTL DEF AdvisorySpec
=============================================================================
