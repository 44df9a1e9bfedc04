---------------------------- MODULE ServerProofs ----------------------------
(***************************************************************************)
(* The parts of lmserver in one process: whatever a behaviour of the       *)
(* process is about, it is a behaviour of each part on its own, so what is *)
(* proved of requests, batches and the key store holds of the process, for *)
(* any number of them and however often it stops.  The sample loader is    *)
(* proved about here, before the parts are put together.                   *)
(***************************************************************************)
EXTENDS ServerProcess, IssuanceProofs, BatchProofs, KeyStoreProofs

-----------------------------------------------------------------------------
(* The sample loader: LoadsConverge by the inductive invariant SamplesInv. *)


LoadRecords == [at : Int, does : Works, docs : [SampleIds -> Nat], failed : Nat]
RowRecords == [doc : Nat, sample : SampleIds, type : Updates \union {"ISSUE"},
               grade : SampleArgs \union {"S"}]
SightingRecords == [doc : Nat, sample : SampleIds, time : SampleArgs \union {Now}]

\* The steps of the manifest, and the one a request is at.
LEMMA ManifestFacts ==
  ASSUME SamplesTypes
  PROVE  /\ Len(manifest) \in Nat /\ DOMAIN manifest = 1 .. Len(manifest)
         /\ \A i \in DOMAIN manifest :
               manifest[i].doc \in SampleIds /\ manifest[i].arg \in SampleArgs
<1> DEFINE S == [type : STRING, doc : STRING, arg : STRING]
<1>1. manifest \in Manifests /\ manifest \in Seq(S)
  BY SamplesAssumption DEF SamplesTypes
<1>2. Len(manifest) \in Nat /\ DOMAIN manifest = 1 .. Len(manifest)
  BY <1>1, LenProperties
<1>3. \A i \in DOMAIN manifest : manifest[i].doc \in SampleIds
  <2> SUFFICES ASSUME NEW i \in DOMAIN manifest PROVE manifest[i].doc \in SampleIds
    OBVIOUS
  <2>1. manifest[i].doc \in {manifest[j].doc : j \in DOMAIN manifest}
    OBVIOUS
  <2>2. QED
    BY <1>1, <2>1, Zenon DEF SampleIds
<1>4. \A i \in DOMAIN manifest : manifest[i].arg \in SampleArgs
  <2> SUFFICES ASSUME NEW i \in DOMAIN manifest PROVE manifest[i].arg \in SampleArgs
    OBVIOUS
  <2>1. manifest[i].arg \in {manifest[j].arg : j \in DOMAIN manifest}
    OBVIOUS
  <2>2. QED
    BY <1>1, <2>1, Zenon DEF SampleArgs
<1>5. QED
  BY <1>2, <1>3, <1>4

\* The tables, and what stands in them.
LEMMA TypeFacts ==
  ASSUME SamplesTypes
  PROVE  /\ load \in [Loads -> LoadRecords]
         /\ sampleRows \in Seq(RowRecords) /\ Len(sampleRows) \in Nat
         /\ DOMAIN sampleRows = 1 .. Len(sampleRows)
         /\ \A i \in DOMAIN sampleRows : sampleRows[i] \in RowRecords
         /\ seen \in Seq(SightingRecords) /\ Len(seen) \in Nat
         /\ DOMAIN seen = 1 .. Len(seen)
         /\ \A i \in DOMAIN seen : seen[i] \in SightingRecords
         /\ \A l \in Loads : load[l] \in LoadRecords
<1>1. /\ load \in [Loads -> LoadRecords] /\ sampleRows \in Seq(RowRecords)
      /\ seen \in Seq(SightingRecords)
  BY DEF SamplesTypes, LoadRecords, RowRecords, SightingRecords
<1>2. /\ Len(sampleRows) \in Nat /\ DOMAIN sampleRows = 1 .. Len(sampleRows)
      /\ Len(seen) \in Nat /\ DOMAIN seen = 1 .. Len(seen)
  BY <1>1, LenProperties
<1>3. \A i \in 1 .. Len(sampleRows) : sampleRows[i] \in RowRecords
  BY <1>1, ElementOfSeq
<1>4. \A i \in 1 .. Len(seen) : seen[i] \in SightingRecords
  BY <1>1, ElementOfSeq
<1>5. QED
  BY <1>1, <1>2, <1>3, <1>4

\* The step a load is at.
LEMMA HereFacts ==
  ASSUME SamplesTypes, NEW l \in Loads, Running(l)
  PROVE  /\ Here(l).arg \in SampleArgs /\ Here(l).doc \in SampleIds
         /\ load[l].at \in DOMAIN manifest /\ Doc(l) \in Nat
<1>1. load[l].at \in DOMAIN manifest /\ Here(l) = manifest[load[l].at]
  BY ManifestFacts DEF Running, Here
<1>2. load[l].docs \in [SampleIds -> Nat]
  BY TypeFacts DEF LoadRecords
<1>3. QED
  BY <1>1, <1>2, ManifestFacts DEF Doc

\* The loads, field by field.
LEMMA LoadFacts ==
  ASSUME SamplesTypes
  PROVE  /\ load \in [Loads -> LoadRecords]
         /\ \A l \in Loads : /\ load[l] \in LoadRecords
                             /\ load[l].at \in Int /\ load[l].does \in Works
                             /\ load[l].failed \in Nat
                             /\ load[l].docs \in [SampleIds -> Nat]
  BY TypeFacts DEF LoadRecords

(* What each step does to the request that takes it *)

Turned(l, at, does, docs, failed) ==
    /\ load' \in [Loads -> LoadRecords]
    /\ load'[l].at = at /\ load'[l].does = does
    /\ load'[l].docs = docs /\ load'[l].failed = failed
    /\ \A k \in Loads \ {l} : load'[k] = load[k]

\* What two fields of a load are replaced by.
LEMMA RecordFields ==
  ASSUME NEW W, NEW D, NEW r \in [at : Int, does : W, docs : D, failed : Nat],
         NEW a \in Int, NEW w \in W
  PROVE  LET s == [r EXCEPT !.at = a, !.does = w]
         IN  /\ s \in [at : Int, does : W, docs : D, failed : Nat]
             /\ s.at = a /\ s.does = w /\ s.docs = r.docs /\ s.failed = r.failed
  OBVIOUS

\* A load goes on to the next query of its step.
LEMMA MovedTurns ==
  ASSUME SamplesTypes, NEW l \in Loads, NEW does \in Works, Moved(l, does)
  PROVE  Turned(l, load[l].at, does, load[l].docs, load[l].failed)
  BY TypeFacts DEF Turned, LoadRecords, Moved

\* A load goes on to the next step.
LEMMA PassedTurns ==
  ASSUME SamplesTypes, NEW l \in Loads, Passed(l)
  PROVE  Turned(l, load[l].at + 1, "nothing", load[l].docs, load[l].failed)
<1>1. load[l] \in LoadRecords /\ "nothing" \in Works
  BY TypeFacts DEF Works
<1> DEFINE r == [load[l] EXCEPT !.at = load[l].at + 1, !.does = "nothing"]
<1>2. load' = [load EXCEPT ![l] = r]
  BY LoadFacts DEF Passed
<1>3. /\ r \in LoadRecords /\ r.at = load[l].at + 1 /\ r.does = "nothing"
      /\ r.docs = load[l].docs /\ r.failed = load[l].failed
  <2>1. load[l].at + 1 \in Int
    BY LoadFacts
  <2>2. QED
    BY <1>1, <2>1, RecordFields, Zenon DEF LoadRecords
<1> HIDE DEF r
<1>4. QED
  BY <1>2, <1>3, LoadFacts DEF Turned

\* A load begins at the first step.
LEMMA BeginTurns ==
  ASSUME SamplesTypes, NEW l \in Loads, Begin(l)
  PROVE  Turned(l, 1, load[l].does, load[l].docs, load[l].failed)
<1>1. load[l] \in LoadRecords
  BY TypeFacts
<1>2. load' = [load EXCEPT ![l].at = 1]
  BY DEF Begin
<1>3. load' \in [Loads -> LoadRecords]
  BY <1>1, <1>2, LoadFacts DEF LoadRecords
<1>4. QED
  BY <1>1, <1>2, <1>3, TypeFacts DEF Turned, LoadRecords

\* A load notes the failure of a step and goes on to the next one.
LEMMA FailTurns ==
  ASSUME SamplesTypes, NEW l \in Loads, Fail(l)
  PROVE  Turned(l, load[l].at + 1, "nothing", load[l].docs, load[l].failed + 1)
  BY TypeFacts DEF Turned, LoadRecords, Fail, Works

\* A load that is answered from the idempotency table knows the document.
LEMMA ReplayedTurns ==
  ASSUME SamplesTypes, NEW l \in Loads, Replayed(l)
  PROVE  /\ Here(l).doc \in SampleIds /\ response[Here(l).doc] \in Nat
         /\ Turned(l, load[l].at + 1, load[l].does,
                   [load[l].docs EXCEPT ![Here(l).doc] = response[Here(l).doc]],
                   load[l].failed)
<1> DEFINE d == Here(l).doc
           n == response[d]
<1>1. d \in SampleIds /\ n \in Nat
  BY HereFacts DEF Replayed, At, SamplesTypes
<1>2. load' = [load EXCEPT ![l].at = load[l].at + 1, ![l].docs[d] = n]
  BY DEF Replayed
<1> HIDE DEF d, n
<1> DEFINE r == [load[l] EXCEPT !.at = load[l].at + 1, !.docs[d] = n]
<1>3. load' = [load EXCEPT ![l] = r]
  BY <1>2, LoadFacts
<1>4. /\ r \in LoadRecords /\ r.at = load[l].at + 1 /\ r.does = load[l].does
      /\ r.failed = load[l].failed /\ r.docs = [load[l].docs EXCEPT ![d] = n]
  <2>1. load[l].at + 1 \in Int /\ load[l].does \in Works /\ load[l] \in LoadRecords
    BY LoadFacts
  <2>2. QED
    BY <1>1, <2>1 DEF LoadRecords
<1> HIDE DEF r
<1>5. Turned(l, load[l].at + 1, load[l].does, [load[l].docs EXCEPT ![d] = n], load[l].failed)
  BY <1>3, <1>4, LoadFacts DEF Turned
<1>6. QED
  BY <1>1, <1>5 DEF d, n

\* A load that has appended the issue of a sample knows the document.
LEMMA AppendTurns ==
  ASSUME SamplesTypes, NEW l \in Loads, AppendIssue(l)
  PROVE  /\ Here(l).doc \in SampleIds /\ Len(sampleRows) + 1 \in Nat
         /\ Turned(l, load[l].at, "storing",
                   [load[l].docs EXCEPT ![Here(l).doc] = Len(sampleRows) + 1],
                   load[l].failed)
<1> DEFINE d == Here(l).doc
           n == Len(sampleRows) + 1
<1>1. d \in SampleIds /\ n \in Nat
  BY HereFacts, TypeFacts DEF AppendIssue, At
<1>2. load' = [load EXCEPT ![l].does = "storing", ![l].docs[d] = n]
  BY DEF AppendIssue
<1> HIDE DEF d, n
<1> DEFINE r == [load[l] EXCEPT !.does = "storing", !.docs[d] = n]
<1>3. load' = [load EXCEPT ![l] = r]
  BY <1>2, LoadFacts
<1>4. /\ r \in LoadRecords /\ r.at = load[l].at /\ r.does = "storing"
      /\ r.failed = load[l].failed /\ r.docs = [load[l].docs EXCEPT ![d] = n]
  <2>1. load[l].at \in Int /\ "storing" \in Works /\ load[l] \in LoadRecords
    BY LoadFacts DEF Works
  <2>2. QED
    BY <1>1, <2>1 DEF LoadRecords
<1> HIDE DEF r
<1>5. Turned(l, load[l].at, "storing", [load[l].docs EXCEPT ![d] = n], load[l].failed)
  BY <1>3, <1>4, LoadFacts DEF Turned
<1>6. QED
  BY <1>1, <1>5 DEF d, n

\* A stop ends the loads that run and leaves the others alone.
LEMMA StopTurns ==
  ASSUME SamplesTypes, StopLoading
  PROVE  /\ load' \in [Loads -> LoadRecords]
         /\ \A l \in Loads :
               /\ Running(l) => load'[l].at = -1
               /\ ~ Running(l) => load'[l] = load[l]
               /\ load'[l].docs = load[l].docs
<1>1. ASSUME NEW l \in Loads
      PROVE  LET r == [load[l] EXCEPT !.at = -1]
             IN  /\ r \in LoadRecords /\ r.at = -1 /\ r.docs = load[l].docs
  <2>1. load[l] \in LoadRecords /\ -1 \in Int
    BY LoadFacts
  <2>2. QED
    BY <2>1 DEF LoadRecords
<1>2. load' = [l \in Loads |-> IF Running(l) THEN [load[l] EXCEPT !.at = -1] ELSE load[l]]
  BY DEF StopLoading
<1>3. ASSUME NEW l \in Loads
      PROVE  load'[l] = IF Running(l) THEN [load[l] EXCEPT !.at = -1] ELSE load[l]
  BY <1>2
<1>4. \A l \in Loads : load'[l] \in LoadRecords
  BY <1>1, <1>3, LoadFacts
<1>5. load' \in [Loads -> LoadRecords]
  BY <1>2, <1>4
<1>6. QED
  BY <1>1, <1>3, <1>5

\* A step of one load says nothing of the others.
LEMMA OthersStay ==
  ASSUME NEW l, manifest' = manifest, \A k \in Loads \ {l} : load'[k] = load[k]
  PROVE  \A k \in Loads \ {l} :
            /\ Running(k)' <=> Running(k)
            /\ Here(k)' = Here(k) /\ Doc(k)' = Doc(k)
            /\ Issuing(k)' <=> Issuing(k)
  BY DEF Running, Here, Doc, Issuing

\* The steps that begin, end and change nothing but the request.
Waits(l) ==
    \/ FirstIssue(l) \/ MissResponse(l)
    \/ GoOnToUpdate(l) \/ GoOnToSeal(l) \/ GoOnToObserve(l)
Moves(l) ==
    \/ SkipUpdate(l) \/ SkipSeal(l) \/ SkipObservation(l)
    \/ KeepResponse(l) \/ LoseResponse(l)
    \/ Update(l) \/ Seal(l) \/ Observe(l)

\* The steps of a load, by what becomes of it.
LEMMA StepsByEffect ==
  ASSUME NEW l, LoadStep(l)
  PROVE  Begin(l) \/ Fail(l) \/ Replayed(l) \/ AppendIssue(l) \/ Waits(l) \/ Moves(l)
  BY Zenon DEF LoadStep, Waits, Moves

\* Who has looked, and will act, has changed nothing yet.
LEMMA WaitsTurns ==
  ASSUME SamplesTypes, NEW l \in Loads, Waits(l)
  PROVE  /\ Running(l) /\ load[l].does = "nothing"
         /\ \E does \in {"issuing", "updating", "sealing", "observing"} :
               Turned(l, load[l].at, does, load[l].docs, load[l].failed)
         /\ UNCHANGED <<manifest, sampleRows, response, sealed, seen, together>>
<1>1. Running(l) /\ load[l].does = "nothing"
  BY DEF Waits, FirstIssue, MissResponse, GoOnToUpdate, GoOnToSeal, GoOnToObserve, At
<1>2. PICK does \in {"issuing", "updating", "sealing", "observing"} : Moved(l, does)
  BY DEF Waits, FirstIssue, MissResponse, GoOnToUpdate, GoOnToSeal, GoOnToObserve
<1>3. does \in Works
  BY DEF Works
<1>4. Turned(l, load[l].at, does, load[l].docs, load[l].failed)
  BY <1>2, <1>3, MovedTurns
<1>5. UNCHANGED <<manifest, sampleRows, response, sealed, seen, together>>
  BY DEF Waits, FirstIssue, MissResponse, GoOnToUpdate, GoOnToSeal, GoOnToObserve
<1>6. QED
  BY <1>1, <1>4, <1>5

\* Who has done with a step is at the next one.
LEMMA MovesTurns ==
  ASSUME SamplesTypes, NEW l \in Loads, Moves(l)
  PROVE  /\ Running(l)
         /\ Turned(l, load[l].at + 1, "nothing", load[l].docs, load[l].failed)
         /\ UNCHANGED <<manifest, together>>
<1>1. Running(l) /\ Passed(l)
  BY DEF Moves, SkipUpdate, SkipSeal, SkipObservation, KeepResponse, LoseResponse,
         Update, Seal, Observe, At
<1>2. UNCHANGED <<manifest, together>>
  BY DEF Moves, SkipUpdate, SkipSeal, SkipObservation, KeepResponse, LoseResponse,
         Update, Seal, Observe
<1>3. QED
  BY <1>1, <1>2, PassedTurns

\* The manifest and the other loads stay as they are.
LEMMA StepFrames ==
  ASSUME SamplesTypes, NEW l \in Loads, LoadStep(l)
  PROVE  /\ manifest' = manifest /\ load' \in [Loads -> LoadRecords]
         /\ \A k \in Loads \ {l} : load'[k] = load[k]
<1>1. manifest' = manifest
  BY Zenon DEF LoadStep, Begin, Fail, Replayed, FirstIssue, MissResponse, AppendIssue, KeepResponse,
         LoseResponse, SkipUpdate, GoOnToUpdate, Update, SkipSeal, GoOnToSeal, Seal,
         SkipObservation, GoOnToObserve, Observe
<1>2. \E at, does, docs, failed : Turned(l, at, does, docs, failed)
  BY StepsByEffect, BeginTurns, FailTurns, ReplayedTurns, AppendTurns, WaitsTurns,
     MovesTurns, Zenon
<1>3. QED
  BY <1>1, <1>2 DEF Turned

-----------------------------------------------------------------------------
(* Types *)

\* The rows that the handlers append.
LEMMA RowType ==
  ASSUME NEW n \in Nat, NEW d \in SampleIds, NEW type \in Updates \union {"ISSUE"},
         NEW grade \in SampleArgs \union {"S"}
  PROVE  SampleRow(n, d, type, grade) \in RowRecords
  BY DEF SampleRow, RowRecords

\* The observation that a load adds.
Sighting(l) == [doc |-> Doc(l), sample |-> Here(l).doc, time |-> TimeKept(Here(l))]

\* It is what the load looked for, but for its time.
LEMMA SightingFacts ==
  ASSUME SamplesTypes, NEW l \in Loads, Running(l)
  PROVE  /\ [Observation(l) EXCEPT !.time = TimeKept(Here(l))] = Sighting(l)
         /\ Sighting(l) \in SightingRecords
<1>1. Doc(l) \in Nat /\ Here(l).doc \in SampleIds /\ TimeKept(Here(l)) \in SampleArgs \union {Now}
  BY HereFacts DEF TimeKept
<1>2. QED
  BY <1>1 DEF Observation, Sighting, SightingRecords

\* A step of a load keeps the types.
LEMMA SamplesTypesKeep ==
  ASSUME SamplesTypes, NEW l \in Loads, LoadStep(l)
  PROVE  SamplesTypes'
<1>1. manifest' \in Manifests
  BY StepFrames DEF SamplesTypes
<1>2. load' \in [Loads -> [at : Int, does : Works, docs : [SampleIds -> Nat], failed : Nat]]
  BY StepFrames DEF LoadRecords
<1>3. sampleRows' \in Seq(RowRecords)
  <2>1. CASE AppendIssue(l)
    <3>1. SampleRow(Len(sampleRows) + 1, Here(l).doc, "ISSUE", "S") \in RowRecords
      <4>1. Here(l).doc \in SampleIds /\ Len(sampleRows) + 1 \in Nat
        BY <2>1, AppendTurns
      <4>2. QED
        BY <4>1, RowType
    <3>2. QED
      BY <2>1, <3>1, TypeFacts, AppendProperties DEF AppendIssue
  <2>2. CASE Update(l)
    <3>1. SampleRow(Doc(l), Here(l).doc, Here(l).type, Here(l).arg) \in RowRecords
      BY <2>2, HereFacts DEF SampleRow, RowRecords, Update, At
    <3>2. QED
      BY <2>2, <3>1, TypeFacts, AppendProperties DEF Update
  <2>3. CASE ~ AppendIssue(l) /\ ~ Update(l)
    <3>1. sampleRows' = sampleRows
      BY <2>3, Zenon DEF LoadStep, Begin, Fail, Replayed, FirstIssue, MissResponse, KeepResponse,
             LoseResponse, SkipUpdate, GoOnToUpdate, SkipSeal, GoOnToSeal, Seal,
             SkipObservation, GoOnToObserve, Observe
    <3>2. QED
      BY <3>1, TypeFacts
  <2>4. QED
    BY <2>1, <2>2, <2>3
<1>4. response' \in [SampleIds -> Nat]
  <2>1. CASE KeepResponse(l)
    <3>1. /\ Doc(l) \in Nat
          /\ response' = [response EXCEPT ![Here(l).doc] = IF @ = 0 THEN Doc(l) ELSE @]
      BY <2>1, HereFacts DEF KeepResponse, At
    <3>2. QED
      BY <3>1 DEF SamplesTypes
  <2>2. CASE ~ KeepResponse(l)
    <3>1. response' = response
      BY <2>2, Zenon DEF LoadStep, Begin, Fail, Replayed, FirstIssue, MissResponse, AppendIssue,
             LoseResponse, SkipUpdate, GoOnToUpdate, Update, SkipSeal, GoOnToSeal, Seal,
             SkipObservation, GoOnToObserve, Observe
    <3>2. QED
      BY <3>1 DEF SamplesTypes
  <2>3. QED
    BY <2>1, <2>2
<1>5. sealed' \in Seq(Nat)
  <2>1. CASE Seal(l)
    BY <2>1, TypeFacts, AppendProperties DEF Seal, SamplesTypes
  <2>2. CASE ~ Seal(l)
    <3>1. sealed' = sealed
      BY <2>2, Zenon DEF LoadStep, Begin, Fail, Replayed, FirstIssue, MissResponse, AppendIssue,
             KeepResponse, LoseResponse, SkipUpdate, GoOnToUpdate, Update, SkipSeal,
             GoOnToSeal, SkipObservation, GoOnToObserve, Observe
    <3>2. QED
      BY <3>1 DEF SamplesTypes
  <2>3. QED
    BY <2>1, <2>2
<1>6. seen' \in Seq(SightingRecords)
  <2>1. CASE Observe(l)
    <3>1. seen' = Append(seen, Sighting(l)) /\ Sighting(l) \in SightingRecords
      BY <2>1, SightingFacts DEF Observe, At
    <3>2. QED
      BY <3>1, TypeFacts, AppendProperties
  <2>2. CASE ~ Observe(l)
    <3>1. seen' = seen
      BY <2>2, Zenon DEF LoadStep, Begin, Fail, Replayed, FirstIssue, MissResponse, AppendIssue,
             KeepResponse, LoseResponse, SkipUpdate, GoOnToUpdate, Update, SkipSeal,
             GoOnToSeal, Seal, SkipObservation, GoOnToObserve
    <3>2. QED
      BY <3>1, TypeFacts
  <2>3. QED
    BY <2>1, <2>2
<1>7. loadMu' \in Loads \union {NoLoad} /\ together' \in BOOLEAN
  <2>1. loadMu' \in {loadMu, l, NoLoad}
    BY Zenon DEF LoadStep, Begin, Fail, Replayed, FirstIssue, MissResponse, AppendIssue,
             KeepResponse, LoseResponse, SkipUpdate, GoOnToUpdate, Update, SkipSeal,
             GoOnToSeal, Seal, SkipObservation, GoOnToObserve, Observe
  <2>2. together' = together \/ together' = (together \/ \E k \in Loads : Running(k))
    BY Zenon DEF LoadStep, Begin, Fail, Replayed, FirstIssue, MissResponse, AppendIssue,
             KeepResponse, LoseResponse, SkipUpdate, GoOnToUpdate, Update, SkipSeal,
             GoOnToSeal, Seal, SkipObservation, GoOnToObserve, Observe
  <2>3. together' \in BOOLEAN
    BY <2>2, Zenon DEF SamplesTypes
  <2>4. QED
    BY <2>1, <2>3 DEF SamplesTypes
<1>8. lost' \subseteq SampleIds
  <2>1. CASE LoseResponse(l) \/ MissResponse(l)
    BY <2>1, HereFacts DEF LoseResponse, MissResponse, At, SamplesTypes
  <2>2. CASE ~ LoseResponse(l) /\ ~ MissResponse(l)
    <3>1. lost' = lost
      BY <2>2, Zenon DEF LoadStep, Begin, Fail, Replayed, FirstIssue, AppendIssue,
             KeepResponse, SkipUpdate, GoOnToUpdate, Update, SkipSeal,
             GoOnToSeal, Seal, SkipObservation, GoOnToObserve, Observe
    <3>2. QED
      BY <3>1 DEF SamplesTypes
  <2>3. QED
    BY <2>1, <2>2
<1>9. QED
  BY <1>1, <1>2, <1>3, <1>4, <1>5, <1>6, <1>7, <1>8
     DEF SamplesTypes, RowRecords, SightingRecords

\* A stop keeps the types.
LEMMA SamplesTypesStay ==
  ASSUME SamplesTypes, StopLoading
  PROVE  SamplesTypes'
<1>1. load' \in [Loads -> [at : Int, does : Works, docs : [SampleIds -> Nat], failed : Nat]]
  BY StopTurns DEF LoadRecords
<1>2. \A l \in {k \in Loads : Running(k) /\ load[k].does = "storing"} : Here(l).doc \in SampleIds
  BY HereFacts
<1>3. lost' \subseteq SampleIds
  BY <1>2 DEF StopLoading, SamplesTypes
<1>4. QED
  BY <1>1, <1>3 DEF StopLoading, SamplesTypes

-----------------------------------------------------------------------------
(* issueMu *)

\* A request that is not issuing does not hold it; one that stops issuing lets it go.
LEMMA WorkFitsElsewhere ==
  ASSUME SamplesTypes, WorkFits, NEW l \in Loads, manifest' = manifest,
         \A k \in Loads \ {l} : load'[k] = load[k],
         load'[l].at # 0, load'[l].does \notin {"issuing", "storing"},
         loadMu' = (IF loadMu = l THEN NoLoad ELSE loadMu)
  PROVE  WorkFits'
<1>1. \A k \in Loads \ {l} : /\ Running(k)' <=> Running(k)
                             /\ Here(k)' = Here(k) /\ (Issuing(k)' <=> Issuing(k))
  BY OthersStay
<1>2. ~ Issuing(l)'
  BY DEF Issuing
<1>3. NoLoad \notin Loads
  BY SamplesAssumption
<1>4. \A k \in Loads : load'[k].at = 0 => load'[k].does = "nothing"
  BY DEF WorkFits
<1>5. \A k \in Loads : Issuing(k)' => loadMu' = k /\ Here(k)'.type = "ISSUE"
  BY <1>1, <1>2, <1>3 DEF WorkFits
<1>6. \A k \in Loads : loadMu' = k => Issuing(k)'
  BY <1>1, <1>2, <1>3 DEF WorkFits
<1>7. QED
  BY <1>4, <1>5, <1>6 DEF WorkFits

\* issueMu is taken for the lookup and given back with the response.
LEMMA WorkFitsKeep ==
  ASSUME SamplesTypes, WorkFits, NEW l \in Loads, LoadStep(l)
  PROVE  WorkFits'
<1>1. /\ manifest' = manifest
      /\ \A k \in Loads \ {l} : load'[k] = load[k]
      /\ load[l].at \in Int
  BY StepFrames, LoadFacts
<1>2. \A k \in Loads \ {l} : /\ Running(k)' <=> Running(k)
                             /\ Here(k)' = Here(k) /\ (Issuing(k)' <=> Issuing(k))
  BY <1>1, OthersStay
<1>3. Running(l) => load[l].at # 0 /\ load[l].at + 1 # 0
  BY <1>1, ManifestFacts DEF Running
<1>4. loadMu = l => Issuing(l)
  BY DEF WorkFits
<1>5. NoLoad \notin Loads
  BY SamplesAssumption
<1>6. CASE Begin(l)
  <2>1. load'[l].at = 1 /\ load'[l].does = "nothing"
    BY <1>6, BeginTurns DEF Turned, Begin, WorkFits
  <2>2. loadMu # l /\ loadMu' = loadMu
    BY <1>4, <1>6, ManifestFacts DEF Begin, Issuing, Running
  <2>3. QED
    BY <1>1, <2>1, <2>2, WorkFitsElsewhere
<1>7. CASE Fail(l)
  <2>1. load'[l].at # 0 /\ load'[l].does = "nothing"
    BY <1>3, <1>7, FailTurns DEF Turned, Fail
  <2>2. loadMu' = (IF loadMu = l THEN NoLoad ELSE loadMu)
    BY <1>7 DEF Fail
  <2>3. QED
    BY <1>1, <2>1, <2>2, WorkFitsElsewhere
<1>8. CASE Replayed(l)
  <2>1. load'[l].at # 0 /\ load'[l].does = "nothing"
    BY <1>3, <1>8, ReplayedTurns DEF Turned, Replayed, At
  <2>2. loadMu' = (IF loadMu = l THEN NoLoad ELSE loadMu)
    BY <1>8 DEF Replayed
  <2>3. QED
    BY <1>1, <2>1, <2>2, WorkFitsElsewhere
<1>9. CASE FirstIssue(l) \/ MissResponse(l)
  <2>1. /\ load'[l].at = load[l].at /\ load'[l].does = "issuing" /\ loadMu' = l
        /\ Running(l) /\ Here(l).type = "ISSUE" /\ loadMu = NoLoad
    BY <1>9, MovedTurns DEF Turned, FirstIssue, MissResponse, At, Works
  <2>2. Running(l)' /\ Here(l)' = Here(l) /\ Issuing(l)' /\ load[l].at # 0
    BY <1>1, <2>1, ManifestFacts DEF Running, Here, Issuing
  <2>3. QED
    BY <1>2, <1>1, <1>5, <2>1, <2>2 DEF WorkFits
<1>10. CASE AppendIssue(l)
  <2>1. /\ load'[l].at = load[l].at /\ load'[l].does = "storing" /\ loadMu' = loadMu
        /\ Running(l) /\ Here(l).type = "ISSUE" /\ Issuing(l)
    BY <1>10, AppendTurns DEF Turned, AppendIssue, At, Issuing
  <2>2. Running(l)' /\ Here(l)' = Here(l) /\ Issuing(l)' /\ load[l].at # 0
    BY <1>1, <2>1, ManifestFacts DEF Running, Here, Issuing
  <2>3. loadMu = l
    BY <2>1 DEF WorkFits
  <2>4. QED
    BY <1>2, <1>1, <2>1, <2>2, <2>3 DEF WorkFits
<1>11. CASE Waits(l) /\ ~ FirstIssue(l) /\ ~ MissResponse(l)
  <2>1. /\ load'[l].at # 0 /\ load'[l].does \notin {"issuing", "storing"}
        /\ loadMu' = loadMu /\ load[l].does = "nothing"
    <3>1. PICK does \in {"updating", "sealing", "observing"} : Moved(l, does)
      BY <1>11 DEF Waits, GoOnToUpdate, GoOnToSeal, GoOnToObserve
    <3>2. does \in Works
      BY DEF Works
    <3>3. load'[l].at = load[l].at /\ load'[l].does = does
      BY <3>1, <3>2, MovedTurns DEF Turned
    <3>4. loadMu' = loadMu
      BY <1>11 DEF Waits, GoOnToUpdate, GoOnToSeal, GoOnToObserve
    <3>5. Running(l) /\ load[l].does = "nothing"
      BY <1>11, WaitsTurns
    <3>6. QED
      BY <3>3, <3>4, <3>5, ManifestFacts DEF Running
  <2>2. loadMu # l
    BY <1>4, <2>1 DEF Issuing
  <2>3. QED
    BY <1>1, <2>1, <2>2, WorkFitsElsewhere
<1>12. CASE Moves(l)
  <2>1. load'[l].at # 0 /\ load'[l].does = "nothing"
    BY <1>1, <1>12, MovesTurns, ManifestFacts DEF Turned, Running
  <2>2. loadMu' = (IF loadMu = l THEN NoLoad ELSE loadMu)
    <3>1. CASE KeepResponse(l) \/ LoseResponse(l)
      <4>1. Issuing(l) /\ loadMu' = NoLoad
        BY <3>1 DEF KeepResponse, LoseResponse, At, Issuing
      <4>2. QED
        BY <4>1 DEF WorkFits
    <3>2. CASE ~ (KeepResponse(l) \/ LoseResponse(l))
      <4>1. load[l].does \notin {"issuing", "storing"} /\ loadMu' = loadMu
        BY <1>12, <3>2 DEF Moves, SkipUpdate, SkipSeal, SkipObservation, Update, Seal,
           Observe, At
      <4>2. QED
        BY <1>4, <4>1 DEF Issuing
    <3>3. QED
      BY <3>1, <3>2
  <2>3. QED
    BY <1>1, <2>1, <2>2, WorkFitsElsewhere
<1>13. QED
  BY <1>6, <1>7, <1>8, <1>9, <1>10, <1>11, <1>12, StepsByEffect

\* A stop gives issueMu back.
LEMMA WorkFitsStay ==
  ASSUME SamplesTypes, WorkFits, StopLoading
  PROVE  WorkFits'
<1>1. \A l \in Loads : ~ Running(l)'
  <2> SUFFICES ASSUME NEW l \in Loads, Running(l)' PROVE FALSE
    OBVIOUS
  <2>1. CASE Running(l)
    BY <2>1, StopTurns, ManifestFacts DEF Running, StopLoading
  <2>2. CASE ~ Running(l)
    BY <2>2, StopTurns DEF Running, StopLoading
  <2>3. QED
    BY <2>1, <2>2
<1>2. \A l \in Loads : load'[l].at = 0 => load'[l].does = "nothing"
  <2> SUFFICES ASSUME NEW l \in Loads, load'[l].at = 0 PROVE load'[l].does = "nothing"
    OBVIOUS
  <2>1. load'[l] = load[l]
    BY StopTurns
  <2>2. QED
    BY <2>1 DEF WorkFits
<1>3. loadMu' = NoLoad /\ NoLoad \notin Loads
  BY SamplesAssumption DEF StopLoading
<1>4. QED
  BY <1>1, <1>2, <1>3 DEF WorkFits, Issuing

-----------------------------------------------------------------------------
(* The table and the documents the requests know *)

\* The table after an issue.
LEMMA IssueAppended ==
  ASSUME SamplesTypes, NEW l \in Loads, AppendIssue(l)
  PROVE  LET n == Len(sampleRows) + 1
         IN  /\ n \in Nat \ {0} /\ n \notin DOMAIN sampleRows
             /\ DOMAIN sampleRows' = DOMAIN sampleRows \union {n}
             /\ \A i \in DOMAIN sampleRows : sampleRows'[i] = sampleRows[i]
             /\ sampleRows'[n].sample = Here(l).doc /\ sampleRows'[n].type = "ISSUE"
             /\ sampleRows'[n].doc = n
             /\ \A d : IssueRowsOf(d)' = IssueRowsOf(d) \union {i \in {n} : d = Here(l).doc}
             /\ \A d : UpdateRowsOf(d)' = UpdateRowsOf(d)
<1> DEFINE n == Len(sampleRows) + 1
           r == SampleRow(n, Here(l).doc, "ISSUE", "S")
<1>1. /\ Len(sampleRows) \in Nat /\ DOMAIN sampleRows = 1 .. Len(sampleRows)
      /\ sampleRows \in Seq(RowRecords)
  BY TypeFacts
<1>2. Here(l).doc \in SampleIds /\ n \in Nat
  BY <1>1, AppendTurns
<1>3. r \in RowRecords
  BY <1>2, RowType
<1>4. sampleRows' = Append(sampleRows, r)
  BY DEF AppendIssue
<1>5. r.sample = Here(l).doc /\ r.type = "ISSUE" /\ r.doc = n
  BY DEF SampleRow
<1> HIDE DEF r
<1>6. /\ sampleRows' \in Seq(RowRecords) /\ Len(sampleRows') = n
      /\ \A i \in 1 .. Len(sampleRows) : sampleRows'[i] = sampleRows[i]
      /\ sampleRows'[n] = r
  BY <1>1, <1>3, <1>4, AppendProperties
<1>7. DOMAIN sampleRows' = 1 .. n
  BY <1>6, LenProperties
<1>8. DOMAIN sampleRows' = DOMAIN sampleRows \union {n} /\ n \notin DOMAIN sampleRows
  BY <1>1, <1>7
<1>9. n \in Nat \ {0}
  BY <1>1
<1> HIDE DEF n
<1>10. \A d : IssueRowsOf(d)' = IssueRowsOf(d) \union {i \in {n} : d = Here(l).doc}
  BY <1>1, <1>5, <1>6, <1>8 DEF IssueRowsOf
<1>11. \A d : UpdateRowsOf(d)' = UpdateRowsOf(d)
  BY <1>1, <1>5, <1>6, <1>8 DEF UpdateRowsOf, Updates
<1>12. QED
  BY <1>1, <1>5, <1>6, <1>8, <1>9, <1>10, <1>11 DEF n

\* The table after an update.
LEMMA UpdateAppended ==
  ASSUME SamplesTypes, NEW l \in Loads, Update(l)
  PROVE  LET n == Len(sampleRows) + 1
         IN  /\ n \in Nat \ {0} /\ n \notin DOMAIN sampleRows
             /\ DOMAIN sampleRows' = DOMAIN sampleRows \union {n}
             /\ \A i \in DOMAIN sampleRows : sampleRows'[i] = sampleRows[i]
             /\ sampleRows'[n].sample = Here(l).doc /\ sampleRows'[n].type = Here(l).type
             /\ sampleRows'[n].grade = Here(l).arg /\ sampleRows'[n].doc = Doc(l)
             /\ \A d : IssueRowsOf(d)' = IssueRowsOf(d)
             /\ \A d : UpdateRowsOf(d)' = UpdateRowsOf(d) \union {i \in {n} : d = Here(l).doc}
<1> DEFINE n == Len(sampleRows) + 1
           r == SampleRow(Doc(l), Here(l).doc, Here(l).type, Here(l).arg)
<1>1. /\ Len(sampleRows) \in Nat /\ DOMAIN sampleRows = 1 .. Len(sampleRows)
      /\ sampleRows \in Seq(RowRecords)
  BY TypeFacts
<1>2. /\ Here(l).doc \in SampleIds /\ Here(l).type \in Updates
      /\ Here(l).arg \in SampleArgs /\ Doc(l) \in Nat
  BY HereFacts DEF Update, At
<1>3. r \in RowRecords
  BY <1>2, RowType
<1>4. sampleRows' = Append(sampleRows, r)
  BY DEF Update
<1>5. /\ r.sample = Here(l).doc /\ r.type = Here(l).type /\ r.type \in Updates
      /\ r.grade = Here(l).arg /\ r.doc = Doc(l)
  BY <1>2 DEF SampleRow
<1> HIDE DEF r
<1>6. /\ sampleRows' \in Seq(RowRecords) /\ Len(sampleRows') = n
      /\ \A i \in 1 .. Len(sampleRows) : sampleRows'[i] = sampleRows[i]
      /\ sampleRows'[n] = r
  BY <1>1, <1>3, <1>4, AppendProperties
<1>7. DOMAIN sampleRows' = 1 .. n
  BY <1>6, LenProperties
<1>8. DOMAIN sampleRows' = DOMAIN sampleRows \union {n} /\ n \notin DOMAIN sampleRows
  BY <1>1, <1>7
<1>9. n \in Nat \ {0}
  BY <1>1
<1> HIDE DEF n
<1>10. \A d : IssueRowsOf(d)' = IssueRowsOf(d)
  BY <1>1, <1>5, <1>6, <1>8 DEF IssueRowsOf, Updates
<1>11. \A d : UpdateRowsOf(d)' = UpdateRowsOf(d) \union {i \in {n} : d = Here(l).doc}
  BY <1>1, <1>5, <1>6, <1>8 DEF UpdateRowsOf
<1>12. QED
  BY <1>1, <1>5, <1>6, <1>8, <1>9, <1>10, <1>11 DEF n

\* Nothing else is appended to the table.
LEMMA RowsElse ==
  ASSUME NEW l, LoadStep(l) \/ StopLoading, ~ AppendIssue(l), ~ Update(l)
  PROVE  sampleRows' = sampleRows
  BY Zenon DEF LoadStep, Begin, Fail, Replayed, FirstIssue, MissResponse, KeepResponse,
         LoseResponse, SkipUpdate, GoOnToUpdate, SkipSeal, GoOnToSeal, Seal,
         SkipObservation, GoOnToObserve, Observe, StopLoading

\* The rows of a sample are those of the table.
LEMMA RowsStay ==
  ASSUME sampleRows' = sampleRows
  PROVE  \A d : IssueRowsOf(d)' = IssueRowsOf(d) /\ UpdateRowsOf(d)' = UpdateRowsOf(d)
  BY DEF IssueRowsOf, UpdateRowsOf

\* Rows neither change nor go away.
LEMMA SampleRowsGrow ==
  ASSUME SamplesTypes, NEW l \in Loads, LoadStep(l)
  PROVE  /\ DOMAIN sampleRows \subseteq DOMAIN sampleRows'
         /\ \A i \in DOMAIN sampleRows : sampleRows'[i] = sampleRows[i]
         /\ \A d : IssueRowsOf(d) \subseteq IssueRowsOf(d)'
         /\ \A d : UpdateRowsOf(d) \subseteq UpdateRowsOf(d)'
<1>1. CASE AppendIssue(l)
  BY <1>1, IssueAppended
<1>2. CASE Update(l)
  BY <1>2, UpdateAppended
<1>3. CASE ~ AppendIssue(l) /\ ~ Update(l)
  BY <1>3, RowsElse, RowsStay
<1>4. QED
  BY <1>1, <1>2, <1>3

\* Only KeepResponse changes the idempotency table.
LEMMA ResponseElse ==
  ASSUME NEW l, LoadStep(l), ~ KeepResponse(l)
  PROVE  response' = response
  BY Zenon DEF LoadStep, Begin, Fail, Replayed, FirstIssue, MissResponse, AppendIssue,
         LoseResponse, SkipUpdate, GoOnToUpdate, Update, SkipSeal, GoOnToSeal, Seal,
         SkipObservation, GoOnToObserve, Observe

\* What a request knows of documents is what it knew, and what this step told it.
LEMMA DocsTurn ==
  ASSUME SamplesTypes, NEW l \in Loads, LoadStep(l)
  PROVE  \A k \in Loads : \A d \in SampleIds :
            \/ load'[k].docs[d] = load[k].docs[d]
            \/ /\ k = l /\ d = Here(l).doc /\ Replayed(l)
               /\ load'[l].docs[d] = response[d] /\ response[d] # 0
            \/ /\ k = l /\ d = Here(l).doc /\ AppendIssue(l)
               /\ load'[l].docs[d] = Len(sampleRows) + 1
<1> SUFFICES ASSUME NEW d \in SampleIds
             PROVE  \/ load'[l].docs[d] = load[l].docs[d]
                    \/ /\ d = Here(l).doc /\ Replayed(l)
                       /\ load'[l].docs[d] = response[d] /\ response[d] # 0
                    \/ /\ d = Here(l).doc /\ AppendIssue(l)
                       /\ load'[l].docs[d] = Len(sampleRows) + 1
  BY StepFrames
<1>1. load[l].docs \in [SampleIds -> Nat]
  BY LoadFacts
<1>2. CASE Begin(l)
  BY <1>2, BeginTurns DEF Turned
<1>3. CASE Fail(l)
  BY <1>3, FailTurns DEF Turned
<1>4. CASE Replayed(l)
  <2>1. load'[l].docs = [load[l].docs EXCEPT ![Here(l).doc] = response[Here(l).doc]]
    BY <1>4, ReplayedTurns DEF Turned
  <2>2. response[Here(l).doc] # 0
    BY <1>4 DEF Replayed
  <2>3. QED
    BY <1>1, <1>4, <2>1, <2>2
<1>5. CASE AppendIssue(l)
  <2>1. load'[l].docs = [load[l].docs EXCEPT ![Here(l).doc] = Len(sampleRows) + 1]
    BY <1>5, AppendTurns DEF Turned
  <2>2. QED
    BY <1>1, <1>5, <2>1
<1>6. CASE Waits(l)
  BY <1>6, WaitsTurns DEF Turned
<1>7. CASE Moves(l)
  BY <1>7, MovesTurns DEF Turned
<1>8. QED
  BY <1>2, <1>3, <1>4, <1>5, <1>6, <1>7, StepsByEffect

\* What is lost stays lost.
LEMMA LostGrows ==
  ASSUME NEW l, LoadStep(l)
  PROVE  lost \subseteq lost'
  BY Zenon DEF LoadStep, Begin, Fail, Replayed, FirstIssue, MissResponse, AppendIssue,
     KeepResponse, LoseResponse, SkipUpdate, GoOnToUpdate, Update, SkipSeal, GoOnToSeal,
     Seal, SkipObservation, GoOnToObserve, Observe

\* Loads learn documents from the table and from responses.
LEMMA DocsFitKeep ==
  ASSUME SamplesTypes, WorkFits, DocsFit, NEW l \in Loads, LoadStep(l)
  PROVE  DocsFit'
<1> DEFINE m == Here(l).doc
<1>1. /\ manifest' = manifest
      /\ \A k \in Loads \ {l} : load'[k] = load[k]
  BY StepFrames
<1>2. \A k \in Loads \ {l} : /\ Running(k)' <=> Running(k)
                             /\ Here(k)' = Here(k) /\ Doc(k)' = Doc(k)
  BY <1>1, OthersStay
<1>3. \A d : IssueRowsOf(d) \subseteq IssueRowsOf(d)'
  BY SampleRowsGrow
<1>4. KeepResponse(l) => /\ response' = [response EXCEPT ![m] = IF @ = 0 THEN Doc(l) ELSE @]
                         /\ m \in SampleIds /\ Doc(l) \in IssueRowsOf(m)
  <2> HAVE KeepResponse(l)
  <2>1. Running(l) /\ At(l, {"ISSUE"}, "storing")
    BY DEF KeepResponse, At
  <2>2. Doc(l) # 0 /\ m \in SampleIds
    BY <2>1, HereFacts DEF DocsFit, At
  <2>3. Doc(l) \in IssueRowsOf(m)
    BY <2>2 DEF DocsFit, Doc
  <2>4. QED
    BY <2>2, <2>3 DEF KeepResponse
<1> HIDE DEF m
<1>5. \A d \in SampleIds : response'[d] # 0 => response'[d] \in IssueRowsOf(d)'
  <2>1. CASE KeepResponse(l)
    <3>1. \A d \in SampleIds : response'[d] = IF d = m /\ response[d] = 0 THEN Doc(l) ELSE response[d]
      BY <1>4, <2>1 DEF SamplesTypes
    <3>2. QED
      BY <1>3, <1>4, <2>1, <3>1 DEF DocsFit
  <2>2. CASE ~ KeepResponse(l)
    BY <1>3, <2>2, ResponseElse DEF DocsFit
  <2>3. QED
    BY <2>1, <2>2
<1>6. ASSUME NEW k \in Loads, NEW d \in SampleIds, load'[k].docs[d] # 0
      PROVE  load'[k].docs[d] \in IssueRowsOf(d)'
  <2>1. CASE load'[k].docs[d] = load[k].docs[d]
    BY <1>3, <1>6, <2>1 DEF DocsFit
  <2>2. CASE load'[k].docs[d] = response[d] /\ response[d] # 0
    BY <1>3, <1>6, <2>2 DEF DocsFit
  <2>3. CASE AppendIssue(l) /\ d = Here(l).doc /\ load'[k].docs[d] = Len(sampleRows) + 1
    BY <2>3, IssueAppended
  <2>4. QED
    BY <2>1, <2>2, <2>3, DocsTurn
<1>7. ASSUME NEW k \in Loads, At(k, {"ISSUE"}, "issuing")', Here(k)'.doc \notin lost'
      PROVE  response'[Here(k)'.doc] = 0
  <2>1. CASE k # l
    <3>1. At(k, {"ISSUE"}, "issuing") /\ Here(k)' = Here(k)
      BY <1>1, <1>2, <1>7, <2>1 DEF At
    <3>2. loadMu = k
      BY <3>1 DEF WorkFits, Issuing, At
    <3>3. ~ KeepResponse(l)
      BY <2>1, <3>2 DEF KeepResponse, WorkFits, Issuing, At
    <3>4. QED
      BY <1>7, <3>1, <3>3, ResponseElse, LostGrows DEF DocsFit
  <2>2. CASE k = l
    <3>1. load'[l].does = "issuing" /\ Here(l)' = manifest[load'[l].at]
      BY <1>1, <1>7, <2>2 DEF At, Here
    <3>2. FirstIssue(l) \/ MissResponse(l) \/ load[l].does = "issuing"
      <4>1. CASE Begin(l)
        BY <3>1, <4>1, BeginTurns DEF Turned
      <4>2. CASE Fail(l)
        BY <3>1, <4>2, FailTurns DEF Turned
      <4>3. CASE Replayed(l)
        BY <3>1, <4>3, ReplayedTurns DEF Turned
      <4>4. CASE AppendIssue(l)
        BY <3>1, <4>4, AppendTurns DEF Turned
      <4>5. CASE Waits(l) /\ ~ FirstIssue(l) /\ ~ MissResponse(l)
        <5>1. PICK does \in {"updating", "sealing", "observing"} : Moved(l, does)
          BY <4>5 DEF Waits, GoOnToUpdate, GoOnToSeal, GoOnToObserve
        <5>2. does \in Works
          BY DEF Works
        <5>3. load'[l].does = does
          BY <5>1, <5>2, MovedTurns DEF Turned
        <5>4. QED
          BY <3>1, <5>3
      <4>6. CASE Moves(l)
        BY <3>1, <4>6, MovesTurns DEF Turned
      <4>7. QED
        BY <4>1, <4>2, <4>3, <4>4, <4>5, <4>6, StepsByEffect
    <3>3. CASE FirstIssue(l)
      <4>1. load'[l].at = load[l].at
        BY <3>3, MovedTurns DEF FirstIssue, MissResponse, Works, Turned
      <4>2. response' = response /\ response[Here(l).doc] = 0
        BY <3>3 DEF FirstIssue
      <4>3. QED
        BY <1>1, <2>2, <3>1, <4>1, <4>2 DEF Here
    <3>4. CASE load[l].does = "issuing"
      <4>1. ~ Begin(l)
        BY <3>4 DEF Begin, WorkFits
      <4>2. ~ Fail(l)
        BY <3>1, FailTurns DEF Turned
      <4>3. ~ Replayed(l) /\ ~ Waits(l)
        BY <3>4 DEF Replayed, Waits, At, FirstIssue, MissResponse, GoOnToUpdate, GoOnToSeal, GoOnToObserve
      <4>4. ~ AppendIssue(l) /\ ~ Moves(l)
        BY <3>1, AppendTurns, MovesTurns DEF Turned
      <4>5. QED
        BY <4>1, <4>2, <4>3, <4>4, StepsByEffect
    <3>5. CASE MissResponse(l)
      <4>1. load'[l].at = load[l].at
        BY <3>5, MovedTurns DEF MissResponse, Works, Turned
      <4>2. Here(l)' = Here(l) /\ Here(l).doc \in lost'
        BY <1>1, <3>5, <4>1 DEF MissResponse, Here
      <4>3. QED
        BY <1>7, <2>2, <4>2
    <3>6. QED
      BY <3>2, <3>3, <3>4, <3>5
  <2>3. QED
    BY <2>1, <2>2
<1>8. ASSUME NEW k \in Loads, Running(k)',
             load'[k].does \in {"storing", "updating", "observing"}
      PROVE  Doc(k)' # 0
  <2>1. CASE k # l
    <3>1. Running(k) /\ load'[k] = load[k] /\ Doc(k)' = Doc(k)
      BY <1>1, <1>2, <2>1, <1>8
    <3>2. QED
      BY <1>8, <3>1 DEF DocsFit
  <2>2. CASE k = l
    <3>1. load'[l].does \in {"storing", "updating", "observing"}
      BY <1>8, <2>2
    <3>2. AppendIssue(l) \/ Waits(l)
      <4>1. ~ Fail(l) /\ ~ Moves(l)
        BY <3>1, FailTurns, MovesTurns DEF Turned
      <4>2. ~ Begin(l)
        BY <3>1, BeginTurns DEF Turned, Begin, WorkFits
      <4>3. ~ Replayed(l)
        BY <3>1, ReplayedTurns DEF Turned, Replayed, At
      <4>4. QED
        BY <4>1, <4>2, <4>3, StepsByEffect
    <3>3. CASE AppendIssue(l)
      <4>1. Here(l)' = Here(l) /\ Here(l).doc \in SampleIds
        BY <1>1, <3>3, AppendTurns DEF Turned, Here
      <4>2. load'[l].docs = [load[l].docs EXCEPT ![Here(l).doc] = Len(sampleRows) + 1]
        BY <3>3, AppendTurns DEF Turned
      <4>3. Doc(l)' = Len(sampleRows) + 1
        BY <4>1, <4>2, LoadFacts DEF Doc
      <4>4. QED
        BY <2>2, <4>3, TypeFacts
    <3>4. CASE Waits(l)
      <4>1. load'[l].at = load[l].at /\ load'[l].docs = load[l].docs
        BY <3>4, WaitsTurns DEF Turned
      <4>2. Doc(l)' = Doc(l)
        BY <1>1, <4>1 DEF Doc, Here
      <4>3. GoOnToUpdate(l) \/ GoOnToObserve(l)
        <5>1. ~ FirstIssue(l) /\ ~ MissResponse(l)
          BY <3>1, MovedTurns DEF FirstIssue, MissResponse, Turned, Works
        <5>2. ~ GoOnToSeal(l)
          BY <3>1, MovedTurns DEF GoOnToSeal, Turned, Works
        <5>3. QED
          BY <3>4, <5>1, <5>2 DEF Waits
      <4>4. Doc(l) # 0
        BY <4>3 DEF GoOnToUpdate, GoOnToObserve
      <4>5. QED
        BY <2>2, <4>2, <4>4
    <3>5. QED
      BY <3>2, <3>3, <3>4
  <2>3. QED
    BY <2>1, <2>2
<1>9. QED
  BY <1>5, <1>6, <1>7, <1>8 DEF DocsFit

\* A request that is about to act on a document knows a row that issued it.
LEMMA DocIsIssued ==
  ASSUME SamplesTypes, DocsFit, NEW l \in Loads, Running(l), Doc(l) # 0
  PROVE  Doc(l) \in IssueRowsOf(Here(l).doc)
  BY HereFacts DEF DocsFit, Doc

\* What is appended comes from the step the load is at.
LEMMA RowsFitKeep ==
  ASSUME SamplesTypes, DocsFit, RowsFit, NEW l \in Loads, LoadStep(l)
  PROVE  RowsFit'
<1> DEFINE n == Len(sampleRows) + 1
           Steps == StepsOf(Updates \union {"ISSUE"})
<1>1. /\ manifest' = manifest /\ Steps' = Steps
      /\ \A d : IssueRowsOf(d) \subseteq IssueRowsOf(d)'
      /\ \A i \in DOMAIN sampleRows : sampleRows'[i] = sampleRows[i]
  BY StepFrames, SampleRowsGrow DEF StepsOf
<1>2. ASSUME NEW i \in DOMAIN sampleRows
      PROVE  /\ \E j \in Steps : ComesFrom(sampleRows'[i], manifest[j])
             /\ (sampleRows[i].doc \in IssueRowsOf(sampleRows[i].sample))'
             /\ sampleRows'[i].type = "ISSUE" => sampleRows'[i].doc = i
             /\ sampleRows'[i].type # "ISSUE" => sampleRows'[i].doc < i
  <2>1. PICK r : r = sampleRows[i]
    OBVIOUS
  <2>2. sampleRows'[i] = r
    BY <1>1, <2>1
  <2>3. /\ \E j \in Steps : ComesFrom(r, manifest[j])
        /\ r.doc \in IssueRowsOf(r.sample)
        /\ r.type = "ISSUE" => r.doc = i
        /\ r.type # "ISSUE" => r.doc < i
    BY <2>1, Zenon DEF RowsFit
  <2>4. r.doc \in IssueRowsOf(r.sample)'
    BY <1>1, <2>3, Zenon
  <2> HIDE DEF Steps
  <2>5. QED
    BY <2>2, <2>3, <2>4
<1>3. CASE AppendIssue(l)
  <2>1. /\ Running(l) /\ Here(l).type = "ISSUE" /\ Here(l) = manifest[load[l].at]
        /\ load[l].at \in DOMAIN manifest
    BY <1>3, HereFacts DEF AppendIssue, At, Here
  <2>2. load[l].at \in Steps
    BY <2>1 DEF StepsOf
  <2> PICK m : m = n
    OBVIOUS
  <2> PICK d : d = Here(l).doc
    OBVIOUS
  <2>3. /\ sampleRows'[m].sample = d /\ sampleRows'[m].type = "ISSUE"
        /\ sampleRows'[m].doc = m /\ m \in IssueRowsOf(d)'
        /\ DOMAIN sampleRows' = DOMAIN sampleRows \union {m}
    BY <1>3, IssueAppended, Zenon
  <2> HIDE DEF n, Steps
  <2>4. ComesFrom(sampleRows'[m], manifest[load[l].at])
    BY <2>1, <2>3 DEF ComesFrom
  <2>5. QED
    BY <1>1, <1>2, <2>2, <2>3, <2>4 DEF RowsFit, Steps
<1>4. CASE Update(l)
  <2>1. /\ Running(l) /\ Here(l).type \in Updates /\ Here(l) = manifest[load[l].at]
        /\ load[l].at \in DOMAIN manifest /\ load[l].does = "updating"
    BY <1>4, HereFacts DEF Update, At, Here
  <2>2. load[l].at \in Steps
    BY <2>1 DEF StepsOf
  <2>3. /\ sampleRows'[n].sample = Here(l).doc /\ sampleRows'[n].type = Here(l).type
        /\ sampleRows'[n].grade = Here(l).arg /\ sampleRows'[n].doc = Doc(l)
        /\ DOMAIN sampleRows' = DOMAIN sampleRows \union {n}
    BY <1>4, UpdateAppended
  <2>4. Doc(l) \in IssueRowsOf(Here(l).doc)
    BY <2>1, DocIsIssued DEF DocsFit
  <2>5. Doc(l) < n
    BY <2>4, TypeFacts DEF IssueRowsOf
  <2>6. Here(l).type # "ISSUE"
    BY <2>1 DEF Updates
  <2> HIDE DEF n, Steps
  <2>7. ComesFrom(sampleRows'[n], manifest[load[l].at])
    BY <2>1, <2>3 DEF ComesFrom
  <2>8. QED
    BY <1>1, <1>2, <2>2, <2>3, <2>4, <2>5, <2>6, <2>7 DEF RowsFit, Steps
<1>5. CASE ~ AppendIssue(l) /\ ~ Update(l)
  <2>1. DOMAIN sampleRows' = DOMAIN sampleRows
    BY <1>5, RowsElse
  <2>2. QED
    BY <1>1, <1>2, <2>1 DEF RowsFit
<1>6. QED
  BY <1>3, <1>4, <1>5

\* Only Observe adds an observation.
LEMMA SeenElse ==
  ASSUME NEW l, LoadStep(l), ~ Observe(l)
  PROVE  seen' = seen
  BY Zenon DEF LoadStep, Begin, Fail, Replayed, FirstIssue, MissResponse, AppendIssue,
         KeepResponse, LoseResponse, SkipUpdate, GoOnToUpdate, Update, SkipSeal,
         GoOnToSeal, Seal, SkipObservation, GoOnToObserve

\* The observations after one more.
LEMMA SightingAppended ==
  ASSUME SamplesTypes, NEW l \in Loads, Observe(l)
  PROVE  LET n == Len(seen) + 1
         IN  /\ n \notin DOMAIN seen
             /\ DOMAIN seen' = DOMAIN seen \union {n}
             /\ \A i \in DOMAIN seen : seen'[i] = seen[i]
             /\ seen'[n].sample = Here(l).doc /\ seen'[n].time = TimeKept(Here(l))
             /\ seen'[n].doc = Doc(l)
<1>1. /\ Len(seen) \in Nat /\ DOMAIN seen = 1 .. Len(seen) /\ seen \in Seq(SightingRecords)
  BY TypeFacts
<1>2. seen' = Append(seen, Sighting(l)) /\ Sighting(l) \in SightingRecords
  BY SightingFacts DEF Observe, At
<1>3. /\ seen' \in Seq(SightingRecords) /\ Len(seen') = Len(seen) + 1
      /\ \A i \in 1 .. Len(seen) : seen'[i] = seen[i]
      /\ seen'[Len(seen) + 1] = Sighting(l)
  BY <1>1, <1>2, AppendProperties
<1>4. DOMAIN seen' = 1 .. (Len(seen) + 1)
  BY <1>3, LenProperties
<1>5. QED
  BY <1>1, <1>3, <1>4 DEF Sighting

\* What is observed comes from the step the load is at.
LEMMA SeenFitsKeep ==
  ASSUME SamplesTypes, DocsFit, SeenFits, NEW l \in Loads, LoadStep(l)
  PROVE  SeenFits'
<1>1. /\ manifest' = manifest /\ StepsOf({"OBSERVE"})' = StepsOf({"OBSERVE"})
      /\ \A d : IssueRowsOf(d) \subseteq IssueRowsOf(d)'
  BY StepFrames, SampleRowsGrow DEF StepsOf
<1>2. CASE Observe(l)
  <2> DEFINE n == Len(seen) + 1
  <2>1. /\ Running(l) /\ Here(l).type = "OBSERVE" /\ Here(l) = manifest[load[l].at]
        /\ load[l].at \in DOMAIN manifest /\ load[l].does = "observing"
    BY <1>2, HereFacts DEF Observe, At, Here
  <2>2. load[l].at \in StepsOf({"OBSERVE"})
    BY <2>1 DEF StepsOf
  <2>3. Doc(l) \in IssueRowsOf(Here(l).doc)
    BY <2>1, DocIsIssued DEF DocsFit
  <2>4. /\ DOMAIN seen' = DOMAIN seen \union {n}
        /\ \A i \in DOMAIN seen : seen'[i] = seen[i]
        /\ seen'[n].sample = Here(l).doc /\ seen'[n].time = TimeKept(Here(l))
        /\ seen'[n].doc = Doc(l)
    BY <1>2, SightingAppended
  <2> HIDE DEF n
  <2>5. QED
    BY <1>1, <2>1, <2>2, <2>3, <2>4 DEF SeenFits
<1>3. CASE ~ Observe(l)
  BY <1>1, <1>3, SeenElse DEF SeenFits
<1>4. QED
  BY <1>2, <1>3

\* Only Seal moves the end of what is sealed, to the end of the table.
LEMMA SealsFitKeep ==
  ASSUME SamplesTypes, SealsFit, NEW l \in Loads, LoadStep(l)
  PROVE  SealsFit' /\ (SealedUpTo' # SealedUpTo => Seal(l) /\ SealedUpTo' = Len(sampleRows)')
<1>1. sealed \in Seq(Nat) /\ Len(sampleRows) \in Nat
  BY TypeFacts DEF SamplesTypes
<1>2. CASE Seal(l)
  <2>1. sealed' = Append(sealed, Len(sampleRows)) /\ sampleRows' = sampleRows
    BY <1>2 DEF Seal
  <2>2. /\ Len(sealed') = Len(sealed) + 1 /\ sealed' # << >>
        /\ sealed'[Len(sealed) + 1] = Len(sampleRows)
    BY <1>1, <2>1, AppendProperties
  <2>3. SealedUpTo' = Len(sampleRows)
    BY <2>2 DEF SealedUpTo, Last
  <2>4. QED
    BY <1>1, <1>2, <2>1, <2>3 DEF SealsFit
<1>3. CASE ~ Seal(l)
  <2>1. sealed' = sealed
    BY <1>3, Zenon DEF LoadStep, Begin, Fail, Replayed, FirstIssue, MissResponse, AppendIssue,
           KeepResponse, LoseResponse, SkipUpdate, GoOnToUpdate, Update, SkipSeal,
           GoOnToSeal, SkipObservation, GoOnToObserve, Observe
  <2>2. SealedUpTo' = SealedUpTo
    BY <2>1 DEF SealedUpTo
  <2>3. Len(sampleRows') \in Nat /\ Len(sampleRows) <= Len(sampleRows')
    <3>1. CASE AppendIssue(l)
      <4>1. SamplesTypes'
        BY SamplesTypesKeep
      <4>2. Len(sampleRows') \in Nat /\ DOMAIN sampleRows' = 1 .. Len(sampleRows')
        BY <4>1, TypeFacts, LenProperties DEF SamplesTypes
      <4>3. QED
        BY <3>1, <4>2, IssueAppended, TypeFacts
    <3>2. CASE Update(l)
      <4>1. SamplesTypes'
        BY SamplesTypesKeep
      <4>2. Len(sampleRows') \in Nat /\ DOMAIN sampleRows' = 1 .. Len(sampleRows')
        BY <4>1, TypeFacts, LenProperties DEF SamplesTypes
      <4>3. QED
        BY <3>2, <4>2, UpdateAppended, TypeFacts
    <3>3. CASE ~ AppendIssue(l) /\ ~ Update(l)
      BY <1>1, <3>3, RowsElse
    <3>4. QED
      BY <3>1, <3>2, <3>3
  <2>4. SealedUpTo \in Nat
    <3>1. CASE sealed = << >>
      BY <3>1 DEF SealedUpTo
    <3>2. CASE sealed # << >>
      BY <1>1, <3>2 DEF SealedUpTo, Last
    <3>3. QED
      BY <3>1, <3>2
  <2>5. QED
    BY <1>1, <2>2, <2>3, <2>4 DEF SealsFit
<1>4. QED
  BY <1>2, <1>3

\* Only one request is storing a response, and no other is issuing.
LEMMA StoringIsAlone ==
  ASSUME WorkFits, NEW k \in Loads, NEW l \in Loads, Issuing(k), Issuing(l)
  PROVE  k = l
  BY DEF WorkFits

\* The sample a request is issuing has no row yet, if its responses were kept.
LEMMA IssuingIsFirst ==
  ASSUME SamplesTypes, WorkFits, DocsFit, IssuedOnce, NEW l \in Loads,
         At(l, {"ISSUE"}, "issuing"), Here(l).doc \notin lost
  PROVE  IssueRowsOf(Here(l).doc) = {}
<1>1. Issuing(l) /\ response[Here(l).doc] = 0 /\ Here(l).doc \in SampleIds
  BY HereFacts DEF At, Issuing, DocsFit
<1>2. ASSUME NEW k \in Loads, At(k, {"ISSUE"}, "storing")
      PROVE  FALSE
  <2>1. Issuing(k) /\ load[k].does = "storing"
    BY <1>2 DEF At, Issuing
  <2>2. load[l].does = "issuing"
    BY DEF At
  <2>3. QED
    BY <1>1, <2>1, <2>2, StoringIsAlone
<1>3. QED
  BY <1>1, <1>2 DEF IssuedOnce

\* Whoever appends an issue has found no response, and nobody else is at it.
LEMMA IssuedOnceKeep ==
  ASSUME SamplesTypes, WorkFits, DocsFit, IssuedOnce, NEW l \in Loads, LoadStep(l)
  PROVE  IssuedOnce'
<1>1. manifest' = manifest /\ \A k \in Loads \ {l} : load'[k] = load[k]
  BY StepFrames
<1>2. \A k \in Loads \ {l} : (Running(k)' <=> Running(k)) /\ Here(k)' = Here(k)
  BY <1>1, OthersStay
<1>3. lost \subseteq lost'
  BY LostGrows
<1> SUFFICES ASSUME NEW d \in SampleIds, d \notin lost'
             PROVE  /\ \A i, j \in IssueRowsOf(d)' : i = j
                    /\ IssueRowsOf(d)' # {} =>
                          \/ response'[d] # 0
                          \/ \E k \in Loads : At(k, {"ISSUE"}, "storing")' /\ Here(k)'.doc = d
  BY DEF IssuedOnce
<1>4. /\ \A i, j \in IssueRowsOf(d) : i = j
      /\ IssueRowsOf(d) # {} =>
            \/ response[d] # 0
            \/ \E k \in Loads : At(k, {"ISSUE"}, "storing") /\ Here(k).doc = d
  BY <1>3 DEF IssuedOnce
<1>5. CASE AppendIssue(l)
  <2>1. At(l, {"ISSUE"}, "issuing") /\ Issuing(l) /\ response' = response
    BY <1>5 DEF AppendIssue, At, Issuing
  <2>2. CASE d = Here(l).doc
    <3>1. IssueRowsOf(d) = {}
      BY <1>3, <2>1, <2>2, IssuingIsFirst
    <3>2. IssueRowsOf(d)' = {Len(sampleRows) + 1}
      BY <1>5, <2>2, <3>1, IssueAppended
    <3>3. load'[l].does = "storing" /\ load'[l].at = load[l].at
      BY <1>5, AppendTurns DEF Turned
    <3>4. At(l, {"ISSUE"}, "storing")' /\ Here(l)' = Here(l)
      BY <1>1, <2>1, <3>3 DEF At, Running, Here
    <3>5. QED
      BY <2>2, <3>2, <3>4
  <2>3. CASE d # Here(l).doc
    <3>1. IssueRowsOf(d)' = IssueRowsOf(d)
      BY <1>5, <2>3, IssueAppended
    <3>2. ASSUME NEW k \in Loads, At(k, {"ISSUE"}, "storing")
          PROVE  FALSE
      BY <2>1, <3>2, StoringIsAlone DEF At, Issuing
    <3>3. QED
      BY <1>4, <2>1, <3>1, <3>2
  <2>4. QED
    BY <2>2, <2>3
<1>6. CASE KeepResponse(l) \/ LoseResponse(l)
  <2>1. /\ At(l, {"ISSUE"}, "storing") /\ Issuing(l) /\ sampleRows' = sampleRows
        /\ Running(l) /\ load[l].does = "storing"
    BY <1>6 DEF KeepResponse, LoseResponse, At, Issuing
  <2>2. IssueRowsOf(d)' = IssueRowsOf(d)
    BY <2>1, RowsStay
  <2>3. CASE d = Here(l).doc
    <3>1. KeepResponse(l)
      BY <1>6, <2>3 DEF LoseResponse
    <3>2. response'[d] \in {Doc(l), response[d]} /\ (response[d] = 0 => response'[d] = Doc(l))
      BY <2>3, <3>1 DEF KeepResponse, SamplesTypes
    <3>3. Doc(l) # 0
      BY <2>1 DEF DocsFit
    <3>4. QED
      BY <1>4, <2>2, <3>2, <3>3
  <2>4. CASE d # Here(l).doc
    <3>1. response'[d] = response[d]
      BY <1>6, <2>4 DEF KeepResponse, LoseResponse, SamplesTypes
    <3>2. ASSUME NEW k \in Loads, At(k, {"ISSUE"}, "storing"), Here(k).doc = d
          PROVE  FALSE
      <4>1. k = l
        BY <2>1, <3>2, StoringIsAlone DEF At, Issuing
      <4>2. QED
        BY <2>4, <3>2, <4>1
    <3>3. QED
      BY <1>4, <2>2, <3>1, <3>2
  <2>5. QED
    BY <2>3, <2>4
<1>7. CASE ~ AppendIssue(l) /\ ~ KeepResponse(l) /\ ~ LoseResponse(l)
  <2>1. response' = response
    BY <1>7, ResponseElse
  <2>2. IssueRowsOf(d)' = IssueRowsOf(d)
    <3>1. CASE Update(l)
      BY <3>1, UpdateAppended
    <3>2. CASE ~ Update(l)
      BY <1>7, <3>2, RowsElse, RowsStay
    <3>3. QED
      BY <3>1, <3>2
  <2>3. ASSUME NEW k \in Loads, At(k, {"ISSUE"}, "storing"), Here(k).doc = d
        PROVE  At(k, {"ISSUE"}, "storing")' /\ Here(k)'.doc = d
    <3>1. k # l
      <4>1. ~ At(l, {"ISSUE"}, "storing")
        BY <1>7, ManifestFacts
           DEF LoadStep, Begin, Running, Fail, At, Replayed, FirstIssue, MissResponse, SkipUpdate,
           GoOnToUpdate, Update, SkipSeal, GoOnToSeal, Seal, SkipObservation,
           GoOnToObserve, Observe
      <4>2. QED
        BY <2>3, <4>1
    <3>2. QED
      BY <1>1, <1>2, <2>3, <3>1 DEF At
  <2>4. QED
    BY <1>4, <2>1, <2>2, <2>3
<1>8. QED
  BY <1>5, <1>6, <1>7

\* A stop ends all requests and leaves the tables as they are.
LEMMA StoppingKeeps ==
  ASSUME SamplesTypes, WorkFits, DocsFit, IssuedOnce, RowsFit, SeenFits, SealsFit,
         StopLoading
  PROVE  WorkFits' /\ DocsFit' /\ IssuedOnce' /\ RowsFit' /\ SeenFits' /\ SealsFit'
<1>1. UNCHANGED <<manifest, sampleRows, response, sealed, seen, together>>
  BY DEF StopLoading
<1>2. \A l \in Loads : ~ Running(l)' /\ load'[l].docs = load[l].docs
  <2> SUFFICES ASSUME NEW l \in Loads PROVE ~ Running(l)' /\ load'[l].docs = load[l].docs
    OBVIOUS
  <2>1. CASE Running(l)
    BY <1>1, <2>1, StopTurns, ManifestFacts DEF Running
  <2>2. CASE ~ Running(l)
    BY <1>1, <2>2, StopTurns DEF Running
  <2>3. QED
    BY <2>1, <2>2
<1>3. \A d : IssueRowsOf(d)' = IssueRowsOf(d)
  BY <1>1, RowsStay
<1>4. WorkFits'
  BY WorkFitsStay
<1>5. DocsFit'
  BY <1>1, <1>2, <1>3 DEF DocsFit, At
<1>6. RowsFit' /\ SeenFits'
  <2>1. StepsOf(Updates \union {"ISSUE"})' = StepsOf(Updates \union {"ISSUE"})
        /\ StepsOf({"OBSERVE"})' = StepsOf({"OBSERVE"})
    BY <1>1 DEF StepsOf
  <2>2. QED
    BY <1>1, <1>3, <2>1 DEF RowsFit, SeenFits, ComesFrom
<1>7. SealsFit'
  BY <1>1 DEF SealsFit, SealedUpTo
<1>8. IssuedOnce'
  <2> SUFFICES ASSUME NEW d \in SampleIds, d \notin lost'
               PROVE  /\ \A i, j \in IssueRowsOf(d)' : i = j
                      /\ IssueRowsOf(d)' # {} => response'[d] # 0
    BY DEF IssuedOnce
  <2>1. d \notin lost
    BY DEF StopLoading
  <2>2. ASSUME NEW k \in Loads, At(k, {"ISSUE"}, "storing"), Here(k).doc = d
        PROVE  FALSE
    <3>1. d \in {Here(l).doc : l \in {j \in Loads : Running(j) /\ load[j].does = "storing"}}
      BY <2>2 DEF At
    <3>2. QED
      BY <3>1 DEF StopLoading
  <2>3. QED
    BY <1>1, <1>3, <2>1, <2>2 DEF IssuedOnce
<1>9. QED
  BY <1>4, <1>5, <1>6, <1>7, <1>8

-----------------------------------------------------------------------------
(* Loads that take turns *)

\* Loads that take turns have taken turns so far.
LEMMA CalmBefore ==
  ASSUME SamplesTypes, NEW l \in Loads, LoadStep(l), Calm'
  PROVE  Calm /\ (Begin(l) => \A k \in Loads : ~ Running(k))
<1>1. manifest' = manifest
  BY StepFrames
<1>2. lost \subseteq lost' /\ (together => together')
  <2>1. lost \subseteq lost'
    BY LostGrows
  <2>2. together' = together \/ together' = (together \/ \E k \in Loads : Running(k))
    BY Zenon DEF LoadStep, Begin, Fail, Replayed, FirstIssue, MissResponse, AppendIssue, KeepResponse,
       LoseResponse, SkipUpdate, GoOnToUpdate, Update, SkipSeal, GoOnToSeal, Seal,
       SkipObservation, GoOnToObserve, Observe
  <2>3. ASSUME together PROVE together'
    BY <2>2, <2>3
  <2>4. QED
    BY <2>1, <2>3
<1>3. Plain' <=> Plain
  BY <1>1 DEF Plain, StepsOf
<1>4. Calm
  BY <1>2, <1>3 DEF Calm, SamplesTypes
<1>5. Begin(l) => \A k \in Loads : ~ Running(k)
  BY DEF Begin, Calm
<1>6. QED
  BY <1>4, <1>5

\* The request that acts is the only one at work.
LEMMA ActsAlone ==
  ASSUME SamplesTypes, TurnsFit, NEW l \in Loads, LoadStep(l), Calm'
  PROVE  \A k \in Loads \ {l} : ~ Running(k) /\ ~ Running(k)'
<1>1. \A k \in Loads \ {l} : Running(k)' <=> Running(k)
  BY StepFrames, OthersStay
<1>2. CASE Begin(l)
  BY <1>1, <1>2, CalmBefore
<1>3. CASE ~ Begin(l)
  <2>1. Running(l)
    BY <1>3, WaitsTurns, MovesTurns, StepsByEffect DEF Fail, Replayed, AppendIssue, At
  <2>2. QED
    BY <1>1, <2>1 DEF TurnsFit
<1>4. QED
  BY <1>2, <1>3

\* An update of the sample a plain manifest has at this step is this step's.
LEMMA UpdateIsThisStep ==
  ASSUME SamplesTypes, RowsFit, Plain, NEW l \in Loads, Running(l), Here(l).type \in Updates,
         NEW i \in UpdateRowsOf(Here(l).doc)
  PROVE  sampleRows[i].type = Here(l).type /\ sampleRows[i].grade = Here(l).arg
<1>1. i \in DOMAIN sampleRows /\ sampleRows[i].sample = Here(l).doc
      /\ sampleRows[i].type \in Updates
  BY DEF UpdateRowsOf
<1>2. PICK j \in StepsOf(Updates \union {"ISSUE"}) : ComesFrom(sampleRows[i], manifest[j])
  BY <1>1 DEF RowsFit
<1>3. j \in StepsOf(Updates) /\ manifest[j].doc = Here(l).doc
  BY <1>1, <1>2 DEF ComesFrom, StepsOf
<1>4. load[l].at \in StepsOf(Updates) /\ Here(l) = manifest[load[l].at]
  BY HereFacts DEF StepsOf, Here
<1>5. j = load[l].at
  <2>1. Updates # {"OBSERVE"}
    BY DEF Updates
  <2>2. \A a, b \in StepsOf(Updates) : manifest[a].doc = manifest[b].doc => a = b
    BY <2>1, Zenon DEF Plain
  <2>3. QED
    BY <1>3, <1>4, <2>2
<1>6. Here(l).type # "ISSUE"
  BY DEF Updates
<1>7. QED
  BY <1>2, <1>4, <1>5, <1>6 DEF ComesFrom

\* The newest row of a document.
LEMMA LatestFacts ==
  ASSUME SamplesTypes, RowsFit, NEW d \in SampleIds, NEW doc \in IssueRowsOf(d)
  PROVE  \E i \in DOMAIN sampleRows :
            /\ Latest(doc) = sampleRows[i] /\ sampleRows[i].doc = doc
            /\ sampleRows[i].sample = d
            /\ \A j \in DOMAIN sampleRows : sampleRows[j].doc = doc => j <= i
<1> DEFINE S == {i \in DOMAIN sampleRows : sampleRows[i].doc = doc}
           P(i) == /\ sampleRows[i].doc = doc
                   /\ \A j \in DOMAIN sampleRows : sampleRows[j].doc = doc => j <= i
<1>1. Len(sampleRows) \in Nat /\ DOMAIN sampleRows = 1 .. Len(sampleRows)
  BY TypeFacts
<1>2. doc \in DOMAIN sampleRows /\ sampleRows[doc].sample = d /\ sampleRows[doc].type = "ISSUE"
  BY DEF IssueRowsOf
<1>3. sampleRows[doc].doc = doc
  BY <1>2 DEF RowsFit
<1>4. S \subseteq 0 .. Len(sampleRows) /\ S # {}
  BY <1>1, <1>2, <1>3
<1>5. Max(S) \in S /\ \A y \in S : y <= Max(S)
  BY <1>1, <1>4, MaxIsGreatest
<1>6. \E i \in DOMAIN sampleRows : P(i)
  BY <1>5
<1>7. (CHOOSE i \in DOMAIN sampleRows : P(i)) \in DOMAIN sampleRows
      /\ P(CHOOSE i \in DOMAIN sampleRows : P(i))
  BY <1>6, Zenon
<1>8. Latest(doc) = sampleRows[CHOOSE i \in DOMAIN sampleRows : P(i)]
  BY Zenon DEF Latest
<1> DEFINE n == CHOOSE i \in DOMAIN sampleRows : P(i)
<1>9. n \in DOMAIN sampleRows /\ P(n) /\ Latest(doc) = sampleRows[n]
  BY <1>7, <1>8
<1> HIDE DEF n
<1>10. sampleRows[n].sample = d
  <2>1. doc \in IssueRowsOf(sampleRows[n].sample)
    BY <1>9 DEF RowsFit
  <2>2. QED
    BY <1>2, <2>1 DEF IssueRowsOf
<1>11. QED
  BY <1>9, <1>10

\* The newest row of a document tells whether the sample has been updated.
LEMMA LatestTells ==
  ASSUME SamplesTypes, DocsFit, IssuedOnce, RowsFit, Calm, NEW l \in Loads, Running(l),
         Here(l).type \in Updates, Doc(l) # 0
  PROVE  Applied(Latest(Doc(l)), Here(l)) <=> UpdateRowsOf(Here(l).doc) # {}
<1> DEFINE d == Here(l).doc
<1>1. d \in SampleIds /\ Doc(l) \in IssueRowsOf(d)
  BY HereFacts, DocIsIssued
<1>2. PICK i \in DOMAIN sampleRows :
        /\ Latest(Doc(l)) = sampleRows[i] /\ sampleRows[i].doc = Doc(l)
        /\ sampleRows[i].sample = d
        /\ \A j \in DOMAIN sampleRows : sampleRows[j].doc = Doc(l) => j <= i
  BY <1>1, LatestFacts
<1>3. ASSUME sampleRows[i].type \in Updates
      PROVE  i \in UpdateRowsOf(d) /\ Applied(Latest(Doc(l)), Here(l))
  <2>1. i \in UpdateRowsOf(d)
    BY <1>2, <1>3 DEF UpdateRowsOf
  <2>2. sampleRows[i].type = Here(l).type /\ sampleRows[i].grade = Here(l).arg
    BY <2>1, UpdateIsThisStep DEF Calm
  <2>3. QED
    BY <1>2, <2>1, <2>2 DEF Applied, Updates
<1>4. ASSUME Applied(Latest(Doc(l)), Here(l))
      PROVE  UpdateRowsOf(d) # {}
  <2>1. sampleRows[i].type \in Updates
    BY <1>2, <1>4 DEF Applied, Updates
  <2>2. QED
    BY <1>3, <2>1
<1>5. ASSUME NEW j \in UpdateRowsOf(d)
      PROVE  sampleRows[i].type \in Updates
  <2>1. j \in DOMAIN sampleRows /\ sampleRows[j].sample = d /\ sampleRows[j].type \in Updates
    BY <1>5 DEF UpdateRowsOf
  <2>2. sampleRows[j].type # "ISSUE"
    BY <2>1 DEF Updates
  <2>3. sampleRows[j].doc \in IssueRowsOf(d) /\ sampleRows[j].doc < j
    BY <2>1, <2>2 DEF RowsFit
  <2>4. sampleRows[j].doc = Doc(l)
    BY <1>1, <2>3 DEF IssuedOnce, Calm
  <2>5. j <= i /\ Doc(l) < j
    BY <1>2, <2>1, <2>3, <2>4
  <2>6. Doc(l) # i
    BY <1>1, <2>5, TypeFacts, <2>1 DEF IssueRowsOf
  <2>7. sampleRows[i].type # "ISSUE"
    BY <1>2, <2>6 DEF RowsFit
  <2>8. QED
    BY <2>7, TypeFacts DEF RowRecords
<1>6. QED
  BY <1>3, <1>4, <1>5

\* A step of a plain manifest is kept under the time it names.
LEMMA TimeIsKept ==
  ASSUME SamplesTypes, Plain, NEW l \in Loads, Running(l), Here(l).type = "OBSERVE"
  PROVE  TimeKept(Here(l)) = Here(l).arg
<1>1. load[l].at \in StepsOf({"OBSERVE"}) /\ Here(l) = manifest[load[l].at]
  BY HereFacts DEF StepsOf, Here
<1>2. Here(l).arg # ""
  BY <1>1 DEF Plain
<1>3. QED
  BY <1>2 DEF TimeKept

\* The query answers every observation of a document: no more than there are steps.
LEMMA AllAreAnswered ==
  ASSUME SamplesTypes, IssuedOnce, SeenFits, TurnsFit, Calm,
         NEW l \in Loads, Running(l), Here(l).type = "OBSERVE",
         Doc(l) \in IssueRowsOf(Here(l).doc), NEW i \in DOMAIN seen
  PROVE  Cardinality({j \in i..Len(seen) : seen[j].doc = Doc(l)}) <= SeenLimit
<1> DEFINE d == Here(l).doc
           W == {j \in i..Len(seen) : seen[j].doc = Doc(l)}
           T == {j \in StepsOf({"OBSERVE"}) : manifest[j].doc = d}
           Of(j) == CHOOSE k \in T : TimeKept(manifest[k]) = seen[j].time
           f == [j \in W |-> Of(j)]
<1>1. W \subseteq DOMAIN seen
  BY TypeFacts
<1>2. ASSUME NEW j \in W
      PROVE  /\ seen[j].sample = d
             /\ Of(j) \in T /\ TimeKept(manifest[Of(j)]) = seen[j].time
  <2>1. Doc(l) \in IssueRowsOf(seen[j].sample)
    BY <1>1 DEF SeenFits
  <2>2. seen[j].sample = d
    BY <2>1 DEF IssueRowsOf
  <2>3. \E k \in T : TimeKept(manifest[k]) = seen[j].time
    BY <1>1, <2>2 DEF SeenFits
  <2>4. QED
    BY <2>2, <2>3, Zenon
<1>3. ASSUME NEW j \in W, NEW k \in W, Of(j) = Of(k)
      PROVE  j = k
  <2>1. PICK t \in T : t = Of(j)
    BY <1>2
  <2>2. manifest[t] \in Range(manifest) /\ manifest[t].doc = d
    BY DEF StepsOf, Range
  <2>3. j \in SightingsOf(manifest[t]) /\ k \in SightingsOf(manifest[t])
    <3>1. seen[j].time = TimeKept(manifest[t]) /\ seen[k].time = TimeKept(manifest[t])
      BY <1>2, <1>3, <2>1
    <3>2. seen[j].sample = d /\ seen[k].sample = d
      BY <1>2
    <3>3. QED
      BY <1>1, <2>2, <3>1, <3>2 DEF SightingsOf
  <2>4. QED
    BY <2>2, <2>3 DEF TurnsFit
<1>4. IsFiniteSet(T)
  <2>1. IsFiniteSet(DOMAIN manifest)
    BY ManifestFacts, FS_Interval
  <2>2. T \in SUBSET DOMAIN manifest
    BY DEF StepsOf
  <2>3. QED
    BY <2>1, <2>2, FS_Subset
<1>5. Cardinality(T) <= SeenLimit
  <2>1. load[l].at \in StepsOf({"OBSERVE"}) /\ manifest[load[l].at].doc = d
    BY HereFacts DEF StepsOf, Here
  <2> DEFINE same(a) == {j \in StepsOf({"OBSERVE"}) : manifest[j].doc = manifest[a].doc}
  <2>2. \A a \in StepsOf({"OBSERVE"}) : Cardinality(same(a)) <= SeenLimit
    BY Zenon DEF Calm, Plain
  <2>3. T = same(load[l].at)
    BY <2>1
  <2> HIDE DEF T, same
  <2>4. QED
    BY <2>1, <2>2, <2>3
<1> HIDE DEF W, T, Of
<1>6. f \in Injection(W, T)
  <2>1. f \in [W -> T]
    BY <1>2
  <2>2. \A j, k \in W : f[j] = f[k] => j = k
    BY <1>3
  <2> HIDE DEF f
  <2>3. QED
    BY <2>1, <2>2 DEF Injection, IsInjective
<1> HIDE DEF f
<1>7. IsFiniteSet(W) /\ Cardinality(W) <= Cardinality(T)
  BY <1>4, <1>6, FS_Injection
<1>8. Cardinality(W) \in Nat /\ Cardinality(T) \in Nat /\ SeenLimit \in Nat
  BY <1>4, <1>7, FS_CardinalityType, SamplesAssumption
<1>9. Cardinality(W) <= SeenLimit
  BY <1>5, <1>7, <1>8
<1>10. QED
  BY <1>9 DEF W

\* A load that goes on to observe has looked for the observation, and there is none.
LEMMA SightingIsFound ==
  ASSUME SamplesTypes, DocsFit, IssuedOnce, SeenFits, TurnsFit, Calm, NEW l \in Loads,
         At(l, {"OBSERVE"}, "nothing"), Doc(l) # 0, ~ Found(l)
  PROVE  SightingsOf(Here(l)) = {}
<1> SUFFICES ASSUME NEW i \in SightingsOf(Here(l)) PROVE FALSE
  OBVIOUS
<1>1. Running(l) /\ Here(l).type = "OBSERVE" /\ Here(l).doc \in SampleIds
  BY HereFacts DEF At
<1>2. i \in DOMAIN seen /\ seen[i].sample = Here(l).doc /\ seen[i].time = Here(l).arg
  BY <1>1, TimeIsKept DEF SightingsOf, Calm
<1>3. Doc(l) \in IssueRowsOf(Here(l).doc)
  BY <1>1, DocIsIssued
<1>4. seen[i].doc \in IssueRowsOf(Here(l).doc)
  BY <1>2 DEF SeenFits
<1>5. seen[i].doc = Doc(l)
  BY <1>1, <1>3, <1>4 DEF IssuedOnce, Calm
<1>6. seen[i] = Observation(l)
  BY <1>2, <1>5, TypeFacts DEF Observation, SightingRecords
<1>7. Cardinality({j \in i..Len(seen) : seen[j].doc = Doc(l)}) <= SeenLimit
  BY <1>1, <1>2, <1>3, AllAreAnswered
<1>8. QED
  BY <1>2, <1>6, <1>7 DEF Found

\* Nobody adds what a load has looked for, but the load itself.
LEMMA TurnsFitKeep ==
  ASSUME SamplesTypes, WorkFits, DocsFit, IssuedOnce, RowsFit, SeenFits, Calm, Calm',
         TurnsFit, NEW l \in Loads, LoadStep(l)
  PROVE  TurnsFit'
<1>1. manifest' = manifest /\ \A k \in Loads \ {l} : load'[k] = load[k]
  BY StepFrames
<1>2. \A k \in Loads \ {l} : ~ Running(k)'
  BY ActsAlone
<1>3. \A k, j \in Loads : Running(k)' /\ Running(j)' => k = j
  BY <1>2
<1>4. ASSUME NEW d \in SampleIds
      PROVE  \A i, j \in UpdateRowsOf(d)' : i = j
  <2>1. \A i, j \in UpdateRowsOf(d) : i = j
    BY DEF TurnsFit
  <2>2. CASE Update(l)
    <3>1. UpdateRowsOf(Here(l).doc) = {}
      BY <2>2 DEF Update, TurnsFit
    <3>2. QED
      BY <2>1, <2>2, <3>1, UpdateAppended
  <2>3. CASE ~ Update(l)
    <3>1. UpdateRowsOf(d)' = UpdateRowsOf(d)
      BY <2>3, IssueAppended, RowsElse, RowsStay
    <3>2. QED
      BY <2>1, <3>1
  <2>4. QED
    BY <2>2, <2>3
<1>5. ASSUME NEW s \in Range(manifest)
      PROVE  \A i, j \in SightingsOf(s)' : i = j
  <2>1. \A i, j \in SightingsOf(s) : i = j
    BY DEF TurnsFit
  <2>2. CASE Observe(l)
    <3>1. SightingsOf(Here(l)) = {}
      BY <2>2 DEF Observe, TurnsFit
    <3> DEFINE n == Len(seen) + 1
    <3>2. /\ DOMAIN seen' = DOMAIN seen \union {n}
          /\ \A i \in DOMAIN seen : seen'[i] = seen[i]
          /\ seen'[n].sample = Here(l).doc /\ seen'[n].time = TimeKept(Here(l))
      BY <2>2, SightingAppended
    <3> HIDE DEF n
    <3>3. CASE s.doc = Here(l).doc /\ TimeKept(s) = TimeKept(Here(l))
      <4>1. SightingsOf(s) = {}
        BY <3>1, <3>3 DEF SightingsOf
      <4>2. \A i \in SightingsOf(s)' : i = n
        BY <3>2, <4>1 DEF SightingsOf
      <4>3. QED
        BY <4>2
    <3>4. CASE ~ (s.doc = Here(l).doc /\ TimeKept(s) = TimeKept(Here(l)))
      <4>1. \A i \in SightingsOf(s)' : i \in SightingsOf(s)
        BY <3>2, <3>4 DEF SightingsOf
      <4>2. QED
        BY <2>1, <4>1
    <3>5. QED
      BY <3>3, <3>4
  <2>3. CASE ~ Observe(l)
    <3>1. SightingsOf(s)' = SightingsOf(s)
      BY <2>3, SeenElse DEF SightingsOf
    <3>2. QED
      BY <2>1, <3>1
  <2>4. QED
    BY <2>2, <2>3
<1>6. ASSUME NEW k \in Loads, At(k, Updates, "updating")'
      PROVE  (UpdateRowsOf(Here(k).doc) = {})'
  <2>1. k = l /\ load'[l].does = "updating" /\ load'[l].at \in 1 .. Len(manifest)
    BY <1>1, <1>2, <1>6 DEF At, Running
  <2>2. GoOnToUpdate(l)
    <3>1. ~ Fail(l) /\ ~ Moves(l) /\ ~ AppendIssue(l)
      BY <2>1, FailTurns, MovesTurns, AppendTurns DEF Turned
    <3>2. ~ Begin(l)
      BY <2>1, BeginTurns DEF Turned, Begin, WorkFits
    <3>3. ~ Replayed(l)
      BY <2>1, ReplayedTurns DEF Turned, Replayed, At
    <3>4. /\ ~ FirstIssue(l) /\ ~ MissResponse(l)
          /\ ~ GoOnToSeal(l) /\ ~ GoOnToObserve(l)
      BY <2>1, MovedTurns DEF Turned, FirstIssue, MissResponse, GoOnToSeal, GoOnToObserve, Works
    <3>5. QED
      BY <3>1, <3>2, <3>3, <3>4, StepsByEffect DEF Waits
  <2>3. load'[l].at = load[l].at /\ sampleRows' = sampleRows
    BY <2>2, MovedTurns DEF Turned, GoOnToUpdate, Works
  <2>4. Here(l)' = Here(l)
    BY <1>1, <2>3 DEF Here
  <2>5. UpdateRowsOf(Here(l).doc) = {}
    BY <2>2, LatestTells DEF GoOnToUpdate, At
  <2>6. QED
    BY <2>1, <2>3, <2>4, <2>5 DEF UpdateRowsOf
<1>7. ASSUME NEW k \in Loads, At(k, {"OBSERVE"}, "observing")'
      PROVE  (SightingsOf(Here(k)) = {})'
  <2>1. k = l /\ load'[l].does = "observing" /\ load'[l].at \in 1 .. Len(manifest)
    BY <1>1, <1>2, <1>7 DEF At, Running
  <2>2. GoOnToObserve(l)
    <3>1. ~ Fail(l) /\ ~ Moves(l) /\ ~ AppendIssue(l)
      BY <2>1, FailTurns, MovesTurns, AppendTurns DEF Turned
    <3>2. ~ Begin(l)
      BY <2>1, BeginTurns DEF Turned, Begin, WorkFits
    <3>3. ~ Replayed(l)
      BY <2>1, ReplayedTurns DEF Turned, Replayed, At
    <3>4. /\ ~ FirstIssue(l) /\ ~ MissResponse(l)
          /\ ~ GoOnToSeal(l) /\ ~ GoOnToUpdate(l)
      BY <2>1, MovedTurns DEF Turned, FirstIssue, MissResponse, GoOnToSeal, GoOnToUpdate, Works
    <3>5. QED
      BY <3>1, <3>2, <3>3, <3>4, StepsByEffect DEF Waits
  <2>3. load'[l].at = load[l].at /\ seen' = seen
    BY <2>2, MovedTurns DEF Turned, GoOnToObserve, Works
  <2>4. Here(l)' = Here(l)
    BY <1>1, <2>3 DEF Here
  <2>5. SightingsOf(Here(l)) = {}
    BY <2>2, SightingIsFound DEF GoOnToObserve
  <2>6. QED
    BY <2>1, <2>3, <2>4, <2>5 DEF SightingsOf
<1>8. QED
  <2>1. Range(manifest)' = Range(manifest)
    BY <1>1
  <2>2. QED
    BY <1>3, <1>4, <1>5, <1>6, <1>7, <2>1 DEF TurnsFit

\* What has been done for a step stays done.
LEMMA TakenStays ==
  ASSUME SamplesTypes, DocsFit, NEW l \in Loads, LoadStep(l), NEW s, s.doc \in SampleIds, Taken(s)
  PROVE  Taken(s)'
<1>0. s.type \in Updates \union {"ISSUE", "OBSERVE", "CHECKPOINT"}
  BY DEF Taken
<1>1. s.type = "ISSUE" => response'[s.doc] # 0
  <2> HAVE s.type = "ISSUE"
  <2>1. response[s.doc] # 0
    BY DEF Taken
  <2>2. CASE KeepResponse(l)
    <3>1. Doc(l) # 0 /\ Here(l).doc \in SampleIds
      BY <2>2, HereFacts DEF KeepResponse, At, DocsFit
    <3>2. response'[s.doc] = IF s.doc = Here(l).doc /\ response[s.doc] = 0
                              THEN Doc(l) ELSE response[s.doc]
      BY <2>2 DEF KeepResponse, SamplesTypes
    <3>3. QED
      BY <2>1, <3>1, <3>2
  <2>3. CASE ~ KeepResponse(l)
    BY <2>1, <2>3, ResponseElse
  <2>4. QED
    BY <2>2, <2>3
<1>2. s.type \in Updates => \E i \in UpdateRowsOf(s.doc)' :
                              sampleRows'[i].type = s.type /\ sampleRows'[i].grade = s.arg
  <2> HAVE s.type \in Updates
  <2>1. PICK i \in UpdateRowsOf(s.doc) : sampleRows[i].type = s.type /\ sampleRows[i].grade = s.arg
    BY DEF Taken
  <2>2. i \in DOMAIN sampleRows
    BY DEF UpdateRowsOf
  <2>3. i \in UpdateRowsOf(s.doc)' /\ sampleRows'[i] = sampleRows[i]
    BY <2>2, SampleRowsGrow
  <2>4. QED
    BY <2>1, <2>3
<1>3. s.type = "OBSERVE" => SightingsOf(s)' # {}
  <2> HAVE s.type = "OBSERVE"
  <2>1. PICK i \in DOMAIN seen : seen[i].sample = s.doc /\ seen[i].time = TimeKept(s)
    BY DEF Taken, SightingsOf
  <2>2. i \in DOMAIN seen' /\ seen'[i] = seen[i]
    BY SightingAppended, SeenElse
  <2>3. QED
    BY <2>1, <2>2 DEF SightingsOf
<1>4. QED
  BY <1>0, <1>1, <1>2, <1>3 DEF Taken

\* A step that is passed without a failure has been taken.
LEMMA PassedIsTaken ==
  ASSUME SamplesTypes, WorkFits, DocsFit, IssuedOnce, RowsFit, SeenFits, Calm, Calm',
         NEW l \in Loads, Moves(l) \/ Replayed(l), NEW s, s = Here(l)
  PROVE  Taken(s)'
<1>1. Running(l) /\ s.doc \in SampleIds
  BY HereFacts DEF Moves, SkipUpdate, SkipSeal, SkipObservation, KeepResponse, LoseResponse,
     Update, Seal, Observe, Replayed, At
<1>2. CASE Replayed(l)
  <2>1. s.type = "ISSUE" /\ response[s.doc] # 0 /\ response' = response
    BY <1>2 DEF Replayed, At
  <2>2. QED
    BY <2>1 DEF Taken, Updates
<1>3. CASE KeepResponse(l)
  <2>1. /\ s.type = "ISSUE" /\ Doc(l) # 0
        /\ response' = [response EXCEPT ![s.doc] = IF @ = 0 THEN Doc(l) ELSE @]
    BY <1>3 DEF KeepResponse, At, DocsFit
  <2>2. response'[s.doc] # 0
    BY <1>1, <2>1 DEF SamplesTypes
  <2>3. QED
    BY <2>1, <2>2 DEF Taken, Updates
<1>4. CASE LoseResponse(l)
  BY <1>4 DEF LoseResponse, Calm
<1>5. CASE SkipUpdate(l)
  <2>1. s.type \in Updates /\ Doc(l) # 0 /\ sampleRows' = sampleRows
        /\ Applied(Latest(Doc(l)), Here(l))
    BY <1>5 DEF SkipUpdate, At
  <2>2. PICK i : i \in UpdateRowsOf(s.doc)
    BY <1>1, <2>1, LatestTells
  <2>3. sampleRows[i].type = s.type /\ sampleRows[i].grade = s.arg
    BY <1>1, <2>1, <2>2, UpdateIsThisStep DEF Calm
  <2>4. i \in UpdateRowsOf(s.doc)'
    BY <2>1, <2>2, RowsStay
  <2>5. s.type \notin {"ISSUE", "OBSERVE"}
    BY <2>1 DEF Updates
  <2>6. QED
    BY <2>1, <2>3, <2>4, <2>5 DEF Taken
<1>6. CASE Update(l)
  <2>1. s.type \in Updates
    BY <1>6 DEF Update, At
  <2>2. PICK n : n = Len(sampleRows) + 1
    OBVIOUS
  <2>3. /\ n \in UpdateRowsOf(s.doc)'
        /\ sampleRows'[n].type = s.type /\ sampleRows'[n].grade = s.arg
    BY <1>6, <2>2, UpdateAppended
  <2>4. s.type \notin {"ISSUE", "OBSERVE"}
    BY <2>1 DEF Updates
  <2>5. QED
    BY <2>1, <2>3, <2>4 DEF Taken
<1>7. CASE SkipSeal(l) \/ Seal(l)
  <2>1. s.type = "CHECKPOINT"
    BY <1>7 DEF SkipSeal, Seal, At
  <2>2. QED
    BY <2>1 DEF Taken, Updates
<1>8. CASE SkipObservation(l)
  <2>1. /\ s.type = "OBSERVE" /\ seen' = seen
        /\ \E i \in DOMAIN seen : seen[i] = Observation(l)
    BY <1>8 DEF SkipObservation, At, Found
  <2>2. \E i \in DOMAIN seen : seen[i].sample = s.doc /\ seen[i].time = s.arg
    BY <2>1 DEF Observation
  <2>3. s.arg = TimeKept(s)
    BY <1>1, <2>1, TimeIsKept DEF Calm
  <2>4. QED
    BY <2>1, <2>2, <2>3 DEF Taken, SightingsOf, Updates
<1>9. CASE Observe(l)
  <2>1. s.type = "OBSERVE"
    BY <1>9 DEF Observe, At
  <2>2. \E i \in DOMAIN seen' : seen'[i].sample = s.doc /\ seen'[i].time = TimeKept(s)
    BY <1>9, SightingAppended
  <2>3. QED
    BY <2>1, <2>2 DEF Taken, SightingsOf, Updates
<1>10. QED
  BY <1>2, <1>3, <1>4, <1>5, <1>6, <1>7, <1>8, <1>9 DEF Moves

\* A load that passes a step without a failure has taken it, or found it taken.
LEMMA StepsTakenKeep ==
  ASSUME SamplesTypes, WorkFits, DocsFit, IssuedOnce, RowsFit, SeenFits, Calm, Calm',
         StepsTaken, NEW l \in Loads, LoadStep(l)
  PROVE  StepsTaken'
<1>1. manifest' = manifest /\ \A k \in Loads \ {l} : load'[k] = load[k]
  BY StepFrames
<1> SUFFICES ASSUME NEW k \in Loads, load'[k].failed = 0,
                    NEW j \in DOMAIN manifest, j < load'[k].at
             PROVE  Taken(manifest[j])'
  BY <1>1 DEF StepsTaken
<1> PICK s : s = manifest[j]
  OBVIOUS
<1>2. s.doc \in SampleIds /\ j \in Nat
  BY ManifestFacts
<1>3. ASSUME Taken(s) PROVE Taken(manifest[j])'
  <2>1. Taken(s)'
    BY <1>2, <1>3, TakenStays
  <2>2. QED
    BY <1>1, <2>1
<1>4. CASE k # l
  <2>1. Taken(s)
    BY <1>1, <1>4 DEF StepsTaken
  <2>2. QED
    BY <1>3, <2>1
<1>5. CASE k = l
  <2>1. CASE Begin(l)
    <3>1. load'[l].at = 1
      BY <2>1, BeginTurns DEF Turned
    <3>2. QED
      BY <1>5, <3>1, ManifestFacts
  <2>2. CASE Fail(l)
    <3>1. load'[l].failed = load[l].failed + 1 /\ load[l].failed \in Nat
      BY <2>2, FailTurns, LoadFacts DEF Turned
    <3>2. QED
      BY <1>5, <3>1
  <2>3. CASE AppendIssue(l) \/ Waits(l)
    <3>1. load'[l].at = load[l].at /\ load'[l].failed = load[l].failed
      BY <2>3, AppendTurns, WaitsTurns DEF Turned
    <3>2. Taken(s)
      BY <1>5, <3>1 DEF StepsTaken
    <3>3. QED
      BY <1>3, <3>2
  <2>4. CASE Moves(l) \/ Replayed(l)
    <3>1. /\ load'[l].at = load[l].at + 1 /\ load'[l].failed = load[l].failed
          /\ load[l].at \in Int
      BY <2>4, MovesTurns, ReplayedTurns, LoadFacts DEF Turned
    <3>2. CASE j < load[l].at
      <4>1. Taken(s)
        BY <1>5, <3>1, <3>2 DEF StepsTaken
      <4>2. QED
        BY <1>3, <4>1
    <3>3. CASE j = load[l].at
      <4>1. s = Here(l)
        BY <3>3 DEF Here
      <4>2. Taken(s)'
        BY <2>4, <4>1, PassedIsTaken
      <4>3. QED
        BY <1>1, <4>2
    <3>4. QED
      BY <1>2, <1>5, <3>1, <3>2, <3>3
  <2>5. QED
    BY <2>1, <2>2, <2>3, <2>4, StepsByEffect
<1>6. QED
  BY <1>4, <1>5

\* A load that is complete has left nothing to add.
LEMMA CompleteIsAll ==
  ASSUME SamplesTypes, DocsFit, TurnsFit, StepsTaken, Calm,
         NEW k \in Loads, Complete(k), NEW l \in Loads, LoadStep(l)
  PROVE  sampleRows' = sampleRows
<1>1. \A j \in DOMAIN manifest : Taken(manifest[j])
  BY ManifestFacts DEF StepsTaken, Complete
<1>2. Running(l) => Taken(Here(l))
  BY <1>1, HereFacts DEF Here
<1>3. ~ AppendIssue(l)
  <2> SUFFICES ASSUME AppendIssue(l) PROVE FALSE
    OBVIOUS
  <2>1. Running(l) /\ Here(l).type = "ISSUE" /\ At(l, {"ISSUE"}, "issuing")
    BY DEF AppendIssue, At
  <2>2. QED
    BY <1>2, <2>1 DEF Taken, DocsFit, Calm
<1>4. ~ Update(l)
  <2> SUFFICES ASSUME Update(l) PROVE FALSE
    OBVIOUS
  <2>1. Running(l) /\ Here(l).type \in Updates /\ At(l, Updates, "updating")
    BY DEF Update, At
  <2>2. QED
    BY <1>2, <2>1 DEF Taken, TurnsFit
<1>5. QED
  BY <1>3, <1>4, RowsElse

\* What is sealed ends at a number.
LEMMA SealedUpToNat ==
  ASSUME SamplesTypes
  PROVE  SealedUpTo \in Nat
<1>1. sealed \in Seq(Nat)
  BY DEF SamplesTypes
<1>2. CASE sealed = << >>
  BY <1>2 DEF SealedUpTo
<1>3. CASE sealed # << >>
  BY <1>1, <1>3 DEF SealedUpTo, Last
<1>4. QED
  BY <1>2, <1>3

\* After the last step there is nothing to append, so what was sealed is all there is.
LEMMA LastIsSealedKeep ==
  ASSUME SamplesTypes, SealsFit, WorkFits, DocsFit, TurnsFit, StepsTaken, LastIsSealed, Calm,
         NEW l \in Loads, LoadStep(l)
  PROVE  LastIsSealed'
<1>1. manifest' = manifest /\ \A k \in Loads \ {l} : load'[k] = load[k]
  BY StepFrames
<1>2. Len(manifest) \in Nat /\ load[l].at \in Int /\ load[l].failed \in Nat
  BY ManifestFacts, LoadFacts
<1> SUFFICES ASSUME NEW k \in Loads, Complete(k)', manifest # << >>,
                    Last(manifest).type = "CHECKPOINT"
             PROVE  (SealedUpTo = Len(sampleRows))'
  BY <1>1 DEF LastIsSealed
<1>3. CASE \E j \in Loads : Complete(j)
  <2>1. sampleRows' = sampleRows
    BY <1>3, CompleteIsAll
  <2>2. SealedUpTo = Len(sampleRows)
    BY <1>3 DEF LastIsSealed
  <2>3. QED
    BY <2>1, <2>2, SealsFitKeep
<1>4. CASE ~ \E j \in Loads : Complete(j)
  <2>1. k = l /\ load'[l].at = Len(manifest) + 1 /\ load'[l].failed = 0
    BY <1>1, <1>4 DEF Complete
  <2>2. Len(manifest) # 0
    BY SamplesAssumption, LenProperties, ManifestFacts, EmptySeq DEF SamplesTypes
  <2>3. CASE Begin(l)
    BY <1>2, <2>1, <2>2, <2>3, BeginTurns DEF Turned
  <2>4. CASE Fail(l)
    BY <1>2, <2>1, <2>4, FailTurns DEF Turned
  <2>5. CASE AppendIssue(l) \/ Waits(l)
    <3>1. load'[l].at = load[l].at /\ load[l].at \in 1 .. Len(manifest)
      BY <2>5, AppendTurns, WaitsTurns DEF Turned, AppendIssue, At, Running
    <3>2. QED
      BY <1>2, <2>1, <3>1
  <2>6. CASE Moves(l) \/ Replayed(l)
    <3>1. load'[l].at = load[l].at + 1
      BY <2>6, MovesTurns, ReplayedTurns DEF Turned
    <3>2. Here(l) = Last(manifest)
      BY <1>2, <2>1, <3>1 DEF Here, Last
    <3>3. SkipSeal(l) \/ Seal(l)
      BY <2>6, <3>2 DEF Moves, Replayed, SkipUpdate, SkipObservation, KeepResponse,
         LoseResponse, Update, Observe, At, Updates
    <3>4. sampleRows' = sampleRows
      BY <3>3 DEF SkipSeal, Seal
    <3>5. CASE SkipSeal(l)
      <4>1. SealedUpTo' = SealedUpTo
        BY <3>5 DEF SkipSeal, SealedUpTo
      <4>2. SealedUpTo >= Len(sampleRows) /\ SealedUpTo <= Len(sampleRows)
        BY <3>5 DEF SkipSeal, SealsFit
      <4>3. QED
        BY <3>4, <4>1, <4>2, SealedUpToNat, TypeFacts
    <3>6. CASE Seal(l)
      <4>1. SealedUpTo < Len(sampleRows)
        BY <3>6 DEF Seal
      <4>2. sealed' = Append(sealed, Len(sampleRows)) /\ sealed \in Seq(Nat)
            /\ Len(sampleRows) \in Nat
        BY <3>6, TypeFacts DEF Seal, SamplesTypes
      <4>3. /\ Len(sealed') = Len(sealed) + 1 /\ sealed' # << >>
            /\ sealed'[Len(sealed) + 1] = Len(sampleRows)
        BY <4>2, AppendProperties
      <4>4. QED
        BY <3>4, <4>3 DEF SealedUpTo, Last
    <3>7. QED
      BY <3>3, <3>5, <3>6
  <2>7. QED
    BY <2>3, <2>4, <2>5, <2>6, StepsByEffect
<1>5. QED
  BY <1>3, <1>4

\* A stop takes nothing away.
LEMMA TurnsFitStay ==
  ASSUME SamplesTypes, TurnsFit, StepsTaken, LastIsSealed, StopLoading
  PROVE  TurnsFit' /\ StepsTaken' /\ LastIsSealed'
<1>1. UNCHANGED <<manifest, sampleRows, response, sealed, seen, together>>
  BY DEF StopLoading
<1>2. ASSUME NEW l \in Loads
      PROVE  ~ Running(l)' /\ (load'[l].at = -1 \/ load'[l] = load[l])
  <2>1. CASE Running(l)
    BY <1>1, <2>1, StopTurns, ManifestFacts DEF Running
  <2>2. CASE ~ Running(l)
    BY <1>1, <2>2, StopTurns DEF Running
  <2>3. QED
    BY <2>1, <2>2
<1>3. \A d : UpdateRowsOf(d)' = UpdateRowsOf(d)
  BY <1>1, RowsStay
<1>4. \A s : SightingsOf(s)' = SightingsOf(s)
  BY <1>1 DEF SightingsOf
<1>5. Range(manifest)' = Range(manifest)
  BY <1>1
<1>6. TurnsFit'
  BY <1>2, <1>3, <1>4, <1>5 DEF TurnsFit, At
<1>7. \A s : Taken(s)' <=> Taken(s)
  BY <1>1, <1>3, <1>4 DEF Taken
<1>8. StepsTaken'
  <2> SUFFICES ASSUME NEW k \in Loads, load'[k].failed = 0,
                      NEW j \in DOMAIN manifest, j < load'[k].at
               PROVE  Taken(manifest[j])'
    BY <1>1 DEF StepsTaken
  <2>1. load'[k] = load[k]
    BY <1>2, ManifestFacts
  <2>2. Taken(manifest[j])
    BY <2>1 DEF StepsTaken
  <2>3. PICK s : s = manifest[j]
    OBVIOUS
  <2>4. Taken(s)'
    BY <1>7, <2>2, <2>3
  <2>5. QED
    BY <1>1, <2>3, <2>4
<1>9. LastIsSealed'
  <2> SUFFICES ASSUME NEW k \in Loads, Complete(k)', manifest # << >>,
                      Last(manifest).type = "CHECKPOINT"
               PROVE  (SealedUpTo = Len(sampleRows))'
    BY <1>1 DEF LastIsSealed
  <2>1. load'[k] = load[k]
    BY <1>1, <1>2, ManifestFacts DEF Complete
  <2>2. Complete(k)
    BY <1>1, <2>1 DEF Complete
  <2>3. SealedUpTo = Len(sampleRows)
    BY <2>2 DEF LastIsSealed
  <2>4. QED
    BY <1>1, <2>3 DEF SealedUpTo
<1>10. QED
  BY <1>6, <1>8, <1>9

-----------------------------------------------------------------------------
(* The invariant *)

\* The invariant holds of a ledger without samples.
LEMMA SamplesStart == SamplesInit => SamplesInv
<1> SUFFICES ASSUME SamplesInit PROVE SamplesInv
  OBVIOUS
<1>1. /\ manifest \in Manifests /\ load = [l \in Loads |-> NewLoad] /\ sampleRows = << >>
      /\ response = [d \in SampleIds |-> 0] /\ sealed = << >> /\ seen = << >>
      /\ loadMu = NoLoad /\ together = FALSE /\ lost = {}
  BY DEF SamplesInit
<1>2. NewLoad \in LoadRecords /\ NewLoad.at = 0 /\ NewLoad.does = "nothing"
  BY DEF NewLoad, LoadRecords, Works
<1>3. \A d \in SampleIds : NewLoad.docs[d] = 0
  BY DEF NewLoad
<1>4. SamplesTypes
  <2>1. load \in [Loads -> LoadRecords]
    BY <1>1, <1>2
  <2>2. QED
    BY <1>1, <2>1, EmptySeq DEF SamplesTypes, LoadRecords
<1>5. \A l \in Loads : load[l] = NewLoad /\ ~ Running(l)
  BY <1>1, <1>2, <1>4, ManifestFacts DEF Running
<1>6. DOMAIN sampleRows = {} /\ DOMAIN seen = {} /\ Len(sampleRows) = 0
  BY <1>1
<1>7. \A d : IssueRowsOf(d) = {} /\ UpdateRowsOf(d) = {} /\ SightingsOf(d) = {}
  BY <1>6 DEF IssueRowsOf, UpdateRowsOf, SightingsOf
<1>8. WorkFits
  BY <1>1, <1>2, <1>5, SamplesAssumption DEF WorkFits, Issuing
<1>9. DocsFit /\ IssuedOnce
  BY <1>1, <1>3, <1>5, <1>7 DEF DocsFit, IssuedOnce, At
<1>10. RowsFit /\ SeenFits /\ SealsFit
  BY <1>1, <1>6 DEF RowsFit, SeenFits, SealsFit, SealedUpTo
<1>11. TurnsFit
  BY <1>5, <1>7 DEF TurnsFit, At
<1>12. StepsTaken
  BY <1>2, <1>4, <1>5, ManifestFacts DEF StepsTaken
<1>13. LastIsSealed
  <2>1. SealedUpTo = Len(sampleRows)
    BY <1>1, <1>6 DEF SealedUpTo
  <2>2. QED
    BY <2>1 DEF LastIsSealed
<1>14. QED
  BY <1>4, <1>8, <1>9, <1>10, <1>11, <1>12, <1>13 DEF SamplesInv

\* Every step keeps the invariant.
LEMMA SamplesStep == SamplesInv /\ [SamplesNext]_sampleVars => SamplesInv'
<1> SUFFICES ASSUME SamplesInv, [SamplesNext]_sampleVars PROVE SamplesInv'
  OBVIOUS
<1>1. /\ SamplesTypes /\ WorkFits /\ DocsFit /\ IssuedOnce /\ RowsFit /\ SeenFits /\ SealsFit
      /\ Calm => TurnsFit /\ StepsTaken /\ LastIsSealed
  BY DEF SamplesInv
<1>2. ASSUME NEW l \in Loads, LoadStep(l)
      PROVE  SamplesInv'
  <2>1. /\ SamplesTypes' /\ WorkFits' /\ DocsFit' /\ IssuedOnce'
        /\ RowsFit' /\ SeenFits' /\ SealsFit'
    BY <1>1, <1>2, SamplesTypesKeep, WorkFitsKeep, DocsFitKeep, IssuedOnceKeep, RowsFitKeep,
       SeenFitsKeep, SealsFitKeep
  <2>2. ASSUME Calm' PROVE TurnsFit' /\ StepsTaken' /\ LastIsSealed'
    <3>1. Calm
      BY <1>1, <1>2, <2>2, CalmBefore
    <3>2. QED
      BY <1>1, <1>2, <2>2, <3>1, TurnsFitKeep, StepsTakenKeep, LastIsSealedKeep
  <2>3. QED
    BY <2>1, <2>2 DEF SamplesInv
<1>3. CASE StopLoading
  <2>1. /\ SamplesTypes' /\ WorkFits' /\ DocsFit' /\ IssuedOnce'
        /\ RowsFit' /\ SeenFits' /\ SealsFit'
    BY <1>1, <1>3, SamplesTypesStay, StoppingKeeps
  <2>2. ASSUME Calm' PROVE TurnsFit' /\ StepsTaken' /\ LastIsSealed'
    <3>1. lost \subseteq lost' /\ UNCHANGED <<manifest, together>>
      BY <1>3 DEF StopLoading
    <3>2. Plain' <=> Plain
      BY <3>1 DEF Plain, StepsOf
    <3>3. Calm
      BY <2>2, <3>1, <3>2 DEF Calm
    <3>4. QED
      BY <1>1, <1>3, <3>3, TurnsFitStay
  <2>3. QED
    BY <2>1, <2>2 DEF SamplesInv
<1>4. CASE UNCHANGED sampleVars
  <2>1. UNCHANGED <<manifest, load, sampleRows, response, sealed, seen, loadMu, together, lost>>
    BY <1>4 DEF sampleVars
  <2>2. SamplesTypes'
    BY <1>1, <2>1 DEF SamplesTypes
  <2>3. WorkFits' /\ DocsFit'
    BY <1>1, <2>1 DEF WorkFits, Issuing, Running, Here, DocsFit, IssueRowsOf, At, Doc
  <2>4. IssuedOnce' /\ SealsFit'
    BY <1>1, <2>1 DEF IssuedOnce, IssueRowsOf, At, Running, Here, SealsFit, SealedUpTo
  <2>5. RowsFit' /\ SeenFits'
    BY <1>1, <2>1 DEF RowsFit, ComesFrom, StepsOf, IssueRowsOf, SeenFits
  <2>6. Calm' <=> Calm
    BY <2>1 DEF Calm, Plain, StepsOf
  <2>7. TurnsFit => TurnsFit'
    BY <2>1 DEF TurnsFit, UpdateRowsOf, SightingsOf, At, Running, Here
  <2>8. StepsTaken => StepsTaken'
    BY <2>1 DEF StepsTaken, Taken, UpdateRowsOf, SightingsOf
  <2>9. LastIsSealed => LastIsSealed'
    BY <2>1 DEF LastIsSealed, Complete, SealedUpTo
  <2>10. QED
    BY <1>1, <2>2, <2>3, <2>4, <2>5, <2>6, <2>7, <2>8, <2>9 DEF SamplesInv
<1>5. QED
  BY <1>2, <1>3, <1>4 DEF SamplesNext

-----------------------------------------------------------------------------
(* What it says of the tables *)

\* A set of equals has at most one element.
LEMMA AtMostOne ==
  ASSUME NEW S, \A i, j \in S : i = j
  PROVE  /\ Cardinality(S) \in Nat /\ Cardinality(S) <= 1
         /\ S # {} => Cardinality(S) = 1
<1>1. CASE S = {}
  BY <1>1, FS_EmptySet
<1>2. CASE S # {}
  <2>1. PICK x : S = {x}
    BY <1>2
  <2>2. QED
    BY <2>1, FS_Singleton
<1>3. QED
  BY <1>1, <1>2

\* The first half of LoadsConverge, for one sample.
LEMMA IssuesAreNotDoubled ==
  ASSUME SamplesInv, NEW s, s.type = "ISSUE", s.doc \in SampleIds \ lost
  PROVE  RowsOf(s) \in Nat /\ RowsOf(s) <= 1
<1>1. RowsOf(s) = Cardinality(IssueRowsOf(s.doc))
  <2>1. {i \in DOMAIN sampleRows : /\ sampleRows[i].sample = s.doc
                                   /\ sampleRows[i].type = s.type
                                   /\ s.type = "ISSUE" \/ sampleRows[i].grade = s.arg}
        = IssueRowsOf(s.doc)
    BY DEF IssueRowsOf
  <2>2. s.type # "OBSERVE"
    OBVIOUS
  <2>3. QED
    BY <2>1, <2>2, Zenon DEF RowsOf
<1>2. \A i, j \in IssueRowsOf(s.doc) : i = j
  BY DEF SamplesInv, IssuedOnce
<1>3. QED
  BY <1>1, <1>2, AtMostOne

\* Every step but a seal has one row.
LEMMA TakenOnce ==
  ASSUME SamplesInv, Calm, NEW s \in Range(manifest), s.doc \in SampleIds, Taken(s),
         s.type # "CHECKPOINT"
  PROVE  RowsOf(s) = 1
<1>1. DocsFit /\ IssuedOnce /\ TurnsFit
  BY DEF SamplesInv
<1> DEFINE S == {i \in DOMAIN sampleRows :
                    /\ sampleRows[i].sample = s.doc
                    /\ sampleRows[i].type = s.type
                    /\ s.type = "ISSUE" \/ sampleRows[i].grade = s.arg}
<1>2. CASE s.type = "OBSERVE"
  <2>1. RowsOf(s) = Cardinality(SightingsOf(s))
    BY <1>2 DEF RowsOf, SightingsOf
  <2>2. SightingsOf(s) # {} /\ \A i, j \in SightingsOf(s) : i = j
    BY <1>1, <1>2 DEF Taken, TurnsFit
  <2>3. QED
    BY <2>1, <2>2, AtMostOne
<1>3. CASE s.type # "OBSERVE"
  <2>1. RowsOf(s) = Cardinality(S)
    BY <1>3, Zenon DEF RowsOf
  <2>2. S # {} /\ \A i, j \in S : i = j
    <3>1. CASE s.type = "ISSUE"
      <4>1. S = IssueRowsOf(s.doc)
        BY <3>1 DEF IssueRowsOf
      <4>2. IssueRowsOf(s.doc) # {}
        BY <1>1, <3>1 DEF Taken, DocsFit
      <4>3. \A i, j \in IssueRowsOf(s.doc) : i = j
        BY <1>1 DEF IssuedOnce, Calm
      <4> HIDE DEF S
      <4>4. QED
        BY <4>1, <4>2, <4>3
    <3>2. CASE s.type \in Updates
      <4>1. s.type # "ISSUE"
        BY <3>2 DEF Updates
      <4>2. S \subseteq UpdateRowsOf(s.doc)
        BY <3>2 DEF UpdateRowsOf
      <4>3. S # {}
        BY <3>2 DEF Taken, UpdateRowsOf
      <4>4. \A i, j \in UpdateRowsOf(s.doc) : i = j
        BY <1>1 DEF TurnsFit
      <4> HIDE DEF S
      <4>5. QED
        BY <4>2, <4>3, <4>4
    <3>3. QED
      BY <1>3, <3>1, <3>2 DEF Taken
  <2> HIDE DEF S
  <2>3. QED
    BY <2>1, <2>2, AtMostOne
<1>4. QED
  BY <1>2, <1>3

\* Each row has a step of its own, and each step of these types a row.
LEMMA RowsMatchSteps ==
  ASSUME SamplesInv, Calm, \A j \in DOMAIN manifest : Taken(manifest[j])
  PROVE  /\ Len(sampleRows) = Cardinality(StepsOf(Updates \union {"ISSUE"}))
         /\ Len(seen) = Cardinality(StepsOf({"OBSERVE"}))
<1>1. /\ SamplesTypes /\ DocsFit /\ IssuedOnce /\ RowsFit /\ SeenFits /\ TurnsFit
  BY DEF SamplesInv
<1>2. \A j \in DOMAIN manifest : manifest[j].doc \in SampleIds
  BY <1>1, ManifestFacts
<1>3. Len(sampleRows) = Cardinality(StepsOf(Updates \union {"ISSUE"}))
  <2> DEFINE T == StepsOf(Updates \union {"ISSUE"})
             S == DOMAIN sampleRows
             Of(i) == CHOOSE j \in T : ComesFrom(sampleRows[i], manifest[j])
             f == [i \in S |-> Of(i)]
  <2>1. ASSUME NEW i \in S
        PROVE  Of(i) \in T /\ ComesFrom(sampleRows[i], manifest[Of(i)])
    <3>1. \E j \in T : ComesFrom(sampleRows[i], manifest[j])
      BY <1>1 DEF RowsFit
    <3>2. QED
      BY <3>1, Zenon
  <2>2. ASSUME NEW j \in T
        PROVE  \E i \in S : ComesFrom(sampleRows[i], manifest[j])
    <3>1. /\ j \in DOMAIN manifest /\ manifest[j].type \in Updates \union {"ISSUE"}
          /\ Taken(manifest[j])
      BY DEF StepsOf
    <3>2. CASE manifest[j].type = "ISSUE"
      <4>1. response[manifest[j].doc] \in IssueRowsOf(manifest[j].doc)
        BY <1>1, <1>2, <3>1, <3>2 DEF Taken, DocsFit
      <4>2. QED
        BY <3>2, <4>1 DEF IssueRowsOf, ComesFrom
    <3>3. CASE manifest[j].type \in Updates
      <4>1. PICK i \in UpdateRowsOf(manifest[j].doc) :
              sampleRows[i].type = manifest[j].type /\ sampleRows[i].grade = manifest[j].arg
        BY <3>1, <3>3 DEF Taken
      <4>2. QED
        BY <4>1 DEF UpdateRowsOf, ComesFrom
    <3>4. QED
      BY <3>1, <3>2, <3>3
  <2>3. ASSUME NEW i \in S, NEW j \in T, NEW k \in T,
               ComesFrom(sampleRows[i], manifest[j]), ComesFrom(sampleRows[i], manifest[k])
        PROVE  j = k
    <3>1. manifest[j].doc = manifest[k].doc /\ manifest[j].type = manifest[k].type
      BY <2>3 DEF ComesFrom
    <3>2. \/ j \in StepsOf(Updates) /\ k \in StepsOf(Updates)
          \/ j \in StepsOf({"ISSUE"}) /\ k \in StepsOf({"ISSUE"})
      BY <3>1 DEF StepsOf
    <3>3. Updates # {"OBSERVE"} /\ {"ISSUE"} # {"OBSERVE"}
      BY DEF Updates
    <3>4. \A types \in {{"ISSUE"}, Updates} : \A a, b \in StepsOf(types) :
             manifest[a].doc = manifest[b].doc => a = b
      BY <3>3 DEF Calm, Plain
    <3>5. QED
      BY <3>1, <3>2, <3>4
  <2>4. ASSUME NEW i \in S, NEW k \in S, NEW j \in T,
               ComesFrom(sampleRows[i], manifest[j]), ComesFrom(sampleRows[k], manifest[j])
        PROVE  i = k
    <3>1. j \in DOMAIN manifest /\ manifest[j].type \in Updates \union {"ISSUE"}
      BY DEF StepsOf
    <3>2. CASE manifest[j].type = "ISSUE"
      <4>1. i \in IssueRowsOf(manifest[j].doc) /\ k \in IssueRowsOf(manifest[j].doc)
        BY <2>4, <3>2 DEF ComesFrom, IssueRowsOf
      <4>2. QED
        BY <1>1, <1>2, <3>1, <4>1 DEF IssuedOnce, Calm
    <3>3. CASE manifest[j].type \in Updates
      <4>1. i \in UpdateRowsOf(manifest[j].doc) /\ k \in UpdateRowsOf(manifest[j].doc)
        BY <2>4, <3>3 DEF ComesFrom, UpdateRowsOf
      <4>2. QED
        BY <1>1, <1>2, <3>1, <4>1 DEF TurnsFit
    <3>4. QED
      BY <3>1, <3>2, <3>3
  <2> HIDE DEF T, S, Of
  <2>5. f \in Bijection(S, T)
    <3>1. f \in [S -> T] /\ \A i \in S : ComesFrom(sampleRows[i], manifest[f[i]])
      BY <2>1
    <3>2. \A i, k \in S : f[i] = f[k] => i = k
      BY <2>4, <3>1
    <3>3. \A j \in T : \E i \in S : f[i] = j
      BY <2>2, <2>3, <3>1
    <3> HIDE DEF f
    <3>4. QED
      BY <3>1, <3>2, <3>3 DEF Bijection, Injection, Surjection, IsInjective
  <2>6. ExistsBijection(S, T)
    BY <2>5 DEF ExistsBijection
  <2>7. IsFiniteSet(S) /\ Cardinality(S) = Len(sampleRows)
    <3>1. S = 1 .. Len(sampleRows) /\ Len(sampleRows) \in Nat
      BY <1>1, TypeFacts DEF S
    <3>2. QED
      BY <3>1, FS_Interval
  <2>8. Cardinality(T) = Cardinality(S)
    BY <2>6, <2>7, FS_Bijection
  <2>9. QED
    BY <2>7, <2>8 DEF T
<1>4. Len(seen) = Cardinality(StepsOf({"OBSERVE"}))
  <2> DEFINE T == StepsOf({"OBSERVE"})
             S == DOMAIN seen
             Of(i) == CHOOSE j \in T :
                         manifest[j].doc = seen[i].sample /\ TimeKept(manifest[j]) = seen[i].time
             f == [i \in S |-> Of(i)]
  <2>1. ASSUME NEW i \in S
        PROVE  /\ Of(i) \in T
               /\ manifest[Of(i)].doc = seen[i].sample /\ TimeKept(manifest[Of(i)]) = seen[i].time
    <3>1. \E j \in T : manifest[j].doc = seen[i].sample /\ TimeKept(manifest[j]) = seen[i].time
      BY <1>1 DEF SeenFits
    <3>2. QED
      BY <3>1, Zenon
  <2>2. ASSUME NEW j \in T
        PROVE  \E i \in S : manifest[j].doc = seen[i].sample /\ TimeKept(manifest[j]) = seen[i].time
    <3>1. j \in DOMAIN manifest /\ manifest[j].type = "OBSERVE" /\ Taken(manifest[j])
      BY DEF StepsOf
    <3>2. QED
      BY <3>1 DEF Taken, SightingsOf
  <2>3. ASSUME NEW j \in T, NEW k \in T,
               manifest[j].doc = manifest[k].doc,
               TimeKept(manifest[j]) = TimeKept(manifest[k])
        PROVE  j = k
    <3>1. manifest[j].arg # "" /\ manifest[k].arg # ""
      BY DEF Calm, Plain
    <3>2. manifest[j].arg = manifest[k].arg
      BY <2>3, <3>1 DEF TimeKept
    <3>3. QED
      BY <2>3, <3>2 DEF Calm, Plain
  <2>4. ASSUME NEW i \in S, NEW k \in S,
               seen[i].sample = seen[k].sample, seen[i].time = seen[k].time
        PROVE  i = k
    <3>1. PICK j \in T : manifest[j].doc = seen[i].sample /\ TimeKept(manifest[j]) = seen[i].time
      BY <2>1
    <3>2. j \in DOMAIN manifest /\ manifest[j] \in Range(manifest)
      BY <3>1 DEF StepsOf, Range
    <3>3. i \in SightingsOf(manifest[j]) /\ k \in SightingsOf(manifest[j])
      BY <2>4, <3>1 DEF SightingsOf
    <3>4. QED
      BY <1>1, <3>2, <3>3 DEF TurnsFit
  <2> HIDE DEF T, S, Of
  <2>5. f \in Bijection(S, T)
    <3>1. /\ f \in [S -> T]
          /\ \A i \in S : manifest[f[i]].doc = seen[i].sample /\ TimeKept(manifest[f[i]]) = seen[i].time
      BY <2>1
    <3>2. \A i, k \in S : f[i] = f[k] => i = k
      BY <2>4, <3>1
    <3>3. \A j \in T : \E i \in S : f[i] = j
      BY <2>2, <2>3, <3>1
    <3> HIDE DEF f
    <3>4. QED
      BY <3>1, <3>2, <3>3 DEF Bijection, Injection, Surjection, IsInjective
  <2>6. ExistsBijection(S, T)
    BY <2>5 DEF ExistsBijection
  <2>7. IsFiniteSet(S) /\ Cardinality(S) = Len(seen)
    <3>1. S = 1 .. Len(seen) /\ Len(seen) \in Nat
      BY <1>1, TypeFacts DEF S
    <3>2. QED
      BY <3>1, FS_Interval
  <2>8. Cardinality(T) = Cardinality(S)
    BY <2>6, <2>7, FS_Bijection
  <2>9. QED
    BY <2>7, <2>8 DEF T
<1>5. QED
  BY <1>3, <1>4

\* The invariant implies the property.
LEMMA InvConverges == SamplesInv => LoadsConverge
<1> SUFFICES ASSUME SamplesInv PROVE LoadsConverge
  OBVIOUS
<1>1. SamplesTypes /\ RowsFit /\ SealsFit /\ (Calm => StepsTaken /\ LastIsSealed)
  BY DEF SamplesInv
<1>2. \A j \in DOMAIN manifest : manifest[j].doc \in SampleIds
  BY <1>1, ManifestFacts
<1>3. ASSUME NEW i \in StepsOf({"ISSUE"}), manifest[i].doc \notin lost
      PROVE  RowsOf(manifest[i]) <= 1
  BY <1>2, <1>3, IssuesAreNotDoubled DEF StepsOf
<1>4. ASSUME NEW l \in Loads, Complete(l), Plain, ~ together, lost = {}
      PROVE  /\ \A i \in DOMAIN manifest : manifest[i].type # "CHECKPOINT" => RowsOf(manifest[i]) = 1
             /\ Len(sampleRows) = Cardinality(StepsOf(Updates \union {"ISSUE"}))
             /\ Len(seen) = Cardinality(StepsOf({"OBSERVE"}))
             /\ Last(manifest).type = "CHECKPOINT" => SealedUpTo = Len(sampleRows)
  <2>1. Calm
    BY <1>4 DEF Calm
  <2>2. \A j \in DOMAIN manifest : Taken(manifest[j])
    BY <1>1, <1>4, <2>1, ManifestFacts DEF StepsTaken, Complete
  <2>3. ASSUME NEW i \in DOMAIN manifest, manifest[i].type # "CHECKPOINT"
        PROVE  RowsOf(manifest[i]) = 1
    <3>1. manifest[i] \in Range(manifest)
      BY DEF Range
    <3>2. QED
      BY <1>2, <2>1, <2>2, <2>3, <3>1, TakenOnce
  <2>4. Last(manifest).type = "CHECKPOINT" => SealedUpTo = Len(sampleRows)
    <3>1. CASE manifest # << >>
      BY <1>1, <1>4, <2>1, <3>1 DEF LastIsSealed
    <3>2. CASE manifest = << >>
      <4>1. StepsOf(Updates \union {"ISSUE"}) = {}
        BY <3>2 DEF StepsOf
      <4>2. DOMAIN sampleRows = {}
        BY <1>1, <4>1 DEF RowsFit
      <4>3. Len(sampleRows) = 0
        BY <1>1, <4>2, TypeFacts
      <4>4. QED
        BY <1>1, <4>3, SealedUpToNat DEF SealsFit
    <3>3. QED
      BY <3>1, <3>2
  <2>5. QED
    BY <2>1, <2>2, <2>3, <2>4, RowsMatchSteps
<1>5. QED
  BY <1>3, <1>4 DEF LoadsConverge

-----------------------------------------------------------------------------
(* The process and its parts. *)

\* A step of the process is a step of each part, or leaves it alone.
LEMMA ProcessSteps ==
  ASSUME [Next]_vars
  PROVE  /\ [IssuanceNext]_issuanceVars
         /\ [BatchNext]_batchVars
         /\ [KeyStoreNext]_keyVars
         /\ [SamplesNext]_sampleVars
  BY Zenon DEF Next, vars

\* The process is made of its parts (cmd/lmserver/main.go, which starts them).
LEMMA ProcessParts == Spec => IssuanceSpec /\ BatchSpec /\ KeyStoreSpec
<1>1. Init => IssuanceInit /\ BatchInit /\ KeyStoreInit
  BY Zenon DEF Init
<1>2. [Next]_vars => /\ [IssuanceNext]_issuanceVars
                     /\ [BatchNext]_batchVars
                     /\ [KeyStoreNext]_keyVars
  BY ProcessSteps
<1>3. QED
  BY <1>1, <1>2, PTL DEF Spec, IssuanceSpec, BatchSpec, KeyStoreSpec

(***************************************************************************)
(* A running process, whatever its clients and its key store are doing:    *)
(* every status answer is true of the ledger and the key store that opens  *)
(* has the first CA and every acknowledged revocation, across restarts.    *)
(***************************************************************************)
THEOREM ProcessTellsTheTruth ==
  Spec => [](StatusIsTrue /\ KeyStoreKeeps)
<1>1. Spec => BatchSpec /\ KeyStoreSpec
  BY ProcessParts
<1>2. QED
  BY <1>1, BatchStatusIsTrue, KeyStoreSurvives, PTL

(***************************************************************************)
(* While the store answers, the process issues once per Idempotency-Key    *)
(* and indexes a document whole or not at all, however often clients hang  *)
(* up and the process stops.                                               *)
(***************************************************************************)
THEOREM ProcessIssuesOnce ==
  ASSUME StoreFaults = FALSE
  PROVE  Spec => [](OneIssuePerKey /\ IndexIsComplete)
<1>1. Spec => IssuanceSpec
  BY ProcessParts
<1>2. IssuanceSpec => []OneIssuePerKey
  BY KeysAreUsedOnce
<1>3. IssuanceSpec => []IndexIsComplete
  BY FingerprintsAreWhole
<1>4. QED
  BY <1>1, <1>2, <1>3, PTL

(***************************************************************************)
(* The sample loader may be run again (samples.go, LoadSamples): when a    *)
(* load has finished without a failure, every step of a plain manifest has *)
(* its row once, however many loads before it failed or were cut off,      *)
(* unless two ran together or a stop lost the response of an issue; and    *)
(* loads that do run together issue no sample twice.                       *)
(***************************************************************************)
THEOREM LoadsAreRepeatable == Spec => []LoadsConverge
<1>1. Init => SamplesInit
  BY Zenon DEF Init
<1>2. [Next]_vars => [SamplesNext]_sampleVars
  BY ProcessSteps
<1>3. QED
  BY <1>1, <1>2, SamplesStart, SamplesStep, InvConverges, PTL DEF Spec
===============================================================================
