------------------------------ MODULE Samples ------------------------------
(***************************************************************************)
(* POST /v1/admin/load-samples (internal/server/samples.go): the steps of  *)
(* a manifest, run one after another through the server's own handlers.    *)
(* The button may be pressed again, at any time and after a restart: a     *)
(* step looks first at what is there and skips what it finds done.         *)
(*                                                                         *)
(* A handler that is called is one step here; modules LabelLifecycle,      *)
(* Issuance and Ledger take them apart.  What a handler refuses for the    *)
(* sake of a token or a grade to inherit is a call that fails.  The tables *)
(* survive a restart, as those of PostgreSQL do.                           *)
(***************************************************************************)
EXTENDS Integers, Sequences, FiniteSets, SequencesExt

CONSTANTS
    Loads,       \* requests to load the samples
    Manifests,   \* sequences of steps
    MaxFails,    \* bound: calls and queries that fail in one load, and are reported
    SeenLimit,   \* observations the query answers, the newest (1000)
    NoLoad       \* the owner of the issueMu nobody holds

\* The time of the server, which no manifest names.
Now == "now"

\* A step is about the sample named by its doc; arg is the grade of a regrade, the
\* time of an observation, the id of the parent of an issue, or "".
ASSUME SamplesAssumption ==
    /\ NoLoad \notin Loads
    /\ SeenLimit \in Nat \ {0}
    /\ Manifests \subseteq Seq([type : STRING, doc : STRING, arg : STRING])
    /\ \A m \in Manifests : \A i \in DOMAIN m : m[i].arg # Now

VARIABLES
    manifest,    \* the steps of manifest.json
    load,        \* how far each request has got
    sampleRows,  \* the ledger: document (its first row), sample, type, grade
    response,    \* table idempotency: the document answered for a sample
    sealed,      \* table checkpoint: the last row of each
    seen,        \* table observation: document, sample and time
    loadMu,      \* owner of Server.issueMu
    together,    \* have two requests been at work at once?
    lost         \* samples whose response was not kept, or not found again

sampleVars == <<manifest, load, sampleRows, response, sealed, seen, loadMu, together, lost>>

Updates == {"REGRADE", "REVOKE", "DESTROY"}
SampleIds == UNION {{m[i].doc : i \in DOMAIN m} : m \in Manifests}

\* A request: its step, what it does there, the documents it knows, its failures.
NewLoad == [at |-> 0, does |-> "nothing", docs |-> [d \in SampleIds |-> 0], failed |-> 0]

Running(l) == load[l].at \in 1..Len(manifest)
Here(l) == manifest[load[l].at]
Doc(l) == load[l].docs[Here(l).doc]

\* The request l is at a step of the given types and does what is named.
At(l, types, does) == Running(l) /\ Here(l).type \in types /\ load[l].does = does

Moved(l, does) == load' = [load EXCEPT ![l].does = does]
Passed(l) == load' = [load EXCEPT ![l].at = @ + 1, ![l].does = "nothing"]

-----------------------------------------------------------------------------

Begin(l) ==
    /\ load[l].at = 0
    /\ load' = [load EXCEPT ![l].at = 1]
    /\ together' = (together \/ \E k \in Loads : Running(k))
    /\ UNCHANGED <<manifest, sampleRows, response, sealed, seen, loadMu, lost>>

\* The step fails: a call is refused or cut off, a query fails, or the step is
\* about a sample this request has not issued.
Fail(l) ==
    /\ Running(l)
    /\ load[l].does # "storing"
    /\ load[l].failed < MaxFails \/ Doc(l) = 0
    /\ load' = [load EXCEPT ![l].at = @ + 1, ![l].does = "nothing", ![l].failed = @ + 1]
    /\ loadMu' = IF loadMu = l THEN NoLoad ELSE loadMu
    /\ UNCHANGED <<manifest, sampleRows, response, sealed, seen, together, lost>>

(* sampleIssue: POST /v1/labels under a key made of the id and the hash *)

ParentKnown(l) == Here(l).arg \in {""} \union {d \in SampleIds : load[l].docs[d] # 0}

Replayed(l) ==
    /\ At(l, {"ISSUE"}, "nothing")
    /\ ParentKnown(l)
    /\ loadMu = NoLoad
    /\ response[Here(l).doc] # 0
    /\ load' = [load EXCEPT ![l].at = @ + 1, ![l].docs[Here(l).doc] = response[Here(l).doc]]
    /\ UNCHANGED <<manifest, sampleRows, response, sealed, seen, loadMu, together, lost>>

FirstIssue(l) ==
    /\ At(l, {"ISSUE"}, "nothing")
    /\ ParentKnown(l)
    /\ loadMu = NoLoad
    /\ response[Here(l).doc] = 0
    /\ loadMu' = l
    /\ Moved(l, "issuing")
    /\ UNCHANGED <<manifest, sampleRows, response, sealed, seen, together, lost>>

\* A query for the response that fails is taken for an answer that there is none.
MissResponse(l) ==
    /\ At(l, {"ISSUE"}, "nothing")
    /\ ParentKnown(l)
    /\ loadMu = NoLoad
    /\ response[Here(l).doc] # 0
    /\ loadMu' = l
    /\ lost' = lost \union {Here(l).doc}
    /\ Moved(l, "issuing")
    /\ UNCHANGED <<manifest, sampleRows, response, sealed, seen, together>>

SampleRow(doc, sample, type, grade) ==
    [doc |-> doc, sample |-> sample, type |-> type, grade |-> grade]

AppendIssue(l) ==
    /\ At(l, {"ISSUE"}, "issuing")
    /\ sampleRows' = Append(sampleRows, SampleRow(Len(sampleRows) + 1, Here(l).doc, "ISSUE", "S"))
    /\ load' = [load EXCEPT ![l].does = "storing", ![l].docs[Here(l).doc] = Len(sampleRows) + 1]
    /\ UNCHANGED <<manifest, response, sealed, seen, loadMu, together, lost>>

\* A response that is there is left alone (ON CONFLICT DO NOTHING).
KeepResponse(l) ==
    /\ At(l, {"ISSUE"}, "storing")
    /\ response' = [response EXCEPT ![Here(l).doc] = IF @ = 0 THEN Doc(l) ELSE @]
    /\ loadMu' = NoLoad
    /\ Passed(l)
    /\ UNCHANGED <<manifest, sampleRows, sealed, seen, together, lost>>

\* The error of PutIdempotent is logged and the answer is 201 all the same.
LoseResponse(l) ==
    /\ At(l, {"ISSUE"}, "storing")
    /\ lost' = lost \union {Here(l).doc}
    /\ loadMu' = NoLoad
    /\ Passed(l)
    /\ UNCHANGED <<manifest, sampleRows, response, sealed, seen, together>>

(* sampleEvent *)

Latest(doc) == sampleRows[CHOOSE i \in DOMAIN sampleRows :
                             /\ sampleRows[i].doc = doc
                             /\ \A j \in DOMAIN sampleRows : sampleRows[j].doc = doc => j <= i]

\* The newest row of the document shows that the step was taken before.
Applied(latest, s) ==
    CASE s.type = "REGRADE" -> latest.type = "REGRADE" /\ latest.grade = s.arg
      [] s.type = "REVOKE"  -> latest.type \in {"REVOKE", "DESTROY"}
      [] s.type = "DESTROY" -> latest.type = "DESTROY"

\* What handleRegrade, handleRevoke and handleDestroy let through.
Granted(latest, s) ==
    CASE s.type = "REGRADE" -> latest.type \notin {"REVOKE", "DESTROY"} /\ latest.grade # s.arg
      [] s.type = "REVOKE"  -> latest.type # "REVOKE"
      [] s.type = "DESTROY" -> latest.type # "DESTROY"

SkipUpdate(l) ==
    /\ At(l, Updates, "nothing")
    /\ Doc(l) # 0
    /\ Applied(Latest(Doc(l)), Here(l))
    /\ Passed(l)
    /\ UNCHANGED <<manifest, sampleRows, response, sealed, seen, loadMu, together, lost>>

GoOnToUpdate(l) ==
    /\ At(l, Updates, "nothing")
    /\ Doc(l) # 0
    /\ ~Applied(Latest(Doc(l)), Here(l))
    /\ Moved(l, "updating")
    /\ UNCHANGED <<manifest, sampleRows, response, sealed, seen, loadMu, together, lost>>

Update(l) ==
    /\ At(l, Updates, "updating")
    /\ Granted(Latest(Doc(l)), Here(l))
    /\ sampleRows' = Append(sampleRows,
                            SampleRow(Doc(l), Here(l).doc, Here(l).type, Here(l).arg))
    /\ Passed(l)
    /\ UNCHANGED <<manifest, response, sealed, seen, loadMu, together, lost>>

(* sampleCheckpoint *)

SealedUpTo == IF sealed = << >> THEN 0 ELSE Last(sealed)

SkipSeal(l) ==
    /\ At(l, {"CHECKPOINT"}, "nothing")
    /\ sealed # << >>
    /\ SealedUpTo >= Len(sampleRows)
    /\ Passed(l)
    /\ UNCHANGED <<manifest, sampleRows, response, sealed, seen, loadMu, together, lost>>

\* Also where all is sealed: an error of LatestCheckpoint is passed over.
GoOnToSeal(l) ==
    /\ At(l, {"CHECKPOINT"}, "nothing")
    /\ Moved(l, "sealing")
    /\ UNCHANGED <<manifest, sampleRows, response, sealed, seen, loadMu, together, lost>>

\* SealCheckpoint has nothing to seal in an empty ledger, or after another seal.
Seal(l) ==
    /\ At(l, {"CHECKPOINT"}, "sealing")
    /\ SealedUpTo < Len(sampleRows)
    /\ sealed' = Append(sealed, Len(sampleRows))
    /\ Passed(l)
    /\ UNCHANGED <<manifest, sampleRows, response, seen, loadMu, together, lost>>

(* sampleObserve *)

Observation(l) == [doc |-> Doc(l), sample |-> Here(l).doc, time |-> Here(l).arg]

\* An observation without a time is stored under that of the server.
TimeKept(s) == IF s.arg = "" THEN Now ELSE s.arg

\* Looked for by its time in the manifest, among the newest of the document.
Found(l) ==
    \E i \in DOMAIN seen :
        /\ seen[i] = Observation(l)
        /\ Cardinality({j \in i..Len(seen) : seen[j].doc = Doc(l)}) <= SeenLimit

SkipObservation(l) ==
    /\ At(l, {"OBSERVE"}, "nothing")
    /\ Doc(l) # 0
    /\ Found(l)
    /\ Passed(l)
    /\ UNCHANGED <<manifest, sampleRows, response, sealed, seen, loadMu, together, lost>>

\* Mutant: the rows that are there are not looked at.
GoOnToObserveAlways(l) ==
    /\ At(l, {"OBSERVE"}, "nothing")
    /\ Doc(l) # 0
    /\ Moved(l, "observing")
    /\ UNCHANGED <<manifest, sampleRows, response, sealed, seen, loadMu, together, lost>>

GoOnToObserve(l) ==
    /\ At(l, {"OBSERVE"}, "nothing")
    /\ Doc(l) # 0
    /\ ~Found(l)
    /\ Moved(l, "observing")
    /\ UNCHANGED <<manifest, sampleRows, response, sealed, seen, loadMu, together, lost>>

Observe(l) ==
    /\ At(l, {"OBSERVE"}, "observing")
    /\ seen' = Append(seen, [Observation(l) EXCEPT !.time = TimeKept(Here(l))])
    /\ Passed(l)
    /\ UNCHANGED <<manifest, sampleRows, response, sealed, loadMu, together, lost>>

\* The process stops: the requests under way are gone.
StopLoading ==
    /\ \E l \in Loads : Running(l)
    /\ lost' = lost \union {Here(l).doc : l \in {k \in Loads : Running(k) /\ load[k].does = "storing"}}
    /\ load' = [l \in Loads |-> IF Running(l) THEN [load[l] EXCEPT !.at = -1] ELSE load[l]]
    /\ loadMu' = NoLoad
    /\ UNCHANGED <<manifest, sampleRows, response, sealed, seen, together>>

-----------------------------------------------------------------------------
SamplesInit ==
    /\ manifest \in Manifests
    /\ load = [l \in Loads |-> NewLoad]
    /\ sampleRows = << >>
    /\ response = [d \in SampleIds |-> 0]
    /\ sealed = << >>
    /\ seen = << >>
    /\ loadMu = NoLoad
    /\ together = FALSE
    /\ lost = {}

LoadStep(l) ==
    \/ Begin(l) \/ Fail(l)
    \/ Replayed(l) \/ FirstIssue(l) \/ MissResponse(l) \/ AppendIssue(l)
    \/ KeepResponse(l) \/ LoseResponse(l)
    \/ SkipUpdate(l) \/ GoOnToUpdate(l) \/ Update(l)
    \/ SkipSeal(l) \/ GoOnToSeal(l) \/ Seal(l)
    \/ SkipObservation(l) \/ GoOnToObserve(l) \/ Observe(l)

SamplesNext == (\E l \in Loads : LoadStep(l)) \/ StopLoading

-----------------------------------------------------------------------------
(* Properties *)

StepsOf(types) == {i \in DOMAIN manifest : manifest[i].type \in types}

\* How many rows of the ledger and of the observations a step accounts for.
RowsOf(s) ==
    IF s.type = "OBSERVE"
    THEN Cardinality({i \in DOMAIN seen : seen[i].sample = s.doc /\ seen[i].time = TimeKept(s)})
    ELSE Cardinality({i \in DOMAIN sampleRows :
                         /\ sampleRows[i].sample = s.doc
                         /\ sampleRows[i].type = s.type
                         /\ s.type = "ISSUE" \/ sampleRows[i].grade = s.arg})

\* No sample is issued or updated twice, nor observed twice at a time: a second update
\* hides from the rerun that the first one was taken, and the others are one step to it.
\* Every observation has a time to be found by, and the query answers all of a sample.
Plain ==
    /\ \A types \in {{"ISSUE"}, Updates, {"OBSERVE"}} : \A i, j \in StepsOf(types) :
          /\ manifest[i].doc = manifest[j].doc
          /\ types = {"OBSERVE"} => manifest[i].arg = manifest[j].arg
          => i = j
    /\ \A i \in StepsOf({"OBSERVE"}) :
          /\ manifest[i].arg # ""
          /\ Cardinality({j \in StepsOf({"OBSERVE"}) : manifest[j].doc = manifest[i].doc}) <= SeenLimit

Complete(l) == load[l].at = Len(manifest) + 1 /\ load[l].failed = 0

\* However often the samples are loaded, and wherever a load failed or was cut off
\* by a stop: once one has reported no failure, every step of a plain manifest has
\* its row, once, in the ledger and the observations, as after a single load, and
\* after a last step that seals nothing is unsealed.  An issue is not doubled even by
\* loads that overlap.  Both except samples in lost: a stop or an error came before
\* the response was kept, or the query for it failed later, of which no load reports
\* anything (samples.go:29-31; issueMu and the key hold the rest together).
LoadsConverge ==
    /\ \A i \in StepsOf({"ISSUE"}) : manifest[i].doc \notin lost => RowsOf(manifest[i]) <= 1
    /\ (\E l \in Loads : Complete(l)) /\ Plain /\ ~together /\ lost = {}
       => /\ \A i \in DOMAIN manifest : manifest[i].type # "CHECKPOINT" => RowsOf(manifest[i]) = 1
          /\ Len(sampleRows) = Cardinality(StepsOf(Updates \union {"ISSUE"}))
          /\ Len(seen) = Cardinality(StepsOf({"OBSERVE"}))
          /\ Last(manifest).type = "CHECKPOINT" => SealedUpTo = Len(sampleRows)

\* "However often the button is pressed no row is doubled, and observations that are
\* there are skipped" (samples.go:30-31): loads that take turns leave no more
\* observations of a sample than the manifest has steps for it.  An observation
\* without a time is stored again by every load, since it is looked for under the
\* zero time and kept under that of the server (samples.go:337, postgres.go:182-184).
RepeatsAreSkipped ==
    ~together /\ lost = {} => \A d \in SampleIds :
        Cardinality({i \in DOMAIN seen : seen[i].sample = d})
            <= Cardinality({j \in StepsOf({"OBSERVE"}) : manifest[j].doc = d})

-----------------------------------------------------------------------------
(* The inductive invariant of LoadsConverge *)

SampleArgs == UNION {{m[i].arg : i \in DOMAIN m} : m \in Manifests}
Works == {"nothing", "issuing", "storing", "updating", "sealing", "observing"}

SamplesTypes ==
    /\ manifest \in Manifests
    /\ load \in [Loads -> [at : Int, does : Works, docs : [SampleIds -> Nat], failed : Nat]]
    /\ sampleRows \in Seq([doc : Nat, sample : SampleIds, type : Updates \union {"ISSUE"},
                           grade : SampleArgs \union {"S"}])
    /\ response \in [SampleIds -> Nat]
    /\ sealed \in Seq(Nat)
    /\ seen \in Seq([doc : Nat, sample : SampleIds, time : SampleArgs \union {Now}])
    /\ loadMu \in Loads \union {NoLoad}
    /\ together \in BOOLEAN /\ lost \subseteq SampleIds

IssueRowsOf(d) ==
    {i \in DOMAIN sampleRows : sampleRows[i].sample = d /\ sampleRows[i].type = "ISSUE"}

\* issueMu is held from the lookup of the response to the storing of it.
Issuing(l) == Running(l) /\ load[l].does \in {"issuing", "storing"}
WorkFits ==
    /\ \A l \in Loads : load[l].at = 0 => load[l].does = "nothing"
    /\ \A l \in Loads : Issuing(l) => loadMu = l /\ Here(l).type = "ISSUE"
    /\ \A l \in Loads : loadMu = l => Issuing(l)

\* Who knows the document of a sample knows a row that issued the sample.
DocsFit ==
    /\ \A d \in SampleIds : response[d] # 0 => response[d] \in IssueRowsOf(d)
    /\ \A l \in Loads : \A d \in SampleIds :
          load[l].docs[d] # 0 => load[l].docs[d] \in IssueRowsOf(d)
    /\ \A l \in Loads : At(l, {"ISSUE"}, "issuing") /\ Here(l).doc \notin lost
                        => response[Here(l).doc] = 0
    /\ \A l \in Loads : Running(l) /\ load[l].does \in {"storing", "updating", "observing"}
                        => Doc(l) # 0

\* The row of a sample has its response, or is being given it.
IssuedOnce ==
    \A d \in SampleIds \ lost :
        /\ \A i, j \in IssueRowsOf(d) : i = j
        /\ IssueRowsOf(d) # {} =>
              response[d] # 0 \/ \E l \in Loads : At(l, {"ISSUE"}, "storing") /\ Here(l).doc = d

\* Every row and every observation comes from a step, and is about its sample.
ComesFrom(r, s) ==
    r.sample = s.doc /\ r.type = s.type /\ (s.type # "ISSUE" => r.grade = s.arg)
RowsFit ==
    \A i \in DOMAIN sampleRows :
        /\ \E j \in StepsOf(Updates \union {"ISSUE"}) : ComesFrom(sampleRows[i], manifest[j])
        /\ sampleRows[i].doc \in IssueRowsOf(sampleRows[i].sample)
        /\ sampleRows[i].type = "ISSUE" => sampleRows[i].doc = i
        /\ sampleRows[i].type # "ISSUE" => sampleRows[i].doc < i
SeenFits ==
    \A i \in DOMAIN seen :
        /\ \E j \in StepsOf({"OBSERVE"}) :
              manifest[j].doc = seen[i].sample /\ TimeKept(manifest[j]) = seen[i].time
        /\ seen[i].doc \in IssueRowsOf(seen[i].sample)

SealsFit == SealedUpTo <= Len(sampleRows)

\* Loads that take turns.  Rows and observations are not doubled, because a load that
\* is about to add one has looked, and nobody has added one since.
Calm == Plain /\ ~together /\ lost = {}

UpdateRowsOf(d) ==
    {i \in DOMAIN sampleRows : sampleRows[i].sample = d /\ sampleRows[i].type \in Updates}
SightingsOf(s) ==
    {i \in DOMAIN seen : seen[i].sample = s.doc /\ seen[i].time = TimeKept(s)}

TurnsFit ==
    /\ \A k, l \in Loads : Running(k) /\ Running(l) => k = l
    /\ \A d \in SampleIds : \A i, j \in UpdateRowsOf(d) : i = j
    /\ \A s \in Range(manifest) : \A i, j \in SightingsOf(s) : i = j
    /\ \A l \in Loads : At(l, Updates, "updating") => UpdateRowsOf(Here(l).doc) = {}
    /\ \A l \in Loads : At(l, {"OBSERVE"}, "observing") => SightingsOf(Here(l)) = {}

\* What a load that has reported no failure so far has passed is there.
Taken(s) ==
    /\ s.type \in Updates \union {"ISSUE", "OBSERVE", "CHECKPOINT"}
    /\ s.type = "ISSUE" => response[s.doc] # 0
    /\ s.type \in Updates => \E i \in UpdateRowsOf(s.doc) :
                                sampleRows[i].type = s.type /\ sampleRows[i].grade = s.arg
    /\ s.type = "OBSERVE" => SightingsOf(s) # {}
StepsTaken ==
    \A l \in Loads : load[l].failed = 0 =>
        \A j \in DOMAIN manifest : j < load[l].at => Taken(manifest[j])

LastIsSealed ==
    (\E l \in Loads : Complete(l)) /\ manifest # << >> /\ Last(manifest).type = "CHECKPOINT"
    => SealedUpTo = Len(sampleRows)

SamplesInv ==
    /\ SamplesTypes
    /\ WorkFits /\ DocsFit /\ IssuedOnce /\ RowsFit /\ SeenFits /\ SealsFit
    /\ Calm => TurnsFit /\ StepsTaken /\ LastIsSealed
=============================================================================
