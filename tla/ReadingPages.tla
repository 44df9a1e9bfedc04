--------------------------- MODULE ReadingPages ---------------------------
(***************************************************************************)
(* The pages that read the server and change inputs while it answers: the  *)
(* ledger, verify-pwa/src/pages/Ledger.jsx, with the loading of the        *)
(* samples and the panel that indexes files again, and the comparison of   *)
(* two files, Similarity.jsx.                                              *)
(***************************************************************************)
EXTENDS WebServer

CONSTANTS
    Limits,    \* how many rows the ledger page may ask for
    Sidecars   \* the files that are a label (.lmsig)

DefaultLimit == 500

ASSUME LimitsAssumption == Limits \subseteq Nat /\ DefaultLimit \in Limits

VARIABLES
    sampled,  \* the server has loaded its samples
    book,     \* the ledger page
    likeness  \* the comparison page

NoData == [limit |-> 0, sampled |-> FALSE]

-----------------------------------------------------------------------------
(* LedgerPage.  Field stale is of the model: the answer to the last question   *)
(* came before that to an earlier one, or it was an error, or the question was *)
(* that of loadSamples and the limit had been changed since the click.         *)

\* load, with the limit of the drawing whose handler is run.
Loading(b, n) ==
    [b EXCEPT !.error = FALSE, !.loading = TRUE,
              !.loads = Append(@, [limit |-> n, seen |-> sampled]), !.stale = FALSE]

\* The page is mounted, and its effect loads.
OpenBook ==
    Loading([limit |-> DefaultLimit, data |-> NoData, error |-> FALSE, loading |-> FALSE, loads |-> << >>,
             samples |-> [st |-> "", limit |-> 0], todo |-> << >>, log |-> << >>,
             stale |-> FALSE], DefaultLimit)

\* Mutant: the effect does not depend on the limit.
LimitUnloaded(n) ==
    /\ Click
    /\ n # book.limit
    /\ book' = [book EXCEPT !.limit = n]
    /\ UNCHANGED <<docs, observations, org, sampled, likeness>>

SetLimit(n) ==
    /\ Click
    /\ n # book.limit /\ Len(book.loads) < MaxCalls
    /\ book' = Loading([book EXCEPT !.limit = n], n)
    /\ UNCHANGED <<docs, observations, org, sampled, likeness>>

Refresh ==
    /\ Click
    /\ Len(book.loads) < MaxCalls
    /\ book' = Loading(book, book.limit)
    /\ UNCHANGED <<docs, observations, org, sampled, likeness>>

\* Only the rows are needed; all else may be missing.  A failure keeps the data.
RowsLoaded ==
    /\ \E i \in DOMAIN book.loads :
          LET load == book.loads[i]
              last == i = Len(book.loads)
              rest == [book EXCEPT !.loads = RemoveAt(@, i), !.loading = FALSE]
          IN  \/ \E seen \in {load.seen, sampled} :
                    book' = [rest EXCEPT !.data = [limit |-> load.limit, sampled |-> seen],
                                         !.stale = @ \/ (last /\ i > 1)]
              \/ book' = [rest EXCEPT !.error = TRUE, !.stale = @ \/ last]
    /\ UNCHANGED <<docs, observations, org, clicks, sampled, likeness>>

LoadSamples ==
    /\ Click
    /\ book.samples.st # "busy"
    /\ book' = [book EXCEPT !.samples = [st |-> "busy", limit |-> book.limit]]
    /\ UNCHANGED <<docs, observations, org, sampled, likeness>>

\* The rows are loaded after it with the limit of the time of the click.
SamplesLoaded ==
    /\ book.samples.st = "busy"
    /\ \/ /\ sampled' = TRUE
          /\ LET b == [book EXCEPT !.samples.st = "report"]
             IN  book' = [Loading(b, b.samples.limit) EXCEPT
                            !.loads[Len(b.loads) + 1].seen = TRUE,
                            !.stale = b.samples.limit # b.limit]
       \/ /\ sampled' \in {sampled, TRUE}
          /\ book' = [book EXCEPT !.samples.st = "error"]
    /\ UNCHANGED <<docs, observations, org, clicks, likeness>>

\* ReindexPanel: the files one after the other, each with its line in the log.
Reindex ==
    /\ Click
    /\ book.todo = << >>
    /\ \E chosen \in SetToSeqs(Files) \union {<<f>> : f \in Files} :
          book' = [book EXCEPT !.todo = chosen, !.log = << >>]
    /\ UNCHANGED <<docs, observations, org, sampled, likeness>>

Reindexed ==
    /\ book.todo # << >>
    /\ LET f == Head(book.todo)
           rest == [book EXCEPT !.todo = Tail(@)]
       IN  IF f \in Sidecars THEN book' = rest
           ELSE \E what \in {"skipped", "failed"} \union (IF docs[f] = "none" THEN {} ELSE {"indexed"}) :
                   book' = [rest EXCEPT !.log = Append(@, [of |-> f, what |-> what])]
    /\ UNCHANGED <<docs, observations, org, clicks, sampled, likeness>>

-----------------------------------------------------------------------------
(* SimilarityPage.  Field stale is of the model: the inputs were changed while *)
(* a comparison of others was awaited, whose result may be what is shown.      *)

NoInputs == [mode |-> "file", target |-> NoFile, other |-> NoFile]

EmptyLikeness ==
    [inputs |-> NoInputs, busy |-> FALSE, call |-> NoInputs, result |-> NoInputs,
     error |-> FALSE, stale |-> FALSE]

\* Whatever is chosen, the old result goes; one that is being computed comes.
SetInputs(inputs) ==
    /\ inputs # likeness.inputs
    /\ likeness' = [likeness EXCEPT !.inputs = inputs, !.result = NoInputs,
                                    !.stale = likeness.busy]
    /\ UNCHANGED <<docs, observations, org, clicks, sampled, book>>

Pick(field) ==
    /\ field = "other" => likeness.inputs.mode = "file"
    /\ \E f \in Files : SetInputs([likeness.inputs EXCEPT ![field] = f])

SetMode ==
    /\ \E m \in {"file", "ledger"} : SetInputs([likeness.inputs EXCEPT !.mode = m])

Compare ==
    /\ Click
    /\ ~likeness.busy
    /\ likeness.inputs.target # NoFile
    /\ likeness.inputs.mode = "ledger" \/ likeness.inputs.other # NoFile
    /\ likeness' = [likeness EXCEPT !.busy = TRUE, !.error = FALSE, !.result = NoInputs,
                                    !.call = likeness.inputs, !.stale = FALSE]
    /\ UNCHANGED <<docs, observations, org, sampled, book>>

Compared ==
    /\ likeness.busy
    /\ LET quiet == [likeness EXCEPT !.busy = FALSE, !.call = NoInputs]
       IN  likeness' \in {[quiet EXCEPT !.result = likeness.call], [quiet EXCEPT !.error = TRUE]}
    /\ UNCHANGED <<docs, observations, org, clicks, sampled, book>>

-----------------------------------------------------------------------------

ReadingNext ==
    \/ \E n \in Limits : SetLimit(n)
    \/ Refresh \/ RowsLoaded \/ LoadSamples \/ SamplesLoaded \/ Reindex \/ Reindexed

ComparingNext ==
    \/ \E field \in {"target", "other"} : Pick(field)
    \/ SetMode \/ Compare \/ Compared

\* When nothing is awaited any more, the ledger page shows the rows of the chosen
\* limit, with the samples once a report of them stands there, and the comparison
\* is that of the chosen files.  Excepted is what the code does not guard against:
\* it takes the last answer to arrive for the answer to the last question
\* (Ledger.jsx:35-67, Similarity.jsx:24-43), see the fields stale.
RowsFit ==
    (~book.stale /\ book.loads = << >>) =>
        /\ book.data.limit = book.limit
        /\ book.samples.st = "report" => book.data.sampled
ComparisonFits ==
    (~likeness.stale /\ likeness.result # NoInputs) =>
        /\ likeness.result.mode = likeness.inputs.mode
        /\ likeness.result.target = likeness.inputs.target
        /\ likeness.result.mode = "file" => likeness.result.other = likeness.inputs.other
ViewsFit == RowsFit /\ ComparisonFits

-----------------------------------------------------------------------------
(* The inductive invariant; what the panel of the index lists is left open. *)

Inputs == [mode : {"file", "ledger"}, target : Files \union {NoFile}, other : Files \union {NoFile}]
LoadCalls == [limit : Nat, seen : BOOLEAN]
Books(todo, log) ==
    [limit : Limits, data : [limit : Nat, sampled : BOOLEAN], error : BOOLEAN, loading : BOOLEAN,
     loads : Seq(LoadCalls), samples : [st : {"", "busy", "report", "error"}, limit : Nat],
     todo : {todo}, log : {log}, stale : BOOLEAN]
Likenesses ==
    [inputs : Inputs, busy : BOOLEAN, call : Inputs, result : Inputs, error : BOOLEAN,
     stale : BOOLEAN]

ReadingTypes ==
    /\ sampled \in BOOLEAN
    /\ book \in Books(book.todo, book.log)
    /\ likeness \in Likenesses

\* The last question is the one the page would ask now, or it has been answered.
BookFits ==
    /\ book.samples.st = "report" => sampled
    /\ ~book.stale /\ book.loads # << >> =>
          LET last == book.loads[Len(book.loads)]
          IN  last.limit = book.limit /\ (book.samples.st = "report" => last.seen)

LikenessFits ==
    ~likeness.stale =>
        /\ likeness.busy => likeness.call = likeness.inputs
        /\ likeness.result # NoInputs => likeness.result = likeness.inputs

ReadingInv == ReadingTypes /\ BookFits /\ LikenessFits /\ ViewsFit
=============================================================================
