# ledgermarker: a specification of the ledger, the labels and their verification

ledgermarker marks files with signed grade labels (C, S, O) and records every
label event in an append-only, hash-chained ledger.  The server is written in
Go (`src/internal`, `src/cmd/lmserver`); a browser client (`src/verify-pwa`)
computes hashes and fingerprints, calls its API and draws the ledger.  Bodies of
documents never reach the server: it knows them by a content hash (the file
without its label), a text hash (the extracted text) and a fingerprint (MinHash).

This directory holds TLA+ models of the server's logic, of what its two clients
do to a file, and of what the browser shows; the TLC runs that check them; and
proofs for the writer of the ledger, the life cycle of labels and their verification,
the server's processes and stores, and the pages that wait for answers.
Sources are cited relative to the repository root, `src/`.

## 1. Inventory

| component | state | operations | hard parts |
|---|---|---|---|
| ledger writer (`internal/ledger`) | table `ledger_event`, table `checkpoint`, `Writer.mu` | `Append`, `SealCheckpoint`, `Verify` | one tip shared by all requests; `Verify` reads without the mutex; an INSERT may outlive its cancelled call |
| Merkle root (`internal/ledger/merkle.go`) | none | `MerkleRoot` | odd nodes |
| store (`internal/store`) | tables above, `idempotency`, `fingerprint`, `observation`, `trust_anchor`, view `current_label` | SQL queries, one transaction each | no transaction spans two calls |
| label lifecycle (`internal/server/labels.go`) | the KMS's keys, `Server.issueMu` | `issueLabel`, regrade, revoke, destroy | read, decide, append without a lock |
| idempotent issue, reindex (`internal/server/labels.go`) | `idempotency`, `fingerprint` | `handleIssue`, `refreshFingerprint`, `handleReindex` | retries, clients that hang up, a stop between two writes |
| verification (`internal/verify`, `internal/server/handlers.go`) | none | `Run` | three queries beside the writers; outage against absence; order of the rules |
| restore and recovery (`internal/server/restore.go`, by-hash) | none of its own | picks an original, calls `issueLabel` | choice among candidates; does not take `issueMu` |
| batch issue (`internal/server/batch.go`) | `jobRegistry.jobs` in memory | start, status, the worker goroutine | a lock held while writing to a client; jobs forgotten at a restart |
| sample loader (`internal/server/samples.go`) | none of its own | issues, updates, seals and observes a demo set | reruns, reruns beside each other, stops |
| treaty service (`internal/treaty`) | a static table | `Translate` | expiry, inversion of a map |
| lineage (`internal/lineage`) | none | walk along parent hashes | cycles, depth limit |
| fingerprints, identify (`internal/fingerprint`, `identify.go`, `compare.go`, mirrored in `verify-pwa/src/lib/fingerprint.js`) | the index | shingles, MinHash, comparison, lookup | two implementations; rounding, sorting, cutting off |
| key store (`internal/crypto/softhsm`) | key and certificate files, revocation list | open, generate, rotate, revoke | files written one by one |
| server process (`cmd/lmserver`) | all of the above in memory | start, stop | what a stop ends and what survives it |
| label profile (`internal/issue`) | none | build and parse the signed label | ASN.1 |
| label attachment (`internal/attach`, mirrored in `verify-pwa/src/lib/attach.js`) | the file itself | hash target, extract, attach, per file format | the label is in the file and the hash is in the label; two implementations |
| command line (`cmd/lm`) | the file and its `.lmsig` sidecar | issue, scan, restore, rehydrate, verify | the server is asked first and the file written later; keys that replay |
| verify page (`pages/Verify.jsx`) | the dropped pair, the verdict, five panels | drop, scan, restore, rehydrate, identify, attack, send | answers that arrive after the next drop; panels that outlive their document |
| offline verification (`lib/cms.js`, `runVerify`, `AttackDemo.jsx`) | a cached trust list | `verifyLocal` | an outage must not become an accusation or an approval |
| issue page (`pages/Issue.jsx`) | form, target of the lifecycle section | issue, look up, revoke, destroy, regrade | the document changes between lookup and click |
| exchange (`components/Federation.jsx`, `App.jsx`) | organisation, inbox | send, load, verify, change organisation | overlapping loads and verifications, other browsers |
| reading pages (`pages/Ledger.jsx`, `pages/Similarity.jsx`) | rows, limit, inputs, result | load, load samples, reindex, compare | answers to earlier questions |
| ledger views (`pages/ledger/*.jsx`, `SimilarityViz.jsx`) | none: functions of the rows loaded | lanes, bands, stamps, flows, map, classes, tags, graph | a window that begins in the middle of a life |
| caches (`lib/api.js`, `lib/attach.js`, `vite.config.js`) | memory, localStorage, service worker | trust list, catalogue | a network that comes and goes |
| observations, read-only endpoints, SDK, help, key, admin, lineage and structure pages, slide scripts | append-only table or none | | |

How they interact.  Every change of a label is one row, written by
`Writer.Append` on behalf of a handler; every handler first reads the rows of a
document or a hash through the store.  `POST /v1/labels` also keeps the response
under its `Idempotency-Key` and refreshes the fingerprint index.  A batch worker
and restore reach `issueLabel` directly; the sample loader calls the handlers in
process.  Verification reads what the handlers write, through the same store,
with no lock.  The treaty service is asked only by verification.  The clients
hash a file without its label, send the hash, and put the label they get into
the file or beside it; the server never sees the file.  Organisations exchange
documents outside the system and note sending and verifying as observations,
which the inbox and the pages of the ledger read back.  Checkpoints are made
over the API by an operator.

What makes each component correct:

* writer: no gap, no fork, the caller is told the truth, an unaltered ledger
  never looks altered, a checkpoint signs what was there;
* lifecycle: an update refers to a row that allows it; no revival without a new
  issue; no destroyed document with a live key;
* idempotent issue: one answer and one row per key; a complete index;
* verification: a closed document is denied, "allow" is current, an outage is
  never an answer, the hint is the worst one called for;
* batch: a status is one state of the job and true of the ledger; a job ends;
* key store: what opens has the same root, the same revocations, signers that fit;
* sample loader: loading again comes to what loading once would have;
* label attachment: no client changes what is hashed, whatever was attached, saved
  and taken off before; a label that was given out is found and fits; both clients
  read a file alike; restoring derives no document from itself;
* lineage: every descendant, and no edge that was not declared; likeness: what the
  index answers is what the texts share; treaty: it holds in both directions;
* pages: what is shown belongs to what was asked; no page waits for ever; the
  views say of a document what the server would say.

The hazards behind these are listed with their lines in `PROJECT.json`.

## 2. Modules

| module | models | checked by |
|---|---|---|
| `Chain` | `RowHash`, `VerifyChain` (`ledger/hash.go`) as operators | through `Ledger` |
| `Ledger` | `Writer.Append`, `SealCheckpoint`, `Verify`, query by query | `ledger_calls`, `ledger_late` |
| `AppendOnlyLog` | the promise of the writer to its callers | `ImplementsLog` in `ledger_calls` |
| `LedgerProofs` | theorems about `Ledger`, without and with late commits, and that it implements `AppendOnlyLog` | tlapm |
| `NatOrder` | lemmas about least and greatest numbers | tlapm |
| `Merkle` | `MerkleRoot` round by round, and the tree of RFC 6962 | `algorithms` |
| `LabelLifecycle` | `issueLabel`, regrade, revoke, destroy | `lifecycle_*` |
| `LifecycleProofs` | theorems about `LabelLifecycle` and `Gate` | tlapm |
| `Issuance` | `handleIssue`, `refreshFingerprint`, `handleReindex` | `server_process` |
| `IssuanceProofs` | theorems about `Issuance` | tlapm |
| `Batch` | the job registry, its lock, workers and status requests | `server_process` |
| `BatchProofs` | the theorem about `Batch` | tlapm |
| `KeyStore` | the key store's directory, file by file | `server_process` |
| `KeyStoreProofs` | theorems about `KeyStore` | tlapm |
| `Samples` | the sample loader over the handlers it calls | `server_process` |
| `ServerProcess` | the four above under one process that may stop | `server_process` |
| `ServerProofs` | the process is a behaviour of each of its parts; the theorem about `Samples` | tlapm |
| `Verdict` | what `verify.Run` concludes from its evidence | `algorithms` |
| `OfflineVerdict` | `runVerify`, `verifyLocal`, the result card, the staged attacks | `algorithms` |
| `Lineage` | `lineage.Query`, up and down | `algorithms` |
| `Likeness` | shingles and MinHash of both implementations, compare, identify, the similarity page | `algorithms` |
| `Translation` | `Static.Translate` of `internal/treaty` | `algorithms` |
| `Passports`, `Journeys` | treaties and observations on the passport map, the stamps and the flow diagram | `algorithms` |
| `LedgerViews`, `LaneChart`, `Taxonomy`, `Drawings` | what the pages rebuild from the rows, and where they draw it | `algorithms` |
| `Gate` | the queries of `verify.Run`, composed with `LabelLifecycle`, using `Verdict` | `gate_*` |
| `Attachment` | the attachers and their mirror, as operators on files | through `LabelledFile` |
| `LabelledFile` | the commands and pages that label a file, composed with `Attachment` | `file_life`, `file_restore` |
| `WebServer` | documents and observations as a page sees them, other clients | through `WebClient` |
| `VerifyPage`, `Exchange`, `IssuePage`, `ReadingPages`, `Caches` | one page or cache each | through `WebClient` |
| `WebClient` | a page that is open, left and opened again | `web_pages` |
| `WebProofs` | theorems about the pages, the exchange and the caches | tlapm |
| `MC...` | small instances; `MCAlgorithms` joins everything sequential | |

**Ledger.** `rows` is the table in the order of commit, so that two rows with
one `seq` can be told apart; `mu` is `Writer.mu`, `pc`, `tip`, `span`, `leaves`
and `anchor` are the local variables of the calls.  Each query is an action, and
each can fail (`AppendFail`, `SealFail`, `AuditFail`).  With `LateCommit` an
INSERT may fail for its caller and stay on `wire`, from where the database
executes or discards it later: what a cancelled context does to PostgreSQL.  The
memory store corresponds to `LateCommit = FALSE`.  A digest is modelled by the
transcript that was hashed, so equal digests mean equal contents.

**LabelLifecycle.** A handler is two steps (three for destroy): read and decide
(`IssueRead`, `RegradeRead`, `RevokeRead`, `DestroyRead`, or a refusal), then
append what was decided (`IssueAppend`, `UpdateAppend`, `Shred` and
`DestroyAppend`).  `Writer.Append` is one step here; that is what
`ImplementsLog` and `LedgerIsOneChain` license.  `ApiIssues` are requests to
`POST /v1/labels`, which hold `issueMu`; `OtherIssues` come from batch workers
and restore, which do not.  `Serialised = TRUE` describes callers that wait for
an answer before they send another request about the same document.  A request
may fail at every step.  `approved` on an event remembers the approval token of
the request, for the properties only.

**Issuance.** Takes `handleIssue` from its mutex to its answer, with the row
reduced to "who appended it".  `Hangup` cancels a request's context: the query
under way may have been executed (`AppendUnseen`), every later one fails, and
the code goes on where it ignores errors.  `Crash` stops the process: the tables
stay, requests under way are lost.  `StoreFaults` lets any query fail.  The
insertion of a fingerprint is a statement per LSH band (`InsertBand`).

**Batch, KeyStore, Samples, ServerProcess.** One process, looked at part by part.
`Batch` has the registry, its read-write lock (a writer announces itself and keeps
later readers out), a worker per job and status requests that hold the lock until
their client has read the answer.  `KeyStore` writes a file in two steps, first
empty and then whole, as `os.WriteFile` does; a step may fail and the process may
stop between any two.  `Samples` is the loader's steps with what each looks at
before it acts; a handler it calls is one step.  A lookup of a response that fails is
taken for a miss (`MissResponse`), a response that is not stored is not reported
(`LoseResponse`), an observation without a time is kept under the server's (`TimeKept`),
and the query for observations answers the newest `SeenLimit`, 1000 in the code.
`torn`, `cut`, `together` and `lost` remember what the properties except.
`ServerProcess` runs one part per behaviour, because the four share no state but the
store.

**Verdict.** One record of evidence, one operator per check, in the structure of
`Run`: signature, ledger, revocation, validity, attribution, treaty, and the four
adjustments of the hint in their order.

**Lineage.** A ledger is a sequence of rows with a document, a hash, a parent hash
and whether the row is an issuance.  `Up` takes the last issuance of the parent
hash, `Down` goes depth first through the issuances derived from a hash; nodes
are kept apart by document, edges by their ends.  Grades, the root that is
copied from the newest row, and errors of the store, which end a query, are left
out.

**Translation.** A treaty is its two parties, its grade map and whether it is in
force.  Backwards, the code answers with the first match in the order of a Go
map; `Translate` is the set of possible answers.  Upper case is not told apart.

**OfflineVerdict.** The same evidence as `Verdict` in the hands of a browser: the
request that reaches no server, `verifyLocal` with a current, an old or no list of
certificates, the card with its tones, and the five staged attacks as the evidence
that a server would then have.

**Likeness.** A text is a sequence of letters, capitals and blanks.  The estimate of
MinHash is taken over all orders of the shingles instead of 128 pseudo-random ones,
which makes it exact; what is left is what the two implementations do to a text
before they hash it, and what compare, identify and the diagram make of the numbers.

**Passports, Journeys, LedgerViews, LaneChart, Taxonomy, Drawings.** The pages keep
no state about documents; they rebuild it from the rows they have loaded, which
are the end of a ledger.  Each view is an operator of such a window (`LedgerViews`,
`LaneChart`), of treaties and observations (`Passports`, `Journeys`) or of classes
and tags (`Taxonomy`).  `Drawings` is where things are put: rows of stamps, ticks,
boxes.

**WebServer, VerifyPage, Exchange, IssuePage, ReadingPages, Caches, WebClient.** A page is
a record of its React state, a handler is an action up to its `await`, and the answer is
another, in any order; a page that is left hears no answer.  A panel's state is kept for
as long as it is shown (`Kept`), which is what React does with a component without a key.
`WebServer` is what the pages see of the server: its answer is that of the moment it is
given, and other clients may change it (`Elsewhere`).  Of the server's errors every
request may get one.  The answer to the inbox holds the newest `InboxLimit` observations
addressed to the organisation (`Listed`), 500 in the code.  `overtaken`, `covered`, the
fields `stale` and `crossed` remember what the properties except: the call of the last
drop failed or was overtaken by that of an earlier one; the verdict on the page was put
over another; the answer to the last question of a page is not what it shows; two fetches
crossed.  The parent file of the form, the tokens and the texts typed in are left out.

**Gate.** `ReadContent`, `ReadText` and `ReadLatest` are the three queries of
`Run`; between them the handlers of `LabelLifecycle` move.  Signatures are good
and validity windows open, the dimension `Verdict` covers.

**Attachment.** A file is its lines, the number of its encoding, the comment of
its archive and its trailer; a label is the number of the ledger row it was
issued with.  What makes front matter front matter (an opening fence in the first
line, a closing one not before the third), which lines `stripLM` drops and when
the section goes with them, what a trailer or a comment of zero bytes is taken
for, and where a byte order mark matters are as in the code; base64, CRLF, NFC
and the layout of ZIP and CMS are not told apart.  `HashTarget`, `Extract`,
`TextHash` and `Attach` are those of `internal/attach` and `internal/fingerprint`;
`JsHashTarget` and its companions are those of the web client.  Five kinds of
format stand for the catalogue: those with front matter, with a trailer, with an
archive comment, planned ones, and those kept apart by policy.

**LabelledFile.** One file in its owner's hands: `file`, its `sidecar`, the rows of the
documents it became (`ledger`), the table `idempotency` (`keys`).  A command is one step,
or ends after the server has answered with the file unwritten (`WriteNothing`).  The calls
of the server are steps as well, which `Issuance` and `LabelLifecycle` take apart.  In
the formats of `Declared` the owner may name a parent and a document in an issue (options
`--parent` and `--doc-guid` of `lm issue`), any that is registered or the file itself; the
server refuses none of them.  `Resave`, `Edit` and `Part` are the world outside.  `given`
remembers which label was delivered last for the content as it is, and on what ground, for
the properties only.
Which document resembles a file most is left open in `Rehydrate`, save that a file
resembles its own text most.

## 3. Runs, bounds and what they show

| run | instance | shows |
|---|---|---|
| `ledger_calls` | 2 appends, 2 seals, 1 audit, ranges: default, complete, past the tip, backwards | type, chain, truthful answers, no false alarm, seals hold, refinement of `AppendOnlyLog`, every call returns |
| `ledger_late` | 3 appends, 1 seal, 1 audit, late commits | rows still form a tree that hangs from the genesis hash, and an acknowledged row is there |
| `lifecycle_races` | one request of each kind plus a batch issue, 2 documents, originals and derivatives, signed or not, KMS | references are lawful, no live key of a destroyed document, roots exist, however requests interleave |
| `lifecycle_serial` | 2 issues, 1 regrade up or down, 2 revocations, 1 destruction, callers that wait | a revoked document needs a new issue; every request is answered |
| `lifecycle_revoked_race` | 1 issue, 1 regrade, 1 revocation, not waiting | **violated**: the regrade lands behind the revocation |
| `server_process` | by part: 2 requests under one key, 1 under another, 1 reindex, hang-ups, stops, 2 bands; 2 jobs of 2 and 1 items, 3 status requests, 1 restart; 7 keys, 3 starts; 4 manifests, 2 loads, 1 failure each, 2 observations answered | one row and one answer per key, a complete index; true statuses, jobs that end; a key store that keeps what it acknowledged; loads that converge |
| `algorithms` | every range of up to 7 leaves over 2 hashes; every combination of evidence; every ledger of 3 rows over 3 documents and 3 hashes, trees 1 to 3 deep; every list of 2 treaties between 3 organisations; every window of 3 rows; scenes of observations, classes, tags, texts of up to 3 characters, places | the root is RFC 6962's; verdicts are sound, with and without a server; outages withhold; attacks are caught; relatives are found; passports are true; the views follow the server |
| `gate_races` | 1 verification, 2 issues of two documents that share a text, 1 regrade, revocation and destruction; queries may fail | a closed document is denied, "allow" is current, what is registered is found |
| `gate_outage` | 1 verification, 1 issue, 1 revocation | **violated**: a failed second query reads as "unregistered" |
| `file_life` | 1 file of each kind, with and without front matter, archive comment, old trailer; 3 rows, 1 save or edit; parents and documents declared at will for Markdown and packages | what is hashed stays, labels given out are found and fit, at most one inside, both clients agree, no restore derives a document from itself |
| `file_restore` | 1 file, 2 rows, 1 save | **violated**: a label restored by text is rejected with the file it was restored to |
| `web_pages` | one page per behaviour, 2 files, 2 organisations, 4 clicks before the page is left, 2 calls of a kind under way, 3 observations, 3 versions | what is shown belongs to what was asked, the inbox is true, what is cached is kept, no page waits for ever |

Why the bounds are enough.  A fork or a wrong answer needs two overlapping
appends; a gap between seals needs two seals; an audit is independent of other
audits.  A tree of seven leaves has every shape of a promoted node on three
levels.  Three rows make a cycle, two paths of different length to one row, and a
document whose newest row is not the one that was derived; the second treaty is what a list is
searched for.  In the lifecycle every property relates at most three rows (an update,
the row it refers to, and one in between), and one request of each kind can
produce each order of them.  Two requests under one key exhaust the roles of
first and retry.  Two documents that share a text are what makes the lookup by
text differ from the one by content.
In `server_process` two items are what a status can mix, and two clients of one
job what a writer can be kept out by; seven keys are a generation that is cut
short and a second one, or a generation and rotations, and three starts are those
that find what the first left and what the second did about it; the manifests
hold each kind of step before and after each that changes what it looks for, two
observations of one sample, and one without a time.
In `algorithms` three rows of a window are an issue, what was done to it, and
another document or another issue beside it; two passages are what a pair, and
three what a ribbon, can be confused by.
In `web_pages` two calls under way can cross, and four clicks are enough to ask,
replace what is asked about, ask again and change the organisation.  Three observations
are one more than the inbox is answered, which is all that 500 can do to a longer log.
In `file_life` three rows are an original, what it was regraded to or derived as,
and one more that is taken for either; one save is what lies between two clients
that look at the file.  The instance leaves out, because the code is known to fail
there (section 5): files that open a section of front matter and do not close it
or leave it empty, byte order marks (`Marks`), registrations without a signature
(`Unsigned`), lookups that fail during a restore (`Outages`), and old trailers on
archives.

Deadlock is not checked: every instance has finitely many requests and stops
when all of them are answered; that they are is a liveness property where it is
not plain.

**Fairness.** Requests run in goroutines, which the Go runtime schedules, and
the store answers each query with a result or an error: weak fairness of each
request.  `sync.Mutex` hands the lock to a waiter that has waited for more than
a millisecond (starvation mode), so taking `Writer.mu` or `issueMu` is strongly
fair.  Batch workers and status requests share one weak fairness condition: while
any of them can go on, one does.  Whether a client reads an answer is not the
server's to decide; `JobsEnd` has it as a premise.  A call a page has made ends
with an answer, an error or the network's timeout: weak fairness of the answers.
Nothing is assumed of users, of the statements left on the wire, of hang-ups or
of stops.

## 4. Proofs

The theorems hold for any finite or infinite sets of calls, requests, documents, hashes,
batches, clients, files and organisations, and for any number of keys and starts; what
they assume of the constants is what the `ASSUME` of each module says (`LedgerAssumption`,
`LifecycleAssumption`, `GateAssumption`, `IssuanceAssumption`, `BatchAssumption`,
`KeyStoreAssumption`, `MaxVersionAssumption`, `LimitsAssumption`, `WebAssumption`: kinds
of requests are disjoint, arguments are well typed, each `Append` carries a body of its
own, a batch has an item, bounds are natural numbers; `NoneAssumption`: the names for "no
file" and "no organisation" are none of those there are; `DropsAssumption`: what is
dropped on a page is one file or two; `SamplesAssumption`: a manifest is a sequence of
steps), which TLC evaluates in the runs of the module, and what the last column names.

| theorem | states | needs |
|---|---|---|
| `LedgerProofs!TypeCorrect` | `TypeOK` | nothing more |
| `LedgerProofs!LedgerIsOneChain` | `OneChain` | `LateCommit = FALSE` |
| `LedgerProofs!AppendAnswersTruly` | `AnswersMatchRows` | `LateCommit = FALSE` |
| `LedgerProofs!VerifyNeverCriesWolf` | `NoFalseAlarm` | `LateCommit = FALSE` |
| `LedgerProofs!CheckpointsHold` | `SealsHold` | `LateCommit = FALSE` |
| `LedgerProofs!WriterImplementsLog` | `ImplementsLog` (refinement) | `LateCommit = FALSE` |
| `LedgerProofs!LedgerIsOneTree` | `OneTree` | nothing more |
| `LedgerProofs!AckedRowsStay` | `AckedStored` | nothing more |
| `LifecycleProofs!LifecycleTypeCorrect` | `TypeOK` | nothing more |
| `LifecycleProofs!UpdatesAreLawful` | `RefsAreLawful` | nothing more |
| `LifecycleProofs!LineageIsRooted` | `RootIsIssued` | nothing more |
| `LifecycleProofs!DestructionIsReal` | `NoLiveKeyDestroyed` | nothing more |
| `LifecycleProofs!RevocationHolds` | `RevokedNeedsReissue` | `Serialised = TRUE` (callers wait) |
| `LifecycleProofs!FilesAreFound` | `RegisteredIsFound` | nothing more |
| `LifecycleProofs!ClosedDocumentsAreDenied` | `ClosedIsDenied` | nothing more |
| `LifecycleProofs!WhoPassesIsCurrent` | `AllowIsCurrent` (of every step) | nothing more |
| `IssuanceProofs!KeysAreUsedOnce` | `OneIssuePerKey` | `StoreFaults = FALSE` |
| `IssuanceProofs!FingerprintsAreWhole` | `IndexIsComplete` | `StoreFaults = FALSE` |
| `BatchProofs!BatchStatusIsTrue` | `StatusIsTrue` | nothing more |
| `KeyStoreProofs!KeyStoreFits` | `KeyStoreInv` | nothing more |
| `KeyStoreProofs!KeyStoreSurvives` | `KeyStoreKeeps` | nothing more |
| `ServerProofs!ProcessTellsTheTruth` | `StatusIsTrue`, `KeyStoreKeeps`, of the whole process | nothing more |
| `ServerProofs!ProcessIssuesOnce` | `OneIssuePerKey`, `IndexIsComplete`, of the whole process | `StoreFaults = FALSE` |
| `ServerProofs!LoadsAreRepeatable` | `LoadsConverge`, of the whole process | nothing more |
| `WebProofs!CachedCopiesKeep` | `CachesKeep` | nothing more |
| `WebProofs!PagesAnswerWhatTheyAsk` | `AnswersFit` | nothing more |
| `WebProofs!InboxesAreTrue` | `InboxIsTrue` | nothing more |
| `WebProofs!PanelsAreAboutTheFile` | `PanelsFit` | nothing more |

**The chain.** `OneChain` is not inductive: a state in which a call of `Append`
holds a tip that is no longer the tip is one step from a fork.  `ChainInv` adds
what rules it out: `TipIsCurrent` (the tip a call has read is still the tip),
which holds because `MutexInv` (a call is between Lock and Unlock exactly when
it owns the mutex) lets nobody else insert a row, and `WireIsEmpty` (no INSERT
outlives its call).  `ChainGrows` is the heart of the proof: a row computed from
the current tip extends a chain to a chain.  `AnswersMatchRows` joins the
invariant because a row's body is the call that inserted it, once.

**The tree.** With late commits `TipIsCurrent` fails, and so does the chain.
`TreeInv` keeps the weaker fact that makes `OneTree` inductive: the tip a call
has read (`TipIsStored`) and the row an INSERT on the wire would hang itself
from (`WireContinues`) are rows of the table, if old ones.  They stay so because
the table only grows (`InsertGrows`, `ContinuesStays`).

**The readers.** `Verify` reads without the mutex, in two queries, while rows are
appended.  `AuditInv` says what it has in hand between them: `anchor` is the hash of
the row before its range *in the table as it is now*, because the table is a chain
that only grows (`HashBeforeStays`); the rows the second query returns are then a
segment of the chain (`RangeOfChain`, whose heart is `IncreasingIsShift`: n rows in
ascending order out of n consecutive ones are these, one by one) and `VerifyChain`
finds nothing in it (`SegmentIsWhole`).  `SealInv` carries the same fact through
`SealCheckpoint`, which holds the mutex from the resolution of its range to its
INSERT, so that the last seal is still the last (`Begins`).  The refinement maps the
table to the log of `AppendOnlyLog`: the INSERT of `Append` is the log's commit, an
error is its refusal (`AppendRefines`), and every other step stutters (`OthersStutter`).

**The life cycle.** A handler decides on what it has read and appends later, and
by then the ledger has moved on.  `LifecycleInv` says what of the decision cannot
be overtaken: `PlanFits` (a request plans only events of its kind) and
`PlansAreLawful` (the reference and the root a request has decided on are rows of
the ledger on which the step was lawful).  Both are statements about rows that
exist, and rows neither change nor go away; so when the plan is appended,
`RowsAreLawful` holds of the new row too.  What can be overtaken is what a
document's *latest* row was: `lifecycle_revoked_race` violates `RevokedNeedsReissue`.
If callers wait for each other on a document (`Serialised`), `SerialInv` puts it back:
one request is between its read and its append (`OneInFlight`), so what it read is
still the newest row (`PlansAreFresh`), and every update refers to the row just before
it (`RefIsBefore`), on which `RefsAreLawful` says it was lawful.
`KeysGoFirst` (a request that has passed the KMS knows the key is gone) gives
`NoLiveKeyDestroyed`.

**Verification.** `GateInv` joins the two properties it is for to `Reading`: what a
verification can know after each of its queries.  The crux is the turn from the
content hash to the text hash, which a verification takes only when no row that was
there when it came in bears the content; a file that carries its own label therefore
never takes it, and what it has matched is the row of that label.  `GateSpec` lets
every handler of `LabelLifecycle` run between the queries, so the proof carries
`LifecycleInv` along (`GateAlways`).  `AllowIsCurrent` speaks of a step: it is proved
from the invariant for the one action that answers (`WhoPassesIsCurrent`).

**One row per key.** `KeyInv` says for each issue what the table of responses holds
under its key at each point of the handler (`KeyFits`), and for each row that it is
kept, about to be kept, or was left by a request that was cut off (`RowKept`).  The
mutex gives the rest: whoever has found nothing under a key is the only one at work,
so every row of the key that is there already was left behind (`OlderRowsCutOff`).
`IndexInv` is about documents, not requests, because a reindex takes no mutex and
may delete what an issue has inserted: among those at work on a document, the last
that deleted has inserted all bands so far, or one of them has finished
(`FingerprintGrows`).  A store that fails by itself (`StoreFaults`) refutes
`OneIssuePerKey` (section 5), so both theorems exclude it; hang-ups and stops are in.

**Batches.** A status request reads the job in several steps under the read lock.
`BatchInv` says that what the registry holds of a job is true and that the ledger is at
most one item ahead (`JobFits`), and that what a request has in hand is what the
registry holds for as long as it reads (`PollFits`): the worker records only when nobody
holds the lock (`RecordKeeps`).  Afterwards the answer stays true although the job moves
on, because rows are only added, and only beyond what was told (`NotIssuedYet`).

**The process.** `Spec` of `ServerProcess` implies the specification of each part
(`ProcessParts`): a step of the process is a step of one part and leaves the others
alone.  So the theorems about the parts hold of the behaviours that `server_process`
checks.

**The key store.** The theorems are about `KeyStoreSpec`, the part of `ServerProcess`
that is the key store.  `KeyStoreKeeps` speaks of what is in memory, which comes from
disk when the store is opened and from disk again when a rotation is over, so the
invariant is one about files.  `PlansUnderWay` says how far an operation has come: it
has a plan, the first n tasks of it are written and the others are still to do.
`NothingBefore` says that nothing that matters is there before `ca.crt`, by which `Open`
decides between generating and loading; without it a second generation could follow a
first one whose CA is known to others.  `DiskFits` and `ListHolds` say of the files what
`KeyStoreKeeps` says of memory, as far as they can be read.  The heart of the proof is
`CutShortKeeps`: wherever a plan is abandoned, what can be read fits, or cannot be
loaded (`GeneratedFits`), or is a rotation between its two files, which `torn` then
records (`RotatedFits`, and `KeysCount` for the new key being a new one).

**The sample loader.** `LoadsConverge` counts rows against the steps of a manifest, so
`SamplesInv` says where rows come from and what a step leaves.  `issueMu` is held from the
lookup of a response to the storing of it (`WorkFits`), so the row of a sample has its
response or is about to get it, and there is one (`IssuedOnce`), unless a stop came in
between, or the response was not found again (`lost`).  Every other row comes from a step
(`RowsFit`, `SeenFits`) and is about the sample's document (`DocsFit`); by this the newest
row of a document tells a rerun whether its update has been taken (`LatestTells`).  What
the rest needs is `Calm`: a plain manifest, in which every observation has a time and no
sample more of them than the query answers, loads that take turns and no response lost.
Then a load that is about to add something has looked, and nobody has added it since
(`TurnsFit`); what a load without a failure has passed is there (`StepsTaken`); and a
complete load has left nothing that another would add, so that what its last step sealed
is all there is (`CompleteIsAll`, `LastIsSealed`).  Rows and steps then correspond one to
one (`RowsMatchSteps`).

**The caches.** `CacheInv` says of the copies what `CachesKeep` says of the answers: none
is newer than what was published (`CopiesAreOld`), memory is a copy of localStorage and
the service worker has a copy of what it has let through (`CopiesAgree`), and as long as
no two fetches cross, copies are the newer the closer to the server (`CopiesInOrder`).

**The pages.** An answer that arrives is put on the page without being compared with what
the page asks by then.  `IssueInv`, `ReadingInv` and `DeskInv` therefore speak of the
question: the call that is under way is about what stands on the page (`CallFits`,
`BookFits`, `LikenessFits`, `QuestionsFit`), either because the page asks nothing else
meanwhile or because the answer that made the
difference is excepted by name (`stale`, `overtaken`, `covered`; section 5 says what is
shown then).  `stale` is taken back by the next question, `overtaken` and `covered` by
the next drop, so what is excepted is a screen and not the rest of a session.  `LastWord`
has the argument for the verdict: the last call is that of the dropped pair as long as it
is under way, and if an earlier one never ends after it, its answer is what stands there.
`Uncovered` has the one for the panels, which have no key and live on under whatever
verdict comes next: what was asked for, recovered and sent while a verdict stands is about
its file, and a verdict that finds none before it finds no panels either.

**The exchange.** `InboxIsTrue` compares a list with the log at the time of the request.
`ExchangeInv` adds what the log cannot contradict later: whoever verified something
verified what the log says had been sent, for the organisation it is noted for
(`LogFits`), nothing is listed that is not in the log (`InboxFits`), and only a panel
that is there waits for the answer to its note (`ListenersFit`).  The heart is
`PendingIsTrue`: what `Federation.jsx` computes from two lists of observations is what
is pending in the log, as long as the limit reaches back to it, and `LogGrows` keeps it for
the time of the request while other clients add to the log.  The limit is on what was
addressed to the organisation up to the answer; `FewerNotes` says that of a shorter log
no more is, so that a limit which takes in all that is there now has taken in all that
was there then (`InboxKeeps`).  The proof needs no order between the two loads of a change of
organisation; it says of each list which organisation it is true of.

TLC checked each of these invariants on the instances of section 3 (those of the pages
on that of `web_pages`, `SamplesInv` on that of `server_process`), and `KeyStoreInv` with
8 keys and 4 starts, before it was proved.  Some conjuncts came from the proofs: they
held on the instance without being stated, but do not follow from the rest.  Of
`BatchInv`, that a request that is not being answered has heard nothing and nobody hears
of more than the batch has items; of `SamplesInv`, that a request about to update or
observe knows its document, and that only steps of a known type are passed.  The proof
also showed that a manifest in which an issue or an observation stands twice must not
count as plain, as the two are one step to a rerun.  Liveness under fairness, and what
`MerkleRoot` computes (a recursion over data), are out of the prover's reach.

## 5. Disagreements between code and documents

Three are runs that TLC finds violated (section 3, findings in `PROJECT.json`).
The following were met while modelling.  They follow from the code by reading
one function or one component, so no run is spent on them; the properties that are
checked are worded so as to hold in spite of them.  Where a definition is named as
violated, TLC finds it so when it is added to the run named with it.

Ledger and labels:

* An INSERT of a cancelled request that the database executes after all
  (`ledger/writer.go:64`) shares its seq with a row that was appended meanwhile, and
  `Verify` (`writer.go:128`) then reports a row nobody altered.  `ledger_late` checks
  what is left; `NoFalseAlarm` is checked without late commits.
* A response is stored after its row, in another transaction
  (`labels.go:134-140`): a stop in between makes the retry append a second row,
  where `api/openapi.yaml:130` promises one.  `OneIssuePerKey` excepts it.
* The idempotency table: an error of `GetIdempotent` counts as a miss and an error
  of `PutIdempotent` is only logged (`labels.go:118`, `:140`), so one key may be
  answered with two rows.  `OneIssuePerKey` is violated by `server_process` as soon
  as its `StoreFaults` is `TRUE`.
* Two upgrades from O that overlap, one to C and then one to S, end in a
  downgrade without a token (`labels.go:632`, `docs/lifecycle-policy.md:36`).
* Destruction ends the key before its row is appended (`labels.go:551-560`): if the
  append fails, the key is gone and the ledger does not say so.  `NoLiveKeyDestroyed` is
  the other half.
* A destroyed document can be revoked, and then destroyed again
  (`labels.go:478`, `:543`); `docs/lifecycle-policy.md:35` and `Issue.jsx:360` call
  destruction irreversible.
* A known docGuid can be issued again with a lower grade, O included, without a
  token (`labels.go:157`); `docs/lifecycle-policy.md:40` knows two ways only.
* A derivative inherits no grade from a destroyed parent, whose last row has an
  empty grade (`labels.go:184-200`), and none from a parent whose issue by a batch
  worker is under way.
* `refreshFingerprint` drops the error of the delete (`labels.go:351`), and the
  role `lm_app` may not delete (`migrations/0002_app_role.up.sql:17`): under
  that role the old fingerprint stays beside the new one.  Two reindex requests
  that overlap leave both of theirs.
* Without a treaty, `translatedGrade` repeats the issuer's grade
  (`verify.go:330`); `docs/treaty-policy.md:74` has it empty.  The inbox notes it
  (`Federation.jsx:108`), so that a stamp reads as a translation under a caption that
  says there is no treaty, and some branches of `Stamps.jsx:187` are never taken.
* The row of a revocation or a destruction repeats no parent hash (`labels.go:482`,
  `:560`), and `Query` walks up from the newest row (`lineage.go:56`, `:85`): once one of
  them is appended, a derivative shows no ancestors.  The flag `revoked` of a node is set
  for the document asked about only, as the walks add issuances (`lineage.go:94`, `:117`).
* A treaty whose map takes two grades to one has two inverses, of which a Go map
  yields either (`static.go:42`).  With two treaties in force between the same two
  organisations, the first that has an answer gives it, which need not be the one
  that translated the other way; `IsReversible` excepts these lists.
* A label superseded by a new issue is answered with its old grade; only a newer
  regrade is looked through (`verify.go:313`).

The server as a process:

* A status is written to its client under the registry's read lock
  (`batch.go:104-106`), and `lmserver` sets no write timeout (`main.go:139-143`): a
  client that does not read stalls every worker, every other status and every new
  batch.  A job is gone after a restart while its rows stay; a batch that is posted
  again appends every row again.
* A rotation that is cut short between `label.key` and `label.crt` leaves a store
  that opens with a pair that does not belong together (`softhsm.go:118`, `249-253`);
  a generation cut short after `ca.crt`, or a revocation list cut short, leaves one
  that never opens again (`softhsm.go:71`).  A revocation that could not be written
  is in force until the next restart.  Nothing in production calls the rotation that
  `keys.go:24` announces every 90 days.
* `samples.go:29-31` says that steps taken before are skipped.  Two regrades of one
  sample are repeated by every load; a revocation that failed is skipped once the
  sample is destroyed; a regrade before a revocation makes later loads report a
  failure; a checkpoint in the middle seals again; overlapping loads double updates
  and observations; a stop between a row and its response doubles an issue, and so does
  a later load whose query for the response fails (`labels.go:118`), without reporting a
  failure.  An observation without a time never matches (`samples.go:337`) and is stored
  by every load (`RepeatsAreSkipped`, violated in `server_process`).  More observations
  of a sample than the 1000 that the query answers are stored again.

The web client:

* Documents promise verification of signatures without a server
  (`deploy/offline-bundle.md:38-40`, `api.js:98-99`, `vite.config.js:6-7`).  The
  trust list is fetched only by the key page (not kept), by the structure view and
  by the fallback itself (`Verify.jsx:173`): a browser that was online but showed
  none of these calls every genuine label `untrusted_ca` when it is offline.  The
  service worker may store an older answer over a newer one.
* `RestoreLabel` and the scanner report a network failure as "원장에 라벨이 없습니다"
  and "카메라 접근 실패" (`Verify.jsx:272`, `:244`), against `api.js:1-3`.
* The inbox asks for the newest 500 observations addressed to the organisation
  (`Federation.jsx:85`, `memory.go:296-298`): older documents that nobody has verified
  are not listed (`InboxIsWhole`, violated in `web_pages`).
* Two loads of the inbox around a change of the organisation
  (`Federation.jsx:80-94`) can leave the items of one organisation under the name
  of the other; verifying one then notes the wrong receiver, and the item stays.
  Line 87 says that verified items go.  A document sent again is taken off by a verification
  that began before.  One busy id serves all items, so that one can be verified
  twice.
* Of two drops, the one that is answered last is shown, whichever it was
  (`Verify.jsx:24-40`), and a scanned code is shown beside the dropped document: an
  unregistered verdict on one file opens the panel of inheritance for another
  (`RehydrateIsForTheUnknown`, violated in `web_pages`).  The panels under a verdict have
  no key (`Verify.jsx:66-83`): a recovered label (`RecoveredLabelFits`, violated in
  `web_pages`), a rehydration and a note of sending may stand under another verdict, and
  two rehydrations of one content derive it twice. The section of the issue page keeps
  token and reason after a cancellation and sends them for the next document.
* `AttackDemo.jsx:80` marks the unattacked file as passing whatever the verdict; a
  turned bit in an empty body or in bytes that are not UTF-8 may change nothing and
  is then counted as not caught.
* The views, about documents issued again, closed twice, or older than the rows
  loaded: the lane keeps "revoked" and the old grade after a new issue
  (`LaneChart.jsx:310-313`), the stamps open the band again but draw the first end;
  an arrow may begin before its lane; a window that begins with a regrade shows
  "S→S".  `FollowsServer` speaks of documents issued once.
* `PassportMap.jsx:131` names parties in alphabetical order and does not invert the
  map of the treaty, and a pair with several treaties shows the latest end where
  `Stamps.jsx:93` takes the first; treaties that have not begun look valid; names are
  compared as written, by the server in upper case.  The hatching of a forwarded
  document goes by sender and receiver, its verdict by issuer and verifier.
* `Taxonomy.jsx:85` says that all of a class have one grade when some have none;
  keys of tag pairs are split at blanks that tags may contain (`:173`); a third
  stamp within 52 pixels covers the first; `timeTicks` promises at most ten ticks
  and draws eleven, or one a year for any number of years.
* The ledger page shows the rows that arrive last, which may be those of a limit chosen
  before or of the time before the samples; loading the samples loads rows with the limit
  of the click (`Ledger.jsx:35-67`).  A comparison is shown when it arrives, though its
  files may have been replaced meanwhile (`Similarity.jsx:24-43`).  `AnswersFit` excepts
  both.

Fingerprints: a comment speaks of 16 bands of 8, the code has 32 of 4
(`fingerprint.go:9`, `:34`); another of one blank that is kept, and none is
(`:107`, `:47`); blank texts are alike by estimate and unlike by Jaccard; the two
implementations lower a final sigma and a dotted I differently, against
`fingerprint.js:1-7`; a regrade repeats neither fingerprint nor file name, so that
identify loses them (`identify.go:91-98`).

About files and labels; the constants named turn `file_life` into a run that
violates the property named (checked alone).

* *Reissue.* The clients derive the key of an issue from the content hash
  (`cmd/lm/main.go:274`), so an issue repeated with `--force`, with another grade or
  after a revocation is answered with the first label, although the flag is
  announced as "재발급" (`main.go:328`).
* *Unsigned, then signed.* After `lm issue --no-sign`, `lm issue --embed` receives
  the unsigned answer under the same key and appends a trailer of zero bytes, which
  `SplitTrailer` does not recognise (`trailer.go:25`): the hash of the file changes,
  although `docs/label-profile.md:86` leaves the original bytes alone.
  `Unsigned = TRUE`, `HashKept`.
* *Front matter.* A Markdown file whose first line is `---` with no closing fence
  takes a label that is never found again; one with an empty section loses it
  (`text.go:94`, `:63`).  In both cases the hash changes; `attach_test.go:113` (A4)
  states that it does not.  A text such as `<<Fence, Word(1)>>`, `HashKept`.
* *Byte order marks.* `stripLM` looks for the first fence before `NormalizeText`
  drops the mark (`text.go:36`, `normalize.go:20`).  A labelled Markdown file saved
  with a mark has another hash and no label for the command line, and both for the
  web client, whose decoder drops the mark first.  `Marks = TRUE`, `ClientsAgree`.
* *Old trailers on archives* are taken off by the web client but not by
  `zipAttacher`; `docs/label-profile.md:83` calls the trailer independent of the
  format.  `LegacyKinds` with `"ooxml"`, `ClientsAgree`.
* *Text hashes.* The command line drops fences from the text and keeps a byte order
  mark, the web client does the reverse (`extract.go:48`, `attach.js:148`, which
  calls itself a mirror); it has no text hash for archives and PDF.  A file is found
  by text only by the client that registered it.
* *Outages during a restore.* `recoverLabel` answers an error like an absence
  (`restore.go:205`), so a rehydration derives a new document from the very document
  whose whose copy it is.  `Outages = TRUE`, `NotItsOwnParent`.  It does so too
  for a document registered without a signature, whose label it cannot hand out.
  `Unsigned = TRUE`, `NotItsOwnParent`.
* *Declared parents.* `lm issue X --parent X` records a document derived from its own
  content: neither the command (`main.go:217-234`) nor `labels.go:173-206` compares the
  two hashes.  `NotItsOwnParent` speaks of the parents that restore finds, and a parent
  declared by the owner is the owner's.
* *Stale labels inside.* `lm scan --issue` writes a sidecar beside a file that has a
  label inside, and `lm verify` reads the label inside (`main.go:720`).

## 6. Only model-checked, and not modelled

Only model-checked:

* liveness under fairness (`EveryCallReturns`, `Answered`, `JobsEnd`, `PagesSettle`)
  and the tree hash of `MerkleRoot` (`RootIsRFC6962`), a recursion over data: out of the
  prover's reach;
* what `algorithms` checks of `Verdict`, `OfflineVerdict`, `Lineage`, `Likeness`,
  `Translation`, `Passports`, `Journeys` and the views: functions evaluated for every
  input within their bounds, in a module that joins them all and in which the walks of
  `Lineage` and the tree of `Merkle` are recursive operators;
* the properties of `LabelledFile` (`IssuedLabelFits`, `OneLabelInside`, `ClientsAgree`,
  `NotItsOwnParent`, `HashKept`), which rest on what `Attachment` computes for each
  format of a file.

Not modelled: byte formats (ASN.1 labels and CMS, ZIP, the extraction of text from
office files and PDF), the hash functions and the LSH bands as a filter, the
external `docsim` program, content encryption, configuration and packaging; of the
pages, layout that is geometry only (the squarified tree map, arcs of the map),
colours and wording, and the pages that show one request as it comes (help, keys,
administration, lineage, structure); commands that only print or forward one call,
and the SDK; the slide scripts.  Two processes on one key store or one ledger, which
the code does not rule out, are not modelled: `Writer.mu` and the key store's
memory are per process.

## 7. Plan

1. *Done*: every module of section 2, and the theorems of section 4.
2. A file in two hands: a command that reads the file before the call and writes it
   after, beside an editor and a second command (`LabelledFile` with split steps).
3. `Tampering`: an adversary that alters a stored field; which alterations
   `Verify` and a checkpoint detect, given the fields `RowHash` covers.
4. Two processes on one ledger: what the unique index on seq makes of two writers.
5. Proofs: `IssuedLabelFits` and `OneLabelInside` of `LabelledFile`.
