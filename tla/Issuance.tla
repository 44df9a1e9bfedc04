------------------------------ MODULE Issuance ------------------------------
(***************************************************************************)
(* POST /v1/labels with its Idempotency-Key, and POST /v1/reindex:         *)
(* handleIssue, refreshFingerprint and handleReindex in                    *)
(* internal/server/labels.go over the tables idempotency and fingerprint.  *)
(*                                                                         *)
(* handleIssue holds issueMu from the lookup of the key to the answer;     *)
(* handleReindex holds nothing.  What issueLabel decides is in module      *)
(* LabelLifecycle; here it appends one row or fails.                       *)
(*                                                                         *)
(* A client may hang up, which cancels the context of its queries; the     *)
(* store may fail; the process may stop.  The three are switched on apart  *)
(* because they break different promises.                                  *)
(***************************************************************************)
EXTENDS Integers, Sequences, FiniteSetsExt

CONSTANTS
    Issues,         \* requests to POST /v1/labels, retries included
    Reindexes,      \* requests to POST /v1/reindex
    Keys, KeyOf,    \* the Idempotency-Key of each request to /v1/labels
    Docs, DocOf,    \* the document each request is about
    Fingerprinted,  \* the requests that carry a fingerprint
    Bands,          \* LSH buckets of a fingerprint: bands 1..Bands
    StoreFaults,    \* may a query fail?
    Hangups,        \* may a client go away before it is answered?
    Crashes,        \* may the process stop?
    NoOne           \* the owner of the unlocked issueMu

Requests == Issues \union Reindexes

ASSUME IssuanceAssumption ==
    /\ Issues \intersect Reindexes = {}
    /\ KeyOf \in [Issues -> Keys]
    /\ DocOf \in [Requests -> Docs]
    /\ Reindexes \subseteq Fingerprinted /\ Fingerprinted \subseteq Requests
    /\ Bands \in Nat \ {0}
    /\ {StoreFaults, Hangups, Crashes} \subseteq BOOLEAN
    /\ NoOne \notin Requests

VARIABLES
    rows,      \* the ledger: the request that appended each row
    idem,      \* table idempotency: the row of the response kept, 0 for none
    index,     \* table fingerprint: document, fingerprint (its request), band
    issueMu,   \* owner of Server.issueMu
    pc,        \* how far each request has got
    got,       \* the row a request will be answered with
    band,      \* the next band a request inserts
    gone       \* the requests whose client has hung up

issuanceVars == <<rows, idem, index, issueMu, pc, got, band, gone>>

Ended == {"created", "refused", "lost"}

\* A query of a request may fail; all of them do once its client has gone.
Faulty(r) == StoreFaults \/ r \in gone

-----------------------------------------------------------------------------
(* handleIssue *)

\* Mutant: requests with one key do not wait for each other.
LockShared(i) ==
    /\ pc[i] = "new"
    /\ issueMu' = i
    /\ pc' = [pc EXCEPT ![i] = "locked"]
    /\ UNCHANGED <<rows, idem, index, got, band, gone>>

Lock(i) ==
    /\ pc[i] = "new"
    /\ issueMu = NoOne
    /\ issueMu' = i
    /\ pc' = [pc EXCEPT ![i] = "locked"]
    /\ UNCHANGED <<rows, idem, index, got, band, gone>>

\* The first step after the row is known: the fingerprint if there is one.
AfterRow(i, next) == IF i \in Fingerprinted THEN "deleting" ELSE next

\* GetIdempotent
Replay(i) ==
    /\ i \notin gone
    /\ pc[i] = "locked"
    /\ idem[KeyOf[i]] # 0
    /\ got' = [got EXCEPT ![i] = idem[KeyOf[i]]]
    /\ pc' = [pc EXCEPT ![i] = AfterRow(i, "answering")]
    /\ UNCHANGED <<rows, idem, index, issueMu, band, gone>>

\* No response is kept, or the lookup fails: an error counts as a miss.
Miss(i) ==
    /\ pc[i] = "locked"
    /\ idem[KeyOf[i]] = 0 \/ Faulty(i)
    /\ pc' = [pc EXCEPT ![i] = "missed"]
    /\ UNCHANGED <<rows, idem, index, issueMu, got, band, gone>>

\* issueLabel
AppendRow(i) ==
    /\ i \notin gone
    /\ pc[i] = "missed"
    /\ rows' = Append(rows, i)
    /\ got' = [got EXCEPT ![i] = Len(rows) + 1]
    /\ pc' = [pc EXCEPT ![i] = AfterRow(i, "storing")]
    /\ UNCHANGED <<idem, index, issueMu, band, gone>>

Unlock(r) == issueMu' = IF issueMu = r THEN NoOne ELSE issueMu

\* The request is invalid, or the append fails.
RefuseIssue(i) ==
    /\ pc[i] = "missed"
    /\ pc' = [pc EXCEPT ![i] = "refused"]
    /\ Unlock(i)
    /\ UNCHANGED <<rows, idem, index, got, band, gone>>

\* The client hangs up during the INSERT, which the database executes.
AppendUnseen(i) ==
    /\ Hangups
    /\ i \notin gone
    /\ pc[i] = "missed"
    /\ rows' = Append(rows, i)
    /\ gone' = gone \union {i}
    /\ pc' = [pc EXCEPT ![i] = "refused"]
    /\ Unlock(i)
    /\ UNCHANGED <<idem, index, got, band>>

\* PutIdempotent, ON CONFLICT DO NOTHING
Store(i) ==
    /\ i \notin gone
    /\ pc[i] = "storing"
    /\ idem' = [idem EXCEPT ![KeyOf[i]] = IF @ = 0 THEN got[i] ELSE @]
    /\ pc' = [pc EXCEPT ![i] = "answering"]
    /\ UNCHANGED <<rows, index, issueMu, got, band, gone>>

\* The error is logged and the answer is 201 all the same.
StoreFails(i) ==
    /\ Faulty(i)
    /\ pc[i] = "storing"
    /\ pc' = [pc EXCEPT ![i] = "answering"]
    /\ UNCHANGED <<rows, idem, index, issueMu, got, band, gone>>

(* handleReindex *)

LookUp(x) ==
    /\ x \notin gone
    /\ pc[x] = "new"
    /\ \E k \in DOMAIN rows : DocOf[rows[k]] = DocOf[x]
    /\ pc' = [pc EXCEPT ![x] = "deleting"]
    /\ UNCHANGED <<rows, idem, index, issueMu, got, band, gone>>

\* The document is not in the ledger, or the query fails.
RefuseReindex(x) ==
    /\ pc[x] = "new"
    /\ Faulty(x) \/ \A k \in DOMAIN rows : DocOf[rows[k]] # DocOf[x]
    /\ pc' = [pc EXCEPT ![x] = "refused"]
    /\ UNCHANGED <<rows, idem, index, issueMu, got, band, gone>>

(* refreshFingerprint *)

\* The document of the response, kept or new.
Target(r) == IF r \in Reindexes THEN DocOf[r] ELSE DocOf[rows[got[r]]]

Entries(d) == {e \in index : e.doc = d}

\* Mutant: the old fingerprint stays.
DeleteNothing(r) ==
    /\ r \notin gone
    /\ pc[r] = "deleting"
    /\ pc' = [pc EXCEPT ![r] = "inserting"]
    /\ UNCHANGED <<rows, idem, index, issueMu, got, band, gone>>

Delete(r) ==
    /\ r \notin gone
    /\ pc[r] = "deleting"
    /\ index' = index \ Entries(Target(r))
    /\ pc' = [pc EXCEPT ![r] = "inserting"]
    /\ UNCHANGED <<rows, idem, issueMu, got, band, gone>>

\* The error is dropped.
DeleteFails(r) ==
    /\ Faulty(r)
    /\ pc[r] = "deleting"
    /\ pc' = [pc EXCEPT ![r] = "inserting"]
    /\ UNCHANGED <<rows, idem, index, issueMu, got, band, gone>>

\* A replay and a reindex are answered next; a new response is stored first.
AfterIndex(r) ==
    IF r \in Issues /\ rows[got[r]] = r THEN "storing" ELSE "answering"

InsertBand(r) ==
    /\ r \notin gone
    /\ pc[r] = "inserting"
    /\ index' = index \union {[doc |-> Target(r), fp |-> r, band |-> band[r]]}
    /\ band' = [band EXCEPT ![r] = @ + 1]
    /\ pc' = [pc EXCEPT ![r] = IF band[r] = Bands THEN AfterIndex(r) ELSE @]
    /\ UNCHANGED <<rows, idem, issueMu, got, gone>>

\* The error is logged; the bands inserted so far stay.
InsertFails(r) ==
    /\ Faulty(r)
    /\ pc[r] = "inserting"
    /\ pc' = [pc EXCEPT ![r] = AfterIndex(r)]
    /\ UNCHANGED <<rows, idem, index, issueMu, got, band, gone>>

(* The answer, the client and the process *)

Respond(r) ==
    /\ pc[r] = "answering"
    /\ pc' = [pc EXCEPT ![r] = IF r \in gone THEN "lost" ELSE "created"]
    /\ Unlock(r)
    /\ UNCHANGED <<rows, idem, index, got, band, gone>>

\* The context is cancelled: what the query under way did is done, and every
\* later query fails.
Hangup(r) ==
    /\ Hangups
    /\ r \notin gone
    /\ pc[r] \notin Ended \union {"new"}
    /\ gone' = gone \union {r}
    /\ UNCHANGED <<rows, idem, index, issueMu, pc, got, band>>

\* The process restarts: the tables stay, every request under way is cut off.
Crash ==
    /\ Crashes
    /\ \E r \in Requests : pc[r] \notin Ended \union {"new"}
    /\ pc' = [r \in Requests |-> IF pc[r] \in Ended \union {"new"} THEN pc[r] ELSE "lost"]
    /\ issueMu' = NoOne
    /\ UNCHANGED <<rows, idem, index, got, band, gone>>

-----------------------------------------------------------------------------
IssuanceInit ==
    /\ rows = << >>
    /\ idem = [k \in Keys |-> 0]
    /\ index = {}
    /\ issueMu = NoOne
    /\ pc = [r \in Requests |-> "new"]
    /\ got = [i \in Issues |-> 0]
    /\ band = [r \in Requests |-> 1]
    /\ gone = {}

Issue(i) ==
    \/ Lock(i) \/ Replay(i) \/ Miss(i) \/ AppendRow(i) \/ RefuseIssue(i)
    \/ AppendUnseen(i) \/ Store(i) \/ StoreFails(i)

Reindex(x) == LookUp(x) \/ RefuseReindex(x)

Refresh(r) == Delete(r) \/ DeleteFails(r) \/ InsertBand(r) \/ InsertFails(r)

IssuanceNext ==
    \/ \E i \in Issues : Issue(i)
    \/ \E x \in Reindexes : Reindex(x)
    \/ \E r \in Requests : Refresh(r) \/ Respond(r) \/ Hangup(r)
    \/ Crash

IssuanceSpec == IssuanceInit /\ [][IssuanceNext]_issuanceVars

-----------------------------------------------------------------------------
(* Properties *)

\* Two clients that are answered under one key are answered the same, and with a
\* row that was appended under that key.
SameAnswer ==
    \A i \in Issues :
        pc[i] = "created" =>
            /\ KeyOf[rows[got[i]]] = KeyOf[i]
            /\ \A j \in Issues : pc[j] = "created" /\ KeyOf[i] = KeyOf[j] => got[i] = got[j]

CutOff(r) == r \in gone \/ pc[r] = "lost"

\* However often a request is sent under one key, the ledger has one row for it,
\* unless the request that appended the first was cut off: the response is stored
\* after the row, and a stop or a cancelled query comes in between.
OneRowPerKey ==
    \A j, k \in DOMAIN rows :
        j < k /\ KeyOf[rows[j]] = KeyOf[rows[k]] => CutOff(rows[j])

\* T12, the same key twice (labels.go:113-140): one row and one response.
OneIssuePerKey == SameAnswer /\ OneRowPerKey

\* A request is replacing the fingerprint of d, or was cut off and may have
\* left it half replaced.
Unsettled(r, d) ==
    /\ pc[r] \in {"deleting", "inserting"} \/ CutOff(r)
    /\ r \in Reindexes \/ got[r] # 0
    /\ Target(r) = d

\* When a request with a fingerprint has been answered, and nobody is at work on
\* its document or was cut off, the document can be found by every band of one
\* fingerprint, although a reindex takes no lock beside the issues; and two issues
\* leave two fingerprints of one document only if a request for it was cut off.
IndexIsComplete ==
    /\ \A r \in Fingerprinted :
          pc[r] = "created" /\ (\A s \in Requests : ~Unsettled(s, Target(r)))
          => \E f \in Fingerprinted :
                \A b \in 1..Bands : [doc |-> Target(r), fp |-> f, band |-> b] \in index
    /\ \A e, f \in index :
          /\ e.doc = f.doc
          /\ {e.fp, f.fp} \subseteq Issues
          /\ \A r \in Issues : ~Unsettled(r, e.doc)
          => e.fp = f.fp

-----------------------------------------------------------------------------
(* The strengthening that makes the properties above inductive, in a store *)
(* that does not fail by itself.                                           *)

Working == {"locked", "missed", "deleting", "inserting", "storing", "answering"}

IssuanceTypes ==
    /\ rows \in Seq(Issues)
    /\ idem \in [Keys -> Nat]
    /\ index \subseteq [doc : Docs, fp : Fingerprinted, band : 1..Bands]
    /\ issueMu \in Issues \union {NoOne}
    /\ pc \in [Requests -> Working \union Ended \union {"new"}]
    /\ got \in [Issues -> Nat]
    /\ band \in [Requests -> Nat]
    /\ gone \subseteq Requests

\* The mutex is held by the one issue that is under way; its row is one of its key,
\* and its own if it is still to be stored.
HandlerFits(i) ==
    /\ pc[i] \in Working => issueMu = i
    /\ got[i] # 0 => got[i] \in DOMAIN rows /\ KeyOf[rows[got[i]]] = KeyOf[i]
    /\ pc[i] \in {"new", "locked", "missed"} =>
          got[i] = 0 /\ \A k \in DOMAIN rows : rows[k] # i
    /\ pc[i] \in {"deleting", "inserting", "storing", "answering", "created"} => got[i] # 0
    /\ pc[i] = "storing" => rows[got[i]] = i
    /\ pc[i] = "created" => i \notin gone

\* What the table holds under the key of an issue whose client is still there:
\* nothing until it stores its own row, and then the row it is answered with.
KeyFits(i) ==
    i \notin gone =>
        /\ \/ pc[i] = "missed"
           \/ pc[i] \in {"deleting", "inserting", "storing"} /\ rows[got[i]] = i
           => idem[KeyOf[i]] = 0
        /\ \/ pc[i] \in {"answering", "created"}
           \/ pc[i] \in {"deleting", "inserting"} /\ rows[got[i]] # i
           => idem[KeyOf[i]] = got[i]

\* A row is kept under its key, or is about to be, or its request was cut off.
RowKept(j) ==
    LET i == rows[j]
    IN  \/ CutOff(i)
        \/ idem[KeyOf[i]] = j
        \/ pc[i] \in {"deleting", "inserting", "storing"} /\ got[i] = j

IdemFits == \A k \in Keys : idem[k] # 0 => idem[k] \in DOMAIN rows /\ KeyOf[rows[idem[k]]] = k

RefreshFits(r) ==
    /\ pc[r] \in {"new", "locked", "missed", "deleting"} => band[r] = 1
    /\ pc[r] = "inserting" => band[r] \in 1..Bands
    /\ pc[r] \in {"deleting", "inserting"} => r \in Fingerprinted

KeyInv ==
    /\ IssuanceTypes
    /\ \A i \in Issues : HandlerFits(i) /\ KeyFits(i)
    /\ \A r \in Requests : RefreshFits(r)
    /\ IdemFits
    /\ \A j \in DOMAIN rows : RowKept(j)
    /\ OneRowPerKey

\* A request that has come to the fingerprint of d.
About(r, d) == (r \in Reindexes \/ got[r] # 0) /\ Target(r) = d

HasAll(f, d, n) == \A b \in 1..n : [doc |-> d, fp |-> f, band |-> b] \in index

\* Once a request has come past the deletion, either a fingerprint of the document
\* is there in full, or the request that was the last to delete has inserted all
\* bands so far, or some request was cut off.
FingerprintGrows(d) ==
    (\E r \in Fingerprinted :
        pc[r] \in {"inserting", "storing", "answering", "created"} /\ About(r, d))
    => \/ \E f \in Fingerprinted : HasAll(f, d, Bands)
       \/ \E s \in Requests : pc[s] = "inserting" /\ About(s, d) /\ HasAll(s, d, band[s] - 1)
       \/ \E s \in Requests : CutOff(s) /\ About(s, d)

\* Of issues a document has one fingerprint, that of the issue at work if it has
\* deleted the former, unless an issue was cut off.
OneFingerprint(d) ==
    \/ \E s \in Issues : CutOff(s) /\ About(s, d)
    \/ /\ \A e, f \in Entries(d) : {e.fp, f.fp} \subseteq Issues => e.fp = f.fp
       /\ \A s \in Issues : pc[s] = "inserting" /\ About(s, d) =>
             \A e \in Entries(d) : e.fp \in Issues => e.fp = s

IndexInv == \A d \in Docs : FingerprintGrows(d) /\ OneFingerprint(d)
=============================================================================
