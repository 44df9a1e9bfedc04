---------------------------- MODULE IssuanceProofs ----------------------------
(***************************************************************************)
(* Theorems about Issuance: one row and one answer per Idempotency-Key and *)
(* one whole fingerprint per document, for any number of requests, retries *)
(* and reindexes, whoever hangs up and however often the process stops.    *)
(***************************************************************************)
EXTENDS Issuance, SequenceTheorems, TLAPS

-----------------------------------------------------------------------------
(* Steps of a request *)

\* The rows of the ledger, by their numbers.
LEMMA RowTypes ==
  ASSUME rows \in Seq(Issues)
  PROVE  /\ Len(rows) \in Nat /\ DOMAIN rows = 1 .. Len(rows)
         /\ \A k \in DOMAIN rows : rows[k] \in Issues
<1>1. Len(rows) \in Nat /\ DOMAIN rows = 1 .. Len(rows)
  BY LenProperties
<1>2. QED
  BY <1>1, ElementOfSeq

\* One more row.
LEMMA RowsAppended ==
  ASSUME rows \in Seq(Issues), NEW i \in Issues, rows' = Append(rows, i)
  PROVE  /\ rows' \in Seq(Issues)
         /\ DOMAIN rows' = DOMAIN rows \union {Len(rows) + 1}
         /\ \A k \in DOMAIN rows : rows'[k] = rows[k] /\ k < Len(rows) + 1
         /\ rows'[Len(rows) + 1] = i /\ Len(rows) + 1 \in Nat \ {0}
<1>1. Len(rows) \in Nat /\ DOMAIN rows = 1 .. Len(rows)
  BY RowTypes
<1>2. /\ rows' \in Seq(Issues) /\ Len(rows') = Len(rows) + 1
      /\ \A k \in 1 .. Len(rows) : rows'[k] = rows[k]
      /\ rows'[Len(rows) + 1] = i
  BY AppendProperties
<1>3. DOMAIN rows' = 1 .. (Len(rows) + 1)
  BY <1>2, LenProperties
<1>4. QED
  BY <1>1, <1>2, <1>3

-----------------------------------------------------------------------------
(* The table of responses *)

\* Whoever is about to append a row under a key finds it unused, or its requests
\* cut off.
LEMMA OlderRowsCutOff ==
  ASSUME IssuanceAssumption, KeyInv, NEW i \in Issues, pc[i] = "missed", i \notin gone,
         NEW j \in DOMAIN rows, KeyOf[rows[j]] = KeyOf[i]
  PROVE  CutOff(rows[j])
<1>1. rows[j] \in Issues /\ rows[j] # i /\ j # 0
  BY RowTypes DEF KeyInv, IssuanceTypes, HandlerFits
<1>2. idem[KeyOf[i]] = 0 /\ issueMu = i
  BY DEF KeyInv, KeyFits, HandlerFits, Working
<1>3. pc[rows[j]] \notin Working
  BY <1>1, <1>2 DEF KeyInv, HandlerFits
<1>4. RowKept(j)
  BY DEF KeyInv
<1>5. QED
  BY <1>1, <1>2, <1>3, <1>4 DEF RowKept, Working

\* POST /v1/labels appends its row.
LEMMA KeyAppends ==
  ASSUME IssuanceAssumption, KeyInv, NEW i \in Issues, AppendRow(i)
  PROVE  KeyInv'
<1>1. /\ IssuanceTypes /\ HandlerFits(i) /\ KeyFits(i) /\ RefreshFits(i)
      /\ i \in Requests /\ KeyOf[i] \in Keys
  BY DEF KeyInv, IssuanceAssumption, Requests
<1>2. /\ i \notin gone /\ pc[i] = "missed" /\ issueMu = i /\ idem[KeyOf[i]] = 0
      /\ got[i] = 0 /\ band[i] = 1
      /\ \A k \in DOMAIN rows : rows[k] # i
  BY <1>1 DEF AppendRow, HandlerFits, KeyFits, Working, RefreshFits
<1>3. PICK n : n = Len(rows) + 1
  OBVIOUS
<1>4. /\ rows' \in Seq(Issues)
      /\ DOMAIN rows' = DOMAIN rows \union {n}
      /\ \A k \in DOMAIN rows : rows'[k] = rows[k] /\ k < n /\ rows[k] \in Issues
      /\ rows'[n] = i /\ n \in Nat \ {0}
  BY <1>1, <1>3, RowsAppended, RowTypes DEF AppendRow, IssuanceTypes
<1>5. PICK p \in {"deleting", "storing"} : p = AfterRow(i, "storing")
  BY DEF AfterRow
<1>6. /\ got' = [got EXCEPT ![i] = n]
      /\ pc' = [pc EXCEPT ![i] = p]
      /\ UNCHANGED <<idem, index, issueMu, band, gone>>
  BY <1>3, <1>5 DEF AppendRow
<1>7. /\ \A r \in Requests : pc'[r] = IF r = i THEN p ELSE pc[r]
      /\ \A r \in Issues : got'[r] = IF r = i THEN n ELSE got[r]
  BY <1>1, <1>6 DEF IssuanceTypes
<1>8. IssuanceTypes'
  BY <1>1, <1>4, <1>6 DEF IssuanceTypes, Working
<1>9. ASSUME NEW j \in Issues PROVE HandlerFits(j)' /\ KeyFits(j)'
  <2>1. j \in Requests /\ HandlerFits(j) /\ KeyFits(j)
    BY DEF KeyInv, Requests
  <2>2. HandlerFits(j)'
    BY <1>2, <1>4, <1>6, <1>7, <2>1 DEF HandlerFits, Working
  <2>3. KeyFits(j)'
    BY <1>2, <1>4, <1>6, <1>7, <2>1 DEF HandlerFits, KeyFits
  <2>4. QED
    BY <2>2, <2>3
<1>10. ASSUME NEW r \in Requests PROVE RefreshFits(r)'
  <2>1. p = "deleting" => i \in Fingerprinted
    BY <1>5 DEF AfterRow
  <2>2. QED
    BY <1>2, <1>6, <1>7, <2>1 DEF KeyInv, RefreshFits
<1>11. IdemFits'
  BY <1>4, <1>6 DEF KeyInv, IdemFits
<1>12. ASSUME NEW j \in DOMAIN rows' PROVE RowKept(j)'
  <2>1. CASE j = n
    BY <1>1, <1>4, <1>7, <2>1 DEF RowKept
  <2>2. CASE j \in DOMAIN rows
    <3>1. RowKept(j) /\ rows[j] # i /\ rows[j] \in Requests
      BY <1>2, <1>4, <2>2 DEF KeyInv, Requests
    <3>2. QED
      BY <1>4, <1>6, <1>7, <2>2, <3>1 DEF RowKept, CutOff
  <2>3. QED
    BY <1>4, <2>1, <2>2
<1>13. OneRowPerKey'
  <2> SUFFICES ASSUME NEW j \in DOMAIN rows', NEW k \in DOMAIN rows', j < k,
                      KeyOf[rows'[j]] = KeyOf[rows'[k]]
               PROVE  CutOff(rows[j])'
    BY DEF OneRowPerKey
  <2>1. j \in DOMAIN rows
    BY <1>1, <1>4, RowTypes DEF IssuanceTypes
  <2>2. rows[j] # i /\ rows[j] \in Requests /\ rows'[j] = rows[j]
    BY <1>2, <1>4, <2>1 DEF Requests
  <2>3. CutOff(rows[j])
    <3>1. CASE k \in DOMAIN rows
      BY <1>4, <2>1, <3>1 DEF KeyInv, OneRowPerKey
    <3>2. CASE k = n
      BY <1>2, <1>4, <2>1, <2>2, <3>2, OlderRowsCutOff
    <3>3. QED
      BY <1>4, <3>1, <3>2
  <2>4. QED
    BY <1>6, <1>7, <2>2, <2>3 DEF CutOff
<1>14. QED
  BY <1>8, <1>9, <1>10, <1>11, <1>12, <1>13 DEF KeyInv

\* A request takes a step in which the ledger and the table stay as they are.
LEMMA KeyAdvances ==
  ASSUME IssuanceAssumption, KeyInv, IssuanceTypes', NEW r \in Requests, rows' = rows, idem' = idem,
         \A q \in Requests \ {r} : /\ pc'[q] = pc[q] /\ band'[q] = band[q]
                                   /\ q \in gone' <=> q \in gone,
         \A q \in Issues \ {r} : got'[q] = got[q],
         \/ issueMu' = issueMu
         \/ issueMu = NoOne /\ issueMu' = r
         \/ issueMu = r /\ issueMu' = NoOne,
         r \in Issues => HandlerFits(r)' /\ KeyFits(r)', RefreshFits(r)',
         CutOff(r) => CutOff(r)',
         \A j \in DOMAIN rows : rows[j] = r /\ RowKept(j) => RowKept(j)'
  PROVE  KeyInv'
<1>1. ASSUME NEW j \in Issues PROVE HandlerFits(j)' /\ KeyFits(j)'
  <2>1. CASE j # r
    <3>1. j \in Requests /\ HandlerFits(j) /\ KeyFits(j)
      BY DEF KeyInv, Requests
    <3>2. issueMu = j => issueMu' = j
      BY <2>1, <3>1 DEF IssuanceAssumption
    <3>3. HandlerFits(j)'
      BY <2>1, <3>1, <3>2 DEF HandlerFits
    <3>4. KeyFits(j)'
      BY <2>1, <3>1 DEF KeyFits
    <3>5. QED
      BY <3>3, <3>4
  <2>2. QED
    BY <2>1
<1>2. ASSUME NEW q \in Requests PROVE RefreshFits(q)'
  <2>1. CASE q # r
    BY <2>1 DEF KeyInv, RefreshFits
  <2>2. QED
    BY <2>1
<1>3. \A k \in DOMAIN rows : rows[k] \in Issues /\ rows[k] \in Requests
  BY RowTypes DEF KeyInv, IssuanceTypes, Requests
<1>4. ASSUME NEW j \in DOMAIN rows' PROVE RowKept(j)'
  <2>1. CASE rows[j] # r
    BY <1>3, <2>1 DEF KeyInv, RowKept, CutOff
  <2>2. QED
    BY <2>1 DEF KeyInv
<1>5. OneRowPerKey'
  <2>1. ASSUME NEW q \in Requests, CutOff(q) PROVE CutOff(q)'
    BY <2>1 DEF CutOff
  <2>2. QED
    BY <1>3, <2>1 DEF KeyInv, OneRowPerKey
<1>6. IdemFits'
  BY DEF KeyInv, IdemFits
<1>7. QED
  BY <1>1, <1>2, <1>4, <1>5, <1>6 DEF KeyInv

\* What is known of a request before its step.
LEMMA RequestFits ==
  ASSUME IssuanceAssumption, KeyInv, NEW r \in Requests
  PROVE  /\ IssuanceTypes /\ RefreshFits(r)
         /\ r \in Issues => HandlerFits(r) /\ KeyFits(r) /\ KeyOf[r] \in Keys
BY DEF KeyInv, IssuanceAssumption

\* The lock, the lookup of the key, and what is answered without a row.
LEMMA KeyLooksUp ==
  ASSUME IssuanceAssumption, KeyInv, StoreFaults = FALSE, NEW i \in Issues,
         Lock(i) \/ Replay(i) \/ Miss(i) \/ RefuseIssue(i) \/ StoreFails(i)
  PROVE  KeyInv'
<1>1. /\ i \in Requests /\ IssuanceTypes /\ HandlerFits(i) /\ KeyFits(i) /\ RefreshFits(i)
      /\ KeyOf[i] \in Keys
  BY RequestFits DEF Requests
<1>2. CASE Lock(i)
  <2>1. /\ pc[i] = "new" /\ issueMu = NoOne /\ issueMu' = i
        /\ pc' = [pc EXCEPT ![i] = "locked"]
        /\ UNCHANGED <<rows, idem, index, got, band, gone>>
    BY <1>2 DEF Lock
  <2>2. IssuanceTypes' /\ pc'[i] = "locked"
    BY <1>1, <2>1 DEF IssuanceTypes, Working
  <2>3. HandlerFits(i)' /\ KeyFits(i)' /\ RefreshFits(i)'
    BY <1>1, <2>1, <2>2 DEF HandlerFits, KeyFits, RefreshFits
  <2>4. /\ \A j \in DOMAIN rows : rows[j] = i /\ RowKept(j) => RowKept(j)'
        /\ CutOff(i) => CutOff(i)'
    BY <1>1, <2>1, <2>2 DEF RowKept, CutOff
  <2>5. \A q \in Requests \ {i} : pc'[q] = pc[q]
    BY <1>1, <2>1 DEF IssuanceTypes
  <2>6. QED
    BY <1>1, <2>1, <2>2, <2>3, <2>4, <2>5, KeyAdvances
<1>3. CASE Replay(i)
  <2>1. PICK p \in {"deleting", "answering"} : p = AfterRow(i, "answering")
    BY DEF AfterRow
  <2>2. PICK n \in Nat \ {0} : n = idem[KeyOf[i]]
    BY <1>1, <1>3 DEF Replay, IssuanceTypes
  <2>3. /\ pc[i] = "locked" /\ i \notin gone
        /\ got' = [got EXCEPT ![i] = n]
        /\ pc' = [pc EXCEPT ![i] = p]
        /\ UNCHANGED <<rows, idem, index, issueMu, band, gone>>
    BY <1>3, <2>1, <2>2 DEF Replay
  <2>4. IssuanceTypes' /\ pc'[i] = p /\ got'[i] = n
    BY <1>1, <2>3 DEF IssuanceTypes, Working
  <2>5. n \in DOMAIN rows /\ KeyOf[rows[n]] = KeyOf[i] /\ rows[n] # i
    BY <1>1, <2>2, <2>3 DEF KeyInv, IdemFits, HandlerFits
  <2>6. HandlerFits(i)'
    BY <1>1, <2>3, <2>4, <2>5 DEF HandlerFits, Working
  <2>7. KeyFits(i)'
    BY <2>2, <2>3, <2>4, <2>5 DEF KeyFits
  <2>8. RefreshFits(i)'
    BY <1>1, <2>1, <2>3, <2>4 DEF RefreshFits, AfterRow
  <2>9. /\ \A j \in DOMAIN rows : rows[j] = i /\ RowKept(j) => RowKept(j)'
        /\ CutOff(i) => CutOff(i)'
    BY <1>1, <2>3, <2>4 DEF RowKept, CutOff
  <2>10. /\ \A q \in Requests \ {i} : pc'[q] = pc[q]
         /\ \A q \in Issues \ {i} : got'[q] = got[q]
    BY <1>1, <2>3 DEF IssuanceTypes
  <2>11. QED
    BY <1>1, <2>3, <2>4, <2>6, <2>7, <2>8, <2>9, <2>10, KeyAdvances
<1>4. CASE Miss(i)
  <2>1. /\ pc[i] = "locked" /\ (idem[KeyOf[i]] = 0 \/ i \in gone)
        /\ pc' = [pc EXCEPT ![i] = "missed"]
        /\ UNCHANGED <<rows, idem, index, issueMu, got, band, gone>>
    BY <1>4 DEF Miss, Faulty
  <2>2. IssuanceTypes' /\ pc'[i] = "missed"
    BY <1>1, <2>1 DEF IssuanceTypes, Working
  <2>3. HandlerFits(i)' /\ KeyFits(i)' /\ RefreshFits(i)'
    BY <1>1, <2>1, <2>2 DEF HandlerFits, KeyFits, RefreshFits, Working
  <2>4. /\ \A j \in DOMAIN rows : rows[j] = i /\ RowKept(j) => RowKept(j)'
        /\ CutOff(i) => CutOff(i)'
    BY <1>1, <2>1, <2>2 DEF RowKept, CutOff
  <2>5. \A q \in Requests \ {i} : pc'[q] = pc[q]
    BY <1>1, <2>1 DEF IssuanceTypes
  <2>6. QED
    BY <1>1, <2>1, <2>2, <2>3, <2>4, <2>5, KeyAdvances
<1>5. CASE RefuseIssue(i)
  <2>1. /\ pc[i] = "missed" /\ issueMu' = (IF issueMu = i THEN NoOne ELSE issueMu)
        /\ pc' = [pc EXCEPT ![i] = "refused"]
        /\ UNCHANGED <<rows, idem, index, got, band, gone>>
    BY <1>5 DEF RefuseIssue, Unlock
  <2>2. IssuanceTypes' /\ pc'[i] = "refused"
    BY <1>1, <2>1 DEF IssuanceTypes, Ended
  <2>3. HandlerFits(i)' /\ KeyFits(i)' /\ RefreshFits(i)'
    BY <1>1, <2>1, <2>2 DEF HandlerFits, KeyFits, RefreshFits, Working
  <2>4. /\ \A j \in DOMAIN rows : rows[j] = i /\ RowKept(j) => RowKept(j)'
        /\ CutOff(i) => CutOff(i)'
    BY <1>1, <2>1, <2>2 DEF RowKept, CutOff
  <2>5. \A q \in Requests \ {i} : pc'[q] = pc[q]
    BY <1>1, <2>1 DEF IssuanceTypes
  <2>6. QED
    BY <1>1, <2>1, <2>2, <2>3, <2>4, <2>5, KeyAdvances
<1>6. CASE StoreFails(i)
  <2>1. /\ pc[i] = "storing" /\ i \in gone
        /\ pc' = [pc EXCEPT ![i] = "answering"]
        /\ UNCHANGED <<rows, idem, index, issueMu, got, band, gone>>
    BY <1>6 DEF StoreFails, Faulty
  <2>2. IssuanceTypes' /\ pc'[i] = "answering"
    BY <1>1, <2>1 DEF IssuanceTypes, Working
  <2>3. HandlerFits(i)' /\ KeyFits(i)' /\ RefreshFits(i)'
    BY <1>1, <2>1, <2>2 DEF HandlerFits, KeyFits, RefreshFits, Working
  <2>4. /\ \A j \in DOMAIN rows : rows[j] = i /\ RowKept(j) => RowKept(j)'
        /\ CutOff(i) => CutOff(i)'
    BY <1>1, <2>1, <2>2 DEF RowKept, CutOff
  <2>5. \A q \in Requests \ {i} : pc'[q] = pc[q]
    BY <1>1, <2>1 DEF IssuanceTypes
  <2>6. QED
    BY <1>1, <2>1, <2>2, <2>3, <2>4, <2>5, KeyAdvances
<1>7. QED
  BY <1>2, <1>3, <1>4, <1>5, <1>6

\* The document of a request that has come to a fingerprint.
LEMMA TargetIsDoc ==
  ASSUME IssuanceAssumption, KeyInv, NEW r \in Requests, pc[r] \in {"deleting", "inserting"}
  PROVE  /\ Target(r) \in Docs
         /\ r \in Fingerprinted /\ About(r, Target(r))
<1>1. r \notin Reindexes => r \in Issues /\ got[r] # 0 /\ got[r] \in DOMAIN rows
  BY DEF KeyInv, HandlerFits, Requests
<1>2. r \notin Reindexes => rows[got[r]] \in Requests
  BY <1>1, RowTypes DEF KeyInv, IssuanceTypes, Requests
<1>3. Target(r) \in Docs
  BY <1>1, <1>2 DEF Target, IssuanceAssumption
<1>4. QED
  BY <1>1, <1>3 DEF About, KeyInv, RefreshFits

\* The fingerprint of a request.
LEMMA KeyRefreshes ==
  ASSUME IssuanceAssumption, KeyInv, StoreFaults = FALSE, NEW r \in Requests, Refresh(r)
  PROVE  KeyInv'
<1>1. /\ IssuanceTypes /\ RefreshFits(r)
      /\ r \in Issues => HandlerFits(r) /\ KeyFits(r)
  BY RequestFits
<1>2. CASE Delete(r) \/ DeleteFails(r)
  <2>1. /\ pc[r] = "deleting" /\ pc' = [pc EXCEPT ![r] = "inserting"] /\ index' \subseteq index
        /\ UNCHANGED <<rows, idem, issueMu, got, band, gone>>
    BY <1>2 DEF Delete, DeleteFails
  <2>2. IssuanceTypes' /\ pc'[r] = "inserting"
    BY <1>1, <2>1 DEF IssuanceTypes, Working
  <2>3. r \in Issues => HandlerFits(r)' /\ KeyFits(r)'
    BY <1>1, <2>1, <2>2 DEF HandlerFits, KeyFits, Working
  <2>4. RefreshFits(r)'
    BY <1>1, <2>1, <2>2 DEF RefreshFits, IssuanceAssumption
  <2>5. /\ \A j \in DOMAIN rows : rows[j] = r /\ RowKept(j) => RowKept(j)'
        /\ CutOff(r) => CutOff(r)'
    BY <1>1, <2>1, <2>2 DEF RowKept, CutOff
  <2>6. \A q \in Requests \ {r} : pc'[q] = pc[q]
    BY <1>1, <2>1 DEF IssuanceTypes
  <2>7. QED
    BY <1>1, <2>1, <2>2, <2>3, <2>4, <2>5, <2>6, KeyAdvances
<1>3. CASE InsertBand(r) \/ InsertFails(r)
  <2>1. PICK p \in {"inserting", "storing", "answering"} :
           /\ pc' = [pc EXCEPT ![r] = p]
           /\ p \in {"storing", "answering"} => p = AfterIndex(r)
           /\ p = "inserting" => r \notin gone /\ band[r] # Bands
    BY <1>1, <1>3 DEF InsertBand, InsertFails, AfterIndex, IssuanceTypes
  <2>2. /\ pc[r] = "inserting"
        /\ UNCHANGED <<rows, idem, issueMu, got, gone>>
        /\ r \notin gone => band' = [band EXCEPT ![r] = @ + 1]
        /\ band' = band \/ band' = [band EXCEPT ![r] = @ + 1]
        /\ r \in gone => band' = band
        /\ \/ index' = index
           \/ index' = index \union {[doc |-> Target(r), fp |-> r, band |-> band[r]]}
    BY <1>3 DEF InsertBand, InsertFails, Faulty
  <2>3. band[r] \in 1 .. Bands /\ r \in Fingerprinted
    BY <1>1, <2>2 DEF RefreshFits
  <2>4. IssuanceTypes' /\ pc'[r] = p /\ (r \notin gone => band'[r] = band[r] + 1)
    <3>1. [doc |-> Target(r), fp |-> r, band |-> band[r]] \in
             [doc : Docs, fp : Fingerprinted, band : 1 .. Bands]
      BY <2>2, <2>3, TargetIsDoc
    <3>2. index' \subseteq [doc : Docs, fp : Fingerprinted, band : 1 .. Bands]
      BY <1>1, <2>2, <3>1 DEF IssuanceTypes
    <3>3. band' \in [Requests -> Nat] /\ (r \notin gone => band'[r] = band[r] + 1)
      <4>1. band \in [Requests -> Nat]
        BY <1>1 DEF IssuanceTypes
      <4>2. CASE band' = band /\ r \in gone
        BY <4>1, <4>2
      <4>3. CASE band' = [band EXCEPT ![r] = @ + 1]
        BY <4>1, <4>3
      <4>4. QED
        BY <2>2, <4>2, <4>3
    <3>4. pc'[r] = p /\ pc' \in [Requests -> Working \union Ended \union {"new"}]
      BY <1>1, <2>1 DEF IssuanceTypes, Working
    <3>5. QED
      BY <1>1, <2>2, <3>2, <3>3, <3>4 DEF IssuanceTypes
  <2>5. r \in Issues => HandlerFits(r)' /\ KeyFits(r)'
    BY <1>1, <2>1, <2>2, <2>4 DEF HandlerFits, KeyFits, Working, AfterIndex
  <2>6. RefreshFits(r)'
    BY <1>1, <2>1, <2>2, <2>3, <2>4 DEF RefreshFits, AfterIndex, IssuanceAssumption
  <2>7. /\ \A j \in DOMAIN rows : rows[j] = r /\ RowKept(j) => RowKept(j)'
        /\ CutOff(r) => CutOff(r)'
    <3>1. \A j \in DOMAIN rows : rows[j] = r => r \in Issues
      BY <1>1, RowTypes DEF IssuanceTypes
    <3>2. QED
      BY <1>1, <2>1, <2>2, <2>4, <3>1 DEF RowKept, CutOff, AfterIndex
  <2>8. /\ \A q \in Requests \ {r} : pc'[q] = pc[q]
        /\ \A q \in Requests \ {r} : band'[q] = band[q]
    BY <1>1, <2>1, <2>2 DEF IssuanceTypes
  <2>9. QED
    BY <1>1, <2>2, <2>4, <2>5, <2>6, <2>7, <2>8, KeyAdvances
<1>4. QED
  BY <1>2, <1>3 DEF Refresh

\* The ends of a request, and a reindex, which has no key.
LEMMA KeyEnds ==
  ASSUME IssuanceAssumption, KeyInv, NEW r \in Requests,
         (r \in Reindexes /\ Reindex(r)) \/ Respond(r) \/ Hangup(r)
  PROVE  KeyInv'
<1>1. /\ IssuanceTypes /\ RefreshFits(r)
      /\ r \in Issues => HandlerFits(r) /\ KeyFits(r)
  BY RequestFits
<1>2. CASE r \in Reindexes /\ Reindex(r)
  <2>1. PICK p \in {"deleting", "refused"} : pc' = [pc EXCEPT ![r] = p]
    BY <1>2 DEF Reindex, LookUp, RefuseReindex
  <2>2. pc[r] = "new" /\ UNCHANGED <<rows, idem, index, issueMu, got, band, gone>>
    BY <1>2 DEF Reindex, LookUp, RefuseReindex
  <2>3. r \notin Issues /\ r \in Fingerprinted
    BY <1>2 DEF IssuanceAssumption
  <2>4. IssuanceTypes' /\ pc'[r] = p
    BY <1>1, <2>1, <2>2 DEF IssuanceTypes, Working, Ended
  <2>5. RefreshFits(r)'
    BY <1>1, <2>2, <2>3, <2>4 DEF RefreshFits
  <2>6. /\ \A j \in DOMAIN rows : rows[j] # r
        /\ CutOff(r) => CutOff(r)'
    BY <1>1, <2>2, <2>3, RowTypes DEF CutOff, IssuanceTypes
  <2>7. \A q \in Requests \ {r} : pc'[q] = pc[q]
    BY <1>1, <2>1 DEF IssuanceTypes
  <2>8. QED
    BY <2>2, <2>3, <2>4, <2>5, <2>6, <2>7, KeyAdvances
<1>3. CASE Respond(r)
  <2>1. PICK p \in {"lost", "created"} :
           pc' = [pc EXCEPT ![r] = p] /\ (p = "lost" <=> r \in gone)
    BY <1>3 DEF Respond
  <2>2. /\ pc[r] = "answering" /\ issueMu' = (IF issueMu = r THEN NoOne ELSE issueMu)
        /\ UNCHANGED <<rows, idem, index, got, band, gone>>
    BY <1>3 DEF Respond, Unlock
  <2>3. IssuanceTypes' /\ pc'[r] = p
    BY <1>1, <2>1, <2>2 DEF IssuanceTypes, Working, Ended
  <2>4. r \in Issues => HandlerFits(r)' /\ KeyFits(r)'
    BY <1>1, <2>1, <2>2, <2>3 DEF HandlerFits, KeyFits, Working
  <2>5. RefreshFits(r)'
    BY <1>1, <2>2, <2>3 DEF RefreshFits
  <2>6. /\ \A j \in DOMAIN rows : rows[j] = r /\ RowKept(j) => RowKept(j)'
        /\ CutOff(r) => CutOff(r)'
    BY <1>1, <2>2, <2>3 DEF RowKept, CutOff
  <2>7. \A q \in Requests \ {r} : pc'[q] = pc[q]
    BY <1>1, <2>1 DEF IssuanceTypes
  <2>8. QED
    BY <2>2, <2>3, <2>4, <2>5, <2>6, <2>7, KeyAdvances
<1>4. CASE Hangup(r)
  <2>1. /\ gone' = gone \union {r} /\ pc[r] \notin Ended
        /\ UNCHANGED <<rows, idem, index, issueMu, pc, got, band>>
    BY <1>4 DEF Hangup
  <2>2. IssuanceTypes'
    BY <1>1, <2>1 DEF IssuanceTypes
  <2>3. r \in Issues => HandlerFits(r)' /\ KeyFits(r)'
    BY <1>1, <2>1 DEF HandlerFits, KeyFits, Ended
  <2>4. RefreshFits(r)'
    BY <1>1, <2>1 DEF RefreshFits
  <2>5. /\ \A j \in DOMAIN rows : rows[j] = r /\ RowKept(j) => RowKept(j)'
        /\ CutOff(r) => CutOff(r)'
    BY <1>1, <2>1 DEF RowKept, CutOff
  <2>6. QED
    BY <2>1, <2>2, <2>3, <2>4, <2>5, KeyAdvances
<1>5. QED
  BY <1>2, <1>3, <1>4

\* The response of a new row is stored.
LEMMA KeyStores ==
  ASSUME IssuanceAssumption, KeyInv, NEW i \in Issues, Store(i)
  PROVE  KeyInv'
<1>1. /\ i \in Requests /\ IssuanceTypes /\ HandlerFits(i) /\ KeyFits(i) /\ RefreshFits(i)
      /\ KeyOf[i] \in Keys
  BY RequestFits DEF Requests
<1>2. /\ i \notin gone /\ pc[i] = "storing" /\ pc' = [pc EXCEPT ![i] = "answering"]
      /\ UNCHANGED <<rows, index, issueMu, got, band, gone>>
  BY DEF Store
<1>3. PICK k, n : k = KeyOf[i] /\ n = got[i] /\ n \in Nat
  BY <1>1 DEF IssuanceTypes
<1>4. /\ idem[k] = 0 /\ n # 0 /\ issueMu = i /\ rows[n] = i
      /\ n \in DOMAIN rows /\ KeyOf[rows[n]] = k
  BY <1>1, <1>2, <1>3 DEF HandlerFits, KeyFits, Working
<1>5. idem' = [idem EXCEPT ![k] = n]
  BY <1>3, <1>4 DEF Store
<1>6. /\ \A q \in Keys : idem'[q] = IF q = k THEN n ELSE idem[q]
      /\ \A q \in Requests : pc'[q] = IF q = i THEN "answering" ELSE pc[q]
  BY <1>1, <1>2, <1>5 DEF IssuanceTypes
<1>7. IssuanceTypes'
  BY <1>1, <1>2, <1>3, <1>5 DEF IssuanceTypes, Working
<1>8. ASSUME NEW j \in Issues PROVE HandlerFits(j)' /\ KeyFits(j)'
  <2>1. j \in Requests /\ HandlerFits(j) /\ KeyFits(j) /\ KeyOf[j] \in Keys
    BY RequestFits DEF Requests
  <2>2. HandlerFits(j)'
    BY <1>2, <1>4, <1>6, <2>1 DEF HandlerFits, Working
  <2>3. KeyFits(j)'
    <3>1. CASE j = i
      BY <1>2, <1>3, <1>4, <1>6, <2>1, <3>1 DEF KeyFits
    <3>2. CASE j # i
      <4>1. pc[j] \notin Working
        BY <1>4, <2>1, <3>2 DEF HandlerFits
      <4>2. j \notin gone /\ pc[j] = "created" => idem[KeyOf[j]] = got[j] /\ got[j] # 0
        BY <2>1 DEF KeyFits, HandlerFits
      <4>3. KeyOf[j] = k => j \in gone \/ pc[j] # "created"
        BY <1>4, <4>2
      <4>4. QED
        BY <1>2, <1>6, <2>1, <3>2, <4>1, <4>2, <4>3 DEF KeyFits, Working
    <3>3. QED
      BY <3>1, <3>2
  <2>4. QED
    BY <2>2, <2>3
<1>9. ASSUME NEW r \in Requests PROVE RefreshFits(r)'
  BY <1>2, <1>6 DEF KeyInv, RefreshFits
<1>10. IdemFits'
  BY <1>2, <1>3, <1>4, <1>6 DEF KeyInv, IdemFits
<1>11. ASSUME NEW j \in DOMAIN rows' PROVE RowKept(j)'
  <2>1. /\ j \in DOMAIN rows /\ RowKept(j) /\ rows[j] \in Issues /\ rows[j] \in Requests
        /\ KeyOf[rows[j]] \in Keys /\ j # 0
    BY <1>1, <1>2, RowTypes DEF KeyInv, IssuanceTypes, Requests, IssuanceAssumption
  <2>2. CASE CutOff(rows[j])
    BY <1>2, <1>6, <2>1, <2>2 DEF RowKept, CutOff
  <2>3. CASE idem[KeyOf[rows[j]]] = j
    BY <1>2, <1>4, <1>6, <2>1, <2>3 DEF RowKept
  <2>4. CASE pc[rows[j]] \in {"deleting", "inserting", "storing"} /\ got[rows[j]] = j
    <3>1. rows[j] = i
      BY <1>4, <2>1, <2>4 DEF KeyInv, HandlerFits, Working
    <3>2. QED
      BY <1>1, <1>2, <1>3, <1>6, <2>4, <3>1 DEF RowKept
  <2>5. QED
    BY <2>1, <2>2, <2>3, <2>4 DEF RowKept
<1>12. OneRowPerKey'
  <2>1. \A q \in Requests : CutOff(q) => CutOff(q)'
    BY <1>2, <1>6 DEF CutOff
  <2>2. \A j \in DOMAIN rows : rows[j] \in Requests
    BY <1>1, RowTypes DEF IssuanceTypes, Requests
  <2>3. QED
    BY <1>2, <2>1, <2>2 DEF KeyInv, OneRowPerKey
<1>13. QED
  BY <1>7, <1>8, <1>9, <1>10, <1>11, <1>12 DEF KeyInv

\* A row is appended and its client is gone.
LEMMA KeyUnseen ==
  ASSUME IssuanceAssumption, KeyInv, NEW i \in Issues, AppendUnseen(i)
  PROVE  KeyInv'
<1>1. /\ i \in Requests /\ IssuanceTypes /\ HandlerFits(i) /\ RefreshFits(i)
  BY RequestFits DEF Requests
<1>2. /\ i \notin gone /\ pc[i] = "missed" /\ issueMu = i /\ issueMu' = NoOne
      /\ got[i] = 0
      /\ pc' = [pc EXCEPT ![i] = "refused"] /\ gone' = gone \union {i}
      /\ UNCHANGED <<idem, index, got, band>>
  BY <1>1 DEF AppendUnseen, HandlerFits, Working, Unlock
<1>3. PICK n : n = Len(rows) + 1
  OBVIOUS
<1>4. /\ rows' \in Seq(Issues)
      /\ DOMAIN rows' = DOMAIN rows \union {n}
      /\ \A k \in DOMAIN rows : rows'[k] = rows[k] /\ k < n /\ rows[k] \in Issues
      /\ rows'[n] = i /\ n \in Nat \ {0}
  BY <1>1, <1>3, RowsAppended, RowTypes DEF AppendUnseen, IssuanceTypes
<1>5. \A r \in Requests : pc'[r] = IF r = i THEN "refused" ELSE pc[r]
  BY <1>1, <1>2 DEF IssuanceTypes
<1>6. IssuanceTypes'
  BY <1>1, <1>2, <1>4 DEF IssuanceTypes, Ended
<1>7. ASSUME NEW j \in Issues PROVE HandlerFits(j)' /\ KeyFits(j)'
  <2>1. j \in Requests /\ HandlerFits(j) /\ KeyFits(j)
    BY RequestFits DEF Requests
  <2>2. j # i => pc[j] \notin Working
    BY <1>2, <2>1 DEF HandlerFits
  <2>3. HandlerFits(j)'
    BY <1>2, <1>4, <1>5, <2>1, <2>2 DEF HandlerFits, Working
  <2>4. KeyFits(j)'
    BY <1>2, <1>4, <1>5, <2>1, <2>2 DEF HandlerFits, KeyFits, Working
  <2>5. QED
    BY <2>3, <2>4
<1>8. ASSUME NEW r \in Requests PROVE RefreshFits(r)'
  BY <1>2, <1>5 DEF KeyInv, RefreshFits
<1>9. IdemFits'
  BY <1>2, <1>4 DEF KeyInv, IdemFits
<1>10. ASSUME NEW j \in DOMAIN rows' PROVE RowKept(j)'
  <2>1. CASE j = n
    BY <1>2, <1>4, <2>1 DEF RowKept, CutOff
  <2>2. CASE j \in DOMAIN rows
    <3>1. RowKept(j) /\ rows[j] # i /\ rows[j] \in Requests
      BY <1>1, <1>2, <1>4, <2>2 DEF KeyInv, Requests, HandlerFits
    <3>2. QED
      BY <1>2, <1>4, <1>5, <2>2, <3>1 DEF RowKept, CutOff
  <2>3. QED
    BY <1>4, <2>1, <2>2
<1>11. OneRowPerKey'
  <2> SUFFICES ASSUME NEW j \in DOMAIN rows', NEW k \in DOMAIN rows', j < k,
                      KeyOf[rows'[j]] = KeyOf[rows'[k]]
               PROVE  CutOff(rows[j])'
    BY DEF OneRowPerKey
  <2>1. j \in DOMAIN rows
    BY <1>1, <1>4, RowTypes DEF IssuanceTypes
  <2>2. rows[j] \in Requests /\ rows'[j] = rows[j]
    BY <1>4, <2>1 DEF Requests
  <2>3. CutOff(rows[j])
    <3>1. CASE k \in DOMAIN rows
      BY <1>4, <2>1, <3>1 DEF KeyInv, OneRowPerKey
    <3>2. CASE k = n
      BY <1>2, <1>4, <2>1, <2>2, <3>2, OlderRowsCutOff
    <3>3. QED
      BY <1>4, <3>1, <3>2
  <2>4. QED
    BY <1>2, <1>5, <2>2, <2>3 DEF CutOff
<1>12. QED
  BY <1>6, <1>7, <1>8, <1>9, <1>10, <1>11 DEF KeyInv

\* The process restarts.
LEMMA KeyCrashes ==
  ASSUME IssuanceAssumption, KeyInv, Crash
  PROVE  KeyInv'
<1>1. /\ issueMu' = NoOne /\ IssuanceTypes
      /\ UNCHANGED <<rows, idem, index, got, band, gone>>
      /\ pc' = [r \in Requests |-> IF pc[r] \in Ended \union {"new"} THEN pc[r] ELSE "lost"]
  BY DEF Crash, KeyInv
<1>2. \A r \in Requests : /\ pc'[r] = pc[r] \/ pc'[r] = "lost"
                          /\ pc'[r] \in Ended \union {"new"}
                          /\ pc[r] = "lost" => pc'[r] = "lost"
                          /\ pc[r] \notin Ended \union {"new"} => pc'[r] = "lost"
  BY <1>1 DEF Ended
<1>3. IssuanceTypes'
  BY <1>1, <1>2 DEF IssuanceTypes
<1>4. ASSUME NEW j \in Issues PROVE HandlerFits(j)' /\ KeyFits(j)'
  <2>1. j \in Requests /\ HandlerFits(j) /\ KeyFits(j)
    BY RequestFits DEF Requests
  <2>2. HandlerFits(j)'
    BY <1>1, <1>2, <2>1 DEF HandlerFits, Working, Ended
  <2>3. KeyFits(j)'
    BY <1>1, <1>2, <2>1 DEF KeyFits, Ended
  <2>4. QED
    BY <2>2, <2>3
<1>5. ASSUME NEW r \in Requests PROVE RefreshFits(r)'
  BY <1>1, <1>2 DEF KeyInv, RefreshFits, Ended
<1>6. IdemFits'
  BY <1>1 DEF KeyInv, IdemFits
<1>7. \A j \in DOMAIN rows : rows[j] \in Requests
  BY <1>1, RowTypes DEF IssuanceTypes, Requests
<1>8. \A q \in Requests : CutOff(q) => CutOff(q)'
  BY <1>1, <1>2 DEF CutOff
<1>9. ASSUME NEW j \in DOMAIN rows' PROVE RowKept(j)'
  BY <1>1, <1>2, <1>7, <1>8 DEF KeyInv, RowKept, CutOff, Ended
<1>10. OneRowPerKey'
  BY <1>1, <1>7, <1>8 DEF KeyInv, OneRowPerKey
<1>11. QED
  BY <1>3, <1>4, <1>5, <1>6, <1>9, <1>10 DEF KeyInv

\* Before the first request.
LEMMA KeyInit == IssuanceAssumption /\ IssuanceInit => KeyInv
<1> SUFFICES ASSUME IssuanceAssumption, IssuanceInit PROVE KeyInv
  OBVIOUS
<1>1. rows \in Seq(Issues) /\ DOMAIN rows = {}
  BY EmptySeq DEF IssuanceInit
<1>2. IssuanceTypes
  BY <1>1 DEF IssuanceInit, IssuanceTypes
<1>3. \A i \in Issues : HandlerFits(i) /\ KeyFits(i)
  BY <1>1 DEF IssuanceInit, HandlerFits, KeyFits, Working, Requests
<1>4. \A r \in Requests : RefreshFits(r)
  BY DEF IssuanceInit, RefreshFits
<1>5. IdemFits /\ OneRowPerKey
  BY <1>1 DEF IssuanceInit, IdemFits, OneRowPerKey
<1>6. QED
  BY <1>1, <1>2, <1>3, <1>4, <1>5 DEF KeyInv

\* Every step keeps what is known of the keys.
LEMMA KeyNext ==
  ASSUME IssuanceAssumption, StoreFaults = FALSE, KeyInv, [IssuanceNext]_issuanceVars
  PROVE  KeyInv'
<1>1. CASE UNCHANGED issuanceVars
  BY <1>1 DEF issuanceVars, KeyInv, IssuanceTypes, HandlerFits, KeyFits, RefreshFits, IdemFits,
              RowKept, OneRowPerKey, CutOff
<1>2. ASSUME NEW i \in Issues, Issue(i) PROVE KeyInv'
  BY <1>2, KeyLooksUp, KeyAppends, KeyUnseen, KeyStores DEF Issue
<1>3. ASSUME NEW x \in Reindexes, Reindex(x) PROVE KeyInv'
  BY <1>3, KeyEnds DEF Requests
<1>4. ASSUME NEW r \in Requests, Refresh(r) \/ Respond(r) \/ Hangup(r) PROVE KeyInv'
  BY <1>4, KeyRefreshes, KeyEnds
<1>5. CASE Crash
  BY <1>5, KeyCrashes
<1>6. QED
  BY <1>1, <1>2, <1>3, <1>4, <1>5 DEF IssuanceNext

\* It holds of every reachable state, if the store answers.
LEMMA KeyAlways == ASSUME StoreFaults = FALSE PROVE IssuanceSpec => []KeyInv
<1>1. IssuanceInit => KeyInv
  BY IssuanceAssumption, KeyInit
<1>2. KeyInv /\ [IssuanceNext]_issuanceVars => KeyInv'
  BY IssuanceAssumption, KeyNext
<1>3. QED
  BY <1>1, <1>2, PTL DEF IssuanceSpec

(***************************************************************************)
(* However often a request is sent under one Idempotency-Key, the ledger   *)
(* has one row for it and its clients get one answer, unless the request   *)
(* that appended the row was cut off between the append and PutIdempotent  *)
(* (labels.go handleIssue under issueMu), in a store that does not fail by *)
(* itself: a lookup that fails counts as a miss.                           *)
(***************************************************************************)
THEOREM KeysAreUsedOnce ==
  ASSUME StoreFaults = FALSE
  PROVE  IssuanceSpec => []OneIssuePerKey
<1>1. KeyInv => OneIssuePerKey
  <2> SUFFICES ASSUME KeyInv PROVE SameAnswer
    BY DEF KeyInv, OneIssuePerKey
  <2>1. ASSUME NEW i \in Issues, pc[i] = "created"
        PROVE  KeyOf[rows[got[i]]] = KeyOf[i] /\ idem[KeyOf[i]] = got[i]
    BY <2>1 DEF KeyInv, HandlerFits, KeyFits
  <2>2. QED
    BY <2>1 DEF SameAnswer
<1>2. QED
  BY <1>1, KeyAlways, PTL

-----------------------------------------------------------------------------
(* The index of fingerprints *)

Past == {"inserting", "storing", "answering", "created"}

\* What no step takes back: rows, the row of a response, a cut.
Grown ==
    /\ \A k \in DOMAIN rows : k \in DOMAIN rows' /\ rows'[k] = rows[k]
    /\ \A i \in Issues : got[i] # 0 => got'[i] = got[i]
    /\ \A r \in Requests : CutOff(r) => CutOff(r)'

\* A step that inserts nothing and deletes nothing.
Quiet ==
    /\ index' = index /\ band' = band
    /\ \A s \in Requests :
          /\ s \in Fingerprinted /\ pc'[s] \in Past => pc[s] \in Past \/ CutOff(s)'
          /\ pc[s] = "inserting" => pc'[s] = "inserting" \/ CutOff(s)'
          /\ pc'[s] = "inserting" => pc[s] = "inserting" \/ CutOff(s)'

\* So the document a request has come to stays the same.
LEMMA AboutStays ==
  ASSUME KeyInv, Grown, NEW s \in Requests, NEW d
  PROVE  /\ About(s, d) => About(s, d)'
         /\ s \in Reindexes \/ got[s] # 0 => (About(s, d)' => About(s, d))
<1>1. CASE s \in Reindexes
  BY <1>1 DEF About, Target
<1>2. CASE s \notin Reindexes /\ got[s] # 0
  <2>1. s \in Issues /\ got[s] \in DOMAIN rows
    BY <1>2 DEF KeyInv, HandlerFits, Requests
  <2>2. got'[s] = got[s] /\ rows'[got[s]] = rows[got[s]]
    BY <1>2, <2>1 DEF Grown
  <2>3. QED
    BY <1>2, <2>2 DEF About, Target
<1>3. CASE s \notin Reindexes /\ got[s] = 0
  BY <1>3 DEF About
<1>4. QED
  BY <1>1, <1>2, <1>3

\* A request past the lookup has a document.
LEMMA HasDocument ==
  ASSUME KeyInv, NEW s \in Requests, pc[s] \in Past \union {"deleting"}
  PROVE  s \in Reindexes \/ got[s] # 0
BY DEF KeyInv, HandlerFits, Past, Requests

\* A step that leaves the fingerprints and those who write them alone.
LEMMA IndexQuiet ==
  ASSUME KeyInv, IndexInv, Grown, Quiet
  PROVE  IndexInv'
<1>1. ASSUME NEW s \in Requests, NEW d, CutOff(s), About(s, d)
      PROVE  CutOff(s)' /\ About(s, d)'
  BY <1>1, AboutStays DEF Grown
<1>2. Issues \subseteq Requests /\ Fingerprinted \subseteq Requests
  BY IssuanceAssumption DEF Requests
<1>3. ASSUME NEW d \in Docs PROVE FingerprintGrows(d)'
  <2> SUFFICES ASSUME NEW r \in Fingerprinted, pc'[r] \in Past, About(r, d)',
                      ~\E s \in Requests : CutOff(s)' /\ About(s, d)'
               PROVE  \/ \E f \in Fingerprinted : HasAll(f, d, Bands)'
                      \/ \E s \in Requests :
                            pc'[s] = "inserting" /\ About(s, d)' /\ HasAll(s, d, band[s] - 1)'
    BY DEF FingerprintGrows, Past
  <2>1. pc[r] \in Past /\ About(r, d)
    BY <1>2, AboutStays, HasDocument DEF Quiet
  <2>2. \/ \E f \in Fingerprinted : HasAll(f, d, Bands)
        \/ \E s \in Requests :
              pc[s] = "inserting" /\ About(s, d) /\ HasAll(s, d, band[s] - 1)
    BY <1>1, <2>1 DEF IndexInv, FingerprintGrows, Past
  <2>3. \A f, n : HasAll(f, d, n) => HasAll(f, d, n)'
    BY DEF HasAll, Quiet
  <2>4. ASSUME NEW s \in Requests, pc[s] = "inserting", About(s, d), HasAll(s, d, band[s] - 1)
        PROVE  pc'[s] = "inserting" /\ About(s, d)' /\ HasAll(s, d, band[s] - 1)'
    <3>1. About(s, d)'
      BY <2>4, AboutStays
    <3>2. HasAll(s, d, band[s] - 1)'
      BY <2>4 DEF HasAll, Quiet
    <3>3. QED
      BY <2>4, <3>1, <3>2 DEF Quiet
  <2>5. QED
    BY <2>2, <2>3, <2>4
<1>4. ASSUME NEW d \in Docs PROVE OneFingerprint(d)'
  <2> SUFFICES ASSUME ~\E s \in Issues : CutOff(s)' /\ About(s, d)'
               PROVE  /\ \A e, f \in Entries(d)' : {e.fp, f.fp} \subseteq Issues => e.fp = f.fp
                      /\ \A s \in Issues : pc'[s] = "inserting" /\ About(s, d)' =>
                            \A e \in Entries(d)' : e.fp \in Issues => e.fp = s
    BY DEF OneFingerprint
  <2>1. Entries(d)' = Entries(d)
    BY DEF Entries, Quiet
  <2>2. /\ \A e, f \in Entries(d) : {e.fp, f.fp} \subseteq Issues => e.fp = f.fp
        /\ \A s \in Issues : pc[s] = "inserting" /\ About(s, d) =>
              \A e \in Entries(d) : e.fp \in Issues => e.fp = s
    BY <1>1, <1>2 DEF IndexInv, OneFingerprint
  <2>3. ASSUME NEW s \in Issues, pc'[s] = "inserting", About(s, d)'
        PROVE  pc[s] = "inserting" /\ About(s, d)
    BY <1>2, <2>3, AboutStays, HasDocument DEF Quiet, Past
  <2>4. QED
    BY <2>1, <2>2, <2>3
<1>5. QED
  BY <1>3, <1>4 DEF IndexInv

\* The former fingerprint is deleted.
LEMMA IndexDeletes ==
  ASSUME KeyInv, IndexInv, Grown, NEW r \in Requests, Delete(r)
  PROVE  IndexInv'
<1>1. PICK t \in Docs : t = Target(r) /\ About(r, t) /\ r \in Fingerprinted
  BY IssuanceAssumption, TargetIsDoc DEF Delete
<1>2. /\ index' = index \ Entries(t)
      /\ pc' = [pc EXCEPT ![r] = "inserting"] /\ pc[r] = "deleting"
      /\ UNCHANGED <<rows, got, band, gone>>
  BY <1>1 DEF Delete
<1>3. /\ pc'[r] = "inserting" /\ band[r] = 1
      /\ \A s \in Requests \ {r} : pc'[s] = pc[s]
  BY <1>2 DEF KeyInv, IssuanceTypes, RefreshFits
<1>4. \A s, d : About(s, d)' <=> About(s, d)
  BY <1>2 DEF About, Target
<1>5. \A d : About(r, d) => d = t
  BY <1>1 DEF About
<1>6. Issues \subseteq Requests /\ Fingerprinted \subseteq Requests
  BY IssuanceAssumption DEF Requests
<1>7. \A s \in Requests : CutOff(s)' <=> CutOff(s)
  BY <1>2, <1>3 DEF CutOff
<1>8. FingerprintGrows(t)'
  <2>1. HasAll(r, t, band[r] - 1)'
    BY <1>2, <1>3 DEF HasAll
  <2>2. QED
    BY <1>1, <1>3, <1>4, <2>1 DEF FingerprintGrows
<1>9. OneFingerprint(t)'
  BY <1>2 DEF OneFingerprint, Entries
<1>10. ASSUME NEW d \in Docs, d # t PROVE FingerprintGrows(d)' /\ OneFingerprint(d)'
  <2>1. /\ \A f, n : HasAll(f, d, n)' <=> HasAll(f, d, n)
        /\ \A s : HasAll(s, d, band[s] - 1)' <=> HasAll(s, d, band[s] - 1)
        /\ Entries(d)' = Entries(d)
    BY <1>2, <1>10 DEF HasAll, Entries
  <2>2. FingerprintGrows(d)'
    <3>1. FingerprintGrows(d)
      BY DEF IndexInv
    <3>2. QED
      BY <1>2, <1>3, <1>4, <1>5, <1>6, <1>7, <1>10, <2>1, <3>1 DEF FingerprintGrows
  <2>3. OneFingerprint(d)'
    <3>1. OneFingerprint(d)
      BY DEF IndexInv
    <3>2. QED
      BY <1>3, <1>4, <1>5, <1>6, <1>7, <1>10, <2>1, <3>1 DEF OneFingerprint
  <2>4. QED
    BY <2>2, <2>3
<1>11. QED
  BY <1>8, <1>9, <1>10 DEF IndexInv

\* A band is inserted.
LEMMA IndexInserts ==
  ASSUME KeyInv, IndexInv, Grown, NEW r \in Requests, InsertBand(r)
  PROVE  IndexInv'
<1>1. PICK t \in Docs : t = Target(r) /\ About(r, t) /\ r \in Fingerprinted
  BY IssuanceAssumption, TargetIsDoc DEF InsertBand
<1>2. PICK n \in 1 .. Bands : n = band[r]
  BY DEF KeyInv, RefreshFits, InsertBand
<1>3. /\ pc[r] = "inserting" /\ r \notin gone
      /\ index' = index \union {[doc |-> t, fp |-> r, band |-> n]}
      /\ band' = [band EXCEPT ![r] = n + 1]
      /\ UNCHANGED <<rows, got, gone>>
  BY <1>1, <1>2 DEF InsertBand
<1>4. PICK p \in {"inserting", "storing", "answering"} :
         pc' = [pc EXCEPT ![r] = p] /\ (n # Bands => p = "inserting")
  BY <1>2, <1>3 DEF InsertBand, AfterIndex
<1>5. /\ pc'[r] = p /\ band'[r] = n + 1
      /\ \A s \in Requests \ {r} : pc'[s] = pc[s] /\ band'[s] = band[s]
  BY <1>3, <1>4 DEF KeyInv, IssuanceTypes
<1>6. /\ \A s, d : About(s, d)' <=> About(s, d)
      /\ \A d : About(r, d) => d = t
  BY <1>1, <1>3 DEF About, Target
<1>7. Issues \subseteq Requests /\ Fingerprinted \subseteq Requests /\ Bands \in Nat
      /\ Issues \intersect Reindexes = {}
  BY IssuanceAssumption DEF Requests
<1>8. \A s \in Requests : CutOff(s)' <=> CutOff(s)
  BY <1>3, <1>5 DEF CutOff
<1>9. \A f, d, m : HasAll(f, d, m) => HasAll(f, d, m)'
  BY <1>3 DEF HasAll
<1>10. FingerprintGrows(t)'
  <2>1. FingerprintGrows(t)
    BY DEF IndexInv
  <2>2. \/ \E f \in Fingerprinted : HasAll(f, t, Bands)
        \/ \E s \in Requests : pc[s] = "inserting" /\ About(s, t) /\ HasAll(s, t, band[s] - 1)
        \/ \E s \in Requests : CutOff(s) /\ About(s, t)
    BY <1>1, <1>3, <2>1 DEF FingerprintGrows
  <2>3. CASE \E f \in Fingerprinted : HasAll(f, t, Bands)
    BY <1>9, <2>3 DEF FingerprintGrows
  <2>4. CASE \E s \in Requests : CutOff(s) /\ About(s, t)
    BY <1>6, <1>8, <2>4 DEF FingerprintGrows
  <2>5. ASSUME NEW s \in Requests, pc[s] = "inserting", About(s, t),
               HasAll(s, t, band[s] - 1)
        PROVE  FingerprintGrows(t)'
    <3>1. CASE s # r
      <4>1. pc'[s] = "inserting" /\ About(s, t)' /\ band'[s] = band[s]
        BY <1>5, <1>6, <2>5, <3>1
      <4>2. HasAll(s, t, band[s] - 1)'
        BY <1>3, <2>5, <4>1 DEF HasAll
      <4>3. QED
        BY <4>1, <4>2 DEF FingerprintGrows
    <3>2. CASE s = r
      <4>1. \A b \in 1 .. n : [doc |-> t, fp |-> r, band |-> b] \in index'
        <5>1. \A b \in 1 .. (n - 1) : [doc |-> t, fp |-> r, band |-> b] \in index
          BY <1>2, <2>5, <3>2 DEF HasAll
        <5>2. [doc |-> t, fp |-> r, band |-> n] \in index' /\ index \subseteq index'
          BY <1>3
        <5>3. \A b \in 1 .. n : b = n \/ b \in 1 .. (n - 1)
          BY <1>2
        <5>4. QED
          BY <5>1, <5>2, <5>3
      <4>2. CASE n = Bands
        BY <1>1, <4>1, <4>2 DEF FingerprintGrows, HasAll
      <4>3. CASE n # Bands
        <5>1. pc'[r] = "inserting" /\ About(r, t)'
          BY <1>1, <1>4, <1>5, <1>6, <4>3
        <5>2. HasAll(r, t, band[r] - 1)'
          <6>1. (band[r] - 1)' = n
            BY <1>2, <1>5
          <6>2. QED
            BY <4>1, <6>1 DEF HasAll
        <5>3. QED
          BY <5>1, <5>2 DEF FingerprintGrows
      <4>4. QED
        BY <4>2, <4>3
    <3>3. QED
      BY <3>1, <3>2
  <2>6. QED
    BY <2>2, <2>3, <2>4, <2>5
<1>11. OneFingerprint(t)'
  <2>1. OneFingerprint(t)
    BY DEF IndexInv
  <2>2. CASE \E s \in Issues : CutOff(s) /\ About(s, t)
    BY <1>6, <1>7, <1>8, <2>2 DEF OneFingerprint
  <2>3. CASE ~\E s \in Issues : CutOff(s) /\ About(s, t)
    <3>1. /\ \A e, f \in Entries(t) : {e.fp, f.fp} \subseteq Issues => e.fp = f.fp
          /\ \A s \in Issues : pc[s] = "inserting" /\ About(s, t) =>
                \A e \in Entries(t) : e.fp \in Issues => e.fp = s
      BY <2>1, <2>3 DEF OneFingerprint
    <3>2. \A e \in Entries(t)' : e \in Entries(t) \/ e.fp = r
      BY <1>3 DEF Entries
    <3>3. ASSUME NEW s \in Issues, s # r, pc'[s] = "inserting", About(s, t)'
          PROVE  r \notin Issues /\ pc[s] = "inserting" /\ About(s, t)
      <4>1. pc[s] = "inserting" /\ About(s, t)
        BY <1>5, <1>6, <1>7, <3>3
      <4>2. r \notin Issues
        BY <1>3, <3>3, <4>1 DEF KeyInv, HandlerFits, Working
      <4>3. QED
        BY <4>1, <4>2
    <3>4. r \in Issues => \A e \in Entries(t)' : e.fp \in Issues => e.fp = r
      BY <1>1, <1>3, <3>1, <3>2
    <3>5. \A e, f \in Entries(t)' : {e.fp, f.fp} \subseteq Issues => e.fp = f.fp
      <4>1. CASE r \in Issues
        BY <3>4, <4>1
      <4>2. CASE r \notin Issues
        BY <3>1, <3>2, <4>2
      <4>3. QED
        BY <4>1, <4>2
    <3>6. \A s \in Issues : pc'[s] = "inserting" /\ About(s, t)' =>
             \A e \in Entries(t)' : e.fp \in Issues => e.fp = s
      <4> SUFFICES ASSUME NEW s \in Issues, pc'[s] = "inserting", About(s, t)',
                          NEW e \in Entries(t)', e.fp \in Issues
                   PROVE  e.fp = s
        OBVIOUS
      <4>1. CASE s = r
        BY <3>4, <4>1
      <4>2. CASE s # r
        BY <3>1, <3>2, <3>3, <4>2
      <4>3. QED
        BY <4>1, <4>2
    <3>7. QED
      BY <3>5, <3>6 DEF OneFingerprint
  <2>4. QED
    BY <2>2, <2>3
<1>12. ASSUME NEW d \in Docs, d # t PROVE FingerprintGrows(d)' /\ OneFingerprint(d)'
  <2>1. Entries(d)' = Entries(d)
    BY <1>3, <1>12 DEF Entries
  <2>2. \A s \in Requests :
           About(s, d) /\ pc[s] = "inserting" /\ HasAll(s, d, band[s] - 1) =>
              pc'[s] = "inserting" /\ HasAll(s, d, band[s] - 1)'
    BY <1>3, <1>5, <1>6, <1>12 DEF HasAll
  <2>3. FingerprintGrows(d)'
    <3>1. FingerprintGrows(d)
      BY DEF IndexInv
    <3>2. QED
      BY <1>5, <1>6, <1>7, <1>8, <1>9, <1>12, <2>2, <3>1 DEF FingerprintGrows
  <2>4. OneFingerprint(d)'
    <3>1. OneFingerprint(d)
      BY DEF IndexInv
    <3>2. QED
      BY <1>5, <1>6, <1>7, <1>8, <1>12, <2>1, <3>1 DEF OneFingerprint
  <2>5. QED
    BY <2>3, <2>4
<1>13. QED
  BY <1>10, <1>11, <1>12 DEF IndexInv

\* Every step leaves rows, answers and cuts.
LEMMA StepsGrow ==
  ASSUME KeyInv, [IssuanceNext]_issuanceVars
  PROVE  Grown
<1>1. IssuanceTypes /\ Issues \subseteq Requests
  BY DEF KeyInv, Requests
<1>2. CASE /\ rows' = rows /\ got' = got
           /\ \/ gone \subseteq gone' /\ pc' = pc
              \/ /\ gone' = gone
                 /\ \E r \in Requests : \E p : pc[r] # "lost" /\ pc' = [pc EXCEPT ![r] = p]
  <2>1. \A q \in Requests : CutOff(q) => CutOff(q)'
    BY <1>1, <1>2 DEF CutOff, IssuanceTypes
  <2>2. QED
    BY <1>2, <2>1 DEF Grown
<1>3. ASSUME NEW i \in Issues, Issue(i) PROVE Grown
  <2>1. CASE Lock(i) \/ Miss(i) \/ RefuseIssue(i) \/ Store(i) \/ StoreFails(i)
    BY <1>1, <1>2, <2>1 DEF Lock, Miss, RefuseIssue, Store, StoreFails
  <2>2. CASE Replay(i)
    <3>1. /\ rows' = rows /\ got[i] = 0 /\ gone' = gone /\ pc[i] = "locked"
          /\ \A q \in Issues \ {i} : got'[q] = got[q]
          /\ \A q \in Requests \ {i} : pc'[q] = pc[q]
      BY <1>1, <2>2 DEF Replay, KeyInv, HandlerFits, IssuanceTypes
    <3>2. QED
      BY <3>1 DEF Grown, CutOff
  <2>3. CASE AppendRow(i) \/ AppendUnseen(i)
    <3>1. /\ rows' = Append(rows, i) /\ got[i] = 0 /\ gone \subseteq gone' /\ pc[i] = "missed"
          /\ \A q \in Issues \ {i} : got'[q] = got[q]
          /\ \A q \in Requests \ {i} : pc'[q] = pc[q]
      BY <1>1, <2>3 DEF AppendRow, AppendUnseen, KeyInv, HandlerFits, IssuanceTypes
    <3>2. \A k \in DOMAIN rows : k \in DOMAIN rows' /\ rows'[k] = rows[k]
      BY <1>1, <3>1, RowsAppended DEF IssuanceTypes
    <3>3. QED
      BY <3>1, <3>2 DEF Grown, CutOff
  <2>4. QED
    BY <1>3, <2>1, <2>2, <2>3 DEF Issue
<1>4. ASSUME NEW x \in Reindexes, Reindex(x) PROVE Grown
  BY <1>2, <1>4 DEF Reindex, LookUp, RefuseReindex, Requests
<1>5. ASSUME NEW r \in Requests, Refresh(r) \/ Respond(r) \/ Hangup(r) PROVE Grown
  <2>1. CASE Hangup(r)
    BY <1>2, <2>1 DEF Hangup
  <2>2. CASE Respond(r)
    BY <1>2, <2>2 DEF Respond
  <2>3. CASE Delete(r) \/ DeleteFails(r)
    BY <1>2, <2>3 DEF Delete, DeleteFails
  <2>4. CASE InsertBand(r) \/ InsertFails(r)
    <3>1. /\ rows' = rows /\ got' = got /\ gone' = gone /\ pc[r] # "lost"
          /\ \E p : pc' = [pc EXCEPT ![r] = p]
      BY <2>4, Zenon DEF InsertBand, InsertFails
    <3>2. QED
      BY <1>2, <3>1
  <2>5. QED
    BY <1>5, <2>1, <2>2, <2>3, <2>4 DEF Refresh
<1>6. CASE Crash
  <2>1. \A q \in Requests : pc[q] = "lost" => pc'[q] = "lost"
    BY <1>6 DEF Crash, Ended
  <2>2. QED
    BY <1>6, <2>1 DEF Crash, Grown, CutOff
<1>7. CASE UNCHANGED issuanceVars
  BY <1>2, <1>7 DEF issuanceVars
<1>8. QED
  BY <1>3, <1>4, <1>5, <1>6, <1>7 DEF IssuanceNext

\* One request goes on, and not to a fingerprint of its own.
LEMMA QuietStep ==
  ASSUME KeyInv, NEW r \in Requests, NEW p, pc' = [pc EXCEPT ![r] = p], index' = index,
         band' = band, gone' = gone,
         \/ r \notin Fingerprinted /\ pc[r] # "inserting" /\ p # "inserting"
         \/ p \notin Past /\ pc[r] # "inserting"
         \/ pc[r] \in Past \ {"inserting"} /\ p \in (Past \ {"inserting"}) \union {"lost"}
         \/ r \in gone
  PROVE  Quiet
<1>1. \A q \in Requests : pc'[q] = IF q = r THEN p ELSE pc[q]
  BY DEF KeyInv, IssuanceTypes
<1>2. QED
  BY <1>1 DEF Quiet, CutOff, Past

\* Every step keeps what is known of the fingerprints.
LEMMA IndexNext ==
  ASSUME StoreFaults = FALSE, KeyInv, IndexInv, [IssuanceNext]_issuanceVars
  PROVE  IndexInv'
<1>1. Grown /\ IssuanceTypes /\ Issues \subseteq Requests /\ Reindexes \subseteq Requests
  BY StepsGrow DEF KeyInv, Requests
<1>2. ASSUME NEW i \in Issues, Issue(i) PROVE Quiet
  <2>1. CASE Lock(i)
    BY <1>1, <2>1, QuietStep DEF Lock, Past
  <2>2. CASE Miss(i)
    BY <1>1, <2>2, QuietStep DEF Miss, Past
  <2>3. CASE RefuseIssue(i)
    BY <1>1, <2>3, QuietStep DEF RefuseIssue, Past
  <2>4. CASE Store(i)
    BY <1>1, <2>4, QuietStep DEF Store, Past
  <2>5. CASE StoreFails(i)
    BY <1>1, <2>5, QuietStep DEF StoreFails, Past, Faulty
  <2>6. CASE Replay(i)
    <3>1. PICK p : p = AfterRow(i, "answering")
      OBVIOUS
    <3>2. \/ i \notin Fingerprinted /\ p = "answering"
          \/ p = "deleting"
      BY <3>1 DEF AfterRow
    <3>3. /\ pc' = [pc EXCEPT ![i] = p] /\ pc[i] = "locked"
          /\ UNCHANGED <<index, band, gone>>
      BY <2>6, <3>1 DEF Replay
    <3>4. QED
      BY <1>1, <3>2, <3>3, QuietStep DEF Past
  <2>7. CASE AppendRow(i)
    <3>1. PICK p : p = AfterRow(i, "storing")
      OBVIOUS
    <3>2. \/ i \notin Fingerprinted /\ p = "storing"
          \/ p = "deleting"
      BY <3>1 DEF AfterRow
    <3>3. /\ pc' = [pc EXCEPT ![i] = p] /\ pc[i] = "missed"
          /\ UNCHANGED <<index, band, gone>>
      BY <2>7, <3>1 DEF AppendRow
    <3>4. QED
      BY <1>1, <3>2, <3>3, QuietStep DEF Past
  <2>8. CASE AppendUnseen(i)
    <3>1. /\ \A q \in Requests : pc'[q] = IF q = i THEN "refused" ELSE pc[q]
          /\ pc[i] = "missed" /\ UNCHANGED <<index, band>>
      BY <1>1, <2>8 DEF AppendUnseen, IssuanceTypes
    <3>2. QED
      BY <3>1 DEF Quiet, Past
  <2>9. QED
    BY <1>2, <2>1, <2>2, <2>3, <2>4, <2>5, <2>6, <2>7, <2>8 DEF Issue
<1>3. ASSUME NEW x \in Reindexes, Reindex(x) PROVE Quiet
  <2>1. CASE LookUp(x)
    BY <1>1, <2>1, QuietStep DEF LookUp, Past
  <2>2. CASE RefuseReindex(x)
    BY <1>1, <2>2, QuietStep DEF RefuseReindex, Past
  <2>3. QED
    BY <1>3, <2>1, <2>2 DEF Reindex
<1>4. ASSUME NEW r \in Requests, DeleteFails(r) \/ InsertFails(r) PROVE Quiet
  <2>1. PICK p : pc' = [pc EXCEPT ![r] = p] /\ r \in gone /\ UNCHANGED <<index, band, gone>>
    BY <1>4 DEF DeleteFails, InsertFails, Faulty
  <2>2. QED
    BY <2>1, QuietStep
<1>5. ASSUME NEW r \in Requests, Respond(r) PROVE Quiet
  <2>1. PICK p \in {"lost", "created"} : p = IF r \in gone THEN "lost" ELSE "created"
    OBVIOUS
  <2>2. pc' = [pc EXCEPT ![r] = p] /\ pc[r] = "answering" /\ UNCHANGED <<index, band, gone>>
    BY <1>5, <2>1 DEF Respond
  <2>3. QED
    BY <2>1, <2>2, QuietStep DEF Past
<1>6. ASSUME NEW r \in Requests, Hangup(r) PROVE Quiet
  BY <1>6 DEF Hangup, Quiet
<1>7. ASSUME Crash PROVE Quiet
  <2>1. /\ \A r \in Requests :
              pc'[r] = IF pc[r] \in Ended \union {"new"} THEN pc[r] ELSE "lost"
        /\ UNCHANGED <<index, band>>
    BY <1>7 DEF Crash
  <2>2. ASSUME NEW s \in Requests
        PROVE  (pc'[s] = pc[s] /\ pc[s] # "inserting") \/ pc'[s] = "lost"
    BY <2>1 DEF Ended
  <2>3. QED
    BY <2>1, <2>2 DEF Quiet, CutOff, Past
<1>8. ASSUME UNCHANGED issuanceVars PROVE Quiet
  <2>1. pc' = pc /\ index' = index /\ band' = band
    BY <1>8 DEF issuanceVars
  <2>2. QED
    BY <2>1 DEF Quiet
<1>9. Quiet => IndexInv'
  BY <1>1, IndexQuiet
<1>10. ASSUME NEW r \in Requests, Refresh(r) PROVE IndexInv'
  BY <1>1, <1>4, <1>9, <1>10, IndexDeletes, IndexInserts DEF Refresh
<1>11. QED
  BY <1>2, <1>3, <1>5, <1>6, <1>7, <1>8, <1>9, <1>10 DEF IssuanceNext

\* It holds of every reachable state, if the store answers.
LEMMA IndexAlways == ASSUME StoreFaults = FALSE PROVE IssuanceSpec => []IndexInv
<1>1. IssuanceInit => IndexInv
  <2> SUFFICES ASSUME IssuanceInit PROVE IndexInv
    OBVIOUS
  <2>1. \A r \in Requests : pc[r] = "new" /\ ~CutOff(r)
    BY DEF IssuanceInit, CutOff
  <2>2. \A d : Entries(d) = {}
    BY DEF IssuanceInit, Entries
  <2>3. QED
    BY <2>1, <2>2, IssuanceAssumption DEF IndexInv, FingerprintGrows, OneFingerprint
<1>2. KeyInv /\ IndexInv /\ [IssuanceNext]_issuanceVars => IndexInv'
  BY IndexNext
<1>3. QED
  BY <1>1, <1>2, KeyAlways, PTL DEF IssuanceSpec

(***************************************************************************)
(* A document whose fingerprint was asked for can be found by every band   *)
(* of one fingerprint once nobody is at work on it, although reindexes     *)
(* hold no lock beside the issues, and issues leave one fingerprint of it, *)
(* unless a request for it was cut off (labels.go refreshFingerprint).     *)
(***************************************************************************)
THEOREM FingerprintsAreWhole ==
  ASSUME StoreFaults = FALSE
  PROVE  IssuanceSpec => []IndexIsComplete
<1>1. KeyInv /\ IndexInv => IndexIsComplete
  <2> SUFFICES ASSUME KeyInv, IndexInv PROVE IndexIsComplete
    OBVIOUS
  <2>1. Issues \subseteq Requests /\ Fingerprinted \subseteq Requests
    BY IssuanceAssumption DEF Requests
  <2>2. ASSUME NEW r \in Fingerprinted, pc[r] = "created",
               \A s \in Requests : ~Unsettled(s, Target(r))
        PROVE  \E f \in Fingerprinted :
                  \A b \in 1..Bands : [doc |-> Target(r), fp |-> f, band |-> b] \in index
    <3>1. PICK d : d = Target(r)
      OBVIOUS
    <3>2. About(r, d)
      BY <2>1, <2>2, <3>1, HasDocument DEF About, Past
    <3>3. d \in Docs
      <4>1. r \notin Reindexes => r \in Issues /\ got[r] # 0 /\ got[r] \in DOMAIN rows
        BY <2>1, <2>2 DEF KeyInv, HandlerFits, Requests
      <4>2. r \notin Reindexes => rows[got[r]] \in Requests
        BY <2>1, <4>1, RowTypes DEF KeyInv, IssuanceTypes
      <4>3. QED
        BY <2>1, <3>1, <4>2, IssuanceAssumption DEF Target, IssuanceAssumption
    <3>4. ASSUME NEW s \in Requests, About(s, d) PROVE ~CutOff(s) /\ pc[s] # "inserting"
      BY <2>2, <3>1, <3>4 DEF Unsettled, About
    <3>5. \E f \in Fingerprinted : HasAll(f, d, Bands)
      BY <2>2, <3>2, <3>3, <3>4 DEF IndexInv, FingerprintGrows
    <3>6. QED
      BY <3>1, <3>5 DEF HasAll
  <2>3. ASSUME NEW e \in index, NEW f \in index, e.doc = f.doc, {e.fp, f.fp} \subseteq Issues,
               \A r \in Issues : ~Unsettled(r, e.doc)
        PROVE  e.fp = f.fp
    <3>1. e.doc \in Docs
      BY DEF KeyInv, IssuanceTypes
    <3>2. ~\E s \in Issues : CutOff(s) /\ About(s, e.doc)
      BY <2>3 DEF Unsettled, About
    <3>3. e \in Entries(e.doc) /\ f \in Entries(e.doc)
      BY <2>3 DEF Entries
    <3>4. QED
      BY <2>3, <3>1, <3>2, <3>3 DEF IndexInv, OneFingerprint
  <2>4. QED
    BY <2>2, <2>3 DEF IndexIsComplete
<1>2. QED
  BY <1>1, KeyAlways, IndexAlways, PTL
===============================================================================
