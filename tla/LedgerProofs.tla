---------------------------- MODULE LedgerProofs ----------------------------
(***************************************************************************)
(* Theorems about Ledger, for any number of calls of Append, SealCheckpoint *)
(* and Verify and any arguments.                                           *)
(***************************************************************************)
EXTENDS Ledger, NatOrder, SequenceTheorems, TLAPS

-----------------------------------------------------------------------------
(* The chain and the queries *)

\* A row hash is a digest (hash.go RowHash).
LEMMA RowHashType ==
  ASSUME NEW h \in Digests, NEW n \in Nat, NEW b \in Bodies
  PROVE  RowHash(h, n, b) \in Digests
  BY AppendProperties DEF RowHash, Digests

\* The genesis hash is a digest (hash.go GenesisPrevHash).
LEMMA GenesisType == GenesisPrevHash \in Digests
  BY EmptySeq DEF GenesisPrevHash, Digests

\* Tip answers with the seq and hash of a row, or with 0 and the genesis hash.
LEMMA TipsType ==
  ASSUME rows \in Seq(Rows), NEW t \in Tips
  PROVE  t \in [seq : Nat, hash : Digests]
<1>1. CASE rows = << >>
  BY <1>1, GenesisType DEF Tips
<1>2. CASE rows # << >>
  <2>1. PICK i \in DOMAIN rows : t = [seq |-> rows[i].seq, hash |-> rows[i].rowHash]
    BY <1>2 DEF Tips
  <2>2. rows[i] \in Rows
    BY <2>1, LenProperties, ElementOfSeq
  <2>3. QED
    BY <2>1, <2>2 DEF Rows
<1>3. QED
  BY <1>1, <1>2

\* EventsRange returns a sequence of rows of the table.
LEMMA EventsRangeType ==
  ASSUME rows \in Seq(Rows), NEW from \in Nat, NEW to \in Nat,
         NEW events \in EventsRange(from, to)
  PROVE  events \in Seq(Rows)
<1> DEFINE hit == {i \in DOMAIN rows : from <= rows[i].seq /\ rows[i].seq <= to}
<1>1. DOMAIN rows = 1 .. Len(rows) /\ Len(rows) \in Nat
  BY LenProperties
<1>2. IsFiniteSet(hit)
  <2>1. IsFiniteSet(1 .. Len(rows)) /\ hit \in SUBSET (1 .. Len(rows))
    BY <1>1, FS_Interval
  <2>2. QED
    BY <2>1, FS_Subset
<1>3. Cardinality(hit) \in Nat
  BY <1>2, FS_CardinalityType
<1>4. PICK o \in [1 .. Cardinality(hit) -> hit] :
             events = [k \in DOMAIN o |-> rows[o[k]]]
  BY DEF EventsRange
<1> HIDE DEF hit
<1>5. \A i \in hit : rows[i] \in Rows
  BY <1>1, ElementOfSeq DEF hit
<1>6. events \in [1 .. Cardinality(hit) -> Rows]
  BY <1>4, <1>5
<1>7. QED
  BY <1>3, <1>6, SeqDef

\* The hash Verify starts from is a digest.
LEMMA AnchorType ==
  ASSUME rows \in Seq(Rows), NEW from \in Nat, NEW h \in AnchorHash(from)
  PROVE  h \in Digests
<1>1. CASE ~(from > 1)
  BY <1>1, GenesisType DEF AnchorHash
<1>2. CASE from > 1
  <2>1. PICK e \in EventsRange(from - 1, from - 1) : Len(e) = 1 /\ h = e[1].rowHash
    BY <1>2 DEF AnchorHash
  <2>2. from - 1 \in Nat
    BY <1>2
  <2>3. e \in Seq(Rows)
    BY <2>2, EventsRangeType
  <2>4. e[1] \in Rows
    <3>1. 1 \in 1 .. Len(e)
      BY <2>1
    <3>2. QED
      BY <2>3, <3>1, ElementOfSeq
  <2>5. QED
    BY <2>1, <2>4 DEF Rows
<1>3. QED
  BY <1>1, <1>2

\* VerifyChain answers 0 or the seq of one of the rows it was given.
LEMMA VerifyChainType ==
  ASSUME NEW events \in Seq(Rows), NEW h
  PROVE  VerifyChain(events, h) \in Nat
<1>1. CASE Broken(events, h) = {}
  BY <1>1 DEF VerifyChain
<1>2. CASE Broken(events, h) # {}
  <2>1. DOMAIN events = 1 .. Len(events)
    BY LenProperties
  <2>2. Broken(events, h) \subseteq Nat
    BY <2>1 DEF Broken
  <2>3. Min(Broken(events, h)) \in DOMAIN events
    BY <1>2, <2>2, MinIsLeast DEF Broken
  <2>4. events[Min(Broken(events, h))] \in Rows
    BY <2>1, <2>3, ElementOfSeq
  <2>5. QED
    BY <1>2, <2>4 DEF VerifyChain, Rows
<1>3. QED
  BY <1>1, <1>2

-----------------------------------------------------------------------------
(* Type correctness *)

\* What Append is about to insert is a row of the table.
LEMMA NewRowType ==
  ASSUME LedgerAssumption, TypeOK, NEW a \in Appends
  PROVE  NewRow(a) \in Rows
<1>1. a \in Bodies
  BY DEF LedgerAssumption
<1>2. tip[a].seq \in Nat /\ tip[a].hash \in Digests
  BY DEF TypeOK
<1>3. RowHash(tip[a].hash, tip[a].seq + 1, a) \in Digests
  BY <1>1, <1>2, RowHashType
<1>4. QED
  BY <1>1, <1>2, <1>3 DEF NewRow, Rows

\* What SealCheckpoint is about to insert is a checkpoint.
LEMMA NewCheckpointType ==
  ASSUME TypeOK, NEW s \in Seals
  PROVE  NewCheckpoint(s) \in Checkpoints
<1>1. span[s][1] \in Nat /\ span[s][2] \in Nat
  BY DEF TypeOK, Spans
<1>2. leaves[s] \in Seq(Digests)
  BY DEF TypeOK
<1>3. QED
  BY <1>1, <1>2 DEF NewCheckpoint, Checkpoints, MerkleRoot

\* The default start of a seal is a seq.
LEMMA NextUnsealedType ==
  ASSUME TypeOK
  PROVE  NextUnsealed \in Nat
<1>1. CASE ckpts = << >>
  BY <1>1 DEF NextUnsealed
<1>2. CASE ckpts # << >>
  <2>1. Len(ckpts) \in Nat \ {0}
    BY <1>2, EmptySeq DEF TypeOK
  <2>2. ckpts[Len(ckpts)] \in Checkpoints
    BY <2>1, ElementOfSeq DEF TypeOK
  <2>3. QED
    BY <1>2, <2>2 DEF NextUnsealed, Checkpoints
<1>3. QED
  BY <1>1, <1>2

\* The empty ledger is well typed.
LEMMA TypeInit == LedgerAssumption /\ Init => TypeOK
<1> SUFFICES ASSUME LedgerAssumption, Init PROVE TypeOK
  OBVIOUS
<1>1. rows \in Seq(Rows) /\ ckpts \in Seq(Checkpoints)
  BY EmptySeq DEF Init
<1>2. tip \in [Appends -> [seq : Nat, hash : Digests]]
  BY GenesisType DEF Init
<1>3. span \in [Seals \union Audits -> Spans]
  BY DEF Init, Spans
<1>4. leaves \in [Seals -> Seq(Digests)] /\ anchor \in [Audits -> Digests]
  BY EmptySeq, GenesisType DEF Init
<1>5. QED
  BY <1>1, <1>2, <1>3, <1>4 DEF Init, TypeOK

\* Each step of Append keeps the types.
LEMMA TypeAppend ==
  ASSUME LedgerAssumption, TypeOK, NEW a \in Appends, Append_(a)
  PROVE  TypeOK'
<1>1. NewRow(a) \in Rows
  BY NewRowType
<1>2. a \in Holders
  BY DEF Holders
<1>3. CASE AppendLock(a)
  BY <1>2, <1>3 DEF AppendLock, Acquire, TypeOK
<1>4. CASE AppendReadTip(a)
  <2>1. PICK t \in Tips : tip' = [tip EXCEPT ![a] = t]
    BY <1>4 DEF AppendReadTip
  <2>2. t \in [seq : Nat, hash : Digests]
    BY TipsType DEF TypeOK
  <2>3. tip' \in [Appends -> [seq : Nat, hash : Digests]]
    BY <2>1, <2>2 DEF TypeOK
  <2>4. QED
    BY <1>4, <2>3 DEF AppendReadTip, TypeOK
<1>5. CASE AppendInsert(a)
  <2>1. rows' \in Seq(Rows)
    BY <1>1, <1>5, AppendProperties DEF AppendInsert, TypeOK
  <2>2. QED
    BY <1>5, <2>1 DEF AppendInsert, Release, TypeOK
<1>6. CASE AppendFail(a)
  BY <1>6 DEF AppendFail, Fail, Release, TypeOK
<1>7. CASE AppendAbandon(a)
  <2>1. InsertRow(a) \in Statements
    BY <1>1 DEF InsertRow, Statements
  <2>2. QED
    BY <1>7, <2>1 DEF AppendAbandon, Release, TypeOK
<1>8. QED
  BY <1>3, <1>4, <1>5, <1>6, <1>7 DEF Append_

\* Each step of SealCheckpoint keeps the types.
LEMMA TypeSeal ==
  ASSUME LedgerAssumption, TypeOK, NEW s \in Seals, Seal(s)
  PROVE  TypeOK'
<1>1. NewCheckpoint(s) \in Checkpoints
  BY NewCheckpointType
<1>2. s \in Holders
  BY DEF Holders
<1>3. CASE SealLock(s)
  <2>1. span' \in [Seals \union Audits -> Spans]
    BY <1>3 DEF SealLock, TypeOK, LedgerAssumption
  <2>2. QED
    BY <1>2, <1>3, <2>1 DEF SealLock, Acquire, TypeOK
<1>4. CASE SealTo(s) \/ SealFrom(s)
  <2>1. span[s][1] \in Nat /\ span[s][2] \in Nat /\ span[s] = <<span[s][1], span[s][2]>>
    BY DEF TypeOK, Spans
  <2>2. ASSUME SealTo(s) PROVE span' \in [Seals \union Audits -> Spans]
    <3>1. PICK t \in Tips : span' = [span EXCEPT ![s][2] = IF @ = 0 THEN t.seq ELSE @]
      BY <2>2 DEF SealTo
    <3>2. t \in [seq : Nat, hash : Digests]
      BY TipsType DEF TypeOK
    <3>3. QED
      BY <2>1, <3>1, <3>2 DEF TypeOK, Spans
  <2>3. ASSUME SealFrom(s) PROVE span' \in [Seals \union Audits -> Spans]
    <3>1. NextUnsealed \in Nat
      BY NextUnsealedType
    <3>2. QED
      BY <2>1, <2>3, <3>1 DEF SealFrom, TypeOK, Spans
  <2>4. QED
    BY <1>4, <2>2, <2>3 DEF SealTo, SealFrom, TypeOK
<1>5. CASE SealRead(s)
  <2>1. span[s][1] \in Nat /\ span[s][2] \in Nat
    BY DEF TypeOK, Spans
  <2>2. PICK events \in EventsRange(span[s][1], span[s][2]) :
          leaves' = [leaves EXCEPT ![s] = [k \in DOMAIN events |-> events[k].rowHash]]
    BY <1>5 DEF SealRead
  <2>3. events \in Seq(Rows)
    BY <2>1, EventsRangeType DEF TypeOK
  <2>4. [k \in DOMAIN events |-> events[k].rowHash] \in Seq(Digests)
    <3>1. DOMAIN events = 1 .. Len(events) /\ Len(events) \in Nat
      BY <2>3, LenProperties
    <3>2. \A k \in 1 .. Len(events) : events[k] \in Rows
      BY <2>3, ElementOfSeq
    <3>3. [k \in DOMAIN events |-> events[k].rowHash] \in [1 .. Len(events) -> Digests]
      BY <3>1, <3>2 DEF Rows
    <3>4. QED
      BY <3>1, <3>3, SeqDef
  <2>5. leaves' \in [Seals -> Seq(Digests)]
    BY <2>2, <2>4 DEF TypeOK
  <2>6. QED
    BY <1>5, <2>5 DEF SealRead, TypeOK
<1>6. CASE SealInsert(s)
  <2>1. ckpts' \in Seq(Checkpoints)
    BY <1>1, <1>6, AppendProperties DEF SealInsert, TypeOK
  <2>2. QED
    BY <1>6, <2>1 DEF SealInsert, Release, TypeOK
<1>7. CASE SealFail(s)
  BY <1>7 DEF SealFail, Fail, Release, TypeOK
<1>8. CASE SealAbandon(s)
  <2>1. InsertCheckpoint(s) \in Statements
    BY <1>1 DEF InsertCheckpoint, Statements
  <2>2. QED
    BY <1>8, <2>1 DEF SealAbandon, Release, TypeOK
<1>9. QED
  BY <1>3, <1>4, <1>5, <1>6, <1>7, <1>8 DEF Seal

\* Each step of Verify keeps the types.
LEMMA TypeAudit ==
  ASSUME LedgerAssumption, TypeOK, NEW v \in Audits, Audit(v)
  PROVE  TypeOK'
<1>1. v \in Calls
  BY DEF Calls
<1>2. span[v][1] \in Nat /\ span[v][2] \in Nat
  BY DEF TypeOK, Spans
<1>3. CASE AuditTip(v)
  <2>1. PICK r \in AuditRanges, t \in Tips :
          span' = [span EXCEPT ![v] = <<IF r[1] < 1 THEN 1 ELSE r[1],
                                        IF r[2] = 0 THEN t.seq ELSE r[2]>>]
    BY <1>3 DEF AuditTip
  <2>2. r \in Nat \X Nat /\ t \in [seq : Nat, hash : Digests]
    BY TipsType DEF TypeOK, LedgerAssumption, Spans
  <2>3. span' \in [Seals \union Audits -> Spans]
    BY <2>1, <2>2 DEF TypeOK, Spans
  <2>4. QED
    BY <1>1, <1>3, <2>3 DEF AuditTip, TypeOK
<1>4. CASE AuditEmpty(v)
  BY <1>1, <1>4 DEF AuditEmpty, TypeOK
<1>5. CASE AuditAnchor(v)
  <2>1. PICK h \in AnchorHash(span[v][1]) : anchor' = [anchor EXCEPT ![v] = h]
    BY <1>5 DEF AuditAnchor
  <2>2. h \in Digests
    BY <1>2, AnchorType DEF TypeOK
  <2>3. anchor' \in [Audits -> Digests]
    BY <2>1, <2>2 DEF TypeOK
  <2>4. QED
    BY <1>1, <1>5, <2>3 DEF AuditAnchor, TypeOK
<1>6. CASE AuditChain(v)
  <2>1. PICK events \in EventsRange(span[v][1], span[v][2]) :
          badSeq' = [badSeq EXCEPT ![v] = VerifyChain(events, anchor[v])]
    BY <1>6 DEF AuditChain
  <2>2. VerifyChain(events, anchor[v]) \in Nat
    BY <1>2, EventsRangeType, VerifyChainType DEF TypeOK
  <2>3. badSeq' \in [Audits -> Nat]
    BY <2>1, <2>2 DEF TypeOK
  <2>4. QED
    BY <1>1, <1>6, <2>3 DEF AuditChain, TypeOK
<1>7. CASE AuditFail(v)
  BY <1>1, <1>7 DEF AuditFail, TypeOK
<1>8. QED
  BY <1>3, <1>4, <1>5, <1>6, <1>7 DEF Audit

\* A statement that outlived its call keeps the types, executed or not.
LEMMA TypeWire ==
  ASSUME TypeOK, NEW i \in wire, Execute(i) \/ Discard(i)
  PROVE  TypeOK'
<1>1. i \in Statements
  BY DEF TypeOK
<1>2. CASE Execute(i)
  <2>1. CASE i.table = "ledger_event" /\ rows' = Append(rows, i.row) /\ UNCHANGED ckpts
    <3>1. i.row \in Rows
      BY <1>1, <2>1 DEF Statements
    <3>2. rows' \in Seq(Rows)
      BY <2>1, <3>1, AppendProperties DEF TypeOK
    <3>3. QED
      BY <1>2, <2>1, <3>2 DEF Execute, TypeOK
  <2>2. CASE i.table = "checkpoint" /\ ckpts' = Append(ckpts, i.row) /\ UNCHANGED rows
    <3>1. i.row \in Checkpoints
      BY <1>1, <2>2 DEF Statements
    <3>2. ckpts' \in Seq(Checkpoints)
      BY <2>2, <3>1, AppendProperties DEF TypeOK
    <3>3. QED
      BY <1>2, <2>2, <3>2 DEF Execute, TypeOK
  <2>3. QED
    BY <1>2, <2>1, <2>2 DEF Execute
<1>3. CASE Discard(i)
  BY <1>3 DEF Discard, TypeOK
<1>4. QED
  BY <1>2, <1>3

\* Every step of every call keeps the types.
LEMMA TypeNext == LedgerAssumption /\ TypeOK /\ [Next]_vars => TypeOK'
<1> SUFFICES ASSUME LedgerAssumption, TypeOK, [Next]_vars PROVE TypeOK'
  OBVIOUS
<1>1. CASE UNCHANGED vars
  BY <1>1 DEF vars, TypeOK
<1>2. ASSUME NEW a \in Appends, Append_(a) PROVE TypeOK'
  BY <1>2, TypeAppend
<1>3. ASSUME NEW s \in Seals, Seal(s) PROVE TypeOK'
  BY <1>3, TypeSeal
<1>4. ASSUME NEW v \in Audits, Audit(v) PROVE TypeOK'
  BY <1>4, TypeAudit
<1>5. ASSUME NEW i \in wire, Execute(i) \/ Discard(i) PROVE TypeOK'
  BY <1>5, TypeWire
<1>6. QED
  BY <1>1, <1>2, <1>3, <1>4, <1>5 DEF Next

(***************************************************************************)
(* Every variable of the writer and its store keeps its type, whatever the *)
(* store does with statements that outlive their calls (writer.go,         *)
(* store/{memory,postgres}.go).                                            *)
(***************************************************************************)
THEOREM TypeCorrect == Spec => []TypeOK
  BY LedgerAssumption, TypeInit, TypeNext, PTL DEF Spec

-----------------------------------------------------------------------------
(* One chain, and truthful answers *)

\* With one gap-free chain, Tip has one answer: the last row, or genesis.
LEMMA TipOfChain ==
  ASSUME rows \in Seq(Rows), OneChain, NEW t \in Tips
  PROVE  t = [seq  |-> Len(rows),
              hash |-> HashBefore(rows, GenesisPrevHash, Len(rows) + 1)]
<1>1. DOMAIN rows = 1 .. Len(rows) /\ Len(rows) \in Nat
  BY LenProperties
<1>2. CASE rows = << >>
  <2>1. Len(rows) = 0
    BY <1>2
  <2>2. QED
    BY <1>2, <2>1 DEF Tips, HashBefore
<1>3. CASE rows # << >>
  <2>1. Len(rows) \in DOMAIN rows
    BY <1>1, <1>3, EmptySeq
  <2>2. PICK i \in DOMAIN rows :
          /\ t = [seq |-> rows[i].seq, hash |-> rows[i].rowHash]
          /\ \A j \in DOMAIN rows : rows[j].seq <= rows[i].seq
    BY <1>3 DEF Tips
  <2>3. i = Len(rows)
    BY <1>1, <2>1, <2>2 DEF OneChain
  <2>4. rows[i].seq = Len(rows)
    BY <2>2, <2>3 DEF OneChain
  <2>5. HashBefore(rows, GenesisPrevHash, Len(rows) + 1) = rows[Len(rows)].rowHash
    BY <1>1, <2>1 DEF HashBefore
  <2>6. QED
    BY <2>2, <2>3, <2>4, <2>5
<1>4. QED
  BY <1>2, <1>3

\* Appending a row whose fields were computed from the tip extends the chain.
LEMMA ChainGrows ==
  ASSUME LedgerAssumption, TypeOK, OneChain, NEW a \in Appends,
         tip[a] = [seq  |-> Len(rows),
                   hash |-> HashBefore(rows, GenesisPrevHash, Len(rows) + 1)],
         rows' = Append(rows, NewRow(a))
  PROVE  OneChain'
<1>1. rows \in Seq(Rows) /\ NewRow(a) \in Rows
  BY NewRowType DEF TypeOK
<1>2. DOMAIN rows = 1 .. Len(rows) /\ Len(rows) \in Nat
  BY <1>1, LenProperties
<1>3. /\ rows' \in Seq(Rows)
      /\ Len(rows') = Len(rows) + 1
      /\ \A k \in 1 .. Len(rows) : rows'[k] = rows[k]
      /\ rows'[Len(rows) + 1] = NewRow(a)
  BY <1>1, AppendProperties
<1>4. DOMAIN rows' = 1 .. (Len(rows) + 1)
  BY <1>3, LenProperties
<1>5. \A k \in 1 .. (Len(rows) + 1) :
        HashBefore(rows', GenesisPrevHash, k) = HashBefore(rows, GenesisPrevHash, k)
  BY <1>2, <1>3 DEF HashBefore
<1>6. SUFFICES ASSUME NEW k \in DOMAIN rows'
               PROVE  /\ rows'[k].seq = k
                      /\ rows'[k].prevHash = HashBefore(rows', GenesisPrevHash, k)
                      /\ rows'[k].rowHash = EventRowHash(rows'[k])
  BY DEF OneChain
<1>7. CASE k \in 1 .. Len(rows)
  BY <1>2, <1>3, <1>5, <1>7 DEF OneChain
<1>8. CASE k = Len(rows) + 1
  <2>1. rows'[k] = NewRow(a)
    BY <1>3, <1>8
  <2>2. QED
    BY <1>4, <1>5, <1>8, <2>1 DEF NewRow, EventRowHash
<1>9. QED
  BY <1>2, <1>4, <1>7, <1>8

\* The empty ledger is a chain.
LEMMA ChainInit == LedgerAssumption /\ Init => ChainInv
<1> SUFFICES ASSUME LedgerAssumption, Init PROVE ChainInv
  OBVIOUS
<1>1. MutexInv
  BY DEF LedgerAssumption, Init, MutexInv, InProgress, Holders, Calls
<1>2. TipIsCurrent
  BY DEF Init, TipIsCurrent, Calls, Holders
<1>3. WireIsEmpty
  BY DEF Init, WireIsEmpty
<1>4. OneChain /\ AnswersMatchRows
  BY DEF Init, OneChain, AnswersMatchRows, Calls, Holders
<1>5. QED
  BY <1>1, <1>2, <1>3, <1>4 DEF ChainInv

\* A step that inserts no row and does not answer a call of Append leaves the
\* chain and the answers as they were.
LEMMA QuietStep ==
  ASSUME ChainInv, UNCHANGED rows, UNCHANGED wire,
         \A a \in Appends : pc'[a] = "ok" <=> pc[a] = "ok"
  PROVE  WireIsEmpty' /\ OneChain' /\ AnswersMatchRows'
<1>1. WireIsEmpty'
  BY DEF ChainInv, WireIsEmpty
<1>2. OneChain'
  BY DEF ChainInv, OneChain, HashBefore, EventRowHash
<1>3. AnswersMatchRows'
  BY DEF ChainInv, AnswersMatchRows
<1>4. QED
  BY <1>1, <1>2, <1>3

\* A step of Append: only the caller that holds the mutex reaches the INSERT.
LEMMA ChainAppend ==
  ASSUME LedgerAssumption, TypeOK, ChainInv, ~LateCommit,
         NEW a \in Appends, Append_(a)
  PROVE  ChainInv'
<1>1. a \in Holders /\ a \in Calls /\ a # NoOne
  BY DEF Holders, Calls, LedgerAssumption
<1>2. pc \in [Calls -> {"waiting", "locked", "bounded", "resolved", "anchored",
                        "read", "ok", "failed"}]
  BY DEF TypeOK
<1>3. Holders \subseteq Calls /\ Appends \subseteq Holders /\ NoOne \notin Holders
  BY DEF Holders, Calls, LedgerAssumption
<1>4. CASE AppendLock(a)
  <2>1. mu = NoOne /\ mu' = a /\ pc' = [pc EXCEPT ![a] = "locked"] /\ pc[a] = "waiting"
    BY <1>4 DEF AppendLock, Acquire
  <2>2. MutexInv'
    BY <1>1, <1>2, <1>3, <2>1 DEF ChainInv, MutexInv, InProgress
  <2>3. TipIsCurrent'
    BY <1>1, <1>2, <1>3, <1>4, <2>1 DEF AppendLock, ChainInv, TipIsCurrent, HashBefore
  <2>4. WireIsEmpty' /\ OneChain' /\ AnswersMatchRows'
    BY <1>2, <1>3, <1>4, <2>1, QuietStep DEF AppendLock
  <2>5. QED
    BY <2>2, <2>3, <2>4 DEF ChainInv
<1>5. CASE AppendReadTip(a)
  <2>1. PICK t \in Tips : tip' = [tip EXCEPT ![a] = t]
    BY <1>5 DEF AppendReadTip
  <2>2. t = [seq  |-> Len(rows),
             hash |-> HashBefore(rows, GenesisPrevHash, Len(rows) + 1)]
    BY TipOfChain DEF TypeOK, ChainInv
  <2>3. pc[a] = "locked" /\ pc' = [pc EXCEPT ![a] = "read"] /\ UNCHANGED <<mu, rows, wire>>
    BY <1>5 DEF AppendReadTip
  <2>4. MutexInv'
    BY <1>1, <1>2, <1>3, <2>3 DEF ChainInv, MutexInv, InProgress
  <2>5. TipIsCurrent'
    BY <1>2, <1>3, <2>1, <2>2, <2>3 DEF TypeOK, ChainInv, TipIsCurrent, HashBefore
  <2>6. WireIsEmpty' /\ OneChain' /\ AnswersMatchRows'
    BY <1>2, <1>3, <2>3, QuietStep
  <2>7. QED
    BY <2>4, <2>5, <2>6 DEF ChainInv
<1>6. CASE AppendInsert(a)
  <2>1. /\ pc[a] = "read"
        /\ rows' = Append(rows, NewRow(a))
        /\ mu' = NoOne
        /\ pc' = [pc EXCEPT ![a] = "ok"]
        /\ UNCHANGED <<wire, tip>>
    BY <1>6 DEF AppendInsert, Release
  <2>2. mu = a
    BY <1>1, <2>1 DEF ChainInv, MutexInv, InProgress
  <2>3. MutexInv'
    BY <1>1, <1>2, <1>3, <2>1, <2>2 DEF ChainInv, MutexInv, InProgress
  <2>4. TipIsCurrent'
    <3>1. \A b \in Appends : pc'[b] # "read"
      BY <1>1, <1>2, <1>3, <2>1, <2>3 DEF MutexInv, InProgress
    <3>2. QED
      BY <3>1 DEF TipIsCurrent
  <2>5. WireIsEmpty'
    BY <2>1 DEF ChainInv, WireIsEmpty
  <2>6. OneChain'
    BY <2>1, ChainGrows DEF ChainInv, TipIsCurrent
  <2>7. AnswersMatchRows'
    <3>1. rows \in Seq(Rows) /\ NewRow(a) \in Rows /\ NewRow(a).body = a
      BY NewRowType DEF TypeOK, NewRow
    <3>2. /\ DOMAIN rows = 1 .. Len(rows) /\ Len(rows) \in Nat
          /\ DOMAIN rows' = 1 .. (Len(rows) + 1)
          /\ \A k \in 1 .. Len(rows) : rows'[k] = rows[k]
          /\ rows'[Len(rows) + 1] = NewRow(a)
      BY <2>1, <3>1, AppendProperties, LenProperties
    <3>3. \A k \in DOMAIN rows : rows[k].body # a
      BY <2>1 DEF ChainInv, AnswersMatchRows
    <3>4. \A b \in Appends :
            pc'[b] = "ok" <=> \E k \in DOMAIN rows' : rows'[k].body = b
      <4>1. SUFFICES ASSUME NEW b \in Appends
                     PROVE  pc'[b] = "ok" <=> \E k \in DOMAIN rows' : rows'[k].body = b
        OBVIOUS
      <4>2. CASE b = a
        BY <1>1, <1>2, <2>1, <3>1, <3>2, <4>2
      <4>3. CASE b # a
        <5>1. pc'[b] = "ok" <=> pc[b] = "ok"
          BY <1>2, <1>3, <2>1, <4>3
        <5>2. pc[b] = "ok" <=> \E k \in DOMAIN rows : rows[k].body = b
          BY DEF ChainInv, AnswersMatchRows
        <5>3. (\E k \in DOMAIN rows : rows[k].body = b)
                <=> \E k \in DOMAIN rows' : rows'[k].body = b
          BY <3>1, <3>2, <4>3
        <5>4. QED
          BY <5>1, <5>2, <5>3
      <4>4. QED
        BY <4>2, <4>3
    <3>5. \A j, k \in DOMAIN rows' : rows'[j].body = rows'[k].body => j = k
      <4>1. \A j, k \in 1 .. Len(rows) : rows[j].body = rows[k].body => j = k
        BY <3>2 DEF ChainInv, AnswersMatchRows
      <4>2. QED
        BY <3>1, <3>2, <3>3, <4>1
    <3>6. QED
      BY <3>4, <3>5 DEF AnswersMatchRows
  <2>8. QED
    BY <2>3, <2>4, <2>5, <2>6, <2>7 DEF ChainInv
<1>7. CASE AppendFail(a)
  <2>1. /\ pc[a] \in {"locked", "read"}
        /\ mu' = NoOne
        /\ pc' = [pc EXCEPT ![a] = "failed"]
        /\ UNCHANGED <<rows, wire, tip>>
    BY <1>7 DEF AppendFail, Fail, Release
  <2>2. mu = a
    BY <1>1, <2>1 DEF ChainInv, MutexInv, InProgress
  <2>3. MutexInv'
    BY <1>1, <1>2, <1>3, <2>1, <2>2 DEF ChainInv, MutexInv, InProgress
  <2>4. TipIsCurrent'
    BY <1>2, <1>3, <2>1 DEF ChainInv, TipIsCurrent, HashBefore
  <2>5. WireIsEmpty' /\ OneChain' /\ AnswersMatchRows'
    BY <1>2, <1>3, <2>1, QuietStep
  <2>6. QED
    BY <2>3, <2>4, <2>5 DEF ChainInv
<1>8. CASE AppendAbandon(a)
  BY <1>8 DEF AppendAbandon
<1>9. QED
  BY <1>4, <1>5, <1>6, <1>7, <1>8 DEF Append_

\* A step of SealCheckpoint: it writes no row.
LEMMA ChainSeal ==
  ASSUME LedgerAssumption, TypeOK, ChainInv, ~LateCommit,
         NEW s \in Seals, Seal(s)
  PROVE  ChainInv'
<1>1. s \in Holders /\ s \in Calls /\ s # NoOne /\ s \notin Appends
  BY DEF Holders, Calls, LedgerAssumption
<1>2. pc \in [Calls -> {"waiting", "locked", "bounded", "resolved", "anchored",
                        "read", "ok", "failed"}]
  BY DEF TypeOK
<1>3. Holders \subseteq Calls /\ Appends \subseteq Holders /\ NoOne \notin Holders
  BY DEF Holders, Calls, LedgerAssumption
<1>4. UNCHANGED <<rows, wire, tip>>
  BY DEF Seal, SealLock, SealTo, SealFrom, SealRead, SealInsert, SealFail, Fail, SealAbandon
<1>5. \A a \in Appends : pc'[a] = pc[a]
  BY <1>1, <1>2, <1>3 DEF Seal, SealLock, Acquire, SealTo, SealFrom, SealRead, SealInsert,
                          Release, SealFail, Fail, SealAbandon
<1>6. MutexInv'
  <2>1. CASE SealLock(s)
    BY <1>1, <1>2, <1>3, <2>1 DEF SealLock, Acquire, ChainInv, MutexInv, InProgress
  <2>2. CASE SealTo(s) \/ SealFrom(s)
    BY <1>1, <1>2, <1>3, <2>2 DEF SealTo, SealFrom, ChainInv, MutexInv, InProgress
  <2>3. CASE SealRead(s)
    BY <1>1, <1>2, <1>3, <2>3 DEF SealRead, ChainInv, MutexInv, InProgress
  <2>4. CASE SealInsert(s)
    BY <1>1, <1>2, <1>3, <2>4 DEF SealInsert, Release, ChainInv, MutexInv, InProgress
  <2>5. CASE SealFail(s)
    BY <1>1, <1>2, <1>3, <2>5 DEF SealFail, Fail, Release, ChainInv, MutexInv, InProgress
  <2>6. CASE SealAbandon(s)
    BY <2>6 DEF SealAbandon
  <2>7. QED
    BY <2>1, <2>2, <2>3, <2>4, <2>5, <2>6 DEF Seal
<1>7. TipIsCurrent'
  BY <1>4, <1>5 DEF ChainInv, TipIsCurrent, HashBefore
<1>8. WireIsEmpty' /\ OneChain' /\ AnswersMatchRows'
  BY <1>4, <1>5, QuietStep
<1>9. QED
  BY <1>6, <1>7, <1>8 DEF ChainInv

\* A step of Verify: it writes nothing.
LEMMA ChainAudit ==
  ASSUME LedgerAssumption, TypeOK, ChainInv, NEW v \in Audits, Audit(v)
  PROVE  ChainInv'
<1>1. v \notin Holders /\ Holders \subseteq Calls /\ Appends \subseteq Holders
  BY DEF Holders, Calls, LedgerAssumption
<1>2. UNCHANGED <<rows, wire, tip, mu>>
  BY DEF Audit, AuditTip, AuditEmpty, AuditAnchor, AuditChain, AuditFail
<1>3. \A c \in Holders : pc'[c] = pc[c]
  BY <1>1 DEF Audit, AuditTip, AuditEmpty, AuditAnchor, AuditChain, AuditFail, TypeOK
<1>4. MutexInv'
  BY <1>2, <1>3 DEF ChainInv, MutexInv
<1>5. TipIsCurrent'
  BY <1>1, <1>2, <1>3 DEF ChainInv, TipIsCurrent, HashBefore
<1>6. WireIsEmpty' /\ OneChain' /\ AnswersMatchRows'
  BY <1>1, <1>2, <1>3, QuietStep
<1>7. QED
  BY <1>4, <1>5, <1>6 DEF ChainInv

\* Every step keeps the chain.
LEMMA ChainNext ==
  ASSUME LedgerAssumption, TypeOK, ChainInv, ~LateCommit, [Next]_vars
  PROVE  ChainInv'
<1>1. CASE UNCHANGED vars
  <2>1. UNCHANGED <<rows, wire, mu, pc, tip>>
    BY <1>1 DEF vars
  <2>2. MutexInv' /\ TipIsCurrent'
    BY <2>1 DEF ChainInv, MutexInv, TipIsCurrent, HashBefore
  <2>3. WireIsEmpty' /\ OneChain' /\ AnswersMatchRows'
    BY <2>1, QuietStep
  <2>4. QED
    BY <2>2, <2>3 DEF ChainInv
<1>2. ASSUME NEW a \in Appends, Append_(a) PROVE ChainInv'
  BY <1>2, ChainAppend
<1>3. ASSUME NEW s \in Seals, Seal(s) PROVE ChainInv'
  BY <1>3, ChainSeal
<1>4. ASSUME NEW v \in Audits, Audit(v) PROVE ChainInv'
  BY <1>4, ChainAudit
<1>5. wire = {}
  BY DEF ChainInv, WireIsEmpty
<1>6. QED
  BY <1>1, <1>2, <1>3, <1>4, <1>5 DEF Next

\* The chain holds of every reachable state.
LEMMA ChainAlways ==
  ASSUME ~LateCommit
  PROVE  Spec => [](TypeOK /\ ChainInv)
<1>1. Init => TypeOK /\ ChainInv
  BY LedgerAssumption, TypeInit, ChainInit
<1>2. TypeOK /\ ChainInv /\ [Next]_vars => (TypeOK /\ ChainInv)'
  BY LedgerAssumption, TypeNext, ChainNext
<1>3. QED
  BY <1>1, <1>2, PTL DEF Spec

(***************************************************************************)
(* As long as no INSERT outlives its call, the ledger is one gap-free      *)
(* chain, however calls of Append, SealCheckpoint and Verify interleave    *)
(* and whichever of their queries fail (writer.go Append).                 *)
(***************************************************************************)
THEOREM LedgerIsOneChain ==
  ASSUME ~LateCommit
  PROVE  Spec => []OneChain
<1>1. TypeOK /\ ChainInv => OneChain
  BY DEF ChainInv
<1>2. QED
  BY <1>1, ChainAlways, PTL

(***************************************************************************)
(* Under the same condition an error of Append means that the row is not   *)
(* there and never will be, and success that it is there once.             *)
(***************************************************************************)
THEOREM AppendAnswersTruly ==
  ASSUME ~LateCommit
  PROVE  Spec => []AnswersMatchRows
<1>1. TypeOK /\ ChainInv => AnswersMatchRows
  BY DEF ChainInv
<1>2. QED
  BY <1>1, ChainAlways, PTL

-----------------------------------------------------------------------------
(***************************************************************************)
(* What holds even when an INSERT outlives its call: what is left of the   *)
(* chain, and of the promise to the caller of Append.                      *)
(***************************************************************************)
(* Tables that only grow *)

\* The log is the beginning of what it becomes.
Grows(old, new) ==
    /\ DOMAIN old \subseteq DOMAIN new
    /\ \A k \in DOMAIN old : new[k] = old[k]

\* An INSERT makes a table grow by its row (store CreateEvent).
LEMMA InsertGrows ==
  ASSUME NEW S, NEW log \in Seq(S), NEW e \in S
  PROVE  /\ Grows(log, Append(log, e))
         /\ Append(log, e) \in Seq(S)
         /\ DOMAIN Append(log, e) = 1 .. (Len(log) + 1)
         /\ DOMAIN log = 1 .. Len(log)
         /\ Len(log) \in Nat
         /\ Append(log, e)[Len(log) + 1] = e
<1>1. DOMAIN log = 1 .. Len(log) /\ Len(log) \in Nat
  BY LenProperties
<1>2. /\ Append(log, e) \in Seq(S)
      /\ Len(Append(log, e)) = Len(log) + 1
      /\ \A k \in 1 .. Len(log) : Append(log, e)[k] = log[k]
      /\ Append(log, e)[Len(log) + 1] = e
  BY AppendProperties
<1>3. DOMAIN Append(log, e) = 1 .. (Len(log) + 1)
  BY <1>2, LenProperties
<1>4. QED
  BY <1>1, <1>2, <1>3 DEF Grows

\* What continues a log continues every log that grew from it.
LEMMA ContinuesStays ==
  ASSUME NEW old, NEW new, Grows(old, new), NEW n, NEW h, Continues(n, h, old)
  PROVE  Continues(n, h, new)
  BY DEF Grows, Continues

\* The answer of Tip is something a row can continue.
LEMMA TipContinues ==
  ASSUME rows \in Seq(Rows), NEW t \in Tips
  PROVE  Continues(t.seq + 1, t.hash, rows)
<1>1. CASE rows = << >>
  BY <1>1 DEF Tips, Continues
<1>2. CASE rows # << >>
  <2>1. PICK i \in DOMAIN rows : t = [seq |-> rows[i].seq, hash |-> rows[i].rowHash]
    BY <1>2 DEF Tips
  <2>2. QED
    BY <2>1 DEF Continues
<1>3. QED
  BY <1>1, <1>2

\* A row that continues the log and carries its own hash extends the tree.
LEMMA TreeGrows ==
  ASSUME rows \in Seq(Rows), OneTree, NEW e \in Rows,
         e.rowHash = EventRowHash(e), Continues(e.seq, e.prevHash, rows),
         rows' = Append(rows, e)
  PROVE  OneTree' /\ Grows(rows, rows')
<1>1. /\ Grows(rows, rows')
      /\ DOMAIN rows' = 1 .. (Len(rows) + 1)
      /\ DOMAIN rows = 1 .. Len(rows)
      /\ Len(rows) \in Nat
      /\ rows'[Len(rows) + 1] = e
  BY InsertGrows
<1>2. SUFFICES ASSUME NEW k \in DOMAIN rows'
               PROVE  /\ rows'[k].rowHash = EventRowHash(rows'[k])
                      /\ \/ rows'[k].seq = 1 /\ rows'[k].prevHash = GenesisPrevHash
                         \/ \E j \in 1 .. (k - 1) :
                               /\ rows'[j].rowHash = rows'[k].prevHash
                               /\ rows'[k].seq = rows'[j].seq + 1
  BY <1>1 DEF OneTree
<1>3. CASE k \in DOMAIN rows
  <2>1. rows'[k] = rows[k]
    BY <1>1, <1>3 DEF Grows
  <2>2. \A j \in 1 .. (k - 1) : rows'[j] = rows[j]
    BY <1>1, <1>3 DEF Grows
  <2>3. QED
    BY <1>3, <2>1, <2>2 DEF OneTree
<1>4. CASE k = Len(rows) + 1
  <2>1. rows'[k] = e
    BY <1>1, <1>4
  <2>2. CASE e.seq = 1 /\ e.prevHash = GenesisPrevHash
    BY <2>1, <2>2
  <2>3. CASE \E j \in DOMAIN rows : rows[j].rowHash = e.prevHash /\ e.seq = rows[j].seq + 1
    <3>1. PICK j \in DOMAIN rows : rows[j].rowHash = e.prevHash /\ e.seq = rows[j].seq + 1
      BY <2>3
    <3>2. j \in 1 .. (k - 1) /\ rows'[j] = rows[j]
      BY <1>1, <1>4 DEF Grows
    <3>3. QED
      BY <2>1, <3>1, <3>2
  <2>4. QED
    BY <2>1, <2>2, <2>3 DEF Continues
<1>5. QED
  BY <1>1, <1>3, <1>4

-----------------------------------------------------------------------------
(* The invariant *)

\* What Append is about to insert carries its own hash and continues a row.
LEMMA NewRowContinues ==
  ASSUME LedgerAssumption, TypeOK, TipIsStored, NEW a \in Appends, pc[a] = "read"
  PROVE  /\ NewRow(a) \in Rows
         /\ NewRow(a).rowHash = EventRowHash(NewRow(a))
         /\ Continues(NewRow(a).seq, NewRow(a).prevHash, rows)
<1>1. NewRow(a) \in Rows
  BY NewRowType
<1>2. NewRow(a).rowHash = EventRowHash(NewRow(a))
  BY DEF NewRow, EventRowHash
<1>3. NewRow(a).seq = tip[a].seq + 1 /\ NewRow(a).prevHash = tip[a].hash
  BY DEF NewRow
<1>4. QED
  BY <1>1, <1>2, <1>3 DEF TipIsStored

\* The parts about tips and acknowledgements survive when the table grows.
LEMMA StoredStays ==
  ASSUME Grows(rows, rows'), TipIsStored, AckedStored, UNCHANGED <<pc, tip>>
  PROVE  TipIsStored' /\ AckedStored'
<1>1. TipIsStored'
  <2>1. SUFFICES ASSUME NEW a \in Appends, pc'[a] = "read"
                 PROVE  Continues(tip'[a].seq + 1, tip'[a].hash, rows')
    BY DEF TipIsStored
  <2>2. Continues(tip[a].seq + 1, tip[a].hash, rows)
    BY <2>1 DEF TipIsStored
  <2>3. QED
    BY <2>2, ContinuesStays
<1>2. AckedStored'
  BY DEF AckedStored, Grows
<1>3. QED
  BY <1>1, <1>2

\* So do the INSERTs on the wire.
LEMMA WireStays ==
  ASSUME Grows(rows, rows'), WireContinues, wire' \subseteq wire
  PROVE  WireContinues'
<1>1. SUFFICES ASSUME NEW i \in wire', i.table = "ledger_event"
               PROVE  /\ i.row.rowHash = EventRowHash(i.row)
                      /\ Continues(i.row.seq, i.row.prevHash, rows')
  BY DEF WireContinues
<1>2. /\ i.row.rowHash = EventRowHash(i.row)
      /\ Continues(i.row.seq, i.row.prevHash, rows)
  BY <1>1 DEF WireContinues
<1>3. QED
  BY <1>2, ContinuesStays

\* The empty ledger is a tree.
LEMMA TreeInit == Init => TreeInv
  BY DEF Init, TreeInv, TipIsStored, WireContinues, OneTree, AckedStored, Calls, Holders

\* Each step of Append keeps the invariant.
LEMMA TreeAppend ==
  ASSUME LedgerAssumption, TypeOK, TreeInv, NEW a \in Appends, Append_(a)
  PROVE  TreeInv'
<1>1. pc \in [Calls -> {"waiting", "locked", "bounded", "resolved", "anchored",
                        "read", "ok", "failed"}]
      /\ a \in Calls /\ Appends \subseteq Calls
  BY DEF TypeOK, Calls, Holders
<1>2. tip \in [Appends -> [seq : Nat, hash : Digests]] /\ rows \in Seq(Rows)
  BY DEF TypeOK
<1>3. CASE AppendLock(a)
  BY <1>1, <1>3 DEF AppendLock, Acquire, TreeInv, TipIsStored, WireContinues, OneTree,
                    AckedStored
<1>4. CASE AppendReadTip(a)
  <2>1. PICK t \in Tips : tip' = [tip EXCEPT ![a] = t]
    BY <1>4 DEF AppendReadTip
  <2>2. Continues(t.seq + 1, t.hash, rows)
    BY <1>2, TipContinues
  <2>3. TipIsStored'
    BY <1>1, <1>2, <1>4, <2>1, <2>2 DEF AppendReadTip, TreeInv, TipIsStored
  <2>4. WireContinues' /\ OneTree' /\ AckedStored'
    BY <1>1, <1>4 DEF AppendReadTip, TreeInv, WireContinues, OneTree, AckedStored
  <2>5. QED
    BY <2>3, <2>4 DEF TreeInv
<1>5. CASE AppendInsert(a)
  <2>1. /\ NewRow(a) \in Rows
        /\ NewRow(a).rowHash = EventRowHash(NewRow(a))
        /\ Continues(NewRow(a).seq, NewRow(a).prevHash, rows)
    BY <1>5, NewRowContinues DEF AppendInsert, TreeInv
  <2>2. rows' = Append(rows, NewRow(a))
    BY <1>5 DEF AppendInsert
  <2>3. OneTree' /\ Grows(rows, rows')
    BY <1>2, <2>1, <2>2, TreeGrows DEF TreeInv
  <2>4. WireContinues'
    BY <1>5, <2>3, WireStays DEF AppendInsert, TreeInv
  <2>5. TipIsStored'
    <3>1. SUFFICES ASSUME NEW b \in Appends, pc'[b] = "read"
                   PROVE  Continues(tip'[b].seq + 1, tip'[b].hash, rows')
      BY DEF TipIsStored
    <3>2. pc[b] = "read" /\ tip' = tip
      BY <1>1, <1>5, <3>1 DEF AppendInsert, Release
    <3>3. Continues(tip[b].seq + 1, tip[b].hash, rows)
      BY <3>2 DEF TreeInv, TipIsStored
    <3>4. QED
      BY <2>3, <3>2, <3>3, ContinuesStays
  <2>6. AckedStored'
    <3>1. SUFFICES ASSUME NEW b \in Appends, pc'[b] = "ok"
                   PROVE  \E k \in DOMAIN rows' : rows'[k].body = b
      BY DEF AckedStored
    <3>2. CASE b = a
      <4>1. Len(rows) + 1 \in DOMAIN rows' /\ rows'[Len(rows) + 1] = NewRow(a)
        BY <1>2, <2>1, <2>2, InsertGrows
      <4>2. QED
        BY <3>2, <4>1 DEF NewRow
    <3>3. CASE b # a
      <4>1. pc[b] = "ok"
        BY <1>1, <1>5, <3>1, <3>3 DEF AppendInsert, Release
      <4>2. QED
        BY <2>3, <4>1 DEF TreeInv, AckedStored, Grows
    <3>4. QED
      BY <3>2, <3>3
  <2>7. QED
    BY <2>3, <2>4, <2>5, <2>6 DEF TreeInv
<1>6. CASE AppendFail(a)
  BY <1>1, <1>6 DEF AppendFail, Fail, Release, TreeInv, TipIsStored, WireContinues, OneTree,
                    AckedStored
<1>7. CASE AppendAbandon(a)
  <2>1. /\ NewRow(a).rowHash = EventRowHash(NewRow(a))
        /\ Continues(NewRow(a).seq, NewRow(a).prevHash, rows)
    BY <1>7, NewRowContinues DEF AppendAbandon, TreeInv
  <2>2. WireContinues'
    BY <1>7, <2>1 DEF AppendAbandon, InsertRow, TreeInv, WireContinues
  <2>3. TipIsStored' /\ OneTree' /\ AckedStored'
    BY <1>1, <1>7 DEF AppendAbandon, Release, TreeInv, TipIsStored, OneTree, AckedStored
  <2>4. QED
    BY <2>2, <2>3 DEF TreeInv
<1>8. QED
  BY <1>3, <1>4, <1>5, <1>6, <1>7 DEF Append_

\* Seals touch no row; what one leaves on the wire is a checkpoint.
LEMMA TreeSeal ==
  ASSUME LedgerAssumption, TypeOK, TreeInv, NEW s \in Seals, Seal(s)
  PROVE  TreeInv'
<1>1. \A a \in Appends : a # s
  BY DEF LedgerAssumption
<1>2. pc \in [Calls -> {"waiting", "locked", "bounded", "resolved", "anchored",
                        "read", "ok", "failed"}]
      /\ s \in Calls /\ Appends \subseteq Calls
  BY DEF TypeOK, Calls, Holders
<1>3. UNCHANGED <<rows, tip>> /\ \A a \in Appends : pc'[a] = pc[a]
  BY <1>1, <1>2 DEF Seal, SealLock, SealTo, SealFrom, SealRead, SealInsert, SealFail,
                    SealAbandon, Acquire, Release, Fail
<1>4. \A i \in wire' : i \in wire \/ i.table = "checkpoint"
  BY DEF Seal, SealLock, SealTo, SealFrom, SealRead, SealInsert, SealFail, SealAbandon,
         Release, Fail, InsertCheckpoint
<1>5. WireContinues'
  BY <1>3, <1>4 DEF TreeInv, WireContinues
<1>6. TipIsStored' /\ OneTree' /\ AckedStored'
  BY <1>3 DEF TreeInv, TipIsStored, OneTree, AckedStored
<1>7. QED
  BY <1>5, <1>6 DEF TreeInv

\* Verify touches neither rows nor wire.
LEMMA TreeAudit ==
  ASSUME LedgerAssumption, TypeOK, TreeInv, NEW v \in Audits, Audit(v)
  PROVE  TreeInv'
<1>1. \A a \in Appends : a # v
  BY DEF LedgerAssumption, Holders
<1>2. pc \in [Calls -> {"waiting", "locked", "bounded", "resolved", "anchored",
                        "read", "ok", "failed"}]
      /\ v \in Calls /\ Appends \subseteq Calls
  BY DEF TypeOK, Calls, Holders
<1>3. UNCHANGED <<rows, tip, wire>> /\ \A a \in Appends : pc'[a] = pc[a]
  BY <1>1, <1>2 DEF Audit, AuditTip, AuditEmpty, AuditAnchor, AuditChain, AuditFail
<1>4. QED
  BY <1>3 DEF TreeInv, TipIsStored, WireContinues, OneTree, AckedStored

\* A late INSERT hangs its row below a row that has been there all along.
LEMMA TreeWire ==
  ASSUME TypeOK, TreeInv, NEW i \in wire, Execute(i) \/ Discard(i)
  PROVE  TreeInv'
<1>1. wire' \subseteq wire /\ UNCHANGED <<pc, tip>>
  BY DEF Execute, Discard
<1>2. OneTree' /\ Grows(rows, rows')
  <2>1. CASE i.table = "ledger_event" /\ rows' = Append(rows, i.row)
    <3>1. i.row \in Rows
      BY <2>1 DEF TypeOK, Statements
    <3>2. i.row.rowHash = EventRowHash(i.row) /\ Continues(i.row.seq, i.row.prevHash, rows)
      BY <2>1 DEF TreeInv, WireContinues
    <3>3. QED
      BY <2>1, <3>1, <3>2, TreeGrows DEF TypeOK, TreeInv
  <2>2. CASE UNCHANGED rows
    BY <2>2 DEF TreeInv, OneTree, Grows
  <2>3. QED
    BY <2>1, <2>2 DEF Execute, Discard
<1>3. TipIsStored' /\ AckedStored'
  BY <1>1, <1>2, StoredStays DEF TreeInv
<1>4. WireContinues'
  BY <1>1, <1>2, WireStays DEF TreeInv
<1>5. QED
  BY <1>2, <1>3, <1>4 DEF TreeInv

\* Every step keeps the tree, late commits included.
LEMMA TreeNext == LedgerAssumption /\ TypeOK /\ TreeInv /\ [Next]_vars => TreeInv'
<1> SUFFICES ASSUME LedgerAssumption, TypeOK, TreeInv, [Next]_vars PROVE TreeInv'
  OBVIOUS
<1>1. CASE UNCHANGED vars
  BY <1>1 DEF vars, TreeInv, TipIsStored, WireContinues, OneTree, AckedStored
<1>2. ASSUME NEW a \in Appends, Append_(a) PROVE TreeInv'
  BY <1>2, TreeAppend
<1>3. ASSUME NEW s \in Seals, Seal(s) PROVE TreeInv'
  BY <1>3, TreeSeal
<1>4. ASSUME NEW v \in Audits, Audit(v) PROVE TreeInv'
  BY <1>4, TreeAudit
<1>5. ASSUME NEW i \in wire, Execute(i) \/ Discard(i) PROVE TreeInv'
  BY <1>5, TreeWire
<1>6. QED
  BY <1>1, <1>2, <1>3, <1>4, <1>5 DEF Next

\* The tree holds of every reachable state.
LEMMA TreeAlways == Spec => []TreeInv
<1>1. Spec => []TypeOK
  BY TypeCorrect
<1>2. QED
  BY <1>1, LedgerAssumption, TreeInit, TreeNext, PTL DEF Spec

(***************************************************************************)
(* Whatever INSERTs outlive their calls, every row carries its own hash    *)
(* and continues the genesis or an earlier row: the ledger may fork, but   *)
(* it is a tree with one root (writer.go Append).                          *)
(***************************************************************************)
THEOREM LedgerIsOneTree == Spec => []OneTree
<1>1. TreeInv => OneTree
  BY DEF TreeInv
<1>2. QED
  BY <1>1, TreeAlways, PTL

(***************************************************************************)
(* A call of Append that returned nil has its row in the ledger for good,  *)
(* whatever happens to the INSERTs of other calls (writer.go Append).      *)
(***************************************************************************)
THEOREM AckedRowsStay == Spec => []AckedStored
<1>1. TreeInv => AckedStored
  BY DEF TreeInv
<1>2. QED
  BY <1>1, TreeAlways, PTL

-----------------------------------------------------------------------------
(***************************************************************************)
(* The readers of the ledger, as long as no INSERT outlives its call: what *)
(* Verify reports, what SealCheckpoint signs, and the log that callers see *)
(* (AppendOnlyLog); for any number of calls and any ranges.                *)
(***************************************************************************)
(* A range of the chain *)

(***************************************************************************)
(* A strictly increasing walk of n steps through n consecutive rows takes  *)
(* them one by one, so ORDER BY seq has one answer on a chain              *)
(* (store EventsRange).                                                    *)
(***************************************************************************)
LEMMA IncreasingIsShift ==
  ASSUME NEW from \in Nat, NEW n \in Nat, NEW o \in [1 .. n -> from .. (from + n - 1)],
         \A j, k \in 1 .. n : j < k => o[j] < o[k]
  PROVE  \A k \in 1 .. n : o[k] = from + k - 1
<1>1. \A k \in 1 .. n : o[k] \in Int /\ from <= o[k] /\ o[k] <= from + n - 1
  OBVIOUS
<1>2. \A k \in 1 .. n : from + k - 1 <= o[k]
  <2> DEFINE Low == {k \in 1 .. n : o[k] < from + k - 1}
  <2>1. SUFFICES ASSUME NEW j \in 1 .. n, o[j] < from + j - 1 PROVE FALSE
    BY <1>1
  <2>2. Low \subseteq Nat /\ j \in Low
    BY <2>1
  <2>3. PICK k \in Low : \A i \in Low : k <= i
    BY <2>2, LeastNat
  <2>4. k \in 1 .. n /\ o[k] < from + k - 1
    OBVIOUS
  <2>5. CASE k = 1
    BY <1>1, <2>4, <2>5
  <2>6. CASE k # 1
    <3>1. k - 1 \in 1 .. n /\ k - 1 \notin Low
      BY <2>3, <2>4, <2>6
    <3>2. o[k - 1] >= from + (k - 1) - 1
      BY <1>1, <3>1
    <3>3. o[k - 1] < o[k]
      BY <2>4, <3>1
    <3>4. QED
      BY <1>1, <2>4, <3>1, <3>2, <3>3
  <2>7. QED
    BY <2>5, <2>6
<1>3. \A k \in 1 .. n : o[k] <= from + k - 1
  <2> DEFINE High == {m \in 0 .. n : n - m \in 1 .. n /\ o[n - m] > from + (n - m) - 1}
  <2>1. SUFFICES ASSUME NEW j \in 1 .. n, o[j] > from + j - 1 PROVE FALSE
    BY <1>1
  <2>2. n - j \in High
    <3>1. n - j \in 0 .. n /\ n - (n - j) = j
      OBVIOUS
    <3>2. QED
      BY <2>1, <3>1
  <2>3. High \subseteq Nat
    OBVIOUS
  <2>4. PICK m \in High : \A i \in High : m <= i
    BY <2>2, <2>3, LeastNat
  <2>5. m \in 0 .. n /\ n - m \in 1 .. n /\ o[n - m] > from + (n - m) - 1
    OBVIOUS
  <2>6. CASE m = 0
    BY <1>1, <2>5, <2>6
  <2>7. CASE m # 0
    <3>1. m - 1 \in 0 .. n /\ n - (m - 1) \in 1 .. n /\ ~(m <= m - 1)
      BY <2>5, <2>7
    <3>2. m - 1 \notin High
      BY <2>4, <3>1
    <3>3. o[n - (m - 1)] <= from + (n - (m - 1)) - 1
      BY <1>1, <3>1, <3>2
    <3>4. o[n - m] < o[n - (m - 1)]
      BY <2>5, <3>1
    <3>5. QED
      BY <1>1, <2>5, <3>1, <3>3, <3>4
  <2>8. QED
    BY <2>6, <2>7
<1>4. QED
  BY <1>1, <1>2, <1>3

\* The last row of a range that is there.
Reach(to) == IF to <= Len(rows) THEN to ELSE Len(rows)

\* The rows a range hits on a chain (store EventsRange).
LEMMA HitsOfChain ==
  ASSUME rows \in Seq(Rows), OneChain, NEW from \in Nat \ {0}, NEW to \in Nat
  PROVE  /\ {i \in DOMAIN rows : from <= rows[i].seq /\ rows[i].seq <= to}
               = from .. Reach(to)
         /\ Reach(to) \in Nat /\ Reach(to) <= Len(rows) /\ Reach(to) <= to
         /\ Cardinality(from .. Reach(to))
               = IF from > Reach(to) THEN 0 ELSE Reach(to) - from + 1
<1>1. DOMAIN rows = 1 .. Len(rows) /\ Len(rows) \in Nat
  BY LenProperties
<1>2. \A i \in DOMAIN rows : rows[i].seq = i
  BY DEF OneChain
<1>3. Reach(to) \in Nat /\ Reach(to) <= Len(rows) /\ Reach(to) <= to
  BY <1>1 DEF Reach
<1>4. {i \in DOMAIN rows : from <= rows[i].seq /\ rows[i].seq <= to} = from .. Reach(to)
  BY <1>1, <1>2 DEF Reach
<1>5. Cardinality(from .. Reach(to)) = IF from > Reach(to) THEN 0 ELSE Reach(to) - from + 1
  <2>1. from \in Int /\ Reach(to) \in Int
    BY <1>3
  <2>2. QED
    BY <2>1, FS_Interval, Zenon
<1>6. QED
  BY <1>3, <1>4, <1>5

\* On a chain a range query has one answer, the rows from..to that are there.
LEMMA RangeOfChain ==
  ASSUME rows \in Seq(Rows), OneChain, NEW from \in Nat \ {0}, NEW to \in Nat,
         NEW events \in EventsRange(from, to)
  PROVE  /\ events = [k \in 1 .. (Reach(to) - from + 1) |-> rows[from + k - 1]]
         /\ \A k \in 1 .. (Reach(to) - from + 1) : from + k - 1 \in DOMAIN rows
<1> DEFINE hit == {i \in DOMAIN rows : from <= rows[i].seq /\ rows[i].seq <= to}
           n == Cardinality(hit)
<1>1. DOMAIN rows = 1 .. Len(rows) /\ Len(rows) \in Nat
  BY LenProperties
<1>2. /\ hit = from .. Reach(to)
      /\ Reach(to) \in Nat /\ Reach(to) <= Len(rows)
      /\ n = IF from > Reach(to) THEN 0 ELSE Reach(to) - from + 1
  BY HitsOfChain
<1>3. PICK o \in [1 .. n -> hit] :
        /\ \A j, k \in DOMAIN o : j < k => /\ o[j] # o[k]
                                           /\ rows[o[j]].seq <= rows[o[k]].seq
        /\ events = [k \in DOMAIN o |-> rows[o[k]]]
  BY DEF EventsRange
<1> HIDE DEF hit, n
<1>4. n \in Nat /\ 1 .. n = 1 .. (Reach(to) - from + 1)
  BY <1>2
<1>5. o \in [1 .. n -> from .. (from + n - 1)]
  <2>1. CASE n = 0
    BY <2>1
  <2>2. CASE n # 0
    <3>1. hit = from .. (from + n - 1)
      BY <1>2, <2>2
    <3>2. QED
      BY <3>1
  <2>3. QED
    BY <2>1, <2>2
<1>6. \A j, k \in 1 .. n : j < k => o[j] < o[k]
  <2>1. SUFFICES ASSUME NEW j \in 1 .. n, NEW k \in 1 .. n, j < k PROVE o[j] < o[k]
    OBVIOUS
  <2>2. o[j] # o[k] /\ rows[o[j]].seq <= rows[o[k]].seq
    BY <1>3, <2>1
  <2>3. o[j] \in DOMAIN rows /\ o[k] \in DOMAIN rows
    BY DEF hit
  <2>4. rows[o[j]].seq = o[j] /\ rows[o[k]].seq = o[k]
    BY <2>3 DEF OneChain
  <2>5. QED
    BY <1>1, <2>2, <2>3, <2>4
<1>7. \A k \in 1 .. n : o[k] = from + k - 1
  BY <1>4, <1>5, <1>6, IncreasingIsShift
<1>8. events = [k \in 1 .. n |-> rows[from + k - 1]]
  BY <1>3, <1>7
<1>9. \A k \in 1 .. n : from + k - 1 \in DOMAIN rows
  BY <1>1, <1>2, <1>4
<1>10. QED
  BY <1>4, <1>8, <1>9

\* And it has that answer: a range that is there can be read in full.
LEMMA RangeIsThere ==
  ASSUME rows \in Seq(Rows), OneChain, NEW from \in Nat \ {0}, NEW to \in Nat,
         from <= to, to <= Len(rows)
  PROVE  [k \in 1 .. (to - from + 1) |-> rows[from + k - 1]] \in EventsRange(from, to)
<1> DEFINE hit == {i \in DOMAIN rows : from <= rows[i].seq /\ rows[i].seq <= to}
           n == Cardinality(hit)
           o == [k \in 1 .. n |-> from + k - 1]
<1>1. DOMAIN rows = 1 .. Len(rows) /\ Len(rows) \in Nat
  BY LenProperties
<1>2. Reach(to) = to
  BY DEF Reach
<1>3. hit = from .. to /\ n = to - from + 1
  <2>1. hit = from .. Reach(to)
    BY HitsOfChain
  <2>2. Cardinality(from .. Reach(to)) = IF from > Reach(to) THEN 0 ELSE Reach(to) - from + 1
    BY HitsOfChain
  <2>3. n = IF from > to THEN 0 ELSE to - from + 1
    BY <1>2, <2>1, <2>2
  <2>4. QED
    BY <1>2, <2>1, <2>3
<1> HIDE DEF hit, n
<1>4. o \in [1 .. n -> hit] /\ DOMAIN o = 1 .. n
  BY <1>3
<1>5. \A j, k \in DOMAIN o : j < k => o[j] # o[k] /\ rows[o[j]].seq <= rows[o[k]].seq
  <2>1. SUFFICES ASSUME NEW j \in 1 .. n, NEW k \in 1 .. n, j < k
                 PROVE  o[j] # o[k] /\ rows[o[j]].seq <= rows[o[k]].seq
    BY <1>4
  <2>2. o[j] = from + j - 1 /\ o[k] = from + k - 1
    OBVIOUS
  <2>3. from + j - 1 \in DOMAIN rows /\ from + k - 1 \in DOMAIN rows
    BY <1>1, <1>3
  <2>4. rows[from + j - 1].seq = from + j - 1 /\ rows[from + k - 1].seq = from + k - 1
    BY <2>3 DEF OneChain
  <2>5. QED
    BY <2>1, <2>2, <2>4
<1>6. [k \in DOMAIN o |-> rows[o[k]]] \in EventsRange(from, to)
  BY <1>4, <1>5 DEF EventsRange, hit, n
<1>7. [k \in DOMAIN o |-> rows[o[k]]] = [k \in 1 .. (to - from + 1) |-> rows[from + k - 1]]
  BY <1>3
<1>8. QED
  BY <1>6, <1>7

-----------------------------------------------------------------------------
(* Verify *)

\* The hash before a row of the table stays what it is while the table grows.
LEMMA HashBeforeStays ==
  ASSUME rows \in Seq(Rows), rows' \in Seq(Rows), Grows(rows, rows'),
         NEW from \in Nat \ {0}, from - 1 <= Len(rows)
  PROVE  /\ from - 1 <= Len(rows')
         /\ HashBefore(rows', GenesisPrevHash, from) = HashBefore(rows, GenesisPrevHash, from)
<1>1. /\ DOMAIN rows = 1 .. Len(rows) /\ Len(rows) \in Nat
      /\ DOMAIN rows' = 1 .. Len(rows') /\ Len(rows') \in Nat
  BY LenProperties
<1>2. CASE from = 1
  BY <1>1, <1>2 DEF HashBefore
<1>3. CASE from # 1
  <2>1. from - 1 \in DOMAIN rows
    BY <1>1, <1>3
  <2>2. from - 1 \in DOMAIN rows' /\ rows'[from - 1] = rows[from - 1]
    BY <2>1 DEF Grows
  <2>3. QED
    BY <1>1, <1>3, <2>2 DEF HashBefore
<1>4. QED
  BY <1>2, <1>3

\* The anchor of a range is the hash of the row before it (writer.go anchorHash).
LEMMA AnchorOfChain ==
  ASSUME rows \in Seq(Rows), OneChain, NEW from \in Nat \ {0}, NEW h \in AnchorHash(from)
  PROVE  from - 1 <= Len(rows) /\ h = HashBefore(rows, GenesisPrevHash, from)
<1>1. DOMAIN rows = 1 .. Len(rows) /\ Len(rows) \in Nat
  BY LenProperties
<1>2. CASE from = 1
  BY <1>1, <1>2 DEF AnchorHash, HashBefore
<1>3. CASE from # 1
  <2>1. PICK e \in EventsRange(from - 1, from - 1) : Len(e) = 1 /\ h = e[1].rowHash
    BY <1>3 DEF AnchorHash
  <2> DEFINE n == Reach(from - 1) - (from - 1) + 1
  <2>2. from - 1 \in Nat \ {0}
    BY <1>3
  <2>3. /\ e = [k \in 1 .. n |-> rows[(from - 1) + k - 1]]
        /\ \A k \in 1 .. n : (from - 1) + k - 1 \in DOMAIN rows
    BY <2>2, RangeOfChain
  <2>4. e \in Seq(Rows)
    BY <2>2, EventsRangeType
  <2>5. 1 \in 1 .. n
    <3>1. DOMAIN e = 1 .. Len(e)
      BY <2>4, LenProperties
    <3>2. 1 .. n = 1 .. 1
      BY <2>1, <2>3, <3>1
    <3>3. QED
      BY <3>2
  <2>6. e[1] = rows[from - 1] /\ from - 1 \in DOMAIN rows
    BY <2>3, <2>5
  <2>7. QED
    BY <1>1, <1>3, <2>1, <2>6 DEF HashBefore
<1>4. QED
  BY <1>2, <1>3

\* A segment of the chain, read with the hash before it, has no broken row.
LEMMA SegmentIsWhole ==
  ASSUME rows \in Seq(Rows), OneChain, NEW from \in Nat \ {0}, NEW to \in Nat,
         NEW events \in EventsRange(from, to)
  PROVE  VerifyChain(events, HashBefore(rows, GenesisPrevHash, from)) = 0
<1> DEFINE n == Reach(to) - from + 1
           h == HashBefore(rows, GenesisPrevHash, from)
<1>1. /\ events = [k \in 1 .. n |-> rows[from + k - 1]]
      /\ \A k \in 1 .. n : from + k - 1 \in DOMAIN rows
  BY RangeOfChain
<1>2. Reach(to) \in Nat
  BY HitsOfChain
<1>3. ASSUME NEW i \in DOMAIN events
      PROVE  /\ events[i].prevHash = HashBefore(events, h, i)
             /\ events[i].rowHash = EventRowHash(events[i])
  <2>1. i \in 1 .. n /\ events[i] = rows[from + i - 1] /\ from + i - 1 \in DOMAIN rows
    BY <1>1
  <2>2. /\ rows[from + i - 1].prevHash = HashBefore(rows, GenesisPrevHash, from + i - 1)
        /\ rows[from + i - 1].rowHash = EventRowHash(rows[from + i - 1])
    BY <2>1 DEF OneChain
  <2>3. HashBefore(rows, GenesisPrevHash, from + i - 1) = HashBefore(events, h, i)
    <3>1. CASE i = 1
      BY <3>1 DEF HashBefore
    <3>2. CASE i # 1
      <4>1. i - 1 \in 1 .. n /\ from + i - 1 # 1 /\ (from + i - 1) - 1 = from + (i - 1) - 1
        BY <1>2, <2>1, <3>2
      <4>2. events[i - 1] = rows[from + (i - 1) - 1]
        BY <1>1, <4>1
      <4>3. QED
        BY <3>2, <4>1, <4>2 DEF HashBefore
    <3>3. QED
      BY <3>1, <3>2
  <2>4. QED
    BY <2>1, <2>2, <2>3
<1>4. Broken(events, h) = {}
  BY <1>3 DEF Broken
<1>5. QED
  BY <1>4 DEF VerifyChain

\* No step takes a row away or changes one.
LEMMA RowsGrow ==
  ASSUME LedgerAssumption, TypeOK, [Next]_vars
  PROVE  Grows(rows, rows')
<1>1. rows \in Seq(Rows)
  BY DEF TypeOK
<1>2. CASE UNCHANGED rows
  BY <1>2 DEF Grows
<1>3. ASSUME NEW a \in Appends, Append_(a) PROVE Grows(rows, rows')
  <2>1. CASE AppendInsert(a)
    <3>1. NewRow(a) \in Rows
      BY NewRowType
    <3>2. rows' = Append(rows, NewRow(a))
      BY <2>1 DEF AppendInsert
    <3>3. QED
      BY <1>1, <3>1, <3>2, InsertGrows
  <2>2. CASE ~AppendInsert(a)
    <3>1. UNCHANGED rows
      BY <1>3, <2>2 DEF Append_, AppendLock, AppendReadTip, AppendFail, Fail, AppendAbandon
    <3>2. QED
      BY <1>2, <3>1
  <2>3. QED
    BY <2>1, <2>2
<1>4. ASSUME NEW s \in Seals, Seal(s) PROVE UNCHANGED rows
  BY <1>4 DEF Seal, SealLock, SealTo, SealFrom, SealRead, SealInsert, SealFail, Fail, SealAbandon
<1>5. ASSUME NEW v \in Audits, Audit(v) PROVE UNCHANGED rows
  BY <1>5 DEF Audit, AuditTip, AuditEmpty, AuditAnchor, AuditChain, AuditFail
<1>6. ASSUME NEW i \in wire, Execute(i) \/ Discard(i) PROVE Grows(rows, rows')
  <2>1. CASE i.table = "ledger_event" /\ rows' = Append(rows, i.row)
    <3>1. i.row \in Rows
      BY <2>1 DEF TypeOK, Statements
    <3>2. QED
      BY <1>1, <2>1, <3>1, InsertGrows
  <2>2. CASE UNCHANGED rows
    BY <1>2, <2>2
  <2>3. QED
    BY <1>6, <2>1, <2>2 DEF Execute, Discard
<1>7. CASE UNCHANGED vars
  BY <1>2, <1>7 DEF vars
<1>8. QED
  BY <1>2, <1>3, <1>4, <1>5, <1>6, <1>7 DEF Next

\* What AuditInv says of one call.
AuditOf(v) ==
    /\ pc[v] \in {"resolved", "anchored"} => span[v][1] >= 1
    /\ pc[v] = "anchored" =>
          /\ span[v][1] - 1 <= Len(rows)
          /\ anchor[v] = HashBefore(rows, GenesisPrevHash, span[v][1])
    /\ pc[v] = "ok" => badSeq[v] = 0

\* A step that does not touch a call of Verify keeps what it has found.
LEMMA AuditStays ==
  ASSUME TypeOK, TypeOK', Grows(rows, rows'), NEW v \in Audits, AuditOf(v),
         pc'[v] = pc[v], span'[v] = span[v], anchor'[v] = anchor[v], badSeq'[v] = badSeq[v]
  PROVE  AuditOf(v)'
<1>1. rows \in Seq(Rows) /\ rows' \in Seq(Rows) /\ span[v][1] \in Nat
  BY DEF TypeOK, Spans
<1>2. CASE pc[v] = "anchored"
  <2>1. /\ span[v][1] \in Nat \ {0} /\ span[v][1] - 1 <= Len(rows)
        /\ anchor[v] = HashBefore(rows, GenesisPrevHash, span[v][1])
    BY <1>1, <1>2 DEF AuditOf
  <2>2. PICK from \in Nat \ {0} : from = span[v][1]
    BY <2>1
  <2>3. /\ from - 1 <= Len(rows')
        /\ HashBefore(rows', GenesisPrevHash, from) = HashBefore(rows, GenesisPrevHash, from)
    BY <1>1, <2>1, <2>2, HashBeforeStays
  <2>4. QED
    BY <1>2, <2>1, <2>2, <2>3 DEF AuditOf
<1>3. CASE pc[v] # "anchored"
  BY <1>3 DEF AuditOf
<1>4. QED
  BY <1>2, <1>3

\* Each step of a call of Verify keeps what it has found.
LEMMA AuditMoves ==
  ASSUME LedgerAssumption, TypeOK, OneChain, NEW v \in Audits, Audit(v), AuditOf(v)
  PROVE  AuditOf(v)'
<1>1. /\ v \in Calls /\ v \in Seals \union Audits /\ rows \in Seq(Rows)
      /\ span[v][1] \in Nat /\ span[v][2] \in Nat
  BY DEF Calls, TypeOK, Spans
<1>2. /\ pc \in [Calls -> {"waiting", "locked", "bounded", "resolved", "anchored",
                           "read", "ok", "failed"}]
      /\ span \in [Seals \union Audits -> Spans]
      /\ anchor \in [Audits -> Digests]
      /\ badSeq \in [Audits -> Nat]
  BY DEF TypeOK
<1>3. CASE AuditTip(v)
  <2>1. PICK r \in AuditRanges, t \in Tips :
          span' = [span EXCEPT ![v] = <<IF r[1] < 1 THEN 1 ELSE r[1],
                                        IF r[2] = 0 THEN t.seq ELSE r[2]>>]
    BY <1>3 DEF AuditTip
  <2>2. r[1] \in Nat
    BY DEF LedgerAssumption, Spans
  <2>3. span'[v][1] = IF r[1] < 1 THEN 1 ELSE r[1]
    BY <1>1, <1>2, <2>1
  <2>4. pc'[v] = "resolved"
    BY <1>1, <1>2, <1>3 DEF AuditTip
  <2>5. QED
    BY <2>2, <2>3, <2>4 DEF AuditOf
<1>4. CASE AuditEmpty(v)
  <2>1. pc'[v] = "ok" /\ badSeq'[v] = 0
    BY <1>1, <1>2, <1>4 DEF AuditEmpty
  <2>2. QED
    BY <2>1 DEF AuditOf
<1>5. CASE AuditAnchor(v)
  <2>1. PICK from \in Nat \ {0} : from = span[v][1]
    BY <1>1, <1>5 DEF AuditAnchor, AuditOf
  <2>2. PICK h \in AnchorHash(from) : anchor' = [anchor EXCEPT ![v] = h]
    BY <1>5, <2>1 DEF AuditAnchor
  <2>3. from - 1 <= Len(rows) /\ h = HashBefore(rows, GenesisPrevHash, from)
    BY <1>1, AnchorOfChain
  <2>4. /\ pc'[v] = "anchored" /\ anchor'[v] = h
        /\ span'[v][1] = from /\ rows' = rows
    BY <1>1, <1>2, <1>5, <2>1, <2>2 DEF AuditAnchor
  <2>5. QED
    BY <2>3, <2>4 DEF AuditOf
<1>6. CASE AuditChain(v)
  <2>1. PICK from \in Nat \ {0}, to \in Nat : from = span[v][1] /\ to = span[v][2]
    BY <1>1, <1>6 DEF AuditChain, AuditOf
  <2>2. anchor[v] = HashBefore(rows, GenesisPrevHash, from)
    BY <1>6, <2>1 DEF AuditChain, AuditOf
  <2>3. PICK events \in EventsRange(from, to) :
          badSeq' = [badSeq EXCEPT ![v] = VerifyChain(events, anchor[v])]
    BY <1>6, <2>1 DEF AuditChain
  <2>4. VerifyChain(events, HashBefore(rows, GenesisPrevHash, from)) = 0
    BY <1>1, SegmentIsWhole
  <2>5. pc'[v] = "ok" /\ badSeq'[v] = 0
    BY <1>1, <1>2, <1>6, <2>2, <2>3, <2>4 DEF AuditChain
  <2>6. QED
    BY <2>5 DEF AuditOf
<1>7. CASE AuditFail(v)
  <2>1. pc'[v] = "failed"
    BY <1>1, <1>2, <1>7 DEF AuditFail
  <2>2. QED
    BY <2>1 DEF AuditOf
<1>8. QED
  BY <1>3, <1>4, <1>5, <1>6, <1>7 DEF Audit

\* Only its own steps touch a call of Verify.
LEMMA AuditIsAlone ==
  ASSUME LedgerAssumption, TypeOK, [Next]_vars, NEW v \in Audits
  PROVE  \/ Audit(v)
         \/ /\ pc'[v] = pc[v] /\ span'[v] = span[v]
            /\ anchor'[v] = anchor[v] /\ badSeq'[v] = badSeq[v]
<1>1. pc \in [Calls -> {"waiting", "locked", "bounded", "resolved", "anchored",
                        "read", "ok", "failed"}]
      /\ span \in [Seals \union Audits -> Spans]
      /\ anchor \in [Audits -> Digests] /\ badSeq \in [Audits -> Nat]
  BY DEF TypeOK
<1>2. v \notin Holders /\ v \in Calls /\ v \notin Appends /\ v \notin Seals
  BY DEF LedgerAssumption, Calls, Holders
<1>3. ASSUME NEW a \in Appends, Append_(a)
      PROVE  pc'[v] = pc[v] /\ UNCHANGED <<span, anchor, badSeq>>
  BY <1>1, <1>2, <1>3 DEF Append_, AppendLock, Acquire, AppendReadTip, AppendInsert, Release,
                          AppendFail, Fail, AppendAbandon
<1>4. ASSUME NEW s \in Seals, Seal(s)
      PROVE  pc'[v] = pc[v] /\ span'[v] = span[v] /\ UNCHANGED <<anchor, badSeq>>
  <2>1. pc'[v] = pc[v]
    BY <1>1, <1>2, <1>4 DEF Seal, SealLock, Acquire, SealTo, SealFrom, SealRead, SealInsert,
                            Release, SealFail, Fail, SealAbandon
  <2>2. span'[v] = span[v]
    BY <1>1, <1>2, <1>4 DEF Seal, SealLock, SealTo, SealFrom, SealRead, SealInsert,
                            SealFail, Fail, SealAbandon
  <2>3. UNCHANGED <<anchor, badSeq>>
    BY <1>4 DEF Seal, SealLock, SealTo, SealFrom, SealRead, SealInsert,
                SealFail, Fail, SealAbandon
  <2>4. QED
    BY <2>1, <2>2, <2>3
<1>5. ASSUME NEW w \in Audits, w # v, Audit(w)
      PROVE  pc'[v] = pc[v] /\ span'[v] = span[v] /\ anchor'[v] = anchor[v]
             /\ badSeq'[v] = badSeq[v]
  <2>1. pc'[v] = pc[v] /\ span'[v] = span[v]
    BY <1>1, <1>2, <1>5 DEF Audit, AuditTip, AuditEmpty, AuditAnchor, AuditChain, AuditFail
  <2>2. anchor'[v] = anchor[v] /\ badSeq'[v] = badSeq[v]
    BY <1>1, <1>5 DEF Audit, AuditTip, AuditEmpty, AuditAnchor, AuditChain, AuditFail
  <2>3. QED
    BY <2>1, <2>2
<1>6. ASSUME NEW i \in wire, Execute(i) \/ Discard(i)
      PROVE  UNCHANGED <<pc, span, anchor, badSeq>>
  BY <1>6 DEF Execute, Discard
<1>7. CASE UNCHANGED vars
  BY <1>7 DEF vars
<1>8. QED
  BY <1>3, <1>4, <1>5, <1>6, <1>7 DEF Next

\* No call has verified anything at first.
LEMMA AuditInit == Init => AuditInv
<1> SUFFICES ASSUME Init, NEW v \in Audits PROVE AuditOf(v)
  BY DEF AuditInv, AuditOf
<1>1. pc[v] = "waiting"
  BY DEF Init, Calls
<1>2. QED
  BY <1>1 DEF AuditOf

\* Every step keeps what calls of Verify have found.
LEMMA AuditNext ==
  ASSUME LedgerAssumption, TypeOK, TypeOK', ChainInv, AuditInv, [Next]_vars
  PROVE  AuditInv'
<1> SUFFICES ASSUME NEW v \in Audits PROVE AuditOf(v)'
  BY DEF AuditInv, AuditOf
<1>1. AuditOf(v)
  BY DEF AuditInv, AuditOf
<1>2. Grows(rows, rows')
  BY RowsGrow
<1>3. CASE Audit(v)
  BY <1>1, <1>3, AuditMoves DEF ChainInv
<1>4. CASE /\ pc'[v] = pc[v] /\ span'[v] = span[v]
           /\ anchor'[v] = anchor[v] /\ badSeq'[v] = badSeq[v]
  BY <1>1, <1>2, <1>4, AuditStays
<1>5. QED
  BY <1>3, <1>4, AuditIsAlone

(***************************************************************************)
(* Verify takes no lock, so rows are appended between its queries.  It     *)
(* still never reports a broken row of a ledger nobody has altered: the    *)
(* rows it reads continue the anchor it has read (writer.go Verify).       *)
(***************************************************************************)
THEOREM VerifyNeverCriesWolf ==
  ASSUME ~LateCommit
  PROVE  Spec => []NoFalseAlarm
<1>1. Init => AuditInv
  BY AuditInit
<1>2. /\ TypeOK /\ ChainInv /\ AuditInv /\ TypeOK' /\ [Next]_vars
      => AuditInv'
  BY LedgerAssumption, AuditNext
<1>3. Spec => [](TypeOK /\ ChainInv)
  BY ChainAlways
<1>4. AuditInv => NoFalseAlarm
  BY DEF AuditInv, NoFalseAlarm
<1>5. QED
  BY <1>1, <1>2, <1>3, <1>4, PTL DEF Spec

-----------------------------------------------------------------------------
(* SealCheckpoint *)

\* The hashes of rows that are there stay what they are while the table grows.
LEMMA HashesStay ==
  ASSUME rows \in Seq(Rows), rows' \in Seq(Rows), Grows(rows, rows'),
         NEW from \in Nat \ {0}, NEW to \in Nat, to <= Len(rows)
  PROVE  to <= Len(rows') /\ HashesOf(from, to)' = HashesOf(from, to)
<1>1. /\ DOMAIN rows = 1 .. Len(rows) /\ Len(rows) \in Nat
      /\ DOMAIN rows' = 1 .. Len(rows') /\ Len(rows') \in Nat
  BY LenProperties
<1>2. Len(rows) <= Len(rows')
  <2>1. CASE Len(rows) = 0
    BY <1>1, <2>1
  <2>2. CASE Len(rows) # 0
    <3>1. Len(rows) \in DOMAIN rows'
      BY <1>1, <2>2 DEF Grows
    <3>2. QED
      BY <1>1, <3>1
  <2>3. QED
    BY <2>1, <2>2
<1>3. \A j \in 1 .. (to - from + 1) : rows'[from + j - 1] = rows[from + j - 1]
  BY <1>1 DEF Grows
<1>4. [j \in 1 .. (to - from + 1) |-> rows'[from + j - 1].rowHash]
        = [j \in 1 .. (to - from + 1) |-> rows[from + j - 1].rowHash]
  BY <1>3, Zenon
<1>5. HashesOf(from, to)' = HashesOf(from, to)
  BY <1>4 DEF HashesOf
<1>6. QED
  BY <1>1, <1>2, <1>5

\* What SealCheckpoint reads for a full range are the hashes of that range.
LEMMA SealReadsRange ==
  ASSUME rows \in Seq(Rows), OneChain, NEW from \in Nat \ {0}, NEW to \in Nat, from <= to,
         NEW events \in EventsRange(from, to), Len(events) = to - from + 1
  PROVE  /\ to <= Len(rows)
         /\ [k \in DOMAIN events |-> events[k].rowHash] = HashesOf(from, to)
<1> DEFINE n == Reach(to) - from + 1
<1>1. events = [k \in 1 .. n |-> rows[from + k - 1]]
  BY RangeOfChain
<1>2. Reach(to) \in Nat /\ Reach(to) <= Len(rows) /\ Len(rows) \in Nat
  BY HitsOfChain, LenProperties
<1>3. 1 .. n = 1 .. (to - from + 1)
  <2>1. events \in Seq(Rows)
    BY EventsRangeType
  <2>2. DOMAIN events = 1 .. Len(events)
    BY <2>1, LenProperties
  <2>3. QED
    BY <1>1, <2>2
<1>4. n = to - from + 1
  <2>1. to - from + 1 \in 1 .. n
    <3>1. to - from + 1 \in 1 .. (to - from + 1)
      OBVIOUS
    <3>2. QED
      BY <1>3, <3>1, Zenon
  <2>2. n \in 1 .. (to - from + 1)
    BY <1>2, <1>3, <2>1
  <2>3. QED
    BY <1>2, <2>1, <2>2
<1>5. to <= Len(rows)
  BY <1>2, <1>4
<1>6. [k \in DOMAIN events |-> events[k].rowHash] = HashesOf(from, to)
  BY <1>1, <1>3 DEF HashesOf
<1>7. QED
  BY <1>5, <1>6

\* A checkpoint of rows that are there says what SealsHold asks for.
LEMMA SealedRowsHold ==
  ASSUME TypeOK, OneChain, SealedRows
  PROVE  SealsHold
<1>1. rows \in Seq(Rows) /\ ckpts \in Seq(Checkpoints)
  BY DEF TypeOK
<1>2. SUFFICES ASSUME NEW k \in DOMAIN ckpts
               PROVE  \E events \in EventsRange(ckpts[k].from, ckpts[k].to) :
                        ckpts[k].root =
                          MerkleRoot([j \in DOMAIN events |-> events[j].rowHash])
  BY DEF SealedRows, SealsHold
<1>3. ckpts[k] \in Checkpoints
  BY <1>1, ElementOfSeq, LenProperties
<1>4. PICK from \in Nat, to \in Nat : from = ckpts[k].from /\ to = ckpts[k].to
  BY <1>3 DEF Checkpoints
<1>5. /\ from \in Nat \ {0} /\ from <= to /\ to <= Len(rows)
      /\ ckpts[k].root = MerkleRoot(HashesOf(from, to))
  BY <1>4 DEF SealedRows
<1> DEFINE events == [j \in 1 .. (to - from + 1) |-> rows[from + j - 1]]
<1>6. events \in EventsRange(from, to)
  BY <1>1, <1>5, RangeIsThere
<1>7. [j \in DOMAIN events |-> events[j].rowHash] = HashesOf(from, to)
  BY DEF HashesOf
<1>8. QED
  BY <1>4, <1>5, <1>6, <1>7

\* What SealInProgress says of one call.
SealOf(s) ==
    /\ pc[s] \in {"locked", "bounded"} => \E r \in SealRanges : r[1] = span[s][1]
    /\ pc[s] \in {"resolved", "read"} =>
          /\ 1 <= span[s][1] /\ span[s][1] <= span[s][2]
          /\ Begins(span[s][1])
    /\ pc[s] = "read" =>
          /\ span[s][2] <= Len(rows)
          /\ leaves[s] = HashesOf(span[s][1], span[s][2])

\* A step that leaves a call of SealCheckpoint and the seals alone keeps what the
\* call has read.
LEMMA SealStays ==
  ASSUME TypeOK, TypeOK', Grows(rows, rows'), NEW s \in Seals, SealOf(s),
         pc'[s] = pc[s], span'[s] = span[s], leaves'[s] = leaves[s],
         pc[s] \notin InProgress \/ ckpts' = ckpts
  PROVE  SealOf(s)'
<1>1. rows \in Seq(Rows) /\ rows' \in Seq(Rows)
      /\ span[s][1] \in Nat /\ span[s][2] \in Nat
  BY DEF TypeOK, Spans
<1>2. CASE pc[s] \notin InProgress
  BY <1>2 DEF SealOf, InProgress
<1>3. CASE ckpts' = ckpts
  <2>1. PICK from \in Nat, to \in Nat : from = span[s][1] /\ to = span[s][2]
    BY <1>1
  <2>2. Begins(from)' <=> Begins(from)
    BY <1>3 DEF Begins, NextUnsealed
  <2>3. CASE pc[s] = "read"
    <3>1. /\ from \in Nat \ {0} /\ from <= to /\ Begins(from) /\ to <= Len(rows)
          /\ leaves[s] = HashesOf(from, to)
      BY <2>1, <2>3 DEF SealOf
    <3>2. to <= Len(rows') /\ HashesOf(from, to)' = HashesOf(from, to)
      BY <1>1, <3>1, HashesStay
    <3>3. QED
      BY <2>1, <2>2, <2>3, <3>1, <3>2 DEF SealOf
  <2>4. CASE pc[s] # "read"
    BY <2>1, <2>2, <2>4 DEF SealOf
  <2>5. QED
    BY <2>3, <2>4
<1>4. QED
  BY <1>2, <1>3

\* The last seal ends at or after row 1, so the next begins at or after it.
LEMMA NextUnsealedStart ==
  ASSUME TypeOK, SealedRows
  PROVE  NextUnsealed \in Nat \ {0}
<1>1. NextUnsealed \in Nat
  BY NextUnsealedType
<1>2. CASE ckpts = << >>
  BY <1>2 DEF NextUnsealed
<1>3. CASE ckpts # << >>
  <2>1. Len(ckpts) \in Nat \ {0} /\ DOMAIN ckpts = 1 .. Len(ckpts)
    BY <1>3, EmptySeq, LenProperties DEF TypeOK
  <2>2. Len(ckpts) \in DOMAIN ckpts
    BY <2>1
  <2>3. ckpts[Len(ckpts)] \in Checkpoints
    BY <2>1, <2>2, ElementOfSeq DEF TypeOK
  <2>4. 1 <= ckpts[Len(ckpts)].from /\ ckpts[Len(ckpts)].from <= ckpts[Len(ckpts)].to
    BY <2>2 DEF SealedRows
  <2>5. QED
    BY <1>3, <2>3, <2>4 DEF NextUnsealed, Checkpoints
<1>4. QED
  BY <1>2, <1>3

\* Each step of a call of SealCheckpoint keeps what it has read.
LEMMA SealMoves ==
  ASSUME LedgerAssumption, TypeOK, OneChain, SealedRows, NEW s \in Seals, Seal(s), SealOf(s)
  PROVE  SealOf(s)'
<1>1. /\ s \in Calls /\ s \in Seals \union Audits /\ rows \in Seq(Rows)
      /\ span[s][1] \in Nat /\ span[s][2] \in Nat /\ span[s] = <<span[s][1], span[s][2]>>
  BY DEF Calls, Holders, TypeOK, Spans
<1>2. /\ pc \in [Calls -> {"waiting", "locked", "bounded", "resolved", "anchored",
                           "read", "ok", "failed"}]
      /\ span \in [Seals \union Audits -> Spans]
      /\ leaves \in [Seals -> Seq(Digests)]
  BY DEF TypeOK
<1>3. CASE SealLock(s)
  <2>1. PICK r \in SealRanges : span' = [span EXCEPT ![s] = r]
    BY <1>3 DEF SealLock
  <2>2. span'[s] = r /\ pc'[s] = "locked"
    BY <1>1, <1>2, <1>3, <2>1 DEF SealLock, Acquire
  <2>3. QED
    BY <2>2 DEF SealOf
<1>4. CASE SealTo(s)
  <2>1. PICK t \in Tips : span' = [span EXCEPT ![s][2] = IF @ = 0 THEN t.seq ELSE @]
    BY <1>4 DEF SealTo
  <2>2. span'[s][1] = span[s][1]
    BY <1>1, <1>2, <2>1
  <2>3. pc[s] = "locked" /\ pc'[s] = "bounded"
    BY <1>1, <1>2, <1>4 DEF SealTo
  <2>4. QED
    BY <2>2, <2>3 DEF SealOf
<1>5. CASE SealFrom(s)
  <2>1. PICK from \in Nat : from = IF span[s][1] = 0 THEN NextUnsealed ELSE span[s][1]
    BY <1>1, NextUnsealedType
  <2>2. /\ from <= span[s][2] /\ span' = [span EXCEPT ![s][1] = from]
        /\ pc[s] = "bounded" /\ pc' = [pc EXCEPT ![s] = "resolved"]
        /\ ckpts' = ckpts
    BY <1>5, <2>1 DEF SealFrom
  <2>3. span'[s][1] = from /\ span'[s][2] = span[s][2] /\ pc'[s] = "resolved"
    BY <1>1, <1>2, <2>2
  <2>4. 1 <= from
    BY <2>1, NextUnsealedStart, <1>1
  <2>5. Begins(from)
    <3>1. PICK r \in SealRanges : r[1] = span[s][1]
      BY <2>2 DEF SealOf
    <3>2. QED
      BY <2>1, <3>1 DEF Begins
  <2>6. Begins(from)'
    BY <2>2, <2>5 DEF Begins, NextUnsealed
  <2>7. QED
    BY <2>2, <2>3, <2>4, <2>6 DEF SealOf
<1>6. CASE SealRead(s)
  <2>1. PICK from \in Nat, to \in Nat : from = span[s][1] /\ to = span[s][2]
    BY <1>1
  <2>2. from \in Nat \ {0} /\ from <= to /\ Begins(from)
    BY <1>6, <2>1 DEF SealRead, SealOf
  <2>3. PICK events \in EventsRange(from, to) :
          /\ Len(events) = to - from + 1
          /\ leaves' = [leaves EXCEPT ![s] = [k \in DOMAIN events |-> events[k].rowHash]]
    BY <1>6, <2>1 DEF SealRead
  <2>4. to <= Len(rows) /\ [k \in DOMAIN events |-> events[k].rowHash] = HashesOf(from, to)
    BY <1>1, <2>2, <2>3, SealReadsRange
  <2>5. /\ pc'[s] = "read" /\ leaves'[s] = HashesOf(from, to) /\ span'[s] = span[s]
        /\ rows' = rows /\ ckpts' = ckpts
    BY <1>1, <1>2, <1>6, <2>3, <2>4 DEF SealRead
  <2>6. HashesOf(from, to)' = HashesOf(from, to) /\ Begins(from)'
    BY <2>2, <2>5 DEF HashesOf, Begins, NextUnsealed
  <2>7. QED
    BY <2>1, <2>2, <2>4, <2>5, <2>6 DEF SealOf
<1>7. CASE SealInsert(s) \/ SealFail(s) \/ SealAbandon(s)
  <2>1. pc'[s] \in {"ok", "failed"}
    BY <1>1, <1>2, <1>7 DEF SealInsert, SealFail, Fail, SealAbandon, Release
  <2>2. QED
    BY <2>1 DEF SealOf
<1>8. QED
  BY <1>3, <1>4, <1>5, <1>6, <1>7 DEF Seal

\* Only its own steps touch a call of SealCheckpoint, and while it holds the mutex
\* nobody else inserts a checkpoint.
LEMMA SealIsAlone ==
  ASSUME LedgerAssumption, TypeOK, ChainInv, ~LateCommit, [Next]_vars, NEW s \in Seals
  PROVE  \/ Seal(s)
         \/ /\ pc'[s] = pc[s] /\ span'[s] = span[s] /\ leaves'[s] = leaves[s]
            /\ pc[s] \notin InProgress \/ ckpts' = ckpts
<1>1. pc \in [Calls -> {"waiting", "locked", "bounded", "resolved", "anchored",
                        "read", "ok", "failed"}]
      /\ span \in [Seals \union Audits -> Spans]
      /\ leaves \in [Seals -> Seq(Digests)]
  BY DEF TypeOK
<1>2. s \in Holders /\ s \in Calls /\ s \notin Appends /\ s \notin Audits
  BY DEF LedgerAssumption, Calls, Holders
<1>3. ASSUME NEW a \in Appends, Append_(a)
      PROVE  pc'[s] = pc[s] /\ UNCHANGED <<span, leaves, ckpts>>
  BY <1>1, <1>2, <1>3 DEF Append_, AppendLock, Acquire, AppendReadTip, AppendInsert, Release,
                          AppendFail, Fail, AppendAbandon
<1>4. ASSUME NEW t \in Seals, t # s, Seal(t)
      PROVE  /\ pc'[s] = pc[s] /\ span'[s] = span[s] /\ leaves'[s] = leaves[s]
             /\ pc[s] \notin InProgress \/ ckpts' = ckpts
  <2>1. pc'[s] = pc[s]
    BY <1>1, <1>2, <1>4 DEF Seal, SealLock, Acquire, SealTo, SealFrom, SealRead, SealInsert,
                            Release, SealFail, Fail, SealAbandon
  <2>2. span'[s] = span[s] /\ leaves'[s] = leaves[s]
    BY <1>1, <1>4 DEF Seal, SealLock, SealTo, SealFrom, SealRead, SealInsert,
                      SealFail, Fail, SealAbandon
  <2>3. CASE SealInsert(t)
    <3>1. t \in Holders /\ pc[t] = "read"
      BY <2>3 DEF SealInsert, Holders
    <3>2. mu = t
      BY <3>1 DEF ChainInv, MutexInv, InProgress
    <3>3. pc[s] \notin InProgress
      BY <1>2, <1>4, <3>2 DEF ChainInv, MutexInv
    <3>4. QED
      BY <2>1, <2>2, <3>3
  <2>4. CASE ~SealInsert(t)
    <3>1. ckpts' = ckpts
      BY <1>4, <2>4 DEF Seal, SealLock, SealTo, SealFrom, SealRead, SealFail, Fail, SealAbandon
    <3>2. QED
      BY <2>1, <2>2, <3>1
  <2>5. QED
    BY <2>3, <2>4
<1>5. ASSUME NEW v \in Audits, Audit(v)
      PROVE  pc'[s] = pc[s] /\ span'[s] = span[s] /\ leaves' = leaves /\ ckpts' = ckpts
  BY <1>1, <1>2, <1>5 DEF Audit, AuditTip, AuditEmpty, AuditAnchor, AuditChain, AuditFail
<1>6. wire = {}
  BY DEF ChainInv, WireIsEmpty
<1>7. CASE UNCHANGED vars
  BY <1>7 DEF vars
<1>8. QED
  BY <1>3, <1>4, <1>5, <1>6, <1>7 DEF Next

\* A checkpoint stays the root of its rows while the table grows.
LEMMA SealedRowsStay ==
  ASSUME TypeOK, TypeOK', Grows(rows, rows'), SealedRows, ckpts' = ckpts
  PROVE  SealedRows'
<1>1. rows \in Seq(Rows) /\ rows' \in Seq(Rows) /\ ckpts \in Seq(Checkpoints)
  BY DEF TypeOK
<1>2. ASSUME NEW k \in DOMAIN ckpts
      PROVE  /\ ckpts[k].to <= Len(rows')
             /\ ckpts[k].root = MerkleRoot(HashesOf(ckpts[k].from, ckpts[k].to))'
  <2>1. ckpts[k] \in Checkpoints
    BY <1>1, ElementOfSeq, LenProperties
  <2>2. PICK from \in Nat, to \in Nat : from = ckpts[k].from /\ to = ckpts[k].to
    BY <2>1 DEF Checkpoints
  <2>3. from \in Nat \ {0} /\ to <= Len(rows) /\ ckpts[k].root = MerkleRoot(HashesOf(from, to))
    BY <2>2 DEF SealedRows
  <2>4. to <= Len(rows') /\ HashesOf(from, to)' = HashesOf(from, to)
    BY <1>1, <2>3, HashesStay
  <2>5. ckpts'[k].from = from /\ ckpts'[k].to = to
    BY <2>2
  <2>6. HashesOf(ckpts[k].from, ckpts[k].to)' = HashesOf(from, to)'
    BY <2>5 DEF HashesOf
  <2>7. QED
    BY <2>2, <2>3, <2>4, <2>6 DEF MerkleRoot
<1>3. \A k \in DOMAIN ckpts' :
        ckpts'[k].root = MerkleRoot(HashesOf(ckpts[k].from, ckpts[k].to))'
  BY <1>2
<1> SUFFICES ASSUME NEW k \in DOMAIN ckpts'
             PROVE
        /\ 1 <= ckpts'[k].from /\ ckpts'[k].from <= ckpts'[k].to /\ ckpts'[k].to <= Len(rows')
        /\ ckpts'[k].root = MerkleRoot(HashesOf(ckpts[k].from, ckpts[k].to))'
        /\ \/ ckpts'[k].from = IF k = 1 THEN 1 ELSE ckpts'[k - 1].to + 1
           \/ \E r \in SealRanges : r[1] # 0 /\ r[1] = ckpts'[k].from
  BY DEF SealedRows
<1>4. /\ 1 <= ckpts[k].from /\ ckpts[k].from <= ckpts[k].to
      /\ \/ ckpts[k].from = IF k = 1 THEN 1 ELSE ckpts[k - 1].to + 1
         \/ \E r \in SealRanges : r[1] # 0 /\ r[1] = ckpts[k].from
  BY DEF SealedRows
<1>5. QED
  BY <1>2, <1>3, <1>4

\* A new checkpoint is the root of its rows and begins where it should.
LEMMA SealInserts ==
  ASSUME LedgerAssumption, TypeOK, SealedRows, NEW s \in Seals, SealOf(s), SealInsert(s)
  PROVE  SealedRows'
<1>1. rows \in Seq(Rows) /\ ckpts \in Seq(Checkpoints)
      /\ span[s][1] \in Nat /\ span[s][2] \in Nat
  BY DEF TypeOK, Spans
<1>2. PICK from \in Nat, to \in Nat : from = span[s][1] /\ to = span[s][2]
  BY <1>1
<1>3. /\ 1 <= from /\ from <= to /\ to <= Len(rows) /\ Begins(from)
      /\ leaves[s] = HashesOf(from, to)
  BY <1>2 DEF SealInsert, SealOf
<1>4. PICK c \in Checkpoints : c = NewCheckpoint(s)
  BY NewCheckpointType
<1>5. c.from = from /\ c.to = to /\ c.root = MerkleRoot(HashesOf(from, to))
  BY <1>2, <1>3, <1>4 DEF NewCheckpoint
<1>6. ckpts' = Append(ckpts, c) /\ rows' = rows
  BY <1>4 DEF SealInsert
<1>7. /\ DOMAIN ckpts' = 1 .. (Len(ckpts) + 1)
      /\ DOMAIN ckpts = 1 .. Len(ckpts) /\ Len(ckpts) \in Nat
      /\ \A k \in DOMAIN ckpts : ckpts'[k] = ckpts[k]
      /\ ckpts'[Len(ckpts) + 1] = c
  BY <1>1, <1>6, InsertGrows DEF Grows
<1>8. SUFFICES ASSUME NEW k \in DOMAIN ckpts'
               PROVE
        /\ 1 <= ckpts'[k].from /\ ckpts'[k].from <= ckpts'[k].to /\ ckpts'[k].to <= Len(rows')
        /\ ckpts'[k].root = MerkleRoot(HashesOf(ckpts[k].from, ckpts[k].to))'
        /\ \/ ckpts'[k].from = IF k = 1 THEN 1 ELSE ckpts'[k - 1].to + 1
           \/ \E r \in SealRanges : r[1] # 0 /\ r[1] = ckpts'[k].from
  BY DEF SealedRows
<1>9. ASSUME NEW f, NEW t, ckpts'[k].from = f, ckpts'[k].to = t,
             ckpts'[k].root = MerkleRoot(HashesOf(f, t))
      PROVE  ckpts'[k].root = MerkleRoot(HashesOf(ckpts[k].from, ckpts[k].to))'
  <2>1. HashesOf(ckpts[k].from, ckpts[k].to)' = HashesOf(f, t)
    BY <1>6, <1>9 DEF HashesOf
  <2>2. QED
    BY <1>9, <2>1 DEF MerkleRoot
<1>10. CASE k \in DOMAIN ckpts
  <2>1. ckpts'[k] = ckpts[k]
    BY <1>7, <1>10
  <2>2. k # 1 => ckpts'[k - 1] = ckpts[k - 1]
    BY <1>7, <1>10
  <2>3. /\ 1 <= ckpts[k].from /\ ckpts[k].from <= ckpts[k].to /\ ckpts[k].to <= Len(rows)
        /\ ckpts[k].root = MerkleRoot(HashesOf(ckpts[k].from, ckpts[k].to))
        /\ \/ ckpts[k].from = IF k = 1 THEN 1 ELSE ckpts[k - 1].to + 1
           \/ \E r \in SealRanges : r[1] # 0 /\ r[1] = ckpts[k].from
    BY <1>10 DEF SealedRows
  <2>4. ckpts'[k].root = MerkleRoot(HashesOf(ckpts[k].from, ckpts[k].to))'
    BY <1>9, <2>1, <2>3
  <2>5. QED
    BY <1>6, <2>1, <2>2, <2>3, <2>4
<1>11. CASE k = Len(ckpts) + 1
  <2>1. ckpts'[k] = c
    BY <1>7, <1>11
  <2>2. ckpts'[k].root = MerkleRoot(HashesOf(ckpts[k].from, ckpts[k].to))'
    BY <1>5, <1>9, <2>1
  <2>3. NextUnsealed = IF k = 1 THEN 1 ELSE ckpts'[k - 1].to + 1
    <3>1. CASE ckpts = << >>
      BY <1>11, <3>1 DEF NextUnsealed
    <3>2. CASE ckpts # << >>
      <4>1. Len(ckpts) \in DOMAIN ckpts
        BY <1>1, <1>7, <3>2, EmptySeq
      <4>2. k # 1 /\ k - 1 = Len(ckpts)
        BY <1>7, <1>11, <4>1
      <4>3. QED
        BY <1>7, <3>2, <4>1, <4>2 DEF NextUnsealed
    <3>3. QED
      BY <3>1, <3>2
  <2>4. QED
    BY <1>3, <1>5, <1>6, <2>1, <2>2, <2>3 DEF Begins
<1>12. QED
  BY <1>7, <1>10, <1>11

\* No call has read or sealed anything at first.
LEMMA SealInit == Init => SealInv
<1> SUFFICES ASSUME Init PROVE SealInv
  OBVIOUS
<1>1. \A s \in Seals : pc[s] = "waiting"
  BY DEF Init, Calls, Holders
<1>2. SealInProgress
  BY <1>1 DEF SealInProgress
<1>3. SealedRows
  BY DEF Init, SealedRows
<1>4. QED
  BY <1>2, <1>3 DEF SealInv

\* Every step keeps what calls of SealCheckpoint have read and what they have sealed.
LEMMA SealNext ==
  ASSUME LedgerAssumption, TypeOK, TypeOK', ChainInv, SealInv, ~LateCommit, [Next]_vars
  PROVE  SealInv'
<1>1. Grows(rows, rows')
  BY RowsGrow
<1>2. SealInProgress'
  <2> SUFFICES ASSUME NEW s \in Seals PROVE SealOf(s)'
    BY DEF SealInProgress, SealOf
  <2>1. SealOf(s)
    BY DEF SealInv, SealInProgress, SealOf
  <2>2. CASE Seal(s)
    BY <2>1, <2>2, SealMoves DEF ChainInv, SealInv
  <2>3. CASE /\ pc'[s] = pc[s] /\ span'[s] = span[s] /\ leaves'[s] = leaves[s]
             /\ pc[s] \notin InProgress \/ ckpts' = ckpts
    BY <1>1, <2>1, <2>3, SealStays
  <2>4. QED
    BY <2>2, <2>3, SealIsAlone
<1>3. SealedRows'
  <2>1. ASSUME NEW s \in Seals, SealInsert(s) PROVE SealedRows'
    <3>1. SealOf(s) /\ SealedRows
      BY DEF SealInv, SealInProgress, SealOf
    <3>2. QED
      BY <2>1, <3>1, SealInserts
  <2>2. CASE \A s \in Seals : ~SealInsert(s)
    <3>1. ASSUME NEW a \in Appends, Append_(a) PROVE ckpts' = ckpts
      BY <3>1 DEF Append_, AppendLock, AppendReadTip, AppendInsert, AppendFail, Fail,
                  AppendAbandon
    <3>2. ASSUME NEW s \in Seals, Seal(s) PROVE ckpts' = ckpts
      BY <2>2, <3>2 DEF Seal, SealLock, SealTo, SealFrom, SealRead, SealFail, Fail, SealAbandon
    <3>3. ASSUME NEW v \in Audits, Audit(v) PROVE ckpts' = ckpts
      BY <3>3 DEF Audit, AuditTip, AuditEmpty, AuditAnchor, AuditChain, AuditFail
    <3>4. wire = {}
      BY DEF ChainInv, WireIsEmpty
    <3>5. ASSUME UNCHANGED vars PROVE ckpts' = ckpts
      BY <3>5 DEF vars
    <3>6. ckpts' = ckpts
      BY <3>1, <3>2, <3>3, <3>4, <3>5 DEF Next
    <3>7. QED
      BY <1>1, <3>6, SealedRowsStay DEF SealInv
  <2>3. QED
    BY <2>1, <2>2
<1>4. QED
  BY <1>2, <1>3 DEF SealInv

(***************************************************************************)
(* A checkpoint is the root of exactly the rows of its range, which were   *)
(* all there when it was taken and are there for good, and seals tile the  *)
(* ledger unless a caller asks for another first row (writer.go            *)
(* SealCheckpoint).                                                        *)
(***************************************************************************)
THEOREM CheckpointsHold ==
  ASSUME ~LateCommit
  PROVE  Spec => []SealsHold
<1>1. Init => SealInv
  BY SealInit
<1>2. TypeOK /\ ChainInv /\ SealInv /\ TypeOK' /\ [Next]_vars => SealInv'
  BY LedgerAssumption, SealNext
<1>3. Spec => [](TypeOK /\ ChainInv)
  BY ChainAlways
<1>4. TypeOK /\ ChainInv /\ SealInv => SealsHold
  BY SealedRowsHold DEF ChainInv, SealInv
<1>5. QED
  BY <1>1, <1>2, <1>3, <1>4, PTL DEF Spec

-----------------------------------------------------------------------------
(* The log that callers of Append see *)

\* The entry of the log a row stands for, and the answer a state of a call is.
LogOf(table) == [k \in DOMAIN table |-> table[k].body]

AnswerOf(states) ==
    [a \in Appends |-> IF states[a] \in {"ok", "failed"} THEN states[a] ELSE "none"]

\* Each step of Append is a step of the log, or shows nothing of itself.
LEMMA AppendRefines ==
  ASSUME LedgerAssumption, TypeOK, ~LateCommit, NEW a \in Appends, Append_(a)
  PROVE  \/ /\ AnswerOf(pc)[a] = "none"
            /\ LogOf(rows') = Append(LogOf(rows), a)
            /\ AnswerOf(pc') = [AnswerOf(pc) EXCEPT ![a] = "ok"]
         \/ /\ AnswerOf(pc)[a] = "none"
            /\ LogOf(rows') = LogOf(rows)
            /\ AnswerOf(pc') = [AnswerOf(pc) EXCEPT ![a] = "failed"]
         \/ LogOf(rows') = LogOf(rows) /\ AnswerOf(pc') = AnswerOf(pc)
<1>1. /\ pc \in [Calls -> {"waiting", "locked", "bounded", "resolved", "anchored",
                           "read", "ok", "failed"}]
      /\ a \in Calls /\ Appends \subseteq Calls /\ rows \in Seq(Rows)
  BY DEF TypeOK, Calls, Holders
<1>2. CASE AppendLock(a) \/ AppendReadTip(a)
  <2>1. rows' = rows /\ pc[a] \in {"waiting", "locked"}
    BY <1>2 DEF AppendLock, Acquire, AppendReadTip
  <2>2. \E x \in {"locked", "read"} : pc' = [pc EXCEPT ![a] = x]
    BY <1>2 DEF AppendLock, Acquire, AppendReadTip
  <2>3. AnswerOf(pc') = AnswerOf(pc)
    BY <1>1, <2>1, <2>2 DEF AnswerOf
  <2>4. QED
    BY <2>1, <2>3
<1>3. CASE AppendFail(a)
  <2>1. rows' = rows /\ pc[a] \in {"locked", "read"} /\ pc' = [pc EXCEPT ![a] = "failed"]
    BY <1>3 DEF AppendFail, Fail, Release
  <2>2. AnswerOf(pc)[a] = "none"
    BY <2>1 DEF AnswerOf
  <2>3. AnswerOf(pc') = [AnswerOf(pc) EXCEPT ![a] = "failed"]
    BY <1>1, <2>1 DEF AnswerOf
  <2>4. QED
    BY <2>1, <2>2, <2>3
<1>4. CASE AppendInsert(a)
  <2>1. /\ rows' = Append(rows, NewRow(a)) /\ pc[a] = "read"
        /\ pc' = [pc EXCEPT ![a] = "ok"]
    BY <1>4 DEF AppendInsert, Release
  <2>2. AnswerOf(pc)[a] = "none"
    BY <2>1 DEF AnswerOf
  <2>3. AnswerOf(pc') = [AnswerOf(pc) EXCEPT ![a] = "ok"]
    BY <1>1, <2>1 DEF AnswerOf
  <2>4. PICK e \in Rows : e = NewRow(a) /\ e.body = a
    BY NewRowType DEF NewRow
  <2>5. /\ DOMAIN rows' = 1 .. (Len(rows) + 1)
        /\ DOMAIN rows = 1 .. Len(rows) /\ Len(rows) \in Nat
        /\ \A k \in 1 .. Len(rows) : rows'[k] = rows[k]
        /\ rows'[Len(rows) + 1] = e
    BY <1>1, <2>1, <2>4, InsertGrows DEF Grows
  <2>6. LogOf(rows) \in Seq(Bodies) /\ Len(LogOf(rows)) = Len(rows)
    <3>1. \A k \in 1 .. Len(rows) : rows[k].body \in Bodies
      <4>1. \A k \in 1 .. Len(rows) : rows[k] \in Rows
        BY <1>1, ElementOfSeq
      <4>2. QED
        BY <4>1 DEF Rows
    <3>2. LogOf(rows) \in [1 .. Len(rows) -> Bodies]
      BY <2>5, <3>1 DEF LogOf
    <3>3. LogOf(rows) \in Seq(Bodies) /\ DOMAIN LogOf(rows) = 1 .. Len(rows)
      BY <2>5, <3>2, SeqDef
    <3>4. QED
      BY <2>5, <3>3, LenProperties
  <2>7. a \in Bodies
    BY DEF LedgerAssumption
  <2>8. LogOf(rows') = Append(LogOf(rows), a)
    <3>1. /\ Append(LogOf(rows), a) \in Seq(Bodies)
          /\ Len(Append(LogOf(rows), a)) = Len(rows) + 1
          /\ \A k \in 1 .. Len(rows) : Append(LogOf(rows), a)[k] = LogOf(rows)[k]
          /\ Append(LogOf(rows), a)[Len(rows) + 1] = a
      BY <2>6, <2>7, AppendProperties
    <3>2. LogOf(rows') \in Seq(Bodies) /\ Len(LogOf(rows')) = Len(rows) + 1
      <4>1. \A k \in 1 .. (Len(rows) + 1) : rows'[k] \in Rows
        <5>1. \A k \in 1 .. Len(rows) : rows[k] \in Rows
          BY <1>1, ElementOfSeq
        <5>2. QED
          BY <2>5, <5>1
      <4>2. LogOf(rows') \in [1 .. (Len(rows) + 1) -> Bodies]
        BY <2>5, <4>1 DEF LogOf, Rows
      <4>3. LogOf(rows') \in Seq(Bodies) /\ DOMAIN LogOf(rows') = 1 .. (Len(rows) + 1)
        BY <2>5, <4>2, SeqDef
      <4>4. QED
        BY <2>5, <4>3, LenProperties
    <3>3. \A k \in 1 .. (Len(rows) + 1) : LogOf(rows')[k] = Append(LogOf(rows), a)[k]
      <4>1. LogOf(rows')[Len(rows) + 1] = a
        BY <2>4, <2>5 DEF LogOf
      <4>2. \A k \in 1 .. Len(rows) : LogOf(rows')[k] = LogOf(rows)[k]
        BY <2>5 DEF LogOf
      <4>3. QED
        BY <2>5, <3>1, <4>1, <4>2
    <3>4. QED
      BY <3>1, <3>2, <3>3, SeqEqual
  <2>9. QED
    BY <2>2, <2>3, <2>8
<1>5. CASE AppendAbandon(a)
  BY <1>5 DEF AppendAbandon
<1>6. QED
  BY <1>1, <1>2, <1>3, <1>4, <1>5 DEF Append_

\* Seals and audits show nothing in the log.
LEMMA OthersStutter ==
  ASSUME LedgerAssumption, TypeOK, NEW c \in Seals \union Audits,
         (c \in Seals /\ Seal(c)) \/ (c \in Audits /\ Audit(c))
  PROVE  rows' = rows /\ AnswerOf(pc') = AnswerOf(pc)
<1>1. c \notin Appends
  BY DEF LedgerAssumption, Holders
<1>2. /\ pc \in [Calls -> {"waiting", "locked", "bounded", "resolved", "anchored",
                           "read", "ok", "failed"}]
      /\ Appends \subseteq Calls
  BY DEF TypeOK, Calls, Holders
<1>3. ASSUME c \in Seals, Seal(c)
      PROVE  rows' = rows /\ \A a \in Appends : pc'[a] = pc[a]
  BY <1>1, <1>2, <1>3 DEF Seal, SealLock, Acquire, SealTo, SealFrom, SealRead, SealInsert,
                          Release, SealFail, Fail, SealAbandon
<1>4. ASSUME c \in Audits, Audit(c)
      PROVE  rows' = rows /\ \A a \in Appends : pc'[a] = pc[a]
  BY <1>1, <1>2, <1>4 DEF Audit, AuditTip, AuditEmpty, AuditAnchor, AuditChain, AuditFail
<1>5. QED
  BY <1>3, <1>4 DEF AnswerOf

\* At first the log is empty and nobody has an answer.
LEMMA LogInit == Init => Log!Init
<1> SUFFICES ASSUME Init PROVE Log!Init
  OBVIOUS
<1>1. \A a \in Appends : pc[a] = "waiting"
  BY DEF Init, Calls, Holders
<1>2. [k \in DOMAIN rows |-> rows[k].body] = << >>
  <2>1. rows = << >>
    BY DEF Init
  <2>2. QED
    BY <2>1
<1>3. QED
  BY <1>1, <1>2 DEF Log!Init

\* Every step of the writer is a step of the log or a stutter.
LEMMA LogNext ==
  ASSUME LedgerAssumption, TypeOK, ChainInv, ~LateCommit, [Next]_vars
  PROVE  [Log!Next]_(Log!vars)
<1>1. ASSUME LogOf(rows') = LogOf(rows), AnswerOf(pc') = AnswerOf(pc)
      PROVE  UNCHANGED Log!vars
  BY <1>1 DEF Log!vars, LogOf, AnswerOf
<1>2. ASSUME NEW a \in Appends, Append_(a) PROVE Log!Next \/ UNCHANGED Log!vars
  <2>1. CASE /\ AnswerOf(pc)[a] = "none"
             /\ LogOf(rows') = Append(LogOf(rows), a)
             /\ AnswerOf(pc') = [AnswerOf(pc) EXCEPT ![a] = "ok"]
    <3>1. Log!Commit(a)
      BY <2>1 DEF Log!Commit, LogOf, AnswerOf
    <3>2. QED
      BY <3>1 DEF Log!Next
  <2>2. CASE /\ AnswerOf(pc)[a] = "none"
             /\ LogOf(rows') = LogOf(rows)
             /\ AnswerOf(pc') = [AnswerOf(pc) EXCEPT ![a] = "failed"]
    <3>1. Log!Refuse(a)
      BY <2>2 DEF Log!Refuse, LogOf, AnswerOf
    <3>2. QED
      BY <3>1 DEF Log!Next
  <2>3. CASE LogOf(rows') = LogOf(rows) /\ AnswerOf(pc') = AnswerOf(pc)
    BY <1>1, <2>3
  <2>4. QED
    BY <1>2, <2>1, <2>2, <2>3, AppendRefines
<1>3. ASSUME NEW s \in Seals, Seal(s) PROVE UNCHANGED Log!vars
  BY <1>1, <1>3, OthersStutter
<1>4. ASSUME NEW v \in Audits, Audit(v) PROVE UNCHANGED Log!vars
  BY <1>1, <1>4, OthersStutter
<1>5. wire = {}
  BY DEF ChainInv, WireIsEmpty
<1>6. ASSUME UNCHANGED vars PROVE UNCHANGED Log!vars
  BY <1>1, <1>6 DEF vars
<1>7. QED
  BY <1>2, <1>3, <1>4, <1>5, <1>6 DEF Next

(***************************************************************************)
(* Writer.Append, with its mutex, its two queries and their failures,      *)
(* implements the log of AppendOnlyLog: entries and answers appear         *)
(* together, an entry at a time, and never go away (writer.go Append).     *)
(***************************************************************************)
THEOREM WriterImplementsLog ==
  ASSUME ~LateCommit
  PROVE  Spec => ImplementsLog
<1>1. Init => Log!Init
  BY LogInit
<1>2. TypeOK /\ ChainInv /\ [Next]_vars => [Log!Next]_(Log!vars)
  BY LedgerAssumption, LogNext
<1>3. Spec => [](TypeOK /\ ChainInv)
  BY ChainAlways
<1>4. QED
  BY <1>1, <1>2, <1>3, PTL DEF Spec, ImplementsLog, Log!Spec
===============================================================================
